------------------------- MODULE EvmScreeningProofs --------------------------
(***************************************************************************)
(* Proofs about EvmScreening: no address is lost on its way through the    *)
(* enricher loop, the cache never hides an address that has no row, and    *)
(* no more requests are in flight than there are permits.                  *)
(*                                                                         *)
(* Batches are in bags; the proofs use which elements a bag has after one  *)
(* came or went, and for the permits how many it has.                      *)
(***************************************************************************)
EXTENDS EvmScreening, DataFacts

LEMMA WithFact ==
    ASSUME NEW bag, IsABag(bag), NEW elem
    PROVE  IsABag(With(bag, elem)) /\ BagToSet(With(bag, elem)) = BagToSet(bag) \cup {elem}
BY BagPlusSet DEF With

LEMMA WithoutFact ==
    ASSUME NEW bag, IsABag(bag), NEW elem
    PROVE  /\ IsABag(Without(bag, elem))
           /\ BagToSet(Without(bag, elem)) \subseteq BagToSet(bag)
           /\ \A e \in BagToSet(bag) : e = elem \/ e \in BagToSet(Without(bag, elem))
BY BagMinusOne DEF Without
------------------------------------------------------------------------------
(***************************************************************************)
(* The inductive invariant.                                                *)
(***************************************************************************)
\* The addresses differ in more than their case: the loop compares lower case
\* spellings and saves the spelling it was sent.
DistinctAddresses == \A e, f \in Evms : Lower[e] = Lower[f] => e = f

Attempt == [evms : SUBSET Evms, count : 0 .. MaxRetries - 1]
Request == [evms : SUBSET Evms, ask : SUBSET Evms, count : 0 .. MaxRetries - 1]
Saving == [todo : SUBSET Evms, named : SUBSET Evms]

Shape ==
    /\ scores \in [Evms -> Score \cup {None}]
    /\ evm_sources \subseteq Evms /\ known \subseteq Evms
    /\ evm_channel \in Seq(Evms) /\ evm_queue \subseteq Evms
    /\ screening \in BOOLEAN /\ pinging \in BOOLEAN
    /\ IsABag(waiting) /\ IsABag(requests) /\ IsABag(saving)
    /\ \A b \in BagToSet(waiting) : b \in Attempt
    /\ \A r \in BagToSet(requests) : r \in Request
    /\ \A s \in BagToSet(saving) : s \in Saving
    /\ given_up \subseteq Evms

\* Before the connection nothing is queued, waiting or asked for, so that a
\* retry never meets a loop that would drop it and the pending addresses never
\* overwrite a queue.
LoopInv ==
    /\ ~(screening /\ pinging)
    /\ ~screening => evm_queue = {} /\ BagToSet(waiting) = {} /\ BagToSet(requests) = {}

\* The address has a row, is about to get one, or was given up.
Resolved(e) ==
    \/ scores[e] # None \/ e \in given_up
    \/ \E s \in BagToSet(saving) : e \in s.todo

\* What a request leaves out was in the cache when its permit came; the entry
\* may have expired since, its reason has not.
CacheInv == \A e \in Evms : Lower[e] \in cache => Resolved(e)
AskedInv == \A r \in BagToSet(requests) : \A e \in r.evms \ r.ask : Resolved(e)

InBatch(e) ==
    \/ \E b \in BagToSet(waiting) : e \in b.evms
    \/ \E r \in BagToSet(requests) : e \in r.evms
InLoop(e) ==
    \/ \E i \in 1 .. Len(evm_channel) : evm_channel[i] = e
    \/ e \in evm_queue
    \/ InBatch(e)
AccountedInv == \A e \in known : Resolved(e) \/ InLoop(e)

IInv == Shape /\ LoopInv /\ CacheInv /\ AskedInv /\ AccountedInv

\* Where the properties look is where the invariant does.
LEMMA InvariantImplies ==
    ASSUME IInv
    PROVE  Accounted /\ CacheIsSaved
<1>1. CacheIsSaved
  BY DEF IInv, CacheInv, CacheIsSaved, Resolved
<1>2. ASSUME NEW e \in known, InBatch(e)
      PROVE  e \in UnderWay
  <2>1. CASE \E b \in BagToSet(waiting) : e \in b.evms
    BY <2>1 DEF UnderWay, Batches
  <2>2. CASE \E r \in BagToSet(requests) : e \in r.evms
    <3>1. PICK r \in BagToSet(requests) : e \in r.evms
      BY <2>2
    <3> DEFINE b == [evms |-> r.evms, count |-> r.count]
    <3>2. b \in Batches /\ e \in b.evms
      BY <3>1 DEF Batches
    <3> QED BY <3>2 DEF UnderWay
  <2> QED BY <1>2, <2>1, <2>2 DEF InBatch
<1>3. ASSUME NEW e \in known, NEW i \in 1 .. Len(evm_channel), evm_channel[i] = e
      PROVE  e \in UnderWay
  <2>1. i \in DOMAIN evm_channel
    BY DEF IInv, Shape
  <2> QED BY <1>3, <2>1 DEF UnderWay, Range
<1>4. ASSUME NEW e \in known, InLoop(e)
      PROVE  e \in UnderWay
  <2>1. CASE e \in evm_queue
    BY <2>1 DEF UnderWay
  <2> QED BY <1>2, <1>3, <1>4, <2>1 DEF InLoop
<1>5. ASSUME NEW e \in known, \E s \in BagToSet(saving) : e \in s.todo
      PROVE  e \in UnderWay
  BY <1>5 DEF UnderWay
<1> QED BY <1>1, <1>4, <1>5 DEF IInv, AccountedInv, Resolved, Accounted

\* A row is never deleted and nothing given up is forgotten, but by a crash.
Kept ==
    /\ \A e \in Evms : scores[e] # None => scores'[e] # None
    /\ given_up \subseteq given_up'

LEMMA ResolvedKept ==
    ASSUME Shape, Kept, NEW e \in Evms, Resolved(e),
           \A s \in BagToSet(saving) : s \in BagToSet(saving')
    PROVE  Resolved(e)'
BY DEF Kept, Resolved

LEMMA RetriesFact == MaxRetries \in Nat /\ 0 \in 0 .. MaxRetries
<1>1. MaxRetries \in Nat
  BY EvmScreeningAssumption
<1> QED BY <1>1

LEMMA NewScoreFact ==
    \A kind \in {"error", "not available", "screened"} :
        NewScore(kind) \in Score /\ NewScore(kind) # None
<1>1. None \notin Score
  BY EvmScreeningAssumption DEF Score
<1>2. \A kind \in {"error", "not available", "screened"} : NewScore(kind) \in Score
  BY DEF NewScore, Score
<1> QED BY <1>1, <1>2

\* What process_evms does with a batch, before and after the connection: no
\* address of the batch or the queue is dropped.
LEMMA ProcessEvmsFact ==
    ASSUME IInv, DistinctAddresses, NEW evms \in SUBSET Evms, NEW count \in 0 .. MaxRetries,
           screening \/ count = 0, ProcessEvms(evms, count)
    PROVE  /\ Kept
           /\ scores' \in [Evms -> Score \cup {None}] /\ given_up' \subseteq Evms
           /\ evm_queue' = {}
           /\ IsABag(waiting')
           /\ \A b \in BagToSet(waiting') : b \in Attempt
           /\ \A b \in BagToSet(waiting) : b \in BagToSet(waiting')
           /\ ~screening => waiting' = waiting
           /\ \A e \in evms \cup evm_queue :
                 \/ scores'[e] # None \/ e \in given_up'
                 \/ \E b \in BagToSet(waiting') : e \in b.evms
<1> USE DEF IInv
<1>0. NewScore("error") \in Score /\ NewScore("error") # None
  BY NewScoreFact
<1>1. CASE ~screening
  <2>0. MarkPending(evms, 0) /\ evm_queue = {} /\ count = 0
    BY <1>1 DEF ProcessEvms, LoopInv, Shape
  <2>1. PICK fresh \in FreshAnswers, failed \in IF QueriesMayFail THEN SUBSET evms ELSE {{}} :
           LET marked == IF 0 = 0 THEN evms \ fresh ELSE {}
           IN /\ scores' = [e \in Evms |-> IF e \in marked \ failed THEN NewScore("error")
                                        ELSE scores[e]]
              /\ given_up' = given_up \cup (marked \cap failed)
              /\ UNCHANGED <<evm_queue, waiting>>
    BY <2>0 DEF MarkPending
  <2>2. fresh \subseteq {e \in Evms : FreshInDb(e)}
    BY DEF FreshAnswers
  <2>3. \A e \in fresh : e \in Evms /\ scores[e] # None
    BY <2>2 DEF FreshInDb
  <2>4. /\ scores' = [e \in Evms |-> IF e \in (evms \ fresh) \ failed THEN NewScore("error")
                                     ELSE scores[e]]
        /\ given_up' = given_up \cup ((evms \ fresh) \cap failed)
        /\ evm_queue' = evm_queue /\ waiting' = waiting
    BY <2>1
  <2>5. scores' \in [Evms -> Score \cup {None}] /\ given_up' \subseteq Evms /\ Kept
    BY <1>0, <2>4 DEF Shape, Kept
  <2>6. \A e \in evms : scores'[e] # None \/ e \in given_up'
    BY <1>0, <2>3, <2>4 DEF Shape
  <2> QED BY <1>1, <2>0, <2>4, <2>5, <2>6 DEF Shape
<1>2. CASE screening
  <2> DEFINE seen == {Lower[e] : e \in evms}
             all == evms \cup {e \in evm_queue : Lower[e] \notin seen}
  <2>1. all = evms \cup evm_queue
    <3>1. ASSUME NEW e \in evm_queue, Lower[e] \in seen PROVE e \in evms
      BY <3>1 DEF DistinctAddresses, Shape
    <3> QED BY <3>1
  <2>2. PICK fresh \in FreshAnswers, failed \in IF QueriesMayFail THEN SUBSET all ELSE {{}} :
           LET to_screen == IF count = 0 THEN all \ fresh ELSE all
           IN /\ evm_queue' = {}
              /\ IF to_screen = {} THEN UNCHANGED <<scores, given_up, waiting>>
                 ELSE IF count < MaxRetries
                 THEN /\ waiting' = With(waiting, [evms |-> to_screen, count |-> count])
                      /\ UNCHANGED <<scores, given_up>>
                 ELSE /\ SaveErrors(to_screen, failed)
                      /\ UNCHANGED waiting
    BY <1>2 DEF ProcessEvms, ScreenOrGiveUp
  <2> DEFINE to_screen == IF count = 0 THEN all \ fresh ELSE all
  <2>3. fresh \subseteq {e \in Evms : FreshInDb(e)}
    BY DEF FreshAnswers
  <2>4. \A e \in fresh : e \in Evms /\ scores[e] # None
    BY <2>3 DEF FreshInDb
  <2>5. /\ evm_queue' = {}
        /\ to_screen = {} => scores' = scores /\ given_up' = given_up /\ waiting' = waiting
        /\ to_screen # {} /\ count < MaxRetries =>
              /\ waiting' = With(waiting, [evms |-> to_screen, count |-> count])
              /\ scores' = scores /\ given_up' = given_up
        /\ to_screen # {} /\ ~(count < MaxRetries) =>
              SaveErrors(to_screen, failed) /\ waiting' = waiting
    BY <2>2
  <2>6. /\ to_screen \subseteq Evms
        /\ \A e \in evms \cup evm_queue : e \in to_screen \/ scores[e] # None
    BY <2>1, <2>4 DEF Shape
  <2> HIDE DEF to_screen, all, seen
  <2>7. CASE to_screen = {}
    BY <1>2, <2>5, <2>6, <2>7 DEF Shape, Kept
  <2>8. CASE to_screen # {} /\ count < MaxRetries
    <3> DEFINE b == [evms |-> to_screen, count |-> count]
    <3>1. b \in Attempt
      <4>1. MaxRetries \in Nat
        BY EvmScreeningAssumption
      <4>2. count \in 0 .. MaxRetries - 1
        BY <2>8, <4>1
      <4> QED BY <2>6, <4>2 DEF Attempt
    <3>2. waiting' = With(waiting, b) /\ scores' = scores /\ given_up' = given_up
      BY <2>5, <2>8
    <3>3. b.evms = to_screen
      OBVIOUS
    <3> HIDE DEF b
    <3>4. IsABag(waiting') /\ BagToSet(waiting') = BagToSet(waiting) \cup {b}
      BY <3>2, WithFact DEF Shape
    <3>5. \A e \in evms \cup evm_queue :
             scores'[e] # None \/ \E c \in BagToSet(waiting') : e \in c.evms
      BY <2>6, <3>2, <3>3, <3>4
    <3> QED BY <1>2, <2>5, <3>1, <3>2, <3>4, <3>5 DEF Shape, Kept
  <2>9. CASE to_screen # {} /\ ~(count < MaxRetries)
    <3>1. /\ scores' = [e \in Evms |-> IF e \in to_screen \ failed THEN NewScore("error")
                                       ELSE scores[e]]
          /\ given_up' = given_up \cup to_screen
          /\ waiting' = waiting
      BY <2>5, <2>9 DEF SaveErrors
    <3>2. scores' \in [Evms -> Score \cup {None}] /\ given_up' \subseteq Evms /\ Kept
      BY <1>0, <2>6, <3>1 DEF Shape, Kept
    <3>3. \A e \in evms \cup evm_queue : scores'[e] # None \/ e \in given_up'
      BY <2>6, <3>1, <3>2 DEF Kept, Shape
    <3> QED BY <1>2, <2>5, <3>1, <3>2, <3>3 DEF Shape
  <2> QED BY <2>7, <2>8, <2>9
<1> QED BY <1>1, <1>2 DEF Shape
------------------------------------------------------------------------------
(***************************************************************************)
(* Every step keeps the invariant.                                         *)
(***************************************************************************)
body == <<scores, known, evm_channel, screening, pinging, evm_queue, waiting, requests,
          saving, cache, given_up>>

LEMMA InitInv == Init => IInv
<1> SUFFICES ASSUME Init PROVE IInv
  OBVIOUS
<1>1. BagToSet(waiting) = {} /\ BagToSet(requests) = {} /\ BagToSet(saving) = {}
  BY EmptyBagFact DEF Init
<1>2. Shape
  BY <1>1, EmptyBagFact, EmptySeq DEF Init, Shape
<1> QED BY <1>1, <1>2 DEF Init, IInv, LoopInv, CacheInv, AskedInv, AccountedInv

LEMMA CrashInv ==
    ASSUME IInv, Crash
    PROVE  IInv'
<1>1. BagToSet(waiting') = {} /\ BagToSet(requests') = {} /\ BagToSet(saving') = {}
  BY EmptyBagFact DEF Crash
<1>2. Shape'
  BY <1>1, EmptyBagFact, EmptySeq DEF Crash, IInv, Shape, database
<1> QED BY <1>1, <1>2 DEF Crash, IInv, LoopInv, CacheInv, AskedInv, AccountedInv

\* Steps of the tables, the pauses and the process leave the loop as it is.
LEMMA SameBody ==
    ASSUME IInv, UNCHANGED body, evm_sources' \subseteq Evms
    PROVE  IInv'
<1>1. Shape'
  BY DEF IInv, Shape, body
<1>2. LoopInv' /\ CacheInv' /\ AskedInv'
  BY DEF IInv, LoopInv, CacheInv, AskedInv, Resolved, body
<1>3. AccountedInv'
  BY DEF IInv, AccountedInv, Resolved, InLoop, InBatch, body
<1> QED BY <1>1, <1>2, <1>3 DEF IInv

LEMMA ReceiveInv ==
    ASSUME IInv, NEW e \in Evms, Receive(e)
    PROVE  IInv'
<1> USE DEF IInv
<1>1. /\ known' = known \cup {e} /\ evm_channel' = Append(evm_channel, e)
      /\ UNCHANGED <<evm_sources, scores, screening, pinging, evm_queue, waiting, requests,
                     saving, cache, given_up>>
  BY DEF Receive, database, pending, client
<1>2. /\ evm_channel' \in Seq(Evms) /\ Len(evm_channel') = Len(evm_channel) + 1
      /\ Len(evm_channel) \in Nat
      /\ \A i \in 1 .. Len(evm_channel) : evm_channel'[i] = evm_channel[i]
      /\ evm_channel'[Len(evm_channel) + 1] = e
  BY <1>1 DEF Shape
<1>3. Shape'
  BY <1>1, <1>2 DEF Shape
<1>4. LoopInv' /\ CacheInv' /\ AskedInv'
  BY <1>1 DEF LoopInv, CacheInv, AskedInv, Resolved
<1>5. \A f : Resolved(f)' <=> Resolved(f)
  BY <1>1 DEF Resolved
<1>6. \A f : InLoop(f) => InLoop(f)'
  BY <1>1, <1>2 DEF InLoop, InBatch
<1>7. InLoop(e)'
  BY <1>2 DEF InLoop
<1>8. AccountedInv'
  BY <1>1, <1>5, <1>6, <1>7 DEF AccountedInv
<1> QED BY <1>3, <1>4, <1>8

LEMMA NewEvmInv ==
    ASSUME IInv, DistinctAddresses, NewEvm
    PROVE  IInv'
<1> USE DEF IInv
<1>0. PICK h \in Evms : h = Head(evm_channel)
  BY DEF NewEvm, Shape
<1>1. /\ evm_channel # <<>> /\ evm_channel' = Tail(evm_channel)
      /\ UNCHANGED <<evm_sources, known, screening, pinging, requests, saving, cache>>
  BY DEF NewEvm, input
<1>2. /\ evm_channel' \in Seq(Evms)
      /\ Len(evm_channel) \in Nat /\ Len(evm_channel') = Len(evm_channel) - 1
      /\ h = evm_channel[1]
      /\ \A i \in 1 .. Len(evm_channel') : evm_channel'[i] = evm_channel[i + 1]
  BY <1>0, <1>1 DEF Shape
<1>3. \A f : (\E i \in 1 .. Len(evm_channel) : evm_channel[i] = f) =>
         f = h \/ \E i \in 1 .. Len(evm_channel') : evm_channel'[i] = f
  <2> SUFFICES ASSUME NEW i \in 1 .. Len(evm_channel), i # 1
               PROVE  /\ i - 1 \in 1 .. Len(evm_channel')
                      /\ evm_channel'[i - 1] = evm_channel[i]
    BY <1>2
  <2> QED BY <1>2
<1>4. \/ /\ screening /\ evm_queue' = evm_queue \cup {h}
         /\ UNCHANGED <<scores, given_up, waiting>>
      \/ ~screening /\ ProcessEvms({h}, 0)
  BY <1>0 DEF NewEvm, ProcessEvms, Shape
<1>5. CASE screening /\ evm_queue' = evm_queue \cup {h}
           /\ UNCHANGED <<scores, given_up, waiting>>
  <2>1. Shape'
    BY <1>1, <1>2, <1>5 DEF Shape
  <2>2. LoopInv' /\ CacheInv' /\ AskedInv'
    BY <1>1, <1>5 DEF LoopInv, CacheInv, AskedInv, Resolved
  <2>3. \A f : InLoop(f) => InLoop(f)'
    BY <1>1, <1>3, <1>5 DEF InLoop, InBatch
  <2>4. \A f : Resolved(f) => Resolved(f)'
    BY <1>1, <1>5 DEF Resolved
  <2>5. AccountedInv'
    BY <1>1, <2>3, <2>4 DEF AccountedInv
  <2> QED BY <2>1, <2>2, <2>5
<1>6. CASE ~screening /\ ProcessEvms({h}, 0)
  <2>0. {h} \in SUBSET Evms /\ 0 \in 0 .. MaxRetries
    BY RetriesFact
  <2>1. /\ Kept /\ scores' \in [Evms -> Score \cup {None}] /\ given_up' \subseteq Evms
        /\ evm_queue' = {} /\ waiting' = waiting
        /\ scores'[h] # None \/ h \in given_up' \/ \E b \in BagToSet(waiting') : h \in b.evms
    BY <1>6, <2>0, ProcessEvmsFact
  <2>2. evm_queue = {} /\ BagToSet(waiting) = {}
    BY <1>6 DEF LoopInv
  <2>3. Shape'
    BY <1>1, <1>2, <2>1 DEF Shape
  <2>4. \A f \in Evms : Resolved(f) => Resolved(f)'
    BY <1>1, <2>1, ResolvedKept
  <2>5. LoopInv'
    BY <1>1, <2>1, <2>2 DEF LoopInv
  <2>6. CacheInv' /\ AskedInv'
    BY <1>1, <2>4 DEF CacheInv, AskedInv, Shape, Request
  <2>7. Resolved(h)'
    BY <2>1, <2>2 DEF Resolved
  <2>8. \A f : InLoop(f) => f = h \/ InLoop(f)'
    BY <1>1, <1>3, <2>1, <2>2 DEF InLoop, InBatch
  <2>9. AccountedInv'
    BY <1>1, <2>4, <2>7, <2>8 DEF AccountedInv, Shape
  <2> QED BY <2>3, <2>5, <2>6, <2>9
<1> QED BY <1>4, <1>5, <1>6

\* The steps that end in process_evms: a tick, a resolved GUID, and a failed
\* request, whose batch the loop takes up.
LEMMA ProcessEvmsInv ==
    ASSUME IInv, DistinctAddresses, NEW evms \in SUBSET Evms, NEW count \in 0 .. MaxRetries,
           screening \/ count = 0, ProcessEvms(evms, count),
           evm_sources' \subseteq Evms, known' \subseteq known \cup evms,
           pinging' \in BOOLEAN, ~(screening /\ pinging'),
           IsABag(requests'), BagToSet(requests') \subseteq BagToSet(requests),
           \A r \in BagToSet(requests) : r \in BagToSet(requests') \/ r.evms \subseteq evms,
           UNCHANGED <<evm_channel, screening, saving, cache>>
    PROVE  IInv'
<1> USE DEF IInv
<1>1. /\ Kept
      /\ scores' \in [Evms -> Score \cup {None}] /\ given_up' \subseteq Evms
      /\ evm_queue' = {}
      /\ IsABag(waiting')
      /\ \A b \in BagToSet(waiting') : b \in Attempt
      /\ \A b \in BagToSet(waiting) : b \in BagToSet(waiting')
      /\ ~screening => waiting' = waiting
      /\ \A e \in evms \cup evm_queue :
            \/ scores'[e] # None \/ e \in given_up'
            \/ \E b \in BagToSet(waiting') : e \in b.evms
  BY ProcessEvmsFact
<1>2. Shape'
  BY <1>1 DEF Shape
<1>3. LoopInv'
  BY <1>1 DEF LoopInv
<1>4. \A e \in Evms : Resolved(e) => Resolved(e)'
  BY <1>1, ResolvedKept
<1>5. CacheInv' /\ AskedInv'
  BY <1>4 DEF CacheInv, AskedInv, Shape, Request
<1>6. \A e \in evms \cup evm_queue : Resolved(e)' \/ InLoop(e)'
  BY <1>1 DEF Resolved, InLoop, InBatch
<1>7. \A e \in Evms : InBatch(e) => e \in evms \/ InBatch(e)'
  BY <1>1 DEF InBatch
<1>8. \A e \in Evms : InLoop(e) => Resolved(e)' \/ InLoop(e)'
  BY <1>6, <1>7 DEF InLoop
<1>9. AccountedInv'
  BY <1>4, <1>6, <1>8 DEF AccountedInv, Shape
<1> QED BY <1>2, <1>3, <1>5, <1>9

LEMMA TickInv ==
    ASSUME IInv, DistinctAddresses, Tick
    PROVE  IInv'
<1>1. {} \in SUBSET Evms /\ 0 \in 0 .. MaxRetries
  BY RetriesFact
<1>2. PICK elapsed \in BOOLEAN : pinging' = (pinging \/ (~screening /\ elapsed))
  BY DEF Tick
<1>3. pinging' \in BOOLEAN /\ ~(screening /\ pinging')
  BY <1>2 DEF IInv, Shape, LoopInv
<1>4. /\ ProcessEvms({}, 0)
      /\ UNCHANGED <<evm_sources, known, requests, evm_channel, screening, saving, cache>>
  BY DEF Tick, input
<1>5. evm_sources' \subseteq Evms /\ IsABag(requests')
  BY <1>4 DEF IInv, Shape
<1> QED BY <1>1, <1>3, <1>4, <1>5, ProcessEvmsInv

LEMMA GuidResolvedInv ==
    ASSUME IInv, DistinctAddresses, NEW e \in Evms, GuidResolved(e)
    PROVE  IInv'
<1>1. {e} \in SUBSET Evms /\ 0 \in 0 .. MaxRetries
  BY RetriesFact
<1>2. /\ ProcessEvms({e}, 0) /\ known' = known \cup {e}
      /\ UNCHANGED <<requests, evm_channel, screening, pinging, saving, cache>>
  BY DEF GuidResolved
<1>3. evm_sources' \subseteq Evms
  BY DEF GuidResolved, IInv, Shape
<1>4. pinging' \in BOOLEAN /\ ~(screening /\ pinging') /\ IsABag(requests')
  BY <1>2 DEF IInv, Shape, LoopInv
<1> QED BY <1>1, <1>2, <1>3, <1>4, ProcessEvmsInv

LEMMA FetchFailsInv ==
    ASSUME IInv, DistinctAddresses, NEW r, NEW tooMany \in BOOLEAN, FetchFails(r, tooMany)
    PROVE  IInv'
<1>1. /\ r \in BagToSet(requests) /\ requests' = Without(requests, r)
      /\ ProcessEvms(r.evms, r.count + 1)
      /\ UNCHANGED <<evm_sources, known, evm_channel, screening, pinging, saving, cache>>
  BY DEF FetchFails, input, BagIn
<1>2. r \in Request /\ screening
  BY <1>1 DEF IInv, Shape, LoopInv
<1>3. r.evms \in SUBSET Evms /\ r.count + 1 \in 0 .. MaxRetries
  BY <1>2, RetriesFact DEF Request
<1>4. /\ IsABag(requests') /\ BagToSet(requests') \subseteq BagToSet(requests)
      /\ \A q \in BagToSet(requests) : q \in BagToSet(requests') \/ q.evms \subseteq r.evms
  BY <1>1, WithoutFact DEF IInv, Shape
<1>5. evm_sources' \subseteq Evms /\ pinging' \in BOOLEAN /\ ~(screening /\ pinging')
  BY <1>1 DEF IInv, Shape, LoopInv
<1> QED BY <1>1, <1>2, <1>3, <1>4, <1>5, ProcessEvmsInv

LEMMA PingResultInv ==
    ASSUME IInv, NEW ok \in BOOLEAN, PingResult(ok)
    PROVE  IInv'
<1> USE DEF IInv
<1>1. /\ pinging /\ pinging' = FALSE /\ ~screening /\ evm_queue = {}
      /\ UNCHANGED <<evm_sources, scores, known, evm_channel, waiting, requests, saving, cache>>
  BY DEF PingResult, database, input, pending, Shape, LoopInv
<1>2. PendingEvms \subseteq Evms
  BY DEF PendingEvms, Shape
<1>3. /\ given_up \subseteq given_up' /\ given_up' \subseteq Evms /\ evm_queue' \subseteq Evms
      /\ screening' \in BOOLEAN /\ (~screening' => evm_queue' = {})
  BY <1>1, <1>2 DEF PingResult, Shape
<1>4. Shape'
  BY <1>1, <1>3 DEF Shape
<1>5. LoopInv'
  BY <1>1, <1>3 DEF LoopInv
<1>6. \A e : Resolved(e) => Resolved(e)'
  BY <1>1, <1>3 DEF Resolved
<1>7. CacheInv' /\ AskedInv'
  BY <1>1, <1>6 DEF CacheInv, AskedInv
<1>8. \A e : InLoop(e) => InLoop(e)'
  BY <1>1 DEF InLoop, InBatch
<1>9. AccountedInv'
  BY <1>1, <1>6, <1>8 DEF AccountedInv
<1> QED BY <1>4, <1>5, <1>7, <1>9

\* A permit: what is not asked for is in the cache, so it is resolved.
LEMMA AcquireInv ==
    ASSUME IInv, NEW item, Acquire(item)
    PROVE  IInv'
<1> USE DEF IInv
<1>0. PICK ask : ask = {e \in item.evms : Lower[e] \notin cache}
  OBVIOUS
<1> DEFINE r == [evms |-> item.evms, ask |-> ask, count |-> item.count]
<1>1. /\ item \in BagToSet(waiting) /\ waiting' = Without(waiting, item)
      /\ requests' = IF ask = {} THEN requests ELSE With(requests, r)
      /\ UNCHANGED <<evm_sources, scores, known, evm_channel, screening, pinging, evm_queue,
                     saving, cache, given_up>>
  BY <1>0 DEF Acquire, BagIn, database, input, loop, client
<1>2. item \in Attempt /\ item.evms \subseteq Evms
  BY <1>1 DEF Shape, Attempt
<1>3. r \in Request /\ r.evms = item.evms /\ r.ask = ask
  BY <1>0, <1>2 DEF Attempt, Request
<1>4. /\ IsABag(waiting') /\ BagToSet(waiting') \subseteq BagToSet(waiting)
      /\ \A b \in BagToSet(waiting) : b = item \/ b \in BagToSet(waiting')
  BY <1>1, WithoutFact DEF Shape
<1> HIDE DEF r
<1>5. /\ IsABag(requests')
      /\ BagToSet(requests') = IF ask = {} THEN BagToSet(requests)
                               ELSE BagToSet(requests) \cup {r}
  BY <1>1, WithFact DEF Shape
<1>6. Shape'
  BY <1>1, <1>3, <1>4, <1>5 DEF Shape
<1>7. LoopInv'
  BY <1>1, <1>4 DEF LoopInv
<1>8. \A e : Resolved(e)' <=> Resolved(e)
  BY <1>1 DEF Resolved
<1>9. \A e \in item.evms \ ask : Resolved(e)
  BY <1>0, <1>2 DEF CacheInv
<1>10. CacheInv'
  BY <1>1, <1>8 DEF CacheInv
<1>11. AskedInv'
  BY <1>3, <1>5, <1>8, <1>9 DEF AskedInv
<1>12. \A e : InBatch(e) => InBatch(e)' \/ (ask = {} /\ e \in item.evms)
  BY <1>3, <1>4, <1>5 DEF InBatch
<1>13. \A e : InLoop(e) => InLoop(e)' \/ Resolved(e)
  BY <1>1, <1>9, <1>12 DEF InLoop
<1>14. AccountedInv'
  BY <1>1, <1>8, <1>13 DEF AccountedInv
<1> QED BY <1>6, <1>7, <1>10, <1>11, <1>14

\* An answer: what was asked for is to be saved, the rest of the batch is
\* resolved.
LEMMA AnswerInv ==
    ASSUME IInv, DistinctAddresses, NEW r, NEW answered \in SUBSET r.ask,
           NEW data \in BOOLEAN, Answer(r, answered, data)
    PROVE  IInv'
<1> USE DEF IInv
<1> DEFINE s == [todo |-> r.ask, named |-> answered]
<1>1. /\ r \in BagToSet(requests) /\ requests' = Without(requests, r)
      /\ saving' = With(saving, s)
      /\ cache' \subseteq cache \cup {Lower[e] : e \in r.ask}
      /\ UNCHANGED <<evm_sources, scores, known, evm_channel, screening, pinging, evm_queue,
                     waiting, given_up>>
  BY DEF Answer, BagIn, database, input, loop
<1>2. r \in Request /\ r.ask \subseteq Evms /\ r.evms \subseteq Evms
  BY <1>1 DEF Shape, Request
<1>3. s \in Saving /\ s.todo = r.ask
  BY <1>2 DEF Saving
<1> HIDE DEF s
<1>4. /\ IsABag(requests') /\ BagToSet(requests') \subseteq BagToSet(requests)
      /\ \A q \in BagToSet(requests) : q = r \/ q \in BagToSet(requests')
  BY <1>1, WithoutFact DEF Shape
<1>5. IsABag(saving') /\ BagToSet(saving') = BagToSet(saving) \cup {s}
  BY <1>1, WithFact DEF Shape
<1>6. Shape'
  BY <1>1, <1>3, <1>4, <1>5 DEF Shape
<1>7. LoopInv'
  BY <1>1, <1>4 DEF LoopInv
<1>8. \A e : Resolved(e) => Resolved(e)'
  BY <1>1, <1>5 DEF Resolved
<1>9. \A e \in r.ask : Resolved(e)'
  BY <1>3, <1>5 DEF Resolved
<1>10. \A e \in r.evms : Resolved(e)'
  BY <1>1, <1>8, <1>9 DEF AskedInv
<1>11. ASSUME NEW e \in Evms, Lower[e] \in cache' PROVE Resolved(e)'
  <2>1. CASE Lower[e] \in cache
    BY <1>8, <2>1 DEF CacheInv
  <2>2. CASE Lower[e] \in {Lower[f] : f \in r.ask}
    BY <1>2, <1>9, <2>2 DEF DistinctAddresses
  <2> QED BY <1>1, <1>11, <2>1, <2>2
<1>12. CacheInv'
  BY <1>11 DEF CacheInv
<1>13. AskedInv'
  BY <1>4, <1>8 DEF AskedInv
<1>14. \A e : InLoop(e) => InLoop(e)' \/ e \in r.evms
  BY <1>1, <1>4 DEF InLoop, InBatch
<1>15. AccountedInv'
  BY <1>1, <1>8, <1>10, <1>14 DEF AccountedInv
<1> QED BY <1>6, <1>7, <1>12, <1>13, <1>15

\* A save: the address has a row, or was given up; the rest is still to do.
LEMMA SaveScoreInv ==
    ASSUME IInv, NEW s, NEW e \in s.todo, NEW ok \in BOOLEAN, SaveScore(s, e, ok)
    PROVE  IInv'
<1> USE DEF IInv
<1> DEFINE rest == [s EXCEPT !.todo = @ \ {e}]
<1>1. /\ s \in BagToSet(saving)
      /\ saving' = IF rest.todo = {} THEN Without(saving, s)
                   ELSE With(Without(saving, s), rest)
      /\ UNCHANGED <<evm_sources, known, evm_channel, screening, pinging, evm_queue,
                     waiting, requests, cache>>
  BY DEF SaveScore, BagIn, input, loop
<1>2. s \in Saving /\ e \in Evms
  BY <1>1 DEF Shape, Saving
<1>3. rest \in Saving /\ rest.todo = s.todo \ {e}
  BY <1>2 DEF Saving
<1>4. /\ scores' \in [Evms -> Score \cup {None}] /\ given_up' \subseteq Evms /\ Kept
      /\ scores'[e] # None \/ e \in given_up'
  <2>1. CASE ok
    <3>1. PICK kind \in {"error", "not available", "screened"} :
             scores' = [scores EXCEPT ![e] = NewScore(kind)] /\ given_up' = given_up
      BY <2>1 DEF SaveScore
    <3>2. NewScore(kind) \in Score /\ NewScore(kind) # None
      BY NewScoreFact
    <3> QED BY <1>2, <3>1, <3>2 DEF Shape, Kept
  <2>2. CASE ~ok
    <3>1. given_up' = given_up \cup {e} /\ scores' = scores
      BY <2>2 DEF SaveScore
    <3> QED BY <1>2, <3>1 DEF Shape, Kept
  <2> QED BY <2>1, <2>2
<1> HIDE DEF rest
<1>5. /\ IsABag(Without(saving, s)) /\ BagToSet(Without(saving, s)) \subseteq BagToSet(saving)
      /\ \A t \in BagToSet(saving) : t = s \/ t \in BagToSet(Without(saving, s))
  BY WithoutFact DEF Shape
<1>6. /\ IsABag(saving')
      /\ BagToSet(saving') = IF rest.todo = {} THEN BagToSet(Without(saving, s))
                             ELSE BagToSet(Without(saving, s)) \cup {rest}
  BY <1>1, <1>5, WithFact
<1>7. Shape'
  BY <1>1, <1>3, <1>4, <1>5, <1>6 DEF Shape
<1>8. LoopInv'
  BY <1>1 DEF LoopInv
<1>9. ASSUME NEW f \in Evms, Resolved(f) PROVE Resolved(f)'
  <2>1. CASE f = e
    BY <1>4, <2>1 DEF Resolved
  <2>2. CASE scores[f] # None \/ f \in given_up
    BY <1>4, <2>2 DEF Resolved, Kept
  <2>3. CASE f # e /\ \E t \in BagToSet(saving) : f \in t.todo
    <3>1. PICK t \in BagToSet(saving) : f \in t.todo
      BY <2>3
    <3>2. CASE t = s
      <4>1. f \in rest.todo
        BY <1>3, <2>3, <3>1, <3>2
      <4>2. rest \in BagToSet(saving')
        BY <1>6, <4>1
      <4> QED BY <4>1, <4>2 DEF Resolved
    <3>3. CASE t # s
      <4>1. t \in BagToSet(saving')
        BY <1>5, <1>6, <3>3
      <4> QED BY <3>1, <4>1 DEF Resolved
    <3> QED BY <3>2, <3>3
  <2> QED BY <1>9, <2>1, <2>2, <2>3 DEF Resolved
<1>10. CacheInv' /\ AskedInv'
  BY <1>1, <1>9 DEF CacheInv, AskedInv, Shape, Request
<1>11. \A f : InLoop(f) => InLoop(f)'
  BY <1>1 DEF InLoop, InBatch
<1>12. AccountedInv'
  BY <1>1, <1>9, <1>11 DEF AccountedInv, Shape
<1> QED BY <1>7, <1>8, <1>10, <1>12

\* A row ages but stays; an entry of the cache only goes.
LEMMA AgeInv ==
    ASSUME IInv, NEW e \in Evms, Age(e)
    PROVE  IInv'
<1> USE DEF IInv
<1>1. /\ scores' = [scores EXCEPT ![e].fresh = FALSE] /\ scores[e] # None
      /\ UNCHANGED <<evm_sources, known, evm_channel, screening, pinging, evm_queue, waiting,
                     requests, saving, cache, given_up>>
  BY DEF Age, FreshInDb, input, loop, pending, client
<1>2. scores[e] \in Score
  BY <1>1 DEF Shape
<1>3. PICK row : row = [scores[e] EXCEPT !.fresh = FALSE]
  OBVIOUS
<1>4. row \in Score
  BY <1>2, <1>3 DEF Score
<1>5. None \notin Score
  BY EvmScreeningAssumption DEF Score
<1>6. scores' = [scores EXCEPT ![e] = row]
  BY <1>1, <1>3
<1>7. scores' \in [Evms -> Score \cup {None}] /\ \A f \in Evms : scores[f] # None => scores'[f] # None
  BY <1>4, <1>5, <1>6 DEF Shape
<1>8. Shape'
  BY <1>1, <1>7 DEF Shape
<1>9. LoopInv'
  BY <1>1 DEF LoopInv
<1>10. \A f \in Evms : Resolved(f) => Resolved(f)'
  BY <1>1, <1>7 DEF Resolved
<1>11. CacheInv' /\ AskedInv'
  BY <1>1, <1>10 DEF CacheInv, AskedInv, Shape, Request
<1>12. \A f : InLoop(f) => InLoop(f)'
  BY <1>1 DEF InLoop, InBatch
<1>13. AccountedInv'
  BY <1>1, <1>10, <1>12 DEF AccountedInv, Shape
<1> QED BY <1>8, <1>9, <1>11, <1>13

LEMMA ExpireInv ==
    ASSUME IInv, NEW e \in Evms, Expire(e)
    PROVE  IInv'
<1> USE DEF IInv
<1>1. /\ cache' \subseteq cache
      /\ UNCHANGED <<evm_sources, scores, known, evm_channel, screening, pinging, evm_queue,
                     waiting, requests, saving, given_up>>
  BY DEF Expire, database, input, loop, pending
<1>2. Shape' /\ LoopInv'
  BY <1>1 DEF Shape, LoopInv
<1>3. \A f : Resolved(f)' <=> Resolved(f)
  BY <1>1 DEF Resolved
<1>4. CacheInv' /\ AskedInv'
  BY <1>1, <1>3 DEF CacheInv, AskedInv
<1>5. AccountedInv'
  BY <1>1, <1>3 DEF AccountedInv, InLoop, InBatch
<1> QED BY <1>2, <1>4, <1>5

LEMMA NextInv ==
    ASSUME IInv, DistinctAddresses, Next
    PROVE  IInv'
<1>1. CASE Start
  BY <1>1, SameBody DEF Start, IInv, Shape, body, database, input, loop, pending, client
<1>2. CASE Crash
  BY <1>2, CrashInv
<1>3. ASSUME NEW e \in Evms, StoreInflow(e) PROVE IInv'
  BY <1>3, SameBody DEF StoreInflow, IInv, Shape, body, input, loop, pending, client
<1>4. ASSUME NEW e \in Evms, Receive(e) \/ GuidResolved(e) \/ Age(e) \/ Expire(e) PROVE IInv'
  BY <1>4, ReceiveInv, GuidResolvedInv, AgeInv, ExpireInv
<1>5. CASE NewEvm \/ Tick
  BY <1>5, NewEvmInv, TickInv
<1>6. ASSUME NEW ok \in BOOLEAN, PingResult(ok) PROVE IInv'
  BY <1>6, PingResultInv
<1>7. ASSUME NEW item, Acquire(item) PROVE IInv'
  BY <1>7, AcquireInv
<1>8. CASE BeginPause
  BY <1>8, SameBody DEF BeginPause, IInv, Shape, body, database, input, loop, client
<1>9. CASE EndPause
  BY <1>9, SameBody DEF EndPause, IInv, Shape, body, database, input, loop, client
<1>10. CASE Respond
  BY <1>10, FetchFailsInv, AnswerInv DEF Respond
<1>11. CASE SaveAny
  BY <1>11, SaveScoreInv DEF SaveAny, Outcomes
<1> QED BY <1>1, <1>2, <1>3, <1>4, <1>5, <1>6, <1>7, <1>8, <1>9, <1>10, <1>11 DEF Next
------------------------------------------------------------------------------
(***************************************************************************)
(* Types and permits.  These need nothing of the spelling of addresses.    *)
(***************************************************************************)
LoopType ==
    /\ running \in BOOLEAN /\ starts \in 0 .. MaxStarts /\ received \in 0 .. MaxReceived
    /\ ~(screening /\ pinging) /\ (~screening => evm_queue = {})
    /\ cache \subseteq {Lower[e] : e \in Evms}

\* A request asks for something, and for part of its batch; while the pause
\* has all permits, nothing is in flight.
PermitInv ==
    /\ IsFiniteSet(DOMAIN requests) /\ PermitsTaken <= MaxConcurrent
    /\ pauses \in 0 .. MaxPauses /\ paused \in BOOLEAN /\ (paused => requests = EmptyBag)
    /\ \A r \in BagToSet(requests) : r.ask # {} /\ r.ask \subseteq r.evms

SavingInv == \A s \in BagToSet(saving) : s.todo # {}

TypeInv == Shape /\ LoopType /\ PermitInv /\ SavingInv

LEMMA BoundsFact ==
    /\ MaxRetries \in Nat /\ MaxConcurrent \in Nat /\ MaxReceived \in Nat
    /\ MaxPauses \in Nat /\ MaxStarts \in Nat
BY EvmScreeningAssumption

LEMMA ZeroFact ==
    /\ 0 <= MaxConcurrent /\ 0 \in 0 .. MaxReceived
    /\ 0 \in 0 .. MaxPauses /\ 0 \in 0 .. MaxStarts
BY BoundsFact

LEMMA TypeInvImplies ==
    ASSUME TypeInv
    PROVE  TypeOK
<1> USE DEF TypeInv
<1>1. MaxRetries \in Nat
  BY EvmScreeningAssumption
<1>2. Attempt \subseteq Item
  BY <1>1 DEF Attempt, Item
<1>3. ASSUME NEW r \in BagToSet(requests) PROVE [evms |-> r.evms, count |-> r.count] \in Item
  BY <1>1 DEF Shape, Request, Item
<1>4. Batches \subseteq Item
  BY <1>2, <1>3 DEF Batches, Shape
<1> QED BY <1>4 DEF TypeOK, Shape, LoopType, PermitInv, SavingInv

\* What process_evms leaves has its type, whatever the batch.
LEMMA ProcessEvmsType ==
    ASSUME Shape, NEW evms \in SUBSET Evms, NEW count \in 0 .. MaxRetries,
           ProcessEvms(evms, count)
    PROVE  /\ scores' \in [Evms -> Score \cup {None}] /\ given_up' \subseteq Evms
           /\ evm_queue' = {} \/ evm_queue' = evm_queue
           /\ IsABag(waiting') /\ \A b \in BagToSet(waiting') : b \in Attempt
<1>0. NewScore("error") \in Score
  BY NewScoreFact
<1>1. CASE ~screening
  <2>1. PICK marked \in SUBSET Evms, failed \in SUBSET Evms :
           /\ scores' = [e \in Evms |-> IF e \in marked \ failed THEN NewScore("error")
                                        ELSE scores[e]]
           /\ given_up' = given_up \cup (marked \cap failed)
           /\ evm_queue' = evm_queue /\ waiting' = waiting
    <3>1. PICK fresh \in FreshAnswers, failed \in IF QueriesMayFail THEN SUBSET evms ELSE {{}} :
             LET marked == IF count = 0 THEN evms \ fresh ELSE {}
             IN /\ scores' = [e \in Evms |-> IF e \in marked \ failed THEN NewScore("error")
                                             ELSE scores[e]]
                /\ given_up' = given_up \cup (marked \cap failed)
                /\ UNCHANGED <<evm_queue, waiting>>
      BY <1>1 DEF ProcessEvms, MarkPending
    <3>2. PICK marked : marked = IF count = 0 THEN evms \ fresh ELSE {}
      OBVIOUS
    <3>3. marked \in SUBSET Evms
      BY <3>2
    <3> QED BY <3>1, <3>2, <3>3
  <2> QED BY <1>0, <2>1 DEF Shape
<1>2. CASE screening
  <2>1. PICK to_screen \in SUBSET Evms, failed \in SUBSET Evms :
           /\ evm_queue' = {}
           /\ to_screen = {} => scores' = scores /\ given_up' = given_up /\ waiting' = waiting
           /\ to_screen # {} /\ count < MaxRetries =>
                 /\ waiting' = With(waiting, [evms |-> to_screen, count |-> count])
                 /\ scores' = scores /\ given_up' = given_up
           /\ to_screen # {} /\ ~(count < MaxRetries) =>
                 SaveErrors(to_screen, failed) /\ waiting' = waiting
    <3> DEFINE seen == {Lower[e] : e \in evms}
               all == evms \cup {e \in evm_queue : Lower[e] \notin seen}
    <3>1. PICK fresh \in FreshAnswers, failed \in IF QueriesMayFail THEN SUBSET all ELSE {{}} :
             LET to_screen == IF count = 0 THEN all \ fresh ELSE all
             IN /\ evm_queue' = {}
                /\ IF to_screen = {} THEN UNCHANGED <<scores, given_up, waiting>>
                   ELSE IF count < MaxRetries
                   THEN /\ waiting' = With(waiting, [evms |-> to_screen, count |-> count])
                        /\ UNCHANGED <<scores, given_up>>
                   ELSE /\ SaveErrors(to_screen, failed)
                        /\ UNCHANGED waiting
      BY <1>2 DEF ProcessEvms, ScreenOrGiveUp
    <3>2. all \subseteq Evms
      BY DEF Shape
    <3>3. PICK to_screen : to_screen = IF count = 0 THEN all \ fresh ELSE all
      OBVIOUS
    <3>4. to_screen \in SUBSET Evms
      BY <3>2, <3>3
    <3> HIDE DEF all
    <3>5. failed \in SUBSET Evms
      BY <3>1, <3>2
    <3> QED BY <3>1, <3>3, <3>4, <3>5
  <2>2. CASE to_screen = {}
    BY <2>1, <2>2 DEF Shape
  <2>3. CASE to_screen # {} /\ count < MaxRetries
    <3>1. PICK b : b = [evms |-> to_screen, count |-> count]
      OBVIOUS
    <3>2. b \in Attempt
      <4>1. MaxRetries \in Nat
        BY EvmScreeningAssumption
      <4>2. count \in 0 .. MaxRetries - 1
        BY <2>3, <4>1
      <4> QED BY <3>1, <4>2 DEF Attempt
    <3>3. waiting' = With(waiting, b) /\ scores' = scores /\ given_up' = given_up
      BY <2>1, <2>3, <3>1
    <3>4. IsABag(waiting') /\ BagToSet(waiting') = BagToSet(waiting) \cup {b}
      BY <3>3, WithFact DEF Shape
    <3> QED BY <2>1, <3>2, <3>3, <3>4 DEF Shape
  <2>4. CASE to_screen # {} /\ ~(count < MaxRetries)
    BY <1>0, <2>1, <2>4 DEF Shape, SaveErrors
  <2> QED BY <2>2, <2>3, <2>4
<1> QED BY <1>1, <1>2 DEF Shape

LEMMA InitType == Init => TypeInv
<1> SUFFICES ASSUME Init PROVE TypeInv
  OBVIOUS
<1>1. BagToSet(waiting) = {} /\ BagToSet(requests) = {} /\ BagToSet(saving) = {}
  BY EmptyBagFact DEF Init
<1>2. Shape
  BY <1>1, EmptyBagFact, EmptySeq DEF Init, Shape
<1>3. LoopType
  BY ZeroFact DEF Init, LoopType
<1>4. IsFiniteSet(DOMAIN requests) /\ PermitsTaken = 0
  BY EmptyBagSize DEF Init, PermitsTaken
<1>5. PermitInv
  BY <1>1, <1>4, ZeroFact DEF Init, PermitInv
<1> QED BY <1>1, <1>2, <1>3, <1>5 DEF TypeInv, SavingInv

LEMMA CrashType ==
    ASSUME TypeInv, Crash
    PROVE  TypeInv'
<1>1. BagToSet(waiting') = {} /\ BagToSet(requests') = {} /\ BagToSet(saving') = {}
  BY EmptyBagFact DEF Crash
<1>2. Shape'
  BY <1>1, EmptyBagFact, EmptySeq DEF Crash, TypeInv, Shape, database
<1>3. LoopType'
  BY DEF Crash, TypeInv, LoopType
<1>4. requests' = EmptyBag /\ IsFiniteSet(DOMAIN requests') /\ PermitsTaken' = 0
  BY EmptyBagSize DEF Crash, PermitsTaken
<1>5. PermitInv'
  BY <1>1, <1>4, ZeroFact DEF Crash, PermitInv
<1> QED BY <1>1, <1>2, <1>3, <1>5 DEF TypeInv, SavingInv

\* A step that leaves the requests and the pauses as they are.
LEMMA SamePermits ==
    ASSUME PermitInv, UNCHANGED <<requests, pauses, paused>>
    PROVE  PermitInv'
BY DEF PermitInv, PermitsTaken

\* Steps that change neither the bags nor the pauses.
LEMMA QuietType ==
    ASSUME TypeInv, UNCHANGED <<waiting, requests, saving, pauses, paused>>,
           scores' \in [Evms -> Score \cup {None}],
           evm_sources' \subseteq Evms, known' \subseteq Evms,
           evm_channel' \in Seq(Evms), evm_queue' \subseteq Evms,
           screening' \in BOOLEAN, pinging' \in BOOLEAN, given_up' \subseteq Evms,
           LoopType'
    PROVE  TypeInv'
<1>1. Shape'
  BY DEF TypeInv, Shape
<1>2. PermitInv' /\ SavingInv'
  BY SamePermits DEF TypeInv, SavingInv
<1> QED BY <1>1, <1>2 DEF TypeInv

LEMMA InputType ==
    ASSUME TypeInv, NEW e \in Evms, Receive(e) \/ StoreInflow(e)
    PROVE  TypeInv'
<1> USE DEF TypeInv
<1>2. CASE Receive(e)
  <2>1. LoopType'
    BY <1>2, BoundsFact DEF Receive, LoopType, client
  <2>2. evm_channel' \in Seq(Evms)
    BY <1>2 DEF Receive, Shape
  <2> QED BY <1>2, <2>1, <2>2, QuietType DEF Receive, Shape, database, pending, client
<1>3. CASE StoreInflow(e)
  <2>1. LoopType'
    BY <1>3 DEF StoreInflow, LoopType, loop, client, input
  <2> QED BY <1>3, <2>1, QuietType DEF StoreInflow, Shape, input, loop, pending, client
<1> QED BY <1>2, <1>3

LEMMA PingType ==
    ASSUME TypeInv, NEW ok \in BOOLEAN, PingResult(ok)
    PROVE  TypeInv'
<1> USE DEF TypeInv
<1>1. /\ pinging /\ ~screening /\ evm_queue = {}
      /\ pinging' = FALSE
      /\ UNCHANGED <<database, input, evm_channel, pending, cache, running, starts>>
  BY DEF PingResult, LoopType
<1>2. PendingEvms \subseteq Evms
  BY DEF PendingEvms, Shape
<1>3. /\ given_up' \subseteq Evms /\ evm_queue' \subseteq Evms
      /\ screening' \in BOOLEAN /\ (~screening' => evm_queue' = {})
  BY <1>1, <1>2 DEF PingResult, Shape
<1>4. LoopType'
  BY <1>1, <1>3 DEF LoopType, input
<1> QED BY <1>1, <1>3, <1>4, QuietType DEF Shape, database, input, pending

LEMMA AgingType ==
    ASSUME TypeInv, NEW e \in Evms, Age(e) \/ Expire(e)
    PROVE  TypeInv'
<1> USE DEF TypeInv
<1>1. CASE Age(e)
  <2>1. PICK row : row = [scores[e] EXCEPT !.fresh = FALSE]
    OBVIOUS
  <2>2. scores[e] \in Score
    BY <1>1 DEF Age, FreshInDb, Shape
  <2>3. row \in Score
    BY <2>1, <2>2 DEF Score
  <2>4. scores' = [scores EXCEPT ![e] = row]
    BY <1>1, <2>1 DEF Age
  <2>5. scores' \in [Evms -> Score \cup {None}]
    BY <2>3, <2>4 DEF Shape
  <2>6. LoopType'
    BY <1>1 DEF Age, LoopType, loop, client, input
  <2> QED BY <1>1, <2>5, <2>6, QuietType DEF Age, Shape, input, loop, pending, client
<1>2. CASE Expire(e)
  <2>1. LoopType'
    BY <1>2 DEF Expire, LoopType, loop, input
  <2> QED BY <1>2, <2>1, QuietType DEF Expire, Shape, database, input, loop, pending
<1> QED BY <1>1, <1>2

\* The steps that end in process_evms.
LEMMA ProcessType ==
    ASSUME TypeInv, NEW evms \in SUBSET Evms, NEW count \in 0 .. MaxRetries,
           ProcessEvms(evms, count), evm_sources' \subseteq Evms, known' \subseteq Evms,
           received' \in 0 .. MaxReceived, evm_channel' \in Seq(Evms),
           pinging' \in BOOLEAN, ~(screening /\ pinging'),
           IsABag(requests'), BagToSet(requests') \subseteq BagToSet(requests), PermitInv',
           UNCHANGED <<screening, saving, cache, running, starts>>
    PROVE  TypeInv'
<1> USE DEF TypeInv
<1>1. /\ scores' \in [Evms -> Score \cup {None}] /\ given_up' \subseteq Evms
      /\ evm_queue' = {} \/ evm_queue' = evm_queue
      /\ IsABag(waiting') /\ \A b \in BagToSet(waiting') : b \in Attempt
  BY ProcessEvmsType
<1>2. Shape'
  BY <1>1 DEF Shape
<1>3. LoopType' /\ SavingInv'
  BY <1>1 DEF LoopType, SavingInv
<1> QED BY <1>2, <1>3

LEMMA TickType ==
    ASSUME TypeInv, Tick
    PROVE  TypeInv'
<1> USE DEF TypeInv
<1>1. {} \in SUBSET Evms /\ 0 \in 0 .. MaxRetries
  BY RetriesFact
<1>2. PICK elapsed \in BOOLEAN : pinging' = (pinging \/ (~screening /\ elapsed))
  BY DEF Tick
<1>3. pinging' \in BOOLEAN /\ ~(screening /\ pinging')
  BY <1>2 DEF Shape, LoopType
<1>4. /\ ProcessEvms({}, 0)
      /\ UNCHANGED <<evm_sources, known, received, requests, pauses, paused, evm_channel,
                     screening, saving, cache, running, starts>>
  BY DEF Tick, input
<1>5. /\ evm_sources' \subseteq Evms /\ known' \subseteq Evms /\ received' \in 0 .. MaxReceived
      /\ evm_channel' \in Seq(Evms) /\ IsABag(requests')
  BY <1>4 DEF Shape, LoopType
<1>6. PermitInv'
  BY <1>4, SamePermits
<1> QED BY <1>1, <1>3, <1>4, <1>5, <1>6, ProcessType

LEMMA GuidType ==
    ASSUME TypeInv, NEW e \in Evms, GuidResolved(e)
    PROVE  TypeInv'
<1> USE DEF TypeInv
<1>1. {e} \in SUBSET Evms /\ 0 \in 0 .. MaxRetries
  BY RetriesFact
<1>2. /\ ProcessEvms({e}, 0) /\ known' = known \cup {e}
      /\ received < MaxReceived /\ received' = received + 1
      /\ UNCHANGED <<requests, pauses, paused, evm_channel, screening, pinging, saving, cache,
                     running, starts>>
  BY DEF GuidResolved
<1>3. evm_sources' \subseteq Evms
  BY DEF GuidResolved, Shape
<1>4. /\ known' \subseteq Evms /\ received' \in 0 .. MaxReceived
      /\ pinging' \in BOOLEAN /\ ~(screening /\ pinging')
      /\ evm_channel' \in Seq(Evms) /\ IsABag(requests')
  BY <1>2, BoundsFact DEF Shape, LoopType
<1>5. PermitInv'
  BY <1>2, SamePermits
<1> QED BY <1>1, <1>2, <1>3, <1>4, <1>5, ProcessType

LEMMA NewEvmType ==
    ASSUME TypeInv, NewEvm
    PROVE  TypeInv'
<1> USE DEF TypeInv
<1>0. PICK h \in Evms : h = Head(evm_channel)
  BY DEF NewEvm, Shape
<1>1. /\ evm_channel' \in Seq(Evms)
      /\ UNCHANGED <<evm_sources, known, received, screening, pinging, requests, pauses,
                     paused, saving, cache, running, starts>>
  BY DEF NewEvm, input, Shape
<1>2. CASE screening
  <2>1. evm_queue' = evm_queue \cup {h} /\ UNCHANGED <<scores, given_up, waiting>>
    BY <1>0, <1>2 DEF NewEvm
  <2>2. LoopType'
    BY <1>1, <1>2, <2>1 DEF LoopType
  <2> QED BY <1>1, <2>1, <2>2, QuietType DEF Shape
<1>3. CASE ~screening
  <2>1. ProcessEvms({h}, 0) /\ {h} \in SUBSET Evms /\ 0 \in 0 .. MaxRetries
    BY <1>0, <1>3, RetriesFact DEF NewEvm, ProcessEvms
  <2>2. PermitInv'
    BY <1>1, SamePermits
  <2>3. /\ evm_sources' \subseteq Evms /\ known' \subseteq Evms
        /\ received' \in 0 .. MaxReceived /\ pinging' \in BOOLEAN
        /\ ~(screening /\ pinging') /\ IsABag(requests')
        /\ BagToSet(requests') \subseteq BagToSet(requests)
    BY <1>1, <1>3 DEF Shape, LoopType
  <2> QED BY <1>1, <2>1, <2>2, <2>3, ProcessType
<1> QED BY <1>2, <1>3 DEF Shape

\* A request that ends gives its permit back.
LEMMA ReleasePermit ==
    ASSUME TypeInv, NEW r \in BagToSet(requests), requests' = Without(requests, r),
           pauses' \in 0 .. MaxPauses, paused' = paused
    PROVE  /\ IsABag(requests') /\ BagToSet(requests') \subseteq BagToSet(requests)
           /\ PermitInv'
<1> USE DEF TypeInv
<1>1. IsABag(requests') /\ BagToSet(requests') \subseteq BagToSet(requests)
  BY WithoutFact DEF Shape
<1>2. /\ IsFiniteSet(DOMAIN requests') /\ PermitsTaken' \in Nat
      /\ PermitsTaken = PermitsTaken' + 1
  BY BagSizeDown DEF Shape, PermitInv, PermitsTaken, Without
<1>3. PICK p, q : p = PermitsTaken /\ q = PermitsTaken'
  OBVIOUS
<1>4. PermitsTaken' <= MaxConcurrent
  <2>1. p = q + 1 /\ q \in Nat /\ p <= MaxConcurrent
    BY <1>2, <1>3 DEF PermitInv
  <2>2. q <= MaxConcurrent
    BY <2>1, BoundsFact
  <2> QED BY <1>3, <2>2
<1>5. ~paused
  BY EmptyBagFact DEF PermitInv
<1> QED BY <1>1, <1>2, <1>4, <1>5 DEF PermitInv

LEMMA FetchFailsType ==
    ASSUME TypeInv, NEW r, NEW tooMany \in BOOLEAN, FetchFails(r, tooMany)
    PROVE  TypeInv'
<1> USE DEF TypeInv
<1>1. /\ r \in BagToSet(requests) /\ requests' = Without(requests, r)
      /\ ProcessEvms(r.evms, r.count + 1)
      /\ UNCHANGED <<evm_sources, known, received, evm_channel, screening, pinging, paused,
                     saving, cache, running, starts>>
  BY DEF FetchFails, input, BagIn
<1>2. pauses' \in 0 .. MaxPauses
  BY BoundsFact DEF FetchFails, PermitInv
<1>3. r \in Request
  BY <1>1 DEF Shape
<1>4. r.evms \in SUBSET Evms /\ r.count + 1 \in 0 .. MaxRetries
  BY <1>3, RetriesFact DEF Request
<1>5. /\ IsABag(requests') /\ BagToSet(requests') \subseteq BagToSet(requests) /\ PermitInv'
  BY <1>1, <1>2, ReleasePermit
<1>6. /\ evm_sources' \subseteq Evms /\ known' \subseteq Evms /\ received' \in 0 .. MaxReceived
      /\ evm_channel' \in Seq(Evms) /\ pinging' \in BOOLEAN /\ ~(screening /\ pinging')
  BY <1>1 DEF Shape, LoopType
<1> QED BY <1>1, <1>4, <1>5, <1>6, ProcessType

\* A permit is taken only where one is free and no pause has them.
LEMMA AcquireType ==
    ASSUME TypeInv, NEW item, Acquire(item)
    PROVE  TypeInv'
<1> USE DEF TypeInv
<1>0. PICK ask : ask = {e \in item.evms : Lower[e] \notin cache}
  OBVIOUS
<1>1. PICK r : r = [evms |-> item.evms, ask |-> ask, count |-> item.count]
  OBVIOUS
<1>2. /\ item \in BagToSet(waiting) /\ waiting' = Without(waiting, item)
      /\ ~paused /\ PermitsTaken < MaxConcurrent
      /\ requests' = IF ask = {} THEN requests ELSE With(requests, r)
      /\ UNCHANGED <<evm_sources, scores, known, received, evm_channel, screening, pinging,
                     evm_queue, saving, pauses, paused, cache, given_up, running, starts>>
  BY <1>0, <1>1 DEF Acquire, BagIn, database, input, loop, client
<1>3. item \in Attempt /\ r \in Request /\ r.ask = ask /\ r.evms = item.evms
  BY <1>0, <1>1, <1>2 DEF Shape, Attempt, Request
<1>4. IsABag(waiting') /\ BagToSet(waiting') \subseteq BagToSet(waiting)
  BY <1>2, WithoutFact DEF Shape
<1>5. CASE ask = {}
  <2>1. requests' = requests
    BY <1>2, <1>5
  <2>2. Shape' /\ LoopType' /\ SavingInv'
    BY <1>2, <1>4, <2>1 DEF Shape, LoopType, SavingInv
  <2>3. PermitInv'
    BY <1>2, <2>1, SamePermits
  <2> QED BY <2>2, <2>3
<1>6. CASE ask # {}
  <2>1. requests' = With(requests, r)
    BY <1>2, <1>6
  <2>2. IsABag(requests') /\ BagToSet(requests') = BagToSet(requests) \cup {r}
    BY <2>1, WithFact DEF Shape
  <2>3. /\ IsFiniteSet(DOMAIN requests') /\ PermitsTaken \in Nat
        /\ PermitsTaken' = PermitsTaken + 1
    BY <2>1, BagSizeUp DEF Shape, PermitInv, PermitsTaken, With
  <2>4. PermitsTaken' <= MaxConcurrent
    BY <1>2, <2>3, BoundsFact
  <2>5. Shape' /\ LoopType' /\ SavingInv'
    BY <1>2, <1>3, <1>4, <2>2 DEF Shape, LoopType, SavingInv
  <2>6. r.ask # {} /\ r.ask \subseteq r.evms
    BY <1>0, <1>3, <1>6
  <2>7. PermitInv'
    BY <1>2, <2>2, <2>3, <2>4, <2>6 DEF PermitInv
  <2> QED BY <2>5, <2>7
<1> QED BY <1>5, <1>6

LEMMA PauseType ==
    ASSUME TypeInv, BeginPause \/ EndPause
    PROVE  TypeInv'
<1> USE DEF TypeInv
<1>1. UNCHANGED <<evm_sources, scores, known, received, evm_channel, screening, pinging,
                  evm_queue, waiting, requests, saving, cache, given_up, running, starts>>
  BY DEF BeginPause, EndPause, database, input, loop, client
<1>2. Shape' /\ LoopType' /\ SavingInv'
  BY <1>1 DEF Shape, LoopType, SavingInv
<1>3. /\ pauses' \in 0 .. MaxPauses /\ paused' \in BOOLEAN
      /\ paused' => requests' = EmptyBag
  <2>1. CASE BeginPause
    <3>1. pauses' \in 0 .. MaxPauses
      BY <2>1, BoundsFact DEF BeginPause, PermitInv
    <3> QED BY <1>1, <2>1, <3>1 DEF BeginPause
  <2>2. CASE EndPause
    BY <1>1, <2>2 DEF EndPause, PermitInv
  <2> QED BY <2>1, <2>2
<1>4. PermitInv'
  BY <1>1, <1>3 DEF PermitInv, PermitsTaken
<1> QED BY <1>2, <1>4

LEMMA AnswerType ==
    ASSUME TypeInv, NEW r, NEW answered \in SUBSET r.ask, NEW data \in BOOLEAN,
           Answer(r, answered, data)
    PROVE  TypeInv'
<1> USE DEF TypeInv
<1>0. PICK s : s = [todo |-> r.ask, named |-> answered]
  OBVIOUS
<1>1. /\ r \in BagToSet(requests) /\ requests' = Without(requests, r)
      /\ saving' = With(saving, s)
      /\ cache' \subseteq cache \cup {Lower[e] : e \in r.ask}
      /\ UNCHANGED <<evm_sources, scores, known, received, evm_channel, screening, pinging,
                     evm_queue, waiting, pauses, paused, given_up, running, starts>>
  BY <1>0 DEF Answer, BagIn, database, input, loop
<1>2. r \in Request /\ r.ask \subseteq Evms /\ r.ask # {}
  BY <1>1 DEF Shape, Request, PermitInv
<1>3. s \in Saving /\ s.todo # {}
  BY <1>0, <1>2 DEF Saving
<1>4. pauses' \in 0 .. MaxPauses
  BY <1>1 DEF PermitInv
<1>5. /\ IsABag(requests') /\ BagToSet(requests') \subseteq BagToSet(requests) /\ PermitInv'
  BY <1>1, <1>4, ReleasePermit
<1>6. IsABag(saving') /\ BagToSet(saving') = BagToSet(saving) \cup {s}
  BY <1>1, WithFact DEF Shape
<1>7. Shape' /\ SavingInv'
  BY <1>1, <1>3, <1>5, <1>6 DEF Shape, SavingInv
<1>8. cache' \subseteq {Lower[e] : e \in Evms}
  BY <1>1, <1>2 DEF LoopType
<1>9. LoopType'
  BY <1>1, <1>8 DEF LoopType
<1> QED BY <1>5, <1>7, <1>9

LEMMA SaveScoreType ==
    ASSUME TypeInv, NEW s, NEW e \in s.todo, NEW ok \in BOOLEAN, SaveScore(s, e, ok)
    PROVE  TypeInv'
<1> USE DEF TypeInv
<1>0. PICK rest : rest = [s EXCEPT !.todo = @ \ {e}]
  OBVIOUS
<1>1. /\ s \in BagToSet(saving)
      /\ saving' = IF rest.todo = {} THEN Without(saving, s)
                   ELSE With(Without(saving, s), rest)
      /\ UNCHANGED <<evm_sources, known, received, evm_channel, screening, pinging, evm_queue,
                     waiting, requests, pauses, paused, cache, running, starts>>
  BY <1>0 DEF SaveScore, BagIn, input, loop
<1>2. s \in Saving /\ e \in Evms
  BY <1>1 DEF Shape, Saving
<1>3. rest \in Saving
  BY <1>0, <1>2 DEF Saving
<1>4. scores' \in [Evms -> Score \cup {None}] /\ given_up' \subseteq Evms
  <2>1. CASE ok
    <3>1. PICK kind \in {"error", "not available", "screened"} :
             scores' = [scores EXCEPT ![e] = NewScore(kind)] /\ given_up' = given_up
      BY <2>1 DEF SaveScore
    <3>2. NewScore(kind) \in Score
      BY NewScoreFact
    <3> QED BY <1>2, <3>1, <3>2 DEF Shape
  <2>2. CASE ~ok
    <3>1. given_up' = given_up \cup {e} /\ scores' = scores
      BY <2>2 DEF SaveScore
    <3> QED BY <1>2, <3>1 DEF Shape
  <2> QED BY <2>1, <2>2
<1>5. IsABag(Without(saving, s)) /\ BagToSet(Without(saving, s)) \subseteq BagToSet(saving)
  BY WithoutFact DEF Shape
<1>6. /\ IsABag(saving')
      /\ BagToSet(saving') = IF rest.todo = {} THEN BagToSet(Without(saving, s))
                             ELSE BagToSet(Without(saving, s)) \cup {rest}
  BY <1>1, <1>5, WithFact
<1>7. Shape' /\ SavingInv'
  BY <1>1, <1>3, <1>4, <1>5, <1>6 DEF Shape, SavingInv
<1>8. LoopType' /\ PermitInv'
  BY <1>1, SamePermits DEF LoopType
<1> QED BY <1>7, <1>8

LEMMA NextType ==
    ASSUME TypeInv, [Next]_vars
    PROVE  TypeInv'
<1>1. CASE UNCHANGED vars
  <2>1. LoopType'
    BY <1>1 DEF TypeInv, LoopType, vars, input, loop, client
  <2> QED BY <1>1, <2>1, QuietType DEF TypeInv, Shape, vars, database, input, loop, pending, client
<1>2. CASE Next
  <2>1. CASE Start
    <3>1. LoopType'
      BY <2>1, BoundsFact DEF TypeInv, Start, LoopType, loop, client, input
    <3> QED BY <2>1, <3>1, QuietType
            DEF TypeInv, Start, Shape, database, input, loop, pending, client
  <2>2. CASE Crash
    BY <2>2, CrashType
  <2>3. CASE \E e \in Evms : Receive(e) \/ StoreInflow(e) \/ GuidResolved(e) \/ Age(e) \/ Expire(e)
    BY <2>3, InputType, GuidType, AgingType
  <2>4. CASE NewEvm \/ Tick
    BY <2>4, NewEvmType, TickType
  <2>5. CASE \E ok \in BOOLEAN : PingResult(ok)
    BY <2>5, PingType
  <2>6. CASE \E item \in BagToSet(waiting) : Acquire(item)
    BY <2>6, AcquireType
  <2>7. CASE BeginPause \/ EndPause
    BY <2>7, PauseType
  <2>8. CASE Respond
    BY <2>8, FetchFailsType, AnswerType DEF Respond
  <2>9. CASE SaveAny
    BY <2>9, SaveScoreType DEF SaveAny, Outcomes
  <2> QED BY <1>2, <2>1, <2>2, <2>3, <2>4, <2>5, <2>6, <2>7, <2>8, <2>9 DEF Next
<1> QED BY <1>1, <1>2
------------------------------------------------------------------------------
(***************************************************************************)
(* Theorems                                                                *)
(***************************************************************************)

\* Every state of the enricher loop has the shape the code gives it: batches
\* carry addresses and a count within MAX_RETRIES, no more requests are in
\* flight than the rate limiter has permits, and none while it is paused.
THEOREM TypeCorrect == Spec => []TypeOK
<1>1. Init => TypeInv
  BY InitType
<1>2. TypeInv /\ [Next]_vars => TypeInv'
  BY NextType
<1>3. TypeInv => TypeOK
  BY TypeInvImplies
<1> QED BY <1>1, <1>2, <1>3, PTL DEF Spec

LEMMA InductiveInvariant ==
    ASSUME DistinctAddresses
    PROVE  Spec => []IInv
<1>1. Init => IInv
  BY InitInv
<1>2. IInv /\ [Next]_vars => IInv'
  <2> SUFFICES ASSUME IInv, [Next]_vars PROVE IInv'
    OBVIOUS
  <2>1. CASE Next
    BY <2>1, NextInv
  <2>2. CASE UNCHANGED vars
    BY <2>2, SameBody DEF vars, IInv, Shape, body, database, input, loop, pending, client
  <2> QED BY <2>1, <2>2
<1> QED BY <1>1, <1>2, PTL DEF Spec

\* No address the enricher loop is sent is lost on its way through the queue,
\* the retries, the cache and the saves (new_evm, process_evms, evm_future), for
\* any number of addresses, retries, permits and restarts.
THEOREM NoAddressIsLost ==
    ASSUME DistinctAddresses
    PROVE  Spec => []Accounted
<1>1. IInv => Accounted
  BY InvariantImplies
<1> QED BY <1>1, InductiveInvariant, PTL

\* An address the client finds in its cache, and therefore does not ask for,
\* has a row, is about to get one, or was given up (fetch_batch, screen_evms).
THEOREM CacheHidesNothing ==
    ASSUME DistinctAddresses
    PROVE  Spec => []CacheIsSaved
<1>1. IInv => CacheIsSaved
  BY InvariantImplies
<1> QED BY <1>1, InductiveInvariant, PTL
==============================================================================
