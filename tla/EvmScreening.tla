---------------------------- MODULE EvmScreening -----------------------------
(***************************************************************************)
(* The screening side of the address reputation enricher: the loop that    *)
(* takes EVM addresses from the extractor and from resolved GUIDs, asks    *)
(* Hypernative for their risk and keeps evm_address_risk_scores.           *)
(*                                                                         *)
(*   extractor --evm channel--> EnricherLoop --> process_evms              *)
(*                                ^                 | evm_future           *)
(*                                +--- RetryItem ---+ --> Hypernative, DB  *)
(*                                                                         *)
(* One task runs the loop and polls the futures, so a handler of the loop  *)
(* is never interrupted by a future, and a future that ends with a batch   *)
(* is handled before another is polled; futures interleave where they      *)
(* await: the delay of a retry, a permit, the answer, each save.           *)
(* Only the pause after a 429 is a task of its own.  Times (TTL, delays,   *)
(* the requests-per-second window) are reduced to the order of events.     *)
(***************************************************************************)
EXTENDS Integers, Sequences, FiniteSets, SequencesExt, Bags

CONSTANTS
    None,            \* no row
    Evms,            \* EVM addresses as they are spelled, without the null sentinel
    Lower,           \* Lower[e]: the lower case spelling of e
    MaxRetries,      \* MAX_RETRIES
    MaxConcurrent,   \* max_concurrent_requests
    QueriesMayFail,  \* whether a database query or statement can fail
    MaxReceived,     \* bound: addresses the loop is sent
    MaxPauses,       \* bound: pause tasks waiting
    MaxStarts        \* bound: process starts

ASSUME EvmScreeningAssumption ==
    /\ DOMAIN Lower = Evms
    /\ MaxRetries \in Nat /\ MaxConcurrent \in Nat \ {0}
    /\ QueriesMayFail \in BOOLEAN /\ MaxReceived \in Nat /\ MaxPauses \in Nat
    /\ MaxStarts \in Nat
    /\ None \notin [kind : {"error", "not available", "screened"}, fresh : BOOLEAN]

VARIABLES
    evm_sources,    \* the EVM sources of the rows of bridge_inflows
    scores,         \* evm_address_risk_scores: address -> row or None
    running,        \* whether the process is up
    starts,         \* how often it was started
    received,       \* how many addresses the loop was sent
    known,          \* the addresses this process was sent
    evm_channel,    \* addresses the extractor sent
    screening,      \* HypernativeState: connected or not
    pinging,        \* whether a ping is in flight
    evm_queue,      \* EvmScreening.evm_queue
    waiting,        \* evm_futures that have no permit yet, a bag
    requests,       \* requests in flight, a bag; each holds a permit
    pauses,         \* pause tasks that wait for the permits
    paused,         \* whether a pause holds all permits
    saving,         \* scores that screen_evms still has to save, a bag
    cache,          \* lower case addresses in the TTL cache
    given_up        \* addresses this process gave up on, with a log line

database == <<evm_sources, scores>>
input    == <<received, known>>
loop     == <<evm_channel, screening, pinging, evm_queue>>
pending  == <<waiting, requests, pauses, paused, saving>>
client   == <<cache, given_up>>
vars == <<database, input, loop, pending, client, running, starts>>

Item == [evms : SUBSET Evms, count : 0 .. MaxRetries]
Score == [kind : {"error", "not available", "screened"}, fresh : BOOLEAN]

With(bag, elem) == bag (+) SetToBag({elem})
Without(bag, elem) == bag (-) SetToBag({elem})
Outcomes == IF QueriesMayFail THEN BOOLEAN ELSE {TRUE}
------------------------------------------------------------------------------
(***************************************************************************)
(* The score table.                                                        *)
(***************************************************************************)
\* error_score has to_be_updated set, a computed score has not; both are
\* stamped with the time of their making.
NewScore(kind) == [kind |-> kind, fresh |-> TRUE]
ToBeUpdated(e) == scores[e] # None /\ scores[e].kind = "error"

\* is_fresh_in_db; a query that fails answers no.
FreshInDb(e) == scores[e] # None /\ ~ToBeUpdated(e) /\ scores[e].fresh
FreshAnswers == IF QueriesMayFail THEN SUBSET {e \in Evms : FreshInDb(e)}
                ELSE {{e \in Evms : FreshInDb(e)}}

\* save of an error score for each of E; those of failed are logged only.
SaveErrors(E, failed) ==
    /\ scores' = [e \in Evms |-> IF e \in E \ failed THEN NewScore("error") ELSE scores[e]]
    /\ given_up' = given_up \cup E

\* Mutant: only the rows that ask for an update.
PendingErrors == {e \in Evms : ToBeUpdated(e)}

\* load_pending_evms: the sources without a settled score, and every address
\* that is to be updated.
PendingEvms ==
    {e \in evm_sources : scores[e] = None \/ ToBeUpdated(e)}
      \cup {e \in Evms : ToBeUpdated(e)}
------------------------------------------------------------------------------
Init ==
    /\ running = FALSE /\ starts = 0 /\ received = 0 /\ known = {}
    /\ evm_sources = {} /\ scores = [e \in Evms |-> None]
    /\ evm_channel = <<>> /\ screening = FALSE /\ pinging = FALSE /\ evm_queue = {}
    /\ waiting = EmptyBag /\ requests = EmptyBag
    /\ pauses = 0 /\ paused = FALSE /\ saving = EmptyBag
    /\ cache = {} /\ given_up = {}

Start ==
    /\ ~running /\ starts < MaxStarts
    /\ running' = TRUE /\ starts' = starts + 1
    /\ UNCHANGED <<database, input, loop, pending, client>>

\* A process that ends keeps nothing but its tables.
Crash ==
    /\ running /\ starts < MaxStarts
    /\ running' = FALSE /\ known' = {}
    /\ evm_channel' = <<>> /\ screening' = FALSE /\ pinging' = FALSE /\ evm_queue' = {}
    /\ waiting' = EmptyBag /\ requests' = EmptyBag
    /\ pauses' = 0 /\ paused' = FALSE /\ saving' = EmptyBag
    /\ cache' = {} /\ given_up' = {}
    /\ UNCHANGED <<database, starts, received>>

\* The extractor forwards the address of an inflow; the storer commits the
\* inflow later.
Receive(e) ==
    /\ running /\ received < MaxReceived
    /\ received' = received + 1 /\ known' = known \cup {e}
    /\ evm_channel' = Append(evm_channel, e)
    /\ UNCHANGED <<database, screening, pinging, evm_queue, pending, client, running, starts>>

StoreInflow(e) ==
    /\ running /\ e \in known \ evm_sources
    /\ evm_sources' = evm_sources \cup {e}
    /\ UNCHANGED <<scores, input, loop, pending, client, running, starts>>
------------------------------------------------------------------------------
(***************************************************************************)
(* EnricherLoop::run, one branch of its select at a time.                  *)
(***************************************************************************)
\* process_evms before the connection: an error score marks the address for
\* load_pending_evms.
MarkPending(evms, count) ==
    \E fresh \in FreshAnswers : \E failed \in IF QueriesMayFail THEN SUBSET evms ELSE {{}} :
        LET marked == IF count = 0 THEN evms \ fresh ELSE {}
        IN /\ scores' = [e \in Evms |-> IF e \in marked \ failed THEN NewScore("error")
                                        ELSE scores[e]]
           /\ given_up' = given_up \cup (marked \cap failed)
           /\ UNCHANGED <<evm_queue, waiting>>

\* process_evms when connected: the batch takes the queue along, leaves out
\* what is fresh if it is a first attempt, and is started, or given up.
ScreenOrGiveUp(evms, count) ==
    LET seen == {Lower[e] : e \in evms}
        all == evms \cup {e \in evm_queue : Lower[e] \notin seen}
    IN \E fresh \in FreshAnswers : \E failed \in IF QueriesMayFail THEN SUBSET all ELSE {{}} :
        LET to_screen == IF count = 0 THEN all \ fresh ELSE all
        IN /\ evm_queue' = {}
           /\ IF to_screen = {} THEN UNCHANGED <<scores, given_up, waiting>>
              ELSE IF count < MaxRetries
              THEN /\ waiting' = With(waiting, [evms |-> to_screen, count |-> count])
                   /\ UNCHANGED <<scores, given_up>>
              ELSE /\ SaveErrors(to_screen, failed)
                   /\ UNCHANGED waiting

ProcessEvms(evms, count) ==
    IF screening THEN ScreenOrGiveUp(evms, count) ELSE MarkPending(evms, count)

\* Mutant: an address that arrives before the connection is dropped.
NewEvmDropped ==
    /\ running /\ evm_channel # <<>>
    /\ evm_channel' = Tail(evm_channel)
    /\ evm_queue' = IF screening THEN evm_queue \cup {Head(evm_channel)} ELSE evm_queue
    /\ UNCHANGED <<database, input, screening, pinging, pending, client, running, starts>>

\* new_evm
NewEvm ==
    /\ running /\ evm_channel # <<>>
    /\ evm_channel' = Tail(evm_channel)
    /\ IF screening
       THEN /\ evm_queue' = evm_queue \cup {Head(evm_channel)}
            /\ UNCHANGED <<scores, given_up, waiting>>
       ELSE MarkPending({Head(evm_channel)}, 0)
    /\ UNCHANGED <<evm_sources, input, screening, pinging, requests, pauses,
                   paused, saving, cache, running, starts>>

\* The ticker: before the connection a ping, unless one is in flight or the
\* reconnect interval has not elapsed; after it the queue is flushed.
Tick ==
    /\ running
    /\ \E elapsed \in BOOLEAN : pinging' = (pinging \/ (~screening /\ elapsed))
    /\ ProcessEvms({}, 0)
    /\ UNCHANGED <<evm_sources, input, evm_channel, screening, requests,
                   pauses, paused, saving, cache, running, starts>>

\* A ping came back; once connected the pending addresses are loaded.
PingResult(ok) ==
    /\ running /\ pinging
    /\ pinging' = FALSE
    /\ IF ok
       THEN /\ screening' = TRUE
            /\ \E loaded \in Outcomes :
                  /\ evm_queue' = IF loaded THEN PendingEvms ELSE {}
                  /\ given_up' = IF loaded THEN given_up ELSE given_up \cup PendingEvms
       ELSE UNCHANGED <<screening, evm_queue, given_up>>
    /\ UNCHANGED <<database, input, evm_channel, pending, cache, running, starts>>

\* A GUID is resolved: write_evm stored the address, or failed to, and the
\* address comes back to the loop as a first attempt.
GuidResolved(e) ==
    /\ running /\ received < MaxReceived
    /\ received' = received + 1 /\ known' = known \cup {e}
    /\ \E ok \in Outcomes : evm_sources' = IF ok THEN evm_sources \cup {e} ELSE evm_sources
    /\ ProcessEvms({e}, 0)
    /\ UNCHANGED <<evm_channel, screening, pinging, requests, pauses, paused, saving, cache,
                   running, starts>>
------------------------------------------------------------------------------
(***************************************************************************)
(* evm_future: screen_evms and fetch_batch behind the rate limiter.  The   *)
(* semaphore serves its waiters in the order they come to it, which delays *)
(* and the requests-per-second window leave open: any may be next.         *)
(***************************************************************************)
\* Every request in flight has a permit of its own, copies in the bag too.
PermitsTaken == SumFunction(requests)

\* Mutant: a permit is taken although a pause holds them.
AcquireInPause(item) ==
    /\ running /\ BagIn(item, waiting)
    /\ PermitsTaken < MaxConcurrent
    /\ requests' = With(requests, [evms |-> item.evms, ask |-> item.evms, count |-> item.count])
    /\ waiting' = Without(waiting, item)
    /\ UNCHANGED <<database, input, loop, pauses, paused, saving, client, running,
                   starts>>

\* Mutant: the addresses are cached before the answer is there.
AcquireAndCache(item) ==
    /\ running /\ BagIn(item, waiting)
    /\ ~paused /\ PermitsTaken < MaxConcurrent
    /\ LET ask == {e \in item.evms : Lower[e] \notin cache}
       IN /\ requests' = IF ask = {} THEN requests
                         ELSE With(requests, [evms |-> item.evms, ask |-> ask, count |-> item.count])
          /\ cache' = cache \cup {Lower[e] : e \in ask}
    /\ waiting' = Without(waiting, item)
    /\ UNCHANGED <<database, input, loop, pauses, paused, saving, given_up, running,
                   starts>>

\* The delay is over and a permit is free: what the cache does not have is
\* asked for.
Acquire(item) ==
    /\ running /\ BagIn(item, waiting)
    /\ ~paused /\ PermitsTaken < MaxConcurrent
    /\ LET ask == {e \in item.evms : Lower[e] \notin cache}
       IN requests' = IF ask = {} THEN requests
                      ELSE With(requests, [evms |-> item.evms, ask |-> ask, count |-> item.count])
    /\ waiting' = Without(waiting, item)
    /\ UNCHANGED <<database, input, loop, pauses, paused, saving, client, running,
                   starts>>

\* RateLimiter::pause gets all permits, and holds them for a while.
BeginPause ==
    /\ running /\ pauses > 0
    /\ ~paused /\ requests = EmptyBag
    /\ paused' = TRUE /\ pauses' = pauses - 1
    /\ UNCHANGED <<database, input, loop, waiting, requests, saving, client, running,
                   starts>>

EndPause ==
    /\ running /\ paused
    /\ paused' = FALSE
    /\ UNCHANGED <<database, input, loop, waiting, requests, pauses, saving,
                   client, running, starts>>

\* The request fails, with a 429 or otherwise: the future ends with the whole
\* batch, which the loop takes up at once.
FetchFails(r, tooMany) ==
    /\ running /\ BagIn(r, requests)
    /\ tooMany => pauses < MaxPauses
    /\ requests' = Without(requests, r)
    /\ pauses' = IF tooMany THEN pauses + 1 ELSE pauses
    /\ ProcessEvms(r.evms, r.count + 1)
    /\ UNCHANGED <<evm_sources, input, evm_channel, screening, pinging, paused, saving, cache,
                   running, starts>>

\* An answer: with a data array that names some of the addresses, which are
\* then all cached, or without one, which names and caches none.  What is left
\* of screen_evms is to save a score for every address it asked for, "not
\* available" for those the answer does not name.
Answer(r, answered, data) ==
    /\ running /\ BagIn(r, requests)
    /\ data \/ answered = {}
    /\ requests' = Without(requests, r)
    /\ cache' = IF data THEN cache \cup {Lower[e] : e \in r.ask} ELSE cache
    /\ saving' = With(saving, [todo |-> r.ask, named |-> answered])
    /\ UNCHANGED <<database, input, loop, waiting, pauses, paused, given_up,
                   running, starts>>

\* One iteration of the save loop; a failed save is logged.
SaveScore(s, e, ok) ==
    /\ running /\ BagIn(s, saving) /\ e \in s.todo
    /\ saving' = LET rest == [s EXCEPT !.todo = @ \ {e}]
                 IN IF rest.todo = {} THEN Without(saving, s) ELSE With(Without(saving, s), rest)
    /\ IF ok
       THEN /\ scores' = [scores EXCEPT ![e] =
                  NewScore(IF e \in s.named THEN "screened" ELSE "not available")]
            /\ UNCHANGED given_up
       ELSE /\ given_up' = given_up \cup {e}
            /\ UNCHANGED scores
    /\ UNCHANGED <<evm_sources, input, loop, waiting, requests, pauses,
                   paused, cache, running, starts>>

\* The TTL passes for a row of the table, or for an entry of the cache; the
\* age of an error score is never asked for.
Age(e) ==
    /\ FreshInDb(e)
    /\ scores' = [scores EXCEPT ![e].fresh = FALSE]
    /\ UNCHANGED <<evm_sources, input, loop, pending, client, running, starts>>

Expire(e) ==
    /\ Lower[e] \in cache
    /\ cache' = cache \ {Lower[e]}
    /\ UNCHANGED <<database, input, loop, pending, given_up, running, starts>>

Respond ==
    \E r \in BagToSet(requests) :
        \/ \E tooMany \in BOOLEAN : FetchFails(r, tooMany)
        \/ \E answered \in SUBSET r.ask, data \in BOOLEAN : Answer(r, answered, data)

SaveAny == \E s \in BagToSet(saving) : \E e \in s.todo, ok \in Outcomes : SaveScore(s, e, ok)

Next ==
    \/ Start \/ Crash
    \/ \E e \in Evms : Receive(e) \/ StoreInflow(e) \/ GuidResolved(e) \/ Age(e) \/ Expire(e)
    \/ NewEvm \/ Tick
    \/ \E ok \in BOOLEAN : PingResult(ok)
    \/ \E item \in BagToSet(waiting) : Acquire(item)
    \/ BeginPause \/ EndPause
    \/ Respond
    \/ SaveAny

Spec == Init /\ [][Next]_vars

(***************************************************************************)
(* Fairness: select picks among its ready branches at random, requests     *)
(* have a timeout, delays and pauses end, the process is started again.    *)
(***************************************************************************)
Fairness ==
    /\ WF_vars(Start) /\ WF_vars(NewEvm) /\ WF_vars(Tick)
    /\ WF_vars(\E ok \in BOOLEAN : PingResult(ok))
    /\ WF_vars(\E item \in BagToSet(waiting) : Acquire(item))
    /\ WF_vars(BeginPause) /\ WF_vars(EndPause)
    /\ WF_vars(Respond)
    /\ WF_vars(SaveAny)

FairSpec == Spec /\ Fairness
------------------------------------------------------------------------------
Batches == BagToSet(waiting)
             \cup {[evms |-> r.evms, count |-> r.count] : r \in BagToSet(requests)}

\* Where an address may be on its way through the loop.
UnderWay ==
    Range(evm_channel) \cup evm_queue \cup (UNION {b.evms : b \in Batches})
      \cup (UNION {s.todo : s \in BagToSet(saving)})

Settled(e) == scores[e] # None /\ ~ToBeUpdated(e)

(***************************************************************************)
(* Properties                                                              *)
(***************************************************************************)

\* Type invariant: batches carry addresses and a count within MAX_RETRIES, no
\* more requests are in flight than there are permits, and none while paused.
TypeOK ==
    /\ evm_sources \subseteq Evms /\ scores \in [Evms -> Score \cup {None}]
    /\ running \in BOOLEAN /\ starts \in 0 .. MaxStarts /\ received \in 0 .. MaxReceived
    /\ known \subseteq Evms /\ evm_channel \in Seq(Evms)
    /\ screening \in BOOLEAN /\ pinging \in BOOLEAN /\ ~(screening /\ pinging)
    /\ evm_queue \subseteq Evms /\ (~screening => evm_queue = {})
    /\ Batches \subseteq Item
    /\ PermitsTaken <= MaxConcurrent /\ (paused => requests = EmptyBag)
    /\ \A r \in BagToSet(requests) : r.ask # {} /\ r.ask \subseteq r.evms
    /\ pauses \in 0 .. MaxPauses /\ paused \in BOOLEAN
    /\ \A s \in BagToSet(saving) : s.todo # {}
    /\ cache \subseteq {Lower[e] : e \in Evms} /\ given_up \subseteq Evms

\* No address is lost on its way: one the process was sent has a row, is
\* somewhere in the loop, or was given up with a log line; whether it came
\* before or after the connection, in a batch of its own or with a retry.
Accounted ==
    \A e \in known : scores[e] # None \/ e \in UnderWay \/ e \in given_up

\* The cache never hides an address that has no row: a cached address has
\* one, is about to get it, or its save failed and was logged.
CacheIsSaved ==
    \A e \in Evms : Lower[e] \in cache =>
        \/ scores[e] # None \/ e \in given_up
        \/ \E s \in BagToSet(saving) : e \in s.todo

\* Once the loop stays connected, every source in bridge_inflows gets a score
\* that need not be updated, or is given up with a log line: across crashes,
\* error scores from before the connection, retries and pauses.
SourcesSettle ==
    <>[]screening => \A e \in Evms : (e \in evm_sources) ~> (Settled(e) \/ e \in given_up)

\* to_be_updated is set only for an address that still needs a result: one
\* whose risk Hypernative answered within the TTL never gets an error score.
FreshScoreKept ==
    [][\A e \in Evms : FreshInDb(e) /\ scores[e].kind = "screened" => ~ToBeUpdated(e)']_scores
==============================================================================
