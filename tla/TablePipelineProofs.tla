------------------------- MODULE TablePipelineProofs -------------------------
(***************************************************************************)
(* Proofs about TablePipeline: the order of the batches for every          *)
(* processor, whatever its extractor makes of a transaction and its storer *)
(* of a conflict (IInv); the tables of a processor whose storer keeps the  *)
(* later row (LatestWins, RowsInv); with them the tables of the ANS and    *)
(* the account restoration processors; for all six data processors the     *)
(* columns of every row, that no stored row is taken back (TablesInv) and  *)
(* that the checkpoint is backed by stored rows (CommittedInv); and the    *)
(* tables of the objects processor, whose extractor looks rows up          *)
(* (ObjectsInv).                                                           *)
(***************************************************************************)
EXTENDS DataProcessors, DataFacts, TLAPS

\* The batches on their way to the storer end one after the other, before the
\* batch in the extractor starts, and the checkpoint is behind them all.
QueueInv ==
    /\ \E S : queue \in Seq(S)
    /\ \A i \in 1 .. Len(queue) :
          /\ queue[i].end_version \in Nat /\ checkpoint <= queue[i].end_version
          /\ queue[i].end_version < next_version
          /\ batch_end # 0 => queue[i].end_version < batch_start
    /\ \A i, j \in 1 .. Len(queue) : i <= j => queue[i].end_version <= queue[j].end_version
    /\ \A i \in 1 .. Len(queue) :
          /\ queue[i].start_version \in Nat \ {0} /\ checkpoint <= queue[i].start_version
          /\ \A j \in 1 .. Len(queue) : j < i => queue[j].end_version < queue[i].start_version

BatchInv ==
    batch_end # 0 => /\ batch_start # 0 /\ checkpoint <= batch_start /\ batch_start <= batch_end
                     /\ batch_start <= next_version

IInv ==
    /\ next_version \in Nat \ {0} /\ checkpoint \in Nat
    /\ batch_start \in Nat /\ batch_end \in Nat
    /\ checkpoint <= next_version
    /\ BatchInv /\ QueueInv

LEMMA ExtractStep == IInv /\ ExtractTransaction => IInv'
<1> SUFFICES ASSUME IInv, ExtractTransaction PROVE IInv'
  OBVIOUS
<1>1. MaxBatch \in Nat \ {0}
  BY PipelineAssumption
<1>2. PICK s, e, n : s = batch_start' /\ e = batch_end' /\ n = next_version
  OBVIOUS
<1>3. /\ next_version' = n + 1 /\ n <= e /\ UNCHANGED <<queue, checkpoint>>
      /\ s = IF batch_end # 0 THEN batch_start ELSE n
      /\ e \in ReceiveBatch
  BY <1>2 DEF ExtractTransaction
<1>4. n \in Nat \ {0} /\ checkpoint \in Nat /\ checkpoint <= n
  BY <1>2 DEF IInv
<1>5. /\ s \in Nat \ {0} /\ e \in Nat /\ checkpoint <= s /\ s <= e /\ s <= n
      /\ \A i \in 1 .. Len(queue) : queue[i].end_version < s
  <2>1. CASE batch_end # 0
    <3>1. e = batch_end /\ s = batch_start
      BY <1>3, <2>1 DEF ReceiveBatch
    <3> QED BY <1>2, <2>1, <3>1 DEF IInv, BatchInv, QueueInv
  <2>2. CASE batch_end = 0
    <3>1. e \in n .. n + MaxBatch - 1 /\ s = n
      BY <1>2, <1>3, <2>2 DEF ReceiveBatch
    <3>2. e \in Nat
      BY <1>1, <1>4, <3>1
    <3>3. \A i \in 1 .. Len(queue) : queue[i].end_version < n
      BY <1>2 DEF IInv, QueueInv
    <3> QED BY <1>3, <1>4, <3>1, <3>2, <3>3
  <2> QED BY <2>1, <2>2
<1>6. BatchInv'
  BY <1>2, <1>3, <1>4, <1>5 DEF BatchInv
<1>7. QueueInv'
  <2>1. (\E S : queue \in Seq(S))'
    BY <1>3 DEF IInv, QueueInv
  <2>2. ASSUME NEW i \in 1 .. Len(queue)
        PROVE  /\ queue[i].end_version \in Nat /\ checkpoint <= queue[i].end_version
               /\ queue[i].end_version < n + 1
               /\ queue[i].end_version < s
    <3>1. /\ queue[i].end_version \in Nat /\ checkpoint <= queue[i].end_version
          /\ queue[i].end_version < n
      BY <1>2 DEF IInv, QueueInv
    <3> QED BY <1>4, <1>5, <3>1
  <2>3. \A i, j \in 1 .. Len(queue) : i <= j => queue[i].end_version <= queue[j].end_version
    BY DEF IInv, QueueInv
  <2>4. \A i \in 1 .. Len(queue) :
           /\ queue[i].start_version \in Nat \ {0} /\ checkpoint <= queue[i].start_version
           /\ \A j \in 1 .. Len(queue) : j < i => queue[j].end_version < queue[i].start_version
    BY DEF IInv, QueueInv
  <2> QED BY <1>2, <1>3, <2>1, <2>2, <2>3, <2>4 DEF QueueInv
<1> QED BY <1>2, <1>3, <1>4, <1>5, <1>6, <1>7 DEF IInv

LEMMA SendStep == IInv /\ SendBatch => IInv'
<1> SUFFICES ASSUME IInv, SendBatch PROVE IInv'
  OBVIOUS
<1>1. PICK q, last, n : /\ q = queue /\ last.end_version = n - 1 /\ n = next_version
                        /\ last.start_version = batch_start
                        /\ queue' = Append(q, last)
  <2> DEFINE x == [rows |-> batch.rows, start_version |-> batch_start,
                   end_version |-> next_version - 1]
  <2>1. /\ x.end_version = next_version - 1 /\ x.start_version = batch_start
        /\ queue' = Append(queue, x)
    BY DEF SendBatch
  <2> QED BY <2>1
<1>2. /\ batch_end # 0 /\ next_version > batch_end /\ batch_end' = 0 /\ batch_start' = 0
      /\ UNCHANGED <<checkpoint, next_version>>
  BY DEF SendBatch
<1>3. /\ n \in Nat \ {0} /\ checkpoint \in Nat /\ checkpoint <= n
      /\ batch_start \in Nat /\ batch_end \in Nat
      /\ checkpoint <= batch_start /\ batch_start <= batch_end /\ batch_start # 0
  BY <1>1, <1>2 DEF IInv, BatchInv
<1>4. n - 1 \in Nat /\ checkpoint <= n - 1 /\ batch_start <= n - 1
  BY <1>1, <1>2, <1>3
<1>5. PICK S : q \in Seq(S)
  BY <1>1 DEF IInv, QueueInv
<1>6. /\ \A i \in 1 .. Len(q) : /\ q[i].end_version \in Nat /\ checkpoint <= q[i].end_version
                                /\ q[i].end_version < batch_start
      /\ \A i, j \in 1 .. Len(q) : i <= j => q[i].end_version <= q[j].end_version
      /\ \A i \in 1 .. Len(q) :
            /\ q[i].start_version \in Nat \ {0} /\ checkpoint <= q[i].start_version
            /\ \A j \in 1 .. Len(q) : j < i => q[j].end_version < q[i].start_version
  BY <1>1, <1>2 DEF IInv, QueueInv
<1>7. PICK r : r = Append(q, last)
  OBVIOUS
<1>8. /\ r \in Seq(S \cup {last}) /\ Len(q) \in Nat /\ Len(r) = Len(q) + 1
      /\ \A i \in 1 .. Len(q) : r[i] = q[i]
      /\ r[Len(q) + 1] = last
  BY <1>5, <1>7
<1>9. ASSUME NEW i \in 1 .. Len(r)
      PROVE  r[i].end_version \in Nat /\ checkpoint <= r[i].end_version /\ r[i].end_version < n
  <2>1. CASE i \in 1 .. Len(q)
    BY <1>3, <1>4, <1>6, <1>8, <2>1
  <2>2. CASE i = Len(q) + 1
    BY <1>1, <1>3, <1>4, <1>8, <2>2
  <2> QED BY <1>8, <2>1, <2>2
<1>10. ASSUME NEW i \in 1 .. Len(r), NEW j \in 1 .. Len(r), i <= j
       PROVE  r[i].end_version <= r[j].end_version
  <2>1. CASE j \in 1 .. Len(q)
    <3>1. i \in 1 .. Len(q)
      BY <1>8, <1>10, <2>1
    <3> QED BY <1>6, <1>8, <1>10, <2>1, <3>1
  <2>2. CASE j = Len(q) + 1
    <3>1. r[j].end_version = n - 1
      BY <1>1, <1>8, <2>2
    <3>2. r[i].end_version \in Nat /\ r[i].end_version < n
      BY <1>9
    <3> QED BY <1>3, <3>1, <3>2
  <2> QED BY <1>8, <2>1, <2>2
<1>11. ASSUME NEW i \in 1 .. Len(r)
       PROVE  /\ r[i].start_version \in Nat \ {0} /\ checkpoint <= r[i].start_version
              /\ \A j \in 1 .. Len(r) : j < i => r[j].end_version < r[i].start_version
  <2>1. CASE i \in 1 .. Len(q)
    <3>1. ASSUME NEW j \in 1 .. Len(r), j < i PROVE j \in 1 .. Len(q)
      BY <1>8, <2>1, <3>1
    <3> QED BY <1>6, <1>8, <2>1, <3>1
  <2>2. CASE i = Len(q) + 1
    <3>1. ASSUME NEW j \in 1 .. Len(r), j < i PROVE j \in 1 .. Len(q)
      BY <1>8, <2>2, <3>1
    <3>2. r[i].start_version = batch_start
      BY <1>1, <1>8, <2>2
    <3> QED BY <1>3, <1>6, <1>8, <3>1, <3>2
  <2> QED BY <1>8, <2>1, <2>2
<1>12. QueueInv'
  BY <1>1, <1>2, <1>7, <1>8, <1>9, <1>10, <1>11 DEF QueueInv
<1> QED BY <1>1, <1>2, <1>3, <1>12 DEF IInv, BatchInv

LEMMA FinishStep == IInv /\ FinishBatch => IInv' /\ checkpoint <= checkpoint'
<1> SUFFICES ASSUME IInv, FinishBatch PROVE IInv' /\ checkpoint <= checkpoint'
  OBVIOUS
<1>1. PICK q, r, c : q = queue /\ r = queue' /\ c = checkpoint'
  OBVIOUS
<1>2. /\ q # <<>> /\ r = Tail(q) /\ c \in {checkpoint, Head(q).end_version}
      /\ UNCHANGED <<batch_start, batch_end, next_version>>
  BY <1>1 DEF FinishBatch
<1>3. PICK S : q \in Seq(S)
  BY <1>1 DEF IInv, QueueInv
<1>4. /\ \A i \in 1 .. Len(q) :
            /\ q[i].end_version \in Nat /\ checkpoint <= q[i].end_version
            /\ q[i].end_version < next_version
            /\ batch_end # 0 => q[i].end_version < batch_start
      /\ \A i, j \in 1 .. Len(q) : i <= j => q[i].end_version <= q[j].end_version
      /\ \A i \in 1 .. Len(q) :
            /\ q[i].start_version \in Nat \ {0} /\ checkpoint <= q[i].start_version
            /\ \A j \in 1 .. Len(q) : j < i => q[j].end_version < q[i].start_version
  BY <1>1 DEF IInv, QueueInv
<1>5. /\ r \in Seq(S) /\ Len(q) \in Nat \ {0} /\ Len(r) = Len(q) - 1 /\ Head(q) = q[1]
      /\ \A i \in 1 .. Len(r) : r[i] = q[i + 1]
  BY <1>2, <1>3
<1>6. /\ next_version \in Nat \ {0} /\ checkpoint \in Nat /\ checkpoint <= next_version
      /\ batch_start \in Nat /\ batch_end \in Nat
      /\ batch_end # 0 => /\ batch_start # 0 /\ checkpoint <= batch_start /\ batch_start <= batch_end
                          /\ batch_start <= next_version
  BY DEF IInv, BatchInv
<1>7. PICK first : first = q[1].end_version
  OBVIOUS
<1>8. /\ first \in Nat /\ checkpoint <= first /\ first < next_version
      /\ batch_end # 0 => first < batch_start
      /\ \A i \in 1 .. Len(q) : first <= q[i].end_version
  BY <1>4, <1>5, <1>7
<1>9. /\ c \in Nat /\ checkpoint <= c /\ c <= first
  BY <1>2, <1>5, <1>6, <1>7, <1>8
<1>10. c <= next_version /\ (batch_end # 0 => c <= batch_start)
  BY <1>6, <1>8, <1>9
<1>11. ASSUME NEW i \in 1 .. Len(r)
       PROVE  /\ r[i].end_version \in Nat /\ c <= r[i].end_version
              /\ r[i].end_version < next_version
              /\ batch_end # 0 => r[i].end_version < batch_start
  <2>1. i + 1 \in 1 .. Len(q) /\ r[i] = q[i + 1]
    BY <1>5
  <2>2. /\ q[i + 1].end_version \in Nat /\ first <= q[i + 1].end_version
        /\ q[i + 1].end_version < next_version
        /\ batch_end # 0 => q[i + 1].end_version < batch_start
    BY <1>4, <1>8, <2>1
  <2> QED BY <1>8, <1>9, <2>1, <2>2
<1>12. ASSUME NEW i \in 1 .. Len(r), NEW j \in 1 .. Len(r), i <= j
       PROVE  r[i].end_version <= r[j].end_version
  <2>1. i + 1 \in 1 .. Len(q) /\ j + 1 \in 1 .. Len(q) /\ i + 1 <= j + 1
    BY <1>5, <1>12
  <2>2. r[i] = q[i + 1] /\ r[j] = q[j + 1]
    BY <1>5
  <2> QED BY <1>4, <2>1, <2>2
<1>15. ASSUME NEW i \in 1 .. Len(r)
       PROVE  /\ r[i].start_version \in Nat \ {0} /\ c <= r[i].start_version
              /\ \A j \in 1 .. Len(r) : j < i => r[j].end_version < r[i].start_version
  <2>1. i + 1 \in 1 .. Len(q) /\ r[i] = q[i + 1] /\ 1 \in 1 .. Len(q) /\ 1 < i + 1
    BY <1>5
  <2>2. /\ q[i + 1].start_version \in Nat \ {0} /\ first < q[i + 1].start_version
        /\ \A j \in 1 .. Len(q) : j < i + 1 => q[j].end_version < q[i + 1].start_version
    BY <1>4, <1>7, <2>1
  <2>3. ASSUME NEW j \in 1 .. Len(r), j < i
        PROVE  r[j].end_version < r[i].start_version
    <3>1. j + 1 \in 1 .. Len(q) /\ r[j] = q[j + 1] /\ j + 1 < i + 1
      BY <1>5, <2>3
    <3> QED BY <2>1, <2>2, <3>1
  <2>4. c <= q[i + 1].start_version
    BY <1>8, <1>9, <2>2
  <2> QED BY <2>1, <2>2, <2>3, <2>4
<1>13. QueueInv'
  BY <1>1, <1>2, <1>5, <1>11, <1>12, <1>15 DEF QueueInv
<1>14. BatchInv'
  BY <1>1, <1>2, <1>6, <1>10 DEF BatchInv
<1> QED BY <1>1, <1>2, <1>6, <1>9, <1>10, <1>13, <1>14 DEF IInv

LEMMA CrashStep == IInv /\ Crash => IInv'
<1> SUFFICES ASSUME IInv, Crash PROVE IInv'
  OBVIOUS
<1>1. /\ queue' = <<>> /\ batch_start' = 0 /\ batch_end' = 0 /\ checkpoint' = checkpoint
      /\ next_version' = IF checkpoint = 0 THEN 1 ELSE checkpoint
  BY DEF Crash, GetStartingVersion
<1>2. checkpoint \in Nat
  BY DEF IInv
<1>3. QueueInv'
  BY <1>1 DEF QueueInv
<1> QED BY <1>1, <1>2, <1>3 DEF IInv, BatchInv

LEMMA Invariance == Spec => []IInv
<1>1. Init => IInv
  <2> SUFFICES ASSUME Init PROVE IInv
    OBVIOUS
  <2>1. queue = <<>> /\ checkpoint = 0 /\ next_version = 1 /\ batch_start = 0 /\ batch_end = 0
    BY DEF Init
  <2> QED BY <2>1 DEF IInv, BatchInv, QueueInv
<1>2. IInv /\ [Next]_vars => IInv'
  <2> SUFFICES ASSUME IInv, [Next]_vars PROVE IInv'
    OBVIOUS
  <2>1. CASE UNCHANGED <<queue, checkpoint, next_version, batch_start, batch_end>>
    BY <2>1 DEF IInv, BatchInv, QueueInv
  <2>2. ASSUME NEW s, CommitStatement(s) PROVE IInv'
    BY <2>1, <2>2 DEF CommitStatement
  <2>3. CASE Terminated \/ UNCHANGED vars
    BY <2>1, <2>3 DEF Terminated, vars
  <2> QED BY <2>2, <2>3, ExtractStep, SendStep, FinishStep, CrashStep DEF Next
<1> QED BY <1>1, <1>2, PTL DEF Spec

-----------------------------------------------------------------------------
(***************************************************************************)
(* Tables whose upsert keeps the row of the latest version, written by an  *)
(* extractor that looks nothing up: what a version writes depends on its   *)
(* transaction alone.  K is the set of their keys.                         *)
(***************************************************************************)
\* b is a batch: its rows can be replaced.
IsBatch(b) ==
    /\ b.rows = [k \in DOMAIN b.rows |-> b.rows[k]]
    /\ b = [rows |-> b.rows, aux |-> b.aux, errors |-> b.errors, panicked |-> b.panicked,
            transactions |-> b.transactions]

\* What a processor writes for one transaction.
RowsOf(p, txn, v) == Parse(p, FirstBatch(p, NoRows), txn, v, NoRows).rows

\* rows has the rows new of keys in K over those of old.
Adds(rows, new, old, K) ==
    \A k \in K : /\ k \in DOMAIN rows <=> k \in DOMAIN new \/ k \in DOMAIN old
                 /\ k \in DOMAIN new => rows[k] = new[k]
                 /\ k \in DOMAIN old /\ k \notin DOMAIN new => rows[k] = old[k]

\* A row of a key in K has a place of its own in the tables, and a conflict is won by
\* the later version.
KeepsLater(p, K) ==
    /\ \A k : k \in K \/ TableKey(k) \in K => TableKey(k) = k
    /\ \A k \in K : \A old, new : Upsert(p, k, old, new) = IF old.v <= new.v THEN new ELSE old

\* Batches start empty, a transaction adds its rows to whatever batch it is in, and a
\* conflict is won by the later version.
LatestWins(p, K) ==
    /\ \A tables : IsBatch(FirstBatch(p, tables)) /\ DOMAIN FirstBatch(p, tables).rows = {}
    /\ \A b : IsBatch(NextBatch(p, b)) /\ DOMAIN NextBatch(p, b).rows = {}
    /\ \A c \in Histories(p) : /\ Len(c) \in Nat
         /\ \A v \in 1 .. Len(c) :
              /\ \A b, tables : IsBatch(b) =>
                    /\ IsBatch(Parse(p, b, c[v], v, tables))
                    /\ Adds(Parse(p, b, c[v], v, tables).rows, RowsOf(p, c[v], v), b.rows, K)
              /\ \A k \in K : k \in DOMAIN RowsOf(p, c[v], v) => RowsOf(p, c[v], v)[k].v = v
    /\ KeepsLater(p, K)

\* The rows each version of the chain writes.
Writes(p) == [v \in Versions |-> RowsOf(p, chain[v], v)]

\* rows has a row of k as late as version v.
Has(rows, k, v) == k \in DOMAIN rows /\ v <= rows[k].v

\* Every row of a key in K was written by the version it names.
Sound(rows, W, K) ==
    \A k \in K : k \in DOMAIN rows =>
        /\ rows[k].v \in DOMAIN W /\ k \in DOMAIN W[rows[k].v]
        /\ rows[k] = W[rows[k].v][k]

\* What versions in S wrote, or something later, is in tables d or on its way there
\* in the first n batches of queue q.
OnItsWay(d, q, n, W, K, S) ==
    \A v \in S : \A k \in K : k \in DOMAIN W[v] =>
        Has(d, k, v) \/ \E j \in 1 .. n : Has(q[j].rows, k, v)

\* The version the batch in the extractor starts at, or the next one will.
Start == IF batch_end # 0 THEN batch_start ELSE next_version

ExtentInv ==
    /\ Len(chain) \in Nat
    /\ batch_end <= Len(chain) /\ next_version <= Len(chain) + 1
    /\ batch_end # 0 => next_version <= batch_end + 1
    /\ checkpoint <= Len(chain)
    /\ IsBatch(batch)
    /\ queue = <<>> => committed = {}

SoundInv(W, K) ==
    /\ Sound(db, W, K) /\ Sound(batch.rows, W, K)
    /\ \A i \in 1 .. Len(queue) : Sound(queue[i].rows, W, K)

CoverInv(W, K) ==
    /\ OnItsWay(db, queue, 0, W, K, 1 .. checkpoint)
    /\ \A i \in 1 .. Len(queue) : OnItsWay(db, queue, i, W, K, 1 .. queue[i].end_version)
    /\ OnItsWay(db, queue, Len(queue), W, K, 1 .. Start - 1)
    /\ batch_end # 0 => \A v \in batch_start .. next_version - 1 : \A k \in K :
          k \in DOMAIN W[v] => Has(batch.rows, k, v)
    /\ queue # <<>> => \A k \in K :
          k \in DOMAIN Head(queue).rows /\ CommitGroup(k[1]) \in committed =>
             Has(db, k, Head(queue).rows[k].v)

RowsInv(p, K) ==
    /\ IInv /\ chain \in Histories(p)
    /\ ExtentInv /\ SoundInv(Writes(p), K) /\ CoverInv(Writes(p), K)

\* Rows name the version that wrote them.
Versioned(W, K) ==
    /\ DOMAIN W \subseteq Nat
    /\ \A v \in DOMAIN W : \A k \in K : k \in DOMAIN W[v] => W[v][k].v = v

LEMMA WritesFact ==
    ASSUME NEW p, NEW K, LatestWins(p, K), chain \in Histories(p)
    PROVE  /\ Len(chain) \in Nat /\ DOMAIN Writes(p) = 1 .. Len(chain)
           /\ \A v \in 1 .. Len(chain) : Writes(p)[v] = RowsOf(p, chain[v], v)
           /\ Versioned(Writes(p), K)
<1>1. Len(chain) \in Nat
  BY DEF LatestWins
<1>2. /\ DOMAIN Writes(p) = 1 .. Len(chain)
      /\ \A v \in 1 .. Len(chain) : Writes(p)[v] = RowsOf(p, chain[v], v)
  BY DEF Writes, Versions
<1>3. \A v \in 1 .. Len(chain) : \A k \in K :
         k \in DOMAIN RowsOf(p, chain[v], v) => RowsOf(p, chain[v], v)[k].v = v
  BY DEF LatestWins
<1> QED BY <1>1, <1>2, <1>3 DEF Versioned

\* A batch with the rows of one more version.
LEMMA AddsFact ==
    ASSUME NEW W, NEW K, Versioned(W, K), NEW n \in DOMAIN W, NEW rows, NEW old,
           Sound(old, W, K), Adds(rows, W[n], old, K)
    PROVE  /\ Sound(rows, W, K)
           /\ \A k \in K : k \in DOMAIN W[n] => Has(rows, k, n)
           /\ \A k \in K : \A v \in Nat : v <= n /\ Has(old, k, v) => Has(rows, k, v)
<1>1. n \in Nat /\ \A k \in K : k \in DOMAIN W[n] => W[n][k].v = n
  BY DEF Versioned
<1>2. ASSUME NEW k \in K
      PROVE  /\ k \in DOMAIN rows =>
                  /\ rows[k].v \in DOMAIN W /\ k \in DOMAIN W[rows[k].v]
                  /\ rows[k] = W[rows[k].v][k]
             /\ k \in DOMAIN W[n] => Has(rows, k, n)
             /\ \A v \in Nat : v <= n /\ Has(old, k, v) => Has(rows, k, v)
  <2>1. CASE k \in DOMAIN W[n]
    <3>1. k \in DOMAIN rows /\ rows[k] = W[n][k] /\ W[n][k].v = n
      BY <1>1, <2>1 DEF Adds
    <3> QED BY <1>1, <2>1, <3>1 DEF Has
  <2>2. CASE k \notin DOMAIN W[n] /\ k \in DOMAIN old
    <3>1. k \in DOMAIN rows /\ rows[k] = old[k]
      BY <2>2 DEF Adds
    <3> QED BY <2>2, <3>1 DEF Has, Sound
  <2>3. CASE k \notin DOMAIN W[n] /\ k \notin DOMAIN old
    BY <2>3 DEF Has, Adds
  <2> QED BY <2>1, <2>2, <2>3
<1> QED BY <1>2 DEF Sound

\* Tables with the rows of a statement, each unless there is a later one.
Merged(e, d, rows, K, S) ==
    \A k \in K :
      /\ k \in DOMAIN e <=> k \in S \/ k \in DOMAIN d
      /\ k \in DOMAIN e =>
           e[k] = IF k \in S /\ (k \in DOMAIN d => d[k].v <= rows[k].v) THEN rows[k] ELSE d[k]

\* Every row of a key in K names a version.
NamesVersion(rows, K) == \A k \in K : k \in DOMAIN rows => rows[k].v \in Nat

LEMMA MergedLater ==
    ASSUME NEW K, NEW e, NEW d, NEW rows, NEW S, S \subseteq DOMAIN rows,
           NamesVersion(rows, K), NamesVersion(d, K), Merged(e, d, rows, K, S)
    PROVE  /\ \A k \in K : k \in S => Has(e, k, rows[k].v)
           /\ \A k \in K : \A v \in Nat : Has(d, k, v) => Has(e, k, v)
<1>1. ASSUME NEW k \in K
      PROVE  /\ k \in S => Has(e, k, rows[k].v)
             /\ \A v \in Nat : Has(d, k, v) => Has(e, k, v)
  <2>1. /\ k \in DOMAIN e <=> k \in S \/ k \in DOMAIN d
        /\ k \in DOMAIN e =>
             e[k] = IF k \in S /\ (k \in DOMAIN d => d[k].v <= rows[k].v) THEN rows[k] ELSE d[k]
    BY DEF Merged
  <2>2. (k \in S => rows[k].v \in Nat) /\ (k \in DOMAIN d => d[k].v \in Nat)
    BY DEF NamesVersion
  <2>3. CASE k \in S /\ (k \in DOMAIN d => d[k].v <= rows[k].v)
    <3>1. k \in DOMAIN e /\ e[k] = rows[k]
      BY <2>1, <2>3
    <3> QED BY <2>2, <2>3, <3>1 DEF Has
  <2>4. CASE k \in S /\ k \in DOMAIN d /\ ~(d[k].v <= rows[k].v)
    <3>1. k \in DOMAIN e /\ e[k] = d[k]
      BY <2>1, <2>4
    <3> QED BY <2>2, <2>4, <3>1 DEF Has
  <2>5. CASE k \notin S
    BY <2>1, <2>2, <2>5 DEF Has
  <2> QED BY <2>3, <2>4, <2>5
<1> QED BY <1>1

LEMMA StoredFact ==
    ASSUME NEW p, NEW K, KeepsLater(p, K), processor = p, NEW s, NEW rows
    PROVE  Merged(Stored(s, rows), db, rows, K, {k \in DOMAIN rows : CommitGroup(k[1]) = s})
<1> DEFINE mine == {k \in DOMAIN rows : CommitGroup(k[1]) = s}
           keys == {TableKey(k) : k \in mine}
           row(t) == LET k == CHOOSE k \in mine : TableKey(k) = t
                     IN IF t \in DOMAIN db
                        THEN Upsert(processor, k, db[t], rows[k]) ELSE rows[k]
           new == [t \in keys |-> row(t)]
<1>1. Stored(s, rows) = Over(new, db)
  BY DEF Stored
<1>2. ASSUME NEW k \in K PROVE k \in keys <=> k \in mine
  BY DEF KeepsLater
<1>3. ASSUME NEW k \in K, k \in mine
      PROVE row(k) = IF k \in DOMAIN db /\ ~(db[k].v <= rows[k].v) THEN db[k] ELSE rows[k]
  <2>1. TableKey(k) = k /\ \A x \in mine : TableKey(x) = k => x = k
    BY DEF KeepsLater
  <2>2. PICK z : z = CHOOSE x \in mine : TableKey(x) = k
    OBVIOUS
  <2>4. z = k
    BY <1>3, <2>1, <2>2
  <2>3. Upsert(processor, k, db[k], rows[k]) = IF db[k].v <= rows[k].v THEN rows[k] ELSE db[k]
    BY DEF KeepsLater
  <2> HIDE DEF mine
  <2>5. row(k) = IF k \in DOMAIN db THEN Upsert(processor, z, db[k], rows[z]) ELSE rows[z]
    BY <2>2
  <2> QED BY <2>3, <2>4, <2>5
<1> HIDE DEF row, keys, mine
<1>4. /\ DOMAIN Over(new, db) = keys \cup DOMAIN db
      /\ \A k \in keys : Over(new, db)[k] = row(k)
      /\ \A k \in DOMAIN db : k \notin keys => Over(new, db)[k] = db[k]
  BY DEF Over
<1>5. Merged(Over(new, db), db, rows, K, mine)
  <2> HIDE DEF new
  <2> QED BY <1>2, <1>3, <1>4 DEF Merged
<1> QED BY <1>1, <1>5 DEF mine

\* What the extractor still has to write is covered again after each action: here if
\* it keeps what its batch had and adds what its version writes.
LEMMA CoverExtract ==
    ASSUME NEW W, NEW K, IInv, ExtentInv, CoverInv(W, K), ExtractTransaction,
           \A k \in K : k \in DOMAIN W[next_version] => Has(batch'.rows, k, next_version),
           \A k \in K : \A v \in Nat :
              v <= next_version /\ Has(batch.rows, k, v) => Has(batch'.rows, k, v)
    PROVE  CoverInv(W, K)'
<1>1. PICK n, s, e : n = next_version /\ s = batch_start' /\ e = batch_end'
  OBVIOUS
<1>2. /\ s = Start /\ n <= e /\ next_version' = n + 1
      /\ UNCHANGED <<db, queue, committed, checkpoint>>
  BY <1>1 DEF ExtractTransaction, Start
<1>3. /\ n \in Nat \ {0} /\ batch_end \in Nat /\ batch_start \in Nat
      /\ batch_end # 0 => batch_start <= n
  BY <1>1 DEF IInv, BatchInv
<1>4. e \in Nat
  BY <1>1, ExtractStep DEF IInv
<1>5. /\ \A k \in K : k \in DOMAIN W[n] => Has(batch'.rows, k, n)
      /\ \A k \in K : \A v \in Nat : v <= n /\ Has(batch.rows, k, v) => Has(batch'.rows, k, v)
  BY <1>1
<1>6. Start' = Start
  <2>1. batch_end' # 0
    BY <1>1, <1>2, <1>3, <1>4
  <2> QED BY <1>1, <1>2, <2>1 DEF Start
<1>7. ASSUME NEW v \in s .. n, NEW k \in K, k \in DOMAIN W[v]
      PROVE  Has(batch'.rows, k, v)
  <2>1. CASE v = n
    BY <1>5, <1>7, <2>1
  <2>2. CASE v # n
    <3>1. s \in Nat
      BY <1>1, <1>2, <1>3 DEF Start
    <3>2. v \in Nat /\ v <= n /\ v \in s .. n - 1
      BY <1>3, <1>7, <2>2, <3>1
    <3>3. batch_end # 0 /\ s = batch_start
      BY <1>1, <1>2, <3>2, <1>3 DEF Start
    <3>4. Has(batch.rows, k, v)
      BY <1>1, <1>7, <3>2, <3>3 DEF CoverInv
    <3> QED BY <1>5, <3>2, <3>4
  <2> QED BY <2>1, <2>2
<1>8. CoverInv(W, K)'
  <2>1. \A v \in (batch_start .. next_version - 1)' : \A k \in K :
          k \in DOMAIN W[v] => Has(batch.rows, k, v)'
    <3>1. (batch_start .. next_version - 1)' = s .. n
      BY <1>1, <1>2, <1>3
    <3> QED BY <1>7, <3>1 DEF Has
  <2> QED BY <1>2, <1>6, <2>1 DEF CoverInv
<1> QED BY <1>8

LEMMA RowsExtract ==
    ASSUME NEW p, NEW K, LatestWins(p, K), processor = p, RowsInv(p, K), ExtractTransaction
    PROVE  RowsInv(p, K)'
<1>1. PICK W : W = Writes(p)
  OBVIOUS
<1>2. PICK n, s, e : n = next_version /\ s = batch_start' /\ e = batch_end'
  OBVIOUS
<1>3. /\ chain \in Histories(p) /\ IInv /\ ExtentInv /\ SoundInv(W, K) /\ CoverInv(W, K)
  BY <1>1 DEF RowsInv
<1>4. /\ Len(chain) \in Nat /\ DOMAIN W = 1 .. Len(chain) /\ Versioned(W, K)
      /\ \A v \in 1 .. Len(chain) : W[v] = RowsOf(p, chain[v], v)
  BY <1>1, <1>3, WritesFact
<1>5. /\ s = Start /\ e \in ReceiveBatch /\ n <= e /\ next_version' = n + 1
      /\ batch' = Parse(p, [batch EXCEPT !.transactions = {chain[w] : w \in s .. e}], chain[n], n, db)
      /\ UNCHANGED <<processor, chain, db, queue, committed, checkpoint>>
  BY <1>2 DEF ExtractTransaction, Start
<1>6. /\ n \in Nat \ {0} /\ batch_end \in Nat /\ batch_start \in Nat
      /\ batch_end <= Len(chain)
      /\ batch_end # 0 => batch_start <= n
  BY <1>2, <1>3 DEF IInv, BatchInv, ExtentInv
<1>7. e \in Nat /\ e <= Len(chain) /\ (batch_end # 0 => e = batch_end)
  <2>1. MaxBatch \in Nat \ {0}
    BY PipelineAssumption
  <2>2. CASE batch_end # 0
    <3>1. e = batch_end
      BY <1>5, <2>2 DEF ReceiveBatch
    <3> QED BY <1>6, <3>1
  <2>3. CASE batch_end = 0
    <3>1. e \in n .. n + MaxBatch - 1 /\ e <= Len(chain)
      BY <1>2, <1>5, <2>3 DEF ReceiveBatch
    <3> QED BY <1>4, <1>6, <2>1, <2>3, <3>1
  <2> QED BY <2>2, <2>3
<1>8. n \in DOMAIN W /\ n \in 1 .. Len(chain)
  BY <1>4, <1>5, <1>6, <1>7
<1>9. PICK b : b = [batch EXCEPT !.transactions = {chain[w] : w \in s .. e}]
  OBVIOUS
<1>10. IsBatch(batch)
  BY <1>3 DEF ExtentInv
<1>11. IsBatch(b) /\ b.rows = batch.rows
  BY <1>9, <1>10 DEF IsBatch
<1>12. IsBatch(batch') /\ Adds(batch'.rows, W[n], batch.rows, K)
  <2>1. /\ IsBatch(Parse(p, b, chain[n], n, db))
        /\ Adds(Parse(p, b, chain[n], n, db).rows, RowsOf(p, chain[n], n), b.rows, K)
    BY <1>3, <1>8, <1>11 DEF LatestWins
  <2> QED BY <1>4, <1>5, <1>8, <1>9, <1>11, <2>1
<1>13. Sound(batch.rows, W, K)
  BY <1>3 DEF SoundInv
<1>14. /\ Sound(batch'.rows, W, K)
       /\ \A k \in K : k \in DOMAIN W[n] => Has(batch'.rows, k, n)
       /\ \A k \in K : \A v \in Nat : v <= n /\ Has(batch.rows, k, v) => Has(batch'.rows, k, v)
  BY <1>4, <1>8, <1>12, <1>13, AddsFact
<1>15. ExtentInv'
  BY <1>2, <1>3, <1>5, <1>6, <1>7, <1>12 DEF ExtentInv
<1>16. SoundInv(W, K)'
  BY <1>3, <1>5, <1>14 DEF SoundInv
<1>17. CoverInv(W, K)'
  BY <1>2, <1>3, <1>14, CoverExtract
<1>18. Writes(p)' = W
  BY <1>1, <1>5 DEF Writes, Versions
<1> QED BY <1>3, <1>5, <1>15, <1>16, <1>17, <1>18, ExtractStep DEF RowsInv

LEMMA CoverSend ==
    ASSUME NEW W, NEW K, IInv, ExtentInv, CoverInv(W, K), SendBatch
    PROVE  CoverInv(W, K)'
<1>1. PICK n, q, r, last : /\ n = next_version /\ q = queue /\ r = queue'
                           /\ last = [rows |-> batch.rows, start_version |-> batch_start, end_version |-> n - 1]
  OBVIOUS
<1>2. /\ batch_end # 0 /\ n > batch_end /\ r = Append(q, last) /\ batch_end' = 0
      /\ UNCHANGED <<db, committed, checkpoint, next_version>>
  BY <1>1 DEF SendBatch
<1>3. /\ n \in Nat \ {0} /\ batch_end \in Nat /\ batch_start \in Nat /\ Len(chain) \in Nat
      /\ batch_end <= Len(chain) /\ batch_start <= n /\ n <= batch_end + 1
  BY <1>1, <1>2 DEF IInv, BatchInv, ExtentInv
<1>4. PICK S : q \in Seq(S)
  BY <1>1 DEF IInv, QueueInv
<1>5. PICK m : m = Len(q)
  OBVIOUS
<1>6. /\ m \in Nat /\ Len(r) = m + 1 /\ r[m + 1] = last
      /\ \A i \in 1 .. m : r[i] = q[i]
      /\ r # <<>> /\ (q # <<>> => Head(r) = Head(q)) /\ (q = <<>> => Head(r) = last)
  <2>1. /\ m \in Nat /\ Len(r) = m + 1 /\ r[m + 1] = last /\ r \in Seq(S \cup {last})
        /\ \A i \in 1 .. m : r[i] = q[i]
    BY <1>2, <1>4, <1>5
  <2>2. r # <<>> /\ Head(r) = r[1]
    BY <2>1
  <2>3. (q # <<>> => m \in Nat \ {0} /\ Head(q) = q[1]) /\ (q = <<>> => m = 0)
    BY <1>4, <1>5
  <2>4. (q # <<>> => Head(r) = Head(q)) /\ (q = <<>> => Head(r) = last)
    BY <2>1, <2>2, <2>3
  <2> QED BY <2>1, <2>2, <2>4
<1>7. last.rows = batch.rows /\ last.end_version = n - 1
  BY <1>1
<1>8. ASSUME NEW i \in 0 .. m, NEW V, OnItsWay(db, q, i, W, K, V)
      PROVE  OnItsWay(db, r, i, W, K, V)
  <2>1. \A j \in 1 .. i : r[j] = q[j]
    BY <1>6
  <2> QED BY <1>8, <2>1 DEF OnItsWay
<1>9. OnItsWay(db, r, m + 1, W, K, 1 .. n - 1)
  <2>1. ASSUME NEW v \in 1 .. n - 1, NEW k \in K, k \in DOMAIN W[v]
        PROVE  Has(db, k, v) \/ \E j \in 1 .. m + 1 : Has(r[j].rows, k, v)
    <3>1. CASE v \in batch_start .. n - 1
      <4>1. Has(last.rows, k, v)
        BY <1>1, <1>2, <1>7, <2>1, <3>1 DEF CoverInv
      <4>2. m + 1 \in 1 .. m + 1
        BY <1>6
      <4> QED BY <1>6, <4>1, <4>2
    <3>2. CASE v \in 1 .. batch_start - 1
      <4>1. OnItsWay(db, q, m, W, K, 1 .. batch_start - 1)
        BY <1>1, <1>2, <1>5 DEF CoverInv, Start
      <4>2. OnItsWay(db, r, m, W, K, 1 .. batch_start - 1)
        BY <1>6, <1>8, <4>1
      <4>3. \A j \in 1 .. m : j \in 1 .. m + 1
        BY <1>6
      <4> QED BY <2>1, <3>2, <4>2, <4>3 DEF OnItsWay
    <3> QED BY <1>3, <3>1, <3>2
  <2> QED BY <2>1 DEF OnItsWay
<1>10. CoverInv(W, K)'
  <2>1. OnItsWay(db, r, 0, W, K, 1 .. checkpoint)
    BY <1>1, <1>6, <1>8 DEF CoverInv
  <2>2. ASSUME NEW i \in 1 .. m + 1 PROVE OnItsWay(db, r, i, W, K, 1 .. r[i].end_version)
    <3>1. CASE i \in 1 .. m
      <4>1. OnItsWay(db, q, i, W, K, 1 .. q[i].end_version)
        BY <1>1, <1>5, <3>1 DEF CoverInv
      <4>2. i \in 0 .. m
        BY <3>1
      <4> QED BY <1>6, <1>8, <3>1, <4>1, <4>2
    <3>2. CASE i = m + 1
      BY <1>6, <1>7, <1>9, <3>2
    <3> QED BY <1>6, <3>1, <3>2
  <2>3. Start' = n
    BY <1>1, <1>2 DEF Start
  <2>4. ASSUME NEW k \in K, k \in DOMAIN Head(r).rows, CommitGroup(k[1]) \in committed
        PROVE  Has(db, k, Head(r).rows[k].v)
    <3>1. q # <<>>
      BY <1>1, <2>4 DEF ExtentInv
    <3>2. Head(r) = Head(q)
      BY <1>6, <3>1
    <3> QED BY <1>1, <2>4, <3>1, <3>2 DEF CoverInv
  <2>5. /\ queue' = r /\ db' = db /\ committed' = committed /\ checkpoint' = checkpoint
        /\ batch_end' = 0 /\ Len(r) = m + 1
    BY <1>1, <1>2, <1>6
  <2> QED BY <1>9, <2>1, <2>2, <2>3, <2>4, <2>5 DEF CoverInv
<1> QED BY <1>10

LEMMA RowsSend ==
    ASSUME NEW p, NEW K, LatestWins(p, K), processor = p, RowsInv(p, K), SendBatch
    PROVE  RowsInv(p, K)'
<1>1. PICK W : W = Writes(p)
  OBVIOUS
<1>2. PICK n, q, r, last : /\ n = next_version /\ q = queue /\ r = queue'
                           /\ last = [rows |-> batch.rows, start_version |-> batch_start, end_version |-> n - 1]
  OBVIOUS
<1>3. /\ chain \in Histories(p) /\ IInv /\ ExtentInv /\ SoundInv(W, K) /\ CoverInv(W, K)
  BY <1>1 DEF RowsInv
<1>4. /\ batch_end # 0 /\ n > batch_end /\ r = Append(q, last)
      /\ batch' = NextBatch(p, batch) /\ batch_end' = 0
      /\ UNCHANGED <<processor, chain, db, committed, checkpoint, next_version>>
  BY <1>2 DEF SendBatch
<1>5. /\ n \in Nat \ {0} /\ batch_end \in Nat /\ batch_start \in Nat /\ Len(chain) \in Nat
      /\ batch_end <= Len(chain) /\ batch_start <= n /\ n <= batch_end + 1
  BY <1>2, <1>3, <1>4 DEF IInv, BatchInv, ExtentInv
<1>6. PICK S : q \in Seq(S)
  BY <1>2, <1>3 DEF IInv, QueueInv
<1>7. PICK m : m = Len(q)
  OBVIOUS
<1>8. /\ m \in Nat /\ Len(r) = m + 1 /\ r[m + 1] = last
      /\ \A i \in 1 .. m : r[i] = q[i]
      /\ r # <<>> /\ (q # <<>> => Head(r) = Head(q)) /\ (q = <<>> => Head(r) = last)
  <2>1. /\ m \in Nat /\ Len(r) = m + 1 /\ r[m + 1] = last /\ r \in Seq(S \cup {last})
        /\ \A i \in 1 .. m : r[i] = q[i]
    BY <1>4, <1>6, <1>7
  <2>2. r # <<>> /\ Head(r) = r[1]
    BY <2>1
  <2>3. (q # <<>> => m \in Nat \ {0} /\ Head(q) = q[1]) /\ (q = <<>> => m = 0)
    BY <1>6, <1>7
  <2>4. (q # <<>> => Head(r) = Head(q)) /\ (q = <<>> => Head(r) = last)
    BY <2>1, <2>2, <2>3
  <2> QED BY <2>1, <2>2, <2>4
<1>9. last.rows = batch.rows /\ last.end_version = n - 1
  BY <1>2
<1>10. IsBatch(batch') /\ DOMAIN batch'.rows = {}
  BY <1>4 DEF LatestWins
<1>11. ExtentInv'
  BY <1>2, <1>3, <1>4, <1>5, <1>8, <1>10 DEF ExtentInv
<1>12. SoundInv(W, K)'
  <2>1. Sound(batch'.rows, W, K)
    BY <1>10 DEF Sound
  <2>2. ASSUME NEW i \in 1 .. Len(r) PROVE Sound(r[i].rows, W, K)
    <3>1. CASE i \in 1 .. m
      BY <1>2, <1>3, <1>7, <1>8, <3>1 DEF SoundInv
    <3>2. CASE i = m + 1
      BY <1>3, <1>8, <1>9, <3>2 DEF SoundInv
    <3> QED BY <1>8, <3>1, <3>2
  <2> QED BY <1>2, <1>3, <1>4, <2>1, <2>2 DEF SoundInv
<1>13. CoverInv(W, K)'
  BY <1>3, CoverSend
<1>14. Writes(p)' = W
  BY <1>1, <1>4 DEF Writes, Versions
<1> QED BY <1>3, <1>4, <1>11, <1>12, <1>13, <1>14, SendStep DEF RowsInv

LEMMA CoverCommit ==
    ASSUME NEW W, NEW K, NEW p, KeepsLater(p, K), processor = p, IInv, CoverInv(W, K),
           NEW s, CommitStatement(s),
           NamesVersion(Head(queue).rows, K), NamesVersion(db, K)
    PROVE  CoverInv(W, K)'
<1>1. PICK q, d, e, rows : q = queue /\ d = db /\ e = db' /\ rows = Head(q).rows
  OBVIOUS
<1>2. /\ q # <<>> /\ e = Stored(s, rows) /\ committed' = committed \cup {s}
      /\ UNCHANGED <<batch, batch_start, batch_end, queue, checkpoint, next_version>>
  BY <1>1 DEF CommitStatement
<1>3. PICK mine : mine = {k \in DOMAIN rows : CommitGroup(k[1]) = s}
  OBVIOUS
<1>4. Merged(e, d, rows, K, mine)
  BY <1>1, <1>2, <1>3, StoredFact
<1>5. /\ \A k \in K : k \in mine => Has(e, k, rows[k].v)
      /\ \A k \in K : \A v \in Nat : Has(d, k, v) => Has(e, k, v)
  <2>1. mine \subseteq DOMAIN rows
    BY <1>3
  <2> QED BY <1>1, <1>4, <2>1, MergedLater
<1>6. ASSUME NEW i, NEW n, OnItsWay(d, q, i, W, K, 1 .. n)
      PROVE  OnItsWay(e, q, i, W, K, 1 .. n)
  BY <1>5, <1>6 DEF OnItsWay
<1>7. ASSUME NEW k \in K, k \in DOMAIN rows, CommitGroup(k[1]) \in committed \cup {s}
      PROVE  Has(e, k, rows[k].v)
  <2>1. CASE CommitGroup(k[1]) = s
    BY <1>3, <1>5, <1>7, <2>1
  <2>2. CASE CommitGroup(k[1]) \in committed
    <3>1. Has(d, k, rows[k].v)
      BY <1>1, <1>2, <1>7, <2>2 DEF CoverInv
    <3>2. rows[k].v \in Nat
      BY <1>1, <1>7 DEF NamesVersion
    <3> QED BY <1>5, <3>1, <3>2
  <2> QED BY <1>7, <2>1, <2>2
<1>8. CoverInv(W, K)'
  <2>1. OnItsWay(e, q, 0, W, K, 1 .. checkpoint)
    BY <1>1, <1>6 DEF CoverInv
  <2>2. \A i \in 1 .. Len(q) : OnItsWay(e, q, i, W, K, 1 .. q[i].end_version)
    BY <1>1, <1>6 DEF CoverInv
  <2>3. OnItsWay(e, q, Len(q), W, K, 1 .. Start - 1)
    BY <1>1, <1>6 DEF CoverInv
  <2>4. Start' = Start
    BY <1>2 DEF Start
  <2>5. /\ queue' = q /\ db' = e /\ checkpoint' = checkpoint /\ Head(q).rows = rows
    BY <1>1, <1>2
  <2>6. (batch_end # 0 => \A v \in batch_start .. next_version - 1 : \A k \in K :
            k \in DOMAIN W[v] => Has(batch.rows, k, v))'
    BY <1>2 DEF CoverInv
  <2>7. (\A k \in K : k \in DOMAIN Head(queue).rows /\ CommitGroup(k[1]) \in committed =>
             Has(db, k, Head(queue).rows[k].v))'
    BY <1>2, <1>7, <2>5
  <2> QED BY <2>1, <2>2, <2>3, <2>4, <2>5, <2>6, <2>7 DEF CoverInv
<1> QED BY <1>8

LEMMA RowsCommit ==
    ASSUME NEW p, NEW K, LatestWins(p, K), processor = p, RowsInv(p, K),
           NEW s, CommitStatement(s)
    PROVE  RowsInv(p, K)'
<1>1. PICK W : W = Writes(p)
  OBVIOUS
<1>2. PICK q, d, e, rows : q = queue /\ d = db /\ e = db' /\ rows = Head(q).rows
  OBVIOUS
<1>3. /\ chain \in Histories(p) /\ IInv /\ ExtentInv /\ SoundInv(W, K) /\ CoverInv(W, K)
  BY <1>1 DEF RowsInv
<1>4. /\ q # <<>> /\ e = Stored(s, rows) /\ committed' = committed \cup {s}
      /\ UNCHANGED <<processor, chain, batch, batch_start, batch_end, queue, checkpoint,
                     next_version>>
  BY <1>2 DEF CommitStatement
<1>5. PICK S : q \in Seq(S)
  BY <1>2, <1>3 DEF IInv, QueueInv
<1>6. Len(q) \in Nat \ {0} /\ Head(q) = q[1] /\ 1 \in 1 .. Len(q)
  BY <1>4, <1>5
<1>7. Sound(rows, W, K) /\ Sound(d, W, K)
  BY <1>2, <1>3, <1>6 DEF SoundInv
<1>8. DOMAIN W \subseteq Nat /\ DOMAIN W = 1 .. Len(chain) /\ Len(chain) \in Nat
  BY <1>1, <1>3, WritesFact DEF Versioned
<1>9. PICK mine : mine = {k \in DOMAIN rows : CommitGroup(k[1]) = s}
  OBVIOUS
<1>10. Merged(e, d, rows, K, mine)
  BY <1>2, <1>4, <1>9, StoredFact DEF LatestWins
<1>11. Sound(e, W, K)
  <2>1. mine \subseteq DOMAIN rows
    BY <1>9
  <2> QED BY <1>7, <1>10, <2>1 DEF Sound, Merged
<1>12. CoverInv(W, K)'
  <2>1. NamesVersion(rows, K) /\ NamesVersion(d, K)
    BY <1>7, <1>8 DEF Sound, NamesVersion
  <2> QED BY <1>2, <1>3, <2>1, CoverCommit DEF LatestWins
<1>13. SoundInv(W, K)'
  BY <1>2, <1>3, <1>4, <1>11 DEF SoundInv
<1>14. ExtentInv'
  BY <1>2, <1>3, <1>4 DEF ExtentInv
<1>15. Writes(p)' = W
  BY <1>1, <1>4 DEF Writes, Versions
<1>16. IInv'
  BY <1>3, <1>4 DEF IInv, BatchInv, QueueInv
<1> QED BY <1>3, <1>4, <1>12, <1>13, <1>14, <1>15, <1>16 DEF RowsInv

LEMMA CoverFinish ==
    ASSUME NEW W, NEW K, IInv, CoverInv(W, K), FinishBatch,
           NamesVersion(Head(queue).rows, K), NamesVersion(db, K)
    PROVE  CoverInv(W, K)'
<1>1. PICK q, r, c, rows : q = queue /\ r = queue' /\ c = checkpoint' /\ rows = Head(q).rows
  OBVIOUS
<1>2. /\ q # <<>> /\ committed = StatementsOf(rows) /\ r = Tail(q) /\ committed' = {}
      /\ c \in {checkpoint, Head(q).end_version}
      /\ UNCHANGED <<db, batch, batch_start, batch_end, next_version>>
  BY <1>1 DEF FinishBatch
<1>3. PICK S : q \in Seq(S)
  BY <1>1 DEF IInv, QueueInv
<1>4. PICK m : m = Len(q)
  OBVIOUS
<1>5. /\ m \in Nat \ {0} /\ Head(q) = q[1] /\ Len(r) = m - 1 /\ r \in Seq(S)
      /\ \A i \in 1 .. m - 1 : r[i] = q[i + 1]
  BY <1>2, <1>3, <1>4
<1>6. \A k \in K : k \in DOMAIN rows => Has(db, k, rows[k].v)
  <2>1. \A k \in DOMAIN rows : CommitGroup(k[1]) \in committed
    BY <1>2 DEF StatementsOf
  <2> QED BY <1>1, <1>2, <2>1 DEF CoverInv
<1>7. \A k \in K : \A v \in Nat : Has(rows, k, v) => Has(db, k, v)
  BY <1>1, <1>6 DEF Has, NamesVersion
<1>8. ASSUME NEW i \in 1 .. m, NEW n, OnItsWay(db, q, i, W, K, 1 .. n)
      PROVE  OnItsWay(db, r, i - 1, W, K, 1 .. n)
  <2>1. ASSUME NEW v \in 1 .. n, NEW k \in K, k \in DOMAIN W[v], ~Has(db, k, v)
        PROVE  \E j \in 1 .. i - 1 : Has(r[j].rows, k, v)
    <3>1. PICK j \in 1 .. i : Has(q[j].rows, k, v)
      BY <1>8, <2>1 DEF OnItsWay
    <3>2. j # 1
      BY <1>1, <1>5, <1>7, <2>1, <3>1
    <3>3. j - 1 \in 1 .. i - 1 /\ j - 1 \in 1 .. m - 1 /\ (j - 1) + 1 = j
      BY <1>5, <3>1, <3>2
    <3>4. r[j - 1] = q[j]
      BY <1>5, <3>3
    <3> QED BY <3>1, <3>3, <3>4
  <2> QED BY <2>1 DEF OnItsWay
<1>9. PICK first : first = q[1].end_version
  OBVIOUS
<1>10. first \in Nat /\ first < next_version /\ next_version \in Nat /\ checkpoint \in Nat
  BY <1>1, <1>4, <1>5, <1>9 DEF IInv, QueueInv
<1>11. OnItsWay(db, r, 0, W, K, 1 .. c)
  <2>1. OnItsWay(db, r, 0, W, K, 1 .. checkpoint)
    BY <1>1 DEF CoverInv, OnItsWay
  <2>2. 1 \in 1 .. m /\ 1 - 1 = 0
    BY <1>5
  <2>3. OnItsWay(db, q, 1, W, K, 1 .. first)
    BY <1>1, <1>4, <1>9, <2>2 DEF CoverInv
  <2>4. OnItsWay(db, r, 0, W, K, 1 .. first)
    <3>1. OnItsWay(db, r, 1 - 1, W, K, 1 .. first)
      BY <1>8, <2>2, <2>3
    <3> QED BY <2>2, <3>1
  <2> QED BY <1>2, <1>5, <1>9, <2>1, <2>4
<1>12. CoverInv(W, K)'
  <2>1. ASSUME NEW i \in 1 .. Len(r) PROVE OnItsWay(db, r, i, W, K, 1 .. r[i].end_version)
    <3>1. i + 1 \in 1 .. m /\ r[i] = q[i + 1] /\ (i + 1) - 1 = i
      BY <1>4, <1>5
    <3>2. OnItsWay(db, q, i + 1, W, K, 1 .. q[i + 1].end_version)
      BY <1>1, <1>4, <3>1 DEF CoverInv
    <3>3. OnItsWay(db, r, (i + 1) - 1, W, K, 1 .. q[i + 1].end_version)
      BY <1>8, <3>1, <3>2
    <3> QED BY <3>1, <3>3
  <2>2. OnItsWay(db, r, Len(r), W, K, 1 .. Start - 1)
    <3>1. OnItsWay(db, q, m, W, K, 1 .. Start - 1)
      BY <1>1, <1>4 DEF CoverInv
    <3>2. m \in 1 .. m
      BY <1>5
    <3> QED BY <1>5, <1>8, <3>1, <3>2
  <2>3. Start' = Start
    BY <1>2 DEF Start
  <2>4. queue' = r /\ db' = db /\ checkpoint' = c /\ committed' = {}
    BY <1>1, <1>2
  <2>5. (batch_end # 0 => \A v \in batch_start .. next_version - 1 : \A k \in K :
            k \in DOMAIN W[v] => Has(batch.rows, k, v))'
    BY <1>2 DEF CoverInv
  <2> QED BY <1>11, <2>1, <2>2, <2>3, <2>4, <2>5 DEF CoverInv
<1> QED BY <1>12

LEMMA RowsFinish ==
    ASSUME NEW p, NEW K, LatestWins(p, K), processor = p, RowsInv(p, K), FinishBatch
    PROVE  RowsInv(p, K)'
<1>1. PICK W : W = Writes(p)
  OBVIOUS
<1>2. PICK q, r, c, rows : q = queue /\ r = queue' /\ c = checkpoint' /\ rows = Head(q).rows
  OBVIOUS
<1>3. /\ chain \in Histories(p) /\ IInv /\ ExtentInv /\ SoundInv(W, K) /\ CoverInv(W, K)
  BY <1>1 DEF RowsInv
<1>4. /\ q # <<>> /\ committed = StatementsOf(rows) /\ r = Tail(q) /\ committed' = {}
      /\ c \in {checkpoint, Head(q).end_version}
      /\ UNCHANGED <<processor, chain, db, batch, batch_start, batch_end, next_version>>
  BY <1>2 DEF FinishBatch
<1>5. PICK S : q \in Seq(S)
  BY <1>2, <1>3 DEF IInv, QueueInv
<1>6. PICK m : m = Len(q)
  OBVIOUS
<1>7. /\ m \in Nat \ {0} /\ Head(q) = q[1] /\ Len(r) = m - 1 /\ r \in Seq(S)
      /\ \A i \in 1 .. m - 1 : r[i] = q[i + 1]
  BY <1>4, <1>5, <1>6
<1>8. Sound(rows, W, K) /\ Sound(db, W, K)
  BY <1>2, <1>3, <1>6, <1>7 DEF SoundInv
<1>9. DOMAIN W \subseteq Nat
  BY <1>1, <1>3, WritesFact DEF Versioned
<1>10. PICK first : first = q[1].end_version
  OBVIOUS
<1>11. first \in Nat /\ first < next_version /\ next_version \in Nat /\ checkpoint \in Nat
  BY <1>2, <1>3, <1>6, <1>7, <1>10 DEF IInv, QueueInv
<1>12. ExtentInv'
  <2>1. c <= Len(chain)
    BY <1>3, <1>4, <1>7, <1>10, <1>11 DEF ExtentInv
  <2> QED BY <1>2, <1>3, <1>4, <2>1 DEF ExtentInv
<1>13. SoundInv(W, K)'
  <2>1. ASSUME NEW i \in 1 .. Len(r) PROVE Sound(r[i].rows, W, K)
    <3>1. i + 1 \in 1 .. Len(q) /\ r[i] = q[i + 1]
      BY <1>6, <1>7
    <3> QED BY <1>2, <1>3, <3>1 DEF SoundInv
  <2> QED BY <1>2, <1>3, <1>4, <2>1 DEF SoundInv
<1>14. CoverInv(W, K)'
  <2>1. NamesVersion(rows, K) /\ NamesVersion(db, K)
    BY <1>8, <1>9 DEF Sound, NamesVersion
  <2> QED BY <1>2, <1>3, <2>1, CoverFinish
<1>15. Writes(p)' = W
  BY <1>1, <1>4 DEF Writes, Versions
<1> QED BY <1>3, <1>4, <1>12, <1>13, <1>14, <1>15, FinishStep DEF RowsInv

LEMMA CoverCrash ==
    ASSUME NEW W, NEW K, IInv, CoverInv(W, K), Crash
    PROVE  CoverInv(W, K)'
<1>1. /\ batch_end' = 0 /\ queue' = <<>> /\ committed' = {}
      /\ next_version' = IF checkpoint = 0 THEN 1 ELSE checkpoint
      /\ UNCHANGED <<db, checkpoint>>
  BY DEF Crash, GetStartingVersion
<1>2. checkpoint \in Nat
  BY DEF IInv
<1>3. CoverInv(W, K)'
  <2>1. OnItsWay(db, <<>>, 0, W, K, 1 .. checkpoint)
    BY DEF CoverInv, OnItsWay
  <2>2. Start' = next_version' /\ \A v \in 1 .. next_version' - 1 : v \in 1 .. checkpoint
    BY <1>1, <1>2 DEF Start
  <2>3. OnItsWay(db, <<>>, 0, W, K, 1 .. next_version' - 1)
    BY <2>1, <2>2 DEF OnItsWay
  <2> QED BY <1>1, <2>1, <2>2, <2>3 DEF CoverInv
<1> QED BY <1>3

LEMMA RowsCrash ==
    ASSUME NEW p, NEW K, LatestWins(p, K), processor = p, RowsInv(p, K), Crash
    PROVE  RowsInv(p, K)'
<1>1. PICK W : W = Writes(p)
  OBVIOUS
<1>2. /\ chain \in Histories(p) /\ IInv /\ ExtentInv /\ SoundInv(W, K) /\ CoverInv(W, K)
  BY <1>1 DEF RowsInv
<1>3. /\ batch' = FirstBatch(p, db) /\ batch_end' = 0 /\ queue' = <<>> /\ committed' = {}
      /\ next_version' = IF checkpoint = 0 THEN 1 ELSE checkpoint
      /\ UNCHANGED <<processor, chain, db, checkpoint>>
  BY DEF Crash, GetStartingVersion
<1>4. checkpoint \in Nat /\ checkpoint <= Len(chain) /\ Len(chain) \in Nat
  BY <1>2 DEF IInv, ExtentInv
<1>5. IsBatch(batch') /\ DOMAIN batch'.rows = {}
  BY <1>3 DEF LatestWins
<1>6. ExtentInv'
  BY <1>3, <1>4, <1>5 DEF ExtentInv
<1>7. SoundInv(W, K)'
  BY <1>2, <1>3, <1>5 DEF SoundInv, Sound
<1>8. CoverInv(W, K)'
  BY <1>2, CoverCrash
<1>9. Writes(p)' = W
  BY <1>1, <1>3 DEF Writes, Versions
<1> QED BY <1>2, <1>3, <1>6, <1>7, <1>8, <1>9, CrashStep DEF RowsInv

LEMMA RowsInit ==
    ASSUME NEW p, NEW K, LatestWins(p, K), processor = p, Init
    PROVE  RowsInv(p, K)
<1>1. /\ chain \in Histories(p) /\ db = NoRows /\ batch = FirstBatch(p, NoRows)
      /\ batch_start = 0 /\ batch_end = 0 /\ queue = <<>> /\ committed = {} /\ checkpoint = 0
      /\ next_version = 1
  BY DEF Init
<1>2. IsBatch(batch) /\ DOMAIN batch.rows = {} /\ Len(chain) \in Nat
  BY <1>1 DEF LatestWins
<1>3. DOMAIN db = {}
  BY <1>1 DEF NoRows
<1>4. IInv
  BY <1>1 DEF IInv, BatchInv, QueueInv
<1>5. ExtentInv
  BY <1>1, <1>2 DEF ExtentInv
<1>6. SoundInv(Writes(p), K)
  BY <1>1, <1>2, <1>3 DEF SoundInv, Sound
<1>7. CoverInv(Writes(p), K)
  <2>1. \A v \in 1 .. 0 : FALSE
    OBVIOUS
  <2>2. Start - 1 = 0
    BY <1>1 DEF Start
  <2> QED BY <1>1, <2>1, <2>2 DEF CoverInv, OnItsWay
<1> QED BY <1>1, <1>4, <1>5, <1>6, <1>7 DEF RowsInv

LEMMA RowsNext ==
    ASSUME NEW p, NEW K, LatestWins(p, K), processor = p, RowsInv(p, K), [Next]_vars
    PROVE  RowsInv(p, K)' /\ processor' = p
<1>1. CASE UNCHANGED vars
  <2>1. Writes(p)' = Writes(p) /\ Start' = Start
    BY <1>1 DEF Writes, Versions, Start, vars
  <2>2. IInv'
    BY <1>1 DEF RowsInv, IInv, BatchInv, QueueInv, vars
  <2>3. ExtentInv' /\ SoundInv(Writes(p), K)'
    BY <1>1, <2>1 DEF RowsInv, ExtentInv, SoundInv, vars
  <2>4. CoverInv(Writes(p), K)'
    BY <1>1, <2>1 DEF RowsInv, CoverInv, vars
  <2> QED BY <1>1, <2>2, <2>3, <2>4 DEF RowsInv, vars
<1>2. CASE Terminated
  BY <1>1, <1>2 DEF Terminated
<1>3. ASSUME NEW s, CommitStatement(s) PROVE RowsInv(p, K)' /\ processor' = p
  BY <1>3, RowsCommit DEF CommitStatement
<1>4. CASE ExtractTransaction
  BY <1>4, RowsExtract DEF ExtractTransaction
<1>5. CASE SendBatch
  BY <1>5, RowsSend DEF SendBatch
<1>6. CASE FinishBatch
  BY <1>6, RowsFinish DEF FinishBatch
<1>7. CASE Crash
  BY <1>7, RowsCrash DEF Crash
<1> QED BY <1>1, <1>2, <1>3, <1>4, <1>5, <1>6, <1>7 DEF Next

\* Once all is stored, the tables have for each key the row of the last version that
\* wrote one, and no other rows of these keys.
LastRows(p, K) ==
    \A k \in K :
      /\ k \in DOMAIN db <=> \E v \in Versions : k \in DOMAIN RowsOf(p, chain[v], v)
      /\ \A v \in Versions :
           /\ k \in DOMAIN RowsOf(p, chain[v], v)
           /\ \A w \in Versions : k \in DOMAIN RowsOf(p, chain[w], w) => w <= v
           => db[k] = RowsOf(p, chain[v], v)[k]

LEMMA RowsQuiet ==
    ASSUME NEW p, NEW K, LatestWins(p, K), RowsInv(p, K), Quiet
    PROVE  LastRows(p, K)
<1>1. PICK W : W = Writes(p)
  OBVIOUS
<1>2. /\ chain \in Histories(p) /\ IInv /\ ExtentInv /\ SoundInv(W, K) /\ CoverInv(W, K)
  BY <1>1 DEF RowsInv
<1>3. /\ Len(chain) \in Nat /\ DOMAIN W = 1 .. Len(chain) /\ Versions = DOMAIN W
      /\ \A v \in 1 .. Len(chain) : W[v] = RowsOf(p, chain[v], v)
  BY <1>1, <1>2, WritesFact DEF Versions
<1>4. ASSUME NEW v \in DOMAIN W, NEW k \in K, k \in DOMAIN W[v] PROVE Has(db, k, v)
  <2>1. queue = <<>> /\ Len(queue) = 0 /\ Start = next_version /\ next_version > Len(chain)
    BY DEF Quiet, Start
  <2>2. next_version \in Nat
    BY <1>2 DEF IInv
  <2>3. v \in 1 .. Start - 1
    BY <1>3, <2>1, <2>2
  <2>4. OnItsWay(db, queue, 0, W, K, 1 .. Start - 1)
    BY <1>2, <2>1 DEF CoverInv
  <2>5. \A j \in 1 .. 0 : FALSE
    OBVIOUS
  <2> QED BY <1>4, <2>3, <2>4, <2>5 DEF OnItsWay
<1>5. ASSUME NEW k \in K, k \in DOMAIN db
      PROVE  db[k].v \in DOMAIN W /\ k \in DOMAIN W[db[k].v] /\ db[k] = W[db[k].v][k]
  BY <1>2, <1>5 DEF SoundInv, Sound
<1>6. ASSUME NEW k \in K, NEW v \in DOMAIN W, k \in DOMAIN W[v],
             \A w \in DOMAIN W : k \in DOMAIN W[w] => w <= v
      PROVE  db[k] = W[v][k]
  <2>1. k \in DOMAIN db /\ v <= db[k].v
    BY <1>4, <1>6 DEF Has
  <2>2. db[k].v \in DOMAIN W /\ db[k].v <= v
    BY <1>5, <1>6, <2>1
  <2>3. db[k].v = v
    BY <1>3, <2>1, <2>2
  <2> QED BY <1>5, <2>1, <2>3
<1>7. ASSUME NEW k \in K PROVE k \in DOMAIN db <=> \E v \in DOMAIN W : k \in DOMAIN W[v]
  BY <1>4, <1>5 DEF Has
<1>8. \A v \in Versions : RowsOf(p, chain[v], v) = W[v]
  BY <1>3
<1> QED BY <1>3, <1>6, <1>7, <1>8 DEF LastRows
-----------------------------------------------------------------------------
(***************************************************************************)
(* What going through a transaction in order leaves in a batch: the rows   *)
(* of the last positions with their keys.                                  *)
(***************************************************************************)
LEMMA LastOfFact ==
    ASSUME NEW N \in Nat, NEW S \in SUBSET (1 .. N), S # {}
    PROVE  LastOf(S) \in S /\ \A w \in S : w <= LastOf(S)
<1> DEFINE T == {N - i : i \in S}
<1>1. T \in SUBSET Nat /\ T # {}
  <2>1. \A i \in S : i \in 1 .. N
    OBVIOUS
  <2>2. \A i \in 1 .. N : N - i \in Nat
    OBVIOUS
  <2> QED BY <2>1, <2>2
<1>2. PICK t \in T : \A x \in T : t <= x
  <2> HIDE DEF T
  <2> QED BY <1>1, LeastNumber
<1>3. PICK i \in S : t = N - i
  BY <1>2
<1>4. ASSUME NEW w \in S PROVE w <= i
  <2>1. t <= N - w /\ w \in Int /\ i \in Int
    BY <1>2
  <2> QED BY <1>3, <2>1
<1>5. \E x \in S : \A w \in S : w <= x
  BY <1>3, <1>4
<1> QED BY <1>5 DEF LastOf

LEMMA LastOfUnique ==
    ASSUME NEW N \in Nat, NEW S \in SUBSET (1 .. N), NEW i \in S, \A w \in S : w <= i
    PROVE  LastOf(S) = i
<1>1. LastOf(S) \in S /\ i <= LastOf(S) /\ LastOf(S) <= i
  BY LastOfFact
<1>2. i \in 1 .. N /\ LastOf(S) \in 1 .. N
  BY <1>1
<1> QED BY <1>1, <1>2

\* o has the rows of f, and those of g with other keys.
IsOver(o, f, g) ==
    /\ DOMAIN o = DOMAIN f \cup DOMAIN g /\ o = [k \in DOMAIN o |-> o[k]]
    /\ \A k \in DOMAIN f : o[k] = f[k]
    /\ \A k \in DOMAIN g : k \notin DOMAIN f => o[k] = g[k]

LEMMA OverFact ==
    ASSUME NEW f, NEW g
    PROVE  IsOver(Over(f, g), f, g)
BY DEF Over, IsOver

\* The rows at positions D, each under its key unless a later one has it too.
LastPuts(D, key, row) ==
    [k \in {key[i] : i \in D} |-> row[LastOf({i \in D : key[i] = k})]]

\* A batch with other rows.
With(b, rows) == [b EXCEPT !.rows = rows]

LEMMA WithFact ==
    ASSUME NEW b, IsBatch(b), NEW f, NEW g
    PROVE  /\ With(b, f).rows = f /\ With(b, b.rows) = b
           /\ With(With(b, f), g) = With(b, g)
           /\ IsBatch(With(b, Over(f, g)))
<1>1. /\ b = [rows |-> b.rows, aux |-> b.aux, errors |-> b.errors, panicked |-> b.panicked,
              transactions |-> b.transactions]
      /\ b.rows = [k \in DOMAIN b.rows |-> b.rows[k]]
  BY DEF IsBatch
<1>2. ASSUME NEW h
      PROVE  /\ With(b, h) = [rows |-> h, aux |-> b.aux, errors |-> b.errors,
                              panicked |-> b.panicked, transactions |-> b.transactions]
             /\ With(b, h).rows = h
  BY <1>1 DEF With
<1>3. With(b, f).rows = f /\ With(b, b.rows) = b
  BY <1>1, <1>2
<1>4. With(With(b, f), g) = With(b, g)
  <2>1. With([rows |-> f, aux |-> b.aux, errors |-> b.errors,
              panicked |-> b.panicked, transactions |-> b.transactions], g)
        = [rows |-> g, aux |-> b.aux, errors |-> b.errors,
           panicked |-> b.panicked, transactions |-> b.transactions]
    BY DEF With
  <2> QED BY <1>2, <2>1
<1>5. IsBatch(With(b, Over(f, g)))
  <2>1. PICK o, x : o = Over(f, g) /\ x = With(b, o)
    OBVIOUS
  <2>2. o = [k \in DOMAIN o |-> o[k]]
    <3>1. IsOver(o, f, g)
      BY <2>1, OverFact
    <3> QED BY <3>1 DEF IsOver
  <2>3. x = [rows |-> o, aux |-> b.aux, errors |-> b.errors,
             panicked |-> b.panicked, transactions |-> b.transactions]
    BY <1>2, <2>1
  <2>4. x.rows = o /\ x.aux = b.aux /\ x.errors = b.errors /\ x.panicked = b.panicked
        /\ x.transactions = b.transactions
    BY <2>3
  <2> QED BY <2>1, <2>2, <2>3, <2>4 DEF IsBatch
<1> QED BY <1>3, <1>4, <1>5

\* The batch after the first n positions.
AfterPuts(b, D, key, row, n) == With(b, Over(LastPuts(D \cap (1 .. n), key, row), b.rows))

PutAt(x, i, key, row) == [x EXCEPT !.rows = Put(@, key[i], row[i])]

LEMMA LastPutsStep ==
    ASSUME NEW N \in Nat, NEW D \in SUBSET (1 .. N), NEW key, NEW row, NEW r, NEW n \in 1 .. N
    PROVE  Over(LastPuts(D \cap (1 .. n), key, row), r)
             = IF n \in D THEN Put(Over(LastPuts(D \cap (1 .. n - 1), key, row), r), key[n], row[n])
               ELSE Over(LastPuts(D \cap (1 .. n - 1), key, row), r)
<1> DEFINE A == D \cap (1 .. n)
           B == D \cap (1 .. n - 1)
           f == LastPuts(A, key, row)
           g == LastPuts(B, key, row)
<1>1. CASE n \notin D
  <2>1. A = B
    BY <1>1
  <2> QED BY <1>1, <2>1
<1>2. CASE n \in D
  <2>1. A = B \cup {n} /\ n \in A /\ \A i \in A : i \in Nat /\ i <= n
    BY <1>2
  <2>2. /\ DOMAIN f = {key[i] : i \in A} /\ DOMAIN g = {key[i] : i \in B}
        /\ \A k \in DOMAIN f : f[k] = row[LastOf({i \in A : key[i] = k})]
        /\ \A k \in DOMAIN g : g[k] = row[LastOf({i \in B : key[i] = k})]
    BY DEF LastPuts
  <2>3. f[key[n]] = row[n] /\ key[n] \in DOMAIN f
    <3>1. PICK S : S = {i \in A : key[i] = key[n]}
      OBVIOUS
    <3>2. S \in SUBSET (1 .. N) /\ n \in S /\ \A w \in S : w <= n
      BY <2>1, <3>1
    <3>3. LastOf(S) = n
      BY <3>2, LastOfUnique
    <3>4. key[n] \in DOMAIN f
      BY <2>1, <2>2
    <3> QED BY <2>2, <3>1, <3>3, <3>4
  <2>4. DOMAIN f = DOMAIN g \cup {key[n]}
    BY <2>1, <2>2
  <2>5. ASSUME NEW k \in DOMAIN g, k # key[n] PROVE f[k] = g[k]
    <3>1. {i \in A : key[i] = k} = {i \in B : key[i] = k}
      BY <2>1, <2>5
    <3> QED BY <2>2, <2>4, <3>1
  <2> HIDE DEF A, B, f, g
  <2>6. PICK one : one = [x \in {key[n]} |-> row[n]]
    OBVIOUS
  <2>7. PICK lhs, mid, rhs : lhs = Over(f, r) /\ mid = Over(g, r) /\ rhs = Over(one, mid)
    OBVIOUS
  <2>8. IsOver(lhs, f, r) /\ IsOver(mid, g, r) /\ IsOver(rhs, one, mid)
    BY <2>7, OverFact
  <2>9. /\ DOMAIN lhs = DOMAIN f \cup DOMAIN r
        /\ \A k \in DOMAIN f : lhs[k] = f[k]
        /\ \A k \in DOMAIN r : k \notin DOMAIN f => lhs[k] = r[k]
    BY <2>8 DEF IsOver
  <2>10. DOMAIN one = {key[n]} /\ one[key[n]] = row[n]
    BY <2>6
  <2>11. /\ DOMAIN rhs = {key[n]} \cup DOMAIN g \cup DOMAIN r
         /\ rhs[key[n]] = row[n]
         /\ \A k \in DOMAIN g : k # key[n] => rhs[k] = g[k]
         /\ \A k \in DOMAIN r : k # key[n] /\ k \notin DOMAIN g => rhs[k] = r[k]
    BY <2>8, <2>10 DEF IsOver
  <2>12. DOMAIN lhs = DOMAIN rhs
    BY <2>4, <2>9, <2>11
  <2>13. ASSUME NEW k \in DOMAIN lhs PROVE lhs[k] = rhs[k]
    <3>1. CASE k = key[n]
      BY <2>3, <2>9, <2>11, <3>1
    <3>2. CASE k # key[n] /\ k \in DOMAIN g
      BY <2>4, <2>5, <2>9, <2>11, <3>2
    <3>3. CASE k # key[n] /\ k \notin DOMAIN g
      BY <2>4, <2>9, <2>11, <3>3
    <3> QED BY <3>1, <3>2, <3>3
  <2>14. lhs = rhs
    <3>1. lhs = [k \in DOMAIN lhs |-> lhs[k]] /\ rhs = [k \in DOMAIN rhs |-> rhs[k]]
      BY <2>8 DEF IsOver
    <3> QED BY <2>12, <2>13, <3>1
  <2> QED BY <1>2, <2>6, <2>7, <2>14 DEF Put, f, g, A, B
<1> QED BY <1>1, <1>2

LEMMA AfterPutsStep ==
    ASSUME NEW N \in Nat, NEW D \in SUBSET (1 .. N), NEW key, NEW row, NEW b, IsBatch(b)
    PROVE  /\ AfterPuts(b, D, key, row, 0) = b
           /\ \A n \in 0 .. N : IsBatch(AfterPuts(b, D, key, row, n))
           /\ \A n \in 1 .. N :
                AfterPuts(b, D, key, row, n)
                  = IF n \in D THEN PutAt(AfterPuts(b, D, key, row, n - 1), n, key, row)
                    ELSE AfterPuts(b, D, key, row, n - 1)
<1>1. AfterPuts(b, D, key, row, 0) = b
  <2>1. PICK f : f = LastPuts(D \cap (1 .. 0), key, row)
    OBVIOUS
  <2>2. DOMAIN f = {}
    BY <2>1 DEF LastPuts
  <2>3. b.rows = [k \in DOMAIN b.rows |-> b.rows[k]]
    BY DEF IsBatch
  <2>4. PICK o : o = Over(f, b.rows)
    OBVIOUS
  <2>5. DOMAIN o = DOMAIN b.rows /\ o = [k \in DOMAIN o |-> o[k]]
        /\ \A k \in DOMAIN b.rows : o[k] = b.rows[k]
    <3>1. IsOver(o, f, b.rows)
      BY <2>4, OverFact
    <3> QED BY <2>2, <3>1 DEF IsOver
  <2>6. o = b.rows
    BY <2>3, <2>5
  <2> QED BY <2>1, <2>4, <2>6, WithFact DEF AfterPuts
<1>2. \A n \in 0 .. N : IsBatch(AfterPuts(b, D, key, row, n))
  BY WithFact DEF AfterPuts
<1>3. ASSUME NEW n \in 1 .. N
      PROVE  AfterPuts(b, D, key, row, n)
                = IF n \in D THEN PutAt(AfterPuts(b, D, key, row, n - 1), n, key, row)
                  ELSE AfterPuts(b, D, key, row, n - 1)
  <2>1. PICK p, q : /\ p = Over(LastPuts(D \cap (1 .. n - 1), key, row), b.rows)
                    /\ q = Over(LastPuts(D \cap (1 .. n), key, row), b.rows)
    OBVIOUS
  <2>2. q = IF n \in D THEN Put(p, key[n], row[n]) ELSE p
    BY <2>1, LastPutsStep
  <2>3. PutAt(With(b, p), n, key, row) = With(b, Put(p, key[n], row[n]))
    <3>1. PutAt(With(b, p), n, key, row) = With(With(b, p), Put(With(b, p).rows, key[n], row[n]))
      BY DEF PutAt, With
    <3>2. With(b, p).rows = p
      BY WithFact
    <3>3. With(With(b, p), Put(p, key[n], row[n])) = With(b, Put(p, key[n], row[n]))
      BY WithFact
    <3> QED BY <3>1, <3>2, <3>3
  <2> QED BY <2>1, <2>2, <2>3 DEF AfterPuts
<1> QED BY <1>1, <1>2, <1>3

\* A function that puts rows one by one has the rows of the last positions at its end.
LEMMA PutsFold ==
    ASSUME NEW N \in Nat, NEW D \in SUBSET (1 .. N), NEW key, NEW row, NEW b, IsBatch(b),
           NEW g, g[0] = b,
           \A n \in 1 .. N : g[n] = IF n \in D THEN PutAt(g[n - 1], n, key, row) ELSE g[n - 1]
    PROVE  g[N] = AfterPuts(b, D, key, row, N)
<1> DEFINE P == {n \in 0 .. N : g[n] = AfterPuts(b, D, key, row, n)}
<1>1. 0 \in P
  BY AfterPutsStep
<1>2. ASSUME NEW n \in 1 .. N, n - 1 \in P PROVE n \in P
  <2>1. g[n - 1] = AfterPuts(b, D, key, row, n - 1) /\ n \in 0 .. N
    BY <1>2
  <2>2. AfterPuts(b, D, key, row, n)
           = IF n \in D THEN PutAt(g[n - 1], n, key, row) ELSE g[n - 1]
    BY <2>1, AfterPutsStep
  <2> QED BY <2>1, <2>2
<1>3. N \in P
  <2> HIDE DEF P
  <2> QED BY <1>1, <1>2, InductionUpTo
<1> QED BY <1>3
-----------------------------------------------------------------------------
(***************************************************************************)
(* The ANS processor looks nothing up, and both of its upserts keep the    *)
(* later version.                                                          *)
(***************************************************************************)
AnsKeys ==
    {LookupKey(n[1], n[2], standard) : n \in Names, standard \in {"v1", "v2"}}
    \cup {PrimaryKey(a, standard) : a \in Registrants, standard \in {"v1", "v2"}}

\* The pipeline runs the ANS processor under this name, and its keys are those of its
\* tables.
AnsWired ==
    /\ \A tables : FirstBatch("ans", tables) = AnsNewBatch
    /\ \A b : NextBatch("ans", b) = AnsNewBatch
    /\ \A b, txn, v, tables : Parse("ans", b, txn, v, tables) = AnsParse(b, txn, v, tables)
    /\ \A k, old, new : Upsert("ans", k, old, new) = AnsUpsert(k, old, new)
    /\ \A k : k \in AnsKeys \/ TableKey(k) \in AnsKeys => TableKey(k) = k

\* Its chains are made of transactions of the name service.
AnsChains ==
    \A c \in Histories("ans") : Len(c) \in Nat /\ \A v \in 1 .. Len(c) : AnsTransaction(c[v])

LEMMA AnsChangeFact ==
    ASSUME NEW c \in AnsChange
    PROVE  /\ c.type \in {"NameRecordV1", "PrimaryNameV1", "DeleteNameRecordV1",
                          "RenewNameEvent"} => c.name \in Names
           /\ c.type \in {"PrimaryNameV1", "DeletePrimaryNameV1", "SetReverseLookupEvent"} =>
                 c.addr \in Registrants
           /\ c.type \in {"PrimaryNameV1", "SetReverseLookupEvent"} => "name" \in DOMAIN c
           /\ c.type = "DeletePrimaryNameV1" => "name" \notin DOMAIN c
           /\ c.type = "NameRecordV2" => c.object \in Names
           /\ c.type = "SubdomainExtV2" => c.policy \in Nat /\ c.object \in Names
BY DEF AnsChange

\* The positions with an event, and with a change, that leave a row.
EventItems(txn) == Items(txn, "SetReverseLookupEvent")

ChangeItems(txn) ==
    {i \in DOMAIN txn : txn[i].type \in {"NameRecordV1", "DeleteNameRecordV1", "PrimaryNameV1",
                                         "DeletePrimaryNameV1", "NameRecordV2"}}

\* The keys and the rows they leave.
EventKey(txn) == [i \in EventItems(txn) |-> PrimaryKey(txn[i].addr, "v2")]

PrimaryRow(v, name) == [v |-> v, name |-> name, is_deleted |-> name = NoName]

EventRow(txn, v) == [i \in EventItems(txn) |-> PrimaryRow(v, txn[i].name)]

KeyOfChange(c) ==
    IF c.type \in {"NameRecordV1", "DeleteNameRecordV1"} THEN LookupKey(c.name[1], c.name[2], "v1")
    ELSE IF c.type \in {"PrimaryNameV1", "DeletePrimaryNameV1"} THEN PrimaryKey(c.addr, "v1")
    ELSE LookupKey(c.object[1], c.object[2], "v2")

ChangeKey(txn) == [i \in ChangeItems(txn) |-> KeyOfChange(txn[i])]

LookupRow(v, target, is_deleted, policy) ==
    [v |-> v, target |-> target, is_deleted |-> is_deleted, policy |-> policy]

RowOfChange(txn, c, v) ==
    IF c.type = "NameRecordV1" THEN LookupRow(v, c.target, FALSE, None)
    ELSE IF c.type = "DeleteNameRecordV1" THEN LookupRow(v, None, TRUE, None)
    ELSE IF c.type = "PrimaryNameV1" THEN PrimaryRow(v, c.name)
    ELSE IF c.type = "DeletePrimaryNameV1" THEN PrimaryRow(v, NoName)
    ELSE LookupRow(v, c.target, FALSE, ExtOf(txn, c.object).policy)

ChangeRow(txn, v) == [i \in ChangeItems(txn) |-> RowOfChange(txn, txn[i], v)]

LEMMA ExtFact ==
    ASSUME NEW txn, AnsTransaction(txn), NEW i \in DOMAIN txn, txn[i].type = "NameRecordV2"
    PROVE  /\ txn[i].domain = txn[i].object[1]
           /\ ExtOf(txn, txn[i].object).subdomain = txn[i].object[2]
           /\ ExtOf(txn, txn[i].object).policy = None <=> txn[i].object[2] = ""
<1>1. PICK n : n = txn[i].object
  OBVIOUS
<1>2. txn[i].domain = n[1] /\ (ExtsOf(txn, n) = {} <=> n[2] = "")
  BY <1>1 DEF AnsTransaction, Items
<1>3. CASE ExtsOf(txn, n) = {}
  <2>1. PICK none : none = [subdomain |-> "", policy |-> None]
    OBVIOUS
  <2>4. none.subdomain = "" /\ none.policy = None
    BY <2>1
  <2>2. ExtOf(txn, n).subdomain = "" /\ ExtOf(txn, n).policy = None
    BY <1>3, <2>1, <2>4 DEF ExtOf
  <2>3. n[2] = ""
    BY <1>2, <1>3
  <2> QED BY <1>1, <1>2, <2>2, <2>3
<1>4. CASE ExtsOf(txn, n) # {}
  <2>1. PICK j : j = CHOOSE x \in ExtsOf(txn, n) : TRUE
    OBVIOUS
  <2>2. j \in ExtsOf(txn, n) /\ ExtOf(txn, n) = txn[j]
    BY <1>4, <2>1 DEF ExtOf
  <2>3. j \in DOMAIN txn /\ txn[j].type = "SubdomainExtV2" /\ txn[j].object = n
    BY <2>2 DEF ExtsOf, Items
  <2>4. txn[j].subdomain = txn[j].object[2]
    BY <2>3 DEF AnsTransaction, Items
  <2>5. txn[j] \in AnsChange
    <3>1. txn \in Seq(AnsChange)
      BY DEF AnsTransaction
    <3> QED BY <2>3, <3>1
  <2>6. txn[j].policy \in Nat
    BY <2>3, <2>5, AnsChangeFact
  <2>7. txn[j].policy # None
    BY <2>6, NullAssumption
  <2> QED BY <1>1, <1>2, <1>4, <2>2, <2>3, <2>4, <2>7
<1> QED BY <1>3, <1>4

LEMMA EventPut ==
    ASSUME NEW txn, NEW n \in DOMAIN txn, NEW v, NEW x
    PROVE  PrimaryFromEvent(x, v, txn[n])
             = IF n \in EventItems(txn) THEN PutAt(x, n, EventKey(txn), EventRow(txn, v)) ELSE x
<1>1. CASE n \in EventItems(txn)
  <2>1. /\ txn[n].type = "SetReverseLookupEvent"
        /\ EventKey(txn)[n] = PrimaryKey(txn[n].addr, "v2")
        /\ EventRow(txn, v)[n] = PrimaryRow(v, txn[n].name)
    BY <1>1 DEF EventItems, EventKey, EventRow, Items
  <2>2. PrimaryFromEvent(x, v, txn[n]) = PutPrimary(x, v, txn[n].addr, "v2", txn[n].name)
    BY <2>1 DEF PrimaryFromEvent
  <2> QED BY <1>1, <2>1, <2>2 DEF PutPrimary, PutAt, PrimaryRow
<1>2. CASE n \notin EventItems(txn)
  BY <1>2 DEF EventItems, Items, PrimaryFromEvent
<1> QED BY <1>1, <1>2

LEMMA ChangePut ==
    ASSUME NEW txn, AnsTransaction(txn), NEW n \in DOMAIN txn, NEW v, NEW x
    PROVE  RowsFromChange(x, v, txn, n)
             = IF n \in ChangeItems(txn) THEN PutAt(x, n, ChangeKey(txn), ChangeRow(txn, v)) ELSE x
<1>1. PICK c : c = txn[n]
  OBVIOUS
<1>2. n \in ChangeItems(txn) => /\ ChangeKey(txn)[n] = KeyOfChange(c)
                                /\ ChangeRow(txn, v)[n] = RowOfChange(txn, c, v)
  BY <1>1 DEF ChangeKey, ChangeRow
<1>3. CASE c.type \in {"NameRecordV1", "DeleteNameRecordV1"}
  <2>1. n \in ChangeItems(txn)
    BY <1>1, <1>3 DEF ChangeItems
  <2>2. RowsFromChange(x, v, txn, n) = LookupFromTableItem(x, v, c)
    BY <1>1, <1>3 DEF RowsFromChange
  <2>3. KeyOfChange(c) = LookupKey(c.name[1], c.name[2], "v1")
    BY <1>3 DEF KeyOfChange
  <2>4. RowOfChange(txn, c, v)
          = IF c.type = "NameRecordV1"
            THEN [v |-> v, target |-> c.target, is_deleted |-> FALSE, policy |-> None]
            ELSE [v |-> v, target |-> None, is_deleted |-> TRUE, policy |-> None]
    BY <1>3 DEF RowOfChange, LookupRow
  <2> QED BY <1>2, <2>1, <2>2, <2>3, <2>4 DEF LookupFromTableItem, PutAt
<1>4. CASE c.type \in {"PrimaryNameV1", "DeletePrimaryNameV1"}
  <2>1. n \in ChangeItems(txn)
    BY <1>1, <1>4 DEF ChangeItems
  <2>2. RowsFromChange(x, v, txn, n) = PrimaryFromTableItem(x, v, c)
    BY <1>1, <1>4 DEF RowsFromChange
  <2>3. KeyOfChange(c) = PrimaryKey(c.addr, "v1")
    BY <1>4 DEF KeyOfChange
  <2>4. RowOfChange(txn, c, v) = PrimaryRow(v, IF c.type = "PrimaryNameV1" THEN c.name ELSE NoName)
    BY <1>4 DEF RowOfChange
  <2> QED BY <1>2, <2>1, <2>2, <2>3, <2>4 DEF PrimaryFromTableItem, PutPrimary, PrimaryRow, PutAt
<1>5. CASE c.type = "NameRecordV2"
  <2>1. n \in ChangeItems(txn)
    BY <1>1, <1>5 DEF ChangeItems
  <2>2. RowsFromChange(x, v, txn, n) = LookupFromResource(x, v, txn, n)
    BY <1>1, <1>5 DEF RowsFromChange
  <2>3. PICK ext : ext = ExtOf(txn, c.object)
    OBVIOUS
  <2>4. c.domain = c.object[1] /\ ext.subdomain = c.object[2]
    BY <1>1, <1>5, <2>3, ExtFact
  <2>5. KeyOfChange(c) = LookupKey(c.domain, ext.subdomain, "v2")
    BY <1>5, <2>4 DEF KeyOfChange
  <2>6. RowOfChange(txn, c, v)
          = [v |-> v, target |-> c.target, is_deleted |-> FALSE, policy |-> ext.policy]
    BY <1>5, <2>3 DEF RowOfChange, LookupRow
  <2>7. LookupFromResource(x, v, txn, n)
          = [x EXCEPT !.rows = Put(@, LookupKey(c.domain, ext.subdomain, "v2"),
               [v |-> v, target |-> c.target, is_deleted |-> FALSE, policy |-> ext.policy])]
    BY <1>1, <2>3 DEF LookupFromResource
  <2> QED BY <1>2, <2>1, <2>2, <2>5, <2>6, <2>7 DEF PutAt
<1>6. CASE c.type \notin {"NameRecordV1", "DeleteNameRecordV1", "PrimaryNameV1",
                          "DeletePrimaryNameV1", "NameRecordV2"}
  <2>1. n \notin ChangeItems(txn)
    BY <1>1, <1>6 DEF ChangeItems
  <2>2. RowsFromChange(x, v, txn, n) = x
    BY <1>1, <1>6 DEF RowsFromChange
  <2> QED BY <2>1, <2>2
<1> QED BY <1>3, <1>4, <1>5, <1>6

\* The rows of one transaction, and that they are the same in every batch.
AnsRows(txn, v) ==
    Over(LastPuts(ChangeItems(txn), ChangeKey(txn), ChangeRow(txn, v)),
         LastPuts(EventItems(txn), EventKey(txn), EventRow(txn, v)))

LEMMA EventsInOrder ==
    ASSUME NEW txn, AnsTransaction(txn), NEW v, NEW b, IsBatch(b)
    PROVE  InOrder(LAMBDA x, i : PrimaryFromEvent(x, v, txn[i]), b, txn)
             = AfterPuts(b, EventItems(txn), EventKey(txn), EventRow(txn, v), Len(txn))
<1> DEFINE N == Len(txn)
           D == EventItems(txn)
           key == EventKey(txn)
           row == EventRow(txn, v)
           Body(g) == [i \in 0 .. N |-> IF i = 0 THEN b ELSE PrimaryFromEvent(g[i - 1], v, txn[i])]
           after == CHOOSE g : g = Body(g)
           h == [i \in 0 .. N |-> AfterPuts(b, D, key, row, i)]
<1>1. N \in Nat /\ DOMAIN txn = 1 .. N /\ D \in SUBSET (1 .. N)
  <2>1. txn \in Seq(AnsChange)
    BY DEF AnsTransaction
  <2> QED BY <2>1 DEF EventItems, Items
<1>2. InOrder(LAMBDA x, i : PrimaryFromEvent(x, v, txn[i]), b, txn) = after[N]
  BY DEF InOrder
<1> HIDE DEF N, D, key, row
<1>3. \A x : \A n \in 1 .. N :
         PrimaryFromEvent(x, v, txn[n]) = IF n \in D THEN PutAt(x, n, key, row) ELSE x
  BY <1>1, EventPut DEF D, key, row
<1>4. h = Body(h)
  <2>1. ASSUME NEW n \in 0 .. N
        PROVE  h[n] = IF n = 0 THEN b ELSE PrimaryFromEvent(h[n - 1], v, txn[n])
    <3>1. CASE n = 0
      <4>1. AfterPuts(b, D, key, row, 0) = b
        BY <1>1, AfterPutsStep
      <4> QED BY <3>1, <4>1
    <3>2. CASE n # 0
      <4>1. n \in 1 .. N /\ n - 1 \in 0 .. N
        BY <1>1, <3>2
      <4>2. h[n] = IF n \in D THEN PutAt(h[n - 1], n, key, row) ELSE h[n - 1]
        BY <1>1, <4>1, AfterPutsStep
      <4> QED BY <1>3, <3>2, <4>1, <4>2
    <3> QED BY <3>1, <3>2
  <2> QED BY <2>1
<1>5. after = Body(after)
  <2>1. \E g : g = Body(g)
    <3> HIDE DEF Body, h
    <3> QED BY <1>4
  <2> HIDE DEF Body
  <2> QED BY <2>1
<1> HIDE DEF after
<1>6. /\ after[0] = b
      /\ \A n \in 1 .. N : after[n] = PrimaryFromEvent(after[n - 1], v, txn[n])
  <2>1. \A n \in 0 .. N :
           Body(after)[n] = IF n = 0 THEN b ELSE PrimaryFromEvent(after[n - 1], v, txn[n])
    OBVIOUS
  <2>2. 0 \in 0 .. N /\ \A n \in 1 .. N : n \in 0 .. N /\ n # 0
    BY <1>1
  <2> HIDE DEF Body
  <2> QED BY <1>5, <2>1, <2>2
<1>7. \A n \in 1 .. N : after[n] = IF n \in D THEN PutAt(after[n - 1], n, key, row) ELSE after[n - 1]
  BY <1>3, <1>6
<1>8. after[N] = AfterPuts(b, D, key, row, N)
  BY <1>1, <1>6, <1>7, PutsFold
<1> QED BY <1>2, <1>8 DEF N, D, key, row

LEMMA ChangesInOrder ==
    ASSUME NEW txn, AnsTransaction(txn), NEW v, NEW b, IsBatch(b)
    PROVE  InOrder(LAMBDA x, i : RowsFromChange(x, v, txn, i), b, txn)
             = AfterPuts(b, ChangeItems(txn), ChangeKey(txn), ChangeRow(txn, v), Len(txn))
<1> DEFINE N == Len(txn)
           D == ChangeItems(txn)
           key == ChangeKey(txn)
           row == ChangeRow(txn, v)
           Body(g) == [i \in 0 .. N |-> IF i = 0 THEN b ELSE RowsFromChange(g[i - 1], v, txn, i)]
           after == CHOOSE g : g = Body(g)
           h == [i \in 0 .. N |-> AfterPuts(b, D, key, row, i)]
<1>1. N \in Nat /\ DOMAIN txn = 1 .. N /\ D \in SUBSET (1 .. N)
  <2>1. txn \in Seq(AnsChange)
    BY DEF AnsTransaction
  <2> QED BY <2>1 DEF ChangeItems
<1>2. InOrder(LAMBDA x, i : RowsFromChange(x, v, txn, i), b, txn) = after[N]
  BY DEF InOrder
<1> HIDE DEF N, D, key, row
<1>3. \A x : \A n \in 1 .. N :
         RowsFromChange(x, v, txn, n) = IF n \in D THEN PutAt(x, n, key, row) ELSE x
  BY <1>1, ChangePut DEF D, key, row
<1>4. h = Body(h)
  <2>1. ASSUME NEW n \in 0 .. N
        PROVE  h[n] = IF n = 0 THEN b ELSE RowsFromChange(h[n - 1], v, txn, n)
    <3>1. CASE n = 0
      <4>1. AfterPuts(b, D, key, row, 0) = b
        BY <1>1, AfterPutsStep
      <4> QED BY <3>1, <4>1
    <3>2. CASE n # 0
      <4>1. n \in 1 .. N /\ n - 1 \in 0 .. N
        BY <1>1, <3>2
      <4>2. h[n] = IF n \in D THEN PutAt(h[n - 1], n, key, row) ELSE h[n - 1]
        BY <1>1, <4>1, AfterPutsStep
      <4> QED BY <1>3, <3>2, <4>1, <4>2
    <3> QED BY <3>1, <3>2
  <2> QED BY <2>1
<1>5. after = Body(after)
  <2>1. \E g : g = Body(g)
    <3> HIDE DEF Body, h
    <3> QED BY <1>4
  <2> HIDE DEF Body
  <2> QED BY <2>1
<1> HIDE DEF after
<1>6. /\ after[0] = b
      /\ \A n \in 1 .. N : after[n] = RowsFromChange(after[n - 1], v, txn, n)
  <2>1. \A n \in 0 .. N :
           Body(after)[n] = IF n = 0 THEN b ELSE RowsFromChange(after[n - 1], v, txn, n)
    OBVIOUS
  <2>2. 0 \in 0 .. N /\ \A n \in 1 .. N : n \in 0 .. N /\ n # 0
    BY <1>1
  <2> HIDE DEF Body
  <2> QED BY <1>5, <2>1, <2>2
<1>7. \A n \in 1 .. N : after[n] = IF n \in D THEN PutAt(after[n - 1], n, key, row) ELSE after[n - 1]
  BY <1>3, <1>6
<1>8. after[N] = AfterPuts(b, D, key, row, N)
  BY <1>1, <1>6, <1>7, PutsFold
<1> QED BY <1>2, <1>8 DEF N, D, key, row

\* f has for each key at positions D the row of the last of them.
ArePuts(f, D, key, row) ==
    /\ \A k : k \in DOMAIN f <=> \E i \in D : key[i] = k
    /\ \A k \in DOMAIN f : \E i \in D :
          key[i] = k /\ f[k] = row[i] /\ \A j \in D : key[j] = k => j <= i
    /\ \A i \in D : (\A j \in D : key[j] = key[i] => j <= i) => f[key[i]] = row[i]

LEMMA LastPutsFact ==
    ASSUME NEW N \in Nat, NEW D \in SUBSET (1 .. N), NEW key, NEW row, NEW f,
           f = LastPuts(D, key, row)
    PROVE  ArePuts(f, D, key, row)
<1>1. /\ DOMAIN f = {key[i] : i \in D}
      /\ \A k \in DOMAIN f : f[k] = row[LastOf({i \in D : key[i] = k})]
  BY DEF LastPuts
<1>2. ASSUME NEW k \in DOMAIN f
      PROVE  \E i \in D : key[i] = k /\ f[k] = row[i] /\ \A j \in D : key[j] = k => j <= i
  <2>1. PICK S : S = {i \in D : key[i] = k}
    OBVIOUS
  <2>2. S \in SUBSET (1 .. N) /\ S # {}
    BY <1>1, <2>1
  <2>3. LastOf(S) \in S /\ \A w \in S : w <= LastOf(S)
    BY <2>2, LastOfFact
  <2> QED BY <1>1, <2>1, <2>3
<1>3. ASSUME NEW i \in D, \A j \in D : key[j] = key[i] => j <= i
      PROVE  f[key[i]] = row[i]
  <2>1. PICK S : S = {j \in D : key[j] = key[i]}
    OBVIOUS
  <2>2. S \in SUBSET (1 .. N) /\ i \in S /\ \A w \in S : w <= i
    BY <1>3, <2>1
  <2>3. LastOf(S) = i
    BY <2>2, LastOfUnique
  <2>4. key[i] \in DOMAIN f
    BY <1>1
  <2> QED BY <1>1, <2>1, <2>3, <2>4
<1> QED BY <1>1, <1>2, <1>3 DEF ArePuts

LEMMA AnsItems ==
    ASSUME NEW txn, AnsTransaction(txn)
    PROVE  /\ Len(txn) \in Nat /\ DOMAIN txn = 1 .. Len(txn)
           /\ ChangeItems(txn) \in SUBSET (1 .. Len(txn))
           /\ EventItems(txn) \in SUBSET (1 .. Len(txn))
           /\ \A i \in DOMAIN txn : txn[i] \in AnsChange
<1>1. txn \in Seq(AnsChange)
  BY DEF AnsTransaction
<1> QED BY <1>1 DEF ChangeItems, EventItems, Items

LEMMA AnsParseFact ==
    ASSUME NEW txn, AnsTransaction(txn), NEW v, NEW b, IsBatch(b), NEW tables
    PROVE  /\ IsBatch(AnsParse(b, txn, v, tables))
           /\ IsOver(AnsParse(b, txn, v, tables).rows, AnsRows(txn, v), b.rows)
<1>1. PICK f, g, N : /\ f = LastPuts(ChangeItems(txn), ChangeKey(txn), ChangeRow(txn, v))
                     /\ g = LastPuts(EventItems(txn), EventKey(txn), EventRow(txn, v))
                     /\ N = Len(txn)
  OBVIOUS
<1>2. /\ N \in Nat /\ ChangeItems(txn) \cap (1 .. N) = ChangeItems(txn)
      /\ EventItems(txn) \cap (1 .. N) = EventItems(txn)
  BY <1>1, AnsItems
<1>3. PICK x : x = InOrder(LAMBDA y, i : PrimaryFromEvent(y, v, txn[i]), b, txn)
  OBVIOUS
<1>4. AnsParse(b, txn, v, tables) = InOrder(LAMBDA y, i : RowsFromChange(y, v, txn, i), x, txn)
  BY <1>3 DEF AnsParse
<1>5. x = With(b, Over(g, b.rows))
  <2>1. x = AfterPuts(b, EventItems(txn), EventKey(txn), EventRow(txn, v), N)
    BY <1>1, <1>3, EventsInOrder
  <2> QED BY <1>1, <1>2, <2>1 DEF AfterPuts
<1>6. IsBatch(x) /\ x.rows = Over(g, b.rows)
  BY <1>5, WithFact
<1>7. AnsParse(b, txn, v, tables) = With(x, Over(f, x.rows))
  <2>1. AnsParse(b, txn, v, tables)
          = AfterPuts(x, ChangeItems(txn), ChangeKey(txn), ChangeRow(txn, v), N)
    BY <1>1, <1>4, <1>6, ChangesInOrder
  <2> QED BY <1>1, <1>2, <2>1 DEF AfterPuts
<1>8. IsBatch(AnsParse(b, txn, v, tables)) /\ AnsParse(b, txn, v, tables).rows = Over(f, x.rows)
  <2>1. IsBatch(With(x, Over(f, x.rows)))
    BY <1>6, WithFact
  <2>2. With(x, Over(f, x.rows)).rows = Over(f, x.rows)
    BY <1>6, WithFact
  <2> QED BY <1>7, <2>1, <2>2
<1>9. PICK o, r, a : o = Over(f, x.rows) /\ r = x.rows /\ a = AnsRows(txn, v)
  OBVIOUS
<1>10. IsOver(o, f, r) /\ IsOver(r, g, b.rows) /\ IsOver(a, f, g)
  BY <1>1, <1>6, <1>9, OverFact DEF AnsRows
<1>11. IsOver(o, a, b.rows)
  <2>1. o = [k \in DOMAIN o |-> o[k]]
    BY <1>10 DEF IsOver
  <2>2. DOMAIN o = DOMAIN a \cup DOMAIN b.rows
    BY <1>10 DEF IsOver
  <2>3. ASSUME NEW k \in DOMAIN a PROVE o[k] = a[k]
    <3>1. CASE k \in DOMAIN f
      BY <1>10, <3>1 DEF IsOver
    <3>2. CASE k \notin DOMAIN f
      <4>1. k \in DOMAIN g /\ a[k] = g[k]
        BY <1>10, <2>3, <3>2 DEF IsOver
      <4>2. k \in DOMAIN r /\ r[k] = g[k]
        BY <1>10, <4>1 DEF IsOver
      <4>3. o[k] = r[k]
        BY <1>10, <3>2, <4>2 DEF IsOver
      <4> QED BY <4>1, <4>2, <4>3
    <3> QED BY <3>1, <3>2
  <2>4. ASSUME NEW k \in DOMAIN b.rows, k \notin DOMAIN a PROVE o[k] = b.rows[k]
    <3>1. k \notin DOMAIN f /\ k \notin DOMAIN g
      BY <1>10, <2>4 DEF IsOver
    <3>2. k \in DOMAIN r /\ r[k] = b.rows[k]
      BY <1>10, <3>1 DEF IsOver
    <3>3. o[k] = r[k]
      BY <1>10, <3>1, <3>2 DEF IsOver
    <3> QED BY <3>2, <3>3
  <2> QED BY <2>1, <2>2, <2>3, <2>4 DEF IsOver
<1> QED BY <1>8, <1>9, <1>11

LEMMA AnsNewBatchFact == IsBatch(AnsNewBatch) /\ DOMAIN AnsNewBatch.rows = {}
<1>1. PICK r : r = NoRows
  OBVIOUS
<1>2. DOMAIN r = {} /\ r = [k \in DOMAIN r |-> r[k]]
  BY <1>1 DEF NoRows
<1>3. PICK b : b = AnsNewBatch
  OBVIOUS
<1>4. b = [rows |-> r, aux |-> r, errors |-> {}, panicked |-> FALSE, transactions |-> {}]
  BY <1>1, <1>3 DEF AnsNewBatch, EmptyBatch
<1>5. b.rows = r /\ b.aux = r /\ b.errors = {} /\ b.panicked = FALSE /\ b.transactions = {}
  BY <1>4
<1> QED BY <1>2, <1>3, <1>4, <1>5 DEF IsBatch

LEMMA AnsRowsOf ==
    ASSUME AnsWired, NEW txn, AnsTransaction(txn), NEW v
    PROVE  /\ DOMAIN RowsOf("ans", txn, v) = DOMAIN AnsRows(txn, v)
           /\ \A k \in DOMAIN AnsRows(txn, v) : RowsOf("ans", txn, v)[k] = AnsRows(txn, v)[k]
<1>1. PICK r : r = RowsOf("ans", txn, v)
  OBVIOUS
<1>2. r = AnsParse(AnsNewBatch, txn, v, NoRows).rows
  BY <1>1 DEF RowsOf, AnsWired
<1>3. IsOver(r, AnsRows(txn, v), AnsNewBatch.rows)
  BY <1>2, AnsParseFact, AnsNewBatchFact
<1> QED BY <1>1, <1>3, AnsNewBatchFact DEF IsOver

LEMMA AnsRowsFact ==
    ASSUME NEW txn, AnsTransaction(txn), NEW v, NEW a, a = AnsRows(txn, v)
    PROVE  /\ \A k : k \in DOMAIN a <=> \/ \E i \in ChangeItems(txn) : KeyOfChange(txn[i]) = k
                                        \/ \E i \in EventItems(txn) : PrimaryKey(txn[i].addr, "v2") = k
           /\ \A i \in ChangeItems(txn) :
                (\A j \in ChangeItems(txn) : KeyOfChange(txn[j]) = KeyOfChange(txn[i]) => j <= i)
                  => a[KeyOfChange(txn[i])] = RowOfChange(txn, txn[i], v)
           /\ \A i \in EventItems(txn) :
                /\ \A j \in EventItems(txn) :
                     PrimaryKey(txn[j].addr, "v2") = PrimaryKey(txn[i].addr, "v2") => j <= i
                /\ \A j \in ChangeItems(txn) : KeyOfChange(txn[j]) # PrimaryKey(txn[i].addr, "v2")
                => a[PrimaryKey(txn[i].addr, "v2")] = PrimaryRow(v, txn[i].name)
           /\ \A k \in DOMAIN a : a[k].v = v
<1>1. PICK f, g, N, C, E : /\ f = LastPuts(C, ChangeKey(txn), ChangeRow(txn, v))
                           /\ g = LastPuts(E, EventKey(txn), EventRow(txn, v))
                           /\ N = Len(txn) /\ C = ChangeItems(txn) /\ E = EventItems(txn)
  OBVIOUS
<1>2. N \in Nat /\ C \in SUBSET (1 .. N) /\ E \in SUBSET (1 .. N)
  BY <1>1, AnsItems
<1>3. IsOver(a, f, g)
  BY <1>1, OverFact DEF AnsRows
<1>4. /\ \A i \in C : ChangeKey(txn)[i] = KeyOfChange(txn[i])
                      /\ ChangeRow(txn, v)[i] = RowOfChange(txn, txn[i], v)
      /\ \A i \in E : EventKey(txn)[i] = PrimaryKey(txn[i].addr, "v2")
                      /\ EventRow(txn, v)[i] = PrimaryRow(v, txn[i].name)
  BY <1>1 DEF ChangeKey, ChangeRow, EventKey, EventRow
<1>5. /\ \A k : k \in DOMAIN f <=> \E i \in C : KeyOfChange(txn[i]) = k
      /\ \A k \in DOMAIN f : \E i \in C : f[k] = RowOfChange(txn, txn[i], v)
      /\ \A i \in C : (\A j \in C : KeyOfChange(txn[j]) = KeyOfChange(txn[i]) => j <= i)
           => f[KeyOfChange(txn[i])] = RowOfChange(txn, txn[i], v)
  <2>1. PICK key, row : key = ChangeKey(txn) /\ row = ChangeRow(txn, v)
    OBVIOUS
  <2>2. ArePuts(f, C, key, row)
    BY <1>1, <1>2, <2>1, LastPutsFact
  <2> QED BY <1>4, <2>1, <2>2 DEF ArePuts
<1>6. /\ \A k : k \in DOMAIN g <=> \E i \in E : PrimaryKey(txn[i].addr, "v2") = k
      /\ \A k \in DOMAIN g : \E i \in E : g[k] = PrimaryRow(v, txn[i].name)
      /\ \A i \in E : (\A j \in E : PrimaryKey(txn[j].addr, "v2") = PrimaryKey(txn[i].addr, "v2") => j <= i)
           => g[PrimaryKey(txn[i].addr, "v2")] = PrimaryRow(v, txn[i].name)
  <2>1. PICK key, row : key = EventKey(txn) /\ row = EventRow(txn, v)
    OBVIOUS
  <2>2. ArePuts(g, E, key, row)
    BY <1>1, <1>2, <2>1, LastPutsFact
  <2> QED BY <1>4, <2>1, <2>2 DEF ArePuts
<1>7. \A c, name : RowOfChange(txn, c, v).v = v /\ PrimaryRow(v, name).v = v
  BY DEF RowOfChange, PrimaryRow, LookupRow
<1>8. ASSUME NEW k \in DOMAIN a PROVE a[k].v = v
  <2>1. CASE k \in DOMAIN f
    BY <1>3, <1>5, <1>7, <2>1 DEF IsOver
  <2>2. CASE k \notin DOMAIN f
    BY <1>3, <1>6, <1>7, <1>8, <2>2 DEF IsOver
  <2> QED BY <2>1, <2>2
<1>9. \A k : k \in DOMAIN a <=> k \in DOMAIN f \/ k \in DOMAIN g
  BY <1>3 DEF IsOver
<1>10. ASSUME NEW i \in C, \A j \in C : KeyOfChange(txn[j]) = KeyOfChange(txn[i]) => j <= i
       PROVE  a[KeyOfChange(txn[i])] = RowOfChange(txn, txn[i], v)
  BY <1>3, <1>5, <1>10 DEF IsOver
<1>11. ASSUME NEW i \in E,
              \A j \in E : PrimaryKey(txn[j].addr, "v2") = PrimaryKey(txn[i].addr, "v2") => j <= i,
              \A j \in C : KeyOfChange(txn[j]) # PrimaryKey(txn[i].addr, "v2")
       PROVE  a[PrimaryKey(txn[i].addr, "v2")] = PrimaryRow(v, txn[i].name)
  <2>1. PICK k : k = PrimaryKey(txn[i].addr, "v2")
    OBVIOUS
  <2>2. k \in DOMAIN g /\ k \notin DOMAIN f
    BY <1>5, <1>6, <1>11, <2>1
  <2>3. a[k] = g[k]
    BY <1>3, <2>2 DEF IsOver
  <2> QED BY <1>6, <1>11, <2>1, <2>3
<1> QED BY <1>1, <1>5, <1>6, <1>8, <1>9, <1>10, <1>11

LEMMA AnsLatestWins ==
    ASSUME AnsWired, AnsChains
    PROVE  LatestWins("ans", AnsKeys)
<1>1. \A tables : IsBatch(FirstBatch("ans", tables)) /\ DOMAIN FirstBatch("ans", tables).rows = {}
  BY AnsNewBatchFact DEF AnsWired
<1>2. \A b : IsBatch(NextBatch("ans", b)) /\ DOMAIN NextBatch("ans", b).rows = {}
  BY AnsNewBatchFact DEF AnsWired
<1>3. ASSUME NEW c \in Histories("ans"), NEW v \in 1 .. Len(c)
      PROVE  /\ \A b, tables : IsBatch(b) =>
                   /\ IsBatch(Parse("ans", b, c[v], v, tables))
                   /\ Adds(Parse("ans", b, c[v], v, tables).rows, RowsOf("ans", c[v], v), b.rows, AnsKeys)
             /\ \A k \in AnsKeys :
                   k \in DOMAIN RowsOf("ans", c[v], v) => RowsOf("ans", c[v], v)[k].v = v
  <2>1. PICK txn, a, r : txn = c[v] /\ a = AnsRows(txn, v) /\ r = RowsOf("ans", txn, v)
    OBVIOUS
  <2>2. AnsTransaction(txn)
    BY <1>3, <2>1 DEF AnsChains
  <2>3. DOMAIN r = DOMAIN a /\ \A k \in DOMAIN a : r[k] = a[k]
    BY <2>1, <2>2, AnsRowsOf
  <2>4. \A k \in DOMAIN a : a[k].v = v
    BY <2>1, <2>2, AnsRowsFact
  <2>5. ASSUME NEW b, NEW tables, IsBatch(b)
        PROVE  /\ IsBatch(Parse("ans", b, txn, v, tables))
               /\ Adds(Parse("ans", b, txn, v, tables).rows, r, b.rows, AnsKeys)
    <3>1. PICK x : x = AnsParse(b, txn, v, tables)
      OBVIOUS
    <3>2. Parse("ans", b, txn, v, tables) = x
      BY <3>1 DEF AnsWired
    <3>3. IsBatch(x) /\ IsOver(x.rows, a, b.rows)
      BY <2>1, <2>2, <2>5, <3>1, AnsParseFact
    <3>4. Adds(x.rows, r, b.rows, AnsKeys)
      BY <2>3, <3>3 DEF IsOver, Adds
    <3> QED BY <3>2, <3>3, <3>4
  <2> QED BY <2>1, <2>3, <2>4, <2>5
<1>4. \A c \in Histories("ans") : Len(c) \in Nat
  BY DEF AnsChains
<1>5. \A k : k \in AnsKeys \/ TableKey(k) \in AnsKeys => TableKey(k) = k
  BY DEF AnsWired
<1>6. \A k \in AnsKeys : \A old, new :
         Upsert("ans", k, old, new) = IF old.v <= new.v THEN new ELSE old
  BY DEF AnsWired, AnsUpsert
<1> QED BY <1>1, <1>2, <1>3, <1>4, <1>5, <1>6 DEF LatestWins, KeepsLater

\* M[v] are the positions of version v that write the row of key k.
Writers(k, M) ==
    \A v \in Versions : M[v] \in SUBSET DOMAIN chain[v]
       /\ (k \in DOMAIN AnsRows(chain[v], v) <=> M[v] # {})

WrittenIn(M) == {v \in Versions : M[v] # {}}

\* The row of key k is the one of version last, or there is none.
LastWritten(k, M, last) ==
    /\ k \in DOMAIN db <=> last # 0
    /\ last # 0 => /\ last \in Versions /\ db[k] = AnsRows(chain[last], last)[k]
                   /\ \E i \in M[last] : \A j \in M[last] : j <= i

LEMMA LastWriter ==
    ASSUME AnsWired, AnsChains, chain \in Histories("ans"), LastRows("ans", AnsKeys),
           NEW k \in AnsKeys, NEW M, Writers(k, M), NEW last, last = LastOf(WrittenIn(M))
    PROVE  LastWritten(k, M, last)
<1>1. PICK S : S = {v \in Versions : M[v] # {}}
  OBVIOUS
<1>10. /\ last = LastOf(S)
       /\ \A v \in Versions : M[v] \in SUBSET DOMAIN chain[v]
             /\ (k \in DOMAIN AnsRows(chain[v], v) <=> M[v] # {})
  BY <1>1 DEF Writers, WrittenIn
<1>2. Len(chain) \in Nat /\ Versions = 1 .. Len(chain) /\ \A v \in Versions : AnsTransaction(chain[v])
  BY DEF AnsChains, Versions
<1>3. ASSUME NEW v \in Versions
      PROVE  /\ k \in DOMAIN RowsOf("ans", chain[v], v) <=> v \in S
             /\ v \in S => RowsOf("ans", chain[v], v)[k] = AnsRows(chain[v], v)[k]
  <2>1. /\ DOMAIN RowsOf("ans", chain[v], v) = DOMAIN AnsRows(chain[v], v)
        /\ \A x \in DOMAIN AnsRows(chain[v], v) :
              RowsOf("ans", chain[v], v)[x] = AnsRows(chain[v], v)[x]
    BY <1>2, AnsRowsOf
  <2> QED BY <1>1, <1>10, <2>1
<1>4. k \in DOMAIN db <=> S # {}
  <2>1. k \in DOMAIN db <=> \E v \in Versions : k \in DOMAIN RowsOf("ans", chain[v], v)
    BY DEF LastRows
  <2> QED BY <1>1, <1>3, <2>1
<1>5. CASE S = {}
  <2>1. last = 0
    BY <1>5, <1>10 DEF LastOf
  <2> QED BY <1>4, <1>5, <2>1 DEF LastWritten
<1>6. CASE S # {}
  <2>1. S \in SUBSET (1 .. Len(chain))
    BY <1>1, <1>2
  <2>2. last \in S /\ \A w \in S : w <= last
    BY <1>2, <1>6, <1>10, <2>1, LastOfFact
  <2>3. last \in Versions /\ last # 0 /\ M[last] # {}
    <3>1. last \in Versions /\ M[last] # {}
      BY <1>1, <2>2
    <3>2. \A w \in 1 .. Len(chain) : w # 0
      OBVIOUS
    <3>3. last # 0
      BY <1>2, <3>1, <3>2, Zenon
    <3> QED BY <3>1, <3>3
  <2>4. db[k] = RowsOf("ans", chain[last], last)[k]
    <3>1. k \in DOMAIN RowsOf("ans", chain[last], last)
      BY <1>3, <2>2, <2>3
    <3>2. \A w \in Versions : k \in DOMAIN RowsOf("ans", chain[w], w) => w <= last
      BY <1>3, <2>2
    <3> QED BY <2>3, <3>1, <3>2 DEF LastRows
  <2>5. \E i \in M[last] : \A j \in M[last] : j <= i
    <3>1. Len(chain[last]) \in Nat /\ DOMAIN chain[last] = 1 .. Len(chain[last])
      BY <1>2, <2>3, AnsItems
    <3>2. M[last] \in SUBSET (1 .. Len(chain[last]))
      BY <1>10, <2>3, <3>1
    <3> QED BY <2>3, <3>1, <3>2, LastOfFact
  <2> QED BY <1>3, <1>4, <1>6, <2>2, <2>3, <2>4, <2>5 DEF LastWritten
<1> QED BY <1>5, <1>6

\* A key of the lookup table is written only by the records of its name, and one of the
\* primary names only by its account's.
LEMMA LookupKeys ==
    ASSUME NEW txn, AnsTransaction(txn), NEW n \in Names
    PROVE  /\ \A i \in ChangeItems(txn) :
                /\ KeyOfChange(txn[i]) = LookupKey(n[1], n[2], "v1") <=>
                      txn[i].type \in {"NameRecordV1", "DeleteNameRecordV1"} /\ txn[i].name = n
                /\ KeyOfChange(txn[i]) = LookupKey(n[1], n[2], "v2") <=>
                      txn[i].type = "NameRecordV2" /\ txn[i].object = n
           /\ \A i, s : PrimaryKey(txn[i].addr, "v2") # LookupKey(n[1], n[2], s)
<1>1. ASSUME NEW i \in ChangeItems(txn)
      PROVE  /\ KeyOfChange(txn[i]) = LookupKey(n[1], n[2], "v1") <=>
                   txn[i].type \in {"NameRecordV1", "DeleteNameRecordV1"} /\ txn[i].name = n
             /\ KeyOfChange(txn[i]) = LookupKey(n[1], n[2], "v2") <=>
                   txn[i].type = "NameRecordV2" /\ txn[i].object = n
  <2>1. PICK c : c = txn[i]
    OBVIOUS
  <2>2. c \in AnsChange /\ c.type \in {"NameRecordV1", "DeleteNameRecordV1", "PrimaryNameV1",
                                        "DeletePrimaryNameV1", "NameRecordV2"}
    BY <2>1, AnsItems DEF ChangeItems
  <2>3. n = <<n[1], n[2]>>
    BY NamesAssumption
  <2>4. CASE c.type \in {"NameRecordV1", "DeleteNameRecordV1"}
    <3>1. c.name \in Names
      BY <2>2, <2>4, AnsChangeFact
    <3>2. c.name = <<c.name[1], c.name[2]>>
      BY <3>1, NamesAssumption
    <3>3. KeyOfChange(c) = LookupKey(c.name[1], c.name[2], "v1")
      BY <2>4 DEF KeyOfChange
    <3>4. LookupKey(c.name[1], c.name[2], "v1") = LookupKey(n[1], n[2], "v1") <=> c.name = n
      BY <2>3, <3>2 DEF LookupKey
    <3> QED BY <2>1, <2>4, <3>3, <3>4 DEF LookupKey
  <2>5. CASE c.type \in {"PrimaryNameV1", "DeletePrimaryNameV1"}
    <3>1. KeyOfChange(c) = PrimaryKey(c.addr, "v1")
      BY <2>5 DEF KeyOfChange
    <3> QED BY <2>1, <2>5, <3>1 DEF LookupKey, PrimaryKey
  <2>6. CASE c.type = "NameRecordV2"
    <3>1. c.object \in Names
      BY <2>2, <2>6, AnsChangeFact
    <3>2. c.object = <<c.object[1], c.object[2]>>
      BY <3>1, NamesAssumption
    <3>3. KeyOfChange(c) = LookupKey(c.object[1], c.object[2], "v2")
      BY <2>6 DEF KeyOfChange
    <3>4. LookupKey(c.object[1], c.object[2], "v2") = LookupKey(n[1], n[2], "v2") <=> c.object = n
      BY <2>3, <3>2 DEF LookupKey
    <3> QED BY <2>1, <2>6, <3>3, <3>4 DEF LookupKey
  <2> QED BY <2>2, <2>4, <2>5, <2>6
<1>2. \A i, s : PrimaryKey(txn[i].addr, "v2") # LookupKey(n[1], n[2], s)
  BY DEF LookupKey, PrimaryKey
<1> QED BY <1>1, <1>2

LEMMA PrimaryKeys ==
    ASSUME NEW txn, AnsTransaction(txn), NEW a
    PROVE  /\ \A i \in ChangeItems(txn) :
                /\ KeyOfChange(txn[i]) = PrimaryKey(a, "v1") <=>
                      txn[i].type \in {"PrimaryNameV1", "DeletePrimaryNameV1"} /\ txn[i].addr = a
                /\ KeyOfChange(txn[i]) # PrimaryKey(a, "v2")
           /\ \A i : /\ PrimaryKey(txn[i].addr, "v2") = PrimaryKey(a, "v2") <=> txn[i].addr = a
                     /\ PrimaryKey(txn[i].addr, "v2") # PrimaryKey(a, "v1")
<1>1. ASSUME NEW i \in ChangeItems(txn)
      PROVE  /\ KeyOfChange(txn[i]) = PrimaryKey(a, "v1") <=>
                   txn[i].type \in {"PrimaryNameV1", "DeletePrimaryNameV1"} /\ txn[i].addr = a
             /\ KeyOfChange(txn[i]) # PrimaryKey(a, "v2")
  <2>1. PICK c : c = txn[i]
    OBVIOUS
  <2>2. c.type \in {"NameRecordV1", "DeleteNameRecordV1", "PrimaryNameV1",
                    "DeletePrimaryNameV1", "NameRecordV2"}
    BY <2>1 DEF ChangeItems
  <2>3. CASE c.type \in {"PrimaryNameV1", "DeletePrimaryNameV1"}
    <3>1. KeyOfChange(c) = PrimaryKey(c.addr, "v1")
      BY <2>3 DEF KeyOfChange
    <3> QED BY <2>1, <2>3, <3>1 DEF PrimaryKey
  <2>4. CASE c.type \in {"NameRecordV1", "DeleteNameRecordV1"}
    <3>1. KeyOfChange(c) = LookupKey(c.name[1], c.name[2], "v1")
      BY <2>4 DEF KeyOfChange
    <3> QED BY <2>1, <2>4, <3>1 DEF LookupKey, PrimaryKey
  <2>5. CASE c.type = "NameRecordV2"
    <3>1. KeyOfChange(c) = LookupKey(c.object[1], c.object[2], "v2")
      BY <2>5 DEF KeyOfChange
    <3> QED BY <2>1, <2>5, <3>1 DEF LookupKey, PrimaryKey
  <2> QED BY <2>2, <2>3, <2>4, <2>5
<1>2. \A i : /\ PrimaryKey(txn[i].addr, "v2") = PrimaryKey(a, "v2") <=> txn[i].addr = a
            /\ PrimaryKey(txn[i].addr, "v2") # PrimaryKey(a, "v1")
  BY DEF PrimaryKey
<1> QED BY <1>1, <1>2

\* The positions with a record of a name of the old contract, of the new one, and with the
\* primary name of an account.
OldRecords(txn, n) ==
    {i \in DOMAIN txn : txn[i].type \in {"NameRecordV1", "DeleteNameRecordV1"} /\ txn[i].name = n}

NewRecords(txn, n) == {i \in DOMAIN txn : txn[i].type = "NameRecordV2" /\ txn[i].object = n}

PrimaryTypes(standard) ==
    IF standard = "v1" THEN {"PrimaryNameV1", "DeletePrimaryNameV1"} ELSE {"SetReverseLookupEvent"}

PrimaryNames(txn, a, standard) ==
    {i \in DOMAIN txn : txn[i].type \in PrimaryTypes(standard) /\ txn[i].addr = a}

\* The last of positions S that write a row leaves it.
LastLeaves(txn, v, S, k) ==
    /\ k \in DOMAIN AnsRows(txn, v) <=> S # {}
    /\ \A i \in S : (\A j \in S : j <= i) =>
          AnsRows(txn, v)[k] = IF txn[i].type = "SetReverseLookupEvent"
                               THEN PrimaryRow(v, txn[i].name) ELSE RowOfChange(txn, txn[i], v)

LEMMA LookupsLeft ==
    ASSUME NEW txn, AnsTransaction(txn), NEW n \in Names, NEW v
    PROVE  /\ LastLeaves(txn, v, OldRecords(txn, n), LookupKey(n[1], n[2], "v1"))
           /\ LastLeaves(txn, v, NewRecords(txn, n), LookupKey(n[1], n[2], "v2"))
<1>1. PICK a, C, E : a = AnsRows(txn, v) /\ C = ChangeItems(txn) /\ E = EventItems(txn)
  OBVIOUS
<1>2. /\ \A k : k \in DOMAIN a <=> \/ \E i \in C : KeyOfChange(txn[i]) = k
                                   \/ \E i \in E : PrimaryKey(txn[i].addr, "v2") = k
      /\ \A i \in C :
           (\A j \in C : KeyOfChange(txn[j]) = KeyOfChange(txn[i]) => j <= i)
             => a[KeyOfChange(txn[i])] = RowOfChange(txn, txn[i], v)
  BY <1>1, AnsRowsFact
<1>3. ASSUME NEW k, NEW S, S = {i \in C : KeyOfChange(txn[i]) = k},
             \A i \in E : PrimaryKey(txn[i].addr, "v2") # k,
             \A i \in S : txn[i].type # "SetReverseLookupEvent"
      PROVE  LastLeaves(txn, v, S, k)
  <2>1. k \in DOMAIN a <=> S # {}
    BY <1>2, <1>3
  <2>2. ASSUME NEW i \in S, \A j \in S : j <= i PROVE a[k] = RowOfChange(txn, txn[i], v)
    BY <1>2, <1>3, <2>2
  <2> QED BY <1>1, <1>3, <2>1, <2>2 DEF LastLeaves
<1>4. OldRecords(txn, n) = {i \in C : KeyOfChange(txn[i]) = LookupKey(n[1], n[2], "v1")}
  <2>1. \A i \in OldRecords(txn, n) : i \in C
    BY <1>1 DEF OldRecords, ChangeItems
  <2>2. \A i \in C : i \in DOMAIN txn /\ (i \in OldRecords(txn, n) <=>
                         txn[i].type \in {"NameRecordV1", "DeleteNameRecordV1"} /\ txn[i].name = n)
    BY <1>1 DEF OldRecords, ChangeItems
  <2> QED BY <1>1, <2>1, <2>2, LookupKeys
<1>5. NewRecords(txn, n) = {i \in C : KeyOfChange(txn[i]) = LookupKey(n[1], n[2], "v2")}
  <2>1. \A i \in NewRecords(txn, n) : i \in C
    BY <1>1 DEF NewRecords, ChangeItems
  <2>2. \A i \in C : i \in DOMAIN txn /\ (i \in NewRecords(txn, n) <=>
                         txn[i].type = "NameRecordV2" /\ txn[i].object = n)
    BY <1>1 DEF NewRecords, ChangeItems
  <2> QED BY <1>1, <2>1, <2>2, LookupKeys
<1>6. /\ \A i \in OldRecords(txn, n) : txn[i].type # "SetReverseLookupEvent"
      /\ \A i \in NewRecords(txn, n) : txn[i].type # "SetReverseLookupEvent"
  BY DEF OldRecords, NewRecords
<1>7. \A i \in E : \A s : PrimaryKey(txn[i].addr, "v2") # LookupKey(n[1], n[2], s)
  BY LookupKeys
<1> QED BY <1>3, <1>4, <1>5, <1>6, <1>7

LEMMA PrimariesLeft ==
    ASSUME NEW txn, AnsTransaction(txn), NEW a, NEW standard \in {"v1", "v2"}, NEW v
    PROVE  LastLeaves(txn, v, PrimaryNames(txn, a, standard), PrimaryKey(a, standard))
<1>1. PICK r, C, E, S : /\ r = AnsRows(txn, v) /\ C = ChangeItems(txn) /\ E = EventItems(txn)
                        /\ S = PrimaryNames(txn, a, standard)
  OBVIOUS
<1>2. /\ \A k : k \in DOMAIN r <=> \/ \E i \in C : KeyOfChange(txn[i]) = k
                                   \/ \E i \in E : PrimaryKey(txn[i].addr, "v2") = k
      /\ \A i \in C :
           (\A j \in C : KeyOfChange(txn[j]) = KeyOfChange(txn[i]) => j <= i)
             => r[KeyOfChange(txn[i])] = RowOfChange(txn, txn[i], v)
      /\ \A i \in E :
           /\ \A j \in E : PrimaryKey(txn[j].addr, "v2") = PrimaryKey(txn[i].addr, "v2") => j <= i
           /\ \A j \in C : KeyOfChange(txn[j]) # PrimaryKey(txn[i].addr, "v2")
           => r[PrimaryKey(txn[i].addr, "v2")] = PrimaryRow(v, txn[i].name)
  BY <1>1, AnsRowsFact
<1>3. /\ \A i \in C :
           /\ KeyOfChange(txn[i]) = PrimaryKey(a, "v1") <=>
                 txn[i].type \in {"PrimaryNameV1", "DeletePrimaryNameV1"} /\ txn[i].addr = a
           /\ KeyOfChange(txn[i]) # PrimaryKey(a, "v2")
      /\ \A i : /\ PrimaryKey(txn[i].addr, "v2") = PrimaryKey(a, "v2") <=> txn[i].addr = a
                /\ PrimaryKey(txn[i].addr, "v2") # PrimaryKey(a, "v1")
  BY <1>1, PrimaryKeys
<1>4. CASE standard = "v1"
  <2>1. PICK k : k = PrimaryKey(a, "v1")
    OBVIOUS
  <2>2. S = {i \in C : KeyOfChange(txn[i]) = k}
    <3>1. \A i \in S : i \in C /\ txn[i].addr = a
                       /\ txn[i].type \in {"PrimaryNameV1", "DeletePrimaryNameV1"}
      BY <1>1, <1>4 DEF PrimaryNames, PrimaryTypes, ChangeItems
    <3>2. \A i \in C : txn[i].type \in {"PrimaryNameV1", "DeletePrimaryNameV1"}
                       /\ txn[i].addr = a => i \in S
      BY <1>1, <1>4 DEF PrimaryNames, PrimaryTypes, ChangeItems
    <3> QED BY <1>3, <2>1, <3>1, <3>2
  <2>3. k \in DOMAIN r <=> S # {}
    BY <1>2, <1>3, <2>1, <2>2
  <2>4. \A i \in S : txn[i].type # "SetReverseLookupEvent"
    BY <1>1, <1>4 DEF PrimaryNames, PrimaryTypes
  <2>5. ASSUME NEW i \in S, \A j \in S : j <= i PROVE r[k] = RowOfChange(txn, txn[i], v)
    BY <1>2, <2>2, <2>5
  <2> QED BY <1>1, <1>4, <2>1, <2>3, <2>4, <2>5 DEF LastLeaves
<1>5. CASE standard = "v2"
  <2>1. PICK k : k = PrimaryKey(a, "v2")
    OBVIOUS
  <2>2. \A i : i \in S <=> i \in E /\ txn[i].addr = a
    BY <1>1, <1>5 DEF PrimaryNames, PrimaryTypes, EventItems, Items
  <2>3. k \in DOMAIN r <=> S # {}
    BY <1>2, <1>3, <2>1, <2>2
  <2>4. \A i \in S : txn[i].type = "SetReverseLookupEvent"
    BY <1>1, <1>5 DEF PrimaryNames, PrimaryTypes
  <2>5. ASSUME NEW i \in S, \A j \in S : j <= i PROVE r[k] = PrimaryRow(v, txn[i].name)
    <3>1. PrimaryKey(txn[i].addr, "v2") = k
      BY <1>3, <2>1, <2>2
    <3>2. \A j \in E : PrimaryKey(txn[j].addr, "v2") = k => j <= i
      BY <1>3, <2>1, <2>2, <2>5
    <3>3. \A j \in C : KeyOfChange(txn[j]) # k
      BY <1>3, <2>1
    <3> QED BY <1>2, <2>2, <3>1, <3>2, <3>3
  <2> QED BY <1>1, <1>5, <2>1, <2>3, <2>4, <2>5 DEF LastLeaves
<1> QED BY <1>4, <1>5

LEMMA NamesQuiet ==
    ASSUME AnsWired, AnsChains, chain \in Histories("ans"), LastRows("ans", AnsKeys)
    PROVE  NamesFollowChain
<1>1. \A v \in Versions : AnsTransaction(chain[v])
  BY DEF AnsChains, Versions
<1>2. ASSUME NEW n \in Names
      PROVE  LET Old(c) == c.type \in {"NameRecordV1", "DeleteNameRecordV1"} /\ c.name = n
                 New(c) == c.type = "NameRecordV2" /\ c.object = n
                 v1 == LastOf(VersionsWith(Old))
                 v2 == LastOf(VersionsWith(New))
                 k1 == LookupKey(n[1], n[2], "v1")
                 k2 == LookupKey(n[1], n[2], "v2")
             IN /\ (k1 \in DOMAIN db) = (v1 # 0)
                /\ v1 # 0 => LET c == LastIn(chain[v1], Old)
                             IN IF c.type = "NameRecordV1"
                                THEN ~db[k1].is_deleted /\ db[k1].target = c.target
                                ELSE db[k1].is_deleted /\ db[k1].target = None
                /\ (k2 \in DOMAIN db) = (v2 # 0)
                /\ v2 # 0 => /\ ~db[k2].is_deleted /\ db[k2].target = LastIn(chain[v2], New).target
                             /\ (db[k2].policy = None) = (n[2] = "")
  <2> DEFINE Old(c) == c.type \in {"NameRecordV1", "DeleteNameRecordV1"} /\ c.name = n
             New(c) == c.type = "NameRecordV2" /\ c.object = n
             v1 == LastOf(VersionsWith(Old))
             v2 == LastOf(VersionsWith(New))
             k1 == LookupKey(n[1], n[2], "v1")
             k2 == LookupKey(n[1], n[2], "v2")
             M1 == [v \in Versions |-> OldRecords(chain[v], n)]
             M2 == [v \in Versions |-> NewRecords(chain[v], n)]
  <2>1. k1 \in AnsKeys /\ k2 \in AnsKeys
    BY DEF AnsKeys
  <2>2. \A v \in Versions : LastLeaves(chain[v], v, M1[v], k1) /\ LastLeaves(chain[v], v, M2[v], k2)
    BY <1>1, LookupsLeft
  <2>3. \A v \in Versions : M1[v] \in SUBSET DOMAIN chain[v] /\ M2[v] \in SUBSET DOMAIN chain[v]
    BY DEF OldRecords, NewRecords
  <2>4. VersionsWith(Old) = WrittenIn(M1)
    BY DEF VersionsWith, OldRecords, WrittenIn
  <2>5. VersionsWith(New) = WrittenIn(M2)
    BY DEF VersionsWith, NewRecords, WrittenIn
  <2>6. v1 = LastOf(WrittenIn(M1)) /\ v2 = LastOf(WrittenIn(M2))
    BY <2>4, <2>5
  <2>7. /\ k1 \in DOMAIN db <=> v1 # 0
        /\ v1 # 0 => /\ v1 \in Versions /\ db[k1] = AnsRows(chain[v1], v1)[k1]
                     /\ \E i \in M1[v1] : \A j \in M1[v1] : j <= i
    <3> HIDE DEF M1, M2, v1, v2, k1, k2
    <3>1. Writers(k1, M1)
      BY <2>2, <2>3 DEF LastLeaves, Writers
    <3>2. LastWritten(k1, M1, v1)
      BY <2>1, <2>6, <3>1, LastWriter
    <3> QED BY <3>2 DEF LastWritten
  <2>8. /\ k2 \in DOMAIN db <=> v2 # 0
        /\ v2 # 0 => /\ v2 \in Versions /\ db[k2] = AnsRows(chain[v2], v2)[k2]
                     /\ \E i \in M2[v2] : \A j \in M2[v2] : j <= i
    <3> HIDE DEF M1, M2, v1, v2, k1, k2
    <3>1. Writers(k2, M2)
      BY <2>2, <2>3 DEF LastLeaves, Writers
    <3>2. LastWritten(k2, M2, v2)
      BY <2>1, <2>6, <3>1, LastWriter
    <3> QED BY <3>2 DEF LastWritten
  <2> HIDE DEF v1, v2, k1, k2
  <2>9. ASSUME v1 # 0
        PROVE  LET c == LastIn(chain[v1], Old)
               IN IF c.type = "NameRecordV1"
                  THEN ~db[k1].is_deleted /\ db[k1].target = c.target
                  ELSE db[k1].is_deleted /\ db[k1].target = None
    <3>1. PICK i \in M1[v1] : \A j \in M1[v1] : j <= i
      BY <2>7, <2>9
    <3>2. PICK txn : txn = chain[v1]
      OBVIOUS
    <3>3. v1 \in Versions /\ AnsTransaction(txn) /\ M1[v1] = OldRecords(txn, n)
      BY <1>1, <2>7, <2>9, <3>2
    <3>4. /\ i \in DOMAIN txn /\ Old(txn[i])
          /\ \A j \in DOMAIN txn : Old(txn[j]) => j <= i
          /\ \A j \in DOMAIN txn : j \in Nat
      BY <3>1, <3>3, AnsItems DEF OldRecords
    <3>5. LastIn(txn, Old) = txn[i]
      <4>1. PICK z : z = CHOOSE x \in DOMAIN txn : Old(txn[x]) /\ \A j \in DOMAIN txn : Old(txn[j]) => j <= x
        OBVIOUS
      <4>2. z \in DOMAIN txn /\ Old(txn[z]) /\ \A j \in DOMAIN txn : Old(txn[j]) => j <= z
        BY <3>4, <4>1
      <4>3. z = i
        BY <3>4, <4>2
      <4> QED BY <4>1, <4>3 DEF LastIn
    <3>6. db[k1] = RowOfChange(txn, txn[i], v1)
      <4>1. LastLeaves(txn, v1, M1[v1], k1)
        BY <2>2, <3>2, <3>3
      <4>2. txn[i].type # "SetReverseLookupEvent"
        BY <3>4
      <4>3. AnsRows(txn, v1)[k1] = RowOfChange(txn, txn[i], v1)
        BY <3>1, <4>1, <4>2 DEF LastLeaves
      <4> QED BY <2>7, <2>9, <3>2, <4>3
    <3>7. CASE txn[i].type = "NameRecordV1"
      <4>1. db[k1] = LookupRow(v1, txn[i].target, FALSE, None)
        BY <3>6, <3>7 DEF RowOfChange
      <4>2. ~db[k1].is_deleted /\ db[k1].target = txn[i].target
        BY <4>1 DEF LookupRow
      <4> QED BY <3>2, <3>5, <3>7, <4>2
    <3>8. CASE txn[i].type # "NameRecordV1"
      <4>1. txn[i].type = "DeleteNameRecordV1"
        BY <3>4, <3>8
      <4>2. db[k1] = LookupRow(v1, None, TRUE, None)
        BY <3>6, <4>1 DEF RowOfChange
      <4>3. db[k1].is_deleted /\ db[k1].target = None
        BY <4>2 DEF LookupRow
      <4> QED BY <3>2, <3>5, <3>8, <4>3
    <3> QED BY <3>7, <3>8
  <2>10. ASSUME v2 # 0
         PROVE  /\ ~db[k2].is_deleted /\ db[k2].target = LastIn(chain[v2], New).target
                /\ (db[k2].policy = None) = (n[2] = "")
    <3>1. PICK i \in M2[v2] : \A j \in M2[v2] : j <= i
      BY <2>8, <2>10
    <3>2. PICK txn : txn = chain[v2]
      OBVIOUS
    <3>3. v2 \in Versions /\ AnsTransaction(txn) /\ M2[v2] = NewRecords(txn, n)
      BY <1>1, <2>8, <2>10, <3>2
    <3>4. /\ i \in DOMAIN txn /\ New(txn[i])
          /\ \A j \in DOMAIN txn : New(txn[j]) => j <= i
          /\ \A j \in DOMAIN txn : j \in Nat
      BY <3>1, <3>3, AnsItems DEF NewRecords
    <3>5. LastIn(txn, New) = txn[i]
      <4>1. PICK z : z = CHOOSE x \in DOMAIN txn : New(txn[x]) /\ \A j \in DOMAIN txn : New(txn[j]) => j <= x
        OBVIOUS
      <4>2. z \in DOMAIN txn /\ New(txn[z]) /\ \A j \in DOMAIN txn : New(txn[j]) => j <= z
        BY <3>4, <4>1
      <4>3. z = i
        BY <3>4, <4>2
      <4> QED BY <4>1, <4>3 DEF LastIn
    <3>6. db[k2] = RowOfChange(txn, txn[i], v2)
      <4>1. LastLeaves(txn, v2, M2[v2], k2)
        BY <2>2, <3>2, <3>3
      <4>2. txn[i].type # "SetReverseLookupEvent"
        BY <3>4
      <4>3. AnsRows(txn, v2)[k2] = RowOfChange(txn, txn[i], v2)
        BY <3>1, <4>1, <4>2 DEF LastLeaves
      <4> QED BY <2>8, <2>10, <3>2, <4>3
    <3>7. db[k2] = LookupRow(v2, txn[i].target, FALSE, ExtOf(txn, n).policy)
      BY <3>4, <3>6 DEF RowOfChange
    <3>8. ~db[k2].is_deleted /\ db[k2].target = txn[i].target /\ db[k2].policy = ExtOf(txn, n).policy
      BY <3>7 DEF LookupRow
    <3>9. ExtOf(txn, n).policy = None <=> n[2] = ""
      BY <3>3, <3>4, ExtFact
    <3> QED BY <3>2, <3>5, <3>8, <3>9
  <2>11. (k1 \in DOMAIN db) = (v1 # 0) /\ (k2 \in DOMAIN db) = (v2 # 0)
    BY <2>7, <2>8
  <2> HIDE DEF Old, New, M1, M2
  <2> QED BY <2>9, <2>10, <2>11 DEF v1, v2, k1, k2, Old, New
<1> QED BY <1>2 DEF NamesFollowChain

LEMMA PrimariesQuiet ==
    ASSUME AnsWired, AnsChains, chain \in Histories("ans"), LastRows("ans", AnsKeys)
    PROVE  PrimaryNamesFollowChain
<1>1. \A v \in Versions : AnsTransaction(chain[v])
  BY DEF AnsChains, Versions
<1>2. ASSUME NEW a \in Registrants, NEW standard \in {"v1", "v2"}
      PROVE  LET Set(c) == /\ c.type \in (IF standard = "v1" THEN {"PrimaryNameV1", "DeletePrimaryNameV1"}
                                          ELSE {"SetReverseLookupEvent"})
                           /\ c.addr = a
                 v == LastOf(VersionsWith(Set))
             IN v # 0 =>
                  LET c == LastIn(chain[v], Set)
                      name == IF "name" \in DOMAIN c THEN c.name ELSE NoName
                      k == PrimaryKey(a, standard)
                  IN /\ k \in DOMAIN db
                     /\ db[k].name = name
                     /\ db[k].is_deleted = (name = NoName)
  <2> DEFINE Set(c) == /\ c.type \in (IF standard = "v1" THEN {"PrimaryNameV1", "DeletePrimaryNameV1"}
                                      ELSE {"SetReverseLookupEvent"})
                       /\ c.addr = a
             last == LastOf(VersionsWith(Set))
             k == PrimaryKey(a, standard)
             M == [v \in Versions |-> PrimaryNames(chain[v], a, standard)]
  <2>1. k \in AnsKeys
    BY DEF AnsKeys
  <2>2. \A v \in Versions : LastLeaves(chain[v], v, M[v], k)
    BY <1>1, PrimariesLeft
  <2>3. \A v \in Versions : M[v] \in SUBSET DOMAIN chain[v]
    BY DEF PrimaryNames
  <2>4. VersionsWith(Set) = WrittenIn(M)
    BY DEF VersionsWith, PrimaryNames, PrimaryTypes, WrittenIn
  <2>5. last = LastOf(WrittenIn(M))
    BY <2>4
  <2>6. /\ k \in DOMAIN db <=> last # 0
        /\ last # 0 => /\ last \in Versions /\ db[k] = AnsRows(chain[last], last)[k]
                       /\ \E i \in M[last] : \A j \in M[last] : j <= i
    <3> HIDE DEF M, last, k
    <3>1. Writers(k, M)
      BY <2>2, <2>3 DEF LastLeaves, Writers
    <3>2. LastWritten(k, M, last)
      BY <2>1, <2>5, <3>1, LastWriter
    <3> QED BY <3>2 DEF LastWritten
  <2> HIDE DEF last, k
  <2>7. ASSUME last # 0
        PROVE  LET c == LastIn(chain[last], Set)
                   name == IF "name" \in DOMAIN c THEN c.name ELSE NoName
               IN /\ k \in DOMAIN db
                  /\ db[k].name = name
                  /\ db[k].is_deleted = (name = NoName)
    <3>1. PICK i \in M[last] : \A j \in M[last] : j <= i
      BY <2>6, <2>7
    <3>2. PICK txn : txn = chain[last]
      OBVIOUS
    <3>3. last \in Versions /\ AnsTransaction(txn) /\ M[last] = PrimaryNames(txn, a, standard)
      BY <1>1, <2>6, <2>7, <3>2
    <3>4. /\ i \in DOMAIN txn /\ Set(txn[i])
          /\ \A j \in DOMAIN txn : Set(txn[j]) => j <= i
          /\ \A j \in DOMAIN txn : j \in Nat
      BY <3>1, <3>3, AnsItems DEF PrimaryNames, PrimaryTypes
    <3>5. LastIn(txn, Set) = txn[i]
      <4>1. PICK z : z = CHOOSE x \in DOMAIN txn : Set(txn[x]) /\ \A j \in DOMAIN txn : Set(txn[j]) => j <= x
        OBVIOUS
      <4>2. z \in DOMAIN txn /\ Set(txn[z]) /\ \A j \in DOMAIN txn : Set(txn[j]) => j <= z
        BY <3>4, <4>1
      <4>3. z = i
        BY <3>4, <4>2
      <4> QED BY <4>1, <4>3 DEF LastIn
    <3>6. db[k] = IF txn[i].type = "SetReverseLookupEvent"
                  THEN PrimaryRow(last, txn[i].name) ELSE RowOfChange(txn, txn[i], last)
      <4>1. LastLeaves(txn, last, M[last], k)
        BY <2>2, <3>2, <3>3
      <4>2. AnsRows(txn, last)[k] = IF txn[i].type = "SetReverseLookupEvent"
                  THEN PrimaryRow(last, txn[i].name) ELSE RowOfChange(txn, txn[i], last)
        BY <3>1, <4>1 DEF LastLeaves
      <4> QED BY <2>6, <2>7, <3>2, <4>2
    <3>7. PICK c : c = txn[i]
      OBVIOUS
    <3>8. /\ c \in AnsChange
          /\ c.type \in {"PrimaryNameV1", "DeletePrimaryNameV1", "SetReverseLookupEvent"}
      BY <3>3, <3>4, <3>7, AnsItems
    <3>9. /\ c.type \in {"PrimaryNameV1", "SetReverseLookupEvent"} => "name" \in DOMAIN c
          /\ c.type = "DeletePrimaryNameV1" => "name" \notin DOMAIN c
      BY <3>8, AnsChangeFact
    <3>10. PICK name : name = IF "name" \in DOMAIN c THEN c.name ELSE NoName
      OBVIOUS
    <3>11. db[k] = PrimaryRow(last, name)
      <4>1. CASE c.type = "SetReverseLookupEvent"
        BY <3>6, <3>7, <3>9, <3>10, <4>1
      <4>2. CASE c.type = "PrimaryNameV1"
        BY <3>6, <3>7, <3>9, <3>10, <4>2 DEF RowOfChange
      <4>3. CASE c.type = "DeletePrimaryNameV1"
        BY <3>6, <3>7, <3>9, <3>10, <4>3 DEF RowOfChange
      <4> QED BY <3>8, <4>1, <4>2, <4>3
    <3>12. db[k].name = name /\ db[k].is_deleted = (name = NoName)
      BY <3>11 DEF PrimaryRow
    <3>13. k \in DOMAIN db
      BY <2>6, <2>7
    <3> QED BY <3>2, <3>5, <3>7, <3>10, <3>12, <3>13
  <2> HIDE DEF Set, M
  <2> QED BY <2>7 DEF last, k, Set
<1> QED BY <1>2 DEF PrimaryNamesFollowChain

\* AnsProcessor: once every transaction of the chain is stored, the lookup table has for
\* each name of either contract the target of its last record and the primary name table
\* for each account the last name it chose (store_ans, ans_processor parse_ans), whatever
\* batches the stream delivered, in whatever order the storer's statements of each
\* committed, and however often the processor was restarted and wrote versions twice.
THEOREM NamesAreCorrect ==
    ASSUME AnsWired, AnsChains
    PROVE  Spec => []NameTablesCorrect
<1> DEFINE Inv == processor = "ans" => RowsInv("ans", AnsKeys)
<1>1. LatestWins("ans", AnsKeys)
  BY AnsLatestWins
<1>2. Init => Inv
  BY <1>1, RowsInit
<1>3. Inv /\ [Next]_vars => Inv'
  <2> SUFFICES ASSUME Inv, [Next]_vars PROVE Inv'
    OBVIOUS
  <2>1. processor' = processor
    BY DEF Next, ExtractTransaction, SendBatch, CommitStatement, FinishBatch, Crash, Terminated, vars
  <2>2. CASE processor = "ans"
    BY <1>1, <2>2, RowsNext
  <2> QED BY <2>1, <2>2
<1>4. Inv => NameTablesCorrect
  <2>1. ASSUME Inv, processor = "ans", Quiet PROVE NameTablesCorrect
    <3>1. RowsInv("ans", AnsKeys) /\ chain \in Histories("ans")
      BY <2>1 DEF RowsInv
    <3>2. LastRows("ans", AnsKeys)
      BY <1>1, <2>1, <3>1, RowsQuiet
    <3> QED BY <3>1, <3>2, NamesQuiet, PrimariesQuiet DEF NameTablesCorrect
  <2>2. ~(processor = "ans" /\ Quiet) => NameTablesCorrect
    <3> HIDE DEF Inv
    <3>1. ~(processor = "ans" /\ Quiet) => NamesFollowChain
      BY Zenon DEF NamesFollowChain
    <3>2. ~(processor = "ans" /\ Quiet) => PrimaryNamesFollowChain
      BY Zenon DEF PrimaryNamesFollowChain
    <3> QED BY <3>1, <3>2 DEF NameTablesCorrect
  <2> HIDE DEF Inv
  <2> QED BY <2>1, <2>2
<1> HIDE DEF Inv
<1> QED BY <1>2, <1>3, <1>4, PTL DEF Spec
-----------------------------------------------------------------------------
(***************************************************************************)
(* A row of public_key_auth_keys says whether its key was ever used: the   *)
(* upsert keeps the flag of an earlier version, and so depends on what is  *)
(* stored.  Rows of two versions are two rows of a batch, which Postgres   *)
(* refuses to store by one statement.                                      *)
(***************************************************************************)
IsMark(k) == k[1] = "public_key_auth_keys"

\* The row of a batch that version v writes for the row t of the table.
MarkAt(t, v) == <<t[1], t[2], t[3], v>>

Marked(W, t, v) == MarkAt(t, v) \in DOMAIN W[v] /\ W[v][MarkAt(t, v)].is_public_key_used

\* A row of the table tells whether the key was used by a version up to its own.
TableMarks(d, W) ==
    \A t \in DOMAIN d : IsMark(t) =>
        /\ d[t].v \in DOMAIN W /\ d[t].is_public_key_used \in BOOLEAN
        /\ d[t].is_public_key_used <=> \E v \in 1 .. d[t].v : Marked(W, t, v)

\* The rows of a batch that ends at version n are those of its versions.
BatchMarks(rows, W, n) ==
    \A k \in DOMAIN rows : IsMark(k) =>
        k[4] \in DOMAIN W /\ k[4] <= n /\ k \in DOMAIN W[k[4]] /\ rows[k] = W[k[4]][k]

HasMark(d, k) == TableKey(k) \in DOMAIN d /\ k[4] <= d[TableKey(k)].v

MarksOnTheirWay(d, q, n, W, S) ==
    \A v \in S : \A k \in DOMAIN W[v] : IsMark(k) =>
        HasMark(d, k) \/ \E j \in 1 .. n : k \in DOMAIN q[j].rows

MarksInv(W) ==
    /\ TableMarks(db, W) /\ BatchMarks(batch.rows, W, next_version - 1)
    /\ \A i \in 1 .. Len(queue) : BatchMarks(queue[i].rows, W, queue[i].end_version)
    /\ MarksOnTheirWay(db, queue, 0, W, 1 .. checkpoint)
    /\ \A i \in 1 .. Len(queue) : MarksOnTheirWay(db, queue, i, W, 1 .. queue[i].end_version)
    /\ MarksOnTheirWay(db, queue, Len(queue), W, 1 .. Start - 1)
    /\ batch_end # 0 => \A v \in batch_start .. next_version - 1 :
          \A k \in DOMAIN W[v] : IsMark(k) => k \in DOMAIN batch.rows
    /\ queue # <<>> => \A k \in DOMAIN Head(queue).rows :
          IsMark(k) /\ CommitGroup(k[1]) \in committed => HasMark(db, k)

KeysWired ==
    LET p == "account_restoration"
    IN /\ \A tables : FirstBatch(p, tables) = AccountRestorationNewBatch
       /\ \A b : NextBatch(p, b) = AccountRestorationNewBatch
       /\ \A b, txn, v, tables :
             Parse(p, b, txn, v, tables) = AccountRestorationParse(b, txn, v, tables)
       /\ \A k, old, new : Upsert(p, k, old, new) = AccountRestorationUpsert(k, old, new)
       /\ \A k : \/ k[1] \in AccountRestorationTables
                 \/ TableKey(k)[1] \in AccountRestorationTables
                 => TableKey(k) = AccountRestorationTableKey(k)

\* Its chains are made of transactions with one request and one write per account.
KeysChains ==
    \A c \in Histories("account_restoration") :
        Len(c) \in Nat /\ \A v \in 1 .. Len(c) : KeyRestorationTransaction(c[v])

LEMMA KeyChangeFact ==
    ASSUME NEW c \in KeyRestorationChange
    PROVE  /\ c.type = "Request" => c.signature.keys \in KeyList
           /\ c.type = "KeyRotationToPublicKey" => c.keys \in KeyList
BY DEF KeyRestorationChange, Signature

LEMMA KeyItems ==
    ASSUME NEW txn, KeyRestorationTransaction(txn)
    PROVE  /\ Len(txn) \in Nat /\ DOMAIN txn = 1 .. Len(txn)
           /\ \A i \in DOMAIN txn : txn[i] \in KeyRestorationChange
           /\ KeyChanges(txn) \in SUBSET (1 .. Len(txn))
           /\ Request(txn) \in KeyRestorationChange /\ Request(txn).type = "Request"
<1>1. txn \in Seq(KeyRestorationChange)
  BY DEF KeyRestorationTransaction
<1>2. PICK i \in DOMAIN txn : Items(txn, "Request") = {i}
  BY DEF KeyRestorationTransaction
<1>3. Request(txn) = txn[i]
  BY <1>2 DEF Request
<1>4. txn[i].type = "Request"
  BY <1>2 DEF Items
<1> QED BY <1>1, <1>3, <1>4 DEF KeyChanges, Items

\* The keys a transaction lists, with a signature or in a rotation.
LEMMA KeysOfFact ==
    ASSUME NEW txn, KeyRestorationTransaction(txn)
    PROVE  /\ KeysOf(txn) \in Seq([key : PublicKeys \cup {Threshold}, used : BOOLEAN])
           /\ KeysOf(txn) # NoKeys => \/ Items(txn, "KeyRotationToPublicKey") # {}
                                      \/ KeysOfSignature(Request(txn)) # NoKeys
<1> DEFINE L == [key : PublicKeys \cup {Threshold}, used : BOOLEAN]
           events == Items(txn, "KeyRotationToPublicKey")
<1>1. \A s \in KeyList : s \in Seq(L)
  <2>1. PICK R : R = [key : PublicKeys, used : BOOLEAN]
    OBVIOUS
  <2>2. R \subseteq L
    BY <2>1
  <2>3. KeyList = Seq(R)
    BY <2>1 DEF KeyList
  <2> HIDE DEF L
  <2> QED BY <2>2, <2>3
<1>2. NoKeys \in Seq(L)
  BY DEF NoKeys
<1>3. KeysOfSignature(Request(txn)) \in Seq(L)
  <2>1. Request(txn).signature.keys \in KeyList
    BY KeyItems, KeyChangeFact
  <2> HIDE DEF L
  <2> QED BY <1>1, <1>2, <2>1 DEF KeysOfSignature
<1>4. CASE events = {}
  BY <1>3, <1>4 DEF KeysOf
<1>5. CASE events # {}
  <2>1. events \in SUBSET Nat
    BY KeyItems DEF Items
  <2>2. \E i \in events : \A j \in events : i <= j
    <3> HIDE DEF events
    <3> QED BY <1>5, <2>1, LeastNumber
  <2>3. PICK z : z = CHOOSE i \in events : \A j \in events : i <= j
    OBVIOUS
  <2>4. z \in events
    <3> HIDE DEF events
    <3> QED BY <2>2, <2>3
  <2>5. txn[z].keys \in Seq(L)
    <3>1. z \in DOMAIN txn /\ txn[z].type = "KeyRotationToPublicKey"
      BY <2>4 DEF Items
    <3>2. txn[z].keys \in KeyList
      BY <3>1, KeyItems, KeyChangeFact
    <3> QED BY <1>1, <3>2
  <2>6. [key |-> Threshold, used |-> FALSE] \in L
    OBVIOUS
  <2>7. KeysOfRotation(txn[z]) \in Seq(L)
    <3> HIDE DEF L
    <3>1. Append(txn[z].keys, [key |-> Threshold, used |-> FALSE]) \in Seq(L)
      BY <2>5, <2>6
    <3> QED BY <1>2, <2>5, <3>1 DEF KeysOfRotation
  <2>8. KeysOf(txn) = KeysOfRotation(txn[z])
    BY <1>5, <2>3 DEF KeysOf
  <2> QED BY <1>5, <2>7, <2>8
<1> QED BY <1>4, <1>5

\* The transaction leaves rows; their keys and rows.
Kept(txn) == Request(txn).success /\ KeyChanges(txn) # {}

Listed(txn, key) == \E i \in DOMAIN KeysOf(txn) : KeysOf(txn)[i].key = key

MarkRow(txn, key, v) == [v |-> v, is_public_key_used |-> UsedFirst(KeysOf(txn), key)]

AuthKey(a) == <<"auth_key_account_addresses", a>>

AuthRow(txn, v) ==
    [v |-> v, auth_key |-> AuthKeyOf(txn),
     is_auth_key_used |-> Request(txn).function # "rotate_unverified"]

\* What a transaction leaves: the key of its sender, and its public keys once each.
LEMMA KeyRowsFact ==
    ASSUME NEW txn, KeyRestorationTransaction(txn), NEW v, NEW w, w = KeyRows(txn, v)
    PROVE  /\ \A k \in DOMAIN w : k = AuthKey(Request(txn).sender) \/ (k = MarkAt(k, v) /\ IsMark(k))
           /\ \A k : IsMark(k) =>
                 (MarkAt(k, v) \in DOMAIN w <=> Kept(txn) /\ k[2] = AuthKeyOf(txn) /\ Listed(txn, k[3]))
           /\ \A k \in DOMAIN w : IsMark(k) => w[k] = MarkRow(txn, k[3], v)
           /\ \A a : AuthKey(a) \in DOMAIN w <=> Kept(txn) /\ a = Request(txn).sender
           /\ Kept(txn) => w[AuthKey(Request(txn).sender)] = AuthRow(txn, v)
<1> DEFINE keys == KeysOf(txn)
           mark(key) == <<"public_key_auth_keys", AuthKeyOf(txn), key, v>>
           marks == {mark(keys[i].key) : i \in DOMAIN keys}
<1>1. CASE ~Kept(txn)
  <2>1. DOMAIN w = {}
    BY <1>1 DEF KeyRows, NoRows, Kept
  <2> QED BY <1>1, <2>1
<1>2. CASE Kept(txn)
  <2>1. PICK f, g, r : f = AuthKeyRow(txn, v) /\ g = PublicKeyRows(txn, v, AuthKeyOf(txn))
                       /\ r = Request(txn)
    OBVIOUS
  <2>2. w = Over(f, g)
    BY <1>2, <2>1 DEF KeyRows, Kept
  <2>3. DOMAIN f = {AuthKey(r.sender)}
    <3>1. \A i \in KeyChanges(txn) : txn[i].address = r.sender
      BY <2>1 DEF KeyChanges
    <3>2. DOMAIN f = {AuthKey(txn[i].address) : i \in KeyChanges(txn)}
      BY <2>1 DEF AuthKeyRow, AuthKey
    <3> QED BY <1>2, <3>1, <3>2 DEF Kept
  <2>4. f[AuthKey(r.sender)] = AuthRow(txn, v)
    BY <2>1, <2>3 DEF AuthKeyRow, AuthRow
  <2>5. DOMAIN g = marks
    BY <2>1 DEF PublicKeyRows
  <2>6. \A k \in DOMAIN g : g[k] = MarkRow(txn, k[3], v)
    BY <2>1 DEF PublicKeyRows, MarkRow
  <2>8. \A k \in marks : k[1] = "public_key_auth_keys" /\ k[4] = v /\ k = MarkAt(k, v)
    BY DEF MarkAt
  <2>9. \A k : IsMark(k) => (MarkAt(k, v) \in marks <=> k[2] = AuthKeyOf(txn)
                               /\ Listed(txn, k[3]))
    BY DEF MarkAt, IsMark, Listed
  <2>10. \A a : AuthKey(a)[1] = "auth_key_account_addresses" /\ AuthKey(a)[2] = a
    BY DEF AuthKey
  <2>11. IsOver(w, f, g)
    BY <2>2, OverFact
  <2>12. /\ DOMAIN w = {AuthKey(r.sender)} \cup marks
         /\ w[AuthKey(r.sender)] = f[AuthKey(r.sender)]
         /\ \A k \in marks : k # AuthKey(r.sender) => w[k] = g[k]
    BY <2>3, <2>5, <2>11 DEF IsOver
  <2>14. \A k \in DOMAIN w : k = AuthKey(r.sender) \/ (k = MarkAt(k, v) /\ IsMark(k))
    BY <2>8, <2>12 DEF IsMark
  <2>15. \A k : MarkAt(k, v)[1] = k[1]
    BY DEF MarkAt
  <2> HIDE DEF marks, keys
  <2>16. \A k : IsMark(k) => (MarkAt(k, v) \in DOMAIN w <=> MarkAt(k, v) \in marks)
    BY <2>10, <2>12, <2>15 DEF IsMark
  <2>17. \A k \in DOMAIN w : IsMark(k) => w[k] = MarkRow(txn, k[3], v)
    BY <2>5, <2>6, <2>10, <2>12 DEF IsMark
  <2>18. \A a : AuthKey(a) \in DOMAIN w <=> a = r.sender
    BY <2>8, <2>10, <2>12
  <2> QED BY <1>2, <2>1, <2>4, <2>9, <2>12, <2>14, <2>16, <2>17, <2>18
<1> QED BY <1>1, <1>2

AuthKeyKeys == {AuthKey(a) : a \in Senders}

LEMMA KeyParseFact ==
    ASSUME NEW b, IsBatch(b), NEW txn, NEW v, NEW tables
    PROVE  /\ IsBatch(AccountRestorationParse(b, txn, v, tables))
           /\ IsOver(AccountRestorationParse(b, txn, v, tables).rows, KeyRows(txn, v), b.rows)
<1>1. PICK w : w = KeyRows(txn, v)
  OBVIOUS
<1>2. AccountRestorationParse(b, txn, v, tables) = With(b, Over(w, b.rows))
  BY <1>1 DEF AccountRestorationParse, With
<1>3. IsBatch(With(b, Over(w, b.rows))) /\ With(b, Over(w, b.rows)).rows = Over(w, b.rows)
  BY WithFact
<1> QED BY <1>1, <1>2, <1>3, OverFact

LEMMA KeyNewBatchFact ==
    IsBatch(AccountRestorationNewBatch) /\ DOMAIN AccountRestorationNewBatch.rows = {}
BY AnsNewBatchFact DEF AnsNewBatch, AccountRestorationNewBatch

LEMMA KeyRowsOf ==
    ASSUME KeysWired, NEW txn, NEW v, NEW w, w = RowsOf("account_restoration", txn, v)
    PROVE  /\ DOMAIN w = DOMAIN KeyRows(txn, v)
           /\ \A k \in DOMAIN w : w[k] = KeyRows(txn, v)[k]
<1>1. w = AccountRestorationParse(AccountRestorationNewBatch, txn, v, NoRows).rows
  BY DEF RowsOf, KeysWired
<1>2. IsOver(w, KeyRows(txn, v), AccountRestorationNewBatch.rows)
  BY <1>1, KeyParseFact, KeyNewBatchFact
<1> QED BY <1>2, KeyNewBatchFact DEF IsOver

LEMMA AuthKeysLatestWin ==
    ASSUME KeysWired, KeysChains
    PROVE  LatestWins("account_restoration", AuthKeyKeys)
<1> DEFINE p == "account_restoration"
<1>1. \A tables : IsBatch(FirstBatch(p, tables)) /\ DOMAIN FirstBatch(p, tables).rows = {}
  BY KeyNewBatchFact DEF KeysWired
<1>2. \A b : IsBatch(NextBatch(p, b)) /\ DOMAIN NextBatch(p, b).rows = {}
  BY KeyNewBatchFact DEF KeysWired
<1>3. ASSUME NEW c \in Histories(p), NEW v \in 1 .. Len(c)
      PROVE  /\ \A b, tables : IsBatch(b) =>
                   /\ IsBatch(Parse(p, b, c[v], v, tables))
                   /\ Adds(Parse(p, b, c[v], v, tables).rows, RowsOf(p, c[v], v), b.rows, AuthKeyKeys)
             /\ \A k \in AuthKeyKeys :
                   k \in DOMAIN RowsOf(p, c[v], v) => RowsOf(p, c[v], v)[k].v = v
  <2>1. PICK txn, a, w : txn = c[v] /\ a = KeyRows(txn, v) /\ w = RowsOf(p, txn, v)
    OBVIOUS
  <2>2. KeyRestorationTransaction(txn)
    BY <2>1 DEF KeysChains
  <2>3. DOMAIN w = DOMAIN a /\ \A k \in DOMAIN w : w[k] = a[k]
    BY <2>1, KeyRowsOf
  <2>4. ASSUME NEW b, IsBatch(b), NEW tables
        PROVE  /\ IsBatch(Parse(p, b, txn, v, tables))
               /\ Adds(Parse(p, b, txn, v, tables).rows, w, b.rows, AuthKeyKeys)
    <3>1. PICK x : x = AccountRestorationParse(b, txn, v, tables)
      OBVIOUS
    <3>2. x = Parse(p, b, txn, v, tables)
      BY <3>1 DEF KeysWired
    <3>3. IsBatch(x) /\ IsOver(x.rows, a, b.rows)
      BY <2>1, <2>4, <3>1, KeyParseFact
    <3> QED BY <2>3, <3>2, <3>3 DEF IsOver, Adds
  <2>5. ASSUME NEW k \in AuthKeyKeys, k \in DOMAIN w PROVE w[k].v = v
    <3>1. PICK s \in Senders : k = AuthKey(s)
      BY DEF AuthKeyKeys
    <3>2. a[k].v = v
      <4>1. /\ AuthKey(s) \in DOMAIN a <=> Kept(txn) /\ s = Request(txn).sender
            /\ Kept(txn) => a[AuthKey(Request(txn).sender)] = AuthRow(txn, v)
        BY <2>1, <2>2, KeyRowsFact
      <4>2. a[k] = AuthRow(txn, v)
        BY <2>3, <2>5, <3>1, <4>1
      <4> QED BY <4>2 DEF AuthRow
    <3> QED BY <2>3, <2>5, <3>2
  <2> QED BY <2>1, <2>4, <2>5
<1>4. ASSUME NEW k, k \in AuthKeyKeys \/ TableKey(k) \in AuthKeyKeys PROVE TableKey(k) = k
  <2>1. \A x \in AuthKeyKeys : x[1] = "auth_key_account_addresses"
    BY DEF AuthKeyKeys, AuthKey
  <2>2. \A x : x[1] = "public_key_auth_keys" => AccountRestorationTableKey(x)[1] = "public_key_auth_keys"
    BY DEF AccountRestorationTableKey
  <2>3. TableKey(k) = AccountRestorationTableKey(k)
    BY <1>4, <2>1 DEF KeysWired, AccountRestorationTables
  <2> QED BY <1>4, <2>1, <2>2, <2>3 DEF AccountRestorationTableKey
<1>5. ASSUME NEW k \in AuthKeyKeys, NEW old, NEW new
      PROVE  Upsert(p, k, old, new) = IF old.v <= new.v THEN new ELSE old
  <2>1. k[1] = "auth_key_account_addresses"
    BY DEF AuthKeyKeys, AuthKey
  <2>2. Upsert(p, k, old, new) = IF ~(old.v <= new.v) THEN old ELSE new
    BY <2>1 DEF KeysWired, AccountRestorationUpsert
  <2> QED BY <2>2
<1>6. \A c \in Histories(p) : Len(c) \in Nat
  BY DEF KeysChains
<1> HIDE DEF p
<1>7. LatestWins(p, AuthKeyKeys)
  BY <1>1, <1>2, <1>3, <1>4, <1>5, <1>6 DEF LatestWins, KeepsLater
<1> QED BY <1>7 DEF p

\* The rows a version writes for public keys name it twice, in the key of the batch
\* and in the row.
MarkWrites(W) ==
    /\ DOMAIN W \subseteq Nat \ {0}
    /\ \A v \in DOMAIN W : \A k \in DOMAIN W[v] : IsMark(k) =>
          /\ k = MarkAt(k, v)
          /\ \E used \in BOOLEAN : W[v][k] = [v |-> v, is_public_key_used |-> used]

LEMMA MarkKeys ==
    ASSUME KeysWired, NEW k
    PROVE  /\ IsMark(TableKey(k)) <=> IsMark(k)
           /\ IsMark(k) => /\ TableKey(k) = <<k[1], k[2], k[3]>>
                           /\ \A v : /\ MarkAt(TableKey(k), v) = MarkAt(k, v)
                                     /\ IsMark(MarkAt(k, v)) /\ MarkAt(k, v)[1] = k[1]
                                     /\ MarkAt(k, v)[4] = v /\ TableKey(MarkAt(k, v)) = TableKey(k)
<1>1. \A x : IsMark(x) => AccountRestorationTableKey(x) = <<x[1], x[2], x[3]>>
  BY DEF AccountRestorationTableKey, IsMark
<1>2. \A x : ~IsMark(x) => AccountRestorationTableKey(x) = x
  BY DEF AccountRestorationTableKey, IsMark
<1>3. \A x : IsMark(x) \/ IsMark(TableKey(x)) => TableKey(x) = AccountRestorationTableKey(x)
  BY DEF KeysWired, AccountRestorationTables, IsMark
<1>4. IsMark(TableKey(k)) <=> IsMark(k)
  BY <1>1, <1>2, <1>3 DEF IsMark
<1>5. ASSUME IsMark(k)
      PROVE  /\ TableKey(k) = <<k[1], k[2], k[3]>>
             /\ \A v : /\ MarkAt(TableKey(k), v) = MarkAt(k, v)
                       /\ IsMark(MarkAt(k, v)) /\ MarkAt(k, v)[1] = k[1]
                       /\ MarkAt(k, v)[4] = v /\ TableKey(MarkAt(k, v)) = TableKey(k)
  <2>1. TableKey(k) = <<k[1], k[2], k[3]>>
    BY <1>1, <1>3, <1>5
  <2>2. ASSUME NEW v PROVE IsMark(MarkAt(k, v)) /\ MarkAt(k, v)[1] = k[1] /\ MarkAt(k, v)[4] = v
                           /\ MarkAt(k, v)[2] = k[2] /\ MarkAt(k, v)[3] = k[3]
    BY <1>5 DEF MarkAt, IsMark
  <2>3. ASSUME NEW v PROVE MarkAt(TableKey(k), v) = MarkAt(k, v)
    BY <2>1 DEF MarkAt
  <2>4. ASSUME NEW v PROVE TableKey(MarkAt(k, v)) = TableKey(k)
    BY <1>1, <1>3, <2>1, <2>2
  <2> QED BY <2>1, <2>2, <2>3, <2>4
<1> QED BY <1>4, <1>5

\* Rows that Postgres does not refuse are of different rows of the table.
LEMMA NotRefused ==
    ASSUME NEW s, NEW rows, ~Refused(s, rows),
           NEW k \in DOMAIN rows, CommitGroup(k[1]) = s, NEW j \in DOMAIN rows, j[1] = k[1],
           TableKey(j) = TableKey(k)
    PROVE  j = k
BY DEF Refused

\* A statement that stores the mark k: the versions before k that marked the key are in
\* the table already, so that its flag and that of k tell of all of them.
LEMMA MarkStored ==
    ASSUME NEW W, MarkWrites(W), NEW m \in DOMAIN W, NEW t, IsMark(t),
           NEW k, k = MarkAt(t, m), k \in DOMAIN W[m], NEW row, row = W[m][k],
           NEW d, TableMarks(d, W),
           \A v \in 1 .. m : Marked(W, t, v) => v = m \/ (t \in DOMAIN d /\ v <= d[t].v),
           NEW new, new = IF t \in DOMAIN d THEN AccountRestorationUpsert(k, d[t], row) ELSE row
    PROVE  /\ m <= new.v /\ (t \in DOMAIN d => d[t].v \in Nat /\ d[t].v <= new.v)
           /\ new.v \in DOMAIN W /\ new.is_public_key_used \in BOOLEAN
           /\ new.is_public_key_used <=> \E v \in 1 .. new.v : Marked(W, t, v)
<1>1. m \in Nat \ {0} /\ DOMAIN W \subseteq Nat \ {0}
  BY DEF MarkWrites
<1>2. IsMark(k)
  BY DEF IsMark, MarkAt
<1>3. PICK u \in BOOLEAN : row = [v |-> m, is_public_key_used |-> u]
  BY <1>2 DEF MarkWrites
<1>4. row.v = m /\ row.is_public_key_used = u
  BY <1>3
<1>5. Marked(W, t, m) <=> u
  BY <1>4 DEF Marked
<1>6. t \in DOMAIN d => /\ d[t].v \in DOMAIN W /\ d[t].v \in Nat \ {0}
                        /\ d[t].is_public_key_used \in BOOLEAN
                        /\ d[t].is_public_key_used <=> \E v \in 1 .. d[t].v : Marked(W, t, v)
  BY <1>1 DEF TableMarks
<1>7. m \in 1 .. m /\ m <= m
  BY <1>1
<1>8. CASE t \notin DOMAIN d
  <2>1. new = row
    BY <1>8
  <2>2. u <=> \E v \in 1 .. m : Marked(W, t, v)
    BY <1>5, <1>7, <1>8
  <2> QED BY <1>3, <1>4, <1>7, <1>8, <2>1, <2>2
<1>9. CASE t \in DOMAIN d /\ ~(d[t].v <= m)
  <2>1. new = d[t]
    BY <1>4, <1>9 DEF AccountRestorationUpsert
  <2> QED BY <1>1, <1>6, <1>9, <2>1
<1>10. CASE t \in DOMAIN d /\ d[t].v <= m
  <2>1. new = [row EXCEPT !.is_public_key_used = d[t].is_public_key_used \/ @]
    BY <1>2, <1>4, <1>10 DEF AccountRestorationUpsert, IsMark
  <2>2. PICK old \in BOOLEAN : old = d[t].is_public_key_used
    BY <1>6, <1>10
  <2>3. new = [v |-> m, is_public_key_used |-> (old \/ u)]
    BY <1>3, <2>1, <2>2
  <2>4. new.v = m /\ new.is_public_key_used = (old \/ u)
    BY <2>3
  <2>5. old \/ u <=> \E v \in 1 .. m : Marked(W, t, v)
    <3>1. ASSUME NEW v \in 1 .. m, Marked(W, t, v) PROVE old \/ u
      <4>1. v = m \/ v \in 1 .. d[t].v
        BY <1>6, <1>10, <3>1
      <4> QED BY <1>5, <1>6, <1>10, <2>2, <3>1, <4>1
    <3>2. ASSUME old PROVE \E v \in 1 .. m : Marked(W, t, v)
      <4>1. PICK v \in 1 .. d[t].v : Marked(W, t, v)
        BY <1>6, <1>10, <2>2, <3>2
      <4>2. v \in 1 .. m
        BY <1>1, <1>6, <1>10
      <4> QED BY <4>1, <4>2
    <3>3. ASSUME u PROVE \E v \in 1 .. m : Marked(W, t, v)
      BY <1>5, <1>7, <3>3
    <3> QED BY <3>1, <3>2, <3>3
  <2>6. new.is_public_key_used \in BOOLEAN
        /\ (new.is_public_key_used <=> \E v \in 1 .. m : Marked(W, t, v))
    BY <2>4, <2>5
  <2>7. m <= new.v /\ d[t].v <= new.v /\ new.v \in DOMAIN W /\ d[t].v \in Nat
    BY <1>6, <1>7, <1>10, <2>4
  <2> QED BY <1>10, <2>4, <2>6, <2>7
<1> QED BY <1>8, <1>9, <1>10

LEMMA MarksStored ==
    ASSUME KeysWired, processor = "account_restoration", NEW W, MarkWrites(W),
           NEW s, NEW rows, NEW n, BatchMarks(rows, W, n), ~Refused(s, rows), TableMarks(db, W),
           \A v \in 1 .. n : \A k \in DOMAIN W[v] :
              IsMark(k) => HasMark(db, k) \/ k \in DOMAIN rows,
           n \in Nat, NEW e, e = Stored(s, rows)
    PROVE  /\ TableMarks(e, W)
           /\ \A k \in DOMAIN rows : IsMark(k) /\ CommitGroup(k[1]) = s => HasMark(e, k)
           /\ \A k : IsMark(k) /\ k[4] \in Nat /\ HasMark(db, k) => HasMark(e, k)
<1> DEFINE mine == {k \in DOMAIN rows : CommitGroup(k[1]) = s}
           keys == {TableKey(k) : k \in mine}
           row(t) == LET k == CHOOSE k \in mine : TableKey(k) = t
                     IN IF t \in DOMAIN db
                        THEN Upsert(processor, k, db[t], rows[k]) ELSE rows[k]
           new == [t \in keys |-> row(t)]
<1>1. e = Over(new, db)
  BY DEF Stored
<1>2. ASSUME NEW k \in mine, IsMark(k)
      PROVE  /\ TableKey(k) \in keys /\ k[4] \in Nat /\ k[4] <= row(TableKey(k)).v
             /\ TableKey(k) \in DOMAIN db =>
                  db[TableKey(k)].v \in Nat /\ db[TableKey(k)].v <= row(TableKey(k)).v
             /\ row(TableKey(k)).v \in DOMAIN W /\ row(TableKey(k)).is_public_key_used \in BOOLEAN
             /\ row(TableKey(k)).is_public_key_used <=>
                   \E v \in 1 .. row(TableKey(k)).v : Marked(W, TableKey(k), v)
  <2>1. PICK t, m : t = TableKey(k) /\ m = k[4]
    OBVIOUS
  <2>2. /\ m \in DOMAIN W /\ m <= n /\ k \in DOMAIN W[m] /\ rows[k] = W[m][k]
    BY <1>2, <2>1 DEF BatchMarks
  <2>3. k = MarkAt(k, m) /\ DOMAIN W \subseteq Nat \ {0}
    BY <1>2, <2>2 DEF MarkWrites
  <2>4. k = MarkAt(t, m) /\ IsMark(t)
    BY <1>2, <2>1, <2>3, MarkKeys
  <2>5. \A x \in mine : TableKey(x) = t => x = k
    <3>1. ASSUME NEW x \in mine, TableKey(x) = t PROVE x = k
      <4>1. IsMark(x) /\ x[1] = k[1]
        BY <1>2, <2>1, <3>1, MarkKeys DEF IsMark
      <4> QED BY <2>1, <3>1, <4>1, NotRefused
    <3> QED BY <3>1
  <2>6. PICK z : z = CHOOSE x \in mine : TableKey(x) = t
    OBVIOUS
  <2>7. z = k
    <3> HIDE DEF mine
    <3> QED BY <2>1, <2>5, <2>6
  <2>8. row(t) = IF t \in DOMAIN db THEN Upsert(processor, z, db[t], rows[z]) ELSE rows[z]
    <3> HIDE DEF mine
    <3> QED BY <2>6
  <2>9. row(t) = IF t \in DOMAIN db THEN AccountRestorationUpsert(k, db[t], rows[k]) ELSE rows[k]
    <3> HIDE DEF row
    <3> QED BY <2>7, <2>8 DEF KeysWired
  <2>10. ASSUME NEW v \in 1 .. m, Marked(W, t, v)
         PROVE  v = m \/ (t \in DOMAIN db /\ v <= db[t].v)
    <3>1. PICK j : j = MarkAt(t, v)
      OBVIOUS
    <3>2. j \in DOMAIN W[v]
      BY <2>10, <3>1 DEF Marked
    <3>3. IsMark(j) /\ j[1] = k[1] /\ j[4] = v /\ TableKey(j) = t
      BY <1>2, <2>1, <3>1, MarkKeys
    <3>4. v \in 1 .. n
      BY <2>2, <2>3
    <3>5. CASE HasMark(db, j)
      BY <3>3, <3>5 DEF HasMark
    <3>6. CASE j \in DOMAIN rows
      <4>1. j \in mine
        BY <1>2, <3>3, <3>6
      <4> QED BY <2>1, <2>5, <3>3, <4>1
    <3> QED BY <3>2, <3>3, <3>4, <3>5, <3>6
  <2>11. t \in keys
    BY <2>1
  <2> HIDE DEF row, keys, mine
  <2>12. PICK r : r = row(t)
    OBVIOUS
  <2>13. /\ m <= r.v /\ (t \in DOMAIN db => db[t].v \in Nat /\ db[t].v <= r.v)
         /\ r.v \in DOMAIN W /\ r.is_public_key_used \in BOOLEAN
         /\ r.is_public_key_used <=> \E v \in 1 .. r.v : Marked(W, t, v)
    BY <2>2, <2>4, <2>9, <2>10, <2>12, MarkStored
  <2> QED BY <2>1, <2>2, <2>3, <2>11, <2>12, <2>13
<1>3. ASSUME NEW t \in keys, IsMark(t) PROVE \E k \in mine : IsMark(k) /\ t = TableKey(k)
  BY <1>3, MarkKeys
<1> HIDE DEF row, keys, mine
<1>4. /\ DOMAIN e = keys \cup DOMAIN db
      /\ \A t \in keys : e[t] = row(t)
      /\ \A t \in DOMAIN db : t \notin keys => e[t] = db[t]
  BY <1>1 DEF Over
<1>5. TableMarks(e, W)
  <2>1. ASSUME NEW t \in DOMAIN e, IsMark(t)
        PROVE  /\ e[t].v \in DOMAIN W /\ e[t].is_public_key_used \in BOOLEAN
               /\ e[t].is_public_key_used <=> \E v \in 1 .. e[t].v : Marked(W, t, v)
    <3>1. CASE t \in keys
      <4>1. PICK k \in mine : IsMark(k) /\ t = TableKey(k)
        BY <1>3, <2>1, <3>1
      <4> QED BY <1>2, <1>4, <3>1, <4>1
    <3>2. CASE t \notin keys
      <4>1. t \in DOMAIN db /\ e[t] = db[t]
        BY <1>4, <3>2
      <4> QED BY <2>1, <4>1 DEF TableMarks
    <3> QED BY <3>1, <3>2
  <2> QED BY <2>1 DEF TableMarks
<1>6. ASSUME NEW k \in DOMAIN rows, IsMark(k), CommitGroup(k[1]) = s PROVE HasMark(e, k)
  <2>1. k \in mine
    BY <1>6 DEF mine
  <2> QED BY <1>2, <1>4, <1>6, <2>1 DEF HasMark
<1>7. ASSUME NEW k, IsMark(k), k[4] \in Nat, HasMark(db, k) PROVE HasMark(e, k)
  <2>1. PICK t : t = TableKey(k)
    OBVIOUS
  <2>2. t \in DOMAIN db /\ k[4] <= db[t].v /\ IsMark(t)
    BY <1>7, <2>1, MarkKeys DEF HasMark
  <2>3. CASE t \in keys
    <3>1. PICK j \in mine : IsMark(j) /\ t = TableKey(j)
      BY <1>3, <2>2, <2>3
    <3>2. db[t].v \in Nat /\ db[t].v <= e[t].v /\ e[t].v \in DOMAIN W /\ DOMAIN W \subseteq Nat
      BY <1>2, <1>4, <2>2, <2>3, <3>1 DEF MarkWrites
    <3> QED BY <1>4, <1>7, <2>1, <2>2, <3>2 DEF HasMark
  <2>4. CASE t \notin keys
    BY <1>4, <2>1, <2>2, <2>4 DEF HasMark
  <2> QED BY <2>3, <2>4
<1> QED BY <1>5, <1>6, <1>7

KeysInv ==
    LET p == "account_restoration"
    IN processor = p /\ RowsInv(p, AuthKeyKeys) /\ MarksInv(Writes(p))

LEMMA MarkWritesFact ==
    ASSUME KeysWired, KeysChains, chain \in Histories("account_restoration"),
           NEW W, W = Writes("account_restoration")
    PROVE  /\ Len(chain) \in Nat /\ DOMAIN W = 1 .. Len(chain) /\ MarkWrites(W)
           /\ \A v \in 1 .. Len(chain) : /\ KeyRestorationTransaction(chain[v])
                /\ DOMAIN W[v] = DOMAIN KeyRows(chain[v], v)
                /\ \A k \in DOMAIN W[v] : W[v][k] = KeyRows(chain[v], v)[k]
<1>1. /\ Len(chain) \in Nat /\ DOMAIN W = 1 .. Len(chain)
      /\ \A v \in 1 .. Len(chain) : W[v] = RowsOf("account_restoration", chain[v], v)
  BY AuthKeysLatestWin, WritesFact
<1>2. \A v \in 1 .. Len(chain) : /\ KeyRestorationTransaction(chain[v])
                /\ DOMAIN W[v] = DOMAIN KeyRows(chain[v], v)
                /\ \A k \in DOMAIN W[v] : W[v][k] = KeyRows(chain[v], v)[k]
  BY <1>1, KeyRowsOf DEF KeysChains
<1>3. ASSUME NEW v \in 1 .. Len(chain)
      PROVE  \A k \in DOMAIN W[v] : IsMark(k) =>
                /\ k = MarkAt(k, v)
                /\ \E used \in BOOLEAN : W[v][k] = [v |-> v, is_public_key_used |-> used]
  <2>1. PICK txn, w : txn = chain[v] /\ w = KeyRows(txn, v)
    OBVIOUS
  <2>2. /\ KeyRestorationTransaction(txn) /\ DOMAIN W[v] = DOMAIN w
        /\ \A k \in DOMAIN w : W[v][k] = w[k]
    BY <1>2, <2>1
  <2>3. /\ \A k \in DOMAIN w : k = AuthKey(Request(txn).sender) \/ (k = MarkAt(k, v) /\ IsMark(k))
        /\ \A k \in DOMAIN w : IsMark(k) => w[k] = MarkRow(txn, k[3], v)
    BY <2>1, <2>2, KeyRowsFact
  <2>4. ASSUME NEW key
        PROVE \E used \in BOOLEAN : MarkRow(txn, key, v) = [v |-> v, is_public_key_used |-> used]
    <3>1. UsedFirst(KeysOf(txn), key) \in BOOLEAN
      BY DEF UsedFirst
    <3> QED BY <3>1 DEF MarkRow
  <2>5. \A k \in DOMAIN w : IsMark(k) => k = MarkAt(k, v)
    BY <2>3 DEF IsMark, AuthKey
  <2> QED BY <2>2, <2>3, <2>4, <2>5
<1>4. MarkWrites(W)
  <2>1. DOMAIN W \subseteq Nat \ {0}
    BY <1>1
  <2> QED BY <1>1, <1>3, <2>1 DEF MarkWrites
<1> QED BY <1>1, <1>2, <1>4

LEMMA MarksExtract ==
    ASSUME KeysWired, KeysChains, KeysInv, ExtractTransaction
    PROVE  MarksInv(Writes("account_restoration"))'
<1> DEFINE p == "account_restoration"
<1>1. PICK W : W = Writes(p)
  OBVIOUS
<1>2. PICK n, s, e, b : /\ n = next_version /\ s = batch_start' /\ e = batch_end'
                        /\ b = [batch EXCEPT !.transactions = {chain[w] : w \in s .. e}]
  OBVIOUS
<1>3. /\ processor = p /\ chain \in Histories(p) /\ IInv /\ ExtentInv /\ MarksInv(W)
  BY <1>1 DEF KeysInv, RowsInv
<1>4. /\ s = Start /\ e \in ReceiveBatch /\ n <= e /\ next_version' = n + 1
      /\ batch' = Parse(p, b, chain[n], n, db)
      /\ UNCHANGED <<processor, chain, db, queue, committed, checkpoint>>
  BY <1>2, <1>3 DEF ExtractTransaction, Start
<1>5. RowsInv(p, AuthKeyKeys)'
  BY AuthKeysLatestWin, RowsExtract DEF KeysInv
<1>6. /\ n \in Nat \ {0} /\ batch_end \in Nat /\ batch_start \in Nat /\ e \in Nat
      /\ e <= Len(chain) /\ Len(chain) \in Nat
  <2>1. batch_end' \in Nat /\ batch_end' <= Len(chain) /\ Len(chain) \in Nat
    BY <1>4, <1>5 DEF RowsInv, IInv, ExtentInv
  <2> QED BY <1>2, <1>3, <2>1 DEF IInv
<1>7. /\ DOMAIN W = 1 .. Len(chain) /\ MarkWrites(W) /\ n \in DOMAIN W
      /\ KeyRestorationTransaction(chain[n])
      /\ DOMAIN W[n] = DOMAIN KeyRows(chain[n], n)
      /\ \A k \in DOMAIN W[n] : W[n][k] = KeyRows(chain[n], n)[k]
  <2>1. DOMAIN W = 1 .. Len(chain) /\ MarkWrites(W) /\ n \in DOMAIN W
    BY <1>1, <1>3, <1>4, <1>6, MarkWritesFact
  <2> QED BY <1>1, <1>3, <2>1, MarkWritesFact
<1>8. IsBatch(b) /\ b.rows = batch.rows
  BY <1>2, <1>3 DEF IsBatch, ExtentInv
<1>9. IsOver(batch'.rows, KeyRows(chain[n], n), batch.rows)
  BY <1>4, <1>8, KeyParseFact DEF KeysWired
<1>10. PICK old, rows : old = batch.rows /\ rows = batch'.rows
  OBVIOUS
<1>11. /\ DOMAIN rows = DOMAIN W[n] \cup DOMAIN old
       /\ \A k \in DOMAIN W[n] : rows[k] = W[n][k]
       /\ \A k \in DOMAIN old : k \notin DOMAIN W[n] => rows[k] = old[k]
  BY <1>7, <1>9, <1>10 DEF IsOver
<1>12. BatchMarks(rows, W, n)
  <2>1. BatchMarks(old, W, n - 1)
    BY <1>2, <1>3, <1>10 DEF MarksInv
  <2>3. ASSUME NEW k \in DOMAIN rows, IsMark(k)
        PROVE  k[4] \in DOMAIN W /\ k[4] <= n /\ k \in DOMAIN W[k[4]] /\ rows[k] = W[k[4]][k]
    <3>1. CASE k \in DOMAIN W[n]
      <4>1. k = MarkAt(k, n)
        BY <1>7, <2>3, <3>1 DEF MarkWrites
      <4>2. k[4] = n
        BY <2>3, <4>1, MarkKeys
      <4> QED BY <1>6, <1>7, <1>11, <3>1, <4>2
    <3>2. CASE k \notin DOMAIN W[n]
      <4>1. k \in DOMAIN old /\ rows[k] = old[k]
        BY <1>11, <3>2
      <4>2. k[4] \in DOMAIN W /\ k[4] <= n - 1 /\ k \in DOMAIN W[k[4]] /\ rows[k] = W[k[4]][k]
        BY <2>1, <2>3, <4>1 DEF BatchMarks
      <4> QED BY <1>6, <1>7, <4>2
    <3> QED BY <3>1, <3>2
  <2> QED BY <2>3 DEF BatchMarks
<1>13. Start' = Start
  <2>1. batch_end' # 0
    BY <1>2, <1>4, <1>6
  <2> QED BY <1>2, <1>4, <2>1 DEF Start
<1>14. ASSUME NEW v \in s .. n, NEW k \in DOMAIN W[v], IsMark(k) PROVE k \in DOMAIN rows
  <2>1. CASE v = n
    BY <1>11, <2>1
  <2>2. CASE v # n
    <3>1. s \in Nat
      BY <1>2, <1>4, <1>6 DEF Start
    <3>2. v \in s .. n - 1
      BY <1>6, <2>2, <3>1
    <3>3. batch_end # 0 /\ s = batch_start
      BY <1>2, <1>4, <1>6, <3>2 DEF Start
    <3>4. k \in DOMAIN old
      BY <1>2, <1>3, <1>10, <1>14, <3>2, <3>3 DEF MarksInv
    <3> QED BY <1>11, <3>4
  <2> QED BY <2>1, <2>2
<1>15. MarksInv(W)'
  <2>1. next_version' - 1 = n /\ (batch_start .. next_version - 1)' = s .. n
    BY <1>2, <1>4, <1>6
  <2>2. /\ queue' = queue /\ db' = db /\ committed' = committed /\ checkpoint' = checkpoint
        /\ batch'.rows = rows
    BY <1>4, <1>10
  <2> QED BY <1>3, <1>12, <1>13, <1>14, <2>1, <2>2 DEF MarksInv
<1>16. Writes(p)' = W
  BY <1>1, <1>4 DEF Writes, Versions
<1> QED BY <1>15, <1>16

LEMMA MarksSend ==
    ASSUME KeysWired, KeysChains, KeysInv, SendBatch
    PROVE  MarksInv(Writes("account_restoration"))'
<1> DEFINE p == "account_restoration"
<1>1. PICK W : W = Writes(p)
  OBVIOUS
<1>2. PICK n, q, r, last : /\ n = next_version /\ q = queue /\ r = queue'
                           /\ last = [rows |-> batch.rows, start_version |-> batch_start, end_version |-> n - 1]
  OBVIOUS
<1>3. /\ processor = p /\ IInv /\ ExtentInv /\ MarksInv(W)
  BY <1>1 DEF KeysInv, RowsInv
<1>4. /\ batch_end # 0 /\ r = Append(q, last)
      /\ batch' = NextBatch(p, batch) /\ batch_end' = 0
      /\ UNCHANGED <<processor, chain, db, committed, checkpoint, next_version>>
  BY <1>2, <1>3 DEF SendBatch
<1>5. n \in Nat \ {0} /\ batch_start \in Nat /\ batch_start <= n
  BY <1>2, <1>3, <1>4 DEF IInv, BatchInv
<1>6. PICK S : q \in Seq(S)
  BY <1>2, <1>3 DEF IInv, QueueInv
<1>7. PICK m : m = Len(q)
  OBVIOUS
<1>8. /\ m \in Nat /\ Len(r) = m + 1 /\ r[m + 1] = last
      /\ \A i \in 1 .. m : r[i] = q[i]
      /\ (q # <<>> => Head(r) = Head(q))
  <2>1. /\ m \in Nat /\ Len(r) = m + 1 /\ r[m + 1] = last /\ r \in Seq(S \cup {last})
        /\ \A i \in 1 .. m : r[i] = q[i]
    BY <1>4, <1>6, <1>7
  <2>2. r # <<>> /\ Head(r) = r[1]
    BY <2>1
  <2>3. q # <<>> => m \in Nat \ {0} /\ Head(q) = q[1]
    BY <1>6, <1>7
  <2>4. q # <<>> => Head(r) = Head(q)
    BY <2>1, <2>2, <2>3
  <2> QED BY <2>1, <2>4
<1>9. last.rows = batch.rows /\ last.end_version = n - 1
  BY <1>2
<1>10. BatchMarks(batch'.rows, W, n - 1)
  <2>1. DOMAIN batch'.rows = {}
    BY <1>4, KeyNewBatchFact DEF KeysWired
  <2> QED BY <2>1 DEF BatchMarks
<1>11. ASSUME NEW i \in 1 .. m + 1 PROVE BatchMarks(r[i].rows, W, r[i].end_version)
  <2>1. CASE i \in 1 .. m
    BY <1>2, <1>3, <1>7, <1>8, <2>1 DEF MarksInv
  <2>2. CASE i = m + 1
    BY <1>2, <1>3, <1>8, <1>9, <2>2 DEF MarksInv
  <2> QED BY <1>8, <2>1, <2>2
<1>12. ASSUME NEW i \in 0 .. m, NEW V, MarksOnTheirWay(db, q, i, W, V)
       PROVE  MarksOnTheirWay(db, r, i, W, V)
  <2>1. \A j \in 1 .. i : r[j] = q[j]
    BY <1>8
  <2> QED BY <1>12, <2>1 DEF MarksOnTheirWay
<1>13. MarksOnTheirWay(db, r, m + 1, W, 1 .. n - 1)
  <2>1. ASSUME NEW v \in 1 .. n - 1, NEW k \in DOMAIN W[v], IsMark(k)
        PROVE  HasMark(db, k) \/ \E j \in 1 .. m + 1 : k \in DOMAIN r[j].rows
    <3>1. CASE v \in batch_start .. n - 1
      <4>1. k \in DOMAIN last.rows
        BY <1>2, <1>3, <1>4, <1>9, <2>1, <3>1 DEF MarksInv
      <4>2. m + 1 \in 1 .. m + 1
        BY <1>8
      <4> QED BY <1>8, <4>1, <4>2
    <3>2. CASE v \in 1 .. batch_start - 1
      <4>1. MarksOnTheirWay(db, q, m, W, 1 .. batch_start - 1)
        BY <1>2, <1>3, <1>4, <1>7 DEF MarksInv, Start
      <4>2. MarksOnTheirWay(db, r, m, W, 1 .. batch_start - 1)
        BY <1>8, <1>12, <4>1
      <4>3. \A j \in 1 .. m : j \in 1 .. m + 1
        BY <1>8
      <4> QED BY <2>1, <3>2, <4>2, <4>3 DEF MarksOnTheirWay
    <3> QED BY <1>5, <3>1, <3>2
  <2> QED BY <2>1 DEF MarksOnTheirWay
<1>14. MarksInv(W)'
  <2>1. MarksOnTheirWay(db, r, 0, W, 1 .. checkpoint)
    BY <1>2, <1>3, <1>8, <1>12 DEF MarksInv
  <2>2. ASSUME NEW i \in 1 .. m + 1 PROVE MarksOnTheirWay(db, r, i, W, 1 .. r[i].end_version)
    <3>1. CASE i \in 1 .. m
      <4>1. MarksOnTheirWay(db, q, i, W, 1 .. q[i].end_version)
        BY <1>2, <1>3, <1>7, <3>1 DEF MarksInv
      <4>2. i \in 0 .. m
        BY <3>1
      <4> QED BY <1>8, <1>12, <3>1, <4>1, <4>2
    <3>2. CASE i = m + 1
      BY <1>8, <1>9, <1>13, <3>2
    <3> QED BY <1>8, <3>1, <3>2
  <2>3. Start' = n
    BY <1>2, <1>4 DEF Start
  <2>4. ASSUME NEW k \in DOMAIN Head(r).rows, IsMark(k), CommitGroup(k[1]) \in committed
        PROVE  HasMark(db, k)
    <3>1. q # <<>>
      BY <1>2, <1>3, <2>4 DEF ExtentInv
    <3>2. Head(r) = Head(q)
      BY <1>8, <3>1
    <3> QED BY <1>2, <1>3, <2>4, <3>1, <3>2 DEF MarksInv
  <2>5. /\ queue' = r /\ db' = db /\ committed' = committed /\ checkpoint' = checkpoint
        /\ batch_end' = 0 /\ Len(r) = m + 1 /\ next_version' - 1 = n - 1
    BY <1>2, <1>4, <1>8
  <2>6. TableMarks(db, W)
    BY <1>3 DEF MarksInv
  <2> QED BY <1>10, <1>11, <1>13, <2>1, <2>2, <2>3, <2>4, <2>5, <2>6 DEF MarksInv
<1>15. Writes(p)' = W
  BY <1>1, <1>4 DEF Writes, Versions
<1> QED BY <1>14, <1>15

LEMMA MarksCommit ==
    ASSUME KeysWired, KeysChains, KeysInv, NEW s, CommitStatement(s)
    PROVE  MarksInv(Writes("account_restoration"))'
<1> DEFINE p == "account_restoration"
<1>1. PICK W : W = Writes(p)
  OBVIOUS
<1>2. PICK q, d, e, rows, n : /\ q = queue /\ d = db /\ e = db' /\ rows = Head(q).rows
                              /\ n = Head(q).end_version
  OBVIOUS
<1>3. /\ processor = p /\ chain \in Histories(p) /\ IInv /\ ExtentInv /\ MarksInv(W)
  BY <1>1 DEF KeysInv, RowsInv
<1>4. /\ q # <<>> /\ e = Stored(s, rows) /\ committed' = committed \cup {s} /\ ~Refused(s, rows)
      /\ UNCHANGED <<processor, chain, batch, batch_start, batch_end, queue, checkpoint,
                     next_version>>
  BY <1>2 DEF CommitStatement
<1>5. PICK S : q \in Seq(S)
  BY <1>2, <1>3 DEF IInv, QueueInv
<1>6. Len(q) \in Nat \ {0} /\ Head(q) = q[1] /\ 1 \in 1 .. Len(q)
  BY <1>4, <1>5
<1>7. BatchMarks(rows, W, n) /\ TableMarks(d, W) /\ n \in Nat
  BY <1>2, <1>3, <1>6 DEF MarksInv, IInv, QueueInv
<1>8. MarkWrites(W)
  BY <1>1, <1>3, MarkWritesFact
<1>9. ASSUME NEW v \in 1 .. n, NEW k \in DOMAIN W[v], IsMark(k)
      PROVE  HasMark(d, k) \/ k \in DOMAIN rows
  <2>1. MarksOnTheirWay(d, q, 1, W, 1 .. n)
    BY <1>2, <1>3, <1>6 DEF MarksInv
  <2>2. \A j \in 1 .. 1 : j = 1
    OBVIOUS
  <2> QED BY <1>2, <1>6, <1>9, <2>1, <2>2 DEF MarksOnTheirWay
<1>10. /\ TableMarks(e, W)
       /\ \A k \in DOMAIN rows : IsMark(k) /\ CommitGroup(k[1]) = s => HasMark(e, k)
       /\ \A k : IsMark(k) /\ k[4] \in Nat /\ HasMark(d, k) => HasMark(e, k)
  BY <1>2, <1>3, <1>4, <1>7, <1>8, <1>9, MarksStored
<1>11. ASSUME NEW i, NEW V, V \subseteq DOMAIN W, MarksOnTheirWay(d, q, i, W, V)
       PROVE  MarksOnTheirWay(e, q, i, W, V)
  <2>1. ASSUME NEW v \in V, NEW k \in DOMAIN W[v], IsMark(k), HasMark(d, k) PROVE HasMark(e, k)
    <3>1. v \in DOMAIN W /\ v \in Nat /\ k = MarkAt(k, v)
      BY <1>8, <1>11, <2>1 DEF MarkWrites
    <3>2. k[4] = v
      BY <2>1, <3>1, MarkKeys
    <3> QED BY <1>10, <2>1, <3>1, <3>2
  <2> QED BY <1>11, <2>1 DEF MarksOnTheirWay
<1>12. ASSUME NEW k \in DOMAIN rows, IsMark(k), CommitGroup(k[1]) \in committed \cup {s}
       PROVE  HasMark(e, k)
  <2>1. CASE CommitGroup(k[1]) = s
    BY <1>10, <1>12, <2>1
  <2>2. CASE CommitGroup(k[1]) \in committed
    <3>1. HasMark(d, k)
      BY <1>2, <1>3, <1>4, <1>12, <2>2 DEF MarksInv
    <3>2. k[4] \in Nat
      BY <1>7, <1>8, <1>12 DEF BatchMarks, MarkWrites
    <3> QED BY <1>10, <1>12, <3>1, <3>2
  <2> QED BY <1>12, <2>1, <2>2
<1>13. /\ DOMAIN W = 1 .. Len(chain) /\ Len(chain) \in Nat /\ checkpoint \in Nat
       /\ checkpoint <= Len(chain) /\ next_version \in Nat /\ next_version <= Len(chain) + 1
       /\ Start \in Nat /\ Start <= next_version
       /\ \A i \in 1 .. Len(q) : q[i].end_version \in Nat /\ q[i].end_version < next_version
  <2>1. DOMAIN W = 1 .. Len(chain) /\ Len(chain) \in Nat
    BY <1>1, <1>3, MarkWritesFact
  <2>2. /\ checkpoint \in Nat /\ checkpoint <= Len(chain) /\ next_version \in Nat
        /\ next_version <= Len(chain) + 1
    BY <1>3 DEF IInv, ExtentInv
  <2>3. Start \in Nat /\ Start <= next_version
    BY <1>3, <2>2 DEF IInv, BatchInv, Start
  <2>4. \A i \in 1 .. Len(q) : q[i].end_version \in Nat /\ q[i].end_version < next_version
    BY <1>2, <1>3 DEF IInv, QueueInv
  <2> QED BY <2>1, <2>2, <2>3, <2>4
<1>14. MarksInv(W)'
  <2>1. MarksOnTheirWay(e, q, 0, W, 1 .. checkpoint)
    <3>1. 1 .. checkpoint \subseteq DOMAIN W
      BY <1>13
    <3>2. MarksOnTheirWay(d, q, 0, W, 1 .. checkpoint)
      BY <1>2, <1>3 DEF MarksInv
    <3> QED BY <1>11, <3>1, <3>2
  <2>2. ASSUME NEW i \in 1 .. Len(q) PROVE MarksOnTheirWay(e, q, i, W, 1 .. q[i].end_version)
    <3>1. 1 .. q[i].end_version \subseteq DOMAIN W
      <4>1. PICK x \in Nat : x = q[i].end_version /\ x < next_version
        BY <1>13
      <4> QED BY <1>13, <4>1
    <3>2. MarksOnTheirWay(d, q, i, W, 1 .. q[i].end_version)
      BY <1>2, <1>3 DEF MarksInv
    <3> QED BY <1>11, <3>1, <3>2
  <2>3. MarksOnTheirWay(e, q, Len(q), W, 1 .. Start - 1)
    <3>1. 1 .. Start - 1 \subseteq DOMAIN W
      BY <1>13
    <3>2. MarksOnTheirWay(d, q, Len(q), W, 1 .. Start - 1)
      BY <1>2, <1>3 DEF MarksInv
    <3> QED BY <1>11, <3>1, <3>2
  <2>4. Start' = Start
    BY <1>4 DEF Start
  <2>5. /\ queue' = q /\ db' = e /\ checkpoint' = checkpoint /\ Head(q).rows = rows
        /\ batch' = batch /\ next_version' = next_version /\ batch_end' = batch_end
        /\ batch_start' = batch_start
    BY <1>2, <1>4
  <2>6. BatchMarks(batch.rows, W, next_version - 1)
        /\ \A i \in 1 .. Len(q) : BatchMarks(q[i].rows, W, q[i].end_version)
    BY <1>2, <1>3 DEF MarksInv
  <2>7. batch_end # 0 => \A v \in batch_start .. next_version - 1 :
          \A k \in DOMAIN W[v] : IsMark(k) => k \in DOMAIN batch.rows
    BY <1>3 DEF MarksInv
  <2> QED BY <1>4, <1>10, <1>12, <2>1, <2>2, <2>3, <2>4, <2>5, <2>6, <2>7 DEF MarksInv
<1>15. Writes(p)' = W
  BY <1>1, <1>4 DEF Writes, Versions
<1> QED BY <1>14, <1>15

LEMMA MarksFinish ==
    ASSUME KeysWired, KeysChains, KeysInv, FinishBatch
    PROVE  MarksInv(Writes("account_restoration"))'
<1> DEFINE p == "account_restoration"
<1>1. PICK W : W = Writes(p)
  OBVIOUS
<1>2. PICK q, r, c, rows : q = queue /\ r = queue' /\ c = checkpoint' /\ rows = Head(q).rows
  OBVIOUS
<1>3. IInv /\ ExtentInv /\ MarksInv(W)
  BY <1>1 DEF KeysInv, RowsInv
<1>4. /\ q # <<>> /\ committed = StatementsOf(rows) /\ r = Tail(q) /\ committed' = {}
      /\ c \in {checkpoint, Head(q).end_version}
      /\ UNCHANGED <<processor, chain, db, batch, batch_start, batch_end, next_version>>
  BY <1>2 DEF FinishBatch
<1>5. PICK S : q \in Seq(S)
  BY <1>2, <1>3 DEF IInv, QueueInv
<1>6. PICK m : m = Len(q)
  OBVIOUS
<1>7. /\ m \in Nat \ {0} /\ Head(q) = q[1] /\ Len(r) = m - 1 /\ r \in Seq(S)
      /\ \A i \in 1 .. m - 1 : r[i] = q[i + 1]
  BY <1>4, <1>5, <1>6
<1>8. \A k \in DOMAIN rows : IsMark(k) => HasMark(db, k)
  <2>1. \A k \in DOMAIN rows : CommitGroup(k[1]) \in committed
    BY <1>4 DEF StatementsOf
  <2> QED BY <1>2, <1>3, <1>4, <2>1 DEF MarksInv
<1>9. ASSUME NEW i \in 1 .. m, NEW n, MarksOnTheirWay(db, q, i, W, 1 .. n)
      PROVE  MarksOnTheirWay(db, r, i - 1, W, 1 .. n)
  <2>1. ASSUME NEW v \in 1 .. n, NEW k \in DOMAIN W[v], IsMark(k), ~HasMark(db, k)
        PROVE  \E j \in 1 .. i - 1 : k \in DOMAIN r[j].rows
    <3>1. PICK j \in 1 .. i : k \in DOMAIN q[j].rows
      BY <1>9, <2>1 DEF MarksOnTheirWay
    <3>2. j # 1
      BY <1>2, <1>7, <1>8, <2>1, <3>1
    <3>3. j - 1 \in 1 .. i - 1 /\ j - 1 \in 1 .. m - 1 /\ (j - 1) + 1 = j
      BY <1>7, <3>1, <3>2
    <3>4. r[j - 1] = q[j]
      BY <1>7, <3>3
    <3> QED BY <3>1, <3>3, <3>4
  <2> QED BY <2>1 DEF MarksOnTheirWay
<1>10. MarksOnTheirWay(db, r, 0, W, 1 .. c)
  <2>1. MarksOnTheirWay(db, r, 0, W, 1 .. checkpoint)
    BY <1>2, <1>3 DEF MarksInv, MarksOnTheirWay
  <2>2. 1 \in 1 .. m /\ 1 - 1 = 0
    BY <1>7
  <2>3. MarksOnTheirWay(db, q, 1, W, 1 .. q[1].end_version)
    BY <1>2, <1>3, <1>6, <2>2 DEF MarksInv
  <2>4. MarksOnTheirWay(db, r, 0, W, 1 .. q[1].end_version)
    <3>1. MarksOnTheirWay(db, r, 1 - 1, W, 1 .. q[1].end_version)
      BY <1>9, <2>2, <2>3
    <3> QED BY <2>2, <3>1
  <2> QED BY <1>4, <1>7, <2>1, <2>4
<1>11. ASSUME NEW i \in 1 .. Len(r)
       PROVE  /\ MarksOnTheirWay(db, r, i, W, 1 .. r[i].end_version)
              /\ BatchMarks(r[i].rows, W, r[i].end_version)
  <2>1. i + 1 \in 1 .. m /\ r[i] = q[i + 1] /\ (i + 1) - 1 = i
    BY <1>6, <1>7
  <2>2. /\ MarksOnTheirWay(db, q, i + 1, W, 1 .. q[i + 1].end_version)
        /\ BatchMarks(q[i + 1].rows, W, q[i + 1].end_version)
    BY <1>2, <1>3, <1>6, <2>1 DEF MarksInv
  <2>3. MarksOnTheirWay(db, r, (i + 1) - 1, W, 1 .. q[i + 1].end_version)
    BY <1>9, <2>1, <2>2
  <2> QED BY <2>1, <2>2, <2>3
<1>12. MarksInv(W)'
  <2>1. MarksOnTheirWay(db, r, Len(r), W, 1 .. Start - 1)
    <3>1. MarksOnTheirWay(db, q, m, W, 1 .. Start - 1)
      BY <1>2, <1>3, <1>6 DEF MarksInv
    <3>2. m \in 1 .. m
      BY <1>7
    <3> QED BY <1>7, <1>9, <3>1, <3>2
  <2>2. Start' = Start
    BY <1>4 DEF Start
  <2>3. /\ queue' = r /\ db' = db /\ checkpoint' = c /\ committed' = {} /\ batch' = batch
        /\ next_version' = next_version /\ batch_end' = batch_end /\ batch_start' = batch_start
    BY <1>2, <1>4
  <2>4. /\ TableMarks(db, W) /\ BatchMarks(batch.rows, W, next_version - 1)
        /\ batch_end # 0 => \A v \in batch_start .. next_version - 1 :
             \A k \in DOMAIN W[v] : IsMark(k) => k \in DOMAIN batch.rows
    BY <1>3 DEF MarksInv
  <2> QED BY <1>10, <1>11, <2>1, <2>2, <2>3, <2>4 DEF MarksInv
<1>13. Writes(p)' = W
  BY <1>1, <1>4 DEF Writes, Versions
<1> QED BY <1>12, <1>13

LEMMA MarksCrash ==
    ASSUME KeysWired, KeysChains, KeysInv, Crash
    PROVE  MarksInv(Writes("account_restoration"))'
<1> DEFINE p == "account_restoration"
<1>1. PICK W : W = Writes(p)
  OBVIOUS
<1>2. processor = p /\ IInv /\ MarksInv(W)
  BY <1>1 DEF KeysInv, RowsInv
<1>3. /\ batch' = FirstBatch(p, db) /\ batch_end' = 0 /\ queue' = <<>> /\ committed' = {}
      /\ next_version' = IF checkpoint = 0 THEN 1 ELSE checkpoint
      /\ UNCHANGED <<processor, chain, db, checkpoint>>
  BY <1>2 DEF Crash, GetStartingVersion
<1>4. checkpoint \in Nat
  BY <1>2 DEF IInv
<1>5. BatchMarks(batch'.rows, W, next_version' - 1)
  <2>1. DOMAIN batch'.rows = {}
    BY <1>3, KeyNewBatchFact DEF KeysWired
  <2> QED BY <2>1 DEF BatchMarks
<1>6. MarksInv(W)'
  <2>1. MarksOnTheirWay(db, <<>>, 0, W, 1 .. checkpoint) /\ TableMarks(db, W)
    BY <1>2 DEF MarksInv, MarksOnTheirWay
  <2>2. Start' = next_version' /\ \A v \in 1 .. next_version' - 1 : v \in 1 .. checkpoint
    BY <1>3, <1>4 DEF Start
  <2>3. MarksOnTheirWay(db, <<>>, 0, W, 1 .. next_version' - 1)
    BY <2>1, <2>2 DEF MarksOnTheirWay
  <2> QED BY <1>3, <1>5, <2>1, <2>2, <2>3 DEF MarksInv
<1>7. Writes(p)' = W
  BY <1>1, <1>3 DEF Writes, Versions
<1> QED BY <1>6, <1>7

LEMMA MarksInit ==
    ASSUME KeysWired, KeysChains, processor = "account_restoration", Init
    PROVE  KeysInv
<1> DEFINE p == "account_restoration"
<1>1. /\ db = NoRows /\ batch = FirstBatch(p, NoRows) /\ batch_end = 0 /\ queue = <<>>
      /\ checkpoint = 0 /\ next_version = 1
  BY DEF Init
<1>2. RowsInv(p, AuthKeyKeys)
  BY AuthKeysLatestWin, RowsInit
<1>3. PICK W : W = Writes(p)
  OBVIOUS
<1>4. BatchMarks(batch.rows, W, next_version - 1)
  <2>1. DOMAIN batch.rows = {}
    BY <1>1, KeyNewBatchFact DEF KeysWired
  <2> QED BY <2>1 DEF BatchMarks
<1>5. TableMarks(db, W)
  BY <1>1 DEF TableMarks, NoRows
<1>6. MarksInv(W)
  <2>1. \A v \in 1 .. 0 : FALSE
    OBVIOUS
  <2>2. Start - 1 = 0
    BY <1>1 DEF Start
  <2> QED BY <1>1, <1>4, <1>5, <2>1, <2>2 DEF MarksInv, MarksOnTheirWay
<1> QED BY <1>2, <1>3, <1>6 DEF KeysInv

LEMMA KeysNext ==
    ASSUME KeysWired, KeysChains, KeysInv, [Next]_vars
    PROVE  KeysInv'
<1> DEFINE p == "account_restoration"
<1>1. RowsInv(p, AuthKeyKeys)' /\ processor' = p
  BY AuthKeysLatestWin, RowsNext DEF KeysInv
<1>2. SUFFICES MarksInv(Writes(p))'
  BY <1>1 DEF KeysInv
<1>3. CASE UNCHANGED vars
  <2>1. Writes(p)' = Writes(p) /\ Start' = Start
    BY <1>3 DEF Writes, Versions, Start, vars
  <2>2. MarksInv(Writes(p))
    BY DEF KeysInv
  <2> QED BY <1>3, <2>1, <2>2 DEF MarksInv, vars
<1>4. CASE Terminated
  BY <1>3, <1>4 DEF Terminated
<1> QED BY <1>3, <1>4, MarksExtract, MarksSend, MarksCommit, MarksFinish, MarksCrash DEF Next

\* The sender's Account resource is the one row of the transaction.
LEMMA SenderFact ==
    ASSUME NEW txn, KeyRestorationTransaction(txn), NEW i \in Items(txn, "Account"),
           txn[i].address = Request(txn).sender
    PROVE  /\ KeyChanges(txn) # {} => AuthKeyOf(txn) = txn[i].auth_key
           /\ txn[i].auth_key # Request(txn).sender => KeyChanges(txn) # {}
           /\ KeysOf(txn) # NoKeys => KeyChanges(txn) # {}
<1>1. \A j \in KeyChanges(txn) : j = i
  BY DEF KeyChanges, KeyRestorationTransaction
<1>2. ASSUME KeyChanges(txn) # {} PROVE AuthKeyOf(txn) = txn[i].auth_key
  <2>1. KeyChanges(txn) \in SUBSET (1 .. Len(txn)) /\ Len(txn) \in Nat
    BY KeyItems
  <2>2. LastOf(KeyChanges(txn)) \in KeyChanges(txn)
    BY <1>2, <2>1, LastOfFact
  <2> QED BY <1>1, <2>2 DEF AuthKeyOf
<1>3. Qualifies(Request(txn), Items(txn, "KeyRotationToPublicKey") # {}, txn[i].auth_key)
        => i \in KeyChanges(txn)
  BY DEF KeyChanges
<1>4. txn[i].auth_key # Request(txn).sender => KeyChanges(txn) # {}
  BY <1>3 DEF Qualifies
<1>5. KeysOf(txn) # NoKeys => KeyChanges(txn) # {}
  BY <1>3, KeysOfFact DEF Qualifies
<1> QED BY <1>2, <1>4, <1>5

\* A version marks a key exactly if it was signed with or verified in it.
LEMMA MarkedFact ==
    ASSUME KeysWired, KeysChains, chain \in Histories("account_restoration"),
           NEW W, W = Writes("account_restoration"), NEW v \in DOMAIN W, NEW t, IsMark(t)
    PROVE  Marked(W, t, v) <=>
             /\ Request(chain[v]).success
             /\ \E i \in Items(chain[v], "Account") :
                  /\ chain[v][i].address = Request(chain[v]).sender
                  /\ chain[v][i].auth_key = t[2]
             /\ \E i \in DOMAIN KeysOf(chain[v]) : KeysOf(chain[v])[i] = [key |-> t[3], used |-> TRUE]
<1>1. PICK txn, w, keys, k : /\ txn = chain[v] /\ w = KeyRows(txn, v) /\ keys = KeysOf(txn)
                             /\ k = MarkAt(t, v)
  OBVIOUS
<1>2. /\ KeyRestorationTransaction(txn) /\ DOMAIN W[v] = DOMAIN w
      /\ \A x \in DOMAIN w : W[v][x] = w[x]
  BY <1>1, MarkWritesFact
<1>3. IsMark(k) /\ k[3] = t[3]
  BY <1>1 DEF MarkAt, IsMark
<1>4. k \in DOMAIN w <=> Kept(txn) /\ t[2] = AuthKeyOf(txn) /\ Listed(txn, t[3])
  BY <1>1, <1>2, KeyRowsFact
<1>5. k \in DOMAIN w => w[k] = MarkRow(txn, t[3], v)
  BY <1>1, <1>2, <1>3, KeyRowsFact
<1>6. MarkRow(txn, t[3], v).is_public_key_used <=> \E i \in DOMAIN keys : keys[i].key = t[3] /\ keys[i].used
  BY <1>1 DEF MarkRow, UsedFirst
<1>7. \A i \in DOMAIN keys : keys[i].key = t[3] /\ keys[i].used <=> keys[i] = [key |-> t[3], used |-> TRUE]
  <2>1. PICK L, R : L = PublicKeys \cup {Threshold} /\ R = [key : L, used : BOOLEAN]
    OBVIOUS
  <2>2. keys \in Seq(R)
    BY <1>1, <1>2, <2>1, KeysOfFact
  <2>3. ASSUME NEW i \in DOMAIN keys
        PROVE  keys[i].key = t[3] /\ keys[i].used <=> keys[i] = [key |-> t[3], used |-> TRUE]
    <3>1. keys[i] \in R
      BY <2>2
    <3>2. keys[i] = [key |-> keys[i].key, used |-> keys[i].used] /\ keys[i].used \in BOOLEAN
      BY <2>1, <3>1
    <3> QED BY <3>2
  <2> QED BY <2>3
<1>8. Marked(W, t, v) <=> /\ Kept(txn) /\ t[2] = AuthKeyOf(txn) /\ Listed(txn, t[3])
                          /\ \E i \in DOMAIN keys : keys[i].key = t[3] /\ keys[i].used
  BY <1>1, <1>2, <1>4, <1>5, <1>6 DEF Marked
<1>9. ASSUME Kept(txn)
      PROVE  \E i \in Items(txn, "Account") : txn[i].address = Request(txn).sender
                                              /\ txn[i].auth_key = AuthKeyOf(txn)
  <2>1. PICK i \in KeyChanges(txn) : TRUE
    BY <1>9 DEF Kept
  <2>2. i \in Items(txn, "Account") /\ txn[i].address = Request(txn).sender
    BY <2>1 DEF KeyChanges
  <2> QED BY <1>2, <2>1, <2>2, SenderFact
<1>10. ASSUME Request(txn).success, NEW i \in Items(txn, "Account"),
              txn[i].address = Request(txn).sender, txn[i].auth_key = t[2],
              NEW j \in DOMAIN keys, keys[j].key = t[3]
       PROVE  Kept(txn) /\ t[2] = AuthKeyOf(txn) /\ Listed(txn, t[3])
  <2>1. keys # NoKeys
    BY <1>10 DEF NoKeys
  <2>2. KeyChanges(txn) # {} /\ AuthKeyOf(txn) = txn[i].auth_key
    BY <1>1, <1>2, <1>10, <2>1, SenderFact
  <2> QED BY <1>1, <1>10, <2>2 DEF Kept, Listed
<1>11. Kept(txn) => Request(txn).success
  BY DEF Kept
<1> QED BY <1>1, <1>7, <1>8, <1>9, <1>10, <1>11

LEMMA KeysSigned ==
    ASSUME KeysWired, KeysChains, KeysInv
    PROVE  UsedIffSigned
<1> DEFINE p == "account_restoration"
<1>1. PICK W : W = Writes(p)
  OBVIOUS
<1>2. chain \in Histories(p) /\ TableMarks(db, W)
  BY <1>1 DEF KeysInv, RowsInv, MarksInv
<1>3. DOMAIN W = 1 .. Len(chain) /\ Len(chain) \in Nat
  BY <1>1, <1>2, MarkWritesFact
<1>4. ASSUME NEW k \in DOMAIN db, IsMark(k)
      PROVE  db[k].is_public_key_used =
               \E v \in 1 .. db[k].v :
                 /\ Request(chain[v]).success
                 /\ \E i \in Items(chain[v], "Account") :
                      /\ chain[v][i].address = Request(chain[v]).sender
                      /\ chain[v][i].auth_key = k[2]
                 /\ \E i \in DOMAIN KeysOf(chain[v]) :
                      KeysOf(chain[v])[i] = [key |-> k[3], used |-> TRUE]
  <2> DEFINE signed(v) ==
                 /\ Request(chain[v]).success
                 /\ \E i \in Items(chain[v], "Account") :
                      /\ chain[v][i].address = Request(chain[v]).sender
                      /\ chain[v][i].auth_key = k[2]
                 /\ \E i \in DOMAIN KeysOf(chain[v]) :
                      KeysOf(chain[v])[i] = [key |-> k[3], used |-> TRUE]
  <2>1. PICK last, used : last = db[k].v /\ used = db[k].is_public_key_used
    OBVIOUS
  <2>2. /\ last \in DOMAIN W /\ used \in BOOLEAN
        /\ used <=> \E v \in 1 .. last : Marked(W, k, v)
    BY <1>2, <1>4, <2>1 DEF TableMarks
  <2>3. \A v \in DOMAIN W : Marked(W, k, v) <=> signed(v)
    BY <1>1, <1>2, <1>4, MarkedFact
  <2>4. \A v \in 1 .. last : v \in DOMAIN W
    BY <1>3, <2>2
  <2> HIDE DEF signed
  <2>5. used <=> \E v \in 1 .. last : signed(v)
    BY <2>2, <2>3, <2>4
  <2>6. used = \E v \in 1 .. last : signed(v)
    BY <2>2, <2>5
  <2> QED BY <2>1, <2>6 DEF signed
<1> QED BY <1>4 DEF UsedIffSigned, IsMark

LEMMA AccountsFollow ==
    ASSUME KeysWired, KeysChains, KeysInv
    PROVE  AccountKeyFollowsChain
<1> DEFINE p == "account_restoration"
<1>1. PICK W : W = Writes(p)
  OBVIOUS
<1>2. /\ chain \in Histories(p) /\ RowsInv(p, AuthKeyKeys) /\ Sound(db, W, AuthKeyKeys)
      /\ LatestWins(p, AuthKeyKeys)
  BY <1>1, AuthKeysLatestWin DEF KeysInv, RowsInv, SoundInv
<1>3. /\ DOMAIN W = 1 .. Len(chain) /\ Len(chain) \in Nat /\ Versions = DOMAIN W
      /\ \A v \in DOMAIN W : /\ KeyRestorationTransaction(chain[v])
                             /\ DOMAIN W[v] = DOMAIN KeyRows(chain[v], v)
                             /\ \A k \in DOMAIN W[v] : W[v][k] = KeyRows(chain[v], v)[k]
                             /\ W[v] = RowsOf(p, chain[v], v)
  BY <1>1, <1>2, MarkWritesFact, WritesFact DEF Versions
<1>4. SUFFICES ASSUME Quiet, NEW a \in Senders
               PROVE  LET Own(c) == c.type = "Account" /\ c.address = a
                          v == LastOf({w \in VersionsWith(Own) : Sent(a, chain[w])})
                          k == <<"auth_key_account_addresses", a>>
                      IN v # 0 =>
                           LET auth_key == LastIn(chain[v], Own).auth_key
                           IN /\ auth_key # a => k \in DOMAIN db /\ db[k].v = v
                              /\ k \in DOMAIN db =>
                                   /\ db[k].v = v => db[k].auth_key = auth_key
                                   /\ db[k].is_auth_key_used =
                                        (Request(chain[db[k].v]).function # "rotate_unverified")
  BY DEF AccountKeyFollowsChain
<1> DEFINE Own(c) == c.type = "Account" /\ c.address = a
           S == {w \in VersionsWith(Own) : Sent(a, chain[w])}
           v == LastOf(S)
           k == AuthKey(a)
<1>5. SUFFICES ASSUME v # 0
               PROVE  /\ LastIn(chain[v], Own).auth_key # a => k \in DOMAIN db /\ db[k].v = v
                      /\ k \in DOMAIN db =>
                           /\ db[k].v = v => db[k].auth_key = LastIn(chain[v], Own).auth_key
                           /\ db[k].is_auth_key_used =
                                (Request(chain[db[k].v]).function # "rotate_unverified")
  BY DEF AuthKey
<1>6. S \in SUBSET (1 .. Len(chain)) /\ S # {}
  BY <1>5 DEF VersionsWith, Versions, LastOf
<1>7. \A w \in DOMAIN W : w \in S <=> /\ \E i \in DOMAIN chain[w] : Own(chain[w][i])
                                      /\ Request(chain[w]).sender = a /\ Request(chain[w]).success
  BY <1>3 DEF VersionsWith, Sent
<1>8. v \in S /\ (\A w \in S : w <= v) /\ v \in DOMAIN W
  <2> HIDE DEF S
  <2> QED BY <1>3, <1>6, LastOfFact
<1>9. ASSUME NEW w \in DOMAIN W, k \in DOMAIN W[w]
      PROVE  /\ w \in S /\ W[w][k] = AuthRow(chain[w], w) /\ Kept(chain[w])
  <2>1. /\ Kept(chain[w]) /\ a = Request(chain[w]).sender
        /\ KeyRows(chain[w], w)[AuthKey(Request(chain[w]).sender)] = AuthRow(chain[w], w)
    BY <1>3, <1>9, KeyRowsFact
  <2>2. PICK i \in KeyChanges(chain[w]) : TRUE
    BY <2>1 DEF Kept
  <2>3. i \in DOMAIN chain[w] /\ Own(chain[w][i])
    BY <2>1, <2>2 DEF KeyChanges, Items
  <2> HIDE DEF S, Own
  <2> QED BY <1>3, <1>7, <1>9, <2>1, <2>3 DEF Kept
<1>10. PICK txn : txn = chain[v]
  OBVIOUS
<1>11. PICK i \in DOMAIN txn : Own(txn[i])
  BY <1>7, <1>8, <1>10
<1>12. KeyRestorationTransaction(txn) /\ i \in Items(txn, "Account") /\ txn[i].address = a
       /\ Request(txn).sender = a /\ Request(txn).success
  <2>1. Request(txn).sender = a /\ Request(txn).success
    BY <1>7, <1>8, <1>10
  <2> QED BY <1>3, <1>8, <1>10, <1>11, <2>1 DEF Items
<1>13. LastIn(txn, Own) = txn[i]
  <2>1. \A j \in DOMAIN txn : Own(txn[j]) => j = i
    BY <1>12 DEF KeyRestorationTransaction, Items
  <2>2. i \in Nat
    BY <1>12, KeyItems
  <2> HIDE DEF Own
  <2>3. i = CHOOSE x \in DOMAIN txn : Own(txn[x]) /\ \A j \in DOMAIN txn : Own(txn[j]) => j <= x
    BY <1>11, <2>1, <2>2
  <2> QED BY <2>3 DEF LastIn
<1>14. k \in AuthKeyKeys
  BY DEF AuthKeyKeys
<1>15. LastRows(p, AuthKeyKeys)
  BY <1>2, <1>4, RowsQuiet
<1> HIDE DEF S, v, k, Own
<1>16. k \in DOMAIN db => /\ db[k].v \in DOMAIN W /\ k \in DOMAIN W[db[k].v]
                          /\ db[k] = W[db[k].v][k]
  BY <1>2, <1>14 DEF Sound
<1>17. ASSUME txn[i].auth_key # a PROVE k \in DOMAIN db /\ db[k].v = v
  <2>1. KeyChanges(txn) # {}
    BY <1>12, <1>17, SenderFact
  <2>2. k \in DOMAIN W[v]
    <3>1. AuthKey(a) \in DOMAIN KeyRows(txn, v)
      BY <1>12, <2>1, KeyRowsFact DEF Kept
    <3> QED BY <1>3, <1>8, <1>10, <3>1 DEF k
  <2>3. k \in DOMAIN db /\ db[k] = W[v][k]
    <3>1. \A w \in Versions : k \in DOMAIN RowsOf(p, chain[w], w) => w <= v
      BY <1>3, <1>8, <1>9
    <3> QED BY <1>3, <1>8, <1>14, <1>15, <2>2, <3>1 DEF LastRows
  <2> QED BY <1>8, <1>9, <2>2, <2>3 DEF AuthRow
<1>18. ASSUME k \in DOMAIN db
       PROVE  /\ db[k].v = v => db[k].auth_key = txn[i].auth_key
              /\ db[k].is_auth_key_used = (Request(chain[db[k].v]).function # "rotate_unverified")
  <2>1. PICK w : w = db[k].v
    OBVIOUS
  <2>2. w \in DOMAIN W /\ db[k] = AuthRow(chain[w], w) /\ Kept(chain[w])
    BY <1>9, <1>16, <1>18, <2>1
  <2>3. /\ db[k].auth_key = AuthKeyOf(chain[w])
        /\ db[k].is_auth_key_used = (Request(chain[w]).function # "rotate_unverified")
    BY <2>2 DEF AuthRow
  <2>4. w = v => AuthKeyOf(chain[w]) = txn[i].auth_key
    BY <1>10, <1>12, <2>2, SenderFact DEF Kept
  <2> QED BY <2>1, <2>3, <2>4
<1> QED BY <1>10, <1>13, <1>17, <1>18

\* An account is found under the key its own last transaction left it with, and a
\* public key is marked as used exactly if it signed, or was verified, in a stored
\* transaction: whatever the chain and the batches, through crashes and restarts that
\* store versions a second time, and although Postgres refuses two rows of one key in
\* one insert.
THEOREM KeysAreCorrect ==
    ASSUME KeysWired, KeysChains
    PROVE  Spec => []KeyTablesCorrect
<1> DEFINE p == "account_restoration"
           Inv == processor = p => KeysInv
<1>1. Init => Inv
  BY MarksInit
<1>2. Inv /\ [Next]_vars => Inv'
  <2> SUFFICES ASSUME Inv, [Next]_vars PROVE Inv'
    OBVIOUS
  <2>1. processor' = processor
    BY DEF Next, ExtractTransaction, SendBatch, CommitStatement, FinishBatch, Crash, Terminated, vars
  <2>2. CASE processor = p
    BY <2>2, KeysNext
  <2>3. CASE processor # p
    BY <2>1, <2>3
  <2> QED BY <2>2, <2>3
<1>3. Inv => KeyTablesCorrect
  <2>1. CASE processor = p
    BY <2>1, KeysSigned, AccountsFollow DEF KeyTablesCorrect
  <2>2. CASE processor # p
    BY <2>2 DEF KeyTablesCorrect, AccountKeyFollowsChain, UsedIffSigned
  <2> QED BY <2>1, <2>2
<1> HIDE DEF Inv
<1> QED BY <1>1, <1>2, <1>3, PTL DEF Spec
-----------------------------------------------------------------------------
(***************************************************************************)
(* The columns of the tables.  Every row has those of its table, the       *)
(* version it was written at among them if the table is a current one, so  *)
(* that a storer's comparison of versions always compares numbers.         *)
(***************************************************************************)
BalanceColumns ==
    {"owner", "asset_v1", "amount_v1", "version_v1", "asset_v2", "amount_v2", "version_v2",
     "is_primary", "is_frozen"}

BalanceStatements == {"cufab_v1", "cufab_v2"}

Columns(s) ==
    CASE s \in {"objects", "current_objects"} -> {"v", "owner", "is_deleted", "untransferrable"}
      [] s = "current_staking_pool_voter" -> {"v", "voter"}
      [] s = "proposal_votes" -> {"pool"}
      [] s = "delegated_staking_activities" -> {"pool", "event"}
      [] s \in {"delegator_balances", "current_delegator_balances"} -> {"v", "shares", "parent"}
      [] s = "delegated_staking_pools" -> {"first"}
      [] s \in {"delegated_staking_pool_balances", "current_delegated_staking_pool_balances"} ->
           {"v"}
      [] s = "current_delegated_voter" -> {"v", "voter", "table_handle"}
      [] s = "fungible_asset_activities" -> {"owner", "asset", "storage"}
      [] s = "fungible_asset_metadata" -> {"v", "creator", "supply"}
      [] s = "fungible_asset_to_coin_mappings" -> {"v", "coin"}
      [] s \in {"cufab_v1", "cufab_v2", "current_fungible_asset_balances"} -> BalanceColumns
      [] s = "current_collections_v2" -> {"v", "creator", "supply", "table_handle_v1"}
      [] s \in {"current_token_datas_v2", "current_deleted_token_datas_v2"} ->
           {"v", "name", "is_deleted_v2"}
      [] s \in {"current_token_ownerships_v2", "current_deleted_token_ownerships_v2"} ->
           {"v", "amount", "is_soulbound_v2"}
      [] s = "token_activities_v2" -> {"token", "from", "to"}
      [] s = "current_token_royalty_v1" -> {"v", "payee"}
      [] s = "current_token_pending_claims" -> {"v", "amount", "table_handle"}
      [] s = "current_ans_lookup_v2" -> {"v", "target", "is_deleted", "policy"}
      [] s = "current_ans_primary_name_v2" -> {"v", "name", "is_deleted"}
      [] s = "auth_key_account_addresses" -> {"v", "auth_key", "is_auth_key_used"}
      [] s = "public_key_auth_keys" -> {"v", "is_public_key_used"}

\* A row of statement or table s.  The coin of a v1 balance is known, and the version
\* of the half of a balance that a statement writes.
IsRow(s, row) ==
    /\ DOMAIN row = Columns(s)
    /\ "v" \in Columns(s) => row.v \in Nat
    /\ Columns(s) = BalanceColumns =>
          row.version_v1 \in Nat \cup {None} /\ row.version_v2 \in Nat \cup {None}
    /\ s = "cufab_v1" => row.asset_v1 # None /\ row.version_v1 \in Nat
    /\ s = "cufab_v2" => row.version_v2 \in Nat

\* Rows of statements of p.
AreRows(p, rows) ==
    \A k \in DOMAIN rows : 1 \in DOMAIN k /\ k[1] \in StorerStatements(p) /\ IsRow(k[1], rows[k])

\* The tables that the statements of p write.
TablesOfStorer(p) == StorerStatements(p) \cup {"current_fungible_asset_balances"}

AreTables(p, d) ==
    \A t \in DOMAIN d : t[1] \in TablesOfStorer(p) /\ IsRow(t[1], d[t])

\* A batch of p whose errors are at versions in E.
IsBatchOf(p, b, E) == IsBatch(b) /\ AreRows(p, b.rows) /\ b.errors \subseteq E

LEMMA ColumnsFact ==
    /\ Columns("objects") = {"v", "owner", "is_deleted", "untransferrable"}
    /\ Columns("current_objects") = {"v", "owner", "is_deleted", "untransferrable"}
    /\ Columns("current_staking_pool_voter") = {"v", "voter"}
    /\ Columns("proposal_votes") = {"pool"}
    /\ Columns("delegated_staking_activities") = {"pool", "event"}
    /\ Columns("delegator_balances") = {"v", "shares", "parent"}
    /\ Columns("current_delegator_balances") = {"v", "shares", "parent"}
    /\ Columns("delegated_staking_pools") = {"first"}
    /\ Columns("delegated_staking_pool_balances") = {"v"}
    /\ Columns("current_delegated_staking_pool_balances") = {"v"}
    /\ Columns("current_delegated_voter") = {"v", "voter", "table_handle"}
    /\ Columns("fungible_asset_activities") = {"owner", "asset", "storage"}
    /\ Columns("fungible_asset_metadata") = {"v", "creator", "supply"}
    /\ Columns("fungible_asset_to_coin_mappings") = {"v", "coin"}
    /\ Columns("cufab_v1") = BalanceColumns
    /\ Columns("cufab_v2") = BalanceColumns
    /\ Columns("current_fungible_asset_balances") = BalanceColumns
    /\ Columns("current_collections_v2") = {"v", "creator", "supply", "table_handle_v1"}
    /\ Columns("current_token_datas_v2") = {"v", "name", "is_deleted_v2"}
    /\ Columns("current_deleted_token_datas_v2") = {"v", "name", "is_deleted_v2"}
    /\ Columns("current_token_ownerships_v2") = {"v", "amount", "is_soulbound_v2"}
    /\ Columns("current_deleted_token_ownerships_v2") = {"v", "amount", "is_soulbound_v2"}
    /\ Columns("token_activities_v2") = {"token", "from", "to"}
    /\ Columns("current_token_royalty_v1") = {"v", "payee"}
    /\ Columns("current_token_pending_claims") = {"v", "amount", "table_handle"}
    /\ Columns("current_ans_lookup_v2") = {"v", "target", "is_deleted", "policy"}
    /\ Columns("current_ans_primary_name_v2") = {"v", "name", "is_deleted"}
    /\ Columns("auth_key_account_addresses") = {"v", "auth_key", "is_auth_key_used"}
    /\ Columns("public_key_auth_keys") = {"v", "is_public_key_used"}
BY DEF Columns

IsFcn(f) == f = [x \in DOMAIN f |-> f[x]]

\* new is rows with one more row.
IsPut(new, rows, k, row) ==
    /\ DOMAIN new = DOMAIN rows \cup {k} /\ new[k] = row
    /\ \A x \in DOMAIN rows : x # k => new[x] = rows[x]

LEMMA PutFact ==
    ASSUME NEW rows, NEW k, NEW row
    PROVE  IsPut(Put(rows, k, row), rows, k, row) /\ IsFcn(Put(rows, k, row))
<1>1. PICK one : one = [x \in {k} |-> row]
  OBVIOUS
<1>2. PICK new : new = Over(one, rows)
  OBVIOUS
<1>3. IsOver(new, one, rows)
  BY <1>2, OverFact
<1>4. DOMAIN one = {k} /\ one[k] = row
  BY <1>1
<1>5. IsPut(new, rows, k, row)
  BY <1>3, <1>4 DEF IsPut, IsOver
<1>6. IsFcn(new)
  BY <1>3 DEF IsOver, IsFcn
<1> QED BY <1>1, <1>2, <1>5, <1>6 DEF Put

LEMMA AreRowsPut ==
    ASSUME NEW p, NEW rows, AreRows(p, rows), NEW k, NEW row,
           1 \in DOMAIN k, k[1] \in StorerStatements(p), IsRow(k[1], row)
    PROVE  AreRows(p, Put(rows, k, row))
<1>1. PICK new : new = Put(rows, k, row)
  OBVIOUS
<1>2. IsPut(new, rows, k, row)
  BY <1>1, PutFact
<1> QED BY <1>1, <1>2 DEF AreRows, IsPut

LEMMA AreRowsOver ==
    ASSUME NEW p, NEW f, AreRows(p, f), NEW g, AreRows(p, g)
    PROVE  AreRows(p, Over(f, g)) /\ IsFcn(Over(f, g))
<1>1. PICK new : new = Over(f, g)
  OBVIOUS
<1>2. IsOver(new, f, g)
  BY <1>1, OverFact
<1> QED BY <1>1, <1>2 DEF AreRows, IsOver, IsFcn

LEMMA AreRowsNone == \A p : AreRows(p, NoRows)
<1>1. DOMAIN NoRows = {}
  BY DEF NoRows
<1> QED BY <1>1 DEF AreRows

\* A batch by its fields.
TheBatch(rows, aux, errs, panicked, txns) ==
    [rows |-> rows, aux |-> aux, errors |-> errs, panicked |-> panicked, transactions |-> txns]

LEMMA TheBatchFact ==
    ASSUME NEW r, NEW a, NEW e, NEW q, NEW w, NEW x
    PROVE  /\ TheBatch(r, a, e, q, w).rows = r /\ TheBatch(r, a, e, q, w).aux = a
           /\ TheBatch(r, a, e, q, w).errors = e
           /\ TheBatch(r, a, e, q, w).panicked = q /\ TheBatch(r, a, e, q, w).transactions = w
           /\ [TheBatch(r, a, e, q, w) EXCEPT !.rows = x] = TheBatch(x, a, e, q, w)
           /\ [TheBatch(r, a, e, q, w) EXCEPT !.aux = x] = TheBatch(r, x, e, q, w)
           /\ [TheBatch(r, a, e, q, w) EXCEPT !.errors = x] = TheBatch(r, a, x, q, w)
           /\ [TheBatch(r, a, e, q, w) EXCEPT !.panicked = x] = TheBatch(r, a, e, x, w)
           /\ [TheBatch(r, a, e, q, w) EXCEPT !.transactions = x] = TheBatch(r, a, e, q, x)
BY DEF TheBatch

LEMMA TheBatchOf ==
    ASSUME NEW p, NEW E, NEW r, AreRows(p, r), IsFcn(r), NEW a, NEW e, e \subseteq E, NEW q, NEW w
    PROVE  IsBatchOf(p, TheBatch(r, a, e, q, w), E)
<1>1. PICK b : b = TheBatch(r, a, e, q, w)
  OBVIOUS
<1>2. b.rows = r /\ b.aux = a /\ b.errors = e /\ b.panicked = q /\ b.transactions = w
  BY <1>1, TheBatchFact
<1>3. IsBatch(b)
  BY <1>1, <1>2 DEF IsBatch, TheBatch, IsFcn
<1> QED BY <1>1, <1>2, <1>3 DEF IsBatchOf

\* The ways a batch is changed leave it one of p.
LEMMA BatchOfSet ==
    ASSUME NEW p, NEW E, NEW b, IsBatchOf(p, b, E)
    PROVE  /\ IsBatch(b) /\ AreRows(p, b.rows)
           /\ \A a : IsBatchOf(p, [b EXCEPT !.aux = a], E) /\ [b EXCEPT !.aux = a].aux = a
           /\ \A w : IsBatchOf(p, [b EXCEPT !.transactions = w], E)
           /\ \A q : IsBatchOf(p, [b EXCEPT !.panicked = q], E)
           /\ \A v \in E : IsBatchOf(p, [b EXCEPT !.errors = @ \cup {v}], E)
           /\ \A rows : IsFcn(rows) /\ AreRows(p, rows) =>
                 IsBatchOf(p, [b EXCEPT !.rows = rows], E)
<1>1. PICK r, a, e, q, w : b = TheBatch(r, a, e, q, w) /\ r = b.rows /\ e = b.errors
  BY DEF IsBatchOf, IsBatch, TheBatch
<1>2. IsBatch(b) /\ AreRows(p, r) /\ IsFcn(r) /\ e \subseteq E
  BY <1>1 DEF IsBatchOf, IsBatch, IsFcn
<1>3. ASSUME NEW x PROVE IsBatchOf(p, [b EXCEPT !.aux = x], E) /\ [b EXCEPT !.aux = x].aux = x
  <2>1. [b EXCEPT !.aux = x] = TheBatch(r, x, e, q, w)
    BY <1>1, TheBatchFact
  <2>2. TheBatch(r, x, e, q, w).aux = x
    BY DEF TheBatch
  <2>3. IsBatchOf(p, TheBatch(r, x, e, q, w), E)
    BY <1>2, TheBatchOf
  <2> QED BY <2>1, <2>2, <2>3
<1>4. ASSUME NEW x PROVE IsBatchOf(p, [b EXCEPT !.transactions = x], E)
  <2>1. [b EXCEPT !.transactions = x] = TheBatch(r, a, e, q, x)
    BY <1>1, TheBatchFact
  <2>2. IsBatchOf(p, TheBatch(r, a, e, q, x), E)
    BY <1>2, TheBatchOf
  <2> QED BY <2>1, <2>2
<1>5. ASSUME NEW x PROVE IsBatchOf(p, [b EXCEPT !.panicked = x], E)
  <2>1. [b EXCEPT !.panicked = x] = TheBatch(r, a, e, x, w)
    BY <1>1, TheBatchFact
  <2>2. IsBatchOf(p, TheBatch(r, a, e, x, w), E)
    BY <1>2, TheBatchOf
  <2> QED BY <2>1, <2>2
<1>6. ASSUME NEW v \in E PROVE IsBatchOf(p, [b EXCEPT !.errors = @ \cup {v}], E)
  <2>1. PICK x : x = e \cup {v}
    OBVIOUS
  <2>2. [b EXCEPT !.errors = @ \cup {v}] = [b EXCEPT !.errors = x]
    BY <1>1, <2>1
  <2>3. [b EXCEPT !.errors = x] = TheBatch(r, a, x, q, w)
    BY <1>1, TheBatchFact
  <2>4. IsBatchOf(p, TheBatch(r, a, x, q, w), E)
    BY <1>2, <2>1, TheBatchOf
  <2> QED BY <2>2, <2>3, <2>4
<1>7. ASSUME NEW x, IsFcn(x), AreRows(p, x)
      PROVE  IsBatchOf(p, [b EXCEPT !.rows = x], E)
  <2>1. [b EXCEPT !.rows = x] = TheBatch(x, a, e, q, w)
    BY <1>1, TheBatchFact
  <2>2. IsBatchOf(p, TheBatch(x, a, e, q, w), E)
    BY <1>2, <1>7, TheBatchOf
  <2> QED BY <2>1, <2>2
<1> QED BY <1>1, <1>2, <1>3, <1>4, <1>5, <1>6, <1>7

\* A batch with one more row, or with the rows of a function of rows.
LEMMA BatchOfPut ==
    ASSUME NEW p, NEW E, NEW b, IsBatchOf(p, b, E), NEW k, NEW row,
           1 \in DOMAIN k, k[1] \in StorerStatements(p), IsRow(k[1], row)
    PROVE  IsBatchOf(p, [b EXCEPT !.rows = Put(@, k, row)], E)
<1>1. PICK rows : rows = Put(b.rows, k, row)
  OBVIOUS
<1>2. AreRows(p, b.rows)
  BY BatchOfSet
<1>3. AreRows(p, rows) /\ IsFcn(rows)
  BY <1>1, <1>2, AreRowsPut, PutFact
<1>4. IsBatchOf(p, [b EXCEPT !.rows = rows], E)
  BY <1>3, BatchOfSet
<1> QED BY <1>1, <1>4

LEMMA BatchOfOver ==
    ASSUME NEW p, NEW E, NEW b, IsBatchOf(p, b, E), NEW f, AreRows(p, f)
    PROVE  IsBatchOf(p, [b EXCEPT !.rows = Over(f, @)], E)
<1>1. PICK rows : rows = Over(f, b.rows)
  OBVIOUS
<1>2. AreRows(p, b.rows)
  BY BatchOfSet
<1>3. AreRows(p, rows) /\ IsFcn(rows)
  BY <1>1, <1>2, AreRowsOver
<1>4. IsBatchOf(p, [b EXCEPT !.rows = rows], E)
  BY <1>3, BatchOfSet
<1> QED BY <1>1, <1>4

LEMMA ObjectRows ==
    ASSUME NEW E, NEW b, IsBatchOf("objects", b, E), NEW v, NEW i, NEW addr, NEW row,
           IsRow("current_objects", row)
    PROVE  IsBatchOf("objects", PutObject(b, v, i, addr, row), E)
<1>1. PICK k, c : k = <<"objects", v, i>> /\ c = <<"current_objects", addr>>
  OBVIOUS
<1>2. /\ 1 \in DOMAIN k /\ k[1] = "objects" /\ 1 \in DOMAIN c /\ c[1] = "current_objects"
      /\ "objects" \in StorerStatements("objects") /\ "current_objects" \in StorerStatements("objects")
  BY <1>1 DEF StorerStatements, ObjectsTables
<1>3. IsRow("objects", row)
  BY ColumnsFact DEF IsRow
<1>4. AreRows("objects", b.rows)
  BY BatchOfSet
<1>5. AreRows("objects", Put(b.rows, k, row))
  BY <1>2, <1>3, <1>4, AreRowsPut
<1>6. PICK rows : rows = Put(Put(b.rows, k, row), c, row)
  OBVIOUS
<1>7. AreRows("objects", rows) /\ IsFcn(rows)
  BY <1>2, <1>5, <1>6, AreRowsPut, PutFact
<1>8. IsBatchOf("objects", [b EXCEPT !.rows = rows], E)
  BY <1>7, BatchOfSet
<1> QED BY <1>1, <1>6, <1>8 DEF PutObject

LEMMA ObjectDeleted ==
    ASSUME NEW E, NEW v \in E, E \subseteq Nat, NEW row, IsRow("current_objects", row)
    PROVE  IsRow("current_objects", DeletedRow(row, v))
<1>1. Columns("current_objects") = {"v", "owner", "is_deleted", "untransferrable"}
  BY ColumnsFact
<1>2. DOMAIN row = {"v", "owner", "is_deleted", "untransferrable"} /\ v \in Nat
  BY <1>1 DEF IsRow
<1> QED BY <1>1, <1>2 DEF IsRow, DeletedRow, BalanceColumns

LEMMA ObjectsParsed ==
    ASSUME NEW E, NEW v \in E, E \subseteq Nat, NEW txn, Len(txn) \in Nat, NEW tables,
           AreTables("objects", tables), NEW b, IsBatchOf("objects", b, E)
    PROVE  IsBatchOf("objects", ObjectsParse(b, txn, v, tables), E)
<1> DEFINE N == Len(txn)
           Good(x) == IsBatchOf("objects", x, E)
           helper == CollectUntransferable(CollectCores(b.aux, txn), txn)
           base == [b EXCEPT !.aux = helper]
           Step(x, i) ==
             LET c == txn[i]
             IN IF c.type = "DeleteGroup" THEN DeleteObject(x, v, i, c.addr, tables)
                ELSE IF c.addr \in DOMAIN helper
                THEN PutObject(x, v, i, c.addr, ObjectRow(helper[c.addr], v))
                ELSE x
           Body(g) == [i \in 0 .. N |-> IF i = 0 THEN base ELSE Step(g[i - 1], i)]
           after == CHOOSE g : g = Body(g)
<1>1. N \in Nat
  OBVIOUS
<1>2. ObjectsParse(b, txn, v, tables) = after[N]
  BY DEF ObjectsParse, InOrder
<1>3. Good(base)
  BY BatchOfSet
<1>4. ASSUME NEW x, Good(x), NEW i PROVE Good(Step(x, i))
  <2>1. PICK c, k : c = txn[i] /\ k = <<"current_objects", c.addr>>
    OBVIOUS
  <2>2. k[1] = "current_objects"
    BY <2>1
  <2>3. CASE c.type = "DeleteGroup"
    <3>1. k \in DOMAIN x.rows => Good(PutObject(x, v, i, c.addr, DeletedRow(x.rows[k], v)))
      <4>1. k \in DOMAIN x.rows => IsRow("current_objects", x.rows[k])
        BY <1>4, <2>2 DEF IsBatchOf, AreRows
      <4> QED BY <1>4, <4>1, ObjectDeleted, ObjectRows
    <3>2. k \in DOMAIN tables => Good(PutObject(x, v, i, c.addr, DeletedRow(tables[k], v)))
      <4>1. k \in DOMAIN tables => IsRow("current_objects", tables[k])
        BY <2>2 DEF AreTables
      <4> QED BY <1>4, <4>1, ObjectDeleted, ObjectRows
    <3>3. Good([x EXCEPT !.errors = @ \cup {v}])
      BY <1>4, BatchOfSet
    <3> QED BY <2>1, <2>3, <3>1, <3>2, <3>3 DEF DeleteObject
  <2>4. CASE c.type # "DeleteGroup"
    <3>1. IsRow("current_objects", ObjectRow(helper[c.addr], v))
      <4>1. PICK known, row : known = helper[c.addr] /\ row = ObjectRow(known, v)
        OBVIOUS
      <4>2. DOMAIN row = {"v", "owner", "is_deleted", "untransferrable"} /\ row.v = v
        BY <4>1 DEF ObjectRow
      <4>3. Columns("current_objects") = {"v", "owner", "is_deleted", "untransferrable"}
        BY ColumnsFact
      <4> QED BY <4>1, <4>2, <4>3 DEF IsRow, BalanceColumns
    <3>2. Good(PutObject(x, v, i, c.addr, ObjectRow(helper[c.addr], v)))
      BY <1>4, <3>1, ObjectRows
    <3> QED BY <1>4, <2>1, <2>4, <3>2
  <2> QED BY <2>3, <2>4
<1> HIDE DEF Step, base, N, Good
<1>5. \E g : g = Body(g)
  <2> DEFINE Upto(g, n) == g[0] = base /\ \A i \in 1 .. n : g[i] = Step(g[i - 1], i)
             P == {n \in 0 .. N : \E g : Upto(g, n)}
  <2>1. 0 \in P
    <3>1. PICK g : g = [i \in {0} |-> base]
      OBVIOUS
    <3>2. Upto(g, 0)
      BY <3>1
    <3> QED BY <1>1, <3>2
  <2>2. ASSUME NEW n \in 1 .. N, n - 1 \in P PROVE n \in P
    <3>1. PICK g : Upto(g, n - 1)
      BY <2>2
    <3>2. PICK h : h = [i \in 0 .. n |-> IF i = n THEN Step(g[n - 1], n) ELSE g[i]]
      OBVIOUS
    <3>3. Upto(h, n)
      BY <1>1, <3>1, <3>2
    <3> QED BY <1>1, <3>3
  <2>3. N \in P
    <3> HIDE DEF P
    <3> QED BY <1>1, <2>1, <2>2, InductionUpTo
  <2>4. PICK g : Upto(g, N)
    BY <2>3
  <2>5. PICK h : h = [i \in 0 .. N |-> g[i]]
    OBVIOUS
  <2>6. h = Body(h)
    BY <1>1, <2>4, <2>5
  <2> HIDE DEF Body
  <2> QED BY <2>6
<1>6. after = Body(after)
  <2> HIDE DEF Body
  <2> QED BY <1>5
<1> HIDE DEF after
<1>7. after[0] = base /\ \A n \in 1 .. N : after[n] = Step(after[n - 1], n)
  <2>1. \A n \in 0 .. N : Body(after)[n] = IF n = 0 THEN base ELSE Step(after[n - 1], n)
    OBVIOUS
  <2>2. 0 \in 0 .. N /\ \A n \in 1 .. N : n \in 0 .. N /\ n # 0
    BY <1>1
  <2> HIDE DEF Body
  <2> QED BY <1>6, <2>1, <2>2
<1>8. Good(after[N])
  <2> DEFINE P == {n \in 0 .. N : Good(after[n])}
  <2>1. 0 \in P /\ \A n \in 1 .. N : n - 1 \in P => n \in P
    BY <1>1, <1>3, <1>4, <1>7
  <2>2. N \in P
    <3> HIDE DEF P
    <3> QED BY <1>1, <2>1, InductionUpTo
  <2> QED BY <2>2
<1> QED BY <1>2, <1>8 DEF Good

LEMMA PrimaryPut ==
    ASSUME NEW E, NEW v \in E, E \subseteq Nat, NEW b, IsBatchOf("ans", b, E),
           NEW addr, NEW standard, NEW name
    PROVE  IsBatchOf("ans", PutPrimary(b, v, addr, standard, name), E)
<1>1. PICK k, row : /\ k = PrimaryKey(addr, standard)
                    /\ row = [v |-> v, name |-> name, is_deleted |-> name = NoName]
  OBVIOUS
<1>2. 1 \in DOMAIN k /\ k[1] = "current_ans_primary_name_v2" /\ k[1] \in StorerStatements("ans")
  BY <1>1 DEF PrimaryKey, StorerStatements, AnsTables
<1>3. DOMAIN row = {"v", "name", "is_deleted"} /\ row.v \in Nat
  BY <1>1
<1>4. IsRow(k[1], row)
  BY <1>2, <1>3, ColumnsFact DEF IsRow, BalanceColumns
<1>5. IsBatchOf("ans", [b EXCEPT !.rows = Put(@, k, row)], E)
  BY <1>2, <1>4, BatchOfPut
<1> QED BY <1>1, <1>5 DEF PutPrimary

LEMMA LookupPut ==
    ASSUME NEW E, NEW v \in E, E \subseteq Nat, NEW b, IsBatchOf("ans", b, E),
           NEW domain, NEW subdomain, NEW standard, NEW target, NEW deleted, NEW policy
    PROVE  IsBatchOf("ans", [b EXCEPT !.rows = Put(@, LookupKey(domain, subdomain, standard),
              [v |-> v, target |-> target, is_deleted |-> deleted, policy |-> policy])], E)
<1>1. PICK k, row : /\ k = LookupKey(domain, subdomain, standard)
                    /\ row = [v |-> v, target |-> target, is_deleted |-> deleted, policy |-> policy]
  OBVIOUS
<1>2. 1 \in DOMAIN k /\ k[1] = "current_ans_lookup_v2" /\ k[1] \in StorerStatements("ans")
  BY <1>1 DEF LookupKey, StorerStatements, AnsTables
<1>3. DOMAIN row = {"v", "target", "is_deleted", "policy"} /\ row.v \in Nat
  BY <1>1
<1>4. IsRow(k[1], row)
  BY <1>2, <1>3, ColumnsFact DEF IsRow, BalanceColumns
<1>5. IsBatchOf("ans", [b EXCEPT !.rows = Put(@, k, row)], E)
  BY <1>2, <1>4, BatchOfPut
<1> QED BY <1>1, <1>5

LEMMA AnsEventsParsed ==
    ASSUME NEW E, NEW v \in E, E \subseteq Nat, NEW txn, Len(txn) \in Nat, NEW b,
           IsBatchOf("ans", b, E)
    PROVE  IsBatchOf("ans", InOrder(LAMBDA x, i : PrimaryFromEvent(x, v, txn[i]), b, txn), E)
<1> DEFINE N == Len(txn)
           Good(x) == IsBatchOf("ans", x, E)
           base == b
           Step(x, i) == PrimaryFromEvent(x, v, txn[i])
           Body(g) == [i \in 0 .. N |-> IF i = 0 THEN base ELSE Step(g[i - 1], i)]
           after == CHOOSE g : g = Body(g)
<1>1. N \in Nat
  OBVIOUS
<1>2. InOrder(LAMBDA x, i : PrimaryFromEvent(x, v, txn[i]), b, txn) = after[N]
  BY DEF InOrder
<1>3. Good(base)
  OBVIOUS
<1>4. ASSUME NEW x, Good(x), NEW i PROVE Good(Step(x, i))
  BY <1>4, PrimaryPut DEF PrimaryFromEvent
<1> HIDE DEF Step, base, N, Good
<1>5. \E g : g = Body(g)
  <2> DEFINE Upto(g, n) == g[0] = base /\ \A i \in 1 .. n : g[i] = Step(g[i - 1], i)
             P == {n \in 0 .. N : \E g : Upto(g, n)}
  <2>1. 0 \in P
    <3>1. PICK g : g = [i \in {0} |-> base]
      OBVIOUS
    <3>2. Upto(g, 0)
      BY <3>1
    <3> QED BY <1>1, <3>2
  <2>2. ASSUME NEW n \in 1 .. N, n - 1 \in P PROVE n \in P
    <3>1. PICK g : Upto(g, n - 1)
      BY <2>2
    <3>2. PICK h : h = [i \in 0 .. n |-> IF i = n THEN Step(g[n - 1], n) ELSE g[i]]
      OBVIOUS
    <3>3. Upto(h, n)
      BY <1>1, <3>1, <3>2
    <3> QED BY <1>1, <3>3
  <2>3. N \in P
    <3> HIDE DEF P
    <3> QED BY <1>1, <2>1, <2>2, InductionUpTo
  <2>4. PICK g : Upto(g, N)
    BY <2>3
  <2>5. PICK h : h = [i \in 0 .. N |-> g[i]]
    OBVIOUS
  <2>6. h = Body(h)
    BY <1>1, <2>4, <2>5
  <2> HIDE DEF Body
  <2> QED BY <2>6
<1>6. after = Body(after)
  <2> HIDE DEF Body
  <2> QED BY <1>5
<1> HIDE DEF after
<1>7. after[0] = base /\ \A n \in 1 .. N : after[n] = Step(after[n - 1], n)
  <2>1. \A n \in 0 .. N : Body(after)[n] = IF n = 0 THEN base ELSE Step(after[n - 1], n)
    OBVIOUS
  <2>2. 0 \in 0 .. N /\ \A n \in 1 .. N : n \in 0 .. N /\ n # 0
    BY <1>1
  <2> HIDE DEF Body
  <2> QED BY <1>6, <2>1, <2>2
<1>8. Good(after[N])
  <2> DEFINE P == {n \in 0 .. N : Good(after[n])}
  <2>1. 0 \in P /\ \A n \in 1 .. N : n - 1 \in P => n \in P
    BY <1>1, <1>3, <1>4, <1>7
  <2>2. N \in P
    <3> HIDE DEF P
    <3> QED BY <1>1, <2>1, InductionUpTo
  <2> QED BY <2>2
<1> QED BY <1>2, <1>8 DEF Good

LEMMA AnsChangesParsed ==
    ASSUME NEW E, NEW v \in E, E \subseteq Nat, NEW txn, Len(txn) \in Nat, NEW b,
           IsBatchOf("ans", b, E)
    PROVE  IsBatchOf("ans", InOrder(LAMBDA x, i : RowsFromChange(x, v, txn, i), b, txn), E)
<1> DEFINE N == Len(txn)
           Good(x) == IsBatchOf("ans", x, E)
           base == b
           Step(x, i) == RowsFromChange(x, v, txn, i)
           Body(g) == [i \in 0 .. N |-> IF i = 0 THEN base ELSE Step(g[i - 1], i)]
           after == CHOOSE g : g = Body(g)
<1>1. N \in Nat
  OBVIOUS
<1>2. InOrder(LAMBDA x, i : RowsFromChange(x, v, txn, i), b, txn) = after[N]
  BY DEF InOrder
<1>3. Good(base)
  OBVIOUS
<1>4. ASSUME NEW x, Good(x), NEW i PROVE Good(Step(x, i))
  <2>1. PICK c : c = txn[i]
    OBVIOUS
  <2>2. Good(LookupFromTableItem(x, v, c))
    <3>1. PICK target, deleted :
            LookupFromTableItem(x, v, c) =
              [x EXCEPT !.rows = Put(@, LookupKey(c.name[1], c.name[2], "v1"),
                 [v |-> v, target |-> target, is_deleted |-> deleted, policy |-> None])]
      <4>1. CASE c.type = "NameRecordV1"
        BY <4>1 DEF LookupFromTableItem
      <4>2. CASE c.type # "NameRecordV1"
        BY <4>2 DEF LookupFromTableItem
      <4> QED BY <4>1, <4>2
    <3>2. Good([x EXCEPT !.rows = Put(@, LookupKey(c.name[1], c.name[2], "v1"),
                 [v |-> v, target |-> target, is_deleted |-> deleted, policy |-> None])])
      BY <1>4, LookupPut
    <3> QED BY <3>1, <3>2
  <2>3. Good(PrimaryFromTableItem(x, v, c))
    BY <1>4, PrimaryPut DEF PrimaryFromTableItem
  <2>4. Good(LookupFromResource(x, v, txn, i))
    BY <1>4, LookupPut DEF LookupFromResource
  <2> QED BY <1>4, <2>1, <2>2, <2>3, <2>4 DEF RowsFromChange
<1> HIDE DEF Step, base, N, Good
<1>5. \E g : g = Body(g)
  <2> DEFINE Upto(g, n) == g[0] = base /\ \A i \in 1 .. n : g[i] = Step(g[i - 1], i)
             P == {n \in 0 .. N : \E g : Upto(g, n)}
  <2>1. 0 \in P
    <3>1. PICK g : g = [i \in {0} |-> base]
      OBVIOUS
    <3>2. Upto(g, 0)
      BY <3>1
    <3> QED BY <1>1, <3>2
  <2>2. ASSUME NEW n \in 1 .. N, n - 1 \in P PROVE n \in P
    <3>1. PICK g : Upto(g, n - 1)
      BY <2>2
    <3>2. PICK h : h = [i \in 0 .. n |-> IF i = n THEN Step(g[n - 1], n) ELSE g[i]]
      OBVIOUS
    <3>3. Upto(h, n)
      BY <1>1, <3>1, <3>2
    <3> QED BY <1>1, <3>3
  <2>3. N \in P
    <3> HIDE DEF P
    <3> QED BY <1>1, <2>1, <2>2, InductionUpTo
  <2>4. PICK g : Upto(g, N)
    BY <2>3
  <2>5. PICK h : h = [i \in 0 .. N |-> g[i]]
    OBVIOUS
  <2>6. h = Body(h)
    BY <1>1, <2>4, <2>5
  <2> HIDE DEF Body
  <2> QED BY <2>6
<1>6. after = Body(after)
  <2> HIDE DEF Body
  <2> QED BY <1>5
<1> HIDE DEF after
<1>7. after[0] = base /\ \A n \in 1 .. N : after[n] = Step(after[n - 1], n)
  <2>1. \A n \in 0 .. N : Body(after)[n] = IF n = 0 THEN base ELSE Step(after[n - 1], n)
    OBVIOUS
  <2>2. 0 \in 0 .. N /\ \A n \in 1 .. N : n \in 0 .. N /\ n # 0
    BY <1>1
  <2> HIDE DEF Body
  <2> QED BY <1>6, <2>1, <2>2
<1>8. Good(after[N])
  <2> DEFINE P == {n \in 0 .. N : Good(after[n])}
  <2>1. 0 \in P /\ \A n \in 1 .. N : n - 1 \in P => n \in P
    BY <1>1, <1>3, <1>4, <1>7
  <2>2. N \in P
    <3> HIDE DEF P
    <3> QED BY <1>1, <2>1, InductionUpTo
  <2> QED BY <2>2
<1> QED BY <1>2, <1>8 DEF Good

LEMMA AnsParsed ==
    ASSUME NEW E, NEW v \in E, E \subseteq Nat, NEW txn, Len(txn) \in Nat, NEW tables, NEW b,
           IsBatchOf("ans", b, E)
    PROVE  IsBatchOf("ans", AnsParse(b, txn, v, tables), E)
<1>1. PICK x : x = InOrder(LAMBDA y, i : PrimaryFromEvent(y, v, txn[i]), b, txn)
  OBVIOUS
<1>2. IsBatchOf("ans", x, E)
  BY <1>1, AnsEventsParsed
<1>3. IsBatchOf("ans", InOrder(LAMBDA y, i : RowsFromChange(y, v, txn, i), x, txn), E)
  BY <1>2, AnsChangesParsed
<1> QED BY <1>1, <1>3 DEF AnsParse

LEMMA KeysParsed ==
    ASSUME NEW E, NEW v \in E, E \subseteq Nat, NEW txn, NEW tables, NEW b,
           IsBatchOf("account_restoration", b, E)
    PROVE  IsBatchOf("account_restoration", AccountRestorationParse(b, txn, v, tables), E)
<1> DEFINE p == "account_restoration"
<1>1. /\ "auth_key_account_addresses" \in StorerStatements(p)
      /\ "public_key_auth_keys" \in StorerStatements(p)
  BY DEF StorerStatements, AccountRestorationTables
<1>2. AreRows(p, AuthKeyRow(txn, v))
  <2>1. PICK f : f = AuthKeyRow(txn, v)
    OBVIOUS
  <2>2. ASSUME NEW k \in DOMAIN f
        PROVE  /\ 1 \in DOMAIN k /\ k[1] = "auth_key_account_addresses"
               /\ DOMAIN f[k] = {"v", "auth_key", "is_auth_key_used"} /\ f[k].v \in Nat
    BY <2>1, <2>2 DEF AuthKeyRow
  <2> QED BY <1>1, <2>1, <2>2, ColumnsFact DEF AreRows, IsRow, BalanceColumns
<1>3. AreRows(p, PublicKeyRows(txn, v, AuthKeyOf(txn)))
  <2>1. PICK a, keys, f : a = AuthKeyOf(txn) /\ keys = KeysOf(txn) /\ f = PublicKeyRows(txn, v, a)
    OBVIOUS
  <2>2. ASSUME NEW k \in DOMAIN f
        PROVE  /\ 1 \in DOMAIN k /\ k[1] = "public_key_auth_keys"
               /\ DOMAIN f[k] = {"v", "is_public_key_used"} /\ f[k].v \in Nat
    BY <2>1, <2>2 DEF PublicKeyRows
  <2> QED BY <1>1, <2>1, <2>2, ColumnsFact DEF AreRows, IsRow, BalanceColumns
<1>4. AreRows(p, KeyRows(txn, v))
  BY <1>2, <1>3, AreRowsOver, AreRowsNone DEF KeyRows
<1> QED BY <1>4, BatchOfOver DEF AccountRestorationParse

\* A row of its own.
LEMMA OneRow ==
    ASSUME NEW p, NEW k, NEW row, 1 \in DOMAIN k, k[1] \in StorerStatements(p), IsRow(k[1], row)
    PROVE  AreRows(p, Put(NoRows, k, row))
BY AreRowsNone, AreRowsPut

LEMMA V1BalanceRow ==
    ASSUME NEW v \in Nat, NEW c, Indexed(c.coin), NEW amount, NEW frozen
    PROVE  IsRow("cufab_v1", V1Balance(c, v, amount, frozen))
<1>1. PICK row : row = V1Balance(c, v, amount, frozen)
  OBVIOUS
<1>2. PICK one : one = [NoBalance EXCEPT !.asset = c.coin, !.amount = amount, !.version = v,
                                        !.frozen = frozen]
  OBVIOUS
<1>3. one.asset = c.coin /\ one.version = v /\ NoBalance.version = None
  BY <1>2 DEF NoBalance
<1>4. row = CurrentUnifiedFungibleAssetBalance(c.owner, one, NoBalance)
  BY <1>1, <1>2 DEF V1Balance
<1>5. /\ DOMAIN row = BalanceColumns /\ row.version_v1 = one.version
      /\ row.version_v2 = NoBalance.version /\ row.asset_v1 = one.asset
  BY <1>4 DEF CurrentUnifiedFungibleAssetBalance, BalanceColumns
<1>6. c.coin # None
  BY CoinAssumption DEF Indexed
<1>7. "v" \notin BalanceColumns
  BY DEF BalanceColumns
<1> QED BY <1>1, <1>3, <1>5, <1>6, <1>7, ColumnsFact DEF IsRow

LEMMA V2BalanceRow ==
    ASSUME NEW v \in Nat, NEW owner, NEW asset, NEW amount, NEW primary, NEW frozen
    PROVE  IsRow("cufab_v2", V2Balance(owner, asset, v, amount, primary, frozen))
<1>1. PICK row : row = V2Balance(owner, asset, v, amount, primary, frozen)
  OBVIOUS
<1>2. PICK two : two = [asset |-> asset, amount |-> amount, version |-> v,
                        is_primary |-> primary, frozen |-> frozen]
  OBVIOUS
<1>3. two.version = v /\ NoBalance.version = None
  BY <1>2 DEF NoBalance
<1>4. row = CurrentUnifiedFungibleAssetBalance(owner, NoBalance, two)
  BY <1>1, <1>2 DEF V2Balance
<1>5. /\ DOMAIN row = BalanceColumns /\ row.version_v1 = NoBalance.version
      /\ row.version_v2 = two.version
  BY <1>4 DEF CurrentUnifiedFungibleAssetBalance, BalanceColumns
<1>6. "v" \notin BalanceColumns
  BY DEF BalanceColumns
<1> QED BY <1>1, <1>3, <1>5, <1>6, ColumnsFact DEF IsRow

LEMMA AssetStatements ==
    LET p == "fungible_asset"
    IN /\ "fungible_asset_activities" \in StorerStatements(p)
       /\ "fungible_asset_metadata" \in StorerStatements(p)
       /\ "fungible_asset_to_coin_mappings" \in StorerStatements(p)
       /\ "cufab_v1" \in StorerStatements(p) /\ "cufab_v2" \in StorerStatements(p)
BY DEF StorerStatements, FungibleAssetTables

LEMMA ActivityPut ==
    ASSUME NEW v, NEW i, NEW owner, NEW asset, NEW storage
    PROVE  AreRows("fungible_asset", Put(NoRows, <<"fungible_asset_activities", v, i>>,
                     [owner |-> owner, asset |-> asset, storage |-> storage]))
<1>1. PICK k, row : /\ k = <<"fungible_asset_activities", v, i>>
                    /\ row = [owner |-> owner, asset |-> asset, storage |-> storage]
  OBVIOUS
<1>2. 1 \in DOMAIN k /\ k[1] = "fungible_asset_activities"
  BY <1>1
<1>3. DOMAIN row = {"owner", "asset", "storage"}
  BY <1>1
<1>4. IsRow(k[1], row)
  BY <1>2, <1>3, ColumnsFact DEF IsRow, BalanceColumns
<1> QED BY <1>1, <1>2, <1>4, AssetStatements, OneRow

LEMMA MetadataRow ==
    ASSUME NEW v \in Nat, NEW creator, NEW supply
    PROVE  IsRow("fungible_asset_metadata", [v |-> v, creator |-> creator, supply |-> supply])
<1>1. PICK row : row = [v |-> v, creator |-> creator, supply |-> supply]
  OBVIOUS
<1>2. DOMAIN row = {"v", "creator", "supply"} /\ row.v = v
  BY <1>1
<1> QED BY <1>1, <1>2, ColumnsFact DEF IsRow, BalanceColumns

LEMMA MappingPut ==
    ASSUME NEW v \in Nat, NEW c
    PROVE  AreRows("fungible_asset", FungibleAssetToCoinMapping(c, v))
<1>1. PICK k, row : /\ k = <<"fungible_asset_to_coin_mappings", PairedMetadata(c.coin)>>
                    /\ row = [v |-> v, coin |-> c.coin]
  OBVIOUS
<1>2. 1 \in DOMAIN k /\ k[1] = "fungible_asset_to_coin_mappings"
  BY <1>1
<1>3. DOMAIN row = {"v", "coin"} /\ row.v = v
  BY <1>1
<1>4. IsRow(k[1], row)
  BY <1>2, <1>3, ColumnsFact DEF IsRow, BalanceColumns
<1> QED BY <1>1, <1>2, <1>4, AssetStatements, OneRow DEF FungibleAssetToCoinMapping

LEMMA AssetRows ==
    ASSUME NEW v \in Nat, NEW c, NEW i, NEW txn
    PROVE  AreRows("fungible_asset", FungibleAssetRows(c, v, i, txn))
<1> DEFINE p == "fungible_asset"
<1>1. ASSUME NEW s, NEW x, s \in StorerStatements(p), NEW row, IsRow(s, row)
      PROVE  \A rows : AreRows(p, rows) => AreRows(p, Put(rows, <<s, x>>, row))
  <2>1. PICK k : k = <<s, x>>
    OBVIOUS
  <2>2. 1 \in DOMAIN k /\ k[1] = s
    BY <2>1
  <2> QED BY <1>1, <2>1, <2>2, AreRowsPut
<1>2. AreRows(p, NoRows)
  BY AreRowsNone
<1>3. AreRows(p, CoinStoreBalance(c, v)) /\ AreRows(p, DeletedCoinStoreBalance(c, v))
  BY <1>1, <1>2, V1BalanceRow, AssetStatements DEF CoinStoreBalance, DeletedCoinStoreBalance
<1>4. AreRows(p, FungibleStoreBalance(c, v, txn)) /\ AreRows(p, DeletedFungibleStoreBalance(c, v, txn))
  BY <1>1, <1>2, V2BalanceRow, AssetStatements DEF FungibleStoreBalance, DeletedFungibleStoreBalance
<1>5. AreRows(p, V1Metadata(c, v))
  BY <1>1, <1>2, MappingPut, MetadataRow, AssetStatements DEF V1Metadata
<1>6. AreRows(p, V2Metadata(c, v, txn))
  BY <1>1, <1>2, MetadataRow, AssetStatements DEF V2Metadata
<1>7. AreRows(p, GasEvent(c, v))
  BY ActivityPut DEF GasEvent
<1>8. AreRows(p, V1Activity(c, v, i, txn))
  BY <1>2, ActivityPut DEF V1Activity
<1>9. AreRows(p, V2Activity(c, v, i, txn))
  <2>1. PICK owner, asset :
          V2Activity(c, v, i, txn) = Put(NoRows, <<"fungible_asset_activities", v, i>>,
                                        [owner |-> owner, asset |-> asset, storage |-> c.addr])
    BY DEF V2Activity
  <2>2. AreRows(p, Put(NoRows, <<"fungible_asset_activities", v, i>>,
                       [owner |-> owner, asset |-> asset, storage |-> c.addr]))
    BY ActivityPut
  <2> QED BY <2>1, <2>2
<1> HIDE DEF p
<1>10. AreRows(p, FungibleAssetRows(c, v, i, txn))
  BY <1>2, <1>3, <1>4, <1>5, <1>6, <1>7, <1>8, <1>9 DEF FungibleAssetRows
<1> QED BY <1>10 DEF p

LEMMA AssetTypeSet ==
    ASSUME NEW rows, AreRows("fungible_asset", rows), NEW mapping
    PROVE  AreRows("fungible_asset", WithAssetTypeV1(rows, mapping))
           /\ IsFcn(WithAssetTypeV1(rows, mapping))
<1>1. PICK new : new = WithAssetTypeV1(rows, mapping)
  OBVIOUS
<1>k. PICK known : known = Over(FA_TO_COIN_MAPPING, mapping)
  OBVIOUS
<1>2. DOMAIN new = DOMAIN rows /\ IsFcn(new)
  BY <1>1 DEF WithAssetTypeV1, IsFcn
<1>3. ASSUME NEW k \in DOMAIN rows PROVE IsRow(k[1], new[k])
  <2>1. IsRow(k[1], rows[k])
    BY DEF AreRows
  <2>2. CASE k[1] = "cufab_v2" /\ rows[k].asset_v2 \in DOMAIN known
    <3>1. PICK row, coin : row = rows[k] /\ coin = known[rows[k].asset_v2]
      OBVIOUS
    <3>2. new[k] = [row EXCEPT !.asset_v1 = coin]
      BY <1>1, <1>k, <2>2, <3>1 DEF WithAssetTypeV1
    <3>3. /\ DOMAIN row = BalanceColumns /\ "v" \notin BalanceColumns
          /\ row.version_v1 \in Nat \cup {None} /\ row.version_v2 \in Nat
      BY <2>1, <2>2, <3>1, ColumnsFact DEF IsRow, BalanceColumns
    <3>4. /\ DOMAIN new[k] = BalanceColumns
          /\ new[k].version_v1 = row.version_v1 /\ new[k].version_v2 = row.version_v2
      BY <3>2, <3>3 DEF BalanceColumns
    <3> QED BY <2>2, <3>3, <3>4, ColumnsFact DEF IsRow
  <2>3. CASE ~(k[1] = "cufab_v2" /\ rows[k].asset_v2 \in DOMAIN known)
    BY <1>1, <1>k, <2>1, <2>3 DEF WithAssetTypeV1
  <2> QED BY <2>2, <2>3
<1> QED BY <1>1, <1>2, <1>3 DEF AreRows

LEMMA AssetsFold ==
    ASSUME NEW v \in Nat, NEW txn, Len(txn) \in Nat, NEW rows, AreRows("fungible_asset", rows)
    PROVE  AreRows("fungible_asset",
             InOrder(LAMBDA r, i : Over(FungibleAssetRows(txn[i], v, i, txn), r), rows, txn))
<1> DEFINE N == Len(txn)
           Good(x) == AreRows("fungible_asset", x)
           base == rows
           Step(x, i) == Over(FungibleAssetRows(txn[i], v, i, txn), x)
           Body(g) == [i \in 0 .. N |-> IF i = 0 THEN base ELSE Step(g[i - 1], i)]
           after == CHOOSE g : g = Body(g)
<1>1. N \in Nat
  OBVIOUS
<1>2. InOrder(LAMBDA r, i : Over(FungibleAssetRows(txn[i], v, i, txn), r), rows, txn) = after[N]
  BY DEF InOrder
<1>3. Good(base)
  OBVIOUS
<1>4. ASSUME NEW x, Good(x), NEW i PROVE Good(Step(x, i))
  BY <1>4, AssetRows, AreRowsOver
<1> HIDE DEF Step, base, N, Good
<1>5. \E g : g = Body(g)
  <2> DEFINE Upto(g, n) == g[0] = base /\ \A i \in 1 .. n : g[i] = Step(g[i - 1], i)
             P == {n \in 0 .. N : \E g : Upto(g, n)}
  <2>1. 0 \in P
    <3>1. PICK g : g = [i \in {0} |-> base]
      OBVIOUS
    <3>2. Upto(g, 0)
      BY <3>1
    <3> QED BY <1>1, <3>2
  <2>2. ASSUME NEW n \in 1 .. N, n - 1 \in P PROVE n \in P
    <3>1. PICK g : Upto(g, n - 1)
      BY <2>2
    <3>2. PICK h : h = [i \in 0 .. n |-> IF i = n THEN Step(g[n - 1], n) ELSE g[i]]
      OBVIOUS
    <3>3. Upto(h, n)
      BY <1>1, <3>1, <3>2
    <3> QED BY <1>1, <3>3
  <2>3. N \in P
    <3> HIDE DEF P
    <3> QED BY <1>1, <2>1, <2>2, InductionUpTo
  <2>4. PICK g : Upto(g, N)
    BY <2>3
  <2>5. PICK h : h = [i \in 0 .. N |-> g[i]]
    OBVIOUS
  <2>6. h = Body(h)
    BY <1>1, <2>4, <2>5
  <2> HIDE DEF Body
  <2> QED BY <2>6
<1>6. after = Body(after)
  <2> HIDE DEF Body
  <2> QED BY <1>5
<1> HIDE DEF after
<1>7. after[0] = base /\ \A n \in 1 .. N : after[n] = Step(after[n - 1], n)
  <2>1. \A n \in 0 .. N : Body(after)[n] = IF n = 0 THEN base ELSE Step(after[n - 1], n)
    OBVIOUS
  <2>2. 0 \in 0 .. N /\ \A n \in 1 .. N : n \in 0 .. N /\ n # 0
    BY <1>1
  <2> HIDE DEF Body
  <2> QED BY <1>6, <2>1, <2>2
<1>8. Good(after[N])
  <2> DEFINE P == {n \in 0 .. N : Good(after[n])}
  <2>1. 0 \in P /\ \A n \in 1 .. N : n - 1 \in P => n \in P
    BY <1>1, <1>3, <1>4, <1>7
  <2>2. N \in P
    <3> HIDE DEF P
    <3> QED BY <1>1, <2>1, InductionUpTo
  <2> QED BY <2>2
<1> QED BY <1>2, <1>8 DEF Good

LEMMA AssetsParsed ==
    ASSUME NEW E, NEW v \in E, E \subseteq Nat, NEW txn, Len(txn) \in Nat, NEW tables, NEW b,
           IsBatchOf("fungible_asset", b, E)
    PROVE  IsBatchOf("fungible_asset", FungibleAssetParse(b, txn, v, tables), E)
<1> DEFINE p == "fungible_asset"
<1>1. PICK mapping, rows, new, aux :
        /\ mapping = Over(CoinsAnnounced(txn), b.aux.mapping)
        /\ rows = InOrder(LAMBDA r, i : Over(FungibleAssetRows(txn[i], v, i, txn), r), b.rows, txn)
        /\ new = WithAssetTypeV1(rows, mapping)
        /\ aux = [b.aux EXCEPT !.mapping = mapping]
  OBVIOUS
<1>2. FungibleAssetParse(b, txn, v, tables) = [b EXCEPT !.rows = new, !.aux.mapping = mapping]
  BY <1>1 DEF FungibleAssetParse
<1>3. AreRows(p, new) /\ IsFcn(new)
  <2>1. AreRows(p, b.rows) /\ v \in Nat
    BY BatchOfSet
  <2> QED BY <1>1, <2>1, AssetsFold, AssetTypeSet
<1>4. PICK c : c = [b EXCEPT !.rows = new]
  OBVIOUS
<1>5. IsBatchOf(p, c, E)
  BY <1>3, <1>4, BatchOfSet
<1>6. c.aux = b.aux
  BY <1>4 DEF IsBatchOf, IsBatch
<1>7. [b EXCEPT !.rows = new, !.aux.mapping = mapping] = [c EXCEPT !.aux = aux]
  BY <1>1, <1>4, <1>6
<1>8. IsBatchOf(p, [c EXCEPT !.aux = aux], E)
  BY <1>5, BatchOfSet
<1> QED BY <1>2, <1>7, <1>8

LEMMA StakeStatements ==
    LET p == "stake"
    IN /\ "current_staking_pool_voter" \in StorerStatements(p)
       /\ "proposal_votes" \in StorerStatements(p)
       /\ "delegated_staking_activities" \in StorerStatements(p)
       /\ "delegator_balances" \in StorerStatements(p)
       /\ "current_delegator_balances" \in StorerStatements(p)
       /\ "delegated_staking_pools" \in StorerStatements(p)
       /\ "delegated_staking_pool_balances" \in StorerStatements(p)
       /\ "current_delegated_staking_pool_balances" \in StorerStatements(p)
       /\ "current_delegated_voter" \in StorerStatements(p)
BY DEF StorerStatements, StakeTables

LEMMA PoolVoterRows ==
    ASSUME NEW v \in Nat, NEW c, NEW i
    PROVE  /\ AreRows("stake", PoolVoterRow(c, v)) /\ AreRows("stake", ProposalVoteRow(c, v, i))
           /\ AreRows("stake", ActivityRow(c, v, i))
<1>1. AreRows("stake", PoolVoterRow(c, v))
  <2>1. PICK k, row : /\ k = <<"current_staking_pool_voter", c.pool>>
                      /\ row = [v |-> v, voter |-> c.voter]
    OBVIOUS
  <2>2. /\ 1 \in DOMAIN k /\ k[1] = "current_staking_pool_voter"
        /\ DOMAIN row = {"v", "voter"} /\ row.v = v
    BY <2>1
  <2>3. IsRow(k[1], row)
    BY <2>2, ColumnsFact DEF IsRow, BalanceColumns
  <2>4. AreRows("stake", Put(NoRows, k, row))
    BY <2>2, <2>3, OneRow, StakeStatements
  <2> QED BY <2>1, <2>4, AreRowsNone DEF PoolVoterRow
<1>2. AreRows("stake", ProposalVoteRow(c, v, i))
  <2>1. PICK k, row : k = <<"proposal_votes", v, i>> /\ row = [pool |-> c.pool]
    OBVIOUS
  <2>2. 1 \in DOMAIN k /\ k[1] = "proposal_votes" /\ DOMAIN row = {"pool"}
    BY <2>1
  <2>3. IsRow(k[1], row)
    BY <2>2, ColumnsFact DEF IsRow, BalanceColumns
  <2>4. AreRows("stake", Put(NoRows, k, row))
    BY <2>2, <2>3, OneRow, StakeStatements
  <2> QED BY <2>1, <2>4, AreRowsNone DEF ProposalVoteRow
<1>3. AreRows("stake", ActivityRow(c, v, i))
  <2>1. PICK k, row : /\ k = <<"delegated_staking_activities", v, i>>
                      /\ row = [pool |-> c.pool, event |-> c.type]
    OBVIOUS
  <2>2. /\ 1 \in DOMAIN k /\ k[1] = "delegated_staking_activities"
        /\ DOMAIN row = {"pool", "event"}
    BY <2>1
  <2>3. IsRow(k[1], row)
    BY <2>2, ColumnsFact DEF IsRow, BalanceColumns
  <2>4. AreRows("stake", Put(NoRows, k, row))
    BY <2>2, <2>3, OneRow, StakeStatements
  <2> QED BY <2>1, <2>4, AreRowsNone DEF ActivityRow
<1> QED BY <1>1, <1>2, <1>3

LEMMA PoolRows ==
    ASSUME NEW v \in Nat, NEW c
    PROVE  AreRows("stake", DelegatorPoolRows(c, v))
<1>1. PICK k1, k2, k3, r1, r2 :
        /\ k1 = <<"delegated_staking_pools", c.pool>> /\ r1 = [first |-> v]
        /\ k2 = <<"delegated_staking_pool_balances", v, c.pool>> /\ r2 = [v |-> v]
        /\ k3 = <<"current_delegated_staking_pool_balances", c.pool>>
  OBVIOUS
<1>2. /\ 1 \in DOMAIN k1 /\ k1[1] = "delegated_staking_pools" /\ DOMAIN r1 = {"first"}
      /\ 1 \in DOMAIN k2 /\ k2[1] = "delegated_staking_pool_balances"
      /\ DOMAIN r2 = {"v"} /\ r2.v = v
      /\ 1 \in DOMAIN k3 /\ k3[1] = "current_delegated_staking_pool_balances"
  BY <1>1
<1>3. IsRow(k1[1], r1)
  BY <1>2, ColumnsFact DEF IsRow, BalanceColumns
<1>4. IsRow(k2[1], r2) /\ IsRow(k3[1], r2)
  BY <1>2, ColumnsFact DEF IsRow, BalanceColumns
<1>5. AreRows("stake", Put(NoRows, k1, r1)) /\ AreRows("stake", Put(NoRows, k2, r2))
  BY <1>2, <1>3, <1>4, OneRow, StakeStatements
<1>6. AreRows("stake", Put(Put(NoRows, k2, r2), k3, r2))
  BY <1>2, <1>4, <1>5, AreRowsPut, StakeStatements
<1>7. AreRows("stake", DelegatorPoolRow(c, v))
  BY <1>1, <1>5, <1>6, AreRowsOver DEF DelegatorPoolRow
<1> QED BY <1>7, AreRowsNone DEF DelegatorPoolRows

LEMMA StakeRowsParsed ==
    ASSUME NEW E, NEW v \in E, E \subseteq Nat, NEW txn, Len(txn) \in Nat, NEW b,
           IsBatchOf("stake", b, E)
    PROVE  IsBatchOf("stake", StakeRows(b, txn, v), E)
<1> DEFINE N == Len(txn)
           Good(x) == AreRows("stake", x) /\ IsFcn(x)
           base == b.rows
           Row(c, i) == Over(Over(PoolVoterRow(c, v), ProposalVoteRow(c, v, i)),
                             Over(ActivityRow(c, v, i), DelegatorPoolRows(c, v)))
           Step(x, i) == Over(Row(txn[i], i), x)
           Body(g) == [i \in 0 .. N |-> IF i = 0 THEN base ELSE Step(g[i - 1], i)]
           after == CHOOSE g : g = Body(g)
<1>1. N \in Nat
  OBVIOUS
<1>2. StakeRows(b, txn, v) = [b EXCEPT !.rows = after[N]]
  BY DEF StakeRows, Rows, InOrder
<1>3. Good(base)
  BY DEF IsBatchOf, IsBatch, IsFcn
<1>4. ASSUME NEW x, Good(x), NEW i PROVE Good(Step(x, i))
  <2>1. PICK c : c = txn[i]
    OBVIOUS
  <2>2. /\ AreRows("stake", PoolVoterRow(c, v)) /\ AreRows("stake", ProposalVoteRow(c, v, i))
        /\ AreRows("stake", ActivityRow(c, v, i)) /\ AreRows("stake", DelegatorPoolRows(c, v))
    BY PoolVoterRows, PoolRows
  <2>3. AreRows("stake", Row(c, i))
    BY <2>2, AreRowsOver
  <2> HIDE DEF Row
  <2> QED BY <1>4, <2>1, <2>3, AreRowsOver
<1> HIDE DEF Step, base, N, Good
<1>5. \E g : g = Body(g)
  <2> DEFINE Upto(g, n) == g[0] = base /\ \A i \in 1 .. n : g[i] = Step(g[i - 1], i)
             P == {n \in 0 .. N : \E g : Upto(g, n)}
  <2>1. 0 \in P
    <3>1. PICK g : g = [i \in {0} |-> base]
      OBVIOUS
    <3>2. Upto(g, 0)
      BY <3>1
    <3> QED BY <1>1, <3>2
  <2>2. ASSUME NEW n \in 1 .. N, n - 1 \in P PROVE n \in P
    <3>1. PICK g : Upto(g, n - 1)
      BY <2>2
    <3>2. PICK h : h = [i \in 0 .. n |-> IF i = n THEN Step(g[n - 1], n) ELSE g[i]]
      OBVIOUS
    <3>3. Upto(h, n)
      BY <1>1, <3>1, <3>2
    <3> QED BY <1>1, <3>3
  <2>3. N \in P
    <3> HIDE DEF P
    <3> QED BY <1>1, <2>1, <2>2, InductionUpTo
  <2>4. PICK g : Upto(g, N)
    BY <2>3
  <2>5. PICK h : h = [i \in 0 .. N |-> g[i]]
    OBVIOUS
  <2>6. h = Body(h)
    BY <1>1, <2>4, <2>5
  <2> HIDE DEF Body
  <2> QED BY <2>6
<1>6. after = Body(after)
  <2> HIDE DEF Body
  <2> QED BY <1>5
<1> HIDE DEF after
<1>7. after[0] = base /\ \A n \in 1 .. N : after[n] = Step(after[n - 1], n)
  <2>1. \A n \in 0 .. N : Body(after)[n] = IF n = 0 THEN base ELSE Step(after[n - 1], n)
    OBVIOUS
  <2>2. 0 \in 0 .. N /\ \A n \in 1 .. N : n \in 0 .. N /\ n # 0
    BY <1>1
  <2> HIDE DEF Body
  <2> QED BY <1>6, <2>1, <2>2
<1>8. Good(after[N])
  <2> DEFINE P == {n \in 0 .. N : Good(after[n])}
  <2>1. 0 \in P /\ \A n \in 1 .. N : n - 1 \in P => n \in P
    BY <1>1, <1>3, <1>4, <1>7
  <2>2. N \in P
    <3> HIDE DEF P
    <3> QED BY <1>1, <2>1, InductionUpTo
  <2> QED BY <2>2
<1> QED BY <1>2, <1>8, BatchOfSet DEF Good

LEMMA BalancePut ==
    ASSUME NEW E, NEW v \in E, E \subseteq Nat, NEW b, IsBatchOf("stake", b, E), NEW i,
           NEW delegator, NEW pool, NEW type, NEW handle, NEW shares, NEW mine, NEW parent
    PROVE  IsBatchOf("stake", PutBalance(b, v, i, delegator, pool, type, handle,
                                [v |-> v, shares |-> shares, parent |-> mine], parent), E)
<1>1. PICK others, k1, k2, r1, r2 :
        /\ others = {k \in DOMAIN b.rows : ~ (k[1] = "current_delegator_balances"
                                              /\ <<k[2], k[3], k[4]>> = <<delegator, pool, type>>)}
        /\ k1 = <<"delegator_balances", v, i>>
        /\ k2 = <<"current_delegator_balances", delegator, pool, type, handle>>
        /\ r1 = [v |-> v, shares |-> shares, parent |-> mine]
        /\ r2 = [r1 EXCEPT !.parent = parent]
  OBVIOUS
<1>2. PICK old : old = [k \in others |-> b.rows[k]]
  OBVIOUS
<1>3. /\ 1 \in DOMAIN k1 /\ k1[1] = "delegator_balances"
      /\ 1 \in DOMAIN k2 /\ k2[1] = "current_delegator_balances"
  BY <1>1
<1>4. /\ DOMAIN r1 = {"v", "shares", "parent"} /\ r1.v = v
      /\ DOMAIN r2 = {"v", "shares", "parent"} /\ r2.v = v
  BY <1>1
<1>5. IsRow(k1[1], r1) /\ IsRow(k2[1], r2)
  BY <1>3, <1>4, ColumnsFact DEF IsRow, BalanceColumns
<1>6. AreRows("stake", old)
  <2>1. AreRows("stake", b.rows) /\ others \subseteq DOMAIN b.rows
    BY <1>1, BatchOfSet
  <2>2. DOMAIN old = others /\ \A k \in others : old[k] = b.rows[k]
    BY <1>2
  <2> QED BY <2>1, <2>2 DEF AreRows
<1>7. AreRows("stake", Put(old, k1, r1))
  BY <1>3, <1>5, <1>6, AreRowsPut, StakeStatements
<1>8. PICK rows : rows = Put(Put(old, k1, r1), k2, r2)
  OBVIOUS
<1>9. AreRows("stake", rows) /\ IsFcn(rows)
  BY <1>3, <1>5, <1>7, <1>8, AreRowsPut, PutFact, StakeStatements
<1>10. IsBatchOf("stake", [b EXCEPT !.rows = rows], E)
  BY <1>9, BatchOfSet
<1> QED BY <1>1, <1>2, <1>8, <1>10 DEF PutBalance

LEMMA BalancesParsed ==
    ASSUME NEW E, NEW v \in E, E \subseteq Nat, NEW txn, Len(txn) \in Nat, NEW tables, NEW b,
           IsBatchOf("stake", b, E)
    PROVE  IsBatchOf("stake", Balances(b, txn, v, tables), E)
<1> DEFINE N == Len(txn)
           Good(x) == IsBatchOf("stake", x, E)
           base == b
           Step(x, i) ==
             LET c == txn[i]
             IN CASE c.type \notin {"WriteItem", "DeleteItem"} -> x
                  [] c.handle \in DOMAIN b.aux.active -> PutActiveShare(x, v, i, c)
                  [] c.handle \notin DOMAIN InactiveShares(txn) -> x
                  [] c.type = "WriteItem" -> WriteInactiveShare(x, v, i, c, txn, tables)
                  [] OTHER -> DeleteInactiveShare(x, v, i, c, txn, tables)
           Body(g) == [i \in 0 .. N |-> IF i = 0 THEN base ELSE Step(g[i - 1], i)]
           after == CHOOSE g : g = Body(g)
<1>1. N \in Nat
  OBVIOUS
<1>2. Balances(b, txn, v, tables) = after[N]
  BY DEF Balances, InOrder
<1>3. Good(base)
  OBVIOUS
<1>4. ASSUME NEW x, Good(x), NEW i PROVE Good(Step(x, i))
  <2>1. PICK c : c = txn[i]
    OBVIOUS
  <2>2. Good(PutActiveShare(x, v, i, c))
    BY <1>4, BalancePut DEF PutActiveShare
  <2>3. ASSUME NEW pool, NEW parent, NEW stored
        PROVE  Good(PutInactiveShare(x, v, i, c, pool, parent, stored))
    BY <1>4, BalancePut DEF PutInactiveShare
  <2>4. Good(WriteInactiveShare(x, v, i, c, txn, tables))
    <3>1. Good([x EXCEPT !.errors = @ \cup {v}])
      BY <1>4, BatchOfSet
    <3> HIDE DEF Good
    <3> QED BY <2>3, <3>1 DEF WriteInactiveShare
  <2>5. Good(DeleteInactiveShare(x, v, i, c, txn, tables))
    <3>1. Good([x EXCEPT !.panicked = TRUE])
      BY <1>4, BatchOfSet
    <3> HIDE DEF Good
    <3> QED BY <2>3, <3>1 DEF DeleteInactiveShare
  <2> HIDE DEF Good
  <2> QED BY <1>4, <2>1, <2>2, <2>4, <2>5
<1> HIDE DEF Step, base, N, Good
<1>5. \E g : g = Body(g)
  <2> DEFINE Upto(g, n) == g[0] = base /\ \A i \in 1 .. n : g[i] = Step(g[i - 1], i)
             P == {n \in 0 .. N : \E g : Upto(g, n)}
  <2>1. 0 \in P
    <3>1. PICK g : g = [i \in {0} |-> base]
      OBVIOUS
    <3>2. Upto(g, 0)
      BY <3>1
    <3> QED BY <1>1, <3>2
  <2>2. ASSUME NEW n \in 1 .. N, n - 1 \in P PROVE n \in P
    <3>1. PICK g : Upto(g, n - 1)
      BY <2>2
    <3>2. PICK h : h = [i \in 0 .. n |-> IF i = n THEN Step(g[n - 1], n) ELSE g[i]]
      OBVIOUS
    <3>3. Upto(h, n)
      BY <1>1, <3>1, <3>2
    <3> QED BY <1>1, <3>3
  <2>3. N \in P
    <3> HIDE DEF P
    <3> QED BY <1>1, <2>1, <2>2, InductionUpTo
  <2>4. PICK g : Upto(g, N)
    BY <2>3
  <2>5. PICK h : h = [i \in 0 .. N |-> g[i]]
    OBVIOUS
  <2>6. h = Body(h)
    BY <1>1, <2>4, <2>5
  <2> HIDE DEF Body
  <2> QED BY <2>6
<1>6. after = Body(after)
  <2> HIDE DEF Body
  <2> QED BY <1>5
<1> HIDE DEF after
<1>7. after[0] = base /\ \A n \in 1 .. N : after[n] = Step(after[n - 1], n)
  <2>1. \A n \in 0 .. N : Body(after)[n] = IF n = 0 THEN base ELSE Step(after[n - 1], n)
    OBVIOUS
  <2>2. 0 \in 0 .. N /\ \A n \in 1 .. N : n \in 0 .. N /\ n # 0
    BY <1>1
  <2> HIDE DEF Body
  <2> QED BY <1>6, <2>1, <2>2
<1>8. Good(after[N])
  <2> DEFINE P == {n \in 0 .. N : Good(after[n])}
  <2>1. 0 \in P /\ \A n \in 1 .. N : n - 1 \in P => n \in P
    BY <1>1, <1>3, <1>4, <1>7
  <2>2. N \in P
    <3> HIDE DEF P
    <3> QED BY <1>1, <2>1, InductionUpTo
  <2> QED BY <2>2
<1> QED BY <1>2, <1>8 DEF Good

LEMMA VoterPut ==
    ASSUME NEW E, NEW v \in E, E \subseteq Nat, NEW b, IsBatchOf("stake", b, E),
           NEW pool, NEW delegator, NEW voter, NEW handle
    PROVE  IsBatchOf("stake", [b EXCEPT !.rows = Put(@, VoterKey(pool, delegator),
                                [v |-> v, voter |-> voter, table_handle |-> handle])], E)
<1>1. PICK k, row : /\ k = VoterKey(pool, delegator)
                    /\ row = [v |-> v, voter |-> voter, table_handle |-> handle]
  OBVIOUS
<1>2. 1 \in DOMAIN k /\ k[1] = "current_delegated_voter"
  BY <1>1 DEF VoterKey
<1>3. DOMAIN row = {"v", "voter", "table_handle"} /\ row.v = v
  BY <1>1
<1>4. IsRow(k[1], row)
  BY <1>2, <1>3, ColumnsFact DEF IsRow, BalanceColumns
<1>5. IsBatchOf("stake", [b EXCEPT !.rows = Put(@, k, row)], E)
  BY <1>2, <1>4, BatchOfPut, StakeStatements
<1> QED BY <1>1, <1>5

LEMMA DelegatedVotersParsed ==
    ASSUME NEW E, NEW v \in E, E \subseteq Nat, NEW txn, Len(txn) \in Nat, NEW tables, NEW b,
           IsBatchOf("stake", b, E)
    PROVE  IsBatchOf("stake", DelegatedVoters(b, txn, v, tables), E)
<1> DEFINE N == Len(txn)
           Good(x) == IsBatchOf("stake", x, E)
           base == b
           Step(x, i) ==
             LET c == txn[i]
                 known == IF c.handle \in DOMAIN x.aux.votes THEN {x.aux.votes[c.handle]}
                          ELSE PoolsByVotes(tables, c.handle)
             IN IF c.type # "VoteDelegation" THEN x
                ELSE IF known = {} THEN [x EXCEPT !.errors = @ \cup {v}]
                ELSE [x EXCEPT !.rows = Put(@, VoterKey(CHOOSE p \in known : TRUE, c.delegator),
                                      [v |-> v, voter |-> c.voter, table_handle |-> c.handle])]
           Body(g) == [i \in 0 .. N |-> IF i = 0 THEN base ELSE Step(g[i - 1], i)]
           after == CHOOSE g : g = Body(g)
<1>1. N \in Nat
  OBVIOUS
<1>2. DelegatedVoters(b, txn, v, tables) = after[N]
  BY DEF DelegatedVoters, InOrder
<1>3. Good(base)
  OBVIOUS
<1>4. ASSUME NEW x, Good(x), NEW i PROVE Good(Step(x, i))
  <2>1. Good([x EXCEPT !.errors = @ \cup {v}])
    BY <1>4, BatchOfSet
  <2>2. PICK c : c = txn[i]
    OBVIOUS
  <2>3. ASSUME NEW pool
        PROVE  Good([x EXCEPT !.rows = Put(@, VoterKey(pool, c.delegator),
                       [v |-> v, voter |-> c.voter, table_handle |-> c.handle])])
    BY <1>4, VoterPut
  <2> HIDE DEF Good
  <2> QED BY <1>4, <2>1, <2>2, <2>3
<1> HIDE DEF Step, base, N, Good
<1>5. \E g : g = Body(g)
  <2> DEFINE Upto(g, n) == g[0] = base /\ \A i \in 1 .. n : g[i] = Step(g[i - 1], i)
             P == {n \in 0 .. N : \E g : Upto(g, n)}
  <2>1. 0 \in P
    <3>1. PICK g : g = [i \in {0} |-> base]
      OBVIOUS
    <3>2. Upto(g, 0)
      BY <3>1
    <3> QED BY <1>1, <3>2
  <2>2. ASSUME NEW n \in 1 .. N, n - 1 \in P PROVE n \in P
    <3>1. PICK g : Upto(g, n - 1)
      BY <2>2
    <3>2. PICK h : h = [i \in 0 .. n |-> IF i = n THEN Step(g[n - 1], n) ELSE g[i]]
      OBVIOUS
    <3>3. Upto(h, n)
      BY <1>1, <3>1, <3>2
    <3> QED BY <1>1, <3>3
  <2>3. N \in P
    <3> HIDE DEF P
    <3> QED BY <1>1, <2>1, <2>2, InductionUpTo
  <2>4. PICK g : Upto(g, N)
    BY <2>3
  <2>5. PICK h : h = [i \in 0 .. N |-> g[i]]
    OBVIOUS
  <2>6. h = Body(h)
    BY <1>1, <2>4, <2>5
  <2> HIDE DEF Body
  <2> QED BY <2>6
<1>6. after = Body(after)
  <2> HIDE DEF Body
  <2> QED BY <1>5
<1> HIDE DEF after
<1>7. after[0] = base /\ \A n \in 1 .. N : after[n] = Step(after[n - 1], n)
  <2>1. \A n \in 0 .. N : Body(after)[n] = IF n = 0 THEN base ELSE Step(after[n - 1], n)
    OBVIOUS
  <2>2. 0 \in 0 .. N /\ \A n \in 1 .. N : n \in 0 .. N /\ n # 0
    BY <1>1
  <2> HIDE DEF Body
  <2> QED BY <1>6, <2>1, <2>2
<1>8. Good(after[N])
  <2> DEFINE P == {n \in 0 .. N : Good(after[n])}
  <2>1. 0 \in P /\ \A n \in 1 .. N : n - 1 \in P => n \in P
    BY <1>1, <1>3, <1>4, <1>7
  <2>2. N \in P
    <3> HIDE DEF P
    <3> QED BY <1>1, <2>1, InductionUpTo
  <2> QED BY <2>2
<1> QED BY <1>2, <1>8 DEF Good

LEMMA DefaultVotersParsed ==
    ASSUME NEW E, NEW v \in E, E \subseteq Nat, NEW txn, Len(txn) \in Nat, NEW tables, NEW b,
           IsBatchOf("stake", b, E)
    PROVE  IsBatchOf("stake", DefaultVoters(b, txn, v, tables), E)
<1> DEFINE N == Len(txn)
           Good(x) == IsBatchOf("stake", x, E)
           base == b
           Step(x, i) ==
             LET c == txn[i]
                 k == VoterKey(x.aux.active[c.handle], c.delegator)
             IN IF c.type # "WriteItem" THEN x
                ELSE IF c.handle \notin DOMAIN x.aux.active THEN x
                ELSE IF k \in DOMAIN x.rows \/ VoterExists(tables, k) THEN x
                ELSE [x EXCEPT !.rows = Put(@, k,
                        [v |-> v, voter |-> c.delegator, table_handle |-> <<>>])]
           Body(g) == [i \in 0 .. N |-> IF i = 0 THEN base ELSE Step(g[i - 1], i)]
           after == CHOOSE g : g = Body(g)
<1>1. N \in Nat
  OBVIOUS
<1>2. DefaultVoters(b, txn, v, tables) = after[N]
  BY DEF DefaultVoters, InOrder
<1>3. Good(base)
  OBVIOUS
<1>4. ASSUME NEW x, Good(x), NEW i PROVE Good(Step(x, i))
  <2>1. PICK c, pool : c = txn[i] /\ pool = x.aux.active[c.handle]
    OBVIOUS
  <2>2. Good([x EXCEPT !.rows = Put(@, VoterKey(pool, c.delegator),
               [v |-> v, voter |-> c.delegator, table_handle |-> <<>>])])
    BY <1>4, VoterPut
  <2> HIDE DEF Good
  <2> QED BY <1>4, <2>1, <2>2
<1> HIDE DEF Step, base, N, Good
<1>5. \E g : g = Body(g)
  <2> DEFINE Upto(g, n) == g[0] = base /\ \A i \in 1 .. n : g[i] = Step(g[i - 1], i)
             P == {n \in 0 .. N : \E g : Upto(g, n)}
  <2>1. 0 \in P
    <3>1. PICK g : g = [i \in {0} |-> base]
      OBVIOUS
    <3>2. Upto(g, 0)
      BY <3>1
    <3> QED BY <1>1, <3>2
  <2>2. ASSUME NEW n \in 1 .. N, n - 1 \in P PROVE n \in P
    <3>1. PICK g : Upto(g, n - 1)
      BY <2>2
    <3>2. PICK h : h = [i \in 0 .. n |-> IF i = n THEN Step(g[n - 1], n) ELSE g[i]]
      OBVIOUS
    <3>3. Upto(h, n)
      BY <1>1, <3>1, <3>2
    <3> QED BY <1>1, <3>3
  <2>3. N \in P
    <3> HIDE DEF P
    <3> QED BY <1>1, <2>1, <2>2, InductionUpTo
  <2>4. PICK g : Upto(g, N)
    BY <2>3
  <2>5. PICK h : h = [i \in 0 .. N |-> g[i]]
    OBVIOUS
  <2>6. h = Body(h)
    BY <1>1, <2>4, <2>5
  <2> HIDE DEF Body
  <2> QED BY <2>6
<1>6. after = Body(after)
  <2> HIDE DEF Body
  <2> QED BY <1>5
<1> HIDE DEF after
<1>7. after[0] = base /\ \A n \in 1 .. N : after[n] = Step(after[n - 1], n)
  <2>1. \A n \in 0 .. N : Body(after)[n] = IF n = 0 THEN base ELSE Step(after[n - 1], n)
    OBVIOUS
  <2>2. 0 \in 0 .. N /\ \A n \in 1 .. N : n \in 0 .. N /\ n # 0
    BY <1>1
  <2> HIDE DEF Body
  <2> QED BY <1>6, <2>1, <2>2
<1>8. Good(after[N])
  <2> DEFINE P == {n \in 0 .. N : Good(after[n])}
  <2>1. 0 \in P /\ \A n \in 1 .. N : n - 1 \in P => n \in P
    BY <1>1, <1>3, <1>4, <1>7
  <2>2. N \in P
    <3> HIDE DEF P
    <3> QED BY <1>1, <2>1, InductionUpTo
  <2> QED BY <2>2
<1> QED BY <1>2, <1>8 DEF Good

LEMMA StakeParsed ==
    ASSUME NEW E, NEW v \in E, E \subseteq Nat, NEW txn, Len(txn) \in Nat, NEW tables, NEW b,
           IsBatchOf("stake", b, E)
    PROVE  IsBatchOf("stake", StakeParse(b, txn, v, tables), E)
<1>1. PICK x, known, balances :
        /\ x = StakeRows(b, txn, v) /\ known = StakeHandles(x, txn)
        /\ balances = Balances(known, txn, v, tables)
  OBVIOUS
<1>2. IsBatchOf("stake", x, E)
  BY <1>1, StakeRowsParsed
<1>3. IsBatchOf("stake", known, E)
  <2>1. PICK votes, active :
          known = [x EXCEPT !.aux.votes = votes, !.aux.active = active]
    BY <1>1 DEF StakeHandles
  <2>2. PICK aux : aux = [[x.aux EXCEPT !.votes = votes] EXCEPT !.active = active]
    OBVIOUS
  <2>3. known = [x EXCEPT !.aux = aux]
    BY <2>1, <2>2, <1>2 DEF IsBatchOf, IsBatch
  <2> QED BY <1>2, <2>3, BatchOfSet
<1>4. IsBatchOf("stake", balances, E)
  BY <1>1, <1>3, BalancesParsed
<1>5. IsBatchOf("stake", DefaultVoters(DelegatedVoters(balances, txn, v, tables), txn, v, tables), E)
  BY <1>4, DelegatedVotersParsed, DefaultVotersParsed
<1> QED BY <1>1, <1>4, <1>5 DEF StakeParse

LEMMA TokenStatements ==
    LET p == "token_v2"
    IN /\ "current_collections_v2" \in StorerStatements(p)
       /\ "current_token_datas_v2" \in StorerStatements(p)
       /\ "current_deleted_token_datas_v2" \in StorerStatements(p)
       /\ "current_token_ownerships_v2" \in StorerStatements(p)
       /\ "current_deleted_token_ownerships_v2" \in StorerStatements(p)
       /\ "token_activities_v2" \in StorerStatements(p)
       /\ "current_token_royalty_v1" \in StorerStatements(p)
       /\ "current_token_pending_claims" \in StorerStatements(p)
BY DEF StorerStatements, TokenTables

LEMMA TokenPut ==
    ASSUME NEW E, NEW b, IsBatchOf("token_v2", b, E), NEW k, NEW row,
           1 \in DOMAIN k, k[1] \in StorerStatements("token_v2"), IsRow(k[1], row)
    PROVE  IsBatchOf("token_v2", PutRow(b, k, row), E)
BY BatchOfPut DEF PutRow

LEMMA CollectionPut ==
    ASSUME NEW E, NEW v \in E, E \subseteq Nat, NEW b, IsBatchOf("token_v2", b, E),
           NEW id, NEW creator, NEW supply, NEW handle
    PROVE  IsBatchOf("token_v2", PutRow(b, <<"current_collections_v2", id>>,
                                    CurrentCollectionV2(v, creator, supply, handle)), E)
<1>1. PICK k, row : /\ k = <<"current_collections_v2", id>>
                    /\ row = CurrentCollectionV2(v, creator, supply, handle)
  OBVIOUS
<1>2. 1 \in DOMAIN k /\ k[1] = "current_collections_v2"
  BY <1>1
<1>3. DOMAIN row = {"v", "creator", "supply", "table_handle_v1"} /\ row.v = v
  BY <1>1 DEF CurrentCollectionV2
<1>4. IsRow(k[1], row)
  BY <1>2, <1>3, ColumnsFact DEF IsRow, BalanceColumns
<1> QED BY <1>1, <1>2, <1>4, TokenPut, TokenStatements

LEMMA TokenDataPut ==
    ASSUME NEW E, NEW v \in E, E \subseteq Nat, NEW b, IsBatchOf("token_v2", b, E),
           NEW s \in {"current_token_datas_v2", "current_deleted_token_datas_v2"},
           NEW token, NEW name, NEW deleted
    PROVE  IsBatchOf("token_v2", PutRow(b, <<s, token>>, CurrentTokenDataV2(v, name, deleted)), E)
<1>1. PICK k, row : k = <<s, token>> /\ row = CurrentTokenDataV2(v, name, deleted)
  OBVIOUS
<1>2. 1 \in DOMAIN k /\ k[1] = s
  BY <1>1
<1>3. DOMAIN row = {"v", "name", "is_deleted_v2"} /\ row.v = v
  BY <1>1 DEF CurrentTokenDataV2
<1>4. IsRow(s, row)
  BY <1>3, ColumnsFact DEF IsRow, BalanceColumns
<1> QED BY <1>1, <1>2, <1>4, TokenPut, TokenStatements

LEMMA RoyaltyPut ==
    ASSUME NEW E, NEW v \in E, E \subseteq Nat, NEW b, IsBatchOf("token_v2", b, E), NEW c
    PROVE  IsBatchOf("token_v2", CurrentTokenRoyaltyV1(b, v, c), E)
<1>1. PICK k, row : k = <<"current_token_royalty_v1", c.token>> /\ row = [v |-> v, payee |-> c.payee]
  OBVIOUS
<1>2. 1 \in DOMAIN k /\ k[1] = "current_token_royalty_v1"
  BY <1>1
<1>3. DOMAIN row = {"v", "payee"} /\ row.v = v
  BY <1>1
<1>4. IsRow(k[1], row)
  BY <1>2, <1>3, ColumnsFact DEF IsRow, BalanceColumns
<1> QED BY <1>1, <1>2, <1>4, TokenPut, TokenStatements DEF CurrentTokenRoyaltyV1

LEMMA OwnershipRow ==
    ASSUME NEW v \in Nat, NEW amount, NEW soulbound
    PROVE  /\ IsRow("current_token_ownerships_v2", CurrentTokenOwnershipV2(v, amount, soulbound))
           /\ IsRow("current_deleted_token_ownerships_v2", CurrentTokenOwnershipV2(v, amount, soulbound))
<1>1. PICK row : row = CurrentTokenOwnershipV2(v, amount, soulbound)
  OBVIOUS
<1>2. DOMAIN row = {"v", "amount", "is_soulbound_v2"} /\ row.v = v
  BY <1>1 DEF CurrentTokenOwnershipV2
<1> QED BY <1>1, <1>2, ColumnsFact DEF IsRow, BalanceColumns

LEMMA OwnershipKeys ==
    ASSUME NEW token, NEW pv, NEW owner, NEW storage
    PROVE  /\ 1 \in DOMAIN OwnershipKey(token, pv, owner, storage)
           /\ OwnershipKey(token, pv, owner, storage)[1] = "current_token_ownerships_v2"
           /\ 1 \in DOMAIN DeletedOwnershipKey(token, pv, owner, storage)
           /\ DeletedOwnershipKey(token, pv, owner, storage)[1] = "current_deleted_token_ownerships_v2"
BY DEF OwnershipKey, DeletedOwnershipKey

LEMMA OwnershipPut ==
    ASSUME NEW E, NEW v \in E, E \subseteq Nat, NEW b, IsBatchOf("token_v2", b, E),
           NEW token, NEW pv, NEW owner, NEW storage, NEW amount, NEW soulbound
    PROVE  /\ IsBatchOf("token_v2", PutRow(b, OwnershipKey(token, pv, owner, storage),
                                       CurrentTokenOwnershipV2(v, amount, soulbound)), E)
           /\ IsBatchOf("token_v2", PutRow(b, DeletedOwnershipKey(token, pv, owner, storage),
                                       CurrentTokenOwnershipV2(v, amount, soulbound)), E)
BY OwnershipKeys, OwnershipRow, TokenPut, TokenStatements

LEMMA Remembered ==
    ASSUME NEW E, NEW b, IsBatchOf("token_v2", b, E), NEW token, NEW owner
    PROVE  IsBatchOf("token_v2", Remember(b, token, owner), E)
<1>1. PICK aux : aux = [b.aux EXCEPT !.prior = Put(@, token, owner)]
  OBVIOUS
<1>2. Remember(b, token, owner) = [b EXCEPT !.aux = aux]
  BY <1>1 DEF Remember
<1>3. \A a : IsBatchOf("token_v2", [b EXCEPT !.aux = a], E)
  BY BatchOfSet
<1> QED BY <1>2, <1>3

LEMMA NftPut ==
    ASSUME NEW E, NEW v \in E, E \subseteq Nat, NEW b, IsBatchOf("token_v2", b, E), NEW token
    PROVE  IsBatchOf("token_v2", NftOwnership(b, v, token), E)
<1>1. PICK object, soulbound, owned, from, left :
        /\ object = b.aux.objects[token]
        /\ soulbound = ("Untransferable" \in DOMAIN object.res \/ ~object.ungated)
        /\ owned = PutRow(b, OwnershipKey(token, 0, object.owner, token),
                          CurrentTokenOwnershipV2(v, 1, soulbound))
        /\ from = {e.from : e \in {x \in Range(object.transfers) : x.from # x.to}}
        /\ left = [k \in {OwnershipKey(token, 0, o, token) : o \in from} |->
                     CurrentTokenOwnershipV2(v, 0, soulbound)]
  OBVIOUS
<1>2. IsBatchOf("token_v2", owned, E)
  BY <1>1, OwnershipPut
<1>3. AreRows("token_v2", left)
  <2>1. ASSUME NEW k \in DOMAIN left
        PROVE  /\ \E o : k = OwnershipKey(token, 0, o, token)
               /\ left[k] = CurrentTokenOwnershipV2(v, 0, soulbound)
    BY <1>1, <2>1
  <2>2. IsRow("current_token_ownerships_v2", CurrentTokenOwnershipV2(v, 0, soulbound))
    BY OwnershipRow
  <2> QED BY <2>1, <2>2, OwnershipKeys, TokenStatements DEF AreRows
<1>4. IsBatchOf("token_v2", [owned EXCEPT !.rows = Over(left, @)], E)
  BY <1>2, <1>3, BatchOfOver
<1>5. NftOwnership(b, v, token) = Remember([owned EXCEPT !.rows = Over(left, @)], token, object.owner)
  BY <1>1 DEF NftOwnership
<1> QED BY <1>4, <1>5, Remembered

LEMMA BurnedPut ==
    ASSUME NEW E, NEW v \in E, E \subseteq Nat, NEW b, IsBatchOf("token_v2", b, E),
           NEW token, NEW owner, NEW soulbound
    PROVE  IsBatchOf("token_v2", PutBurned(b, v, token, owner, soulbound), E)
BY OwnershipPut, Remembered DEF PutBurned

LEMMA BurnedOwnershipPut ==
    ASSUME NEW E, NEW v \in E, E \subseteq Nat, NEW b, IsBatchOf("token_v2", b, E),
           NEW token, NEW owner, NEW tables
    PROVE  IsBatchOf("token_v2", BurnedOwnership(b, v, token, owner, tables), E)
<1>1. PICK x : x = [b EXCEPT !.errors = @ \cup {v}]
  OBVIOUS
<1>2. IsBatchOf("token_v2", x, E)
  BY <1>1, BatchOfSet
<1>3. \A o, s : /\ IsBatchOf("token_v2", PutBurned(b, v, token, o, s), E)
                /\ IsBatchOf("token_v2", PutBurned(x, v, token, o, s), E)
  BY <1>2, BurnedPut
<1> QED BY <1>1, <1>3 DEF BurnedOwnership

LEMMA ClaimPut ==
    ASSUME NEW E, NEW v \in E, E \subseteq Nat, NEW b, IsBatchOf("token_v2", b, E),
           NEW token, NEW pv, NEW from, NEW to, NEW amount, NEW handle
    PROVE  IsBatchOf("token_v2", PutRow(b, ClaimKey(token, pv, from, to),
                       [v |-> v, amount |-> amount, table_handle |-> handle]), E)
<1>1. PICK k, row : /\ k = ClaimKey(token, pv, from, to)
                    /\ row = [v |-> v, amount |-> amount, table_handle |-> handle]
  OBVIOUS
<1>2. 1 \in DOMAIN k /\ k[1] = "current_token_pending_claims"
  BY <1>1 DEF ClaimKey
<1>3. DOMAIN row = {"v", "amount", "table_handle"} /\ row.v = v
  BY <1>1
<1>4. IsRow(k[1], row)
  BY <1>2, <1>3, ColumnsFact DEF IsRow, BalanceColumns
<1> QED BY <1>1, <1>2, <1>4, TokenPut, TokenStatements

LEMMA TokenActivityPut ==
    ASSUME NEW E, NEW b, IsBatchOf("token_v2", b, E), NEW v, NEW i, NEW token, NEW from, NEW to
    PROVE  IsBatchOf("token_v2", TokenActivityV2(b, v, i, token, from, to), E)
<1>1. PICK k, row : /\ k = <<"token_activities_v2", v, i>>
                    /\ row = [token |-> token, from |-> from, to |-> to]
  OBVIOUS
<1>2. 1 \in DOMAIN k /\ k[1] = "token_activities_v2"
  BY <1>1
<1>3. DOMAIN row = {"token", "from", "to"}
  BY <1>1
<1>4. IsRow(k[1], row)
  BY <1>2, <1>3, ColumnsFact DEF IsRow, BalanceColumns
<1> QED BY <1>1, <1>2, <1>4, TokenPut, TokenStatements DEF TokenActivityV2

LEMMA TokenActivities ==
    ASSUME NEW E, NEW b, IsBatchOf("token_v2", b, E), NEW v, NEW i, NEW c
    PROVE  /\ IsBatchOf("token_v2", ActivityV1(b, v, i, c), E)
           /\ IsBatchOf("token_v2", ActivityV2(b, v, i, c), E)
<1> DEFINE Good(x) == IsBatchOf("token_v2", x, E)
<1>1. \A token, from, to : Good(TokenActivityV2(b, v, i, token, from, to))
  BY TokenActivityPut
<1> HIDE DEF Good
<1>2. Good(ActivityV1(b, v, i, c))
  BY <1>1 DEF ActivityV1
<1>3. Good(ActivityV2(b, v, i, c))
  BY <1>1 DEF ActivityV2
<1> QED BY <1>2, <1>3 DEF Good

LEMMA TableItems ==
    ASSUME NEW E, NEW v \in E, E \subseteq Nat, NEW b, IsBatchOf("token_v2", b, E),
           NEW c, NEW txn, NEW tables
    PROVE  /\ c.type \in {"CollectionData", "TokenData", "Token", "TokenOffer"} =>
                IsBatchOf("token_v2", WriteTableItem(b, v, c, txn, tables), E)
           /\ IsBatchOf("token_v2", DeleteTableItem(b, v, c, txn), E)
<1> DEFINE Good(x) == IsBatchOf("token_v2", x, E)
<1>1. ASSUME NEW x, Good(x) PROVE Good([x EXCEPT !.errors = @ \cup {v}]) /\ Good([x EXCEPT !.panicked = TRUE])
  BY <1>1, BatchOfSet
<1>2. Good(CollectionFromTableItem(b, v, c, tables))
  <2>1. Good([b EXCEPT !.errors = @ \cup {v}])
    BY <1>1
  <2>2. \A id, creator, supply, handle :
          Good(PutRow(b, <<"current_collections_v2", id>>,
                      CurrentCollectionV2(v, creator, supply, handle)))
    BY CollectionPut
  <2> HIDE DEF Good
  <2> QED BY <2>1, <2>2 DEF CollectionFromTableItem
<1>3. Good(CurrentTokenRoyaltyV1(TokenDataFromTableItem(b, v, c), v, c))
  <2>1. Good(TokenDataFromTableItem(b, v, c))
    BY TokenDataPut DEF TokenDataFromTableItem
  <2> QED BY <2>1, RoyaltyPut
<1>4. Good(OwnershipFromTableItem(b, v, c, txn)) /\ Good(OwnershipFromDeletedItem(b, v, c, txn))
  <2>1. ASSUME NEW owner, NEW amount
        PROVE  /\ Good(Remember(PutRow(b, OwnershipKey(c.token, c.pv, owner, c.handle),
                           CurrentTokenOwnershipV2(v, amount, None)), c.token, owner))
               /\ Good(Remember(PutRow(b, DeletedOwnershipKey(c.token, c.pv, owner, c.handle),
                           CurrentTokenOwnershipV2(v, amount, None)), c.token, owner))
    BY OwnershipPut, Remembered
  <2>2. Good(b)
    OBVIOUS
  <2> HIDE DEF Good
  <2> QED BY <2>1, <2>2 DEF OwnershipFromTableItem, OwnershipFromDeletedItem
<1>5. ASSUME NEW x, Good(x) PROVE Good(PendingClaim(x, v, c))
  <2>1. Good([x EXCEPT !.errors = @ \cup {v}])
    BY <1>1, <1>5
  <2>2. \A from : Good(PutRow(x, ClaimKey(c.token, c.pv, from, c.to),
                          [v |-> v, amount |-> c.amount, table_handle |-> c.handle]))
    BY <1>5, ClaimPut
  <2> HIDE DEF Good
  <2> QED BY <2>1, <2>2 DEF PendingClaim
<1>6. Good(SettledClaim(b, v, c, txn))
  <2>1. Good([b EXCEPT !.panicked = TRUE])
    BY <1>1
  <2>2. \A from : Good(PutRow(b, ClaimKey(c.token, c.pv, from, c.to),
                          [v |-> v, amount |-> 0, table_handle |-> c.handle]))
    BY ClaimPut
  <2> HIDE DEF Good
  <2> QED BY <2>1, <2>2 DEF SettledClaim
<1> HIDE DEF Good
<1>7. Good(DeleteTableItem(b, v, c, txn))
  BY <1>4, <1>6 DEF DeleteTableItem
<1>8. c.type \in {"CollectionData", "TokenData", "Token", "TokenOffer"} =>
         Good(WriteTableItem(b, v, c, txn, tables))
  BY <1>2, <1>3, <1>4, <1>5 DEF WriteTableItem
<1> QED BY <1>7, <1>8 DEF Good

LEMMA TokenResources ==
    ASSUME NEW E, NEW v \in E, E \subseteq Nat, NEW b, IsBatchOf("token_v2", b, E),
           NEW c, NEW burned, NEW tables
    PROVE  /\ IsBatchOf("token_v2", WriteResource(b, v, c, burned, tables), E)
           /\ IsBatchOf("token_v2", DeleteResource(b, v, c, burned, tables), E)
<1> DEFINE Good(x) == IsBatchOf("token_v2", x, E)
<1>1. Good(CollectionFromResource(b, v, c))
  BY CollectionPut DEF CollectionFromResource
<1>2. Good(NftOwnership(TokenDataFromResource(b, v, c), v, c.addr))
  <2>1. Good(TokenDataFromResource(b, v, c))
    BY TokenDataPut DEF TokenDataFromResource
  <2> QED BY <2>1, NftPut
<1>3. ASSUME NEW x, Good(x) PROVE Good(BurnedTokenData(x, v, c.addr))
  BY <1>3, TokenDataPut DEF BurnedTokenData
<1>4. ASSUME NEW x, Good(x), NEW owner
      PROVE  /\ Good(BurnedOwnership(x, v, c.addr, owner, tables))
             /\ Good(BurnedWithObject(x, v, c, owner, tables))
  <2>1. Good(BurnedOwnership(x, v, c.addr, owner, tables))
    BY <1>4, BurnedOwnershipPut
  <2>2. \A s : Good(PutBurned(x, v, c.addr, c.owner, s))
    BY <1>4, BurnedPut
  <2> HIDE DEF Good
  <2> QED BY <2>1, <2>2 DEF BurnedWithObject
<1>5. Good(b)
  OBVIOUS
<1> HIDE DEF Good
<1>6. Good(WriteResource(b, v, c, burned, tables))
  <2>1. PICK written : written =
          CASE c.type = "Collection" -> CollectionFromResource(b, v, c)
            [] c.type = "TokenV2" /\ c.addr \in DOMAIN b.aux.objects ->
                 NftOwnership(TokenDataFromResource(b, v, c), v, c.addr)
            [] OTHER -> b
    OBVIOUS
  <2>2. Good(written)
    BY <1>1, <1>2, <1>5, <2>1
  <2>3. Good(BurnedWithObject(BurnedTokenData(written, v, c.addr), v, c, burned[c.addr], tables))
    BY <1>3, <1>4, <2>2
  <2> QED BY <2>1, <2>2, <2>3 DEF WriteResource
<1>7. Good(DeleteResource(b, v, c, burned, tables))
  BY <1>3, <1>4, <1>5 DEF DeleteResource
<1> QED BY <1>6, <1>7 DEF Good

LEMMA TokensParsed ==
    ASSUME NEW E, NEW v \in E, E \subseteq Nat, NEW txn, Len(txn) \in Nat, NEW tables, NEW b,
           IsBatchOf("token_v2", b, E)
    PROVE  IsBatchOf("token_v2", TokenParse(b, txn, v, tables), E)
<1> DEFINE N == Len(txn)
           Good(x) == IsBatchOf("token_v2", x, E)
           objects == CollectTransfers(CollectResources(
                        CollectObjects(b.aux.objects, txn), txn), txn)
           burned == TokensBurned(txn)
           base == [b EXCEPT !.aux.objects = objects]
           Step(x, i) ==
             LET c == txn[i]
             IN CASE c.type \in TokenEvent -> ActivityV1(x, v, i, c)
                  [] c.type \in V2TokenEvent -> ActivityV2(x, v, i, c)
                  [] c.type \in {"CollectionData", "TokenData", "Token", "TokenOffer"} ->
                       WriteTableItem(x, v, c, txn, tables)
                  [] c.type \in {"DeletedToken", "DeletedTokenOffer"} ->
                       DeleteTableItem(x, v, c, txn)
                  [] c.type \in V2TokenResource -> WriteResource(x, v, c, burned, tables)
                  [] c.type = "DeleteResource" -> DeleteResource(x, v, c, burned, tables)
                  [] OTHER -> x
           Body(g) == [i \in 0 .. N |-> IF i = 0 THEN base ELSE Step(g[i - 1], i)]
           after == CHOOSE g : g = Body(g)
<1>1. N \in Nat
  OBVIOUS
<1>2. TokenParse(b, txn, v, tables) = after[N]
  BY DEF TokenParse, InOrder
<1>3. Good(base)
  <2>1. PICK aux : aux = [b.aux EXCEPT !.objects = objects]
    OBVIOUS
  <2>2. base = [b EXCEPT !.aux = aux]
    BY <2>1
  <2> QED BY <2>2, BatchOfSet
<1>4. ASSUME NEW x, Good(x), NEW i PROVE Good(Step(x, i))
  <2>1. PICK c : c = txn[i]
    OBVIOUS
  <2>2. Good(ActivityV1(x, v, i, c)) /\ Good(ActivityV2(x, v, i, c))
    BY <1>4, TokenActivities
  <2>3. /\ c.type \in {"CollectionData", "TokenData", "Token", "TokenOffer"} =>
              Good(WriteTableItem(x, v, c, txn, tables))
        /\ Good(DeleteTableItem(x, v, c, txn))
    BY <1>4, TableItems
  <2>4. Good(WriteResource(x, v, c, burned, tables)) /\ Good(DeleteResource(x, v, c, burned, tables))
    BY <1>4, TokenResources
  <2> HIDE DEF Good, burned
  <2> QED BY <1>4, <2>1, <2>2, <2>3, <2>4
<1> HIDE DEF Step, base, N, Good
<1>5. \E g : g = Body(g)
  <2> DEFINE Upto(g, n) == g[0] = base /\ \A i \in 1 .. n : g[i] = Step(g[i - 1], i)
             P == {n \in 0 .. N : \E g : Upto(g, n)}
  <2>1. 0 \in P
    <3>1. PICK g : g = [i \in {0} |-> base]
      OBVIOUS
    <3>2. Upto(g, 0)
      BY <3>1
    <3> QED BY <1>1, <3>2
  <2>2. ASSUME NEW n \in 1 .. N, n - 1 \in P PROVE n \in P
    <3>1. PICK g : Upto(g, n - 1)
      BY <2>2
    <3>2. PICK h : h = [i \in 0 .. n |-> IF i = n THEN Step(g[n - 1], n) ELSE g[i]]
      OBVIOUS
    <3>3. Upto(h, n)
      BY <1>1, <3>1, <3>2
    <3> QED BY <1>1, <3>3
  <2>3. N \in P
    <3> HIDE DEF P
    <3> QED BY <1>1, <2>1, <2>2, InductionUpTo
  <2>4. PICK g : Upto(g, N)
    BY <2>3
  <2>5. PICK h : h = [i \in 0 .. N |-> g[i]]
    OBVIOUS
  <2>6. h = Body(h)
    BY <1>1, <2>4, <2>5
  <2> HIDE DEF Body
  <2> QED BY <2>6
<1>6. after = Body(after)
  <2> HIDE DEF Body
  <2> QED BY <1>5
<1> HIDE DEF after
<1>7. after[0] = base /\ \A n \in 1 .. N : after[n] = Step(after[n - 1], n)
  <2>1. \A n \in 0 .. N : Body(after)[n] = IF n = 0 THEN base ELSE Step(after[n - 1], n)
    OBVIOUS
  <2>2. 0 \in 0 .. N /\ \A n \in 1 .. N : n \in 0 .. N /\ n # 0
    BY <1>1
  <2> HIDE DEF Body
  <2> QED BY <1>6, <2>1, <2>2
<1>8. Good(after[N])
  <2> DEFINE P == {n \in 0 .. N : Good(after[n])}
  <2>1. 0 \in P /\ \A n \in 1 .. N : n - 1 \in P => n \in P
    BY <1>1, <1>3, <1>4, <1>7
  <2>2. N \in P
    <3> HIDE DEF P
    <3> QED BY <1>1, <2>1, InductionUpTo
  <2> QED BY <2>2
<1> QED BY <1>2, <1>8 DEF Good

-----------------------------------------------------------------------------
(***************************************************************************)
(* The storer: a statement leaves every row of its table with the table's  *)
(* columns, and takes none of them back.                                   *)
(***************************************************************************)
\* A version in place of another, or of none.
NotOlder(old, new) == old = None \/ (new # None /\ old <= new)

\* A row replaced by another that is not older, in no half of a balance either, and
\* that still knows the coin and the use of the key.
Keeps(old, new) ==
    /\ "v" \in DOMAIN old => old.v <= new.v
    /\ DOMAIN old = BalanceColumns =>
         /\ NotOlder(old.version_v1, new.version_v1) /\ NotOlder(old.version_v2, new.version_v2)
         /\ old.asset_v1 # None => new.asset_v1 # None
    /\ "is_public_key_used" \in DOMAIN old /\ old.is_public_key_used => new.is_public_key_used

LEMMA TableKeyFact ==
    ASSUME NEW p \in DataProcessorNames, NEW k, 1 \in DOMAIN k, k[1] \in StorerStatements(p)
    PROVE  /\ StorerTableKey(k)[1] \in TablesOfStorer(p)
           /\ StorerTableKey(k)[1] \notin BalanceStatements
           /\ Columns(StorerTableKey(k)[1]) = Columns(k[1])
<1>1. CASE k[1] \in {"cufab_v1", "cufab_v2"}
  <2>1. StorerTableKey(k) = <<"current_fungible_asset_balances", k[2]>>
    BY <1>1 DEF StorerTableKey, FungibleAssetTableKey, TokenTables, AccountRestorationTables
  <2> QED BY <1>1, <2>1, ColumnsFact DEF TablesOfStorer, BalanceStatements
<1>2. CASE k[1] = "public_key_auth_keys"
  <2>1. StorerTableKey(k) = <<k[1], k[2], k[3]>>
    BY <1>2 DEF StorerTableKey, AccountRestorationTableKey, TokenTables, AccountRestorationTables
  <2> QED BY <1>2, <2>1 DEF TablesOfStorer, BalanceStatements
<1>3. CASE k[1] = "current_deleted_token_datas_v2"
  <2>1. StorerTableKey(k) = [k EXCEPT ![1] = "current_token_datas_v2"]
    BY <1>3 DEF StorerTableKey, TokenTableKey, TokenTables, AccountRestorationTables
  <2>2. p = "token_v2"
    BY <1>3 DEF StorerStatements, DataProcessorNames, ObjectsTables, StakeTables,
                FungibleAssetTables, AnsTables, AccountRestorationTables
  <2>3. StorerTableKey(k)[1] = "current_token_datas_v2"
    BY <2>1
  <2> QED BY <1>3, <2>2, <2>3, ColumnsFact, TokenStatements DEF TablesOfStorer, BalanceStatements
<1>4. CASE k[1] = "current_deleted_token_ownerships_v2"
  <2>1. StorerTableKey(k) = [k EXCEPT ![1] = "current_token_ownerships_v2"]
    BY <1>4 DEF StorerTableKey, TokenTableKey, TokenTables, AccountRestorationTables
  <2>2. p = "token_v2"
    BY <1>4 DEF StorerStatements, DataProcessorNames, ObjectsTables, StakeTables,
                FungibleAssetTables, AnsTables, AccountRestorationTables
  <2>3. StorerTableKey(k)[1] = "current_token_ownerships_v2"
    BY <2>1
  <2> QED BY <1>4, <2>2, <2>3, ColumnsFact, TokenStatements DEF TablesOfStorer, BalanceStatements
<1>5. CASE k[1] \notin {"cufab_v1", "cufab_v2", "public_key_auth_keys",
                        "current_deleted_token_datas_v2", "current_deleted_token_ownerships_v2"}
  <2>1. StorerTableKey(k) = k
    BY <1>5 DEF StorerTableKey, FungibleAssetTableKey, AccountRestorationTableKey, TokenTableKey
  <2> QED BY <1>5, <2>1 DEF TablesOfStorer, BalanceStatements
<1> QED BY <1>1, <1>2, <1>3, <1>4, <1>5

LEMMA KeepsItself ==
    ASSUME NEW s, NEW row, IsRow(s, row)
    PROVE  Keeps(row, row)
<1>1. DOMAIN row = Columns(s) /\ ("v" \in Columns(s) => row.v \in Nat)
  BY DEF IsRow
<1>2. Columns(s) = BalanceColumns =>
         row.version_v1 \in Nat \cup {None} /\ row.version_v2 \in Nat \cup {None}
  BY DEF IsRow
<1> QED BY <1>1, <1>2 DEF Keeps, NotOlder

\* A row of neither a balance nor a public key stays, or gives way to a later one.
LEMMA LaterRow ==
    ASSUME NEW s, NEW t, t \notin BalanceStatements, Columns(t) = Columns(s), Columns(s) # BalanceColumns,
           "is_public_key_used" \notin Columns(s), NEW old, IsRow(t, old), NEW new, IsRow(s, new),
           NEW row, row = old \/ (row = new /\ ("v" \in Columns(s) => old.v <= new.v))
    PROVE  IsRow(t, row) /\ Keeps(old, row)
<1>1. IsRow(t, new)
  BY DEF IsRow, BalanceStatements
<1>2. DOMAIN old = Columns(t)
  BY DEF IsRow
<1>3. CASE row = old
  BY <1>3, KeepsItself
<1>4. CASE row = new /\ ("v" \in Columns(s) => old.v <= new.v)
  BY <1>1, <1>2, <1>4 DEF Keeps
<1> QED BY <1>3, <1>4

LEMMA OtherColumns ==
    /\ Columns("public_key_auth_keys") # BalanceColumns
    /\ \A p \in DataProcessorNames : \A s \in StorerStatements(p) :
         s \notin {"cufab_v1", "cufab_v2", "public_key_auth_keys"} =>
            Columns(s) # BalanceColumns /\ "is_public_key_used" \notin Columns(s)
<1>1. "owner" \in BalanceColumns /\ "amount_v1" \in BalanceColumns /\ "v" \notin BalanceColumns
  BY DEF BalanceColumns
<1>2. "v" \in Columns("public_key_auth_keys")
  BY ColumnsFact
<1>3. ASSUME NEW s,
             s \in (ObjectsTables \cup StakeTables \cup FungibleAssetTables \cup TokenTables
                    \cup AnsTables \cup AccountRestorationTables)
                   \ {"cufab_v1", "cufab_v2", "public_key_auth_keys"}
      PROVE  "amount_v1" \notin Columns(s) /\ "is_public_key_used" \notin Columns(s)
  <2>1. CASE s \in ObjectsTables
    BY <2>1, ColumnsFact DEF ObjectsTables
  <2>2. CASE s \in StakeTables
    BY <2>2, ColumnsFact DEF StakeTables
  <2>3. CASE s \in FungibleAssetTables
    BY <1>3, <2>3, ColumnsFact DEF FungibleAssetTables
  <2>4. CASE s \in TokenTables
    BY <2>4, ColumnsFact DEF TokenTables
  <2>5. CASE s \in AnsTables
    BY <2>5, ColumnsFact DEF AnsTables
  <2>6. CASE s \in AccountRestorationTables
    BY <1>3, <2>6, ColumnsFact DEF AccountRestorationTables
  <2> QED BY <1>3, <2>1, <2>2, <2>3, <2>4, <2>5, <2>6
<1>4. ASSUME NEW p \in DataProcessorNames, NEW s \in StorerStatements(p)
      PROVE  s \in ObjectsTables \cup StakeTables \cup FungibleAssetTables \cup TokenTables
                   \cup AnsTables \cup AccountRestorationTables
  BY DEF DataProcessorNames, StorerStatements
<1> QED BY <1>1, <1>2, <1>3, <1>4

LEMMA ObjectsUpserted ==
    ASSUME NEW k, k[1] \in ObjectsTables, NEW t, t \notin BalanceStatements, Columns(t) = Columns(k[1]),
           NEW old, IsRow(t, old), NEW new, IsRow(k[1], new)
    PROVE  IsRow(t, ObjectsUpsert(k, old, new)) /\ Keeps(old, ObjectsUpsert(k, old, new))
<1>1. PICK row, s : row = ObjectsUpsert(k, old, new) /\ s = k[1]
  OBVIOUS
<1>2. Columns(s) # BalanceColumns /\ "is_public_key_used" \notin Columns(s)
  <2>1. s \in StorerStatements("objects") /\ "objects" \in DataProcessorNames
    BY <1>1 DEF StorerStatements, DataProcessorNames
  <2>2. s \notin {"cufab_v1", "cufab_v2", "public_key_auth_keys"}
    BY <1>1 DEF ObjectsTables
  <2> QED BY <2>1, <2>2, OtherColumns
<1>3. row = old \/ (row = new /\ old.v <= new.v)
  BY <1>1 DEF ObjectsUpsert
<1> QED BY <1>1, <1>2, <1>3, LaterRow

LEMMA StakeUpserted ==
    ASSUME NEW k, k[1] \in StakeTables, NEW t, t \notin BalanceStatements, Columns(t) = Columns(k[1]),
           NEW old, IsRow(t, old), NEW new, IsRow(k[1], new)
    PROVE  IsRow(t, StakeUpsert(k, old, new)) /\ Keeps(old, StakeUpsert(k, old, new))
<1>1. PICK row, s : row = StakeUpsert(k, old, new) /\ s = k[1]
  OBVIOUS
<1>2. Columns(s) # BalanceColumns /\ "is_public_key_used" \notin Columns(s)
  <2>1. s \in StorerStatements("stake") /\ "stake" \in DataProcessorNames
    BY <1>1 DEF StorerStatements, DataProcessorNames
  <2>2. s \notin {"cufab_v1", "cufab_v2", "public_key_auth_keys"}
    BY <1>1 DEF StakeTables
  <2> QED BY <2>1, <2>2, OtherColumns
<1>3. CASE s = "delegated_staking_pools"
  <2>1. "v" \notin Columns(s)
    BY <1>3, ColumnsFact
  <2>2. row = IF old.first >= new.first THEN new ELSE old
    BY <1>1, <1>3 DEF StakeUpsert
  <2>3. row = old \/ row = new
    BY <2>2
  <2> QED BY <1>1, <1>2, <2>1, <2>3, LaterRow
<1>4. CASE s # "delegated_staking_pools"
  <2>1. row = old \/ (row = new /\ old.v <= new.v)
    BY <1>1, <1>4 DEF StakeUpsert
  <2> QED BY <1>1, <1>2, <2>1, LaterRow
<1> QED BY <1>3, <1>4

LEMMA AnsUpserted ==
    ASSUME NEW k, k[1] \in AnsTables, NEW t, t \notin BalanceStatements, Columns(t) = Columns(k[1]),
           NEW old, IsRow(t, old), NEW new, IsRow(k[1], new)
    PROVE  IsRow(t, AnsUpsert(k, old, new)) /\ Keeps(old, AnsUpsert(k, old, new))
<1>1. PICK row, s : row = AnsUpsert(k, old, new) /\ s = k[1]
  OBVIOUS
<1>2. Columns(s) # BalanceColumns /\ "is_public_key_used" \notin Columns(s)
  <2>1. s \in StorerStatements("ans") /\ "ans" \in DataProcessorNames
    BY <1>1 DEF StorerStatements, DataProcessorNames
  <2>2. s \notin {"cufab_v1", "cufab_v2", "public_key_auth_keys"}
    BY <1>1 DEF AnsTables
  <2> QED BY <2>1, <2>2, OtherColumns
<1>3. row = old \/ (row = new /\ old.v <= new.v)
  BY <1>1 DEF AnsUpsert
<1> QED BY <1>1, <1>2, <1>3, LaterRow

LEMMA KeysUpserted ==
    ASSUME NEW k, k[1] \in AccountRestorationTables, NEW t, t \notin BalanceStatements,
           Columns(t) = Columns(k[1]), NEW old, IsRow(t, old), NEW new, IsRow(k[1], new)
    PROVE  /\ IsRow(t, AccountRestorationUpsert(k, old, new))
           /\ Keeps(old, AccountRestorationUpsert(k, old, new))
<1>1. PICK row, s : row = AccountRestorationUpsert(k, old, new) /\ s = k[1]
  OBVIOUS
<1>2. CASE s = "public_key_auth_keys" /\ old.v <= new.v
  <2>1. row = [new EXCEPT !.is_public_key_used = old.is_public_key_used \/ @]
    BY <1>1, <1>2 DEF AccountRestorationUpsert
  <2>2. /\ DOMAIN new = Columns(s) /\ DOMAIN old = Columns(s) /\ new.v \in Nat
        /\ Columns(s) = {"v", "is_public_key_used"}
    BY <1>1, <1>2, ColumnsFact DEF IsRow
  <2>3. DOMAIN row = Columns(s) /\ row.v = new.v
    BY <2>1, <2>2
  <2>4. old.is_public_key_used => row.is_public_key_used
    BY <2>1, <2>2
  <2>5. Columns(s) # BalanceColumns
    BY <1>2, OtherColumns
  <2>6. IsRow(t, row)
    BY <1>1, <2>2, <2>3, <2>5 DEF IsRow, BalanceStatements
  <2>7. Keeps(old, row)
    BY <1>2, <2>2, <2>3, <2>4, <2>5 DEF Keeps
  <2> QED BY <1>1, <2>6, <2>7
<1>3. CASE row = old
  BY <1>1, <1>3, KeepsItself
<1>4. CASE s = "auth_key_account_addresses" /\ row = new /\ old.v <= new.v
  <2>1. Columns(s) # BalanceColumns /\ "is_public_key_used" \notin Columns(s)
    <3>1. s \in StorerStatements("account_restoration")
      BY <1>4 DEF StorerStatements, AccountRestorationTables
    <3>2. "account_restoration" \in DataProcessorNames
      BY DEF DataProcessorNames
    <3> QED BY <1>4, <3>1, <3>2, OtherColumns
  <2> QED BY <1>1, <1>4, <2>1, LaterRow
<1>5. \/ s = "public_key_auth_keys" /\ old.v <= new.v
      \/ row = old
      \/ s = "auth_key_account_addresses" /\ row = new /\ old.v <= new.v
  BY <1>1 DEF AccountRestorationUpsert, AccountRestorationTables
<1> QED BY <1>2, <1>3, <1>4, <1>5

LEMMA TokensUpserted ==
    ASSUME NEW k, k[1] \in TokenTables, NEW t, t \notin BalanceStatements, Columns(t) = Columns(k[1]),
           NEW old, IsRow(t, old), NEW new, IsRow(k[1], new)
    PROVE  IsRow(t, TokenUpsert(k, old, new)) /\ Keeps(old, TokenUpsert(k, old, new))
<1>1. PICK row, s : row = TokenUpsert(k, old, new) /\ s = k[1]
  OBVIOUS
<1>2. Columns(s) # BalanceColumns /\ "is_public_key_used" \notin Columns(s)
  <2>1. s \in StorerStatements("token_v2") /\ "token_v2" \in DataProcessorNames
    BY <1>1 DEF StorerStatements, DataProcessorNames
  <2>2. s \notin {"cufab_v1", "cufab_v2", "public_key_auth_keys"}
    BY <1>1 DEF TokenTables
  <2> QED BY <2>1, <2>2, OtherColumns
<1>3. DOMAIN old = Columns(s) /\ DOMAIN new = Columns(s)
  BY <1>1 DEF IsRow
<1>4. CASE row = old \/ (row = new /\ old.v <= new.v)
  BY <1>1, <1>2, <1>4, LaterRow
<1>5. ASSUME NEW mixed, DOMAIN mixed = Columns(s), mixed.v = new.v, row = mixed,
             "v" \in Columns(s), old.v <= new.v
      PROVE  IsRow(t, row) /\ Keeps(old, row)
  <2>1. IsRow(s, mixed)
    BY <1>1, <1>2, <1>5 DEF IsRow, TokenTables
  <2> QED BY <1>1, <1>2, <1>5, <2>1, LaterRow
<1>6. CASE s = "current_token_datas_v2" /\ old.v <= new.v
  <2>1. row = [new EXCEPT !.is_deleted_v2 = old.is_deleted_v2]
    BY <1>1, <1>6 DEF TokenUpsert, UpsertTokenData
  <2>2. DOMAIN row = Columns(s) /\ row.v = new.v /\ "v" \in Columns(s)
    BY <1>3, <1>6, <2>1, ColumnsFact
  <2> QED BY <1>1, <1>5, <1>6, <2>2
<1>7. CASE s = "current_deleted_token_datas_v2" /\ old.v <= new.v
  <2>1. row = [old EXCEPT !.v = new.v, !.is_deleted_v2 = new.is_deleted_v2]
    BY <1>1, <1>7 DEF TokenUpsert, UpsertDeletedTokenData
  <2>2. DOMAIN row = Columns(s) /\ row.v = new.v /\ "v" \in Columns(s)
    BY <1>3, <1>7, <2>1, ColumnsFact
  <2> QED BY <1>1, <1>5, <1>7, <2>2
<1>8. CASE s = "current_deleted_token_ownerships_v2" /\ old.v <= new.v
  <2>1. row = [old EXCEPT !.amount = new.amount, !.v = new.v]
    BY <1>1, <1>8 DEF TokenUpsert, UpsertDeletedOwnership
  <2>2. DOMAIN row = Columns(s) /\ row.v = new.v /\ "v" \in Columns(s)
    BY <1>3, <1>8, <2>1, ColumnsFact
  <2> QED BY <1>1, <1>5, <1>8, <2>2
<1>9. \/ row = old \/ (row = new /\ old.v <= new.v)
      \/ /\ old.v <= new.v
         /\ s \in {"current_token_datas_v2", "current_deleted_token_datas_v2",
                   "current_deleted_token_ownerships_v2"}
  BY <1>1 DEF TokenUpsert, UpsertTokenData, UpsertDeletedTokenData, UpsertOwnership,
              UpsertDeletedOwnership
<1> QED BY <1>1, <1>4, <1>6, <1>7, <1>8, <1>9

LEMMA AssetsUpserted ==
    ASSUME NEW k, k[1] \in FungibleAssetTables, NEW t, t \notin BalanceStatements, Columns(t) = Columns(k[1]),
           NEW old, IsRow(t, old), NEW new, IsRow(k[1], new)
    PROVE  /\ IsRow(t, FungibleAssetUpsert(k, old, new))
           /\ Keeps(old, FungibleAssetUpsert(k, old, new))
<1>1. PICK row, s : row = FungibleAssetUpsert(k, old, new) /\ s = k[1]
  OBVIOUS
<1>2. CASE row = old
  BY <1>1, <1>2, KeepsItself
<1>3. CASE s \notin {"cufab_v1", "cufab_v2"}
  <2>1. Columns(s) # BalanceColumns /\ "is_public_key_used" \notin Columns(s)
    <3>1. s \in StorerStatements("fungible_asset") /\ "fungible_asset" \in DataProcessorNames
      BY <1>1 DEF StorerStatements, DataProcessorNames
    <3>2. s # "public_key_auth_keys"
      BY <1>1 DEF FungibleAssetTables
    <3> QED BY <1>3, <3>1, <3>2, OtherColumns
  <2>2. DOMAIN old = Columns(s)
    BY <1>1 DEF IsRow
  <2>3. CASE s = "fungible_asset_activities"
    <3>1. row = [old EXCEPT !.storage = new.storage] /\ "v" \notin Columns(s)
      BY <1>1, <2>3, ColumnsFact DEF FungibleAssetUpsert
    <3>2. DOMAIN row = Columns(s)
      BY <2>2, <3>1
    <3>3. IsRow(s, row)
      BY <2>1, <2>3, <3>1, <3>2 DEF IsRow
    <3> QED BY <1>1, <2>1, <3>1, <3>3, LaterRow
  <2>4. CASE s # "fungible_asset_activities"
    <3>1. row = old \/ (row = new /\ old.v <= new.v)
      BY <1>1, <1>3, <2>4 DEF FungibleAssetUpsert
    <3> QED BY <1>1, <2>1, <3>1, LaterRow
  <2> QED BY <2>3, <2>4
<1>4. CASE s \in {"cufab_v1", "cufab_v2"} /\ row # old
  <2>1. /\ Columns(s) = BalanceColumns /\ DOMAIN old = BalanceColumns
        /\ DOMAIN new = BalanceColumns
        /\ old.version_v1 \in Nat \cup {None} /\ old.version_v2 \in Nat \cup {None}
        /\ new.version_v1 \in Nat \cup {None} /\ new.version_v2 \in Nat \cup {None}
    BY <1>1, <1>4, ColumnsFact DEF IsRow
  <2>2. /\ "asset_v1" \in BalanceColumns /\ "version_v1" \in BalanceColumns
        /\ "amount_v1" \in BalanceColumns /\ "owner" \in BalanceColumns
        /\ "is_frozen" \in BalanceColumns /\ "v" \notin BalanceColumns
        /\ "is_public_key_used" \notin BalanceColumns
    BY DEF BalanceColumns
  <2>3. CASE s = "cufab_v1"
    <3>1. /\ row = [old EXCEPT !.owner = new.owner, !.asset_v1 = new.asset_v1,
                               !.is_frozen = new.is_frozen, !.amount_v1 = new.amount_v1,
                               !.version_v1 = new.version_v1]
          /\ Accepts(old.version_v1, new.version_v1)
      BY <1>1, <1>4, <2>3 DEF FungibleAssetUpsert, UpsertV1
    <3>2. new.asset_v1 # None /\ new.version_v1 \in Nat
      BY <1>1, <2>3 DEF IsRow
    <3>3. /\ DOMAIN row = BalanceColumns /\ row.version_v1 = new.version_v1
          /\ row.asset_v1 = new.asset_v1 /\ row.version_v2 = old.version_v2
      BY <2>1, <2>2, <3>1
    <3>4. NotOlder(old.version_v1, row.version_v1) /\ NotOlder(old.version_v2, row.version_v2)
      BY <2>1, <3>1, <3>2, <3>3, NullAssumption DEF Accepts, NotOlder
    <3>5. IsRow(t, row)
      BY <1>1, <2>1, <2>2, <3>3 DEF IsRow, BalanceStatements
    <3>6. Keeps(old, row)
      BY <2>1, <2>2, <3>2, <3>3, <3>4 DEF Keeps
    <3> QED BY <1>1, <3>5, <3>6
  <2>4. CASE s = "cufab_v2"
    <3>1. /\ row = [new EXCEPT !.asset_v1 = IF @ = None THEN old.asset_v1 ELSE @,
                               !.amount_v1 = old.amount_v1, !.version_v1 = old.version_v1]
          /\ Accepts(old.version_v2, new.version_v2)
      BY <1>1, <1>4, <2>4 DEF FungibleAssetUpsert, UpsertV2
    <3>2. /\ DOMAIN row = BalanceColumns /\ row.version_v1 = old.version_v1
          /\ row.asset_v1 = (IF new.asset_v1 = None THEN old.asset_v1 ELSE new.asset_v1)
          /\ row.version_v2 = new.version_v2
      BY <2>1, <2>2, <3>1
    <3>3. NotOlder(old.version_v1, row.version_v1) /\ NotOlder(old.version_v2, row.version_v2)
      <4>1. new.version_v2 \in Nat
        BY <1>1, <2>4 DEF IsRow
      <4> QED BY <2>1, <3>1, <3>2, <4>1, NullAssumption DEF Accepts, NotOlder
    <3>4. IsRow(t, row)
      BY <1>1, <2>1, <2>2, <3>2 DEF IsRow, BalanceStatements
    <3>5. Keeps(old, row)
      BY <2>1, <2>2, <3>2, <3>3 DEF Keeps
    <3> QED BY <1>1, <3>4, <3>5
  <2> QED BY <1>4, <2>3, <2>4
<1> QED BY <1>2, <1>3, <1>4

LEMMA Upserted ==
    ASSUME NEW p \in DataProcessorNames, NEW k, 1 \in DOMAIN k, k[1] \in StorerStatements(p),
           NEW old, IsRow(StorerTableKey(k)[1], old), NEW new, IsRow(k[1], new)
    PROVE  /\ IsRow(StorerTableKey(k)[1], StorerUpsert(p, k, old, new))
           /\ Keeps(old, StorerUpsert(p, k, old, new))
<1>1. PICK t : t = StorerTableKey(k)[1]
  OBVIOUS
<1>2. t \notin BalanceStatements /\ Columns(t) = Columns(k[1])
  BY <1>1, TableKeyFact
<1>3. IsRow(t, new)
  BY <1>2 DEF IsRow, BalanceStatements
<1>4. PICK row : row = StorerUpsert(p, k, old, new)
  OBVIOUS
<1>5. IsRow(t, old)
  BY <1>1
<1>6. CASE p = "objects"
  <2>1. row = ObjectsUpsert(k, old, new) /\ k[1] \in ObjectsTables
    BY <1>4, <1>6 DEF StorerUpsert, StorerStatements
  <2> QED BY <1>1, <1>2, <1>3, <1>4, <1>5, <2>1, ObjectsUpserted
<1>7. CASE p = "stake"
  <2>1. row = StakeUpsert(k, old, new) /\ k[1] \in StakeTables
    BY <1>4, <1>7 DEF StorerUpsert, StorerStatements
  <2> QED BY <1>1, <1>2, <1>3, <1>4, <1>5, <2>1, StakeUpserted
<1>8. CASE p = "fungible_asset"
  <2>1. row = FungibleAssetUpsert(k, old, new) /\ k[1] \in FungibleAssetTables
    BY <1>4, <1>8 DEF StorerUpsert, StorerStatements
  <2> QED BY <1>1, <1>2, <1>3, <1>4, <1>5, <2>1, AssetsUpserted
<1>9. CASE p = "token_v2"
  <2>1. row = TokenUpsert(k, old, new) /\ k[1] \in TokenTables
    BY <1>4, <1>9 DEF StorerUpsert, StorerStatements
  <2> QED BY <1>1, <1>2, <1>3, <1>4, <1>5, <2>1, TokensUpserted
<1>10. CASE p = "ans"
  <2>1. row = AnsUpsert(k, old, new) /\ k[1] \in AnsTables
    BY <1>4, <1>10 DEF StorerUpsert, StorerStatements
  <2> QED BY <1>1, <1>2, <1>3, <1>4, <1>5, <2>1, AnsUpserted
<1>11. CASE p = "account_restoration"
  <2>1. row = AccountRestorationUpsert(k, old, new) /\ k[1] \in AccountRestorationTables
    BY <1>4, <1>11 DEF StorerUpsert, StorerStatements
  <2> QED BY <1>1, <1>2, <1>3, <1>4, <1>5, <2>1, KeysUpserted
<1> QED BY <1>6, <1>7, <1>8, <1>9, <1>10, <1>11 DEF DataProcessorNames

\* A pipeline that runs the data processors.
ProcessorsWired ==
    /\ Processors \subseteq DataProcessorNames
    /\ \A p \in Processors : Statements(p) = StorerStatements(p)
    /\ \A p \in Processors : \A c : IsChange(p, c) <=> ExtractorReads(p, c)
    /\ \A p \in Processors : \A tables : FirstBatch(p, tables) = ExtractorStart(p, tables)
    /\ \A p \in Processors : \A b : NextBatch(p, b) = ExtractorNext(p, b)
    /\ \A p \in Processors : \A b, txn, v, tables :
          Parse(p, b, txn, v, tables) = ExtractorParse(p, b, txn, v, tables)
    /\ \A p \in Processors : \A k, old, new : Upsert(p, k, old, new) = StorerUpsert(p, k, old, new)
    /\ \A k : TableKey(k) = StorerTableKey(k)

\* Chains of transactions that are made of what the processor reads.
DataChains ==
    \A p \in Processors : \A c \in Histories(p) :
       /\ Len(c) \in Nat
       /\ \A v \in 1 .. Len(c) :
            /\ Len(c[v]) \in Nat
            /\ \A i \in DOMAIN c[v] : ExtractorReads(p, c[v][i])

LEMMA EmptyBatchFact ==
    ASSUME NEW p, NEW E, NEW aux
    PROVE  IsBatchOf(p, EmptyBatch(aux), E)
<1>1. EmptyBatch(aux) = TheBatch(NoRows, aux, {}, FALSE, {})
  BY DEF EmptyBatch, TheBatch
<1>2. IsFcn(NoRows)
  BY DEF IsFcn, NoRows
<1> QED BY <1>1, <1>2, AreRowsNone, TheBatchOf

LEMMA StartFact ==
    ASSUME NEW p \in DataProcessorNames, NEW E
    PROVE  /\ \A tables : IsBatchOf(p, ExtractorStart(p, tables), E)
           /\ \A b : IsBatchOf(p, ExtractorNext(p, b), E)
<1>1. ASSUME NEW tables PROVE \E aux : ExtractorStart(p, tables) = EmptyBatch(aux)
  BY DEF ExtractorStart, DataProcessorNames, ObjectsNewBatch, StakeNewBatch, TokenNewBatch,
         FungibleAssetFirstBatch, AnsNewBatch, AccountRestorationNewBatch
<1>2. ASSUME NEW b PROVE \E aux : ExtractorNext(p, b) = EmptyBatch(aux)
  BY <1>1 DEF ExtractorNext, FungibleAssetNextBatch
<1> QED BY <1>1, <1>2, EmptyBatchFact

LEMMA Parsed ==
    ASSUME NEW p \in DataProcessorNames, NEW E, NEW v \in E, E \subseteq Nat,
           NEW txn, Len(txn) \in Nat, NEW tables, AreTables(p, tables),
           NEW b, IsBatchOf(p, b, E)
    PROVE  IsBatchOf(p, ExtractorParse(p, b, txn, v, tables), E)
<1>1. CASE p = "objects"
  <2>1. ExtractorParse(p, b, txn, v, tables) = ObjectsParse(b, txn, v, tables)
    BY <1>1 DEF ExtractorParse
  <2> QED BY <1>1, <2>1, ObjectsParsed
<1>2. CASE p = "stake"
  <2>1. ExtractorParse(p, b, txn, v, tables) = StakeParse(b, txn, v, tables)
    BY <1>2 DEF ExtractorParse
  <2> QED BY <1>2, <2>1, StakeParsed
<1>3. CASE p = "fungible_asset"
  <2>1. ExtractorParse(p, b, txn, v, tables) = FungibleAssetParse(b, txn, v, tables)
    BY <1>3 DEF ExtractorParse
  <2> QED BY <1>3, <2>1, AssetsParsed
<1>4. CASE p = "token_v2"
  <2>1. ExtractorParse(p, b, txn, v, tables) = TokenParse(b, txn, v, tables)
    BY <1>4 DEF ExtractorParse
  <2> QED BY <1>4, <2>1, TokensParsed
<1>5. CASE p = "ans"
  <2>1. ExtractorParse(p, b, txn, v, tables) = AnsParse(b, txn, v, tables)
    BY <1>5 DEF ExtractorParse
  <2> QED BY <1>5, <2>1, AnsParsed
<1>6. CASE p = "account_restoration"
  <2>1. ExtractorParse(p, b, txn, v, tables) = AccountRestorationParse(b, txn, v, tables)
    BY <1>6 DEF ExtractorParse
  <2> QED BY <1>6, <2>1, KeysParsed
<1> QED BY <1>1, <1>2, <1>3, <1>4, <1>5, <1>6 DEF DataProcessorNames

LEMMA RowsStored ==
    ASSUME ProcessorsWired, processor \in Processors, AreTables(processor, db),
           NEW s, NEW rows, AreRows(processor, rows)
    PROVE  /\ AreTables(processor, Stored(s, rows))
           /\ \A t \in DOMAIN db : t \in DOMAIN Stored(s, rows) /\ Keeps(db[t], Stored(s, rows)[t])
<1> DEFINE mine == {k \in DOMAIN rows : CommitGroup(k[1]) = s}
           keys == {TableKey(k) : k \in mine}
           row(t) == LET k == CHOOSE k \in mine : TableKey(k) = t
                     IN IF t \in DOMAIN db
                        THEN Upsert(processor, k, db[t], rows[k]) ELSE rows[k]
           new == [t \in keys |-> row(t)]
<1>1. Stored(s, rows) = Over(new, db)
  BY DEF Stored
<1>2. PICK p : p = processor
  OBVIOUS
<1>3. p \in DataProcessorNames /\ \A k : TableKey(k) = StorerTableKey(k)
  BY <1>2 DEF ProcessorsWired
<1>4. ASSUME NEW t \in keys
      PROVE  /\ t[1] \in TablesOfStorer(p) /\ IsRow(t[1], row(t))
             /\ t \in DOMAIN db => Keeps(db[t], row(t))
  <2>1. \E k \in mine : TableKey(k) = t
    OBVIOUS
  <2>2. PICK k : k = CHOOSE x \in mine : TableKey(x) = t
    OBVIOUS
  <2>3. k \in mine /\ TableKey(k) = t
    BY <2>1, <2>2
  <2>4. 1 \in DOMAIN k /\ k[1] \in StorerStatements(p) /\ IsRow(k[1], rows[k])
    BY <1>2, <2>3 DEF AreRows
  <2>5. t = StorerTableKey(k)
    BY <1>3, <2>3
  <2>6. /\ t[1] \in TablesOfStorer(p) /\ t[1] \notin BalanceStatements
        /\ Columns(t[1]) = Columns(k[1])
    BY <1>3, <2>4, <2>5, TableKeyFact
  <2> HIDE DEF mine
  <2>7. row(t) = IF t \in DOMAIN db THEN Upsert(p, k, db[t], rows[k]) ELSE rows[k]
    BY <1>2, <2>2
  <2>8. CASE t \notin DOMAIN db
    <3>1. row(t) = rows[k]
      BY <2>7, <2>8
    <3>2. IsRow(t[1], rows[k])
      BY <2>4, <2>6 DEF IsRow, BalanceStatements
    <3> QED BY <2>6, <2>8, <3>1, <3>2
  <2>9. CASE t \in DOMAIN db
    <3>1. row(t) = Upsert(p, k, db[t], rows[k])
      BY <2>7, <2>9
    <3>2. Upsert(p, k, db[t], rows[k]) = StorerUpsert(p, k, db[t], rows[k])
      BY <1>2 DEF ProcessorsWired
    <3>3. IsRow(StorerTableKey(k)[1], db[t])
      BY <1>2, <2>5, <2>9 DEF AreTables
    <3>4. /\ IsRow(StorerTableKey(k)[1], StorerUpsert(p, k, db[t], rows[k]))
          /\ Keeps(db[t], StorerUpsert(p, k, db[t], rows[k]))
      BY <1>3, <2>4, <3>3, Upserted
    <3> HIDE DEF row
    <3> QED BY <2>5, <2>6, <3>1, <3>2, <3>4
  <2> QED BY <2>8, <2>9
<1>5. ASSUME NEW t \in DOMAIN db
      PROVE  t[1] \in TablesOfStorer(p) /\ IsRow(t[1], db[t]) /\ Keeps(db[t], db[t])
  BY <1>2, KeepsItself DEF AreTables
<1> HIDE DEF row, keys
<1>6. /\ DOMAIN Over(new, db) = keys \cup DOMAIN db
      /\ \A k \in keys : Over(new, db)[k] = row(k)
      /\ \A k \in DOMAIN db : k \notin keys => Over(new, db)[k] = db[k]
  BY DEF Over
<1> HIDE DEF new
<1>7. AreTables(p, Over(new, db))
  BY <1>4, <1>5, <1>6 DEF AreTables
<1>8. \A t \in DOMAIN db : t \in DOMAIN Over(new, db) /\ Keeps(db[t], Over(new, db)[t])
  BY <1>4, <1>5, <1>6
<1> QED BY <1>1, <1>2, <1>7, <1>8

\* Batches end within the chain and their bound, the channel holds what it can.
BoundsInv ==
    /\ Len(chain) \in Nat
    /\ batch_end <= Len(chain) /\ next_version <= Len(chain) + 1
    /\ batch_end # 0 => /\ batch_end <= batch_start + MaxBatch - 1
                        /\ next_version <= batch_end + 1
    /\ checkpoint <= Len(chain)
    /\ Len(queue) <= ChannelSize + 1
    /\ queue = <<>> => committed = {}
    /\ crashes \in 0 .. MaxCrashes

\* Every row in the extractor, on its way and in the tables has its columns.
ColumnsInv ==
    /\ IsBatchOf(processor, batch, Versions)
    /\ \A i \in 1 .. Len(queue) : AreRows(processor, queue[i].rows)
    /\ AreTables(processor, db)
    /\ errors \subseteq Versions

TablesInv ==
    /\ processor \in Processors /\ chain \in Histories(processor)
    /\ IInv /\ BoundsInv /\ ColumnsInv

LEMMA TablesExtract ==
    ASSUME ProcessorsWired, DataChains, TablesInv, ExtractTransaction
    PROVE  BoundsInv' /\ ColumnsInv'
<1>1. MaxBatch \in Nat \ {0}
  BY PipelineAssumption
<1>2. PICK p, L, n, s, e :
        /\ p = processor /\ L = Len(chain) /\ n = next_version
        /\ s = batch_start' /\ e = batch_end'
  OBVIOUS
<1>3. /\ s = IF batch_end # 0 THEN batch_start ELSE n
      /\ e \in ReceiveBatch /\ n <= e /\ next_version' = n + 1
      /\ batch' = Parse(p, [batch EXCEPT !.transactions = {chain[w] : w \in s .. e}], chain[n], n, db)
      /\ UNCHANGED <<processor, chain, db, queue, committed, checkpoint, errors, crashes>>
  BY <1>2 DEF ExtractTransaction
<1>4. /\ n \in Nat \ {0} /\ batch_end \in Nat /\ batch_start \in Nat /\ L \in Nat
      /\ batch_end <= L /\ n <= L + 1
      /\ batch_end # 0 => batch_end <= batch_start + MaxBatch - 1 /\ n <= batch_end + 1
  BY <1>2 DEF TablesInv, IInv, BoundsInv
<1>5. e \in Nat /\ e <= L /\ e <= s + MaxBatch - 1
  <2>1. CASE batch_end # 0
    BY <1>3, <1>4, <2>1 DEF ReceiveBatch
  <2>2. CASE batch_end = 0
    <3>1. e \in n .. n + MaxBatch - 1 /\ e <= L /\ s = n
      BY <1>2, <1>3, <2>2 DEF ReceiveBatch
    <3> QED BY <1>1, <1>4, <3>1
  <2> QED BY <2>1, <2>2
<1>6. BoundsInv'
  <2>1. /\ Len(chain') = L /\ batch_end' = e /\ batch_start' = s /\ next_version' = n + 1
        /\ UNCHANGED <<queue, committed, checkpoint, crashes>>
    BY <1>2, <1>3
  <2>2. checkpoint <= L /\ Len(queue) <= ChannelSize + 1 /\ (queue = <<>> => committed = {})
        /\ crashes \in 0 .. MaxCrashes
    BY <1>2 DEF TablesInv, BoundsInv
  <2>3. n + 1 <= L + 1 /\ n + 1 <= e + 1
    BY <1>3, <1>4, <1>5
  <2> QED BY <1>4, <1>5, <2>1, <2>2, <2>3 DEF BoundsInv
<1>7. p \in DataProcessorNames /\ p \in Processors
  BY <1>2 DEF TablesInv, ProcessorsWired
<1>8. n \in 1 .. L
  BY <1>3, <1>4, <1>5
<1>9. Len(chain[n]) \in Nat
  BY <1>2, <1>8 DEF TablesInv, DataChains
<1>10. PICK E, x : E = Versions /\ x = [batch EXCEPT !.transactions = {chain[w] : w \in s .. e}]
  OBVIOUS
<1>11. E = 1 .. L /\ n \in E /\ E \subseteq Nat /\ Versions' = E
  BY <1>2, <1>3, <1>4, <1>8, <1>10 DEF Versions
<1>12. IsBatchOf(p, x, E)
  <2>1. IsBatchOf(p, batch, E)
    BY <1>2, <1>10 DEF TablesInv, ColumnsInv
  <2> QED BY <1>10, <2>1, BatchOfSet
<1>13. AreTables(p, db)
  BY <1>2 DEF TablesInv, ColumnsInv
<1>14. batch' = ExtractorParse(p, x, chain[n], n, db)
  BY <1>3, <1>7, <1>10 DEF ProcessorsWired
<1>15. IsBatchOf(p, batch', E)
  BY <1>7, <1>9, <1>11, <1>12, <1>13, <1>14, Parsed
<1>16. ColumnsInv'
  <2>1. /\ processor' = p /\ Versions' = E /\ UNCHANGED <<queue, db, errors>>
    BY <1>2, <1>3, <1>11
  <2>2. /\ \A i \in 1 .. Len(queue) : AreRows(p, queue[i].rows)
        /\ errors \subseteq E
    BY <1>2, <1>10 DEF TablesInv, ColumnsInv
  <2> QED BY <1>13, <1>15, <2>1, <2>2 DEF ColumnsInv
<1> QED BY <1>6, <1>16

LEMMA TablesSend ==
    ASSUME ProcessorsWired, TablesInv, SendBatch
    PROVE  BoundsInv' /\ ColumnsInv'
<1>1. ChannelSize \in Nat
  BY PipelineAssumption
<1>2. PICK p, L, n, q, r, E :
        /\ p = processor /\ L = Len(chain) /\ n = next_version /\ q = queue
        /\ r = [rows |-> batch.rows, start_version |-> batch_start, end_version |-> n - 1] /\ E = Versions
  OBVIOUS
<1>3. /\ Len(q) <= ChannelSize /\ queue' = Append(q, r) /\ batch_end' = 0
      /\ errors' = errors \cup batch.errors /\ batch' = NextBatch(p, batch)
      /\ UNCHANGED <<processor, chain, db, checkpoint, next_version, crashes>>
  BY <1>2 DEF SendBatch
<1>4. PICK S : q \in Seq(S)
  BY <1>2 DEF TablesInv, IInv, QueueInv
<1>5. /\ Len(q) \in Nat /\ Len(Append(q, r)) = Len(q) + 1
      /\ \A i \in 1 .. Len(q) : Append(q, r)[i] = q[i]
      /\ Append(q, r)[Len(q) + 1] = r /\ Append(q, r) # <<>>
  <2>1. q \in Seq(S \cup {r}) /\ r \in S \cup {r}
    BY <1>4
  <2> QED BY <2>1
<1>6. BoundsInv'
  <2>1. /\ L \in Nat /\ n <= L + 1 /\ checkpoint <= L /\ crashes \in 0 .. MaxCrashes
    BY <1>2 DEF TablesInv, BoundsInv
  <2>2. /\ Len(chain') = L /\ next_version' = n /\ checkpoint' = checkpoint /\ crashes' = crashes
        /\ batch_end' = 0 /\ Len(queue') <= ChannelSize + 1 /\ queue' # <<>>
    BY <1>1, <1>2, <1>3, <1>5
  <2> QED BY <2>1, <2>2 DEF BoundsInv
<1>7. /\ IsBatchOf(p, batch, E) /\ \A i \in 1 .. Len(q) : AreRows(p, q[i].rows)
      /\ AreTables(p, db) /\ errors \subseteq E
  BY <1>2 DEF TablesInv, ColumnsInv
<1>8. IsBatchOf(p, batch', E)
  <2>1. p \in Processors /\ p \in DataProcessorNames
    BY <1>2 DEF TablesInv, ProcessorsWired
  <2>2. batch' = ExtractorNext(p, batch)
    BY <1>3, <2>1 DEF ProcessorsWired
  <2> QED BY <2>1, <2>2, StartFact
<1>9. AreRows(p, batch.rows) /\ batch.errors \subseteq E /\ r.rows = batch.rows
  BY <1>2, <1>7 DEF IsBatchOf
<1>10. \A i \in 1 .. Len(queue') : AreRows(p, queue'[i].rows)
  BY <1>3, <1>5, <1>7, <1>9
<1>11. processor' = p /\ Versions' = E /\ db' = db /\ errors' \subseteq E
  BY <1>2, <1>3, <1>7, <1>9 DEF Versions
<1>12. ColumnsInv'
  BY <1>7, <1>8, <1>10, <1>11 DEF ColumnsInv
<1> QED BY <1>6, <1>12

LEMMA TablesCommit ==
    ASSUME ProcessorsWired, TablesInv, NEW s, CommitStatement(s)
    PROVE  /\ BoundsInv' /\ ColumnsInv'
           /\ \A t \in DOMAIN db : t \in DOMAIN db' /\ Keeps(db[t], db'[t])
<1>1. PICK p, rows, E : p = processor /\ rows = Head(queue).rows /\ E = Versions
  OBVIOUS
<1>2. /\ queue # <<>> /\ db' = Stored(s, rows)
      /\ UNCHANGED <<processor, chain, batch, batch_start, batch_end, queue, checkpoint,
                     next_version, errors, crashes>>
  BY <1>1 DEF CommitStatement
<1>3. AreRows(p, rows)
  <2>1. PICK S : queue \in Seq(S)
    BY DEF TablesInv, IInv, QueueInv
  <2>2. 1 \in 1 .. Len(queue) /\ Head(queue) = queue[1]
    BY <1>2, <2>1
  <2> QED BY <1>1, <2>2 DEF TablesInv, ColumnsInv
<1>4. /\ AreTables(p, db') /\ \A t \in DOMAIN db : t \in DOMAIN db' /\ Keeps(db[t], db'[t])
  BY <1>1, <1>2, <1>3, RowsStored DEF TablesInv, ColumnsInv
<1>5. Versions' = E /\ processor' = p
  BY <1>1, <1>2 DEF Versions
<1>6. ColumnsInv'
  BY <1>1, <1>2, <1>4, <1>5 DEF TablesInv, ColumnsInv
<1>7. BoundsInv'
  BY <1>2 DEF TablesInv, BoundsInv
<1> QED BY <1>4, <1>6, <1>7

LEMMA TablesFinish ==
    ASSUME TablesInv, FinishBatch
    PROVE  BoundsInv' /\ ColumnsInv'
<1>1. PICK p, L, q, E : p = processor /\ L = Len(chain) /\ q = queue /\ E = Versions
  OBVIOUS
<1>2. /\ q # <<>> /\ queue' = Tail(q) /\ committed' = {}
      /\ checkpoint' \in {checkpoint, Head(q).end_version}
      /\ UNCHANGED <<processor, chain, db, batch, batch_start, batch_end, next_version, errors,
                     crashes>>
  BY <1>1 DEF FinishBatch
<1>3. PICK S : q \in Seq(S)
  BY <1>1 DEF TablesInv, IInv, QueueInv
<1>4. /\ Len(q) \in Nat \ {0} /\ Head(q) = q[1] /\ Len(Tail(q)) = Len(q) - 1
      /\ \A i \in 1 .. Len(q) - 1 : Tail(q)[i] = q[i + 1]
  BY <1>2, <1>3
<1>5. /\ L \in Nat /\ next_version \in Nat /\ next_version <= L + 1 /\ checkpoint <= L
      /\ Len(q) <= ChannelSize + 1
      /\ q[1].end_version \in Nat /\ q[1].end_version < next_version
  BY <1>1, <1>4 DEF TablesInv, IInv, QueueInv, BoundsInv
<1>6. checkpoint' <= L
  BY <1>2, <1>4, <1>5
<1>7. Len(queue') <= ChannelSize + 1
  <2>1. ChannelSize \in Nat
    BY PipelineAssumption
  <2> QED BY <1>2, <1>4, <1>5, <2>1
<1>8. BoundsInv'
  BY <1>1, <1>2, <1>6, <1>7 DEF TablesInv, BoundsInv
<1>9. \A i \in 1 .. Len(queue') : AreRows(p, queue'[i].rows)
  <2>1. \A i \in 1 .. Len(q) : AreRows(p, q[i].rows)
    BY <1>1 DEF TablesInv, ColumnsInv
  <2>2. ASSUME NEW i \in 1 .. Len(q) - 1 PROVE AreRows(p, Tail(q)[i].rows)
    <3>1. i + 1 \in 1 .. Len(q) /\ Tail(q)[i] = q[i + 1]
      BY <1>4
    <3> QED BY <2>1, <3>1
  <2> QED BY <1>2, <1>4, <2>2
<1>10. Versions' = E /\ processor' = p
  BY <1>1, <1>2 DEF Versions
<1>11. ColumnsInv'
  BY <1>1, <1>2, <1>9, <1>10 DEF TablesInv, ColumnsInv
<1> QED BY <1>8, <1>11

LEMMA TablesCrash ==
    ASSUME ProcessorsWired, TablesInv, Crash
    PROVE  BoundsInv' /\ ColumnsInv'
<1>1. PICK p, L, E : p = processor /\ L = Len(chain) /\ E = Versions
  OBVIOUS
<1>2. /\ crashes < MaxCrashes /\ crashes' = crashes + 1 /\ batch' = FirstBatch(p, db)
      /\ batch_start' = 0 /\ batch_end' = 0 /\ queue' = <<>> /\ committed' = {}
      /\ next_version' = IF checkpoint = 0 THEN 1 ELSE checkpoint
      /\ errors' = errors \cup batch.errors
      /\ UNCHANGED <<processor, chain, db, checkpoint>>
  BY <1>1 DEF Crash, GetStartingVersion
<1>3. MaxCrashes \in Nat /\ ChannelSize \in Nat
  BY PipelineAssumption
<1>4. L \in Nat /\ checkpoint \in Nat /\ checkpoint <= L /\ crashes \in 0 .. MaxCrashes
  BY <1>1 DEF TablesInv, IInv, BoundsInv
<1>5. /\ Len(chain') = L /\ Len(queue') = 0 /\ crashes' \in 0 .. MaxCrashes
      /\ next_version' <= L + 1 /\ checkpoint' <= L
  BY <1>1, <1>2, <1>3, <1>4
<1>6. BoundsInv'
  BY <1>2, <1>3, <1>4, <1>5 DEF BoundsInv
<1>7. /\ IsBatchOf(p, batch, E) /\ AreTables(p, db) /\ errors \subseteq E
  BY <1>1 DEF TablesInv, ColumnsInv
<1>8. IsBatchOf(p, batch', E)
  <2>1. p \in Processors /\ p \in DataProcessorNames
    BY <1>1 DEF TablesInv, ProcessorsWired
  <2>2. batch' = ExtractorStart(p, db)
    BY <1>2, <2>1 DEF ProcessorsWired
  <2> QED BY <2>1, <2>2, StartFact
<1>9. processor' = p /\ Versions' = E /\ db' = db /\ errors' \subseteq E
  BY <1>1, <1>2, <1>7 DEF Versions, IsBatchOf
<1>10. ColumnsInv'
  BY <1>2, <1>5, <1>7, <1>8, <1>9 DEF ColumnsInv
<1> QED BY <1>6, <1>10

LEMMA TablesInit ==
    ASSUME ProcessorsWired, DataChains, Init
    PROVE  TablesInv
<1>1. PICK p, E : p = processor /\ E = Versions
  OBVIOUS
<1>2. /\ p \in Processors /\ chain \in Histories(p) /\ db = NoRows
      /\ batch = FirstBatch(p, NoRows) /\ batch_start = 0 /\ batch_end = 0 /\ queue = <<>>
      /\ committed = {} /\ checkpoint = 0 /\ next_version = 1 /\ errors = {} /\ crashes = 0
  BY <1>1 DEF Init
<1>3. ChannelSize \in Nat /\ MaxCrashes \in Nat
  BY PipelineAssumption
<1>4. Len(chain) \in Nat
  BY <1>2 DEF DataChains
<1>5. IInv
  BY <1>2 DEF IInv, BatchInv, QueueInv
<1>6. BoundsInv
  BY <1>2, <1>3, <1>4 DEF BoundsInv
<1>7. IsBatchOf(p, batch, E)
  <2>1. p \in DataProcessorNames /\ batch = ExtractorStart(p, NoRows)
    BY <1>2 DEF ProcessorsWired
  <2> QED BY <2>1, StartFact
<1>8. AreTables(p, db)
  <2>1. DOMAIN db = {}
    BY <1>2 DEF NoRows
  <2> QED BY <2>1 DEF AreTables
<1>9. ColumnsInv
  BY <1>1, <1>2, <1>7, <1>8 DEF ColumnsInv
<1> QED BY <1>1, <1>2, <1>5, <1>6, <1>9 DEF TablesInv

\* A row stays as it is, or gives way to one that is not older.
LEMMA TablesNext ==
    ASSUME ProcessorsWired, DataChains, TablesInv, [Next]_vars
    PROVE  /\ TablesInv'
           /\ \A t \in DOMAIN db : t \in DOMAIN db' /\ Keeps(db[t], db'[t])
<1>1. UNCHANGED <<processor, chain>>
  BY DEF Next, vars, ExtractTransaction, SendBatch, CommitStatement, FinishBatch, Crash, Terminated
<1>2. IInv'
  <2>1. CASE UNCHANGED <<queue, checkpoint, next_version, batch_start, batch_end>>
    BY <2>1 DEF TablesInv, IInv, BatchInv, QueueInv
  <2>2. ASSUME NEW s, CommitStatement(s) PROVE IInv'
    BY <2>1, <2>2 DEF CommitStatement
  <2>3. CASE Terminated \/ UNCHANGED vars
    BY <2>1, <2>3 DEF Terminated, vars
  <2>4. IInv
    BY DEF TablesInv
  <2> QED BY <2>2, <2>3, <2>4, ExtractStep, SendStep, FinishStep, CrashStep DEF Next
<1>3. CASE UNCHANGED vars
  <2>1. BoundsInv' /\ ColumnsInv' /\ db' = db
    BY <1>3 DEF vars, TablesInv, BoundsInv, ColumnsInv, Versions
  <2>2. \A t \in DOMAIN db : Keeps(db[t], db[t])
    BY KeepsItself DEF TablesInv, ColumnsInv, AreTables
  <2> QED BY <1>1, <1>2, <2>1, <2>2 DEF TablesInv
<1>4. ASSUME BoundsInv', ColumnsInv', db' = db
      PROVE  TablesInv' /\ \A t \in DOMAIN db : t \in DOMAIN db' /\ Keeps(db[t], db'[t])
  <2>1. \A t \in DOMAIN db : Keeps(db[t], db[t])
    BY KeepsItself DEF TablesInv, ColumnsInv, AreTables
  <2> QED BY <1>1, <1>2, <1>4, <2>1 DEF TablesInv
<1>5. CASE ExtractTransaction
  BY <1>4, <1>5, TablesExtract DEF ExtractTransaction
<1>6. CASE SendBatch
  BY <1>4, <1>6, TablesSend DEF SendBatch
<1>7. ASSUME NEW s, CommitStatement(s)
      PROVE  TablesInv' /\ \A t \in DOMAIN db : t \in DOMAIN db' /\ Keeps(db[t], db'[t])
  BY <1>1, <1>2, <1>7, TablesCommit DEF TablesInv
<1>8. CASE FinishBatch
  BY <1>4, <1>8, TablesFinish DEF FinishBatch
<1>9. CASE Crash
  BY <1>4, <1>9, TablesCrash DEF Crash
<1>10. CASE Terminated
  BY <1>3, <1>10 DEF Terminated
<1> QED BY <1>3, <1>5, <1>6, <1>7, <1>8, <1>9, <1>10 DEF Next

LEMMA TablesTyped ==
    ASSUME ProcessorsWired, DataChains, TablesInv
    PROVE  TypeOK
<1>1. PICK p : p = processor
  OBVIOUS
<1>2. p \in Processors /\ p \in DataProcessorNames /\ chain \in Histories(p)
  BY <1>1 DEF TablesInv, ProcessorsWired
<1>3. \A v \in Versions : \A i \in DOMAIN chain[v] : IsChange(p, chain[v][i])
  BY <1>2 DEF DataChains, ProcessorsWired, Versions
<1>4. Statements(p) = StorerStatements(p)
  BY <1>2 DEF ProcessorsWired
<1>5. AreRows(p, batch.rows) /\ AreTables(p, db)
  BY <1>1 DEF TablesInv, ColumnsInv, IsBatchOf
<1>6. \A i \in 1 .. Len(queue) : AreRows(p, queue[i].rows)
  BY <1>1 DEF TablesInv, ColumnsInv
<1>7. ASSUME NEW k \in DOMAIN batch.rows, TableKey(k) \in DOMAIN db
      PROVE  DOMAIN batch.rows[k] = DOMAIN db[TableKey(k)]
  <2>1. /\ 1 \in DOMAIN k /\ k[1] \in StorerStatements(p) /\ TableKey(k) = StorerTableKey(k)
    BY <1>5 DEF AreRows, ProcessorsWired
  <2>2. Columns(TableKey(k)[1]) = Columns(k[1])
    BY <1>2, <2>1, TableKeyFact
  <2>3. DOMAIN batch.rows[k] = Columns(k[1])
    BY <1>5 DEF AreRows, IsRow
  <2>4. DOMAIN db[TableKey(k)] = Columns(TableKey(k)[1])
    BY <1>5, <1>7 DEF AreTables, IsRow
  <2> QED BY <2>2, <2>3, <2>4
<1>8. MaxBatch \in Nat \ {0}
  BY PipelineAssumption
<1>9. batch_end # 0 => /\ batch_end \in batch_start .. batch_start + MaxBatch - 1
                       /\ next_version \in batch_start .. batch_end + 1
  BY <1>8 DEF TablesInv, IInv, BatchInv, BoundsInv
<1>10. Len(queue) \in 0 .. ChannelSize + 1
  <2>1. ChannelSize \in Nat
    BY PipelineAssumption
  <2>2. PICK S : queue \in Seq(S)
    BY DEF TablesInv, IInv, QueueInv
  <2>3. Len(queue) \in Nat
    BY <2>2
  <2> QED BY <2>1, <2>3 DEF TablesInv, BoundsInv
<1>11. checkpoint \in 0 .. Len(chain) /\ next_version \in 1 .. Len(chain) + 1
  BY DEF TablesInv, IInv, BoundsInv
<1>12. /\ queue = <<>> => committed = {}
       /\ errors \subseteq Versions /\ crashes \in 0 .. MaxCrashes
  BY DEF TablesInv, BoundsInv, ColumnsInv
<1>13. \A k \in DOMAIN batch.rows : k[1] \in Statements(p)
  BY <1>4, <1>5 DEF AreRows
<1>14. \A i \in 1 .. Len(queue) : \A k \in DOMAIN queue[i].rows : k[1] \in Statements(p)
  BY <1>4, <1>6 DEF AreRows
<1> QED BY <1>1, <1>2, <1>3, <1>7, <1>9, <1>10, <1>11, <1>12, <1>13, <1>14 DEF TypeOK

\* Whatever its extractor finds in the tables or fails to find, every data processor
\* gives each row to a statement of its storer, with the columns of the table it is
\* stored in; batches, channel, checkpoint and logged errors keep their bounds.
THEOREM TablesTypeCorrect ==
    ASSUME ProcessorsWired, DataChains
    PROVE  Spec => []TypeOK
<1>1. Init => TablesInv
  BY TablesInit
<1>2. TablesInv /\ [Next]_vars => TablesInv'
  BY TablesNext
<1>3. TablesInv => TypeOK
  BY TablesTyped
<1> QED BY <1>1, <1>2, <1>3, PTL DEF Spec

\* What a step never does to a stored row, in the words of the three properties.
LEMMA NothingIsTakenBack ==
    ASSUME TablesInv, \A t \in DOMAIN db : t \in DOMAIN db' /\ Keeps(db[t], db'[t])
    PROVE  /\ \A k \in DOMAIN db : /\ k \in DOMAIN db'
                                   /\ "v" \in DOMAIN db[k] => db'[k].v >= db[k].v
           /\ \A k \in StoredBalances(db) :
                /\ Accepts(db[k].version_v1, db'[k].version_v1)
                /\ Accepts(db[k].version_v2, db'[k].version_v2)
                /\ db[k].asset_v1 # None => db'[k].asset_v1 # None
           /\ \A k \in DOMAIN db : "is_public_key_used" \in DOMAIN db[k] /\ db[k].is_public_key_used
                                     => db'[k].is_public_key_used
<1>1. \A t \in DOMAIN db : t \in DOMAIN db' /\ ("v" \in DOMAIN db[t] => db'[t].v >= db[t].v)
  BY DEF Keeps
<1>2. ASSUME NEW k \in StoredBalances(db) PROVE DOMAIN db[k] = BalanceColumns /\ k \in DOMAIN db
  BY <1>2, ColumnsFact DEF StoredBalances, TablesInv, ColumnsInv, AreTables, IsRow
<1>3. \A t \in DOMAIN db : "is_public_key_used" \in DOMAIN db[t] /\ db[t].is_public_key_used
                             => db'[t].is_public_key_used
  BY DEF Keeps
<1>4. \A k \in StoredBalances(db) : Keeps(db[k], db'[k])
  BY <1>2
<1>5. \A k \in StoredBalances(db) :
         /\ Accepts(db[k].version_v1, db'[k].version_v1)
         /\ Accepts(db[k].version_v2, db'[k].version_v2)
         /\ db[k].asset_v1 # None => db'[k].asset_v1 # None
  BY <1>2, <1>4 DEF Keeps, NotOlder, Accepts
<1> QED BY <1>1, <1>3, <1>5

\* In every data processor, with any interleaving of its concurrent inserts and any
\* replay after a crash, the upserts' version guards keep stored rows from going
\* back: no current row to an older version, no half of a shared balance to an older
\* version or to an unknown coin, no used key to an unused one.
THEOREM TablesAreNeverTakenBack ==
    ASSUME ProcessorsWired, DataChains
    PROVE  Spec => TablesNeverRegress
<1>1. Init => TablesInv
  BY TablesInit
<1>2. TablesInv /\ [Next]_vars => TablesInv'
  BY TablesNext
<1>3. TablesInv /\ [Next]_vars =>
        [\A k \in DOMAIN db : /\ k \in DOMAIN db'
                              /\ "v" \in DOMAIN db[k] => db'[k].v >= db[k].v]_vars
  BY TablesNext, NothingIsTakenBack
<1>4. TablesInv /\ [Next]_vars =>
        [processor = "fungible_asset" =>
           \A k \in StoredBalances(db) :
             /\ Accepts(db[k].version_v1, db'[k].version_v1)
             /\ Accepts(db[k].version_v2, db'[k].version_v2)
             /\ db[k].asset_v1 # None => db'[k].asset_v1 # None]_vars
  BY TablesNext, NothingIsTakenBack
<1>5. TablesInv /\ [Next]_vars =>
        [\A k \in DOMAIN db : "is_public_key_used" \in DOMAIN db[k] /\ db[k].is_public_key_used
                                => db'[k].is_public_key_used]_vars
  BY TablesNext, NothingIsTakenBack
<1> QED BY <1>1, <1>2, <1>3, <1>4, <1>5, PTL
        DEF Spec, TablesNeverRegress, RowsNeverRegress, BalancesNeverRegress, KeyStaysUsed
-----------------------------------------------------------------------------
(***************************************************************************)
(* The checkpoint.  A statement that has committed left every row of its   *)
(* in the tables, itself or one that is not older, and the ones that       *)
(* commit after it do not take it back (CommittedInv); the version tracker *)
(* gets the batch when all of them have.                                   *)
(***************************************************************************)
\* Statements that commit in one step write different rows.
StatementsApart ==
    \A p \in Processors : \A j, k :
       /\ j[1] \in Statements(p) /\ k[1] \in Statements(p)
       /\ CommitGroup(j[1]) = CommitGroup(k[1]) /\ TableKey(j) = TableKey(k)
       => j[1] = k[1]

CommittedInv ==
    queue # <<>> =>
       \A k \in DOMAIN Head(queue).rows :
          CommitGroup(k[1]) \in committed =>
             /\ TableKey(k) \in DOMAIN db
             /\ AsNewAs(k, db[TableKey(k)], Head(queue).rows[k])

LEMMA AsNewRow ==
    ASSUME NEW k, k[1] \notin BalanceStatements, NEW row, NEW new, IsRow(k[1], new),
           "v" \in Columns(k[1]) /\ k[1] \notin HistoryTables => row.v \in Nat /\ new.v <= row.v
    PROVE  AsNewAs(k, row, new)
<1>1. VersionColumn(k[1]) = "v"
  BY DEF VersionColumn, BalanceStatements
<1>2. DOMAIN new = Columns(k[1])
  BY DEF IsRow
<1> QED BY <1>1, <1>2, NullAssumption DEF AsNewAs

LEMMA AsNewBalance ==
    ASSUME NEW k, k[1] \in BalanceStatements, NEW row, NEW new,
           k[1] = "cufab_v1" /\ new.version_v1 # None =>
              row.version_v1 # None /\ new.version_v1 <= row.version_v1,
           k[1] = "cufab_v2" /\ new.version_v2 # None =>
              row.version_v2 # None /\ new.version_v2 <= row.version_v2
    PROVE  AsNewAs(k, row, new)
<1>1. CASE k[1] = "cufab_v1"
  BY <1>1 DEF AsNewAs, VersionColumn
<1>2. CASE k[1] = "cufab_v2"
  BY <1>2 DEF AsNewAs, VersionColumn
<1> QED BY <1>1, <1>2 DEF BalanceStatements

\* The upsert of a current table leaves the new row's version, or the old row if that
\* is later.
LEMMA LatestStored ==
    ASSUME NEW p \in DataProcessorNames, NEW k, k[1] \in StorerStatements(p),
           k[1] \notin BalanceStatements \cup HistoryTables,
           NEW old, NEW new, "v" \in Columns(k[1]), DOMAIN old = Columns(k[1]),
           DOMAIN new = Columns(k[1])
    PROVE  LET row == StorerUpsert(p, k, old, new)
           IN row.v = new.v \/ (row = old /\ ~(old.v <= new.v))
<1>1. PICK row, s : row = StorerUpsert(p, k, old, new) /\ s = k[1]
  OBVIOUS
<1>2. CASE p = "objects"
  <2>1. row = ObjectsUpsert(k, old, new) /\ s # "objects"
    BY <1>1, <1>2 DEF StorerUpsert, HistoryTables
  <2> QED BY <1>1, <2>1 DEF ObjectsUpsert
<1>3. CASE p = "stake"
  <2>1. row = StakeUpsert(k, old, new) /\ s \in StakeTables
    BY <1>1, <1>3 DEF StorerUpsert, StorerStatements
  <2>2. s # "delegated_staking_pools"
    BY <1>1, ColumnsFact
  <2>3. row = IF old.v <= new.v THEN new ELSE old
    BY <1>1, <2>1, <2>2 DEF StakeUpsert, HistoryTables
  <2> QED BY <1>1, <2>3
<1>4. CASE p = "fungible_asset"
  <2>1. row = FungibleAssetUpsert(k, old, new)
    BY <1>1, <1>4 DEF StorerUpsert
  <2>2. row = IF old.v <= new.v THEN new ELSE old
    BY <1>1, <2>1 DEF FungibleAssetUpsert, HistoryTables, BalanceStatements
  <2> QED BY <1>1, <2>2
<1>5. CASE p = "token_v2"
  <2>1. row = TokenUpsert(k, old, new)
    BY <1>1, <1>5 DEF StorerUpsert
  <2>2. CASE ~(old.v <= new.v)
    BY <1>1, <2>1, <2>2 DEF TokenUpsert, UpsertTokenData, UpsertDeletedTokenData,
                            UpsertOwnership, UpsertDeletedOwnership, HistoryTables
  <2>3. CASE s = "current_token_datas_v2" /\ old.v <= new.v
    <3>1. row = [new EXCEPT !.is_deleted_v2 = old.is_deleted_v2]
      BY <1>1, <2>1, <2>3 DEF TokenUpsert, UpsertTokenData
    <3> QED BY <1>1, <3>1
  <2>4. CASE s = "current_deleted_token_datas_v2" /\ old.v <= new.v
    <3>1. row = [old EXCEPT !.v = new.v, !.is_deleted_v2 = new.is_deleted_v2]
      BY <1>1, <2>1, <2>4 DEF TokenUpsert, UpsertDeletedTokenData
    <3> QED BY <1>1, <3>1
  <2>5. CASE s = "current_deleted_token_ownerships_v2" /\ old.v <= new.v
    <3>1. row = [old EXCEPT !.amount = new.amount, !.v = new.v]
      BY <1>1, <2>1, <2>5 DEF TokenUpsert, UpsertDeletedOwnership
    <3> QED BY <1>1, <3>1
  <2>6. CASE /\ old.v <= new.v
             /\ s \notin {"current_token_datas_v2", "current_deleted_token_datas_v2",
                          "current_deleted_token_ownerships_v2"}
    <3>1. row = new
      BY <1>1, <2>1, <2>6 DEF TokenUpsert, UpsertOwnership, HistoryTables
    <3> QED BY <1>1, <3>1
  <2> QED BY <2>2, <2>3, <2>4, <2>5, <2>6
<1>6. CASE p = "ans"
  <2>1. row = AnsUpsert(k, old, new)
    BY <1>1, <1>6 DEF StorerUpsert
  <2> QED BY <1>1, <2>1 DEF AnsUpsert
<1>7. CASE p = "account_restoration"
  <2>1. row = AccountRestorationUpsert(k, old, new)
    BY <1>1, <1>7 DEF StorerUpsert
  <2>2. CASE s = "public_key_auth_keys" /\ old.v <= new.v
    <3>1. row = [new EXCEPT !.is_public_key_used = old.is_public_key_used \/ @]
      BY <1>1, <2>1, <2>2 DEF AccountRestorationUpsert
    <3> QED BY <1>1, <3>1
  <2>3. CASE s # "public_key_auth_keys" \/ ~(old.v <= new.v)
    BY <1>1, <2>1, <2>3 DEF AccountRestorationUpsert
  <2> QED BY <2>2, <2>3
<1> QED BY <1>2, <1>3, <1>4, <1>5, <1>6, <1>7 DEF DataProcessorNames

LEMMA UpsertedAsNew ==
    ASSUME NEW p \in DataProcessorNames, NEW k, 1 \in DOMAIN k, k[1] \in StorerStatements(p),
           NEW old, IsRow(StorerTableKey(k)[1], old), NEW new, IsRow(k[1], new)
    PROVE  AsNewAs(k, StorerUpsert(p, k, old, new), new)
<1>1. PICK row, s, t : /\ row = StorerUpsert(p, k, old, new) /\ s = k[1]
                       /\ t = StorerTableKey(k)[1]
  OBVIOUS
<1>2. Columns(t) = Columns(s)
  BY <1>1, TableKeyFact
<1>3. DOMAIN old = Columns(s) /\ DOMAIN new = Columns(s)
  BY <1>1, <1>2 DEF IsRow
<1>4. CASE s \in HistoryTables
  BY <1>1, <1>4 DEF AsNewAs
<1>5. CASE s \notin BalanceStatements \cup HistoryTables
  <2>1. ASSUME "v" \in Columns(s) PROVE row.v \in Nat /\ new.v <= row.v
    <3>1. old.v \in Nat /\ new.v \in Nat
      BY <1>1, <1>2, <2>1 DEF IsRow
    <3>2. row.v = new.v \/ (row = old /\ ~(old.v <= new.v))
      BY <1>1, <1>3, <1>5, <2>1, LatestStored
    <3> QED BY <3>1, <3>2
  <2> QED BY <1>1, <1>5, <2>1, AsNewRow
<1>6. CASE s \in BalanceStatements
  <2>1. /\ Columns(s) = BalanceColumns
        /\ old.version_v1 \in Nat \cup {None} /\ old.version_v2 \in Nat \cup {None}
        /\ new.version_v1 \in Nat \cup {None} /\ new.version_v2 \in Nat \cup {None}
    BY <1>1, <1>2, <1>6, ColumnsFact DEF IsRow, BalanceStatements
  <2>2. "version_v1" \in BalanceColumns /\ "version_v2" \in BalanceColumns
    BY DEF BalanceColumns
  <2>3. row = FungibleAssetUpsert(k, old, new)
    <3>1. p = "fungible_asset"
      BY <1>1, <1>6 DEF BalanceStatements, StorerStatements, DataProcessorNames, ObjectsTables,
                        StakeTables, TokenTables, AnsTables, AccountRestorationTables
    <3> QED BY <1>1, <3>1 DEF StorerUpsert
  <2>4. CASE s = "cufab_v1"
    <3>1. row = UpsertV1(old, new)
      BY <1>1, <2>3, <2>4 DEF FungibleAssetUpsert
    <3>2. CASE ~Accepts(old.version_v1, new.version_v1)
      <4>1. row = old
        BY <3>1, <3>2 DEF UpsertV1
      <4>2. new.version_v1 # None => old.version_v1 # None /\ new.version_v1 <= old.version_v1
        BY <2>1, <3>2 DEF Accepts
      <4> QED BY <1>1, <1>6, <2>4, <4>1, <4>2, AsNewBalance
    <3>3. CASE Accepts(old.version_v1, new.version_v1)
      <4>1. row.version_v1 = new.version_v1
        BY <1>3, <2>1, <2>2, <3>1, <3>3 DEF UpsertV1
      <4>2. new.version_v1 # None => new.version_v1 <= new.version_v1
        BY <2>1
      <4> QED BY <1>1, <1>6, <2>4, <4>1, <4>2, AsNewBalance
    <3> QED BY <3>2, <3>3
  <2>5. CASE s = "cufab_v2"
    <3>1. row = UpsertV2(old, new)
      BY <1>1, <2>3, <2>5 DEF FungibleAssetUpsert
    <3>2. CASE ~Accepts(old.version_v2, new.version_v2)
      <4>1. row = old
        BY <3>1, <3>2 DEF UpsertV2
      <4>2. new.version_v2 # None => old.version_v2 # None /\ new.version_v2 <= old.version_v2
        BY <2>1, <3>2 DEF Accepts
      <4> QED BY <1>1, <1>6, <2>5, <4>1, <4>2, AsNewBalance
    <3>3. CASE Accepts(old.version_v2, new.version_v2)
      <4>1. row.version_v2 = new.version_v2
        BY <1>3, <2>1, <2>2, <3>1, <3>3 DEF UpsertV2
      <4>2. new.version_v2 # None => new.version_v2 <= new.version_v2
        BY <2>1
      <4> QED BY <1>1, <1>6, <2>5, <4>1, <4>2, AsNewBalance
    <3> QED BY <3>2, <3>3
  <2> QED BY <1>6, <2>4, <2>5 DEF BalanceStatements
<1> QED BY <1>4, <1>5, <1>6

\* A row is as new as itself,
LEMMA AsNewItself ==
    ASSUME NEW k, NEW row, IsRow(k[1], row)
    PROVE  AsNewAs(k, row, row)
<1>1. CASE k[1] \notin BalanceStatements
  <2>1. "v" \in Columns(k[1]) => row.v \in Nat /\ row.v <= row.v
    BY DEF IsRow
  <2> QED BY <1>1, <2>1, AsNewRow
<1>2. CASE k[1] \in BalanceStatements
  <2>1. row.version_v1 \in Nat \cup {None} /\ row.version_v2 \in Nat \cup {None}
    BY <1>2, ColumnsFact DEF IsRow, BalanceStatements
  <2>2. /\ row.version_v1 # None => row.version_v1 <= row.version_v1
        /\ row.version_v2 # None => row.version_v2 <= row.version_v2
    BY <2>1
  <2> QED BY <1>2, <2>2, AsNewBalance
<1> QED BY <1>1, <1>2

\* and what replaces a stored row is as new as whatever that row was as new as.
LEMMA AsNewKept ==
    ASSUME NEW k, NEW t, Columns(t) = Columns(k[1]), NEW row, IsRow(k[1], row),
           NEW old, IsRow(t, old), NEW new, IsRow(t, new), Keeps(old, new), AsNewAs(k, old, row)
    PROVE  AsNewAs(k, new, row)
<1>1. PICK s : s = k[1]
  OBVIOUS
<1>2. DOMAIN old = Columns(s) /\ DOMAIN row = Columns(s)
  BY <1>1 DEF IsRow
<1>3. CASE s \notin BalanceStatements
  <2>1. ASSUME "v" \in Columns(s), s \notin HistoryTables PROVE new.v \in Nat /\ row.v <= new.v
    <3>1. row.v \in Nat /\ old.v \in Nat /\ new.v \in Nat
      BY <1>1, <2>1 DEF IsRow
    <3>2. VersionColumn(s) = "v"
      BY <1>3 DEF VersionColumn, BalanceStatements
    <3>3. row.v <= old.v
      BY <1>1, <1>2, <2>1, <3>1, <3>2, NullAssumption DEF AsNewAs
    <3>4. old.v <= new.v
      BY <1>2, <2>1 DEF Keeps
    <3> QED BY <3>1, <3>3, <3>4
  <2> QED BY <1>1, <1>3, <2>1, AsNewRow
<1>4. CASE s \in BalanceStatements
  <2>1. /\ Columns(s) = BalanceColumns
        /\ old.version_v1 \in Nat \cup {None} /\ old.version_v2 \in Nat \cup {None}
        /\ new.version_v1 \in Nat \cup {None} /\ new.version_v2 \in Nat \cup {None}
        /\ row.version_v1 \in Nat \cup {None} /\ row.version_v2 \in Nat \cup {None}
    BY <1>1, <1>4, ColumnsFact DEF IsRow, BalanceStatements
  <2>2. "version_v1" \in BalanceColumns /\ "version_v2" \in BalanceColumns
    BY DEF BalanceColumns
  <2>3. NotOlder(old.version_v1, new.version_v1) /\ NotOlder(old.version_v2, new.version_v2)
    BY <1>2, <2>1 DEF Keeps
  <2>4. s \notin HistoryTables
    BY <1>4 DEF BalanceStatements, HistoryTables
  <2>5. CASE s = "cufab_v1"
    <3>1. row.version_v1 # None => old.version_v1 # None /\ row.version_v1 <= old.version_v1
      BY <1>1, <1>2, <2>1, <2>2, <2>4, <2>5 DEF AsNewAs, VersionColumn
    <3>2. row.version_v1 # None => new.version_v1 # None /\ row.version_v1 <= new.version_v1
      BY <2>1, <2>3, <3>1 DEF NotOlder
    <3> QED BY <1>1, <1>4, <2>5, <3>2, AsNewBalance
  <2>6. CASE s = "cufab_v2"
    <3>1. row.version_v2 # None => old.version_v2 # None /\ row.version_v2 <= old.version_v2
      BY <1>1, <1>2, <2>1, <2>2, <2>4, <2>6 DEF AsNewAs, VersionColumn
    <3>2. row.version_v2 # None => new.version_v2 # None /\ row.version_v2 <= new.version_v2
      BY <2>1, <2>3, <3>1 DEF NotOlder
    <3> QED BY <1>1, <1>4, <2>6, <3>2, AsNewBalance
  <2> QED BY <1>4, <2>5, <2>6 DEF BalanceStatements
<1> QED BY <1>3, <1>4

\* A statement that commits leaves its rows in the tables.
LEMMA StatementStored ==
    ASSUME ProcessorsWired, StatementsApart, TablesInv, NEW s, CommitStatement(s),
           NEW k \in DOMAIN Head(queue).rows, CommitGroup(k[1]) = s
    PROVE  /\ TableKey(k) \in DOMAIN db'
           /\ AsNewAs(k, db'[TableKey(k)], Head(queue).rows[k])
<1>1. PICK p, rows, t : p = processor /\ rows = Head(queue).rows /\ t = TableKey(k)
  OBVIOUS
<1>2. queue # <<>> /\ db' = Stored(s, rows) /\ ~Refused(s, rows)
  BY <1>1 DEF CommitStatement
<1>3. AreRows(p, rows) /\ AreTables(p, db) /\ p \in Processors
  <2>1. PICK S : queue \in Seq(S)
    BY DEF TablesInv, IInv, QueueInv
  <2>2. 1 \in 1 .. Len(queue) /\ Head(queue) = queue[1]
    BY <1>2, <2>1
  <2> QED BY <1>1, <2>2 DEF TablesInv, ColumnsInv
<1>4. /\ p \in DataProcessorNames /\ \A x : TableKey(x) = StorerTableKey(x)
      /\ Statements(p) = StorerStatements(p)
  BY <1>3 DEF ProcessorsWired
<1>5. 1 \in DOMAIN k /\ k[1] \in StorerStatements(p) /\ IsRow(k[1], rows[k])
  BY <1>1, <1>3 DEF AreRows
<1> DEFINE mine == {x \in DOMAIN rows : CommitGroup(x[1]) = s}
           row(u) == LET x == CHOOSE x \in mine : TableKey(x) = u
                     IN IF u \in DOMAIN db
                        THEN Upsert(processor, x, db[u], rows[x]) ELSE rows[x]
           keys == {TableKey(x) : x \in mine}
           new == [u \in keys |-> row(u)]
<1>6. Stored(s, rows) = Over(new, db)
  BY DEF Stored
<1>j. PICK j : j = CHOOSE x \in mine : TableKey(x) = t
  OBVIOUS
<1>7. j = k
  <2>1. k \in mine /\ TableKey(k) = t
    BY <1>1
  <2>3. j \in DOMAIN rows /\ CommitGroup(j[1]) = s /\ TableKey(j) = t
    BY <1>j, <2>1
  <2>4. j[1] \in Statements(p) /\ k[1] \in Statements(p)
    BY <1>3, <1>4, <1>5, <2>3 DEF AreRows
  <2>5. j[1] = k[1]
    BY <1>1, <1>3, <2>3, <2>4 DEF StatementsApart
  <2> QED BY <1>1, <1>2, <2>3, <2>5, NotRefused
<1>8. t \in keys
  BY <1>1
<1> HIDE DEF mine
<1>9. row(t) = IF t \in DOMAIN db THEN Upsert(p, k, db[t], rows[k]) ELSE rows[k]
  <2>1. row(t) = IF t \in DOMAIN db THEN Upsert(processor, j, db[t], rows[j]) ELSE rows[j]
    BY <1>j
  <2> HIDE DEF row
  <2> QED BY <1>1, <1>7, <2>1
<1> HIDE DEF row, keys
<1>10. t \in DOMAIN Over(new, db) /\ Over(new, db)[t] = row(t)
  BY <1>8 DEF Over
<1> HIDE DEF new
<1>11. AsNewAs(k, row(t), rows[k])
  <2>1. CASE t \notin DOMAIN db
    BY <1>5, <1>9, <2>1, AsNewItself
  <2>2. CASE t \in DOMAIN db
    <3>1. row(t) = StorerUpsert(p, k, db[t], rows[k])
      BY <1>3, <1>9, <2>2 DEF ProcessorsWired
    <3>2. IsRow(StorerTableKey(k)[1], db[t])
      BY <1>1, <1>3, <1>4, <2>2 DEF AreTables
    <3> QED BY <1>4, <1>5, <3>1, <3>2, UpsertedAsNew
  <2> QED BY <2>1, <2>2
<1> QED BY <1>1, <1>2, <1>6, <1>10, <1>11

\* A row in the tables stays there: what replaces it is not older.
LEMMA StaysStored ==
    ASSUME ProcessorsWired, TablesInv, TablesInv',
           \A t \in DOMAIN db : t \in DOMAIN db' /\ Keeps(db[t], db'[t]), processor' = processor,
           NEW rows, AreRows(processor, rows), NEW k \in DOMAIN rows,
           TableKey(k) \in DOMAIN db, AsNewAs(k, db[TableKey(k)], rows[k])
    PROVE  TableKey(k) \in DOMAIN db' /\ AsNewAs(k, db'[TableKey(k)], rows[k])
<1>1. PICK p, t, d : p = processor /\ t = TableKey(k) /\ d = db'
  OBVIOUS
<1>2. p \in DataProcessorNames /\ t = StorerTableKey(k)
  BY <1>1 DEF TablesInv, ProcessorsWired
<1>3. 1 \in DOMAIN k /\ k[1] \in StorerStatements(p) /\ IsRow(k[1], rows[k])
  BY <1>1 DEF AreRows
<1>4. Columns(t[1]) = Columns(k[1])
  BY <1>2, <1>3, TableKeyFact
<1>5. t \in DOMAIN db /\ t \in DOMAIN d /\ Keeps(db[t], d[t])
  BY <1>1
<1>6. AreTables(p, db) /\ AreTables(p, d)
  BY <1>1 DEF TablesInv, ColumnsInv
<1>7. IsRow(t[1], db[t]) /\ IsRow(t[1], d[t])
  BY <1>5, <1>6 DEF AreTables
<1>8. AsNewAs(k, d[t], rows[k])
  BY <1>1, <1>3, <1>4, <1>5, <1>7, AsNewKept
<1> QED BY <1>1, <1>5, <1>8

LEMMA HeadRows ==
    ASSUME TablesInv, queue # <<>>
    PROVE  /\ AreRows(processor, Head(queue).rows) /\ Head(queue) = queue[1]
           /\ 1 \in 1 .. Len(queue)
<1>1. PICK S : queue \in Seq(S)
  BY DEF TablesInv, IInv, QueueInv
<1>2. 1 \in 1 .. Len(queue) /\ Head(queue) = queue[1]
  BY <1>1
<1> QED BY <1>2 DEF TablesInv, ColumnsInv

LEMMA CommittedNext ==
    ASSUME ProcessorsWired, DataChains, StatementsApart, TablesInv, CommittedInv, [Next]_vars
    PROVE  CommittedInv'
<1>1. /\ TablesInv' /\ processor' = processor
      /\ \A t \in DOMAIN db : t \in DOMAIN db' /\ Keeps(db[t], db'[t])
  <2>1. UNCHANGED <<processor, chain>>
    BY DEF Next, vars, ExtractTransaction, SendBatch, CommitStatement, FinishBatch, Crash,
           Terminated
  <2> QED BY <2>1, TablesNext
<1>2. CASE UNCHANGED <<queue, committed, db>>
  BY <1>2 DEF CommittedInv
<1>3. CASE committed' = {}
  BY <1>3 DEF CommittedInv
<1>4. CASE SendBatch
  <2>1. CASE queue = <<>>
    <3>1. committed' = {}
      BY <1>4, <2>1 DEF SendBatch, TablesInv, BoundsInv
    <3> QED BY <1>3, <3>1
  <2>2. CASE queue # <<>>
    <3>1. PICK q, r, S : q = queue /\ q \in Seq(S) /\ queue' = Append(q, r)
      BY <1>4 DEF SendBatch, TablesInv, IInv, QueueInv
    <3>2. Head(Append(q, r)) = Head(q)
      <4>1. q \in Seq(S \cup {r}) /\ r \in S \cup {r} /\ Len(q) \in Nat \ {0}
        BY <2>2, <3>1
      <4>2. Append(q, r)[1] = q[1] /\ Len(Append(q, r)) = Len(q) + 1
        BY <4>1
      <4>3. Append(q, r) \in Seq(S \cup {r})
        BY <4>1
      <4> QED BY <4>1, <4>2, <4>3
    <3>3. UNCHANGED <<committed, db>> /\ Head(queue') = Head(queue)
      BY <1>4, <3>1, <3>2 DEF SendBatch
    <3> QED BY <2>2, <3>3 DEF CommittedInv
  <2> QED BY <2>1, <2>2
<1>5. ASSUME NEW s, CommitStatement(s) PROVE CommittedInv'
  <2>1. queue # <<>> /\ queue' = queue /\ committed' = committed \cup {s}
    BY <1>5 DEF CommitStatement
  <2>2. PICK rows : rows = Head(queue).rows
    OBVIOUS
  <2>3. ASSUME NEW k \in DOMAIN rows, CommitGroup(k[1]) \in committed'
        PROVE  TableKey(k) \in DOMAIN db' /\ AsNewAs(k, db'[TableKey(k)], rows[k])
    <3>1. CASE CommitGroup(k[1]) = s
      BY <1>5, <2>2, <3>1, StatementStored
    <3>2. CASE CommitGroup(k[1]) \in committed
      <4>1. TableKey(k) \in DOMAIN db /\ AsNewAs(k, db[TableKey(k)], rows[k])
        BY <2>1, <2>2, <3>2 DEF CommittedInv
      <4>2. AreRows(processor, rows)
        BY <2>1, <2>2, HeadRows
      <4> QED BY <1>1, <4>1, <4>2, StaysStored
    <3> QED BY <2>1, <2>3, <3>1, <3>2
  <2> QED BY <2>1, <2>2, <2>3 DEF CommittedInv
<1>6. CASE ExtractTransaction \/ Terminated \/ UNCHANGED vars
  BY <1>2, <1>6 DEF ExtractTransaction, Terminated, vars
<1>7. CASE FinishBatch \/ Crash
  BY <1>3, <1>7 DEF FinishBatch, Crash
<1> QED BY <1>4, <1>5, <1>6, <1>7 DEF Next

\* The tracker gets a batch of stored rows, and a crash loses no batch that is not
\* extracted again.
LEMMA StepStored ==
    ASSUME ProcessorsWired, DataChains, StatementsApart, TablesInv, CommittedInv, Next
    PROVE  /\ queue # <<>> /\ queue' = Tail(queue) /\ crashes' = crashes =>
                 InTables(Head(queue).rows, db')
           /\ checkpoint' # checkpoint =>
                 /\ queue # <<>> /\ queue' = Tail(queue) /\ crashes' = crashes
                 /\ checkpoint' = Head(queue).end_version /\ checkpoint <= checkpoint'
           /\ crashes' # crashes =>
                 /\ batch_end # 0 => next_version' <= batch_start
                 /\ \A i \in 1 .. Len(queue) : next_version' <= queue[i].start_version
<1>1. PICK S : queue \in Seq(S)
  BY DEF TablesInv, IInv, QueueInv
<1>2. queue # <<>> => Len(Tail(queue)) = Len(queue) - 1 /\ Len(queue) \in Nat
  BY <1>1
<1>3. queue # <<>> => Tail(queue) # queue
  BY <1>2
<1>4. CASE UNCHANGED <<queue, checkpoint, crashes>>
  BY <1>3, <1>4
<1>5. CASE SendBatch
  <2>1. PICK r : queue' = Append(queue, r)
    BY <1>5 DEF SendBatch
  <2>2. Len(queue') = Len(queue) + 1 /\ Len(queue) \in Nat
    BY <1>1, <2>1
  <2>3. queue # <<>> => queue' # Tail(queue)
    BY <1>2, <2>2
  <2> QED BY <1>5, <2>3 DEF SendBatch
<1>6. CASE FinishBatch
  <2>1. /\ queue # <<>> /\ committed = StatementsOf(Head(queue).rows) /\ db' = db
        /\ checkpoint' \in {checkpoint, Head(queue).end_version} /\ queue' = Tail(queue)
        /\ crashes' = crashes
    BY <1>6 DEF FinishBatch
  <2>2. \A k \in DOMAIN Head(queue).rows : CommitGroup(k[1]) \in committed
    BY <2>1 DEF StatementsOf
  <2>3. InTables(Head(queue).rows, db)
    BY <2>1, <2>2 DEF CommittedInv, InTables
  <2>4. checkpoint <= checkpoint'
    BY <1>6, FinishStep DEF TablesInv
  <2> QED BY <2>1, <2>3, <2>4
<1>7. CASE Crash
  <2>1. /\ crashes' = crashes + 1 /\ checkpoint' = checkpoint
        /\ next_version' = IF checkpoint = 0 THEN 1 ELSE checkpoint
    BY <1>7 DEF Crash, GetStartingVersion
  <2>2. crashes' # crashes
    BY <2>1 DEF TablesInv, BoundsInv
  <2>3. batch_end # 0 => next_version' <= batch_start
    BY <2>1 DEF TablesInv, IInv, BatchInv
  <2>4. \A i \in 1 .. Len(queue) : next_version' <= queue[i].start_version
    BY <2>1 DEF TablesInv, IInv, QueueInv
  <2> QED BY <2>1, <2>2, <2>3, <2>4
<1>8. ASSUME NEW s, CommitStatement(s) PROVE UNCHANGED <<queue, checkpoint, crashes>>
  BY <1>8 DEF CommitStatement
<1>9. CASE ExtractTransaction \/ Terminated
  BY <1>4, <1>9 DEF ExtractTransaction, Terminated, vars
<1> QED BY <1>4, <1>5, <1>6, <1>7, <1>8, <1>9 DEF Next

\* In every data processor the checkpoint moves only with a batch whose rows, each
\* one or a later one, are all in the tables, although its inserts commit one by one
\* and rows of other statements go to the same tables in between; it moves to the end
\* of that batch; and a process that died extracts again every batch it had not
\* stored.
THEOREM CheckpointsAreStored ==
    ASSUME ProcessorsWired, DataChains, StatementsApart
    PROVE  Spec => CheckpointStored
<1>1. Init => TablesInv /\ CommittedInv
  <2>1. Init => queue = <<>>
    BY DEF Init
  <2> QED BY <2>1, TablesInit DEF CommittedInv
<1>2. TablesInv /\ CommittedInv /\ [Next]_vars => (TablesInv /\ CommittedInv)'
  BY TablesNext, CommittedNext
<1>3. TablesInv /\ CommittedInv /\ [Next]_vars =>
        [/\ queue # <<>> /\ queue' = Tail(queue) /\ crashes' = crashes =>
                 InTables(Head(queue).rows, db')
         /\ checkpoint' # checkpoint =>
               /\ queue # <<>> /\ queue' = Tail(queue) /\ crashes' = crashes
               /\ checkpoint' = Head(queue).end_version /\ checkpoint <= checkpoint'
         /\ crashes' # crashes =>
               /\ batch_end # 0 => next_version' <= batch_start
               /\ \A i \in 1 .. Len(queue) : next_version' <= queue[i].start_version]_vars
  BY StepStored
<1> QED BY <1>1, <1>2, <1>3, PTL DEF Spec, CheckpointStored
-----------------------------------------------------------------------------
(***************************************************************************)
(* The objects processor.  Its extractor looks rows up, so what a version  *)
(* writes depends on the batch it is in and on the tables of the moment:   *)
(* the invariant says what every row of an object tells the truth about,   *)
(* and which versions have a row, or a logged error, instead of which row  *)
(* a version writes.                                                       *)
(***************************************************************************)
ObjKey(a) == <<"current_objects", a>>

ObjectKeys == {ObjKey(a) : a \in Objects}

\* Chains of object changes as the framework allows them.
IsObjectHistory(h) == h \in Seq(Seq(ObjectChange)) /\ ObjectsHistory(h)

ObjectsChains == \A h \in Histories("objects") : IsObjectHistory(h)

TouchedAt(h, v, a) == \E i \in DOMAIN h[v] : h[v][i].addr = a

LastCore(txn, a) == LastIn(txn, LAMBDA c : CoreOf(c, a))

\* w is the last version up to v with a core of a.
IsLastCored(h, w, v, a) ==
    w \in 1 .. v /\ CoredAt(h, w, a) /\ \A x \in 1 .. v : CoredAt(h, x, a) => x <= w

\* An owner the object had at some version.
HadOwner(h, a, owner) ==
    \E w \in 1 .. Len(h) : \E i \in DOMAIN h[w] : CoreOf(h[w][i], a) /\ h[w][i].owner = owner

\* The owner that the last core up to version v gives to a.
OwnedAt(h, v, a, owner) ==
    \A w : IsLastCored(h, w, v, a) => owner = LastCore(h[w], a).owner

\* A row is of a version that changed the object, deleted exactly if that version
\* deleted it, and shows an owner it had: the last one unless it is deleted.
IsObjectRow(h, a, row) ==
    /\ row.v \in 1 .. Len(h) /\ TouchedAt(h, row.v, a)
    /\ HadOwner(h, a, row.owner)
    /\ DeletedAt(h, row.v, a) => row.is_deleted = TRUE
    /\ ~DeletedAt(h, row.v, a) => row.is_deleted = FALSE /\ OwnedAt(h, row.v, a, row.owner)

ObjectsFit(h, rows) ==
    /\ \A a \in Objects : ObjKey(a) \in DOMAIN rows => IsObjectRow(h, a, rows[ObjKey(a)])
    /\ \A k \in DOMAIN rows : k[1] = "current_objects" => k \in ObjectKeys

KnownFields == {"owner", "ungated", "untransferable"}

\* What the extractor remembers of an object is its last core up to version n.
HelperFits(h, helper, n) ==
    \A a \in DOMAIN helper : /\ DOMAIN helper[a] = KnownFields
                             /\ HadOwner(h, a, helper[a].owner)
                             /\ OwnedAt(h, n, a, helper[a].owner)

\* The keys that must have a row as late as version v: those of the objects with a
\* core, and of the deleted ones unless an error was logged.
MustWrite(h, v, E) ==
    {ObjKey(a) : a \in {x \in Objects : CoredAt(h, v, x) \/ (DeletedAt(h, v, x) /\ v \notin E)}}

Due(h, E) == [v \in 1 .. Len(h) |-> [k \in MustWrite(h, v, E) |-> v]]

Logged == errors \cup batch.errors

ObjectsInv ==
    /\ ObjectsFit(chain, db) /\ ObjectsFit(chain, batch.rows)
    /\ \A i \in 1 .. Len(queue) : ObjectsFit(chain, queue[i].rows)
    /\ HelperFits(chain, batch.aux, next_version - 1)
    /\ batch_end = 0 => batch.errors = {}
    /\ CoverInv(Due(chain, Logged), ObjectKeys)

LEMMA ObjectsKeepLater ==
    ASSUME ProcessorsWired, "objects" \in Processors
    PROVE  KeepsLater("objects", ObjectKeys)
<1>1. \A x \in ObjectKeys : x[1] = "current_objects" /\ 1 \in DOMAIN x
  BY DEF ObjectKeys, ObjKey
<1>2. \A k : TableKey(k) = StorerTableKey(k)
  BY DEF ProcessorsWired
<1>3. ASSUME NEW k, k \in ObjectKeys PROVE StorerTableKey(k) = k
  BY <1>1, <1>3 DEF StorerTableKey, FungibleAssetTableKey, TokenTables, AccountRestorationTables
<1>4. ASSUME NEW k, StorerTableKey(k) \in ObjectKeys PROVE StorerTableKey(k) = k
  <2>1. PICK t : t = StorerTableKey(k)
    OBVIOUS
  <2>2. t[1] = "current_objects" /\ 1 \in DOMAIN t
    BY <1>1, <1>4, <2>1
  <2>3. CASE k[1] \in {"cufab_v1", "cufab_v2"}
    <3>1. t = <<"current_fungible_asset_balances", k[2]>>
      BY <2>1, <2>3 DEF StorerTableKey, FungibleAssetTableKey, TokenTables, AccountRestorationTables
    <3> QED BY <2>2, <3>1
  <2>4. CASE k[1] = "public_key_auth_keys"
    <3>1. t = <<k[1], k[2], k[3]>>
      BY <2>1, <2>4 DEF StorerTableKey, AccountRestorationTableKey, TokenTables,
                            AccountRestorationTables
    <3> QED BY <2>2, <2>4, <3>1
  <2>5. CASE k[1] = "current_deleted_token_datas_v2"
    <3>1. t = [k EXCEPT ![1] = "current_token_datas_v2"]
      BY <2>1, <2>5 DEF StorerTableKey, TokenTableKey, TokenTables, AccountRestorationTables
    <3> QED BY <2>2, <3>1
  <2>6. CASE k[1] = "current_deleted_token_ownerships_v2"
    <3>1. t = [k EXCEPT ![1] = "current_token_ownerships_v2"]
      BY <2>1, <2>6 DEF StorerTableKey, TokenTableKey, TokenTables, AccountRestorationTables
    <3> QED BY <2>2, <3>1
  <2>7. CASE k[1] \notin {"cufab_v1", "cufab_v2", "public_key_auth_keys",
                          "current_deleted_token_datas_v2", "current_deleted_token_ownerships_v2"}
    BY <2>7 DEF StorerTableKey, FungibleAssetTableKey, AccountRestorationTableKey, TokenTableKey
  <2> QED BY <2>3, <2>4, <2>5, <2>6, <2>7
<1>5. ASSUME NEW k \in ObjectKeys, NEW old, NEW new
      PROVE  Upsert("objects", k, old, new) = IF old.v <= new.v THEN new ELSE old
  <2>1. Upsert("objects", k, old, new) = ObjectsUpsert(k, old, new)
    BY DEF ProcessorsWired, StorerUpsert
  <2> QED BY <1>1, <2>1 DEF ObjectsUpsert
<1> QED BY <1>2, <1>3, <1>4, <1>5 DEF KeepsLater

LEMMA LastCoreFact ==
    ASSUME NEW txn \in Seq(ObjectChange), NEW a, NEW i \in DOMAIN txn, CoreOf(txn[i], a)
    PROVE  \E j \in DOMAIN txn : CoreOf(txn[j], a) /\ LastCore(txn, a) = txn[j]
<1> DEFINE C(j) == CoreOf(txn[j], a)
           S == {j \in DOMAIN txn : C(j)}
           j == CHOOSE x \in DOMAIN txn : C(x) /\ \A y \in DOMAIN txn : C(y) => y <= x
<1>1. Len(txn) \in Nat /\ DOMAIN txn = 1 .. Len(txn)
  OBVIOUS
<1>2. LastOf(S) \in S /\ \A w \in S : w <= LastOf(S)
  <2>1. S \in SUBSET (1 .. Len(txn)) /\ S # {}
    BY <1>1
  <2> HIDE DEF S
  <2> QED BY <1>1, <2>1, LastOfFact
<1>3. \E x \in DOMAIN txn : C(x) /\ \A y \in DOMAIN txn : C(y) => y <= x
  BY <1>2
<1>4. j \in DOMAIN txn /\ C(j)
  <2> HIDE DEF C
  <2> QED BY <1>3
<1>5. LastCore(txn, a) = txn[j]
  BY DEF LastCore, LastIn
<1> QED BY <1>4, <1>5

\* The first two passes over the transaction of version n.
LEMMA HelperFact ==
    ASSUME NEW h \in Seq(Seq(ObjectChange)), NEW n \in 1 .. Len(h), NEW aux, HelperFits(h, aux, n - 1),
           NEW helper, helper = CollectUntransferable(CollectCores(aux, h[n]), h[n])
    PROVE  /\ HelperFits(h, helper, n)
           /\ \A a : CoredAt(h, n, a) => a \in DOMAIN helper
<1> DEFINE row(a) == [owner |-> LastCore(h[n], a).owner, ungated |-> LastCore(h[n], a).ungated,
                      untransferable |-> FALSE]
           addrs == {h[n][i].addr : i \in Items(h[n], "ObjectCore")}
<1>1. PICK txn, cores, known :
        /\ txn = h[n] /\ cores = [a \in addrs |-> row(a)]
        /\ known = CollectCores(aux, txn)
  OBVIOUS
<1>2. txn \in Seq(ObjectChange) /\ n \in Nat /\ n \in DOMAIN h
  BY <1>1
<1>3. known = Over(cores, aux)
  BY <1>1 DEF CollectCores, LastCore
<1>4. IsOver(known, cores, aux)
  BY <1>3, OverFact
<1>5. ASSUME NEW a PROVE a \in DOMAIN cores <=> CoredAt(h, n, a)
  BY <1>1 DEF CoredAt, CoreOf, Items
<1>6. ASSUME NEW a \in DOMAIN cores
      PROVE  /\ DOMAIN cores[a] = KnownFields /\ HadOwner(h, a, cores[a].owner)
             /\ OwnedAt(h, n, a, cores[a].owner)
  <2>1. cores[a] = row(a)
    BY <1>1
  <2>2. cores[a].owner = LastCore(txn, a).owner /\ DOMAIN cores[a] = KnownFields
    BY <1>1, <2>1 DEF KnownFields
  <2>3. PICK i \in DOMAIN txn : CoreOf(txn[i], a) /\ LastCore(txn, a) = txn[i]
    BY <1>1, <1>2, <1>5, LastCoreFact DEF CoredAt
  <2>4. HadOwner(h, a, cores[a].owner)
    BY <1>1, <2>2, <2>3 DEF HadOwner
  <2>5. ASSUME NEW w, IsLastCored(h, w, n, a) PROVE w = n
    <3>1. w \in 1 .. n /\ n \in 1 .. n /\ n <= w
      BY <1>2, <1>5, <2>5 DEF IsLastCored
    <3> QED BY <1>2, <3>1
  <2> QED BY <1>1, <2>2, <2>4, <2>5 DEF OwnedAt
<1>7. ASSUME NEW a \in DOMAIN aux, a \notin DOMAIN cores
      PROVE  /\ DOMAIN aux[a] = KnownFields /\ HadOwner(h, a, aux[a].owner)
             /\ OwnedAt(h, n, a, aux[a].owner)
  <2>1. ASSUME NEW w, IsLastCored(h, w, n, a) PROVE IsLastCored(h, w, n - 1, a)
    <3>1. w \in 1 .. n /\ CoredAt(h, w, a) /\ \A x \in 1 .. n : CoredAt(h, x, a) => x <= w
      BY <2>1 DEF IsLastCored
    <3>2. w # n
      BY <1>5, <1>7, <3>1
    <3>3. w \in 1 .. n - 1 /\ \A x \in 1 .. n - 1 : x \in 1 .. n
      BY <1>2, <3>1, <3>2
    <3> QED BY <3>1, <3>3 DEF IsLastCored
  <2>2. OwnedAt(h, n - 1, a, aux[a].owner)
    BY DEF HelperFits
  <2>3. OwnedAt(h, n, a, aux[a].owner)
    BY <2>1, <2>2 DEF OwnedAt
  <2> QED BY <2>3 DEF HelperFits
<1>8. ASSUME NEW a \in DOMAIN known
      PROVE  /\ DOMAIN known[a] = KnownFields /\ HadOwner(h, a, known[a].owner)
             /\ OwnedAt(h, n, a, known[a].owner)
  BY <1>4, <1>6, <1>7 DEF IsOver
<1>9. DOMAIN helper = DOMAIN known
  BY <1>1 DEF CollectUntransferable
<1>10. ASSUME NEW a \in DOMAIN known
       PROVE  DOMAIN helper[a] = KnownFields /\ helper[a].owner = known[a].owner
  <2>1. \/ helper[a] = known[a] \/ helper[a] = [known[a] EXCEPT !.untransferable = TRUE]
    BY <1>1 DEF CollectUntransferable
  <2>2. DOMAIN known[a] = KnownFields /\ "owner" \in KnownFields
    BY <1>8 DEF KnownFields
  <2> QED BY <2>1, <2>2
<1>11. HelperFits(h, helper, n)
  BY <1>2, <1>8, <1>9, <1>10 DEF HelperFits
<1> QED BY <1>4, <1>5, <1>9, <1>11 DEF IsOver

\* new has rows as late as old, up to version n.
KeepsRows(old, new, n) ==
    \A k \in ObjectKeys : \A v \in Nat : v <= n /\ Has(old, k, v) => Has(new, k, v)

LEMMA ObjectPut ==
    ASSUME NEW h, Len(h) \in Nat, NEW E, NEW x, IsBatchOf("objects", x, E), ObjectsFit(h, x.rows),
           NEW n \in Nat, NEW i, NEW a \in Objects, NEW row,
           IsRow("current_objects", row), IsObjectRow(h, a, row), row.v = n,
           NEW y, y = PutObject(x, n, i, a, row)
    PROVE  /\ IsBatchOf("objects", y, E) /\ ObjectsFit(h, y.rows)
           /\ y.aux = x.aux /\ y.errors = x.errors
           /\ Has(y.rows, ObjKey(a), n) /\ KeepsRows(x.rows, y.rows, n)
<1>1. PICK k, c, rows, new : /\ k = <<"objects", n, i>> /\ c = ObjKey(a)
                             /\ rows = Put(x.rows, k, row) /\ new = Put(rows, c, row)
  OBVIOUS
<1>2. IsPut(rows, x.rows, k, row) /\ IsPut(new, rows, c, row)
  BY <1>1, PutFact
<1>3. y = [x EXCEPT !.rows = new]
  BY <1>1 DEF PutObject, ObjKey
<1>4. y.rows = new /\ y.aux = x.aux /\ y.errors = x.errors
  BY <1>3 DEF IsBatchOf, IsBatch
<1>5. k[1] = "objects" /\ c[1] = "current_objects" /\ \A z \in ObjectKeys : z[1] = "current_objects"
  BY <1>1 DEF ObjKey, ObjectKeys
<1>6. /\ c \in DOMAIN new /\ new[c] = row /\ DOMAIN new = DOMAIN x.rows \cup {k, c}
      /\ \A z \in DOMAIN x.rows : z # k /\ z # c => new[z] = x.rows[z]
  BY <1>2 DEF IsPut
<1>7. ObjectsFit(h, new)
  <2>1. ASSUME NEW o \in Objects, ObjKey(o) \in DOMAIN new PROVE IsObjectRow(h, o, new[ObjKey(o)])
    <3>1. CASE ObjKey(o) = c
      <4>1. o = a
        BY <1>1, <3>1 DEF ObjKey
      <4> QED BY <1>6, <3>1, <4>1
    <3>2. CASE ObjKey(o) # c
      <4>1. ObjKey(o)[1] = "current_objects"
        BY DEF ObjKey
      <4>2. ObjKey(o) # k
        BY <1>5, <4>1
      <4>3. ObjKey(o) \in DOMAIN x.rows /\ new[ObjKey(o)] = x.rows[ObjKey(o)]
        BY <1>6, <2>1, <3>2, <4>2
      <4> QED BY <4>3 DEF ObjectsFit
    <3> QED BY <3>1, <3>2
  <2>2. ASSUME NEW z \in DOMAIN new, z[1] = "current_objects" PROVE z \in ObjectKeys
    <3>1. c \in ObjectKeys
      BY <1>1 DEF ObjectKeys
    <3> QED BY <1>5, <1>6, <2>2, <3>1 DEF ObjectsFit
  <2> QED BY <2>1, <2>2 DEF ObjectsFit
<1>8. Has(new, c, n)
  BY <1>6 DEF Has
<1>9. KeepsRows(x.rows, new, n)
  BY <1>5, <1>6 DEF KeepsRows, Has
<1>10. IsBatchOf("objects", y, E)
  BY ObjectRows
<1> QED BY <1>1, <1>4, <1>7, <1>8, <1>9, <1>10

\* What version n must have written by its j-th change.
WrittenAt(h, n, x, j) ==
    /\ h[n][j].type = "ObjectCore" => Has(x.rows, ObjKey(h[n][j].addr), n)
    /\ h[n][j].type = "DeleteGroup" => Has(x.rows, ObjKey(h[n][j].addr), n) \/ n \in x.errors

\* x is batch b after the first i changes of version n.
ParsedUpTo(h, n, b, helper, x, i) ==
    /\ IsBatchOf("objects", x, 1 .. Len(h)) /\ ObjectsFit(h, x.rows)
    /\ x.aux = helper /\ b.errors \subseteq x.errors
    /\ KeepsRows(b.rows, x.rows, n)
    /\ \A j \in 1 .. i : WrittenAt(h, n, x, j)

LEMMA ParsedFurther ==
    ASSUME NEW h, NEW n \in Nat, NEW b, NEW helper, NEW x, NEW i \in Nat \ {0},
           ParsedUpTo(h, n, b, helper, x, i - 1),
           NEW y, IsBatchOf("objects", y, 1 .. Len(h)), ObjectsFit(h, y.rows),
           y.aux = x.aux, x.errors \subseteq y.errors, KeepsRows(x.rows, y.rows, n),
           WrittenAt(h, n, y, i), \A j \in 1 .. i - 1 : h[n][j] \in ObjectChange
    PROVE  ParsedUpTo(h, n, b, helper, y, i)
<1>1. KeepsRows(b.rows, y.rows, n)
  BY DEF KeepsRows, ParsedUpTo
<1>2. ASSUME NEW j \in 1 .. i PROVE WrittenAt(h, n, y, j)
  <2>1. CASE j = i
    BY <2>1
  <2>2. CASE j # i
    <3>1. j \in 1 .. i - 1
      BY <2>2
    <3>2. WrittenAt(h, n, x, j)
      BY <3>1 DEF ParsedUpTo
    <3>3. ObjKey(h[n][j].addr) \in ObjectKeys
      BY <3>1 DEF ObjectKeys, ObjectChange
    <3>4. Has(x.rows, ObjKey(h[n][j].addr), n) => Has(y.rows, ObjKey(h[n][j].addr), n)
      BY <3>3 DEF KeepsRows
    <3> QED BY <3>2, <3>4 DEF WrittenAt
  <2> QED BY <2>1, <2>2
<1> QED BY <1>1, <1>2 DEF ParsedUpTo

\* The deletion of an object takes over the owner of its previous row, wherever it
\* finds it.
LEMMA ObjectRemoved ==
    ASSUME NEW h, NEW n \in 1 .. Len(h), Len(h) \in Nat, NEW a, DeletedAt(h, n, a),
           NEW old, IsRow("current_objects", old), IsObjectRow(h, a, old),
           NEW row, row = DeletedRow(old, n)
    PROVE  IsRow("current_objects", row) /\ IsObjectRow(h, a, row) /\ row.v = n
<1>1. DOMAIN old = {"v", "owner", "is_deleted", "untransferrable"}
  BY ColumnsFact DEF IsRow
<1>2. row.v = n /\ row.is_deleted = TRUE /\ row.owner = old.owner
  BY <1>1 DEF DeletedRow
<1>3. IsRow("current_objects", row)
  <2>1. n \in 1 .. Len(h) /\ 1 .. Len(h) \subseteq Nat
    OBVIOUS
  <2> QED BY <2>1, ObjectDeleted
<1>4. TouchedAt(h, n, a)
  BY DEF DeletedAt, TouchedAt, DeletionOf
<1> QED BY <1>2, <1>3, <1>4 DEF IsObjectRow

\* The extractor is about to parse version n into batch b and looks into tables.
ParsesAt(h, n, tables, b) ==
    /\ IsObjectHistory(h) /\ n \in 1 .. Len(h)
    /\ AreTables("objects", tables) /\ ObjectsFit(h, tables)
    /\ IsBatchOf("objects", b, 1 .. Len(h)) /\ ObjectsFit(h, b.rows)
    /\ HelperFits(h, b.aux, n - 1)

LEMMA ObjectsParseFact ==
    ASSUME NEW h, NEW n, NEW tables, NEW b, ParsesAt(h, n, tables, b),
           NEW x, x = ObjectsParse(b, h[n], n, tables)
    PROVE  /\ ObjectsFit(h, x.rows) /\ HelperFits(h, x.aux, n)
           /\ b.errors \subseteq x.errors /\ KeepsRows(b.rows, x.rows, n)
           /\ \A k \in MustWrite(h, n, x.errors) : Has(x.rows, k, n)
<1> DEFINE txn == h[n]
           N == Len(txn)
           helper == CollectUntransferable(CollectCores(b.aux, txn), txn)
           base == [b EXCEPT !.aux = helper]
           Step(y, i) ==
             LET c == txn[i]
             IN IF c.type = "DeleteGroup" THEN DeleteObject(y, n, i, c.addr, tables)
                ELSE IF c.addr \in DOMAIN helper
                THEN PutObject(y, n, i, c.addr, ObjectRow(helper[c.addr], n))
                ELSE y
           Good(y, i) == ParsedUpTo(h, n, b, helper, y, i)
           Body(g) == [i \in 0 .. N |-> IF i = 0 THEN base ELSE Step(g[i - 1], i)]
           after == CHOOSE g : g = Body(g)
<1>1. /\ n \in DOMAIN h /\ n \in Nat /\ n \in 1 .. Len(h) /\ Len(h) \in Nat
      /\ h \in Seq(Seq(ObjectChange)) /\ txn \in Seq(ObjectChange) /\ DOMAIN txn = 1 .. N
      /\ N \in Nat /\ \A i \in 1 .. N : txn[i] \in ObjectChange
  BY DEF ParsesAt, IsObjectHistory
<1>2. N \in Nat
  BY <1>1
<1>3. n \in 1 .. Len(h) /\ Len(h) \in Nat /\ n \in Nat
  BY <1>1
<1>4. x = after[N]
  BY DEF ObjectsParse, InOrder
<1>5. HelperFits(h, helper, n) /\ \A a : CoredAt(h, n, a) => a \in DOMAIN helper
  BY <1>1, HelperFact DEF ParsesAt
<1>6. Good(base, 0)
  <2> HIDE DEF helper
  <2>1. IsBatchOf("objects", base, 1 .. Len(h)) /\ base.aux = helper
    <3>1. PICK E, f : E = 1 .. Len(h) /\ f = helper
      OBVIOUS
    <3>2. IsBatchOf("objects", b, E)
      BY <3>1 DEF ParsesAt
    <3>3. IsBatchOf("objects", [b EXCEPT !.aux = f], E) /\ [b EXCEPT !.aux = f].aux = f
      BY <3>2, BatchOfSet
    <3> QED BY <3>1, <3>3
  <2>2. base.rows = b.rows /\ base.errors = b.errors
    BY DEF ParsesAt, IsBatchOf, IsBatch
  <2> HIDE DEF base
  <2> QED BY <2>1, <2>2 DEF ParsesAt, ParsedUpTo, KeepsRows
<1>7. ASSUME NEW i \in 1 .. N, NEW y, Good(y, i - 1) PROVE Good(Step(y, i), i)
  <2>1. PICK c, a, k : c = txn[i] /\ a = c.addr /\ k = ObjKey(a)
    OBVIOUS
  <2>2. c \in ObjectChange /\ a \in Objects /\ i \in DOMAIN txn
    BY <1>1, <2>1 DEF ObjectChange
  <2>3. /\ IsBatchOf("objects", y, 1 .. Len(h)) /\ ObjectsFit(h, y.rows)
        /\ KeepsRows(y.rows, y.rows, n)
    BY <1>7 DEF ParsedUpTo, KeepsRows
  <2>4. \A j \in 1 .. i - 1 : txn[j] \in ObjectChange
    BY <1>1
  <2>5. ASSUME NEW z, IsBatchOf("objects", z, 1 .. Len(h)), ObjectsFit(h, z.rows),
               z.aux = y.aux, y.errors \subseteq z.errors, KeepsRows(y.rows, z.rows, n),
               WrittenAt(h, n, z, i)
        PROVE  Good(z, i)
    <3>1. i \in Nat \ {0}
      BY <1>1
    <3> HIDE DEF helper
    <3> QED BY <1>1, <1>7, <2>4, <2>5, <3>1, ParsedFurther
  <2>6. ASSUME NEW row, IsRow("current_objects", row), IsObjectRow(h, a, row), row.v = n
        PROVE  Good(PutObject(y, n, i, a, row), i)
    <3>1. PICK z : z = PutObject(y, n, i, a, row)
      OBVIOUS
    <3>2. /\ IsBatchOf("objects", z, 1 .. Len(h)) /\ ObjectsFit(h, z.rows)
          /\ z.aux = y.aux /\ z.errors = y.errors
          /\ Has(z.rows, ObjKey(a), n) /\ KeepsRows(y.rows, z.rows, n)
      BY <1>1, <2>2, <2>3, <2>6, <3>1, ObjectPut
    <3>3. WrittenAt(h, n, z, i)
      BY <2>1, <3>2 DEF WrittenAt
    <3> HIDE DEF Good
    <3> QED BY <2>5, <3>1, <3>2, <3>3
  <2>7. CASE c.type = "DeleteGroup"
    <3>1. DeletedAt(h, n, a)
      BY <2>1, <2>2, <2>7 DEF DeletedAt, DeletionOf
    <3>2. k[1] = "current_objects"
      BY <2>1 DEF ObjKey
    <3>3. k \in DOMAIN y.rows => Good(PutObject(y, n, i, a, DeletedRow(y.rows[k], n)), i)
      <4>1. k \in DOMAIN y.rows =>
              IsRow("current_objects", y.rows[k]) /\ IsObjectRow(h, a, y.rows[k])
        BY <2>1, <2>2, <2>3, <3>2 DEF IsBatchOf, AreRows, ObjectsFit
      <4>2. k \in DOMAIN y.rows =>
              LET row == DeletedRow(y.rows[k], n)
              IN IsRow("current_objects", row) /\ IsObjectRow(h, a, row) /\ row.v = n
        BY <1>3, <3>1, <4>1, ObjectRemoved
      <4> HIDE DEF Good
      <4> QED BY <2>6, <4>2
    <3>4. k \in DOMAIN tables => Good(PutObject(y, n, i, a, DeletedRow(tables[k], n)), i)
      <4>1. k \in DOMAIN tables =>
              IsRow("current_objects", tables[k]) /\ IsObjectRow(h, a, tables[k])
        BY <2>1, <2>2, <3>2 DEF ParsesAt, AreTables, ObjectsFit
      <4>2. k \in DOMAIN tables =>
              LET row == DeletedRow(tables[k], n)
              IN IsRow("current_objects", row) /\ IsObjectRow(h, a, row) /\ row.v = n
        BY <1>3, <3>1, <4>1, ObjectRemoved
      <4> HIDE DEF Good
      <4> QED BY <2>6, <4>2
    <3>5. Good([y EXCEPT !.errors = @ \cup {n}], i)
      <4>1. PICK z : z = [y EXCEPT !.errors = @ \cup {n}]
        OBVIOUS
      <4>2. IsBatchOf("objects", z, 1 .. Len(h))
        BY <1>3, <2>3, <4>1, BatchOfSet
      <4>3. z.rows = y.rows /\ z.aux = y.aux /\ z.errors = y.errors \cup {n}
        BY <2>3, <4>1 DEF IsBatchOf, IsBatch
      <4>4. WrittenAt(h, n, z, i)
        BY <2>1, <2>7, <4>3 DEF WrittenAt
      <4> HIDE DEF Good
      <4> QED BY <2>3, <2>5, <4>1, <4>2, <4>3, <4>4
    <3> HIDE DEF Good
    <3>6. Step(y, i) = DeleteObject(y, n, i, a, tables)
      BY <2>1, <2>7
    <3> QED BY <2>1, <3>3, <3>4, <3>5, <3>6 DEF DeleteObject, ObjKey
  <2>8. CASE c.type # "DeleteGroup" /\ a \in DOMAIN helper
    <3>1. PICK row : row = ObjectRow(helper[a], n)
      OBVIOUS
    <3>2. /\ DOMAIN row = {"v", "owner", "is_deleted", "untransferrable"}
          /\ row.v = n /\ row.owner = helper[a].owner /\ row.is_deleted = FALSE
      BY <3>1 DEF ObjectRow
    <3>3. IsRow("current_objects", row)
      BY <1>1, <3>2, ColumnsFact DEF IsRow, BalanceColumns
    <3>4. ~DeletedAt(h, n, a)
      BY <1>1, <2>1, <2>2, <2>8 DEF ParsesAt, IsObjectHistory, ObjectsHistory
    <3>5. TouchedAt(h, n, a)
      BY <2>1, <2>2 DEF TouchedAt
    <3>6. HadOwner(h, a, row.owner) /\ OwnedAt(h, n, a, row.owner)
      <4> HIDE DEF helper
      <4> QED BY <1>5, <2>8, <3>2 DEF HelperFits
    <3>7. IsObjectRow(h, a, row)
      BY <1>3, <3>2, <3>4, <3>5, <3>6 DEF IsObjectRow
    <3>8. Step(y, i) = PutObject(y, n, i, a, row)
      BY <2>1, <2>8, <3>1
    <3> HIDE DEF Good, Step
    <3> QED BY <2>6, <3>2, <3>3, <3>7, <3>8
  <2>9. CASE c.type # "DeleteGroup" /\ a \notin DOMAIN helper
    <3>1. Step(y, i) = y
      BY <2>1, <2>9
    <3>2. c.type # "ObjectCore"
      BY <1>5, <2>1, <2>2, <2>9 DEF CoredAt, CoreOf
    <3>3. WrittenAt(h, n, y, i)
      BY <2>1, <2>9, <3>2 DEF WrittenAt
    <3> HIDE DEF Step, Good
    <3> QED BY <2>3, <2>5, <3>1, <3>3
  <2> QED BY <2>7, <2>8, <2>9
<1> HIDE DEF Step, base, N, Good
<1>8. \E g : g = Body(g)
  <2> DEFINE Upto(g, m) == g[0] = base /\ \A i \in 1 .. m : g[i] = Step(g[i - 1], i)
             P == {m \in 0 .. N : \E g : Upto(g, m)}
  <2>1. 0 \in P
    <3>1. PICK g : g = [i \in {0} |-> base]
      OBVIOUS
    <3>2. Upto(g, 0)
      BY <3>1
    <3> QED BY <1>2, <3>2
  <2>2. ASSUME NEW m \in 1 .. N, m - 1 \in P PROVE m \in P
    <3>1. PICK g : Upto(g, m - 1)
      BY <2>2
    <3>2. PICK f : f = [i \in 0 .. m |-> IF i = m THEN Step(g[m - 1], m) ELSE g[i]]
      OBVIOUS
    <3>3. Upto(f, m)
      BY <1>2, <3>1, <3>2
    <3> QED BY <1>2, <3>3
  <2>3. N \in P
    <3> HIDE DEF P
    <3> QED BY <1>2, <2>1, <2>2, InductionUpTo
  <2>4. PICK g : Upto(g, N)
    BY <2>3
  <2>5. PICK f : f = [i \in 0 .. N |-> g[i]]
    OBVIOUS
  <2>6. f = Body(f)
    BY <1>2, <2>4, <2>5
  <2> HIDE DEF Body
  <2> QED BY <2>6
<1>9. after = Body(after)
  <2> HIDE DEF Body
  <2> QED BY <1>8
<1> HIDE DEF after
<1>10. after[0] = base /\ \A m \in 1 .. N : after[m] = Step(after[m - 1], m)
  <2>1. \A m \in 0 .. N : Body(after)[m] = IF m = 0 THEN base ELSE Step(after[m - 1], m)
    OBVIOUS
  <2>2. 0 \in 0 .. N /\ \A m \in 1 .. N : m \in 0 .. N /\ m # 0
    BY <1>2
  <2> HIDE DEF Body
  <2> QED BY <1>9, <2>1, <2>2
<1>11. Good(x, N)
  <2> DEFINE P == {m \in 0 .. N : Good(after[m], m)}
  <2>1. 0 \in P /\ \A m \in 1 .. N : m - 1 \in P => m \in P
    BY <1>2, <1>6, <1>7, <1>10
  <2>2. N \in P
    <3> HIDE DEF P
    <3> QED BY <1>2, <2>1, InductionUpTo
  <2> QED BY <1>4, <2>2
<1>12. ASSUME NEW k \in MustWrite(h, n, x.errors) PROVE Has(x.rows, k, n)
  <2>1. PICK a \in Objects : /\ k = ObjKey(a)
                             /\ CoredAt(h, n, a) \/ (DeletedAt(h, n, a) /\ n \notin x.errors)
    BY <1>12 DEF MustWrite
  <2>2. \A j \in 1 .. N : WrittenAt(h, n, x, j)
    BY <1>11 DEF Good, ParsedUpTo
  <2> QED BY <1>1, <2>1, <2>2 DEF CoredAt, DeletedAt, CoreOf, DeletionOf, WrittenAt
<1> QED BY <1>5, <1>11, <1>12 DEF Good, ParsedUpTo

LEMMA TablesExtent ==
    ASSUME TablesInv
    PROVE  IInv /\ ExtentInv
BY DEF TablesInv, BoundsInv, ColumnsInv, IsBatchOf, ExtentInv

\* With less to cover, everything is still covered.
LEMMA CoverShrinks ==
    ASSUME NEW W, NEW V, NEW K, IInv, ExtentInv, CoverInv(W, K),
           \A v \in 1 .. Len(chain) : DOMAIN V[v] \subseteq DOMAIN W[v]
    PROVE  CoverInv(V, K)
<1>1. PICK L : L = Len(chain)
  OBVIOUS
<1>2. /\ L \in Nat /\ checkpoint \in Nat /\ checkpoint <= L
      /\ next_version \in Nat \ {0} /\ next_version <= L + 1
      /\ batch_start \in Nat
      /\ batch_end # 0 => batch_start # 0 /\ batch_start <= next_version
  BY <1>1 DEF IInv, BatchInv, ExtentInv
<1>3. ASSUME NEW d, NEW q, NEW i, NEW m \in Int, m <= L, OnItsWay(d, q, i, W, K, 1 .. m)
      PROVE  OnItsWay(d, q, i, V, K, 1 .. m)
  <2>1. \A v \in 1 .. m : DOMAIN V[v] \subseteq DOMAIN W[v]
    BY <1>1, <1>2, <1>3
  <2> QED BY <1>3, <2>1 DEF OnItsWay
<1>4. OnItsWay(db, queue, 0, V, K, 1 .. checkpoint)
  BY <1>2, <1>3 DEF CoverInv
<1>5. ASSUME NEW i \in 1 .. Len(queue) PROVE OnItsWay(db, queue, i, V, K, 1 .. queue[i].end_version)
  <2>1. queue[i].end_version \in Int /\ queue[i].end_version <= L
    BY <1>2 DEF IInv, QueueInv
  <2> QED BY <1>3, <2>1 DEF CoverInv
<1>6. OnItsWay(db, queue, Len(queue), V, K, 1 .. Start - 1)
  <2>1. Start - 1 \in Int /\ Start - 1 <= L
    BY <1>2 DEF Start
  <2>2. OnItsWay(db, queue, Len(queue), W, K, 1 .. Start - 1)
    BY DEF CoverInv
  <2> HIDE DEF Start
  <2> QED BY <1>3, <2>1, <2>2
<1>7. ASSUME batch_end # 0, NEW v \in batch_start .. next_version - 1, NEW k \in K, k \in DOMAIN V[v]
      PROVE  Has(batch.rows, k, v)
  <2>1. v \in 1 .. L
    BY <1>2, <1>7
  <2> QED BY <1>1, <1>7, <2>1 DEF CoverInv
<1> QED BY <1>4, <1>5, <1>6, <1>7 DEF CoverInv

LEMMA DueFact ==
    ASSUME NEW h, NEW E, NEW v \in 1 .. Len(h)
    PROVE  DOMAIN Due(h, E)[v] = MustWrite(h, v, E)
BY DEF Due

LEMMA DueShrinks ==
    ASSUME NEW h, NEW E, NEW F, E \subseteq F, NEW v \in 1 .. Len(h)
    PROVE  DOMAIN Due(h, F)[v] \subseteq DOMAIN Due(h, E)[v]
<1>1. MustWrite(h, v, F) \subseteq MustWrite(h, v, E)
  BY DEF MustWrite
<1> QED BY <1>1, DueFact

LEMMA FitVersions ==
    ASSUME NEW h, Len(h) \in Nat, NEW rows, ObjectsFit(h, rows)
    PROVE  NamesVersion(rows, ObjectKeys)
BY DEF ObjectsFit, IsObjectRow, NamesVersion, ObjectKeys

LEMMA ObjectsStored ==
    ASSUME ProcessorsWired, "objects" \in Processors, processor = "objects",
           NEW h, ObjectsFit(h, db), NEW rows, AreRows("objects", rows), ObjectsFit(h, rows), NEW s
    PROVE  ObjectsFit(h, Stored(s, rows))
<1> DEFINE mine == {k \in DOMAIN rows : CommitGroup(k[1]) = s}
<1>1. PICK e : e = Stored(s, rows)
  OBVIOUS
<1>2. Merged(e, db, rows, ObjectKeys, mine)
  BY <1>1, ObjectsKeepLater, StoredFact
<1>3. ASSUME NEW a \in Objects, ObjKey(a) \in DOMAIN e PROVE IsObjectRow(h, a, e[ObjKey(a)])
  <2>1. PICK k : k = ObjKey(a) /\ k \in ObjectKeys
    BY DEF ObjectKeys
  <2>2. (k \in DOMAIN rows /\ e[k] = rows[k]) \/ (k \in DOMAIN db /\ e[k] = db[k])
    BY <1>2, <1>3, <2>1 DEF Merged
  <2> QED BY <2>1, <2>2 DEF ObjectsFit
<1>4. ASSUME NEW t \in DOMAIN e, t[1] = "current_objects" PROVE t \in ObjectKeys
  <2>1. CASE t \in DOMAIN db
    BY <1>4, <2>1 DEF ObjectsFit
  <2>2. CASE t \notin DOMAIN db
    <3>1. PICK k \in DOMAIN rows : t = TableKey(k)
      BY <1>1, <2>2 DEF Stored, Over
    <3>2. k[1] \in ObjectsTables
      BY DEF AreRows, StorerStatements
    <3>3. StorerTableKey(k) = k
      BY <3>2 DEF StorerTableKey, FungibleAssetTableKey, TokenTables, AccountRestorationTables,
                  ObjectsTables
    <3>4. t = k
      BY <3>1, <3>3 DEF ProcessorsWired
    <3> QED BY <1>4, <3>1, <3>4 DEF ObjectsFit
  <2> QED BY <2>1, <2>2
<1> QED BY <1>1, <1>3, <1>4 DEF ObjectsFit

LEMMA ObjectsStart ==
    ASSUME ProcessorsWired, "objects" \in Processors, NEW h, NEW n, NEW b,
           b = FirstBatch("objects", db) \/ b = NextBatch("objects", batch)
           \/ b = FirstBatch("objects", NoRows)
    PROVE  ObjectsFit(h, b.rows) /\ HelperFits(h, b.aux, n) /\ b.errors = {}
<1>1. b = ObjectsNewBatch
  BY DEF ProcessorsWired, ExtractorStart, ExtractorNext
<1>2. b.rows = NoRows /\ b.aux = NoRows /\ b.errors = {} /\ DOMAIN NoRows = {}
  BY <1>1 DEF ObjectsNewBatch, EmptyBatch, NoRows
<1> QED BY <1>2 DEF ObjectsFit, HelperFits

LEMMA ObjectsExtract ==
    ASSUME ProcessorsWired, ObjectsChains, processor = "objects", TablesInv, ObjectsInv,
           ExtractTransaction
    PROVE  ObjectsInv'
<1>1. PICK h, n, E, F, b, x :
        /\ h = chain /\ n = next_version /\ E = Logged /\ F = Logged'
        /\ b = [batch EXCEPT !.transactions = {chain[w] : w \in batch_start' .. batch_end'}]
        /\ x = batch'
  OBVIOUS
<1>2. /\ x = Parse("objects", b, h[n], n, db) /\ n <= batch_end' /\ next_version' = n + 1
      /\ UNCHANGED <<processor, chain, db, queue, errors>>
  BY <1>1 DEF ExtractTransaction
<1>3. x = ObjectsParse(b, h[n], n, db)
  BY <1>2 DEF ProcessorsWired, ExtractorParse, TablesInv
<1>4. IInv /\ ExtentInv
  BY TablesExtent
<1>5. /\ Len(h) \in Nat /\ n \in 1 .. Len(h) /\ n \in Nat /\ (n + 1) - 1 = n /\ batch_end' # 0
  <2>1. MaxBatch \in Nat \ {0}
    BY PipelineAssumption
  <2>2. Len(h) \in Nat /\ n \in Nat \ {0} /\ batch_end \in Nat /\ batch_end <= Len(h)
    BY <1>1, <1>4 DEF IInv, ExtentInv
  <2>3. batch_end' \in ReceiveBatch
    BY DEF ExtractTransaction
  <2>4. batch_end' \in Nat /\ batch_end' <= Len(h)
    BY <1>1, <2>1, <2>2, <2>3 DEF ReceiveBatch
  <2> QED BY <1>2, <2>2, <2>4
<1>6. /\ IsBatchOf("objects", b, 1 .. Len(h)) /\ b.rows = batch.rows /\ b.aux = batch.aux
      /\ b.errors = batch.errors /\ AreTables("objects", db)
  <2>1. PICK V, w : V = 1 .. Len(h) /\ b = [batch EXCEPT !.transactions = w]
    BY <1>1
  <2>2. IsBatchOf("objects", batch, V) /\ AreTables("objects", db)
    BY <1>1, <2>1 DEF TablesInv, ColumnsInv, Versions
  <2>3. IsBatchOf("objects", [batch EXCEPT !.transactions = w], V)
    BY <2>2, BatchOfSet
  <2>4. b.rows = batch.rows /\ b.aux = batch.aux /\ b.errors = batch.errors
    BY <2>1, <2>2 DEF IsBatchOf, IsBatch
  <2> QED BY <2>1, <2>2, <2>3, <2>4
<1>7. ParsesAt(h, n, db, b)
  <2>1. IsObjectHistory(h)
    BY <1>1 DEF ObjectsChains, TablesInv
  <2>2. ObjectsFit(h, db) /\ ObjectsFit(h, b.rows) /\ HelperFits(h, b.aux, n - 1)
    BY <1>1, <1>6 DEF ObjectsInv
  <2> QED BY <1>5, <1>6, <2>1, <2>2 DEF ParsesAt
<1>8. /\ ObjectsFit(h, x.rows) /\ HelperFits(h, x.aux, n)
      /\ b.errors \subseteq x.errors /\ KeepsRows(b.rows, x.rows, n)
      /\ \A k \in MustWrite(h, n, x.errors) : Has(x.rows, k, n)
  BY <1>3, <1>7, ObjectsParseFact
<1>9. E \subseteq F /\ F = errors \cup x.errors
  BY <1>1, <1>2, <1>6, <1>8 DEF Logged
<1>10. PICK W : W = Due(h, F)
  OBVIOUS
<1>11. CoverInv(W, ObjectKeys)
  <2>1. PICK U : U = Due(h, E)
    OBVIOUS
  <2>2. CoverInv(U, ObjectKeys)
    BY <1>1, <2>1 DEF ObjectsInv
  <2>3. \A v \in 1 .. Len(h) : DOMAIN W[v] \subseteq DOMAIN U[v]
    BY <1>9, <1>10, <2>1, DueShrinks
  <2> QED BY <1>1, <1>4, <2>2, <2>3, CoverShrinks
<1>12. CoverInv(W, ObjectKeys)'
  <2>1. DOMAIN W[n] = MustWrite(h, n, F)
    BY <1>5, <1>10, DueFact
  <2>2. MustWrite(h, n, F) \subseteq MustWrite(h, n, x.errors)
    BY <1>9 DEF MustWrite
  <2>3. \A k \in ObjectKeys : k \in DOMAIN W[n] => Has(x.rows, k, n)
    BY <1>8, <2>1, <2>2
  <2>4. \A k \in ObjectKeys : \A v \in Nat : v <= n /\ Has(batch.rows, k, v) => Has(x.rows, k, v)
    BY <1>6, <1>8 DEF KeepsRows
  <2> QED BY <1>1, <1>4, <1>11, <2>3, <2>4, CoverExtract
<1>13. Due(chain, Logged)' = W
  BY <1>1, <1>2, <1>10
<1>14. ObjectsFit(h, db) /\ \A i \in 1 .. Len(queue) : ObjectsFit(h, queue[i].rows)
  BY <1>1 DEF ObjectsInv
<1> QED BY <1>1, <1>2, <1>5, <1>8, <1>12, <1>13, <1>14 DEF ObjectsInv

LEMMA ObjectsSend ==
    ASSUME ProcessorsWired, processor = "objects", TablesInv, ObjectsInv, SendBatch
    PROVE  ObjectsInv'
<1>1. PICK h, q, r, W, last :
        /\ h = chain /\ q = queue /\ r = queue' /\ W = Due(chain, Logged)
        /\ last = [rows |-> batch.rows, start_version |-> batch_start, end_version |-> next_version - 1]
  OBVIOUS
<1>2. /\ r = Append(q, last) /\ batch' = NextBatch("objects", batch)
      /\ errors' = errors \cup batch.errors
      /\ UNCHANGED <<processor, chain, db>>
  BY <1>1 DEF SendBatch
<1>3. IInv /\ ExtentInv
  BY TablesExtent
<1>4. /\ ObjectsFit(h, batch'.rows) /\ HelperFits(h, batch'.aux, next_version' - 1)
      /\ batch'.errors = {}
  BY <1>2, ObjectsStart DEF TablesInv
<1>5. Logged' = Logged
  BY <1>2, <1>4 DEF Logged
<1>6. CoverInv(W, ObjectKeys)'
  BY <1>1, <1>3, CoverSend DEF ObjectsInv
<1>7. ASSUME NEW i \in 1 .. Len(r) PROVE ObjectsFit(h, r[i].rows)
  <2>1. PICK S : q \in Seq(S)
    BY <1>1, <1>3 DEF IInv, QueueInv
  <2>2. /\ Len(q) \in Nat /\ Len(r) = Len(q) + 1 /\ r[Len(q) + 1] = last
        /\ \A j \in 1 .. Len(q) : r[j] = q[j]
    BY <1>2, <2>1
  <2>3. last.rows = batch.rows
    BY <1>1
  <2>4. ObjectsFit(h, batch.rows) /\ \A j \in 1 .. Len(q) : ObjectsFit(h, q[j].rows)
    BY <1>1 DEF ObjectsInv
  <2>5. i \in 1 .. Len(q) \/ i = Len(q) + 1
    BY <2>2
  <2> QED BY <2>2, <2>3, <2>4, <2>5
<1>8. Due(chain, Logged)' = W
  BY <1>1, <1>2, <1>5
<1>9. ObjectsFit(h, db)
  BY <1>1 DEF ObjectsInv
<1> QED BY <1>1, <1>2, <1>4, <1>6, <1>7, <1>8, <1>9 DEF ObjectsInv

LEMMA ObjectsCommit ==
    ASSUME ProcessorsWired, processor = "objects", TablesInv, ObjectsInv, NEW s, CommitStatement(s)
    PROVE  ObjectsInv'
<1>1. PICK h, rows, W : h = chain /\ rows = Head(queue).rows /\ W = Due(chain, Logged)
  OBVIOUS
<1>2. /\ queue # <<>> /\ db' = Stored(s, rows)
      /\ UNCHANGED <<processor, chain, batch, batch_end, queue, next_version, errors>>
  BY <1>1 DEF CommitStatement
<1>3. IInv /\ ExtentInv /\ Len(h) \in Nat /\ "objects" \in Processors
  BY <1>1, TablesExtent DEF ExtentInv, TablesInv
<1>4. 1 \in 1 .. Len(queue) /\ Head(queue) = queue[1]
  <2>1. PICK S : queue \in Seq(S)
    BY <1>3 DEF IInv, QueueInv
  <2> QED BY <1>2, <2>1
<1>5. ObjectsFit(h, rows) /\ ObjectsFit(h, db)
  BY <1>1, <1>4 DEF ObjectsInv
<1>6. AreRows("objects", rows)
  BY <1>1, <1>4 DEF TablesInv, ColumnsInv
<1>7. ObjectsFit(h, db')
  BY <1>2, <1>3, <1>5, <1>6, ObjectsStored
<1>8. CoverInv(W, ObjectKeys)'
  <2>1. NamesVersion(rows, ObjectKeys) /\ NamesVersion(db, ObjectKeys)
    BY <1>3, <1>5, FitVersions
  <2>2. CoverInv(W, ObjectKeys)
    BY <1>1 DEF ObjectsInv
  <2> QED BY <1>1, <1>3, <2>1, <2>2, ObjectsKeepLater, CoverCommit
<1>9. Due(chain, Logged)' = W
  BY <1>1, <1>2 DEF Logged
<1>10. /\ ObjectsFit(h, batch.rows) /\ \A i \in 1 .. Len(queue) : ObjectsFit(h, queue[i].rows)
       /\ HelperFits(h, batch.aux, next_version - 1) /\ (batch_end = 0 => batch.errors = {})
  BY <1>1 DEF ObjectsInv
<1> QED BY <1>1, <1>2, <1>7, <1>8, <1>9, <1>10 DEF ObjectsInv

LEMMA ObjectsFinish ==
    ASSUME processor = "objects", TablesInv, ObjectsInv, FinishBatch
    PROVE  ObjectsInv'
<1>1. PICK h, q, W : h = chain /\ q = queue /\ W = Due(chain, Logged)
  OBVIOUS
<1>2. /\ q # <<>> /\ queue' = Tail(q)
      /\ UNCHANGED <<processor, chain, db, batch, batch_end, next_version, errors>>
  BY <1>1 DEF FinishBatch
<1>3. IInv /\ Len(h) \in Nat
  BY <1>1, TablesExtent DEF ExtentInv
<1>4. /\ Len(q) \in Nat \ {0} /\ Head(q) = q[1] /\ Len(Tail(q)) = Len(q) - 1
      /\ \A i \in 1 .. Len(q) - 1 : Tail(q)[i] = q[i + 1]
  <2>1. PICK S : q \in Seq(S)
    BY <1>1, <1>3 DEF IInv, QueueInv
  <2> QED BY <1>2, <2>1
<1>5. ObjectsFit(h, db) /\ \A i \in 1 .. Len(q) : ObjectsFit(h, q[i].rows)
  BY <1>1 DEF ObjectsInv
<1>6. CoverInv(W, ObjectKeys)'
  <2>1. 1 \in 1 .. Len(q)
    BY <1>4
  <2>2. NamesVersion(Head(q).rows, ObjectKeys) /\ NamesVersion(db, ObjectKeys)
    BY <1>3, <1>4, <1>5, <2>1, FitVersions
  <2>3. CoverInv(W, ObjectKeys)
    BY <1>1 DEF ObjectsInv
  <2> QED BY <1>1, <1>3, <2>2, <2>3, CoverFinish
<1>7. ASSUME NEW i \in 1 .. Len(Tail(q)) PROVE ObjectsFit(h, Tail(q)[i].rows)
  <2>1. i + 1 \in 1 .. Len(q) /\ Tail(q)[i] = q[i + 1]
    BY <1>4
  <2> QED BY <1>5, <2>1
<1>8. Due(chain, Logged)' = W
  BY <1>1, <1>2 DEF Logged
<1>9. /\ ObjectsFit(h, batch.rows) /\ HelperFits(h, batch.aux, next_version - 1)
      /\ (batch_end = 0 => batch.errors = {})
  BY <1>1 DEF ObjectsInv
<1> QED BY <1>1, <1>2, <1>5, <1>6, <1>7, <1>8, <1>9 DEF ObjectsInv

LEMMA ObjectsCrash ==
    ASSUME ProcessorsWired, processor = "objects", TablesInv, ObjectsInv, Crash
    PROVE  ObjectsInv'
<1>1. PICK h, W : h = chain /\ W = Due(chain, Logged)
  OBVIOUS
<1>2. /\ batch' = FirstBatch("objects", db) /\ queue' = <<>> /\ errors' = errors \cup batch.errors
      /\ UNCHANGED <<processor, chain, db>>
  BY DEF Crash
<1>3. /\ ObjectsFit(h, batch'.rows) /\ HelperFits(h, batch'.aux, next_version' - 1)
      /\ batch'.errors = {}
  BY <1>2, ObjectsStart DEF TablesInv
<1>4. CoverInv(W, ObjectKeys)'
  BY <1>1, TablesExtent, CoverCrash DEF ObjectsInv
<1>5. Due(chain, Logged)' = W
  BY <1>1, <1>2, <1>3 DEF Logged
<1>6. ObjectsFit(h, db)
  BY <1>1 DEF ObjectsInv
<1>7. Len(queue') = 0
  BY <1>2
<1> QED BY <1>1, <1>2, <1>3, <1>4, <1>5, <1>6, <1>7 DEF ObjectsInv

LEMMA ObjectsInit ==
    ASSUME ProcessorsWired, DataChains, processor = "objects", Init
    PROVE  ObjectsInv
<1>1. /\ db = NoRows /\ batch = FirstBatch("objects", NoRows) /\ queue = <<>> /\ committed = {}
      /\ batch_start = 0 /\ batch_end = 0 /\ checkpoint = 0 /\ next_version = 1
      /\ "objects" \in Processors
  BY DEF Init
<1>2. /\ ObjectsFit(chain, batch.rows) /\ HelperFits(chain, batch.aux, next_version - 1)
      /\ batch.errors = {}
  BY <1>1, ObjectsStart
<1>3. ObjectsFit(chain, db)
  <2>1. DOMAIN db = {}
    BY <1>1 DEF NoRows
  <2> QED BY <2>1 DEF ObjectsFit
<1>4. PICK W : W = Due(chain, Logged)
  OBVIOUS
<1>5. CoverInv(W, ObjectKeys)
  <2>1. \A v \in 1 .. 0 : FALSE
    OBVIOUS
  <2>2. Start - 1 = 0 /\ Len(queue) = 0
    BY <1>1 DEF Start
  <2> QED BY <1>1, <2>1, <2>2 DEF CoverInv, OnItsWay
<1>6. Len(queue) = 0
  BY <1>1
<1> QED BY <1>2, <1>3, <1>4, <1>5, <1>6 DEF ObjectsInv

LEMMA ObjectsNext ==
    ASSUME ProcessorsWired, ObjectsChains, processor = "objects", TablesInv, ObjectsInv,
           [Next]_vars
    PROVE  ObjectsInv'
<1>1. CASE UNCHANGED vars
  <2>1. Due(chain, Logged)' = Due(chain, Logged) /\ Start' = Start
    BY <1>1 DEF vars, Logged, Start
  <2>2. CoverInv(Due(chain, Logged), ObjectKeys)'
    BY <1>1, <2>1 DEF ObjectsInv, CoverInv, vars
  <2> QED BY <1>1, <2>2 DEF ObjectsInv, vars
<1>2. CASE Terminated
  BY <1>1, <1>2 DEF Terminated
<1>3. ASSUME NEW s, CommitStatement(s) PROVE ObjectsInv'
  BY <1>3, ObjectsCommit
<1> QED BY <1>1, <1>2, <1>3, ObjectsExtract, ObjectsSend, ObjectsFinish, ObjectsCrash DEF Next

\* Once all is stored, every row that is due is in current_objects.
LEMMA DueStored ==
    ASSUME TablesInv, ObjectsInv, Quiet, NEW v \in 1 .. Len(chain),
           NEW k \in MustWrite(chain, v, errors)
    PROVE  Has(db, k, v)
<1>1. PICK W : W = Due(chain, Logged)
  OBVIOUS
<1>2. CoverInv(W, ObjectKeys) /\ Logged = errors
  BY <1>1 DEF ObjectsInv, Quiet, Logged
<1>3. k \in ObjectKeys /\ k \in DOMAIN W[v]
  BY <1>1, <1>2, DueFact DEF MustWrite, ObjectKeys
<1>4. Len(chain) \in Nat /\ next_version \in Nat
  BY DEF TablesInv, IInv, BoundsInv
<1>5. Len(queue) = 0 /\ Start = next_version /\ next_version > Len(chain)
  BY DEF Quiet, Start
<1>6. v \in 1 .. Start - 1
  BY <1>4, <1>5
<1>7. OnItsWay(db, queue, 0, W, ObjectKeys, 1 .. Start - 1)
  BY <1>2, <1>5 DEF CoverInv
<1>8. \A j \in 1 .. 0 : FALSE
  OBVIOUS
<1> QED BY <1>3, <1>6, <1>7, <1>8 DEF OnItsWay

\* The last version in a set, 0 if there is none.
IsLast(n, S) == IF S = {} THEN n = 0 ELSE n \in S /\ \A w \in S : w <= n

LEMMA LastIsLast ==
    ASSUME NEW N \in Nat, NEW S \in SUBSET (1 .. N)
    PROVE  IsLast(LastOf(S), S) /\ LastOf(S) \in 0 .. N
<1>1. CASE S = {}
  BY <1>1 DEF LastOf, IsLast
<1>2. CASE S # {}
  <2>1. LastOf(S) \in S /\ \A w \in S : w <= LastOf(S)
    BY <1>2, LastOfFact
  <2>2. LastOf(S) \in 1 .. N
    BY <2>1
  <2>3. LastOf(S) \in 0 .. N
    BY <2>2
  <2> QED BY <1>2, <2>1, <2>3 DEF IsLast
<1> QED BY <1>1, <1>2

\* The versions of an object's changes.
Cored(a) == {v \in Versions : CoredAt(chain, v, a)}

Deleted(a) == {v \in Versions : DeletedAt(chain, v, a)}

Touched(a) == {v \in Versions : TouchedAt(chain, v, a)}

LEMMA ObjectLives ==
    ASSUME TablesInv, ObjectsInv, Quiet, NEW a \in Objects, NEW created \in Nat, NEW deleted \in Nat,
           NEW touched \in Nat, IsLast(created, Cored(a)), IsLast(deleted, Deleted(a)),
           IsLast(touched, Touched(a)), created > deleted
    PROVE  /\ ObjKey(a) \in DOMAIN db /\ ~db[ObjKey(a)].is_deleted
           /\ db[ObjKey(a)].owner = LastCore(chain[created], a).owner
           /\ db[ObjKey(a)].v \in created .. touched
<1>1. PICK k, h, row : k = ObjKey(a) /\ h = chain /\ row = db[k]
  OBVIOUS
<1>2. Len(h) \in Nat /\ Versions = 1 .. Len(h)
  BY <1>1 DEF TablesInv, BoundsInv, Versions
<1>3. /\ created \in 1 .. Len(h) /\ CoredAt(h, created, a)
      /\ \A w \in 1 .. Len(h) : CoredAt(h, w, a) => w <= created
  BY <1>1, <1>2 DEF IsLast, Cored
<1>4. \A w \in 1 .. Len(h) : DeletedAt(h, w, a) => w <= deleted
  BY <1>1, <1>2 DEF IsLast, Deleted
<1>5. \A w \in 1 .. Len(h) : TouchedAt(h, w, a) => w <= touched
  BY <1>1, <1>2 DEF IsLast, Touched
<1>6. k \in DOMAIN db /\ created <= row.v
  <2>1. k \in MustWrite(h, created, errors)
    BY <1>1, <1>3 DEF MustWrite
  <2> QED BY <1>1, <1>3, <2>1, DueStored DEF Has
<1>7. IsObjectRow(h, a, row)
  BY <1>1, <1>6 DEF ObjectsInv, ObjectsFit
<1>8. row.v \in 1 .. Len(h) /\ TouchedAt(h, row.v, a)
  BY <1>7 DEF IsObjectRow
<1>9. ~DeletedAt(h, row.v, a)
  BY <1>2, <1>3, <1>4, <1>6, <1>8
<1>10. row.is_deleted = FALSE /\ OwnedAt(h, row.v, a, row.owner)
  BY <1>7, <1>9 DEF IsObjectRow
<1>11. IsLastCored(h, created, row.v, a)
  <2>1. created \in 1 .. row.v /\ \A x \in 1 .. row.v : x \in 1 .. Len(h)
    BY <1>2, <1>3, <1>6, <1>8
  <2> QED BY <1>3, <2>1 DEF IsLastCored
<1>12. row.owner = LastCore(h[created], a).owner
  BY <1>10, <1>11 DEF OwnedAt
<1>13. row.v \in created .. touched
  BY <1>2, <1>3, <1>5, <1>6, <1>8
<1> QED BY <1>1, <1>6, <1>10, <1>12, <1>13

LEMMA ObjectGone ==
    ASSUME ObjectsChains, processor = "objects", TablesInv, ObjectsInv, Quiet, NEW a \in Objects,
           NEW created \in Nat, NEW deleted \in Nat,
           IsLast(created, Cored(a)), IsLast(deleted, Deleted(a)),
           deleted > created, deleted \notin errors
    PROVE  ObjKey(a) \in DOMAIN db /\ db[ObjKey(a)].is_deleted /\ db[ObjKey(a)].v = deleted
<1>1. PICK k, h, row : k = ObjKey(a) /\ h = chain /\ row = db[k]
  OBVIOUS
<1>2. Len(h) \in Nat /\ Versions = 1 .. Len(h)
  BY <1>1 DEF TablesInv, BoundsInv, Versions
<1>3. \A w \in 1 .. Len(h) : CoredAt(h, w, a) => w <= created
  BY <1>1, <1>2 DEF IsLast, Cored
<1>4. /\ deleted \in 1 .. Len(h) /\ DeletedAt(h, deleted, a)
      /\ \A w \in 1 .. Len(h) : DeletedAt(h, w, a) => w <= deleted
  BY <1>1, <1>2 DEF IsLast, Deleted
<1>5. k \in DOMAIN db /\ deleted <= row.v
  <2>1. k \in MustWrite(h, deleted, errors)
    BY <1>1, <1>4 DEF MustWrite
  <2> QED BY <1>1, <1>4, <2>1, DueStored DEF Has
<1>6. IsObjectRow(h, a, row)
  BY <1>1, <1>5 DEF ObjectsInv, ObjectsFit
<1>7. row.v \in 1 .. Len(h) /\ TouchedAt(h, row.v, a)
  BY <1>6 DEF IsObjectRow
<1>8. row.v = deleted
  <2>1. SUFFICES ASSUME row.v > deleted PROVE FALSE
    BY <1>4, <1>5, <1>7
  <2>2. ~DeletedAt(h, row.v, a)
    BY <1>4, <1>7, <2>1
  <2>3. PICK i \in DOMAIN h[row.v] : h[row.v][i].addr = a
    BY <1>7 DEF TouchedAt
  <2>4. ObjectsHistory(h) /\ DOMAIN h = 1 .. Len(h)
    BY <1>1 DEF ObjectsChains, IsObjectHistory, TablesInv
  <2>5. PICK w \in 1 .. row.v : CoredAt(h, w, a) /\ \A x \in w .. row.v : ~DeletedAt(h, x, a)
    BY <1>7, <2>2, <2>3, <2>4 DEF ObjectsHistory
  <2>6. w <= created
    BY <1>2, <1>3, <1>7, <2>5
  <2>7. deleted \in w .. row.v
    BY <1>4, <1>7, <2>1, <2>5, <2>6
  <2> QED BY <1>4, <2>5, <2>7
<1>9. row.is_deleted = TRUE
  BY <1>4, <1>6, <1>8 DEF IsObjectRow
<1> QED BY <1>1, <1>5, <1>8, <1>9

LEMMA ObjectsQuiet ==
    ASSUME ObjectsChains, processor = "objects", TablesInv, ObjectsInv
    PROVE  ObjectTablesCorrect
<1>1. Len(chain) \in Nat /\ Versions = 1 .. Len(chain)
  BY DEF TablesInv, BoundsInv, Versions
<1>2. ASSUME Quiet, NEW a \in Objects
      PROVE  LET created == LastOf(VersionsWith(LAMBDA c : CoreOf(c, a)))
                 deleted == LastOf(VersionsWith(LAMBDA c : DeletionOf(c, a)))
                 touched == LastOf(VersionsWith(LAMBDA c : AnyChangeOf(c, a)))
                 k == <<"current_objects", a>>
             IN /\ created > deleted =>
                     /\ k \in DOMAIN db
                     /\ ~db[k].is_deleted
                     /\ db[k].owner = LastIn(chain[created], LAMBDA c : CoreOf(c, a)).owner
                     /\ db[k].v \in created .. touched
                /\ deleted > created /\ deleted \notin errors =>
                     /\ k \in DOMAIN db
                     /\ db[k].is_deleted /\ db[k].v = deleted
  <2>1. PICK created, deleted, touched :
          /\ created = LastOf(Cored(a)) /\ deleted = LastOf(Deleted(a)) /\ touched = LastOf(Touched(a))
    OBVIOUS
  <2>2. /\ Cored(a) \in SUBSET (1 .. Len(chain)) /\ Deleted(a) \in SUBSET (1 .. Len(chain))
        /\ Touched(a) \in SUBSET (1 .. Len(chain))
    BY <1>1 DEF Cored, Deleted, Touched
  <2>3. /\ IsLast(created, Cored(a)) /\ IsLast(deleted, Deleted(a)) /\ IsLast(touched, Touched(a))
        /\ created \in Nat /\ deleted \in Nat /\ touched \in Nat
    BY <1>1, <2>1, <2>2, LastIsLast
  <2>4. VersionsWith(LAMBDA c : CoreOf(c, a)) = Cored(a)
    BY DEF VersionsWith, Cored, CoredAt
  <2>5. VersionsWith(LAMBDA c : DeletionOf(c, a)) = Deleted(a)
    BY DEF VersionsWith, Deleted, DeletedAt
  <2>6. VersionsWith(LAMBDA c : AnyChangeOf(c, a)) = Touched(a)
    BY DEF VersionsWith, Touched, TouchedAt, AnyChangeOf
  <2>7. created > deleted =>
          /\ ObjKey(a) \in DOMAIN db
          /\ ~db[ObjKey(a)].is_deleted
          /\ db[ObjKey(a)].owner = LastIn(chain[created], LAMBDA c : CoreOf(c, a)).owner
          /\ db[ObjKey(a)].v \in created .. touched
    BY <1>2, <2>3, ObjectLives DEF LastCore
  <2>8. deleted > created /\ deleted \notin errors =>
          ObjKey(a) \in DOMAIN db /\ db[ObjKey(a)].is_deleted /\ db[ObjKey(a)].v = deleted
    BY <1>2, <2>3, ObjectGone
  <2> QED BY <2>1, <2>4, <2>5, <2>6, <2>7, <2>8 DEF ObjKey
<1>3. ObjectsFollowChain
  BY <1>2 DEF ObjectsFollowChain
<1>4. ASSUME NEW k \in DOMAIN db, k[1] = "current_objects"
      PROVE  VersionsWith(LAMBDA c : CoreOf(c, k[2]) /\ c.owner = db[k].owner) # {}
  <2>1. PICK a \in Objects : k = ObjKey(a)
    BY <1>4 DEF ObjectsInv, ObjectsFit, ObjectKeys
  <2>2. k[2] = a
    BY <2>1 DEF ObjKey
  <2>3. HadOwner(chain, a, db[k].owner)
    BY <2>1 DEF ObjectsInv, ObjectsFit, IsObjectRow
  <2> QED BY <1>1, <2>2, <2>3 DEF HadOwner, VersionsWith
<1>5. DeletedOwnerIsReal
  BY <1>4 DEF DeletedOwnerIsReal
<1> QED BY <1>3, <1>5 DEF ObjectTablesCorrect

\* Whenever the objects processor has stored all of the chain, current_objects shows the
\* owner of each living object and each deleted object as deleted, unless the deletion's
\* error is in the log; and at any time the owner of a deleted object is one it had.
\* This holds although from_delete_resource takes that owner from a row that the batch,
\* or the database at the moment of the lookup, happens to have: for every chain that
\* deletes objects alone and changes only living ones, however it is cut into batches,
\* and through crashes and replays.
THEOREM ObjectsAreCorrect ==
    ASSUME ProcessorsWired, DataChains, ObjectsChains
    PROVE  Spec => []ObjectTablesCorrect
<1> DEFINE Inv == TablesInv /\ (processor = "objects" => ObjectsInv)
<1>1. Init => Inv
  BY TablesInit, ObjectsInit
<1>2. Inv /\ [Next]_vars => Inv'
  <2> SUFFICES ASSUME Inv, [Next]_vars PROVE Inv'
    OBVIOUS
  <2>1. processor' = processor
    BY DEF Next, ExtractTransaction, SendBatch, CommitStatement, FinishBatch, Crash, Terminated, vars
  <2>2. TablesInv'
    BY TablesNext
  <2>3. CASE processor = "objects"
    BY <2>2, <2>3, ObjectsNext
  <2>4. CASE processor # "objects"
    BY <2>1, <2>2, <2>4
  <2> QED BY <2>3, <2>4
<1>3. Inv => ObjectTablesCorrect
  <2>1. CASE processor = "objects"
    BY <2>1, ObjectsQuiet
  <2>2. CASE processor # "objects"
    BY <2>2 DEF ObjectTablesCorrect, ObjectsFollowChain, DeletedOwnerIsReal
  <2> QED BY <2>1, <2>2
<1> QED BY <1>1, <1>2, <1>3, PTL DEF Spec
==============================================================================
