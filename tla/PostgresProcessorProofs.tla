----------------------- MODULE PostgresProcessorProofs -----------------------
(***************************************************************************)
(* Proofs about PostgresProcessor for every number of instances, tables,   *)
(* keys and versions: its type invariant, that the saved checkpoint never  *)
(* runs ahead of the data, that neither the checkpoint nor a current row   *)
(* moves backwards, that it implements CheckpointedIndex, and what a row   *)
(* of backfill_processor_status says of its backfill.                      *)
(***************************************************************************)
EXTENDS PostgresProcessor, ProcessorStatusProofs, SequenceTheorems

------------------------------------------------------------------------------
(***************************************************************************)
(* Facts about the model's operators                                       *)
(***************************************************************************)

\* Versions are natural numbers.
LEMMA VersionsAreNat == Versions \subseteq Nat
  BY PostgresAssumption DEF Versions

\* Saving a version of the chain leaves a version of the chain in the row, the
\* row's own or the saved one, and never a smaller one than the row had.
LEMMA StatusRowFact ==
    ASSUME NEW row \in Versions \cup {None}, NEW v \in Versions
    PROVE  /\ SavedStatus(row, v) \in Versions
           /\ SavedStatus(row, v) \in {row, v}
           /\ row # None => row <= SavedStatus(row, v)
<1>1. row \in OptionalVersion /\ v \in Nat
  BY VersionsAreNat DEF OptionalVersion
<1> QED BY <1>1, SavedStatusFact, NoneAssumption

\* The upsert of a current row keeps the greater version.
LEMMA UpsertCurrentFact ==
    ASSUME NEW c \in Versions \cup {-1}, NEW v \in Versions
    PROVE  /\ UpsertCurrent(c, v) \in Versions
           /\ c <= UpsertCurrent(c, v) /\ v <= UpsertCurrent(c, v)
  BY PostgresAssumption DEF UpsertCurrent, Versions

\* The rows of a batch are rows of the model.
LEMMA RowsOfType ==
    ASSUME NEW b \in Batch
    PROVE  RowsOf(b) \subseteq Rows /\ InBatch(b) \subseteq Versions
<1>1. InBatch(b) \subseteq Versions
  BY PostgresAssumption DEF Batch, InBatch, Versions
<1> QED BY <1>1 DEF RowsOf, Rows, Tables, LatestPerKey

------------------------------------------------------------------------------
(***************************************************************************)
(* Type invariant                                                          *)
(***************************************************************************)
\* The initial state is well formed.
LEMMA TypeOKInit == Init => TypeOK
  BY PostgresAssumption DEF Init, TypeOK, Versions, OptionalVersion

\* A start keeps the shapes: get_starting_version reads and writes well-formed
\* rows in every mode.
LEMMA TypeOKGetStartingVersion ==
    ASSUME TypeOK, NEW i \in Instances, GetStartingVersion(i)
    PROVE  TypeOK'
<1>1. PICK m \in Modes[i] :
         LET row == IF m.type = "backfill"
                    THEN backfill_processor_status[m.backfill_id] ELSE None
             start == StartingVersion(m, processor_status, row)
         IN /\ start # None
            /\ mode' = [mode EXCEPT ![i] = m]
            /\ starting_version' = [starting_version EXCEPT ![i] = start]
            /\ next_version' = [next_version EXCEPT ![i] = start]
            /\ backfill_processor_status' =
                 IF m.type = "backfill"
                 THEN [backfill_processor_status EXCEPT ![m.backfill_id] =
                          RestartedBackfill(@, m, processor_status)]
                 ELSE backfill_processor_status
  BY DEF GetStartingVersion
<1> DEFINE row == IF m.type = "backfill"
                  THEN backfill_processor_status[m.backfill_id] ELSE None
           start == StartingVersion(m, processor_status, row)
<1>2. m \in ProcessorMode /\ Modes[i] \subseteq ProcessorMode
  BY PostgresAssumption
<1>3. m.type = "backfill" => m.backfill_id \in BackfillIds
  BY <1>2 DEF ProcessorMode, BootStrapConfig, BackfillConfig, TestingConfig
<1>4. row \in BackfillRow \cup {None} /\ processor_status \in OptionalVersion
  BY <1>3, VersionsAreNat DEF TypeOK, OptionalVersion
<1>5. start \in Nat
  <2>1. start # None
    BY <1>1
  <2> HIDE DEF row
  <2>2. row = None \/ row.last_success_version \in Nat
    BY <1>4 DEF BackfillRow
  <2> QED BY <1>2, <1>4, <2>1, <2>2, StartingVersionType
<1>6. backfill_processor_status' \in [BackfillIds -> BackfillRow \cup {None}]
  <2>1. CASE m.type = "backfill"
    <3>1. RestartedBackfill(row, m, processor_status) \in BackfillRow \cup {None}
      <4> HIDE DEF row
      <4> QED BY <1>2, <1>4, <2>1, RestartedBackfillType
    <3>2. row = backfill_processor_status[m.backfill_id]
      BY <2>1
    <3>3. backfill_processor_status' = [backfill_processor_status EXCEPT ![m.backfill_id] =
             RestartedBackfill(row, m, processor_status)]
      BY <1>1, <2>1
    <3> HIDE DEF row
    <3> QED BY <3>1, <3>3, <1>3, <2>1 DEF TypeOK
  <2>2. CASE m.type # "backfill"
    BY <2>2, <1>1 DEF TypeOK
  <2> QED BY <2>1, <2>2
<1>7. /\ starting_version' = [starting_version EXCEPT ![i] = start]
      /\ next_version' = [next_version EXCEPT ![i] = start]
      /\ mode' = [mode EXCEPT ![i] = m]
  BY <1>1
<1> HIDE DEF start
<1>8. starting_version' \in [Instances -> Nat] /\ next_version' \in [Instances -> Nat]
  BY <1>5, <1>7 DEF TypeOK
<1>9. /\ mode' \in [Instances -> ProcessorMode \cup {None}]
      /\ \A j \in Instances : phase'[j] # "down" => mode'[j] \in Modes[j]
  BY <1>2, <1>7 DEF TypeOK, GetStartingVersion
<1>10. starts' \in [Instances -> 0 .. MaxStarts]
  BY PostgresAssumption DEF TypeOK, GetStartingVersion
<1> QED BY <1>6, <1>8, <1>9, <1>10 DEF TypeOK, GetStartingVersion, tables

\* Every other action preserves the type invariant.
LEMMA TypeOKOther ==
    ASSUME TypeOK, NEW i \in Instances, Step(i) \/ Crash(i)
    PROVE  TypeOK'
<1> USE DEF TypeOK
<1>1. CASE GetEndVersion(i)
  <2>1. mode[i] \in ProcessorMode /\ mode[i] \in Modes[i]
    BY <1>1, PostgresAssumption DEF GetEndVersion
  <2>2. EndVersion(mode[i], processor_status) \in OptionalVersion
    BY <2>1, EndVersionType, VersionsAreNat DEF OptionalVersion
  <2> QED BY <1>1, <2>1, <2>2 DEF GetEndVersion, status, tables, steps
<1>2. CASE Stream(i)
  <2>1. PICK e \in Versions :
           /\ next_version[i] <= e /\ e <= LastRequested(i)
           /\ to_storer' = [to_storer EXCEPT ![i] =
                 Append(@, [start_version |-> next_version[i], end_version |-> e])]
           /\ next_version' = [next_version EXCEPT ![i] = e + 1]
    BY <1>2 DEF Stream
  <2>2. [start_version |-> next_version[i], end_version |-> e] \in Batch
    BY <2>1, PostgresAssumption DEF Batch, Versions
  <2>3. to_storer' \in [Instances -> Seq(Batch)]
    BY <2>1, <2>2
  <2>4. next_version' \in [Instances -> Nat]
    BY <2>1, PostgresAssumption DEF Versions
  <2> QED BY <1>2, <2>3, <2>4 DEF Stream, status, tables, request
<1>3. CASE BeginStore(i)
  <2>1. Head(to_storer[i]) \in Batch /\ Tail(to_storer[i]) \in Seq(Batch)
    BY <1>3 DEF BeginStore
  <2>2. RowsOf(Head(to_storer[i])) \subseteq Rows
    BY <2>1, RowsOfType
  <2>3. Head(to_storer[i]) # None
    BY <2>1, PostgresAssumption
  <2> QED BY <1>3, <2>1, <2>2, <2>3 DEF BeginStore, status, tables, request
<1>4. ASSUME NEW row \in Rows, StoreRow(i, row) PROVE TypeOK'
  <2> DEFINE t == row[1]  v == row[2]
  <2>1. t \in Tables /\ v \in Versions
    BY <1>4 DEF Rows
  <2>2. current' \in [Keys -> Versions \cup {-1}]
    <3>1. CASE t = CurrentTable
      <4>1. KeyOf[v] \in Keys
        BY <2>1 DEF Keys
      <4>2. UpsertCurrent(current[KeyOf[v]], v) \in Versions
        BY <2>1, <4>1, UpsertCurrentFact
      <4> QED BY <1>4, <3>1, <4>1, <4>2 DEF StoreRow
    <3>2. CASE t # CurrentTable
      BY <1>4, <3>2 DEF StoreRow
    <3> QED BY <3>1, <3>2
  <2>3. history' \in [HistoryTables -> SUBSET Versions]
    <3>1. CASE t = CurrentTable
      BY <1>4, <3>1 DEF StoreRow
    <3>2. CASE t # CurrentTable
      <4>1. history' = [history EXCEPT ![t] = @ \cup {v}]
        BY <1>4, <3>2 DEF StoreRow
      <4> HIDE DEF t, v
      <4> QED BY <2>1, <4>1
    <3> QED BY <3>1, <3>2
  <2> QED BY <1>4, <2>2, <2>3 DEF StoreRow, status, request
<1>5. CASE EndStore(i)
  <2>1. storing[i] \in Batch
    BY <1>5 DEF EndStore
  <2> QED BY <1>5, <2>1 DEF EndStore, status, tables, request
<1>6. CASE Track(i)
  <2>1. Head(to_tracker[i]) \in Batch /\ Tail(to_tracker[i]) \in Seq(Batch)
    BY <1>6 DEF Track
  <2>2. Head(to_tracker[i]).end_version \in Versions
    BY <2>1 DEF Batch
  <2> QED BY <1>6, <2>1, <2>2 DEF Track, status, tables, request
<1>7. ASSUME phase[i] = "running", SaveStatus(i)
      PROVE  /\ processor_status' \in Versions \cup {None}
             /\ backfill_processor_status' \in [BackfillIds -> BackfillRow \cup {None}]
  <2> DEFINE m == mode[i]  v == last_success_batch[i]
  <2>1. m \in ProcessorMode
    BY <1>7, PostgresAssumption
  <2>2. processor_status' \in Versions \cup {None}
    BY <1>7, StatusRowFact DEF SaveStatus
  <2>3. CASE v # None /\ m.type = "backfill"
    <3>1. m.backfill_id \in BackfillIds
      BY <2>1, <2>3 DEF ProcessorMode, BootStrapConfig, BackfillConfig, TestingConfig
    <3>2. v \in Nat
      BY <2>3, PostgresAssumption DEF Versions
    <3>3. SavedBackfill(backfill_processor_status[m.backfill_id], m, v)
             \in BackfillRow \cup {None}
      BY <2>1, <2>3, <3>1, <3>2, SavedBackfillType
    <3> QED BY <1>7, <2>2, <2>3, <3>1, <3>3 DEF SaveStatus
  <2>4. CASE ~(v # None /\ m.type = "backfill")
    BY <1>7, <2>2, <2>4 DEF SaveStatus
  <2> QED BY <2>3, <2>4
<1>8. CASE Poll(i)
  BY <1>8, <1>7 DEF Poll, tables, request, steps
<1>9. CASE Finish(i)
  BY <1>9, <1>7 DEF Finish, tables, request, steps
<1>10. CASE Crash(i)
  BY <1>10 DEF Crash, status, tables, OptionalVersion
<1> QED BY <1>1, <1>2, <1>3, <1>4, <1>5, <1>6, <1>8, <1>9, <1>10 DEF Step

\* The shapes the code gives to its rows, requests, channels and buffers hold
\* in every reachable state.
THEOREM TypeCorrect == Spec => []TypeOK
<1>1. TypeOK /\ [Next]_vars => TypeOK'
  <2>1. CASE UNCHANGED vars
    BY <2>1 DEF TypeOK, vars, tables, status, request, steps
  <2>2. CASE Next
    BY <2>2, TypeOKGetStartingVersion, TypeOKOther DEF Next
  <2> QED BY <2>1, <2>2
<1> QED BY TypeOKInit, <1>1, PTL DEF Spec

------------------------------------------------------------------------------
(***************************************************************************)
(* What is stored stays stored                                             *)
(***************************************************************************)
TablesGrow ==
    /\ \A t \in HistoryTables : history[t] \subseteq history'[t]
    /\ \A k \in Keys : current[k] <= current'[k]

\* No step of any instance removes a history row or moves a current row back:
\* the WHERE clause of the upsert is what keeps an older batch from doing so.
LEMMA TablesOnlyGrow ==
    ASSUME TypeOK, [Next]_vars
    PROVE  TablesGrow
<1> USE DEF TypeOK
<1>1. ASSUME UNCHANGED tables PROVE TablesGrow
  BY <1>1, PostgresAssumption DEF tables, TablesGrow, Versions
<1>2. ASSUME NEW i \in Instances, NEW row \in Rows, StoreRow(i, row) PROVE TablesGrow
  <2> DEFINE t == row[1]  v == row[2]
  <2>1. t \in Tables /\ v \in Versions /\ KeyOf[v] \in Keys
    BY <1>2 DEF Rows, Keys
  <2>2. CASE t = CurrentTable
    <3>1. /\ current' = [current EXCEPT ![KeyOf[v]] = UpsertCurrent(current[KeyOf[v]], v)]
          /\ UNCHANGED history
      BY <1>2, <2>2 DEF StoreRow
    <3>2. current[KeyOf[v]] <= UpsertCurrent(current[KeyOf[v]], v)
      BY <2>1, UpsertCurrentFact
    <3>3. \A k \in Keys : current[k] \in Int
      BY PostgresAssumption DEF Versions
    <3> HIDE DEF t, v
    <3> QED BY <2>1, <3>1, <3>2, <3>3 DEF TablesGrow
  <2>3. CASE t # CurrentTable
    <3>1. history' = [history EXCEPT ![t] = @ \cup {v}] /\ UNCHANGED current
      BY <1>2, <2>3 DEF StoreRow
    <3>2. \A k \in Keys : current[k] \in Int
      BY PostgresAssumption DEF Versions
    <3> HIDE DEF t, v
    <3> QED BY <3>1, <3>2 DEF TablesGrow
  <2> QED BY <2>2, <2>3
<1>3. ASSUME NEW i \in Instances,
             GetStartingVersion(i) \/ Step(i) \/ Crash(i)
      PROVE  UNCHANGED tables \/ \E row \in Rows : StoreRow(i, row)
  BY <1>3 DEF GetStartingVersion, Step, Crash, GetEndVersion, Stream, BeginStore,
              EndStore, Track, Poll, Finish
<1> QED BY <1>1, <1>2, <1>3 DEF Next, vars

\* Durable versions stay durable.
LEMMA DurableStable ==
    ASSUME TypeOK, TablesGrow, TypeOK', NEW v \in Versions, Durable(v)
    PROVE  Durable(v)'
<1>1. KeyOf[v] \in Keys /\ v \in Int
  BY PostgresAssumption DEF Keys, Versions
<1>2. current[KeyOf[v]] \in Int /\ current'[KeyOf[v]] \in Int
  BY <1>1, PostgresAssumption DEF TypeOK, Versions
<1>3. current'[KeyOf[v]] >= v
  BY <1>1, <1>2 DEF TablesGrow, Durable
<1> QED BY <1>3 DEF TablesGrow, Durable

\* last_transaction_version of a current row never decreases.
THEOREM CurrentRowsNeverRegress == Spec => CurrentNeverRegresses
<1>1. TypeOK /\ TypeOK' /\ [Next]_vars => [\A k \in Keys : current'[k] >= current[k]]_current
  <2> SUFFICES ASSUME TypeOK, TypeOK', [Next]_vars, NEW k \in Keys
               PROVE  current'[k] >= current[k]
    OBVIOUS
  <2>1. current[k] <= current'[k]
    BY TablesOnlyGrow DEF TablesGrow
  <2>2. current[k] \in Int /\ current'[k] \in Int
    BY PostgresAssumption DEF TypeOK, Versions
  <2> QED BY <2>1, <2>2
<1> QED BY TypeCorrect, <1>1, PTL DEF Spec, CurrentNeverRegresses

------------------------------------------------------------------------------
(***************************************************************************)
(* A committed batch is durable                                            *)
(***************************************************************************)

\* A nonempty set of versions has a greatest element.
LEMMA GreatestVersion ==
    ASSUME NEW S \in SUBSET Versions, S # {}
    PROVE  \E m \in S : \A x \in S : x <= m
<1> DEFINE Above(m) == {x \in S : x > m}
           T == {Above(m) : m \in S}
           R == StrictSubsetOrdering(S)
<1>1. FiniteSubsetsOf(S) = SUBSET S
  <2>1. IsFiniteSet(Versions)
    BY FS_Interval, PostgresAssumption DEF Versions
  <2>2. IsFiniteSet(S)
    BY <2>1, FS_Subset
  <2> QED BY <2>2, FS_FiniteSubsetsOfFinite
<1>2. IsWellFoundedOn(R, SUBSET S)
  BY <1>1, FS_StrictSubsetOrderingWellFounded
<1>3. T \subseteq SUBSET S /\ T # {}
  OBVIOUS
<1>4. PICK U \in T : \A V \in T : ~(<<V, U>> \in R)
  <2> HIDE DEF R, T
  <2>1. ASSUME NEW D, D = SUBSET S
        PROVE  \E U \in T : \A V \in T : ~(<<V, U>> \in R)
    <3>1. IsWellFoundedOn(R, D) /\ T \subseteq D
      BY <2>1, <1>2, <1>3
    <3> HIDE <2>1
    <3> QED BY <3>1, <1>3, WFMin
  <2> QED BY <2>1
<1>5. PICK m \in S : U = Above(m)
  BY <1>4
<1>6. \A x \in S : x \in Int
  BY PostgresAssumption DEF Versions
<1>7. ASSUME NEW x \in S, x > m PROVE FALSE
  <2>1. \A y \in S : y > x => y > m
    BY <1>6, <1>7
  <2>2. ~(x > x)
    BY <1>6
  <2>3. Above(x) \subseteq Above(m)
    BY <2>1
  <2>4. x \in Above(m) /\ x \notin Above(x)
    BY <2>2, <1>7
  <2>5. <<Above(x), U>> \in R
    BY <2>3, <2>4, <1>3, <1>4, <1>5 DEF StrictSubsetOrdering
  <2> QED BY <1>4, <2>5
<1>8. \A x \in S : x <= m
  BY <1>6, <1>7
<1> QED BY <1>8

Stored(row) ==
    IF row[1] = CurrentTable THEN current[KeyOf[row[2]]] >= row[2]
    ELSE row[2] \in history[row[1]]

\* Once all rows of a batch are stored every version of it is durable, although
\* a current table gets only the last row per key.
LEMMA BatchDurable ==
    ASSUME TypeOK, NEW b \in Batch, \A row \in RowsOf(b) : Stored(row),
           NEW v \in InBatch(b)
    PROVE  Durable(v)
<1>1. InBatch(b) \subseteq Versions
  BY RowsOfType
<1>2. ASSUME NEW t \in HistoryTables PROVE v \in history[t]
  <2>1. <<t, v>> \in RowsOf(b)
    BY DEF RowsOf
  <2>2. t # CurrentTable
    BY PostgresAssumption
  <2> QED BY <2>1, <2>2 DEF Stored
<1>3. current[KeyOf[v]] >= v
  <2> DEFINE S == {w \in InBatch(b) : KeyOf[w] = KeyOf[v]}
  <2>1. S \in SUBSET Versions /\ v \in S
    BY <1>1
  <2>2. PICK m \in S : \A x \in S : x <= m
    <3> HIDE DEF S
    <3> QED BY <2>1, GreatestVersion
  <2>3. m \in LatestPerKey(b)
    BY <2>2 DEF LatestPerKey
  <2>4. <<CurrentTable, m>> \in RowsOf(b)
    BY <2>3 DEF RowsOf
  <2>5. current[KeyOf[m]] >= m
    BY <2>4 DEF Stored
  <2>6. KeyOf[m] = KeyOf[v] /\ v <= m
    BY <2>1, <2>2
  <2>7. m \in Int /\ v \in Int
    BY <1>1, PostgresAssumption DEF Versions
  <2>8. current[KeyOf[v]] \in Int
    <3>1. KeyOf[v] \in Keys
      BY <1>1 DEF Keys
    <3> QED BY <3>1, PostgresAssumption DEF TypeOK, Versions
  <2> QED BY <2>5, <2>6, <2>7, <2>8
<1> QED BY <1>2, <1>3 DEF Durable

------------------------------------------------------------------------------
(***************************************************************************)
(* The inductive invariant behind CheckpointCovered.  The checkpoint alone *)
(* says nothing about where a save will get its version from, so it is     *)
(* strengthened by what each instance has in flight: its batches follow    *)
(* one another without a hole up to next_version (Chained); the rows of    *)
(* the batch in the storer are stored or pending (StoringInv); from where  *)
(* the instance started, every version before the first batch not yet      *)
(* committed, in front of the tracker and in the tracker is durable        *)
(* (IndexedInv); and in the default mode so is every version before that   *)
(* (StartInv).                                                             *)
(***************************************************************************)
CoveredFrom(start, n) ==
    \A v \in Versions : start <= v /\ v <= n => Durable(v)

CoveredTo(n) == CoveredFrom(InitialVersion, n)

\* The first version the storer has not received yet.
AfterStorer(i) ==
    IF to_storer[i] # <<>> THEN to_storer[i][1].start_version ELSE next_version[i]

\* The first version the storer has not committed yet.
Unstored(i) ==
    IF storing[i] # None THEN storing[i].start_version ELSE AfterStorer(i)

Chained(i) ==
    /\ \A k \in 1 .. Len(to_storer[i]) :
          to_storer[i][k].end_version + 1 =
             IF k < Len(to_storer[i]) THEN to_storer[i][k + 1].start_version
             ELSE next_version[i]
    /\ storing[i] # None => storing[i].end_version + 1 = AfterStorer(i)

QuietInv(i) ==
    phase[i] # "running" =>
        to_storer[i] = <<>> /\ storing[i] = None /\ to_tracker[i] = <<>>

StoringInv(i) ==
    storing[i] # None => \A row \in RowsOf(storing[i]) \ pending[i] : Stored(row)

IndexedInv(i) ==
    LET Indexed(n) == CoveredFrom(starting_version[i], n) IN
    /\ Indexed(Unstored(i) - 1)
    /\ \A k \in 1 .. Len(to_tracker[i]) : Indexed(to_tracker[i][k].end_version)
    /\ last_success_batch[i] # None => Indexed(last_success_batch[i])

StartInv(i) ==
    phase[i] \in {"starting", "running"} /\ mode[i].type = "default" =>
        CoveredTo(starting_version[i] - 1)

InstanceInv(i) ==
    Chained(i) /\ QuietInv(i) /\ StoringInv(i) /\ IndexedInv(i) /\ StartInv(i)

IInv == TypeOK /\ CheckpointCovered /\ \A i \in Instances : InstanceInv(i)

\* A covered range stays covered.
LEMMA CoveredStable ==
    ASSUME TypeOK, TypeOK', TablesGrow, NEW start, NEW n, CoveredFrom(start, n)
    PROVE  \A v \in Versions : start <= v /\ v <= n => Durable(v)'
  BY DurableStable DEF CoveredFrom

\* A stored row stays stored.
LEMMA StoredStable ==
    ASSUME TypeOK, TypeOK', TablesGrow, NEW row \in Rows, Stored(row)
    PROVE  Stored(row)'
<1>1. row[1] \in Tables /\ row[2] \in Versions /\ KeyOf[row[2]] \in Keys
  BY DEF Rows, Keys
<1>2. CASE row[1] = CurrentTable
  <2>1. /\ current[KeyOf[row[2]]] \in Int /\ current'[KeyOf[row[2]]] \in Int
        /\ row[2] \in Int
    BY <1>1, PostgresAssumption DEF TypeOK, Versions
  <2> QED BY <1>1, <1>2, <2>1 DEF Stored, TablesGrow
<1>3. CASE row[1] # CurrentTable
  BY <1>1, <1>3 DEF Stored, TablesGrow, Tables
<1> QED BY <1>2, <1>3

SameSteps(j) ==
    /\ next_version'[j] = next_version[j] /\ to_storer'[j] = to_storer[j]
    /\ storing'[j] = storing[j] /\ pending'[j] = pending[j]
    /\ to_tracker'[j] = to_tracker[j] /\ last_success_batch'[j] = last_success_batch[j]

SameRequest(j) == mode'[j] = mode[j] /\ starting_version'[j] = starting_version[j]

Same(j) ==
    phase'[j] = phase[j] /\ ending_version'[j] = ending_version[j] /\ SameRequest(j) /\ SameSteps(j)

\* An instance that neither stores nor tracks anything keeps what it has indexed.
LEMMA IndexedStable ==
    ASSUME TypeOK, TypeOK', TablesGrow, NEW i \in Instances, InstanceInv(i),
           SameRequest(i), Unstored(i)' = Unstored(i), to_tracker'[i] = to_tracker[i],
           last_success_batch'[i] = last_success_batch[i]
    PROVE  IndexedInv(i)'
<1> USE DEF SameRequest
<1>1. CoveredFrom(starting_version[i], Unstored(i) - 1)'
  BY CoveredStable DEF InstanceInv, IndexedInv, CoveredFrom
<1>2. ASSUME NEW k \in 1 .. Len(to_tracker[i])
      PROVE  CoveredFrom(starting_version[i], to_tracker[i][k].end_version)'
  BY CoveredStable DEF InstanceInv, IndexedInv, CoveredFrom
<1>3. last_success_batch[i] # None => CoveredFrom(starting_version[i], last_success_batch[i])'
  BY CoveredStable DEF InstanceInv, IndexedInv, CoveredFrom
<1> QED BY <1>1, <1>2, <1>3 DEF IndexedInv

\* What was indexed before the instance started stays durable.
LEMMA StartStable ==
    ASSUME TypeOK, TypeOK', TablesGrow, NEW i \in Instances, InstanceInv(i), SameRequest(i),
           phase'[i] \in {"starting", "running"} => phase[i] \in {"starting", "running"}
    PROVE  StartInv(i)'
  BY CoveredStable DEF InstanceInv, StartInv, CoveredTo, CoveredFrom, SameRequest

\* An instance that does not move keeps its part of the invariant.
LEMMA OthersKeep ==
    ASSUME TypeOK, TypeOK', TablesGrow, NEW j \in Instances, InstanceInv(j), Same(j)
    PROVE  InstanceInv(j)'
<1> USE DEF Same, SameSteps
<1>1. AfterStorer(j)' = AfterStorer(j) /\ Unstored(j)' = Unstored(j)
  BY DEF AfterStorer, Unstored
<1>2. Chained(j)'
  BY <1>1 DEF InstanceInv, Chained
<1>3. QuietInv(j)'
  BY DEF InstanceInv, QuietInv
<1>4. StoringInv(j)'
  <2> SUFFICES ASSUME storing[j] # None, NEW row \in RowsOf(storing[j]) \ pending[j]
               PROVE  Stored(row)'
    BY DEF StoringInv
  <2>1. storing[j] \in Batch
    BY DEF TypeOK
  <2>2. row \in Rows
    BY <2>1, RowsOfType
  <2> QED BY <2>2, StoredStable DEF InstanceInv, StoringInv
<1>5. IndexedInv(j)' /\ StartInv(j)'
  BY <1>1, IndexedStable, StartStable
<1> QED BY <1>2, <1>3, <1>4, <1>5 DEF InstanceInv

\* A step of one instance leaves the others where they are.
LEMMA StepFrame ==
    ASSUME TypeOK, NEW i \in Instances,
           GetStartingVersion(i) \/ Step(i) \/ Crash(i),
           NEW j \in Instances, j # i
    PROVE  Same(j)
<1> USE DEF Same, SameSteps, SameRequest, TypeOK, request, steps
<1>1. CASE GetStartingVersion(i)
  BY <1>1 DEF GetStartingVersion
<1>2. CASE GetEndVersion(i)
  BY <1>2 DEF GetEndVersion
<1>3. CASE Stream(i)
  BY <1>3 DEF Stream
<1>4. CASE BeginStore(i)
  BY <1>4 DEF BeginStore
<1>5. ASSUME NEW row \in Rows, StoreRow(i, row) PROVE Same(j)
  BY <1>5 DEF StoreRow
<1>6. CASE EndStore(i)
  BY <1>6 DEF EndStore
<1>7. CASE Track(i)
  BY <1>7 DEF Track
<1>8. CASE Poll(i)
  BY <1>8 DEF Poll
<1>9. CASE Finish(i)
  BY <1>9 DEF Finish
<1>10. CASE Crash(i)
  BY <1>10 DEF Crash
<1> QED BY <1>1, <1>2, <1>3, <1>4, <1>5, <1>6, <1>7, <1>8, <1>9, <1>10 DEF Step

\* Initially nothing is in flight and nothing is checkpointed.
LEMMA IInvInit == Init => IInv
<1> SUFFICES ASSUME Init PROVE IInv
  OBVIOUS
<1>1. TypeOK /\ CheckpointCovered
  BY TypeOKInit DEF Init, CheckpointCovered
<1>2. ASSUME NEW i \in Instances PROVE InstanceInv(i)
  BY PostgresAssumption DEF Init, InstanceInv, Chained, QuietInv, StoringInv, IndexedInv, StartInv,
     CoveredFrom, Unstored, AfterStorer, Versions
<1> QED BY <1>1, <1>2 DEF IInv

\* A starting instance requests the stream from a version up to which
\* everything is durable: its checkpoint, or initial_starting_version.
LEMMA StartKeeps ==
    ASSUME IInv, TypeOK', NEW i \in Instances, GetStartingVersion(i)
    PROVE  InstanceInv(i)'
<1> USE DEF IInv
<1>1. /\ to_storer'[i] = <<>> /\ storing'[i] = None /\ to_tracker'[i] = <<>>
      /\ last_success_batch'[i] = None
  BY DEF GetStartingVersion, InstanceInv, QuietInv, TypeOK
<1>2. Chained(i)' /\ QuietInv(i)' /\ StoringInv(i)'
  BY <1>1 DEF Chained, QuietInv, StoringInv
<1>3. ASSUME mode'[i].type = "default" PROVE CoveredTo(starting_version[i] - 1)'
  <2>1. mode'[i] \in Modes[i] /\ mode'[i] \in ProcessorMode
    BY PostgresAssumption DEF GetStartingVersion, TypeOK
  <2>2. mode'[i].initial_starting_version = InitialVersion
    BY <1>3, <2>1, PostgresAssumption
  <2>3. starting_version'[i] = IF processor_status # None /\ processor_status > InitialVersion
                           THEN processor_status ELSE InitialVersion
    BY <1>3, <2>1, <2>2 DEF GetStartingVersion, TypeOK, StartingVersion
  <2>4. UNCHANGED tables
    BY DEF GetStartingVersion
  <2>5. ASSUME NEW v \in Versions, InitialVersion <= v, v <= starting_version'[i] - 1
        PROVE  Durable(v)
    <3>1. v \in Int /\ InitialVersion \in Int /\ processor_status \in Int \cup {None}
      BY PostgresAssumption DEF TypeOK, Versions
    <3>2. processor_status # None /\ v \in InitialVersion .. processor_status
      BY <2>3, <2>5, <3>1, NoneAssumption
    <3> QED BY <3>2 DEF CheckpointCovered
  <2> QED BY <2>4, <2>5 DEF CoveredTo, CoveredFrom, Durable, tables
<1>4. StartInv(i)'
  BY <1>3 DEF StartInv
<1>5. IndexedInv(i)'
  <2>1. Unstored(i)' = starting_version'[i] /\ starting_version'[i] \in Nat
    BY <1>1 DEF GetStartingVersion, TypeOK, Unstored, AfterStorer
  <2>2. CoveredFrom(starting_version[i], Unstored(i) - 1)'
    BY <2>1, VersionsAreNat DEF CoveredFrom
  <2> QED BY <1>1, <2>2 DEF IndexedInv
<1> QED BY <1>2, <1>4, <1>5 DEF InstanceInv

\* A batch that enters the pipeline continues the one before it.
LEMMA StreamKeeps ==
    ASSUME IInv, TypeOK', TablesGrow, NEW i \in Instances, Stream(i)
    PROVE  InstanceInv(i)'
<1> USE DEF IInv
<1>1. PICK e \in Versions :
         /\ to_storer' = [to_storer EXCEPT ![i] =
               Append(@, [start_version |-> next_version[i], end_version |-> e])]
         /\ next_version' = [next_version EXCEPT ![i] = e + 1]
  BY DEF Stream
<1> DEFINE b == [start_version |-> next_version[i], end_version |-> e]
           q == to_storer[i]
<1>2. /\ q \in Seq(Batch) /\ to_storer'[i] = Append(q, b)
      /\ next_version'[i] = e + 1
      /\ b.start_version = next_version[i] /\ b.end_version = e
  BY <1>1 DEF TypeOK
<1>3. /\ phase'[i] = phase[i] /\ mode'[i] = mode[i] /\ storing'[i] = storing[i]
      /\ pending'[i] = pending[i] /\ to_tracker'[i] = to_tracker[i]
      /\ last_success_batch'[i] = last_success_batch[i] /\ phase[i] = "running"
      /\ SameRequest(i)
  BY DEF Stream, request, SameRequest
<1> HIDE DEF b
<1>4. /\ Len(to_storer'[i]) = Len(q) + 1 /\ Len(q) \in Nat
      /\ to_storer'[i][Len(q) + 1] = b
      /\ \A k \in 1 .. Len(q) : to_storer'[i][k] = q[k]
      /\ to_storer'[i] # <<>>
  BY <1>2
<1>5. AfterStorer(i)' = AfterStorer(i)
  <2>1. CASE q = <<>>
    BY <1>2, <1>4, <2>1 DEF AfterStorer
  <2>2. CASE q # <<>>
    <3>1. 1 \in 1 .. Len(q)
      BY <1>2, <2>2
    <3> QED BY <1>4, <2>2, <3>1 DEF AfterStorer
  <2> QED BY <2>1, <2>2
<1>6. Chained(i)'
  <2>1. ASSUME NEW k \in 1 .. Len(to_storer'[i])
        PROVE  to_storer'[i][k].end_version + 1 =
                 IF k < Len(to_storer'[i]) THEN to_storer'[i][k + 1].start_version
                 ELSE next_version'[i]
    <3>1. CASE k = Len(q) + 1
      BY <1>2, <1>4, <3>1
    <3>2. CASE k = Len(q)
      <4>1. q[k].end_version + 1 = next_version[i]
        BY <3>2, <2>1, <1>4 DEF InstanceInv, Chained
      <4> QED BY <1>2, <1>4, <2>1, <3>2, <4>1
    <3>3. CASE k < Len(q)
      <4>1. k \in 1 .. Len(q) /\ k + 1 \in 1 .. Len(q)
        BY <3>3, <2>1, <1>4
      <4>2. q[k].end_version + 1 = q[k + 1].start_version
        BY <3>3, <4>1 DEF InstanceInv, Chained
      <4> QED BY <1>4, <3>3, <4>1, <4>2
    <3> QED BY <3>1, <3>2, <3>3, <1>4, <2>1
  <2>2. storing'[i] # None => storing'[i].end_version + 1 = AfterStorer(i)'
    BY <1>3, <1>5 DEF InstanceInv, Chained
  <2> QED BY <2>1, <2>2 DEF Chained
<1>7. QuietInv(i)'
  BY <1>3 DEF QuietInv
<1>8. Unstored(i)' = Unstored(i)
  BY <1>3, <1>5 DEF Unstored
<1>9. UNCHANGED tables
  BY DEF Stream
<1>10. StoringInv(i)'
  BY <1>3, <1>9 DEF InstanceInv, StoringInv, Stored, tables
<1>11. IndexedInv(i)' /\ StartInv(i)'
  BY <1>3, <1>8, IndexedStable, StartStable
<1> QED BY <1>6, <1>7, <1>10, <1>11 DEF InstanceInv

\* Taking a batch into the storer keeps the pipeline contiguous, with every row
\* of the batch pending.
LEMMA BeginStoreKeeps ==
    ASSUME IInv, TypeOK', TablesGrow, NEW i \in Instances, BeginStore(i)
    PROVE  InstanceInv(i)'
<1> USE DEF IInv
<1> DEFINE q == to_storer[i]
<1>1. q \in Seq(Batch) /\ q # <<>> /\ Head(q) = q[1] /\ q[1] \in Batch
  BY DEF BeginStore, TypeOK
<1>2. /\ storing[i] = None /\ storing'[i] = q[1] /\ pending'[i] = RowsOf(q[1])
      /\ to_storer'[i] = Tail(q) /\ phase[i] = "running" /\ phase'[i] = phase[i]
      /\ mode'[i] = mode[i] /\ next_version'[i] = next_version[i]
      /\ to_tracker'[i] = to_tracker[i] /\ last_success_batch'[i] = last_success_batch[i]
      /\ SameRequest(i)
  BY <1>1 DEF BeginStore, request, SameRequest, TypeOK
<1>3. q[1] # None
  BY <1>1, PostgresAssumption
<1>4. /\ Len(q) \in Nat /\ Len(q) >= 1 /\ Len(to_storer'[i]) = Len(q) - 1
      /\ \A k \in 1 .. Len(q) - 1 : to_storer'[i][k] = q[k + 1]
  BY <1>1, <1>2
<1>5. q[1].end_version + 1 = AfterStorer(i)'
  <2> DEFINE r == to_storer'[i]
  <2>0. r \in Seq(Batch) /\ (r = <<>> <=> Len(q) = 1)
    <3>1. r \in Seq(Batch) /\ Len(r) = Len(q) - 1
      BY <1>4 DEF TypeOK
    <3> HIDE DEF r
    <3>2. r = <<>> <=> Len(r) = 0
      BY <3>1, EmptySeq
    <3> HIDE DEF q
    <3> QED BY <3>1, <3>2, <1>4
  <2>1. CASE Len(q) = 1
    <3>1. to_storer'[i] = <<>>
      BY <2>0, <2>1
    <3> QED BY <3>1, <1>2, <2>1 DEF AfterStorer, InstanceInv, Chained
  <2>2. CASE Len(q) # 1
    <3>0. 1 \in 1 .. Len(q) - 1 /\ 1 \in 1 .. Len(q) /\ 1 < Len(q)
      <4>1. ASSUME NEW n \in Nat, n >= 1, n # 1
            PROVE  1 \in 1 .. n - 1 /\ 1 \in 1 .. n /\ 1 < n
        BY <4>1
      <4>2. Len(q) \in Nat /\ Len(q) >= 1
        BY <1>4
      <4> HIDE DEF q
      <4> QED BY <4>1, <4>2, <2>2, Zenon
    <3>1. to_storer'[i] # <<>>
      BY <2>0, <2>2
    <3>2. to_storer'[i][1] = q[2]
      BY <3>0, <1>4
    <3>3. q[1].end_version + 1 = q[2].start_version
      BY <3>0 DEF InstanceInv, Chained
    <3> QED BY <3>1, <3>2, <3>3 DEF AfterStorer
  <2> QED BY <2>1, <2>2
<1>6. Chained(i)'
  <2>1. ASSUME NEW k \in 1 .. Len(to_storer'[i])
        PROVE  to_storer'[i][k].end_version + 1 =
                 IF k < Len(to_storer'[i]) THEN to_storer'[i][k + 1].start_version
                 ELSE next_version'[i]
    <3>1. k + 1 \in 1 .. Len(q) /\ (k < Len(to_storer'[i]) <=> k + 1 < Len(q))
      BY <1>4, <2>1
    <3>2. to_storer'[i][k] = q[k + 1]
      BY <1>4, <2>1
    <3>3. q[k + 1].end_version + 1 = IF k + 1 < Len(q) THEN q[k + 2].start_version
                                     ELSE next_version[i]
      BY <3>1 DEF InstanceInv, Chained
    <3>4. k < Len(to_storer'[i]) => to_storer'[i][k + 1] = q[k + 2]
      BY <1>4, <2>1
    <3> QED BY <1>2, <3>1, <3>2, <3>3, <3>4
  <2> QED BY <2>1, <1>2, <1>5 DEF Chained
<1>7. QuietInv(i)' /\ StoringInv(i)'
  BY <1>2 DEF QuietInv, StoringInv
<1>8. Unstored(i)' = Unstored(i)
  BY <1>1, <1>2, <1>3 DEF Unstored, AfterStorer
<1>9. IndexedInv(i)' /\ StartInv(i)'
  BY <1>2, <1>8, IndexedStable, StartStable
<1> QED BY <1>6, <1>7, <1>9 DEF InstanceInv

\* A committed row of the batch in the storer is stored, the others stay pending.
LEMMA StoreRowKeeps ==
    ASSUME IInv, TypeOK', TablesGrow, NEW i \in Instances,
           NEW row \in Rows, StoreRow(i, row)
    PROVE  InstanceInv(i)'
<1> USE DEF IInv
<1>1. /\ phase'[i] = phase[i] /\ mode'[i] = mode[i] /\ storing'[i] = storing[i]
      /\ to_storer'[i] = to_storer[i] /\ next_version'[i] = next_version[i]
      /\ to_tracker'[i] = to_tracker[i] /\ last_success_batch'[i] = last_success_batch[i]
      /\ pending'[i] = pending[i] \ {row} /\ SameRequest(i)
  BY DEF StoreRow, request, SameRequest, TypeOK
<1>2. AfterStorer(i)' = AfterStorer(i) /\ Unstored(i)' = Unstored(i)
  BY <1>1 DEF AfterStorer, Unstored
<1>3. Chained(i)' /\ QuietInv(i)'
  BY <1>1, <1>2 DEF InstanceInv, Chained, QuietInv
<1>4. Stored(row)'
  <2> DEFINE t == row[1]  v == row[2]
  <2>1. t \in Tables /\ v \in Versions /\ KeyOf[v] \in Keys
    BY DEF Rows, Keys
  <2>2. CASE t = CurrentTable
    <3>1. current' = [current EXCEPT ![KeyOf[v]] = UpsertCurrent(current[KeyOf[v]], v)]
      BY <2>2 DEF StoreRow
    <3>2. UpsertCurrent(current[KeyOf[v]], v) >= v
      <4>1. current[KeyOf[v]] \in Versions \cup {-1}
        BY <2>1 DEF TypeOK
      <4> QED BY <2>1, <4>1, UpsertCurrentFact, PostgresAssumption DEF Versions
    <3>3. current'[KeyOf[v]] >= v
      BY <2>1, <3>1, <3>2 DEF TypeOK
    <3> QED BY <2>2, <3>3 DEF Stored
  <2>3. CASE t # CurrentTable
    <3>1. history' = [history EXCEPT ![t] = @ \cup {v}] /\ t \in HistoryTables
      BY <2>1, <2>3 DEF StoreRow, Tables
    <3>2. v \in history'[t]
      <4> HIDE DEF t, v
      <4> QED BY <3>1 DEF TypeOK
    <3> QED BY <2>3, <3>2 DEF Stored
  <2> QED BY <2>2, <2>3
<1>5. StoringInv(i)'
  <2> SUFFICES ASSUME storing[i] # None,
                      NEW r \in RowsOf(storing[i]) \ (pending[i] \ {row})
               PROVE  Stored(r)'
    BY <1>1 DEF StoringInv
  <2>1. CASE r = row
    BY <2>1, <1>4
  <2>2. CASE r # row
    <3>1. storing[i] \in Batch
      BY DEF TypeOK
    <3>2. r \in Rows
      BY <3>1, RowsOfType
    <3>3. Stored(r)
      BY <2>2 DEF InstanceInv, StoringInv
    <3> QED BY <3>2, <3>3, StoredStable
  <2> QED BY <2>1, <2>2
<1>6. IndexedInv(i)' /\ StartInv(i)'
  BY <1>1, <1>2, IndexedStable, StartStable
<1> QED BY <1>3, <1>5, <1>6 DEF InstanceInv

\* A batch leaves the storer when all its statements have succeeded: by then
\* every version up to its end is durable.
LEMMA EndStoreKeeps ==
    ASSUME IInv, TypeOK', TablesGrow, NEW i \in Instances, EndStore(i)
    PROVE  InstanceInv(i)'
<1> USE DEF IInv
<1> DEFINE b == storing[i]
           q == to_tracker[i]
<1>1. b \in Batch /\ b # None /\ pending[i] = {} /\ q \in Seq(Batch)
  BY DEF EndStore, TypeOK
<1>2. /\ phase'[i] = phase[i] /\ mode'[i] = mode[i] /\ storing'[i] = None
      /\ to_storer'[i] = to_storer[i] /\ next_version'[i] = next_version[i]
      /\ to_tracker'[i] = Append(q, b) /\ last_success_batch'[i] = last_success_batch[i]
      /\ phase[i] = "running" /\ SameRequest(i)
  BY DEF EndStore, request, SameRequest, TypeOK
<1>3. AfterStorer(i)' = AfterStorer(i) /\ AfterStorer(i) = b.end_version + 1
  BY <1>1, <1>2 DEF AfterStorer, InstanceInv, Chained
<1>4. Unstored(i)' = b.end_version + 1
  BY <1>2, <1>3 DEF Unstored
<1>5. Chained(i)' /\ QuietInv(i)' /\ StoringInv(i)'
  BY <1>2, <1>3 DEF InstanceInv, Chained, QuietInv, StoringInv
<1> DEFINE s == starting_version[i]
<1>6. CoveredFrom(s, b.end_version)
  <2> SUFFICES ASSUME NEW v \in Versions, s <= v, v <= b.end_version
               PROVE  Durable(v)
    BY DEF CoveredFrom
  <2>1. v \in Int /\ b.start_version \in Int /\ b.end_version \in Int
    BY <1>1, PostgresAssumption DEF Batch, Versions
  <2>2. CASE v < b.start_version
    <3>1. CoveredFrom(s, b.start_version - 1)
      BY <1>1 DEF InstanceInv, IndexedInv, Unstored
    <3>2. v <= b.start_version - 1
      <4> HIDE DEF b
      <4> QED BY <2>1, <2>2
    <3> QED BY <3>1, <3>2 DEF CoveredFrom
  <2>3. CASE ~(v < b.start_version)
    <3>1. v \in InBatch(b)
      <4> HIDE DEF b
      <4> QED BY <2>1, <2>3 DEF InBatch
    <3>2. \A row \in RowsOf(b) : Stored(row)
      BY <1>1 DEF InstanceInv, StoringInv
    <3> QED BY <1>1, <3>1, <3>2, BatchDurable
  <2> QED BY <2>2, <2>3
<1>7. IndexedInv(i)'
  <2>0. starting_version'[i] = s
    BY <1>2 DEF SameRequest
  <2>1. ASSUME NEW n, CoveredFrom(s, n)
        PROVE  \A v \in Versions : s <= v /\ v <= n => Durable(v)'
    BY <2>1, CoveredStable
  <2> HIDE DEF s
  <2>3. CoveredFrom(starting_version[i], Unstored(i) - 1)'
    <3>1. Unstored(i)' - 1 = b.end_version
      <4>1. b.end_version \in Int
        BY <1>1, PostgresAssumption DEF Batch, Versions
      <4> HIDE DEF b
      <4> QED BY <1>4, <4>1
    <3> QED BY <1>6, <2>0, <2>1, <3>1 DEF CoveredFrom
  <2>4. ASSUME NEW k \in 1 .. Len(to_tracker'[i])
        PROVE  CoveredFrom(starting_version[i], to_tracker[i][k].end_version)'
    <3> DEFINE r == to_tracker'[i]
    <3>1. /\ Len(r) = Len(q) + 1 /\ Len(q) \in Nat /\ r[Len(q) + 1] = b
          /\ \A l \in 1 .. Len(q) : r[l] = q[l]
      BY <1>1, <1>2
    <3>2. CASE k = Len(q) + 1
      BY <1>6, <2>0, <2>1, <3>1, <3>2 DEF CoveredFrom
    <3>3. CASE k \in 1 .. Len(q)
      <4>1. CoveredFrom(s, q[k].end_version)
        BY <3>3 DEF InstanceInv, IndexedInv, s
      <4> QED BY <2>0, <2>1, <3>1, <3>3, <4>1 DEF CoveredFrom
    <3> QED BY <3>1, <3>2, <3>3, <2>4
  <2>5. last_success_batch[i] # None => CoveredFrom(s, last_success_batch[i])
    BY DEF InstanceInv, IndexedInv, s
  <2>6. last_success_batch'[i] # None =>
           CoveredFrom(starting_version[i], last_success_batch[i])'
    BY <1>2, <2>0, <2>1, <2>5 DEF CoveredFrom
  <2> QED BY <2>3, <2>4, <2>6 DEF IndexedInv
<1>8. StartInv(i)'
  BY <1>2, StartStable
<1> QED BY <1>5, <1>7, <1>8 DEF InstanceInv

\* A tracked batch extends the durable prefix that the tracker stands for.
LEMMA TrackKeeps ==
    ASSUME IInv, TypeOK', TablesGrow, NEW i \in Instances, Track(i)
    PROVE  InstanceInv(i)'
<1> USE DEF IInv
<1> DEFINE q == to_tracker[i]
<1>1. q \in Seq(Batch) /\ q # <<>> /\ Head(q) = q[1]
  BY DEF Track, TypeOK
<1>2. /\ phase'[i] = phase[i] /\ mode'[i] = mode[i] /\ storing'[i] = storing[i]
      /\ to_storer'[i] = to_storer[i] /\ next_version'[i] = next_version[i]
      /\ pending'[i] = pending[i] /\ phase[i] = "running" /\ UNCHANGED tables
      /\ to_tracker'[i] = Tail(q) /\ last_success_batch'[i] = q[1].end_version
      /\ SameRequest(i)
  BY <1>1 DEF Track, request, SameRequest, TypeOK
<1>3. AfterStorer(i)' = AfterStorer(i) /\ Unstored(i)' = Unstored(i)
  BY <1>2 DEF AfterStorer, Unstored
<1>4. Chained(i)' /\ QuietInv(i)' /\ StoringInv(i)'
  BY <1>2, <1>3 DEF InstanceInv, Chained, QuietInv, StoringInv, Stored, tables
<1>5. /\ Len(q) \in Nat /\ Len(Tail(q)) = Len(q) - 1
      /\ \A k \in 1 .. Len(q) - 1 : Tail(q)[k] = q[k + 1] /\ k + 1 \in 1 .. Len(q)
      /\ 1 \in 1 .. Len(q)
  BY <1>1
<1>6. IndexedInv(i)'
  <2> DEFINE s == starting_version[i]
  <2>0. starting_version'[i] = s
    BY <1>2 DEF SameRequest
  <2>1. ASSUME NEW n, CoveredFrom(s, n)
        PROVE  \A v \in Versions : s <= v /\ v <= n => Durable(v)'
    BY <2>1, CoveredStable
  <2>2. CoveredFrom(s, Unstored(i) - 1) /\ \A k \in 1 .. Len(q) : CoveredFrom(s, q[k].end_version)
    BY DEF InstanceInv, IndexedInv
  <2> HIDE DEF s
  <2>3. CoveredFrom(starting_version[i], Unstored(i) - 1)'
    BY <1>3, <2>0, <2>1, <2>2 DEF CoveredFrom
  <2>4. ASSUME NEW k \in 1 .. Len(to_tracker'[i])
        PROVE  CoveredFrom(starting_version[i], to_tracker[i][k].end_version)'
    <3>1. k + 1 \in 1 .. Len(q) /\ to_tracker'[i][k] = q[k + 1]
      BY <1>2, <1>5, <2>4
    <3>2. CoveredFrom(s, q[k + 1].end_version)
      BY <2>2, <3>1
    <3> QED BY <2>0, <2>1, <3>1, <3>2 DEF CoveredFrom
  <2>5. CoveredFrom(starting_version[i], last_success_batch[i])'
    <3>1. CoveredFrom(s, q[1].end_version)
      BY <2>2, <1>5
    <3> QED BY <1>2, <2>0, <2>1, <3>1 DEF CoveredFrom
  <2> QED BY <2>3, <2>4, <2>5 DEF IndexedInv
<1>7. StartInv(i)'
  BY <1>2, StartStable
<1> QED BY <1>4, <1>6, <1>7 DEF InstanceInv

\* A process that went down has nothing in flight.
LEMMA CrashKeeps ==
    ASSUME IInv, TypeOK', NEW i \in Instances, Crash(i)
    PROVE  InstanceInv(i)'
<1>1. /\ to_storer'[i] = <<>> /\ storing'[i] = None /\ to_tracker'[i] = <<>>
      /\ phase'[i] = "down" /\ next_version'[i] = 0 /\ last_success_batch'[i] = None
  BY DEF Crash, IInv, TypeOK
<1>2. Chained(i)' /\ QuietInv(i)' /\ StoringInv(i)' /\ StartInv(i)'
  BY <1>1 DEF Chained, QuietInv, StoringInv, StartInv
<1>3. IndexedInv(i)'
  <2>1. Unstored(i)' = 0
    BY <1>1 DEF Unstored, AfterStorer
  <2>2. CoveredFrom(starting_version[i], Unstored(i) - 1)'
    BY <2>1, VersionsAreNat DEF CoveredFrom
  <2> QED BY <1>1, <2>2 DEF IndexedInv
<1> QED BY <1>2, <1>3 DEF InstanceInv

\* Ending the request phase, saving and finishing move nothing in flight.
LEMMA SaveKeeps ==
    ASSUME IInv, TypeOK', TablesGrow, NEW i \in Instances,
           GetEndVersion(i) \/ Poll(i) \/ Finish(i)
    PROVE  InstanceInv(i)'
<1> USE DEF IInv
<1>1. SameSteps(i) /\ SameRequest(i) /\ UNCHANGED tables
  BY DEF GetEndVersion, Poll, Finish, SameSteps, SameRequest, steps, request
<1>2. AfterStorer(i)' = AfterStorer(i) /\ Unstored(i)' = Unstored(i)
  BY <1>1 DEF SameSteps, AfterStorer, Unstored
<1>3. Chained(i)' /\ StoringInv(i)'
  BY <1>1, <1>2 DEF SameSteps, InstanceInv, Chained, StoringInv, Stored, tables
<1>4. QuietInv(i)'
  <2>1. CASE GetEndVersion(i)
    BY <2>1 DEF GetEndVersion, QuietInv, TypeOK
  <2>2. CASE Poll(i)
    BY <2>2 DEF Poll, QuietInv
  <2>3. CASE Finish(i)
    BY <1>1, <2>3 DEF Finish, QuietInv, SameSteps
  <2> QED BY <2>1, <2>2, <2>3
<1>5. phase'[i] \in {"starting", "running"} => phase[i] \in {"starting", "running"}
  BY DEF GetEndVersion, Poll, Finish
<1>6. IndexedInv(i)' /\ StartInv(i)'
  BY <1>1, <1>2, <1>5, IndexedStable, StartStable DEF SameSteps
<1> QED BY <1>3, <1>4, <1>6 DEF InstanceInv

\* What a save writes to processor_status: nothing, or the tracker's version,
\* up to which everything is durable.
LEMMA SaveStatusCovered ==
    ASSUME IInv, NEW i \in Instances, phase[i] = "running", SaveStatus(i)
    PROVE  \/ processor_status' = processor_status
           \/ /\ processor_status' \in Versions
              /\ processor_status # None => processor_status <= processor_status'
              /\ CoveredTo(processor_status')
<1> DEFINE v == last_success_batch[i]
<1>1. CASE v # None /\ mode[i].type = "default"
  <2>1. v \in Versions /\ processor_status \in Versions \cup {None}
    BY <1>1 DEF IInv, TypeOK
  <2>2. CoveredTo(v)
    <3>1. CoveredTo(starting_version[i] - 1) /\ CoveredFrom(starting_version[i], v)
      BY <1>1 DEF IInv, InstanceInv, StartInv, IndexedInv
    <3>2. starting_version[i] \in Nat
      BY DEF IInv, TypeOK
    <3> QED BY <3>1, <3>2, VersionsAreNat DEF CoveredTo, CoveredFrom
  <2>3. processor_status' = SavedStatus(processor_status, v)
    BY <1>1 DEF SaveStatus
  <2> HIDE DEF v
  <2> QED BY <2>1, <2>2, <2>3, StatusRowFact
<1>2. CASE ~(v # None /\ mode[i].type = "default")
  BY <1>2 DEF SaveStatus
<1> QED BY <1>1, <1>2

\* Every step that moves the checkpoint is such a save.
LEMMA CheckpointStep ==
    ASSUME IInv, [Next]_vars
    PROVE  \/ processor_status' = processor_status
           \/ /\ processor_status' \in Versions
              /\ processor_status # None => processor_status <= processor_status'
              /\ CoveredTo(processor_status')
              /\ UNCHANGED tables
<1>1. CASE UNCHANGED vars
  BY <1>1 DEF vars, status
<1>2. ASSUME NEW i \in Instances, GetStartingVersion(i) \/ Step(i) \/ Crash(i)
      PROVE  \/ processor_status' = processor_status
             \/ (Poll(i) \/ Finish(i))
  BY <1>2 DEF GetStartingVersion, Step, Crash, GetEndVersion, Stream, BeginStore,
              StoreRow, EndStore, Track, status
<1>3. ASSUME NEW i \in Instances, Poll(i) \/ Finish(i)
      PROVE  phase[i] = "running" /\ SaveStatus(i) /\ UNCHANGED tables
  BY <1>3 DEF Poll, Finish
<1> QED BY <1>1, <1>2, <1>3, SaveStatusCovered DEF Next

\* The inductive step.
LEMMA IInvNext ==
    ASSUME IInv, [Next]_vars
    PROVE  IInv'
<1> USE DEF IInv
<1>1. TypeOK'
  <2>1. CASE UNCHANGED vars
    BY <2>1 DEF TypeOK, vars, tables, status, request, steps
  <2>2. CASE Next
    BY <2>2, TypeOKGetStartingVersion, TypeOKOther DEF Next
  <2> QED BY <2>1, <2>2
<1>2. TablesGrow
  BY TablesOnlyGrow
<1>3. CheckpointCovered'
  <2> SUFFICES ASSUME processor_status' # None,
                      NEW v \in InitialVersion .. processor_status'
               PROVE  Durable(v)'
    BY DEF CheckpointCovered
  <2>1. v \in Versions /\ InitialVersion <= v /\ v <= processor_status'
    BY <1>1, PostgresAssumption DEF TypeOK, Versions
  <2>2. Durable(v)
    BY <2>1, CheckpointStep DEF CheckpointCovered, CoveredTo, CoveredFrom
  <2> QED BY <1>1, <1>2, <2>1, <2>2, DurableStable
<1>4. ASSUME NEW j \in Instances PROVE InstanceInv(j)'
  <2>1. CASE UNCHANGED vars
    <3>1. Same(j)
      BY <2>1 DEF vars, request, steps, Same, SameSteps, SameRequest
    <3> QED BY <1>1, <1>2, <3>1, OthersKeep
  <2>2. ASSUME NEW i \in Instances, GetStartingVersion(i) \/ Step(i) \/ Crash(i)
        PROVE  InstanceInv(j)'
    <3>1. CASE i # j
      <4>1. Same(j)
        BY <2>2, <3>1, StepFrame
      <4> QED BY <1>1, <1>2, <4>1, OthersKeep
    <3>2. CASE i = j
      <4>1. InstanceInv(i)'
        BY <1>1, <1>2, <2>2, StartKeeps, StreamKeeps, BeginStoreKeeps, StoreRowKeeps,
           EndStoreKeeps, TrackKeeps, SaveKeeps, CrashKeeps DEF Step
      <4> QED BY <3>2, <4>1
    <3> QED BY <3>1, <3>2
  <2> QED BY <2>1, <2>2 DEF Next
<1> QED BY <1>1, <1>3, <1>4

\* The inductive invariant holds in every reachable state.
THEOREM InductiveInvariant == Spec => []IInv
  BY IInvInit, IInvNext, PTL DEF Spec

\* For any number of concurrent instances, crashes and restarts, the default
\* mode's checkpoint never claims a version that is not stored completely.
THEOREM CheckpointNeverAhead == Spec => []CheckpointCovered
<1>1. IInv => CheckpointCovered
  BY DEF IInv
<1> QED BY <1>1, InductiveInvariant, PTL

\* The default mode's checkpoint never moves backwards, whichever instance
\* saves last.
THEOREM CheckpointNeverRegresses == Spec => CheckpointMonotone
<1>1. IInv /\ [Next]_vars =>
        [processor_status # None => processor_status' >= processor_status]_processor_status
  <2> SUFFICES ASSUME IInv, [Next]_vars, processor_status # None,
                      processor_status' # processor_status
               PROVE  processor_status' >= processor_status
    OBVIOUS
  <2>1. processor_status' \in Versions /\ processor_status <= processor_status'
    BY CheckpointStep
  <2>2. processor_status \in Int /\ processor_status' \in Int
    BY <2>1, PostgresAssumption DEF IInv, TypeOK, Versions
  <2> QED BY <2>1, <2>2
<1> QED BY <1>1, InductiveInvariant, PTL DEF Spec, CheckpointMonotone

\* The processor implements the abstract checkpointed index: committing a row
\* is Store, saving the status is Advance, every other step is a stutter.
THEOREM ImplementsCheckpointedIndex == Spec => ImplementsIndex
<1> DEFINE d == {v \in Versions : Durable(v)}
<1>1. Init => Index!Init
  BY PostgresAssumption DEF Init, Index!Init, Versions
<1>2. IInv /\ IInv' /\ [Next]_vars => [Index!Next]_(Index!vars)
  <2> SUFFICES ASSUME IInv, IInv', [Next]_vars PROVE [Index!Next]_(Index!vars)
    OBVIOUS
  <2>1. TablesGrow /\ TypeOK /\ TypeOK'
    BY TablesOnlyGrow DEF IInv
  <2>2. d \subseteq d'
    BY <2>1, DurableStable
  <2>3. CASE processor_status' = processor_status
    <3>1. Index!Store
      BY <2>2, <2>3 DEF Index!Store
    <3> QED BY <3>1 DEF Index!Next
  <2>4. CASE processor_status' # processor_status
    <3>1. /\ processor_status' \in Versions
          /\ processor_status # None => processor_status <= processor_status'
          /\ CoveredTo(processor_status')
          /\ UNCHANGED tables
      BY <2>4, CheckpointStep
    <3>2. processor_status' \in Nat
      BY <3>1, PostgresAssumption DEF Versions
    <3>3. d' = d
      BY <3>1 DEF Durable, tables
    <3>4. InitialVersion .. processor_status' \subseteq d
      <4> SUFFICES ASSUME NEW v \in InitialVersion .. processor_status' PROVE v \in d
        OBVIOUS
      <4>1. v \in Versions /\ InitialVersion <= v /\ v <= processor_status'
        BY <3>1, PostgresAssumption DEF Versions
      <4> QED BY <3>1, <4>1 DEF CoveredTo, CoveredFrom
    <3>5. Index!Advance
      BY <3>1, <3>2, <3>3, <3>4 DEF Index!Advance
    <3> QED BY <3>5 DEF Index!Next
  <2> QED BY <2>3, <2>4
<1> QED BY <1>1, <1>2, InductiveInvariant, PTL DEF Spec, ImplementsIndex, Index!Spec
------------------------------------------------------------------------------
(***************************************************************************)
(* Backfills, for any number of instances beside each other: a restarted   *)
(* backfill leaves no version out, a row that says complete is covered,    *)
(* and a job that has ended has such a row.  The runs of a backfill have   *)
(* to agree on its range (BackfillsAgree).                                 *)
(***************************************************************************)
AllModes == UNION {Modes[i] : i \in Instances}

\* A backfill is a job of one instance.
OneRunner ==
    \A i, j \in Instances : \A m \in Modes[i], n \in Modes[j] :
        m.type = "backfill" /\ n.type = "backfill" /\ m.backfill_id = n.backfill_id => i = j

\* A backfill mode of this instance of the model.
LEMMA BackfillMode ==
    ASSUME BackfillsAgree(AllModes), NEW i \in Instances, NEW m \in Modes[i],
           m.type = "backfill"
    PROVE  /\ m \in ProcessorMode /\ m \in AllModes /\ m.backfill_id \in BackfillIds
           /\ m.initial_starting_version \in Nat
           /\ m.ending_version \in Nat /\ m.ending_version # None
           /\ m.initial_starting_version <= m.ending_version /\ 0 < m.ending_version
           /\ \A n \in AllModes : n.type = "backfill" /\ n.backfill_id = m.backfill_id =>
                 \A row : RowOf(row, n) <=> RowOf(row, m)
<1>1. m \in ProcessorMode /\ m \in AllModes
  BY PostgresAssumption DEF AllModes
<1>2. m \in BackfillConfig
  BY <1>1, ModeCases
<1>3. m.ending_version # None /\ m.ending_version \in Nat
  BY <1>1, <1>2 DEF BackfillsAgree, BackfillConfig, OptionalVersion
<1>4. m.initial_starting_version \in Nat /\ m.backfill_id \in BackfillIds
  BY <1>2 DEF BackfillConfig
<1>5. m.initial_starting_version <= m.ending_version /\ 0 < m.ending_version
  BY <1>1 DEF BackfillsAgree
<1>6. \A n \in AllModes : n.type = "backfill" /\ n.backfill_id = m.backfill_id =>
         \A row : RowOf(row, n) <=> RowOf(row, m)
  BY <1>1 DEF BackfillsAgree, RowOf
<1> QED BY <1>1, <1>3, <1>4, <1>5, <1>6

------------------------------------------------------------------------------
(***************************************************************************)
(* The rows.  Each is in step with its configuration and covered by what   *)
(* was stored, and a running backfill continues what its row covers.       *)
(***************************************************************************)
BackfillRowOf(id) == backfill_processor_status[id]

RowInv(id) ==
    BackfillRowOf(id) # None =>
        /\ CoveredFrom(BackfillRowOf(id).backfill_start_version,
                       BackfillRowOf(id).last_success_version)
        /\ \E m \in AllModes : m.type = "backfill" /\ m.backfill_id = id
                               /\ RowOf(BackfillRowOf(id), m)

ContinueInv(i) ==
    phase[i] \in {"starting", "running"} /\ mode[i].type = "backfill" =>
        /\ starting_version[i] <= mode[i].ending_version
        /\ phase[i] = "running" => ending_version[i] = mode[i].ending_version
        /\ CoveredFrom(mode[i].initial_starting_version, starting_version[i] - 1)

BackfillsInv ==
    /\ IInv
    /\ \A id \in BackfillIds : RowInv(id)
    /\ \A i \in Instances : ContinueInv(i)

\* The runs of a backfill agree on its row.
LEMMA RowAgrees ==
    ASSUME BackfillsAgree(AllModes), NEW i \in Instances, NEW m \in Modes[i],
           m.type = "backfill", NEW id \in BackfillIds, m.backfill_id = id,
           RowInv(id), BackfillRowOf(id) # None
    PROVE  RowOf(BackfillRowOf(id), m)
<1>1. PICK n \in AllModes : n.type = "backfill" /\ n.backfill_id = id
                            /\ RowOf(BackfillRowOf(id), n)
  BY DEF RowInv
<1> QED BY <1>1, BackfillMode

\* The two statements that write a row: the reset of a start and the upsert of a
\* save.
ResetsRow(i, id) ==
    /\ GetStartingVersion(i)
    /\ mode'[i] \in Modes[i] /\ mode'[i].type = "backfill" /\ mode'[i].backfill_id = id
    /\ BackfillRowOf(id)' = RestartedBackfill(BackfillRowOf(id), mode'[i], processor_status)

SavesRow(i, id) ==
    /\ Poll(i) \/ Finish(i)
    /\ mode[i] \in Modes[i] /\ mode[i].type = "backfill" /\ mode[i].backfill_id = id
    /\ last_success_batch[i] # None /\ last_success_batch[i] \in Nat
    /\ BackfillRowOf(id)' = SavedBackfill(BackfillRowOf(id), mode[i], last_success_batch[i])

\* Nothing else touches backfill_processor_status.
LEMMA BackfillRowStep ==
    ASSUME TypeOK, NEW i \in Instances, GetStartingVersion(i) \/ Step(i) \/ Crash(i),
           NEW id \in BackfillIds
    PROVE  BackfillRowOf(id)' = BackfillRowOf(id) \/ ResetsRow(i, id) \/ SavesRow(i, id)
<1> DEFINE rows == backfill_processor_status
<1>0. rows \in [BackfillIds -> BackfillRow \cup {None}]
  BY DEF TypeOK
<1>1. CASE GetStartingVersion(i)
  <2>1. PICK m \in Modes[i] :
           /\ mode' = [mode EXCEPT ![i] = m]
           /\ rows' = IF m.type = "backfill"
                      THEN [rows EXCEPT ![m.backfill_id] =
                              RestartedBackfill(rows[m.backfill_id], m, processor_status)]
                      ELSE rows
    BY <1>1 DEF GetStartingVersion
  <2>2. mode'[i] = m
    BY <2>1 DEF TypeOK
  <2>3. CASE m.type = "backfill" /\ m.backfill_id = id
    <3>1. rows'[id] = RestartedBackfill(rows[id], m, processor_status)
      BY <1>0, <2>1, <2>3
    <3> QED BY <1>1, <2>2, <2>3, <3>1 DEF ResetsRow, BackfillRowOf
  <2>4. CASE ~(m.type = "backfill" /\ m.backfill_id = id)
    BY <1>0, <2>1, <2>4 DEF BackfillRowOf
  <2> QED BY <2>3, <2>4
<1>2. CASE Poll(i) \/ Finish(i)
  <2>1. SaveStatus(i) /\ phase[i] = "running"
    BY <1>2 DEF Poll, Finish
  <2>2. CASE last_success_batch[i] # None /\ mode[i].type = "backfill"
             /\ mode[i].backfill_id = id
    <3>1. mode[i] \in Modes[i] /\ last_success_batch[i] \in Nat
      BY <2>1, <2>2, VersionsAreNat DEF TypeOK
    <3>2. rows'[id] = SavedBackfill(rows[id], mode[i], last_success_batch[i])
      BY <1>0, <2>1, <2>2 DEF SaveStatus
    <3> QED BY <1>2, <2>2, <3>1, <3>2 DEF SavesRow, BackfillRowOf
  <2>3. CASE ~(last_success_batch[i] # None /\ mode[i].type = "backfill"
               /\ mode[i].backfill_id = id)
    BY <1>0, <2>1, <2>3 DEF SaveStatus, BackfillRowOf
  <2> QED BY <2>2, <2>3
<1>3. CASE UNCHANGED rows
  BY <1>3 DEF BackfillRowOf
<1> QED BY <1>1, <1>2, <1>3 DEF Step, Crash, GetEndVersion, Stream, BeginStore, StoreRow,
          EndStore, Track, status

\* A reset leaves a row that claims no more than the row it replaces.
LEMMA ResetRowCovered ==
    ASSUME BackfillsAgree(AllModes), TypeOK, NEW i \in Instances, NEW id \in BackfillIds,
           RowInv(id), ResetsRow(i, id), BackfillRowOf(id)' # None
    PROVE  LET new == BackfillRowOf(id)' IN
           /\ CoveredFrom(new.backfill_start_version, new.last_success_version)
           /\ RowOf(new, mode'[i])
<1> DEFINE m == mode'[i]
           row == BackfillRowOf(id)
           new == BackfillRowOf(id)'
<1>0. /\ m \in Modes[i] /\ m.type = "backfill" /\ m.backfill_id = id
      /\ new = RestartedBackfill(row, m, processor_status) /\ new # None
  BY DEF ResetsRow
<1>1. m \in ProcessorMode /\ m.ending_version # None /\ 0 < m.ending_version
  BY <1>0, BackfillMode
<1> HIDE DEF m, new
<1>2. CASE row # None /\ m.overwrite_checkpoint
  <2>1. RowOf(new, m) /\ new.last_success_version = 0
    <3> HIDE DEF row
    <3> QED BY <1>0, <1>1, <1>2, RestartedBackfillFact
  <2>2. RowOf(row, m)
    BY <1>0, <1>2, RowAgrees
  <2>3. row.last_success_version \in Nat
    BY <1>2 DEF TypeOK, BackfillRow, BackfillRowOf
  <2>4. ASSUME NEW v \in Versions, new.backfill_start_version <= v,
               v <= new.last_success_version
        PROVE  Durable(v)
    <3>1. row.backfill_start_version <= v
      BY <2>1, <2>2, <2>4 DEF RowOf
    <3>2. v <= row.last_success_version
      BY <2>1, <2>3, <2>4, VersionsAreNat
    <3> QED BY <1>2, <3>1, <3>2 DEF RowInv, CoveredFrom
  <2> QED BY <2>1, <2>4 DEF CoveredFrom, new, m
<1>3. CASE ~(row # None /\ m.overwrite_checkpoint)
  <2>1. new = row
    BY <1>0, <1>3 DEF RestartedBackfill
  <2>2. RowOf(row, m)
    BY <1>0, <2>1, RowAgrees
  <2>3. CoveredFrom(row.backfill_start_version, row.last_success_version)
    BY <1>0, <2>1 DEF RowInv
  <2> HIDE DEF row
  <2> QED BY <2>1, <2>2, <2>3 DEF new, m
<1> QED BY <1>2, <1>3

\* A save leaves a row that claims what was tracked.
LEMMA SavedRowCovered ==
    ASSUME BackfillsAgree(AllModes), BackfillsInv, NEW i \in Instances,
           NEW id \in BackfillIds, SavesRow(i, id)
    PROVE  LET new == BackfillRowOf(id)' IN
           /\ CoveredFrom(new.backfill_start_version, new.last_success_version)
           /\ RowOf(new, mode[i])
           /\ last_success_batch[i] >= mode[i].ending_version =>
                 new.backfill_status = "complete"
<1> DEFINE m == mode[i]
           v == last_success_batch[i]
           row == BackfillRowOf(id)
           new == BackfillRowOf(id)'
<1>0. /\ TypeOK /\ RowInv(id) /\ ContinueInv(i) /\ InstanceInv(i) /\ phase[i] = "running"
      /\ m \in Modes[i] /\ m.type = "backfill" /\ m.backfill_id = id
      /\ v # None /\ v \in Nat /\ new = SavedBackfill(row, m, v)
  BY DEF BackfillsInv, IInv, SavesRow, Poll, Finish
<1>1. /\ m \in ProcessorMode /\ m.ending_version # None
      /\ m.initial_starting_version \in Nat
  BY <1>0, BackfillMode
<1>2. row \in BackfillRow \cup {None} /\ (row # None => RowOf(row, m))
  <2>1. row \in BackfillRow \cup {None}
    BY <1>0 DEF TypeOK, BackfillRowOf
  <2>2. row # None => RowOf(row, m)
    BY <1>0, RowAgrees
  <2> QED BY <2>1, <2>2
<1>3. /\ RowOf(new, m) /\ (new = row \/ new.last_success_version = v)
      /\ v >= m.ending_version => new.backfill_status = "complete"
      /\ new \in BackfillRow
  <2> HIDE DEF row, new, m, v
  <2> QED BY <1>0, <1>1, <1>2, SavedBackfillFact
<1>4. CASE row # None /\ new = row
  <2>1. CoveredFrom(row.backfill_start_version, row.last_success_version)
    BY <1>0, <1>4 DEF RowInv
  <2> HIDE DEF row, new
  <2> QED BY <1>3, <1>4, <2>1 DEF new
<1>5. CASE new.last_success_version = v
  <2>1. /\ CoveredFrom(m.initial_starting_version, starting_version[i] - 1)
        /\ CoveredFrom(starting_version[i], v)
    BY <1>0 DEF ContinueInv, InstanceInv, IndexedInv
  <2>2. starting_version[i] \in Nat
    BY <1>0 DEF TypeOK
  <2> HIDE DEF m, v, new, row
  <2>3. CoveredFrom(m.initial_starting_version, v)
    <3> SUFFICES ASSUME NEW w \in Versions, m.initial_starting_version <= w, w <= v
                 PROVE  Durable(w)
      BY DEF CoveredFrom
    <3>1. CASE w <= starting_version[i] - 1
      BY <2>1, <3>1 DEF CoveredFrom
    <3>2. CASE starting_version[i] <= w
      BY <2>1, <3>2 DEF CoveredFrom
    <3> QED BY <2>2, <3>1, <3>2, VersionsAreNat
  <2> QED BY <1>3, <1>5, <2>3 DEF RowOf, new, m, v
<1>6. CASE row = None
  <2>1. new.last_success_version = v
    <3> HIDE DEF row, m, v, new
    <3> QED BY <1>0, <1>6 DEF SavedBackfill
  <2> QED BY <1>5, <2>1
<1> QED BY <1>3, <1>4, <1>5, <1>6

\* A starting backfill continues at most one version after what its row covers,
\* and never past its end.
LEMMA BackfillStarts ==
    ASSUME BackfillsAgree(AllModes), BackfillsInv, NEW i \in Instances,
           GetStartingVersion(i), mode'[i].type = "backfill"
    PROVE  LET m == mode'[i]
               row == BackfillRowOf(m.backfill_id)
           IN /\ starting_version'[i] <= m.ending_version
              /\ CoveredFrom(m.initial_starting_version, starting_version'[i] - 1)
              /\ row # None /\ ~m.overwrite_checkpoint =>
                    starting_version'[i] <= row.last_success_version + 1
<1>0. TypeOK
  BY DEF BackfillsInv, IInv
<1>1. PICK m \in Modes[i] :
         LET row == IF m.type = "backfill"
                    THEN backfill_processor_status[m.backfill_id] ELSE None
         IN /\ mode' = [mode EXCEPT ![i] = m]
            /\ starting_version' =
                  [starting_version EXCEPT ![i] = StartingVersion(m, processor_status, row)]
  BY DEF GetStartingVersion
<1>2. mode'[i] = m /\ m.type = "backfill"
  BY <1>0, <1>1 DEF TypeOK
<1> DEFINE id == m.backfill_id
           row == BackfillRowOf(id)
           start == starting_version'[i]
<1>3. start = StartingVersion(m, processor_status, row)
  BY <1>0, <1>1, <1>2 DEF TypeOK, BackfillRowOf
<1>4. /\ m \in ProcessorMode /\ id \in BackfillIds
      /\ m.initial_starting_version \in Nat
      /\ m.ending_version \in Nat /\ m.ending_version # None
      /\ m.initial_starting_version <= m.ending_version
  BY <1>2, BackfillMode
<1>5. start = IF row = None \/ m.overwrite_checkpoint
              THEN m.initial_starting_version
              ELSE IF row.backfill_status = "complete" THEN m.ending_version
                   ELSE row.last_success_version + 1
  BY <1>2, <1>3, <1>4, BackfillStart
<1>6. row # None => /\ RowOf(row, m) /\ row.last_success_version \in Nat
                    /\ CoveredFrom(row.backfill_start_version, row.last_success_version)
  <2> SUFFICES ASSUME row # None
               PROVE  /\ RowOf(row, m) /\ row.last_success_version \in Nat
                      /\ CoveredFrom(row.backfill_start_version, row.last_success_version)
    OBVIOUS
  <2>1. RowInv(id)
    BY <1>4 DEF BackfillsInv
  <2>2. RowOf(row, m)
    BY <1>2, <1>4, <2>1, RowAgrees
  <2>3. row.last_success_version \in Nat
    BY <1>0, <1>4 DEF TypeOK, BackfillRow, BackfillRowOf
  <2> QED BY <2>1, <2>2, <2>3 DEF RowInv
<1>7. CASE row = None \/ m.overwrite_checkpoint
  <2>1. start = m.initial_starting_version
    BY <1>5, <1>7
  <2>2. CoveredFrom(m.initial_starting_version, start - 1)
    BY <1>4, <2>1, VersionsAreNat DEF CoveredFrom
  <2> QED BY <1>2, <1>4, <1>7, <2>1, <2>2
<1>8. CASE row # None /\ ~m.overwrite_checkpoint
  <2> DEFINE last == row.last_success_version
  <2>1. last \in Nat /\ (row.backfill_status = "complete" <=> last >= m.ending_version)
        /\ CoveredFrom(m.initial_starting_version, last)
    BY <1>6, <1>8 DEF RowOf
  <2>2. start = IF row.backfill_status = "complete" THEN m.ending_version ELSE last + 1
    BY <1>5, <1>8
  <2> HIDE DEF last, start
  <2>3. start <= m.ending_version /\ start <= last + 1 /\ start \in Nat
    BY <1>4, <2>1, <2>2
  <2>4. CoveredFrom(m.initial_starting_version, start - 1)
    BY <2>1, <2>3, VersionsAreNat DEF CoveredFrom
  <2> QED BY <1>2, <2>3, <2>4 DEF last, start
<1> QED BY <1>7, <1>8

\* What a running backfill continues stays covered.
LEMMA ContinueStep ==
    ASSUME BackfillsAgree(AllModes), BackfillsInv, TypeOK', TablesGrow, NEW i \in Instances,
           GetStartingVersion(i) \/ Step(i) \/ Crash(i), NEW j \in Instances
    PROVE  ContinueInv(j)'
<1>0. TypeOK /\ ContinueInv(j)
  BY DEF BackfillsInv, IInv
<1> SUFFICES ASSUME phase'[j] \in {"starting", "running"}, mode'[j].type = "backfill"
             PROVE  /\ starting_version'[j] <= mode'[j].ending_version
                    /\ phase'[j] = "running" => ending_version'[j] = mode'[j].ending_version
                    /\ CoveredFrom(mode[j].initial_starting_version, starting_version[j] - 1)'
  BY DEF ContinueInv
<1>1. ASSUME SameRequest(j), phase[j] \in {"starting", "running"}
      PROVE  /\ starting_version'[j] <= mode'[j].ending_version
             /\ CoveredFrom(mode[j].initial_starting_version, starting_version[j] - 1)'
  <2>1. /\ starting_version[j] <= mode[j].ending_version
        /\ CoveredFrom(mode[j].initial_starting_version, starting_version[j] - 1)
    BY <1>0, <1>1 DEF ContinueInv, SameRequest
  <2>2. CoveredFrom(mode[j].initial_starting_version, starting_version[j] - 1)'
    BY <1>0, <1>1, <2>1, CoveredStable DEF CoveredFrom, SameRequest
  <2> QED BY <1>1, <2>1, <2>2 DEF SameRequest
<1>2. CASE Same(j)
  BY <1>0, <1>1, <1>2 DEF Same, SameRequest, ContinueInv
<1>3. CASE i = j /\ GetStartingVersion(i)
  <2>1. phase'[j] = "starting" /\ UNCHANGED tables
    BY <1>0, <1>3 DEF GetStartingVersion, TypeOK
  <2>2. /\ starting_version'[j] <= mode'[j].ending_version
        /\ CoveredFrom(mode'[j].initial_starting_version, starting_version'[j] - 1)
    BY <1>3, BackfillStarts
  <2>3. CoveredFrom(mode[j].initial_starting_version, starting_version[j] - 1)'
    BY <2>1, <2>2 DEF CoveredFrom, Durable, tables
  <2> QED BY <2>1, <2>2, <2>3
<1>4. CASE i = j /\ GetEndVersion(i)
  <2>1. SameRequest(j) /\ phase[j] = "starting"
        /\ ending_version'[j] = EndVersion(mode[j], processor_status)
    BY <1>0, <1>4 DEF GetEndVersion, SameRequest, TypeOK
  <2>2. mode[j].ending_version # None /\ mode[j].type = "backfill"
    BY <1>0, <2>1, BackfillMode DEF TypeOK, SameRequest
  <2>3. EndVersion(mode[j], processor_status) = mode[j].ending_version
    BY <2>2 DEF EndVersion
  <2> QED BY <1>1, <2>1, <2>3 DEF SameRequest
<1>5. CASE i = j /\ Step(i) /\ ~GetEndVersion(i)
  <2>1. SameRequest(j) /\ ending_version'[j] = ending_version[j] /\ phase[j] = "running"
    BY <1>5 DEF Step, Stream, BeginStore, StoreRow, EndStore, Track, Poll, Finish,
       request, SameRequest
  <2>2. ending_version[j] = mode[j].ending_version
    BY <1>0, <2>1 DEF ContinueInv, SameRequest
  <2> QED BY <1>1, <2>1, <2>2 DEF SameRequest
<1>6. CASE i = j /\ Crash(i)
  <2>1. phase'[j] = "down"
    BY <1>0, <1>6 DEF Crash, TypeOK
  <2> QED BY <2>1
<1>7. CASE i # j
  BY <1>0, <1>2, <1>7, StepFrame
<1> QED BY <1>3, <1>4, <1>5, <1>6, <1>7

\* The invariant of the rows is inductive.
LEMMA BackfillsStep ==
    ASSUME BackfillsAgree(AllModes), BackfillsInv, [Next]_vars
    PROVE  BackfillsInv'
<1>0. IInv /\ TypeOK /\ IInv' /\ TypeOK' /\ TablesGrow
  BY IInvNext, TablesOnlyGrow DEF BackfillsInv, IInv
<1>1. CASE UNCHANGED vars
  <2>1. /\ UNCHANGED <<backfill_processor_status, phase, mode, starting_version, ending_version>>
        /\ UNCHANGED tables
    BY <1>1 DEF vars, status, request
  <2> QED BY <1>0, <2>1 DEF BackfillsInv, RowInv, ContinueInv, BackfillRowOf, CoveredFrom,
           Durable, tables
<1>2. ASSUME NEW i \in Instances, GetStartingVersion(i) \/ Step(i) \/ Crash(i)
      PROVE  BackfillsInv'
  <2>1. ASSUME NEW id \in BackfillIds PROVE RowInv(id)'
    <3> DEFINE new == BackfillRowOf(id)'
               Fine(r) == /\ CoveredFrom(r.backfill_start_version, r.last_success_version)
                          /\ \E m \in AllModes : m.type = "backfill" /\ m.backfill_id = id
                                                 /\ RowOf(r, m)
    <3>1. SUFFICES new # None => Fine(new)
      <4>1. CoveredFrom(new.backfill_start_version, new.last_success_version) =>
               \A v \in Versions : new.backfill_start_version <= v
                                   /\ v <= new.last_success_version => Durable(v)'
        <5> HIDE DEF new
        <5> QED BY <1>0, CoveredStable
      <4> QED BY <3>1, <4>1 DEF RowInv, CoveredFrom
    <3>2. CASE new = BackfillRowOf(id)
      <4>1. RowInv(id)
        BY DEF BackfillsInv
      <4> HIDE DEF new
      <4> QED BY <3>2, <4>1 DEF RowInv
    <3>3. CASE ResetsRow(i, id) /\ new # None
      <4>1. CoveredFrom(new.backfill_start_version, new.last_success_version)
            /\ RowOf(new, mode'[i])
        BY <1>0, <3>3, ResetRowCovered DEF BackfillsInv
      <4>2. mode'[i] \in AllModes /\ mode'[i].type = "backfill" /\ mode'[i].backfill_id = id
        BY <3>3 DEF ResetsRow, AllModes
      <4> HIDE DEF new
      <4> QED BY <4>1, <4>2
    <3>4. CASE SavesRow(i, id)
      <4>1. CoveredFrom(new.backfill_start_version, new.last_success_version)
            /\ RowOf(new, mode[i])
        BY <3>4, SavedRowCovered
      <4>2. mode[i] \in AllModes /\ mode[i].type = "backfill" /\ mode[i].backfill_id = id
        BY <3>4 DEF SavesRow, AllModes
      <4> HIDE DEF new
      <4> QED BY <4>1, <4>2
    <3> QED BY <1>0, <1>2, <3>2, <3>3, <3>4, BackfillRowStep
  <2>2. ASSUME NEW j \in Instances PROVE ContinueInv(j)'
    BY <1>0, <1>2, ContinueStep
  <2> QED BY <1>0, <2>1, <2>2 DEF BackfillsInv
<1> QED BY <1>1, <1>2 DEF Next

\* Before the first start there are no rows.
LEMMA BackfillsInit == Init => BackfillsInv
<1> SUFFICES ASSUME Init PROVE BackfillsInv
  OBVIOUS
<1>1. IInv
  BY IInvInit
<1> QED BY <1>1 DEF Init, BackfillsInv, RowInv, ContinueInv, BackfillRowOf

\* A restarted backfill leaves out no version after the last one its row records,
\* whichever runs of it crashed, finished or were reset before.
THEOREM BackfillLeavesNoGap ==
    ASSUME BackfillsAgree(AllModes)
    PROVE  Spec => BackfillContinues
<1> DEFINE Continues ==
      \A i \in Instances :
         phase[i] \in {"down", "finished"} /\ phase'[i] = "starting" =>
            LET m == mode'[i] IN
            m.type = "backfill" /\ ~m.overwrite_checkpoint =>
              LET row == backfill_processor_status[m.backfill_id] IN
              row # None => starting_version'[i] <= row.last_success_version + 1
<1>1. Init => BackfillsInv
  BY BackfillsInit
<1>2. BackfillsInv /\ [Next]_vars => BackfillsInv'
  BY BackfillsStep
<1>3. BackfillsInv /\ [Next]_vars => [Continues]_vars
  <2> SUFFICES ASSUME BackfillsInv, Next,
                      NEW i \in Instances, phase[i] \in {"down", "finished"},
                      phase'[i] = "starting", mode'[i].type = "backfill",
                      ~mode'[i].overwrite_checkpoint,
                      BackfillRowOf(mode'[i].backfill_id) # None
               PROVE  starting_version'[i] <=
                        BackfillRowOf(mode'[i].backfill_id).last_success_version + 1
    BY DEF BackfillRowOf
  <2>1. TypeOK
    BY DEF BackfillsInv, IInv
  <2>2. PICK j \in Instances : GetStartingVersion(j) \/ Step(j) \/ Crash(j)
    BY DEF Next
  <2>3. j = i
    <3>1. CASE j # i
      BY <2>1, <2>2, <3>1, StepFrame DEF Same
    <3> QED BY <3>1
  <2>4. GetStartingVersion(i)
    BY <2>1, <2>2, <2>3 DEF Step, Crash, GetEndVersion, Stream, BeginStore, StoreRow,
       EndStore, Track, Poll, Finish, TypeOK
  <2> QED BY <2>4, BackfillStarts
<1> QED BY <1>1, <1>2, <1>3, PTL DEF Spec, BackfillContinues

\* A row that says complete is covered from its start to its end.
LEMMA CompleteIsCovered ==
    ASSUME BackfillsAgree(AllModes), BackfillsInv
    PROVE  BackfillCompleteIsDone
<1> SUFFICES ASSUME NEW id \in BackfillIds, BackfillRowOf(id) # None,
                    BackfillRowOf(id).backfill_status = "complete",
                    NEW v \in (BackfillRowOf(id).backfill_start_version
                                 .. BackfillRowOf(id).backfill_end_version) \cap Versions
             PROVE  Durable(v)
  BY DEF BackfillCompleteIsDone, BackfillRowOf
<1> DEFINE row == BackfillRowOf(id)
<1>1. RowInv(id) /\ row \in BackfillRow
  BY DEF BackfillsInv, IInv, TypeOK, BackfillRowOf
<1>2. PICK m \in AllModes : m.type = "backfill" /\ RowOf(row, m)
  BY <1>1 DEF RowInv
<1>3. PICK i \in Instances : m \in Modes[i]
  BY DEF AllModes
<1>4. m.ending_version \in Nat /\ m.initial_starting_version \in Nat
  BY <1>2, <1>3, BackfillMode
<1>5. /\ row.last_success_version >= m.ending_version /\ row.last_success_version \in Nat
      /\ row.backfill_end_version = m.ending_version
      /\ row.backfill_start_version = m.initial_starting_version
  BY <1>1, <1>2 DEF RowOf, BackfillRow
<1> HIDE DEF row
<1>6. v \in Versions /\ row.backfill_start_version <= v /\ v <= row.last_success_version
  BY <1>4, <1>5, VersionsAreNat DEF row
<1> QED BY <1>1, <1>6 DEF RowInv, CoveredFrom, row

------------------------------------------------------------------------------
(***************************************************************************)
(* The end of a job.  The batches on their way to the tracker follow one   *)
(* another from the version it expects to the first one not stored yet, so *)
(* when the pipeline is empty the tracker has seen everything.             *)
(***************************************************************************)
Consecutive(q, n) ==
    \A k \in 1 .. Len(q) :
        q[k].end_version + 1 = IF k < Len(q) THEN q[k + 1].start_version ELSE n

FirstOf(q, n) == IF q # <<>> THEN q[1].start_version ELSE n

\* A batch that starts where the queue ends continues it.
LEMMA AppendConsecutive ==
    ASSUME NEW q \in Seq(Batch), NEW n, Consecutive(q, n), NEW b \in Batch,
           b.start_version = n
    PROVE  /\ Consecutive(Append(q, b), b.end_version + 1)
           /\ FirstOf(Append(q, b), b.end_version + 1) = FirstOf(q, n)
<1> DEFINE r == Append(q, b)
<1>1. /\ Len(q) \in Nat /\ Len(r) = Len(q) + 1 /\ r[Len(q) + 1] = b /\ r # <<>>
      /\ \A k \in 1 .. Len(q) : r[k] = q[k]
  BY AppendProperties
<1>2. q # <<>> => 1 \in 1 .. Len(q)
  BY EmptySeq, <1>1
<1>3. q = <<>> => Len(q) = 0
  OBVIOUS
<1> HIDE DEF r
<1>4. FirstOf(r, b.end_version + 1) = FirstOf(q, n)
  BY <1>1, <1>2, <1>3 DEF FirstOf
<1>5. ASSUME NEW k \in 1 .. Len(r)
      PROVE  r[k].end_version + 1 = IF k < Len(r) THEN r[k + 1].start_version
                                    ELSE b.end_version + 1
  <2>1. CASE k = Len(q) + 1
    BY <1>1, <2>1
  <2>2. CASE k = Len(q)
    <3>1. q[k].end_version + 1 = n
      BY <1>1, <1>5, <2>2 DEF Consecutive
    <3> QED BY <1>1, <1>5, <2>2, <3>1
  <2>3. CASE k < Len(q)
    <3>1. k \in 1 .. Len(q) /\ k + 1 \in 1 .. Len(q)
      BY <1>1, <1>5, <2>3
    <3>2. q[k].end_version + 1 = q[k + 1].start_version
      BY <2>3, <3>1 DEF Consecutive
    <3> QED BY <1>1, <2>3, <3>1, <3>2
  <2> QED BY <1>1, <1>5, <2>1, <2>2, <2>3
<1> QED BY <1>4, <1>5 DEF Consecutive, r

\* What is left after the first batch starts where that batch ends.
LEMMA TailConsecutive ==
    ASSUME NEW q \in Seq(Batch), q # <<>>, NEW n, Consecutive(q, n)
    PROVE  Consecutive(Tail(q), n) /\ q[1].end_version + 1 = FirstOf(Tail(q), n)
<1> DEFINE r == Tail(q)
<1>1. /\ r \in Seq(Batch) /\ Len(q) \in Nat /\ Len(q) >= 1 /\ Len(r) = Len(q) - 1
      /\ \A k \in 1 .. Len(r) : r[k] = q[k + 1]
  BY EmptySeq
<1> HIDE DEF r
<1>2. r = <<>> <=> Len(q) = 1
  <2>1. r = <<>> <=> Len(r) = 0
    BY <1>1, EmptySeq
  <2> QED BY <1>1, <2>1
<1>3. q[1].end_version + 1 = IF 1 < Len(q) THEN q[2].start_version ELSE n
  BY <1>1 DEF Consecutive
<1>4. q[1].end_version + 1 = FirstOf(r, n)
  <2>1. r # <<>> => r[1] = q[2] /\ 1 < Len(q)
    BY <1>1, <1>2
  <2>2. ASSUME r = <<>> PROVE ~(1 < Len(q))
    <3>1. Len(q) = 1
      BY <1>2, <2>2
    <3> QED BY <3>1
  <2> QED BY <1>3, <2>1, <2>2 DEF FirstOf
<1>5. ASSUME NEW k \in 1 .. Len(r)
      PROVE  r[k].end_version + 1 = IF k < Len(r) THEN r[k + 1].start_version ELSE n
  <2>1. k + 1 \in 1 .. Len(q) /\ (k < Len(r) <=> k + 1 < Len(q))
    BY <1>1, <1>5
  <2>2. q[k + 1].end_version + 1 = IF k + 1 < Len(q) THEN q[(k + 1) + 1].start_version ELSE n
    BY <2>1 DEF Consecutive
  <2>3. k < Len(r) => r[k + 1] = q[(k + 1) + 1]
    BY <1>1, <1>5
  <2> QED BY <1>1, <2>1, <2>2, <2>3
<1> QED BY <1>4, <1>5 DEF Consecutive, r

TrackedInv(i) ==
    /\ Consecutive(to_tracker[i], Unstored(i))
    /\ NextTracked(i) = FirstOf(to_tracker[i], Unstored(i))

\* A job that has ended is recorded complete.
FinishInv(i) ==
    phase[i] = "finished" /\ mode[i].type = "backfill" =>
        BackfillRowOf(mode[i].backfill_id).backfill_status = "complete"

JobsInv == BackfillsInv /\ \A i \in Instances : TrackedInv(i) /\ FinishInv(i)

\* Neither streaming a batch nor taking it into the storer stores anything.
LEMMA UnstoredKept ==
    ASSUME IInv, NEW i \in Instances, Stream(i) \/ BeginStore(i)
    PROVE  Unstored(i)' = Unstored(i)
<1>0. TypeOK /\ to_storer[i] \in Seq(Batch) /\ next_version[i] \in Nat
  BY DEF IInv, TypeOK
<1>1. CASE Stream(i)
  <2>1. PICK e \in Versions :
           /\ to_storer' = [to_storer EXCEPT ![i] =
                 Append(@, [start_version |-> next_version[i], end_version |-> e])]
           /\ storing' = storing /\ next_version[i] <= e
    BY <1>1 DEF Stream
  <2> DEFINE b == [start_version |-> next_version[i], end_version |-> e]
             q == to_storer[i]
  <2>2. to_storer'[i] = Append(q, b) /\ b.start_version = next_version[i]
    BY <1>0, <2>1 DEF TypeOK
  <2>b. b \in Batch
    BY <1>0, <2>1, PostgresAssumption DEF Batch, Versions
  <2> HIDE DEF b, q
  <2>3. /\ Append(q, b) # <<>>
        /\ q # <<>> => Append(q, b)[1] = q[1]
        /\ q = <<>> => Append(q, b)[1] = b
    <3>1. q \in Seq(Batch)
      BY <1>0 DEF q
    <3>2. q # <<>> => 1 \in 1 .. Len(q)
      BY <3>1, EmptySeq
    <3> QED BY <2>b, <3>1, <3>2, AppendProperties
  <2> QED BY <2>1, <2>2, <2>3 DEF Unstored, AfterStorer, q
<1>2. CASE BeginStore(i)
  <2>1. /\ storing[i] = None /\ to_storer[i] # <<>>
        /\ storing'[i] = to_storer[i][1] /\ to_storer[i][1] \in Batch
    BY <1>0, <1>2 DEF BeginStore, TypeOK
  <2>2. to_storer[i][1] # None
    BY <2>1, PostgresAssumption
  <2> QED BY <2>1, <2>2 DEF Unstored, AfterStorer
<1> QED BY <1>1, <1>2

\* The tracker is always about to receive the version it expects.
LEMMA TrackedStep ==
    ASSUME IInv, TypeOK', NEW i \in Instances, GetStartingVersion(i) \/ Step(i) \/ Crash(i),
           NEW j \in Instances, TrackedInv(j)
    PROVE  TrackedInv(j)'
<1>0. TypeOK /\ InstanceInv(i)
  BY DEF IInv
<1>1. ASSUME Unstored(j)' = Unstored(j), to_tracker'[j] = to_tracker[j],
             last_success_batch'[j] = last_success_batch[j],
             starting_version'[j] = starting_version[j]
      PROVE  TrackedInv(j)'
  BY <1>1 DEF TrackedInv, NextTracked
<1>2. CASE Same(j)
  <2>1. Unstored(j)' = Unstored(j)
    BY <1>2 DEF Same, SameSteps, Unstored, AfterStorer
  <2> QED BY <1>1, <1>2, <2>1 DEF Same, SameSteps, SameRequest
<1>3. CASE i = j /\ (Stream(i) \/ BeginStore(i))
  <2>1. to_tracker' = to_tracker /\ last_success_batch' = last_success_batch
        /\ starting_version' = starting_version
    BY <1>3 DEF Stream, BeginStore, request
  <2> QED BY <1>1, <1>3, <2>1, UnstoredKept
<1>4. ASSUME i = j,
             GetEndVersion(i) \/ Poll(i) \/ Finish(i) \/ \E row \in Rows : StoreRow(i, row)
      PROVE  TrackedInv(j)'
  <2>1. UNCHANGED <<storing, to_storer, next_version, to_tracker, last_success_batch,
                    starting_version>>
    BY <1>4 DEF GetEndVersion, Poll, Finish, StoreRow, steps, request
  <2> QED BY <1>1, <2>1 DEF Unstored, AfterStorer
<1>5. CASE i = j /\ (GetStartingVersion(i) \/ Crash(i))
  <2>1. /\ to_tracker'[j] = <<>> /\ last_success_batch'[j] = None
        /\ storing'[j] = None /\ to_storer'[j] = <<>>
        /\ starting_version'[j] = next_version'[j]
    BY <1>0, <1>5 DEF GetStartingVersion, Crash, InstanceInv, QuietInv, TypeOK
  <2> QED BY <2>1 DEF TrackedInv, NextTracked, Consecutive, FirstOf, Unstored, AfterStorer
<1>6. CASE i = j /\ EndStore(i)
  <2> DEFINE b == storing[i]
             q == to_tracker[i]
  <2>1. b \in Batch /\ b # None /\ q \in Seq(Batch)
    BY <1>0, <1>6 DEF EndStore, TypeOK
  <2>2. /\ to_tracker'[i] = Append(q, b) /\ storing'[i] = None
        /\ UNCHANGED <<to_storer, next_version, last_success_batch, starting_version>>
    BY <1>0, <1>6 DEF EndStore, TypeOK, request
  <2>3. Unstored(i) = b.start_version
    BY <2>1 DEF Unstored
  <2>4. Unstored(i)' = b.end_version + 1
    BY <1>0, <2>1, <2>2 DEF Unstored, AfterStorer, InstanceInv, Chained
  <2>5. Consecutive(q, b.start_version) /\ NextTracked(i) = FirstOf(q, b.start_version)
    BY <1>6, <2>3 DEF TrackedInv
  <2>6. NextTracked(i)' = NextTracked(i)
    BY <2>2 DEF NextTracked
  <2> HIDE DEF b, q
  <2>7. /\ Consecutive(Append(q, b), b.end_version + 1)
        /\ FirstOf(Append(q, b), b.end_version + 1) = FirstOf(q, b.start_version)
    BY <2>1, <2>5, AppendConsecutive
  <2> QED BY <1>6, <2>2, <2>4, <2>5, <2>6, <2>7 DEF TrackedInv
<1>7. CASE i = j /\ Track(i)
  <2> DEFINE q == to_tracker[i]
  <2>1. q \in Seq(Batch) /\ q # <<>>
    BY <1>0, <1>7 DEF Track, TypeOK
  <2>2. /\ to_tracker'[i] = Tail(q) /\ last_success_batch'[i] = q[1].end_version
        /\ UNCHANGED <<storing, to_storer, next_version, starting_version>>
    BY <1>0, <1>7, <2>1 DEF Track, TypeOK, request
  <2>3. Unstored(i)' = Unstored(i)
    BY <2>2 DEF Unstored, AfterStorer
  <2>4. q[1] \in Batch
    BY <2>1
  <2>5. q[1].end_version # None
    <3>1. q[1].end_version \in Versions
      BY <2>4 DEF Batch
    <3>2. q[1].end_version \in Nat
      BY <3>1, VersionsAreNat
    <3> QED BY <3>2, NoneAssumption
  <2>6. Consecutive(Tail(q), Unstored(i)) /\ q[1].end_version + 1 = FirstOf(Tail(q), Unstored(i))
    BY <1>7, <2>1, TailConsecutive DEF TrackedInv
  <2>7. NextTracked(i)' = q[1].end_version + 1
    BY <2>2, <2>5 DEF NextTracked
  <2> HIDE DEF q
  <2> QED BY <1>7, <2>2, <2>3, <2>6, <2>7 DEF TrackedInv
<1>8. CASE i # j
  BY <1>0, <1>2, <1>8, StepFrame
<1> QED BY <1>3, <1>4, <1>5, <1>6, <1>7, <1>8 DEF Step

\* The last save of a backfill is at its ending_version, and no other instance
\* touches its row.
LEMMA FinishStep ==
    ASSUME BackfillsAgree(AllModes), OneRunner, JobsInv, TypeOK',
           NEW i \in Instances, GetStartingVersion(i) \/ Step(i) \/ Crash(i),
           NEW j \in Instances
    PROVE  FinishInv(j)'
<1>0. /\ BackfillsInv /\ IInv /\ TypeOK /\ TrackedInv(j) /\ FinishInv(j) /\ ContinueInv(j)
  BY DEF JobsInv, BackfillsInv, IInv
<1> SUFFICES ASSUME phase'[j] = "finished", mode'[j].type = "backfill"
             PROVE  backfill_processor_status'[mode'[j].backfill_id].backfill_status = "complete"
  BY DEF FinishInv, BackfillRowOf
<1>1. CASE i = j
  <2>1. Finish(i)
    BY <1>0, <1>1 DEF Step, GetStartingVersion, Crash, GetEndVersion, Stream, BeginStore,
       StoreRow, EndStore, Track, Poll, TypeOK
  <2>2. /\ mode' = mode /\ phase[i] = "running" /\ SaveStatus(i)
        /\ ending_version[i] # None /\ next_version[i] > ending_version[i]
        /\ to_storer[i] = <<>> /\ storing[i] = None /\ to_tracker[i] = <<>>
    BY <2>1 DEF Finish, request
  <2>3. mode[i] \in Modes[i] /\ mode[i].type = "backfill"
    BY <1>0, <1>1, <2>2 DEF TypeOK
  <2>4. /\ mode[i].backfill_id \in BackfillIds /\ mode[i].ending_version \in Nat
    BY <2>3, BackfillMode
  <2>5. starting_version[i] <= mode[i].ending_version
        /\ ending_version[i] = mode[i].ending_version
    BY <1>0, <1>1, <2>2, <2>3 DEF ContinueInv
  <2>6. NextTracked(i) = next_version[i]
    BY <1>0, <1>1, <2>2 DEF TrackedInv, FirstOf, Unstored, AfterStorer
  <2>7. starting_version[i] \in Nat /\ next_version[i] \in Nat
    BY <1>0 DEF TypeOK
  <2>8. last_success_batch[i] # None
    BY <2>2, <2>4, <2>5, <2>6, <2>7 DEF NextTracked
  <2>9. last_success_batch[i] \in Nat
    BY <1>0, <2>8, VersionsAreNat DEF TypeOK
  <2>10. last_success_batch[i] >= mode[i].ending_version
    BY <2>2, <2>4, <2>5, <2>6, <2>7, <2>8, <2>9 DEF NextTracked
  <2>11. ASSUME NEW id \in BackfillIds, id = mode[i].backfill_id
         PROVE  backfill_processor_status'[id].backfill_status = "complete"
    <3>1. backfill_processor_status'[id] =
            SavedBackfill(backfill_processor_status[id], mode[i], last_success_batch[i])
      BY <1>0, <2>2, <2>3, <2>8, <2>11 DEF SaveStatus, TypeOK
    <3>2. SavesRow(i, id)
      BY <2>1, <2>3, <2>8, <2>9, <2>11, <3>1 DEF SavesRow, BackfillRowOf
    <3> QED BY <1>0, <2>10, <3>2, SavedRowCovered DEF BackfillRowOf
  <2> QED BY <1>1, <2>2, <2>4, <2>11
<1>2. CASE i # j
  <2>1. phase[j] = "finished" /\ mode'[j] = mode[j] /\ mode[j].type = "backfill"
    BY <1>0, <1>2, StepFrame DEF Same, SameRequest
  <2>2. mode[j] \in Modes[j]
    BY <1>0, <2>1 DEF TypeOK
  <2>3. mode[j].backfill_id \in BackfillIds
    BY <2>1, <2>2, BackfillMode
  <2>4. ASSUME NEW id \in BackfillIds, id = mode[j].backfill_id
        PROVE  backfill_processor_status'[id] = BackfillRowOf(id)
    <3>1. ~ResetsRow(i, id)
      BY <1>2, <2>1, <2>2, <2>4 DEF ResetsRow, OneRunner
    <3>2. ~SavesRow(i, id)
      BY <1>2, <2>1, <2>2, <2>4 DEF SavesRow, OneRunner
    <3> QED BY <1>0, <3>1, <3>2, BackfillRowStep DEF BackfillRowOf
  <2>5. BackfillRowOf(mode[j].backfill_id).backfill_status = "complete"
    BY <1>0, <2>1 DEF FinishInv
  <2> QED BY <2>1, <2>3, <2>4, <2>5
<1> QED BY <1>1, <1>2

\* The invariant of the jobs is inductive.
LEMMA JobsStep ==
    ASSUME BackfillsAgree(AllModes), OneRunner, JobsInv, [Next]_vars
    PROVE  JobsInv'
<1>0. BackfillsInv /\ BackfillsInv' /\ IInv /\ TypeOK'
  BY BackfillsStep DEF JobsInv, BackfillsInv, IInv
<1>1. CASE UNCHANGED vars
  <2>1. UNCHANGED <<to_tracker, storing, to_storer, next_version, last_success_batch,
                    starting_version, phase, mode, backfill_processor_status>>
    BY <1>1 DEF vars, steps, request, status
  <2> QED BY <1>0, <2>1 DEF JobsInv, TrackedInv, FinishInv, NextTracked, Unstored, AfterStorer,
           BackfillRowOf
<1>2. ASSUME NEW i \in Instances, GetStartingVersion(i) \/ Step(i) \/ Crash(i),
             NEW j \in Instances
      PROVE  TrackedInv(j)' /\ FinishInv(j)'
  <2>1. TrackedInv(j)'
    BY <1>0, <1>2, TrackedStep DEF JobsInv
  <2>2. FinishInv(j)'
    BY <1>0, <1>2, FinishStep
  <2> QED BY <2>1, <2>2
<1> QED BY <1>0, <1>1, <1>2 DEF Next, JobsInv

\* No job has started initially.
LEMMA JobsInit == Init => JobsInv
<1> SUFFICES ASSUME Init PROVE JobsInv
  OBVIOUS
<1>1. BackfillsInv
  BY BackfillsInit
<1>2. ASSUME NEW i \in Instances PROVE TrackedInv(i) /\ FinishInv(i)
  BY DEF Init, TrackedInv, FinishInv, Consecutive, FirstOf, NextTracked, Unstored, AfterStorer
<1> QED BY <1>1, <1>2 DEF JobsInv

\* backfill_status says complete exactly when the backfill is: never before its
\* whole range is stored, whatever crashed, was reset or ran beside it, and always
\* once the job has ended.
THEOREM BackfillCompleteIffDone ==
    ASSUME BackfillsAgree(AllModes), OneRunner
    PROVE  Spec => []CompleteIffDone
<1>1. Init => JobsInv
  BY JobsInit
<1>2. JobsInv /\ [Next]_vars => JobsInv'
  BY JobsStep
<1>3. JobsInv => CompleteIffDone
  BY CompleteIsCovered DEF JobsInv, FinishInv, CompleteIffDone, FinishedBackfillIsComplete,
     BackfillRowOf
<1> QED BY <1>1, <1>2, <1>3, PTL DEF Spec
==============================================================================
