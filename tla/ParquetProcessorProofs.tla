----------------------- MODULE ParquetProcessorProofs ------------------------
(***************************************************************************)
(* Proofs about ParquetProcessor for every set of tables and modes, every  *)
(* chain, batch size, buffer size, channel size and number of restarts.    *)
(***************************************************************************)
EXTENDS ParquetProcessor, ProcessorStatusProofs, SequenceTheorems

------------------------------------------------------------------------------
(***************************************************************************)
(* Facts about the model's operators                                       *)
(***************************************************************************)

\* Versions are natural numbers.
LEMMA VersionsAreNat == Versions \subseteq Nat
  BY ParquetAssumption DEF Versions

\* A batch spans versions of the chain.
LEMMA BatchFact ==
    ASSUME NEW b \in Batch
    PROVE  /\ b # None
           /\ b.start_version \in Versions /\ b.end_version \in Versions
           /\ b.start_version \in Nat /\ b.end_version \in Nat
           /\ InBatch(b) \subseteq Versions
  BY ParquetAssumption DEF Batch, InBatch, Versions

\* The rows of a batch for a table belong to its versions; there are at most as
\* many as it has versions, and calculate_size counts the header too.
LEMMA RowsOfFact ==
    ASSUME NEW t \in Tables, NEW b \in Batch
    PROVE  /\ RowsOf(t, b) \subseteq Versions
           /\ SizeOf(t, b) \in Nat /\ SizeOf(t, b) > 0
           /\ b.start_version <= b.end_version =>
                 SizeOf(t, b) <= b.end_version - b.start_version + 2
<1> DEFINE a == b.start_version  z == b.end_version
<1>1. a \in Int /\ z \in Int /\ InBatch(b) = a .. z /\ InBatch(b) \subseteq Versions
  BY BatchFact DEF InBatch
<1>2. RowsOf(t, b) \subseteq InBatch(b)
  BY DEF RowsOf
<1> HIDE DEF a, z
<1>3. /\ IsFiniteSet(a .. z)
      /\ Cardinality(a .. z) = IF a > z THEN 0 ELSE z - a + 1
  BY <1>1, FS_Interval
<1>4. /\ IsFiniteSet(RowsOf(t, b)) /\ Cardinality(RowsOf(t, b)) <= Cardinality(a .. z)
  BY <1>1, <1>2, <1>3, FS_Subset
<1>5. Cardinality(RowsOf(t, b)) \in Nat
  BY <1>4, FS_CardinalityType
<1>6. a <= z => Cardinality(RowsOf(t, b)) <= z - a + 1
  BY <1>1, <1>3, <1>4
<1>7. a <= z => 1 + Cardinality(RowsOf(t, b)) <= z - a + 2
  BY <1>1, <1>5, <1>6
<1> QED BY <1>1, <1>2, <1>5, <1>7 DEF SizeOf, a, z

\* Saving a version of the chain leaves a version of the chain in the row, the
\* row's own or the saved one, and never a smaller one than the row had.
LEMMA StatusRowFact ==
    ASSUME NEW row \in Versions \cup {None}, NEW v \in Versions
    PROVE  /\ SavedStatus(row, v) \in Versions
           /\ SavedStatus(row, v) \in {row, v}
           /\ row # None => row <= SavedStatus(row, v)
<1>1. row \in OptionalVersion /\ v \in Nat
  BY VersionsAreNat DEF OptionalVersion
<1> QED BY <1>1, SavedStatusFact, NoneAssumption

\* get_min_processed_version_from_db: the least checkpoint of the tables found,
\* None if there is none.
LEMMA MinProcessedFact ==
    ASSUME TypeOK, NEW failed
    PROVE  LET found == {t \in LookedUp(failed) : processor_status[t] # None} IN
           /\ MinProcessedVersion(failed) \in OptionalVersion
           /\ found = {} => MinProcessedVersion(failed) = None
           /\ found # {} => /\ MinProcessedVersion(failed) # None
                            /\ \A t \in found : MinProcessedVersion(failed) <= processor_status[t]
<1> DEFINE found == {t \in LookedUp(failed) : processor_status[t] # None}
           S == {processor_status[t] : t \in found}
<1>1. found \subseteq Tables
  BY DEF LookedUp
<1>2. \A t \in found : processor_status[t] \in Nat
  BY <1>1, VersionsAreNat DEF TypeOK
<1>3. S \in SUBSET Nat /\ (found # {} => S # {})
  BY <1>2
<1>4. MinProcessedVersion(failed) = IF found = {} THEN None ELSE Min(S)
  BY DEF MinProcessedVersion
<1>5. found # {} => Min(S) \in S /\ \A x \in S : Min(S) <= x
  <2> HIDE DEF S
  <2> QED BY <1>3, MinFact
<1>6. found # {} => Min(S) \in Nat /\ \A t \in found : Min(S) <= processor_status[t]
  BY <1>3, <1>5
<1> HIDE DEF S, found
<1>7. /\ MinProcessedVersion(failed) \in OptionalVersion
      /\ found = {} => MinProcessedVersion(failed) = None
      /\ found # {} => /\ MinProcessedVersion(failed) # None
                       /\ \A t \in found : MinProcessedVersion(failed) <= processor_status[t]
  BY <1>4, <1>6, NoneAssumption DEF OptionalVersion
<1> QED BY <1>7 DEF found

\* The rows found for a backfill decide where it resumes: at the least of their
\* versions, and complete exactly if they all are.
LEMMA ResumeRowFact ==
    ASSUME TypeOK, NEW id \in BackfillIds, NEW found \in SUBSET Tables,
           \A t \in found : backfill_processor_status[t][id] # None
    PROVE  /\ found = {} => ResumeRow(id, found) = None
           /\ found # {} =>
                /\ ResumeRow(id, found) \in ResumePoint /\ ResumeRow(id, found) # None
                /\ ResumeRow(id, found).backfill_status = "complete" <=>
                      \A t \in found :
                         backfill_processor_status[t][id].backfill_status = "complete"
                /\ \A t \in found : ResumeRow(id, found).last_success_version
                                      <= backfill_processor_status[t][id].last_success_version
<1> DEFINE row(t) == backfill_processor_status[t][id]
           S == {row(t).last_success_version : t \in found}
           st == IF \A t \in found : row(t).backfill_status = "complete"
                 THEN "complete" ELSE "in_progress"
<1>1. \A t \in found : row(t) \in BackfillRow
  BY DEF TypeOK
<1>2. \A t \in found : row(t).last_success_version \in Nat
  BY <1>1 DEF BackfillRow
<1>3. S \in SUBSET Nat /\ (found # {} => S # {})
  BY <1>2
<1>4. found # {} => Min(S) \in S /\ \A x \in S : Min(S) <= x
  <2> HIDE DEF S
  <2> QED BY <1>3, MinFact
<1>5. found # {} => Min(S) \in Nat /\ \A t \in found : Min(S) <= row(t).last_success_version
  BY <1>3, <1>4
<1>6. ResumeRow(id, found) = IF found = {} THEN None
         ELSE [backfill_status |-> st, last_success_version |-> Min(S)]
  BY DEF ResumeRow
<1>7. st \in {"complete", "in_progress"}
      /\ (st = "complete" <=> \A t \in found : row(t).backfill_status = "complete")
  OBVIOUS
<1>8. ASSUME found # {}
      PROVE  /\ ResumeRow(id, found) \in ResumePoint
             /\ ResumeRow(id, found).backfill_status = st
             /\ ResumeRow(id, found).last_success_version = Min(S)
  <2> HIDE DEF S, st
  <2> QED BY <1>5, <1>6, <1>7, <1>8 DEF ResumePoint
<1>9. found # {} => ResumeRow(id, found) # None
  BY <1>8, ParquetAssumption
<1>10. found = {} => ResumeRow(id, found) = None
  BY <1>6
<1> HIDE DEF S, st
<1>11. found # {} => \A t \in found : ResumeRow(id, found).last_success_version
                                         <= row(t).last_success_version
  BY <1>5, <1>8
<1> QED BY <1>7, <1>8, <1>9, <1>10, <1>11

------------------------------------------------------------------------------
(***************************************************************************)
(* Type invariant.  A start resets the handlers but not what a loop had    *)
(* left, so it needs to know that nothing is left over from before:        *)
(* Lifecycle says what is empty when.  After cleanup began the stream is   *)
(* exhausted, the tracker's cleanup comes last and saves what was tracked, *)
(* and a process that is not running has nothing in flight.                *)
(***************************************************************************)
Lifecycle ==
    /\ handler \in {"idle", "closed"} => uploaded = NoUploads
    /\ handler \in {"cleanup", "closed"} => StreamEnded
    /\ saver = "cleanup" => handler = "closed" /\ to_tracker = <<>>
    /\ \A t \in saving : last_success_batch[t] # None
    /\ phase # "running" =>
          /\ handler \in {"idle", "closed"} /\ saving = {}
          /\ to_buffer = <<>> /\ to_tracker = <<>>
    /\ phase = "starting" => handler = "idle" /\ saver = "idle"

\* Both initial states are well formed.
LEMMA TypeOKInit == Init \/ CheckpointedInit => TypeOK
<1> USE ParquetAssumption
<1>1. Down => /\ phase = "down" /\ mode = None /\ resetting = {}
              /\ starting_version \in Nat /\ ending_version \in OptionalVersion
              /\ next_version \in Nat /\ to_buffer \in Seq(Batch)
              /\ internal_buffers \in [Tables -> [rows : SUBSET Versions, size : Nat,
                                                 metadata : Batch \cup {None}]]
              /\ handler = "idle" /\ item = None /\ left = {}
              /\ uploaded \in [Tables -> Batch \cup {None}]
              /\ to_tracker \in Seq([Tables -> Batch \cup {None}])
              /\ last_success_batch \in [Tables -> Versions \cup {None}]
              /\ saver = "idle" /\ saving = {}
  BY DEF Down, OptionalVersion, NewBuffer, NoUploads
<1>2. Init => TypeOK
  BY <1>1 DEF Init, TypeOK
<1>3. CheckpointedInit => TypeOK
  BY <1>1 DEF CheckpointedInit, TypeOK
<1> QED BY <1>2, <1>3

\* A start keeps the shapes: whatever rows get_parquet_starting_version finds,
\* it requests the stream from a version and resets rows to well-formed ones.
LEMMA TypeOKGetStartingVersion ==
    ASSUME TypeOK, Lifecycle, GetStartingVersion
    PROVE  TypeOK'
<1>1. PICK m \in Modes, failed \in FailedQueries, failed_end \in FailedQueries :
         LET found == IF m.type = "backfill"
                      THEN BackfillStatuses(m.backfill_id, failed) ELSE {}
             row == IF m.type = "backfill"
                    THEN ResumeRow(m.backfill_id, found) ELSE None
             start == StartingVersion(m, MinProcessedVersion(failed), row)
         IN /\ start # None
            /\ mode' = m
            /\ starting_version' = start
            /\ next_version' = start
            /\ resetting' = IF m.type = "backfill" /\ m.overwrite_checkpoint
                            THEN found ELSE {}
            /\ reset_row' = RestartedBackfill(row, m, MinProcessedVersion(failed_end))
  BY DEF GetStartingVersion
<1> DEFINE found == IF m.type = "backfill"
                    THEN BackfillStatuses(m.backfill_id, failed) ELSE {}
           row == IF m.type = "backfill"
                  THEN ResumeRow(m.backfill_id, found) ELSE None
           start == StartingVersion(m, MinProcessedVersion(failed), row)
<1>2. /\ start # None /\ mode' = m /\ starting_version' = start /\ next_version' = start
      /\ resetting' = IF m.type = "backfill" /\ m.overwrite_checkpoint THEN found ELSE {}
      /\ reset_row' = RestartedBackfill(row, m, MinProcessedVersion(failed_end))
  BY <1>1
<1>3. m \in ProcessorMode /\ m # None
  BY ParquetAssumption
<1>4. /\ MinProcessedVersion(failed) \in OptionalVersion
      /\ MinProcessedVersion(failed_end) \in OptionalVersion
  BY MinProcessedFact
<1>5. m.type = "backfill" => m.backfill_id \in BackfillIds
  BY <1>3, ModeCases DEF BackfillConfig
<1>6. found \in SUBSET Tables
      /\ (m.type = "backfill" =>
            \A t \in found : backfill_processor_status[t][m.backfill_id] # None)
  BY DEF BackfillStatuses, LookedUp
<1>7. /\ row = None \/ row.last_success_version \in Nat
      /\ found # {} => row # None
  <2>1. CASE m.type = "backfill"
    <3>1. row = ResumeRow(m.backfill_id, found)
      BY <2>1
    <3> HIDE DEF row, found
    <3>2. found = {} => ResumeRow(m.backfill_id, found) = None
      BY <1>5, <1>6, <2>1, ResumeRowFact
    <3>3. found # {} => /\ ResumeRow(m.backfill_id, found) \in ResumePoint
                        /\ ResumeRow(m.backfill_id, found) # None
      BY <1>5, <1>6, <2>1, ResumeRowFact
    <3> QED BY <3>1, <3>2, <3>3 DEF ResumePoint
  <2>2. CASE m.type # "backfill"
    BY <2>2
  <2> QED BY <2>1, <2>2
<1> HIDE DEF row, found
<1>8. start \in Nat
  BY <1>2, <1>3, <1>4, <1>7, StartingVersionType
<1>9. resetting' \subseteq Tables /\ (resetting' # {} => reset_row' \in BackfillRow)
  BY <1>2, <1>3, <1>4, <1>6, <1>7, RestartedBackfillType
<1> HIDE DEF start
<1>10. /\ phase' = "starting" /\ starts' \in 0 .. MaxStarts
       /\ internal_buffers' = [t \in Tables |-> NewBuffer]
       /\ handler' = "idle" /\ saver' = "idle"
       /\ last_success_batch' = [t \in Tables |-> None]
       /\ UNCHANGED <<status, bucket, ending_version, to_buffer, item, left, uploaded,
                      to_tracker, saving>>
  BY ParquetAssumption DEF GetStartingVersion, TypeOK
<1>11. /\ internal_buffers' \in [Tables -> [rows : SUBSET Versions, size : Nat,
                                           metadata : Batch \cup {None}]]
       /\ last_success_batch' \in [Tables -> Versions \cup {None}]
  BY <1>10 DEF NewBuffer
<1>12. phase # "running"
  BY DEF GetStartingVersion
<1>13. /\ item' = None /\ left' = {} /\ saving' = {}
  BY <1>10, <1>12 DEF TypeOK, Lifecycle
<1> QED BY <1>2, <1>3, <1>8, <1>9, <1>10, <1>11, <1>13 DEF TypeOK, status

\* Appending a batch of the chain keeps a buffer well formed.
LEMMA AppendType ==
    ASSUME NEW t \in Tables, NEW b \in Batch,
           NEW buf \in [rows : SUBSET Versions, size : Nat, metadata : Batch \cup {None}]
    PROVE  AppendToBuffer(buf, t, b) \in
              [rows : SUBSET Versions, size : Nat, metadata : Batch \cup {None}]
<1>1. RowsOf(t, b) \subseteq Versions /\ SizeOf(t, b) \in Nat
  BY RowsOfFact
<1>2. [start_version |-> IF buf.metadata = None THEN b.start_version
                         ELSE buf.metadata.start_version,
       end_version |-> b.end_version] \in Batch
  BY DEF Batch
<1> QED BY <1>1, <1>2 DEF AppendToBuffer

\* Uploading a buffer puts versions of the chain into the bucket.
LEMMA UploadType ==
    ASSUME TypeOK, NEW t \in Tables, Upload(t)
    PROVE  bucket' \in [Tables -> SUBSET Versions]
  BY DEF TypeOK, Upload

\* The actions of the stream and the buffer step preserve the type invariant.
LEMMA TypeOKBuffer ==
    ASSUME TypeOK, Lifecycle,
           \/ Stream \/ BeginProcess \/ EndProcess \/ BeginPoll \/ BeginCleanup
           \/ EndPoll \/ EndCleanup
           \/ \E t \in Tables : Buffer(t) \/ UploadAndBuffer(t) \/ DrainBuffer(t)
    PROVE  TypeOK'
<1> USE DEF TypeOK, NotInBuffer, status, request, tracker, buffer
<1>1. CASE Stream
  <2>1. PICK e \in Versions :
           /\ next_version <= e
           /\ to_buffer' = Append(to_buffer,
                             [start_version |-> next_version, end_version |-> e])
           /\ next_version' = e + 1
    BY <1>1 DEF Stream
  <2>2. [start_version |-> next_version, end_version |-> e] \in Batch
    BY <2>1, ParquetAssumption DEF Batch, Versions
  <2>3. to_buffer' \in Seq(Batch) /\ next_version' \in Nat
    BY <2>1, <2>2, VersionsAreNat
  <2> QED BY <1>1, <2>3 DEF Stream
<1>2. CASE BeginProcess
  <2>1. Head(to_buffer) \in Batch /\ Tail(to_buffer) \in Seq(Batch)
    BY <1>2 DEF BeginProcess
  <2>2. Emitted \subseteq Tables
    BY ParquetAssumption DEF Emitted
  <2> QED BY <1>2, <2>1, <2>2, BatchFact DEF BeginProcess
<1>3. ASSUME NEW t \in Tables, Buffer(t) PROVE TypeOK'
  <2>1. item \in Batch
    BY <1>3 DEF Buffer
  <2>2. AppendToBuffer(internal_buffers[t], t, item) \in
           [rows : SUBSET Versions, size : Nat, metadata : Batch \cup {None}]
    BY <2>1, AppendType
  <2> QED BY <1>3, <2>2 DEF Buffer
<1>4. ASSUME NEW t \in Tables, UploadAndBuffer(t) PROVE TypeOK'
  <2>1. item \in Batch /\ internal_buffers[t].metadata \in Batch
    BY <1>4 DEF UploadAndBuffer
  <2>2. NewBuffer \in [rows : SUBSET Versions, size : Nat, metadata : Batch \cup {None}]
    BY DEF NewBuffer
  <2>3. AppendToBuffer(NewBuffer, t, item) \in
           [rows : SUBSET Versions, size : Nat, metadata : Batch \cup {None}]
    BY <2>1, <2>2, AppendType
  <2>4. bucket' \in [Tables -> SUBSET Versions]
    BY <1>4, UploadType DEF UploadAndBuffer
  <2> QED BY <1>4, <2>1, <2>3, <2>4 DEF UploadAndBuffer
<1>5. ASSUME NEW t \in Tables, DrainBuffer(t) PROVE TypeOK'
  <2>1. internal_buffers[t].metadata \in Batch
    BY <1>5 DEF DrainBuffer
  <2>2. NewBuffer \in [rows : SUBSET Versions, size : Nat, metadata : Batch \cup {None}]
    BY DEF NewBuffer
  <2>3. bucket' \in [Tables -> SUBSET Versions]
    BY <1>5, UploadType DEF DrainBuffer
  <2> QED BY <1>5, <2>1, <2>2, <2>3 DEF DrainBuffer
<1>6. ASSUME NEW next \in {"idle", "closed"}, Report(next), left = {}, phase = "running"
      PROVE  TypeOK'
  <2>1. to_tracker' \in Seq([Tables -> Batch \cup {None}])
    <3>1. ASSUME NEW M, uploaded \in M, to_tracker \in Seq(M) PROVE to_tracker' \in Seq(M)
      <4> HIDE DEF TypeOK
      <4> QED BY <1>6, <3>1 DEF Report
    <3> QED BY <3>1
  <2>2. uploaded' \in [Tables -> Batch \cup {None}]
    BY <1>6 DEF Report, NoUploads
  <2> QED BY <1>6, <2>1, <2>2 DEF Report
<1>7. CASE BeginPoll \/ BeginCleanup
  BY <1>7 DEF BeginPoll, BeginCleanup
<1>8. CASE EndProcess \/ EndPoll \/ EndCleanup
  BY <1>6, <1>8 DEF EndProcess, EndPoll, EndCleanup
<1> QED BY <1>1, <1>2, <1>3, <1>4, <1>5, <1>7, <1>8

\* So do the start's later steps, the version tracker and the ways to go down.
LEMMA TypeOKOther ==
    ASSUME TypeOK, Lifecycle,
           \/ GetEndVersion \/ Track \/ EndPollSave \/ Finish \/ Crash
           \/ \E why \in {"poll", "cleanup"} : BeginSave(why)
           \/ \E t \in Tables : ResetBackfill(t) \/ SaveStatus(t) \/ UploadFails(t) \/ Panic(t)
    PROVE  TypeOK'
<1> USE DEF TypeOK, NotInTracker, status, request, tracker, buffer
<1>1. CASE GetEndVersion
  <2>1. PICK failed \in FailedQueries :
           ending_version' = EndVersion(mode, MinProcessedVersion(failed))
    BY <1>1 DEF GetEndVersion
  <2>2. mode \in ProcessorMode
    BY <1>1, ParquetAssumption DEF GetEndVersion
  <2>3. ending_version' \in OptionalVersion
    BY <2>1, <2>2, MinProcessedFact, EndVersionType
  <2> QED BY <1>1, <2>3 DEF GetEndVersion
<1>2. ASSUME NEW t \in Tables, ResetBackfill(t) PROVE TypeOK'
  <2>1. reset_row \in BackfillRow
    BY <1>2 DEF ResetBackfill
  <2>2. backfill_processor_status' \in [Tables -> [BackfillIds -> BackfillRow \cup {None}]]
    BY <1>2, <2>1 DEF ResetBackfill
  <2> QED BY <1>2, <2>1, <2>2 DEF ResetBackfill
<1>3. CASE Track
  <2> DEFINE map == Head(to_tracker)
  <2>1. map \in [Tables -> Batch \cup {None}]
        /\ Tail(to_tracker) \in Seq([Tables -> Batch \cup {None}])
    BY <1>3 DEF Track
  <2>2. last_success_batch' = [t \in Tables |->
            IF map[t] = None THEN last_success_batch[t] ELSE map[t].end_version]
    BY <1>3 DEF Track
  <2> HIDE DEF map
  <2>3. last_success_batch' \in [Tables -> Versions \cup {None}]
    BY <2>1, <2>2 DEF Batch
  <2>4. to_tracker' = Tail(to_tracker)
    BY <1>3 DEF Track
  <2> QED BY <1>3, <2>1, <2>3, <2>4 DEF Track
<1>4. ASSUME NEW why \in {"poll", "cleanup"}, BeginSave(why) PROVE TypeOK'
  BY <1>4 DEF BeginSave
<1>5. ASSUME NEW t \in Tables, SaveStatus(t) PROVE TypeOK'
  <2> DEFINE v == last_success_batch[t]
  <2>0. v # None
    BY <1>5 DEF SaveStatus, Lifecycle
  <2>1. mode \in ProcessorMode /\ v \in Versions /\ v \in Nat
    BY <1>5, <2>0, ParquetAssumption, VersionsAreNat DEF SaveStatus, Lifecycle
  <2>2. processor_status' \in [Tables -> Versions \cup {None}]
    <3>1. SavedStatus(processor_status[t], v) \in Versions
      BY <2>1, StatusRowFact
    <3> QED BY <1>5, <3>1 DEF SaveStatus
  <2>3. backfill_processor_status' \in [Tables -> [BackfillIds -> BackfillRow \cup {None}]]
    <3>1. CASE mode.type = "backfill"
      <4>1. mode.backfill_id \in BackfillIds
        BY <2>1, <3>1, ModeCases DEF BackfillConfig
      <4>2. SavedBackfill(backfill_processor_status[t][mode.backfill_id], mode, v)
               \in BackfillRow
        <5>1. backfill_processor_status[t][mode.backfill_id] \in BackfillRow \cup {None}
          BY <4>1
        <5> HIDE DEF v, TypeOK
        <5> QED BY <2>1, <3>1, <5>1, SavedBackfillType
      <4> QED BY <1>5, <3>1, <4>1, <4>2 DEF SaveStatus
    <3>2. CASE mode.type # "backfill"
      BY <1>5, <3>2 DEF SaveStatus
    <3> QED BY <3>1, <3>2
  <2> QED BY <1>5, <2>2, <2>3 DEF SaveStatus
<1>6. CASE EndPollSave
  BY <1>6 DEF EndPollSave
<1>7. CASE Finish
  BY <1>7 DEF Finish
<1>8. ASSUME GoDown, UNCHANGED <<status, starts>>,
             bucket' \in [Tables -> SUBSET Versions]
      PROVE  TypeOK'
  BY <1>8 DEF GoDown, OptionalVersion, NewBuffer, NoUploads
<1>9. CASE Crash
  BY <1>8, <1>9 DEF Crash
<1>10. ASSUME NEW t \in Tables, UploadFails(t) PROVE TypeOK'
  BY <1>8, <1>10, UploadType DEF UploadFails
<1>11. ASSUME NEW t \in Tables, Panic(t) PROVE TypeOK'
  BY <1>8, <1>11 DEF Panic
<1> QED BY <1>1, <1>2, <1>3, <1>4, <1>5, <1>6, <1>7, <1>9, <1>10, <1>11

\* Lifecycle holds initially.
LEMMA LifecycleInit == Init \/ CheckpointedInit => Lifecycle
  BY DEF Init, CheckpointedInit, Down, Lifecycle

\* And every action preserves it: once the stream has ended it delivers no more,
\* and nothing reaches the tracker after its cleanup began.
LEMMA LifecycleStep ==
    ASSUME TypeOK, TypeOK', Lifecycle, Next
    PROVE  Lifecycle'
<1> USE DEF Lifecycle, NotInBuffer, NotInTracker, status, request, tracker, buffer
<1>1. CASE GetStartingVersion
  BY <1>1 DEF GetStartingVersion, TypeOK
<1>2. ASSUME NEW t \in Tables, ResetBackfill(t) PROVE Lifecycle'
  BY <1>2 DEF ResetBackfill, StreamEnded
<1>3. CASE GetEndVersion
  <2>1. handler = "idle"
    BY <1>3 DEF GetEndVersion
  <2> QED BY <1>3, <2>1 DEF GetEndVersion
<1>4. CASE Stream
  <2>1. ~StreamEnded
    <3>1. PICK e \in Versions : next_version <= e /\ e <= LastRequested
      BY <1>4 DEF Stream
    <3>2. /\ next_version \in Nat /\ e \in Nat /\ MaxVersion \in Nat
          /\ ending_version # None => ending_version \in Nat
      BY VersionsAreNat, ParquetAssumption DEF TypeOK, OptionalVersion
    <3>3. ending_version # None => ~(next_version > ending_version)
      BY <3>1, <3>2 DEF LastRequested
    <3> QED BY <3>3 DEF StreamEnded
  <2> QED BY <1>4, <2>1 DEF Stream
<1>5. CASE BeginProcess
  BY <1>5 DEF BeginProcess
<1>6. ASSUME NEW t \in Tables, Buffer(t) \/ UploadAndBuffer(t) PROVE Lifecycle'
  BY <1>6 DEF Buffer, UploadAndBuffer
<1>7. ASSUME NEW t \in Tables, DrainBuffer(t) PROVE Lifecycle'
  BY <1>7 DEF DrainBuffer, StreamEnded
<1>8. CASE BeginPoll
  BY <1>8 DEF BeginPoll
<1>9. CASE BeginCleanup
  BY <1>9 DEF BeginCleanup, StreamEnded
<1>10. CASE EndProcess \/ EndPoll
  BY <1>10 DEF EndProcess, EndPoll, Report
<1>11. CASE EndCleanup
  BY <1>11 DEF EndCleanup, Report, StreamEnded
<1>12. CASE Track
  <2>1. saving = {} /\ saver = "idle"
    BY <1>12 DEF Track, TypeOK
  <2> QED BY <1>12, <2>1 DEF Track, StreamEnded
<1>13. ASSUME NEW why \in {"poll", "cleanup"}, BeginSave(why) PROVE Lifecycle'
  BY <1>13 DEF BeginSave, StreamEnded
<1>14. ASSUME NEW t \in Tables, SaveStatus(t) PROVE Lifecycle'
  BY <1>14 DEF SaveStatus, StreamEnded
<1>15. CASE EndPollSave
  BY <1>15 DEF EndPollSave, StreamEnded
<1>16. CASE Finish
  BY <1>16 DEF Finish, StreamEnded
<1>17. ASSUME GoDown PROVE Lifecycle'
  BY <1>17 DEF GoDown
<1>18. CASE Crash
  BY <1>17, <1>18 DEF Crash
<1>19. ASSUME NEW t \in Tables, UploadFails(t) \/ Panic(t) PROVE Lifecycle'
  BY <1>17, <1>19 DEF UploadFails, Panic
<1> QED BY <1>1, <1>2, <1>3, <1>4, <1>5, <1>6, <1>7, <1>8, <1>9, <1>10, <1>11, <1>12,
           <1>13, <1>14, <1>15, <1>16, <1>18, <1>19 DEF Next

\* A step preserves both.
LEMMA TypeStep ==
    ASSUME TypeOK, Lifecycle, [Next]_vars
    PROVE  TypeOK' /\ Lifecycle'
<1>1. CASE UNCHANGED vars
  BY <1>1 DEF TypeOK, Lifecycle, StreamEnded, NoUploads, vars, status, request, buffer, tracker
<1>2. CASE Next
  <2>1. TypeOK'
    BY <1>2, TypeOKGetStartingVersion, TypeOKBuffer, TypeOKOther DEF Next
  <2> QED BY <1>2, <2>1, LifecycleStep
<1> QED BY <1>1, <1>2

\* The shapes the code gives to the rows of its tables, buffers, handlers and
\* channels hold in every reachable state, whether or not the tables had
\* checkpoints before.
THEOREM TypeCorrect == Spec \/ CheckpointedSpec => []TypeOK
<1>1. Init \/ CheckpointedInit => TypeOK /\ Lifecycle
  BY TypeOKInit, LifecycleInit
<1>2. TypeOK /\ Lifecycle /\ [Next]_vars => (TypeOK /\ Lifecycle)'
  BY TypeStep
<1> QED BY <1>1, <1>2, PTL DEF Spec, CheckpointedSpec

------------------------------------------------------------------------------
(***************************************************************************)
(* A table's checkpoint                                                    *)
(***************************************************************************)

\* The only statement that touches processor_status is the guarded upsert.
LEMMA StatusStep ==
    ASSUME TypeOK, Lifecycle, [Next]_vars, NEW t \in Tables
    PROVE  \/ processor_status'[t] = processor_status[t]
           \/ /\ SaveStatus(t) /\ mode.type = "default" /\ last_success_batch[t] \in Versions
              /\ processor_status'[t] \in Versions
              /\ processor_status'[t] \in {processor_status[t], last_success_batch[t]}
              /\ processor_status[t] # None => processor_status[t] <= processor_status'[t]
<1>1. ASSUME NEW u \in Tables, SaveStatus(u), u = t, mode.type = "default"
      PROVE  /\ last_success_batch[t] \in Versions
             /\ processor_status'[t] \in Versions
             /\ processor_status'[t] \in {processor_status[t], last_success_batch[t]}
             /\ processor_status[t] # None => processor_status[t] <= processor_status'[t]
  <2>1. last_success_batch[t] \in Versions
    BY <1>1 DEF SaveStatus, Lifecycle, TypeOK
  <2>2. processor_status'[t] = SavedStatus(processor_status[t], last_success_batch[t])
    BY <1>1 DEF SaveStatus, TypeOK
  <2>3. processor_status[t] \in Versions \cup {None}
    BY DEF TypeOK
  <2> QED BY <2>1, <2>2, <2>3, StatusRowFact
<1>2. ASSUME NEW u \in Tables, SaveStatus(u), u # t \/ mode.type # "default"
      PROVE  processor_status'[t] = processor_status[t]
  BY <1>2 DEF SaveStatus, TypeOK
<1>3. ASSUME Next, ~ \E u \in Tables : SaveStatus(u) PROVE UNCHANGED processor_status
  BY <1>3 DEF Next, GetStartingVersion, ResetBackfill, GetEndVersion, Stream, BeginProcess,
       Buffer, UploadAndBuffer, EndProcess, BeginPoll, BeginCleanup, DrainBuffer, EndPoll,
       EndCleanup, Report, Track, BeginSave, EndPollSave, Finish, Crash, UploadFails, Panic,
       NotInBuffer, status
<1> QED BY <1>1, <1>2, <1>3 DEF vars, status

\* last_success_version of a table never decreases, whichever restart indexes
\* again what the table has already checkpointed.
THEOREM StatusNeverRegresses == Spec \/ CheckpointedSpec => StatusMonotone
<1>1. Init \/ CheckpointedInit => TypeOK /\ Lifecycle
  BY TypeOKInit, LifecycleInit
<1>2. TypeOK /\ Lifecycle /\ [Next]_vars => (TypeOK /\ Lifecycle)'
  BY TypeStep
<1>3. TypeOK /\ Lifecycle /\ [Next]_vars =>
        [\A t \in Tables : processor_status[t] # None =>
            processor_status'[t] >= processor_status[t]]_processor_status
  <2> SUFFICES ASSUME TypeOK, Lifecycle, [Next]_vars,
                      NEW t \in Tables, processor_status[t] # None
               PROVE  processor_status'[t] >= processor_status[t]
    OBVIOUS
  <2>1. processor_status[t] \in Nat
    BY VersionsAreNat DEF TypeOK
  <2>2. CASE processor_status'[t] = processor_status[t]
    BY <2>1, <2>2
  <2>3. CASE processor_status'[t] # processor_status[t]
    BY <2>1, <2>3, StatusStep, VersionsAreNat
  <2> QED BY <2>2, <2>3
<1> QED BY <1>1, <1>2, <1>3, PTL DEF Spec, CheckpointedSpec, StatusMonotone

------------------------------------------------------------------------------
(***************************************************************************)
(* Batches on their way to the buffers                                     *)
(***************************************************************************)
Ordered(b) ==
    /\ b.start_version <= b.end_version
    /\ b.end_version < b.start_version + MaxBatch

\* The batches of q follow one another up to version n.
Consecutive(q, n) ==
    \A k \in 1 .. Len(q) :
        /\ Ordered(q[k])
        /\ q[k].end_version + 1 = IF k < Len(q) THEN q[k + 1].start_version ELSE n

FirstOf(q, n) == IF q # <<>> THEN q[1].start_version ELSE n

\* A batch that starts where the queue ends continues it.
LEMMA AppendConsecutive ==
    ASSUME NEW q \in Seq(Batch), NEW n \in Nat, Consecutive(q, n),
           NEW b \in Batch, Ordered(b), b.start_version = n
    PROVE  /\ Consecutive(Append(q, b), b.end_version + 1)
           /\ FirstOf(Append(q, b), b.end_version + 1) = FirstOf(q, n)
<1> DEFINE r == Append(q, b)
<1>1. /\ Len(r) = Len(q) + 1 /\ Len(q) \in Nat /\ r[Len(q) + 1] = b
      /\ \A k \in 1 .. Len(q) : r[k] = q[k]
      /\ r # <<>>
  OBVIOUS
<1>2. q # <<>> => 1 \in 1 .. Len(q)
  OBVIOUS
<1> HIDE DEF r
<1>3. FirstOf(r, b.end_version + 1) = FirstOf(q, n)
  <2>1. CASE q = <<>>
    <3>1. Len(q) = 0
      BY <2>1
    <3> QED BY <1>1, <2>1, <3>1 DEF FirstOf
  <2>2. CASE q # <<>>
    BY <1>1, <1>2, <2>2 DEF FirstOf
  <2> QED BY <2>1, <2>2
<1>4. ASSUME NEW k \in 1 .. Len(r)
      PROVE  /\ Ordered(r[k])
             /\ r[k].end_version + 1 = IF k < Len(r) THEN r[k + 1].start_version
                                       ELSE b.end_version + 1
  <2>1. CASE k = Len(q) + 1
    BY <1>1, <2>1
  <2>2. CASE k = Len(q)
    <3>1. k \in 1 .. Len(q) /\ ~(k < Len(q)) /\ k < Len(r) /\ k + 1 = Len(q) + 1
      BY <1>1, <1>4, <2>2
    <3>2. q[k].end_version + 1 = n /\ Ordered(q[k])
      BY <3>1 DEF Consecutive
    <3> QED BY <1>1, <3>1, <3>2
  <2>3. CASE k < Len(q)
    <3>1. k \in 1 .. Len(q) /\ k + 1 \in 1 .. Len(q) /\ k < Len(r)
      BY <1>1, <1>4, <2>3
    <3>2. q[k].end_version + 1 = q[k + 1].start_version /\ Ordered(q[k])
      BY <2>3, <3>1 DEF Consecutive
    <3> QED BY <1>1, <3>1, <3>2
  <2> QED BY <1>1, <1>4, <2>1, <2>2, <2>3
<1>5. Consecutive(r, b.end_version + 1)
  BY <1>4 DEF Consecutive
<1> QED BY <1>3, <1>5 DEF r

\* What is left after the first batch is taken starts where that batch ends.
LEMMA TailConsecutive ==
    ASSUME NEW q \in Seq(Batch), q # <<>>, NEW n \in Nat, Consecutive(q, n)
    PROVE  /\ Consecutive(Tail(q), n) /\ Ordered(q[1])
           /\ q[1].end_version + 1 = FirstOf(Tail(q), n)
<1> DEFINE r == Tail(q)
<1>1. /\ Len(q) \in Nat /\ Len(q) >= 1 /\ Len(r) = Len(q) - 1 /\ r \in Seq(Batch)
      /\ \A k \in 1 .. Len(q) - 1 : r[k] = q[k + 1]
  OBVIOUS
<1> HIDE DEF r
<1>2. r = <<>> <=> Len(r) = 0
  BY <1>1, EmptySeq
<1>3. 1 \in 1 .. Len(q)
  BY <1>1
<1>4. Ordered(q[1])
  BY <1>3 DEF Consecutive
<1>5. q[1].end_version + 1 = FirstOf(r, n)
  <2>1. CASE Len(q) = 1
    <3>1. q[1].end_version + 1 = n
      BY <1>3, <2>1 DEF Consecutive
    <3> QED BY <1>1, <1>2, <2>1, <3>1 DEF FirstOf
  <2>2. CASE Len(q) # 1
    <3>1. 1 < Len(q) /\ 1 \in 1 .. Len(q) - 1 /\ Len(r) # 0
      BY <1>1, <2>2
    <3>2. q[1].end_version + 1 = q[2].start_version
      BY <1>3, <3>1 DEF Consecutive
    <3>3. r[1] = q[2]
      BY <1>1, <3>1
    <3> QED BY <1>2, <3>1, <3>2, <3>3 DEF FirstOf
  <2> QED BY <2>1, <2>2
<1>6. ASSUME NEW k \in 1 .. Len(r)
      PROVE  /\ Ordered(r[k])
             /\ r[k].end_version + 1 = IF k < Len(r) THEN r[k + 1].start_version ELSE n
  <2>1. k + 1 \in 1 .. Len(q) /\ (k < Len(r) <=> k + 1 < Len(q)) /\ k \in 1 .. Len(q) - 1
    BY <1>1, <1>6
  <2>2. /\ q[k + 1].end_version + 1 = IF k + 1 < Len(q) THEN q[k + 1 + 1].start_version ELSE n
        /\ Ordered(q[k + 1])
    BY <2>1 DEF Consecutive
  <2>3. k < Len(r) => r[k + 1] = q[k + 1 + 1]
    BY <1>1, <1>6
  <2> QED BY <1>1, <2>1, <2>2, <2>3
<1>7. Consecutive(r, n)
  BY <1>6 DEF Consecutive
<1> QED BY <1>4, <1>5, <1>7 DEF r

\* The first version the buffer step has not received yet, and the first one
\* that it has not offered to the buffer of table t.
Upcoming == FirstOf(to_buffer, next_version)
NextFor(t) == IF handler = "process" /\ t \in left THEN item.start_version ELSE Upcoming

Chained ==
    /\ Consecutive(to_buffer, next_version)
    /\ handler = "process" => Ordered(item) /\ item.end_version + 1 = Upcoming

\* A loop visits a table once per handler, and drains only filled buffers.
LoopInv ==
    /\ left \subseteq Emitted
    /\ \A t \in left : /\ uploaded[t] = None
                       /\ handler \in {"poll", "cleanup"} => internal_buffers[t].metadata # None

\* The state a start or a crash leaves: nothing buffered, nothing reported.
Fresh ==
    /\ to_buffer = <<>> /\ handler = "idle" /\ left = {}
    /\ internal_buffers = [t \in Tables |-> NewBuffer]
    /\ uploaded = NoUploads /\ to_tracker = <<>>
    /\ last_success_batch = [t \in Tables |-> None]
    /\ next_version = starting_version

\* Emitted tables are tables.
LEMMA EmittedFact == Emitted \subseteq Tables
  BY ParquetAssumption DEF Emitted

\* The versions in between are natural numbers.
LEMMA NextForType ==
    ASSUME TypeOK
    PROVE  Upcoming \in Nat /\ \A t \in Tables : NextFor(t) \in Nat
<1>1. Upcoming \in Nat
  <2>1. to_buffer # <<>> => to_buffer[1] \in Batch
    BY DEF TypeOK
  <2> QED BY <2>1, BatchFact DEF TypeOK, Upcoming, FirstOf
<1>2. handler = "process" => item.start_version \in Nat
  BY BatchFact DEF TypeOK
<1> QED BY <1>1, <1>2 DEF NextFor

\* A start and everything that ends the process leave a fresh state.
LEMMA FreshStep ==
    ASSUME TypeOK, Lifecycle,
           \/ GetStartingVersion \/ Crash
           \/ \E t \in Tables : UploadFails(t) \/ Panic(t)
    PROVE  Fresh'
<1>1. CASE GetStartingVersion
  <2>1. /\ to_buffer = <<>> /\ to_tracker = <<>> /\ left = {} /\ uploaded = NoUploads
    BY <1>1 DEF GetStartingVersion, Lifecycle, TypeOK
  <2>2. next_version' = starting_version'
    BY <1>1 DEF GetStartingVersion
  <2> QED BY <1>1, <2>1, <2>2 DEF GetStartingVersion, Fresh, NoUploads
<1>2. GoDown => Fresh'
  BY DEF GoDown, Fresh, NoUploads
<1> QED BY <1>1, <1>2 DEF Crash, UploadFails, Panic

\* The initial states are fresh.
LEMMA FreshInit == Init \/ CheckpointedInit => Fresh
  BY DEF Init, CheckpointedInit, Down, Fresh

\* In a fresh state the pipeline is empty.
LEMMA FreshChained == ASSUME Fresh PROVE Chained /\ LoopInv
<1>1. Len(to_buffer) = 0
  BY DEF Fresh
<1>2. Consecutive(to_buffer, next_version)
  BY <1>1 DEF Consecutive
<1> QED BY <1>2 DEF Chained, Fresh, LoopInv

\* A streamed batch joins the end of the queue.
LEMMA StreamChained ==
    ASSUME TypeOK, Chained, Stream
    PROVE  Chained' /\ Upcoming' = Upcoming /\ \A t \in Tables : NextFor(t)' = NextFor(t)
<1>1. PICK e \in Versions :
         /\ next_version <= e /\ e < next_version + MaxBatch
         /\ to_buffer' = Append(to_buffer,
                           [start_version |-> next_version, end_version |-> e])
         /\ next_version' = e + 1
  BY DEF Stream
<1> DEFINE b == [start_version |-> next_version, end_version |-> e]
<1>2. b \in Batch /\ b.start_version = next_version /\ b.end_version = e
  BY <1>1, ParquetAssumption DEF TypeOK, Batch, Versions
<1>3. UNCHANGED <<handler, item, left>>
  BY DEF Stream, buffer
<1> HIDE DEF b
<1>4. Ordered(b)
  BY <1>1, <1>2 DEF Ordered
<1>5. Consecutive(to_buffer', next_version') /\ Upcoming' = Upcoming
  <2>1. to_buffer' = Append(to_buffer, b) /\ next_version' = b.end_version + 1
    BY <1>1, <1>2 DEF b
  <2>2. to_buffer \in Seq(Batch) /\ next_version \in Nat /\ Consecutive(to_buffer, next_version)
    BY DEF TypeOK, Chained
  <2> QED BY <1>2, <1>4, <2>1, <2>2, AppendConsecutive DEF Upcoming
<1> QED BY <1>3, <1>5 DEF Chained, NextFor

\* The batch the buffer step takes is the one its tables expect.
LEMMA BeginProcessChained ==
    ASSUME TypeOK, Lifecycle, Chained, BeginProcess
    PROVE  /\ Chained' /\ LoopInv'
           /\ \A t \in Emitted : NextFor(t)' = NextFor(t)
<1>1. /\ to_buffer \in Seq(Batch) /\ to_buffer # <<>> /\ Head(to_buffer) = to_buffer[1]
      /\ next_version \in Nat /\ Consecutive(to_buffer, next_version)
  BY DEF BeginProcess, TypeOK, Chained
<1>2. /\ handler = "idle" /\ handler' = "process" /\ item' = to_buffer[1]
      /\ to_buffer' = Tail(to_buffer) /\ left' = Emitted /\ next_version' = next_version
      /\ uploaded' = uploaded
  BY <1>1 DEF BeginProcess, NotInBuffer
<1>3. /\ Consecutive(Tail(to_buffer), next_version) /\ Ordered(to_buffer[1])
      /\ to_buffer[1].end_version + 1 = FirstOf(Tail(to_buffer), next_version)
  BY <1>1, TailConsecutive
<1>4. Chained'
  BY <1>2, <1>3 DEF Chained, Upcoming
<1>5. LoopInv'
  <2>1. \A t \in Emitted : uploaded[t] = None
    BY <1>2, EmittedFact DEF Lifecycle, NoUploads
  <2> QED BY <1>2, <2>1 DEF LoopInv
<1>6. \A t \in Emitted : NextFor(t)' = NextFor(t)
  BY <1>1, <1>2 DEF NextFor, Upcoming, FirstOf
<1> QED BY <1>4, <1>5, <1>6

\* Visiting a table moves that table, and no other, past the batch.
LEMMA VisitChained ==
    ASSUME TypeOK, Chained, LoopInv, NEW t \in Tables, Buffer(t) \/ UploadAndBuffer(t)
    PROVE  /\ Chained' /\ LoopInv'
           /\ NextFor(t) = item.start_version /\ NextFor(t)' = item.end_version + 1
           /\ \A u \in Tables \ {t} : NextFor(u)' = NextFor(u)
<1>1. /\ handler = "process" /\ t \in left /\ left' = left \ {t}
      /\ UNCHANGED <<handler, item, to_buffer, next_version>>
      /\ uploaded' = uploaded \/ uploaded' = [uploaded EXCEPT ![t] = internal_buffers[t].metadata]
  BY DEF Buffer, UploadAndBuffer, NotInBuffer
<1>2. Upcoming' = Upcoming
  BY <1>1 DEF Upcoming
<1>3. Chained'
  BY <1>1, <1>2 DEF Chained
<1>4. LoopInv'
  <2>1. \A u \in left' : uploaded'[u] = None
    BY <1>1 DEF TypeOK, LoopInv
  <2> QED BY <1>1, <2>1 DEF LoopInv
<1>5. NextFor(t) = item.start_version /\ NextFor(t)' = item.end_version + 1
  BY <1>1, <1>2 DEF Chained, NextFor
<1>6. \A u \in Tables \ {t} : NextFor(u)' = NextFor(u)
  BY <1>1, <1>2 DEF NextFor
<1> QED BY <1>3, <1>4, <1>5, <1>6

\* Draining a buffer takes no batch.
LEMMA DrainChained ==
    ASSUME TypeOK, Chained, LoopInv, NEW t \in Tables, DrainBuffer(t)
    PROVE  /\ Chained' /\ LoopInv'
           /\ \A u \in Tables : NextFor(u)' = NextFor(u)
<1>1. /\ handler \in {"poll", "cleanup"} /\ left' = left \ {t} /\ t \in left
      /\ UNCHANGED <<handler, item, to_buffer, next_version>>
      /\ uploaded' = [uploaded EXCEPT ![t] = internal_buffers[t].metadata]
      /\ internal_buffers' = [internal_buffers EXCEPT ![t] = NewBuffer]
  BY DEF DrainBuffer, NotInBuffer
<1>2. Upcoming' = Upcoming
  BY <1>1 DEF Upcoming
<1>3. Chained' /\ \A u \in Tables : NextFor(u)' = NextFor(u)
  BY <1>1, <1>2 DEF Chained, NextFor
<1>4. \A u \in left' : uploaded'[u] = None /\ internal_buffers'[u] = internal_buffers[u]
  BY <1>1 DEF TypeOK, LoopInv
<1>5. LoopInv'
  BY <1>1, <1>4 DEF LoopInv
<1> QED BY <1>3, <1>5

\* Nor do the ends of handlers and the begin of a drain.
LEMMA HandlerChained ==
    ASSUME TypeOK, Lifecycle, Chained, LoopInv,
           \A t \in Tables : /\ internal_buffers[t].size > 0 <=> internal_buffers[t].metadata # None
                             /\ internal_buffers[t].metadata # None => t \in Emitted,
           BeginPoll \/ BeginCleanup \/ EndProcess \/ EndPoll \/ EndCleanup
    PROVE  /\ Chained' /\ LoopInv'
           /\ \A u \in Tables : NextFor(u)' = NextFor(u)
<1>1. /\ UNCHANGED <<to_buffer, next_version, internal_buffers>>
      /\ handler' # "process"
  BY DEF BeginPoll, BeginCleanup, EndProcess, EndPoll, EndCleanup, Report, NotInBuffer
<1>2. Upcoming' = Upcoming
  BY <1>1 DEF Upcoming
<1>3. handler = "process" => left = {}
  BY DEF BeginPoll, BeginCleanup, EndProcess, EndPoll, EndCleanup
<1>4. Chained' /\ \A u \in Tables : NextFor(u)' = NextFor(u)
  BY <1>1, <1>2, <1>3 DEF Chained, NextFor
<1>5. LoopInv'
  <2>1. CASE BeginPoll \/ BeginCleanup
    <3>1. /\ left' = {t \in Tables : internal_buffers[t].size > 0}
          /\ uploaded' = NoUploads
      BY <2>1 DEF BeginPoll, BeginCleanup, Lifecycle
    <3> QED BY <1>1, <3>1 DEF LoopInv, NoUploads
  <2>2. CASE EndProcess \/ EndPoll \/ EndCleanup
    <3>1. left' = {}
      BY <2>2 DEF EndProcess, EndPoll, EndCleanup, Report
    <3> QED BY <3>1 DEF LoopInv
  <2> QED BY <2>1, <2>2
<1> QED BY <1>4, <1>5

\* The steps of the start and of the tracker do not touch the pipeline.
LEMMA OtherChained ==
    ASSUME Chained, LoopInv,
           \/ UNCHANGED vars \/ GetEndVersion \/ Track \/ EndPollSave \/ Finish
           \/ \E why \in {"poll", "cleanup"} : BeginSave(why)
           \/ \E t \in Tables : ResetBackfill(t) \/ SaveStatus(t)
    PROVE  /\ UNCHANGED <<to_buffer, next_version, buffer, bucket, starting_version>>
           /\ Chained' /\ LoopInv'
           /\ \A u \in Tables : NextFor(u)' = NextFor(u)
<1>1. UNCHANGED <<to_buffer, next_version, buffer, bucket, starting_version>>
  BY DEF vars, request, GetEndVersion, Track, EndPollSave, Finish, BeginSave, ResetBackfill,
         SaveStatus, NotInTracker
<1>2. UNCHANGED <<to_buffer, next_version, internal_buffers, handler, item, left, uploaded>>
  BY <1>1 DEF buffer
<1>3. Upcoming' = Upcoming
  BY <1>2 DEF Upcoming
<1> QED BY <1>1, <1>2, <1>3 DEF Chained, LoopInv, NextFor

------------------------------------------------------------------------------
(***************************************************************************)
(* The buffers.  What a buffer holds are the rows of its metadata, which   *)
(* ends where the table's next batch starts.                               *)
(***************************************************************************)
BufferType == [rows : SUBSET Versions, size : Nat, metadata : Batch \cup {None}]

\* The contents agree with the metadata (BufferMetadata, for one buffer).
Holds(buf, t) ==
    /\ buf.size > 0 <=> buf.metadata # None
    /\ buf.rows = IF buf.metadata = None THEN {} ELSE RowsOf(t, buf.metadata)

\* The metadata is a range of versions that ends before version n.
EndsBefore(buf, n) ==
    buf.metadata # None =>
        /\ buf.metadata.start_version <= buf.metadata.end_version
        /\ buf.metadata.end_version + 1 = n

BufferInv(t) ==
    /\ Holds(internal_buffers[t], t)
    /\ EndsBefore(internal_buffers[t], NextFor(t))
    /\ internal_buffers[t].metadata # None => t \in Emitted

PipelineInv == Chained /\ LoopInv /\ \A t \in Tables : BufferInv(t)

\* An empty buffer holds nothing.
LEMMA NewBufferFact ==
    ASSUME NEW t, NEW n
    PROVE  NewBuffer \in BufferType /\ Holds(NewBuffer, t) /\ EndsBefore(NewBuffer, n)
           /\ NewBuffer.metadata = None
  BY DEF NewBuffer, BufferType, Holds, EndsBefore

\* append_to_buffer and update_current_batch_metadata agree: the rows appended
\* are those of the versions by which the metadata grows.
LEMMA AppendFact ==
    ASSUME NEW t \in Tables, NEW buf \in BufferType, NEW b \in Batch, Ordered(b),
           Holds(buf, t), EndsBefore(buf, b.start_version)
    PROVE  LET new == AppendToBuffer(buf, t, b) IN
           /\ new \in BufferType /\ new.metadata \in Batch
           /\ Holds(new, t) /\ EndsBefore(new, b.end_version + 1)
           /\ new.metadata # None
           /\ new.metadata.start_version = IF buf.metadata = None THEN b.start_version
                                           ELSE buf.metadata.start_version
<1> DEFINE new == AppendToBuffer(buf, t, b)
           md == [start_version |-> IF buf.metadata = None THEN b.start_version
                                    ELSE buf.metadata.start_version,
                  end_version |-> b.end_version]
<1>1. new \in BufferType
  BY AppendType DEF BufferType
<1>2. /\ new.metadata = md /\ new.rows = buf.rows \cup RowsOf(t, b)
      /\ new.size = buf.size + SizeOf(t, b)
  BY DEF AppendToBuffer
<1>3. /\ b.start_version \in Nat /\ b.end_version \in Nat
      /\ b.start_version <= b.end_version
  BY BatchFact DEF Ordered
<1>4. buf.metadata # None => buf.metadata \in Batch
  BY DEF BufferType
<1>5. md \in Batch /\ md.end_version = b.end_version
      /\ md.start_version = IF buf.metadata = None THEN b.start_version
                            ELSE buf.metadata.start_version
  BY <1>4 DEF Batch
<1> HIDE DEF new, md
<1>6. md # None
  BY <1>5, BatchFact
<1>7. new.size > 0
  BY <1>2, RowsOfFact DEF BufferType
<1>8. md.start_version <= md.end_version
  <2>1. CASE buf.metadata = None
    BY <1>3, <1>5, <2>1
  <2>2. CASE buf.metadata # None
    <3>1. /\ buf.metadata.start_version \in Nat /\ buf.metadata.end_version \in Nat
          /\ buf.metadata.start_version <= buf.metadata.end_version
          /\ buf.metadata.end_version + 1 = b.start_version
      BY <1>4, <2>2, BatchFact DEF EndsBefore
    <3> QED BY <1>3, <1>5, <2>2, <3>1
  <2> QED BY <2>1, <2>2
<1>9. new.rows = RowsOf(t, md)
  <2>1. CASE buf.metadata = None
    <3>1. InBatch(md) = InBatch(b)
      BY <1>5, <2>1 DEF InBatch
    <3> QED BY <1>2, <2>1, <3>1 DEF Holds, RowsOf
  <2>2. CASE buf.metadata # None
    <3> DEFINE a == buf.metadata.start_version  z == buf.metadata.end_version
    <3>1. a \in Nat /\ z \in Nat /\ a <= z /\ z + 1 = b.start_version
      BY <1>4, <2>2, BatchFact DEF EndsBefore
    <3>2. InBatch(buf.metadata) = a .. z /\ InBatch(md) = a .. b.end_version
          /\ InBatch(b) = b.start_version .. b.end_version
      BY <1>5, <2>2 DEF InBatch
    <3> HIDE DEF a, z
    <3>3. a .. b.end_version = (a .. z) \cup (b.start_version .. b.end_version)
      BY <1>3, <3>1
    <3> QED BY <1>2, <2>2, <3>2, <3>3 DEF Holds, RowsOf
  <2> QED BY <2>1, <2>2
<1>10. Holds(new, t)
  BY <1>2, <1>6, <1>7, <1>9 DEF Holds
<1>11. EndsBefore(new, b.end_version + 1)
  BY <1>2, <1>5, <1>8 DEF EndsBefore
<1> QED BY <1>1, <1>2, <1>5, <1>6, <1>10, <1>11 DEF new

\* A fresh pipeline satisfies the invariant.
LEMMA FreshPipeline == ASSUME Fresh PROVE PipelineInv
  BY FreshChained, NewBufferFact DEF PipelineInv, BufferInv, Fresh

\* Every step keeps the pipeline consistent: a table is offered each batch
\* exactly once and in order, so that its buffer never sees a gap.
LEMMA PipelineStep ==
    ASSUME TypeOK, TypeOK', Lifecycle, PipelineInv, [Next]_vars
    PROVE  PipelineInv'
<1> USE DEF PipelineInv
<1>0. \A u \in Tables : internal_buffers[u] \in BufferType
  BY DEF TypeOK, BufferType
<1>1. CASE GetStartingVersion \/ Crash \/ \E t \in Tables : UploadFails(t) \/ Panic(t)
  <2>1. Fresh'
    BY <1>1, FreshStep
  <2>2. Fresh' => PipelineInv'
    BY FreshPipeline, PTL
  <2> QED BY <2>1, <2>2
<1>2. CASE Stream
  <2>1. internal_buffers' = internal_buffers /\ UNCHANGED <<handler, left, uploaded>>
    BY <1>2 DEF Stream, buffer
  <2> QED BY <1>2, <2>1, StreamChained DEF BufferInv, LoopInv
<1>3. CASE BeginProcess
  <2>1. internal_buffers' = internal_buffers
    BY <1>3 DEF BeginProcess
  <2>2. \A t \in Tables : BufferInv(t)'
    BY <1>3, <2>1, BeginProcessChained, NewBufferFact DEF BufferInv, EndsBefore
  <2> QED BY <1>3, <2>2, BeginProcessChained
<1>4. ASSUME NEW t \in Tables, Buffer(t) PROVE PipelineInv'
  <2>1. /\ internal_buffers' = [internal_buffers EXCEPT ![t] =
                                  AppendToBuffer(internal_buffers[t], t, item)]
        /\ t \in left /\ item \in Batch /\ handler = "process"
    BY <1>4 DEF Buffer, TypeOK
  <2>2. /\ Chained' /\ LoopInv'
        /\ NextFor(t) = item.start_version /\ NextFor(t)' = item.end_version + 1
        /\ \A u \in Tables \ {t} : NextFor(u)' = NextFor(u)
    BY <1>4, VisitChained
  <2>3. Ordered(item)
    BY <2>1 DEF Chained
  <2>4. /\ Holds(AppendToBuffer(internal_buffers[t], t, item), t)
        /\ EndsBefore(AppendToBuffer(internal_buffers[t], t, item), item.end_version + 1)
    BY <1>0, <2>1, <2>2, <2>3, AppendFact DEF BufferInv
  <2>5. internal_buffers'[t] = AppendToBuffer(internal_buffers[t], t, item)
        /\ \A u \in Tables \ {t} : internal_buffers'[u] = internal_buffers[u]
    BY <2>1 DEF TypeOK
  <2>6. BufferInv(t)'
    BY <2>1, <2>2, <2>4, <2>5 DEF BufferInv, LoopInv
  <2>7. \A u \in Tables \ {t} : BufferInv(u)'
    BY <2>2, <2>5 DEF BufferInv
  <2> QED BY <2>2, <2>6, <2>7
<1>5. ASSUME NEW t \in Tables, UploadAndBuffer(t) PROVE PipelineInv'
  <2>1. /\ internal_buffers' = [internal_buffers EXCEPT ![t] =
                                  AppendToBuffer(NewBuffer, t, item)]
        /\ t \in left /\ item \in Batch /\ handler = "process"
    BY <1>5 DEF UploadAndBuffer, TypeOK
  <2>2. /\ Chained' /\ LoopInv'
        /\ NextFor(t)' = item.end_version + 1
        /\ \A u \in Tables \ {t} : NextFor(u)' = NextFor(u)
    BY <1>5, VisitChained
  <2>3. Ordered(item)
    BY <2>1 DEF Chained
  <2>4. /\ Holds(AppendToBuffer(NewBuffer, t, item), t)
        /\ EndsBefore(AppendToBuffer(NewBuffer, t, item), item.end_version + 1)
    BY <2>1, <2>3, AppendFact, NewBufferFact
  <2>5. internal_buffers'[t] = AppendToBuffer(NewBuffer, t, item)
        /\ \A u \in Tables \ {t} : internal_buffers'[u] = internal_buffers[u]
    BY <2>1 DEF TypeOK
  <2>6. BufferInv(t)'
    BY <2>1, <2>2, <2>4, <2>5 DEF BufferInv, LoopInv
  <2>7. \A u \in Tables \ {t} : BufferInv(u)'
    BY <2>2, <2>5 DEF BufferInv
  <2> QED BY <2>2, <2>6, <2>7
<1>6. ASSUME NEW t \in Tables, DrainBuffer(t) PROVE PipelineInv'
  <2>1. internal_buffers'[t] = NewBuffer
        /\ \A u \in Tables \ {t} : internal_buffers'[u] = internal_buffers[u]
    BY <1>6 DEF DrainBuffer, TypeOK
  <2>2. /\ Chained' /\ LoopInv' /\ \A u \in Tables : NextFor(u)' = NextFor(u)
    BY <1>6, DrainChained
  <2>3. BufferInv(t)'
    BY <2>1, NewBufferFact DEF BufferInv
  <2>4. \A u \in Tables \ {t} : BufferInv(u)'
    BY <2>1, <2>2 DEF BufferInv
  <2> QED BY <2>2, <2>3, <2>4
<1>7. CASE BeginPoll \/ BeginCleanup \/ EndProcess \/ EndPoll \/ EndCleanup
  <2>1. internal_buffers' = internal_buffers
    BY <1>7 DEF BeginPoll, BeginCleanup, EndProcess, EndPoll, EndCleanup, Report
  <2>2. Chained' /\ LoopInv' /\ \A u \in Tables : NextFor(u)' = NextFor(u)
    BY <1>7, HandlerChained DEF BufferInv, Holds
  <2> QED BY <2>1, <2>2 DEF BufferInv
<1>8. CASE \/ UNCHANGED vars \/ GetEndVersion \/ Track \/ EndPollSave \/ Finish
           \/ \E why \in {"poll", "cleanup"} : BeginSave(why)
           \/ \E t \in Tables : ResetBackfill(t) \/ SaveStatus(t)
  <2>1. /\ Chained' /\ LoopInv' /\ \A u \in Tables : NextFor(u)' = NextFor(u)
        /\ internal_buffers' = internal_buffers
    BY <1>8, OtherChained DEF buffer
  <2> QED BY <2>1 DEF BufferInv
<1> QED BY <1>1, <1>2, <1>3, <1>4, <1>5, <1>6, <1>7, <1>8 DEF Next

\* Together: the invariant of the stream, the buffers and their handlers.
BufferStepInv == TypeOK /\ Lifecycle /\ PipelineInv

\* It holds in every reachable state.
LEMMA BufferStepInvariant == Spec \/ CheckpointedSpec => []BufferStepInv
<1>1. Init \/ CheckpointedInit => BufferStepInv
  BY TypeOKInit, LifecycleInit, FreshInit, FreshPipeline DEF BufferStepInv
<1>2. BufferStepInv /\ [Next]_vars => BufferStepInv'
  BY TypeStep, PipelineStep DEF BufferStepInv
<1> QED BY <1>1, <1>2, PTL DEF Spec, CheckpointedSpec

\* For every size of buffers and batches: the buffer step unwraps missing
\* metadata only when the process handler meets a batch that no buffer could hold
\* and the buffer of its table is empty.  Neither a drain nor a batch that fits an
\* empty buffer ends the process.
THEOREM OnlyOversizedBatchesPanic ==
    Spec \/ CheckpointedSpec => []PanicsOnlyOversized
<1>1. BufferStepInv => PanicsOnlyOversized
  <2> SUFFICES ASSUME BufferStepInv, NEW t \in Tables, MissingMetadata(t)
               PROVE  handler = "process" /\ SizeOf(t, item) > BufferMaxSize
    BY DEF PanicsOnlyOversized
  <2> USE DEF BufferStepInv, PipelineInv
  <2>1. t \in left /\ internal_buffers[t].metadata = None
    BY DEF MissingMetadata
  <2>2. handler = "process" /\ Overflows(t)
    BY <2>1 DEF MissingMetadata, LoopInv
  <2>3. SizeOf(t, item) \in Nat
    BY <2>2, RowsOfFact DEF TypeOK
  <2>4. internal_buffers[t].size = 0
    BY <2>1 DEF BufferInv, Holds, TypeOK
  <2> QED BY <2>2, <2>3, <2>4 DEF Overflows
<1> QED BY <1>1, BufferStepInvariant, PTL

------------------------------------------------------------------------------
(***************************************************************************)
(* What one step can do to a table's reports.  The proofs about uploads    *)
(* and the tracker only need these five cases.                             *)
(***************************************************************************)

\* The first version of the table that no upload has covered yet.
Unuploaded(t) ==
    IF internal_buffers[t].metadata # None THEN internal_buffers[t].metadata.start_version
    ELSE NextFor(t)

Unmoved(t) ==
    /\ Unuploaded(t)' = Unuploaded(t) /\ uploaded'[t] = uploaded[t]
    /\ to_tracker' = to_tracker /\ last_success_batch'[t] = last_success_batch[t]
    /\ starting_version' = starting_version

Uploads(t) ==
    LET b == internal_buffers[t].metadata IN
    /\ b \in Batch /\ Unuploaded(t) = b.start_version /\ b.start_version <= b.end_version
    /\ Unuploaded(t)' = b.end_version + 1
    /\ uploaded[t] = None /\ uploaded'[t] = b
    /\ bucket'[t] = bucket[t] \cup RowsOf(t, b)
    /\ to_tracker' = to_tracker /\ last_success_batch'[t] = last_success_batch[t]
    /\ starting_version' = starting_version

Reports(t) ==
    /\ to_tracker' = Append(to_tracker, uploaded) /\ uploaded'[t] = None
    /\ Unuploaded(t)' = Unuploaded(t) /\ last_success_batch'[t] = last_success_batch[t]
    /\ starting_version' = starting_version

Tracks(t) ==
    /\ to_tracker # <<>> /\ to_tracker' = Tail(to_tracker)
    /\ last_success_batch'[t] = IF to_tracker[1][t] = None THEN last_success_batch[t]
                                ELSE to_tracker[1][t].end_version
    /\ Unuploaded(t)' = Unuploaded(t) /\ uploaded'[t] = uploaded[t]
    /\ starting_version' = starting_version

BucketGrows == \A t \in Tables : bucket[t] \subseteq bucket'[t]

\* What is in the bucket stays there: an upload that fails adds all or nothing.
LEMMA BucketOnlyGrows == ASSUME TypeOK, [Next]_vars PROVE BucketGrows
<1>1. ASSUME NEW u \in Tables, Upload(u) PROVE BucketGrows
  BY <1>1 DEF Upload, TypeOK, BucketGrows
<1>2. UNCHANGED bucket => BucketGrows
  BY DEF BucketGrows
<1>3. ASSUME Next PROVE UNCHANGED bucket \/ \E u \in Tables : Upload(u)
  BY <1>3 DEF Next, GetStartingVersion, ResetBackfill, GetEndVersion, Stream, BeginProcess,
       Buffer, UploadAndBuffer, EndProcess, BeginPoll, BeginCleanup, DrainBuffer, EndPoll,
       EndCleanup, Report, Track, BeginSave, SaveStatus, EndPollSave, Finish, Crash,
       UploadFails, Panic, NotInBuffer, NotInTracker
<1> QED BY <1>1, <1>2, <1>3 DEF vars

\* Unuploaded is a version.
LEMMA UnuploadedType == ASSUME TypeOK, NEW t \in Tables PROVE Unuploaded(t) \in Nat
  BY NextForType, BatchFact DEF Unuploaded, TypeOK

\* Every step is one of these for every table the extractor emits.
LEMMA TableStep ==
    ASSUME BufferStepInv, TypeOK', [Next]_vars, NEW t \in Emitted
    PROVE  Fresh' \/ Unmoved(t) \/ Uploads(t) \/ Reports(t) \/ Tracks(t)
<1> USE DEF BufferStepInv, PipelineInv
<1>0. t \in Tables
  BY EmittedFact
<1>1. CASE GetStartingVersion \/ Crash \/ \E u \in Tables : UploadFails(u) \/ Panic(u)
  BY <1>1, FreshStep
<1>2. CASE Stream
  <2>1. UNCHANGED <<internal_buffers, uploaded, to_tracker, last_success_batch, starting_version>>
    BY <1>2 DEF Stream, buffer, tracker, request
  <2> QED BY <1>0, <1>2, <2>1, StreamChained DEF Unmoved, Unuploaded
<1>3. CASE BeginProcess
  <2>1. UNCHANGED <<internal_buffers, uploaded, to_tracker, last_success_batch, starting_version>>
    BY <1>3 DEF BeginProcess, NotInBuffer, tracker, request
  <2> QED BY <1>0, <1>3, <2>1, BeginProcessChained DEF Unmoved, Unuploaded
<1>4. ASSUME NEW u \in Tables, Buffer(u) PROVE Unmoved(t)
  <2>1. UNCHANGED <<uploaded, to_tracker, last_success_batch, starting_version>>
    BY <1>4 DEF Buffer, NotInBuffer, tracker, request
  <2>2. /\ internal_buffers'[u] = AppendToBuffer(internal_buffers[u], u, item)
        /\ \A w \in Tables \ {u} : internal_buffers'[w] = internal_buffers[w]
        /\ handler = "process" /\ item \in Batch
    BY <1>4 DEF Buffer, TypeOK
  <2>3. /\ NextFor(u) = item.start_version
        /\ \A w \in Tables \ {u} : NextFor(w)' = NextFor(w)
    BY <1>4, VisitChained
  <2>4. CASE u = t
    <3>1. Ordered(item) /\ internal_buffers[t] \in BufferType
      BY <1>0, <2>2 DEF Chained, TypeOK, BufferType
    <3>2. /\ internal_buffers'[t].metadata # None
          /\ internal_buffers'[t].metadata.start_version =
               IF internal_buffers[t].metadata = None THEN item.start_version
               ELSE internal_buffers[t].metadata.start_version
      BY <1>0, <2>2, <2>3, <2>4, <3>1, AppendFact DEF BufferInv
    <3> QED BY <2>1, <2>3, <2>4, <3>2 DEF Unmoved, Unuploaded
  <2>5. CASE u # t
    BY <1>0, <2>1, <2>2, <2>3, <2>5 DEF Unmoved, Unuploaded
  <2> QED BY <2>4, <2>5
<1>5. ASSUME NEW u \in Tables, UploadAndBuffer(u) PROVE Unmoved(t) \/ Uploads(t)
  <2>1. /\ UNCHANGED <<to_tracker, last_success_batch, starting_version>>
        /\ uploaded' = [uploaded EXCEPT ![u] = internal_buffers[u].metadata]
        /\ bucket' = [bucket EXCEPT ![u] = @ \cup internal_buffers[u].rows]
        /\ u \in left
    BY <1>5 DEF UploadAndBuffer, NotInBuffer, tracker, request, Upload
  <2>2. /\ internal_buffers'[u] = AppendToBuffer(NewBuffer, u, item)
        /\ \A w \in Tables \ {u} : internal_buffers'[w] = internal_buffers[w]
        /\ handler = "process" /\ item \in Batch /\ internal_buffers[u].metadata \in Batch
    BY <1>5 DEF UploadAndBuffer, TypeOK
  <2>3. /\ NextFor(u) = item.start_version
        /\ \A w \in Tables \ {u} : NextFor(w)' = NextFor(w)
    BY <1>5, VisitChained
  <2>4. CASE u = t
    <3>1. Ordered(item)
      BY <2>2 DEF Chained
    <3>2. /\ internal_buffers'[t].metadata # None
          /\ internal_buffers'[t].metadata.start_version = item.start_version
      BY <1>0, <2>2, <2>4, <3>1, AppendFact, NewBufferFact
    <3>3. /\ internal_buffers[t].metadata # None
          /\ internal_buffers[t].metadata.start_version <= internal_buffers[t].metadata.end_version
          /\ internal_buffers[t].metadata.end_version + 1 = item.start_version
          /\ internal_buffers[t].rows = RowsOf(t, internal_buffers[t].metadata)
      BY <1>0, <2>2, <2>3, <2>4, BatchFact DEF BufferInv, EndsBefore, Holds
    <3>4. uploaded[t] = None /\ uploaded'[t] = internal_buffers[t].metadata
          /\ bucket'[t] = bucket[t] \cup internal_buffers[t].rows
      BY <1>0, <2>1, <2>4 DEF LoopInv, TypeOK
    <3> QED BY <2>1, <2>2, <2>4, <3>2, <3>3, <3>4 DEF Uploads, Unuploaded
  <2>5. CASE u # t
    <3>1. uploaded'[t] = uploaded[t]
      BY <1>0, <2>1, <2>5 DEF TypeOK
    <3> QED BY <1>0, <2>1, <2>2, <2>3, <2>5, <3>1 DEF Unmoved, Unuploaded
  <2> QED BY <2>4, <2>5
<1>6. ASSUME NEW u \in Tables, DrainBuffer(u) PROVE Unmoved(t) \/ Uploads(t)
  <2>1. /\ UNCHANGED <<to_tracker, last_success_batch, starting_version>>
        /\ uploaded' = [uploaded EXCEPT ![u] = internal_buffers[u].metadata]
        /\ bucket' = [bucket EXCEPT ![u] = @ \cup internal_buffers[u].rows]
        /\ u \in left
    BY <1>6 DEF DrainBuffer, NotInBuffer, tracker, request, Upload
  <2>2. /\ internal_buffers'[u] = NewBuffer
        /\ \A w \in Tables \ {u} : internal_buffers'[w] = internal_buffers[w]
        /\ internal_buffers[u].metadata \in Batch
    BY <1>6 DEF DrainBuffer, TypeOK
  <2>3. \A w \in Tables : NextFor(w)' = NextFor(w)
    BY <1>6, DrainChained
  <2>4. CASE u = t
    <3>2. internal_buffers'[t].metadata = None
      BY <2>2, <2>4, NewBufferFact
    <3>3. /\ internal_buffers[t].metadata # None
          /\ internal_buffers[t].metadata.start_version <= internal_buffers[t].metadata.end_version
          /\ internal_buffers[t].metadata.end_version + 1 = NextFor(t)
          /\ internal_buffers[t].rows = RowsOf(t, internal_buffers[t].metadata)
      BY <1>0, <2>2, <2>4, BatchFact DEF BufferInv, EndsBefore, Holds
    <3>4. uploaded[t] = None /\ uploaded'[t] = internal_buffers[t].metadata
          /\ bucket'[t] = bucket[t] \cup internal_buffers[t].rows
      BY <1>0, <2>1, <2>4 DEF LoopInv, TypeOK
    <3> QED BY <1>0, <2>1, <2>2, <2>3, <2>4, <3>2, <3>3, <3>4 DEF Uploads, Unuploaded
  <2>5. CASE u # t
    <3>1. uploaded'[t] = uploaded[t]
      BY <1>0, <2>1, <2>5 DEF TypeOK
    <3> QED BY <1>0, <2>1, <2>2, <2>3, <2>5, <3>1 DEF Unmoved, Unuploaded
  <2> QED BY <2>4, <2>5
<1>7. CASE BeginPoll \/ BeginCleanup \/ EndProcess \/ EndPoll \/ EndCleanup
  <2>1. UNCHANGED <<internal_buffers, last_success_batch, starting_version>>
    BY <1>7 DEF BeginPoll, BeginCleanup, EndProcess, EndPoll, EndCleanup, Report, NotInBuffer,
                tracker, request
  <2>2. \A u \in Tables : NextFor(u)' = NextFor(u)
    BY <1>7, HandlerChained DEF BufferInv, Holds
  <2>3. Unuploaded(t)' = Unuploaded(t)
    BY <1>0, <2>1, <2>2 DEF Unuploaded
  <2>4. CASE BeginPoll \/ BeginCleanup
    BY <2>1, <2>3, <2>4 DEF BeginPoll, BeginCleanup, Unmoved
  <2>5. CASE EndProcess \/ EndPoll \/ EndCleanup
    <3>1. /\ uploaded' = NoUploads
          /\ \/ uploaded = NoUploads /\ to_tracker' = to_tracker
             \/ to_tracker' = Append(to_tracker, uploaded)
      BY <2>5 DEF EndProcess, EndPoll, EndCleanup, Report
    <3>2. uploaded'[t] = None
      BY <1>0, <3>1 DEF NoUploads
    <3> QED BY <2>1, <2>3, <3>1, <3>2 DEF Unmoved, Reports, NoUploads
  <2> QED BY <1>7, <2>4, <2>5
<1>8. CASE Track
  <2>1. /\ UNCHANGED <<buffer, starting_version>>
        /\ \A u \in Tables : NextFor(u)' = NextFor(u)
    BY <1>8, OtherChained
  <2>2. Unuploaded(t)' = Unuploaded(t) /\ uploaded'[t] = uploaded[t]
    BY <1>0, <2>1 DEF Unuploaded, buffer
  <2>3. /\ to_tracker # <<>> /\ to_tracker' = Tail(to_tracker)
        /\ Head(to_tracker) = to_tracker[1]
    BY <1>8 DEF Track, TypeOK
  <2>4. last_success_batch'[t] = IF to_tracker[1][t] = None THEN last_success_batch[t]
                                 ELSE to_tracker[1][t].end_version
    BY <1>0, <1>8, <2>3 DEF Track
  <2> QED BY <2>1, <2>2, <2>3, <2>4 DEF Tracks
<1>9. CASE \/ UNCHANGED vars \/ GetEndVersion \/ EndPollSave \/ Finish
           \/ \E why \in {"poll", "cleanup"} : BeginSave(why)
           \/ \E u \in Tables : ResetBackfill(u) \/ SaveStatus(u)
  <2>1. /\ UNCHANGED <<buffer, starting_version>>
        /\ \A u \in Tables : NextFor(u)' = NextFor(u)
    BY <1>9, OtherChained
  <2>2. UNCHANGED <<to_tracker, last_success_batch>>
    BY <1>9 DEF vars, GetEndVersion, EndPollSave, Finish, BeginSave, ResetBackfill, SaveStatus,
                tracker
  <2> QED BY <1>0, <2>1, <2>2 DEF Unmoved, Unuploaded, buffer
<1> QED BY <1>1, <1>2, <1>3, <1>4, <1>5, <1>6, <1>7, <1>8, <1>9 DEF Next

------------------------------------------------------------------------------
(***************************************************************************)
(* Reports are covered by uploads.  ReportedIsUploaded is strengthened by  *)
(* what the next upload builds on: everything the process was to index     *)
(* before the first version not yet uploaded is in the bucket.             *)
(***************************************************************************)
Covered(t, n) ==
    \A v \in Versions : starting_version <= v /\ v <= n => Durable(t, v)

Reported(t, b) ==
    b # None => (\A v \in InBatch(b) : Durable(t, v)) /\ Covered(t, b.end_version)

ReportInv(t) ==
    /\ Covered(t, Unuploaded(t) - 1)
    /\ Reported(t, uploaded[t])
    /\ \A k \in 1 .. Len(to_tracker) : Reported(t, to_tracker[k][t])
    /\ last_success_batch[t] # None => Covered(t, last_success_batch[t])

\* A table that is not emitted is never reported.
Silent(t) ==
    /\ uploaded[t] = None /\ last_success_batch[t] = None
    /\ \A k \in 1 .. Len(to_tracker) : to_tracker[k][t] = None

ReportsInv ==
    /\ \A t \in Emitted : ReportInv(t)
    /\ \A t \in Tables \ Emitted : Silent(t)

\* In a fresh state nothing is reported and nothing was to be indexed yet.
LEMMA FreshReports == ASSUME TypeOK, Fresh PROVE ReportsInv
<1>1. ASSUME NEW t \in Tables PROVE Silent(t) /\ Unuploaded(t) = starting_version
  BY <1>1 DEF Fresh, Silent, NoUploads, Unuploaded, NextFor, Upcoming, FirstOf, NewBuffer
<1>2. ASSUME NEW t \in Tables PROVE ReportInv(t)
  <2>1. Silent(t) /\ Unuploaded(t) = starting_version
    BY <1>1
  <2>2. Covered(t, starting_version - 1)
    BY VersionsAreNat DEF TypeOK, Covered
  <2>3. Len(to_tracker) = 0
    BY DEF Fresh
  <2> QED BY <2>1, <2>2, <2>3 DEF ReportInv, Silent, Reported
<1> QED BY <1>1, <1>2, EmittedFact DEF ReportsInv

\* Durable versions stay durable.
LEMMA DurableStable ==
    ASSUME BucketGrows, NEW t \in Tables, NEW v, Durable(t, v)
    PROVE  Durable(t, v)'
  BY DEF Durable, BucketGrows

\* So do covered ranges and covered reports.
LEMMA CoveredStable ==
    ASSUME BucketGrows, NEW t \in Tables, starting_version' = starting_version
    PROVE  /\ \A n : Covered(t, n) => Covered(t, n)'
           /\ \A b : Reported(t, b) => Reported(t, b)'
<1>1. ASSUME NEW n, Covered(t, n) PROVE Covered(t, n)'
  BY <1>1, DurableStable DEF Covered
<1>2. ASSUME NEW b, Reported(t, b) PROVE Reported(t, b)'
  <2> SUFFICES ASSUME b # None
               PROVE  (\A v \in InBatch(b) : Durable(t, v)') /\ Covered(t, b.end_version)'
    BY DEF Reported
  <2> QED BY <1>1, <1>2, DurableStable DEF Reported
<1> QED BY <1>1, <1>2

\* Every step preserves the coverage of an emitted table's reports: an upload
\* covers exactly the versions up to the next ones, and the other steps only
\* pass reports on.
LEMMA ReportStep ==
    ASSUME BufferStepInv, TypeOK', BucketGrows, NEW t \in Emitted, ReportInv(t),
           Unmoved(t) \/ Uploads(t) \/ Reports(t) \/ Tracks(t)
    PROVE  ReportInv(t)'
<1> USE DEF BufferStepInv
<1>0. t \in Tables
  BY EmittedFact
<1>1. starting_version' = starting_version
  BY DEF Unmoved, Uploads, Reports, Tracks
<1>2. /\ \A n : Covered(t, n) => Covered(t, n)'
      /\ \A b : Reported(t, b) => Reported(t, b)'
  BY <1>0, <1>1, CoveredStable
<1>3. ASSUME NEW n, NEW m, m = n, Covered(t, n)' PROVE Covered(t, m)'
  BY <1>3
<1>4. CASE Unmoved(t)
  <2>1. Covered(t, Unuploaded(t) - 1)'
    BY <1>2, <1>4 DEF ReportInv, Unmoved, Covered
  <2>2. Reported(t, uploaded[t])' /\ \A k \in 1 .. Len(to_tracker') : Reported(t, to_tracker[k][t])'
    BY <1>2, <1>4 DEF ReportInv, Unmoved, Reported, Covered
  <2>3. last_success_batch'[t] # None => Covered(t, last_success_batch[t])'
    BY <1>2, <1>4 DEF ReportInv, Unmoved, Covered
  <2> QED BY <2>1, <2>2, <2>3 DEF ReportInv
<1>5. CASE Uploads(t)
  <2> DEFINE b == internal_buffers[t].metadata
  <2>1. /\ b \in Batch /\ Unuploaded(t) = b.start_version
        /\ b.start_version \in Nat /\ b.end_version \in Nat
        /\ uploaded'[t] = b /\ bucket'[t] = bucket[t] \cup RowsOf(t, b)
        /\ Unuploaded(t)' = b.end_version + 1
        /\ to_tracker' = to_tracker /\ last_success_batch'[t] = last_success_batch[t]
    BY <1>5, BatchFact DEF Uploads
  <2> HIDE DEF b
  <2>2. \A v \in InBatch(b) : Durable(t, v)'
    BY <2>1 DEF Durable, RowsOf
  <2>3. \A v \in Versions : starting_version' <= v /\ v <= b.end_version => Durable(t, v)'
    <3> SUFFICES ASSUME NEW v \in Versions, starting_version <= v, v <= b.end_version
                 PROVE  Durable(t, v)'
      BY <1>1
    <3>1. v \in Nat
      BY VersionsAreNat
    <3>2. CASE v < b.start_version
      <4>1. v <= Unuploaded(t) - 1
        BY <2>1, <3>1, <3>2
      <4>2. Durable(t, v)
        BY <4>1 DEF ReportInv, Covered
      <4> QED BY <1>0, <4>2, DurableStable
    <3>3. CASE v >= b.start_version
      <4>1. v \in InBatch(b)
        BY <2>1, <3>1, <3>3 DEF InBatch
      <4> QED BY <2>2, <4>1
    <3> QED BY <2>1, <3>1, <3>2, <3>3
  <2>4. Covered(t, Unuploaded(t) - 1)'
    <3>1. Unuploaded(t)' - 1 = b.end_version
      BY <2>1
    <3> QED BY <2>3, <3>1 DEF Covered
  <2>5. Reported(t, uploaded[t])'
    BY <2>1, <2>2, <2>3 DEF Reported, Covered
  <2>6. \A k \in 1 .. Len(to_tracker') : Reported(t, to_tracker[k][t])'
    BY <1>2, <2>1 DEF ReportInv, Reported, Covered
  <2>7. last_success_batch'[t] # None => Covered(t, last_success_batch[t])'
    BY <1>2, <2>1 DEF ReportInv, Covered
  <2> QED BY <2>4, <2>5, <2>6, <2>7 DEF ReportInv
<1>6. CASE Reports(t)
  <2>1. /\ to_tracker' = Append(to_tracker, uploaded) /\ uploaded'[t] = None
        /\ Unuploaded(t)' = Unuploaded(t) /\ last_success_batch'[t] = last_success_batch[t]
    BY <1>6 DEF Reports
  <2>2. ASSUME NEW k \in 1 .. Len(to_tracker') PROVE Reported(t, to_tracker[k][t])'
    <3>1. /\ Len(to_tracker') = Len(to_tracker) + 1 /\ Len(to_tracker) \in Nat
          /\ to_tracker'[Len(to_tracker) + 1] = uploaded
          /\ \A i \in 1 .. Len(to_tracker) : to_tracker'[i] = to_tracker[i]
      <4>1. ASSUME NEW M, uploaded \in M, to_tracker \in Seq(M)
            PROVE  /\ Len(to_tracker') = Len(to_tracker) + 1 /\ Len(to_tracker) \in Nat
                   /\ to_tracker'[Len(to_tracker) + 1] = uploaded
                   /\ \A i \in 1 .. Len(to_tracker) : to_tracker'[i] = to_tracker[i]
        BY <2>1, <4>1
      <4> QED BY <4>1 DEF TypeOK
    <3>2. CASE k = Len(to_tracker) + 1
      BY <1>2, <3>1, <3>2 DEF ReportInv, Reported, Covered
    <3>3. CASE k # Len(to_tracker) + 1
      <4>1. k \in 1 .. Len(to_tracker)
        BY <3>1, <3>3, <2>2
      <4> QED BY <1>2, <3>1, <4>1 DEF ReportInv, Reported, Covered
    <3> QED BY <3>2, <3>3
  <2>3. Covered(t, Unuploaded(t) - 1)'
    BY <1>2, <2>1 DEF ReportInv, Covered
  <2>4. Reported(t, uploaded[t])'
    BY <2>1 DEF Reported
  <2>5. last_success_batch'[t] # None => Covered(t, last_success_batch[t])'
    BY <1>2, <2>1 DEF ReportInv, Covered
  <2> QED BY <2>2, <2>3, <2>4, <2>5 DEF ReportInv
<1>7. CASE Tracks(t)
  <2>1. /\ to_tracker # <<>> /\ to_tracker' = Tail(to_tracker)
        /\ last_success_batch'[t] = IF to_tracker[1][t] = None THEN last_success_batch[t]
                                    ELSE to_tracker[1][t].end_version
        /\ Unuploaded(t)' = Unuploaded(t) /\ uploaded'[t] = uploaded[t]
    BY <1>7 DEF Tracks
  <2>2. /\ Len(to_tracker) \in Nat /\ Len(to_tracker) >= 1
        /\ Len(to_tracker') = Len(to_tracker) - 1
        /\ \A k \in 1 .. Len(to_tracker) - 1 : to_tracker'[k] = to_tracker[k + 1]
    <3>1. ASSUME NEW M, to_tracker \in Seq(M)
          PROVE  /\ Len(to_tracker) \in Nat /\ Len(to_tracker) >= 1
                 /\ Len(to_tracker') = Len(to_tracker) - 1
                 /\ \A k \in 1 .. Len(to_tracker) - 1 : to_tracker'[k] = to_tracker[k + 1]
      BY <2>1, <3>1
    <3> QED BY <3>1 DEF TypeOK
  <2>3. Covered(t, Unuploaded(t) - 1)'
    BY <1>2, <2>1 DEF ReportInv, Covered
  <2>4. Reported(t, uploaded[t])'
    BY <1>2, <2>1 DEF ReportInv, Reported, Covered
  <2>5. ASSUME NEW k \in 1 .. Len(to_tracker') PROVE Reported(t, to_tracker[k][t])'
    <3>1. k + 1 \in 1 .. Len(to_tracker) /\ to_tracker'[k] = to_tracker[k + 1]
      BY <2>2, <2>5
    <3> QED BY <1>2, <3>1 DEF ReportInv, Reported, Covered
  <2>6. last_success_batch'[t] # None => Covered(t, last_success_batch[t])'
    <3>1. CASE to_tracker[1][t] = None
      BY <1>2, <2>1, <3>1 DEF ReportInv, Covered
    <3>2. CASE to_tracker[1][t] # None
      <4>1. 1 \in 1 .. Len(to_tracker)
        BY <2>2
      <4>2. Covered(t, to_tracker[1][t].end_version)
        BY <3>2, <4>1 DEF ReportInv, Reported
      <4> QED BY <1>2, <2>1, <3>2, <4>2 DEF Covered
    <3> QED BY <3>1, <3>2
  <2> QED BY <2>3, <2>4, <2>5, <2>6 DEF ReportInv
<1> QED BY <1>4, <1>5, <1>6, <1>7

\* A table the extractor does not emit stays silent.
LEMMA SilentStep ==
    ASSUME BufferStepInv, TypeOK', [Next]_vars, NEW t \in Tables \ Emitted, Silent(t)
    PROVE  Silent(t)'
<1> USE DEF BufferStepInv
<1>1. CASE Fresh'
  <2>1. Len(to_tracker') = 0
    BY <1>1 DEF Fresh
  <2> QED BY <1>1, <2>1 DEF Fresh, Silent, NoUploads
<1>2. ASSUME NEW u \in Tables, UploadAndBuffer(u) \/ DrainBuffer(u) PROVE Silent(t)'
  <2>1. /\ u \in left /\ uploaded' = [uploaded EXCEPT ![u] = internal_buffers[u].metadata]
        /\ UNCHANGED <<to_tracker, last_success_batch>>
    BY <1>2 DEF UploadAndBuffer, DrainBuffer, NotInBuffer, tracker
  <2>2. u # t
    BY <2>1 DEF PipelineInv, LoopInv
  <2> QED BY <2>1, <2>2 DEF Silent, TypeOK
<1>3. CASE EndProcess \/ EndPoll \/ EndCleanup
  <2>1. /\ uploaded' = NoUploads /\ last_success_batch' = last_success_batch
        /\ \/ to_tracker' = to_tracker
           \/ to_tracker' = Append(to_tracker, uploaded)
    BY <1>3 DEF EndProcess, EndPoll, EndCleanup, Report, NotInBuffer, tracker
  <2>2. ASSUME NEW k \in 1 .. Len(to_tracker') PROVE to_tracker'[k][t] = None
    <3>1. ASSUME NEW M, uploaded \in M, to_tracker \in Seq(M),
                 to_tracker' = Append(to_tracker, uploaded)
          PROVE  to_tracker'[k] = uploaded
                 \/ (k \in 1 .. Len(to_tracker) /\ to_tracker'[k] = to_tracker[k])
      BY <2>2, <3>1
    <3>2. to_tracker' = Append(to_tracker, uploaded) =>
              to_tracker'[k] = uploaded
              \/ (k \in 1 .. Len(to_tracker) /\ to_tracker'[k] = to_tracker[k])
      BY <3>1 DEF TypeOK
    <3> QED BY <2>1, <2>2, <3>2 DEF Silent
  <2> QED BY <2>1, <2>2 DEF Silent, NoUploads
<1>4. CASE Track
  <2>1. /\ to_tracker # <<>> /\ to_tracker' = Tail(to_tracker)
        /\ Head(to_tracker) = to_tracker[1] /\ uploaded' = uploaded
    BY <1>4 DEF Track, TypeOK, NotInTracker, buffer
  <2>2. /\ 1 \in 1 .. Len(to_tracker)
        /\ \A k \in 1 .. Len(to_tracker') :
              k + 1 \in 1 .. Len(to_tracker) /\ to_tracker'[k] = to_tracker[k + 1]
    <3>1. ASSUME NEW M, to_tracker \in Seq(M)
          PROVE  /\ 1 \in 1 .. Len(to_tracker)
                 /\ \A k \in 1 .. Len(to_tracker') :
                       k + 1 \in 1 .. Len(to_tracker) /\ to_tracker'[k] = to_tracker[k + 1]
      BY <2>1, <3>1
    <3> QED BY <3>1 DEF TypeOK
  <2>3. to_tracker[1][t] = None
    BY <2>2 DEF Silent
  <2>4. last_success_batch'[t] = last_success_batch[t]
    BY <1>4, <2>1, <2>3 DEF Track
  <2> QED BY <2>1, <2>2, <2>4 DEF Silent
<1>5. CASE \/ UNCHANGED vars \/ Stream \/ BeginProcess \/ BeginPoll \/ BeginCleanup
           \/ GetEndVersion \/ EndPollSave \/ Finish
           \/ \E why \in {"poll", "cleanup"} : BeginSave(why)
           \/ \E u \in Tables : ResetBackfill(u) \/ SaveStatus(u) \/ Buffer(u)
  <2>1. UNCHANGED <<uploaded, to_tracker, last_success_batch>>
    BY <1>5 DEF vars, Stream, BeginProcess, BeginPoll, BeginCleanup, GetEndVersion, EndPollSave,
         Finish, BeginSave, ResetBackfill, SaveStatus, Buffer, NotInBuffer, NotInTracker, tracker,
         buffer
  <2> QED BY <2>1 DEF Silent
<1> QED BY <1>1, <1>2, <1>3, <1>4, <1>5, FreshStep DEF Next

\* The reports of every table stay covered.
LEMMA ReportsStep ==
    ASSUME BufferStepInv, TypeOK', ReportsInv, [Next]_vars
    PROVE  ReportsInv'
<1>1. BucketGrows
  BY BucketOnlyGrows DEF BufferStepInv
<1>2. CASE Fresh'
  <2>1. TypeOK' /\ Fresh' => ReportsInv'
    BY FreshReports, PTL
  <2> QED BY <1>2, <2>1
<1>3. CASE ~Fresh'
  <2>1. \A t \in Emitted : ReportInv(t)'
    BY <1>1, <1>3, TableStep, ReportStep DEF ReportsInv
  <2>2. \A t \in Tables \ Emitted : Silent(t)'
    BY SilentStep DEF ReportsInv
  <2> QED BY <2>1, <2>2 DEF ReportsInv
<1> QED BY <1>2, <1>3

\* Reports that are covered satisfy ReportedIsUploaded.
LEMMA ReportsCovered ==
    ASSUME TypeOK, ReportsInv
    PROVE  ReportedIsUploaded
<1> SUFFICES ASSUME NEW t \in Tables
             PROVE
        /\ uploaded[t] # None => \A v \in InBatch(uploaded[t]) : Durable(t, v)
        /\ \A k \in 1 .. Len(to_tracker) : to_tracker[k][t] # None =>
              \A v \in InBatch(to_tracker[k][t]) : Durable(t, v)
        /\ last_success_batch[t] # None =>
              \A v \in starting_version .. last_success_batch[t] : Durable(t, v)
  BY DEF ReportedIsUploaded
<1>1. CASE t \in Emitted
  <2>1. ASSUME last_success_batch[t] # None, NEW v \in starting_version .. last_success_batch[t]
        PROVE  Durable(t, v)
    <3>1. /\ last_success_batch[t] \in Nat /\ last_success_batch[t] <= MaxVersion
          /\ starting_version \in Nat /\ MaxVersion \in Nat
      BY <2>1, ParquetAssumption DEF TypeOK, Versions
    <3>2. v \in Versions /\ starting_version <= v /\ v <= last_success_batch[t]
      BY <2>1, <3>1 DEF Versions
    <3> QED BY <1>1, <2>1, <3>2 DEF ReportsInv, ReportInv, Covered
  <2> QED BY <1>1, <2>1 DEF ReportsInv, ReportInv, Reported
<1>2. CASE t \notin Emitted
  BY <1>2 DEF ReportsInv, Silent
<1> QED BY <1>1, <1>2

\* What is reported as uploaded is in the bucket, at every stage of its way to
\* the checkpoint, whatever failed or crashed before.
THEOREM ReportsAreUploaded == Spec \/ CheckpointedSpec => []ReportedIsUploaded
<1>1. Init \/ CheckpointedInit => BufferStepInv /\ ReportsInv
  BY TypeOKInit, LifecycleInit, FreshInit, FreshPipeline, FreshReports DEF BufferStepInv
<1>2. BufferStepInv /\ ReportsInv /\ [Next]_vars => (BufferStepInv /\ ReportsInv)'
  BY TypeStep, PipelineStep, ReportsStep DEF BufferStepInv
<1>3. BufferStepInv /\ ReportsInv => ReportedIsUploaded
  BY ReportsCovered DEF BufferStepInv
<1> QED BY <1>1, <1>2, <1>3, PTL DEF Spec, CheckpointedSpec

------------------------------------------------------------------------------
(***************************************************************************)
(* The tracker sees no gap.  The reports of a table are spread over the    *)
(* last batch tracked, the maps q on their way to the tracker (most of     *)
(* them without an entry for the table), the map being filled, and what is *)
(* not uploaded yet.  Follow says that each of these starts where the one  *)
(* before it ends, whatever maps without an entry lie between the two.     *)
(***************************************************************************)
Entry(q, up, t, k) == IF k <= Len(q) THEN q[k][t] ELSE up

EndAt(q, up, last, t, j) ==
    IF j = 0 THEN last
    ELSE IF Entry(q, up, t, j) = None THEN None ELSE Entry(q, up, t, j).end_version

StartAt(q, up, next, t, k) ==
    IF k = Len(q) + 2 THEN next
    ELSE IF Entry(q, up, t, k) = None THEN None ELSE Entry(q, up, t, k).start_version

NoEntryBetween(q, up, t, j, k) == \A i \in (j + 1) .. (k - 1) : Entry(q, up, t, i) = None

Follow(q, up, last, next, t) ==
    \A j \in 0 .. Len(q) + 1, k \in 1 .. Len(q) + 2 :
        /\ j < k
        /\ EndAt(q, up, last, t, j) # None
        /\ StartAt(q, up, next, t, k) # None
        /\ NoEntryBetween(q, up, t, j, k)
        => EndAt(q, up, last, t, j) + 1 = StartAt(q, up, next, t, k)

UploadMap == [Tables -> Batch \cup {None}]

\* With nothing reported there is nothing to follow.
LEMMA FollowFresh ==
    ASSUME NEW next, NEW t
    PROVE  Follow(<<>>, None, None, next, t)
<1>1. Len(<<>>) = 0
  OBVIOUS
<1>2. \A j \in 0 .. 1 : EndAt(<<>>, None, None, t, j) = None
  BY <1>1 DEF EndAt, Entry
<1> QED BY <1>1, <1>2 DEF Follow

\* An upload takes the place of what was not uploaded yet.
LEMMA FollowUpload ==
    ASSUME NEW q \in Seq(UploadMap), NEW last, NEW t \in Tables, NEW b \in Batch,
           Follow(q, None, last, b.start_version, t)
    PROVE  Follow(q, b, last, b.end_version + 1, t)
<1> DEFINE n == Len(q)
<1>1. n \in Nat
  OBVIOUS
<1>2. b # None /\ b.start_version \in Nat /\ b.end_version \in Nat
  BY BatchFact
<1> SUFFICES ASSUME NEW j \in 0 .. n + 1, NEW k \in 1 .. n + 2, j < k,
                    EndAt(q, b, last, t, j) # None,
                    StartAt(q, b, b.end_version + 1, t, k) # None,
                    NoEntryBetween(q, b, t, j, k)
             PROVE  EndAt(q, b, last, t, j) + 1 = StartAt(q, b, b.end_version + 1, t, k)
  BY DEF Follow
<1> HIDE DEF n
<1>3. CASE j = n + 1
  <2>1. k = n + 2
    BY <1>1, <1>3
  <2>2. Entry(q, b, t, j) = b /\ j # 0
    BY <1>1, <1>3 DEF Entry, n
  <2> QED BY <1>2, <2>1, <2>2 DEF EndAt, StartAt, n
<1>4. CASE j # n + 1 /\ k = n + 2
  <2>1. n + 1 \in (j + 1) .. (k - 1)
    BY <1>1, <1>4
  <2>2. Entry(q, b, t, n + 1) = b
    BY <1>1 DEF Entry, n
  <2> QED BY <1>2, <2>1, <2>2 DEF NoEntryBetween
<1>5. CASE j # n + 1 /\ k = n + 1
  <2>1. /\ EndAt(q, None, last, t, j) = EndAt(q, b, last, t, j)
        /\ n + 2 \in 1 .. n + 2 /\ j < n + 2
    BY <1>1, <1>5 DEF EndAt, Entry, n
  <2>2. NoEntryBetween(q, None, t, j, n + 2)
    <3> SUFFICES ASSUME NEW i \in (j + 1) .. (n + 1) PROVE Entry(q, None, t, i) = None
      BY <1>1 DEF NoEntryBetween
    <3>1. CASE i = n + 1
      BY <1>1, <3>1 DEF Entry, n
    <3>2. CASE i # n + 1
      <4>1. i \in (j + 1) .. (k - 1) /\ i <= n
        BY <1>1, <1>5, <3>2
      <4> QED BY <4>1 DEF NoEntryBetween, Entry, n
    <3> QED BY <3>1, <3>2
  <2>3. StartAt(q, None, b.start_version, t, n + 2) = b.start_version
    BY DEF StartAt, n
  <2>4. b.start_version # None
    BY <1>2, NoneAssumption
  <2>5. EndAt(q, None, last, t, j) + 1 = b.start_version
    BY <2>1, <2>2, <2>3, <2>4 DEF Follow, n
  <2>6. StartAt(q, b, b.end_version + 1, t, k) = b.start_version
    <3>1. k # n + 2 /\ ~(k <= n)
      BY <1>1, <1>5
    <3> QED BY <1>2, <3>1 DEF StartAt, Entry, n
  <2> QED BY <2>1, <2>5, <2>6
<1>6. CASE j # n + 1 /\ k \in 1 .. n
  <2>1. /\ EndAt(q, None, last, t, j) = EndAt(q, b, last, t, j)
        /\ k # n + 2
    BY <1>1, <1>6 DEF EndAt, Entry, n
  <2>2. StartAt(q, None, b.start_version, t, k) = StartAt(q, b, b.end_version + 1, t, k)
    BY <1>1, <1>6, <2>1 DEF StartAt, Entry, n
  <2>3. NoEntryBetween(q, None, t, j, k)
    <3> SUFFICES ASSUME NEW i \in (j + 1) .. (k - 1) PROVE Entry(q, None, t, i) = None
      BY DEF NoEntryBetween
    <3>1. i <= n
      BY <1>1, <1>6
    <3> QED BY <3>1 DEF NoEntryBetween, Entry, n
  <2> QED BY <2>1, <2>2, <2>3 DEF Follow, n
<1> QED BY <1>1, <1>3, <1>4, <1>5, <1>6

\* Sending the map leaves an empty one behind.
LEMMA FollowReport ==
    ASSUME NEW q \in Seq(UploadMap), NEW up \in UploadMap, NEW last, NEW next,
           NEW t \in Tables, Follow(q, up[t], last, next, t)
    PROVE  Follow(Append(q, up), None, last, next, t)
<1> DEFINE n == Len(q)  r == Append(q, up)
<1>1. /\ n \in Nat /\ Len(r) = n + 1 /\ r[n + 1] = up
      /\ \A i \in 1 .. n : r[i] = q[i]
  OBVIOUS
<1>2. ASSUME NEW i \in 1 .. n + 1 PROVE Entry(r, None, t, i) = Entry(q, up[t], t, i)
  <2> HIDE DEF r
  <2>1. CASE i = n + 1
    BY <1>1, <2>1 DEF Entry
  <2>2. CASE i # n + 1
    <3>1. i \in 1 .. n /\ i <= n + 1
      BY <1>1, <2>2
    <3> QED BY <1>1, <3>1 DEF Entry
  <2> QED BY <2>1, <2>2
<1>3. Entry(r, None, t, n + 2) = None
  BY <1>1 DEF Entry
<1> HIDE DEF n, r
<1> SUFFICES ASSUME NEW j \in 0 .. n + 2, NEW k \in 1 .. n + 3, j < k,
                    EndAt(r, None, last, t, j) # None,
                    StartAt(r, None, next, t, k) # None,
                    NoEntryBetween(r, None, t, j, k)
             PROVE  EndAt(r, None, last, t, j) + 1 = StartAt(r, None, next, t, k)
  <2>1. Len(r) + 1 = n + 2 /\ Len(r) + 2 = n + 3
    BY <1>1
  <2> QED BY <2>1 DEF Follow, r
<1>4. j \in 0 .. n + 1
  <2>1. ASSUME j = n + 2 PROVE FALSE
    BY <1>1, <1>3, <2>1 DEF EndAt
  <2> QED BY <1>1, <2>1
<1>5. k # n + 2
  <2>1. n + 2 # Len(r) + 2
    BY <1>1
  <2> QED BY <1>3, <2>1 DEF StartAt
<1>6. EndAt(q, up[t], last, t, j) = EndAt(r, None, last, t, j)
  <2>1. CASE j = 0
    BY <2>1 DEF EndAt
  <2>2. CASE j # 0
    <3>1. j \in 1 .. n + 1
      BY <1>1, <1>4, <2>2
    <3> QED BY <1>2, <2>2, <3>1 DEF EndAt
  <2> QED BY <2>1, <2>2
<1>7. CASE k = n + 3
  <2>1. n + 2 \in 1 .. n + 2 /\ j < n + 2 /\ Len(r) + 2 = n + 3
    BY <1>1, <1>4
  <2>2. StartAt(q, up[t], next, t, n + 2) = next /\ StartAt(r, None, next, t, k) = next
    BY <1>7, <2>1 DEF StartAt, n
  <2>3. NoEntryBetween(q, up[t], t, j, n + 2)
    <3> SUFFICES ASSUME NEW i \in (j + 1) .. (n + 1) PROVE Entry(q, up[t], t, i) = None
      BY <1>1 DEF NoEntryBetween
    <3>1. i \in 1 .. n + 1 /\ i \in (j + 1) .. (k - 1)
      BY <1>1, <1>4, <1>7
    <3> QED BY <1>2, <3>1 DEF NoEntryBetween
  <2> QED BY <1>4, <1>6, <2>1, <2>2, <2>3 DEF Follow, n
<1>8. CASE k # n + 3
  <2>1. k \in 1 .. n + 1 /\ k # Len(r) + 2 /\ k \in 1 .. n + 2 /\ k # n + 2
    BY <1>1, <1>5, <1>8
  <2>2. StartAt(q, up[t], next, t, k) = StartAt(r, None, next, t, k)
    BY <1>2, <2>1 DEF StartAt, n
  <2>3. NoEntryBetween(q, up[t], t, j, k)
    <3> SUFFICES ASSUME NEW i \in (j + 1) .. (k - 1) PROVE Entry(q, up[t], t, i) = None
      BY DEF NoEntryBetween
    <3>1. i \in 1 .. n + 1
      BY <1>1, <1>4, <2>1
    <3> QED BY <1>2, <3>1 DEF NoEntryBetween
  <2> QED BY <1>4, <1>6, <2>1, <2>2, <2>3 DEF Follow, n
<1> QED BY <1>7, <1>8

\* The map that arrives continues the last batch tracked, and takes its place.
LEMMA FollowTrack ==
    ASSUME NEW q \in Seq(UploadMap), q # <<>>, NEW up, NEW last, NEW next \in Nat,
           NEW t \in Tables, Follow(q, up, last, next, t)
    PROVE  /\ q[1][t] # None /\ last # None => last + 1 = q[1][t].start_version
           /\ Follow(Tail(q), up, IF q[1][t] = None THEN last ELSE q[1][t].end_version, next, t)
<1> DEFINE n == Len(q)  r == Tail(q)
           new == IF q[1][t] = None THEN last ELSE q[1][t].end_version
<1>1. /\ n \in Nat /\ n >= 1 /\ Len(r) = n - 1 /\ q[1] \in UploadMap
      /\ \A i \in 1 .. n - 1 : r[i] = q[i + 1]
  OBVIOUS
<1>2. q[1][t] # None => q[1][t].start_version # None
  <2>1. q[1][t] # None => q[1][t] \in Batch
    BY <1>1 DEF UploadMap
  <2> QED BY <2>1, BatchFact, NoneAssumption
<1> HIDE DEF n, r
<1>3. Entry(q, up, t, 1) = q[1][t]
  BY <1>1 DEF Entry, n
<1>4. ASSUME q[1][t] # None, last # None PROVE last + 1 = q[1][t].start_version
  <2>1. 0 \in 0 .. n + 1 /\ 1 \in 1 .. n + 2 /\ 1 # n + 2 /\ 0 < 1
    BY <1>1
  <2>2. EndAt(q, up, last, t, 0) = last
    BY DEF EndAt
  <2>3. StartAt(q, up, next, t, 1) = q[1][t].start_version
    BY <1>3, <1>4, <2>1 DEF StartAt, n
  <2>4. NoEntryBetween(q, up, t, 0, 1)
    BY DEF NoEntryBetween
  <2> QED BY <1>2, <1>4, <2>1, <2>2, <2>3, <2>4 DEF Follow, n
<1>5. ASSUME NEW i \in 1 .. n PROVE Entry(r, up, t, i) = Entry(q, up, t, i + 1)
  <2>1. CASE i = n
    BY <1>1, <2>1 DEF Entry, n
  <2>2. CASE i # n
    <3>1. i \in 1 .. n - 1 /\ i + 1 <= n
      BY <1>1, <2>2
    <3> QED BY <1>1, <3>1 DEF Entry, n
  <2> QED BY <2>1, <2>2
<1>6. ASSUME NEW j \in 0 .. n, NEW k \in 1 .. n + 1, j < k,
             EndAt(r, up, new, t, j) # None, StartAt(r, up, next, t, k) # None,
             NoEntryBetween(r, up, t, j, k)
      PROVE  EndAt(r, up, new, t, j) + 1 = StartAt(r, up, next, t, k)
  <2>1. /\ k + 1 \in 1 .. n + 2 /\ (k = Len(r) + 2 <=> k + 1 = n + 2)
        /\ k + 1 # n + 2 => k \in 1 .. n
    BY <1>1
  <2>2. StartAt(q, up, next, t, k + 1) = StartAt(r, up, next, t, k)
    BY <1>5, <2>1 DEF StartAt, n
  <2>3. NoEntryBetween(q, up, t, j + 1, k + 1)
    <3> SUFFICES ASSUME NEW i \in (j + 2) .. k PROVE Entry(q, up, t, i) = None
      <4>1. (j + 1) + 1 = j + 2 /\ (k + 1) - 1 = k
        OBVIOUS
      <4> QED BY <4>1 DEF NoEntryBetween
    <3>1. i - 1 \in 1 .. n /\ i - 1 \in (j + 1) .. (k - 1) /\ (i - 1) + 1 = i
      BY <1>1, <1>6
    <3>2. Entry(r, up, t, i - 1) = None
      BY <1>6, <3>1 DEF NoEntryBetween
    <3> QED BY <1>5, <3>1, <3>2
  <2>4. CASE j # 0 \/ q[1][t] # None
    <3>1. EndAt(q, up, last, t, j + 1) = EndAt(r, up, new, t, j)
      <4>1. CASE j = 0
        BY <1>3, <2>4, <4>1 DEF EndAt
      <4>2. CASE j # 0
        <5>1. j \in 1 .. n /\ j + 1 # 0
          BY <1>1, <4>2
        <5> QED BY <1>5, <4>2, <5>1 DEF EndAt
      <4> QED BY <4>1, <4>2
    <3>2. j + 1 \in 0 .. n + 1 /\ j + 1 < k + 1
      BY <1>1, <1>6
    <3> QED BY <1>6, <2>1, <2>2, <2>3, <3>1, <3>2 DEF Follow, n
  <2>5. CASE j = 0 /\ q[1][t] = None
    <3>1. EndAt(q, up, last, t, 0) = last /\ EndAt(r, up, new, t, j) = last
      BY <2>5 DEF EndAt
    <3>2. NoEntryBetween(q, up, t, 0, k + 1)
      <4> SUFFICES ASSUME NEW i \in 1 .. k PROVE Entry(q, up, t, i) = None
        <5>1. 0 + 1 = 1 /\ (k + 1) - 1 = k
          OBVIOUS
        <5> QED BY <5>1 DEF NoEntryBetween
      <4>1. CASE i = 1
        BY <1>3, <2>5, <4>1
      <4>2. CASE i # 1
        <5>1. i \in ((j + 1) + 1) .. ((k + 1) - 1)
          BY <2>5, <4>2
        <5> QED BY <2>3, <5>1 DEF NoEntryBetween
      <4> QED BY <4>1, <4>2
    <3>3. 0 \in 0 .. n + 1 /\ 0 < k + 1
      BY <1>1
    <3> QED BY <1>6, <2>1, <2>2, <3>1, <3>2, <3>3 DEF Follow, n
  <2> QED BY <2>4, <2>5
<1>7. Follow(r, up, new, next, t)
  <2>1. Len(r) + 1 = n /\ Len(r) + 2 = n + 1
    BY <1>1
  <2> HIDE DEF new
  <2> QED BY <1>6, <2>1 DEF Follow
<1> QED BY <1>4, <1>7 DEF r

TrackInv ==
    \A t \in Emitted :
        Follow(to_tracker, uploaded[t], last_success_batch[t], Unuploaded(t), t)

\* Nothing is reported in a fresh state.
LEMMA FreshTrack == ASSUME Fresh PROVE TrackInv
<1> SUFFICES ASSUME NEW t \in Emitted
             PROVE  Follow(to_tracker, uploaded[t], last_success_batch[t], Unuploaded(t), t)
  BY DEF TrackInv
<1>1. to_tracker = <<>> /\ uploaded[t] = None /\ last_success_batch[t] = None
  BY EmittedFact DEF Fresh, NoUploads
<1> HIDE DEF Fresh
<1> QED BY <1>1, FollowFresh

\* Every step keeps the reports of a table in order.
LEMMA TrackStep ==
    ASSUME BufferStepInv, TypeOK', TrackInv, [Next]_vars
    PROVE  TrackInv'
<1>1. CASE Fresh'
  <2>1. Fresh' => TrackInv'
    BY FreshTrack, PTL
  <2> QED BY <1>1, <2>1
<1>2. CASE ~Fresh'
  <2> SUFFICES ASSUME NEW t \in Emitted
               PROVE  Follow(to_tracker', uploaded'[t], last_success_batch'[t],
                             Unuploaded(t)', t)
    BY DEF TrackInv
  <2> DEFINE q == to_tracker  last == last_success_batch[t]  next == Unuploaded(t)
  <2>1. /\ t \in Tables /\ q \in Seq(UploadMap) /\ uploaded \in UploadMap /\ next \in Nat
        /\ Follow(q, uploaded[t], last, next, t)
    BY EmittedFact, UnuploadedType DEF BufferStepInv, TypeOK, UploadMap, TrackInv
  <2>2. Unmoved(t) \/ Uploads(t) \/ Reports(t) \/ Tracks(t)
    BY <1>2, TableStep
  <2>3. CASE Unmoved(t)
    BY <2>1, <2>3 DEF Unmoved
  <2>4. CASE Uploads(t)
    <3> DEFINE b == internal_buffers[t].metadata
    <3>1. /\ b \in Batch /\ next = b.start_version /\ uploaded[t] = None
          /\ uploaded'[t] = b /\ Unuploaded(t)' = b.end_version + 1
          /\ to_tracker' = q /\ last_success_batch'[t] = last
      BY <2>4 DEF Uploads
    <3> HIDE DEF b, q, last, next
    <3>2. Follow(q, b, last, b.end_version + 1, t)
      BY <2>1, <3>1, FollowUpload
    <3> QED BY <3>1, <3>2
  <2>5. CASE Reports(t)
    <3>1. /\ to_tracker' = Append(q, uploaded) /\ uploaded'[t] = None
          /\ Unuploaded(t)' = next /\ last_success_batch'[t] = last
      BY <2>5 DEF Reports
    <3> HIDE DEF q, last, next
    <3>2. Follow(Append(q, uploaded), None, last, next, t)
      BY <2>1, FollowReport
    <3> QED BY <3>1, <3>2
  <2>6. CASE Tracks(t)
    <3>1. /\ q # <<>> /\ to_tracker' = Tail(q)
          /\ last_success_batch'[t] = IF q[1][t] = None THEN last ELSE q[1][t].end_version
          /\ Unuploaded(t)' = next /\ uploaded'[t] = uploaded[t]
      BY <2>6 DEF Tracks
    <3> HIDE DEF q, last, next
    <3>2. Follow(Tail(q), uploaded[t],
                 IF q[1][t] = None THEN last ELSE q[1][t].end_version, next, t)
      BY <2>1, <3>1, FollowTrack
    <3> QED BY <3>1, <3>2
  <2> QED BY <2>2, <2>3, <2>4, <2>5, <2>6
<1> QED BY <1>1, <1>2

\* Neither gap error is possible when the reports are in order.
LEMMA NoGapFact ==
    ASSUME BufferStepInv, ReportsInv, TrackInv
    PROVE  NoStepError
<1> USE DEF BufferStepInv, PipelineInv
<1>1. ASSUME NEW t \in Tables, handler = "process", t \in left
      PROVE  ~BufferGap(internal_buffers[t], item)
  <2>1. NextFor(t) = item.start_version
    BY <1>1 DEF NextFor
  <2> QED BY <2>1 DEF BufferInv, EndsBefore, BufferGap
<1>2. ASSUME NEW t \in Tables, to_tracker # <<>>, Head(to_tracker)[t] # None
      PROVE  ~TrackerGap(t, Head(to_tracker)[t])
  <2>1. /\ to_tracker \in Seq(UploadMap) /\ Head(to_tracker) = to_tracker[1]
        /\ 1 \in 1 .. Len(to_tracker)
    BY <1>2 DEF TypeOK, UploadMap
  <2>2. t \in Emitted
    BY <1>2, <2>1 DEF ReportsInv, Silent
  <2>3. Follow(to_tracker, uploaded[t], last_success_batch[t], Unuploaded(t), t)
        /\ Unuploaded(t) \in Nat
    BY <2>2, UnuploadedType DEF TrackInv
  <2>4. last_success_batch[t] # None =>
           last_success_batch[t] + 1 = to_tracker[1][t].start_version
    BY <1>2, <2>1, <2>3, FollowTrack
  <2> QED BY <2>1, <2>4 DEF TrackerGap
<1>3. NoGap
  BY <1>1, <1>2 DEF NoGap
<1>4. BufferMetadata
  BY DEF BufferMetadata, BufferInv, Holds
<1> QED BY <1>3, <1>4 DEF NoStepError

\* Neither update_current_batch_metadata nor the version tracker ever returns its
\* gap error, and a buffer that is drained has metadata for exactly the rows it
\* holds, although each table is uploaded at its own pace.
THEOREM StepsNeverFail == Spec \/ CheckpointedSpec => []NoStepError
<1> DEFINE IInv == BufferStepInv /\ ReportsInv /\ TrackInv
<1>1. Init \/ CheckpointedInit => IInv
  BY TypeOKInit, LifecycleInit, FreshInit, FreshPipeline, FreshReports, FreshTrack
     DEF BufferStepInv
<1>2. IInv /\ [Next]_vars => IInv'
  BY TypeStep, PipelineStep, ReportsStep, TrackStep DEF BufferStepInv
<1>3. IInv => NoStepError
  BY NoGapFact
<1> QED BY <1>1, <1>2, <1>3, PTL DEF Spec, CheckpointedSpec

------------------------------------------------------------------------------
(***************************************************************************)
(* The checkpoints are covered, in two situations.  Either the processor   *)
(* emits one table (events, account_transactions and transaction_metadata  *)
(* do, and any other whose backfill_table names one): then a row that is   *)
(* not found, whether its name is not looked up, its query fails or it     *)
(* does not exist, only makes the restart begin earlier.  Or it emits      *)
(* several: then a row that is not found lets the restart begin past a     *)
(* slower table, so every table must have a row from the beginning and     *)
(* every lookup must succeed.                                              *)
(***************************************************************************)
LookupsComplete ==
    BackfillTables = {} /\ TableNames = Tables /\ QueriesMayFail = FALSE

OneTableOnly == \A t, u \in Emitted : t = u

Resumable ==
    /\ \A t \in Tables : processor_status[t] # None => t \in Emitted
    /\ OneTableOnly \/ (LookupsComplete /\ \A t \in Tables : processor_status[t] # None)

\* Everything the default mode was to index before this process started is in
\* the bucket.
DefaultInv ==
    phase \in {"starting", "running"} /\ mode.type = "default" =>
        \A t \in Emitted, v \in Versions :
            InitialVersion <= v /\ v < starting_version => Durable(t, v)

CheckpointInv == StatusCovered /\ Resumable /\ DefaultInv

\* Only a start changes where the process reads from.
LEMMA RequestStep ==
    ASSUME TypeOK, [Next]_vars
    PROVE  \/ GetStartingVersion \/ phase' = "down"
           \/ /\ mode' = mode /\ starting_version' = starting_version
              /\ phase' \in {"starting", "running"} => phase \in {"starting", "running"}
<1>1. ASSUME Next
      PROVE  \/ GetStartingVersion \/ phase' = "down"
             \/ /\ mode' = mode /\ starting_version' = starting_version
                /\ phase' \in {"starting", "running"} => phase \in {"starting", "running"}
  BY <1>1 DEF Next, ResetBackfill, GetEndVersion, Stream, BeginProcess,
       Buffer, UploadAndBuffer, EndProcess, BeginPoll, BeginCleanup, DrainBuffer, EndPoll,
       EndCleanup, Report, Track, BeginSave, SaveStatus, EndPollSave, Finish, Crash, GoDown,
       UploadFails, Panic, NotInBuffer, NotInTracker, request
<1> QED BY <1>1 DEF vars, request

\* With complete lookups the restart of the default mode finds every row.
LEMMA AllLookedUp ==
    ASSUME LookupsComplete, NEW failed \in FailedQueries
    PROVE  LookedUp(failed) = Tables
<1>1. failed = {}
  BY DEF LookupsComplete, FailedQueries
<1> QED BY <1>1 DEF LookupsComplete, LookedUp, ProcessorStatusTableNames

\* A default start requests the stream from a version before which every table
\* it emits is covered: the least of their checkpoints, or initial_starting_version.
LEMMA StartCovered ==
    ASSUME TypeOK, StatusCovered, Resumable, GetStartingVersion, mode'.type = "default",
           NEW t \in Emitted, NEW v \in Versions, InitialVersion <= v, v < starting_version'
    PROVE  Durable(t, v)
<1>1. PICK m \in Modes, failed \in FailedQueries :
         /\ mode' = m
         /\ m.type = "default" =>
              starting_version' = StartingVersion(m, MinProcessedVersion(failed), None)
  BY DEF GetStartingVersion
<1>2. m.type = "default" /\ m \in ProcessorMode /\ m.initial_starting_version = InitialVersion
  BY <1>1, ParquetAssumption
<1> DEFINE s == MinProcessedVersion(failed)
           found == {u \in LookedUp(failed) : processor_status[u] # None}
<1>3. starting_version' = IF s # None /\ s > InitialVersion THEN s ELSE InitialVersion
  BY <1>1, <1>2, DefaultStart
<1>4. v \in Nat /\ InitialVersion \in Nat
  BY VersionsAreNat, ParquetAssumption
<1>5. /\ s \in OptionalVersion
      /\ found = {} => s = None
      /\ \A u \in found : s <= processor_status[u]
  BY MinProcessedFact
<1>6. s # None /\ v < s /\ s \in Nat
  BY <1>3, <1>4, <1>5 DEF OptionalVersion
<1>7. t \in found
  <2>1. PICK u \in found : TRUE
    BY <1>5, <1>6
  <2>2. u \in Tables /\ processor_status[u] # None /\ u \in Emitted
    BY <2>1 DEF Resumable, LookedUp
  <2>3. CASE OneTableOnly
    BY <2>1, <2>2, <2>3 DEF OneTableOnly
  <2>4. CASE LookupsComplete /\ \A w \in Tables : processor_status[w] # None
    BY <2>4, AllLookedUp, EmittedFact
  <2> QED BY <2>3, <2>4 DEF Resumable
<1>8. t \in Tables
  BY EmittedFact
<1>9. s <= processor_status[t] /\ processor_status[t] # None
  BY <1>5, <1>7
<1>10. processor_status[t] \in Nat
  BY <1>8, <1>9, VersionsAreNat DEF TypeOK
<1> HIDE DEF s, found
<1>11. v \in InitialVersion .. processor_status[t]
  BY <1>4, <1>6, <1>9, <1>10
<1> QED BY <1>8, <1>9, <1>11 DEF StatusCovered

\* The version a default process saves for a table is covered.
LEMMA SavedCovered ==
    ASSUME BufferStepInv, ReportsInv, DefaultInv, NEW t \in Tables, SaveStatus(t),
           mode.type = "default",
           NEW v \in Versions, InitialVersion <= v, v <= last_success_batch[t]
    PROVE  Durable(t, v)
<1>1. phase = "running" /\ last_success_batch[t] # None
  BY DEF SaveStatus, BufferStepInv, Lifecycle
<1>2. t \in Emitted
  BY <1>1 DEF ReportsInv, Silent
<1>3. v \in Nat /\ starting_version \in Nat
  BY VersionsAreNat DEF BufferStepInv, TypeOK
<1>4. CASE v < starting_version
  BY <1>1, <1>2, <1>4 DEF DefaultInv
<1>5. CASE starting_version <= v
  BY <1>1, <1>2, <1>5 DEF ReportsInv, ReportInv, Covered
<1> QED BY <1>3, <1>4, <1>5

\* Every step keeps the checkpoints covered.
LEMMA CheckpointStep ==
    ASSUME BufferStepInv, TypeOK', ReportsInv, CheckpointInv, [Next]_vars
    PROVE  CheckpointInv'
<1> USE DEF CheckpointInv
<1>1. BucketGrows /\ TypeOK /\ Lifecycle
  BY BucketOnlyGrows DEF BufferStepInv
<1>2. StatusCovered'
  <2> SUFFICES ASSUME NEW t \in Tables, processor_status'[t] # None,
                      NEW v \in InitialVersion .. processor_status'[t]
               PROVE  Durable(t, v)'
    BY DEF StatusCovered
  <2>1. Durable(t, v)
    <3>1. CASE processor_status'[t] = processor_status[t]
      BY <3>1 DEF StatusCovered
    <3>2. CASE processor_status'[t] # processor_status[t]
      <4>1. /\ SaveStatus(t) /\ mode.type = "default" /\ last_success_batch[t] \in Versions
            /\ processor_status'[t] = last_success_batch[t]
        BY <1>1, <3>2, StatusStep
      <4>2. v \in Versions /\ InitialVersion <= v /\ v <= last_success_batch[t]
        BY <4>1, ParquetAssumption DEF Versions
      <4> QED BY <4>1, <4>2, SavedCovered
    <3> QED BY <3>1, <3>2
  <2> QED BY <1>1, <2>1, DurableStable
<1>3. Resumable'
  <2>1. ASSUME NEW t \in Tables, processor_status[t] # None PROVE processor_status'[t] # None
    <3>1. CASE processor_status'[t] = processor_status[t]
      BY <2>1, <3>1
    <3>2. CASE processor_status'[t] # processor_status[t]
      <4>1. processor_status'[t] \in Versions
        BY <1>1, <3>2, StatusStep
      <4>2. processor_status'[t] \in Nat
        BY <4>1, VersionsAreNat
      <4> QED BY <4>2, NoneAssumption
    <3> QED BY <3>1, <3>2
  <2>2. ASSUME NEW t \in Tables, processor_status'[t] # None PROVE t \in Emitted
    <3>1. CASE processor_status'[t] = processor_status[t]
      BY <2>2, <3>1 DEF Resumable
    <3>2. CASE processor_status'[t] # processor_status[t]
      <4>1. last_success_batch[t] \in Nat
        BY <1>1, <3>2, StatusStep, VersionsAreNat
      <4>2. last_success_batch[t] # None
        BY <4>1, NoneAssumption
      <4> QED BY <4>2 DEF ReportsInv, Silent
    <3> QED BY <3>1, <3>2
  <2> QED BY <2>1, <2>2 DEF Resumable
<1>4. DefaultInv'
  <2> SUFFICES ASSUME phase' \in {"starting", "running"}, mode'.type = "default",
                      NEW t \in Emitted, NEW v \in Versions,
                      InitialVersion <= v, v < starting_version'
               PROVE  Durable(t, v)'
    BY DEF DefaultInv
  <2>1. Durable(t, v)
    <3>1. CASE GetStartingVersion
      BY <1>1, <3>1, StartCovered
    <3>2. CASE mode' = mode /\ starting_version' = starting_version
               /\ phase \in {"starting", "running"}
      BY <3>2 DEF DefaultInv
    <3> QED BY <1>1, <3>1, <3>2, RequestStep
  <2> QED BY <1>1, <2>1, DurableStable, EmittedFact
<1> QED BY <1>2, <1>3, <1>4

\* The invariant the theorems below share.
CoverageInv == BufferStepInv /\ ReportsInv /\ CheckpointInv

\* It is inductive.
LEMMA CoverageStep ==
    ASSUME CoverageInv, [Next]_vars
    PROVE  CoverageInv'
  BY TypeStep, PipelineStep, ReportsStep, CheckpointStep DEF CoverageInv, BufferStepInv

\* It holds initially, without checkpoints if one table is emitted.
LEMMA CoverageInit ==
    ASSUME (Init /\ OneTableOnly) \/ (CheckpointedInit /\ LookupsComplete)
    PROVE  CoverageInv
<1>1. BufferStepInv /\ ReportsInv
  BY TypeOKInit, LifecycleInit, FreshInit, FreshPipeline, FreshReports DEF BufferStepInv
<1>2. phase = "down"
  BY DEF Init, CheckpointedInit, Down
<1>3. InitialVersion \in Nat /\ InitialVersion # None
  BY ParquetAssumption, VersionsAreNat, NoneAssumption
<1>4. StatusCovered
  <2>1. CASE Init
    BY <2>1 DEF Init, StatusCovered
  <2>2. CASE CheckpointedInit
    <3> SUFFICES ASSUME NEW t \in Tables, NEW v \in InitialVersion .. processor_status[t]
                 PROVE  Durable(t, v)
      BY DEF StatusCovered
    <3>1. v = InitialVersion
      BY <1>3, <2>2 DEF CheckpointedInit
    <3> QED BY <2>2, <3>1 DEF CheckpointedInit, Durable
  <2> QED BY <2>1, <2>2
<1>5. Resumable
  <2>1. CASE Init /\ OneTableOnly
    BY <2>1 DEF Resumable, Init
  <2>2. CASE CheckpointedInit /\ LookupsComplete
    BY <1>3, <2>2 DEF Resumable, CheckpointedInit, LookupsComplete, Emitted
  <2> QED BY <2>1, <2>2
<1> QED BY <1>1, <1>2, <1>4, <1>5 DEF CoverageInv, CheckpointInv, DefaultInv

\* When every table had a checkpoint before, and the restart looks all of them
\* up, no version is ever skipped: the rows of each table up to its checkpoint
\* are in the bucket, whatever crashed in between and whichever modes ran.
THEOREM CheckpointsAreCovered ==
    ASSUME LookupsComplete
    PROVE  CheckpointedSpec => []StatusCovered
<1>1. CheckpointedInit => CoverageInv
  BY CoverageInit
<1>2. CoverageInv /\ [Next]_vars => CoverageInv'
  BY CoverageStep
<1>3. CoverageInv => StatusCovered
  BY DEF CoverageInv, CheckpointInv
<1> QED BY <1>1, <1>2, <1>3, PTL DEF CheckpointedSpec

\* A processor that emits one table needs no checkpoint to begin with, and nothing
\* of the lookups: under whatever names the restart looks its row up, and whichever
\* of its queries fail, the rows up to the checkpoint are in the bucket.
THEOREM CheckpointIsCovered ==
    ASSUME OneTableOnly
    PROVE  Spec => []StatusCovered
<1>1. Init => CoverageInv
  BY CoverageInit
<1>2. CoverageInv /\ [Next]_vars => CoverageInv'
  BY CoverageStep
<1>3. CoverageInv => StatusCovered
  BY DEF CoverageInv, CheckpointInv
<1> QED BY <1>1, <1>2, <1>3, PTL DEF Spec

\* A step of the processor is, for every table, a step of CheckpointedIndex.
LEMMA IndexStep ==
    ASSUME CoverageInv, TypeOK', [Next]_vars, NEW t \in Tables
    PROVE  [Table(t)!Next]_(Table(t)!vars)
<1> DEFINE d == {v \in Versions : Durable(t, v)}
<1>1. BucketGrows /\ TypeOK /\ Lifecycle
  BY BucketOnlyGrows DEF CoverageInv, BufferStepInv
<1>2. d \subseteq d'
  BY <1>1, DurableStable
<1>3. CASE processor_status'[t] = processor_status[t]
  <2>1. Table(t)!Store
    BY <1>2, <1>3 DEF Table!Store
  <2> QED BY <2>1 DEF Table!Next
<1>4. CASE processor_status'[t] # processor_status[t]
  <2>1. /\ SaveStatus(t) /\ mode.type = "default" /\ last_success_batch[t] \in Versions
        /\ processor_status'[t] = last_success_batch[t]
        /\ processor_status[t] # None => processor_status[t] <= processor_status'[t]
    BY <1>1, <1>4, StatusStep
  <2>2. processor_status'[t] \in Nat
    BY <2>1, VersionsAreNat
  <2>3. d' = d
    <3>1. bucket' = bucket
      BY <2>1 DEF SaveStatus, NotInTracker
    <3> QED BY <3>1 DEF Durable
  <2>4. InitialVersion .. processor_status'[t] \subseteq d
    <3> SUFFICES ASSUME NEW v \in InitialVersion .. processor_status'[t] PROVE v \in d
      OBVIOUS
    <3>1. v \in Versions /\ InitialVersion <= v /\ v <= last_success_batch[t]
      BY <2>1, ParquetAssumption DEF Versions
    <3> QED BY <2>1, <3>1, SavedCovered DEF CoverageInv, CheckpointInv
  <2>5. Table(t)!Advance
    BY <2>1, <2>2, <2>3, <2>4 DEF Table!Advance
  <2> QED BY <2>5 DEF Table!Next
<1> QED BY <1>3, <1>4

\* A processor that emits one table implements CheckpointedIndex, whatever its
\* lookups find: the bucket only grows and the checkpoint moves forward over
\* uploaded versions only.
THEOREM TableImplementsIndex ==
    ASSUME OneTableOnly
    PROVE  Spec => TablesImplementIndex
<1>1. Init => CoverageInv /\ \A t \in Tables : Table(t)!Init
  <2>1. Init => \A t \in Tables : Table(t)!Init
    BY VersionsAreNat DEF Init, Table!Init
  <2> QED BY <2>1, CoverageInit
<1>2. CoverageInv /\ [Next]_vars => CoverageInv'
  BY CoverageStep
<1>3. CoverageInv /\ CoverageInv' /\ [Next]_vars =>
         [\A t \in Tables : [Table(t)!Next]_(Table(t)!vars)]_vars
  BY IndexStep DEF CoverageInv, BufferStepInv
<1> QED BY <1>1, <1>2, <1>3, PTL DEF Spec, TablesImplementIndex

\* A processor of several tables that all have a checkpoint takes, for each of
\* them, only steps of CheckpointedIndex, provided its restarts find every row.
THEOREM TablesStepAsIndex ==
    ASSUME LookupsComplete
    PROVE  CheckpointedSpec => [][\A t \in Tables : [Table(t)!Next]_(Table(t)!vars)]_vars
<1>1. CheckpointedInit => CoverageInv
  BY CoverageInit
<1>2. CoverageInv /\ [Next]_vars => CoverageInv'
  BY CoverageStep
<1>3. CoverageInv /\ CoverageInv' /\ [Next]_vars =>
         [\A t \in Tables : [Table(t)!Next]_(Table(t)!vars)]_vars
  BY IndexStep DEF CoverageInv, BufferStepInv
<1> QED BY <1>1, <1>2, <1>3, PTL DEF CheckpointedSpec
==============================================================================
