------------------------ MODULE ParquetBackfillProofs ------------------------
(***************************************************************************)
(* Proofs about the backfills of ParquetProcessor: a row says complete     *)
(* exactly when the backfill of its table is done.                         *)
(*                                                                         *)
(* The runs of a backfill have to agree on its range (BackfillsAgree).     *)
(* What its restarts look up, and whether their queries fail, does not     *)
(* matter: a row that is not found makes them begin earlier.  The one      *)
(* thing that does is a restart of several tables that continues: it       *)
(* leaves a table that has no row yet out of the minimum.  So either the   *)
(* processor emits one table, all of its tables or the one backfill_table  *)
(* names, or its backfills are started with overwrite_checkpoint.          *)
(***************************************************************************)
EXTENDS ParquetProcessorProofs

AlwaysOverwrites == \A m \in Modes : m.type = "backfill" => m.overwrite_checkpoint

BackfillsRegular == (OneTableOnly \/ AlwaysOverwrites) /\ BackfillsAgree(Modes)

\* A backfill mode of this instance.
LEMMA BackfillMode ==
    ASSUME BackfillsRegular, NEW m \in Modes, m.type = "backfill"
    PROVE  /\ m \in ProcessorMode /\ m.backfill_id \in BackfillIds
           /\ m.initial_starting_version \in Nat
           /\ m.ending_version \in Nat /\ m.ending_version # None
           /\ m.initial_starting_version <= m.ending_version /\ 0 < m.ending_version
           /\ \A n \in Modes : n.type = "backfill" /\ n.backfill_id = m.backfill_id =>
                 \A row : RowOf(row, n) <=> RowOf(row, m)
<1>1. m \in ProcessorMode /\ m \in BackfillConfig
  BY ParquetAssumption, ModeCases
<1>2. m.ending_version # None /\ m.ending_version \in Nat
  BY <1>1 DEF BackfillsRegular, BackfillsAgree, BackfillConfig, OptionalVersion
<1>3. m.initial_starting_version \in Nat /\ m.backfill_id \in BackfillIds
  BY <1>1 DEF BackfillConfig
<1>4. m.initial_starting_version <= m.ending_version /\ 0 < m.ending_version
  BY DEF BackfillsRegular, BackfillsAgree
<1>5. \A n \in Modes : n.type = "backfill" /\ n.backfill_id = m.backfill_id =>
         \A row : RowOf(row, n) <=> RowOf(row, m)
  BY DEF BackfillsRegular, BackfillsAgree, RowOf
<1> QED BY <1>1, <1>2, <1>3, <1>4, <1>5

------------------------------------------------------------------------------
(***************************************************************************)
(* What cleanup leaves behind.  After the buffer step's cleanup no table   *)
(* has a filled buffer, and a table of which something was uploaded has a  *)
(* report somewhere on the way to the tracker.                             *)
(***************************************************************************)
Drained ==
    handler \in {"cleanup", "closed"} =>
        \A t \in Tables \ left : internal_buffers[t].metadata = None

Seen(t) ==
    \/ Unuploaded(t) = starting_version
    \/ uploaded[t] # None \/ last_success_batch[t] # None
    \/ \E k \in 1 .. Len(to_tracker) : to_tracker[k][t] # None

CleanupInv == Drained /\ \A t \in Emitted : Seen(t)

\* Nothing is buffered or reported in a fresh state.
LEMMA FreshCleanup ==
    ASSUME Fresh
    PROVE  CleanupInv
<1>1. Drained
  BY DEF Drained, Fresh
<1>2. ASSUME NEW t \in Emitted PROVE Seen(t)
  <2>1. internal_buffers[t].metadata = None
    BY EmittedFact DEF Fresh, NewBuffer
  <2> QED BY <2>1 DEF Seen, Unuploaded, NextFor, Upcoming, FirstOf, Fresh
<1> QED BY <1>1, <1>2 DEF CleanupInv

\* cleanup visits every buffer that holds something, and empties it.
LEMMA DrainedStep ==
    ASSUME BufferStepInv, TypeOK', Drained, [Next]_vars
    PROVE  Drained'
<1> SUFFICES ASSUME handler' \in {"cleanup", "closed"}, NEW t \in Tables, t \notin left'
             PROVE  internal_buffers'[t].metadata = None
  BY DEF Drained
<1>0. TypeOK /\ Lifecycle /\ LoopInv
  BY DEF BufferStepInv, PipelineInv
<1>1. CASE BeginCleanup
  <2>1. internal_buffers' = internal_buffers /\ ~(internal_buffers[t].size > 0)
    BY <1>1 DEF BeginCleanup
  <2>2. Holds(internal_buffers[t], t)
    BY DEF BufferStepInv, PipelineInv, BufferInv
  <2> QED BY <2>1, <2>2 DEF Holds
<1>2. ASSUME NEW u \in Tables, DrainBuffer(u)
      PROVE  internal_buffers'[t].metadata = None
  <2>1. /\ handler' = handler /\ left' = left \ {u}
        /\ internal_buffers' = [internal_buffers EXCEPT ![u] = NewBuffer]
    BY <1>2 DEF DrainBuffer
  <2>2. CASE t = u
    BY <1>0, <2>1, <2>2 DEF NewBuffer, TypeOK
  <2>3. CASE t # u
    <3>1. internal_buffers'[t] = internal_buffers[t] /\ t \notin left
      BY <1>0, <2>1, <2>3 DEF TypeOK
    <3> QED BY <2>1, <3>1 DEF Drained
  <2> QED BY <2>2, <2>3
<1>3. CASE EndCleanup
  BY <1>3 DEF EndCleanup, Report, Drained
<1>4. CASE UNCHANGED <<handler, left, internal_buffers>>
  BY <1>4 DEF Drained
<1>5. handler' \notin {"idle", "process", "poll"}
  OBVIOUS
<1>6. ASSUME Fresh' PROVE FALSE
  BY <1>6 DEF Fresh
<1>7. CASE Next
  <2>1. CASE GetStartingVersion \/ Crash \/ \E u \in Tables : UploadFails(u) \/ Panic(u)
    BY <1>0, <1>6, <2>1, FreshStep
  <2>2. CASE Stream \/ GetEndVersion \/ Track \/ EndPollSave \/ Finish
             \/ (\E why \in {"poll", "cleanup"} : BeginSave(why))
             \/ (\E u \in Tables : ResetBackfill(u) \/ SaveStatus(u))
    BY <1>4, <2>2 DEF Stream, GetEndVersion, Track, EndPollSave, Finish, BeginSave,
       ResetBackfill, SaveStatus, buffer, NotInTracker
  <2>3. CASE BeginProcess \/ EndProcess \/ BeginPoll \/ EndPoll
             \/ \E u \in Tables : Buffer(u) \/ UploadAndBuffer(u)
    BY <1>5, <2>3 DEF BeginProcess, EndProcess, BeginPoll, EndPoll, Buffer,
       UploadAndBuffer, Report
  <2> QED BY <1>1, <1>2, <1>3, <1>7, <2>1, <2>2, <2>3 DEF Next
<1> QED BY <1>4, <1>7 DEF vars, buffer

\* A report is passed on from the map being filled to the channel and from there
\* to the tracker.
LEMMA SeenStep ==
    ASSUME BufferStepInv, TypeOK', NEW t \in Emitted, Seen(t),
           Unmoved(t) \/ Uploads(t) \/ Reports(t) \/ Tracks(t)
    PROVE  Seen(t)'
<1>0. /\ t \in Tables /\ to_tracker \in Seq(UploadMap) /\ to_tracker' \in Seq(UploadMap)
      /\ uploaded \in UploadMap
  BY EmittedFact DEF BufferStepInv, TypeOK, UploadMap
<1>1. CASE Unmoved(t)
  BY <1>1 DEF Unmoved, Seen
<1>2. CASE Uploads(t)
  <2>1. uploaded'[t] # None
    BY <1>2, BatchFact DEF Uploads
  <2> QED BY <2>1 DEF Seen
<1>3. CASE Reports(t)
  <2>1. /\ to_tracker' = Append(to_tracker, uploaded)
        /\ Unuploaded(t)' = Unuploaded(t) /\ starting_version' = starting_version
        /\ last_success_batch'[t] = last_success_batch[t]
    BY <1>3 DEF Reports
  <2>2. /\ Len(to_tracker) \in Nat /\ Len(to_tracker') = Len(to_tracker) + 1
        /\ to_tracker'[Len(to_tracker) + 1] = uploaded
        /\ \A k \in 1 .. Len(to_tracker) : to_tracker'[k] = to_tracker[k]
    BY <1>0, <2>1, AppendProperties
  <2>3. CASE uploaded[t] # None
    <3>1. Len(to_tracker) + 1 \in 1 .. Len(to_tracker')
      BY <2>2
    <3> QED BY <2>2, <2>3, <3>1 DEF Seen
  <2>4. ASSUME NEW k \in 1 .. Len(to_tracker), to_tracker[k][t] # None PROVE Seen(t)'
    <3>1. k \in 1 .. Len(to_tracker')
      BY <2>2
    <3> QED BY <2>2, <2>4, <3>1 DEF Seen
  <2> QED BY <2>1, <2>3, <2>4 DEF Seen
<1>4. CASE Tracks(t)
  <2>1. /\ to_tracker # <<>> /\ to_tracker' = Tail(to_tracker)
        /\ last_success_batch'[t] = IF to_tracker[1][t] = None THEN last_success_batch[t]
                                    ELSE to_tracker[1][t].end_version
        /\ Unuploaded(t)' = Unuploaded(t) /\ uploaded'[t] = uploaded[t]
        /\ starting_version' = starting_version
    BY <1>4 DEF Tracks
  <2>2. /\ Len(to_tracker) \in Nat \ {0} /\ Len(to_tracker') = Len(to_tracker) - 1
        /\ \A k \in 1 .. Len(to_tracker') : to_tracker'[k] = to_tracker[k + 1]
    BY <1>0, <2>1
  <2>3. CASE to_tracker[1][t] # None
    <3>1. to_tracker[1][t] \in Batch
      BY <1>0, <2>2, <2>3 DEF UploadMap
    <3>2. to_tracker[1][t].end_version \in Nat
      BY <3>1, BatchFact
    <3>3. last_success_batch'[t] # None
      BY <2>1, <2>3, <3>2, NoneAssumption
    <3> QED BY <3>3 DEF Seen
  <2>4. ASSUME NEW k \in 1 .. Len(to_tracker), k # 1, to_tracker[k][t] # None PROVE Seen(t)'
    <3>1. k - 1 \in 1 .. Len(to_tracker') /\ (k - 1) + 1 = k
      BY <2>2, <2>4
    <3> QED BY <2>2, <2>4, <3>1 DEF Seen
  <2>5. CASE to_tracker[1][t] = None
    BY <2>1, <2>4, <2>5 DEF Seen
  <2> QED BY <2>3, <2>5
<1> QED BY <1>1, <1>2, <1>3, <1>4

\* Every step preserves both.
LEMMA CleanupStep ==
    ASSUME BufferStepInv, TypeOK', CleanupInv, [Next]_vars
    PROVE  CleanupInv'
<1>1. Drained'
  BY DrainedStep DEF CleanupInv
<1>2. ASSUME NEW t \in Emitted PROVE Seen(t)'
  <2>1. CASE Fresh'
    <3>1. internal_buffers'[t].metadata = None
      BY <2>1, EmittedFact DEF Fresh, NewBuffer
    <3> QED BY <2>1, <3>1 DEF Seen, Unuploaded, NextFor, Upcoming, FirstOf, Fresh
  <2>2. CASE Unmoved(t) \/ Uploads(t) \/ Reports(t) \/ Tracks(t)
    BY <2>2, SeenStep DEF CleanupInv
  <2> QED BY <2>1, <2>2, TableStep
<1> QED BY <1>1, <1>2 DEF CleanupInv

\* When the tracker cleans up, every emitted table has been tracked to the end of
\* the stream, if the stream was to deliver something.
LEMMA TrackedToTheEnd ==
    ASSUME BufferStepInv, TrackInv, CleanupInv, handler = "closed", to_tracker = <<>>,
           starting_version <= ending_version, NEW t \in Emitted
    PROVE  /\ last_success_batch[t] # None
           /\ last_success_batch[t] >= ending_version
<1>0. /\ t \in Tables /\ starting_version \in Nat /\ next_version \in Nat
      /\ left = {} /\ uploaded[t] = None
      /\ ending_version # None /\ ending_version \in Nat
      /\ next_version > ending_version /\ to_buffer = <<>>
  BY EmittedFact DEF BufferStepInv, TypeOK, Lifecycle, StreamEnded, NoUploads, OptionalVersion
<1>1. Unuploaded(t) = next_version
  BY <1>0 DEF CleanupInv, Drained, Unuploaded, NextFor, Upcoming, FirstOf
<1>2. Len(to_tracker) = 0
  OBVIOUS
<1>3. last_success_batch[t] # None
  BY <1>0, <1>1, <1>2 DEF CleanupInv, Seen
<1>4. last_success_batch[t] \in Nat
  BY <1>0, <1>3, VersionsAreNat DEF BufferStepInv, TypeOK
<1>5. last_success_batch[t] + 1 = next_version
  <2>1. Follow(<<>>, None, last_success_batch[t], next_version, t)
    BY <1>0, <1>1 DEF TrackInv
  <2>2. 0 \in 0 .. Len(<<>>) + 1 /\ 2 \in 1 .. Len(<<>>) + 2 /\ 0 < 2 /\ 2 = Len(<<>>) + 2
    OBVIOUS
  <2>3. EndAt(<<>>, None, last_success_batch[t], t, 0) = last_success_batch[t]
    BY DEF EndAt
  <2>4. StartAt(<<>>, None, next_version, t, 2) = next_version
    BY <2>2 DEF StartAt
  <2>5. NoEntryBetween(<<>>, None, t, 0, 2)
    BY DEF NoEntryBetween, Entry
  <2>6. next_version # None
    BY <1>0, NoneAssumption
  <2>7. \A j \in 0 .. Len(<<>>) + 1, k \in 1 .. Len(<<>>) + 2 :
           /\ j < k
           /\ EndAt(<<>>, None, last_success_batch[t], t, j) # None
           /\ StartAt(<<>>, None, next_version, t, k) # None
           /\ NoEntryBetween(<<>>, None, t, j, k)
           => EndAt(<<>>, None, last_success_batch[t], t, j) + 1
                 = StartAt(<<>>, None, next_version, t, k)
    BY <2>1 DEF Follow
  <2> QED BY <1>3, <2>2, <2>3, <2>4, <2>5, <2>6, <2>7
<1>6. last_success_batch[t] >= ending_version
  BY <1>0, <1>4, <1>5
<1> QED BY <1>3, <1>6

------------------------------------------------------------------------------
(***************************************************************************)
(* The rows.  Each is in step with its configuration and covered by what   *)
(* was uploaded; a running backfill continues what its row covers; and     *)
(* once the tracker's cleanup has saved a table, the table is complete.    *)
(***************************************************************************)
BackfillRowOf(t, id) == backfill_processor_status[t][id]

RowInv(t, id) ==
    LET row == BackfillRowOf(t, id) IN
    row # None =>
        /\ t \in Emitted
        /\ \A v \in Versions : row.backfill_start_version <= v
                               /\ v <= row.last_success_version => Durable(t, v)
        /\ \E m \in Modes : m.type = "backfill" /\ m.backfill_id = id /\ RowOf(row, m)

\* The rows being reset exist, and are reset to the start of their range.
ResetInv ==
    phase = "starting" => \A t \in resetting :
        /\ mode.type = "backfill" /\ BackfillRowOf(t, mode.backfill_id) # None
        /\ RowOf(reset_row, mode) /\ reset_row.last_success_version = 0

\* Everything the backfill was to index before this process started is in the
\* bucket, and there is something left to index.
ContinueInv ==
    phase \in {"starting", "running"} /\ mode.type = "backfill" =>
        /\ starting_version <= mode.ending_version
        /\ phase = "running" => ending_version = mode.ending_version
        /\ \A t \in Emitted, v \in Versions :
              mode.initial_starting_version <= v /\ v < starting_version => Durable(t, v)

FinishInv ==
    /\ phase = "finished" => saver = "cleanup" /\ saving = {}
    /\ phase \in {"running", "finished"} /\ mode.type = "backfill" /\ saver = "cleanup" =>
          \A t \in Emitted \ saving :
             BackfillRowOf(t, mode.backfill_id).backfill_status = "complete"

BackfillInv ==
    /\ \A t \in Tables, id \in BackfillIds : RowInv(t, id)
    /\ ResetInv /\ ContinueInv /\ FinishInv

\* The runs of a backfill agree on its row.
LEMMA RowAgrees ==
    ASSUME BackfillsRegular, NEW t \in Tables, NEW id \in BackfillIds, RowInv(t, id),
           BackfillRowOf(t, id) # None, NEW m \in Modes, m.type = "backfill", m.backfill_id = id
    PROVE  RowOf(BackfillRowOf(t, id), m)
<1>1. PICK n \in Modes : n.type = "backfill" /\ n.backfill_id = id
                         /\ RowOf(BackfillRowOf(t, id), n)
  BY DEF RowInv
<1> QED BY <1>1, BackfillMode

\* The statements that touch a row of backfill_processor_status.
LEMMA BackfillRowStep ==
    ASSUME TypeOK, Lifecycle, ResetInv, [Next]_vars, NEW t \in Tables, NEW id \in BackfillIds
    PROVE  \/ BackfillRowOf(t, id)' = BackfillRowOf(t, id)
           \/ /\ ResetBackfill(t) /\ mode \in Modes /\ mode.type = "backfill"
              /\ mode.backfill_id = id
              /\ BackfillRowOf(t, id)' = reset_row
           \/ /\ SaveStatus(t) /\ mode \in Modes /\ mode.type = "backfill"
              /\ mode.backfill_id = id /\ last_success_batch[t] \in Nat
              /\ BackfillRowOf(t, id)' =
                    SavedBackfill(BackfillRowOf(t, id), mode, last_success_batch[t])
<1> DEFINE rows == backfill_processor_status
<1>0. rows \in [Tables -> [BackfillIds -> BackfillRow \cup {None}]]
  BY DEF TypeOK
<1>1. ASSUME NEW u \in Tables, ResetBackfill(u)
      PROVE  \/ rows'[t][id] = rows[t][id]
             \/ /\ u = t /\ mode \in Modes /\ mode.type = "backfill" /\ mode.backfill_id = id
                /\ rows'[t][id] = reset_row
  <2>1. /\ rows' = [rows EXCEPT ![u][mode.backfill_id] = reset_row]
        /\ mode \in Modes /\ mode.type = "backfill"
    BY <1>1 DEF ResetBackfill, ResetInv, TypeOK
  <2> QED BY <1>0, <2>1
<1>2. ASSUME NEW u \in Tables, SaveStatus(u)
      PROVE  \/ rows'[t][id] = rows[t][id]
             \/ /\ u = t /\ mode \in Modes /\ mode.type = "backfill" /\ mode.backfill_id = id
                /\ last_success_batch[t] \in Nat
                /\ rows'[t][id] = SavedBackfill(rows[t][id], mode, last_success_batch[t])
  <2>1. /\ rows' = IF mode.type = "backfill"
                   THEN [rows EXCEPT ![u][mode.backfill_id] =
                           SavedBackfill(rows[u][mode.backfill_id], mode, last_success_batch[u])]
                   ELSE rows
        /\ mode \in Modes
    BY <1>2 DEF SaveStatus, TypeOK
  <2>2. last_success_batch[u] \in Nat
    BY <1>2, VersionsAreNat DEF SaveStatus, Lifecycle, TypeOK
  <2> QED BY <1>0, <2>1, <2>2
<1>3. ASSUME UNCHANGED rows PROVE rows'[t][id] = rows[t][id]
  BY <1>3
<1>4. CASE Next
  <2>1. CASE \/ GetStartingVersion \/ GetEndVersion \/ Stream \/ BeginProcess \/ EndProcess
             \/ BeginPoll \/ BeginCleanup \/ EndPoll \/ EndCleanup
             \/ \E u \in Tables : Buffer(u) \/ UploadAndBuffer(u) \/ DrainBuffer(u)
    BY <1>3, <2>1 DEF GetStartingVersion, GetEndVersion, Stream, BeginProcess, EndProcess,
       BeginPoll, BeginCleanup, EndPoll, EndCleanup, Buffer, UploadAndBuffer, DrainBuffer,
       Report, NotInBuffer, status, BackfillRowOf
  <2>2. CASE \/ Track \/ EndPollSave \/ Finish \/ Crash
             \/ \E why \in {"poll", "cleanup"} : BeginSave(why)
             \/ \E u \in Tables : UploadFails(u) \/ Panic(u)
    BY <1>3, <2>2 DEF Track, EndPollSave, Finish, Crash, BeginSave, UploadFails, Panic,
       status, BackfillRowOf
  <2>3. CASE \E u \in Tables : ResetBackfill(u) \/ SaveStatus(u)
    BY <1>1, <1>2, <2>3 DEF BackfillRowOf
  <2> QED BY <1>4, <2>1, <2>2, <2>3 DEF Next
<1> QED BY <1>3, <1>4 DEF vars, status, BackfillRowOf

\* A backfill starts at a version before which its tables are covered, and never
\* past its end.
LEMMA BackfillStarts ==
    ASSUME BackfillsRegular, TypeOK, Lifecycle,
           \A t \in Tables, id \in BackfillIds : RowInv(t, id), GetStartingVersion
    PROVE  ResetInv' /\ ContinueInv' /\ FinishInv'
<1>1. PICK m \in Modes, failed \in FailedQueries, failed_end \in FailedQueries :
         LET found == IF m.type = "backfill"
                      THEN BackfillStatuses(m.backfill_id, failed) ELSE {}
             row == IF m.type = "backfill"
                    THEN ResumeRow(m.backfill_id, found) ELSE None
             start == StartingVersion(m, MinProcessedVersion(failed), row)
         IN /\ start # None
            /\ mode' = m
            /\ starting_version' = start
            /\ resetting' = IF m.type = "backfill" /\ m.overwrite_checkpoint
                            THEN found ELSE {}
            /\ reset_row' = RestartedBackfill(row, m, MinProcessedVersion(failed_end))
  BY DEF GetStartingVersion
<1>2. /\ phase' = "starting" /\ saver' = "idle" /\ bucket' = bucket
      /\ backfill_processor_status' = backfill_processor_status
  BY DEF GetStartingVersion, status
<1>3. FinishInv'
  BY <1>2 DEF FinishInv
<1>4. CASE m.type # "backfill"
  BY <1>1, <1>2, <1>3, <1>4 DEF ResetInv, ContinueInv
<1>5. CASE m.type = "backfill"
  <2> DEFINE id == m.backfill_id
             found == BackfillStatuses(id, failed)
             row == ResumeRow(id, found)
             last(t) == BackfillRowOf(t, id).last_success_version
  <2>1. /\ mode' = m
        /\ starting_version' = StartingVersion(m, MinProcessedVersion(failed), row)
        /\ resetting' = IF m.overwrite_checkpoint THEN found ELSE {}
        /\ reset_row' = RestartedBackfill(row, m, MinProcessedVersion(failed_end))
    BY <1>1, <1>5
  <2>2. /\ m \in ProcessorMode /\ id \in BackfillIds
        /\ m.initial_starting_version \in Nat
        /\ m.ending_version \in Nat /\ m.ending_version # None
        /\ m.initial_starting_version <= m.ending_version /\ 0 < m.ending_version
    BY <1>5, BackfillMode
  <2>3. found \in SUBSET Tables /\ \A t \in found : backfill_processor_status[t][id] # None
    BY DEF BackfillStatuses, LookedUp
  <2>4. /\ found = {} => row = None
        /\ found # {} =>
             /\ row \in ResumePoint /\ row # None
             /\ row.backfill_status = "complete" <=>
                   \A t \in found : BackfillRowOf(t, id).backfill_status = "complete"
             /\ \A t \in found : row.last_success_version <= last(t)
    <3> HIDE DEF found
    <3> QED BY <2>2, <2>3, ResumeRowFact DEF BackfillRowOf
  <2>5. ASSUME NEW t \in found
        PROVE  /\ \A v \in Versions : m.initial_starting_version <= v /\ v <= last(t)
                                         => Durable(t, v)
               /\ BackfillRowOf(t, id).backfill_status = "complete"
                     <=> last(t) >= m.ending_version
               /\ last(t) \in Nat
    <3>1. BackfillRowOf(t, id) # None /\ BackfillRowOf(t, id) \in BackfillRow
      BY <2>2, <2>3 DEF BackfillRowOf, TypeOK
    <3>2. RowInv(t, id)
      BY <2>2, <2>3
    <3>3. RowOf(BackfillRowOf(t, id), m)
      BY <1>5, <2>2, <2>3, <3>1, <3>2, RowAgrees
    <3> QED BY <3>1, <3>2, <3>3 DEF RowInv, RowOf, BackfillRow
  <2>6. found # {} /\ ~m.overwrite_checkpoint => \A t \in Emitted : t \in found
    <3>1. found \subseteq Emitted
      BY <2>2, <2>3 DEF RowInv, BackfillRowOf
    <3>2. m.overwrite_checkpoint \/ OneTableOnly
      BY <1>5 DEF BackfillsRegular, AlwaysOverwrites
    <3> QED BY <3>1, <3>2 DEF OneTableOnly
  <2> HIDE DEF found, row, last
  <2>7. ResetInv'
    <3> SUFFICES ASSUME NEW t \in resetting'
                 PROVE  /\ BackfillRowOf(t, id) # None
                        /\ RowOf(reset_row', m) /\ reset_row'.last_success_version = 0
      BY <1>2, <1>5, <2>1 DEF ResetInv, BackfillRowOf
    <3>1. m.overwrite_checkpoint /\ t \in found /\ row # None
      BY <2>1, <2>4
    <3> QED BY <1>5, <2>1, <2>2, <2>3, <3>1, RestartedBackfillFact DEF BackfillRowOf
  <2>8. starting_version' =
           IF row = None \/ m.overwrite_checkpoint THEN m.initial_starting_version
           ELSE IF row.backfill_status = "complete" THEN m.ending_version
                ELSE row.last_success_version + 1
    BY <1>5, <2>1, <2>2, BackfillStart
  <2>9. /\ starting_version' <= m.ending_version
        /\ \A t \in Emitted, v \in Versions :
              m.initial_starting_version <= v /\ v < starting_version' => Durable(t, v)
    <3>1. CASE row = None \/ m.overwrite_checkpoint
      BY <2>2, <2>8, <3>1, VersionsAreNat
    <3>2. CASE row # None /\ ~m.overwrite_checkpoint
      <4>1. found # {}
        BY <2>4, <3>2
      <4>2. CASE row.backfill_status = "complete"
        <5>1. \A t \in Emitted : last(t) >= m.ending_version /\ last(t) \in Nat
          BY <2>4, <2>5, <2>6, <3>2, <4>1, <4>2
        <5>2. starting_version' = m.ending_version
          BY <2>8, <3>2, <4>2
        <5>3. ASSUME NEW t \in Emitted, NEW v \in Versions,
                     m.initial_starting_version <= v, v < starting_version'
              PROVE  Durable(t, v)
          <6>1. v <= last(t)
            BY <2>2, <5>1, <5>2, <5>3, VersionsAreNat
          <6> QED BY <2>5, <2>6, <3>2, <4>1, <5>3, <6>1
        <5> QED BY <2>2, <5>2, <5>3
      <4>3. CASE row.backfill_status # "complete"
        <5>1. starting_version' = row.last_success_version + 1
          BY <2>8, <3>2, <4>3
        <5>2. row.last_success_version \in Nat
          BY <2>4, <4>1 DEF ResumePoint
        <5>3. PICK u \in found : BackfillRowOf(u, id).backfill_status # "complete"
          BY <2>4, <4>1, <4>3
        <5>4. last(u) \in Nat /\ ~(last(u) >= m.ending_version)
              /\ row.last_success_version <= last(u)
          BY <2>4, <2>5, <4>1, <5>3
        <5>5. starting_version' <= m.ending_version
          BY <2>2, <5>1, <5>2, <5>4
        <5>6. ASSUME NEW t \in Emitted, NEW v \in Versions,
                     m.initial_starting_version <= v, v < starting_version'
              PROVE  Durable(t, v)
          <6>1. last(t) \in Nat /\ row.last_success_version <= last(t) /\ t \in found
            BY <2>4, <2>5, <2>6, <3>2, <4>1
          <6>2. v <= last(t)
            BY <5>1, <5>2, <5>6, <6>1, VersionsAreNat
          <6> QED BY <2>5, <5>6, <6>1, <6>2
        <5> QED BY <5>5, <5>6
      <4> QED BY <4>2, <4>3
    <3> QED BY <3>1, <3>2
  <2>10. ContinueInv'
    BY <1>2, <2>1, <2>9 DEF ContinueInv, Durable
  <2> QED BY <1>3, <2>7, <2>10
<1> QED BY <1>4, <1>5

\* A reset leaves a row that claims no more than the row it replaces, and a save
\* one that claims what was tracked.
LEMMA RowsStep ==
    ASSUME BackfillsRegular, BufferStepInv, ReportsInv, BackfillInv, BucketGrows, [Next]_vars,
           NEW t \in Tables, NEW id \in BackfillIds
    PROVE  RowInv(t, id)'
<1> DEFINE row == BackfillRowOf(t, id)
           new == BackfillRowOf(t, id)'
           Covers(r) == \A v \in Versions : r.backfill_start_version <= v
                                            /\ v <= r.last_success_version => Durable(t, v)
           Agrees(r) == \E m \in Modes : m.type = "backfill" /\ m.backfill_id = id /\ RowOf(r, m)
<1>0. TypeOK /\ Lifecycle /\ RowInv(t, id) /\ ResetInv /\ ContinueInv
  BY DEF BufferStepInv, BackfillInv
<1>1. row \in BackfillRow \cup {None}
      /\ (row # None => t \in Emitted /\ Covers(row) /\ Agrees(row))
  BY <1>0 DEF RowInv, TypeOK, BackfillRowOf
<1>2. SUFFICES new # None => t \in Emitted /\ Covers(new) /\ Agrees(new)
  <2>1. ASSUME NEW v \in Versions, Durable(t, v) PROVE Durable(t, v)'
    BY <2>1, DurableStable
  <2> QED BY <1>2, <2>1 DEF RowInv
<1>3. CASE new = row
  <2> HIDE DEF row, new, Covers, Agrees
  <2> QED BY <1>1, <1>3
<1>4. CASE /\ ResetBackfill(t) /\ mode \in Modes /\ mode.type = "backfill"
           /\ mode.backfill_id = id /\ new = reset_row
  <2>1. row # None /\ RowOf(reset_row, mode) /\ reset_row.last_success_version = 0
    BY <1>0, <1>4 DEF ResetBackfill, ResetInv
  <2>2. RowOf(row, mode)
    BY <1>0, <1>4, <2>1, RowAgrees
  <2>3. Agrees(reset_row)
    BY <1>4, <2>1
  <2>4. row.last_success_version \in Nat
    BY <1>1, <2>1 DEF BackfillRow
  <2>5. Covers(reset_row)
    <3> SUFFICES ASSUME NEW v \in Versions, reset_row.backfill_start_version <= v, v <= 0
                 PROVE  Durable(t, v)
      BY <2>1
    <3>1. row.backfill_start_version <= v
      BY <2>1, <2>2 DEF RowOf
    <3>2. v <= row.last_success_version
      BY <2>4, VersionsAreNat
    <3> QED BY <1>1, <2>1, <3>1, <3>2
  <2> QED BY <1>1, <1>4, <2>1, <2>3, <2>5
<1>5. CASE /\ SaveStatus(t) /\ mode \in Modes /\ mode.type = "backfill"
           /\ mode.backfill_id = id /\ last_success_batch[t] \in Nat
           /\ new = SavedBackfill(row, mode, last_success_batch[t])
  <2> DEFINE saved == SavedBackfill(row, mode, last_success_batch[t])
  <2>0. t \in Emitted
    <3>1. last_success_batch[t] # None
      BY <1>5, NoneAssumption
    <3> QED BY <3>1 DEF ReportsInv, Silent
  <2>1. /\ mode \in ProcessorMode /\ mode.ending_version # None
        /\ mode.initial_starting_version \in Nat
    BY <1>5, BackfillMode
  <2>2. row # None => RowOf(row, mode)
    BY <1>0, <1>5, RowAgrees
  <2>3. RowOf(saved, mode) /\ (saved = row \/ saved.last_success_version = last_success_batch[t])
    <3> HIDE DEF row
    <3> QED BY <1>1, <1>5, <2>1, <2>2, SavedBackfillFact
  <2>4. Agrees(saved)
    BY <1>5, <2>3
  <2>5. CASE saved.last_success_version = last_success_batch[t]
    <3> SUFFICES ASSUME NEW v \in Versions, mode.initial_starting_version <= v,
                        v <= last_success_batch[t]
                 PROVE  Durable(t, v)
      BY <1>5, <2>0, <2>3, <2>4, <2>5 DEF RowOf
    <3>1. phase = "running" /\ last_success_batch[t] # None
      BY <1>0, <1>5 DEF SaveStatus, Lifecycle
    <3>3. v \in Nat /\ starting_version \in Nat
      BY <1>0, VersionsAreNat DEF TypeOK
    <3>4. CASE v < starting_version
      BY <1>0, <1>5, <2>0, <3>1, <3>4 DEF ContinueInv
    <3>5. CASE starting_version <= v
      BY <2>0, <3>1, <3>5 DEF ReportsInv, ReportInv, Covered
    <3> QED BY <3>3, <3>4, <3>5
  <2>6. CASE saved = row
    <3> HIDE DEF row, new, Covers, Agrees, saved
    <3> QED BY <1>1, <1>5, <2>0, <2>4, <2>6 DEF saved
  <2> QED BY <2>3, <2>5, <2>6
<1> QED BY <1>0, <1>3, <1>4, <1>5, BackfillRowStep

\* While a process resets rows, nothing else happens to them.
LEMMA ResetStep ==
    ASSUME TypeOK, Lifecycle, ResetInv, [Next]_vars, ~GetStartingVersion
    PROVE  ResetInv'
<1> SUFFICES ASSUME phase' = "starting", NEW t \in resetting'
             PROVE  /\ mode'.type = "backfill" /\ backfill_processor_status'[t][mode'.backfill_id] # None
                    /\ RowOf(reset_row', mode') /\ reset_row'.last_success_version = 0
  BY DEF ResetInv, BackfillRowOf
<1>1. CASE UNCHANGED vars
  BY <1>1 DEF ResetInv, vars, status, request, BackfillRowOf
<1>2. ASSUME NEW u \in Tables, ResetBackfill(u)
      PROVE  /\ mode'.type = "backfill" /\ backfill_processor_status'[t][mode'.backfill_id] # None
             /\ RowOf(reset_row', mode') /\ reset_row'.last_success_version = 0
  <2>1. /\ phase = "starting" /\ t \in resetting /\ t # u /\ mode' = mode
        /\ reset_row' = reset_row
        /\ backfill_processor_status' =
              [backfill_processor_status EXCEPT ![u][mode.backfill_id] = reset_row]
    BY <1>2 DEF ResetBackfill
  <2>2. backfill_processor_status'[t] = backfill_processor_status[t]
    BY <2>1 DEF TypeOK
  <2> QED BY <2>1, <2>2 DEF ResetInv, BackfillRowOf, RowOf
<1>3. phase' = "starting" /\ Next => \E u \in Tables : ResetBackfill(u)
  BY DEF Next, GetStartingVersion, GetEndVersion, Stream, BeginProcess, EndProcess,
     BeginPoll, BeginCleanup, EndPoll, EndCleanup, Buffer, UploadAndBuffer, DrainBuffer,
     Report, NotInBuffer, Track, EndPollSave, Finish, Crash, BeginSave, SaveStatus,
     UploadFails, Panic, GoDown
<1> QED BY <1>1, <1>2, <1>3

\* A running backfill keeps its range.
LEMMA ContinueStep ==
    ASSUME BackfillsRegular, TypeOK, ContinueInv, BucketGrows, [Next]_vars, ~GetStartingVersion
    PROVE  ContinueInv'
<1> SUFFICES ASSUME phase' \in {"starting", "running"}, mode'.type = "backfill"
             PROVE  /\ starting_version' <= mode'.ending_version
                    /\ phase' = "running" => ending_version' = mode'.ending_version
                    /\ \A t \in Emitted, v \in Versions :
                          mode'.initial_starting_version <= v /\ v < starting_version'
                             => Durable(t, v)'
  BY DEF ContinueInv
<1>1. mode' = mode /\ starting_version' = starting_version /\ phase \in {"starting", "running"}
  BY RequestStep
<1>2. /\ starting_version <= mode.ending_version
      /\ phase = "running" => ending_version = mode.ending_version
      /\ \A t \in Emitted, v \in Versions :
            mode.initial_starting_version <= v /\ v < starting_version => Durable(t, v)
  BY <1>1 DEF ContinueInv
<1>3. ASSUME phase' = "running" PROVE ending_version' = mode.ending_version
  <2>1. CASE GetEndVersion
    <3>1. mode \in Modes
      BY <1>1 DEF TypeOK
    <3>2. mode.ending_version # None
      BY <1>1, <3>1, BackfillMode
    <3> QED BY <1>1, <2>1, <3>2 DEF GetEndVersion, EndVersion
  <2>2. CASE UNCHANGED <<phase, ending_version>>
    BY <1>2, <1>3, <2>2
  <2>3. CASE Next
    <3>1. \/ GetEndVersion \/ UNCHANGED <<phase, ending_version>> \/ phase' \in {"down", "finished"}
      BY <2>3 DEF Next, Stream, BeginProcess, EndProcess, ResetBackfill,
         BeginPoll, BeginCleanup, EndPoll, EndCleanup, Buffer, UploadAndBuffer, DrainBuffer,
         Report, NotInBuffer, NotInTracker, request, Track, EndPollSave, Finish, Crash,
         BeginSave, SaveStatus, UploadFails, Panic, GoDown
    <3> QED BY <1>3, <2>1, <2>2, <3>1
  <2> QED BY <2>2, <2>3 DEF vars, request
<1> QED BY <1>1, <1>2, <1>3, DurableStable, EmittedFact

\* The tracker's cleanup saves the end of the range of every table.
LEMMA FinishStep ==
    ASSUME BackfillsRegular, BufferStepInv, TypeOK', TrackInv, CleanupInv, BackfillInv,
           [Next]_vars, ~GetStartingVersion
    PROVE  FinishInv'
<1>0. TypeOK /\ Lifecycle /\ ResetInv /\ ContinueInv /\ FinishInv
      /\ \A t \in Tables, id \in BackfillIds : RowInv(t, id)
  BY DEF BufferStepInv, BackfillInv
<1>1. ASSUME mode.type = "backfill", phase = "running", handler = "closed", to_tracker = <<>>,
             NEW t \in Emitted
      PROVE  /\ t \in Tables /\ mode \in Modes
             /\ last_success_batch[t] # None /\ last_success_batch[t] >= mode.ending_version
  <2>1. starting_version <= ending_version /\ ending_version = mode.ending_version
    BY <1>0, <1>1 DEF ContinueInv
  <2> QED BY <1>0, <1>1, <2>1, TrackedToTheEnd, EmittedFact DEF TypeOK
<1>2. ASSUME phase' = "finished" PROVE saver' = "cleanup" /\ saving' = {}
  <2>1. CASE UNCHANGED <<phase, saver, saving>>
    BY <1>0, <1>2, <2>1 DEF FinishInv
  <2>2. CASE Next
    <3>1. Finish
      BY <1>2, <2>2 DEF Next, GetEndVersion, Stream, BeginProcess, EndProcess,
         ResetBackfill, BeginPoll, BeginCleanup, EndPoll, EndCleanup, Buffer, UploadAndBuffer,
         DrainBuffer, Report, NotInBuffer, Track, EndPollSave, Crash, BeginSave, SaveStatus,
         UploadFails, Panic, GoDown
    <3> QED BY <3>1 DEF Finish, tracker
  <2> QED BY <2>1, <2>2 DEF vars, tracker
<1>3. ASSUME phase' \in {"running", "finished"}, mode'.type = "backfill", saver' = "cleanup",
             NEW t \in Emitted, t \notin saving'
      PROVE  backfill_processor_status'[t][mode'.backfill_id].backfill_status = "complete"
  <2>1. mode' = mode /\ t \in Tables
    BY <1>0, <1>3, RequestStep, EmittedFact
  <2>2. mode \in Modes /\ mode.backfill_id \in BackfillIds
    BY <1>0, <1>3, <2>1, BackfillMode DEF TypeOK
  <2> DEFINE row == BackfillRowOf(t, mode.backfill_id)
             new == backfill_processor_status'[t][mode.backfill_id]
  <2>3. CASE SaveStatus(t)
    <3>1. phase = "running" /\ saver' = saver
      BY <2>3 DEF SaveStatus
    <3>2. handler = "closed" /\ to_tracker = <<>>
      BY <1>0, <1>3, <3>1 DEF Lifecycle
    <3>3. last_success_batch[t] # None /\ last_success_batch[t] >= mode.ending_version
      BY <1>1, <1>3, <2>1, <3>1, <3>2
    <3>4. last_success_batch[t] \in Nat
      BY <1>0, <2>1, <3>3, VersionsAreNat DEF TypeOK
    <3>5. new = SavedBackfill(row, mode, last_success_batch[t])
      BY <1>0, <1>3, <2>1, <2>2, <2>3 DEF SaveStatus, TypeOK, BackfillRowOf
    <3>6. row \in BackfillRow \cup {None} /\ (row # None => RowOf(row, mode))
      <4>1. row \in BackfillRow \cup {None}
        BY <1>0, <2>1, <2>2 DEF TypeOK, BackfillRowOf
      <4>2. row # None => RowOf(row, mode)
        BY <1>0, <1>3, <2>1, <2>2, RowAgrees
      <4> QED BY <4>1, <4>2
    <3>7. mode \in ProcessorMode /\ mode.ending_version # None /\ mode.type = "backfill"
      BY <1>3, <2>1, <2>2, BackfillMode
    <3> HIDE DEF row, new
    <3>8. new.backfill_status = "complete"
      BY <3>3, <3>4, <3>5, <3>6, <3>7, SavedBackfillFact
    <3> QED BY <2>1, <3>8 DEF new
  <2>4. CASE BeginSave("cleanup")
    <3>1. last_success_batch[t] # None
      BY <1>1, <1>3, <2>1, <2>4 DEF BeginSave
    <3> QED BY <1>3, <2>1, <2>4, <3>1 DEF BeginSave
  <2>5. \/ SaveStatus(t) \/ BeginSave("cleanup")
        \/ /\ phase \in {"running", "finished"} /\ saver = "cleanup" /\ t \notin saving
    <3>1. CASE Next
      <4>1. CASE GetEndVersion \/ \E u \in Tables : ResetBackfill(u)
        BY <1>0, <1>3, <4>1 DEF GetEndVersion, ResetBackfill, Lifecycle, tracker
      <4>2. CASE Crash \/ \E u \in Tables : UploadFails(u) \/ Panic(u)
        BY <1>3, <4>2 DEF Crash, UploadFails, Panic, GoDown
      <4>3. CASE \E u \in Tables : SaveStatus(u)
        BY <1>3, <2>1, <4>3 DEF SaveStatus
      <4>4. CASE \/ Stream \/ BeginProcess \/ EndProcess \/ BeginPoll \/ BeginCleanup
                 \/ EndPoll \/ EndCleanup
                 \/ \E u \in Tables : Buffer(u) \/ UploadAndBuffer(u) \/ DrainBuffer(u)
        BY <1>3, <4>4 DEF Stream, BeginProcess, EndProcess, BeginPoll, BeginCleanup, EndPoll,
           EndCleanup, Buffer, UploadAndBuffer, DrainBuffer, Report, NotInBuffer, tracker
      <4>5. CASE Track \/ EndPollSave \/ Finish \/ \E why \in {"poll", "cleanup"} : BeginSave(why)
        BY <1>3, <4>5 DEF Track, EndPollSave, Finish, BeginSave, tracker
      <4> QED BY <3>1, <4>1, <4>2, <4>3, <4>4, <4>5 DEF Next
    <3> QED BY <1>3, <3>1 DEF vars, tracker
  <2>6. CASE /\ phase \in {"running", "finished"} /\ saver = "cleanup" /\ t \notin saving
             /\ ~SaveStatus(t)
    <3>1. row.backfill_status = "complete"
      BY <1>0, <1>3, <2>1, <2>6 DEF FinishInv
    <3>2. ~ResetBackfill(t)
      BY <2>6 DEF ResetBackfill
    <3>3. new = row
      <4>1. ASSUME NEW id \in BackfillIds
            PROVE  backfill_processor_status'[t][id] = BackfillRowOf(t, id)
        BY <1>0, <2>1, <2>6, <3>2, BackfillRowStep DEF BackfillRowOf
      <4> QED BY <2>2, <4>1
    <3> QED BY <2>1, <3>1, <3>3
  <2> QED BY <2>3, <2>4, <2>5, <2>6
<1> QED BY <1>2, <1>3 DEF FinishInv, BackfillRowOf

------------------------------------------------------------------------------
\* The inductive invariant of the backfills.
BackfillsInv ==
    BufferStepInv /\ ReportsInv /\ TrackInv /\ CleanupInv /\ BackfillInv

\* It holds before the first start.
LEMMA BackfillsInit ==
    ASSUME Init
    PROVE  BackfillsInv
<1>1. TypeOK /\ Lifecycle /\ Fresh
  BY TypeOKInit, LifecycleInit, FreshInit
<1>2. PipelineInv /\ ReportsInv /\ TrackInv /\ CleanupInv
  BY <1>1, FreshPipeline, FreshReports, FreshTrack, FreshCleanup
<1>3. phase = "down" /\ \A t \in Tables, id \in BackfillIds : BackfillRowOf(t, id) = None
  BY DEF Init, Down, BackfillRowOf
<1>4. BackfillInv
  BY <1>3 DEF BackfillInv, RowInv, ResetInv, ContinueInv, FinishInv
<1> QED BY <1>1, <1>2, <1>4 DEF BackfillsInv, BufferStepInv

\* Every step preserves it.
LEMMA BackfillsStep ==
    ASSUME BackfillsRegular, BackfillsInv, [Next]_vars
    PROVE  BackfillsInv'
<1>0. TypeOK /\ Lifecycle /\ PipelineInv /\ BufferStepInv /\ ReportsInv /\ TrackInv
      /\ CleanupInv /\ BackfillInv
  BY DEF BackfillsInv, BufferStepInv
<1>1. TypeOK' /\ Lifecycle'
  BY <1>0, TypeStep
<1>2. PipelineInv' /\ ReportsInv' /\ TrackInv' /\ CleanupInv' /\ BucketGrows
  BY <1>0, <1>1, PipelineStep, ReportsStep, TrackStep, CleanupStep, BucketOnlyGrows
<1>3. \A t \in Tables, id \in BackfillIds : RowInv(t, id)'
  BY <1>0, <1>2, RowsStep
<1>4. ResetInv' /\ ContinueInv' /\ FinishInv'
  <2>1. CASE GetStartingVersion
    BY <1>0, <2>1, BackfillStarts DEF BackfillInv
  <2>2. CASE ~GetStartingVersion
    BY <1>0, <1>1, <1>2, <2>2, ResetStep, ContinueStep, FinishStep DEF BackfillInv
  <2> QED BY <2>1, <2>2
<1>5. BackfillInv'
  BY <1>3, <1>4 DEF BackfillInv
<1> QED BY <1>1, <1>2, <1>5 DEF BackfillsInv, BufferStepInv

\* A row that says complete has its range uploaded, and a finished backfill has
\* such a row.
LEMMA CompleteFact ==
    ASSUME BackfillsRegular, BackfillsInv
    PROVE  CompleteIffDone
<1>1. BackfillCompleteIsDone
  <2> SUFFICES ASSUME NEW t \in Tables, NEW id \in BackfillIds,
                      BackfillRowOf(t, id) # None,
                      BackfillRowOf(t, id).backfill_status = "complete",
                      NEW v \in (BackfillRowOf(t, id).backfill_start_version
                                   .. BackfillRowOf(t, id).backfill_end_version) \cap Versions
               PROVE  Durable(t, v)
    BY DEF BackfillCompleteIsDone, BackfillRowOf
  <2> DEFINE row == BackfillRowOf(t, id)
  <2>1. RowInv(t, id) /\ row \in BackfillRow
    BY DEF BackfillsInv, BackfillInv, BufferStepInv, TypeOK, BackfillRowOf
  <2>2. PICK m \in Modes : m.type = "backfill" /\ m.backfill_id = id /\ RowOf(row, m)
    BY <2>1 DEF RowInv
  <2>3. RowOf(row, m)
    BY <2>2
  <2>4. m.ending_version \in Nat /\ m.initial_starting_version \in Nat
    BY <2>2, BackfillMode
  <2>5. /\ row.last_success_version >= m.ending_version /\ row.last_success_version \in Nat
        /\ row.backfill_end_version = m.ending_version
        /\ row.backfill_start_version = m.initial_starting_version
    BY <2>1, <2>3 DEF RowOf, BackfillRow
  <2> HIDE DEF row
  <2>6. v \in Versions /\ row.backfill_start_version <= v /\ v <= row.last_success_version
    BY <2>4, <2>5, VersionsAreNat DEF row
  <2> QED BY <2>1, <2>6 DEF RowInv, row
<1>2. FinishedBackfillIsComplete
  BY DEF FinishedBackfillIsComplete, BackfillsInv, BackfillInv, FinishInv, BackfillRowOf
<1> QED BY <1>1, <1>2 DEF CompleteIffDone

\* backfill_status of a table says complete exactly when its backfill is: never
\* before the whole range is uploaded, whatever crashed, was reset by
\* overwrite_checkpoint or ran again in between, and always once the job has
\* ended.  For the backfill of one table, by any restarts, whatever they look up;
\* and for one of several tables whose runs all overwrite the checkpoint.
THEOREM BackfillCompleteIffDone ==
    ASSUME OneTableOnly \/ AlwaysOverwrites, BackfillsAgree(Modes)
    PROVE  Spec => []CompleteIffDone
<1>0. BackfillsRegular
  BY DEF BackfillsRegular
<1>1. Init => BackfillsInv
  BY BackfillsInit
<1>2. BackfillsInv /\ [Next]_vars => BackfillsInv'
  BY <1>0, BackfillsStep
<1>3. BackfillsInv => CompleteIffDone
  BY <1>0, CompleteFact
<1> QED BY <1>1, <1>2, <1>3, PTL DEF Spec
==============================================================================
