-------------------------- MODULE ParquetProcessor ---------------------------
(***************************************************************************)
(* A parquet processor: it collects the rows of each table in a buffer of  *)
(* its own, uploads a buffer to the bucket when the next batch would not   *)
(* fit or when a timer fires, and keeps one checkpoint per table.          *)
(*                                                                         *)
(*   TransactionStreamStep -> extractor -> ParquetBufferStep               *)
(*                                           -> ParquetVersionTrackerStep  *)
(*                                                                         *)
(* The two last steps are tasks of their own, joined by a channel.  Each   *)
(* of their handlers (process, poll, cleanup) runs to its end before the   *)
(* next one of the same step, with an upload or a statement per table; the *)
(* actions below are the parts between these awaits.  HashMaps are         *)
(* iterated in any order.  An error or a panic ends the process.           *)
(***************************************************************************)
EXTENDS ProcessorStatus, Sequences, FiniteSets, FiniteSetsExt

CONSTANTS
    Tables,          \* the ParquetTypeEnum values the extractor produces
    TableNames,      \* ProcessorConfig::table_names: the tables it lists
    BackfillTables,  \* backfill_table of the config, {} for all tables
    RowsIn,          \* RowsIn[v]: the tables that version v has rows for
    Modes,           \* the modes in which an operator starts the processor
    InitialVersion,  \* initial_starting_version of the default mode
    MaxVersion,      \* bound: the last version on the chain
    MaxBatch,        \* bound: versions per batch of the stream
    ChannelSize,     \* channel_size of the processor config
    BufferMaxSize,   \* max_buffer_size, in units of a row
    MaxStarts,       \* bound: process starts
    QueriesMayFail   \* whether a status query at startup can fail

Versions == 0 .. MaxVersion
Batch == [start_version : Versions, end_version : Versions]

\* Where get_parquet_starting_version lets a backfill resume.
ResumePoint ==
    [backfill_status : {"in_progress", "complete"}, last_success_version : Nat]

ASSUME ParquetAssumption ==
    /\ MaxVersion \in Nat /\ InitialVersion \in Versions
    /\ MaxBatch \in Nat \ {0} /\ ChannelSize \in Nat \ {0} /\ MaxStarts \in Nat
    /\ BufferMaxSize \in Nat /\ QueriesMayFail \in BOOLEAN
    /\ TableNames \subseteq Tables /\ BackfillTables \subseteq Tables
    /\ RowsIn \in [Versions -> SUBSET Tables]
    /\ Modes \subseteq ProcessorMode
    /\ \A m \in Modes : m.type = "default" => m.initial_starting_version = InitialVersion
    /\ None \notin Batch /\ None \notin Modes /\ None \notin ResumePoint

VARIABLES
    processor_status,          \* table -> its row of processor_status, or None
    backfill_processor_status, \* table -> backfill id -> row or None
    bucket,                    \* table -> versions whose rows were uploaded
    phase,                     \* "down", "starting", "running", "finished"
    mode,                      \* the mode of the process, None while it is down
    starts,                    \* how often it was started
    resetting,                 \* tables whose row get_parquet_starting_version
                               \* still resets, and the row it writes
    reset_row,
    starting_version,          \* the stream request
    ending_version,
    next_version,              \* the next version the stream delivers
    to_buffer,                 \* batches between the stream and the buffer step
    internal_buffers,          \* table -> ParquetBuffer
    handler,                   \* what the buffer step is in: "idle", "process", ...
    item,                      \* the batch it processes, or None
    left,                      \* tables its loop has not visited yet
    uploaded,                  \* upload_metadata_map: table -> metadata or None
    to_tracker,                \* upload_metadata_maps on their way to the tracker
    last_success_batch,        \* table -> end_version of its last batch, or None
    saver,                     \* what the tracker is in: "idle", "poll", "cleanup"
    saving                     \* tables its save loop has not visited yet

status  == <<processor_status, backfill_processor_status>>
request == <<mode, starts, resetting, reset_row, starting_version, ending_version>>
buffer  == <<internal_buffers, handler, item, left, uploaded>>
tracker == <<last_success_batch, saver, saving>>
vars == <<status, bucket, phase, request, next_version, to_buffer, buffer,
          to_tracker, tracker>>

InBatch(b) == b.start_version .. b.end_version
NoUploads == [t \in Tables |-> None]

\* add_to_map_if_opted_in_for_backfill: the tables in every batch's map, also
\* those the batch has no rows for.
Emitted == IF BackfillTables = {} THEN Tables ELSE BackfillTables

RowsOf(t, b) == {v \in InBatch(b) : t \in RowsIn[v]}

\* ParquetBuffer; size counts a Vec header per batch, which calculate_size
\* includes, and a unit per row.
NewBuffer == [rows |-> {}, size |-> 0, metadata |-> None]
SizeOf(t, b) == 1 + Cardinality(RowsOf(t, b))

Down ==
    /\ phase = "down" /\ mode = None /\ resetting = {} /\ reset_row = None
    /\ starting_version = 0 /\ ending_version = None /\ next_version = 0
    /\ to_buffer = <<>>
    /\ internal_buffers = [t \in Tables |-> NewBuffer]
    /\ handler = "idle" /\ item = None /\ left = {} /\ uploaded = NoUploads
    /\ to_tracker = <<>>
    /\ last_success_batch = [t \in Tables |-> None]
    /\ saver = "idle" /\ saving = {}

\* A first start: no table has a checkpoint.
Init ==
    /\ Down /\ starts = 0
    /\ processor_status = [t \in Tables |-> None]
    /\ backfill_processor_status = [t \in Tables |-> [id \in BackfillIds |-> None]]
    /\ bucket = [t \in Tables |-> {}]

\* A later start: a first upload of every table was checkpointed before.
CheckpointedInit ==
    /\ Down /\ starts = 0
    /\ processor_status = [t \in Tables |-> InitialVersion]
    /\ backfill_processor_status = [t \in Tables |-> [id \in BackfillIds |-> None]]
    /\ bucket = [t \in Tables |-> {v \in {InitialVersion} : t \in RowsIn[v]}]
------------------------------------------------------------------------------
(***************************************************************************)
(* Starting: get_parquet_starting_version, then get_parquet_end_version.   *)
(* Rows are saved under format_table_name(processor, table); the names     *)
(* looked up come from get_processor_status_table_names.  A query that     *)
(* fails is treated like a row that does not exist.                        *)
(***************************************************************************)
format_table_name(t) == <<"processor", t>>

ProcessorStatusTableNames ==
    IF BackfillTables = {} THEN {format_table_name(t) : t \in TableNames}
    ELSE BackfillTables

FailedQueries ==
    IF QueriesMayFail THEN SUBSET Tables ELSE {{}}

LookedUp(failed) ==
    {t \in Tables \ failed : format_table_name(t) \in ProcessorStatusTableNames}

\* Mutant: the maximum.
MaxProcessedVersion(failed) ==
    LET found == {t \in LookedUp(failed) : processor_status[t] # None}
    IN IF found = {} THEN None ELSE Max({processor_status[t] : t \in found})

\* get_min_processed_version_from_db
MinProcessedVersion(failed) ==
    LET found == {t \in LookedUp(failed) : processor_status[t] # None}
    IN IF found = {} THEN None ELSE Min({processor_status[t] : t \in found})

\* get_parquet_backfill_statuses
BackfillStatuses(id, failed) ==
    {t \in LookedUp(failed) : backfill_processor_status[t][id] # None}

\* The rows found, as the one row that decides where a backfill resumes:
\* complete if all are complete, at the least of their versions.
ResumeRow(id, found) ==
    LET row(t) == backfill_processor_status[t][id]
    IN IF found = {} THEN None
       ELSE [backfill_status |-> IF \A t \in found : row(t).backfill_status = "complete"
                                 THEN "complete" ELSE "in_progress",
             last_success_version |-> Min({row(t).last_success_version : t \in found})]

GetStartingVersion ==
    /\ phase \in {"down", "finished"}
    /\ starts < MaxStarts
    /\ \E m \in Modes, failed \in FailedQueries, failed_end \in FailedQueries :
         LET found == IF m.type = "backfill"
                      THEN BackfillStatuses(m.backfill_id, failed) ELSE {}
             row == IF m.type = "backfill"
                    THEN ResumeRow(m.backfill_id, found) ELSE None
             start == StartingVersion(m, MinProcessedVersion(failed), row)
         IN /\ start # None
            /\ mode' = m
            /\ starting_version' = start
            /\ next_version' = start
            /\ resetting' = IF m.type = "backfill" /\ m.overwrite_checkpoint
                            THEN found ELSE {}
            /\ reset_row' = RestartedBackfill(row, m, MinProcessedVersion(failed_end))
    /\ phase' = "starting"
    /\ starts' = starts + 1
    /\ internal_buffers' = [t \in Tables |-> NewBuffer]
    /\ handler' = "idle" /\ saver' = "idle"
    /\ last_success_batch' = [t \in Tables |-> None]
    /\ UNCHANGED <<status, bucket, ending_version, to_buffer, item, left, uploaded,
                   to_tracker, saving>>

\* overwrite_checkpoint: the existing rows are reset one statement at a time.
ResetBackfill(t) ==
    /\ phase = "starting" /\ t \in resetting
    /\ backfill_processor_status' =
         [backfill_processor_status EXCEPT ![t][mode.backfill_id] = reset_row]
    /\ resetting' = resetting \ {t}
    /\ UNCHANGED <<processor_status, bucket, phase, mode, starts, reset_row, starting_version,
                   ending_version, next_version, to_buffer, buffer, to_tracker, tracker>>

GetEndVersion ==
    /\ phase = "starting" /\ resetting = {}
    /\ \E failed \in FailedQueries :
         ending_version' = EndVersion(mode, MinProcessedVersion(failed))
    /\ phase' = "running"
    /\ UNCHANGED <<status, bucket, mode, starts, resetting, reset_row, starting_version,
                   next_version, to_buffer, buffer, to_tracker, tracker>>

\* The last version the stream will deliver (external).
LastRequested ==
    IF ending_version # None /\ ending_version <= MaxVersion
    THEN ending_version ELSE MaxVersion

\* TransactionStreamStep (external): consecutive batches of any size.
Stream ==
    /\ phase = "running"
    /\ Len(to_buffer) < ChannelSize
    /\ \E e \in Versions :
         /\ next_version <= e /\ e <= LastRequested
         /\ e < next_version + MaxBatch
         /\ to_buffer' = Append(to_buffer,
                           [start_version |-> next_version, end_version |-> e])
         /\ next_version' = e + 1
    /\ UNCHANGED <<status, bucket, phase, request, buffer, to_tracker, tracker>>
------------------------------------------------------------------------------
(***************************************************************************)
(* ParquetBufferStep                                                       *)
(***************************************************************************)
NotInBuffer == <<status, phase, request, next_version, tracker>>

BeginProcess ==
    /\ phase = "running" /\ handler = "idle" /\ to_buffer # <<>>
    /\ handler' = "process"
    /\ item' = Head(to_buffer)
    /\ to_buffer' = Tail(to_buffer)
    /\ left' = Emitted
    /\ UNCHANGED <<NotInBuffer, bucket, internal_buffers, uploaded, to_tracker>>

\* Mutant: >= for >.
OverflowsAtLimit(t) ==
    internal_buffers[t].size + SizeOf(t, item) >= BufferMaxSize

\* The next batch does not fit behind what the buffer holds.
Overflows(t) ==
    internal_buffers[t].size + SizeOf(t, item) > BufferMaxSize

\* update_current_batch_metadata returns an error on a gap.
BufferGap(buf, b) ==
    buf.metadata # None /\ buf.metadata.end_version + 1 # b.start_version

\* Mutant: replaces the metadata instead of extending it.
AppendReplacingMetadata(buf, t, b) ==
    [rows |-> buf.rows \cup RowsOf(t, b), size |-> buf.size + SizeOf(t, b),
     metadata |-> b]

\* append_to_buffer and update_current_batch_metadata
AppendToBuffer(buf, t, b) ==
    [rows |-> buf.rows \cup RowsOf(t, b),
     size |-> buf.size + SizeOf(t, b),
     metadata |-> [start_version |-> IF buf.metadata = None THEN b.start_version
                                     ELSE buf.metadata.start_version,
                   end_version |-> b.end_version]]

\* upload_buffer_append when the batch fits.
Buffer(t) ==
    /\ phase = "running" /\ handler = "process" /\ t \in left
    /\ ~Overflows(t) /\ ~BufferGap(internal_buffers[t], item)
    /\ internal_buffers' = [internal_buffers EXCEPT ![t] = AppendToBuffer(@, t, item)]
    /\ left' = left \ {t}
    /\ UNCHANGED <<NotInBuffer, bucket, to_buffer, handler, item, uploaded, to_tracker>>

\* Mutant: goes on without the object.
UploadIgnored(t) == UNCHANGED bucket

Upload(t) == bucket' = [bucket EXCEPT ![t] = @ \cup internal_buffers[t].rows]

\* Mutants: reports the current batch instead of the uploaded ones, and
\* forgets to reset the metadata.
UploadAndBufferReportingItem(t) ==
    /\ phase = "running" /\ handler = "process" /\ t \in left
    /\ Overflows(t) /\ internal_buffers[t].metadata # None
    /\ Upload(t)
    /\ uploaded' = [uploaded EXCEPT ![t] = item]
    /\ internal_buffers' = [internal_buffers EXCEPT ![t] =
                               AppendToBuffer(NewBuffer, t, item)]
    /\ left' = left \ {t}
    /\ UNCHANGED <<NotInBuffer, to_buffer, handler, item, to_tracker>>
UploadAndBufferKeepingMetadata(t) ==
    /\ phase = "running" /\ handler = "process" /\ t \in left
    /\ Overflows(t) /\ internal_buffers[t].metadata # None
    /\ Upload(t)
    /\ uploaded' = [uploaded EXCEPT ![t] = internal_buffers[t].metadata]
    /\ internal_buffers' = [internal_buffers EXCEPT ![t] =
          AppendToBuffer([@ EXCEPT !.rows = {}, !.size = 0], t, item)]
    /\ left' = left \ {t}
    /\ UNCHANGED <<NotInBuffer, to_buffer, handler, item, to_tracker>>

\* upload_buffer_append when it does not.
UploadAndBuffer(t) ==
    /\ phase = "running" /\ handler = "process" /\ t \in left
    /\ Overflows(t) /\ internal_buffers[t].metadata # None
    /\ Upload(t)
    /\ uploaded' = [uploaded EXCEPT ![t] = internal_buffers[t].metadata]
    /\ internal_buffers' = [internal_buffers EXCEPT ![t] =
                               AppendToBuffer(NewBuffer, t, item)]
    /\ left' = left \ {t}
    /\ UNCHANGED <<NotInBuffer, to_buffer, handler, item, to_tracker>>

\* The handler ends; what it uploaded goes to the tracker.
Report(next) ==
    /\ IF uploaded = NoUploads
       THEN UNCHANGED to_tracker
       ELSE /\ Len(to_tracker) < ChannelSize
            /\ to_tracker' = Append(to_tracker, uploaded)
    /\ uploaded' = NoUploads
    /\ handler' = next
    /\ item' = None
    /\ UNCHANGED <<NotInBuffer, bucket, to_buffer, internal_buffers, left>>

EndProcess ==
    /\ phase = "running" /\ handler = "process" /\ left = {}
    /\ Report("idle")

\* Mutants: a poll that skips buffers that are not full, a cleanup that does
\* not drain, and a poll that ends before its loop does.
BeginPollFullOnly ==
    /\ phase = "running" /\ handler = "idle"
    /\ handler' = "poll"
    /\ left' = {t \in Tables : internal_buffers[t].size >= BufferMaxSize}
    /\ UNCHANGED <<NotInBuffer, bucket, to_buffer, internal_buffers, item, uploaded,
                   to_tracker>>
BeginCleanupWithoutDrain ==
    /\ phase = "running" /\ handler = "idle"
    /\ ending_version # None /\ next_version > ending_version /\ to_buffer = <<>>
    /\ handler' = "cleanup"
    /\ UNCHANGED <<NotInBuffer, bucket, to_buffer, internal_buffers, item, left,
                   uploaded, to_tracker>>
EndPollEarly == phase = "running" /\ handler = "poll" /\ Report("idle")

\* poll by the upload_interval timer, cleanup when the stream has ended; both
\* drain every buffer.
BeginPoll ==
    /\ phase = "running" /\ handler = "idle"
    /\ handler' = "poll"
    /\ left' = {t \in Tables : internal_buffers[t].size > 0}
    /\ UNCHANGED <<NotInBuffer, bucket, to_buffer, internal_buffers, item, uploaded,
                   to_tracker>>

StreamEnded ==
    /\ ending_version # None /\ next_version > ending_version
    /\ to_buffer = <<>>

BeginCleanup ==
    /\ phase = "running" /\ handler = "idle" /\ StreamEnded
    /\ handler' = "cleanup"
    /\ left' = {t \in Tables : internal_buffers[t].size > 0}
    /\ UNCHANGED <<NotInBuffer, bucket, to_buffer, internal_buffers, item, uploaded,
                   to_tracker>>

DrainBuffer(t) ==
    /\ phase = "running" /\ handler \in {"poll", "cleanup"} /\ t \in left
    /\ internal_buffers[t].metadata # None
    /\ Upload(t)
    /\ uploaded' = [uploaded EXCEPT ![t] = internal_buffers[t].metadata]
    /\ internal_buffers' = [internal_buffers EXCEPT ![t] = NewBuffer]
    /\ left' = left \ {t}
    /\ UNCHANGED <<NotInBuffer, to_buffer, handler, item, to_tracker>>

EndPoll ==
    /\ phase = "running" /\ handler = "poll" /\ left = {}
    /\ Report("idle")

EndCleanup ==
    /\ phase = "running" /\ handler = "cleanup" /\ left = {}
    /\ Report("closed")
------------------------------------------------------------------------------
(***************************************************************************)
(* ParquetVersionTrackerStep and ParquetProcessorStatusSaver               *)
(***************************************************************************)
NotInTracker == <<bucket, request, next_version, to_buffer, buffer>>

TrackerGap(t, b) ==
    last_success_batch[t] # None /\ last_success_batch[t] + 1 # b.start_version

Track ==
    /\ phase = "running" /\ saver = "idle" /\ to_tracker # <<>>
    /\ LET map == Head(to_tracker) IN
       /\ \A t \in Tables : map[t] # None => ~TrackerGap(t, map[t])
       /\ last_success_batch' = [t \in Tables |->
            IF map[t] = None THEN last_success_batch[t] ELSE map[t].end_version]
    /\ to_tracker' = Tail(to_tracker)
    /\ UNCHANGED <<NotInTracker, status, phase, saver, saving>>

\* save_processor_status, by the timer or in cleanup: a statement per table.
BeginSave(why) ==
    /\ phase = "running" /\ saver = "idle"
    /\ why = "cleanup" => handler = "closed" /\ to_tracker = <<>>
    /\ saver' = why
    /\ saving' = {t \in Tables : last_success_batch[t] # None}
    /\ UNCHANGED <<NotInTracker, status, phase, to_tracker, last_success_batch>>

SaveStatus(t) ==
    /\ phase = "running" /\ t \in saving
    /\ processor_status' =
         IF mode.type = "default"
         THEN [processor_status EXCEPT ![t] = SavedStatus(@, last_success_batch[t])]
         ELSE processor_status
    /\ backfill_processor_status' =
         IF mode.type = "backfill"
         THEN [backfill_processor_status EXCEPT ![t][mode.backfill_id] =
                  SavedBackfill(@, mode, last_success_batch[t])]
         ELSE backfill_processor_status
    /\ saving' = saving \ {t}
    /\ UNCHANGED <<NotInTracker, phase, to_tracker, last_success_batch, saver>>

EndPollSave ==
    /\ phase = "running" /\ saver = "poll" /\ saving = {}
    /\ saver' = "idle"
    /\ UNCHANGED <<NotInTracker, status, phase, to_tracker, last_success_batch, saving>>

\* The tracker's cleanup is the last thing the process does.
Finish ==
    /\ phase = "running" /\ saver = "cleanup" /\ saving = {}
    /\ phase' = "finished"
    /\ UNCHANGED <<NotInTracker, status, to_tracker, tracker>>
------------------------------------------------------------------------------
\* A restart is cheap to model but not unbounded.
MayGoDown == phase \in {"starting", "running"} /\ starts < MaxStarts

GoDown ==
    /\ phase' = "down" /\ mode' = None /\ resetting' = {} /\ reset_row' = None
    /\ starting_version' = 0 /\ ending_version' = None /\ next_version' = 0
    /\ to_buffer' = <<>>
    /\ internal_buffers' = [t \in Tables |-> NewBuffer]
    /\ handler' = "idle" /\ item' = None /\ left' = {} /\ uploaded' = NoUploads
    /\ to_tracker' = <<>>
    /\ last_success_batch' = [t \in Tables |-> None]
    /\ saver' = "idle" /\ saving' = {}

\* The process ends at any point and everything in memory is gone.
Crash ==
    /\ MayGoDown
    /\ GoDown
    /\ UNCHANGED <<status, bucket, starts>>

\* upload_parquet_to_gcs gives up after its retries, or the process dies
\* before the answer: the object may be in the bucket all the same.
UploadFails(t) ==
    /\ MayGoDown /\ t \in left /\ internal_buffers[t].rows # {}
    /\ handler \in {"poll", "cleanup"} \/ (handler = "process" /\ Overflows(t))
    /\ Upload(t) \/ UNCHANGED bucket
    /\ GoDown
    /\ UNCHANGED <<status, starts>>

\* current_batch_metadata.clone().unwrap() on a buffer that has none.
MissingMetadata(t) ==
    /\ phase = "running" /\ t \in left
    /\ handler \in {"poll", "cleanup"} \/ (handler = "process" /\ Overflows(t))
    /\ internal_buffers[t].metadata = None

Panic(t) ==
    /\ MissingMetadata(t)
    /\ GoDown
    /\ UNCHANGED <<status, bucket, starts>>

Next ==
    \/ GetStartingVersion
    \/ \E t \in Tables : ResetBackfill(t)
    \/ GetEndVersion
    \/ Stream
    \/ BeginProcess
    \/ \E t \in Tables : Buffer(t) \/ UploadAndBuffer(t)
    \/ EndProcess
    \/ BeginPoll
    \/ BeginCleanup
    \/ \E t \in Tables : DrainBuffer(t)
    \/ EndPoll
    \/ EndCleanup
    \/ Track
    \/ \E why \in {"poll", "cleanup"} : BeginSave(why)
    \/ \E t \in Tables : SaveStatus(t)
    \/ EndPollSave
    \/ Finish
    \/ Crash
    \/ \E t \in Tables : UploadFails(t)
    \/ \E t \in Tables : Panic(t)

Spec == Init /\ [][Next]_vars
CheckpointedSpec == CheckpointedInit /\ [][Next]_vars

(***************************************************************************)
(* Fairness: the steps are tokio tasks that keep running and the timers    *)
(* fire; a process that went down is started again.  A step receives from  *)
(* its channel between two firings of its timer, so a handler that is      *)
(* enabled again and again whenever the step is idle does run (SF).        *)
(* Neither crashes nor failed uploads are required to stop: MaxStarts      *)
(* bounds them.                                                            *)
(***************************************************************************)
Fairness ==
    /\ WF_vars(phase = "down" /\ GetStartingVersion)
    /\ WF_vars(\E t \in Tables : ResetBackfill(t))
    /\ WF_vars(GetEndVersion)
    /\ WF_vars(Stream)
    /\ SF_vars(BeginProcess)
    /\ WF_vars(\E t \in Tables : Buffer(t) \/ UploadAndBuffer(t))
    /\ WF_vars(EndProcess)
    /\ SF_vars(BeginPoll)
    /\ SF_vars(BeginCleanup)
    /\ WF_vars(\E t \in Tables : DrainBuffer(t))
    /\ WF_vars(EndPoll)
    /\ WF_vars(EndCleanup)
    /\ SF_vars(Track)
    /\ SF_vars(BeginSave("poll"))
    /\ SF_vars(BeginSave("cleanup"))
    /\ WF_vars(\E t \in Tables : SaveStatus(t))
    /\ WF_vars(EndPollSave)
    /\ WF_vars(Finish)

FairSpec == Spec /\ Fairness
------------------------------------------------------------------------------
Durable(t, v) == t \in RowsIn[v] => v \in bucket[t]

(***************************************************************************)
(* Properties                                                              *)
(***************************************************************************)

\* Type invariant: rows, buffers, handler state and channels have the shape
\* the code gives them; a loop has tables left only inside its handler.
TypeOK ==
    /\ processor_status \in [Tables -> Versions \cup {None}]
    /\ backfill_processor_status \in
         [Tables -> [BackfillIds -> BackfillRow \cup {None}]]
    /\ bucket \in [Tables -> SUBSET Versions]
    /\ phase \in {"down", "starting", "running", "finished"}
    /\ mode \in Modes \cup {None} /\ (phase # "down" => mode # None)
    /\ starts \in 0 .. MaxStarts
    /\ resetting \subseteq Tables /\ (resetting # {} => reset_row \in BackfillRow)
    /\ starting_version \in Nat /\ ending_version \in OptionalVersion
    /\ next_version \in Nat
    /\ to_buffer \in Seq(Batch)
    /\ internal_buffers \in
         [Tables -> [rows : SUBSET Versions, size : Nat, metadata : Batch \cup {None}]]
    /\ handler \in {"idle", "process", "poll", "cleanup", "closed"}
    /\ item \in Batch \cup {None} /\ (handler = "process" <=> item # None)
    /\ left \subseteq Tables /\ (handler \in {"idle", "closed"} => left = {})
    /\ uploaded \in [Tables -> Batch \cup {None}]
    /\ to_tracker \in Seq([Tables -> Batch \cup {None}])
    /\ last_success_batch \in [Tables -> Versions \cup {None}]
    /\ saver \in {"idle", "poll", "cleanup"}
    /\ saving \subseteq Tables /\ (saver = "idle" => saving = {})

\* No version is skipped: the rows of a table up to its last_success_version
\* are all in the bucket, whatever crashed between buffering and saving.
StatusCovered ==
    \A t \in Tables : processor_status[t] # None =>
        \A v \in InitialVersion .. processor_status[t] : Durable(t, v)

\* What the buffer step reports as uploaded is in the bucket: in the map it
\* is filling, in the channel, and in what the tracker will save.
ReportedIsUploaded ==
    \A t \in Tables :
        /\ uploaded[t] # None => \A v \in InBatch(uploaded[t]) : Durable(t, v)
        /\ \A k \in 1 .. Len(to_tracker) : to_tracker[k][t] # None =>
              \A v \in InBatch(to_tracker[k][t]) : Durable(t, v)
        /\ last_success_batch[t] # None =>
              \A v \in starting_version .. last_success_batch[t] : Durable(t, v)

\* A table's checkpoint never moves backwards, also after a restart that
\* indexes again what faster tables have already checkpointed.
StatusMonotone ==
    [][\A t \in Tables : processor_status[t] # None =>
          processor_status'[t] >= processor_status[t]]_processor_status

\* Neither the buffers nor the tracker ever raise their gap error, although
\* each table is uploaded at its own pace.
NoGap ==
    \A t \in Tables :
        /\ handler = "process" /\ t \in left => ~BufferGap(internal_buffers[t], item)
        /\ to_tracker # <<>> /\ Head(to_tracker)[t] # None =>
              ~TrackerGap(t, Head(to_tracker)[t])

\* A drained buffer has metadata ("This should never happen" of cleanup, the
\* unwrap of poll), and never more than the batches it reports.
BufferMetadata ==
    \A t \in Tables :
        LET buf == internal_buffers[t] IN
        /\ buf.size > 0 <=> buf.metadata # None
        /\ buf.rows = IF buf.metadata = None THEN {} ELSE RowsOf(t, buf.metadata)

\* Neither the gap errors nor the missing metadata that the buffer step and the
\* tracker guard against ever stop the processor.
NoStepError == NoGap /\ BufferMetadata

\* "If any buffer exceeds the maximum size, its contents are uploaded"
\* (parquet_buffer_step.rs:177) fails in one situation, where the step panics on missing
\* metadata instead: the process handler meets a batch too large for a whole buffer
\* while the buffer of its table is empty.  No drain meets an empty buffer, and no
\* batch that fits one ends the process.
PanicsOnlyOversized ==
    \A t \in Tables : MissingMetadata(t) =>
        handler = "process" /\ SizeOf(t, item) > BufferMaxSize

\* A table whose backfill is marked complete has its whole range uploaded.
BackfillCompleteIsDone ==
    \A t \in Tables, id \in BackfillIds :
        LET row == backfill_processor_status[t][id] IN
        row # None /\ row.backfill_status = "complete" =>
            \A v \in (row.backfill_start_version .. row.backfill_end_version) \cap Versions :
                Durable(t, v)

\* A backfill that ran to its end is recorded complete for every table.
FinishedBackfillIsComplete ==
    phase = "finished" /\ mode.type = "backfill" =>
        \A t \in Emitted :
            backfill_processor_status[t][mode.backfill_id].backfill_status = "complete"

\* backfill_status says complete exactly when the backfill of the table is: not
\* before its range is uploaded, and no later than the end of the job.
CompleteIffDone == BackfillCompleteIsDone /\ FinishedBackfillIsComplete

\* Every table by itself is a checkpointed index.
Table(t) == INSTANCE CheckpointedIndex WITH
                durable <- {v \in Versions : Durable(t, v)},
                checkpoint <- processor_status[t]

TablesImplementIndex ==
    /\ \A t \in Tables : Table(t)!Init
    /\ [][\A t \in Tables : [Table(t)!Next]_(Table(t)!vars)]_vars

\* If the processor ends up running at the head, every table is eventually
\* uploaded and checkpointed to the end of the chain, also those that never fill
\* their buffer, and whatever backfills ran in between.
TablesCatchUp ==
    <>[](mode # None /\ mode.type = "default") =>
        <>[](\A t \in Tables : processor_status[t] = MaxVersion)

\* If it ends up running a backfill, every table of it eventually reports
\* completion.
BackfillCompletes ==
    <>[](mode # None /\ mode.type = "backfill") =>
        \A t \in Tables, id \in BackfillIds :
            <>(backfill_processor_status[t][id] # None
               /\ backfill_processor_status[t][id].backfill_status = "complete")

\* Whichever mode the processor ends up in, all its tables get where that mode
\* is to bring them.
TablesSettle == TablesCatchUp /\ BackfillCompletes
==============================================================================
