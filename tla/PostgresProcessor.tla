-------------------------- MODULE PostgresProcessor --------------------------
(***************************************************************************)
(* Processor instances that index the transaction stream into one Postgres *)
(* database: any number of instances of the same processor, each in the    *)
(* mode its operator started it in (default, backfill, testing), sharing   *)
(* the data tables and the status tables.                                  *)
(*                                                                         *)
(*   TransactionStreamStep -> extractor -> storer -> VersionTrackerStep    *)
(*                                                                         *)
(* Every step is a task of its own; bounded channels connect them.  The    *)
(* extractor keeps nothing between batches, so one channel stands for the  *)
(* two around it.  A storer inserts the rows of a batch as concurrent,     *)
(* separately committed statements (execute_in_chunks under try_join!);    *)
(* only when all of them succeed does the batch reach the tracker.  Any    *)
(* error or panic ends the process: Crash.                                 *)
(***************************************************************************)
EXTENDS ProcessorStatus, Sequences, FiniteSets

CONSTANTS
    Instances,      \* running copies of the processor
    Modes,          \* Modes[i]: the modes in which instance i may be started
    InitialVersion, \* initial_starting_version of the default mode
    MaxVersion,     \* bound: the last version on the chain
    HistoryTables,  \* tables with one row per transaction, insert-once
    CurrentTable,   \* a table with one row per key, the latest state
    KeyOf,          \* KeyOf[v]: the key whose current row version v writes
    MaxBatch,       \* bound: versions per batch of the stream
    ChannelSize,    \* channel_size of the processor config
    MaxStarts       \* bound: process starts per instance

Versions == 0 .. MaxVersion
Batch == [start_version : Versions, end_version : Versions]

ASSUME PostgresAssumption ==
    /\ MaxVersion \in Nat /\ InitialVersion \in Versions
    /\ MaxBatch \in Nat \ {0} /\ ChannelSize \in Nat \ {0} /\ MaxStarts \in Nat
    /\ CurrentTable \notin HistoryTables
    /\ DOMAIN KeyOf = Versions
    /\ None \notin Batch
    /\ \A i \in Instances : Modes[i] \subseteq ProcessorMode
    /\ \A i \in Instances : \A m \in Modes[i] :
          m.type = "default" => m.initial_starting_version = InitialVersion

VARIABLES
    processor_status,          \* the row of processor_status, or None
    backfill_processor_status, \* backfill id -> row or None
    history,                   \* history table -> versions with their rows in
    current,                   \* key -> last_transaction_version of its row, or -1
    phase,                     \* "down", "starting", "running", "finished"
    mode,                      \* the mode instance i was started in, None while it is down
    starts,                    \* how often instance i was started
    starting_version,          \* the stream request of the running process
    ending_version,
    next_version,              \* the next version the stream delivers
    to_storer,                 \* batches between the stream and the storer
    storing,                   \* the batch in the storer, or None
    pending,                   \* its rows not committed yet
    to_tracker,                \* batches between the storer and the tracker
    last_success_batch         \* end_version of the tracker's last batch, or None

tables  == <<history, current>>
status  == <<processor_status, backfill_processor_status>>
request == <<mode, starting_version, ending_version>>
steps   == <<next_version, to_storer, storing, pending, to_tracker, last_success_batch>>
vars    == <<tables, status, phase, request, starts, steps>>

Keys == {KeyOf[v] : v \in Versions}
Tables == HistoryTables \cup {CurrentTable}
Rows == Tables \X Versions

InBatch(b) == b.start_version .. b.end_version

\* Mutant: keeps the first row per primary key.
FirstPerKey(b) ==
    {v \in InBatch(b) : \A w \in InBatch(b) : KeyOf[w] = KeyOf[v] => v <= w}

\* A storer never sends one statement two rows with the same key: extractors
\* keep the last row per primary key of a current table.
LatestPerKey(b) ==
    {v \in InBatch(b) : \A w \in InBatch(b) : KeyOf[w] = KeyOf[v] => w <= v}

RowsOf(b) ==
    (HistoryTables \X InBatch(b)) \cup ({CurrentTable} \X LatestPerKey(b))

Init ==
    /\ processor_status = None
    /\ backfill_processor_status = [id \in BackfillIds |-> None]
    /\ history = [t \in HistoryTables |-> {}]
    /\ current = [k \in Keys |-> -1]
    /\ phase = [i \in Instances |-> "down"]
    /\ mode = [i \in Instances |-> None]
    /\ starts = [i \in Instances |-> 0]
    /\ starting_version = [i \in Instances |-> 0]
    /\ ending_version = [i \in Instances |-> None]
    /\ next_version = [i \in Instances |-> 0]
    /\ to_storer = [i \in Instances |-> <<>>]
    /\ storing = [i \in Instances |-> None]
    /\ pending = [i \in Instances |-> {}]
    /\ to_tracker = [i \in Instances |-> <<>>]
    /\ last_success_batch = [i \in Instances |-> None]
------------------------------------------------------------------------------
(***************************************************************************)
(* Starting: run_processor asks for the two ends of its stream one after   *)
(* the other; a head instance may move processor_status in between.  The   *)
(* operator is free to start an instance in any of its modes, also again   *)
(* after it finished.  A completed backfill restarted without an           *)
(* ending_version requests no starting version; what the stream service    *)
(* then sends is outside this repository and not modelled.                 *)
(***************************************************************************)
GetStartingVersion(i) ==
    /\ phase[i] \in {"down", "finished"}
    /\ starts[i] < MaxStarts
    /\ \E m \in Modes[i] :
         LET row == IF m.type = "backfill"
                    THEN backfill_processor_status[m.backfill_id] ELSE None
             start == StartingVersion(m, processor_status, row)
         IN /\ start # None
            /\ mode' = [mode EXCEPT ![i] = m]
            /\ starting_version' = [starting_version EXCEPT ![i] = start]
            /\ next_version' = [next_version EXCEPT ![i] = start]
            /\ backfill_processor_status' =
                 IF m.type = "backfill"
                 THEN [backfill_processor_status EXCEPT ![m.backfill_id] =
                          RestartedBackfill(@, m, processor_status)]
                 ELSE backfill_processor_status
    /\ phase' = [phase EXCEPT ![i] = "starting"]
    /\ starts' = [starts EXCEPT ![i] = @ + 1]
    /\ last_success_batch' = [last_success_batch EXCEPT ![i] = None]
    /\ UNCHANGED <<processor_status, tables, ending_version, to_storer, storing,
                   pending, to_tracker>>

GetEndVersion(i) ==
    /\ phase[i] = "starting"
    /\ ending_version' = [ending_version EXCEPT ![i] =
                             EndVersion(mode[i], processor_status)]
    /\ phase' = [phase EXCEPT ![i] = "running"]
    /\ UNCHANGED <<status, tables, mode, starting_version, starts, steps>>

\* The last version the stream will deliver to instance i (external: the
\* stream service stops at request_ending_version, or waits at the chain's head).
LastRequested(i) ==
    IF ending_version[i] # None /\ ending_version[i] <= MaxVersion
    THEN ending_version[i] ELSE MaxVersion

\* TransactionStreamStep: consecutive batches of any size.
Stream(i) ==
    /\ phase[i] = "running"
    /\ Len(to_storer[i]) < ChannelSize
    /\ \E e \in Versions :
         /\ next_version[i] <= e /\ e <= LastRequested(i)
         /\ e < next_version[i] + MaxBatch
         /\ to_storer' = [to_storer EXCEPT ![i] =
               Append(@, [start_version |-> next_version[i], end_version |-> e])]
         /\ next_version' = [next_version EXCEPT ![i] = e + 1]
    /\ UNCHANGED <<status, tables, phase, request, starts, storing, pending,
                   to_tracker, last_success_batch>>

(***************************************************************************)
(* The storer step.                                                        *)
(***************************************************************************)
BeginStore(i) ==
    /\ phase[i] = "running" /\ storing[i] = None /\ to_storer[i] # <<>>
    /\ storing' = [storing EXCEPT ![i] = Head(to_storer[i])]
    /\ pending' = [pending EXCEPT ![i] = RowsOf(Head(to_storer[i]))]
    /\ to_storer' = [to_storer EXCEPT ![i] = Tail(@)]
    /\ UNCHANGED <<status, tables, phase, request, starts, next_version,
                   to_tracker, last_success_batch>>

\* Mutant: the upsert without its WHERE clause.
UpsertUnguarded(last_transaction_version, v) == v

\* Insert-once tables ignore a row that is already there; a current table
\* replaces a row only WHERE last_transaction_version <= excluded's.
UpsertCurrent(last_transaction_version, v) ==
    IF last_transaction_version <= v THEN v ELSE last_transaction_version

StoreRow(i, row) ==
    LET t == row[1]  v == row[2] IN
    /\ phase[i] = "running"
    /\ row \in pending[i]
    /\ pending' = [pending EXCEPT ![i] = @ \ {row}]
    /\ IF t = CurrentTable
       THEN /\ current' = [current EXCEPT ![KeyOf[v]] = UpsertCurrent(@, v)]
            /\ UNCHANGED history
       ELSE /\ history' = [history EXCEPT ![t] = @ \cup {v}]
            /\ UNCHANGED current
    /\ UNCHANGED <<status, phase, request, starts, next_version, to_storer, storing,
                   to_tracker, last_success_batch>>

\* Mutant: does not wait for the statements.
EndStoreEarly(i) ==
    /\ phase[i] = "running" /\ storing[i] # None
    /\ Len(to_tracker[i]) < ChannelSize
    /\ to_tracker' = [to_tracker EXCEPT ![i] = Append(@, storing[i])]
    /\ storing' = [storing EXCEPT ![i] = None]
    /\ UNCHANGED <<status, tables, phase, request, starts, next_version, to_storer,
                   pending, last_success_batch>>

EndStore(i) ==
    /\ phase[i] = "running" /\ storing[i] # None /\ pending[i] = {}
    /\ Len(to_tracker[i]) < ChannelSize
    /\ to_tracker' = [to_tracker EXCEPT ![i] = Append(@, storing[i])]
    /\ storing' = [storing EXCEPT ![i] = None]
    /\ UNCHANGED <<status, tables, phase, request, starts, next_version, to_storer,
                   pending, last_success_batch>>

(***************************************************************************)
(* VersionTrackerStep (external; the step that ParquetVersionTrackerStep   *)
(* repeats per table) and PostgresProcessorStatusSaver.  The tracker       *)
(* refuses a batch that does not continue the last one; the status is      *)
(* saved by a timer (poll) and when the stream has ended (cleanup).        *)
(***************************************************************************)
NextTracked(i) ==
    IF last_success_batch[i] = None THEN starting_version[i]
    ELSE last_success_batch[i] + 1

Gap(i, b) ==
    last_success_batch[i] # None /\ b.start_version # last_success_batch[i] + 1

Track(i) ==
    /\ phase[i] = "running" /\ to_tracker[i] # <<>>
    /\ ~Gap(i, Head(to_tracker[i]))
    /\ last_success_batch' = [last_success_batch EXCEPT ![i] =
                                 Head(to_tracker[i]).end_version]
    /\ to_tracker' = [to_tracker EXCEPT ![i] = Tail(@)]
    /\ UNCHANGED <<status, tables, phase, request, starts, next_version, to_storer,
                   storing, pending>>

SaveStatus(i) ==
    LET m == mode[i]  v == last_success_batch[i] IN
    /\ processor_status' =
         IF v # None /\ m.type = "default"
         THEN SavedStatus(processor_status, v) ELSE processor_status
    /\ backfill_processor_status' =
         IF v # None /\ m.type = "backfill"
         THEN [backfill_processor_status EXCEPT ![m.backfill_id] =
                  SavedBackfill(@, m, v)]
         ELSE backfill_processor_status

Poll(i) ==
    /\ phase[i] = "running"
    /\ SaveStatus(i)
    /\ UNCHANGED <<tables, phase, request, starts, steps>>

Finish(i) ==
    /\ phase[i] = "running"
    /\ ending_version[i] # None /\ next_version[i] > ending_version[i]
    /\ to_storer[i] = <<>> /\ storing[i] = None /\ to_tracker[i] = <<>>
    /\ SaveStatus(i)
    /\ phase' = [phase EXCEPT ![i] = "finished"]
    /\ UNCHANGED <<tables, request, starts, steps>>

\* The process ends at any point: a panic, a failed statement, a kill.  What
\* was in memory is gone; rows already committed stay.
Crash(i) ==
    /\ phase[i] \in {"starting", "running"}
    /\ starts[i] < MaxStarts
    /\ phase' = [phase EXCEPT ![i] = "down"]
    /\ mode' = [mode EXCEPT ![i] = None]
    /\ starting_version' = [starting_version EXCEPT ![i] = 0]
    /\ ending_version' = [ending_version EXCEPT ![i] = None]
    /\ next_version' = [next_version EXCEPT ![i] = 0]
    /\ to_storer' = [to_storer EXCEPT ![i] = <<>>]
    /\ storing' = [storing EXCEPT ![i] = None]
    /\ pending' = [pending EXCEPT ![i] = {}]
    /\ to_tracker' = [to_tracker EXCEPT ![i] = <<>>]
    /\ last_success_batch' = [last_success_batch EXCEPT ![i] = None]
    /\ UNCHANGED <<status, tables, starts>>

Step(i) ==
    \/ GetEndVersion(i)
    \/ Stream(i)
    \/ BeginStore(i)
    \/ \E row \in Rows : StoreRow(i, row)
    \/ EndStore(i)
    \/ Track(i)
    \/ Poll(i)
    \/ Finish(i)

Next == \E i \in Instances : GetStartingVersion(i) \/ Step(i) \/ Crash(i)

Spec == Init /\ [][Next]_vars

(***************************************************************************)
(* Fairness: every step is a tokio task that keeps running, the tracker    *)
(* polls by a timer, and a process that went down is started again (the    *)
(* deployment restarts it).  Nothing makes an operator rerun a finished    *)
(* job, and crashes are never required.                                    *)
(***************************************************************************)
Fairness ==
    \A i \in Instances :
        /\ WF_vars(phase[i] = "down" /\ GetStartingVersion(i))
        /\ WF_vars(GetEndVersion(i))
        /\ WF_vars(Stream(i))
        /\ WF_vars(BeginStore(i))
        /\ WF_vars(\E row \in Rows : StoreRow(i, row))
        /\ WF_vars(EndStore(i))
        /\ WF_vars(Track(i))
        /\ WF_vars(Poll(i))
        /\ WF_vars(Finish(i))

FairSpec == Spec /\ Fairness
------------------------------------------------------------------------------
Durable(v) ==
    /\ \A t \in HistoryTables : v \in history[t]
    /\ current[KeyOf[v]] >= v

(***************************************************************************)
(* Properties                                                              *)
(***************************************************************************)

\* Type invariant: rows, requests, channels and buffers have the shape the
\* code gives them, and a storer has rows to commit only while it has a batch.
TypeOK ==
    /\ processor_status \in Versions \cup {None}
    /\ backfill_processor_status \in [BackfillIds -> BackfillRow \cup {None}]
    /\ history \in [HistoryTables -> SUBSET Versions]
    /\ current \in [Keys -> Versions \cup {-1}]
    /\ phase \in [Instances -> {"down", "starting", "running", "finished"}]
    /\ mode \in [Instances -> ProcessorMode \cup {None}]
    /\ \A i \in Instances : phase[i] # "down" => mode[i] \in Modes[i]
    /\ starts \in [Instances -> 0 .. MaxStarts]
    /\ starting_version \in [Instances -> Nat]
    /\ ending_version \in [Instances -> OptionalVersion]
    /\ next_version \in [Instances -> Nat]
    /\ to_storer \in [Instances -> Seq(Batch)]
    /\ storing \in [Instances -> Batch \cup {None}]
    /\ pending \in [Instances -> SUBSET Rows]
    /\ \A i \in Instances : storing[i] = None => pending[i] = {}
    /\ to_tracker \in [Instances -> Seq(Batch)]
    /\ last_success_batch \in [Instances -> Versions \cup {None}]

\* The saved checkpoint of the default mode never runs ahead of the data:
\* every version from initial_starting_version up to last_success_version has
\* all its rows committed, whatever crashed, restarted or ran beside it.
CheckpointCovered ==
    processor_status # None =>
        \A v \in InitialVersion .. processor_status : Durable(v)

\* last_success_version of processor_status never moves backwards, also when
\* an instance that lags behind another one saves its own older position.
CheckpointMonotone ==
    [][processor_status # None => processor_status' >= processor_status]_processor_status

\* A row of a current table never goes back to an older version, whichever of
\* the concurrent head, backfill and replayed batches writes it last.
CurrentNeverRegresses ==
    [][\A k \in Keys : current'[k] >= current[k]]_current

\* A backfill marked complete has committed every version of the range that
\* its row records.
BackfillCompleteIsDone ==
    \A id \in BackfillIds :
        LET row == backfill_processor_status[id] IN
        row # None /\ row.backfill_status = "complete" =>
            \A v \in (row.backfill_start_version .. row.backfill_end_version) \cap Versions :
                Durable(v)

\* A backfill job that ran to the end of its range is recorded as complete,
\* so that starting it again does not index the range once more.
FinishedBackfillIsComplete ==
    \A i \in Instances :
        phase[i] = "finished" /\ mode[i].type = "backfill" =>
            backfill_processor_status[mode[i].backfill_id].backfill_status = "complete"

\* backfill_status says complete exactly when the backfill is: not before its
\* range is committed, and no later than the end of the job.
CompleteIffDone == BackfillCompleteIsDone /\ FinishedBackfillIsComplete

\* A restarted backfill continues from its checkpoint: it leaves out no version
\* between last_success_version and the version it starts from.
BackfillContinues ==
    [][\A i \in Instances :
         phase[i] \in {"down", "finished"} /\ phase'[i] = "starting" =>
            LET m == mode'[i] IN
            m.type = "backfill" /\ ~m.overwrite_checkpoint =>
              LET row == backfill_processor_status[m.backfill_id] IN
              row # None => starting_version'[i] <= row.last_success_version + 1]_vars

\* The processor implements the abstract checkpointed index.
Index == INSTANCE CheckpointedIndex WITH
            durable <- {v \in Versions : Durable(v)},
            checkpoint <- processor_status

ImplementsIndex == Index!Spec

\* The head eventually indexes the chain to its end and checkpoints it,
\* however often processes are restarted on the way.
HeadCatchesUp == <>[](processor_status = MaxVersion)

\* Every backfill eventually reports completion.
BackfillCompletes ==
    \A id \in BackfillIds :
        <>(backfill_processor_status[id] # None
           /\ backfill_processor_status[id].backfill_status = "complete")
==============================================================================
