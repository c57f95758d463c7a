----------------------------- MODULE TablePipeline -----------------------------
(***************************************************************************)
(* The pipeline of a Postgres processor at the level of rows:              *)
(*                                                                         *)
(*   stream -> extractor -> storer -> version tracker                      *)
(*                                                                         *)
(* The extractor parses the transactions of a batch one by one, merging    *)
(* the rows it gets per key and looking rows up in the tables, while the   *)
(* storer may still be committing the statements of earlier batches, in    *)
(* any order.  The batch boundaries are the stream's choice and change     *)
(* when a process that died starts again from its checkpoint.              *)
(*                                                                         *)
(* A lookup of an extractor polls the database a bounded number of times:  *)
(* it sees the row if it is there by then and gives up otherwise, so Parse *)
(* is evaluated against the tables of some moment while the batch is in    *)
(* the extractor, and the lookups of one transaction share that moment.    *)
(***************************************************************************)
EXTENDS TableState

CONSTANTS
    Processors,        \* the processors a behaviour may run
    Histories(_),      \* Histories(p): the chains p is run on
    IsChange(_, _),    \* IsChange(p, c): c is an event or a change p reads
    Statements(_),     \* Statements(p): the inserts of p's storer
    FirstBatch(_, _),  \* FirstBatch(p, tables): the batch of an extractor that starts
    NextBatch(_, _),   \* NextBatch(p, b): its next batch, with what it remembers of b
    Parse(_, _, _, _, _), \* Parse(p, b, txn, v, tables): b with the rows of txn
    Upsert(_, _, _, _),   \* Upsert(p, k, old, new): a row after a conflict
    TableKey(_),       \* TableKey(k): the row in the tables that row k is stored in
    CommitGroup(_),    \* bound: inserts with one CommitGroup(statement) commit in one step
    ChannelSize,       \* batches the channel to the storer holds
    MaxCrashes         \* bound: process deaths

ASSUME PipelineAssumption ==
    /\ MaxBatch \in Nat \ {0} /\ ChannelSize \in Nat /\ MaxCrashes \in Nat

Init ==
    /\ processor \in Processors
    /\ chain \in Histories(processor)
    /\ db = NoRows
    /\ batch = FirstBatch(processor, NoRows)
    /\ batch_start = 0 /\ batch_end = 0
    /\ queue = <<>>
    /\ committed = {}
    /\ checkpoint = 0
    /\ next_version = 1
    /\ errors = {}
    /\ crashes = 0

\* The end of the batch in the extractor, or of any the stream may deliver next: the
\* end of the chain or MaxBatch transactions at most.
ReceiveBatch ==
    IF batch_end # 0 THEN {batch_end}
    ELSE {e \in next_version .. next_version + MaxBatch - 1 : e <= Len(chain)}

\* The extractor parses the next transaction of its batch.
ExtractTransaction ==
    /\ ~batch.panicked
    /\ batch_start' = IF batch_end # 0 THEN batch_start ELSE next_version
    /\ batch_end' \in ReceiveBatch
    /\ next_version <= batch_end'
    /\ batch' = Parse(processor,
                      [batch EXCEPT !.transactions = {chain[v] : v \in batch_start' .. batch_end'}],
                      chain[next_version], next_version, db)
    /\ next_version' = next_version + 1
    /\ UNCHANGED <<processor, chain, db, queue, committed, checkpoint, errors, crashes>>

\* Mutant: the channel has no bound.
UnboundedSendBatch ==
    /\ batch_end # 0 /\ next_version > batch_end
    /\ ~batch.panicked
    /\ Len(queue) <= ChannelSize + 1
    /\ queue' = Append(queue, [rows |-> batch.rows, start_version |-> batch_start,
                               end_version |-> next_version - 1])
    /\ errors' = errors \cup batch.errors
    /\ batch' = NextBatch(processor, batch)
    /\ batch_start' = 0 /\ batch_end' = 0
    /\ UNCHANGED <<processor, chain, db, committed, checkpoint, next_version, crashes>>

\* The extractor hands its batch over and starts a new one.
SendBatch ==
    /\ batch_end # 0 /\ next_version > batch_end
    /\ ~batch.panicked
    /\ Len(queue) <= ChannelSize
    /\ queue' = Append(queue, [rows |-> batch.rows, start_version |-> batch_start,
                               end_version |-> next_version - 1])
    /\ errors' = errors \cup batch.errors
    /\ batch' = NextBatch(processor, batch)
    /\ batch_start' = 0 /\ batch_end' = 0
    /\ UNCHANGED <<processor, chain, db, committed, checkpoint, next_version, crashes>>

StatementsOf(rows) == {CommitGroup(k[1]) : k \in DOMAIN rows}

\* The tables after a statement: new rows are inserted, conflicts resolved.
Stored(s, rows) ==
    LET mine == {k \in DOMAIN rows : CommitGroup(k[1]) = s}
        new == [t \in {TableKey(k) : k \in mine} |->
                   LET k == CHOOSE k \in mine : TableKey(k) = t
                   IN IF t \in DOMAIN db
                      THEN Upsert(processor, k, db[t], rows[k]) ELSE rows[k]]
    IN Over(new, db)

\* An insert with two rows of one conflict target: Postgres refuses to update a row
\* a second time, and the storer fails.
Refused(s, rows) ==
    \E j, k \in {x \in DOMAIN rows : CommitGroup(x[1]) = s} :
        j[1] = k[1] /\ TableKey(j) = TableKey(k) /\ j # k

\* One of the concurrent inserts of the storer commits.
CommitStatement(s) ==
    /\ queue # <<>>
    /\ s \in StatementsOf(Head(queue).rows) \ committed
    /\ ~Refused(s, Head(queue).rows)
    /\ db' = Stored(s, Head(queue).rows)
    /\ committed' = committed \cup {s}
    /\ UNCHANGED <<processor, chain, batch, batch_start, batch_end, queue, checkpoint,
                   next_version, errors, crashes>>

\* Mutant: the storer hands a batch over before all of its inserts have committed.
UnfinishedFinishBatch ==
    /\ queue # <<>>
    /\ queue' = Tail(queue)
    /\ committed' = {}
    /\ checkpoint' \in {checkpoint, Head(queue).end_version}
    /\ UNCHANGED <<processor, chain, db, batch, batch_start, batch_end, next_version,
                   errors, crashes>>

\* All inserts of a batch are committed; the version tracker gets it, and saves
\* its end as the checkpoint or waits for a later one.
FinishBatch ==
    /\ queue # <<>>
    /\ committed = StatementsOf(Head(queue).rows)
    /\ queue' = Tail(queue)
    /\ committed' = {}
    /\ checkpoint' \in {checkpoint, Head(queue).end_version}
    /\ UNCHANGED <<processor, chain, db, batch, batch_start, batch_end, next_version,
                   errors, crashes>>

\* get_starting_version in the default mode: the checkpointed version itself, which
\* is extracted again, or the first one.
GetStartingVersion == IF checkpoint = 0 THEN 1 ELSE checkpoint

\* The process dies, of a panic, a refused insert or for any other reason, and
\* starts again from its checkpoint.
Crash ==
    /\ crashes < MaxCrashes
    /\ crashes' = crashes + 1
    /\ batch' = FirstBatch(processor, db)
    /\ batch_start' = 0 /\ batch_end' = 0
    /\ queue' = <<>>
    /\ committed' = {}
    /\ next_version' = GetStartingVersion
    /\ errors' = errors \cup batch.errors
    /\ UNCHANGED <<processor, chain, db, checkpoint>>

\* Nothing is left to do, or the process failed for the last time.
Terminated ==
    /\ \/ Quiet
       \/ batch.panicked /\ queue = <<>> /\ crashes = MaxCrashes
       \/ /\ queue # <<>> /\ crashes = MaxCrashes
          /\ \E s \in StatementsOf(Head(queue).rows) \ committed : Refused(s, Head(queue).rows)
    /\ UNCHANGED vars

Next ==
    \/ ExtractTransaction
    \/ SendBatch
    \/ queue # <<>> /\ \E s \in StatementsOf(Head(queue).rows) : CommitStatement(s)
    \/ FinishBatch
    \/ Crash
    \/ Terminated

Spec == Init /\ [][Next]_vars

\* Every transaction is made of what the processor reads, every row belongs to a
\* statement of its storer, and batches, queue and versions keep their bounds.
TypeOK ==
    /\ processor \in Processors
    /\ \A v \in Versions : \A i \in DOMAIN chain[v] : IsChange(processor, chain[v][i])
    /\ \A k \in DOMAIN batch.rows : k[1] \in Statements(processor)
    /\ \A i \in 1 .. Len(queue) : \A k \in DOMAIN queue[i].rows : k[1] \in Statements(processor)
    /\ \A k \in DOMAIN batch.rows : TableKey(k) \in DOMAIN db =>
          DOMAIN batch.rows[k] = DOMAIN db[TableKey(k)]
    /\ batch_end # 0 => /\ batch_end \in batch_start .. batch_start + MaxBatch - 1
                        /\ next_version \in batch_start .. batch_end + 1
    /\ Len(queue) \in 0 .. ChannelSize + 1
    /\ queue = <<>> => committed = {}
    /\ checkpoint \in 0 .. Len(chain)
    /\ next_version \in 1 .. Len(chain) + 1
    /\ errors \subseteq Versions
    /\ crashes \in 0 .. MaxCrashes
-------------------------------------------------------------------------------
\* The upserts of the current tables refuse older versions: a replay after a
\* crash, whose lookups may see rows from later than the version it parses, never
\* takes a current row back.
RowsNeverRegress ==
    [][\A k \in DOMAIN db : /\ k \in DOMAIN db'
                            /\ "v" \in DOMAIN db[k] => db'[k].v >= db[k].v]_vars
===============================================================================
