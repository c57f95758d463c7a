------------------------------ MODULE TableState ------------------------------
(***************************************************************************)
(* What the Postgres processors share: the chain they index, the tables    *)
(* they write, the batch in the extractor and the batches on their way to  *)
(* the storer.  One behaviour runs one processor.                          *)
(*                                                                         *)
(* A row is stored under <<statement, key>>: the insert that writes it and *)
(* the columns of its conflict target.  A row of a "current" table has a   *)
(* field v, the version that wrote it (last_transaction_version).          *)
(***************************************************************************)
EXTENDS Integers, Sequences, FiniteSets

CONSTANTS
    None,         \* a null column
    MaxBatch      \* bound: transactions per batch

ASSUME NullAssumption == None \notin Nat

VARIABLES
    processor,    \* the processor that runs
    chain,        \* the transactions of the chain; versions count from 1
    db,           \* the tables: key -> row
    batch,        \* the batch in the extractor
    batch_start,  \* its start_version and
    batch_end,    \* its end_version, 0 if the extractor has no batch
    queue,        \* the batches sent to the storer, which works on the first
    committed,    \* the statements of the first that are committed
    checkpoint,   \* the last version saved by the version tracker
    next_version, \* the next version the stream delivers
    errors,       \* the versions at which an extractor logged an error
    crashes       \* how often the process died

vars == <<processor, chain, db, batch, batch_start, batch_end, queue, committed,
          checkpoint, next_version, errors, crashes>>

\* A function with no arguments: no rows.
NoRows == [k \in {} |-> 0]

\* The rows of f where it has any, else those of g.
Over(f, g) ==
    [k \in DOMAIN f \cup DOMAIN g |-> IF k \in DOMAIN f THEN f[k] ELSE g[k]]

\* rows with one more row, which replaces the one with its key.
Put(rows, k, row) == Over([x \in {k} |-> row], rows)

\* rows with one more row unless there is one with its key.
PutIfNew(rows, k, row) == Over(rows, [x \in {k} |-> row])

\* b after Step(_, i) for the positions i of a transaction, in order.
InOrder(Step(_, _), b, txn) ==
    LET after[i \in 0 .. Len(txn)] == IF i = 0 THEN b ELSE Step(after[i - 1], i)
    IN after[Len(txn)]

\* An extractor without a batch, with its private maps in aux.
EmptyBatch(aux) ==
    [rows |-> NoRows, aux |-> aux, errors |-> {}, panicked |-> FALSE, transactions |-> {}]

Versions == 1 .. Len(chain)

\* Every version of the chain is extracted and stored.
Quiet == /\ next_version > Len(chain)
         /\ batch_end = 0
         /\ queue = <<>>

\* The versions at which the chain has a transaction with a change in C(_).
VersionsWith(C(_)) == {v \in Versions : \E i \in DOMAIN chain[v] : C(chain[v][i])}

\* The last of a set of versions, 0 if there is none.
LastOf(S) == IF S = {} THEN 0 ELSE CHOOSE v \in S : \A w \in S : w <= v

\* The positions of a transaction's events and changes of one type.
Items(txn, type) == {i \in DOMAIN txn : txn[i].type = type}

\* The last change of a transaction that is in C(_).
LastIn(txn, C(_)) ==
    txn[CHOOSE i \in DOMAIN txn : C(txn[i]) /\ \A j \in DOMAIN txn : C(txn[j]) => j <= i]
==============================================================================
