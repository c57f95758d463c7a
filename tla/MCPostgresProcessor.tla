------------------------- MODULE MCPostgresProcessor -------------------------
(***************************************************************************)
(* Instances of PostgresProcessor for TLC: the modes its operators use and *)
(* which key each version of the small chain writes.                       *)
(***************************************************************************)
EXTENDS PostgresProcessor, TLC

CONSTANTS head, other, b1

DefaultMode == [type |-> "default", initial_starting_version |-> InitialVersion]

Backfill(from, to, overwrite) ==
    [type |-> "backfill", backfill_id |-> b1, initial_starting_version |-> from,
     ending_version |-> to, overwrite_checkpoint |-> overwrite]

\* Two versions in a row write the same key.
PairedKeys == [v \in 0 .. MaxVersion |-> v \div 2]

\* What an operator runs beside the head: the new process of a rolling
\* deployment, a backfill, the same backfill with overwrite_checkpoint, and a
\* replay of one version in testing mode.
Replay(v) == [type |-> "testing", override_starting_version |-> v,
              ending_version |-> None]

HeadAndOthers ==
    head :> {DefaultMode} @@
    other :> {DefaultMode, Backfill(1, 2, FALSE), Backfill(1, 2, TRUE), Replay(2)}

\* A backfill of the whole chain beside the head.
HeadAndBackfill ==
    head :> {DefaultMode} @@ other :> {Backfill(1, MaxVersion, FALSE)}
==============================================================================
