------------------------- MODULE MCParquetProcessor --------------------------
(***************************************************************************)
(* Instances of ParquetProcessor for TLC: the modes its operators use and  *)
(* which tables the versions of the small chain have rows for.             *)
(***************************************************************************)
EXTENDS ParquetProcessor, TLC

CONSTANTS dense, sparse, b1

OnlyDefault == {[type |-> "default", initial_starting_version |-> InitialVersion]}

Backfill(overwrite) ==
    [type |-> "backfill", backfill_id |-> b1,
     initial_starting_version |-> InitialVersion, ending_version |-> MaxVersion,
     overwrite_checkpoint |-> overwrite]

\* The head, a backfill, and the same backfill with overwrite_checkpoint.
HeadAndBackfills == OnlyDefault \cup {Backfill(FALSE), Backfill(TRUE)}

\* The head, and a replay of one version in testing mode.
HeadAndReplay ==
    OnlyDefault \cup {[type |-> "testing", override_starting_version |-> MaxVersion,
                      ending_version |-> None]}

\* One table has rows in every version, the other in every third.
DenseAndSparse ==
    [v \in 0 .. MaxVersion |-> IF v % 3 = 1 THEN {dense, sparse} ELSE {dense}]

\* One table with a version it has no rows for; a batch may fill the buffer exactly.
OneTable == [v \in 0 .. MaxVersion |-> IF v = 2 THEN {} ELSE {dense}]
==============================================================================
