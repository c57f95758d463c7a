--------------------------- MODULE ProcessorStatus ---------------------------
(***************************************************************************)
(* The checkpoint rules that every processor shares: what a version tracker*)
(* writes to the tables processor_status and backfill_processor_status     *)
(* (processor/src/processors/processor_status_saver.rs), and the version   *)
(* range a starting processor reads back from them.                        *)
(*                                                                         *)
(* A row of processor_status is reduced to its last_success_version; the   *)
(* timestamp columns carry no decision and are left out.  None stands for  *)
(* Rust's None and for a row that does not exist.                          *)
(***************************************************************************)
EXTENDS Integers

CONSTANTS
    None,        \* no value, no row
    BackfillIds  \* the backfill_id part of a backfill alias

ASSUME NoneAssumption == None \notin Int

(***************************************************************************)
(* config/processor_mode.rs                                                *)
(***************************************************************************)
OptionalVersion == Nat \cup {None}

BootStrapConfig ==
    [type : {"default"}, initial_starting_version : Nat]

BackfillConfig ==
    [type : {"backfill"}, backfill_id : BackfillIds,
     initial_starting_version : Nat, ending_version : OptionalVersion,
     overwrite_checkpoint : BOOLEAN]

TestingConfig ==
    [type : {"testing"}, override_starting_version : Nat,
     ending_version : OptionalVersion]

ProcessorMode == BootStrapConfig \cup BackfillConfig \cup TestingConfig

(***************************************************************************)
(* Rows of backfill_processor_status (db/backfill_processor_status.rs)     *)
(***************************************************************************)
BackfillRow ==
    [backfill_status : {"in_progress", "complete"},
     last_success_version : Nat,
     backfill_start_version : Nat,
     backfill_end_version : OptionalVersion]

------------------------------------------------------------------------------
(***************************************************************************)
(* Saving: save_processor_status.                                          *)
(***************************************************************************)

\* Mutants: the upsert without its WHERE clause, and with .ge for .le.
SavedStatusUnguarded(row, version) == version
SavedStatusReversed(row, version) ==
    IF row = None \/ row >= version THEN version ELSE row

\* ON CONFLICT DO UPDATE ... WHERE last_success_version <= excluded.
\* last_success_version: an older batch leaves the row alone, silently.
SavedStatus(row, version) ==
    IF row = None \/ row <= version THEN version ELSE row

\* Mutants: complete one version too early, and one too late.
BackfillStatusEarly(cfg, version) ==
    IF cfg.ending_version # None /\ version + 1 >= cfg.ending_version
    THEN "complete" ELSE "in_progress"
BackfillStatusLate(cfg, version) ==
    IF cfg.ending_version # None /\ version > cfg.ending_version
    THEN "complete" ELSE "in_progress"

BackfillStatusOf(cfg, version) ==
    IF cfg.ending_version # None /\ version >= cfg.ending_version
    THEN "complete" ELSE "in_progress"

\* The same upsert on backfill_processor_status; overwrite_checkpoint drops
\* the WHERE clause.
SavedBackfill(row, cfg, version) ==
    IF row = None \/ cfg.overwrite_checkpoint \/ row.last_success_version <= version
    THEN [backfill_status        |-> BackfillStatusOf(cfg, version),
          last_success_version   |-> version,
          backfill_start_version |-> cfg.initial_starting_version,
          backfill_end_version   |-> cfg.ending_version]
    ELSE row

------------------------------------------------------------------------------
(***************************************************************************)
(* Reading back: get_end_version and get_starting_version.                 *)
(***************************************************************************)
\* Mutant: ending_version taken as exclusive.
EndVersionExclusive(mode, statusRow) ==
    IF mode.type = "backfill" THEN mode.ending_version - 1 ELSE None

EndVersion(mode, statusRow) ==
    CASE mode.type = "default"  -> None
      [] mode.type = "backfill" -> IF mode.ending_version # None
                                   THEN mode.ending_version ELSE statusRow
      [] mode.type = "testing"  -> IF mode.ending_version # None
                                   THEN mode.ending_version
                                   ELSE mode.override_starting_version

\* Mutant: resumes one version too late.
BackfillStartingLate(cfg, row) ==
    IF row = None \/ cfg.overwrite_checkpoint
    THEN cfg.initial_starting_version ELSE row.last_success_version + 2

\* The backfill job resumes from its row; initial_starting_version is used
\* only when there is no row, or when overwrite_checkpoint asks for it.
BackfillStartingVersion(cfg, row) ==
    CASE row = None -> cfg.initial_starting_version
      [] row # None /\ cfg.overwrite_checkpoint -> cfg.initial_starting_version
      [] row # None /\ ~cfg.overwrite_checkpoint
           -> IF row.backfill_status = "complete"
              THEN cfg.ending_version
              ELSE row.last_success_version + 1

StartingVersion(mode, statusRow, backfillRow) ==
    CASE mode.type = "default"  ->
            IF statusRow # None /\ statusRow > mode.initial_starting_version
            THEN statusRow ELSE mode.initial_starting_version
      [] mode.type = "backfill" -> BackfillStartingVersion(mode, backfillRow)
      [] mode.type = "testing"  -> mode.override_starting_version

\* What get_starting_version leaves in backfill_processor_status: an existing
\* row is reset when overwrite_checkpoint is set.
RestartedBackfill(row, cfg, statusRow) ==
    IF row # None /\ cfg.overwrite_checkpoint
    THEN [backfill_status        |-> "in_progress",
          last_success_version   |-> 0,
          backfill_start_version |-> cfg.initial_starting_version,
          backfill_end_version   |-> EndVersion(cfg, statusRow)]
    ELSE row
==============================================================================
