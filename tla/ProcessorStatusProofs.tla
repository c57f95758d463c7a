------------------------ MODULE ProcessorStatusProofs ------------------------
(***************************************************************************)
(* Facts about the checkpoint rules, for the proofs about the processors   *)
(* that use them: what save_processor_status, get_starting_version and     *)
(* get_end_version return.                                                 *)
(***************************************************************************)
EXTENDS ProcessorStatus, DataFacts

\* The mode's type tells which of the three configurations it is.
LEMMA ModeCases ==
    ASSUME NEW m \in ProcessorMode
    PROVE  /\ m.type \in {"default", "backfill", "testing"}
           /\ m.type = "default" => m \in BootStrapConfig
           /\ m.type = "backfill" => m \in BackfillConfig
           /\ m.type = "testing" => m \in TestingConfig
  BY DEF ProcessorMode, BootStrapConfig, BackfillConfig, TestingConfig

\* SavedStatus returns the row's version or the saved one, never a smaller one
\* than the row had.
LEMMA SavedStatusFact ==
    ASSUME NEW row \in OptionalVersion, NEW v \in Nat
    PROVE  /\ SavedStatus(row, v) \in Nat
           /\ SavedStatus(row, v) \in {row, v}
           /\ row # None => row <= SavedStatus(row, v)
  BY NoneAssumption DEF SavedStatus, OptionalVersion

\* save_processor_status writes a well-formed backfill row.
LEMMA SavedBackfillType ==
    ASSUME NEW row \in BackfillRow \cup {None}, NEW cfg \in ProcessorMode,
           cfg.type = "backfill", NEW v \in Nat
    PROVE  SavedBackfill(row, cfg, v) \in BackfillRow
<1>1. cfg \in BackfillConfig
  BY ModeCases
<1> QED BY <1>1 DEF SavedBackfill, BackfillStatusOf, BackfillRow, BackfillConfig

\* get_end_version returns a version or None.
LEMMA EndVersionType ==
    ASSUME NEW m \in ProcessorMode, NEW s \in OptionalVersion
    PROVE  EndVersion(m, s) \in OptionalVersion
<1>1. CASE m \in BootStrapConfig
  BY <1>1 DEF BootStrapConfig, EndVersion, OptionalVersion
<1>2. CASE m \in BackfillConfig
  BY <1>2 DEF BackfillConfig, EndVersion, OptionalVersion
<1>3. CASE m \in TestingConfig
  BY <1>3 DEF TestingConfig, EndVersion, OptionalVersion
<1> QED BY <1>1, <1>2, <1>3 DEF ProcessorMode

\* Where a default processor starts: at its checkpoint, or at
\* initial_starting_version when that is later.
LEMMA DefaultStart ==
    ASSUME NEW m \in ProcessorMode, m.type = "default", NEW s, NEW row
    PROVE  StartingVersion(m, s, row) =
              IF s # None /\ s > m.initial_starting_version
              THEN s ELSE m.initial_starting_version
  BY ModeCases DEF BootStrapConfig, StartingVersion

\* Where a backfill starts: an existing row decides unless overwrite_checkpoint
\* is set.
LEMMA BackfillStart ==
    ASSUME NEW m \in ProcessorMode, m.type = "backfill", NEW s, NEW row
    PROVE  StartingVersion(m, s, row) =
              IF row = None \/ m.overwrite_checkpoint
              THEN m.initial_starting_version
              ELSE IF row.backfill_status = "complete" THEN m.ending_version
                   ELSE row.last_success_version + 1
  BY ModeCases DEF BackfillConfig, StartingVersion, BackfillStartingVersion

\* get_starting_version returns a version, or None for a completed backfill
\* without an ending_version.
LEMMA StartingVersionType ==
    ASSUME NEW m \in ProcessorMode, NEW s \in OptionalVersion,
           NEW row, row = None \/ row.last_success_version \in Nat,
           StartingVersion(m, s, row) # None
    PROVE  StartingVersion(m, s, row) \in Nat
<1>1. CASE m.type = "default"
  BY <1>1, DefaultStart, ModeCases DEF BootStrapConfig, OptionalVersion
<1>2. CASE m.type = "backfill"
  BY <1>2, BackfillStart, ModeCases DEF BackfillConfig, OptionalVersion
<1>3. CASE m.type = "testing"
  BY <1>3, ModeCases DEF TestingConfig, StartingVersion
<1> QED BY <1>1, <1>2, <1>3, ModeCases

\* get_starting_version resets an existing row to a well-formed one, and only when
\* overwrite_checkpoint is set.
LEMMA RestartedBackfillType ==
    ASSUME NEW row, NEW cfg \in ProcessorMode, cfg.type = "backfill",
           NEW s \in OptionalVersion
    PROVE  IF row # None /\ cfg.overwrite_checkpoint
           THEN RestartedBackfill(row, cfg, s) \in BackfillRow
           ELSE RestartedBackfill(row, cfg, s) = row
<1>1. cfg \in BackfillConfig
  BY ModeCases
<1>2. EndVersion(cfg, s) \in OptionalVersion
  BY EndVersionType
<1> QED BY <1>1, <1>2 DEF RestartedBackfill, BackfillRow, BackfillConfig

------------------------------------------------------------------------------
(***************************************************************************)
(* The backfills of one id, when its runs have an end and agree on their   *)
(* range.  The last condition excludes the backfill of version 0 alone:    *)
(* a reset writes last_success_version = 0, which is its end already.      *)
(***************************************************************************)
BackfillsAgree(modes) ==
    \A m \in modes : m.type = "backfill" =>
        /\ m.ending_version # None
        /\ m.initial_starting_version <= m.ending_version /\ 0 < m.ending_version
        /\ \A n \in modes : n.type = "backfill" /\ n.backfill_id = m.backfill_id =>
              /\ n.initial_starting_version = m.initial_starting_version
              /\ n.ending_version = m.ending_version

\* A row written by a run with this configuration.
RowOf(row, cfg) ==
    /\ row.backfill_start_version = cfg.initial_starting_version
    /\ row.backfill_end_version = cfg.ending_version
    /\ row.backfill_status = "complete" <=> row.last_success_version >= cfg.ending_version

\* save_processor_status keeps backfill_status and last_success_version in
\* step, and a save of the last version leaves the row complete.
LEMMA SavedBackfillFact ==
    ASSUME NEW row \in BackfillRow \cup {None}, NEW cfg \in ProcessorMode,
           cfg.type = "backfill", cfg.ending_version # None, NEW v \in Nat,
           row # None => RowOf(row, cfg)
    PROVE  LET new == SavedBackfill(row, cfg, v) IN
           /\ new \in BackfillRow /\ RowOf(new, cfg)
           /\ new = row \/ new.last_success_version = v
           /\ v >= cfg.ending_version => new.backfill_status = "complete"
<1> DEFINE new == SavedBackfill(row, cfg, v)
           written == [backfill_status        |-> BackfillStatusOf(cfg, v),
                       last_success_version   |-> v,
                       backfill_start_version |-> cfg.initial_starting_version,
                       backfill_end_version   |-> cfg.ending_version]
<1>1. cfg \in BackfillConfig /\ cfg.ending_version \in Nat
  BY ModeCases DEF BackfillConfig, OptionalVersion
<1>2. new \in BackfillRow
  BY SavedBackfillType
<1>3. /\ RowOf(written, cfg) /\ written.last_success_version = v
      /\ v >= cfg.ending_version => written.backfill_status = "complete"
  BY <1>1 DEF RowOf, BackfillStatusOf
<1>4. new = written \/ (row # None /\ ~(row.last_success_version <= v) /\ new = row)
  BY DEF SavedBackfill
<1>5. ASSUME row # None, ~(row.last_success_version <= v), new = row, v >= cfg.ending_version
      PROVE  new.backfill_status = "complete"
  <2>1. row.last_success_version \in Nat
    BY <1>5 DEF BackfillRow
  <2>2. row.last_success_version >= cfg.ending_version
    BY <1>1, <1>5, <2>1
  <2> QED BY <1>5, <2>2 DEF RowOf
<1> HIDE DEF new, written
<1>6. RowOf(new, cfg)
  BY <1>3, <1>4
<1>7. new = row \/ new.last_success_version = v
  BY <1>3, <1>4
<1>8. v >= cfg.ending_version => new.backfill_status = "complete"
  BY <1>3, <1>4, <1>5
<1> QED BY <1>2, <1>6, <1>7, <1>8 DEF new

\* A row that get_starting_version resets is at version 0 and in progress.
LEMMA RestartedBackfillFact ==
    ASSUME NEW row, row # None, NEW cfg \in ProcessorMode, cfg.type = "backfill",
           cfg.overwrite_checkpoint, cfg.ending_version # None, 0 < cfg.ending_version, NEW s
    PROVE  LET new == RestartedBackfill(row, cfg, s) IN
           RowOf(new, cfg) /\ new.last_success_version = 0
<1>1. cfg \in BackfillConfig /\ cfg.ending_version \in Nat
  BY ModeCases DEF BackfillConfig, OptionalVersion
<1>2. EndVersion(cfg, s) = cfg.ending_version
  BY <1>1 DEF EndVersion, BackfillConfig
<1> QED BY <1>1, <1>2 DEF RestartedBackfill, RowOf
==============================================================================
