--------------------------- MODULE DataProcessors ---------------------------
(***************************************************************************)
(* The six data processors side by side: what IndexerProcessorConfig::run  *)
(* starts for a configured processor, as the extractor and the storer of a *)
(* TablePipeline.                                                          *)
(***************************************************************************)
EXTENDS TablePipeline, ObjectsProcessor, StakeProcessor, FungibleAssetProcessor,
        TokenV2Processor, AnsProcessor, AccountRestorationProcessor

DataProcessorNames ==
    {"objects", "stake", "fungible_asset", "token_v2", "ans", "account_restoration"}

\* The events and changes an extractor reads.
ExtractorReads(p, c) ==
    CASE p = "objects" -> c \in ObjectChange
      [] p = "stake" -> c \in StakeChange
      [] p = "fungible_asset" -> c.type \in AssetChangeTypes
      [] p = "token_v2" -> c.type \in TokenChangeTypes
      [] p = "ans" -> c \in AnsChange
      [] p = "account_restoration" -> c \in KeyRestorationChange

StorerStatements(p) ==
    CASE p = "objects" -> ObjectsTables
      [] p = "stake" -> StakeTables
      [] p = "fungible_asset" -> FungibleAssetTables
      [] p = "token_v2" -> TokenTables
      [] p = "ans" -> AnsTables
      [] p = "account_restoration" -> AccountRestorationTables

ExtractorStart(p, tables) ==
    CASE p = "objects" -> ObjectsNewBatch
      [] p = "stake" -> StakeNewBatch
      [] p = "fungible_asset" -> FungibleAssetFirstBatch(tables)
      [] p = "token_v2" -> TokenNewBatch
      [] p = "ans" -> AnsNewBatch
      [] p = "account_restoration" -> AccountRestorationNewBatch

\* Only the fungible asset extractor remembers anything of a batch it has sent.
ExtractorNext(p, b) ==
    IF p = "fungible_asset" THEN FungibleAssetNextBatch(b) ELSE ExtractorStart(p, NoRows)

ExtractorParse(p, b, txn, v, tables) ==
    CASE p = "objects" -> ObjectsParse(b, txn, v, tables)
      [] p = "stake" -> StakeParse(b, txn, v, tables)
      [] p = "fungible_asset" -> FungibleAssetParse(b, txn, v, tables)
      [] p = "token_v2" -> TokenParse(b, txn, v, tables)
      [] p = "ans" -> AnsParse(b, txn, v, tables)
      [] p = "account_restoration" -> AccountRestorationParse(b, txn, v, tables)

StorerUpsert(p, k, old, new) ==
    CASE p = "objects" -> ObjectsUpsert(k, old, new)
      [] p = "stake" -> StakeUpsert(k, old, new)
      [] p = "fungible_asset" -> FungibleAssetUpsert(k, old, new)
      [] p = "token_v2" -> TokenUpsert(k, old, new)
      [] p = "ans" -> AnsUpsert(k, old, new)
      [] p = "account_restoration" -> AccountRestorationUpsert(k, old, new)

\* The names of the statements tell the processors apart.
StorerTableKey(k) ==
    CASE k[1] \in TokenTables -> TokenTableKey(k)
      [] k[1] \in AccountRestorationTables -> AccountRestorationTableKey(k)
      [] OTHER -> FungibleAssetTableKey(k)

\* No statement takes stored rows back, whatever is replayed after a crash: neither
\* a current row to an older version, nor half of a shared balance or its coin, nor
\* the knowledge that a key was used.
TablesNeverRegress == RowsNeverRegress /\ BalancesNeverRegress /\ KeyStaysUsed

\* The tables of the history: a conflict keeps the stored row, as the key of a row
\* names the version that wrote it.
HistoryTables ==
    {"objects", "proposal_votes", "delegated_staking_activities", "delegator_balances",
     "delegated_staking_pool_balances", "fungible_asset_activities", "token_activities_v2"}

\* The column with the version of the rows of a statement.
VersionColumn(s) ==
    CASE s = "cufab_v1" -> "version_v1"
      [] s = "cufab_v2" -> "version_v2"
      [] OTHER -> "v"

\* What is stored for row k of a batch is that row or something later.
AsNewAs(k, stored, row) ==
    LET c == VersionColumn(k[1])
    IN k[1] \notin HistoryTables /\ c \in DOMAIN row /\ row[c] # None =>
          stored[c] # None /\ row[c] <= stored[c]

InTables(rows, tables) ==
    \A k \in DOMAIN rows :
        TableKey(k) \in DOMAIN tables /\ AsNewAs(k, tables[TableKey(k)], rows[k])

\* The checkpoint is backed by stored rows.  The version tracker gets a batch only
\* when each of its rows, or a later one, is in the tables, although the inserts commit
\* one by one; the checkpoint moves only with such a batch, to its end and never
\* back; and a process that died extracts every batch again that it lost on the way.
CheckpointStored ==
    [][/\ queue # <<>> /\ queue' = Tail(queue) /\ crashes' = crashes =>
             InTables(Head(queue).rows, db')
       /\ checkpoint' # checkpoint =>
             /\ queue # <<>> /\ queue' = Tail(queue) /\ crashes' = crashes
             /\ checkpoint' = Head(queue).end_version /\ checkpoint <= checkpoint'
       /\ crashes' # crashes =>
             /\ batch_end # 0 => next_version' <= batch_start
             /\ \A i \in 1 .. Len(queue) : next_version' <= queue[i].start_version]_vars
=============================================================================
