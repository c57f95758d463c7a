------------------------ MODULE FungibleAssetProcessor ------------------------
(***************************************************************************)
(* The fungible asset processor.  Coins (v1) and fungible assets (v2) have *)
(* one table of balances: a coin balance is stored at the address of the   *)
(* primary store its owner has, or would have, for the asset paired with   *)
(* the coin, so that both standards share a row, which two statements of   *)
(* the storer write concurrently.                                          *)
(*                                                                         *)
(* A transaction is the sequence of its events and write set changes.      *)
(***************************************************************************)
EXTENDS TableState, SequencesExt

CONSTANTS
    Accounts,      \* owners of balances
    CoinTypes,     \* coin types (v1)
    LongCoins,     \* those whose name exceeds COIN_TYPE_MAX
    StaticCoins,   \* those with an entry in the static FA_TO_COIN_MAPPING
    MigratedCoins, \* those the chain migrates to the paired asset
    ShortAddresses \* addresses with leading zeros

ASSUME CoinAssumption == None \notin CoinTypes

\* get_paired_metadata_address: the address of the asset paired with a coin.
PairedMetadata(coin) == <<"fa", coin>>

\* get_primary_fungible_store_address
PrimaryStore(owner, metadata) == <<"primary", owner, metadata[2]>>

\* FungibleAssetBalance::is_primary
IsPrimary(owner, metadata, addr) == addr = PrimaryStore(owner, metadata)

SecondaryStore(owner, coin) == <<"secondary", owner, coin>>

\* An event's data print an address without its leading zeros; standardize_address
\* puts them back.
Printed(addr) == IF addr \in ShortAddresses THEN <<"unpadded", addr>> ELSE addr
StandardizeAddress(s) ==
    IF \E a \in ShortAddresses : s = Printed(a)
    THEN CHOOSE a \in ShortAddresses : s = Printed(a) ELSE s

\* CoinInfoType::get_coin_type_below_max
Indexed(coin) == coin \in CoinTypes \ LongCoins

\* CoinResource: the resources and deletions of module coin.
CoinResource == {"CoinInfo", "CoinStore", "CoinStoreDeletion"}

\* CoinEvent.  The events of the first generation name a guid, which belongs to
\* one coin store; the later ones name account and coin type.
GuidCoinEvents == {"CoinWithdrawEvent", "CoinDepositEvent"}
CoinEvent == GuidCoinEvents \cup {"CoinWithdraw", "CoinDeposit"}

\* V2FungibleAssetResource: what an object of the transaction may carry.
V2FungibleAssetResource ==
    {"Metadata", "FungibleStore", "Supply", "ConcurrentSupply", "ConcurrentBalance"}

\* FungibleAssetEvent, and the event of a deleted store.
FungibleAssetEvent == {"Withdraw", "Deposit", "Frozen"}
FungibleAssetStoreDeletionEvent == {"FungibleStoreDeletion"}

AssetChangeTypes ==
    CoinResource \cup CoinEvent \cup V2FungibleAssetResource \cup FungibleAssetEvent
      \cup FungibleAssetStoreDeletionEvent
      \cup {"ObjectCore", "DeleteGroup", "UserRequest", "SupplyItem"}

FungibleAssetTables ==
    {"fungible_asset_activities", "fungible_asset_metadata", "cufab_v1", "cufab_v2",
     "fungible_asset_to_coin_mappings"}

\* The two statements on balances write one table.
FungibleAssetTableKey(k) ==
    IF k[1] \in {"cufab_v1", "cufab_v2"}
    THEN <<"current_fungible_asset_balances", k[2]>> ELSE k
-------------------------------------------------------------------------------
(***************************************************************************)
(* The extractor.  aux.mapping, metadata address -> coin type, is kept     *)
(* from batch to batch and read from the tables at the start.              *)
(***************************************************************************)
\* get_all_mappings
StoredMappings(tables) ==
    LET known == {k \in DOMAIN tables : k[1] = "fungible_asset_to_coin_mappings"}
    IN [a \in {k[2] : k \in known} |-> tables[<<"fungible_asset_to_coin_mappings", a>>].coin]

\* Mutant: nothing is bootstrapped.
ForgetfulFirstBatch(tables) == EmptyBatch([mapping |-> NoRows])

\* bootstrap_fa_to_coin_mapping
FungibleAssetFirstBatch(tables) == EmptyBatch([mapping |-> StoredMappings(tables)])

FungibleAssetNextBatch(b) == EmptyBatch([mapping |-> b.aux.mapping])

\* Loop 1: the objects of the transaction, address -> owner.
ObjectOwners(txn) ==
    [a \in {txn[i].addr : i \in Items(txn, "ObjectCore")} |->
       LastIn(txn, LAMBDA c : c.type = "ObjectCore" /\ c.addr = a).owner]

\* Loop 2: the stores whose deletion the transaction announces, by the address as
\* the event prints it.
DeletedStores(txn) ==
    [s \in {txn[i].store : i \in Items(txn, "FungibleStoreDeletion")} |->
       LastIn(txn, LAMBDA c : c.type = "FungibleStoreDeletion" /\ c.store = s)]

\* Loop 3: what a resource of an object's group says, None if it is not there.
ResourceAt(txn, type, addr) ==
    LET there == {i \in Items(txn, type) : txn[i].addr = addr}
    IN IF addr \in DOMAIN ObjectOwners(txn) /\ there # {} THEN txn[LastOf(there)] ELSE None

\* The coin types of the coin stores written, by event guid.
EventToCoinType(txn) ==
    [g \in {<<txn[i].owner, txn[i].coin>> :
              i \in {j \in Items(txn, "CoinStore") : Indexed(txn[j].coin)}} |-> g[2]]

\* The coin type of the last coin store an owner deleted.
DeletedCoinType(txn) ==
    LET deleted == {i \in Items(txn, "CoinStoreDeletion") : Indexed(txn[i].coin)}
    IN [o \in {txn[i].owner : i \in deleted} |->
          txn[LastOf({i \in deleted : txn[i].owner = o})].coin]

\* A row of current_fungible_asset_balances: from_balance fills the columns of
\* one standard.
CurrentUnifiedFungibleAssetBalance(owner, v1, v2) ==
    [owner |-> owner,
     asset_v1 |-> v1.asset, amount_v1 |-> v1.amount, version_v1 |-> v1.version,
     asset_v2 |-> v2.asset, amount_v2 |-> v2.amount, version_v2 |-> v2.version,
     is_primary |-> v2.is_primary, is_frozen |-> v1.frozen \/ v2.frozen]

NoBalance == [asset |-> None, amount |-> None, version |-> None,
              is_primary |-> TRUE, frozen |-> FALSE]

V1Balance(c, v, amount, frozen) ==
    CurrentUnifiedFungibleAssetBalance(c.owner,
        [NoBalance EXCEPT !.asset = c.coin, !.amount = amount, !.version = v,
                          !.frozen = frozen],
        NoBalance)

V2Balance(owner, asset, v, amount, primary, frozen) ==
    CurrentUnifiedFungibleAssetBalance(owner, NoBalance,
        [asset |-> asset, amount |-> amount, version |-> v, is_primary |-> primary,
         frozen |-> frozen])

\* get_v1_from_write_resource
CoinStoreBalance(c, v) ==
    IF ~Indexed(c.coin) THEN NoRows
    ELSE Put(NoRows, <<"cufab_v1", PrimaryStore(c.owner, PairedMetadata(c.coin))>>,
             V1Balance(c, v, c.amount, c.frozen))

\* get_v1_from_delete_resource
DeletedCoinStoreBalance(c, v) ==
    IF ~Indexed(c.coin) THEN NoRows
    ELSE Put(NoRows, <<"cufab_v1", PrimaryStore(c.owner, PairedMetadata(c.coin))>>,
             V1Balance(c, v, 0, FALSE))

\* Mutant: the balance of a store is read from the store alone.
PlainStoreAmount(c, concurrent) == c.amount

\* The balance of a store is its concurrent balance if it has one.
StoreAmount(c, concurrent) == IF concurrent = None THEN c.amount ELSE concurrent.amount

\* get_v2_from_write_resource: only for a store whose object is in the transaction.
FungibleStoreBalance(c, v, txn) ==
    IF c.addr \notin DOMAIN ObjectOwners(txn) THEN NoRows
    ELSE LET owner == ObjectOwners(txn)[c.addr]
             concurrent == ResourceAt(txn, "ConcurrentBalance", c.addr)
         IN Put(NoRows, <<"cufab_v2", c.addr>>,
                V2Balance(owner, c.asset, v, StoreAmount(c, concurrent),
                          IsPrimary(owner, c.asset, c.addr), c.frozen))

\* get_v2_from_delete_resource: only with the event of the deletion, which is looked
\* up by the standardized address.
DeletedFungibleStoreBalance(c, v, txn) ==
    IF c.addr \notin DOMAIN DeletedStores(txn) THEN NoRows
    ELSE LET e == DeletedStores(txn)[c.addr]
         IN Put(NoRows, <<"cufab_v2", c.addr>>,
                V2Balance(StandardizeAddress(e.owner), StandardizeAddress(e.metadata),
                          v, 0, FALSE, FALSE))

\* get_gas_event: the gas a user transaction burned, at an index of its own.
GasEvent(c, v) ==
    Put(NoRows, <<"fungible_asset_activities", v, -1>>,
        [owner |-> c.owner, asset |-> None, storage |-> None])


\* The coin type of an event: that of the coin store with the event's guid, else
\* that of a coin store its owner deleted.
CoinTypeOf(c, txn) ==
    IF c.type \notin GuidCoinEvents THEN c.coin
    ELSE IF <<c.owner, c.coin>> \in DOMAIN EventToCoinType(txn) THEN c.coin
    ELSE IF c.owner \in DOMAIN DeletedCoinType(txn) THEN DeletedCoinType(txn)[c.owner]
    ELSE None

\* FungibleAssetActivity::get_v1_from_event
V1Activity(c, v, i, txn) ==
    LET coin == CoinTypeOf(c, txn)
    IN IF coin = None THEN NoRows
       ELSE Put(NoRows, <<"fungible_asset_activities", v, i>>,
                [owner |-> c.owner, asset |-> coin,
                 storage |-> PrimaryStore(c.owner, PairedMetadata(coin))])

\* FungibleAssetActivity::get_v2_from_event: owner and asset come from the store's
\* object, or, as they are printed there, from the event of the store's deletion.
V2Activity(c, v, i, txn) ==
    LET store == ResourceAt(txn, "FungibleStore", c.addr)
        who == IF c.addr \in DOMAIN ObjectOwners(txn)
               THEN [owner |-> ObjectOwners(txn)[c.addr],
                     asset |-> IF store = None THEN None ELSE store.asset]
               ELSE IF c.addr \in DOMAIN DeletedStores(txn)
               THEN [owner |-> DeletedStores(txn)[c.addr].owner,
                     asset |-> DeletedStores(txn)[c.addr].metadata]
               ELSE [owner |-> None, asset |-> None]
    IN Put(NoRows, <<"fungible_asset_activities", v, i>>,
           [owner |-> who.owner, asset |-> who.asset, storage |-> c.addr])

\* The coin a mapping is for: from_raw_fungible_asset_metadata.
FungibleAssetToCoinMapping(c, v) ==
    Put(NoRows, <<"fungible_asset_to_coin_mappings", PairedMetadata(c.coin)>>,
        [v |-> v, coin |-> c.coin])

\* FungibleAssetMetadataModel::get_v1_from_write_resource
V1Metadata(c, v) ==
    IF ~Indexed(c.coin) THEN NoRows
    ELSE Put(FungibleAssetToCoinMapping(c, v),
             <<"fungible_asset_metadata", <<"coin", c.coin>>>>,
             [v |-> v, creator |-> None, supply |-> None])

\* The supply of an asset: the plain one if it has one, else the concurrent one.
SupplyOf(txn, addr) ==
    LET plain == ResourceAt(txn, "Supply", addr)
        concurrent == ResourceAt(txn, "ConcurrentSupply", addr)
    IN IF plain # None THEN plain.amount
       ELSE IF concurrent # None THEN concurrent.amount ELSE None

\* FungibleAssetMetadataModel::get_v2_from_write_resource
V2Metadata(c, v, txn) ==
    IF c.addr \notin DOMAIN ObjectOwners(txn) THEN NoRows
    ELSE Put(NoRows, <<"fungible_asset_metadata", c.addr>>,
             [v |-> v, creator |-> ObjectOwners(txn)[c.addr],
              supply |-> SupplyOf(txn, c.addr)])

\* The rows of one event or change.  CoinSupply is parsed and not stored.
FungibleAssetRows(c, v, i, txn) ==
    CASE c.type = "CoinStore" -> CoinStoreBalance(c, v)
      [] c.type = "CoinStoreDeletion" -> DeletedCoinStoreBalance(c, v)
      [] c.type = "CoinInfo" -> V1Metadata(c, v)
      [] c.type = "Metadata" -> V2Metadata(c, v, txn)
      [] c.type = "FungibleStore" -> FungibleStoreBalance(c, v, txn)
      [] c.type = "DeleteGroup" -> DeletedFungibleStoreBalance(c, v, txn)
      [] c.type = "UserRequest" -> GasEvent(c, v)
      [] c.type \in CoinEvent -> V1Activity(c, v, i, txn)
      [] c.type \in FungibleAssetEvent -> V2Activity(c, v, i, txn)
      [] OTHER -> NoRows

\* get_fa_to_coin_mapping: the coins announced by the transactions of the batch.
CoinsAnnounced(txn) ==
    [a \in {PairedMetadata(txn[i].coin) : i \in {j \in Items(txn, "CoinInfo") :
                                                   Indexed(txn[j].coin)}} |-> a[2]]

FA_TO_COIN_MAPPING == [a \in {PairedMetadata(c) : c \in StaticCoins} |-> a[2]]

\* get_asset_type_v1: the coin paired with the asset of a v2 balance, from the static
\* mapping first, else as far as the whole batch and what came before it tell.
WithAssetTypeV1(rows, mapping) ==
    LET known == Over(FA_TO_COIN_MAPPING, mapping)
    IN [k \in DOMAIN rows |->
          IF k[1] = "cufab_v2" /\ rows[k].asset_v2 \in DOMAIN known
          THEN [rows[k] EXCEPT !.asset_v1 = known[rows[k].asset_v2]] ELSE rows[k]]

\* parse_v2_coin: a later row of the batch replaces one with its key.
FungibleAssetParse(b, txn, v, tables) ==
    LET mapping == Over(CoinsAnnounced(txn), b.aux.mapping)
        rows == InOrder(LAMBDA r, i : Over(FungibleAssetRows(txn[i], v, i, txn), r), b.rows, txn)
    IN [b EXCEPT !.rows = WithAssetTypeV1(rows, mapping), !.aux.mapping = mapping]
-------------------------------------------------------------------------------
(***************************************************************************)
(* The storer.                                                             *)
(***************************************************************************)
Accepts(stored, version) == stored = None \/ stored <= version

\* insert_current_unified_fungible_asset_balances_v1_query
UpsertV1(old, new) ==
    IF ~Accepts(old.version_v1, new.version_v1) THEN old
    ELSE [old EXCEPT !.owner = new.owner, !.asset_v1 = new.asset_v1,
                     !.is_frozen = new.is_frozen, !.amount_v1 = new.amount_v1,
                     !.version_v1 = new.version_v1]

\* Mutant: asset_type_v1 is taken from the new row, null or not.
UncoalescedUpsertV2(old, new) ==
    IF ~Accepts(old.version_v2, new.version_v2) THEN old
    ELSE [new EXCEPT !.amount_v1 = old.amount_v1, !.version_v1 = old.version_v1]

\* Mutant: is_frozen is not among the columns set.
UnfreezingUpsertV2(old, new) ==
    IF ~Accepts(old.version_v2, new.version_v2) THEN old
    ELSE [new EXCEPT !.asset_v1 = IF @ = None THEN old.asset_v1 ELSE @,
                     !.amount_v1 = old.amount_v1, !.version_v1 = old.version_v1,
                     !.is_frozen = old.is_frozen]

\* insert_current_unified_fungible_asset_balances_v2_query
UpsertV2(old, new) ==
    IF ~Accepts(old.version_v2, new.version_v2) THEN old
    ELSE [new EXCEPT !.asset_v1 = IF @ = None THEN old.asset_v1 ELSE @,
                     !.amount_v1 = old.amount_v1, !.version_v1 = old.version_v1]

\* insert_fungible_asset_activities_query sets one column to what it was; the
\* metadata and the mappings keep the latest version.
FungibleAssetUpsert(k, old, new) ==
    CASE k[1] = "cufab_v1" -> UpsertV1(old, new)
      [] k[1] = "cufab_v2" -> UpsertV2(old, new)
      [] k[1] = "fungible_asset_activities" -> [old EXCEPT !.storage = new.storage]
      [] OTHER -> IF old.v <= new.v THEN new ELSE old
-------------------------------------------------------------------------------
(***************************************************************************)
(* The chain: coins are created, deposited and migrated to the paired      *)
(* asset; stores are written, created and deleted.  Amounts are those of   *)
(* the transaction's version, so that no two are equal.                    *)
(***************************************************************************)
CoinStoreOf(o, c, n, frozen) ==
    [type |-> "CoinStore", owner |-> o, coin |-> c, amount |-> n, frozen |-> frozen]

GuidEvent(o, c) == [type |-> "CoinDepositEvent", owner |-> o, coin |-> c]

\* An object of the store's address with a store of asset m.
StoreGroup(addr, o, m, n, frozen) ==
    <<[type |-> "ObjectCore", addr |-> addr, owner |-> o],
      [type |-> "FungibleStore", addr |-> addr, asset |-> m, amount |-> 0, frozen |-> frozen],
      [type |-> "ConcurrentBalance", addr |-> addr, amount |-> n]>>

\* A store is emptied and deleted, and the event of its deletion emitted.
DeletedStoreGroup(addr, o, m) ==
    <<[type |-> "Withdraw", addr |-> addr],
      [type |-> "FungibleStoreDeletion", store |-> Printed(addr), owner |-> Printed(o),
       metadata |-> Printed(m)],
      [type |-> "DeleteGroup", addr |-> addr]>>

StoreExists(h, addr) ==
    LET at == {v \in DOMAIN h : \E i \in DOMAIN h[v] :
                 h[v][i].type \in {"FungibleStore", "DeleteGroup"} /\ h[v][i].addr = addr}
    IN at # {} /\ \E i \in DOMAIN h[LastOf(at)] : h[LastOf(at)][i].type = "FungibleStore"

FungibleAssetMoves(h) ==
    LET n == Len(h) + 1
    IN UNION {
        {<<[type |-> "UserRequest", owner |-> o], [type |-> "CoinInfo", coin |-> c],
           [type |-> "ObjectCore", addr |-> PairedMetadata(c), owner |-> o],
           [type |-> "Metadata", addr |-> PairedMetadata(c)],
           [type |-> "Supply", addr |-> PairedMetadata(c), amount |-> n]>>}
        \cup {<<GuidEvent(o, c), CoinStoreOf(o, c, n, frozen)>> : frozen \in BOOLEAN}
        \cup {<<GuidEvent(o, c), GuidEvent(o, d),
                [type |-> "CoinWithdraw", owner |-> o, coin |-> d],
                [type |-> "CoinStoreDeletion", owner |-> o, coin |-> c],
                CoinStoreOf(o, d, n, FALSE),
                [type |-> "Deposit", addr |-> PrimaryStore(o, PairedMetadata(c))]>>
              \o StoreGroup(PrimaryStore(o, PairedMetadata(c)), o, PairedMetadata(c), n, FALSE)
              : d \in CoinTypes \ {c}}
        \cup {StoreGroup(PrimaryStore(o, PairedMetadata(c)), o, PairedMetadata(c), n, frozen)
              : frozen \in BOOLEAN}
        \cup {LET store == SecondaryStore(o, d)
              IN IF StoreExists(h, store) THEN DeletedStoreGroup(store, o, PairedMetadata(d))
                 ELSE StoreGroup(store, o, PairedMetadata(d), n, FALSE)
              : d \in CoinTypes \ LongCoins}
        : o \in Accounts, c \in MigratedCoins}
-------------------------------------------------------------------------------
\* The changes of a storage's balance by standard that the extractor sees.  It misses
\* the deletion of a store whose address has leading zeros: the balance of such a store
\* stays what it was.
V1ChangeOf(c, addr) ==
    /\ c.type \in {"CoinStore", "CoinStoreDeletion"} /\ Indexed(c.coin)
    /\ PrimaryStore(c.owner, PairedMetadata(c.coin)) = addr
V2ChangeOf(c, addr) ==
    /\ c.type \in {"FungibleStore", "DeleteGroup"} /\ c.addr = addr
    /\ c.type = "DeleteGroup" => addr \notin ShortAddresses
ConcurrentOf(c, addr) == c.type = "ConcurrentBalance" /\ c.addr = addr

StoredBalances(B) == {k \in DOMAIN B : k[1] = "current_fungible_asset_balances"}

Storages ==
    {PrimaryStore(o, PairedMetadata(c)) : o \in Accounts, c \in CoinTypes}
      \cup {SecondaryStore(o, c) : o \in Accounts, c \in CoinTypes}

\* Both halves of a shared row follow the chain, each its own standard, although
\* two statements write the row in either order and a replay writes it again: the
\* last coin balance, the last store balance, and 0 after a deletion.  The deletion of
\* a store whose address has leading zeros is not noticed, and its last balance stays.
AmountsFollowChain ==
    processor = "fungible_asset" /\ Quiet =>
      \A a \in Storages :
        LET v1 == LastOf(VersionsWith(LAMBDA c : V1ChangeOf(c, a)))
            v2 == LastOf(VersionsWith(LAMBDA c : V2ChangeOf(c, a)))
            k == <<"current_fungible_asset_balances", a>>
        IN /\ v1 > 0 =>
                LET c == LastIn(chain[v1], LAMBDA x : V1ChangeOf(x, a))
                IN /\ k \in DOMAIN db /\ db[k].version_v1 = v1 /\ db[k].asset_v1 # None
                   /\ db[k].amount_v1 = IF c.type = "CoinStore" THEN c.amount ELSE 0
           /\ v2 > 0 =>
                LET c == LastIn(chain[v2], LAMBDA x : V2ChangeOf(x, a))
                IN /\ k \in DOMAIN db /\ db[k].version_v2 = v2
                   /\ db[k].amount_v2 =
                        IF c.type = "DeleteGroup" THEN 0
                        ELSE LastIn(chain[v2], LAMBDA x : ConcurrentOf(x, a)).amount

\* Whether a balance is frozen is one column for both standards.  When the last
\* changes of the two are too far apart to share a batch, the later one decides.
FrozenSettles ==
    processor = "fungible_asset" /\ Quiet =>
      \A k \in StoredBalances(db) :
        LET v1 == LastOf(VersionsWith(LAMBDA c : V1ChangeOf(c, k[2])))
            v2 == LastOf(VersionsWith(LAMBDA c : V2ChangeOf(c, k[2])))
            last == IF v1 > v2 THEN LastIn(chain[v1], LAMBDA c : V1ChangeOf(c, k[2]))
                    ELSE LastIn(chain[v2], LAMBDA c : V2ChangeOf(c, k[2]))
        IN v1 >= v2 + MaxBatch \/ v2 >= v1 + MaxBatch =>
             db[k].is_frozen = ("frozen" \in DOMAIN last /\ last.frozen)

\* A v2 balance names the coin its asset is paired with if the static mapping has it
\* or once the coin was announced at or before it, whether the extractor still
\* remembers the coin or reads it back after a restart.
CoinRemembered ==
    processor = "fungible_asset" /\ Quiet =>
      \A k \in StoredBalances(db) : \A c \in CoinTypes \ LongCoins :
        LET announced == VersionsWith(LAMBDA x : x.type = "CoinInfo" /\ x.coin = c)
        IN /\ db[k].asset_v2 = PairedMetadata(c)
           /\ c \in StaticCoins \/ \E v \in announced : v <= db[k].version_v2
           => db[k].asset_v1 = c

\* A row of current_fungible_asset_balances is right in all its parts: the amounts
\* of both standards, the frozen flag they share and the coin that pairs them.
SharedBalancesCorrect == AmountsFollowChain /\ FrozenSettles /\ CoinRemembered

\* The upserts never take a half of a row back to an older version, nor its coin
\* type back to null ("This guarantees that asset_type_v1 will not be overridden
\* to null", fungible_asset_storer.rs:286).
BalancesNeverRegress ==
    [][processor = "fungible_asset" =>
         \A k \in StoredBalances(db) :
           /\ Accepts(db[k].version_v1, db'[k].version_v1)
           /\ Accepts(db[k].version_v2, db'[k].version_v2)
           /\ db[k].asset_v1 # None => db'[k].asset_v1 # None]_vars

\* The activity of event i of version v, and what it says if owner o had it in asset a.
ActivityKey(v, i) == <<"fungible_asset_activities", v, i>>
ActivityOf(v, i, o, a, storage) ==
    /\ ActivityKey(v, i) \in DOMAIN db
    /\ db[ActivityKey(v, i)] = [owner |-> o, asset |-> a, storage |-> storage]

\* An event that names the coin store by its guid, of a coin too long to be indexed.
LongGuidEvent(c) == c.type \in GuidCoinEvents /\ ~Indexed(c.coin)

\* What the chain says of the store of an event at version v: the last object and the
\* last store written at its address, which a deletion leaves as they were.
LatestAt(type, addr, v) ==
    LET Is(c) == c.type = type /\ c.addr = addr
    IN LastIn(chain[LastOf({w \in VersionsWith(Is) : w <= v})], Is)

StoreDeletedAt(addr, v) ==
    \E i \in DOMAIN chain[v] : chain[v][i].type = "DeleteGroup" /\ chain[v][i].addr = addr

\* The coins of the stores an owner deletes at version v, as far as they are indexed.
CoinsDeletedAt(o, v) ==
    {chain[v][j].coin : j \in {e \in Items(chain[v], "CoinStoreDeletion") :
                                 chain[v][e].owner = o /\ Indexed(chain[v][e].coin)}}

===============================================================================
