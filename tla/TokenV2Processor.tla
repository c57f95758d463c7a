--------------------------- MODULE TokenV2Processor ---------------------------
(***************************************************************************)
(* The token v2 processor: collections, token data, owners, offers and     *)
(* activities of both token standards.                                     *)
(*                                                                         *)
(* Tokens of the first standard live in tables on the chain: which account *)
(* a table belongs to is known from a resource somewhere in the batch, else*)
(* from an event of the transaction, else from the stored collections.     *)
(* Tokens of the second standard (NFTs) are objects: their owner is in     *)
(* their ObjectCore, and a burned one's owner in the burn event, else in   *)
(* the batch, else in the stored owners.                                   *)
(*                                                                         *)
(* Owners and token data have two statements each in the storer, one for   *)
(* living and one for burned or withdrawn tokens, that write one table     *)
(* concurrently.                                                           *)
(***************************************************************************)
EXTENDS TableState, SequencesExt

CONSTANTS
    Holders,       \* accounts that hold tokens
    V1Tokens,      \* token data ids of the first standard
    Nfts           \* addresses of tokens of the second standard

\* A table handle names the resource that holds the table, and the account.
TableHandle(resource, owner) == <<resource, owner>>

\* TokenResource: the resources that hold tables.
TokenResource == {"Collections", "TokenStore", "PendingClaims"}

\* TokenWriteSet: the table items, by the types of key and value.
TokenWriteSet ==
    {"CollectionData", "TokenData", "Token", "TokenOffer", "DeletedToken", "DeletedTokenOffer"}

\* TokenEvent.  Deposits and withdrawals have a second generation that names the
\* account in the event.
TokenModuleEvents == {"TokenDeposit", "TokenWithdraw"}
TokenOfferEvents == {"Offer", "CancelOffer", "Claim"}
TokenEvent ==
    {"MintToken", "BurnToken", "MutatePropertyMap", "Deposit", "Withdraw"}
      \cup TokenModuleEvents \cup TokenOfferEvents

\* V2TokenResource: what is collected of an object.
CollectionSupply == {"UnlimitedSupply", "FixedSupply", "ConcurrentSupply"}
V2TokenResource ==
    {"ObjectCore", "Untransferable", "Collection", "TokenV2", "TokenIdentifiers"}
      \cup CollectionSupply

\* V2TokenEvent.  Burn names the previous owner, BurnEvent does not.
V2TokenEvent ==
    {"Mint", "MintEvent", "TokenMutationEvent", "TokenMutation", "Burn", "BurnEvent", "Transfer"}

TokenChangeTypes ==
    TokenResource \cup TokenWriteSet \cup TokenEvent \cup V2TokenResource \cup V2TokenEvent
      \cup {"DeleteResource"}

TokenTables ==
    {"current_collections_v2", "current_token_datas_v2", "current_deleted_token_datas_v2",
     "current_token_ownerships_v2", "current_deleted_token_ownerships_v2",
     "token_activities_v2", "current_token_royalty_v1", "current_token_pending_claims"}

\* The statements for deleted rows write the tables of the living.
TokenTableKey(k) ==
    CASE k[1] = "current_deleted_token_datas_v2" -> [k EXCEPT ![1] = "current_token_datas_v2"]
      [] k[1] = "current_deleted_token_ownerships_v2" ->
           [k EXCEPT ![1] = "current_token_ownerships_v2"]
      [] OTHER -> k

OwnershipKey(token, pv, owner, storage) ==
    <<"current_token_ownerships_v2", token, pv, owner, storage>>
DeletedOwnershipKey(token, pv, owner, storage) ==
    <<"current_deleted_token_ownerships_v2", token, pv, owner, storage>>
-------------------------------------------------------------------------------
(***************************************************************************)
(* What the extractor collects first.  aux.objects is                      *)
(* token_v2_metadata_helper, aux.prior is prior_nft_ownership; both live   *)
(* as long as the batch.                                                   *)
(***************************************************************************)
TokenNewBatch == EmptyBatch([objects |-> NoRows, prior |-> NoRows])

\* get_table_handle_to_owner: the table a resource holds, and whose it is.
TablesOf(txn) ==
    {TableHandle(txn[i].type, txn[i].owner) : i \in {j \in DOMAIN txn : txn[j].type \in TokenResource}}

\* get_table_handle_to_owner_from_transactions: from the whole batch, versions
\* that are yet to be parsed included.
TableHandleToOwner(b) ==
    [h \in UNION {TablesOf(txn) : txn \in b.transactions} |->
       [table_type |-> h[1], owner |-> h[2]]]

\* Loop 1: an ObjectCore replaces all that was known of the object.
CollectObjects(objects, txn) ==
    FoldLeft(LAMBDA h, c : IF c.type = "ObjectCore"
                           THEN Put(h, c.addr, [owner |-> c.owner, ungated |-> c.ungated,
                                                res |-> NoRows, transfers |-> <<>>])
                           ELSE h,
             objects, txn)

\* Loop 2: the other resources of known objects.
CollectResources(objects, txn) ==
    FoldLeft(LAMBDA h, c : IF c.type \in V2TokenResource /\ c.addr \in DOMAIN h
                           THEN [h EXCEPT ![c.addr].res = Put(@, c.type, c)] ELSE h,
             objects, txn)

\* Loop 3: transfers are kept with the object.
CollectTransfers(objects, txn) ==
    FoldLeft(LAMBDA h, c : IF c.type = "Transfer" /\ c.token \in DOMAIN h
                           THEN [h EXCEPT ![c.token].transfers = Append(@, c)] ELSE h,
             objects, txn)

\* tokens_burned: token -> previous owner, None if the event does not say.
TokensBurned(txn) ==
    LET BurnOf(c, t) == c.type \in {"Burn", "BurnEvent"} /\ c.token = t
    IN [t \in {txn[i].token : i \in Items(txn, "Burn") \cup Items(txn, "BurnEvent")} |->
          LET c == LastIn(txn, LAMBDA x : BurnOf(x, t))
          IN IF c.type = "Burn" THEN c.owner ELSE None]

\* tokens_claimed, tokens_canceled, tokens_withdrawn, tokens_deposited: the last
\* event of a type by token data id, whatever its property version.
EventsByToken(txn, type) ==
    [t \in {txn[i].token : i \in Items(txn, type)} |->
       LastIn(txn, LAMBDA c : c.type = type /\ c.token = t)]
-------------------------------------------------------------------------------
(***************************************************************************)
(* Collections.                                                            *)
(***************************************************************************)
PutRow(b, k, row) == [b EXCEPT !.rows = Put(@, k, row)]

\* Concurrent supply before fixed before unlimited.
SupplyOfCollection(res) ==
    LET of == {t \in CollectionSupply : t \in DOMAIN res}
    IN CASE "ConcurrentSupply" \in of -> res["ConcurrentSupply"].amount
         [] "ConcurrentSupply" \notin of /\ "FixedSupply" \in of -> res["FixedSupply"].amount
         [] of = {"UnlimitedSupply"} -> res["UnlimitedSupply"].amount
         [] OTHER -> 0

CurrentCollectionV2(v, creator, supply, handle) ==
    [v |-> v, creator |-> creator, supply |-> supply, table_handle_v1 |-> handle]

\* CollectionV2::get_v2_from_write_resource
CollectionFromResource(b, v, c) ==
    IF c.addr \notin DOMAIN b.aux.objects THEN b
    ELSE PutRow(b, <<"current_collections_v2", <<"v2", c.addr, "">>>>,
                CurrentCollectionV2(v, c.creator,
                                    SupplyOfCollection(b.aux.objects[c.addr].res), None))

\* get_by_table_handle: the creators of the stored collections of a table.
CreatorsByHandle(tables, handle) ==
    {tables[k].creator : k \in {x \in DOMAIN tables :
       x[1] = "current_collections_v2" /\ tables[x].table_handle_v1 = handle}}

\* Mutant: a collection is dropped without a word when its creator is unknown.
SilentCollection(b, v, c, tables) ==
    LET known == TableHandleToOwner(b)
    IN IF c.handle \notin DOMAIN known THEN b
       ELSE PutRow(b, <<"current_collections_v2", <<"v1", known[c.handle].owner, c.name>>>>,
                   CurrentCollectionV2(v, known[c.handle].owner, c.amount, c.handle))

\* CollectionV2::get_v1_from_write_table_item: without a creator it is dropped.
CollectionFromTableItem(b, v, c, tables) ==
    LET known == TableHandleToOwner(b)
        creators == IF c.handle \in DOMAIN known THEN {known[c.handle].owner}
                    ELSE CreatorsByHandle(tables, c.handle)
    IN IF creators = {} THEN [b EXCEPT !.errors = @ \cup {v}]
       ELSE LET creator == CHOOSE a \in creators : TRUE
            IN PutRow(b, <<"current_collections_v2", <<"v1", creator, c.name>>>>,
                      CurrentCollectionV2(v, creator, c.amount, c.handle))
-------------------------------------------------------------------------------
(***************************************************************************)
(* Token data and royalties.                                               *)
(***************************************************************************)
CurrentTokenDataV2(v, name, deleted) == [v |-> v, name |-> name, is_deleted_v2 |-> deleted]

\* TokenDataV2::get_v1_from_write_table_item
TokenDataFromTableItem(b, v, c) ==
    PutRow(b, <<"current_token_datas_v2", c.token>>, CurrentTokenDataV2(v, c.token, None))

\* CurrentTokenRoyaltyV1::get_v1_from_write_table_item
CurrentTokenRoyaltyV1(b, v, c) ==
    PutRow(b, <<"current_token_royalty_v1", c.token>>, [v |-> v, payee |-> c.payee])

\* TokenDataV2::get_v2_from_write_resource: the name is that of the identifiers.
TokenDataFromResource(b, v, c) ==
    LET res == b.aux.objects[c.addr].res
        name == IF "TokenIdentifiers" \in DOMAIN res THEN res["TokenIdentifiers"].name ELSE c.name
    IN PutRow(b, <<"current_token_datas_v2", c.addr>>, CurrentTokenDataV2(v, name, FALSE))

\* TokenDataV2::get_burned_nft_v2_from_write_resource, and ..from_delete_resource.
BurnedTokenData(b, v, token) ==
    PutRow(b, <<"current_deleted_token_datas_v2", token>>, CurrentTokenDataV2(v, "", TRUE))
-------------------------------------------------------------------------------
(***************************************************************************)
(* Owners.                                                                 *)
(***************************************************************************)
CurrentTokenOwnershipV2(v, amount, soulbound) ==
    [v |-> v, amount |-> amount, is_soulbound_v2 |-> soulbound]

Remember(b, token, owner) == [b EXCEPT !.aux.prior = Put(@, token, owner)]

\* Mutant: the event is consulted although the table is known.
EventBeforeTable(b, c, events) ==
    IF c.token \in DOMAIN events THEN events[c.token].account ELSE None

\* Whose token store an item is in: the table's owner if it is known and a token
\* store, else the account of the event of the token's deposit or withdrawal.
StoreOwner(b, c, events) ==
    LET known == TableHandleToOwner(b)
    IN IF c.handle \in DOMAIN known
       THEN IF known[c.handle].table_type = "TokenStore" THEN known[c.handle].owner ELSE None
       ELSE IF c.token \in DOMAIN events THEN events[c.token].account ELSE None

\* TokenOwnershipV2::get_v1_from_write_table_item: of items whose value is a token.
OwnershipFromTableItem(b, v, c, txn) ==
    LET owner == StoreOwner(b, c, EventsByToken(txn, "TokenDeposit"))
    IN IF owner = None THEN b
       ELSE Remember(PutRow(b, OwnershipKey(c.token, c.pv, owner, c.handle),
                            CurrentTokenOwnershipV2(v, c.amount, None)),
                     c.token, owner)

\* TokenOwnershipV2::get_v1_from_delete_table_item: of items whose key is a token.
OwnershipFromDeletedItem(b, v, c, txn) ==
    LET owner == StoreOwner(b, c, EventsByToken(txn, "TokenWithdraw"))
    IN IF owner = None THEN b
       ELSE Remember(PutRow(b, DeletedOwnershipKey(c.token, c.pv, owner, c.handle),
                            CurrentTokenOwnershipV2(v, 0, None)),
                     c.token, owner)

\* Mutant: who a token was transferred from keeps it.
UntransferredOwnership(b, v, token) ==
    LET object == b.aux.objects[token]
        soulbound == "Untransferable" \in DOMAIN object.res \/ ~object.ungated
    IN Remember(PutRow(b, OwnershipKey(token, 0, object.owner, token),
                       CurrentTokenOwnershipV2(v, 1, soulbound)),
                token, object.owner)

\* TokenOwnershipV2::get_nft_v2_from_token_data: a row for the owner, then an empty
\* one for whoever it was transferred from.
NftOwnership(b, v, token) ==
    LET object == b.aux.objects[token]
        soulbound == "Untransferable" \in DOMAIN object.res \/ ~object.ungated
        owned == PutRow(b, OwnershipKey(token, 0, object.owner, token),
                        CurrentTokenOwnershipV2(v, 1, soulbound))
        from == {e.from : e \in {x \in Range(object.transfers) : x.from # x.to}}
        left == [k \in {OwnershipKey(token, 0, o, token) : o \in from} |->
                   CurrentTokenOwnershipV2(v, 0, soulbound)]
    IN Remember([owned EXCEPT !.rows = Over(left, @)], token, object.owner)

PutBurned(b, v, token, owner, soulbound) ==
    Remember(PutRow(b, DeletedOwnershipKey(token, 0, owner, token),
                    CurrentTokenOwnershipV2(v, 0, soulbound)),
             token, owner)

\* get_latest_owned_nft_by_token_data_id: somebody the tables show the token with.
OwnersInTables(tables, token) ==
    {k[4] : k \in {x \in DOMAIN tables : /\ x[1] = "current_token_ownerships_v2"
                                         /\ x[2] = token /\ tables[x].amount > 0}}

\* Mutant: the owner the event names is not used.
NamelessBurn(b, v, token, event_owner, tables) ==
    IF token \in DOMAIN b.aux.prior THEN PutBurned(b, v, token, b.aux.prior[token], None)
    ELSE LET stored == OwnersInTables(tables, token)
         IN IF stored # {} THEN PutBurned(b, v, token, CHOOSE o \in stored : TRUE, None)
            ELSE PutBurned([b EXCEPT !.errors = @ \cup {v}], v, token, "unknown", None)

\* get_burned_nft_v2_helper: the owner the event names, else the batch's last, else
\* the stored one; without any, a row for DEFAULT_OWNER_ADDRESS.
BurnedOwnership(b, v, token, event_owner, tables) ==
    IF event_owner # None THEN PutBurned(b, v, token, event_owner, None)
    ELSE IF token \in DOMAIN b.aux.prior THEN PutBurned(b, v, token, b.aux.prior[token], None)
    ELSE LET stored == OwnersInTables(tables, token)
         IN IF stored # {} THEN PutBurned(b, v, token, CHOOSE o \in stored : TRUE, None)
            ELSE PutBurned([b EXCEPT !.errors = @ \cup {v}], v, token, "unknown", None)

\* get_burned_nft_v2_from_write_resource: the object of a burned token is still
\* there.  is_soulbound is true of every object the extractor knows.
BurnedWithObject(b, v, c, event_owner, tables) ==
    IF c.type = "ObjectCore"
    THEN PutBurned(b, v, c.addr, c.owner, c.addr \in DOMAIN b.aux.objects \/ ~c.ungated)
    ELSE BurnedOwnership(b, v, c.addr, event_owner, tables)
-------------------------------------------------------------------------------
(***************************************************************************)
(* Offers and activities.                                                  *)
(***************************************************************************)
ClaimKey(token, pv, from, to) == <<"current_token_pending_claims", token, pv, from, to>>

\* CurrentTokenPendingClaim::from_write_table_item: of items whose key is an offer.
PendingClaim(b, v, c) ==
    LET known == TableHandleToOwner(b)
    IN IF c.handle \notin DOMAIN known THEN [b EXCEPT !.errors = @ \cup {v}]
       ELSE PutRow(b, ClaimKey(c.token, c.pv, known[c.handle].owner, c.to),
                   [v |-> v, amount |-> c.amount, table_handle |-> c.handle])

\* Whose offer is gone: the table's owner, else the offerer of the cancel event,
\* else that of the claim event.
Offerer(b, c, txn) ==
    LET known == TableHandleToOwner(b)
        claimed == EventsByToken(txn, "Claim")
        canceled == EventsByToken(txn, "CancelOffer")
    IN IF c.handle \in DOMAIN known THEN {known[c.handle].owner}
       ELSE IF c.token \in DOMAIN canceled THEN {canceled[c.token].from}
       ELSE IF c.token \in DOMAIN claimed THEN {claimed[c.token].from}
       ELSE {}

\* Mutant: an offer in a table nothing is known of is left as it is.
ForgottenClaim(b, v, c, txn) ==
    LET known == TableHandleToOwner(b)
    IN IF c.handle \notin DOMAIN known THEN b
       ELSE PutRow(b, ClaimKey(c.token, c.pv, known[c.handle].owner, c.to),
                   [v |-> v, amount |-> 0, table_handle |-> c.handle])

\* CurrentTokenPendingClaim::from_delete_table_item: panics without an offerer.
SettledClaim(b, v, c, txn) ==
    LET offerers == Offerer(b, c, txn)
    IN IF offerers = {} THEN [b EXCEPT !.panicked = TRUE]
       ELSE PutRow(b, ClaimKey(c.token, c.pv, CHOOSE o \in offerers : TRUE, c.to),
                   [v |-> v, amount |-> 0, table_handle |-> c.handle])

TokenActivityV2(b, v, i, token, from, to) ==
    PutRow(b, <<"token_activities_v2", v, i>>, [token |-> token, from |-> from, to |-> to])

\* TokenActivityV2::get_v1_from_parsed_event
ActivityV1(b, v, i, c) ==
    CASE c.type \in TokenOfferEvents -> TokenActivityV2(b, v, i, c.token, c.from, c.to)
      [] c.type \in {"Deposit", "TokenDeposit"} ->
           TokenActivityV2(b, v, i, c.token, None, c.account)
      [] OTHER -> TokenActivityV2(b, v, i, c.token, c.account, None)

\* The token an event is about: for a mutation the account of the event's key.
TokenOfEvent(c) ==
    IF c.type \in {"TokenMutationEvent", "TokenMutation"} THEN c.key ELSE c.token

\* TokenActivityV2::get_nft_v2_from_parsed_event: of an object nothing is known of,
\* only a burn that names it has an owner.
ActivityV2(b, v, i, c) ==
    LET token == TokenOfEvent(c)
    IN IF token \notin DOMAIN b.aux.objects
       THEN TokenActivityV2(b, v, i, token, IF c.type = "Burn" THEN c.owner ELSE None, None)
       ELSE CASE c.type = "Transfer" -> TokenActivityV2(b, v, i, token, c.from, c.to)
              [] c.type = "TokenMutationEvent" -> TokenActivityV2(b, v, i, token, c.sender, None)
              [] c.type = "TokenMutation" -> TokenActivityV2(b, v, i, token, c.token, None)
              [] OTHER -> TokenActivityV2(b, v, i, token, b.aux.objects[token].owner, None)
-------------------------------------------------------------------------------
(***************************************************************************)
(* parse_v2_token, one transaction.                                        *)
(***************************************************************************)
\* Loop 4, WriteTableItem
WriteTableItem(b, v, c, txn, tables) ==
    CASE c.type = "CollectionData" -> CollectionFromTableItem(b, v, c, tables)
      [] c.type = "TokenData" -> CurrentTokenRoyaltyV1(TokenDataFromTableItem(b, v, c), v, c)
      [] c.type = "Token" -> OwnershipFromTableItem(b, v, c, txn)
      [] c.type = "TokenOffer" -> PendingClaim(OwnershipFromTableItem(b, v, c, txn), v, c)

\* Loop 4, DeleteTableItem
DeleteTableItem(b, v, c, txn) ==
    IF c.type = "DeletedToken" THEN OwnershipFromDeletedItem(b, v, c, txn)
    ELSE SettledClaim(b, v, c, txn)

\* Loop 4, WriteResource
WriteResource(b, v, c, burned, tables) ==
    LET written ==
          CASE c.type = "Collection" -> CollectionFromResource(b, v, c)
            [] c.type = "TokenV2" /\ c.addr \in DOMAIN b.aux.objects ->
                 NftOwnership(TokenDataFromResource(b, v, c), v, c.addr)
            [] OTHER -> b
    IN IF c.addr \in DOMAIN burned
       THEN BurnedWithObject(BurnedTokenData(written, v, c.addr), v, c, burned[c.addr], tables)
       ELSE written

\* Loop 4, DeleteResource
DeleteResource(b, v, c, burned, tables) ==
    IF c.addr \notin DOMAIN burned THEN b
    ELSE BurnedOwnership(BurnedTokenData(b, v, c.addr), v, c.addr, burned[c.addr], tables)

TokenParse(batch0, txn, v, tables) ==
    LET objects == CollectTransfers(CollectResources(
                     CollectObjects(batch0.aux.objects, txn), txn), txn)
        burned == TokensBurned(txn)
        Step(b, i) ==
          LET c == txn[i]
          IN CASE c.type \in TokenEvent -> ActivityV1(b, v, i, c)
               [] c.type \in V2TokenEvent -> ActivityV2(b, v, i, c)
               [] c.type \in {"CollectionData", "TokenData", "Token", "TokenOffer"} ->
                    WriteTableItem(b, v, c, txn, tables)
               [] c.type \in {"DeletedToken", "DeletedTokenOffer"} ->
                    DeleteTableItem(b, v, c, txn)
               [] c.type \in V2TokenResource -> WriteResource(b, v, c, burned, tables)
               [] c.type = "DeleteResource" -> DeleteResource(b, v, c, burned, tables)
               [] OTHER -> b
    IN InOrder(Step, [batch0 EXCEPT !.aux.objects = objects], txn)
-------------------------------------------------------------------------------
(***************************************************************************)
(* The storer.                                                             *)
(***************************************************************************)
\* insert_current_token_datas_v2_query leaves is_deleted_v2 alone.
UpsertTokenData(old, new) ==
    IF old.v <= new.v THEN [new EXCEPT !.is_deleted_v2 = old.is_deleted_v2] ELSE old

\* Mutant: burned token data is stored like any other.
ForgottenDeletion(old, new) ==
    IF old.v <= new.v THEN [new EXCEPT !.is_deleted_v2 = old.is_deleted_v2] ELSE old

\* insert_current_deleted_token_datas_v2_query
UpsertDeletedTokenData(old, new) ==
    IF old.v <= new.v THEN [old EXCEPT !.v = new.v, !.is_deleted_v2 = new.is_deleted_v2] ELSE old

\* Mutant: no version guard.
UnguardedOwnership(old, new) == new

\* insert_current_token_ownerships_v2_query
UpsertOwnership(old, new) == IF old.v <= new.v THEN new ELSE old

\* insert_current_deleted_token_ownerships_v2_query
UpsertDeletedOwnership(old, new) ==
    IF old.v <= new.v THEN [old EXCEPT !.amount = new.amount, !.v = new.v] ELSE old

\* Collections, royalties and claims keep the latest version; activities are
\* written once.
TokenUpsert(k, old, new) ==
    CASE k[1] = "current_token_datas_v2" -> UpsertTokenData(old, new)
      [] k[1] = "current_deleted_token_datas_v2" -> UpsertDeletedTokenData(old, new)
      [] k[1] = "current_token_ownerships_v2" -> UpsertOwnership(old, new)
      [] k[1] = "current_deleted_token_ownerships_v2" -> UpsertDeletedOwnership(old, new)
      [] k[1] = "token_activities_v2" -> old
      [] OTHER -> IF old.v <= new.v THEN new ELSE old
-------------------------------------------------------------------------------
(***************************************************************************)
(* The chain.  An NFT is minted, transferred, once, there and back or to   *)
(* its owner with a change of its data, and burned, by an event of either  *)
(* generation and with or without its object.  A token of the first        *)
(* standard is held, offered, claimed and taken back; its transactions     *)
(* carry the resources of the tables they change, or module events         *)
(* instead.  Who comes first is a bound: holders differ in nothing else.   *)
(***************************************************************************)
NftCore(t, o) == [type |-> "ObjectCore", addr |-> t, owner |-> o, ungated |-> TRUE]
NftToken(t) == [type |-> "TokenV2", addr |-> t, name |-> t]
TransferOf(t, o, p) == [type |-> "Transfer", token |-> t, from |-> o, to |-> p]

\* The last owner a history gives an NFT, None if it is not alive.
NftOwner(h, t) ==
    LET Core(c) == c.type = "ObjectCore" /\ c.addr = t
        Burned(c) == c.type \in {"Burn", "BurnEvent"} /\ c.token = t
        at == {v \in DOMAIN h : \E i \in DOMAIN h[v] : Core(h[v][i]) \/ Burned(h[v][i])}
    IN IF at = {} THEN None
       ELSE LET txn == h[LastOf(at)]
            IN IF \E i \in DOMAIN txn : Burned(txn[i]) THEN None ELSE LastIn(txn, Core).owner

NftBurned(h, t) ==
    \E v \in DOMAIN h : \E i \in DOMAIN h[v] :
       h[v][i].type \in {"Burn", "BurnEvent"} /\ h[v][i].token = t

NftMoves(h) ==
    LET n == Len(h) + 1
        Mint(t, o) ==
          <<[type |-> "Mint", token |-> t], NftCore("collection", o),
            [type |-> "Collection", addr |-> "collection", creator |-> o],
            [type |-> "FixedSupply", addr |-> "collection", amount |-> 9],
            [type |-> "ConcurrentSupply", addr |-> "collection", amount |-> n],
            NftCore(t, o), NftToken(t),
            [type |-> "TokenIdentifiers", addr |-> t, name |-> t],
            [type |-> "Untransferable", addr |-> t]>>
        Burn(t, o) == [type |-> "Burn", token |-> t, owner |-> o]
        BurnEvent(t) == [type |-> "BurnEvent", token |-> t]
        Deleted(t) == [type |-> "DeleteResource", addr |-> t]
    IN UNION {
         LET o == NftOwner(h, t)
         IN IF NftBurned(h, t) THEN {<<>>}
            ELSE IF o = None THEN {Mint(t, CHOOSE p \in Holders : TRUE)}
            ELSE {<<TransferOf(t, o, p), NftCore(t, p), NftToken(t)>> : p \in Holders \ {o}}
                 \cup {<<TransferOf(t, o, p), TransferOf(t, p, o), NftCore(t, o), NftToken(t)>> :
                         p \in Holders \ {o}}
                 \cup {<<Burn(t, o), Deleted(t)>>, <<BurnEvent(t), Deleted(t)>>,
                       <<BurnEvent(t), NftCore(t, o), Deleted(t)>>,
                       <<TransferOf(t, o, o), [type |-> "TokenMutation", key |-> "0x0", token |-> t],
                         [type |-> "TokenMutationEvent", key |-> t, sender |-> o],
                         NftCore(t, o), NftToken(t)>>}
         : t \in Nfts}

StoreOf(o) == TableHandle("TokenStore", o)
OffersOf(o) == TableHandle("PendingClaims", o)

\* The last change a history makes to a table item, None if there is none.
LastItem(h, handle, t, types) ==
    LET Item(c) == c.type \in types /\ c.handle = handle /\ c.token = t
        at == {v \in DOMAIN h : \E i \in DOMAIN h[v] : Item(h[v][i])}
    IN IF at = {} THEN None ELSE LastIn(h[LastOf(at)], Item)

Holds(h, o, t) ==
    LET c == LastItem(h, StoreOf(o), t, {"Token", "DeletedToken"})
    IN c # None /\ c.type = "Token"

OpenOffer(h, o, t) ==
    LET c == LastItem(h, OffersOf(o), t, {"TokenOffer", "DeletedTokenOffer"})
    IN IF c = None \/ c.type = "DeletedTokenOffer" THEN None ELSE c.to

\* A resource is written when its table is created, and later by transactions that
\* use the event handles in it; module events leave it alone.
Announced(h, resource, o) ==
    \E v \in DOMAIN h : TableHandle(resource, o) \in TablesOf(h[v])
WithResource(h, resource, o) ==
    {<<[type |-> resource, owner |-> o]>>} \cup (IF Announced(h, resource, o) THEN {<<>>} ELSE {})

V1Moves(h) ==
    LET n == Len(h) + 1
        Item(o, t) == [type |-> "Token", handle |-> StoreOf(o), token |-> t, pv |-> 0, amount |-> n]
        Gone(o, t) == [type |-> "DeletedToken", handle |-> StoreOf(o), token |-> t, pv |-> 0]
        Moved(type, o, t) == [type |-> type, token |-> t, account |-> o]
        Offered(type, o, p, t) == [type |-> type, token |-> t, from |-> o, to |-> p]
        Data(o, t) == <<[type |-> "CollectionData", handle |-> TableHandle("Collections", o),
                         name |-> "c", amount |-> n],
                        [type |-> "TokenData", token |-> t, payee |-> o]>>
    IN UNION {
         (IF \/ h = <<>> /\ o # CHOOSE p \in Holders : TRUE
             \/ h # <<>> /\ ~Holds(h, o, t) THEN {}
          ELSE {r \o Data(o, t) \o <<Moved("TokenDeposit", o, t), Item(o, t)>> :
                  r \in WithResource(h, "Collections", o)})
         \cup (IF Holds(h, o, t)
               THEN {<<Moved("TokenWithdraw", o, t), Moved("TokenDeposit", p, t),
                       Gone(o, t), Item(p, t)>> : p \in Holders \ {o}}
                    \cup {<<[type |-> "TokenStore", owner |-> o], Moved("Withdraw", o, t),
                             Offered("Offer", o, p, t), Gone(o, t)>> \o r
                             \o <<[type |-> "TokenOffer", handle |-> OffersOf(o), to |-> p,
                                   token |-> t, pv |-> 0, amount |-> n]>> :
                            p \in Holders \ {o}, r \in WithResource(h, "PendingClaims", o)}
               ELSE {})
         \cup (IF OpenOffer(h, o, t) # None
               THEN LET p == OpenOffer(h, o, t)
                        settled == [type |-> "DeletedTokenOffer", handle |-> OffersOf(o),
                                    to |-> p, token |-> t, pv |-> 0]
                    IN {<<Offered("Claim", o, p, t), Moved("TokenDeposit", p, t), settled,
                          Item(p, t)>>,
                        <<Offered("CancelOffer", o, p, t), [type |-> "TokenStore", owner |-> o],
                          Moved("Deposit", o, t), settled, Item(o, t)>>}
               ELSE {})
         : o \in Holders, t \in V1Tokens}
-------------------------------------------------------------------------------
NftShownTo(t) == OwnersInTables(db, t)

\* The last transaction that gave NFT t an owner transferred it away from him first.
ThereAndBack(t) ==
    LET v == LastOf(VersionsWith(LAMBDA c : c.type = "ObjectCore" /\ c.addr = t))
    IN \E i \in Items(chain[v], "Transfer") :
          chain[v][i].token = t /\ chain[v][i].from = NftOwner(chain, t)

\* The tables show every living NFT with its owner and nobody else, although old
\* and new owners, of several transactions of a batch or of a replay, are rows of
\* their own.
NftHasItsOwner ==
    processor = "token_v2" /\ Quiet =>
      \A t \in Nfts : LET o == NftOwner(chain, t)
                      IN o # None /\ ~ThereAndBack(t) => NftShownTo(t) = {o}

\* The same without the exception: "previous owner ... soft delete"
\* (v2_token_ownerships.rs:235) is only for who does not own the token any more.
OwnerIsNotSoftDeleted ==
    processor = "token_v2" /\ Quiet =>
      \A t \in Nfts : NftOwner(chain, t) # None => NftOwner(chain, t) \in NftShownTo(t)

BurnOf(c, t) == c.type \in {"Burn", "BurnEvent"} /\ c.token = t
BurnVersion(t) == LastOf(VersionsWith(LAMBDA c : BurnOf(c, t)))

\* The previous owner of an NFT that was burned at v needs no lookup: the event or
\* the object names him, or the NFT was never transferred.
OwnerIsPlain(t, v) ==
    \/ \E i \in DOMAIN chain[v] : chain[v][i].type \in {"Burn", "ObjectCore"}
    \/ \A w \in Versions : \A i \in Items(chain[w], "Transfer") : chain[w][i].token # t

\* A burned NFT is nobody's.  When its owner has to be looked up and no row of his
\* is there yet, that is logged.
BurnedIsNobodys ==
    processor = "token_v2" /\ Quiet =>
      \A t \in Nfts : LET v == BurnVersion(t)
                      IN v > 0 /\ v \notin errors /\ OwnerIsPlain(t, v) => NftShownTo(t) = {}

\* The data of a burned NFT is marked deleted as of the burn, and that of a living
\* one is not, in whichever order the statements for the two commit.
DeletedWhenBurned ==
    processor = "token_v2" /\ Quiet =>
      \A t \in Nfts : LET k == <<"current_token_datas_v2", t>>
                      IN /\ BurnVersion(t) > 0 => /\ k \in DOMAIN db
                                                  /\ db[k].is_deleted_v2
                                                  /\ db[k].v = BurnVersion(t)
                         /\ NftOwner(chain, t) # None => k \in DOMAIN db /\ ~db[k].is_deleted_v2

\* The tables follow an NFT through its life: its owner while it lives, nobody and
\* the mark of deletion after the burn.
NftTablesCorrect == NftHasItsOwner /\ BurnedIsNobodys /\ DeletedWhenBurned

\* Who holds a token of the first standard, and how much, follows the chain,
\* whether its tables are known from resources or from module events.
V1HoldersFollowChain ==
    processor = "token_v2" /\ Quiet =>
      \A o \in Holders, t \in V1Tokens :
        LET c == LastItem(chain, StoreOf(o), t, {"Token", "DeletedToken"})
            k == OwnershipKey(t, 0, o, StoreOf(o))
        IN c # None => /\ k \in DOMAIN db
                       /\ db[k].amount = IF c.type = "Token" THEN c.amount ELSE 0

\* An offer that was claimed or taken back is not shown any more, and an open one
\* is shown unless its table was unknown, which is logged.
OffersSettle ==
    processor = "token_v2" /\ Quiet =>
      \A o \in Holders, p \in Holders, t \in V1Tokens :
        LET k == ClaimKey(t, 0, o, p)
            offered == LastOf(VersionsWith(LAMBDA c : c.type = "TokenOffer" /\ c.to = p
                                                      /\ c.token = t /\ c.handle = OffersOf(o)))
        IN IF OpenOffer(chain, o, t) = p
           THEN offered \in errors \/ (k \in DOMAIN db /\ db[k].amount > 0)
           ELSE k \in DOMAIN db => db[k].amount = 0

\* A collection of the first standard shows its last supply under its creator,
\* or the failure to find the creator is logged.
CollectionsFollowChain ==
    processor = "token_v2" /\ Quiet =>
      \A o \in Holders :
        LET Of(c) == c.type = "CollectionData" /\ c.handle = TableHandle("Collections", o)
            v == LastOf(VersionsWith(Of))
            k == <<"current_collections_v2", <<"v1", o, "c">>>>
        IN v > 0 => \/ v \in errors
                    \/ k \in DOMAIN db /\ db[k].supply = LastIn(chain[v], Of).amount

\* The tables of the first standard, whose items only name the handle of the table
\* they are in, follow the chain: tokens held, tokens offered and collections.
V1TablesCorrect == V1HoldersFollowChain /\ OffersSettle /\ CollectionsFollowChain
===============================================================================
