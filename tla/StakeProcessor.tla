---------------------------- MODULE StakeProcessor ----------------------------
(***************************************************************************)
(* The stake processor: delegation pools, the shares delegators hold in    *)
(* them, who votes for them, votes and activities.                         *)
(*                                                                         *)
(* Shares live in tables on the chain that name neither pool nor owner of  *)
(* the table.  Which pool a table belongs to is known from a resource of   *)
(* the same transaction or batch, else looked up in the rows stored for    *)
(* the same table earlier.                                                 *)
(***************************************************************************)
EXTENDS TableState, SequencesExt

CONSTANTS
    Pools,        \* staking pool addresses
    Delegators,   \* delegator addresses
    Voters,       \* addresses a delegator may let vote for him
    Cycles        \* lockup cycles: each has an inactive share table of its own

\* Table handles on the chain.
ActiveTable(p) == <<"active", p>>
InactiveTable(p) == <<"inactive", p>>
SharesTable(p, n) == <<"shares", p, n>>
VotesTable(p) == <<"votes", p>>

\* The resources the processor reads.
StakeResource ==
    [type : {"StakePool"}, pool : Pools, voter : Voters] \cup [type : {"DelegationPool"}, pool : Pools]
GovernanceRecords == [type : {"GovernanceRecords"}, pool : Pools]

\* The table items: the pool of a lockup cycle, somebody's shares, somebody's voter.
ShareTables == {ActiveTable(p) : p \in Pools} \cup {SharesTable(p, n) : p \in Pools, n \in Cycles}
StakeTableItem ==
    [type : {"Pool"}, handle : {InactiveTable(p) : p \in Pools},
     shares : {SharesTable(p, n) : p \in Pools, n \in Cycles}]
    \cup [type : {"WriteItem"}, handle : ShareTables, delegator : Delegators, amount : Nat]
    \cup [type : {"DeleteItem"}, handle : ShareTables, delegator : Delegators]
VoteDelegationItem ==
    [type : {"VoteDelegation"}, handle : {VotesTable(p) : p \in Pools},
     delegator : Delegators, voter : Voters]

ActivityEvents ==
    {"AddStake", "UnlockStake", "WithdrawStake", "ReactivateStake", "DistributeRewards"}
StakeEvent == [type : ActivityEvents \cup {"VoteEvent"}, pool : Pools]

\* A transaction is a sequence of these, its changes and events.
StakeChange ==
    StakeResource \cup GovernanceRecords \cup StakeTableItem \cup VoteDelegationItem
      \cup StakeEvent

\* The inserts of the storer, which commit one by one.
StakeTables ==
    {"current_staking_pool_voter", "proposal_votes", "delegated_staking_activities",
     "delegator_balances", "current_delegator_balances", "delegated_staking_pools",
     "delegated_staking_pool_balances", "current_delegated_staking_pool_balances",
     "current_delegated_voter"}

\* The maps that live as long as a batch: active share table -> pool, and vote
\* delegation table -> pool.
StakeNewBatch == EmptyBatch([active |-> NoRows, votes |-> NoRows])

Rows(b, Row(_, _), txn) ==
    [b EXCEPT !.rows = InOrder(LAMBDA r, i : Over(Row(txn[i], i), r), @, txn)]

\* CurrentStakingPoolVoter::from_transaction
PoolVoterRow(c, v) ==
    IF c.type # "StakePool" THEN NoRows
    ELSE Put(NoRows, <<"current_staking_pool_voter", c.pool>>, [v |-> v, voter |-> c.voter])

\* ProposalVote::from_transaction
ProposalVoteRow(c, v, i) ==
    IF c.type # "VoteEvent" THEN NoRows
    ELSE Put(NoRows, <<"proposal_votes", v, i>>, [pool |-> c.pool])

\* DelegatedStakingActivity::from_transaction
ActivityRow(c, v, i) ==
    IF c.type \notin ActivityEvents THEN NoRows
    ELSE Put(NoRows, <<"delegated_staking_activities", v, i>>, [pool |-> c.pool, event |-> c.type])

\* DelegatorPool::from_write_resource
DelegatorPoolRow(c, v) ==
    Over(Put(NoRows, <<"delegated_staking_pools", c.pool>>, [first |-> v]),
         Put(Put(NoRows, <<"delegated_staking_pool_balances", v, c.pool>>, [v |-> v]),
             <<"current_delegated_staking_pool_balances", c.pool>>, [v |-> v]))

\* DelegatorPool::from_transaction.  A later row of the batch replaces the pool's
\* row and with it its first_transaction_version.
DelegatorPoolRows(c, v) == IF c.type = "DelegationPool" THEN DelegatorPoolRow(c, v) ELSE NoRows

\* The rows that need nothing but the change itself.
StakeRows(b, txn, v) ==
    LET Row(c, i) == Over(Over(PoolVoterRow(c, v), ProposalVoteRow(c, v, i)),
                          Over(ActivityRow(c, v, i), DelegatorPoolRows(c, v)))
    IN Rows(b, Row, txn)

PoolsWith(txn, type) == {txn[i].pool : i \in {j \in DOMAIN txn : txn[j].type = type}}

\* get_active_pool_to_staking_pool_mapping
ActiveHandles(txn) ==
    [h \in {ActiveTable(p) : p \in PoolsWith(txn, "DelegationPool")} |-> h[2]]

\* The handles that the resources of a transaction announce to the whole batch.
StakeHandles(b, txn) ==
    [b EXCEPT
       !.aux.votes = Over([h \in {VotesTable(p) : p \in PoolsWith(txn, "GovernanceRecords")}
                             |-> h[2]], @),
       !.aux.active = Over(ActiveHandles(txn), @)]

\* inactive_pool_to_staking_pool: known for one transaction only.
InactivePools(txn) ==
    [h \in {InactiveTable(p) : p \in PoolsWith(txn, "DelegationPool")} |-> h[2]]

\* inactive_share_to_pool: the table of inactive pools an inactive share table is in.
InactiveShares(txn) ==
    LET pools == {i \in DOMAIN txn : txn[i].type = "Pool"}
    IN [s \in {txn[i].shares : i \in pools} |->
          (CHOOSE i \in pools : txn[i].shares = s
             /\ \A j \in pools : txn[j].shares = s => j <= i)]

\* get_staking_pool_from_inactive_share_handle: the pool of a stored balance
\* whose parent_table_handle is h.
PoolsByParent(tables, h) ==
    {k[3] : k \in {x \in DOMAIN tables : /\ x[1] = "current_delegator_balances"
                                         /\ tables[x].parent = h}}

\* The rows of one balance.  The batch keeps one per delegator, pool and type;
\* the table has one per share table as well.
PutBalance(b, v, i, delegator, pool, type, handle, row, parent) ==
    [b EXCEPT !.rows =
        LET others == {k \in DOMAIN @ : ~ (k[1] = "current_delegator_balances"
                                           /\ <<k[2], k[3], k[4]>> = <<delegator, pool, type>>)}
        IN Put(Put([k \in others |-> @[k]], <<"delegator_balances", v, i>>, row),
               <<"current_delegator_balances", delegator, pool, type, handle>>,
               [row EXCEPT !.parent = parent])]

\* Mutant: a deleted item keeps its last amount.
UnzeroedShares(c) == IF c.type = "WriteItem" THEN c.amount ELSE 1

\* A deleted table item leaves a balance of 0.
SharesOf(c) == IF c.type = "WriteItem" THEN c.amount ELSE 0

\* get_active_share_from_write_table_item, and from_delete with SharesOf
PutActiveShare(b, v, i, c) ==
    PutBalance(b, v, i, c.delegator, b.aux.active[c.handle], "active_shares", c.handle,
               [v |-> v, shares |-> SharesOf(c), parent |-> c.handle], c.handle)

\* The pool an inactive share table belongs to, if it is in the transaction or
\* among the stored balances.
InactivePoolOf(c, txn, tables) ==
    LET parent == txn[InactiveShares(txn)[c.handle]].handle
    IN IF parent \in DOMAIN InactivePools(txn)
       THEN {InactivePools(txn)[parent]} ELSE PoolsByParent(tables, parent)

PutInactiveShare(b, v, i, c, pool, parent, stored) ==
    PutBalance(b, v, i, c.delegator, pool, "inactive_shares", c.handle,
               [v |-> v, shares |-> SharesOf(c), parent |-> parent], stored)

\* get_inactive_share_from_write_table_item: without a pool, logged and dropped.
WriteInactiveShare(b, v, i, c, txn, tables) ==
    LET pools == InactivePoolOf(c, txn, tables)
        parent == txn[InactiveShares(txn)[c.handle]].handle
    IN IF pools = {} THEN [b EXCEPT !.errors = @ \cup {v}]
       ELSE PutInactiveShare(b, v, i, c, CHOOSE p \in pools : TRUE, parent, parent)

\* get_inactive_share_from_delete_table_item: without a pool the extractor panics.
\* The current row gets the share table itself as its parent.
DeleteInactiveShare(b, v, i, c, txn, tables) ==
    LET pools == InactivePoolOf(c, txn, tables)
        parent == txn[InactiveShares(txn)[c.handle]].handle
    IN IF pools = {} THEN [b EXCEPT !.panicked = TRUE]
       ELSE PutInactiveShare(b, v, i, c, CHOOSE p \in pools : TRUE, parent, c.handle)

\* Mutant: share tables of known active pools are taken for inactive ones.
BalancesOfInactive(b, txn, v, tables) ==
    LET Step(x, i) ==
          LET c == txn[i]
          IN CASE c.type \notin {"WriteItem", "DeleteItem"} -> x
               [] c.handle \notin DOMAIN InactiveShares(txn) -> x
               [] c.type = "WriteItem" -> WriteInactiveShare(x, v, i, c, txn, tables)
               [] OTHER -> DeleteInactiveShare(x, v, i, c, txn, tables)
    IN InOrder(Step, b, txn)

\* CurrentDelegatorBalance::from_transaction
Balances(b, txn, v, tables) ==
    LET Step(x, i) ==
          LET c == txn[i]
          IN CASE c.type \notin {"WriteItem", "DeleteItem"} -> x
               [] c.handle \in DOMAIN b.aux.active -> PutActiveShare(x, v, i, c)
               [] c.handle \notin DOMAIN InactiveShares(txn) -> x
               [] c.type = "WriteItem" -> WriteInactiveShare(x, v, i, c, txn, tables)
               [] OTHER -> DeleteInactiveShare(x, v, i, c, txn, tables)
    IN InOrder(Step, b, txn)

VoterKey(pool, delegator) == <<"current_delegated_voter", pool, delegator>>

\* get_delegation_pool_address_by_table_handle
PoolsByVotes(tables, h) ==
    {k[2] : k \in {x \in DOMAIN tables : /\ x[1] = "current_delegated_voter"
                                         /\ tables[x].table_handle = h}}

\* CurrentDelegatedVoter::from_write_table_item; an unknown table is logged.
DelegatedVoters(b, txn, v, tables) ==
    LET Step(x, i) ==
          LET c == txn[i]
              known == IF c.handle \in DOMAIN x.aux.votes THEN {x.aux.votes[c.handle]}
                       ELSE PoolsByVotes(tables, c.handle)
          IN IF c.type # "VoteDelegation" THEN x
             ELSE IF known = {} THEN [x EXCEPT !.errors = @ \cup {v}]
             ELSE [x EXCEPT !.rows = Put(@, VoterKey(CHOOSE p \in known : TRUE, c.delegator),
                                   [v |-> v, voter |-> c.voter, table_handle |-> c.handle])]
    IN InOrder(Step, b, txn)

\* get_existence_by_pk
VoterExists(tables, k) == k \in DOMAIN tables

\* Mutant: only the voters of the batch count as existing.
DefaultVotersByBatch(b, txn, v, tables) ==
    LET Step(x, i) ==
          LET c == txn[i]
              k == VoterKey(x.aux.active[c.handle], c.delegator)
          IN IF c.type # "WriteItem" THEN x
             ELSE IF c.handle \notin DOMAIN x.aux.active THEN x
             ELSE IF k \in DOMAIN x.rows THEN x
             ELSE [x EXCEPT !.rows = Put(@, k,
                     [v |-> v, voter |-> c.delegator, table_handle |-> <<>>])]
    IN InOrder(Step, b, txn)

\* get_delegators_pre_contract_deployment: who adds stake and has no voter yet, in
\* the batch or in the table, votes for himself.
DefaultVoters(b, txn, v, tables) ==
    LET Step(x, i) ==
          LET c == txn[i]
              k == VoterKey(x.aux.active[c.handle], c.delegator)
          IN IF c.type # "WriteItem" THEN x
             ELSE IF c.handle \notin DOMAIN x.aux.active THEN x
             ELSE IF k \in DOMAIN x.rows \/ VoterExists(tables, k) THEN x
             ELSE [x EXCEPT !.rows = Put(@, k,
                     [v |-> v, voter |-> c.delegator, table_handle |-> <<>>])]
    IN InOrder(Step, b, txn)

\* One transaction of parse_stake_data.  A panic ends it.
StakeParse(b, txn, v, tables) ==
    LET known == StakeHandles(StakeRows(b, txn, v), txn)
        balances == Balances(known, txn, v, tables)
    IN IF balances.panicked THEN balances
       ELSE DefaultVoters(DelegatedVoters(balances, txn, v, tables), txn, v, tables)

\* The inserts of the stake storer: history rows stay, the first version of a pool
\* only falls, the current tables take the latest version.
StakeUpsert(k, old, new) ==
    CASE k[1] \in {"proposal_votes", "delegated_staking_activities", "delegator_balances",
                    "delegated_staking_pool_balances"} -> old
      [] k[1] = "delegated_staking_pools" -> IF old.first >= new.first THEN new ELSE old
      [] OTHER -> IF old.v <= new.v THEN new ELSE old
-------------------------------------------------------------------------------
(***************************************************************************)
(* The chain: a delegator adds stake, unlocks it into the share table of a *)
(* lockup cycle, withdraws it and lets somebody vote.  An unlock in a new  *)
(* cycle first withdraws what was unlocked in the old one.                 *)
(***************************************************************************)
HoldsIn(h, s, d) ==
    LET vs == {v \in DOMAIN h : \E i \in DOMAIN h[v] :
                 /\ h[v][i].type \in {"WriteItem", "DeleteItem"}
                 /\ h[v][i].handle = s /\ h[v][i].delegator = d}
    IN vs # {} /\ \E i \in DOMAIN h[LastOf(vs)] :
                    LET c == h[LastOf(vs)][i]
                    IN c.type = "WriteItem" /\ c.handle = s /\ c.delegator = d

HasRecords(h, p) ==
    \E v \in DOMAIN h, i \in 1 .. 4 :
        i \in DOMAIN h[v] /\ h[v][i] = [type |-> "GovernanceRecords", pool |-> p]

AddStakeTxn(p, d, n) ==
    <<[type |-> "DelegationPool", pool |-> p],
      [type |-> "WriteItem", handle |-> ActiveTable(p), delegator |-> d, amount |-> n]>>

WithdrawTxn(p, d, n) ==
    <<[type |-> "Pool", handle |-> InactiveTable(p), shares |-> SharesTable(p, n)],
      [type |-> "DeleteItem", handle |-> SharesTable(p, n), delegator |-> d]>>

UnlockTxn(p, d, n) ==
    <<[type |-> "DelegationPool", pool |-> p],
      [type |-> "DeleteItem", handle |-> ActiveTable(p), delegator |-> d],
      [type |-> "Pool", handle |-> InactiveTable(p), shares |-> SharesTable(p, n)],
      [type |-> "WriteItem", handle |-> SharesTable(p, n), delegator |-> d, amount |-> 1],
      [type |-> "UnlockStake", pool |-> p]>>

DelegateTxn(h, p, d, w) ==
    (IF HasRecords(h, p) THEN <<[type |-> "VoteEvent", pool |-> p]>>
     ELSE <<[type |-> "GovernanceRecords", pool |-> p],
            [type |-> "StakePool", pool |-> p, voter |-> w]>>)
    \o <<[type |-> "VoteDelegation", handle |-> VotesTable(p), delegator |-> d, voter |-> w]>>

StakeMoves(h) ==
    UNION { LET held == {n \in Cycles : HoldsIn(h, SharesTable(p, n), d)}
            IN {AddStakeTxn(p, d, Len(h) + 1)}
               \cup {WithdrawTxn(p, d, n) : n \in held}
               \cup (IF ~HoldsIn(h, ActiveTable(p), d) THEN {}
                     ELSE {IF held = {} THEN UnlockTxn(p, d, n)
                           ELSE WithdrawTxn(p, d, CHOOSE m \in held : TRUE) \o UnlockTxn(p, d, n)
                           : n \in Cycles \ held}
                          \cup {DelegateTxn(h, p, d, w) : w \in Voters})
          : p \in Pools, d \in Delegators }
-------------------------------------------------------------------------------
ShareItem(c, p, d, type) ==
    /\ c.type \in {"WriteItem", "DeleteItem"} /\ c.delegator = d /\ c.handle[2] = p
    /\ (c.handle[1] = "active") = (type = "active_shares")

\* Once all is stored, the share table a delegator touched last shows what the
\* chain holds for him there, unless its pool could not be found, which is logged.
SharesFollowChain ==
    processor = "stake" /\ Quiet =>
      \A p \in Pools, d \in Delegators, type \in {"active_shares", "inactive_shares"} :
        LET v == LastOf(VersionsWith(LAMBDA c : ShareItem(c, p, d, type)))
        IN v # 0 /\ v \notin errors =>
             LET c == LastIn(chain[v], LAMBDA x : ShareItem(x, p, d, type))
                 k == <<"current_delegator_balances", d, p, type, c.handle>>
             IN /\ k \in DOMAIN db
                /\ db[k].v = v
                /\ db[k].shares = IF c.type = "WriteItem" THEN c.amount ELSE 0

\* Every table item of a share table has its row in delegator_balances once all
\* is stored, also when two of one delegator met in a batch: a lookup that fails
\* is logged or stops the process, and a replay finds what the first try missed.
BalanceHistoryComplete ==
    processor = "stake" /\ Quiet =>
      \A v \in Versions \ errors : \A i \in DOMAIN chain[v] :
        chain[v][i].type \in {"WriteItem", "DeleteItem"} =>
          <<"delegator_balances", v, i>> \in DOMAIN db

\* The delegator balances, current and past, are those of the chain.
BalanceTablesCorrect == SharesFollowChain /\ BalanceHistoryComplete

\* The versions at which a delegator of a pool adds stake, and chooses a voter.
AddsOfStake(p, d) ==
    VersionsWith(LAMBDA c : c.type = "WriteItem" /\ c.delegator = d /\ c.handle = ActiveTable(p))
ChoicesOf(p, d) ==
    VersionsWith(LAMBDA c : c.type = "VoteDelegation" /\ c.delegator = d
                            /\ c.handle = VotesTable(p))

\* Once all is stored, a delegator with stake has a voter, nothing of before his last
\* choice: a choice of his, or himself by default since he added stake.  Choices that
\* could not be assigned to a pool are logged.
VotersStored ==
    processor = "stake" /\ Quiet =>
      \A p \in Pools, d \in Delegators : AddsOfStake(p, d) # {} =>
        LET k == VoterKey(p, d)
        IN /\ k \in DOMAIN db
           /\ db[k].v >= LastOf(ChoicesOf(p, d) \ errors)
           /\ \/ /\ db[k].v \in ChoicesOf(p, d)
                 /\ db[k].voter = LastIn(chain[db[k].v], LAMBDA c : c.type = "VoteDelegation").voter
              \/ db[k].v \in AddsOfStake(p, d) /\ db[k].voter = d

\* The batch gets a default voter for key k.
DefaultAdded(k) ==
    /\ k \in DOMAIN batch'.rows /\ batch'.rows[k].table_handle = <<>>
    /\ k \in DOMAIN batch.rows => batch.rows[k] # batch'.rows[k]

\* An extractor makes a delegator his own voter only while none of his choices is in
\* the batch or in the table, also after a restart: a choice that a default can
\* override was not in the table yet but in a batch on its way to the storer.
DefaultSparesChoices ==
    [][processor = "stake" =>
         \A p \in Pools, d \in Delegators : LET k == VoterKey(p, d) IN
           DefaultAdded(k) =>
             \A c \in ChoicesOf(p, d) \ (errors \cup batch'.errors) : c < next_version' =>
                /\ k \notin DOMAIN db
                /\ \E i \in 1 .. Len(queue) : /\ k \in DOMAIN queue[i].rows
                                             /\ c <= queue[i].rows[k].v]_vars

\* A delegator's voter is the one he chose last, or himself by default where he added
\* stake and his choice was not in the table yet.
VoterChosenOrDefault == []VotersStored /\ DefaultSparesChoices

\* "be careful that we don't override the new data" (current_delegated_voter.rs:133):
\* a choice that was assigned to its pool is not replaced by a default.
NewDataNotOverridden ==
    processor = "stake" /\ Quiet =>
      \A p \in Pools, d \in Delegators : ChoicesOf(p, d) \ errors # {} =>
        LET k == VoterKey(p, d) IN k \in DOMAIN db /\ db[k].table_handle # <<>>
===============================================================================
