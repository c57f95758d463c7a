-------------------------------- MODULE MCTables --------------------------------
\* The processors whose tables depend on what is stored, remembered or in flight.
EXTENDS DataProcessors

\* The chains of n transactions, each one of the moves the ones before it allow.
Chains(Moves(_), n) ==
    LET H[i \in 0 .. n] ==
          IF i = 0 THEN {<<>>}
          ELSE UNION {{Append(h, t) : t \in Moves(h)} : h \in H[i - 1]}
    IN H[n]

\* A domain and its subdomain.
MCNames == {<<"d", "">>, <<"d", "s">>}

\* One of the secondary stores.
MCShortAddresses == {SecondaryStore(o, "c2") : o \in Accounts}

\* bound: the lengths of the chains
MCHistories(p) ==
    CASE p = "objects" -> Chains(ObjectsMoves, 4)
      [] p = "stake" -> Chains(StakeMoves, 4)
      [] p = "fungible_asset" -> Chains(FungibleAssetMoves, 3)
      [] p = "token_v2" -> Chains(NftMoves, 4) \cup Chains(V1Moves, 3)
      [] p = "ans" -> Chains(AnsMoves, 3)
      [] p = "account_restoration" -> Chains(AccountRestorationMoves, 3)

\* A deletion comes alone, and what is changed lives.
ASSUME ObjectsAssumption == \A h \in MCHistories("objects") : ObjectsHistory(h)

\* The contract writes a name's object and its extension together.
ASSUME AnsAssumption == \A h \in MCHistories("ans") : \A v \in DOMAIN h : AnsTransaction(h[v])

\* A transaction has one request and one write per account.
ASSUME KeyRestorationAssumption ==
    \A h \in MCHistories("account_restoration") : \A v \in DOMAIN h :
        KeyRestorationTransaction(h[v])

\* Statements commit together if no extractor looks anything up in more than one of
\* them, no two of them write one table, and no property relates what they write.
MCCommitGroup(s) ==
    CASE s \in {"current_objects", "current_delegator_balances", "current_delegated_voter",
                "cufab_v1", "cufab_v2", "fungible_asset_to_coin_mappings",
                "auth_key_account_addresses", "public_key_auth_keys"} -> s
      [] s \in {"current_token_datas_v2", "current_token_ownerships_v2"} -> "live"
      [] s \in {"current_deleted_token_datas_v2", "current_deleted_token_ownerships_v2"} -> "deleted"
      [] OTHER -> "others"

\* Two statements that commit together write different tables.
ASSUME CommitAssumption ==
    LET TableOf(s) == StorerTableKey(<<s, None, None>>)[1]
    IN \A p \in Processors : \A s, t \in StorerStatements(p) :
         MCCommitGroup(s) = MCCommitGroup(t) /\ TableOf(s) = TableOf(t) => s = t
=================================================================================
