----------------------------- MODULE AnsProcessor -----------------------------
(***************************************************************************)
(* The ANS processor: who a name points to, and which name is an account's *)
(* primary one, for names of the old contract (table items) and of the new *)
(* one (objects and events).                                               *)
(*                                                                         *)
(* A name is <<domain, subdomain>>, with "" for the domain itself.  The    *)
(* object of a v2 name holds a NameRecord that knows the domain only; a    *)
(* subdomain's object also holds a SubdomainExt.                           *)
(***************************************************************************)
EXTENDS TableState

CONSTANTS
    Names,        \* the names on the chain
    Registrants   \* the addresses names point to

ASSUME NamesAssumption == \A n \in Names : n = <<n[1], n[2]>>

\* The reverse lookup of nobody's name.
NoName == <<"", "">>

\* A transaction is a sequence of these.  The object of a name stands for its address.
AnsChange ==
    [type : {"NameRecordV1"}, name : Names, target : Registrants \cup {None}]
    \cup [type : {"PrimaryNameV1"}, addr : Registrants, name : Names]
    \cup [type : {"DeleteNameRecordV1", "RenewNameEvent"}, name : Names]
    \cup [type : {"DeletePrimaryNameV1"}, addr : Registrants]
    \cup [type : {"NameRecordV2"}, object : Names, domain : {n[1] : n \in Names},
          target : Registrants \cup {None}]
    \cup [type : {"SubdomainExtV2"}, object : Names, subdomain : {n[2] : n \in Names}, policy : Nat]
    \cup [type : {"SetReverseLookupEvent"}, addr : Registrants, name : Names \cup {NoName}]

AnsTables == {"current_ans_lookup_v2", "current_ans_primary_name_v2"}

AnsNewBatch == EmptyBatch(NoRows)

\* CurrentAnsLookupV2::pk
LookupKey(domain, subdomain, standard) ==
    <<"current_ans_lookup_v2", domain, subdomain, standard>>

PrimaryKey(addr, standard) == <<"current_ans_primary_name_v2", addr, standard>>

PutPrimary(b, v, addr, standard, name) ==
    [b EXCEPT !.rows = Put(@, PrimaryKey(addr, standard),
                           [v |-> v, name |-> name, is_deleted |-> name = NoName])]

\* Mutant: an address without a name keeps its row.
PrimaryOfNamed(b, v, e) ==
    IF e.type # "SetReverseLookupEvent" \/ e.name = NoName THEN b
    ELSE PutPrimary(b, v, e.addr, "v2", e.name)

\* parse_v2_primary_name_record_from_event: a lookup set to no name is a deletion.
\* RenewNameEvent is read and leaves no row.
PrimaryFromEvent(b, v, e) ==
    IF e.type # "SetReverseLookupEvent" THEN b
    ELSE PutPrimary(b, v, e.addr, "v2", e.name)

\* parse_name_record_from_write_table_item_v1, ..._from_delete_table_item_v1
LookupFromTableItem(b, v, c) ==
    [b EXCEPT !.rows = Put(@, LookupKey(c.name[1], c.name[2], "v1"),
       IF c.type = "NameRecordV1"
       THEN [v |-> v, target |-> c.target, is_deleted |-> FALSE, policy |-> None]
       ELSE [v |-> v, target |-> None, is_deleted |-> TRUE, policy |-> None])]

\* parse_primary_name_record_from_write_table_item_v1, ..._from_delete_table_item_v1
PrimaryFromTableItem(b, v, c) ==
    PutPrimary(b, v, c.addr, "v1", IF c.type = "PrimaryNameV1" THEN c.name ELSE NoName)

\* The SubdomainExt of an object, wherever it is in the transaction.
ExtsOf(txn, object) ==
    {i \in Items(txn, "SubdomainExtV2") : txn[i].object = object}

ExtOf(txn, object) ==
    IF ExtsOf(txn, object) = {} THEN [subdomain |-> "", policy |-> None]
    ELSE txn[CHOOSE j \in ExtsOf(txn, object) : TRUE]

\* Mutant: only an extension written before the record is known.
LookupFromEarlierExt(b, v, txn, i) ==
    LET c == txn[i]
        exts == {j \in ExtsOf(txn, c.object) : j < i}
        ext == IF exts = {} THEN [subdomain |-> "", policy |-> None]
               ELSE txn[CHOOSE j \in exts : TRUE]
    IN [b EXCEPT !.rows = Put(@, LookupKey(c.domain, ext.subdomain, "v2"),
          [v |-> v, target |-> c.target, is_deleted |-> FALSE, policy |-> ext.policy])]

\* parse_name_record_from_write_resource_v2
LookupFromResource(b, v, txn, i) ==
    LET c == txn[i]
        ext == ExtOf(txn, c.object)
    IN [b EXCEPT !.rows = Put(@, LookupKey(c.domain, ext.subdomain, "v2"),
          [v |-> v, target |-> c.target, is_deleted |-> FALSE, policy |-> ext.policy])]

\* One change of a transaction.
RowsFromChange(b, v, txn, i) ==
    CASE txn[i].type \in {"NameRecordV1", "DeleteNameRecordV1"} -> LookupFromTableItem(b, v, txn[i])
      [] txn[i].type \in {"PrimaryNameV1", "DeletePrimaryNameV1"} -> PrimaryFromTableItem(b, v, txn[i])
      [] txn[i].type = "NameRecordV2" -> LookupFromResource(b, v, txn, i)
      [] OTHER -> b

\* One transaction of parse_ans: its events, then its changes in order.
AnsParse(b, txn, v, tables) ==
    LET Event(x, i) == PrimaryFromEvent(x, v, txn[i])
        Change(x, i) == RowsFromChange(x, v, txn, i)
    IN InOrder(Change, InOrder(Event, b, txn), txn)

\* insert_current_ans_lookups_v2_query, insert_current_ans_primary_names_v2_query
AnsUpsert(k, old, new) == IF old.v <= new.v THEN new ELSE old
-------------------------------------------------------------------------------
(***************************************************************************)
(* The chain: names of the old contract are set, cleared and migrated to   *)
(* the new one, where they can be pointed elsewhere and renewed; accounts  *)
(* choose and clear their primary name.                                    *)
(***************************************************************************)
Migrated(h, n) ==
    \E v \in DOMAIN h : \E i \in Items(h[v], "NameRecordV2") : h[v][i].object = n

\* The resources of a name's object, in either order.
RecordV2(n, a) ==
    LET record == [type |-> "NameRecordV2", object |-> n, domain |-> n[1], target |-> a]
        ext == [type |-> "SubdomainExtV2", object |-> n, subdomain |-> n[2], policy |-> 1]
    IN IF n[2] = "" THEN {<<record>>} ELSE {<<record, ext>>, <<ext, record>>}

\* The resources of a name's object come together: the record has its domain, and
\* there is an extension with its subdomain exactly if the name has one.
AnsTransaction(txn) ==
    /\ txn \in Seq(AnsChange)
    /\ \A i \in Items(txn, "NameRecordV2") :
          LET n == txn[i].object
          IN txn[i].domain = n[1] /\ (ExtsOf(txn, n) = {}) = (n[2] = "")
    /\ \A i \in Items(txn, "SubdomainExtV2") : txn[i].subdomain = txn[i].object[2]

AnsMoves(h) ==
    UNION { LET old == {<<[type |-> "NameRecordV1", name |-> n, target |-> None]>>,
                        <<[type |-> "NameRecordV1", name |-> n, target |-> a],
                          [type |-> "PrimaryNameV1", addr |-> a, name |-> n]>>,
                        <<[type |-> "DeleteNameRecordV1", name |-> n],
                          [type |-> "DeletePrimaryNameV1", addr |-> a]>>}
                \* migration: the old record goes, the new one comes
                migration == {<<[type |-> "DeleteNameRecordV1", name |-> n],
                                [type |-> "SetReverseLookupEvent", addr |-> a, name |-> n]>> \o r
                              : r \in RecordV2(n, a)}
                \* renewed with another target, by an owner who drops it as primary name
                new == {<<[type |-> "RenewNameEvent", name |-> n],
                          [type |-> "SetReverseLookupEvent", addr |-> a, name |-> NoName]>> \o r
                        : r \in RecordV2(n, None)}
            IN IF Migrated(h, n) THEN new ELSE old \cup migration
          : n \in Names, a \in Registrants }
-------------------------------------------------------------------------------
\* Once all is stored, each name of either contract points where the last record
\* the chain has of it does: a subdomain's record is never taken for its domain's,
\* and a migration deletes the old name without touching the new one.
NamesFollowChain ==
    processor = "ans" /\ Quiet =>
      \A n \in Names :
        LET Old(c) == c.type \in {"NameRecordV1", "DeleteNameRecordV1"} /\ c.name = n
            New(c) == c.type = "NameRecordV2" /\ c.object = n
            v1 == LastOf(VersionsWith(Old))
            v2 == LastOf(VersionsWith(New))
            k1 == LookupKey(n[1], n[2], "v1")
            k2 == LookupKey(n[1], n[2], "v2")
        IN /\ (k1 \in DOMAIN db) = (v1 # 0)
           /\ v1 # 0 => LET c == LastIn(chain[v1], Old)
                        IN IF c.type = "NameRecordV1"
                           THEN ~db[k1].is_deleted /\ db[k1].target = c.target
                           ELSE db[k1].is_deleted /\ db[k1].target = None
           /\ (k2 \in DOMAIN db) = (v2 # 0)
           /\ v2 # 0 => /\ ~db[k2].is_deleted /\ db[k2].target = LastIn(chain[v2], New).target
                        /\ (db[k2].policy = None) = (n[2] = "")

\* Once all is stored, an account's primary name under each contract is the one it
\* set last, and deleted if it dropped it.
PrimaryNamesFollowChain ==
    processor = "ans" /\ Quiet =>
      \A a \in Registrants, standard \in {"v1", "v2"} :
        LET Set(c) == /\ c.type \in (IF standard = "v1" THEN {"PrimaryNameV1", "DeletePrimaryNameV1"}
                                     ELSE {"SetReverseLookupEvent"})
                      /\ c.addr = a
            v == LastOf(VersionsWith(Set))
        IN v # 0 =>
             LET c == LastIn(chain[v], Set)
                 name == IF "name" \in DOMAIN c THEN c.name ELSE NoName
                 k == PrimaryKey(a, standard)
             IN /\ k \in DOMAIN db
                /\ db[k].name = name
                /\ db[k].is_deleted = (name = NoName)

\* Both directions of the name service follow the chain: from a name to its target
\* and from an account to its primary name.
NameTablesCorrect == NamesFollowChain /\ PrimaryNamesFollowChain
===============================================================================
