--------------------------- MODULE ObjectsProcessor ---------------------------
(***************************************************************************)
(* The objects processor: tables objects (one row per change) and          *)
(* current_objects (the latest state of each object).                      *)
(*                                                                         *)
(* A transaction is the sequence of its write set changes at object        *)
(* addresses.  ObjectCore resources met in a batch stay known to the       *)
(* extractor until the end of the batch; a deletion carries no data, so    *)
(* the extractor takes the owner from the object's previous row, in the    *)
(* batch or in the database.                                               *)
(***************************************************************************)
EXTENDS TableState

CONSTANTS
    Objects,      \* object addresses
    Owners        \* account addresses

ObjectChange ==
    [type : {"ObjectCore"}, addr : Objects, owner : Owners, ungated : BOOLEAN]
    \cup [type : {"Untransferable", "WriteResource", "DeleteGroup"}, addr : Objects]

ObjectsTables == {"objects", "current_objects"}

\* object_metadata_helper: what the extractor knows of the objects of its batch.
ObjectsNewBatch == EmptyBatch(NoRows)

CoreOf(c, a) == c.type = "ObjectCore" /\ c.addr = a
DeletionOf(c, a) == c.type = "DeleteGroup" /\ c.addr = a

\* First pass: the last ObjectCore replaces all that was known of the object.
CollectCores(helper, txn) ==
    Over([a \in {txn[i].addr : i \in Items(txn, "ObjectCore")} |->
            LET core == LastIn(txn, LAMBDA c : CoreOf(c, a))
            IN [owner |-> core.owner, ungated |-> core.ungated, untransferable |-> FALSE]],
         helper)

\* Second pass: the other resources of a known object.
CollectUntransferable(helper, txn) ==
    [a \in DOMAIN helper |->
        IF \E i \in Items(txn, "Untransferable") : txn[i].addr = a
        THEN [helper[a] EXCEPT !.untransferable = TRUE] ELSE helper[a]]

\* Object::from_write_resource: the row of a known object.
ObjectRow(known, v) ==
    [v |-> v, owner |-> known.owner, is_deleted |-> FALSE,
     untransferrable |-> known.untransferable \/ ~known.ungated]

\* Object::from_delete_resource: the previous row, deleted at version v.
DeletedRow(previous, v) == [previous EXCEPT !.is_deleted = TRUE, !.v = v]

\* A row of both tables for the i-th change of version v.
PutObject(b, v, i, addr, row) ==
    [b EXCEPT !.rows = Put(Put(@, <<"objects", v, i>>, row),
                           <<"current_objects", addr>>, row)]

\* Mutant: a failed lookup is not logged.
SilentDeleteObject(b, v, i, addr, tables) ==
    LET k == <<"current_objects", addr>>
    IN IF k \in DOMAIN b.rows THEN PutObject(b, v, i, addr, DeletedRow(b.rows[k], v))
       ELSE IF k \in DOMAIN tables THEN PutObject(b, v, i, addr, DeletedRow(tables[k], v))
       ELSE b

\* Mutant: without a previous row nobody is shown as the owner.
PlaceholderDeleteObject(b, v, i, addr, tables) ==
    LET k == <<"current_objects", addr>>
        nobody == [v |-> v, owner |-> None, is_deleted |-> TRUE, untransferrable |-> FALSE]
    IN IF k \in DOMAIN b.rows THEN PutObject(b, v, i, addr, DeletedRow(b.rows[k], v))
       ELSE IF k \in DOMAIN tables THEN PutObject(b, v, i, addr, DeletedRow(tables[k], v))
       ELSE PutObject(b, v, i, addr, nobody)

\* The deletion of an object: its previous row comes from the batch, else from
\* get_current_object; without one the deletion is logged and dropped.
DeleteObject(b, v, i, addr, tables) ==
    LET k == <<"current_objects", addr>>
    IN IF k \in DOMAIN b.rows THEN PutObject(b, v, i, addr, DeletedRow(b.rows[k], v))
       ELSE IF k \in DOMAIN tables THEN PutObject(b, v, i, addr, DeletedRow(tables[k], v))
       ELSE [b EXCEPT !.errors = @ \cup {v}]

\* Third pass: a row for every change of a known object, deletions included.
ObjectsParse(batch0, txn, v, tables) ==
    LET helper == CollectUntransferable(CollectCores(batch0.aux, txn), txn)
        Step(b, i) ==
            LET c == txn[i]
            IN IF c.type = "DeleteGroup" THEN DeleteObject(b, v, i, c.addr, tables)
               ELSE IF c.addr \in DOMAIN helper
               THEN PutObject(b, v, i, c.addr, ObjectRow(helper[c.addr], v))
               ELSE b
    IN InOrder(Step, [batch0 EXCEPT !.aux = helper], txn)

\* insert_objects_query keeps the first row, insert_current_objects_query the
\* latest version.
ObjectsUpsert(k, old, new) ==
    IF k[1] = "objects" THEN old
    ELSE IF old.v <= new.v THEN new ELSE old
-------------------------------------------------------------------------------
(***************************************************************************)
(* The chain: an object is created, transferred, changed and deleted, and  *)
(* may be created again at the same address.                               *)
(***************************************************************************)
Lives(h, a) ==
    LET cores == {v \in DOMAIN h : \E i \in DOMAIN h[v] :
                    h[v][i].addr = a /\ h[v][i].type \in {"ObjectCore", "DeleteGroup"}}
    IN cores # {} /\ h[LastOf(cores)][1].type = "ObjectCore"

ObjectsMoves(h) ==
    UNION { IF Lives(h, a)
            THEN {<<[type |-> "WriteResource", addr |-> a]>>,
                  <<[type |-> "DeleteGroup", addr |-> a]>>}
                 \cup {<<[type |-> "ObjectCore", addr |-> a, owner |-> o, ungated |-> TRUE]>> :
                         o \in Owners}
            ELSE {<<[type |-> "ObjectCore", addr |-> a, owner |-> o, ungated |-> TRUE],
                    [type |-> "Untransferable", addr |-> a]>> : o \in Owners}
          : a \in Objects }

CoredAt(h, v, a) == \E i \in DOMAIN h[v] : CoreOf(h[v][i], a)
DeletedAt(h, v, a) == \E i \in DOMAIN h[v] : DeletionOf(h[v][i], a)

\* What the chain makes sure of: a transaction that deletes an object changes nothing
\* else at its address, and the resources of an object change only while it lives.
ObjectsHistory(h) ==
    \A v \in DOMAIN h : \A i \in DOMAIN h[v] :
        LET a == h[v][i].addr
        IN IF DeletedAt(h, v, a) THEN h[v][i].type = "DeleteGroup"
           ELSE \E w \in 1 .. v : /\ CoredAt(h, w, a)
                                  /\ \A x \in w .. v : ~DeletedAt(h, x, a)
-------------------------------------------------------------------------------
AnyChangeOf(c, a) == c.addr = a

\* Once all is stored, current_objects shows who owns each living object, and
\* shows an object deleted that the chain deleted, unless its previous row could
\* not be found, which is then logged: no deletion is lost silently, however the
\* transactions are cut into batches and replayed.
ObjectsFollowChain ==
    processor = "objects" /\ Quiet =>
      \A a \in Objects :
        LET created == LastOf(VersionsWith(LAMBDA c : CoreOf(c, a)))
            deleted == LastOf(VersionsWith(LAMBDA c : DeletionOf(c, a)))
            touched == LastOf(VersionsWith(LAMBDA c : AnyChangeOf(c, a)))
            k == <<"current_objects", a>>
        IN /\ created > deleted =>
                /\ k \in DOMAIN db
                /\ ~db[k].is_deleted
                /\ db[k].owner = LastIn(chain[created], LAMBDA c : CoreOf(c, a)).owner
                /\ db[k].v \in created .. touched
           /\ deleted > created /\ deleted \notin errors =>
                /\ k \in DOMAIN db
                /\ db[k].is_deleted /\ db[k].v = deleted

\* The owner shown for a deleted object is one the object had, although it may
\* be looked up before the last transfer is stored, or, in a replay, after a
\* later creation is.
DeletedOwnerIsReal ==
    processor = "objects" =>
      \A k \in DOMAIN db : k[1] = "current_objects" /\ db[k].is_deleted =>
         VersionsWith(LAMBDA c : CoreOf(c, k[2]) /\ c.owner = db[k].owner) # {}

\* current_objects shows each object as the chain left it, with an owner it had.
ObjectTablesCorrect == ObjectsFollowChain /\ DeletedOwnerIsReal
===============================================================================
