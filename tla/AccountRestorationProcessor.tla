--------------------- MODULE AccountRestorationProcessor ---------------------
(***************************************************************************)
(* The account restoration processor: which authentication key an account  *)
(* has, and which public keys a multi-key authentication key is made of.   *)
(* A wallet uses the tables to find the accounts of a key.                 *)
(*                                                                         *)
(* Both come from transactions: the Account resource of the sender, his    *)
(* signature if it is of several keys, and the event of a rotation to a    *)
(* public key.                                                             *)
(***************************************************************************)
EXTENDS TableState, SequencesExt

CONSTANTS
    Senders,      \* account addresses; the first authentication key is the address
    Delegates,    \* accounts with a rotation capability of the others
    PublicKeys    \* public keys

\* Entry functions: ROTATE_AUTH_KEY_ENTRY_FUNCTIONS,
\* ROTATE_AUTH_KEY_UNVERIFIED_ENTRY_FUNCTIONS, anything else.
EntryFunctions == {"rotate_verified", "rotate_unverified", "other"}

\* The authentication keys of PublicKeys in both schemes, of more keys and of longer
\* keys than are supported, and of one key; that of a new account is its address.
Multi == "multi_key"
MultiEd == "multi_ed25519"
TooMany == "too_many"
TooLong == "too_long"
Single == "single"

\* A transaction is a request and what it changed.  A signature of several keys,
\* and a rotation event, list them with whether each one signed; few is whether the
\* list has at most 16 keys, short whether it keeps to 13000 characters.
KeyList == Seq([key : PublicKeys, used : BOOLEAN])

Signature ==
    [scheme : {Multi, MultiEd, "ed25519"}, few : BOOLEAN, short : BOOLEAN, keys : KeyList]

KeyRestorationChange ==
    [type : {"Request"}, sender : Senders \cup Delegates, function : EntryFunctions,
     success : BOOLEAN, signature : Signature]
    \cup [type : {"Account"}, address : Senders \cup Delegates,
          auth_key : Senders \cup Delegates \cup {Multi, MultiEd, TooMany, TooLong, Single}]
    \cup [type : {"KeyRotationToPublicKey"}, scheme : {Multi, MultiEd, "ed25519"},
          short : BOOLEAN, keys : KeyList]

Request(txn) == txn[CHOOSE i \in Items(txn, "Request") : TRUE]

AccountRestorationTables == {"auth_key_account_addresses", "public_key_auth_keys"}

AccountRestorationNewBatch == EmptyBatch(NoRows)

NoKeys == <<>>

\* get_multi_key_from_signature: signatures of one key have no helper.
KeysOfSignature(request) ==
    LET signature == request.signature
    IN IF \/ signature.scheme = "multi_ed25519"
          \/ signature.scheme = "multi_key" /\ signature.few /\ signature.short
       THEN signature.keys ELSE NoKeys

\* The bytes after the last key: the number of signatures required.
Threshold == "threshold"

\* create_helper_from_key_rotation_event: a multi-ed25519 key is cut into pieces
\* of 32 bytes, the last of which is the threshold; of a multi-key only the length is
\* limited.
KeysOfRotation(event) ==
    CASE event.scheme = "multi_ed25519" -> Append(event.keys, [key |-> Threshold, used |-> FALSE])
      [] event.scheme = "multi_key" /\ event.short -> event.keys
      [] OTHER -> NoKeys

\* Mutant: only rotations and multi-key signatures are recorded.
RotationQualifies(request, rotated, auth_key) ==
    request.function = "rotate_verified" \/ KeysOfSignature(request) # NoKeys \/ rotated

\* A key that deserves a row: just rotated, other than the address, of several keys.
Qualifies(request, rotated, auth_key) ==
    \/ request.function = "rotate_verified"
    \/ auth_key # request.sender
    \/ KeysOfSignature(request) # NoKeys
    \/ rotated

\* The sender's Account resource, if its key deserves a row.
KeyChanges(txn) ==
    LET request == Request(txn)
        rotated == Items(txn, "KeyRotationToPublicKey") # {}
    IN {i \in Items(txn, "Account") :
          /\ txn[i].address = request.sender
          /\ \/ request.function = "rotate_unverified"
             \/ Qualifies(request, rotated, txn[i].auth_key)}

AuthKeyOf(txn) == txn[LastOf(KeyChanges(txn))].auth_key

\* The key of a rotation without proof is not known to be used.
AuthKeyRow(txn, v) ==
    [k \in {<<"auth_key_account_addresses", txn[i].address>> : i \in KeyChanges(txn)} |->
       [v |-> v, auth_key |-> AuthKeyOf(txn),
        is_auth_key_used |-> Request(txn).function # "rotate_unverified"]]

\* The keys of a rotation event replace those of the signature.
KeysOf(txn) ==
    LET events == Items(txn, "KeyRotationToPublicKey")
    IN IF events = {} THEN KeysOfSignature(Request(txn))
       ELSE KeysOfRotation(txn[CHOOSE i \in events : \A j \in events : i <= j])

\* Mutant: of two entries of a key the unused one is kept.
UnusedFirst(keys, key) == \A i \in DOMAIN keys : keys[i].key = key => keys[i].used

\* dedup_by after the sort: of two entries of a key in one version the used one is
\* kept.
UsedFirst(keys, key) == \E i \in DOMAIN keys : keys[i].key = key /\ keys[i].used

\* get_public_key_auth_keys.  Rows of two versions stay two rows of the batch.
PublicKeyRows(txn, v, auth_key) ==
    LET keys == KeysOf(txn)
        pk(key) == <<"public_key_auth_keys", auth_key, key, v>>
    IN [k \in {pk(keys[i].key) : i \in DOMAIN keys} |->
          [v |-> v, is_public_key_used |-> UsedFirst(keys, k[3])]]

\* The rows of one transaction; failed ones leave nothing.
KeyRows(txn, v) ==
    IF ~Request(txn).success \/ KeyChanges(txn) = {} THEN NoRows
    ELSE Over(AuthKeyRow(txn, v), PublicKeyRows(txn, v, AuthKeyOf(txn)))

\* One transaction of parse_account_restoration_models.
AccountRestorationParse(b, txn, v, tables) ==
    [b EXCEPT !.rows = Over(KeyRows(txn, v), @)]

\* The conflict target of public_key_auth_keys has no version.
AccountRestorationTableKey(k) ==
    IF k[1] = "public_key_auth_keys" THEN <<k[1], k[2], k[3]>> ELSE k

\* Mutant: the flag is overwritten.
UpsertLatest(k, old, new) == IF old.v <= new.v THEN new ELSE old

\* insert_auth_key_account_addresses_query, insert_public_key_auth_keys_query: a key
\* once used stays used.
AccountRestorationUpsert(k, old, new) ==
    IF ~(old.v <= new.v) THEN old
    ELSE IF k[1] = "public_key_auth_keys"
    THEN [new EXCEPT !.is_public_key_used = old.is_public_key_used \/ @]
    ELSE new
-------------------------------------------------------------------------------
(***************************************************************************)
(* The chain: an account sends with its key, of whatever kind it is, and   *)
(* rotates it, with and without proof that it owns the new one, itself or  *)
(* through somebody it gave the capability to.                             *)
(***************************************************************************)
\* A transaction has one request, and writes an account at most once.
KeyRestorationTransaction(txn) ==
    /\ txn \in Seq(KeyRestorationChange)
    /\ \E i \in DOMAIN txn : Items(txn, "Request") = {i}
    /\ \A i, j \in Items(txn, "Account") : txn[i].address = txn[j].address => i = j

AuthKeyIn(h, a) ==
    LET vs == {v \in DOMAIN h : \E i \in Items(h[v], "Account") : h[v][i].address = a}
    IN IF vs = {} THEN a
       ELSE LastIn(h[LastOf(vs)], LAMBDA c : c.type = "Account" /\ c.address = a).auth_key

\* One of the keys signs, or none; one is listed once more, without a signature.
MultiKeys(signer) ==
    LET Flag(k) == [key |-> k, used |-> k = signer]
    IN SetToSeq({Flag(k) : k \in PublicKeys}) \o <<[key |-> CHOOSE k \in PublicKeys : TRUE, used |-> FALSE]>>

SignatureOf(h, a, signer) ==
    LET auth_key == AuthKeyIn(h, a)
    IN [scheme |-> IF auth_key \in {Multi, TooMany, TooLong} THEN Multi
                   ELSE IF auth_key = MultiEd THEN MultiEd ELSE "ed25519",
        few |-> auth_key # TooMany, short |-> auth_key # TooLong,
        keys |-> IF auth_key \in {Multi, MultiEd, TooMany, TooLong} THEN MultiKeys(signer)
                 ELSE NoKeys]

RestorationTxn(h, a, signer, function, success, address, auth_key, events) ==
    <<[type |-> "Request", sender |-> a, function |-> function, success |-> success,
       signature |-> SignatureOf(h, a, signer)]>>
    \o events
    \o <<[type |-> "Account", address |-> address, auth_key |-> auth_key]>>

RotationTo(scheme, short, keys) ==
    <<[type |-> "KeyRotationToPublicKey", scheme |-> scheme, short |-> short, keys |-> keys]>>

AccountRestorationMoves(h) ==
    UNION { LET signer == CHOOSE k \in PublicKeys : TRUE
                old == AuthKeyIn(h, a)
                Txn(function, auth_key, events) ==
                  RestorationTxn(h, a, signer, function, TRUE, a, auth_key, events)
            IN {RestorationTxn(h, a, signer, "rotate_unverified", FALSE, a, old, <<>>),
                Txn("other", old, <<>>),
                Txn("rotate_unverified", Single, <<>>),
                Txn("rotate_unverified", Multi, RotationTo(Multi, TRUE, MultiKeys("nobody"))),
                Txn("rotate_unverified", MultiEd, RotationTo(MultiEd, TRUE, MultiKeys("nobody"))),
                Txn("rotate_unverified", TooMany, RotationTo(Multi, TRUE, MultiKeys("nobody"))),
                Txn("rotate_unverified", TooLong, RotationTo(Multi, FALSE, MultiKeys("nobody"))),
                Txn("rotate_verified", Multi, RotationTo(Multi, TRUE, MultiKeys(signer))),
                Txn("rotate_verified", a, RotationTo("ed25519", TRUE, NoKeys))}
               \* rotate_authentication_key_with_rotation_capability
               \cup {RestorationTxn(h, d, signer, "rotate_verified", TRUE, a, Single, <<>>)
                     : d \in Delegates}
          : a \in Senders }
-------------------------------------------------------------------------------
Sent(a, txn) == Request(txn).sender = a /\ Request(txn).success

\* Once all is stored, an account whose authentication key is not its address is
\* found under the key its own last transaction left it with, marked as used
\* unless that transaction gave it a key without proof.
AccountKeyFollowsChain ==
    processor = "account_restoration" /\ Quiet =>
      \A a \in Senders :
        LET Own(c) == c.type = "Account" /\ c.address = a
            v == LastOf({w \in VersionsWith(Own) : Sent(a, chain[w])})
            k == <<"auth_key_account_addresses", a>>
        IN v # 0 =>
             LET auth_key == LastIn(chain[v], Own).auth_key
             IN /\ auth_key # a => k \in DOMAIN db /\ db[k].v = v
                /\ k \in DOMAIN db =>
                     /\ db[k].v = v => db[k].auth_key = auth_key
                     /\ db[k].is_auth_key_used =
                          (Request(chain[db[k].v]).function # "rotate_unverified")

\* Who signed once is known to hold his key: is_public_key_used never falls back,
\* whatever is replayed or signed without that key later.
KeyStaysUsed ==
    [][\A k \in DOMAIN db : "is_public_key_used" \in DOMAIN db[k] /\ db[k].is_public_key_used
                              => db'[k].is_public_key_used]_vars

\* Once all is stored, a key is marked as used exactly if it signed some stored
\* transaction or was verified in a rotation, also if the list names it twice.
UsedIffSigned ==
    processor = "account_restoration" /\ Quiet =>
      \A k \in DOMAIN db : k[1] = "public_key_auth_keys" =>
        db[k].is_public_key_used =
          \E v \in 1 .. db[k].v :
            /\ Request(chain[v]).success
            /\ \E i \in Items(chain[v], "Account") :
                 /\ chain[v][i].address = Request(chain[v]).sender
                 /\ chain[v][i].auth_key = k[2]
            /\ \E i \in DOMAIN KeysOf(chain[v]) : KeysOf(chain[v])[i] = [key |-> k[3], used |-> TRUE]

\* An account is found under its key, and a key under its signatures.
KeyTablesCorrect == AccountKeyFollowsChain /\ UsedIffSigned
===============================================================================
