----------------------------- MODULE EvmSources ------------------------------
(***************************************************************************)
(* The address reputation processor's books: the transfer edges and bridge *)
(* inflows its extractor reads out of the events of a transaction, the     *)
(* rollup address_evm_sources that its storer keeps in the same database   *)
(* transaction, and the LayerZero enricher, which resolves the GUID of an  *)
(* inflow to its EVM sender later on and adds the seed to the rollup.      *)
(*                                                                         *)
(*   stream -> extractor -> storer -> version tracker                      *)
(*                            | guid channel                               *)
(*                            v                                            *)
(*                        EnricherLoop: LZ Scan API -> write_evm           *)
(*                                                                         *)
(* The stages in front of the storer keep nothing between batches, and     *)
(* PostgresProcessor models the channels around it; here a batch is stored *)
(* whole and handed to the tracker.  The screening of the EVM addresses    *)
(* is the subject of EvmScreening.  transfer_fund, a decayed share of an   *)
(* amount, decides nothing and is left out; which rows a transfer reaches  *)
(* is not.                                                                 *)
(***************************************************************************)
EXTENDS Integers, Sequences, FiniteSets, FiniteSetsExt, SequencesExt, Bags, TLC

CONSTANTS
    None,            \* no value, no row
    Events,          \* Events[v]: the events of transaction v, in order
    Addresses,       \* owners of fungible stores, bridge modules included
    Assets,
    Evms,            \* EVM addresses
    Sentinel,        \* EVM_NULL_SENTINEL
    LzSender,        \* LzSender[g]: the EVM sender LayerZero knows for GUID g
    BridgeModule,    \* module_address of the bridge
    propagate_evm_sources,
    MaxRetries,      \* MAX_RETRIES of the enricher loop
    MaxBatch,        \* bound: transactions per batch
    MaxStarts        \* bound: process starts

\* The checkpoint rules; this processor runs in the default mode.
Status == INSTANCE ProcessorStatus WITH BackfillIds <- {}
DefaultMode == [type |-> "default", initial_starting_version |-> 1]

MaxVersion == Len(Events)
Versions == 1 .. MaxVersion
Guids == DOMAIN LzSender
EventKinds == {"bridge", "withdraw", "deposit"}
Event == [kind : EventKinds, address : Addresses, asset : Assets \cup {None},
          amount : Nat, evm : Evms \cup {None}, guid : Guids \cup {None}]

\* Rows of bridge_inflows and address_evm_sources.
InflowRow == [version : Nat, event_index : Nat, aptos_recipient : Addresses,
              evm_source : Evms \cup {None, Sentinel}, asset_type : Assets \cup {None},
              amount : Nat, lz_guid : Guids \cup {None}]
SourceRow == [evm_fund : Nat, first_seen_ord : Nat \X Nat, last_seen_ord : Nat \X Nat,
              hops_min : Nat]

ASSUME EvmSourcesAssumption ==
    /\ Events \in Seq(Seq(Event))
    /\ LzSender \in [Guids -> Evms] /\ Sentinel \notin Evms
    /\ BridgeModule \in Addresses /\ propagate_evm_sources \in BOOLEAN
    /\ MaxRetries \in Nat \ {0} /\ MaxBatch \in Nat \ {0} /\ MaxStarts \in Nat
    /\ None \notin Addresses \cup Assets \cup Evms \cup Guids \cup {Sentinel}
    /\ None \notin Int /\ None \notin InflowRow /\ None \notin SourceRow

VARIABLES
    address_transfer_edges,  \* the stored edges
    bridge_inflows,          \* <<version, event_index>> -> row or None
    address_evm_sources,     \* <<address, asset, evm>> -> row or None
    processor_status,        \* last_success_version, or None
    running,                 \* whether the process is up
    starts,                  \* how often it was started
    next_version,            \* the first version of the storer's next batch
    storing,                 \* end_version of the committed batch whose GUIDs
                             \* are being forwarded, or None
    pending_guids,           \* its GUIDs not forwarded yet
    last_success_batch,      \* end_version of the tracker's last batch, or None
    loading,                 \* the enricher has not run load_pending_guids yet
    guid_queue,              \* GUIDs in the channel and in the loop's queue
    futures,                 \* the guid_futures in flight, a bag
    abandoned                \* GUIDs this process gave up on, with a log line

tables   == <<address_transfer_edges, bridge_inflows, address_evm_sources>>
pipeline == <<processor_status, next_version, storing, pending_guids, last_success_batch>>
enricher == <<loading, guid_queue, futures, abandoned>>
vars == <<tables, pipeline, enricher, running, starts>>

Sources == Addresses \X Assets \X Evms
IndicesOf(v, kind) == {i \in DOMAIN Events[v] : Events[v][i].kind = kind}
InflowKeys == UNION {{v} \X IndicesOf(v, "bridge") : v \in Versions}

\* A finite set of numbers as an increasing sequence.
InOrder(S) ==
    CHOOSE s \in [1 .. Cardinality(S) -> S] :
        \A i, j \in 1 .. Cardinality(S) : i < j => s[i] < s[j]
------------------------------------------------------------------------------
(***************************************************************************)
(* AddressReputationExtractor::process, one transaction.                   *)
(***************************************************************************)
\* The withdraw w takes the first deposit of its amount that is still free.
MatchWithdraw(v, pairs, w) ==
    LET ev == Events[v]
        free == {d \in IndicesOf(v, "deposit") \ Range(pairs) :
                    ev[d].amount = ev[w].amount /\ ev[d].address # ev[w].address}
    IN IF free = {} THEN pairs
       ELSE [i \in DOMAIN pairs \cup {w} |-> IF i = w THEN Min(free) ELSE pairs[i]]

\* Greedy first match of withdraws to deposits: a function from the paired
\* withdraws to their deposits, in the order of the events.
Pairs(v) ==
    LET after[n \in 0 .. Len(Events[v])] ==
            IF n = 0 THEN [i \in {} |-> 0]
            ELSE IF n \in IndicesOf(v, "withdraw") THEN MatchWithdraw(v, after[n - 1], n)
            ELSE after[n - 1]
    IN after[Len(Events[v])]

\* The asset of an inflow: that of the first deposit that delivered it.
InflowAsset(v, i) ==
    LET ev == Events[v]
        delivered == {d \in IndicesOf(v, "deposit") :
                        /\ ev[d].address = ev[i].address /\ ev[d].amount = ev[i].amount
                        /\ ev[d].asset # None}
    IN IF delivered = {} THEN None ELSE ev[Min(delivered)].asset

Inflow(v, i) ==
    LET e == Events[v][i] IN
    [version |-> v, event_index |-> i, aptos_recipient |-> e.address,
     evm_source |-> e.evm, asset_type |-> InflowAsset(v, i), amount |-> e.amount,
     lz_guid |-> e.guid]

\* The inflows of each transaction, in event order.
Inflows ==
    [v \in Versions |->
        LET idx == InOrder(IndicesOf(v, "bridge"))
        IN [n \in DOMAIN idx |-> Inflow(v, idx[n])]]

\* An edge per paired transfer, a bridge inflow if one matches the recipient
\* and the amount, and a head edge per bridge inflow.
EdgesOf(v) ==
    LET ev == Events[v]
        pairs == Pairs(v)
        edge(i, from, to, asset, bridge) ==
            [version |-> v, event_index |-> i, from_address |-> from, to_address |-> to,
             asset_type |-> asset, amount |-> ev[i].amount, is_bridge_inflow |-> bridge]
    IN {edge(w, ev[w].address, ev[pairs[w]].address,
             IF ev[w].asset # None THEN ev[w].asset ELSE ev[pairs[w]].asset,
             \E i \in IndicesOf(v, "bridge") :
                /\ ev[i].address = ev[pairs[w]].address
                /\ ev[i].amount = ev[pairs[w]].amount) : w \in DOMAIN pairs}
       \cup
       {edge(i, BridgeModule, ev[i].address, InflowAsset(v, i), TRUE) :
            i \in IndicesOf(v, "bridge")}
------------------------------------------------------------------------------
(***************************************************************************)
(* AddressReputationStorer: the rollup of a batch.                         *)
(***************************************************************************)
seen_ord(version, event_index) == <<version, event_index>>
Before(o, p) == o[1] < p[1] \/ (o[1] = p[1] /\ o[2] < p[2])
Earliest(o, p) == IF Before(p, o) THEN p ELSE o
Latest(o, p) == IF Before(o, p) THEN p ELSE o

\* Mutant: keeps the hop count of an earlier transfer.
SeedKeepingHops(row, amount, ord) ==
    IF row = None
    THEN [evm_fund |-> amount, first_seen_ord |-> ord, last_seen_ord |-> ord, hops_min |-> 0]
    ELSE [evm_fund |-> row.evm_fund + amount,
          first_seen_ord |-> Earliest(row.first_seen_ord, ord),
          last_seen_ord |-> Latest(row.last_seen_ord, ord), hops_min |-> row.hops_min]

\* upsert_bridge_seed on one row.
BridgeSeed(row, amount, ord) ==
    IF row = None
    THEN [evm_fund |-> amount, first_seen_ord |-> ord, last_seen_ord |-> ord, hops_min |-> 0]
    ELSE [evm_fund |-> row.evm_fund + amount,
          first_seen_ord |-> Earliest(row.first_seen_ord, ord),
          last_seen_ord |-> Latest(row.last_seen_ord, ord), hops_min |-> 0]

\* One row of propagate_evm_sources' upsert.
TransferShare(row, hops, ord) ==
    IF row = None
    THEN [evm_fund |-> 0, first_seen_ord |-> ord, last_seen_ord |-> ord, hops_min |-> hops]
    ELSE [evm_fund |-> row.evm_fund,
          first_seen_ord |-> Earliest(row.first_seen_ord, ord),
          last_seen_ord |-> Latest(row.last_seen_ord, ord),
          hops_min |-> Min({row.hops_min, hops})]

\* Mutant: the receiver is as far from the source as the sender.
HopsUnchanged(row) == row.hops_min

\* The receiver's distance from a source of the sender's.
Hops(row) == row.hops_min + 1

\* Every source of the sender reaches the receiver, one hop further, when the
\* sender's evm_fund adds up to more than nothing.
PropagateEvmSources(aes, edge) ==
    LET from(e) == aes[<<edge.from_address, edge.asset_type, e>>]
        src == {e \in Evms : from(e) # None}
        ord == seen_ord(edge.version, edge.event_index)
    IN IF \A e \in src : from(e).evm_fund = 0 THEN aes
       ELSE [k \in Sources |->
               IF k[1] = edge.to_address /\ k[2] = edge.asset_type /\ k[3] \in src
               THEN TransferShare(aes[k], Hops(from(k[3])), ord) ELSE aes[k]]

\* The EVM source of a bridge edge: that of the first inflow that matches.
EvmOf(edge, inflows) ==
    LET found == {n \in DOMAIN inflows :
                    /\ inflows[n].version = edge.version
                    /\ inflows[n].aptos_recipient = edge.to_address
                    /\ inflows[n].amount = edge.amount}
    IN IF found = {} THEN None ELSE inflows[Min(found)].evm_source

\* One iteration of the storer's loop over the edges.
ApplyEdge(aes, edge, inflows) ==
    LET evm == EvmOf(edge, inflows)
        key == <<edge.to_address, edge.asset_type, evm>>
    IN CASE edge.asset_type = None -> aes
         [] edge.asset_type # None /\ edge.is_bridge_inflow ->
              IF evm = None THEN aes
              ELSE [aes EXCEPT ![key] = BridgeSeed(@, edge.amount,
                                           seen_ord(edge.version, edge.event_index))]
         [] edge.asset_type # None /\ ~edge.is_bridge_inflow -> PropagateEvmSources(aes, edge)

\* Mutant: in the order the extractor lists them, transfers before inflows.
EdgesUnsorted ==
    [v \in Versions |->
        LET idx == SetToSortSeq({e.event_index : e \in EdgesOf(v)}, LAMBDA i, j :
                LET late(n) == Events[v][n].kind = "bridge"
                IN (~late(i) /\ late(j)) \/ (late(i) = late(j) /\ i < j))
        IN [n \in DOMAIN idx |-> CHOOSE e \in EdgesOf(v) : e.event_index = idx[n]]]

\* The edges of each transaction by event_index, of which there is one each:
\* appended in the order of the versions they are the sorted edges of a batch.
SortedEdges ==
    [v \in Versions |->
        LET idx == InOrder({e.event_index : e \in EdgesOf(v)})
        IN [n \in DOMAIN idx |-> CHOOSE e \in EdgesOf(v) : e.event_index = idx[n]]]

\* What a batch of the versions s..e carries, as the extractor hands it on.
Batched(table) ==
    [s \in Versions |-> [e \in Versions |->
        FlattenSeq([n \in 1 .. (e - s + 1) |-> table[s + n - 1]])]]
BatchEdges == Batched(SortedEdges)
BatchInflows == Batched(Inflows)

\* The loop over the sorted edges of a batch.
RolledUp(aes, edges, inflows) ==
    LET after[n \in 0 .. Len(edges)] ==
            IF n = 0 THEN aes ELSE ApplyEdge(after[n - 1], edges[n], inflows)
    IN IF propagate_evm_sources THEN after[Len(edges)] ELSE aes
------------------------------------------------------------------------------
Init ==
    /\ address_transfer_edges = {}
    /\ bridge_inflows = [k \in InflowKeys |-> None]
    /\ address_evm_sources = [k \in Sources |-> None]
    /\ processor_status = None
    /\ running = FALSE /\ starts = 0
    /\ next_version = 1 /\ storing = None /\ pending_guids = <<>>
    /\ last_success_batch = None
    /\ loading = FALSE /\ guid_queue = <<>> /\ futures = EmptyBag /\ abandoned = {}

\* run_processor in the default mode: it begins again with the last version
\* it checkpointed.
Start ==
    /\ ~running /\ starts < MaxStarts
    /\ running' = TRUE /\ starts' = starts + 1
    /\ next_version' = Status!StartingVersion(DefaultMode, processor_status, None)
    /\ loading' = TRUE
    /\ UNCHANGED <<tables, processor_status, storing, pending_guids, last_success_batch,
                   guid_queue, futures, abandoned>>

GuidsOf(inflows) ==
    LET lz == InOrder({n \in DOMAIN inflows : inflows[n].lz_guid # None})
    IN [n \in DOMAIN lz |-> inflows[lz[n]].lz_guid]

\* Mutant: goes on to the GUIDs although the transaction failed.
CommitFailed(e) ==
    /\ running /\ storing = None
    /\ next_version <= e /\ e < next_version + MaxBatch
    /\ storing' = e /\ next_version' = e + 1
    /\ pending_guids' = GuidsOf(BatchInflows[next_version][e])
    /\ UNCHANGED <<tables, processor_status, last_success_batch, enricher, running, starts>>

\* The storer's database transaction: edges and inflows it already has are
\* left alone (ON CONFLICT DO NOTHING), the rollup is applied.
Commit(e) ==
    LET edges == BatchEdges[next_version][e]
        inflows == BatchInflows[next_version][e]
    IN /\ running /\ storing = None
       /\ next_version <= e /\ e < next_version + MaxBatch
       /\ address_transfer_edges' = address_transfer_edges \cup Range(edges)
       /\ bridge_inflows' = [k \in InflowKeys |->
            IF bridge_inflows[k] = None /\ k[1] \in next_version .. e
            THEN Inflow(k[1], k[2]) ELSE bridge_inflows[k]]
       /\ address_evm_sources' = RolledUp(address_evm_sources, edges, inflows)
       /\ storing' = e /\ next_version' = e + 1
       /\ pending_guids' = GuidsOf(inflows)
       /\ UNCHANGED <<processor_status, last_success_batch, enricher, running, starts>>

\* After the commit the GUIDs go to the enricher, one by one.
ForwardGuid ==
    /\ running /\ pending_guids # <<>>
    /\ guid_queue' = Append(guid_queue, Head(pending_guids))
    /\ pending_guids' = Tail(pending_guids)
    /\ UNCHANGED <<tables, processor_status, next_version, storing, last_success_batch,
                   loading, futures, abandoned, running, starts>>

\* Mutant: passes the batch on without waiting for the GUIDs.
EndStoreEarly ==
    /\ running /\ storing # None
    /\ last_success_batch' = storing
    /\ storing' = None
    /\ UNCHANGED <<tables, processor_status, next_version, pending_guids, enricher,
                   running, starts>>

\* The batch goes on to the version tracker.
EndStore ==
    /\ running /\ storing # None /\ pending_guids = <<>>
    /\ last_success_batch' = storing
    /\ storing' = None
    /\ UNCHANGED <<tables, processor_status, next_version, pending_guids, enricher,
                   running, starts>>

\* The tracker's timer fires (external) and save_processor_status runs.
SaveStatus ==
    /\ running /\ last_success_batch # None
    /\ processor_status' = Status!SavedStatus(processor_status, last_success_batch)
    /\ UNCHANGED <<tables, next_version, storing, pending_guids, last_success_batch, enricher,
                   running, starts>>

Crash ==
    /\ running /\ starts < MaxStarts
    /\ running' = FALSE
    /\ next_version' = 1 /\ storing' = None /\ pending_guids' = <<>>
    /\ last_success_batch' = None
    /\ loading' = FALSE /\ guid_queue' = <<>> /\ futures' = EmptyBag /\ abandoned' = {}
    /\ UNCHANGED <<tables, processor_status, starts>>
------------------------------------------------------------------------------
(***************************************************************************)
(* The enricher's LayerZero side.  Its loop loads the unresolved GUIDs     *)
(* once; the channel may by then hold GUIDs of rows committed before.      *)
(***************************************************************************)
Unresolved ==
    {bridge_inflows[k].lz_guid : k \in {j \in InflowKeys :
        bridge_inflows[j] # None /\ bridge_inflows[j].lz_guid # None
        /\ bridge_inflows[j].evm_source = None}}

\* load_pending_guids; a failed query is logged and loads nothing.
LoadPendingGuids(ok) ==
    /\ running /\ loading
    /\ loading' = FALSE
    /\ IF ok THEN /\ guid_queue' = SetToSeq(Unresolved) \o guid_queue
                  /\ UNCHANGED abandoned
       ELSE /\ abandoned' = abandoned \cup Unresolved
            /\ UNCHANGED guid_queue
    /\ UNCHANGED <<tables, pipeline, futures, running, starts>>

\* A tick starts the futures of the queued GUIDs.
StartGuid ==
    /\ running /\ ~loading /\ guid_queue # <<>>
    /\ futures' = futures (+) SetToBag({[guid |-> Head(guid_queue), count |-> 0,
                                        evm |-> None, seeds |-> {}]})
    /\ guid_queue' = Tail(guid_queue)
    /\ UNCHANGED <<tables, pipeline, loading, abandoned, running, starts>>

\* The future f goes on as one of G, or has come to its end if there is none.
Becomes(f, G) == futures' = (futures (-) SetToBag({f})) (+) SetToBag(G)

\* Mutant: a failed fetch is forgotten.
RetryForgotten(f) == Becomes(f, {}) /\ UNCHANGED abandoned

\* A failed fetch comes back with its count raised, is tried again after a
\* delay, or dropped.
RetryOrDrop(f) ==
    IF f.count + 1 < MaxRetries
    THEN Becomes(f, {[f EXCEPT !.count = @ + 1]}) /\ UNCHANGED abandoned
    ELSE Becomes(f, {}) /\ abandoned' = abandoned \cup {f.guid}

FetchFails(f) ==
    /\ running /\ f.evm = None
    /\ RetryOrDrop(f)
    /\ UNCHANGED <<tables, pipeline, loading, guid_queue, running, starts>>

\* Mutant: the UPDATE without "AND evm_source IS NULL".
MatchesAnyRow(guid) ==
    {k \in InflowKeys : bridge_inflows[k] # None /\ bridge_inflows[k].lz_guid = guid}

\* The rows write_evm's UPDATE matches.
RowsToResolve(guid) ==
    {k \in InflowKeys : /\ bridge_inflows[k] # None /\ bridge_inflows[k].lz_guid = guid
                        /\ bridge_inflows[k].evm_source = None}

\* process_guid: LayerZero names the sender, or answers 404, and write_evm
\* updates the rows.  The seeds of the rows follow in statements of their own.
ResolveGuid(f, evm) ==
    LET rows == RowsToResolve(f.guid)
        seeds == IF propagate_evm_sources /\ evm # Sentinel
                 THEN {k \in rows : bridge_inflows[k].asset_type # None} ELSE {}
    IN /\ running /\ f.evm = None
       /\ bridge_inflows' = [k \in InflowKeys |->
            IF k \in rows THEN [bridge_inflows[k] EXCEPT !.evm_source = evm]
            ELSE bridge_inflows[k]]
       /\ Becomes(f, IF seeds = {} THEN {} ELSE {[f EXCEPT !.evm = evm, !.seeds = seeds]})
       /\ UNCHANGED <<address_transfer_edges, address_evm_sources, pipeline, loading,
                      guid_queue, abandoned, running, starts>>

\* write_evm cannot get a connection, or its UPDATE fails: logged, not retried.
WriteEvmFails(f) ==
    /\ running /\ f.evm = None
    /\ Becomes(f, {})
    /\ abandoned' = abandoned \cup {f.guid}
    /\ UNCHANGED <<tables, pipeline, loading, guid_queue, running, starts>>

\* The loop over the updated rows goes on without row k.
SeedDone(f, k) ==
    Becomes(f, IF f.seeds = {k} THEN {} ELSE {[f EXCEPT !.seeds = @ \ {k}]})

\* upsert_bridge_seed for one resolved row.
SeedRow(f, k) ==
    LET bi == bridge_inflows[k]
        key == <<bi.aptos_recipient, bi.asset_type, f.evm>>
    IN /\ running /\ k \in f.seeds
       /\ address_evm_sources' = [address_evm_sources EXCEPT ![key] =
            BridgeSeed(@, bi.amount, seen_ord(bi.version, bi.event_index))]
       /\ SeedDone(f, k)
       /\ UNCHANGED <<address_transfer_edges, bridge_inflows, pipeline, loading, guid_queue,
                      abandoned, running, starts>>

\* The seed's upsert fails: logged, and the loop goes on with the next row.
SeedFails(f, k) ==
    /\ running /\ k \in f.seeds
    /\ SeedDone(f, k)
    /\ UNCHANGED <<tables, pipeline, loading, guid_queue, abandoned, running, starts>>

Resolve ==
    \E f \in BagToSet(futures) :
        \/ FetchFails(f)
        \/ \E evm \in {LzSender[f.guid], Sentinel} : ResolveGuid(f, evm)
        \/ WriteEvmFails(f)
        \/ \E k \in f.seeds : SeedRow(f, k) \/ SeedFails(f, k)

Next ==
    \/ Start
    \/ \E e \in Versions : Commit(e)
    \/ ForwardGuid
    \/ EndStore
    \/ SaveStatus
    \/ Crash
    \/ \E ok \in BOOLEAN : LoadPendingGuids(ok)
    \/ StartGuid
    \/ Resolve

Spec == Init /\ [][Next]_vars

(***************************************************************************)
(* Fairness: the pipeline's steps and the enricher are tasks that keep     *)
(* running, requests have timeouts, and a process that went down is        *)
(* started again.                                                          *)
(***************************************************************************)
Fairness ==
    /\ WF_vars(Start)
    /\ WF_vars(\E e \in Versions : Commit(e))
    /\ WF_vars(ForwardGuid)
    /\ WF_vars(EndStore)
    /\ WF_vars(\E ok \in BOOLEAN : LoadPendingGuids(ok))
    /\ WF_vars(StartGuid)
    /\ WF_vars(Resolve)

FairSpec == Spec /\ Fairness
------------------------------------------------------------------------------
Held == {pending_guids[n] : n \in DOMAIN pending_guids}
          \cup {guid_queue[n] : n \in DOMAIN guid_queue}
          \cup {f.guid : f \in BagToSet(futures)}

Stored(k) == bridge_inflows[k] # None

\* EVM addresses that a bridge event or its payload names itself.
Named == {Events[k[1]][k[2]].evm : k \in InflowKeys} \ {None}

\* The amount that stored inflows brought to an address from an EVM address.
InflowFund(a, s, e) ==
    SumFunction([k \in InflowKeys |->
        IF /\ Stored(k) /\ bridge_inflows[k].aptos_recipient = a
           /\ bridge_inflows[k].asset_type = s /\ bridge_inflows[k].evm_source = e
        THEN bridge_inflows[k].amount ELSE 0])

Fund(a, s, e) ==
    IF address_evm_sources[<<a, s, e>>] = None THEN 0 ELSE address_evm_sources[<<a, s, e>>].evm_fund

(***************************************************************************)
(* Properties                                                              *)
(***************************************************************************)

\* Type invariant: rows have the columns the models give them, and a future
\* has seeds to write exactly while it holds an answer.
TypeOK ==
    /\ address_transfer_edges \subseteq Range(BatchEdges[1][MaxVersion])
    /\ bridge_inflows \in [InflowKeys -> InflowRow \cup {None}]
    /\ address_evm_sources \in [Sources -> SourceRow \cup {None}]
    /\ \A k \in Sources : address_evm_sources[k] # None =>
          ~Before(address_evm_sources[k].last_seen_ord, address_evm_sources[k].first_seen_ord)
    /\ processor_status \in Versions \cup {None}
    /\ running \in BOOLEAN /\ starts \in 0 .. MaxStarts /\ loading \in BOOLEAN
    /\ next_version \in 1 .. MaxVersion + 1
    /\ storing \in Versions \cup {None} /\ (storing = None => pending_guids = <<>>)
    /\ last_success_batch \in Versions \cup {None}
    /\ Held \cup abandoned \subseteq Guids
    /\ IsABag(futures)
    /\ \A f \in BagToSet(futures) :
          f.count < MaxRetries /\ (f.seeds # {} <=> f.evm # None)

\* The enricher never holds a GUID whose inflow is not committed ("never races
\* against a row that doesn't exist yet"), whatever is replayed or crashes.
GuidHasRow ==
    \A g \in Held : \E k \in InflowKeys : Stored(k) /\ bridge_inflows[k].lz_guid = g

\* hops_min is 0 for exactly the sources that funded the address directly,
\* in whatever order transfers and late LayerZero seeds arrive.
DirectIffFunded ==
    \A k \in Sources : address_evm_sources[k] # None =>
        (address_evm_sources[k].hops_min = 0 <=> address_evm_sources[k].evm_fund > 0)

\* Nobody is linked to an EVM address without a trace: a row has a stored
\* inflow behind it, or a stored transfer from an address that has the row
\* with fewer hops.
Attributed ==
    \A a \in Addresses, s \in Assets, e \in Evms :
        LET row(x) == address_evm_sources[<<x, s, e>>] IN
        row(a) # None =>
            \/ \E k \in InflowKeys : /\ Stored(k) /\ bridge_inflows[k].aptos_recipient = a
                                     /\ bridge_inflows[k].asset_type = s
                                     /\ bridge_inflows[k].evm_source = e
            \/ \E edge \in address_transfer_edges :
                  /\ edge.to_address = a /\ edge.asset_type = s /\ ~edge.is_bridge_inflow
                  /\ row(edge.from_address) # None
                  /\ row(edge.from_address).hops_min < row(a).hops_min

\* address_evm_sources tells where an address has its funds from: nothing without a
\* trace, and the direct sources apart from the indirect ones.
SourcesAttributed == Attributed /\ DirectIffFunded

\* A seed is visible to every later transfer out of the address, in the same
\* transaction, in the same batch and in later ones.
SeedsPropagate ==
    propagate_evm_sources =>
    \A k \in InflowKeys, edge \in address_transfer_edges :
        LET bi == bridge_inflows[k] IN
        /\ Stored(k) /\ Events[k[1]][k[2]].evm # None /\ bi.asset_type # None
        /\ ~edge.is_bridge_inflow /\ edge.from_address = bi.aptos_recipient
        /\ edge.asset_type = bi.asset_type
        /\ Before(k, <<edge.version, edge.event_index>>)
        => address_evm_sources[<<edge.to_address, bi.asset_type, bi.evm_source>>] # None

\* A LayerZero inflow is seeded at most once, although its GUID may be loaded
\* at startup, sent again by a replayed batch and resolved by two futures.
LzFundedOnce ==
    \A a \in Addresses, s \in Assets, e \in Evms \ Named :
        Fund(a, s, e) <= InflowFund(a, s, e)

\* evm_fund is the cumulative amount deposited directly via bridge inflows from
\* this EVM address: no more than the inflows of the address add up to.
FundMatchesInflows ==
    \A a \in Addresses, s \in Assets, e \in Evms :
        Fund(a, s, e) <= InflowFund(a, s, e)

\* Every LayerZero inflow is eventually resolved, to an address or to the
\* sentinel, or given up with a log line: no GUID is forgotten in a queue.
GuidsSettle ==
    \A k \in InflowKeys :
        (Stored(k) /\ bridge_inflows[k].lz_guid # None) ~>
            (running /\ Stored(k) /\ (bridge_inflows[k].evm_source # None
                         \/ bridge_inflows[k].lz_guid \in abandoned))
==============================================================================
