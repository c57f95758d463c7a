-------------------------- MODULE EvmSourcesProofs ---------------------------
(***************************************************************************)
(* Proofs about EvmSources: what the extractor hands to the storer, that   *)
(* the enricher only holds GUIDs whose inflow is committed, and that every *)
(* row of the rollup has a trace.                                          *)
(***************************************************************************)
EXTENDS EvmSources, DataFacts

(***************************************************************************)
(* The events of a transaction.                                            *)
(***************************************************************************)
LEMMA EventFact ==
    ASSUME NEW v \in Versions
    PROVE  /\ Events[v] \in Seq(Event) /\ Len(Events[v]) \in Nat
           /\ DOMAIN Events[v] = 1 .. Len(Events[v])
           /\ \A i \in DOMAIN Events[v] : Events[v][i] \in Event
<1>1. Events \in Seq(Seq(Event))
  BY EvmSourcesAssumption
<1>2. Events[v] \in Seq(Event)
  BY <1>1 DEF Versions, MaxVersion
<1> QED BY <1>2

LEMMA VersionsFact ==
    MaxVersion \in Nat /\ Versions \subseteq Nat /\ IsFiniteSet(Versions)
<1>1. Events \in Seq(Seq(Event))
  BY EvmSourcesAssumption
<1>2. MaxVersion \in Nat
  BY <1>1 DEF MaxVersion
<1>3. 1 \in Int /\ MaxVersion \in Int
  BY <1>2
<1> QED BY <1>2, <1>3, FS_Interval DEF Versions

LEMMA IndicesFact ==
    ASSUME NEW v \in Versions, NEW kind
    PROVE  /\ IndicesOf(v, kind) \in SUBSET Nat /\ IsFiniteSet(IndicesOf(v, kind))
           /\ \A i \in IndicesOf(v, kind) :
                 /\ i \in DOMAIN Events[v]
                 /\ Events[v][i] \in Event /\ Events[v][i].kind = kind
<1>1. /\ Len(Events[v]) \in Nat /\ DOMAIN Events[v] = 1 .. Len(Events[v])
      /\ \A i \in DOMAIN Events[v] : Events[v][i] \in Event
  BY EventFact
<1>2. IndicesOf(v, kind) \subseteq 1 .. Len(Events[v])
  BY <1>1 DEF IndicesOf
<1>3. IndicesOf(v, kind) \in SUBSET Nat
  BY <1>1, <1>2
<1>4. \A i \in IndicesOf(v, kind) : i <= Len(Events[v])
  BY <1>1, <1>2
<1>5. IsFiniteSet(IndicesOf(v, kind))
  BY <1>1, <1>3, <1>4, FS_BoundedSetOfNaturals
<1> QED BY <1>1, <1>3, <1>5 DEF IndicesOf

LEMMA InflowKeysFact ==
    /\ IsFiniteSet(InflowKeys)
    /\ \A k \in InflowKeys : /\ k = <<k[1], k[2]>> /\ k[1] \in Versions
                             /\ k[2] \in IndicesOf(k[1], "bridge")
    /\ \A v \in Versions : \A i \in IndicesOf(v, "bridge") : <<v, i>> \in InflowKeys
<1> DEFINE Keys(v) == {v} \X IndicesOf(v, "bridge")
           All == {Keys(v) : v \in Versions}
<1>1. IsFiniteSet(All)
  <2>1. IsFiniteSet(Versions)
    BY VersionsFact
  <2> DEFINE keys == [v \in Versions |-> Keys(v)]
  <2>2. IsFiniteSet({keys[v] : v \in Versions})
    <3> HIDE DEF keys
    <3> QED BY <2>1, FiniteImage
  <2>3. All = {keys[v] : v \in Versions}
    OBVIOUS
  <2> QED BY <2>2, <2>3
<1>2. ASSUME NEW v \in Versions PROVE IsFiniteSet(Keys(v))
  <2>1. IsFiniteSet({v})
    BY FS_Singleton
  <2>2. IsFiniteSet(IndicesOf(v, "bridge"))
    BY IndicesFact
  <2> QED BY <2>1, <2>2, FS_Product
<1>3. IsFiniteSet(UNION All)
  <2>1. \A T \in All : IsFiniteSet(T)
    <3> HIDE DEF Keys
    <3> QED BY <1>2
  <2> HIDE DEF All
  <2> QED BY <1>1, <2>1, FS_UNION
<1>4. InflowKeys = UNION All
  BY DEF InflowKeys
<1>5. IsFiniteSet(InflowKeys)
  BY <1>3, <1>4
<1>6. ASSUME NEW k \in InflowKeys
      PROVE  k = <<k[1], k[2]>> /\ k[1] \in Versions /\ k[2] \in IndicesOf(k[1], "bridge")
  <2>1. PICK v \in Versions : k \in {v} \X IndicesOf(v, "bridge")
    BY DEF InflowKeys
  <2> QED BY <2>1
<1>7. ASSUME NEW v \in Versions, NEW i \in IndicesOf(v, "bridge") PROVE <<v, i>> \in InflowKeys
  BY DEF InflowKeys
<1> QED BY <1>5, <1>6, <1>7

\* The asset of a delivery, and the row of an inflow.
LEMMA InflowFact ==
    ASSUME NEW v \in Versions, NEW i \in IndicesOf(v, "bridge")
    PROVE  /\ InflowAsset(v, i) \in Assets \cup {None}
           /\ Inflow(v, i) \in InflowRow /\ Inflow(v, i) # None
<1>1. v \in Nat /\ i \in Nat /\ Events[v][i] \in Event
  BY VersionsFact, IndicesFact
<1> DEFINE delivered == {d \in IndicesOf(v, "deposit") :
                           /\ Events[v][d].address = Events[v][i].address
                           /\ Events[v][d].amount = Events[v][i].amount
                           /\ Events[v][d].asset # None}
<1>2. IndicesOf(v, "deposit") \in SUBSET Nat
  BY IndicesFact
<1>3. InflowAsset(v, i) = IF delivered = {} THEN None ELSE Events[v][Min(delivered)].asset
  BY DEF InflowAsset
<1>4. CASE delivered = {}
  <2>1. InflowAsset(v, i) = None
    BY <1>3, <1>4
  <2> QED BY <1>1, <2>1, EvmSourcesAssumption DEF Inflow, InflowRow, Event
<1>5. CASE delivered # {}
  <2>1. Min(delivered) \in delivered
    BY <1>2, <1>5, MinFact
  <2>2. Events[v][Min(delivered)] \in Event
    BY <2>1, IndicesFact
  <2>3. InflowAsset(v, i) \in Assets \cup {None}
    BY <1>3, <1>5, <2>2 DEF Event
  <2> QED BY <1>1, <2>3, EvmSourcesAssumption DEF Inflow, InflowRow, Event
<1> QED BY <1>4, <1>5

LEMMA InOrderFact ==
    ASSUME NEW S \in SUBSET Nat, IsFiniteSet(S)
    PROVE  /\ Cardinality(S) \in Nat
           /\ InOrder(S) \in [1 .. Cardinality(S) -> S]
           /\ Increasing(InOrder(S), Cardinality(S))
           /\ \A x \in S : \E i \in 1 .. Cardinality(S) : InOrder(S)[i] = x
<1>1. /\ Cardinality(S) \in Nat
      /\ \E s \in [1 .. Cardinality(S) -> S] : Increasing(s, Cardinality(S))
  BY IncreasingEnumeration
<1>2. InOrder(S) \in [1 .. Cardinality(S) -> S] /\ Increasing(InOrder(S), Cardinality(S))
  BY <1>1 DEF InOrder, Increasing
<1> QED BY <1>1, <1>2, IncreasingOnto
------------------------------------------------------------------------------
(***************************************************************************)
(* What a batch carries.                                                   *)
(***************************************************************************)
\* The rows of the inflows of the versions s..e.
InflowsOf(s, e) ==
    {Inflow(k[1], k[2]) : k \in {j \in InflowKeys : j[1] \in s .. e}}

LEMMA InflowsFact ==
    ASSUME NEW v \in Versions
    PROVE  /\ Inflows[v] \in Seq(InflowRow)
           /\ \A n \in 1 .. Len(Inflows[v]) : Inflows[v][n] \in InflowsOf(v, v)
           /\ \A i \in IndicesOf(v, "bridge") : \E n \in 1 .. Len(Inflows[v]) :
                 Inflows[v][n] = Inflow(v, i)
<1> DEFINE S == IndicesOf(v, "bridge")
           N == Cardinality(S)
           idx == InOrder(S)
<1>1. S \in SUBSET Nat /\ IsFiniteSet(S)
  BY IndicesFact
<1>2. N \in Nat /\ idx \in [1 .. N -> S] /\ \A x \in S : \E n \in 1 .. N : idx[n] = x
  <2> HIDE DEF S
  <2> QED BY <1>1, InOrderFact
<1>3. Inflows[v] = [n \in DOMAIN idx |-> Inflow(v, idx[n])]
  BY DEF Inflows
<1> HIDE DEF idx, N
<1>4. Inflows[v] = [n \in 1 .. N |-> Inflow(v, idx[n])]
  BY <1>2, <1>3
<1>5. \A n \in 1 .. N : Inflow(v, idx[n]) \in InflowRow
  BY <1>2, InflowFact
<1>6. Inflows[v] \in [1 .. N -> InflowRow]
  BY <1>4, <1>5
<1>7. Inflows[v] \in Seq(InflowRow) /\ Len(Inflows[v]) = N
  BY <1>2, <1>6, SeqDef
<1>8. ASSUME NEW n \in 1 .. N PROVE Inflows[v][n] \in InflowsOf(v, v)
  <2> DEFINE k == <<v, idx[n]>>
  <2>1. k \in InflowKeys /\ k[1] = v /\ k[2] = idx[n]
    BY <1>2, InflowKeysFact
  <2>2. v \in v .. v
    BY VersionsFact
  <2>3. Inflows[v][n] = Inflow(k[1], k[2])
    BY <1>4, <2>1
  <2> HIDE DEF k
  <2> QED BY <2>1, <2>2, <2>3 DEF InflowsOf
<1>9. \A i \in S : \E n \in 1 .. N : Inflows[v][n] = Inflow(v, i)
  BY <1>2, <1>4
<1> QED BY <1>7, <1>8, <1>9

\* b carries the elements of the sequences that a table has for s..e.
BatchOf(b, table, s, e) ==
    /\ \A m \in 1 .. Len(b) :
          \E v \in s .. e : \E j \in 1 .. Len(table[v]) : b[m] = table[v][j]
    /\ \A v \in s .. e : \A j \in 1 .. Len(table[v]) :
          \E m \in 1 .. Len(b) : b[m] = table[v][j]

\* A batch of a table of sequences, one per version.
LEMMA BatchedFact ==
    ASSUME NEW S, NEW table \in [Versions -> Seq(S)],
           NEW s \in Versions, NEW e \in Versions, s <= e
    PROVE  /\ Batched(table)[s][e] \in Seq(S)
           /\ BatchOf(Batched(table)[s][e], table, s, e)
<1> DEFINE N == e - s + 1
           ss == [n \in 1 .. N |-> table[s + n - 1]]
<1>1. s \in Nat /\ e \in Nat /\ N \in Nat /\ MaxVersion \in Nat /\ Versions = 1 .. MaxVersion
  BY VersionsFact DEF Versions
<1>2. /\ \A n \in 1 .. N : s + n - 1 \in s .. e /\ s + n - 1 \in Versions
      /\ \A v \in s .. e : v - s + 1 \in 1 .. N /\ s + (v - s + 1) - 1 = v
  BY <1>1
<1>3. ss \in [1 .. N -> Seq(S)]
  BY <1>2
<1>4. ss \in Seq(Seq(S)) /\ Len(ss) = N
  <2>1. ASSUME NEW X, X = Seq(S) PROVE ss \in Seq(X) /\ Len(ss) = N
    <3>1. ss \in [1 .. N -> X]
      BY <1>3, <2>1
    <3> HIDE <2>1
    <3> HIDE DEF ss
    <3> QED BY <1>1, <3>1, SeqDef
  <2> QED BY <2>1
<1>5. Batched(table)[s][e] = FlattenSeq(ss)
  BY DEF Batched
<1>6. \A n \in 1 .. N : ss[n] = table[s + n - 1]
  OBVIOUS
<1> HIDE DEF ss, N
<1>7. PICK b : b = Batched(table)[s][e]
  OBVIOUS
<1>8. b \in Seq(S) /\ ElementsOf(b, ss, N)
  BY <1>4, <1>5, <1>7, FlattenElements
<1>9. ASSUME NEW m \in 1 .. Len(b)
      PROVE  \E v \in s .. e : \E j \in 1 .. Len(table[v]) : b[m] = table[v][j]
  <2>1. PICK i \in 1 .. N : \E j \in 1 .. Len(ss[i]) : b[m] = ss[i][j]
    BY <1>8 DEF ElementsOf
  <2> QED BY <1>2, <1>6, <2>1
<1>10. ASSUME NEW v \in s .. e, NEW j \in 1 .. Len(table[v])
       PROVE  \E m \in 1 .. Len(b) : b[m] = table[v][j]
  <2>1. PICK i \in 1 .. N : ss[i] = table[v]
    BY <1>2, <1>6
  <2>2. \A q \in 1 .. Len(ss[i]) : \E m \in 1 .. Len(b) : b[m] = ss[i][q]
    BY <1>8 DEF ElementsOf
  <2> QED BY <2>1, <2>2
<1>11. BatchOf(b, table, s, e)
  BY <1>9, <1>10 DEF BatchOf
<1> QED BY <1>7, <1>8, <1>11

LEMMA BatchInflowsFact ==
    ASSUME NEW s \in Versions, NEW e \in Versions, s <= e
    PROVE  /\ BatchInflows[s][e] \in Seq(InflowRow)
           /\ \A m \in 1 .. Len(BatchInflows[s][e]) : BatchInflows[s][e][m] \in InflowsOf(s, e)
           /\ \A k \in InflowKeys : k[1] \in s .. e =>
                 \E m \in 1 .. Len(BatchInflows[s][e]) : BatchInflows[s][e][m] = Inflow(k[1], k[2])
<1>1. Inflows \in [Versions -> Seq(InflowRow)]
  <2>1. \A v \in Versions : Inflows[v] \in Seq(InflowRow)
    BY InflowsFact
  <2>2. Inflows = [v \in Versions |-> Inflows[v]]
    BY DEF Inflows
  <2> QED BY <2>1, <2>2
<1>2. PICK b : b = BatchInflows[s][e]
  OBVIOUS
<1>3. b \in Seq(InflowRow) /\ BatchOf(b, Inflows, s, e)
  BY <1>1, <1>2, BatchedFact DEF BatchInflows
<1>4. ASSUME NEW m \in 1 .. Len(b) PROVE b[m] \in InflowsOf(s, e)
  <2>1. PICK v \in s .. e : \E j \in 1 .. Len(Inflows[v]) : b[m] = Inflows[v][j]
    BY <1>3 DEF BatchOf
  <2>2. v \in Versions
    BY VersionsFact DEF Versions
  <2>3. b[m] \in InflowsOf(v, v)
    BY <2>1, <2>2, InflowsFact
  <2>4. \A w \in v .. v : w = v
    BY <2>2, VersionsFact
  <2> QED BY <2>3, <2>4 DEF InflowsOf
<1>5. ASSUME NEW k \in InflowKeys, k[1] \in s .. e
      PROVE  \E m \in 1 .. Len(b) : b[m] = Inflow(k[1], k[2])
  <2>1. k[1] \in Versions /\ k[2] \in IndicesOf(k[1], "bridge")
    BY InflowKeysFact
  <2>2. PICK n \in 1 .. Len(Inflows[k[1]]) : Inflows[k[1]][n] = Inflow(k[1], k[2])
    BY <2>1, InflowsFact
  <2> QED BY <1>3, <1>5, <2>2 DEF BatchOf
<1> QED BY <1>2, <1>3, <1>4, <1>5

\* The GUIDs of a batch are those of its inflows.
LEMMA GuidsOfFact ==
    ASSUME NEW s \in Versions, NEW e \in Versions, s <= e
    PROVE  LET guids == GuidsOf(BatchInflows[s][e]) IN
           /\ guids \in Seq(Guids)
           /\ \A n \in DOMAIN guids : \E k \in InflowKeys :
                 k[1] \in s .. e /\ guids[n] = Events[k[1]][k[2]].guid
<1>1. PICK b : b = BatchInflows[s][e]
  OBVIOUS
<1>2. b \in Seq(InflowRow) /\ \A m \in 1 .. Len(b) : b[m] \in InflowsOf(s, e)
  BY <1>1, BatchInflowsFact
<1> DEFINE S == {n \in DOMAIN b : b[n].lz_guid # None}
           N == Cardinality(S)
           lz == InOrder(S)
           guids == GuidsOf(b)
<1>3. Len(b) \in Nat /\ DOMAIN b = 1 .. Len(b)
  BY <1>2
<1>4. S \in SUBSET Nat /\ IsFiniteSet(S)
  <2>1. S \in SUBSET Nat /\ \A n \in S : n <= Len(b)
    BY <1>3
  <2> HIDE DEF S
  <2> QED BY <1>3, <2>1, FS_BoundedSetOfNaturals
<1>5. N \in Nat /\ lz \in [1 .. N -> S]
  <2> HIDE DEF S
  <2> QED BY <1>4, InOrderFact
<1>6. guids = [n \in DOMAIN lz |-> b[lz[n]].lz_guid]
  BY DEF GuidsOf
<1> HIDE DEF lz, N, guids
<1>7. guids = [n \in 1 .. N |-> b[lz[n]].lz_guid]
  BY <1>5, <1>6
<1>8. \A n \in 1 .. N : lz[n] \in 1 .. Len(b) /\ b[lz[n]] \in InflowRow /\ b[lz[n]].lz_guid # None
  BY <1>2, <1>3, <1>5
<1>9. guids \in [1 .. N -> Guids]
  BY <1>7, <1>8 DEF InflowRow
<1>10. guids \in Seq(Guids)
  BY <1>5, <1>9, SeqDef
<1>11. ASSUME NEW n \in 1 .. N
       PROVE  \E k \in InflowKeys : k[1] \in s .. e /\ guids[n] = Events[k[1]][k[2]].guid
  <2>1. b[lz[n]] \in InflowsOf(s, e)
    BY <1>2, <1>8
  <2>2. PICK k \in InflowKeys : k[1] \in s .. e /\ b[lz[n]] = Inflow(k[1], k[2])
    BY <2>1 DEF InflowsOf
  <2> QED BY <1>7, <2>2 DEF Inflow
<1> QED BY <1>1, <1>7, <1>10, <1>11 DEF guids
------------------------------------------------------------------------------
(***************************************************************************)
(* The loops of the extractor and the storer: what every step keeps, the   *)
(* result has.                                                             *)
(***************************************************************************)
\* The pairs of a transaction: withdraws with deposits.
Pairing(v) == UNION {[D -> IndicesOf(v, "deposit")] : D \in SUBSET IndicesOf(v, "withdraw")}

LEMMA MatchWithdrawFact ==
    ASSUME NEW v \in Versions, NEW pairs \in Pairing(v), NEW w \in IndicesOf(v, "withdraw")
    PROVE  MatchWithdraw(v, pairs, w) \in Pairing(v)
<1> DEFINE free == {d \in IndicesOf(v, "deposit") \ Range(pairs) :
                      /\ Events[v][d].amount = Events[v][w].amount
                      /\ Events[v][d].address # Events[v][w].address}
           new == [i \in DOMAIN pairs \cup {w} |-> IF i = w THEN Min(free) ELSE pairs[i]]
<1>1. MatchWithdraw(v, pairs, w) = IF free = {} THEN pairs ELSE new
  BY DEF MatchWithdraw
<1>2. CASE free = {}
  BY <1>1, <1>2
<1>3. CASE free # {}
  <2>1. free \in SUBSET Nat
    BY IndicesFact
  <2>2. Min(free) \in IndicesOf(v, "deposit")
    <3>1. Min(free) \in free
      <4> HIDE DEF free
      <4> QED BY <1>3, <2>1, MinFact
    <3> QED BY <3>1
  <2>3. PICK D \in SUBSET IndicesOf(v, "withdraw") : pairs \in [D -> IndicesOf(v, "deposit")]
    BY DEF Pairing
  <2> HIDE DEF free
  <2>4. new \in [D \cup {w} -> IndicesOf(v, "deposit")]
    BY <2>2, <2>3
  <2>5. D \cup {w} \in SUBSET IndicesOf(v, "withdraw")
    BY <2>3
  <2> QED BY <1>1, <1>3, <2>4, <2>5 DEF Pairing
<1> QED BY <1>2, <1>3

LEMMA PairsFact ==
    ASSUME NEW v \in Versions
    PROVE  Pairs(v) \in Pairing(v)
<1> DEFINE N == Len(Events[v])
           W == IndicesOf(v, "withdraw")
           X == Pairing(v)
           base == [i \in {} |-> 0]
           Body(g) == [n \in 0 .. N |->
               IF n = 0 THEN base
               ELSE IF n \in W THEN MatchWithdraw(v, g[n - 1], n) ELSE g[n - 1]]
           step == [x \in (1 .. N) \X X |->
               IF x[1] \in W THEN MatchWithdraw(v, x[2], x[1]) ELSE x[2]]
           after == CHOOSE g : g = Body(g)
<1>1. N \in Nat
  BY EventFact
<1>2. base \in X
  <2>1. {} \in SUBSET W /\ base \in [{} -> IndicesOf(v, "deposit")]
    OBVIOUS
  <2> QED BY <2>1 DEF Pairing
<1> HIDE DEF X, base, W, N
<1>3. \A x \in X : \A n \in W : MatchWithdraw(v, x, n) \in X
  BY MatchWithdrawFact DEF X, W
<1>4. step \in [(1 .. N) \X X -> X]
  BY <1>3
<1>5. PICK h \in [0 .. N -> X] : Iterates(h, N, base, step)
  <2> HIDE DEF step
  <2> QED BY <1>1, <1>2, <1>4, RecursionUpTo
<1>6. ASSUME NEW n \in 1 .. N
      PROVE  h[n] = IF n \in W THEN MatchWithdraw(v, h[n - 1], n) ELSE h[n - 1]
  <2>1. n - 1 \in 0 .. N
    BY <1>1
  <2>2. <<n, h[n - 1]>> \in (1 .. N) \X X
    BY <2>1
  <2>3. ASSUME NEW x \in (1 .. N) \X X
        PROVE  step[x] = IF x[1] \in W THEN MatchWithdraw(v, x[2], x[1]) ELSE x[2]
    OBVIOUS
  <2> HIDE DEF step
  <2>4. step[<<n, h[n - 1]>>] = IF n \in W THEN MatchWithdraw(v, h[n - 1], n) ELSE h[n - 1]
    BY <2>2, <2>3
  <2> QED BY <1>5, <2>4 DEF Iterates
<1>7. h[0] = base
  BY <1>5 DEF Iterates
<1>8. h = Body(h)
  <2>1. \A n \in 0 .. N : h[n] =
           IF n = 0 THEN base
           ELSE IF n \in W THEN MatchWithdraw(v, h[n - 1], n) ELSE h[n - 1]
    <3>1. \A n \in 0 .. N : n = 0 \/ n \in 1 .. N
      BY <1>1
    <3> QED BY <1>6, <1>7, <3>1
  <2>2. Body(h) = [n \in 0 .. N |-> h[n]]
    BY <2>1
  <2> QED BY <1>5, <2>2
<1>9. after = Body(after)
  <2>1. \E g : g = Body(g)
    <3> HIDE DEF Body
    <3> QED BY <1>8
  <2> HIDE DEF Body
  <2> QED BY <2>1
<1>10. Pairs(v) = after[N]
  BY DEF Pairs, N, W, base
<1>11. /\ after[0] = base
       /\ \A n \in 1 .. N : after[n] =
             IF n \in W THEN MatchWithdraw(v, after[n - 1], n) ELSE after[n - 1]
  <2> HIDE DEF after
  <2>1. \A n \in 0 .. N : Body(after)[n] =
           IF n = 0 THEN base
           ELSE IF n \in W THEN MatchWithdraw(v, after[n - 1], n) ELSE after[n - 1]
    OBVIOUS
  <2>2. 0 \in 0 .. N /\ \A n \in 1 .. N : n \in 0 .. N /\ n # 0
    BY <1>1
  <2> HIDE DEF Body
  <2> QED BY <1>9, <2>1, <2>2
<1> HIDE DEF after
<1> DEFINE P == {n \in 0 .. N : after[n] \in X}
<1>12. 0 \in P
  BY <1>1, <1>2, <1>11
<1>13. \A n \in 1 .. N : n - 1 \in P => n \in P
  BY <1>1, <1>3, <1>11
<1>14. N \in 0 .. N
  BY <1>1
<1>15. N \in P
  <2> HIDE DEF P
  <2> QED BY <1>1, <1>12, <1>13, <1>14, InductionUpTo
<1> QED BY <1>10, <1>15 DEF X

\* The rollup after each iteration of the storer's loop over the edges of a batch.
Iterations(h, aes, edges, inflows) ==
    /\ h[0] = aes
    /\ \A n \in 1 .. Len(edges) : h[n] = ApplyEdge(h[n - 1], edges[n], inflows)

\* The rollup stays in X throughout, and the last one is the result.
LoopWithin(X, aes, edges, inflows) ==
    \E h \in [0 .. Len(edges) -> X] :
        /\ Iterations(h, aes, edges, inflows)
        /\ RolledUp(aes, edges, inflows) =
              IF propagate_evm_sources THEN h[Len(edges)] ELSE aes

LEMMA RolledUpSteps ==
    ASSUME NEW X, NEW aes \in X, NEW edges, NEW inflows, Len(edges) \in Nat,
           \A x \in X : \A n \in 1 .. Len(edges) : ApplyEdge(x, edges[n], inflows) \in X
    PROVE  LoopWithin(X, aes, edges, inflows)
<1> DEFINE N == Len(edges)
           Body(g) == [n \in 0 .. N |->
               IF n = 0 THEN aes ELSE ApplyEdge(g[n - 1], edges[n], inflows)]
           step == [x \in (1 .. N) \X X |-> ApplyEdge(x[2], edges[x[1]], inflows)]
           after == CHOOSE g : g = Body(g)
<1>1. N \in Nat
  OBVIOUS
<1> HIDE DEF N
<1>2. \A x \in X : \A n \in 1 .. N : ApplyEdge(x, edges[n], inflows) \in X
  BY DEF N
<1>3. step \in [(1 .. N) \X X -> X]
  BY <1>2
<1>4. PICK h \in [0 .. N -> X] : Iterates(h, N, aes, step)
  <2> HIDE DEF step
  <2> QED BY <1>1, <1>3, RecursionUpTo
<1>5. ASSUME NEW n \in 1 .. N PROVE h[n] = ApplyEdge(h[n - 1], edges[n], inflows)
  <2>1. n - 1 \in 0 .. N
    BY <1>1
  <2>2. <<n, h[n - 1]>> \in (1 .. N) \X X
    BY <2>1
  <2>3. ASSUME NEW x \in (1 .. N) \X X PROVE step[x] = ApplyEdge(x[2], edges[x[1]], inflows)
    OBVIOUS
  <2> HIDE DEF step
  <2>4. step[<<n, h[n - 1]>>] = ApplyEdge(h[n - 1], edges[n], inflows)
    BY <2>2, <2>3
  <2> QED BY <1>4, <2>4 DEF Iterates
<1>6. h[0] = aes
  BY <1>4 DEF Iterates
<1>7. h = Body(h)
  <2>1. \A n \in 0 .. N : h[n] = IF n = 0 THEN aes ELSE ApplyEdge(h[n - 1], edges[n], inflows)
    <3>1. \A n \in 0 .. N : n = 0 \/ n \in 1 .. N
      BY <1>1
    <3> QED BY <1>5, <1>6, <3>1
  <2>2. Body(h) = [n \in 0 .. N |-> h[n]]
    BY <2>1
  <2> QED BY <1>4, <2>2
<1>8. after = Body(after)
  <2>1. \E g : g = Body(g)
    <3> HIDE DEF Body
    <3> QED BY <1>7
  <2> HIDE DEF Body
  <2> QED BY <2>1
<1>9. RolledUp(aes, edges, inflows) = IF propagate_evm_sources THEN after[N] ELSE aes
  BY DEF RolledUp, N
<1>10. /\ after[0] = aes
       /\ \A n \in 1 .. N : after[n] = ApplyEdge(after[n - 1], edges[n], inflows)
  <2> HIDE DEF after
  <2>1. \A n \in 0 .. N :
           Body(after)[n] = IF n = 0 THEN aes ELSE ApplyEdge(after[n - 1], edges[n], inflows)
    OBVIOUS
  <2>2. 0 \in 0 .. N /\ \A n \in 1 .. N : n \in 0 .. N /\ n # 0
    BY <1>1
  <2> HIDE DEF Body
  <2> QED BY <1>8, <2>1, <2>2
<1> HIDE DEF after
<1> DEFINE P == {n \in 0 .. N : after[n] \in X}
<1>11. 0 \in P
  BY <1>1, <1>10
<1>12. \A n \in 1 .. N : n - 1 \in P => n \in P
  BY <1>1, <1>2, <1>10
<1>13. P = 0 .. N
  <2>1. P \in SUBSET (0 .. N)
    OBVIOUS
  <2> HIDE DEF P
  <2> QED BY <1>1, <2>1, <1>11, <1>12, InductionUpTo
<1>14. after \in [0 .. N -> X]
  <2>1. \A n \in 0 .. N : after[n] \in X
    BY <1>13
  <2>2. after = [n \in 0 .. N |-> after[n]]
    <3>1. DOMAIN Body(after) = 0 .. N /\ Body(after) = [n \in 0 .. N |-> Body(after)[n]]
      OBVIOUS
    <3> HIDE DEF Body
    <3> QED BY <1>8, <3>1
  <2> QED BY <2>1, <2>2
<1> QED BY <1>9, <1>10, <1>14 DEF N, Iterations, LoopWithin

LEMMA RolledUpFact ==
    ASSUME NEW X, NEW aes \in X, NEW edges, NEW inflows, Len(edges) \in Nat,
           \A x \in X : \A n \in 1 .. Len(edges) : ApplyEdge(x, edges[n], inflows) \in X
    PROVE  RolledUp(aes, edges, inflows) \in X
<1>0. LoopWithin(X, aes, edges, inflows)
  BY RolledUpSteps
<1>1. PICK h \in [0 .. Len(edges) -> X] :
         RolledUp(aes, edges, inflows) = IF propagate_evm_sources THEN h[Len(edges)] ELSE aes
  BY <1>0 DEF LoopWithin
<1>2. h[Len(edges)] \in X
  OBVIOUS
<1> QED BY <1>1, <1>2
------------------------------------------------------------------------------
(***************************************************************************)
(* The edges of a batch.                                                   *)
(***************************************************************************)
EdgeRow == [version : Nat, event_index : Nat, from_address : Addresses,
            to_address : Addresses, asset_type : Assets \cup {None}, amount : Nat,
            is_bridge_inflow : BOOLEAN]

\* A transfer that delivers an inflow is in the asset of the inflow.
AssetsAgree ==
    \A v \in Versions : \A w \in DOMAIN Pairs(v), i \in IndicesOf(v, "bridge") :
        LET ev == Events[v]
            d == Pairs(v)[w]
        IN ev[i].address = ev[d].address /\ ev[i].amount = ev[w].amount =>
              (IF ev[w].asset # None THEN ev[w].asset ELSE ev[d].asset)
                 \in {None, InflowAsset(v, i)}

LEMMA EdgesOfFact ==
    ASSUME NEW v \in Versions, NEW edge \in EdgesOf(v)
    PROVE  /\ edge \in EdgeRow /\ edge.version = v
           /\ edge.event_index \in DOMAIN Events[v]
           /\ AssetsAgree /\ edge.is_bridge_inflow /\ edge.asset_type # None =>
                 \A i \in IndicesOf(v, "bridge") :
                    Events[v][i].address = edge.to_address /\ Events[v][i].amount = edge.amount
                       => InflowAsset(v, i) = edge.asset_type
<1> DEFINE ev == Events[v]
           pairs == Pairs(v)
           row(i, from, to, asset, bridge) ==
            [version |-> v, event_index |-> i, from_address |-> from, to_address |-> to,
             asset_type |-> asset, amount |-> ev[i].amount, is_bridge_inflow |-> bridge]
<1>0. v \in Nat /\ \A i \in DOMAIN ev : i \in Nat /\ ev[i] \in Event
  BY VersionsFact, EventFact
<1>1. CASE \E w \in DOMAIN pairs :
             edge = row(w, ev[w].address, ev[pairs[w]].address,
                        IF ev[w].asset # None THEN ev[w].asset ELSE ev[pairs[w]].asset,
                        \E i \in IndicesOf(v, "bridge") :
                           /\ ev[i].address = ev[pairs[w]].address
                           /\ ev[i].amount = ev[pairs[w]].amount)
  <2>1. PICK w \in DOMAIN pairs, bridge \in BOOLEAN :
           edge = row(w, ev[w].address, ev[pairs[w]].address,
                      IF ev[w].asset # None THEN ev[w].asset ELSE ev[pairs[w]].asset, bridge)
    BY <1>1
  <2>2. pairs \in Pairing(v)
    BY PairsFact
  <2>3. w \in IndicesOf(v, "withdraw") /\ pairs[w] \in IndicesOf(v, "deposit")
    BY <2>1, <2>2 DEF Pairing
  <2>4. w \in DOMAIN ev /\ pairs[w] \in DOMAIN ev
    BY <2>3, IndicesFact
  <2>5. ev[w] \in Event /\ ev[pairs[w]] \in Event /\ w \in Nat
    BY <1>0, <2>4
  <2>6. edge \in EdgeRow /\ edge.version = v /\ edge.event_index = w
    BY <1>0, <2>1, <2>5 DEF EdgeRow, Event
  <2>7. ASSUME AssetsAgree, edge.asset_type # None, NEW i \in IndicesOf(v, "bridge"),
               ev[i].address = edge.to_address, ev[i].amount = edge.amount
        PROVE  InflowAsset(v, i) = edge.asset_type
    <3>1. /\ edge.to_address = ev[pairs[w]].address /\ edge.amount = ev[w].amount
          /\ edge.asset_type = IF ev[w].asset # None THEN ev[w].asset ELSE ev[pairs[w]].asset
      BY <2>1
    <3>2. (IF ev[w].asset # None THEN ev[w].asset ELSE ev[pairs[w]].asset)
             \in {None, InflowAsset(v, i)}
      BY <2>1, <2>7, <3>1 DEF AssetsAgree
    <3> QED BY <2>7, <3>1, <3>2
  <2> QED BY <2>4, <2>6, <2>7
<1>2. CASE \E j \in IndicesOf(v, "bridge") :
             edge = row(j, BridgeModule, ev[j].address, InflowAsset(v, j), TRUE)
  <2>1. PICK j \in IndicesOf(v, "bridge") :
           edge = row(j, BridgeModule, ev[j].address, InflowAsset(v, j), TRUE)
    BY <1>2
  <2>2. j \in DOMAIN ev /\ j \in Nat /\ ev[j] \in Event
    BY <1>0, IndicesFact
  <2>3. BridgeModule \in Addresses /\ InflowAsset(v, j) \in Assets \cup {None}
    BY InflowFact, EvmSourcesAssumption
  <2>4. edge \in EdgeRow /\ edge.version = v /\ edge.event_index = j
    BY <1>0, <2>1, <2>2, <2>3 DEF EdgeRow, Event
  <2>5. ASSUME NEW i \in IndicesOf(v, "bridge"),
               ev[i].address = edge.to_address, ev[i].amount = edge.amount
        PROVE  InflowAsset(v, i) = edge.asset_type
    <3>1. /\ ev[i].address = ev[j].address /\ ev[i].amount = ev[j].amount
          /\ edge.asset_type = InflowAsset(v, j)
      BY <2>1, <2>5
    <3>2. {d \in IndicesOf(v, "deposit") :
             /\ ev[d].address = ev[i].address /\ ev[d].amount = ev[i].amount
             /\ ev[d].asset # None}
          = {d \in IndicesOf(v, "deposit") :
             /\ ev[d].address = ev[j].address /\ ev[d].amount = ev[j].amount
             /\ ev[d].asset # None}
      BY <3>1
    <3>3. InflowAsset(v, i) = InflowAsset(v, j)
      BY <3>2, Zenon DEF InflowAsset
    <3> QED BY <3>1, <3>3
  <2> QED BY <2>2, <2>4, <2>5
<1> QED BY <1>1, <1>2 DEF EdgesOf

LEMMA SortedEdgesFact ==
    ASSUME NEW v \in Versions
    PROVE  /\ SortedEdges[v] \in Seq(EdgeRow)
           /\ \A n \in 1 .. Len(SortedEdges[v]) : SortedEdges[v][n] \in EdgesOf(v)
           /\ \A m, n \in 1 .. Len(SortedEdges[v]) :
                 m < n => SortedEdges[v][m].event_index < SortedEdges[v][n].event_index
           /\ \A e \in EdgesOf(v) : \E n \in 1 .. Len(SortedEdges[v]) :
                 SortedEdges[v][n].event_index = e.event_index
<1> DEFINE S == {e.event_index : e \in EdgesOf(v)}
           N == Cardinality(S)
           idx == InOrder(S)
           edge(i) == CHOOSE e \in EdgesOf(v) : e.event_index = i
<1>1. Len(Events[v]) \in Nat /\ S \subseteq 1 .. Len(Events[v])
  BY EventFact, EdgesOfFact
<1>2. S \in SUBSET Nat /\ \A i \in S : i <= Len(Events[v])
  <2> HIDE DEF S
  <2> QED BY <1>1
<1>3. IsFiniteSet(S)
  <2> HIDE DEF S
  <2> QED BY <1>1, <1>2, FS_BoundedSetOfNaturals
<1>4. /\ N \in Nat /\ idx \in [1 .. N -> S] /\ Increasing(idx, N)
      /\ \A x \in S : \E n \in 1 .. N : idx[n] = x
  <2> HIDE DEF S
  <2> QED BY <1>2, <1>3, InOrderFact
<1>5. SortedEdges[v] = [n \in DOMAIN idx |-> edge(idx[n])]
  BY DEF SortedEdges
<1>6. /\ \A i \in S : edge(i) \in EdgesOf(v) /\ edge(i).event_index = i
      /\ \A e \in EdgesOf(v) : e.event_index \in S
  OBVIOUS
<1> HIDE DEF idx, N, S, edge
<1>7. SortedEdges[v] = [n \in 1 .. N |-> edge(idx[n])]
  BY <1>4, <1>5
<1>8. \A n \in 1 .. N : edge(idx[n]) \in EdgesOf(v)
  BY <1>4, <1>6
<1>9. \A n \in 1 .. N : edge(idx[n]) \in EdgeRow
  BY <1>8, EdgesOfFact
<1>10. SortedEdges[v] \in [1 .. N -> EdgeRow]
  BY <1>7, <1>9
<1>11. SortedEdges[v] \in Seq(EdgeRow) /\ Len(SortedEdges[v]) = N
  BY <1>4, <1>10, SeqDef
<1>12. \A n \in 1 .. N : SortedEdges[v][n].event_index = idx[n]
  BY <1>4, <1>6, <1>7
<1>13. \A m, n \in 1 .. N : m < n => SortedEdges[v][m].event_index < SortedEdges[v][n].event_index
  BY <1>4, <1>12 DEF Increasing
<1>14. \A e \in EdgesOf(v) : \E n \in 1 .. N : SortedEdges[v][n].event_index = e.event_index
  BY <1>4, <1>6, <1>12
<1> QED BY <1>7, <1>8, <1>11, <1>13, <1>14

LEMMA BatchEdgesFact ==
    ASSUME NEW s \in Versions, NEW e \in Versions, s <= e
    PROVE  /\ BatchEdges[s][e] \in Seq(EdgeRow)
           /\ \A m \in 1 .. Len(BatchEdges[s][e]) : \E v \in s .. e :
                 v \in Versions /\ BatchEdges[s][e][m] \in EdgesOf(v)
           /\ Range(BatchEdges[s][e]) \subseteq Range(BatchEdges[1][MaxVersion])
<1>1. SortedEdges \in [Versions -> Seq(EdgeRow)]
  <2>1. \A v \in Versions : SortedEdges[v] \in Seq(EdgeRow)
    BY SortedEdgesFact
  <2>2. SortedEdges = [v \in Versions |-> SortedEdges[v]]
    BY DEF SortedEdges
  <2> QED BY <2>1, <2>2
<1>2. PICK b, c : b = BatchEdges[s][e] /\ c = BatchEdges[1][MaxVersion]
  OBVIOUS
<1>3. b \in Seq(EdgeRow) /\ BatchOf(b, SortedEdges, s, e)
  BY <1>1, <1>2, BatchedFact DEF BatchEdges
<1>4. \A v \in s .. e : v \in Versions /\ v \in 1 .. MaxVersion
  BY VersionsFact DEF Versions
<1>5. ASSUME NEW m \in 1 .. Len(b)
      PROVE  \E v \in s .. e : v \in Versions /\ b[m] \in EdgesOf(v)
  <2>1. PICK v \in s .. e : \E j \in 1 .. Len(SortedEdges[v]) : b[m] = SortedEdges[v][j]
    BY <1>3 DEF BatchOf
  <2> QED BY <1>4, <2>1, SortedEdgesFact
<1>6. 1 \in Versions /\ MaxVersion \in Versions /\ 1 <= MaxVersion
  BY VersionsFact DEF Versions
<1>7. c \in Seq(EdgeRow) /\ BatchOf(c, SortedEdges, 1, MaxVersion)
  BY <1>1, <1>2, <1>6, BatchedFact DEF BatchEdges
<1>8. Range(b) \subseteq Range(c)
  <2>1. ASSUME NEW m \in DOMAIN b PROVE b[m] \in Range(c)
    <3>1. m \in 1 .. Len(b)
      BY <1>3
    <3>2. PICK v \in s .. e : \E j \in 1 .. Len(SortedEdges[v]) : b[m] = SortedEdges[v][j]
      BY <1>3, <3>1 DEF BatchOf
    <3>3. PICK q \in 1 .. Len(c) : c[q] = b[m]
      BY <1>4, <1>7, <3>2 DEF BatchOf
    <3>4. q \in DOMAIN c
      BY <1>7
    <3> QED BY <3>3, <3>4 DEF Range
  <2> QED BY <2>1 DEF Range
<1> QED BY <1>2, <1>3, <1>5, <1>8

\* The edge that the extractor adds at the head of an inflow.
HeadEdge(v, i) ==
    [version |-> v, event_index |-> i, from_address |-> BridgeModule,
     to_address |-> Events[v][i].address, asset_type |-> InflowAsset(v, i),
     amount |-> Events[v][i].amount, is_bridge_inflow |-> TRUE]

\* It is the only edge with the index of the inflow's event.
LEMMA HeadEdgeFact ==
    ASSUME NEW v \in Versions, NEW i \in IndicesOf(v, "bridge")
    PROVE  /\ HeadEdge(v, i) \in EdgesOf(v)
           /\ \A edge \in EdgesOf(v) : edge.event_index = i => edge = HeadEdge(v, i)
<1> DEFINE ev == Events[v]
           pairs == Pairs(v)
           row(j, from, to, asset, bridge) ==
            [version |-> v, event_index |-> j, from_address |-> from, to_address |-> to,
             asset_type |-> asset, amount |-> ev[j].amount, is_bridge_inflow |-> bridge]
<1>1. HeadEdge(v, i) = row(i, BridgeModule, ev[i].address, InflowAsset(v, i), TRUE)
  BY DEF HeadEdge
<1>2. HeadEdge(v, i) \in EdgesOf(v)
  BY <1>1 DEF EdgesOf
<1>3. ASSUME NEW edge \in EdgesOf(v), edge.event_index = i PROVE edge = HeadEdge(v, i)
  <2>1. ASSUME NEW w \in DOMAIN pairs, edge.event_index = w PROVE FALSE
    <3>1. w \in IndicesOf(v, "withdraw")
      BY PairsFact DEF Pairing
    <3> QED BY <1>3, <2>1, <3>1, IndicesFact
  <2>2. CASE \E w \in DOMAIN pairs :
               edge = row(w, ev[w].address, ev[pairs[w]].address,
                          IF ev[w].asset # None THEN ev[w].asset ELSE ev[pairs[w]].asset,
                          \E j \in IndicesOf(v, "bridge") :
                             /\ ev[j].address = ev[pairs[w]].address
                             /\ ev[j].amount = ev[pairs[w]].amount)
    BY <2>1, <2>2
  <2>3. CASE \E j \in IndicesOf(v, "bridge") :
               edge = row(j, BridgeModule, ev[j].address, InflowAsset(v, j), TRUE)
    BY <1>1, <1>3, <2>3
  <2> QED BY <2>2, <2>3 DEF EdgesOf
<1> QED BY <1>2, <1>3

\* Where the event of an edge is in the chain, and the order of the edges by it.
Ord(edge) == seen_ord(edge.version, edge.event_index)
ChainOrder == {p \in EdgeRow \X EdgeRow : Before(Ord(p[1]), Ord(p[2]))}

LEMMA BatchedOrdered ==
    ASSUME NEW S, NEW R, NEW table \in [Versions -> Seq(S)],
           NEW s \in Versions, NEW e \in Versions, s <= e,
           \A v \in Versions : OrderedBy(table[v], R),
           \A v, w \in Versions : v < w => AllBefore(table[v], table[w], R)
    PROVE  OrderedBy(Batched(table)[s][e], R)
<1> DEFINE N == e - s + 1
           ss == [n \in 1 .. N |-> table[s + n - 1]]
<1>1. s \in Nat /\ e \in Nat /\ N \in Nat /\ MaxVersion \in Nat /\ Versions = 1 .. MaxVersion
  BY VersionsFact DEF Versions
<1>2. /\ \A n \in 1 .. N : s + n - 1 \in Versions
      /\ \A m, n \in 1 .. N : m < n => s + m - 1 < s + n - 1
  BY <1>1
<1>3. ss \in [1 .. N -> Seq(S)]
  BY <1>2
<1>4. ss \in Seq(Seq(S)) /\ Len(ss) = N
  <2>1. ASSUME NEW X, X = Seq(S) PROVE ss \in Seq(X) /\ Len(ss) = N
    <3>1. ss \in [1 .. N -> X]
      BY <1>3, <2>1
    <3> HIDE <2>1
    <3> HIDE DEF ss
    <3> QED BY <1>1, <3>1, SeqDef
  <2> QED BY <2>1
<1>5. Batched(table)[s][e] = FlattenSeq(ss)
  BY DEF Batched
<1>6. \A n \in 1 .. N : ss[n] = table[s + n - 1]
  OBVIOUS
<1> HIDE DEF ss, N
<1>7. \A n \in 1 .. N : OrderedBy(ss[n], R)
  BY <1>2, <1>6
<1>8. \A m, n \in 1 .. N : m < n => AllBefore(ss[m], ss[n], R)
  BY <1>2, <1>6
<1> QED BY <1>4, <1>5, <1>7, <1>8, FlattenOrdered

\* The edges of a batch are in the order of the chain, the head edges among them.
LEMMA BatchEdgesOrder ==
    ASSUME NEW s \in Versions, NEW e \in Versions, s <= e
    PROVE  /\ OrderedBy(BatchEdges[s][e], ChainOrder)
           /\ \A k \in InflowKeys : k[1] \in s .. e =>
                 \E m \in 1 .. Len(BatchEdges[s][e]) : BatchEdges[s][e][m] = HeadEdge(k[1], k[2])
<1>1. SortedEdges \in [Versions -> Seq(EdgeRow)]
  <2>1. \A v \in Versions : SortedEdges[v] \in Seq(EdgeRow)
    BY SortedEdgesFact
  <2>2. SortedEdges = [v \in Versions |-> SortedEdges[v]]
    BY DEF SortedEdges
  <2> QED BY <2>1, <2>2
<1>2. ASSUME NEW v \in Versions, NEW n \in 1 .. Len(SortedEdges[v])
      PROVE  /\ SortedEdges[v][n] \in EdgeRow /\ SortedEdges[v][n].version = v
             /\ SortedEdges[v][n].version \in Nat /\ SortedEdges[v][n].event_index \in Nat
  <2>1. SortedEdges[v][n] \in EdgesOf(v)
    BY SortedEdgesFact
  <2>2. SortedEdges[v][n] \in EdgeRow /\ SortedEdges[v][n].version = v
    BY <2>1, EdgesOfFact
  <2> QED BY <2>2 DEF EdgeRow
<1>3. ASSUME NEW v \in Versions PROVE OrderedBy(SortedEdges[v], ChainOrder)
  <2> SUFFICES ASSUME NEW m \in 1 .. Len(SortedEdges[v]), NEW n \in 1 .. Len(SortedEdges[v]), m < n
               PROVE  <<SortedEdges[v][m], SortedEdges[v][n]>> \in ChainOrder
    BY DEF OrderedBy
  <2>1. PICK x, y : x = SortedEdges[v][m] /\ y = SortedEdges[v][n]
    OBVIOUS
  <2>2. x.event_index < y.event_index
    BY <2>1, SortedEdgesFact
  <2>3. x \in EdgeRow /\ y \in EdgeRow /\ x.version = v /\ y.version = v
    BY <1>2, <2>1
  <2>4. Before(Ord(x), Ord(y))
    BY <2>2, <2>3 DEF Before, Ord, seen_ord
  <2> QED BY <2>1, <2>3, <2>4 DEF ChainOrder
<1>4. ASSUME NEW v \in Versions, NEW w \in Versions, v < w
      PROVE  AllBefore(SortedEdges[v], SortedEdges[w], ChainOrder)
  <2> SUFFICES ASSUME NEW m \in 1 .. Len(SortedEdges[v]), NEW n \in 1 .. Len(SortedEdges[w])
               PROVE  <<SortedEdges[v][m], SortedEdges[w][n]>> \in ChainOrder
    BY DEF AllBefore
  <2>1. PICK x, y : x = SortedEdges[v][m] /\ y = SortedEdges[w][n]
    OBVIOUS
  <2>2. x \in EdgeRow /\ y \in EdgeRow /\ x.version = v /\ y.version = w
    BY <1>2, <2>1
  <2>3. Before(Ord(x), Ord(y))
    BY <1>4, <2>2 DEF Before, Ord, seen_ord
  <2> QED BY <2>1, <2>2, <2>3 DEF ChainOrder
<1>5. OrderedBy(BatchEdges[s][e], ChainOrder)
  BY <1>1, <1>3, <1>4, BatchedOrdered DEF BatchEdges
<1>6. ASSUME NEW k \in InflowKeys, k[1] \in s .. e
      PROVE  \E m \in 1 .. Len(BatchEdges[s][e]) : BatchEdges[s][e][m] = HeadEdge(k[1], k[2])
  <2>1. PICK v, i : v = k[1] /\ i = k[2]
    OBVIOUS
  <2>2. v \in Versions /\ i \in IndicesOf(v, "bridge")
    BY <2>1, InflowKeysFact
  <2>3. /\ HeadEdge(v, i) \in EdgesOf(v) /\ HeadEdge(v, i).event_index = i
        /\ \A edge \in EdgesOf(v) : edge.event_index = i => edge = HeadEdge(v, i)
    BY <2>2, HeadEdgeFact DEF HeadEdge
  <2>4. PICK n \in 1 .. Len(SortedEdges[v]) : SortedEdges[v][n].event_index = i
    BY <2>2, <2>3, SortedEdgesFact
  <2>5. SortedEdges[v][n] = HeadEdge(v, i)
    BY <2>2, <2>3, <2>4, SortedEdgesFact
  <2>6. BatchOf(BatchEdges[s][e], SortedEdges, s, e)
    BY <1>1, BatchedFact DEF BatchEdges
  <2> QED BY <1>6, <2>1, <2>5, <2>6 DEF BatchOf
<1> QED BY <1>5, <1>6
------------------------------------------------------------------------------
(***************************************************************************)
(* The rollup.                                                             *)
(***************************************************************************)
\* Bridges do not deliver nothing.
AmountsPositive == \A k \in InflowKeys : Events[k[1]][k[2]].amount > 0

\* The amounts of inflows.
Amounts == {n \in Nat : AmountsPositive => n > 0}
Ords == Nat \X Nat

RowOk(row) ==
    /\ row \in SourceRow
    /\ ~Before(row.last_seen_ord, row.first_seen_ord)
    /\ AmountsPositive => (row.hops_min = 0 <=> row.evm_fund > 0)

Rollup ==
    {aes \in [Sources -> SourceRow \cup {None}] :
        \A k \in Sources : aes[k] # None => RowOk(aes[k])}

\* What bridge inflows brought.
FundOf(row) == IF row = None THEN 0 ELSE row.evm_fund

\* A stored inflow is behind the source k.
InflowTrace(bi, k) ==
    \E j \in InflowKeys : /\ bi[j] # None /\ bi[j].aptos_recipient = k[1]
                          /\ bi[j].asset_type = k[2] /\ bi[j].evm_source = k[3]

\* A transfer from an address with fewer hops is behind the source k.
EdgeTrace(aes, edges, k) ==
    \E edge \in edges :
        /\ edge.to_address = k[1] /\ edge.asset_type = k[2] /\ ~edge.is_bridge_inflow
        /\ aes[<<edge.from_address, k[2], k[3]>>] # None
        /\ aes[<<edge.from_address, k[2], k[3]>>].hops_min < aes[k].hops_min

Traced(aes, bi, edges) ==
    \A k \in Sources : aes[k] # None => InflowTrace(bi, k) \/ EdgeTrace(aes, edges, k)

LEMMA OrdFact ==
    ASSUME NEW o \in Nat \X Nat, NEW p \in Nat \X Nat, NEW q \in Nat \X Nat, ~Before(p, o)
    PROVE  /\ Earliest(o, q) \in Nat \X Nat /\ Latest(p, q) \in Nat \X Nat
           /\ ~Before(Latest(p, q), Earliest(o, q))
BY DEF Before, Earliest, Latest

LEMMA BridgeSeedFact ==
    ASSUME NEW row \in SourceRow \cup {None}, row # None => RowOk(row),
           NEW amount \in Amounts, NEW ord \in Nat \X Nat
    PROVE  RowOk(BridgeSeed(row, amount, ord)) /\ BridgeSeed(row, amount, ord).hops_min = 0
<1>1. ~Before(ord, ord)
  BY DEF Before
<1>0. amount \in Nat /\ (AmountsPositive => amount > 0)
  BY DEF Amounts
<1>2. CASE row = None
  BY <1>0, <1>1, <1>2 DEF BridgeSeed, RowOk, SourceRow
<1>3. CASE row # None
  <2> DEFINE first == Earliest(row.first_seen_ord, ord)
             last == Latest(row.last_seen_ord, ord)
  <2>1. /\ row.evm_fund \in Nat /\ row.first_seen_ord \in Nat \X Nat
        /\ row.last_seen_ord \in Nat \X Nat /\ ~Before(row.last_seen_ord, row.first_seen_ord)
    BY <1>3 DEF RowOk, SourceRow
  <2>2. first \in Nat \X Nat /\ last \in Nat \X Nat /\ ~Before(last, first)
    BY <2>1, OrdFact
  <2>3. BridgeSeed(row, amount, ord) = [evm_fund |-> row.evm_fund + amount,
            first_seen_ord |-> first, last_seen_ord |-> last, hops_min |-> 0]
    BY <1>3 DEF BridgeSeed
  <2> HIDE DEF first, last
  <2> QED BY <1>0, <2>1, <2>2, <2>3 DEF RowOk, SourceRow
<1> QED BY <1>2, <1>3

LEMMA TransferShareFact ==
    ASSUME NEW row \in SourceRow \cup {None}, row # None => RowOk(row),
           NEW hops \in Nat \ {0}, NEW ord \in Nat \X Nat
    PROVE  LET new == TransferShare(row, hops, ord) IN
           /\ RowOk(new)
           /\ row = None => new.hops_min = hops
           /\ row # None => /\ new.hops_min <= row.hops_min
                            /\ new.hops_min \in {row.hops_min, hops}
           /\ new.evm_fund = FundOf(row)
<1>1. ~Before(ord, ord)
  BY DEF Before
<1>2. CASE row = None
  BY <1>1, <1>2 DEF TransferShare, RowOk, SourceRow, FundOf
<1>3. CASE row # None
  <2> DEFINE first == Earliest(row.first_seen_ord, ord)
             last == Latest(row.last_seen_ord, ord)
             least == Min({row.hops_min, hops})
  <2>1. /\ row.evm_fund \in Nat /\ row.first_seen_ord \in Nat \X Nat
        /\ row.last_seen_ord \in Nat \X Nat /\ ~Before(row.last_seen_ord, row.first_seen_ord)
        /\ row.hops_min \in Nat /\ (AmountsPositive => (row.hops_min = 0 <=> row.evm_fund > 0))
    BY <1>3 DEF RowOk, SourceRow
  <2>2. first \in Nat \X Nat /\ last \in Nat \X Nat /\ ~Before(last, first)
    BY <2>1, OrdFact
  <2>3. least \in {row.hops_min, hops} /\ \A n \in {row.hops_min, hops} : least <= n
    <3>1. {row.hops_min, hops} \in SUBSET Nat /\ {row.hops_min, hops} # {}
      BY <2>1
    <3> QED BY <3>1, MinFact
  <2>4. TransferShare(row, hops, ord) = [evm_fund |-> row.evm_fund,
            first_seen_ord |-> first, last_seen_ord |-> last, hops_min |-> least]
    BY <1>3 DEF TransferShare
  <2> HIDE DEF first, last, least
  <2>5. least \in Nat /\ least <= row.hops_min /\ (least = 0 <=> row.hops_min = 0)
    BY <2>1, <2>3
  <2> QED BY <1>3, <2>1, <2>2, <2>3, <2>4, <2>5 DEF RowOk, SourceRow, FundOf
<1> QED BY <1>2, <1>3

\* The EVM source of an edge is that of an inflow of the batch.
LEMMA EvmOfFact ==
    ASSUME NEW s \in Versions, NEW e \in Versions, s <= e, NEW edge
    PROVE  LET evm == EvmOf(edge, BatchInflows[s][e]) IN
           /\ evm \in Evms \cup {None}
           /\ evm # None => edge.amount \in Amounts
           /\ evm # None => \E k \in InflowKeys :
                 /\ k[1] \in s .. e /\ k[1] = edge.version
                 /\ Events[k[1]][k[2]].address = edge.to_address
                 /\ Events[k[1]][k[2]].amount = edge.amount
                 /\ Events[k[1]][k[2]].evm = evm
<1>1. PICK b : b = BatchInflows[s][e]
  OBVIOUS
<1>2. b \in Seq(InflowRow) /\ \A m \in 1 .. Len(b) : b[m] \in InflowsOf(s, e)
  BY <1>1, BatchInflowsFact
<1> DEFINE found == {n \in DOMAIN b : /\ b[n].version = edge.version
                                      /\ b[n].aptos_recipient = edge.to_address
                                      /\ b[n].amount = edge.amount}
<1>3. EvmOf(edge, b) = IF found = {} THEN None ELSE b[Min(found)].evm_source
  BY DEF EvmOf
<1>4. CASE found = {}
  BY <1>1, <1>3, <1>4
<1>5. CASE found # {}
  <2>1. found \in SUBSET Nat
    BY <1>2
  <2>2. PICK n \in found : n = Min(found)
    <3> HIDE DEF found
    <3> QED BY <1>5, <2>1, MinFact
  <2>3. b[n] \in InflowsOf(s, e)
    BY <1>2
  <2>4. PICK k \in InflowKeys : k[1] \in s .. e /\ b[n] = Inflow(k[1], k[2])
    BY <2>3 DEF InflowsOf
  <2>5. EvmOf(edge, b) = Events[k[1]][k[2]].evm
    BY <1>3, <1>5, <2>2, <2>4 DEF Inflow
  <2>6. Events[k[1]][k[2]].evm \in Evms \cup {None}
    BY InflowKeysFact, IndicesFact DEF Event
  <2>7. /\ k[1] = edge.version /\ Events[k[1]][k[2]].address = edge.to_address
        /\ Events[k[1]][k[2]].amount = edge.amount
    BY <2>2, <2>4 DEF Inflow
  <2>8. edge.amount \in Amounts
    <3>1. Events[k[1]][k[2]].amount \in Nat
      BY InflowKeysFact, IndicesFact DEF Event
    <3> QED BY <2>7, <3>1 DEF Amounts, AmountsPositive
  <2> HIDE DEF found
  <2> QED BY <1>1, <2>4, <2>5, <2>6, <2>7, <2>8
<1> QED BY <1>4, <1>5

\* The bridge names the same sender for the inflows of a transaction that agree
\* in recipient and amount: the storer takes the first of them for each.
SendersAgree ==
    \A k, j \in InflowKeys :
        LET p == Events[k[1]][k[2]]
            q == Events[j[1]][j[2]]
        IN k[1] = j[1] /\ p.address = q.address /\ p.amount = q.amount => p.evm = q.evm

\* Then the EVM source of a head edge is that of its inflow.
LEMMA EvmOfHead ==
    ASSUME SendersAgree, NEW s \in Versions, NEW e \in Versions, s <= e,
           NEW k \in InflowKeys, k[1] \in s .. e
    PROVE  EvmOf(HeadEdge(k[1], k[2]), BatchInflows[s][e]) = Events[k[1]][k[2]].evm
<1>1. PICK b, edge : b = BatchInflows[s][e] /\ edge = HeadEdge(k[1], k[2])
  OBVIOUS
<1>2. /\ b \in Seq(InflowRow) /\ \A m \in 1 .. Len(b) : b[m] \in InflowsOf(s, e)
      /\ \E m \in 1 .. Len(b) : b[m] = Inflow(k[1], k[2])
  BY <1>1, BatchInflowsFact
<1> DEFINE found == {n \in DOMAIN b : /\ b[n].version = edge.version
                                      /\ b[n].aptos_recipient = edge.to_address
                                      /\ b[n].amount = edge.amount}
<1>3. EvmOf(edge, b) = IF found = {} THEN None ELSE b[Min(found)].evm_source
  BY DEF EvmOf
<1>4. /\ edge.version = k[1] /\ edge.to_address = Events[k[1]][k[2]].address
      /\ edge.amount = Events[k[1]][k[2]].amount
  BY <1>1 DEF HeadEdge
<1>5. found # {} /\ found \in SUBSET Nat
  <2>1. PICK m \in 1 .. Len(b) : b[m] = Inflow(k[1], k[2])
    BY <1>2
  <2>2. m \in found
    BY <1>2, <1>4, <2>1 DEF Inflow
  <2> QED BY <1>2, <2>2
<1>6. PICK n \in found : n = Min(found)
  <2> HIDE DEF found
  <2> QED BY <1>5, MinFact
<1>7. PICK j \in InflowKeys : b[n] = Inflow(j[1], j[2])
  <2>1. b[n] \in InflowsOf(s, e)
    BY <1>2
  <2> QED BY <2>1 DEF InflowsOf
<1>8. /\ j[1] = k[1] /\ Events[j[1]][j[2]].address = Events[k[1]][k[2]].address
      /\ Events[j[1]][j[2]].amount = Events[k[1]][k[2]].amount
      /\ b[n].evm_source = Events[j[1]][j[2]].evm
  <2>1. /\ b[n].version = edge.version /\ b[n].aptos_recipient = edge.to_address
        /\ b[n].amount = edge.amount
    OBVIOUS
  <2> HIDE DEF found
  <2> QED BY <1>4, <1>7, <2>1 DEF Inflow
<1> HIDE DEF found
<1>9. Events[j[1]][j[2]].evm = Events[k[1]][k[2]].evm
  BY <1>8 DEF SendersAgree
<1> QED BY <1>1, <1>3, <1>5, <1>6, <1>8, <1>9

LEMMA SourcesFact ==
    /\ \A k \in Sources : /\ k = <<k[1], k[2], k[3]>>
                          /\ k[1] \in Addresses /\ k[2] \in Assets /\ k[3] \in Evms
    /\ \A a \in Addresses, s \in Assets, e \in Evms : <<a, s, e>> \in Sources
BY DEF Sources

\* A seed of the row k.
Seeded(new, k) == RowOk(new[k]) /\ new[k].hops_min = 0

\* The row k after a transfer from the address from.
Shared(aes, new, k, from) ==
    LET source == aes[<<from, k[2], k[3]>>] IN
    /\ source # None /\ RowOk(new[k]) /\ new[k].evm_fund = FundOf(aes[k])
    /\ aes[k] = None => new[k].hops_min = source.hops_min + 1
    /\ aes[k] # None => /\ new[k].hops_min <= aes[k].hops_min
                        /\ new[k].hops_min \in {aes[k].hops_min, source.hops_min + 1}

LEMMA PropagateFact ==
    ASSUME NEW aes \in Rollup, NEW edge \in EdgeRow, edge.asset_type # None
    PROVE  LET new == PropagateEvmSources(aes, edge) IN
           /\ new \in Rollup
           /\ \A k \in Sources : new[k] # aes[k] =>
                 /\ k[1] = edge.to_address /\ k[2] = edge.asset_type
                 /\ Shared(aes, new, k, edge.from_address)
<1> DEFINE from(e) == aes[<<edge.from_address, edge.asset_type, e>>]
           src == {e \in Evms : from(e) # None}
           ord == seen_ord(edge.version, edge.event_index)
           In(k) == k[1] = edge.to_address /\ k[2] = edge.asset_type /\ k[3] \in src
           row(k) == IF In(k) THEN TransferShare(aes[k], Hops(from(k[3])), ord) ELSE aes[k]
           spread == [k \in Sources |-> row(k)]
           new == PropagateEvmSources(aes, edge)
<1>1. new = IF \A e \in src : from(e).evm_fund = 0 THEN aes ELSE spread
  BY DEF PropagateEvmSources
<1>2. /\ edge.from_address \in Addresses /\ edge.asset_type \in Assets
      /\ edge.to_address \in Addresses /\ ord \in Nat \X Nat
  BY DEF EdgeRow, seen_ord
<1>3. /\ aes \in [Sources -> SourceRow \cup {None}]
      /\ \A k \in Sources : aes[k] # None => RowOk(aes[k])
  BY DEF Rollup
<1>4. ASSUME NEW e \in src PROVE from(e) # None /\ Hops(from(e)) = from(e).hops_min + 1
                                 /\ Hops(from(e)) \in Nat \ {0}
  <2>1. <<edge.from_address, edge.asset_type, e>> \in Sources
    BY <1>2, SourcesFact
  <2>2. from(e) # None /\ from(e) \in SourceRow
    BY <1>3, <2>1 DEF RowOk
  <2> QED BY <2>2 DEF Hops, SourceRow
<1>5. ASSUME NEW k \in Sources
      PROVE  /\ row(k) \in SourceRow \cup {None}
             /\ row(k) # None => RowOk(row(k))
             /\ row(k) # aes[k] => In(k)
             /\ In(k) => Shared(aes, spread, k, edge.from_address)
  <2>1. CASE In(k)
    <3>1. /\ from(k[3]) # None /\ Hops(from(k[3])) = from(k[3]).hops_min + 1
          /\ Hops(from(k[3])) \in Nat \ {0}
      BY <1>4, <2>1
    <3>2. PICK hops \in Nat \ {0} : hops = Hops(from(k[3]))
      BY <3>1
    <3>3. aes[k] \in SourceRow \cup {None} /\ (aes[k] # None => RowOk(aes[k]))
      BY <1>3
    <3>4. PICK r : r = TransferShare(aes[k], hops, ord)
      OBVIOUS
    <3> HIDE DEF ord
    <3>5. /\ RowOk(r) /\ r.evm_fund = FundOf(aes[k])
          /\ aes[k] = None => r.hops_min = hops
          /\ aes[k] # None => r.hops_min <= aes[k].hops_min /\ r.hops_min \in {aes[k].hops_min, hops}
      BY <1>2, <3>3, <3>4, TransferShareFact
    <3>6. row(k) = r /\ spread[k] = r
      BY <2>1, <3>2, <3>4
    <3>7. r \in SourceRow
      BY <3>5 DEF RowOk
    <3>8. aes[<<edge.from_address, k[2], k[3]>>] = from(k[3])
      BY <2>1
    <3> HIDE DEF row, spread, from
    <3>9. Shared(aes, spread, k, edge.from_address)
      BY <3>1, <3>2, <3>5, <3>6, <3>8 DEF Shared
    <3> QED BY <2>1, <3>5, <3>6, <3>7, <3>9
  <2>2. CASE ~In(k)
    <3>1. row(k) = aes[k]
      BY <2>2
    <3> HIDE DEF row, In
    <3> QED BY <1>3, <2>2, <3>1
  <2> QED BY <2>1, <2>2
<1>6. CASE new = aes
  BY <1>6
<1>7. CASE new = spread
  <2>1. spread \in [Sources -> SourceRow \cup {None}]
    <3> HIDE DEF row
    <3> QED BY <1>5
  <2>2. \A k \in Sources : spread[k] = row(k)
    OBVIOUS
  <2> HIDE DEF spread, row
  <2>3. spread \in Rollup
    BY <1>5, <2>1, <2>2 DEF Rollup
  <2>4. ASSUME NEW k \in Sources, spread[k] # aes[k]
        PROVE  /\ k[1] = edge.to_address /\ k[2] = edge.asset_type
               /\ Shared(aes, spread, k, edge.from_address)
    BY <1>5, <2>2, <2>4
  <2> QED BY <1>7, <2>3, <2>4
<1> QED BY <1>1, <1>6, <1>7

\* The upsert of a seed.
Upserted(aes, new, key, amount, ord) ==
    new = [aes EXCEPT ![key] = BridgeSeed(aes[key], amount, ord)]

LEMMA SeedFact ==
    ASSUME NEW aes \in Rollup, NEW key \in Sources, NEW amount \in Amounts, NEW ord \in Ords,
           NEW new, Upserted(aes, new, key, amount, ord)
    PROVE  /\ new \in Rollup
           /\ \A k \in Sources : new[k] # aes[k] => k = key /\ Seeded(new, k)
<1> DEFINE seed == BridgeSeed(aes[key], amount, ord)
<1>0. new = [aes EXCEPT ![key] = seed]
  BY DEF Upserted
<1>1. /\ aes \in [Sources -> SourceRow \cup {None}]
      /\ \A k \in Sources : aes[k] # None => RowOk(aes[k])
  BY DEF Rollup
<1>2. RowOk(seed) /\ seed.hops_min = 0
  BY <1>1, BridgeSeedFact DEF Ords
<1> HIDE DEF seed
<1>3. seed \in SourceRow
  BY <1>2 DEF RowOk
<1>4. new \in [Sources -> SourceRow \cup {None}]
  BY <1>0, <1>1, <1>3
<1>5. \A k \in Sources : new[k] = IF k = key THEN seed ELSE aes[k]
  BY <1>0, <1>1
<1>6. new \in Rollup
  BY <1>1, <1>2, <1>4, <1>5 DEF Rollup
<1>7. ASSUME NEW k \in Sources, new[k] # aes[k]
      PROVE  k = key /\ Seeded(new, k)
  BY <1>2, <1>5, <1>7 DEF Seeded
<1> QED BY <1>6, <1>7

LEMMA ApplyEdgeFact ==
    ASSUME NEW aes \in Rollup, NEW edge \in EdgeRow, NEW inflows,
           EvmOf(edge, inflows) \in Evms \cup {None},
           EvmOf(edge, inflows) # None => edge.amount \in Amounts
    PROVE  LET new == ApplyEdge(aes, edge, inflows) IN
           /\ new \in Rollup
           /\ \A k \in Sources : new[k] # aes[k] =>
                 /\ edge.asset_type # None
                 /\ k[1] = edge.to_address /\ k[2] = edge.asset_type
                 /\ edge.is_bridge_inflow => k[3] = EvmOf(edge, inflows) /\ Seeded(new, k)
                 /\ ~edge.is_bridge_inflow => Shared(aes, new, k, edge.from_address)
<1>1. PICK evm \in Evms \cup {None} : evm = EvmOf(edge, inflows)
  OBVIOUS
<1>2. PICK new : new = ApplyEdge(aes, edge, inflows)
  OBVIOUS
<1>3. edge.is_bridge_inflow \in BOOLEAN /\ edge.asset_type \in Assets \cup {None}
  BY DEF EdgeRow
<1>4. CASE edge.asset_type = None \/ (edge.is_bridge_inflow /\ evm = None)
  <2>1. new = aes
    BY <1>1, <1>2, <1>4 DEF ApplyEdge
  <2> QED BY <1>2, <2>1
<1>5. CASE edge.asset_type # None /\ edge.is_bridge_inflow /\ evm # None
  <2> DEFINE key == <<edge.to_address, edge.asset_type, evm>>
             ord == seen_ord(edge.version, edge.event_index)
  <2>1. Upserted(aes, new, key, edge.amount, ord)
    BY <1>1, <1>2, <1>5 DEF ApplyEdge, Upserted
  <2>2. edge.to_address \in Addresses /\ edge.asset_type \in Assets /\ evm \in Evms
        /\ edge.amount \in Amounts /\ ord \in Ords
    BY <1>1, <1>5 DEF EdgeRow, seen_ord, Ords
  <2>3. key \in Sources
    BY <2>2, SourcesFact
  <2>4. key[1] = edge.to_address /\ key[2] = edge.asset_type /\ key[3] = evm
    OBVIOUS
  <2> HIDE DEF key, ord
  <2>5. new \in Rollup /\ \A k \in Sources : new[k] # aes[k] => k = key /\ Seeded(new, k)
    BY <2>1, <2>2, <2>3, SeedFact
  <2> QED BY <1>1, <1>2, <1>5, <2>4, <2>5
<1>6. CASE edge.asset_type # None /\ ~edge.is_bridge_inflow
  <2>1. new = PropagateEvmSources(aes, edge)
    BY <1>2, <1>6 DEF ApplyEdge
  <2> QED BY <1>2, <1>6, <2>1, PropagateFact
<1> QED BY <1>3, <1>4, <1>5, <1>6

\* What a step keeps: no row is lost, and no address gets farther from a source.
Kept(aes, new) ==
    \A k \in Sources : aes[k] # None => new[k] # None /\ new[k].hops_min <= aes[k].hops_min

LEMMA ApplyEdgeKept ==
    ASSUME NEW aes \in Rollup, NEW edge \in EdgeRow, NEW inflows,
           EvmOf(edge, inflows) \in Evms \cup {None},
           EvmOf(edge, inflows) # None => edge.amount \in Amounts
    PROVE  ApplyEdge(aes, edge, inflows) \in Rollup /\ Kept(aes, ApplyEdge(aes, edge, inflows))
<1>1. PICK new : new = ApplyEdge(aes, edge, inflows)
  OBVIOUS
<1>2. PICK evm : evm = EvmOf(edge, inflows)
  OBVIOUS
<1>3. /\ new \in Rollup
      /\ \A k \in Sources : new[k] # aes[k] =>
            /\ edge.asset_type # None
            /\ k[1] = edge.to_address /\ k[2] = edge.asset_type
            /\ edge.is_bridge_inflow => k[3] = evm /\ Seeded(new, k)
            /\ ~edge.is_bridge_inflow => Shared(aes, new, k, edge.from_address)
  BY <1>1, <1>2, ApplyEdgeFact
<1>4. \A k \in Sources : /\ aes[k] # None => aes[k].hops_min \in Nat
                         /\ new[k] # None => new[k].hops_min \in Nat
  BY <1>3 DEF Rollup, RowOk, SourceRow
<1>5. \A k \in Sources : RowOk(new[k]) => new[k] # None
  BY EvmSourcesAssumption DEF RowOk
<1>6. Kept(aes, new)
  <2> SUFFICES ASSUME NEW k \in Sources, aes[k] # None
               PROVE  new[k] # None /\ new[k].hops_min <= aes[k].hops_min
    BY DEF Kept
  <2>1. CASE new[k] = aes[k]
    BY <1>4, <2>1
  <2>2. CASE new[k] # aes[k] /\ edge.is_bridge_inflow
    BY <1>3, <1>4, <1>5, <2>2 DEF Seeded
  <2>3. CASE new[k] # aes[k] /\ ~edge.is_bridge_inflow
    BY <1>3, <1>4, <1>5, <2>3 DEF Shared
  <2> QED BY <2>1, <2>2, <2>3
<1> QED BY <1>1, <1>3, <1>6

\* Traces stay when hop counts only fall and every row that is new, or has a
\* lower one, has a trace of its own.
LEMMA TraceKept ==
    ASSUME NEW aes \in Rollup, NEW new \in Rollup, NEW bi, NEW edges \in SUBSET EdgeRow,
           Traced(aes, bi, edges),
           Kept(aes, new),
           \A k \in Sources : new[k] # None =>
              \/ aes[k] # None /\ new[k].hops_min = aes[k].hops_min
              \/ InflowTrace(bi, k)
              \/ EdgeTrace(new, edges, k)
    PROVE  Traced(new, bi, edges)
<1>1. \A k \in Sources : /\ aes[k] # None => aes[k].hops_min \in Nat
                         /\ new[k] # None => new[k].hops_min \in Nat
  BY DEF Rollup, RowOk, SourceRow
<1>2. ASSUME NEW k \in Sources, new[k] # None
      PROVE  InflowTrace(bi, k) \/ EdgeTrace(new, edges, k)
  <2>1. k = <<k[1], k[2], k[3]>> /\ k[2] \in Assets /\ k[3] \in Evms
    BY SourcesFact
  <2>2. ASSUME aes[k] # None, new[k].hops_min = aes[k].hops_min, EdgeTrace(aes, edges, k)
        PROVE  EdgeTrace(new, edges, k)
    <3>1. PICK f \in edges :
             /\ f.to_address = k[1] /\ f.asset_type = k[2] /\ ~f.is_bridge_inflow
             /\ aes[<<f.from_address, k[2], k[3]>>] # None
             /\ aes[<<f.from_address, k[2], k[3]>>].hops_min < aes[k].hops_min
      BY <2>2 DEF EdgeTrace
    <3>2. PICK s : s = <<f.from_address, k[2], k[3]>>
      OBVIOUS
    <3>3. s \in Sources
      BY <2>1, <3>2, SourcesFact DEF EdgeRow
    <3>4. aes[s] # None /\ aes[s].hops_min < aes[k].hops_min
      BY <3>1, <3>2
    <3>5. new[s] # None /\ new[s].hops_min < new[k].hops_min
      BY <1>1, <1>2, <2>2, <3>3, <3>4 DEF Kept
    <3> QED BY <3>1, <3>2, <3>5 DEF EdgeTrace
  <2> QED BY <1>2, <2>2 DEF Traced
<1> QED BY <1>2 DEF Traced

\* What a step of the loop does to the traces of the rows.
LEMMA ApplyEdgeTraced ==
    ASSUME NEW aes \in Rollup, NEW edge \in EdgeRow, NEW inflows, NEW bi,
           NEW edges \in SUBSET EdgeRow, edge \in edges,
           EvmOf(edge, inflows) \in Evms \cup {None},
           EvmOf(edge, inflows) # None => edge.amount \in Amounts,
           edge.is_bridge_inflow /\ edge.asset_type # None /\ EvmOf(edge, inflows) # None =>
              InflowTrace(bi, <<edge.to_address, edge.asset_type, EvmOf(edge, inflows)>>),
           Traced(aes, bi, edges)
    PROVE  Traced(ApplyEdge(aes, edge, inflows), bi, edges)
<1>1. PICK new : new = ApplyEdge(aes, edge, inflows)
  OBVIOUS
<1>2. PICK evm : evm = EvmOf(edge, inflows)
  OBVIOUS
<1>3. /\ new \in Rollup
      /\ \A k \in Sources : new[k] # aes[k] =>
            /\ edge.asset_type # None
            /\ k[1] = edge.to_address /\ k[2] = edge.asset_type
            /\ edge.is_bridge_inflow => k[3] = evm /\ Seeded(new, k)
            /\ ~edge.is_bridge_inflow => Shared(aes, new, k, edge.from_address)
  BY <1>1, <1>2, ApplyEdgeFact
<1>4. \A k \in Sources : /\ aes[k] # None => aes[k].hops_min \in Nat
                         /\ new[k] # None => new[k].hops_min \in Nat
  BY <1>3 DEF Rollup, RowOk, SourceRow
<1>5. Kept(aes, new)
  BY <1>1, ApplyEdgeKept
<1>6. ASSUME NEW k \in Sources, new[k] # None
      PROVE  \/ aes[k] # None /\ new[k].hops_min = aes[k].hops_min
             \/ InflowTrace(bi, k)
             \/ EdgeTrace(new, edges, k)
  <2>0. k = <<k[1], k[2], k[3]>> /\ k[2] \in Assets /\ k[3] \in Evms
    BY SourcesFact
  <2>1. CASE new[k] # aes[k] /\ edge.is_bridge_inflow
    <3>1. k[3] = evm /\ k = <<edge.to_address, edge.asset_type, evm>> /\ edge.asset_type # None
      BY <1>3, <2>0, <2>1
    <3>2. evm # None
      BY <2>0, <3>1, EvmSourcesAssumption
    <3> QED BY <1>2, <2>1, <3>1, <3>2
  <2>2. CASE new[k] # aes[k] /\ ~edge.is_bridge_inflow
             /\ ~(aes[k] # None /\ new[k].hops_min = aes[k].hops_min)
    <3>1. PICK s : s = <<edge.from_address, k[2], k[3]>>
      OBVIOUS
    <3>2. s \in Sources
      BY <2>0, <3>1, SourcesFact DEF EdgeRow
    <3>3. /\ k[1] = edge.to_address /\ k[2] = edge.asset_type
          /\ aes[s] # None /\ new[k].hops_min = aes[s].hops_min + 1
      BY <1>3, <2>2, <3>1 DEF Shared
    <3>4. new[s] # None /\ new[s].hops_min < new[k].hops_min
      BY <1>4, <1>5, <3>2, <3>3 DEF Kept
    <3> QED BY <2>2, <3>1, <3>3, <3>4 DEF EdgeTrace
  <2> QED BY <1>6, <2>1, <2>2
<1> QED BY <1>1, <1>3, <1>5, <1>6, TraceKept

------------------------------------------------------------------------------
(***************************************************************************)
(* The inductive invariant.                                                *)
(***************************************************************************)
Future == [guid : Guids, count : Nat, evm : Evms \cup {None}, seeds : SUBSET InflowKeys]

\* A future that holds an answer has written it to the rows of its seeds.
FutureOk(f, bi) ==
    /\ f \in Future /\ f.count < MaxRetries
    /\ f.seeds # {} <=> f.evm # None
    /\ \A k \in f.seeds : /\ bi[k] # None /\ bi[k].asset_type # None
                          /\ bi[k].evm_source = f.evm

\* A row of bridge_inflows is the inflow of its event, whose EVM address it
\* keeps if the event has one.
RowOfEvent(row, k) ==
    LET e == Events[k[1]][k[2]] IN
    /\ row \in InflowRow
    /\ row.version = k[1] /\ row.event_index = k[2] /\ row.aptos_recipient = e.address
    /\ row.asset_type = InflowAsset(k[1], k[2]) /\ row.amount = e.amount
    /\ row.lz_guid = e.guid
    /\ e.evm # None => row.evm_source = e.evm

InflowTable ==
    {bi \in [InflowKeys -> InflowRow \cup {None}] :
        \A k \in InflowKeys : bi[k] # None => RowOfEvent(bi[k], k)}

HasRow(g, bi) == \E k \in InflowKeys : bi[k] # None /\ bi[k].lz_guid = g

ProcessInv ==
    /\ processor_status \in Versions \cup {None}
    /\ running \in BOOLEAN /\ starts \in 0 .. MaxStarts /\ loading \in BOOLEAN
    /\ next_version \in 1 .. MaxVersion + 1
    /\ storing \in Versions \cup {None}
    /\ last_success_batch \in Versions \cup {None}
    /\ abandoned \subseteq Guids

TableInv ==
    /\ address_transfer_edges \subseteq Range(BatchEdges[1][MaxVersion])
    /\ bridge_inflows \in InflowTable
    /\ address_evm_sources \in Rollup

\* The GUIDs of a queue have a row.
Queued(q, bi) == q \in Seq(Guids) /\ \A n \in DOMAIN q : HasRow(q[n], bi)

QueueInv ==
    /\ Queued(pending_guids, bridge_inflows) /\ Queued(guid_queue, bridge_inflows)
    /\ storing = None => pending_guids = <<>>

FuturesInv ==
    /\ IsABag(futures)
    /\ \A f \in BagToSet(futures) :
          FutureOk(f, bridge_inflows) /\ HasRow(f.guid, bridge_inflows)

IInv == ProcessInv /\ TableInv /\ QueueInv /\ FuturesInv

\* Every row of the rollup has a trace.
TraceInv == Traced(address_evm_sources, bridge_inflows, address_transfer_edges)

\* What every step keeps of the rows of bridge_inflows: an EVM address is
\* written once.
Grows(bi, new) ==
    \A k \in InflowKeys : bi[k] # None =>
        /\ new[k] # None /\ new[k].lz_guid = bi[k].lz_guid
        /\ new[k].asset_type = bi[k].asset_type
        /\ new[k].aptos_recipient = bi[k].aptos_recipient
        /\ bi[k].evm_source # None => new[k].evm_source = bi[k].evm_source

LEMMA GrowsFact ==
    ASSUME NEW bi, NEW new, Grows(bi, new)
    PROVE  /\ \A g : HasRow(g, bi) => HasRow(g, new)
           /\ \A f : FutureOk(f, bi) => FutureOk(f, new)
           /\ \A k \in Sources : InflowTrace(bi, k) => InflowTrace(new, k)
<1>1. ASSUME NEW g, HasRow(g, bi) PROVE HasRow(g, new)
  BY <1>1 DEF HasRow, Grows
<1>2. ASSUME NEW f, FutureOk(f, bi) PROVE FutureOk(f, new)
  BY <1>2 DEF FutureOk, Future, Grows
<1>3. ASSUME NEW k \in Sources, InflowTrace(bi, k) PROVE InflowTrace(new, k)
  <2>1. k[3] # None
    BY SourcesFact, EvmSourcesAssumption
  <2> QED BY <1>3, <2>1 DEF InflowTrace, Grows
<1> QED BY <1>1, <1>2, <1>3

LEMMA TracedGrows ==
    ASSUME NEW aes, NEW bi, NEW new, NEW edges, NEW more, Grows(bi, new), edges \subseteq more,
           Traced(aes, bi, edges)
    PROVE  Traced(aes, new, more)
<1>1. \A k \in Sources : EdgeTrace(aes, edges, k) => EdgeTrace(aes, more, k)
  BY DEF EdgeTrace
<1>2. \A k \in Sources : InflowTrace(bi, k) => InflowTrace(new, k)
  BY GrowsFact
<1> QED BY <1>1, <1>2 DEF Traced

\* The steps that write to the tables.
LEMMA TablesStep ==
    ASSUME [Next]_vars
    PROVE  \/ UNCHANGED tables
           \/ \E e \in Versions : Commit(e)
           \/ \E f \in BagToSet(futures) : \E evm \in {LzSender[f.guid], Sentinel} :
                 ResolveGuid(f, evm)
           \/ \E f \in BagToSet(futures) : \E k \in f.seeds : SeedRow(f, k)
BY DEF Next, vars, Start, ForwardGuid, EndStore, SaveStatus, Crash, LoadPendingGuids,
       StartGuid, Resolve, FetchFails, WriteEvmFails, SeedFails

\* A batch ends at a version of the chain.
LEMMA CommitRange ==
    ASSUME IInv, NEW e \in Versions, Commit(e)
    PROVE  next_version \in Versions /\ next_version <= e
<1>1. next_version \in 1 .. MaxVersion + 1 /\ next_version <= e
  BY DEF IInv, ProcessInv, Commit
<1> QED BY <1>1, VersionsFact DEF Versions

LEMMA InflowStep ==
    ASSUME IInv, [Next]_vars
    PROVE  bridge_inflows' \in InflowTable /\ Grows(bridge_inflows, bridge_inflows')
<1>1. PICK bi : bi = bridge_inflows
  OBVIOUS
<1>2. /\ bi \in [InflowKeys -> InflowRow \cup {None}]
      /\ \A k \in InflowKeys : bi[k] # None => RowOfEvent(bi[k], k)
  BY <1>1 DEF IInv, TableInv, InflowTable
<1>3. PICK new : new = bridge_inflows'
  OBVIOUS
<1>4. CASE UNCHANGED tables \/ \E f \in BagToSet(futures) : \E k \in f.seeds : SeedRow(f, k)
  <2>1. new = bi
    BY <1>1, <1>3, <1>4 DEF tables, SeedRow
  <2> QED BY <1>1, <1>2, <1>3, <2>1 DEF InflowTable, Grows
<1>5. ASSUME NEW e \in Versions, Commit(e)
      PROVE  new \in InflowTable /\ Grows(bi, new)
  <2>1. PICK s : s = next_version
    OBVIOUS
  <2>2. new = [k \in InflowKeys |-> IF bi[k] = None /\ k[1] \in s .. e
                                    THEN Inflow(k[1], k[2]) ELSE bi[k]]
    BY <1>1, <1>3, <1>5, <2>1 DEF Commit
  <2>3. \A k \in InflowKeys : RowOfEvent(Inflow(k[1], k[2]), k) /\ Inflow(k[1], k[2]) # None
    <3> SUFFICES ASSUME NEW k \in InflowKeys
                 PROVE  RowOfEvent(Inflow(k[1], k[2]), k) /\ Inflow(k[1], k[2]) # None
      OBVIOUS
    <3>1. Inflow(k[1], k[2]) \in InflowRow /\ Inflow(k[1], k[2]) # None
      BY InflowKeysFact, InflowFact
    <3> QED BY <3>1 DEF RowOfEvent, Inflow
  <2>4. \A k \in InflowKeys : Inflow(k[1], k[2]) \in InflowRow
    BY <2>3 DEF RowOfEvent
  <2>5. new \in [InflowKeys -> InflowRow \cup {None}]
    BY <1>2, <2>2, <2>4
  <2>6. \A k \in InflowKeys : new[k] # None => RowOfEvent(new[k], k)
    BY <1>2, <2>2, <2>3
  <2>7. Grows(bi, new)
    BY <2>2 DEF Grows
  <2> QED BY <2>5, <2>6, <2>7 DEF InflowTable
<1>6. ASSUME NEW f \in BagToSet(futures), NEW evm \in {LzSender[f.guid], Sentinel},
             ResolveGuid(f, evm)
      PROVE  new \in InflowTable /\ Grows(bi, new)
  <2>1. PICK rows \in SUBSET InflowKeys : rows = RowsToResolve(f.guid)
    BY DEF RowsToResolve
  <2>2. \A k \in rows : bi[k] # None /\ bi[k].evm_source = None
    BY <1>1, <2>1 DEF RowsToResolve
  <2>3. new = [k \in InflowKeys |-> IF k \in rows THEN [bi[k] EXCEPT !.evm_source = evm]
                                    ELSE bi[k]]
    BY <1>1, <1>3, <1>6, <2>1 DEF ResolveGuid
  <2>4. evm \in Evms \cup {Sentinel}
    <3>1. f.guid \in Guids /\ LzSender \in [Guids -> Evms]
      BY EvmSourcesAssumption DEF IInv, FuturesInv, FutureOk, Future
    <3> QED BY <3>1
  <2>5. ASSUME NEW k \in rows
        PROVE  /\ new[k] \in InflowRow /\ RowOfEvent(new[k], k) /\ new[k] # None
               /\ new[k].lz_guid = bi[k].lz_guid /\ new[k].asset_type = bi[k].asset_type
               /\ new[k].aptos_recipient = bi[k].aptos_recipient
    <3>1. RowOfEvent(bi[k], k) /\ bi[k] \in InflowRow /\ bi[k].evm_source = None
      BY <1>2, <2>2 DEF RowOfEvent
    <3>2. PICK r : r = bi[k]
      OBVIOUS
    <3>3. new[k] = [r EXCEPT !.evm_source = evm]
      BY <2>3, <3>2
    <3>4. new[k] \in InflowRow /\ new[k].lz_guid = r.lz_guid /\ new[k].asset_type = r.asset_type
          /\ new[k].aptos_recipient = r.aptos_recipient /\ new[k].version = r.version
          /\ new[k].event_index = r.event_index /\ new[k].amount = r.amount
      BY <2>4, <3>1, <3>2, <3>3 DEF InflowRow
    <3>5. RowOfEvent(new[k], k)
      BY <3>1, <3>2, <3>4 DEF RowOfEvent
    <3>6. new[k] # None
      BY <3>4, EvmSourcesAssumption
    <3> QED BY <3>2, <3>4, <3>5, <3>6
  <2>6. \A k \in InflowKeys \ rows : new[k] = bi[k]
    BY <2>3
  <2>7. new \in [InflowKeys -> InflowRow \cup {None}]
    <3>1. new = [k \in InflowKeys |-> new[k]]
      BY <2>3
    <3> QED BY <1>2, <2>5, <2>6, <3>1
  <2>8. \A k \in InflowKeys : new[k] # None => RowOfEvent(new[k], k)
    BY <1>2, <2>5, <2>6
  <2>9. Grows(bi, new)
    BY <2>2, <2>5, <2>6 DEF Grows
  <2> QED BY <2>7, <2>8, <2>9 DEF InflowTable
<1> QED BY <1>1, <1>3, <1>4, <1>5, <1>6, TablesStep

LEMMA EdgesTyped ==
    ASSUME NEW v \in Versions
    PROVE  Range(BatchEdges[1][MaxVersion]) \subseteq EdgeRow
<1>1. 1 \in Versions /\ MaxVersion \in Versions /\ 1 <= MaxVersion
  BY VersionsFact DEF Versions
<1>2. BatchEdges[1][MaxVersion] \in Seq(EdgeRow)
  BY <1>1, BatchEdgesFact
<1> QED BY <1>2 DEF Range

\* The edges of a batch, for the loop over them.
LEMMA EdgesOfBatch ==
    ASSUME NEW s \in Versions, NEW e \in Versions, s <= e
    PROVE  LET edges == BatchEdges[s][e]
               inflows == BatchInflows[s][e]
           IN /\ Len(edges) \in Nat
              /\ \A n \in 1 .. Len(edges) : /\ edges[n] \in EdgeRow /\ edges[n] \in Range(edges)
                                            /\ EvmOf(edges[n], inflows) \in Evms \cup {None}
                                            /\ EvmOf(edges[n], inflows) # None =>
                                                  edges[n].amount \in Amounts
<1>1. PICK edges, inflows : edges = BatchEdges[s][e] /\ inflows = BatchInflows[s][e]
  OBVIOUS
<1>2. edges \in Seq(EdgeRow)
  BY <1>1, BatchEdgesFact
<1>3. \A n \in 1 .. Len(edges) : edges[n] \in EdgeRow /\ edges[n] \in Range(edges)
  BY <1>2 DEF Range
<1>4. \A n \in 1 .. Len(edges) :
         /\ EvmOf(edges[n], inflows) \in Evms \cup {None}
         /\ EvmOf(edges[n], inflows) # None => edges[n].amount \in Amounts
  BY <1>1, EvmOfFact
<1> QED BY <1>1, <1>2, <1>3, <1>4

LEMMA RollupStep ==
    ASSUME IInv, [Next]_vars
    PROVE  /\ address_transfer_edges' \subseteq Range(BatchEdges[1][MaxVersion])
           /\ address_evm_sources' \in Rollup
<1>1. PICK aes \in Rollup : aes = address_evm_sources
  BY DEF IInv, TableInv
<1>2. address_transfer_edges \subseteq Range(BatchEdges[1][MaxVersion])
  BY DEF IInv, TableInv
<1>3. CASE UNCHANGED tables
  BY <1>1, <1>2, <1>3 DEF tables
<1>4. ASSUME NEW e \in Versions, Commit(e)
      PROVE  /\ address_transfer_edges' \subseteq Range(BatchEdges[1][MaxVersion])
             /\ address_evm_sources' \in Rollup
  <2>1. PICK s \in Versions : s = next_version /\ s <= e
    BY <1>4, CommitRange
  <2>2. PICK edges, inflows : edges = BatchEdges[s][e] /\ inflows = BatchInflows[s][e]
    OBVIOUS
  <2>3. /\ address_transfer_edges' = address_transfer_edges \cup Range(edges)
        /\ address_evm_sources' = RolledUp(aes, edges, inflows)
    BY <1>1, <1>4, <2>1, <2>2 DEF Commit
  <2>4. Range(edges) \subseteq Range(BatchEdges[1][MaxVersion])
    BY <2>1, <2>2, BatchEdgesFact
  <2>5. /\ Len(edges) \in Nat
        /\ \A n \in 1 .. Len(edges) : /\ edges[n] \in EdgeRow
                                      /\ EvmOf(edges[n], inflows) \in Evms \cup {None}
                                      /\ EvmOf(edges[n], inflows) # None =>
                                            edges[n].amount \in Amounts
    BY <2>1, <2>2, EdgesOfBatch
  <2>6. \A x \in Rollup : \A n \in 1 .. Len(edges) : ApplyEdge(x, edges[n], inflows) \in Rollup
    BY <2>5, ApplyEdgeFact
  <2>7. RolledUp(aes, edges, inflows) \in Rollup
    BY <2>5, <2>6, RolledUpFact
  <2> QED BY <1>2, <2>3, <2>4, <2>7
<1>5. ASSUME NEW f \in BagToSet(futures), NEW evm, ResolveGuid(f, evm)
      PROVE  /\ address_transfer_edges' \subseteq Range(BatchEdges[1][MaxVersion])
             /\ address_evm_sources' \in Rollup
  BY <1>1, <1>2, <1>5 DEF ResolveGuid
<1>6. ASSUME NEW f \in BagToSet(futures), NEW k \in f.seeds, SeedRow(f, k)
      PROVE  /\ address_transfer_edges' \subseteq Range(BatchEdges[1][MaxVersion])
             /\ address_evm_sources' \in Rollup
  <2>1. PICK bi : bi = bridge_inflows[k]
    OBVIOUS
  <2>2. FutureOk(f, bridge_inflows) /\ k \in InflowKeys /\ bi \in InflowRow
        /\ bi.asset_type # None /\ f.evm \in Evms
    BY <2>1 DEF IInv, FuturesInv, TableInv, FutureOk, Future, InflowTable
  <2>3. PICK key, ord : /\ key = <<bi.aptos_recipient, bi.asset_type, f.evm>>
                        /\ ord = seen_ord(bi.version, bi.event_index)
    OBVIOUS
  <2>4. key \in Sources
    BY <2>2, <2>3, SourcesFact DEF InflowRow
  <2>5. ord \in Ords /\ bi.amount \in Amounts
    <3>1. bi # None
      BY <2>2, EvmSourcesAssumption
    <3>2. bi.amount = Events[k[1]][k[2]].amount
      BY <2>1, <2>2, <3>1 DEF IInv, TableInv, InflowTable, RowOfEvent
    <3>3. bi.amount \in Amounts
      BY <2>2, <3>2 DEF InflowRow, Amounts, AmountsPositive
    <3> QED BY <2>2, <2>3, <3>3 DEF InflowRow, seen_ord, Ords
  <2>6. PICK new : new = address_evm_sources'
    OBVIOUS
  <2>7. Upserted(aes, new, key, bi.amount, ord)
    BY <1>1, <1>6, <2>1, <2>3, <2>6 DEF SeedRow, Upserted
  <2>8. new \in Rollup
    BY <2>4, <2>5, <2>7, SeedFact
  <2>9. UNCHANGED address_transfer_edges
    BY <1>6 DEF SeedRow
  <2> QED BY <1>2, <2>6, <2>8, <2>9
<1> QED BY <1>3, <1>4, <1>5, <1>6, TablesStep

LEMMA TraceStep ==
    ASSUME AssetsAgree, IInv, IInv', TraceInv, [Next]_vars
    PROVE  TraceInv'
<1>1. PICK aes \in Rollup : aes = address_evm_sources
  BY DEF IInv, TableInv
<1>2. PICK bi, bj : bi = bridge_inflows /\ bj = bridge_inflows'
  OBVIOUS
<1>3. PICK old, edges : old = address_transfer_edges /\ edges = address_transfer_edges'
  OBVIOUS
<1>4. Traced(aes, bi, old)
  BY <1>1, <1>2, <1>3 DEF TraceInv
<1>5. Grows(bi, bj)
  BY <1>2, InflowStep
<1>6. PICK new : new = address_evm_sources'
  OBVIOUS
<1>7. SUFFICES Traced(new, bj, edges)
  BY <1>2, <1>3, <1>6 DEF TraceInv
<1>8. edges \subseteq Range(BatchEdges[1][MaxVersion]) /\ new \in Rollup
  BY <1>3, <1>6, RollupStep
<1>9. CASE UNCHANGED tables \/ \E f \in BagToSet(futures) :
                                  \E evm \in {LzSender[f.guid], Sentinel} : ResolveGuid(f, evm)
  <2>1. new = aes /\ edges = old
    BY <1>1, <1>3, <1>6, <1>9 DEF tables, ResolveGuid
  <2> QED BY <1>4, <1>5, <2>1, TracedGrows
<1>10. ASSUME NEW e \in Versions, Commit(e)
       PROVE  Traced(new, bj, edges)
  <2>1. PICK s \in Versions : s = next_version /\ s <= e
    BY <1>10, CommitRange
  <2>2. PICK batch, inflows : batch = BatchEdges[s][e] /\ inflows = BatchInflows[s][e]
    OBVIOUS
  <2>3. /\ edges = old \cup Range(batch)
        /\ new = RolledUp(aes, batch, inflows)
    BY <1>1, <1>3, <1>6, <1>10, <2>1, <2>2 DEF Commit
  <2>4. edges \in SUBSET EdgeRow
    BY <1>8, EdgesTyped
  <2>5. Traced(aes, bj, edges)
    BY <1>4, <1>5, <2>3, TracedGrows
  <2>6. /\ Len(batch) \in Nat
        /\ \A n \in 1 .. Len(batch) : /\ batch[n] \in EdgeRow /\ batch[n] \in Range(batch)
                                      /\ EvmOf(batch[n], inflows) \in Evms \cup {None}
                                      /\ EvmOf(batch[n], inflows) # None =>
                                            batch[n].amount \in Amounts
    BY <2>1, <2>2, EdgesOfBatch
  <2>7. \A k \in InflowKeys : k[1] \in s .. e =>
           bj[k] # None /\ RowOfEvent(bj[k], k)
    <3> SUFFICES ASSUME NEW k \in InflowKeys, k[1] \in s .. e
                 PROVE  bj[k] # None /\ RowOfEvent(bj[k], k)
      OBVIOUS
    <3>1. bj[k] # None
      <4>1. Inflow(k[1], k[2]) # None
        BY InflowKeysFact, InflowFact
      <4> QED BY <1>2, <1>10, <2>1, <4>1 DEF Commit
    <3>2. bj \in InflowTable
      BY <1>2, InflowStep
    <3> QED BY <3>1, <3>2 DEF InflowTable
  <2>8. ASSUME NEW n \in 1 .. Len(batch), batch[n].is_bridge_inflow,
               batch[n].asset_type # None, EvmOf(batch[n], inflows) # None
        PROVE  InflowTrace(bj, <<batch[n].to_address, batch[n].asset_type,
                                 EvmOf(batch[n], inflows)>>)
    <3>1. PICK edge, evm : edge = batch[n] /\ evm = EvmOf(edge, inflows)
      OBVIOUS
    <3>2. PICK k \in InflowKeys :
             /\ k[1] \in s .. e /\ k[1] = edge.version
             /\ Events[k[1]][k[2]].address = edge.to_address
             /\ Events[k[1]][k[2]].amount = edge.amount
             /\ Events[k[1]][k[2]].evm = evm
      BY <2>1, <2>2, <2>8, <3>1, EvmOfFact
    <3>3. PICK v \in s .. e : v \in Versions /\ edge \in EdgesOf(v)
      BY <2>1, <2>2, <3>1, BatchEdgesFact
    <3>4. edge.version = v
      BY <3>3, EdgesOfFact
    <3>5. k[2] \in IndicesOf(v, "bridge") /\ k[1] = v
      BY <3>2, <3>4, InflowKeysFact
    <3>6. InflowAsset(v, k[2]) = edge.asset_type
      BY <2>8, <3>1, <3>2, <3>3, <3>5, EdgesOfFact
    <3>7. bj[k] # None /\ RowOfEvent(bj[k], k)
      BY <2>7, <3>2
    <3>8. /\ bj[k].aptos_recipient = edge.to_address
          /\ bj[k].asset_type = edge.asset_type /\ bj[k].evm_source = evm
      BY <2>8, <3>1, <3>2, <3>5, <3>6, <3>7 DEF RowOfEvent
    <3>9. InflowTrace(bj, <<edge.to_address, edge.asset_type, evm>>)
      BY <3>7, <3>8 DEF InflowTrace
    <3> QED BY <3>1, <3>9
  <2> DEFINE X == {x \in Rollup : Traced(x, bj, edges)}
  <2>9. ASSUME NEW x \in X, NEW n \in 1 .. Len(batch)
        PROVE  ApplyEdge(x, batch[n], inflows) \in X
    <3>1. x \in Rollup /\ Traced(x, bj, edges)
      OBVIOUS
    <3>2. PICK edge \in EdgeRow : edge = batch[n]
      BY <2>6
    <3>3. /\ edge \in edges /\ EvmOf(edge, inflows) \in Evms \cup {None}
          /\ EvmOf(edge, inflows) # None => edge.amount \in Amounts
      BY <2>3, <2>6, <3>2
    <3>4. ApplyEdge(x, edge, inflows) \in Rollup
      BY <3>1, <3>3, ApplyEdgeFact
    <3>5. edge.is_bridge_inflow /\ edge.asset_type # None /\ EvmOf(edge, inflows) # None =>
             InflowTrace(bj, <<edge.to_address, edge.asset_type, EvmOf(edge, inflows)>>)
      BY <2>8, <3>2
    <3>6. Traced(ApplyEdge(x, edge, inflows), bj, edges)
      BY <2>4, <3>1, <3>3, <3>5, ApplyEdgeTraced
    <3> QED BY <3>2, <3>4, <3>6
  <2>10. aes \in X
    BY <2>5
  <2>11. RolledUp(aes, batch, inflows) \in X
    <3> HIDE DEF X
    <3> QED BY <2>6, <2>9, <2>10, RolledUpFact
  <2> QED BY <2>3, <2>11
<1>11. ASSUME NEW f \in BagToSet(futures), NEW k \in f.seeds, SeedRow(f, k)
       PROVE  Traced(new, bj, edges)
  <2>1. PICK row : row = bi[k]
    OBVIOUS
  <2>2. k \in InflowKeys /\ row \in InflowRow /\ row # None
        /\ row.asset_type # None /\ f.evm \in Evms /\ row.evm_source = f.evm
    BY <1>2, <2>1, EvmSourcesAssumption DEF IInv, FuturesInv, TableInv, FutureOk, Future, InflowTable
  <2>3. PICK key, ord : /\ key = <<row.aptos_recipient, row.asset_type, f.evm>>
                        /\ ord = seen_ord(row.version, row.event_index)
    OBVIOUS
  <2>4. key \in Sources
    BY <2>2, <2>3, SourcesFact DEF InflowRow
  <2>5. ord \in Ords /\ row.amount \in Amounts
    <3>1. row.amount = Events[k[1]][k[2]].amount
      BY <1>2, <2>1, <2>2 DEF IInv, TableInv, InflowTable, RowOfEvent
    <3>2. row.amount \in Amounts
      BY <2>2, <3>1 DEF InflowRow, Amounts, AmountsPositive
    <3> QED BY <2>2, <2>3, <3>2 DEF InflowRow, seen_ord, Ords
  <2>6. Upserted(aes, new, key, row.amount, ord)
    BY <1>1, <1>2, <1>6, <1>11, <2>1, <2>3 DEF SeedRow, Upserted
  <2>7. \A x \in Sources : new[x] # aes[x] => x = key /\ Seeded(new, x)
    BY <2>4, <2>5, <2>6, SeedFact
  <2>8. edges = old /\ bj = bi
    BY <1>2, <1>3, <1>11 DEF SeedRow
  <2>9. edges \in SUBSET EdgeRow
    BY <1>8, <2>2, EdgesTyped, InflowKeysFact
  <2>10. InflowTrace(bj, key)
    BY <2>1, <2>2, <2>3, <2>8 DEF InflowTrace
  <2>11. \A x \in Sources : /\ aes[x] # None => aes[x].hops_min \in Nat
                            /\ new[x] # None => new[x].hops_min \in Nat
                            /\ RowOk(new[x]) => new[x] # None
    BY <1>8, EvmSourcesAssumption DEF Rollup, RowOk, SourceRow
  <2>12. Kept(aes, new)
    BY <2>7, <2>11 DEF Seeded, Kept
  <2>13. \A x \in Sources : new[x] # None =>
            \/ aes[x] # None /\ new[x].hops_min = aes[x].hops_min
            \/ InflowTrace(bj, x)
            \/ EdgeTrace(new, edges, x)
    BY <2>7, <2>10
  <2>14. Traced(aes, bj, edges)
    BY <1>4, <2>8
  <2> QED BY <1>8, <2>9, <2>12, <2>13, <2>14, TraceKept
<1> QED BY <1>9, <1>10, <1>11, TablesStep

\* The unresolved GUIDs have rows.
LEMMA UnresolvedFact ==
    ASSUME IInv
    PROVE  /\ Unresolved \in SUBSET Guids /\ IsFiniteSet(Unresolved)
           /\ \A g \in Unresolved : HasRow(g, bridge_inflows)
<1> DEFINE open == {j \in InflowKeys : bridge_inflows[j] # None /\ bridge_inflows[j].lz_guid # None
                                       /\ bridge_inflows[j].evm_source = None}
           guid == [j \in InflowKeys |-> bridge_inflows[j].lz_guid]
<1>1. Unresolved = {guid[j] : j \in open}
  BY DEF Unresolved
<1>2. IsFiniteSet(open)
  BY InflowKeysFact, FS_Subset
<1>3. ASSUME NEW j \in open
      PROVE  guid[j] \in Guids /\ HasRow(guid[j], bridge_inflows)
  <2>1. bridge_inflows[j] \in InflowRow
    BY DEF IInv, TableInv, InflowTable
  <2> QED BY <2>1 DEF InflowRow, HasRow
<1> HIDE DEF open, guid
<1>4. IsFiniteSet({guid[j] : j \in open})
  BY <1>2, FiniteImage
<1> QED BY <1>1, <1>3, <1>4

LEMMA ProcessStep ==
    ASSUME IInv, [Next]_vars
    PROVE  ProcessInv'
<1> USE DEF IInv, ProcessInv
<1>0. /\ MaxStarts \in Nat /\ None \notin Int /\ MaxVersion \in Nat /\ Versions = 1 .. MaxVersion
      /\ MaxRetries \in Nat
  BY EvmSourcesAssumption, VersionsFact DEF Versions
<1>1. CASE Start
  <2>1. next_version' = IF processor_status # None /\ processor_status > 1
                        THEN processor_status ELSE 1
    BY <1>1 DEF Start, Status!StartingVersion, DefaultMode
  <2>2. next_version' \in 1 .. MaxVersion + 1
    BY <1>0, <2>1
  <2> QED BY <1>0, <1>1, <2>2 DEF Start
<1>2. ASSUME NEW e \in Versions, Commit(e) PROVE ProcessInv'
  <2>1. storing' \in Versions \cup {None} /\ next_version' \in 1 .. MaxVersion + 1
    BY <1>0, <1>2 DEF Commit
  <2> QED BY <1>2, <2>1 DEF Commit, enricher
<1>3. CASE ForwardGuid
  BY <1>3 DEF ForwardGuid
<1>4. CASE EndStore
  BY <1>4 DEF EndStore, enricher
<1>5. CASE SaveStatus
  <2>1. processor_status' \in Versions \cup {None}
    BY <1>5 DEF SaveStatus, Status!SavedStatus
  <2> QED BY <1>5, <2>1 DEF SaveStatus, enricher
<1>6. CASE Crash
  <2>1. 1 \in 1 .. MaxVersion + 1
    BY <1>0
  <2>2. next_version' \in 1 .. MaxVersion + 1 /\ running' \in BOOLEAN /\ loading' \in BOOLEAN
    BY <1>6, <2>1, Zenon DEF Crash
  <2>3. storing' \in Versions \cup {None} /\ last_success_batch' \in Versions \cup {None}
        /\ abandoned' \subseteq Guids
    BY <1>6 DEF Crash
  <2> QED BY <1>6, <2>2, <2>3, Zenon DEF Crash
<1>7. ASSUME NEW ok \in BOOLEAN, LoadPendingGuids(ok) PROVE ProcessInv'
  <2>1. loading' \in BOOLEAN
    BY <1>7 DEF LoadPendingGuids
  <2>2. Unresolved \subseteq Guids
    BY UnresolvedFact
  <2>3. abandoned' \subseteq Guids
    BY <1>7, <2>2 DEF LoadPendingGuids
  <2> QED BY <1>7, <2>1, <2>3 DEF LoadPendingGuids, pipeline
<1>8. CASE StartGuid
  BY <1>8 DEF StartGuid, pipeline
<1>9. ASSUME NEW f \in BagToSet(futures),
             \/ FetchFails(f)
             \/ \E evm \in {LzSender[f.guid], Sentinel} : ResolveGuid(f, evm)
             \/ WriteEvmFails(f)
             \/ \E k \in f.seeds : SeedRow(f, k) \/ SeedFails(f, k)
      PROVE  ProcessInv'
  <2>1. f.guid \in Guids
    BY DEF FuturesInv, FutureOk, Future
  <2>2. abandoned' \subseteq Guids
    BY <1>9, <2>1 DEF FetchFails, RetryOrDrop, ResolveGuid, WriteEvmFails, SeedRow, SeedFails
  <2>3. UNCHANGED <<pipeline, loading, running, starts>>
    BY <1>9 DEF FetchFails, ResolveGuid, WriteEvmFails, SeedRow, SeedFails
  <2> QED BY <2>2, <2>3 DEF pipeline
<1>10. CASE UNCHANGED vars
  BY <1>10 DEF vars, pipeline, enricher
<1> QED BY <1>1, <1>2, <1>3, <1>4, <1>5, <1>6, <1>7, <1>8, <1>9, <1>10 DEF Next, Resolve

LEMMA QueuedFact ==
    ASSUME NEW bi, NEW q, Queued(q, bi)
    PROVE  /\ q # <<>> => /\ Head(q) \in Guids /\ HasRow(Head(q), bi) /\ Queued(Tail(q), bi)
           /\ \A g \in Guids : HasRow(g, bi) => Queued(Append(q, g), bi)
           /\ \A p : Queued(p, bi) => Queued(p \o q, bi)
<1>1. q \in Seq(Guids) /\ DOMAIN q = 1 .. Len(q) /\ Len(q) \in Nat
      /\ \A n \in 1 .. Len(q) : HasRow(q[n], bi)
  BY DEF Queued
<1>2. ASSUME q # <<>> PROVE Head(q) \in Guids /\ HasRow(Head(q), bi) /\ Queued(Tail(q), bi)
  <2>1. Len(q) > 0 /\ Head(q) = q[1] /\ 1 \in 1 .. Len(q)
    BY <1>1, <1>2
  <2>2. /\ Tail(q) \in Seq(Guids) /\ DOMAIN Tail(q) = 1 .. Len(q) - 1
        /\ \A n \in 1 .. Len(q) - 1 : Tail(q)[n] = q[n + 1] /\ n + 1 \in 1 .. Len(q)
    BY <1>1, <1>2
  <2> QED BY <1>1, <2>1, <2>2 DEF Queued
<1>3. ASSUME NEW g \in Guids, HasRow(g, bi) PROVE Queued(Append(q, g), bi)
  <2>1. Append(q, g) \in Seq(Guids) /\ DOMAIN Append(q, g) = 1 .. Len(q) + 1
    BY <1>1
  <2>2. \A n \in 1 .. Len(q) + 1 : Append(q, g)[n] = IF n = Len(q) + 1 THEN g ELSE q[n]
    BY <1>1
  <2>3. \A n \in 1 .. Len(q) + 1 : n = Len(q) + 1 \/ n \in 1 .. Len(q)
    BY <1>1
  <2> QED BY <1>1, <1>3, <2>1, <2>2, <2>3 DEF Queued
<1>4. ASSUME NEW p, Queued(p, bi) PROVE Queued(p \o q, bi)
  <2>1. p \in Seq(Guids) /\ DOMAIN p = 1 .. Len(p) /\ Len(p) \in Nat
        /\ \A n \in 1 .. Len(p) : HasRow(p[n], bi)
    BY <1>4 DEF Queued
  <2>2. p \o q \in Seq(Guids) /\ DOMAIN (p \o q) = 1 .. Len(p) + Len(q)
    BY <1>1, <2>1
  <2>3. \A n \in 1 .. Len(p) + Len(q) : (p \o q)[n] = IF n <= Len(p) THEN p[n] ELSE q[n - Len(p)]
    BY <1>1, <2>1
  <2>4. \A n \in 1 .. Len(p) + Len(q) : n \in 1 .. Len(p) \/ (n > Len(p) /\ n - Len(p) \in 1 .. Len(q))
    BY <1>1, <2>1
  <2>5. \A n \in 1 .. Len(p) : n <= Len(p)
    BY <2>1
  <2>6. \A n \in 1 .. Len(p) + Len(q) : n > Len(p) => ~(n <= Len(p))
    BY <1>1, <2>1
  <2> QED BY <1>1, <2>1, <2>2, <2>3, <2>4, <2>5, <2>6 DEF Queued
<1> QED BY <1>2, <1>3, <1>4

LEMMA QueueStep ==
    ASSUME IInv, [Next]_vars
    PROVE  QueueInv'
<1>1. PICK bi, bj : bi = bridge_inflows /\ bj = bridge_inflows'
  OBVIOUS
<1>2. PICK p, q : p = pending_guids /\ q = guid_queue
  OBVIOUS
<1>3. Queued(p, bi) /\ Queued(q, bi) /\ (storing = None => p = <<>>)
  BY <1>1, <1>2 DEF IInv, QueueInv
<1>4. Grows(bi, bj)
  BY <1>1, InflowStep
<1>5. \A g : HasRow(g, bi) => HasRow(g, bj)
  BY <1>4, GrowsFact
<1>6. Queued(p, bj) /\ Queued(q, bj)
  BY <1>3, <1>5 DEF Queued
<1>7. PICK p2, q2 : p2 = pending_guids' /\ q2 = guid_queue'
  OBVIOUS
<1>8. SUFFICES Queued(p2, bj) /\ Queued(q2, bj) /\ (storing' = None => p2 = <<>>)
  BY <1>1, <1>7 DEF QueueInv
<1>9. Queued(<<>>, bj)
  BY DEF Queued
<1>10. None \notin Versions
  <2>1. None \notin Int
    BY EvmSourcesAssumption
  <2>2. \A v \in Versions : v \in Int
    BY VersionsFact
  <2> QED BY <2>1, <2>2
<1>11. CASE UNCHANGED <<storing, pending_guids, guid_queue>>
  BY <1>2, <1>3, <1>6, <1>7, <1>11
<1>12. ASSUME NEW e \in Versions, Commit(e)
       PROVE  Queued(p2, bj) /\ Queued(q2, bj) /\ storing' # None
  <2>1. PICK s \in Versions : s = next_version /\ s <= e
    BY <1>12, CommitRange
  <2>2. p2 = GuidsOf(BatchInflows[s][e]) /\ q2 = q /\ storing' = e
    BY <1>2, <1>7, <1>12, <2>1 DEF Commit, enricher
  <2>3. p2 \in Seq(Guids) /\ \A n \in DOMAIN p2 : \E k \in InflowKeys :
           k[1] \in s .. e /\ p2[n] = Events[k[1]][k[2]].guid
    BY <2>1, <2>2, GuidsOfFact
  <2>4. ASSUME NEW k \in InflowKeys, k[1] \in s .. e
        PROVE  HasRow(Events[k[1]][k[2]].guid, bj)
    <3>1. bj[k] # None
      <4>1. Inflow(k[1], k[2]) # None
        BY InflowKeysFact, InflowFact
      <4> QED BY <1>1, <1>12, <2>1, <2>4, <4>1 DEF Commit
    <3>2. bj \in InflowTable
      BY <1>1, InflowStep
    <3>3. bj[k].lz_guid = Events[k[1]][k[2]].guid
      BY <3>1, <3>2 DEF InflowTable, RowOfEvent
    <3> QED BY <3>1, <3>3 DEF HasRow
  <2>5. Queued(p2, bj)
    BY <2>3, <2>4 DEF Queued
  <2> QED BY <1>6, <1>10, <2>2, <2>5
<1>13. CASE ForwardGuid
  <2>1. p # <<>> /\ q2 = Append(q, Head(p)) /\ p2 = Tail(p) /\ storing' = storing
    BY <1>2, <1>7, <1>13 DEF ForwardGuid
  <2>2. Head(p) \in Guids /\ HasRow(Head(p), bj) /\ Queued(Tail(p), bj)
    BY <1>6, <2>1, QueuedFact
  <2>3. Queued(Append(q, Head(p)), bj)
    BY <1>6, <2>2, QueuedFact
  <2> QED BY <1>3, <2>1, <2>2, <2>3
<1>14. CASE EndStore
  BY <1>2, <1>6, <1>7, <1>14 DEF EndStore, enricher
<1>15. CASE Crash
  BY <1>7, <1>9, <1>15 DEF Crash
<1>16. ASSUME NEW ok \in BOOLEAN, LoadPendingGuids(ok)
       PROVE  Queued(p2, bj) /\ Queued(q2, bj) /\ (storing' = None => p2 = <<>>)
  <2>1. PICK g \in SUBSET Guids : g = Unresolved /\ IsFiniteSet(g) /\ \A x \in g : HasRow(x, bi)
    BY <1>1, UnresolvedFact
  <2>2. SetToSeq(g) \in Seq(g)
    BY <2>1, SetToSeqFact
  <2>3. PICK l \in Seq(g) : l = SetToSeq(g)
    BY <2>2
  <2>4. l \in Seq(Guids) /\ \A n \in DOMAIN l : l[n] \in g
    BY <2>3
  <2>5. Queued(l, bj)
    BY <1>5, <2>1, <2>4 DEF Queued
  <2>6. Queued(l \o q, bj)
    BY <1>6, <2>5, QueuedFact
  <2>7. q2 = q \/ q2 = l \o q
    BY <1>2, <1>7, <1>16, <2>1, <2>3 DEF LoadPendingGuids
  <2>8. p2 = p /\ storing' = storing
    BY <1>2, <1>7, <1>16 DEF LoadPendingGuids, pipeline
  <2> QED BY <1>3, <1>6, <2>6, <2>7, <2>8
<1>17. CASE StartGuid
  <2>1. q # <<>> /\ q2 = Tail(q) /\ p2 = p /\ storing' = storing
    BY <1>2, <1>7, <1>17 DEF StartGuid, pipeline
  <2>2. Queued(Tail(q), bj)
    BY <1>6, <2>1, QueuedFact
  <2> QED BY <1>3, <1>6, <2>1, <2>2
<1>18. ASSUME NEW f \in BagToSet(futures),
              \/ FetchFails(f)
              \/ \E evm \in {LzSender[f.guid], Sentinel} : ResolveGuid(f, evm)
              \/ WriteEvmFails(f)
              \/ \E k \in f.seeds : SeedRow(f, k) \/ SeedFails(f, k)
       PROVE  UNCHANGED <<storing, pending_guids, guid_queue>>
  BY <1>18 DEF FetchFails, ResolveGuid, WriteEvmFails, SeedRow, SeedFails, pipeline
<1>19. CASE Start \/ SaveStatus \/ UNCHANGED vars
  BY <1>11, <1>19 DEF Start, SaveStatus, vars, pipeline, enricher
<1> QED
  BY <1>11, <1>12, <1>13, <1>14, <1>15, <1>16, <1>17, <1>18, <1>19 DEF Next, Resolve

\* A future goes on as one of G.
LEMMA BecomesFact ==
    ASSUME IsABag(futures), NEW f, NEW G, Becomes(f, G)
    PROVE  IsABag(futures') /\ BagToSet(futures') \subseteq BagToSet(futures) \cup G
<1>1. PICK less : less = futures (-) SetToBag({f})
  OBVIOUS
<1>2. IsABag(less) /\ BagToSet(less) \subseteq BagToSet(futures)
  BY <1>1, BagMinusOne
<1>3. futures' = less (+) SetToBag(G)
  BY <1>1 DEF Becomes
<1>4. IsABag(less (+) SetToBag(G)) /\ BagToSet(less (+) SetToBag(G)) = BagToSet(less) \cup G
  BY <1>2, BagPlusSet
<1> QED BY <1>2, <1>3, <1>4

LEMMA FuturesStep ==
    ASSUME IInv, [Next]_vars
    PROVE  FuturesInv'
<1>1. PICK bi, bj : bi = bridge_inflows /\ bj = bridge_inflows'
  OBVIOUS
<1>2. PICK old, new : old = BagToSet(futures) /\ new = BagToSet(futures')
  OBVIOUS
<1> DEFINE Ok(f) == FutureOk(f, bj) /\ HasRow(f.guid, bj)
<1>3. IsABag(futures) /\ \A f \in old : FutureOk(f, bi) /\ HasRow(f.guid, bi)
  BY <1>1, <1>2 DEF IInv, FuturesInv
<1>4. Grows(bi, bj)
  BY <1>1, InflowStep
<1>5. \A f \in old : Ok(f)
  BY <1>3, <1>4, GrowsFact
<1>6. SUFFICES IsABag(futures') /\ \A f \in new : Ok(f)
  BY <1>1, <1>2 DEF FuturesInv
<1>7. MaxRetries \in Nat \ {0} /\ None \notin Evms /\ Sentinel \notin Evms
  BY EvmSourcesAssumption
<1>8. CASE UNCHANGED futures
  BY <1>2, <1>3, <1>5, <1>8
<1>9. CASE Crash
  <2>1. futures' = EmptyBag
    BY <1>9 DEF Crash
  <2> QED BY <1>2, <2>1, EmptyBagFact
<1>10. CASE StartGuid
  <2>1. PICK g \in Guids : g = Head(guid_queue) /\ HasRow(g, bi)
    <3>1. Queued(guid_queue, bridge_inflows) /\ guid_queue # <<>>
      BY <1>10 DEF IInv, QueueInv, StartGuid
    <3> QED BY <1>1, <3>1, QueuedFact
  <2>2. PICK f : f = [guid |-> g, count |-> 0, evm |-> None, seeds |-> {}]
    OBVIOUS
  <2>3. futures' = futures (+) SetToBag({f})
    BY <1>10, <2>1, <2>2 DEF StartGuid
  <2>4. FutureOk(f, bj)
    BY <1>7, <2>2 DEF FutureOk, Future
  <2>5. HasRow(f.guid, bj)
    BY <1>4, <2>1, <2>2, GrowsFact
  <2>6. IsABag(futures') /\ new = old \cup {f}
    BY <1>2, <1>3, <2>3, BagPlusSet
  <2> QED BY <1>5, <2>4, <2>5, <2>6
<1>11. ASSUME NEW f \in old, NEW G, Becomes(f, G), \A g \in G : Ok(g)
       PROVE  IsABag(futures') /\ \A h \in new : Ok(h)
  <2>1. IsABag(futures') /\ new \subseteq old \cup G
    BY <1>2, <1>3, <1>11, BecomesFact
  <2> HIDE DEF Ok
  <2> QED BY <1>5, <1>11, <2>1
<1>12. ASSUME NEW f \in old, FetchFails(f)
       PROVE  IsABag(futures') /\ \A h \in new : Ok(h)
  <2>1. Ok(f) /\ f \in Future /\ f.count < MaxRetries
    BY <1>5 DEF FutureOk
  <2>2. CASE f.count + 1 < MaxRetries
    <3>1. PICK g : g = [f EXCEPT !.count = @ + 1]
      OBVIOUS
    <3>2. g \in Future /\ g.count = f.count + 1 /\ g.guid = f.guid /\ g.evm = f.evm
          /\ g.seeds = f.seeds
      BY <2>1, <3>1 DEF Future
    <3>3. Ok(g)
      BY <2>1, <2>2, <3>2 DEF FutureOk
    <3>4. Becomes(f, {g})
      BY <1>12, <2>2, <3>1 DEF FetchFails, RetryOrDrop
    <3> QED BY <1>11, <3>3, <3>4
  <2>3. CASE ~(f.count + 1 < MaxRetries)
    <3>1. Becomes(f, {})
      BY <1>12, <2>3 DEF FetchFails, RetryOrDrop
    <3> QED BY <1>11, <3>1
  <2> QED BY <2>2, <2>3
<1>13. ASSUME NEW f \in old, WriteEvmFails(f)
       PROVE  IsABag(futures') /\ \A h \in new : Ok(h)
  BY <1>11, <1>13 DEF WriteEvmFails
<1>14. ASSUME NEW f \in old, NEW evm \in {LzSender[f.guid], Sentinel}, ResolveGuid(f, evm)
       PROVE  IsABag(futures') /\ \A h \in new : Ok(h)
  <2>1. Ok(f) /\ f \in Future /\ f.count < MaxRetries
    BY <1>5 DEF FutureOk
  <2>2. PICK rows \in SUBSET InflowKeys : rows = RowsToResolve(f.guid)
    BY DEF RowsToResolve
  <2>3. PICK seeds : seeds = IF propagate_evm_sources /\ evm # Sentinel
                             THEN {k \in rows : bi[k].asset_type # None} ELSE {}
    OBVIOUS
  <2>4. Becomes(f, IF seeds = {} THEN {} ELSE {[f EXCEPT !.evm = evm, !.seeds = seeds]})
    BY <1>1, <1>14, <2>2, <2>3 DEF ResolveGuid
  <2>5. CASE seeds = {}
    <3>1. Becomes(f, {})
      BY <2>4, <2>5
    <3> QED BY <1>11, <3>1
  <2>6. CASE seeds # {}
    <3>1. PICK g : g = [f EXCEPT !.evm = evm, !.seeds = seeds]
      OBVIOUS
    <3>2. evm \in Evms
      <4>1. f.guid \in Guids /\ LzSender \in [Guids -> Evms]
        BY <2>1, EvmSourcesAssumption DEF Future
      <4> QED BY <2>3, <2>6, <4>1
    <3>3. seeds \in SUBSET rows /\ \A k \in seeds : bi[k].asset_type # None
      BY <2>3
    <3>4. g \in Future /\ g.count = f.count /\ g.guid = f.guid /\ g.evm = evm
          /\ g.seeds = seeds
      BY <2>1, <2>2, <3>1, <3>2, <3>3 DEF Future
    <3>5. ASSUME NEW k \in seeds
          PROVE  bj[k] # None /\ bj[k].asset_type # None /\ bj[k].evm_source = evm
      <4>1. k \in InflowKeys /\ k \in rows /\ bi[k] # None
        BY <1>1, <2>2, <3>3 DEF RowsToResolve
      <4>2. bi[k] \in InflowRow
        BY <1>1, <4>1 DEF IInv, TableInv, InflowTable
      <4>3. bj[k] = [bi[k] EXCEPT !.evm_source = evm]
        BY <1>1, <1>14, <2>2, <4>1 DEF ResolveGuid
      <4>4. bj[k].evm_source = evm
        BY <4>2, <4>3 DEF InflowRow
      <4>5. bj[k] # None /\ bj[k].asset_type = bi[k].asset_type
        BY <1>4, <4>1 DEF Grows
      <4> QED BY <3>3, <4>4, <4>5
    <3>6. Ok(g)
      BY <1>7, <2>1, <2>6, <3>2, <3>4, <3>5 DEF FutureOk
    <3>7. Becomes(f, {g})
      BY <2>4, <2>6, <3>1
    <3> QED BY <1>11, <3>6, <3>7
  <2> QED BY <2>5, <2>6
<1>15. ASSUME NEW f \in old, NEW k \in f.seeds, SeedRow(f, k) \/ SeedFails(f, k)
       PROVE  IsABag(futures') /\ \A h \in new : Ok(h)
  <2>1. Ok(f) /\ f \in Future /\ f.count < MaxRetries
    BY <1>5 DEF FutureOk
  <2>2. SeedDone(f, k)
    BY <1>15 DEF SeedRow, SeedFails
  <2>3. CASE f.seeds = {k}
    <3>1. Becomes(f, {})
      BY <2>2, <2>3 DEF SeedDone
    <3> QED BY <1>11, <3>1
  <2>4. CASE f.seeds # {k}
    <3>1. PICK g : g = [f EXCEPT !.seeds = @ \ {k}]
      OBVIOUS
    <3>2. Becomes(f, {g})
      BY <2>2, <2>4, <3>1 DEF SeedDone
    <3>3. g \in Future /\ g.count = f.count /\ g.guid = f.guid /\ g.evm = f.evm
          /\ g.seeds = f.seeds \ {k}
      BY <2>1, <3>1 DEF Future
    <3>4. g.seeds # {} /\ f.evm # None
      BY <2>1, <2>4, <3>3 DEF FutureOk
    <3>5. Ok(g)
      BY <2>1, <3>3, <3>4 DEF FutureOk
    <3> QED BY <1>11, <3>2, <3>5
  <2> QED BY <2>3, <2>4
<1>16. CASE Resolve
  BY <1>2, <1>12, <1>13, <1>14, <1>15, <1>16 DEF Resolve
<1>17. ASSUME NEW e \in Versions, Commit(e) PROVE UNCHANGED futures
  BY <1>17 DEF Commit, enricher
<1>18. ASSUME NEW ok \in BOOLEAN, LoadPendingGuids(ok) PROVE UNCHANGED futures
  BY <1>18 DEF LoadPendingGuids
<1>19. CASE Start \/ ForwardGuid \/ EndStore \/ SaveStatus \/ UNCHANGED vars
  BY <1>8, <1>19 DEF Start, ForwardGuid, EndStore, SaveStatus, vars, enricher
<1> QED BY <1>8, <1>9, <1>10, <1>16, <1>17, <1>18, <1>19 DEF Next
------------------------------------------------------------------------------
(***************************************************************************)
(* What LayerZero inflows bring.  An EVM address that no event names only  *)
(* gets fund from the enricher, whose seeds are apart: no row is pending   *)
(* in two futures.  The fund is covered by the rows that are not pending.  *)
(***************************************************************************)
Pending(bag) == UNION {f.seeds : f \in BagToSet(bag)}

SeedsApart(bag) ==
    \A f \in BagToSet(bag) : f.seeds # {} =>
        /\ bag[f] = 1
        /\ \A g \in BagToSet(bag) : g # f => f.seeds \cap g.seeds = {}

\* The inflow k counts for the source key, unless it is one of P.
Counts(bi, P, key, k) ==
    /\ bi[k] # None /\ k \notin P /\ bi[k].aptos_recipient = key[1]
    /\ bi[k].asset_type = key[2] /\ bi[k].evm_source = key[3]

Shares(bi, P, key) == [k \in InflowKeys |-> IF Counts(bi, P, key, k) THEN bi[k].amount ELSE 0]

\* The fund of the sources that no event names is what counts for them.
Covered(aes, bi, P) ==
    \A key \in Sources : key[3] \notin Named =>
        FundOf(aes[key]) <= SumFunction(Shares(bi, P, key))

FundInv ==
    /\ SeedsApart(futures)
    /\ Covered(address_evm_sources, bridge_inflows, Pending(futures))

\* A future goes on as g, or comes to its end.
LEMMA ApartFact ==
    ASSUME IsABag(futures), SeedsApart(futures), NEW f \in BagToSet(futures), NEW g,
           Becomes(f, {}) \/ Becomes(f, {g}),
           \A h \in BagToSet(futures) : h # f => g.seeds \cap h.seeds = {}
    PROVE  /\ SeedsApart(futures')
           /\ BagToSet(futures') \subseteq BagToSet(futures) \cup {g}
           /\ f.seeds # {} /\ f # g => f \notin BagToSet(futures')
<1>1. PICK old, bag : old = BagToSet(futures) /\ bag = futures
  OBVIOUS
<1>2. PICK less : less = bag (-) SetToBag({f})
  OBVIOUS
<1>3. PICK G : (G = {} \/ G = {g}) /\ Becomes(f, G)
  OBVIOUS
<1>4. PICK sum : sum = less (+) SetToBag(G)
  OBVIOUS
<1>5. futures' = sum
  BY <1>1, <1>2, <1>3, <1>4 DEF Becomes
<1>6. /\ IsABag(less) /\ BagToSet(less) \subseteq old
      /\ bag[f] = 1 => f \notin BagToSet(less)
      /\ \A e \in BagToSet(less) : e # f => less[e] = bag[e]
  BY <1>1, <1>2, BagMinusOne
<1>7. /\ BagToSet(sum) = BagToSet(less) \cup G
      /\ \A e \in BagToSet(less) \ G : sum[e] = less[e]
      /\ \A e \in G \ BagToSet(less) : sum[e] = 1
  BY <1>4, <1>6, BagPlusSet
<1>8. \A x \in old : x.seeds # {} =>
         bag[x] = 1 /\ \A y \in old : y # x => x.seeds \cap y.seeds = {}
  BY <1>1 DEF SeedsApart
<1>9. f.seeds # {} => f \notin BagToSet(less)
  BY <1>1, <1>6, <1>8
<1>10. \A h \in old : h # f => g.seeds \cap h.seeds = {}
  BY <1>1
<1>11. ASSUME NEW x \in BagToSet(sum), x.seeds # {}
       PROVE  sum[x] = 1 /\ \A y \in BagToSet(sum) : y # x => x.seeds \cap y.seeds = {}
  <2>1. CASE x \in G
    <3>1. x = g /\ G = {g}
      BY <1>3, <2>1
    <3>2. g \notin BagToSet(less)
      <4>1. CASE g = f
        BY <1>9, <1>11, <3>1, <4>1
      <4>2. CASE g # f
        BY <1>6, <1>10, <1>11, <3>1, <4>2
      <4> QED BY <4>1, <4>2
    <3>3. sum[x] = 1
      BY <1>7, <2>1, <3>1, <3>2
    <3>4. ASSUME NEW y \in BagToSet(sum), y # x PROVE x.seeds \cap y.seeds = {}
      <4>1. y \in BagToSet(less) /\ y \in old
        BY <1>6, <1>7, <3>1, <3>4
      <4>2. CASE y = f
        <5>1. f.seeds = {}
          BY <1>9, <4>1, <4>2
        <5> QED BY <4>2, <5>1
      <4>3. CASE y # f
        BY <1>10, <3>1, <4>1, <4>3
      <4> QED BY <4>2, <4>3
    <3> QED BY <3>3, <3>4
  <2>2. CASE x \notin G
    <3>1. x \in BagToSet(less) /\ x \in old /\ x # f
      BY <1>6, <1>7, <1>9, <1>11, <2>2
    <3>2. sum[x] = 1
      BY <1>6, <1>7, <1>8, <1>11, <2>2, <3>1
    <3>3. ASSUME NEW y \in BagToSet(sum), y # x PROVE x.seeds \cap y.seeds = {}
      <4>1. CASE y \in G
        <5>1. g.seeds \cap x.seeds = {} /\ y = g
          BY <1>3, <1>10, <3>1, <4>1
        <5> QED BY <5>1
      <4>2. CASE y \notin G
        BY <1>6, <1>7, <1>8, <1>11, <3>1, <3>3, <4>2
      <4> QED BY <4>1, <4>2
    <3> QED BY <3>2, <3>3
  <2> QED BY <2>1, <2>2
<1>12. SeedsApart(sum)
  BY <1>11 DEF SeedsApart
<1>13. BagToSet(sum) \subseteq old \cup {g}
  BY <1>3, <1>6, <1>7
<1>14. f.seeds # {} /\ f # g => f \notin BagToSet(sum)
  BY <1>3, <1>7, <1>9
<1> QED BY <1>1, <1>5, <1>12, <1>13, <1>14

\* The seeds stay apart; only an answer adds to them, rows without an EVM
\* address, and a seed that is written is no longer pending.
SeedsStep ==
    /\ SeedsApart(futures')
    /\ \/ /\ Pending(futures') \subseteq Pending(futures)
          /\ UNCHANGED tables \/ \E e \in Versions : Commit(e)
       \/ \E f \in BagToSet(futures) : \E evm \in {LzSender[f.guid], Sentinel} :
             /\ ResolveGuid(f, evm)
             /\ Pending(futures') \subseteq Pending(futures) \cup RowsToResolve(f.guid)
       \/ \E f \in BagToSet(futures) : \E k \in f.seeds :
             SeedRow(f, k) /\ Pending(futures') \subseteq Pending(futures) \ {k}

LEMMA SeedsKept ==
    ASSUME IInv, SeedsApart(futures), [Next]_vars
    PROVE  SeedsStep
<1>1. PICK old, new, P, Q : /\ old = BagToSet(futures) /\ new = BagToSet(futures')
                            /\ P = Pending(futures) /\ Q = Pending(futures')
  OBVIOUS
<1>2. /\ IsABag(futures)
      /\ \A f \in old : FutureOk(f, bridge_inflows) /\ f \in Future
  BY <1>1 DEF IInv, FuturesInv, FutureOk
<1>3. /\ \A f \in old : f.seeds \subseteq P
      /\ \A k \in Q : \E f \in new : k \in f.seeds
  BY <1>1 DEF Pending
<1>4. ASSUME NEW f \in old, NEW g, Becomes(f, {}) \/ Becomes(f, {g}),
             \A h \in old : h # f => g.seeds \cap h.seeds = {}
      PROVE  /\ SeedsApart(futures') /\ new \subseteq old \cup {g}
             /\ f.seeds # {} /\ f # g => f \notin new
  BY <1>1, <1>2, <1>4, ApartFact
<1>5. ASSUME SeedsApart(futures'), \A f \in new : f.seeds \subseteq P,
             UNCHANGED tables \/ \E e \in Versions : Commit(e)
      PROVE  SeedsStep
  <2>1. Pending(futures') \subseteq Pending(futures)
    BY <1>1, <1>3, <1>5
  <2> QED BY <1>5, <2>1 DEF SeedsStep
<1>6. ASSUME UNCHANGED futures, UNCHANGED tables \/ \E e \in Versions : Commit(e)
      PROVE  SeedsStep
  <2>1. SeedsApart(futures') /\ new = old
    BY <1>1, <1>6
  <2> QED BY <1>3, <1>5, <1>6, <2>1
<1>7. CASE Crash
  <2>1. futures' = EmptyBag /\ UNCHANGED tables
    BY <1>7 DEF Crash
  <2>2. new = {} /\ SeedsApart(futures')
    BY <1>1, <2>1, EmptyBagFact DEF SeedsApart
  <2> QED BY <1>5, <2>1, <2>2
<1>8. CASE StartGuid
  <2>1. PICK f : f = [guid |-> Head(guid_queue), count |-> 0, evm |-> None, seeds |-> {}]
    OBVIOUS
  <2>2. futures' = futures (+) SetToBag({f}) /\ UNCHANGED tables
    BY <1>8, <2>1 DEF StartGuid
  <2>3. PICK bag, sum : bag = futures /\ sum = futures'
    OBVIOUS
  <2>4. BagToSet(sum) = old \cup {f} /\ \A x \in old \ {f} : sum[x] = bag[x]
    BY <1>1, <1>2, <2>2, <2>3, BagPlusSet
  <2>5. f.seeds = {}
    BY <2>1
  <2>6. \A x \in old : x.seeds # {} =>
           bag[x] = 1 /\ \A y \in old : y # x => x.seeds \cap y.seeds = {}
    BY <1>1, <2>3 DEF SeedsApart
  <2>7. ASSUME NEW x \in BagToSet(sum), x.seeds # {}
        PROVE  sum[x] = 1 /\ \A y \in BagToSet(sum) : y # x => x.seeds \cap y.seeds = {}
    <3>1. x \in old /\ x # f /\ sum[x] = 1
      BY <2>4, <2>5, <2>6, <2>7
    <3>2. ASSUME NEW y \in BagToSet(sum), y # x PROVE x.seeds \cap y.seeds = {}
      BY <2>4, <2>5, <2>6, <2>7, <3>1, <3>2
    <3> QED BY <3>1, <3>2
  <2>8. SeedsApart(futures')
    BY <2>3, <2>7 DEF SeedsApart
  <2>9. \A x \in new : x.seeds \subseteq P
    BY <1>1, <1>3, <2>3, <2>4, <2>5
  <2> QED BY <1>5, <2>2, <2>8, <2>9
<1>9. ASSUME NEW f \in old, FetchFails(f) \/ WriteEvmFails(f) PROVE SeedsStep
  <2>1. f \in Future /\ f.seeds = {} /\ UNCHANGED tables
    BY <1>2, <1>9 DEF FutureOk, FetchFails, WriteEvmFails
  <2>2. PICK g : g = [f EXCEPT !.count = @ + 1]
    OBVIOUS
  <2>3. g.seeds = {}
    BY <2>1, <2>2 DEF Future
  <2>4. Becomes(f, {}) \/ Becomes(f, {g})
    BY <1>9, <2>2 DEF FetchFails, WriteEvmFails, RetryOrDrop
  <2>5. SeedsApart(futures') /\ new \subseteq old \cup {g}
    BY <1>4, <2>3, <2>4
  <2> QED BY <1>3, <1>5, <2>1, <2>3, <2>5
<1>10. ASSUME NEW f \in old, NEW evm \in {LzSender[f.guid], Sentinel}, ResolveGuid(f, evm)
       PROVE  SeedsStep
  <2>1. PICK rows : rows = RowsToResolve(f.guid)
    OBVIOUS
  <2>2. PICK seeds : seeds = IF propagate_evm_sources /\ evm # Sentinel
                        THEN {k \in rows : bridge_inflows[k].asset_type # None} ELSE {}
    OBVIOUS
  <2>3. PICK g : g = [f EXCEPT !.evm = evm, !.seeds = seeds]
    OBVIOUS
  <2>4. Becomes(f, {}) \/ Becomes(f, {g})
    <3>1. Becomes(f, IF seeds = {} THEN {} ELSE {g})
      BY <1>10, <2>1, <2>2, <2>3 DEF ResolveGuid
    <3> QED BY <3>1
  <2>5. g.seeds = seeds /\ seeds \subseteq rows
    <3>1. f \in Future
      BY <1>2
    <3> QED BY <2>2, <2>3, <3>1 DEF Future
  <2>6. ASSUME NEW h \in old PROVE g.seeds \cap h.seeds = {}
    <3>1. \A k \in rows : bridge_inflows[k].evm_source = None
      BY <2>1 DEF RowsToResolve
    <3>2. \A k \in h.seeds : bridge_inflows[k].evm_source # None
      BY <1>2 DEF FutureOk
    <3> QED BY <2>5, <3>1, <3>2
  <2>7. SeedsApart(futures') /\ new \subseteq old \cup {g}
    BY <1>4, <2>4, <2>6
  <2>8. Q \subseteq P \cup rows
    BY <1>3, <2>5, <2>7
  <2>9. Pending(futures') \subseteq Pending(futures) \cup RowsToResolve(f.guid)
    BY <1>1, <2>1, <2>8
  <2> QED BY <1>1, <1>10, <2>7, <2>9 DEF SeedsStep
<1>11. ASSUME NEW f \in old, NEW k \in f.seeds, SeedRow(f, k) \/ SeedFails(f, k)
       PROVE  SeedsStep
  <2>1. PICK g : g = [f EXCEPT !.seeds = @ \ {k}]
    OBVIOUS
  <2>2. Becomes(f, {}) \/ Becomes(f, {g})
    BY <1>11, <2>1 DEF SeedRow, SeedFails, SeedDone
  <2>3. g.seeds = f.seeds \ {k}
    <3>1. f \in Future
      BY <1>2
    <3> QED BY <2>1, <3>1 DEF Future
  <2>4. ASSUME NEW h \in old, h # f PROVE f.seeds \cap h.seeds = {}
    BY <1>1, <2>4 DEF SeedsApart
  <2>5. f # g
    BY <2>3
  <2>6. SeedsApart(futures') /\ new \subseteq old \cup {g} /\ f \notin new
    <3>1. \A h \in old : h # f => g.seeds \cap h.seeds = {}
      BY <2>3, <2>4
    <3> QED BY <1>4, <2>2, <2>5, <3>1
  <2>7. \A h \in new : h.seeds \subseteq P \ {k}
    BY <1>3, <2>3, <2>4, <2>6
  <2>8. CASE SeedRow(f, k)
    <3>1. Q \subseteq P \ {k}
      BY <1>3, <2>7
    <3>2. Pending(futures') \subseteq Pending(futures) \ {k}
      BY <1>1, <3>1
    <3> QED BY <1>1, <2>6, <2>8, <3>2 DEF SeedsStep
  <2>9. CASE SeedFails(f, k)
    BY <1>5, <2>6, <2>7, <2>9 DEF SeedFails
  <2> QED BY <1>11, <2>8, <2>9
<1>12. CASE Resolve
  BY <1>1, <1>9, <1>10, <1>11, <1>12 DEF Resolve
<1>13. ASSUME NEW e \in Versions, Commit(e) PROVE SeedsStep
  BY <1>6, <1>13 DEF Commit, enricher
<1>14. ASSUME NEW ok \in BOOLEAN, LoadPendingGuids(ok) PROVE SeedsStep
  BY <1>6, <1>14 DEF LoadPendingGuids
<1>15. CASE Start \/ ForwardGuid \/ EndStore \/ SaveStatus \/ UNCHANGED vars
  BY <1>6, <1>15 DEF Start, ForwardGuid, EndStore, SaveStatus, vars, enricher
<1> QED BY <1>7, <1>8, <1>12, <1>13, <1>14, <1>15 DEF Next

\* The sums of shares of two tables compare when what counts in the one counts
\* in the other, and differ by the amount of a row that only counts in the other.
LEMMA SharesFact ==
    ASSUME NEW bi \in InflowTable, NEW new \in InflowTable, NEW P, NEW Q, NEW key \in Sources,
           \A k \in InflowKeys : Counts(bi, P, key, k) => Counts(new, Q, key, k)
    PROVE  /\ SumFunction(Shares(bi, P, key)) \in Nat /\ SumFunction(Shares(new, Q, key)) \in Nat
           /\ SumFunction(Shares(bi, P, key)) <= SumFunction(Shares(new, Q, key))
           /\ \A d \in InflowKeys : Counts(new, Q, key, d) /\ ~Counts(bi, P, key, d) =>
                 SumFunction(Shares(bi, P, key)) + new[d].amount
                    <= SumFunction(Shares(new, Q, key))
<1> DEFINE amount(k) == Events[k[1]][k[2]].amount
<1>1. \A k \in InflowKeys :
         /\ amount(k) \in Nat
         /\ bi[k] # None => bi[k].amount = amount(k)
         /\ new[k] # None => new[k].amount = amount(k)
  <2>1. \A k \in InflowKeys : amount(k) \in Nat
    BY InflowKeysFact, IndicesFact DEF Event
  <2>2. \A k \in InflowKeys : /\ bi[k] # None => bi[k].amount = amount(k)
                              /\ new[k] # None => new[k].amount = amount(k)
    BY DEF InflowTable, RowOfEvent
  <2> QED BY <2>1, <2>2
<1> HIDE DEF amount
<1>2. PICK f, g : f = Shares(bi, P, key) /\ g = Shares(new, Q, key)
  OBVIOUS
<1>3. f = [k \in InflowKeys |-> IF Counts(bi, P, key, k) THEN amount(k) ELSE 0]
  BY <1>1, <1>2 DEF Shares, Counts
<1>4. g = [k \in InflowKeys |-> IF Counts(new, Q, key, k) THEN amount(k) ELSE 0]
  BY <1>1, <1>2 DEF Shares, Counts
<1>5. f \in [InflowKeys -> Nat] /\ g \in [InflowKeys -> Nat]
  BY <1>1, <1>3, <1>4
<1>6. \A k \in InflowKeys : f[k] <= g[k]
  BY <1>1, <1>3, <1>4
<1>7. /\ SumFunction(f) \in Nat /\ SumFunction(g) \in Nat /\ SumFunction(f) <= SumFunction(g)
      /\ \A d \in InflowKeys : \A a \in Nat :
            f[d] + a <= g[d] => SumFunction(f) + a <= SumFunction(g)
  BY <1>5, <1>6, InflowKeysFact, SumMonotone
<1>8. ASSUME NEW d \in InflowKeys, Counts(new, Q, key, d), ~Counts(bi, P, key, d)
      PROVE  SumFunction(f) + new[d].amount <= SumFunction(g)
  <2>1. new[d].amount = amount(d) /\ amount(d) \in Nat
    BY <1>1, <1>8 DEF Counts
  <2>2. f[d] + amount(d) <= g[d]
    BY <1>3, <1>4, <1>8, <2>1
  <2> QED BY <1>7, <2>1, <2>2
<1> QED BY <1>2, <1>7, <1>8

\* A step that leaves the fund of the sources alone and only adds to what
\* counts.
LEMMA CoveredKept ==
    ASSUME NEW aes \in Rollup, NEW aft \in Rollup, NEW bi \in InflowTable, NEW new \in InflowTable,
           NEW P, NEW Q, Covered(aes, bi, P),
           \A key \in Sources : key[3] \notin Named => FundOf(aft[key]) = FundOf(aes[key]),
           \A key \in Sources : \A k \in InflowKeys :
              Counts(bi, P, key, k) => Counts(new, Q, key, k)
    PROVE  Covered(aft, new, Q)
<1> SUFFICES ASSUME NEW key \in Sources, key[3] \notin Named
             PROVE  FundOf(aft[key]) <= SumFunction(Shares(new, Q, key))
  BY DEF Covered
<1>1. /\ SumFunction(Shares(bi, P, key)) \in Nat /\ SumFunction(Shares(new, Q, key)) \in Nat
      /\ SumFunction(Shares(bi, P, key)) <= SumFunction(Shares(new, Q, key))
  BY SharesFact
<1>2. FundOf(aft[key]) = FundOf(aes[key]) /\ FundOf(aes[key]) <= SumFunction(Shares(bi, P, key))
  BY DEF Covered
<1>3. FundOf(aes[key]) \in Nat
  BY DEF FundOf, Rollup, SourceRow
<1> QED BY <1>1, <1>2, <1>3

\* A batch only adds to the fund of EVM addresses that events name.
LEMMA CommitFunds ==
    ASSUME IInv, NEW e \in Versions, Commit(e)
    PROVE  \A key \in Sources : key[3] \notin Named =>
              FundOf(address_evm_sources'[key]) = FundOf(address_evm_sources[key])
<1>1. PICK aes \in Rollup : aes = address_evm_sources
  BY DEF IInv, TableInv
<1>2. PICK s \in Versions : s = next_version /\ s <= e
  BY CommitRange
<1>3. PICK edges, inflows : edges = BatchEdges[s][e] /\ inflows = BatchInflows[s][e]
  OBVIOUS
<1>4. address_evm_sources' = RolledUp(aes, edges, inflows)
  BY <1>1, <1>2, <1>3 DEF Commit
<1>5. /\ Len(edges) \in Nat
      /\ \A n \in 1 .. Len(edges) : /\ edges[n] \in EdgeRow
                                    /\ EvmOf(edges[n], inflows) \in Evms \cup {None}
                                    /\ EvmOf(edges[n], inflows) # None =>
                                          edges[n].amount \in Amounts
  BY <1>2, <1>3, EdgesOfBatch
<1> DEFINE Same(x) == \A key \in Sources : key[3] \notin Named => FundOf(x[key]) = FundOf(aes[key])
           X == {x \in Rollup : Same(x)}
<1>6. ASSUME NEW x \in X, NEW n \in 1 .. Len(edges)
      PROVE  ApplyEdge(x, edges[n], inflows) \in X
  <2>1. PICK edge \in EdgeRow : edge = edges[n]
    BY <1>5
  <2>2. x \in Rollup /\ Same(x)
    OBVIOUS
  <2>3. PICK y : y = ApplyEdge(x, edge, inflows)
    OBVIOUS
  <2>4. /\ EvmOf(edge, inflows) \in Evms \cup {None}
        /\ EvmOf(edge, inflows) # None => edge.amount \in Amounts
    BY <1>5, <2>1
  <2> HIDE DEF Same, X
  <2>5. /\ y \in Rollup
        /\ \A k \in Sources : y[k] # x[k] =>
              /\ edge.asset_type # None
              /\ k[1] = edge.to_address /\ k[2] = edge.asset_type
              /\ edge.is_bridge_inflow => k[3] = EvmOf(edge, inflows) /\ Seeded(y, k)
              /\ ~edge.is_bridge_inflow => Shared(x, y, k, edge.from_address)
    BY <2>2, <2>3, <2>4, ApplyEdgeFact
  <2>6. EvmOf(edge, inflows) # None => EvmOf(edge, inflows) \in Named
    <3>1. PICK evm : evm = EvmOf(edge, inflows)
      OBVIOUS
    <3>2. evm # None => \E k \in InflowKeys :
             /\ k[1] \in s .. e /\ k[1] = edge.version
             /\ Events[k[1]][k[2]].address = edge.to_address
             /\ Events[k[1]][k[2]].amount = edge.amount
             /\ Events[k[1]][k[2]].evm = evm
      BY <1>2, <1>3, <3>1, EvmOfFact
    <3> QED BY <3>1, <3>2 DEF Named
  <2>7. ASSUME NEW key \in Sources, key[3] \notin Named PROVE FundOf(y[key]) = FundOf(x[key])
    <3>1. CASE y[key] = x[key]
      BY <3>1
    <3>2. CASE y[key] # x[key]
      <4>1. key[3] \in Evms /\ None \notin Evms
        BY SourcesFact, EvmSourcesAssumption
      <4>2. Shared(x, y, key, edge.from_address)
        BY <2>5, <2>6, <2>7, <3>2, <4>1
      <4>3. y[key].evm_fund = FundOf(x[key]) /\ y[key] # None
        BY <4>2, EvmSourcesAssumption DEF Shared, RowOk
      <4> QED BY <4>3 DEF FundOf
    <3> QED BY <3>1, <3>2
  <2>8. Same(y)
    BY <2>2, <2>7 DEF Same
  <2> QED BY <2>1, <2>3, <2>5, <2>8 DEF X
<1>7. aes \in X
  OBVIOUS
<1>8. RolledUp(aes, edges, inflows) \in X
  <2> HIDE DEF X
  <2> QED BY <1>5, <1>6, <1>7, RolledUpFact
<1> QED BY <1>1, <1>4, <1>8

LEMMA FundStep ==
    ASSUME IInv, IInv', FundInv, [Next]_vars
    PROVE  FundInv'
<1>1. PICK aes, bi, P : /\ aes = address_evm_sources /\ bi = bridge_inflows
                        /\ P = Pending(futures)
  OBVIOUS
<1>2. PICK aft, new, Q : /\ aft = address_evm_sources' /\ new = bridge_inflows'
                         /\ Q = Pending(futures')
  OBVIOUS
<1>3. aes \in Rollup /\ aft \in Rollup /\ bi \in InflowTable /\ new \in InflowTable
  BY <1>1, <1>2 DEF IInv, TableInv
<1>4. Covered(aes, bi, P) /\ SeedsApart(futures)
  BY <1>1 DEF FundInv
<1>5. SeedsStep
  BY <1>4, SeedsKept
<1>6. Grows(bi, new)
  BY <1>1, <1>2, InflowStep
<1>7. SUFFICES Covered(aft, new, Q)
  BY <1>2, <1>5 DEF SeedsStep, FundInv
\* What counts still does if it is not pending.
<1>8. ASSUME NEW key \in Sources, NEW k \in InflowKeys, Counts(bi, P, key, k), k \notin Q
      PROVE  Counts(new, Q, key, k)
  <2>1. key[3] # None
    BY SourcesFact, EvmSourcesAssumption
  <2> QED BY <1>6, <1>8, <2>1 DEF Counts, Grows
<1>9. CASE Q \subseteq P /\ (UNCHANGED tables \/ \E e \in Versions : Commit(e))
  <2>1. \A key \in Sources : key[3] \notin Named => FundOf(aft[key]) = FundOf(aes[key])
    <3>1. CASE UNCHANGED tables
      BY <1>1, <1>2, <3>1 DEF tables
    <3>2. ASSUME NEW e \in Versions, Commit(e)
          PROVE  \A key \in Sources : key[3] \notin Named => FundOf(aft[key]) = FundOf(aes[key])
      BY <1>1, <1>2, <3>2, CommitFunds
    <3> QED BY <1>9, <3>1, <3>2
  <2>2. \A key \in Sources : \A k \in InflowKeys : Counts(bi, P, key, k) => Counts(new, Q, key, k)
    <3>1. \A key \in Sources : \A k \in InflowKeys : Counts(bi, P, key, k) => k \notin Q
      BY <1>9 DEF Counts
    <3> QED BY <1>8, <3>1
  <2> QED BY <1>3, <1>4, <2>1, <2>2, CoveredKept
<1>10. ASSUME NEW f \in BagToSet(futures), NEW evm, ResolveGuid(f, evm),
              Q \subseteq P \cup RowsToResolve(f.guid)
       PROVE  Covered(aft, new, Q)
  <2>1. aft = aes
    BY <1>1, <1>2, <1>10 DEF ResolveGuid
  <2>2. PICK rows : rows = RowsToResolve(f.guid)
    OBVIOUS
  <2>3. \A k \in rows : bi[k].evm_source = None
    BY <1>1, <2>2 DEF RowsToResolve
  <2>4. \A key \in Sources : \A k \in InflowKeys : Counts(bi, P, key, k) => Counts(new, Q, key, k)
    <3>1. \A key \in Sources : key[3] # None
      BY SourcesFact, EvmSourcesAssumption
    <3>2. \A key \in Sources : \A k \in InflowKeys : Counts(bi, P, key, k) => k \notin Q
      BY <1>10, <2>2, <2>3, <3>1 DEF Counts
    <3> QED BY <1>8, <3>2
  <2> QED BY <1>3, <1>4, <2>1, <2>4, CoveredKept
<1>11. ASSUME NEW f \in BagToSet(futures), NEW k \in f.seeds, SeedRow(f, k), Q \subseteq P \ {k}
       PROVE  Covered(aft, new, Q)
  <2>1. PICK row : row = bi[k]
    OBVIOUS
  <2>2. /\ k \in InflowKeys /\ row \in InflowRow /\ row # None /\ row.asset_type # None
        /\ row.evm_source = f.evm /\ f.evm \in Evms
    <3>1. FutureOk(f, bi)
      BY <1>1 DEF IInv, FuturesInv
    <3>2. k \in InflowKeys /\ bi[k] # None /\ bi[k].asset_type # None /\ bi[k].evm_source = f.evm
          /\ f.evm \in Evms
      BY <3>1 DEF FutureOk, Future
    <3> QED BY <1>3, <2>1, <3>2 DEF InflowTable
  <2>3. k \in P
    BY <1>1 DEF Pending
  <2>4. PICK at, ord : /\ at = <<row.aptos_recipient, row.asset_type, f.evm>>
                       /\ ord = seen_ord(row.version, row.event_index)
    OBVIOUS
  <2>5. at \in Sources /\ at[1] = row.aptos_recipient /\ at[2] = row.asset_type /\ at[3] = f.evm
    BY <2>2, <2>4, SourcesFact DEF InflowRow
  <2>6. Upserted(aes, aft, at, row.amount, ord) /\ new = bi
    BY <1>1, <1>2, <1>11, <2>1, <2>4 DEF SeedRow, Upserted
  <2>7. FundOf(aft[at]) = FundOf(aes[at]) + row.amount
    <3>1. aft[at] = BridgeSeed(aes[at], row.amount, ord)
      BY <1>3, <2>5, <2>6 DEF Upserted, Rollup
    <3>2. BridgeSeed(aes[at], row.amount, ord).evm_fund = FundOf(aes[at]) + row.amount
      <4>1. CASE aes[at] = None
        BY <2>2, <4>1 DEF BridgeSeed, FundOf, InflowRow
      <4>2. CASE aes[at] # None
        BY <4>2 DEF BridgeSeed, FundOf
      <4> QED BY <4>1, <4>2
    <3>3. aft[at] # None
      <4>1. row.amount \in Amounts
        <5>1. row.amount = Events[k[1]][k[2]].amount /\ row.amount \in Nat
          BY <1>3, <2>1, <2>2 DEF InflowTable, RowOfEvent, InflowRow
        <5> QED BY <2>2, <5>1 DEF Amounts, AmountsPositive
      <4>2. ord \in Nat \X Nat
        BY <2>2, <2>4 DEF InflowRow, seen_ord
      <4>3. aes[at] \in SourceRow \cup {None} /\ (aes[at] # None => RowOk(aes[at]))
        BY <1>3, <2>5 DEF Rollup
      <4>4. RowOk(aft[at])
        BY <3>1, <4>1, <4>2, <4>3, BridgeSeedFact
      <4> QED BY <4>4, EvmSourcesAssumption DEF RowOk
    <3> QED BY <3>1, <3>2, <3>3 DEF FundOf
  <2>8. \A key \in Sources : key # at => aft[key] = aes[key]
    BY <1>3, <2>6 DEF Upserted, Rollup
  <2>9. \A key \in Sources : \A j \in InflowKeys : Counts(bi, P, key, j) => Counts(new, Q, key, j)
    <3>1. \A key \in Sources : \A j \in InflowKeys : Counts(bi, P, key, j) => j \notin Q
      BY <1>11 DEF Counts
    <3> QED BY <1>8, <3>1
  <2>10. ASSUME NEW key \in Sources, key[3] \notin Named
         PROVE  FundOf(aft[key]) <= SumFunction(Shares(new, Q, key))
    <3>1. PICK m, n : m = SumFunction(Shares(bi, P, key)) /\ n = SumFunction(Shares(new, Q, key))
      OBVIOUS
    <3>2. /\ m \in Nat /\ n \in Nat /\ m <= n
          /\ \A d \in InflowKeys : Counts(new, Q, key, d) /\ ~Counts(bi, P, key, d) =>
                m + new[d].amount <= n
      BY <1>3, <2>9, <3>1, SharesFact
    <3>3. FundOf(aes[key]) <= m /\ FundOf(aes[key]) \in Nat
      BY <1>3, <1>4, <2>10, <3>1 DEF Covered, FundOf, Rollup, SourceRow
    <3>4. CASE key # at
      BY <2>8, <3>1, <3>2, <3>3, <3>4
    <3>5. CASE key = at
      <4>1. Counts(new, Q, key, k) /\ ~Counts(bi, P, key, k)
        BY <1>11, <2>1, <2>2, <2>3, <2>5, <2>6, <3>5 DEF Counts
      <4>2. m + row.amount <= n
        BY <2>1, <2>2, <2>6, <3>2, <4>1
      <4>3. row.amount \in Nat
        BY <2>2 DEF InflowRow
      <4> QED BY <2>7, <3>1, <3>2, <3>3, <3>5, <4>2, <4>3
    <3> QED BY <3>4, <3>5
  <2> QED BY <2>10 DEF Covered
<1> QED BY <1>1, <1>2, <1>5, <1>9, <1>10, <1>11 DEF SeedsStep
------------------------------------------------------------------------------
(***************************************************************************)
(* Seeds reach later transfers.  A batch is applied in the order of the    *)
(* chain, so the head edge of an inflow is applied before the transfers    *)
(* behind it; and a batch is only stored when the versions before it are,  *)
(* so an inflow that is new has no transfer behind it stored already.      *)
(***************************************************************************)
\* The source that an inflow seeds at its recipient, if its event names one.
SeedKey(k) ==
    <<Events[k[1]][k[2]].address, InflowAsset(k[1], k[2]), Events[k[1]][k[2]].evm>>
NamesSource(k) == Events[k[1]][k[2]].evm # None /\ InflowAsset(k[1], k[2]) # None

\* A source that funded the address itself.
Direct(aes, key) == aes[key] # None /\ aes[key].hops_min = 0

LEMMA SeedKeyFact ==
    ASSUME NEW k \in InflowKeys
    PROVE  /\ k = seen_ord(k[1], k[2]) /\ k[1] \in Nat /\ k[2] \in Nat
           /\ Events[k[1]][k[2]].amount \in Amounts
           /\ NamesSource(k) =>
                 /\ SeedKey(k) \in Sources
                 /\ SeedKey(k)[1] = Events[k[1]][k[2]].address
                 /\ SeedKey(k)[2] = InflowAsset(k[1], k[2])
                 /\ SeedKey(k)[3] = Events[k[1]][k[2]].evm
<1>1. k = <<k[1], k[2]>> /\ k[1] \in Versions /\ k[2] \in IndicesOf(k[1], "bridge")
  BY InflowKeysFact
<1>2. Events[k[1]][k[2]] \in Event /\ k[1] \in Nat /\ k[2] \in Nat
  BY <1>1, IndicesFact, VersionsFact
<1>3. InflowAsset(k[1], k[2]) \in Assets \cup {None}
  BY <1>1, InflowFact
<1>4. Events[k[1]][k[2]].amount \in Amounts
  BY <1>2 DEF Event, Amounts, AmountsPositive
<1>5. ASSUME NamesSource(k) PROVE SeedKey(k) \in Sources
  BY <1>2, <1>3, <1>5, SourcesFact DEF NamesSource, SeedKey, Event
<1> QED BY <1>1, <1>2, <1>4, <1>5 DEF SeedKey, seen_ord

LEMMA DirectKept ==
    ASSUME NEW aes \in Rollup, NEW new \in Rollup, Kept(aes, new), NEW key \in Sources,
           Direct(aes, key)
    PROVE  Direct(new, key)
<1>1. new[key] # None /\ new[key].hops_min <= 0
  BY DEF Kept, Direct
<1>2. new[key].hops_min \in Nat
  BY <1>1 DEF Rollup, RowOk, SourceRow
<1> QED BY <1>1, <1>2 DEF Direct

\* The head edge of an inflow seeds the source its event names.
LEMMA HeadSeeds ==
    ASSUME NEW aes \in Rollup, NEW k \in InflowKeys, NamesSource(k), NEW inflows,
           EvmOf(HeadEdge(k[1], k[2]), inflows) = Events[k[1]][k[2]].evm
    PROVE  Direct(ApplyEdge(aes, HeadEdge(k[1], k[2]), inflows), SeedKey(k))
<1>1. PICK edge, evm, key, ord : /\ edge = HeadEdge(k[1], k[2]) /\ evm = Events[k[1]][k[2]].evm
                                 /\ key = SeedKey(k) /\ ord = seen_ord(k[1], k[2])
  OBVIOUS
<1>2. /\ edge.asset_type # None /\ edge.is_bridge_inflow /\ evm # None
      /\ edge.amount = Events[k[1]][k[2]].amount
      /\ key = <<edge.to_address, edge.asset_type, evm>>
      /\ ord = seen_ord(edge.version, edge.event_index)
  BY <1>1 DEF HeadEdge, NamesSource, SeedKey
<1>3. key \in Sources /\ edge.amount \in Amounts /\ ord \in Nat \X Nat
  BY <1>1, <1>2, SeedKeyFact DEF seen_ord
<1>4. PICK new : new = ApplyEdge(aes, edge, inflows)
  OBVIOUS
<1>5. Upserted(aes, new, key, edge.amount, ord)
  BY <1>1, <1>2, <1>4 DEF ApplyEdge, Upserted
<1>6. /\ aes \in [Sources -> SourceRow \cup {None}]
      /\ aes[key] \in SourceRow \cup {None} /\ (aes[key] # None => RowOk(aes[key]))
  BY <1>3 DEF Rollup
<1>7. new[key] = BridgeSeed(aes[key], edge.amount, ord)
  BY <1>3, <1>5, <1>6 DEF Upserted
<1>8. RowOk(new[key]) /\ new[key].hops_min = 0
  BY <1>3, <1>6, <1>7, BridgeSeedFact
<1>9. new[key] # None
  BY <1>8, EvmSourcesAssumption DEF RowOk
<1> QED BY <1>1, <1>4, <1>8, <1>9 DEF Direct

\* A transfer out of an address takes its direct sources along.
LEMMA TransferReaches ==
    ASSUME AmountsPositive, NEW aes \in Rollup, NEW edge \in EdgeRow, NEW inflows,
           edge.asset_type # None, ~edge.is_bridge_inflow, NEW evm \in Evms,
           Direct(aes, <<edge.from_address, edge.asset_type, evm>>)
    PROVE  ApplyEdge(aes, edge, inflows)[<<edge.to_address, edge.asset_type, evm>>] # None
<1> DEFINE from(e) == aes[<<edge.from_address, edge.asset_type, e>>]
           src == {e \in Evms : from(e) # None}
           ord == seen_ord(edge.version, edge.event_index)
<1>1. edge.from_address \in Addresses /\ edge.to_address \in Addresses /\ edge.asset_type \in Assets
  BY DEF EdgeRow
<1>2. PICK key : key = <<edge.to_address, edge.asset_type, evm>>
  OBVIOUS
<1>3. /\ key \in Sources /\ key[1] = edge.to_address /\ key[2] = edge.asset_type /\ key[3] = evm
      /\ <<edge.from_address, edge.asset_type, evm>> \in Sources
  BY <1>1, <1>2, SourcesFact
<1>4. from(evm) # None /\ RowOk(from(evm)) /\ from(evm).hops_min = 0
  BY <1>3 DEF Direct, Rollup
<1>5. evm \in src /\ from(evm).evm_fund # 0
  BY <1>4 DEF RowOk, SourceRow
<1>6. ApplyEdge(aes, edge, inflows) = PropagateEvmSources(aes, edge)
  BY DEF ApplyEdge
<1>7. PropagateEvmSources(aes, edge) =
         IF \A e \in src : from(e).evm_fund = 0 THEN aes
         ELSE [k \in Sources |->
                 IF k[1] = edge.to_address /\ k[2] = edge.asset_type /\ k[3] \in src
                 THEN TransferShare(aes[k], Hops(from(k[3])), ord) ELSE aes[k]]
  BY DEF PropagateEvmSources
<1>8. PropagateEvmSources(aes, edge)[key] = TransferShare(aes[key], Hops(from(evm)), ord)
  <2> HIDE DEF from, src, ord
  <2> QED BY <1>3, <1>5, <1>7
<1>9. PICK hops \in Nat \ {0} : hops = Hops(from(evm))
  BY <1>4 DEF Hops, RowOk, SourceRow
<1>10. ord \in Nat \X Nat
  BY DEF EdgeRow, seen_ord
<1>11. aes[key] \in SourceRow \cup {None} /\ (aes[key] # None => RowOk(aes[key]))
  BY <1>3 DEF Rollup
<1>12. RowOk(TransferShare(aes[key], hops, ord))
  <2> HIDE DEF ord
  <2> QED BY <1>10, <1>11, TransferShareFact
<1>13. TransferShare(aes[key], hops, ord) # None
  BY <1>12, EvmSourcesAssumption DEF RowOk
<1> HIDE DEF from, ord
<1> QED BY <1>2, <1>6, <1>8, <1>9, <1>13

\* Along the loop no row is lost and no address gets farther from a source.
LEMMA IterationsKept ==
    ASSUME NEW edges, NEW inflows, NEW aes, Len(edges) \in Nat,
           \A n \in 1 .. Len(edges) : /\ edges[n] \in EdgeRow
                                      /\ EvmOf(edges[n], inflows) \in Evms \cup {None}
                                      /\ EvmOf(edges[n], inflows) # None =>
                                            edges[n].amount \in Amounts,
           NEW h \in [0 .. Len(edges) -> Rollup], Iterations(h, aes, edges, inflows)
    PROVE  \A m, n \in 0 .. Len(edges) : m <= n => Kept(h[m], h[n])
<1>1. PICK N \in Nat : N = Len(edges)
  OBVIOUS
<1>2. \A n \in 0 .. N : h[n] \in Rollup
  BY <1>1
<1>3. \A n \in 0 .. N : \A k \in Sources : h[n][k] # None => h[n][k].hops_min \in Nat
  BY <1>2 DEF Rollup, RowOk, SourceRow
<1> SUFFICES ASSUME NEW m \in 0 .. N PROVE \A n \in 0 .. N : m <= n => Kept(h[m], h[n])
  BY <1>1
<1> DEFINE P == {n \in 0 .. N : m <= n => Kept(h[m], h[n])}
<1>4. Kept(h[m], h[m])
  BY <1>3 DEF Kept
<1>5. 0 \in P
  BY <1>4
<1>6. ASSUME NEW n \in 1 .. N, n - 1 \in P PROVE n \in P
  <2>1. CASE m <= n - 1
    <3>1. Kept(h[m], h[n - 1]) /\ n - 1 \in 0 .. N
      BY <1>6, <2>1
    <3>2. PICK x, y : x = h[n - 1] /\ y = h[n]
      OBVIOUS
    <3>3. x \in Rollup /\ y = ApplyEdge(x, edges[n], inflows)
      BY <1>1, <1>2, <3>1, <3>2 DEF Iterations
    <3>4. Kept(x, y)
      BY <1>1, <3>3, ApplyEdgeKept
    <3>5. Kept(h[m], y)
      <4> SUFFICES ASSUME NEW k \in Sources, h[m][k] # None
                   PROVE  y[k] # None /\ y[k].hops_min <= h[m][k].hops_min
        BY DEF Kept
      <4>1. x[k] # None /\ x[k].hops_min <= h[m][k].hops_min
        BY <3>1, <3>2 DEF Kept
      <4>2. y[k] # None /\ y[k].hops_min <= x[k].hops_min
        BY <3>4, <4>1 DEF Kept
      <4>3. h[m][k].hops_min \in Nat /\ x[k].hops_min \in Nat /\ y[k].hops_min \in Nat
        BY <1>3, <3>1, <3>2, <4>1, <4>2
      <4> QED BY <4>1, <4>2, <4>3
    <3> QED BY <3>2, <3>5
  <2>2. CASE ~(m <= n - 1)
    <3>1. m <= n => n = m
      BY <2>2
    <3> QED BY <1>4, <3>1
  <2> QED BY <2>1, <2>2
<1>7. \A n \in 0 .. N : n \in P
  <2> HIDE DEF P
  <2> QED BY <1>5, <1>6, InductionUpTo
<1> QED BY <1>7

\* The rollup after a batch: the sources of its inflows are direct ones of the
\* recipients, and its transfers took along what was direct before them.
BatchSeeds(new, s, e) ==
    \A k \in InflowKeys : k[1] \in s .. e /\ NamesSource(k) => Direct(new, SeedKey(k))

\* The transfer edge is behind the inflow k, in the asset that k brought.
Behind(edge, k) ==
    /\ ~edge.is_bridge_inflow /\ edge.from_address = SeedKey(k)[1]
    /\ edge.asset_type = SeedKey(k)[2] /\ Before(k, Ord(edge))

Reached(aes, edge, k) == aes[<<edge.to_address, SeedKey(k)[2], SeedKey(k)[3]>>] # None

LEMMA BatchReaches ==
    ASSUME AmountsPositive, SendersAgree, propagate_evm_sources,
           NEW s \in Versions, NEW e \in Versions, s <= e, NEW aes \in Rollup,
           NEW new, new = RolledUp(aes, BatchEdges[s][e], BatchInflows[s][e])
    PROVE  /\ Kept(aes, new) /\ BatchSeeds(new, s, e)
           /\ \A k \in InflowKeys, edge \in Range(BatchEdges[s][e]) :
                 /\ NamesSource(k) /\ Behind(edge, k)
                 /\ k[1] \in s .. e \/ Direct(aes, SeedKey(k))
                 => Reached(new, edge, k)
<1>1. PICK edges, inflows : edges = BatchEdges[s][e] /\ inflows = BatchInflows[s][e]
  OBVIOUS
<1>2. /\ Len(edges) \in Nat
      /\ \A n \in 1 .. Len(edges) : /\ edges[n] \in EdgeRow
                                    /\ EvmOf(edges[n], inflows) \in Evms \cup {None}
                                    /\ EvmOf(edges[n], inflows) # None =>
                                          edges[n].amount \in Amounts
  BY <1>1, EdgesOfBatch
<1>3. PICK N \in Nat : N = Len(edges)
  BY <1>2
<1>4. \A x \in Rollup : \A n \in 1 .. N : ApplyEdge(x, edges[n], inflows) \in Rollup
  BY <1>2, <1>3, ApplyEdgeKept
<1>5. LoopWithin(Rollup, aes, edges, inflows)
  BY <1>2, <1>3, <1>4, RolledUpSteps
<1>6. PICK h \in [0 .. N -> Rollup] : Iterations(h, aes, edges, inflows) /\ new = h[N]
  BY <1>1, <1>3, <1>5 DEF LoopWithin
<1>7. \A m, n \in 0 .. N : m <= n => Kept(h[m], h[n])
  BY <1>2, <1>3, <1>6, IterationsKept
<1>8. h[0] = aes /\ \A n \in 1 .. N : h[n] = ApplyEdge(h[n - 1], edges[n], inflows)
  BY <1>3, <1>6 DEF Iterations
<1>9. \A n \in 0 .. N : h[n] \in Rollup
  BY <1>6
<1>10. Kept(aes, new)
  <2>1. 0 \in 0 .. N /\ N \in 0 .. N /\ 0 <= N
    OBVIOUS
  <2> QED BY <1>6, <1>7, <1>8, <2>1
\* Direct sources stay direct.
<1>11. ASSUME NEW m \in 0 .. N, NEW n \in 0 .. N, m <= n, NEW key \in Sources, Direct(h[m], key)
       PROVE  Direct(h[n], key)
  BY <1>7, <1>9, <1>11, DirectKept
\* The head edge of an inflow of the batch.
<1>12. ASSUME NEW k \in InflowKeys, k[1] \in s .. e
       PROVE  \E m \in 1 .. N : /\ edges[m] = HeadEdge(k[1], k[2])
                                /\ NamesSource(k) => Direct(h[m], SeedKey(k))
  <2>1. PICK m \in 1 .. N : edges[m] = HeadEdge(k[1], k[2])
    BY <1>1, <1>3, <1>12, BatchEdgesOrder
  <2>2. EvmOf(HeadEdge(k[1], k[2]), inflows) = Events[k[1]][k[2]].evm
    BY <1>1, <1>12, EvmOfHead
  <2>3. m - 1 \in 0 .. N
    OBVIOUS
  <2>4. h[m - 1] \in Rollup /\ h[m] = ApplyEdge(h[m - 1], HeadEdge(k[1], k[2]), inflows)
    BY <1>8, <1>9, <2>1, <2>3
  <2>5. NamesSource(k) => Direct(h[m], SeedKey(k))
    BY <2>2, <2>4, HeadSeeds
  <2> QED BY <2>1, <2>5
<1>13. BatchSeeds(new, s, e)
  <2> SUFFICES ASSUME NEW k \in InflowKeys, k[1] \in s .. e, NamesSource(k)
               PROVE  Direct(new, SeedKey(k))
    BY DEF BatchSeeds
  <2>1. PICK m \in 1 .. N : Direct(h[m], SeedKey(k))
    BY <1>12
  <2>2. m \in 0 .. N /\ N \in 0 .. N /\ m <= N
    OBVIOUS
  <2>3. SeedKey(k) \in Sources
    BY SeedKeyFact
  <2> QED BY <1>6, <1>11, <2>1, <2>2, <2>3
<1>14. ASSUME NEW k \in InflowKeys, NEW edge \in Range(BatchEdges[s][e]),
              NamesSource(k), Behind(edge, k), k[1] \in s .. e \/ Direct(aes, SeedKey(k))
       PROVE  Reached(new, edge, k)
  <2>1. PICK n \in 1 .. N : edge = edges[n]
    <3>1. edges \in Seq(EdgeRow)
      BY <1>1, BatchEdgesFact
    <3> QED BY <1>1, <1>3, <3>1 DEF Range
  <2>2. PICK key : key = SeedKey(k)
    OBVIOUS
  <2>3. /\ key \in Sources /\ key = <<key[1], key[2], key[3]>>
        /\ key[2] \in Assets /\ key[3] \in Evms /\ key[2] # None
    BY <1>14, <2>2, SeedKeyFact, SourcesFact, EvmSourcesAssumption
  <2>4. edge \in EdgeRow /\ ~edge.is_bridge_inflow /\ edge.from_address = key[1]
        /\ edge.asset_type = key[2] /\ Before(k, Ord(edge))
    BY <1>2, <1>3, <1>14, <2>1, <2>2 DEF Behind
  <2>5. \E m \in 0 .. N : m < n /\ Direct(h[m], key)
    <3>1. CASE Direct(aes, key)
      BY <1>8, <3>1
    <3>2. CASE k[1] \in s .. e
      <4>1. PICK m \in 1 .. N : edges[m] = HeadEdge(k[1], k[2]) /\ Direct(h[m], key)
        BY <1>12, <1>14, <2>2, <3>2
      <4>2. edges[m].is_bridge_inflow /\ Ord(edges[m]) = k
        BY <4>1, SeedKeyFact DEF HeadEdge, Ord
      <4>3. m # n
        BY <2>1, <2>4, <4>2
      <4>4. ~(n < m)
        <5> SUFFICES ASSUME n < m PROVE FALSE
          OBVIOUS
        <5>1. <<edges[n], edges[m]>> \in ChainOrder
          BY <1>1, <1>3, BatchEdgesOrder DEF OrderedBy
        <5>2. Before(Ord(edge), k)
          BY <2>1, <4>2, <5>1 DEF ChainOrder
        <5>3. k[1] \in Nat /\ k[2] \in Nat /\ edge.version \in Nat /\ edge.event_index \in Nat
          BY <2>4, SeedKeyFact DEF EdgeRow
        <5> QED BY <2>4, <5>2, <5>3 DEF Before, Ord, seen_ord
      <4>5. m \in 0 .. N /\ m < n
        BY <4>3, <4>4
      <4> QED BY <4>1, <4>5
    <3> QED BY <1>14, <2>2, <3>1, <3>2
  <2>6. n - 1 \in 0 .. N /\ n \in 0 .. N /\ N \in 0 .. N /\ n <= N
    OBVIOUS
  <2>7. Direct(h[n - 1], key)
    <3>1. PICK m \in 0 .. N : m < n /\ Direct(h[m], key)
      BY <2>5
    <3>2. m <= n - 1
      BY <3>1
    <3> QED BY <1>11, <2>3, <2>6, <3>1, <3>2
  <2>8. PICK at : at = <<edge.to_address, key[2], key[3]>>
    OBVIOUS
  <2>9. at \in Sources
    BY <2>3, <2>4, <2>8, SourcesFact DEF EdgeRow
  <2>10. h[n][at] # None
    <3>1. PICK x, y : x = h[n - 1] /\ y = h[n]
      OBVIOUS
    <3>2. x \in Rollup /\ y = ApplyEdge(x, edge, inflows)
      BY <1>8, <1>9, <2>1, <2>6, <3>1
    <3>3. Direct(x, <<edge.from_address, edge.asset_type, key[3]>>)
      BY <2>3, <2>4, <2>7, <3>1
    <3>4. y[<<edge.to_address, edge.asset_type, key[3]>>] # None
      BY <2>3, <2>4, <3>2, <3>3, TransferReaches
    <3> QED BY <2>4, <2>8, <3>1, <3>4
  <2>11. new[at] # None
    BY <1>6, <1>7, <2>6, <2>9, <2>10 DEF Kept
  <2> QED BY <2>2, <2>8, <2>11 DEF Reached
<1> QED BY <1>10, <1>13, <1>14

\* The inflows up to version v are stored.
StoredUpTo(bi, v) == \A k \in InflowKeys : k[1] <= v => bi[k] # None

\* The inflows in front of whatever the process goes on from, a restart from
\* the checkpoint included, are stored.
PrefixInv ==
    /\ StoredUpTo(bridge_inflows, next_version - 1)
    /\ storing # None => StoredUpTo(bridge_inflows, storing)
    /\ last_success_batch # None => StoredUpTo(bridge_inflows, last_success_batch)
    /\ processor_status # None => StoredUpTo(bridge_inflows, processor_status)
    /\ \A edge \in address_transfer_edges : StoredUpTo(bridge_inflows, edge.version)

\* The source of every stored inflow that names one is direct at the recipient,
\* and has reached the stored transfers behind the inflow.
SeededInv ==
    \A k \in InflowKeys : bridge_inflows[k] # None /\ NamesSource(k) =>
        /\ Direct(address_evm_sources, SeedKey(k))
        /\ \A edge \in address_transfer_edges :
              Behind(edge, k) => Reached(address_evm_sources, edge, k)

SeedInv == PrefixInv /\ (propagate_evm_sources => SeededInv)

LEMMA PrefixStep ==
    ASSUME IInv, PrefixInv, [Next]_vars
    PROVE  PrefixInv'
<1>1. PICK bi, new : bi = bridge_inflows /\ new = bridge_inflows'
  OBVIOUS
<1>2. Grows(bi, new)
  BY <1>1, InflowStep
<1>3. \A v : StoredUpTo(bi, v) => StoredUpTo(new, v)
  BY <1>2 DEF StoredUpTo, Grows
<1>4. \A k \in InflowKeys : k[1] \in Nat /\ k[1] >= 1
  BY InflowKeysFact, VersionsFact DEF Versions
<1>5. StoredUpTo(new, 0)
  BY <1>4 DEF StoredUpTo
<1>6. /\ StoredUpTo(bi, next_version - 1)
      /\ storing # None => StoredUpTo(bi, storing)
      /\ last_success_batch # None => StoredUpTo(bi, last_success_batch)
      /\ processor_status # None => StoredUpTo(bi, processor_status)
      /\ \A edge \in address_transfer_edges : StoredUpTo(bi, edge.version)
  BY <1>1 DEF PrefixInv
<1>7. SUFFICES /\ StoredUpTo(new, next_version' - 1)
               /\ storing' # None => StoredUpTo(new, storing')
               /\ last_success_batch' # None => StoredUpTo(new, last_success_batch')
               /\ processor_status' # None => StoredUpTo(new, processor_status')
               /\ \A edge \in address_transfer_edges' : StoredUpTo(new, edge.version)
  BY <1>1 DEF PrefixInv
<1>8. /\ processor_status \in Versions \cup {None} /\ next_version \in 1 .. MaxVersion + 1
      /\ MaxVersion \in Nat /\ Versions = 1 .. MaxVersion
  BY VersionsFact DEF IInv, ProcessInv, Versions
<1>9. CASE Start
  <2>1. next_version' = IF processor_status # None /\ processor_status > 1
                        THEN processor_status ELSE 1
    BY <1>9 DEF Start, Status!StartingVersion, DefaultMode
  <2>2. StoredUpTo(new, next_version' - 1)
    <3>1. CASE next_version' = 1
      BY <1>5, <3>1
    <3>2. CASE next_version' # 1
      <4>1. processor_status # None /\ next_version' = processor_status /\ processor_status \in Nat
        BY <1>8, <2>1, <3>2
      <4>2. StoredUpTo(new, processor_status)
        BY <1>3, <1>6, <4>1
      <4> QED BY <1>4, <4>1, <4>2 DEF StoredUpTo
    <3> QED BY <3>1, <3>2
  <2> QED BY <1>3, <1>6, <1>9, <2>2 DEF Start, tables
<1>10. ASSUME NEW e \in Versions, Commit(e)
       PROVE  /\ StoredUpTo(new, next_version' - 1)
              /\ storing' # None => StoredUpTo(new, storing')
              /\ last_success_batch' # None => StoredUpTo(new, last_success_batch')
              /\ processor_status' # None => StoredUpTo(new, processor_status')
              /\ \A edge \in address_transfer_edges' : StoredUpTo(new, edge.version)
  <2>1. PICK s \in Versions : s = next_version /\ s <= e
    BY <1>10, CommitRange
  <2>2. s \in Nat /\ e \in Nat
    BY <1>8
  <2>3. StoredUpTo(new, e)
    <3> SUFFICES ASSUME NEW k \in InflowKeys, k[1] <= e PROVE new[k] # None
      BY DEF StoredUpTo
    <3>1. CASE k[1] <= s - 1
      BY <1>3, <1>6, <2>1, <3>1 DEF StoredUpTo
    <3>2. CASE k[1] \in s .. e
      <4>1. Inflow(k[1], k[2]) # None
        BY InflowKeysFact, InflowFact
      <4> QED BY <1>1, <1>10, <2>1, <3>2, <4>1 DEF Commit
    <3> QED BY <1>4, <2>2, <3>1, <3>2
  <2>4. ASSUME NEW edge \in Range(BatchEdges[s][e]) PROVE StoredUpTo(new, edge.version)
    <3>1. PICK m \in 1 .. Len(BatchEdges[s][e]) : edge = BatchEdges[s][e][m]
      <4>1. BatchEdges[s][e] \in Seq(EdgeRow)
        BY <2>1, BatchEdgesFact
      <4> QED BY <4>1 DEF Range
    <3>2. PICK v \in s .. e : v \in Versions /\ edge \in EdgesOf(v)
      BY <2>1, <3>1, BatchEdgesFact
    <3>3. edge.version = v /\ v \in Nat /\ v <= e
      BY <2>2, <3>2, EdgesOfFact
    <3> QED BY <1>4, <2>2, <2>3, <3>3 DEF StoredUpTo
  <2>5. /\ next_version' = e + 1 /\ storing' = e
        /\ last_success_batch' = last_success_batch /\ processor_status' = processor_status
        /\ address_transfer_edges' = address_transfer_edges \cup Range(BatchEdges[s][e])
    BY <1>10, <2>1 DEF Commit
  <2>6. next_version' - 1 = e
    BY <2>2, <2>5
  <2> QED BY <1>3, <1>6, <2>3, <2>4, <2>5, <2>6
<1>11. CASE EndStore
  BY <1>3, <1>6, <1>11 DEF EndStore, tables
<1>12. CASE SaveStatus
  <2>1. processor_status' \in {processor_status, last_success_batch} /\ last_success_batch # None
    BY <1>12 DEF SaveStatus, Status!SavedStatus
  <2> QED BY <1>3, <1>6, <1>12, <2>1 DEF SaveStatus, tables
<1>13. CASE Crash
  <2>1. next_version' - 1 = 0
    BY <1>13 DEF Crash
  <2> QED BY <1>3, <1>5, <1>6, <1>13, <2>1 DEF Crash, tables
<1>14. CASE UNCHANGED <<address_transfer_edges, processor_status, next_version, storing,
                        last_success_batch>>
  BY <1>3, <1>6, <1>14
<1>15. \/ Start \/ (\E e \in Versions : Commit(e)) \/ EndStore \/ SaveStatus \/ Crash
       \/ UNCHANGED <<address_transfer_edges, processor_status, next_version, storing,
                      last_success_batch>>
  BY DEF Next, vars, tables, pipeline, ForwardGuid, LoadPendingGuids, StartGuid, Resolve,
         FetchFails, ResolveGuid, WriteEvmFails, SeedRow, SeedFails
<1> QED BY <1>9, <1>10, <1>11, <1>12, <1>13, <1>14, <1>15

LEMMA SeededStep ==
    ASSUME AmountsPositive, SendersAgree, propagate_evm_sources,
           IInv, IInv', PrefixInv, SeededInv, [Next]_vars
    PROVE  SeededInv'
<1>1. PICK aes, bi, old : /\ aes = address_evm_sources /\ bi = bridge_inflows
                          /\ old = address_transfer_edges
  OBVIOUS
<1>2. PICK new, bj, edges : /\ new = address_evm_sources' /\ bj = bridge_inflows'
                            /\ edges = address_transfer_edges'
  OBVIOUS
<1>3. aes \in Rollup /\ new \in Rollup
  BY <1>1, <1>2 DEF IInv, TableInv
<1>4. \A k \in InflowKeys : bi[k] # None /\ NamesSource(k) =>
         Direct(aes, SeedKey(k)) /\ \A edge \in old : Behind(edge, k) => Reached(aes, edge, k)
  BY <1>1 DEF SeededInv
<1>5. SUFFICES ASSUME NEW k \in InflowKeys, bj[k] # None, NamesSource(k)
               PROVE  /\ Direct(new, SeedKey(k))
                      /\ \A edge \in edges : Behind(edge, k) => Reached(new, edge, k)
  BY <1>2 DEF SeededInv
<1>6. SeedKey(k) \in Sources /\ k[1] \in Nat
  BY <1>5, SeedKeyFact
\* What was reached stays reached.
<1>7. ASSUME Kept(aes, new), NEW edge \in old, Behind(edge, k), bi[k] # None
      PROVE  Reached(new, edge, k)
  <2>1. Reached(aes, edge, k)
    BY <1>4, <1>5, <1>7
  <2>2. edge \in EdgeRow
    <3>1. k[1] \in Versions
      BY InflowKeysFact
    <3>2. Range(BatchEdges[1][MaxVersion]) \subseteq EdgeRow
      BY <3>1, EdgesTyped
    <3> QED BY <1>1, <3>2 DEF IInv, TableInv
  <2>3. <<edge.to_address, SeedKey(k)[2], SeedKey(k)[3]>> \in Sources
    BY <1>6, <2>2, SourcesFact DEF EdgeRow
  <2> QED BY <1>7, <2>1, <2>3 DEF Kept, Reached
<1>8. CASE Kept(aes, new) /\ edges = old /\ bi[k] # None
  <2>1. Direct(new, SeedKey(k))
    BY <1>3, <1>4, <1>5, <1>6, <1>8, DirectKept
  <2> QED BY <1>7, <1>8, <2>1
<1>9. \A x \in Sources : aes[x] # None => aes[x].hops_min \in Nat
  BY <1>3 DEF Rollup, RowOk, SourceRow
<1>10. Kept(aes, aes)
  BY <1>9 DEF Kept
<1>11. CASE UNCHANGED tables
  BY <1>1, <1>2, <1>5, <1>8, <1>10, <1>11 DEF tables
<1>12. ASSUME NEW f \in BagToSet(futures), NEW evm, ResolveGuid(f, evm)
       PROVE  Kept(aes, new) /\ edges = old /\ bi[k] # None
  <2>1. new = aes /\ edges = old
    BY <1>1, <1>2, <1>12 DEF ResolveGuid
  <2>2. PICK rows : rows = RowsToResolve(f.guid)
    OBVIOUS
  <2>3. k \in rows => bi[k] # None
    BY <1>1, <2>2 DEF RowsToResolve
  <2>4. k \notin rows => bj[k] = bi[k]
    BY <1>1, <1>2, <1>12, <2>2 DEF ResolveGuid
  <2> QED BY <1>5, <1>10, <2>1, <2>3, <2>4
<1>13. ASSUME NEW f \in BagToSet(futures), NEW j \in f.seeds, SeedRow(f, j)
       PROVE  Kept(aes, new) /\ edges = old /\ bi[k] # None
  <2>1. edges = old /\ bj = bi
    BY <1>1, <1>2, <1>13 DEF SeedRow
  <2>2. PICK row : row = bi[j]
    OBVIOUS
  <2>3. j \in InflowKeys /\ row \in InflowRow /\ row # None
        /\ row.asset_type # None /\ f.evm \in Evms
    BY <1>1, <2>2, EvmSourcesAssumption DEF IInv, FuturesInv, TableInv, FutureOk, Future, InflowTable
  <2>4. PICK key, ord : /\ key = <<row.aptos_recipient, row.asset_type, f.evm>>
                        /\ ord = seen_ord(row.version, row.event_index)
    OBVIOUS
  <2>5. key \in Sources
    BY <2>3, <2>4, SourcesFact DEF InflowRow
  <2>6. ord \in Ords /\ row.amount \in Amounts
    <3>1. row.amount = Events[j[1]][j[2]].amount
      BY <1>1, <2>2, <2>3 DEF IInv, TableInv, InflowTable, RowOfEvent
    <3>2. row.amount \in Amounts
      BY <2>3, <3>1, SeedKeyFact
    <3> QED BY <2>3, <2>4, <3>2 DEF InflowRow, seen_ord, Ords
  <2>7. Upserted(aes, new, key, row.amount, ord)
    BY <1>1, <1>2, <1>13, <2>2, <2>4 DEF SeedRow, Upserted
  <2>8. \A x \in Sources : new[x] # aes[x] => x = key /\ Seeded(new, x)
    BY <1>3, <2>5, <2>6, <2>7, SeedFact
  <2>9. \A x \in Sources : /\ new[x] # None => new[x].hops_min \in Nat
                           /\ RowOk(new[x]) => new[x] # None
    BY <1>3, EvmSourcesAssumption DEF Rollup, RowOk, SourceRow
  <2>10. Kept(aes, new)
    BY <1>9, <2>8, <2>9 DEF Seeded, Kept
  <2> QED BY <1>5, <2>1, <2>10
<1>14. ASSUME NEW e \in Versions, Commit(e)
       PROVE  /\ Direct(new, SeedKey(k))
              /\ \A edge \in edges : Behind(edge, k) => Reached(new, edge, k)
  <2>1. PICK s \in Versions : s = next_version /\ s <= e
    BY <1>14, CommitRange
  <2>2. /\ edges = old \cup Range(BatchEdges[s][e])
        /\ new = RolledUp(aes, BatchEdges[s][e], BatchInflows[s][e])
    BY <1>1, <1>2, <1>14, <2>1 DEF Commit
  <2>3. bi[k] # None \/ k[1] \in s .. e
    BY <1>1, <1>2, <1>5, <1>14, <2>1 DEF Commit
  <2>4. /\ Kept(aes, new) /\ BatchSeeds(new, s, e)
        /\ \A j \in InflowKeys, edge \in Range(BatchEdges[s][e]) :
              /\ NamesSource(j) /\ Behind(edge, j)
              /\ j[1] \in s .. e \/ Direct(aes, SeedKey(j))
              => Reached(new, edge, j)
    BY <1>3, <2>1, <2>2, BatchReaches
  <2>5. Direct(new, SeedKey(k))
    <3>1. CASE bi[k] # None
      BY <1>3, <1>4, <1>5, <1>6, <2>4, <3>1, DirectKept
    <3>2. CASE k[1] \in s .. e
      BY <1>5, <2>4, <3>2 DEF BatchSeeds
    <3> QED BY <2>3, <3>1, <3>2
  <2>6. ASSUME NEW edge \in edges, Behind(edge, k) PROVE Reached(new, edge, k)
    <3>1. CASE edge \in Range(BatchEdges[s][e])
      BY <1>4, <1>5, <2>3, <2>4, <2>6, <3>1
    \* An inflow in front of a stored transfer was stored with it, or before.
    <3>2. CASE edge \in old
      <4>1. k[1] <= edge.version
        <5>1. Before(k, seen_ord(edge.version, edge.event_index))
          BY <2>6 DEF Behind, Ord
        <5>2. edge \in EdgeRow
          <6>1. k[1] \in Versions
            BY InflowKeysFact
          <6> QED BY <1>1, <3>2, <6>1, EdgesTyped DEF IInv, TableInv
        <5> QED BY <1>6, <5>1, <5>2 DEF Before, seen_ord, EdgeRow
      <4>2. bi[k] # None
        BY <1>1, <3>2, <4>1 DEF PrefixInv, StoredUpTo
      <4> QED BY <1>7, <2>4, <2>6, <3>2, <4>2
    <3> QED BY <2>2, <3>1, <3>2
  <2> QED BY <2>5, <2>6
<1> QED BY <1>8, <1>11, <1>12, <1>13, <1>14, TablesStep
------------------------------------------------------------------------------
LEMMA InitInv == Init => IInv /\ TraceInv
<1> SUFFICES ASSUME Init PROVE IInv /\ TraceInv
  OBVIOUS
<1>0. MaxVersion \in Nat /\ MaxStarts \in Nat
  BY VersionsFact, EvmSourcesAssumption
<1>1. ProcessInv
  <2>1. starts \in 0 .. MaxStarts /\ next_version \in 1 .. MaxVersion + 1
    BY <1>0 DEF Init
  <2>2. running \in BOOLEAN /\ loading \in BOOLEAN
    BY DEF Init
  <2>3. /\ processor_status \in Versions \cup {None} /\ storing \in Versions \cup {None}
        /\ last_success_batch \in Versions \cup {None} /\ abandoned \subseteq Guids
    BY DEF Init
  <2> QED BY <2>1, <2>2, <2>3 DEF ProcessInv
<1>2. TableInv
  BY DEF Init, TableInv, InflowTable, Rollup
<1>3. QueueInv
  BY DEF Init, QueueInv, Queued
<1>4. FuturesInv
  BY EmptyBagFact DEF Init, FuturesInv
<1>5. TraceInv
  BY DEF Init, TraceInv, Traced
<1> QED BY <1>1, <1>2, <1>3, <1>4, <1>5 DEF IInv

LEMMA StepInv == IInv /\ [Next]_vars => IInv'
BY ProcessStep, InflowStep, RollupStep, QueueStep, FuturesStep DEF IInv, TableInv

LEMMA Invariance == Spec => []IInv
BY InitInv, StepInv, PTL DEF Spec

\* The type invariant: rows keep the columns of their models, a source is first
\* seen before it is last seen, and a future of the enricher is retried less
\* than MAX_RETRIES times and has seeds to write exactly while it holds an
\* answer, whatever the chain, the batches and the failures.
THEOREM TypeCorrect == Spec => []TypeOK
<1>1. ASSUME IInv PROVE TypeOK
  <2>1. bridge_inflows \in [InflowKeys -> InflowRow \cup {None}]
    BY <1>1 DEF IInv, TableInv, InflowTable
  <2>2. /\ address_evm_sources \in [Sources -> SourceRow \cup {None}]
        /\ \A k \in Sources : address_evm_sources[k] # None =>
              ~Before(address_evm_sources[k].last_seen_ord, address_evm_sources[k].first_seen_ord)
    BY <1>1 DEF IInv, TableInv, Rollup, RowOk
  <2>3. Held \cup abandoned \subseteq Guids
    BY <1>1 DEF IInv, Held, QueueInv, Queued, FuturesInv, FutureOk, Future, ProcessInv
  <2>4. /\ IsABag(futures)
        /\ \A f \in BagToSet(futures) : f.count < MaxRetries /\ (f.seeds # {} <=> f.evm # None)
    BY <1>1 DEF IInv, FuturesInv, FutureOk
  <2> QED BY <1>1, <2>1, <2>2, <2>3, <2>4 DEF TypeOK, IInv, ProcessInv, TableInv, QueueInv
<1> QED BY <1>1, Invariance, PTL

\* The storer forwards a GUID only after its transaction is committed, and
\* nothing deletes the row: whatever the enricher has queued, loaded, or is
\* fetching has its bridge_inflows row, through replays and crashes.
THEOREM GuidsAreCommitted == Spec => []GuidHasRow
<1>1. ASSUME IInv PROVE GuidHasRow
  <2>1. \A g \in Held : HasRow(g, bridge_inflows)
    BY <1>1 DEF IInv, Held, QueueInv, Queued, FuturesInv
  <2> QED BY <2>1 DEF GuidHasRow, HasRow, Stored
<1> QED BY <1>1, Invariance, PTL

\* Every row of address_evm_sources has a trace and tells direct sources from
\* indirect ones, if the transfer that delivers an inflow is in its asset (the
\* extractor pairs transfers and inflows by address and amount only) and brings
\* more than nothing (the storer seeds an inflow of any amount with no hops).
THEOREM SourcesAreAttributed ==
    ASSUME AssetsAgree, AmountsPositive
    PROVE  Spec => []SourcesAttributed
<1>1. ASSUME IInv, TraceInv PROVE SourcesAttributed
  <2>1. DirectIffFunded
    BY <1>1 DEF DirectIffFunded, IInv, TableInv, Rollup, RowOk
  <2>2. ASSUME NEW a \in Addresses, NEW s \in Assets, NEW e \in Evms,
               address_evm_sources[<<a, s, e>>] # None
        PROVE  \/ \E k \in InflowKeys : /\ Stored(k) /\ bridge_inflows[k].aptos_recipient = a
                                        /\ bridge_inflows[k].asset_type = s
                                        /\ bridge_inflows[k].evm_source = e
               \/ \E edge \in address_transfer_edges :
                     /\ edge.to_address = a /\ edge.asset_type = s /\ ~edge.is_bridge_inflow
                     /\ address_evm_sources[<<edge.from_address, s, e>>] # None
                     /\ address_evm_sources[<<edge.from_address, s, e>>].hops_min
                          < address_evm_sources[<<a, s, e>>].hops_min
    <3>1. PICK k : k = <<a, s, e>>
      OBVIOUS
    <3>2. k \in Sources /\ k[1] = a /\ k[2] = s /\ k[3] = e
      BY <3>1, SourcesFact
    <3>3. \/ InflowTrace(bridge_inflows, k)
          \/ EdgeTrace(address_evm_sources, address_transfer_edges, k)
      BY <1>1, <2>2, <3>1, <3>2 DEF TraceInv, Traced
    <3>4. CASE InflowTrace(bridge_inflows, k)
      BY <3>2, <3>4 DEF InflowTrace, Stored
    <3>5. CASE EdgeTrace(address_evm_sources, address_transfer_edges, k)
      BY <3>1, <3>2, <3>5 DEF EdgeTrace
    <3> QED BY <3>3, <3>4, <3>5
  <2>3. Attributed
    BY <2>2 DEF Attributed
  <2> QED BY <2>1, <2>3 DEF SourcesAttributed
<1>2. IInv /\ IInv' /\ TraceInv /\ [Next]_vars => TraceInv'
  BY TraceStep
<1>3. Spec => []TraceInv
  BY <1>2, InitInv, Invariance, PTL DEF Spec
<1> QED BY <1>1, <1>3, Invariance, PTL

\* A LayerZero inflow adds to evm_fund at most once: an EVM address that no
\* event names has no more fund than its stored inflows add up to, although
\* GUIDs are loaded again at a start, sent again by replayed batches and resolved
\* by several futures at once (write_evm's UPDATE skips resolved rows).
THEOREM LzInflowsAreSeededOnce == Spec => []LzFundedOnce
<1>1. ASSUME IInv, FundInv PROVE LzFundedOnce
  <2> SUFFICES ASSUME NEW a \in Addresses, NEW s \in Assets, NEW e \in Evms, e \notin Named
               PROVE  Fund(a, s, e) <= InflowFund(a, s, e)
    BY DEF LzFundedOnce
  <2>1. PICK key : key = <<a, s, e>>
    OBVIOUS
  <2>2. key \in Sources /\ key[1] = a /\ key[2] = s /\ key[3] = e
    BY <2>1, SourcesFact
  <2>3. PICK bi, P : bi = bridge_inflows /\ P = Pending(futures)
    OBVIOUS
  <2>4. bi \in InflowTable
    BY <1>1, <2>3 DEF IInv, TableInv
  <2>5. Fund(a, s, e) = FundOf(address_evm_sources[key])
    BY <2>1 DEF Fund, FundOf
  <2>6. InflowFund(a, s, e) = SumFunction(Shares(bi, {}, key))
    <3>1. \A k \in InflowKeys : Counts(bi, {}, key, k) <=>
             /\ Stored(k) /\ bridge_inflows[k].aptos_recipient = a
             /\ bridge_inflows[k].asset_type = s /\ bridge_inflows[k].evm_source = e
      BY <2>2, <2>3 DEF Counts, Stored
    <3>2. Shares(bi, {}, key) = [k \in InflowKeys |->
             IF /\ Stored(k) /\ bridge_inflows[k].aptos_recipient = a
                /\ bridge_inflows[k].asset_type = s /\ bridge_inflows[k].evm_source = e
             THEN bridge_inflows[k].amount ELSE 0]
      BY <2>3, <3>1 DEF Shares
    <3> QED BY <3>2 DEF InflowFund
  <2>7. \A k \in InflowKeys : Counts(bi, P, key, k) => Counts(bi, {}, key, k)
    BY DEF Counts
  <2>8. PICK m, n : m = SumFunction(Shares(bi, P, key)) /\ n = SumFunction(Shares(bi, {}, key))
    OBVIOUS
  <2>9. m \in Nat /\ n \in Nat /\ m <= n
    BY <2>2, <2>4, <2>7, <2>8, SharesFact
  <2>10. FundOf(address_evm_sources[key]) <= m
    BY <1>1, <2>2, <2>3, <2>8 DEF FundInv, Covered
  <2>11. FundOf(address_evm_sources[key]) \in Nat
    BY <1>1, <2>2 DEF IInv, TableInv, Rollup, FundOf, SourceRow
  <2> QED BY <2>5, <2>6, <2>8, <2>9, <2>10, <2>11
<1>2. Init => FundInv
  <2> SUFFICES ASSUME Init PROVE FundInv
    OBVIOUS
  <2>1. IInv
    BY InitInv
  <2>2. SeedsApart(futures)
    BY EmptyBagFact DEF Init, SeedsApart
  <2>3. \A key \in Sources : FundOf(address_evm_sources[key]) = 0
    BY DEF Init, FundOf
  <2>4. PICK bi \in InflowTable : bi = bridge_inflows
    BY <2>1 DEF IInv, TableInv
  <2>5. \A key \in Sources : SumFunction(Shares(bi, Pending(futures), key)) \in Nat
    BY SharesFact
  <2>6. Covered(address_evm_sources, bridge_inflows, Pending(futures))
    BY <2>3, <2>4, <2>5 DEF Covered
  <2> QED BY <2>2, <2>6 DEF FundInv
<1>3. Spec => []FundInv
  BY <1>2, FundStep, Invariance, PTL DEF Spec
<1> QED BY <1>1, <1>3, Invariance, PTL

\* A seed is visible to every later transfer out of the address, in the same
\* transaction, in the same batch and in later ones, whatever is replayed, and
\* wherever a restart goes on.  The storer finds the sender of an inflow by the
\* recipient and the amount only, so this is a theorem of chains whose inflows
\* agree in the sender when they agree in these, and bring more than nothing (an
\* address with no fund passes nothing on).
THEOREM SeedsReachTransfers ==
    ASSUME AmountsPositive, SendersAgree
    PROVE  Spec => []SeedsPropagate
<1>1. ASSUME IInv, SeedInv PROVE SeedsPropagate
  <2> SUFFICES ASSUME propagate_evm_sources, NEW k \in InflowKeys,
                      NEW edge \in address_transfer_edges, NEW bi, bi = bridge_inflows[k],
                      Stored(k), Events[k[1]][k[2]].evm # None, bi.asset_type # None,
                      ~edge.is_bridge_inflow, edge.from_address = bi.aptos_recipient,
                      edge.asset_type = bi.asset_type,
                      Before(k, <<edge.version, edge.event_index>>)
               PROVE  address_evm_sources[<<edge.to_address, bi.asset_type, bi.evm_source>>] # None
    BY DEF SeedsPropagate
  <2>1. /\ bi.aptos_recipient = Events[k[1]][k[2]].address
        /\ bi.asset_type = InflowAsset(k[1], k[2]) /\ bi.evm_source = Events[k[1]][k[2]].evm
    BY <1>1 DEF IInv, TableInv, InflowTable, RowOfEvent, Stored
  <2>2. NamesSource(k)
    BY <2>1 DEF NamesSource
  <2>3. /\ SeedKey(k)[1] = bi.aptos_recipient /\ SeedKey(k)[2] = bi.asset_type
        /\ SeedKey(k)[3] = bi.evm_source
    BY <2>1, <2>2, SeedKeyFact
  <2>4. Behind(edge, k)
    BY <2>3 DEF Behind, Ord, seen_ord
  <2>5. Reached(address_evm_sources, edge, k)
    BY <1>1, <2>2, <2>4 DEF SeedInv, SeededInv, Stored
  <2> QED BY <2>3, <2>5 DEF Reached
<1>2. Init => SeedInv
  <2> SUFFICES ASSUME Init PROVE SeedInv
    OBVIOUS
  <2>1. \A k \in InflowKeys : k[1] \in Nat /\ k[1] >= 1
    BY InflowKeysFact, VersionsFact DEF Versions
  <2>2. next_version - 1 = 0
    BY DEF Init
  <2>3. PrefixInv
    BY <2>1, <2>2 DEF Init, PrefixInv, StoredUpTo
  <2>4. SeededInv
    BY DEF Init, SeededInv
  <2> QED BY <2>3, <2>4 DEF SeedInv
<1>3. IInv /\ IInv' /\ SeedInv /\ [Next]_vars => SeedInv'
  BY PrefixStep, SeededStep DEF SeedInv
<1>4. Spec => []SeedInv
  BY <1>2, <1>3, Invariance, PTL DEF Spec
<1> QED BY <1>1, <1>4, Invariance, PTL
==============================================================================
