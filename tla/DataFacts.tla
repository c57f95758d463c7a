------------------------------ MODULE DataFacts ------------------------------
(***************************************************************************)
(* Facts about natural numbers, recursive functions, sequences and bags    *)
(* that the proofs of several components need.  Induction is stated for    *)
(* sets: a set of numbers that has 0 and the successors of its elements    *)
(* has all of them.                                                        *)
(***************************************************************************)
EXTENDS Integers, Sequences, FiniteSets, Bags, SequencesExt, FiniteSetTheorems,
        SequenceTheorems, WellFoundedInduction, TLAPS

\* A nonempty set of numbers has a least element: of the finite sets of its
\* elements below a given one, take a smallest.
LEMMA LeastNumber ==
    ASSUME NEW S \in SUBSET Nat, S # {}
    PROVE  \E m \in S : \A x \in S : m <= x
<1>0. PICK top \in S : TRUE
  OBVIOUS
<1> DEFINE F == {x \in S : x <= top}
           Below(m) == {x \in F : x < m}
           T == {Below(m) : m \in F}
           R == StrictSubsetOrdering(F)
<1>1. FiniteSubsetsOf(F) = SUBSET F
  <2>0. 0 \in Int /\ top \in Int
    OBVIOUS
  <2>1. IsFiniteSet(0 .. top)
    BY <2>0, FS_Interval
  <2>2. F \subseteq 0 .. top
    <3>1. ASSUME NEW x \in F PROVE x \in 0 .. top
      <4>1. x \in Nat /\ top \in Nat /\ x <= top
        OBVIOUS
      <4> QED BY <4>1
    <3> QED BY <3>1
  <2>3. IsFiniteSet(F)
    BY <2>1, <2>2, FS_Subset
  <2> QED BY <2>3, FS_FiniteSubsetsOfFinite
<1>2. IsWellFoundedOn(R, SUBSET F)
  BY <1>1, FS_StrictSubsetOrderingWellFounded
<1>3. T \subseteq SUBSET F /\ T # {}
  <2>1. top \in F
    BY <1>0
  <2> QED BY <2>1
<1>4. PICK U \in T : \A V \in T : ~(<<V, U>> \in R)
  <2> HIDE DEF R, T
  <2>1. ASSUME NEW D, D = SUBSET F
        PROVE  \E U \in T : \A V \in T : ~(<<V, U>> \in R)
    <3>1. IsWellFoundedOn(R, D) /\ T \subseteq D
      BY <2>1, <1>2, <1>3
    <3> HIDE <2>1
    <3> QED BY <3>1, <1>3, WFMin
  <2> QED BY <2>1
<1>5. PICK m \in F : U = Below(m)
  BY <1>4
<1>6. \A x \in S : x \in Int
  OBVIOUS
<1>7. ASSUME NEW x \in F, x < m PROVE FALSE
  <2>1. \A y \in F : y < x => y < m
    BY <1>6, <1>7
  <2>2. ~(x < x)
    BY <1>6
  <2>3. Below(x) \subseteq Below(m)
    BY <2>1
  <2>4. x \in Below(m) /\ x \notin Below(x)
    BY <2>2, <1>7
  <2>5. <<Below(x), U>> \in R
    BY <2>3, <2>4, <1>3, <1>4, <1>5 DEF StrictSubsetOrdering
  <2> QED BY <1>4, <2>5
<1>8. \A x \in S : m <= x
  BY <1>0, <1>6, <1>7
<1> QED BY <1>8

\* Min picks that element.
LEMMA MinFact ==
    ASSUME NEW S \in SUBSET Nat, S # {}
    PROVE  Min(S) \in S /\ \A x \in S : Min(S) <= x
  BY LeastNumber DEF Min

\* The values of a function on a finite set are finitely many.
LEMMA FiniteImage ==
    ASSUME NEW S, IsFiniteSet(S), NEW f
    PROVE  IsFiniteSet({f[x] : x \in S})
<1> DEFINE T == {f[x] : x \in S}
           g == [x \in S |-> f[x]]
<1>1. g \in Surjection(S, T)
  BY DEF Surjection
<1> HIDE DEF g, T
<1>2. IsFiniteSet(T)
  BY <1>1, FS_Surjection
<1> QED BY <1>2 DEF T
------------------------------------------------------------------------------
(***************************************************************************)
(* Induction up to a number, and functions defined by recursion on it.     *)
(***************************************************************************)
LEMMA InductionUpTo ==
    ASSUME NEW N \in Nat, NEW P, 0 \in P,
           \A n \in 1 .. N : n - 1 \in P => n \in P
    PROVE  \A n \in 0 .. N : n \in P
<1> DEFINE Out == {n \in 0 .. N : n \notin P}
<1> SUFFICES ASSUME Out # {} PROVE FALSE
  OBVIOUS
<1>1. Out \in SUBSET Nat
  OBVIOUS
<1>2. PICK m \in Out : \A x \in Out : m <= x
  BY <1>1, LeastNumber
<1>3. m \in 1 .. N /\ m \notin P
  BY <1>2
<1>4. m - 1 \in 0 .. N /\ m - 1 < m
  BY <1>3
<1>5. m - 1 \in P
  BY <1>2, <1>3, <1>4
<1> QED BY <1>3, <1>5

\* A step per number determines a function.
Iterates(g, N, base, step) == g[0] = base /\ \A n \in 1 .. N : g[n] = step[<<n, g[n - 1]>>]

LEMMA RecursionUpTo ==
    ASSUME NEW N \in Nat, NEW X, NEW base \in X, NEW step \in [(1 .. N) \X X -> X]
    PROVE  \E g \in [0 .. N -> X] : Iterates(g, N, base, step)
<1> DEFINE Partial(n, g) == g[0] = base /\ \A i \in 1 .. n : g[i] = step[<<i, g[i - 1]>>]
           P == {n \in 0 .. N : \E g \in [0 .. n -> X] : Partial(n, g)}
<1>1. 0 \in P
  <2> DEFINE g == [i \in 0 .. 0 |-> base]
  <2>1. g \in [0 .. 0 -> X] /\ Partial(0, g)
    OBVIOUS
  <2> HIDE DEF g, Partial
  <2> QED BY <2>1
<1>2. ASSUME NEW n \in 1 .. N, n - 1 \in P PROVE n \in P
  <2>1. PICK g \in [0 .. n - 1 -> X] : Partial(n - 1, g)
    BY <1>2
  <2>2. g[n - 1] \in X /\ <<n, g[n - 1]>> \in (1 .. N) \X X
    BY <2>1
  <2>3. step[<<n, g[n - 1]>>] \in X
    BY <2>2
  <2> DEFINE h == [i \in 0 .. n |-> IF i = n THEN step[<<n, g[n - 1]>>] ELSE g[i]]
  <2>4. \A i \in 0 .. n : i # n => i \in 0 .. n - 1
    OBVIOUS
  <2>5. h \in [0 .. n -> X]
    BY <2>1, <2>3, <2>4
  <2>6. h[0] = base
    BY <2>1, <2>4
  <2>7. h[n] = step[<<n, h[n - 1]>>]
    <3>1. h[n - 1] = g[n - 1] /\ h[n] = step[<<n, g[n - 1]>>]
      OBVIOUS
    <3> QED BY <3>1
  <2>8. \A i \in 1 .. n : i # n => h[i] = step[<<i, h[i - 1]>>]
    BY <2>1
  <2>9. Partial(n, h)
    BY <2>6, <2>7, <2>8
  <2> HIDE DEF h, Partial
  <2> QED BY <2>5, <2>9
<1>3. N \in P
  <2> HIDE DEF P
  <2> QED BY <1>1, <1>2, InductionUpTo
<1> QED BY <1>3 DEF Iterates
------------------------------------------------------------------------------
(***************************************************************************)
(* Sequences.                                                              *)
(***************************************************************************)
\* u has the elements of s and of t, and no others.
Joins(u, s, t) ==
    /\ \A n \in 1 .. Len(u) :
          (\E i \in 1 .. Len(s) : u[n] = s[i]) \/ (\E j \in 1 .. Len(t) : u[n] = t[j])
    /\ \A i \in 1 .. Len(s) : \E n \in 1 .. Len(u) : u[n] = s[i]
    /\ \A j \in 1 .. Len(t) : \E n \in 1 .. Len(u) : u[n] = t[j]

LEMMA ConcatElements ==
    ASSUME NEW S, NEW s \in Seq(S), NEW t \in Seq(S), NEW u, u = s \o t
    PROVE  u \in Seq(S) /\ Joins(u, s, t)
<1>1. /\ u \in Seq(S) /\ Len(u) = Len(s) + Len(t)
      /\ \A i \in 1 .. Len(s) + Len(t) :
            u[i] = IF i <= Len(s) THEN s[i] ELSE t[i - Len(s)]
  BY ConcatProperties
<1>2. Len(s) \in Nat /\ Len(t) \in Nat
  OBVIOUS
<1>3. ASSUME NEW n \in 1 .. Len(u)
      PROVE  (\E i \in 1 .. Len(s) : u[n] = s[i]) \/ (\E j \in 1 .. Len(t) : u[n] = t[j])
  <2>1. CASE n <= Len(s)
    BY <1>1, <1>2, <2>1
  <2>2. CASE ~(n <= Len(s))
    <3>1. n - Len(s) \in 1 .. Len(t) /\ u[n] = t[n - Len(s)]
      BY <1>1, <1>2, <2>2
    <3> QED BY <3>1
  <2> QED BY <2>1, <2>2
<1>4. \A i \in 1 .. Len(s) : i \in 1 .. Len(u) /\ u[i] = s[i]
  BY <1>1, <1>2
<1>5. \A j \in 1 .. Len(t) : Len(s) + j \in 1 .. Len(u) /\ u[Len(s) + j] = t[j]
  BY <1>1, <1>2
<1> QED BY <1>1, <1>3, <1>4, <1>5 DEF Joins

\* The recursion of FlattenSeq.
LEMMA FlattenRecursion ==
    ASSUME NEW S, NEW ss \in Seq(Seq(S)), Len(ss) # 0
    PROVE  \E g : /\ FlattenSeq(ss) = g[Len(ss)]
                  /\ g[1] = ss[1]
                  /\ \A i \in 2 .. Len(ss) : g[i] = g[i - 1] \o ss[i]
<1> DEFINE Body(g) == [i \in 1 .. Len(ss) |-> IF i = 1 THEN ss[i] ELSE g[i - 1] \o ss[i]]
           N == Len(ss)
           step == [x \in (1 .. N) \X Seq(S) |-> x[2] \o ss[x[1]]]
<1>1. N \in Nat /\ 1 \in 1 .. N /\ \A i \in 1 .. N : ss[i] \in Seq(S)
  OBVIOUS
<1>2. step \in [(1 .. N) \X Seq(S) -> Seq(S)]
  BY <1>1
<1>3. <<>> \in Seq(S)
  OBVIOUS
<1>4. PICK h \in [0 .. N -> Seq(S)] : Iterates(h, N, <<>>, step)
  <2> HIDE DEF step, N
  <2> QED BY <1>1, <1>2, <1>3, RecursionUpTo
<1>5. ASSUME NEW n \in 1 .. N PROVE h[n] = h[n - 1] \o ss[n]
  <2>1. n - 1 \in 0 .. N
    BY <1>1
  <2>2. h[n - 1] \in Seq(S)
    BY <2>1
  <2>3. <<n, h[n - 1]>> \in (1 .. N) \X Seq(S)
    BY <2>2
  <2>4. step[<<n, h[n - 1]>>] = h[n - 1] \o ss[n]
    <3>1. ASSUME NEW x \in (1 .. N) \X Seq(S) PROVE step[x] = x[2] \o ss[x[1]]
      OBVIOUS
    <3> HIDE DEF step
    <3> QED BY <2>3, <3>1
  <2> HIDE DEF step
  <2> QED BY <1>4, <2>4 DEF Iterates
<1>6. h[1] = ss[1]
  <2>1. h[1] = h[1 - 1] \o ss[1]
    BY <1>1, <1>5
  <2>2. h[1 - 1] = <<>>
    BY <1>4 DEF Iterates
  <2> QED BY <1>1, <2>1, <2>2, ConcatEmptySeq
<1> DEFINE g == [i \in 1 .. N |-> h[i]]
<1>7. g = Body(g)
  <2>1. \A i \in 1 .. N : g[i] = h[i]
    OBVIOUS
  <2> HIDE DEF g
  <2>2. ASSUME NEW i \in 1 .. N, i # 1 PROVE g[i] = g[i - 1] \o ss[i]
    <3>1. i - 1 \in 1 .. N
      BY <1>1, <2>2
    <3> QED BY <1>5, <2>1, <3>1
  <2>3. \A i \in 1 .. N : g[i] = IF i = 1 THEN ss[i] ELSE g[i - 1] \o ss[i]
    BY <1>6, <2>1, <2>2
  <2>4. Body(g) = [i \in 1 .. N |-> g[i]]
    BY <2>3
  <2>5. g = [i \in 1 .. N |-> g[i]]
    BY DEF g
  <2> QED BY <2>4, <2>5
<1> DEFINE flatten == CHOOSE f : f = Body(f)
<1>8. flatten = Body(flatten)
  <2>1. \E f : f = Body(f)
    <3> HIDE DEF Body, g
    <3> QED BY <1>7
  <2> HIDE DEF Body
  <2> QED BY <2>1
<1>9. FlattenSeq(ss) = flatten[Len(ss)]
  BY DEF FlattenSeq
<1>10. \A i \in 1 .. Len(ss) :
          flatten[i] = IF i = 1 THEN ss[i] ELSE flatten[i - 1] \o ss[i]
  <2> HIDE DEF flatten
  <2>1. \A i \in 1 .. Len(ss) :
           Body(flatten)[i] = IF i = 1 THEN ss[i] ELSE flatten[i - 1] \o ss[i]
    OBVIOUS
  <2> HIDE DEF Body
  <2> QED BY <1>8, <2>1
<1>11. flatten[1] = ss[1]
  <2> HIDE DEF flatten
  <2> QED BY <1>1, <1>10
<1>12. ASSUME NEW i \in 2 .. Len(ss) PROVE flatten[i] = flatten[i - 1] \o ss[i]
  <2>1. i \in 1 .. Len(ss) /\ i # 1
    OBVIOUS
  <2> HIDE DEF flatten
  <2> QED BY <1>10, <2>1
<1> HIDE DEF flatten
<1> QED BY <1>9, <1>11, <1>12

\* s has the elements of the first n sequences of ss, and no others.
ElementsOf(s, ss, n) ==
    /\ \A m \in 1 .. Len(s) : \E i \in 1 .. n : \E j \in 1 .. Len(ss[i]) : s[m] = ss[i][j]
    /\ \A i \in 1 .. n : \A j \in 1 .. Len(ss[i]) : \E m \in 1 .. Len(s) : s[m] = ss[i][j]

\* One sequence more.
LEMMA JoinElements ==
    ASSUME NEW ss, NEW n \in Nat, NEW s, NEW t, NEW u, t = ss[n], n # 0,
           ElementsOf(s, ss, n - 1), Joins(u, s, t)
    PROVE  ElementsOf(u, ss, n)
<1>1. \A i \in 1 .. n : i \in 1 .. n - 1 \/ i = n
  OBVIOUS
<1>2. \A i \in 1 .. n - 1 : i \in 1 .. n
  OBVIOUS
<1>3. ASSUME NEW m \in 1 .. Len(u)
      PROVE  \E i \in 1 .. n : \E j \in 1 .. Len(ss[i]) : u[m] = ss[i][j]
  <2>1. CASE \E i \in 1 .. Len(s) : u[m] = s[i]
    <3>1. PICK q \in 1 .. Len(s) : u[m] = s[q]
      BY <2>1
    <3>2. PICK i \in 1 .. n - 1 : \E j \in 1 .. Len(ss[i]) : s[q] = ss[i][j]
      BY DEF ElementsOf
    <3> QED BY <1>2, <3>1, <3>2
  <2>2. CASE \E j \in 1 .. Len(t) : u[m] = t[j]
    <3>1. n \in 1 .. n
      OBVIOUS
    <3> QED BY <2>2, <3>1
  <2> QED BY <2>1, <2>2 DEF Joins
<1>4. ASSUME NEW i \in 1 .. n, NEW j \in 1 .. Len(ss[i])
      PROVE  \E m \in 1 .. Len(u) : u[m] = ss[i][j]
  <2>1. CASE i \in 1 .. n - 1
    <3>1. PICK q \in 1 .. Len(s) : s[q] = ss[i][j]
      BY <2>1 DEF ElementsOf
    <3> QED BY <3>1 DEF Joins
  <2>2. CASE i = n
    BY <2>2 DEF Joins
  <2> QED BY <1>1, <2>1, <2>2
<1> QED BY <1>3, <1>4 DEF ElementsOf

LEMMA FlattenElements ==
    ASSUME NEW S, NEW ss \in Seq(Seq(S))
    PROVE  FlattenSeq(ss) \in Seq(S) /\ ElementsOf(FlattenSeq(ss), ss, Len(ss))
<1>1. CASE Len(ss) = 0
  <2>1. FlattenSeq(ss) = ss /\ ss = <<>>
    BY <1>1 DEF FlattenSeq
  <2> QED BY <1>1, <2>1, EmptySeq DEF ElementsOf
<1>2. CASE Len(ss) # 0
  <2>0. PICK g : /\ FlattenSeq(ss) = g[Len(ss)]
                 /\ g[1] = ss[1]
                 /\ \A i \in 2 .. Len(ss) : g[i] = g[i - 1] \o ss[i]
    BY <1>2, FlattenRecursion
  <2>1. Len(ss) \in Nat /\ \A i \in 1 .. Len(ss) : ss[i] \in Seq(S)
    OBVIOUS
  <2> DEFINE P == {n \in 0 .. Len(ss) : n = 0 \/ (g[n] \in Seq(S) /\ ElementsOf(g[n], ss, n))}
  <2>2. 0 \in P
    BY <2>1
  <2>3. ASSUME NEW n \in 1 .. Len(ss), n - 1 \in P PROVE n \in P
    <3>1. CASE n = 1
      <4>1. g[1] \in Seq(S) /\ ElementsOf(g[1], ss, 1)
        BY <2>0, <2>1, <3>1 DEF ElementsOf
      <4> QED BY <3>1, <4>1
    <3>2. CASE n # 1
      <4>1. n \in 2 .. Len(ss) /\ n - 1 # 0 /\ n - 1 \in 1 .. Len(ss)
        BY <3>2
      <4>2. g[n - 1] \in Seq(S) /\ ElementsOf(g[n - 1], ss, n - 1)
        BY <2>3, <4>1
      <4>3. PICK s, t : s = g[n - 1] /\ t = ss[n]
        OBVIOUS
      <4>4. s \in Seq(S) /\ t \in Seq(S) /\ g[n] = s \o t
        BY <2>0, <2>1, <4>1, <4>2, <4>3
      <4>5. PICK u : u = s \o t
        OBVIOUS
      <4>6. u \in Seq(S) /\ Joins(u, s, t)
        BY <4>4, <4>5, ConcatElements
      <4>7. ElementsOf(s, ss, n - 1)
        BY <4>2, <4>3
      <4>8. ElementsOf(u, ss, n)
        BY <4>3, <4>6, <4>7, JoinElements
      <4>9. g[n] \in Seq(S) /\ ElementsOf(g[n], ss, n)
        BY <4>4, <4>5, <4>6, <4>8
      <4> QED BY <4>9
    <3> QED BY <3>1, <3>2
  <2>4. Len(ss) \in P
    <3> HIDE DEF P
    <3>1. Len(ss) \in 0 .. Len(ss)
      BY <2>1
    <3> QED BY <2>1, <2>2, <2>3, <3>1, InductionUpTo
  <2> QED BY <1>2, <2>0, <2>4
<1> QED BY <1>1, <1>2

\* The elements of s are in the order R, a set of pairs.
OrderedBy(s, R) == \A m, n \in 1 .. Len(s) : m < n => <<s[m], s[n]>> \in R

\* Every element of s comes before every element of t.
AllBefore(s, t, R) == \A m \in 1 .. Len(s), n \in 1 .. Len(t) : <<s[m], t[n]>> \in R

LEMMA ConcatOrdered ==
    ASSUME NEW S, NEW R, NEW s \in Seq(S), NEW t \in Seq(S), NEW u, u = s \o t,
           OrderedBy(s, R), OrderedBy(t, R), AllBefore(s, t, R)
    PROVE  OrderedBy(u, R)
<1>1. /\ u \in Seq(S) /\ Len(u) = Len(s) + Len(t)
      /\ \A i \in 1 .. Len(s) + Len(t) :
            u[i] = IF i <= Len(s) THEN s[i] ELSE t[i - Len(s)]
  BY ConcatProperties
<1>2. Len(s) \in Nat /\ Len(t) \in Nat
  OBVIOUS
<1>3. ASSUME NEW m \in 1 .. Len(u), NEW n \in 1 .. Len(u), m < n PROVE <<u[m], u[n]>> \in R
  <2>1. CASE n <= Len(s)
    <3>1. /\ m \in 1 .. Len(s) /\ n \in 1 .. Len(s) /\ u[m] = s[m] /\ u[n] = s[n]
      BY <1>1, <1>2, <1>3, <2>1
    <3> QED BY <1>3, <3>1 DEF OrderedBy
  <2>2. CASE m <= Len(s) /\ ~(n <= Len(s))
    <3>1. PICK j \in 1 .. Len(t) : u[n] = t[j]
      <4>1. n - Len(s) \in 1 .. Len(t) /\ u[n] = t[n - Len(s)]
        BY <1>1, <1>2, <2>2
      <4> QED BY <4>1
    <3>2. m \in 1 .. Len(s) /\ u[m] = s[m]
      BY <1>1, <1>2, <2>2
    <3> QED BY <3>1, <3>2 DEF AllBefore
  <2>3. CASE ~(m <= Len(s))
    <3>1. PICK i, j : i = m - Len(s) /\ j = n - Len(s)
      OBVIOUS
    <3>2. i \in 1 .. Len(t) /\ j \in 1 .. Len(t) /\ i < j /\ u[m] = t[i] /\ u[n] = t[j]
      BY <1>1, <1>2, <1>3, <2>3, <3>1
    <3> QED BY <3>2 DEF OrderedBy
  <2> QED BY <1>1, <1>2, <1>3, <2>1, <2>2, <2>3
<1> QED BY <1>3 DEF OrderedBy

\* Sequences in order, one after the other, are in order.
LEMMA FlattenOrdered ==
    ASSUME NEW S, NEW R, NEW ss \in Seq(Seq(S)),
           \A i \in 1 .. Len(ss) : OrderedBy(ss[i], R),
           \A i, h \in 1 .. Len(ss) : i < h => AllBefore(ss[i], ss[h], R)
    PROVE  OrderedBy(FlattenSeq(ss), R)
<1>1. CASE Len(ss) = 0
  <2>1. FlattenSeq(ss) = ss
    BY <1>1 DEF FlattenSeq
  <2> QED BY <1>1, <2>1 DEF OrderedBy
<1>2. CASE Len(ss) # 0
  <2>0. PICK g : /\ FlattenSeq(ss) = g[Len(ss)]
                 /\ g[1] = ss[1]
                 /\ \A i \in 2 .. Len(ss) : g[i] = g[i - 1] \o ss[i]
    BY <1>2, FlattenRecursion
  <2>1. Len(ss) \in Nat /\ \A i \in 1 .. Len(ss) : ss[i] \in Seq(S)
    OBVIOUS
  <2> DEFINE Good(n) == g[n] \in Seq(S) /\ ElementsOf(g[n], ss, n) /\ OrderedBy(g[n], R)
             P == {n \in 0 .. Len(ss) : n = 0 \/ Good(n)}
  <2>2. 0 \in P
    BY <2>1
  <2>3. ASSUME NEW n \in 1 .. Len(ss), n - 1 \in P PROVE n \in P
    <3>1. CASE n = 1
      <4>1. g[1] \in Seq(S) /\ ElementsOf(g[1], ss, 1)
        BY <2>0, <2>1, <3>1 DEF ElementsOf
      <4>2. OrderedBy(g[1], R)
        BY <2>0, <3>1
      <4> QED BY <3>1, <4>1, <4>2
    <3>2. CASE n # 1
      <4>1. n \in 2 .. Len(ss) /\ n - 1 # 0 /\ n - 1 \in 1 .. Len(ss)
        BY <3>2
      <4>2. Good(n - 1)
        <5> HIDE DEF Good
        <5> QED BY <2>3, <4>1
      <4>3. PICK s, t : s = g[n - 1] /\ t = ss[n]
        OBVIOUS
      <4>4. s \in Seq(S) /\ t \in Seq(S) /\ g[n] = s \o t
        BY <2>0, <2>1, <4>1, <4>2, <4>3
      <4>5. PICK u : u = s \o t
        OBVIOUS
      <4>6. u \in Seq(S) /\ Joins(u, s, t)
        BY <4>4, <4>5, ConcatElements
      <4>7. ElementsOf(s, ss, n - 1) /\ OrderedBy(s, R)
        BY <4>2, <4>3
      <4>8. ElementsOf(u, ss, n)
        BY <4>3, <4>6, <4>7, JoinElements
      <4>9. AllBefore(s, t, R)
        <5> SUFFICES ASSUME NEW m \in 1 .. Len(s), NEW j \in 1 .. Len(t)
                     PROVE  <<s[m], t[j]>> \in R
          BY DEF AllBefore
        <5>1. PICK i \in 1 .. n - 1 : \E q \in 1 .. Len(ss[i]) : s[m] = ss[i][q]
          BY <4>7 DEF ElementsOf
        <5>2. i \in 1 .. Len(ss) /\ n \in 1 .. Len(ss) /\ i < n
          BY <2>1
        <5>3. AllBefore(ss[i], ss[n], R)
          BY <5>2
        <5> QED BY <4>3, <5>1, <5>3 DEF AllBefore
      <4>10. OrderedBy(t, R)
        BY <4>3
      <4>11. OrderedBy(u, R)
        BY <4>4, <4>5, <4>7, <4>9, <4>10, ConcatOrdered
      <4>12. Good(n)
        BY <4>4, <4>5, <4>6, <4>8, <4>11
      <4> HIDE DEF Good
      <4> QED BY <4>12
    <3> QED BY <3>1, <3>2
  <2>4. Len(ss) \in P
    <3> HIDE DEF P
    <3>1. Len(ss) \in 0 .. Len(ss)
      BY <2>1
    <3> QED BY <2>1, <2>2, <2>3, <3>1, InductionUpTo
  <2> QED BY <1>2, <2>0, <2>4
<1> QED BY <1>1, <1>2

\* SetToSeq enumerates a finite set.
LEMMA SetToSeqFact ==
    ASSUME NEW S, IsFiniteSet(S)
    PROVE  SetToSeq(S) \in Seq(S)
<1>1. Cardinality(S) \in Nat /\ ExistsBijection(1 .. Cardinality(S), S)
  BY FS_CardinalityType
<1>2. \E f \in [1 .. Cardinality(S) -> S] : IsInjective(f)
  BY <1>1 DEF ExistsBijection, Bijection, Injection, IsInjective
<1>3. SetToSeq(S) \in [1 .. Cardinality(S) -> S]
  BY <1>2 DEF SetToSeq
<1> QED BY <1>1, <1>3, SeqDef

\* A finite set of numbers can be listed in increasing order.
Increasing(s, n) == \A i, j \in 1 .. n : i < j => s[i] < s[j]

LEMMA IncreasingEnumeration ==
    ASSUME NEW S \in SUBSET Nat, IsFiniteSet(S)
    PROVE  /\ Cardinality(S) \in Nat
           /\ \E s \in [1 .. Cardinality(S) -> S] : Increasing(s, Cardinality(S))
<1>1. Cardinality(S) \in Nat
  BY FS_CardinalityType
<1> DEFINE Listed(T, n) == \E s \in [1 .. n -> T] : Increasing(s, n)
           P == {n \in 0 .. Cardinality(S) :
                   \A T \in SUBSET S : Cardinality(T) = n => Listed(T, n)}
<1>2. 0 \in P
  <2>1. ASSUME NEW T \in SUBSET S PROVE Listed(T, 0)
    <3> DEFINE s == [i \in 1 .. 0 |-> 0]
    <3>1. s \in [1 .. 0 -> T] /\ Increasing(s, 0)
      BY DEF Increasing
    <3> HIDE DEF s
    <3> QED BY <3>1
  <2> HIDE DEF Listed
  <2> QED BY <1>1, <2>1
<1>3. ASSUME NEW n \in 1 .. Cardinality(S), n - 1 \in P PROVE n \in P
  <2>1. ASSUME NEW T \in SUBSET S, Cardinality(T) = n PROVE Listed(T, n)
    <3>1. IsFiniteSet(T)
      BY FS_Subset
    <3>2. T # {} /\ T \in SUBSET Nat
      BY <1>1, <2>1, <3>1, FS_EmptySet
    <3>3. PICK m \in T : \A x \in T : m <= x
      BY <3>2, LeastNumber
    <3>4. Cardinality(T \ {m}) = n - 1 /\ T \ {m} \in SUBSET S
      BY <2>1, <3>1, <3>3, FS_RemoveElement
    <3>5. Listed(T \ {m}, n - 1)
      <4> HIDE DEF Listed
      <4> QED BY <1>3, <3>4
    <3>6. PICK r \in [1 .. n - 1 -> T \ {m}] : Increasing(r, n - 1)
      BY <3>5
    <3> DEFINE s == [i \in 1 .. n |-> IF i = 1 THEN m ELSE r[i - 1]]
    <3>7. n \in Nat /\ \A i \in 1 .. n : i # 1 => i - 1 \in 1 .. n - 1
      BY <1>1
    <3>8. s \in [1 .. n -> T]
      BY <3>6, <3>7
    <3>9. \A x \in T \ {m} : x \in Nat /\ m \in Nat /\ m < x
      BY <3>2, <3>3
    <3>10. ASSUME NEW i \in 1 .. n, NEW j \in 1 .. n, i < j PROVE s[i] < s[j]
      <4>1. j # 1 /\ s[j] = r[j - 1] /\ j - 1 \in 1 .. n - 1
        BY <3>7, <3>10
      <4>2. CASE i = 1
        BY <3>6, <3>9, <4>1, <4>2
      <4>3. CASE i # 1
        <5>1. s[i] = r[i - 1] /\ i - 1 \in 1 .. n - 1 /\ i - 1 < j - 1
          BY <3>7, <3>10, <4>3
        <5> HIDE DEF s
        <5> QED BY <3>6, <4>1, <5>1 DEF Increasing
      <4> QED BY <4>2, <4>3
    <3>11. Increasing(s, n)
      BY <3>10 DEF Increasing
    <3> HIDE DEF s
    <3> QED BY <3>8, <3>11
  <2> HIDE DEF Listed
  <2> QED BY <1>1, <2>1
<1>4. Cardinality(S) \in P
  <2> HIDE DEF P
  <2>1. Cardinality(S) \in 0 .. Cardinality(S)
    BY <1>1
  <2> QED BY <1>1, <1>2, <1>3, <2>1, InductionUpTo
<1> QED BY <1>1, <1>4

\* An increasing list of as many numbers as a finite set has lists them all.
LEMMA IncreasingOnto ==
    ASSUME NEW S \in SUBSET Nat, IsFiniteSet(S), NEW s \in [1 .. Cardinality(S) -> S],
           Increasing(s, Cardinality(S))
    PROVE  \A x \in S : \E i \in 1 .. Cardinality(S) : s[i] = x
<1>1. PICK n \in Nat : n = Cardinality(S)
  BY FS_CardinalityType
<1>2. IsFiniteSet(1 .. n) /\ Cardinality(1 .. n) = n
  BY FS_Interval
<1>3. s \in [1 .. n -> S] /\ \A i, j \in 1 .. n : i < j => s[i] < s[j]
  BY <1>1 DEF Increasing
<1>4. ASSUME NEW i \in 1 .. n, NEW j \in 1 .. n, s[i] = s[j] PROVE i = j
  <2>1. s[i] \in Nat /\ s[j] \in Nat
    BY <1>3
  <2>2. ~(i < j) /\ ~(j < i)
    BY <1>3, <1>4, <2>1
  <2> QED BY <2>2
<1>5. s \in Injection(1 .. n, S)
  BY <1>3, <1>4 DEF Injection, IsInjective
<1>6. s \in Surjection(1 .. n, S)
  BY <1>1, <1>2, <1>5, FS_Injection
<1> QED BY <1>1, <1>6 DEF Surjection
------------------------------------------------------------------------------
(***************************************************************************)
(* Bags.                                                                   *)
(***************************************************************************)
LEMMA EmptyBagFact ==
    IsABag(EmptyBag) /\ BagToSet(EmptyBag) = {}
BY DEF IsABag, EmptyBag, SetToBag, BagToSet

\* A set of elements comes to a bag.
LEMMA BagPlusSet ==
    ASSUME NEW bag, IsABag(bag), NEW G
    PROVE  /\ IsABag(bag (+) SetToBag(G))
           /\ BagToSet(bag (+) SetToBag(G)) = BagToSet(bag) \cup G
           /\ \A e \in BagToSet(bag) \ G : (bag (+) SetToBag(G))[e] = bag[e]
           /\ \A e \in G \ BagToSet(bag) : (bag (+) SetToBag(G))[e] = 1
<1> DEFINE one == SetToBag(G)
           sum == bag (+) one
<1>1. DOMAIN one = G /\ \A e \in G : one[e] = 1
  BY DEF SetToBag
<1>2. sum = [e \in DOMAIN bag \cup DOMAIN one |->
          (IF e \in DOMAIN bag THEN bag[e] ELSE 0) + (IF e \in DOMAIN one THEN one[e] ELSE 0)]
  BY DEF (+)
<1>3. \A e \in DOMAIN bag : bag[e] \in Nat /\ bag[e] > 0
  BY DEF IsABag
<1> HIDE DEF one, sum
<1>4. DOMAIN sum = DOMAIN bag \cup G
  BY <1>1, <1>2
<1>5. \A e \in DOMAIN bag \cup G : sum[e] \in Nat /\ sum[e] > 0
  BY <1>1, <1>2, <1>3
<1>6. IsABag(sum)
  BY <1>2, <1>4, <1>5 DEF IsABag
<1>7. /\ \A e \in DOMAIN bag \ G : sum[e] = bag[e]
      /\ \A e \in G \ DOMAIN bag : sum[e] = 1
  BY <1>1, <1>2, <1>3
<1> QED BY <1>4, <1>6, <1>7 DEF BagToSet, sum, one

\* One copy of an element goes.
LEMMA BagMinusOne ==
    ASSUME NEW bag, IsABag(bag), NEW elem
    PROVE  /\ IsABag(bag (-) SetToBag({elem}))
           /\ BagToSet(bag (-) SetToBag({elem})) \subseteq BagToSet(bag)
           /\ \A e \in BagToSet(bag) : e = elem \/ e \in BagToSet(bag (-) SetToBag({elem}))
           /\ bag[elem] = 1 => elem \notin BagToSet(bag (-) SetToBag({elem}))
           /\ \A e \in BagToSet(bag (-) SetToBag({elem})) :
                 e # elem => (bag (-) SetToBag({elem}))[e] = bag[e]
<1> DEFINE one == SetToBag({elem})
           less == [e \in DOMAIN bag |-> IF e \in DOMAIN one THEN bag[e] - one[e] ELSE bag[e]]
           diff == bag (-) one
<1>1. DOMAIN one = {elem} /\ one[elem] = 1
  BY DEF SetToBag
<1>2. diff = [e \in {d \in DOMAIN less : less[d] > 0} |-> less[e]]
  BY DEF (-)
<1>3. \A e \in DOMAIN bag : bag[e] \in Nat /\ bag[e] > 0
  BY DEF IsABag
<1> HIDE DEF one, diff
<1>4. DOMAIN less = DOMAIN bag
  OBVIOUS
<1>5. \A e \in DOMAIN bag : /\ less[e] \in Int /\ (e # elem => less[e] = bag[e])
                            /\ e = elem => less[e] = bag[e] - 1
  BY <1>1, <1>3
<1> HIDE DEF less
<1>6. DOMAIN diff = {d \in DOMAIN bag : less[d] > 0}
  BY <1>2, <1>4
<1>7. \A e \in DOMAIN diff : diff[e] \in Nat /\ diff[e] > 0
  BY <1>2, <1>5, <1>6
<1>8. IsABag(diff)
  BY <1>2, <1>7 DEF IsABag
<1>9. \A e \in DOMAIN bag : e = elem \/ e \in DOMAIN diff
  BY <1>3, <1>5, <1>6
<1>10. bag[elem] = 1 => elem \notin DOMAIN diff
  BY <1>5, <1>6
<1>11. \A e \in DOMAIN diff : e # elem => diff[e] = bag[e]
  BY <1>2, <1>5, <1>6
<1> QED BY <1>6, <1>8, <1>9, <1>10, <1>11 DEF BagToSet, diff, one
------------------------------------------------------------------------------
(***************************************************************************)
(* Sums over finite sets.  The fold takes the elements in an order that    *)
(* depends on the set only, so sums over one set compare term by term.     *)
(***************************************************************************)
AnyOf(T) == CHOOSE x \in T : TRUE

\* h adds up the values of f, subset by subset of what D has at most n of.
AddsUp(h, f, D, n) ==
    \A T \in SUBSET D : Cardinality(T) <= n =>
        h[T] = IF T = {} THEN 0 ELSE f[AnyOf(T)] + h[T \ {AnyOf(T)}]

\* What taking any element of T, a subset of D, leaves.
Dwindles(T, D) ==
    /\ Cardinality(T) \in Nat /\ Cardinality(T) <= Cardinality(D)
    /\ Cardinality(T) = 0 <=> T = {}
    /\ T # {} => /\ AnyOf(T) \in T /\ T \ {AnyOf(T)} \in SUBSET D
                 /\ Cardinality(T \ {AnyOf(T)}) = Cardinality(T) - 1

LEMMA AnyOfFact ==
    ASSUME NEW D, IsFiniteSet(D), NEW T \in SUBSET D
    PROVE  Dwindles(T, D)
<1>1. IsFiniteSet(T) /\ Cardinality(T) <= Cardinality(D)
  BY FS_Subset
<1>2. Cardinality(T) \in Nat
  BY <1>1, FS_CardinalityType
<1>3. Cardinality(T) = 0 <=> T = {}
  BY <1>1, FS_EmptySet
<1>4. ASSUME T # {} PROVE AnyOf(T) \in T
  BY <1>4 DEF AnyOf
<1>5. ASSUME T # {}
      PROVE  T \ {AnyOf(T)} \in SUBSET D /\ Cardinality(T \ {AnyOf(T)}) = Cardinality(T) - 1
  BY <1>1, <1>4, <1>5, FS_RemoveElement
<1> QED BY <1>1, <1>2, <1>3, <1>4, <1>5 DEF Dwindles

LEMMA SumExists ==
    ASSUME NEW D, IsFiniteSet(D), NEW f \in [D -> Nat]
    PROVE  \E h \in [SUBSET D -> Nat] : AddsUp(h, f, D, Cardinality(D))
<1> DEFINE N == Cardinality(D)
           P == {n \in 0 .. N : \E h \in [SUBSET D -> Nat] : AddsUp(h, f, D, n)}
<1>1. N \in Nat
  BY FS_CardinalityType
<1> HIDE DEF N
<1>2. 0 \in P
  <2> DEFINE h == [T \in SUBSET D |-> 0]
  <2>1. h \in [SUBSET D -> Nat]
    OBVIOUS
  <2>2. ASSUME NEW T \in SUBSET D, Cardinality(T) <= 0 PROVE h[T] = 0 /\ T = {}
    <3>1. Dwindles(T, D)
      BY AnyOfFact
    <3>2. T = {}
      BY <2>2, <3>1 DEF Dwindles
    <3> QED BY <3>2
  <2>3. AddsUp(h, f, D, 0)
    BY <2>2 DEF AddsUp
  <2> HIDE DEF h
  <2> QED BY <1>1, <2>1, <2>3
<1>3. ASSUME NEW n \in 1 .. N, n - 1 \in P PROVE n \in P
  <2>1. PICK g \in [SUBSET D -> Nat] : AddsUp(g, f, D, n - 1)
    BY <1>3
  <2> DEFINE h == [T \in SUBSET D |->
                     IF T = {} THEN 0
                     ELSE IF Cardinality(T) <= n THEN f[AnyOf(T)] + g[T \ {AnyOf(T)}] ELSE 0]
  <2>2. ASSUME NEW T \in SUBSET D, T # {} PROVE f[AnyOf(T)] + g[T \ {AnyOf(T)}] \in Nat
    <3>1. Dwindles(T, D)
      BY AnyOfFact
    <3>2. AnyOf(T) \in D /\ T \ {AnyOf(T)} \in SUBSET D
      BY <2>2, <3>1 DEF Dwindles
    <3> QED BY <3>2
  <2>3. h \in [SUBSET D -> Nat]
    BY <2>2
  <2>4. ASSUME NEW T \in SUBSET D, Cardinality(T) <= n - 1 PROVE h[T] = g[T]
    <3>1. Dwindles(T, D)
      BY AnyOfFact
    <3>2. Cardinality(T) <= n
      BY <2>4, <3>1 DEF Dwindles
    <3>3. g[T] = IF T = {} THEN 0 ELSE f[AnyOf(T)] + g[T \ {AnyOf(T)}]
      BY <2>1, <2>4 DEF AddsUp
    <3> QED BY <3>2, <3>3
  <2>5. ASSUME NEW T \in SUBSET D, Cardinality(T) <= n, T # {}
        PROVE  h[T] = f[AnyOf(T)] + h[T \ {AnyOf(T)}]
    <3>0. Dwindles(T, D)
      BY AnyOfFact
    <3>1. T \ {AnyOf(T)} \in SUBSET D /\ Cardinality(T \ {AnyOf(T)}) <= n - 1
      BY <2>5, <3>0 DEF Dwindles
    <3>2. h[T \ {AnyOf(T)}] = g[T \ {AnyOf(T)}]
      <4> HIDE DEF h
      <4> QED BY <2>4, <3>1
    <3>3. h[T] = f[AnyOf(T)] + g[T \ {AnyOf(T)}]
      BY <2>5
    <3> QED BY <3>2, <3>3
  <2>6. h[{}] = 0
    OBVIOUS
  <2> HIDE DEF h
  <2>7. AddsUp(h, f, D, n)
    BY <2>5, <2>6 DEF AddsUp
  <2> QED BY <2>3, <2>7
<1>4. N \in P
  <2>1. N \in 0 .. N
    BY <1>1
  <2> HIDE DEF P
  <2> QED BY <1>1, <1>2, <1>3, <2>1, InductionUpTo
<1> QED BY <1>4 DEF N

LEMMA SumFact ==
    ASSUME NEW D, IsFiniteSet(D), NEW f \in [D -> Nat]
    PROVE  \E h \in [SUBSET D -> Nat] :
              SumFunction(f) = h[D] /\ AddsUp(h, f, D, Cardinality(D))
<1> DEFINE Body(g) == [s \in SUBSET D |-> IF s = {} THEN 0
                          ELSE f[CHOOSE x \in s : TRUE] + g[s \ {CHOOSE x \in s : TRUE}]]
           iter == CHOOSE g : g = Body(g)
<1>1. SumFunction(f) = iter[D]
  <2>1. DOMAIN f = D
    OBVIOUS
  <2> QED BY <2>1 DEF SumFunction, SumFunctionOnSet, FoldFunctionOnSet, MapThenFoldSet
<1>2. PICK h \in [SUBSET D -> Nat] : AddsUp(h, f, D, Cardinality(D))
  BY SumExists
<1>3. h = Body(h)
  <2>1. \A T \in SUBSET D : h[T] = IF T = {} THEN 0 ELSE f[AnyOf(T)] + h[T \ {AnyOf(T)}]
    <3> SUFFICES ASSUME NEW T \in SUBSET D
                 PROVE  h[T] = IF T = {} THEN 0 ELSE f[AnyOf(T)] + h[T \ {AnyOf(T)}]
      OBVIOUS
    <3>1. Dwindles(T, D)
      BY AnyOfFact
    <3>2. Cardinality(T) <= Cardinality(D)
      BY <3>1 DEF Dwindles
    <3> QED BY <1>2, <3>2 DEF AddsUp
  <2>2. \A T \in SUBSET D : h[T] = Body(h)[T]
    BY <2>1 DEF AnyOf
  <2> QED BY <2>2
<1>4. iter = Body(iter)
  <2>1. \E g : g = Body(g)
    <3> HIDE DEF Body
    <3> QED BY <1>3
  <2> HIDE DEF Body
  <2> QED BY <2>1
<1> HIDE DEF iter
<1>5. \A T \in SUBSET D : iter[T] = IF T = {} THEN 0 ELSE f[AnyOf(T)] + iter[T \ {AnyOf(T)}]
  <2>1. \A T \in SUBSET D : Body(iter)[T] =
           IF T = {} THEN 0 ELSE f[AnyOf(T)] + iter[T \ {AnyOf(T)}]
    BY DEF AnyOf
  <2> HIDE DEF Body
  <2> QED BY <1>4, <2>1
<1>6. iter = [T \in SUBSET D |-> iter[T]]
  BY <1>4
<1> DEFINE N == Cardinality(D)
           P == {n \in 0 .. N : \A T \in SUBSET D : Cardinality(T) = n => iter[T] \in Nat}
<1> HIDE DEF Body
<1>7. N \in Nat
  BY FS_CardinalityType
<1> HIDE DEF N
<1>8. 0 \in P
  <2>1. ASSUME NEW T \in SUBSET D, Cardinality(T) = 0 PROVE iter[T] \in Nat
    <3>1. Dwindles(T, D)
      BY AnyOfFact
    <3>2. T = {}
      BY <2>1, <3>1 DEF Dwindles
    <3>3. iter[T] = IF T = {} THEN 0 ELSE f[AnyOf(T)] + iter[T \ {AnyOf(T)}]
      BY <1>5
    <3>4. 0 \in Nat
      OBVIOUS
    <3> HIDE DEF P
    <3> QED BY <3>2, <3>3, <3>4
  <2> QED BY <1>7, <2>1
<1>9. ASSUME NEW n \in 1 .. N, n - 1 \in P PROVE n \in P
  <2>1. ASSUME NEW T \in SUBSET D, Cardinality(T) = n PROVE iter[T] \in Nat
    <3>0. Dwindles(T, D)
      BY AnyOfFact
    <3>1. /\ T # {} /\ AnyOf(T) \in D /\ T \ {AnyOf(T)} \in SUBSET D
          /\ Cardinality(T \ {AnyOf(T)}) = n - 1
      BY <2>1, <3>0 DEF Dwindles
    <3>2. iter[T \ {AnyOf(T)}] \in Nat
      BY <1>9, <3>1
    <3>3. iter[T] = f[AnyOf(T)] + iter[T \ {AnyOf(T)}]
      BY <1>5, <3>1
    <3> QED BY <3>1, <3>2, <3>3
  <2> QED BY <2>1
<1>10. \A n \in 0 .. N : n \in P
  <2> HIDE DEF P
  <2> QED BY <1>7, <1>8, <1>9, InductionUpTo
<1>11. \A T \in SUBSET D : iter[T] \in Nat
  <2> SUFFICES ASSUME NEW T \in SUBSET D PROVE iter[T] \in Nat
    OBVIOUS
  <2>0. Dwindles(T, D)
    BY AnyOfFact
  <2>1. Cardinality(T) \in 0 .. N
    BY <1>7, <2>0 DEF N, Dwindles
  <2> QED BY <1>10, <2>1
<1>12. iter \in [SUBSET D -> Nat]
  BY <1>6, <1>11
<1>13. AddsUp(iter, f, D, Cardinality(D))
  BY <1>5 DEF AddsUp
<1> QED BY <1>1, <1>12, <1>13

\* Greater terms have a greater sum, by at least what one of them is greater.
LEMMA SumMonotone ==
    ASSUME NEW D, IsFiniteSet(D), NEW f \in [D -> Nat], NEW g \in [D -> Nat],
           \A x \in D : f[x] <= g[x]
    PROVE  /\ SumFunction(f) \in Nat /\ SumFunction(g) \in Nat
           /\ SumFunction(f) <= SumFunction(g)
           /\ \A d \in D : \A a \in Nat :
                 f[d] + a <= g[d] => SumFunction(f) + a <= SumFunction(g)
<1> DEFINE N == Cardinality(D)
<1>1. N \in Nat /\ D \in SUBSET D
  BY FS_CardinalityType
<1>2. PICK hf \in [SUBSET D -> Nat] : SumFunction(f) = hf[D] /\ AddsUp(hf, f, D, N)
  BY SumFact
<1>3. PICK hg \in [SUBSET D -> Nat] : SumFunction(g) = hg[D] /\ AddsUp(hg, g, D, N)
  BY SumFact
<1>4. SumFunction(f) \in Nat /\ SumFunction(g) \in Nat
  BY <1>1, <1>2, <1>3
<1> HIDE DEF N
<1>5. ASSUME NEW d \in D, NEW a \in Nat, f[d] + a <= g[d]
      PROVE  hf[D] + a <= hg[D] /\ hf[D] <= hg[D]
  <2> DEFINE Less(T) == hf[T] <= hg[T] /\ (d \in T => hf[T] + a <= hg[T])
             P == {n \in 0 .. N : \A T \in SUBSET D : Cardinality(T) = n => Less(T)}
  <2>1. 0 \in P
    <3>1. ASSUME NEW T \in SUBSET D, Cardinality(T) = 0 PROVE Less(T)
      <4>0. Dwindles(T, D)
        BY AnyOfFact
      <4>1. T = {} /\ Cardinality(T) <= N
        BY <1>1, <3>1, <4>0 DEF Dwindles
      <4>2. hf[T] = 0 /\ hg[T] = 0
        BY <1>2, <1>3, <4>1 DEF AddsUp
      <4> QED BY <4>1, <4>2
    <3> HIDE DEF Less
    <3> QED BY <1>1, <3>1
  <2>2. ASSUME NEW n \in 1 .. N, n - 1 \in P PROVE n \in P
    <3>1. ASSUME NEW T \in SUBSET D, Cardinality(T) = n PROVE Less(T)
      <4>1. PICK x, R : x = AnyOf(T) /\ R = T \ {x}
        OBVIOUS
      <4>0. Dwindles(T, D)
        BY AnyOfFact
      <4>2. T # {} /\ x \in T /\ x \in D /\ R \in SUBSET D /\ Cardinality(R) = n - 1
        BY <3>1, <4>0, <4>1 DEF Dwindles
      <4>3. Less(R)
        BY <2>2, <4>2
      <4>4. hf[T] = f[x] + hf[R] /\ hg[T] = g[x] + hg[R]
        BY <1>1, <1>2, <1>3, <3>1, <4>1, <4>2 DEF AddsUp
      <4>5. hf[R] \in Nat /\ hg[R] \in Nat /\ f[x] \in Nat /\ g[x] \in Nat /\ f[x] <= g[x]
        BY <4>2
      <4>6. d \in T => x = d \/ d \in R
        BY <4>1
      <4> QED BY <1>5, <4>3, <4>4, <4>5, <4>6
    <3> HIDE DEF Less
    <3> QED BY <3>1
  <2>3. N \in P
    <3>1. N \in 0 .. N
      BY <1>1
    <3> HIDE DEF P
    <3> QED BY <1>1, <2>1, <2>2, <3>1, InductionUpTo
  <2> QED BY <1>1, <2>3 DEF N
<1>6. hf[D] <= hg[D]
  <2>1. CASE D = {}
    <3>0. Cardinality(D) <= N
      BY <1>1 DEF N
    <3>1. hf[D] = 0 /\ hg[D] = 0
      BY <1>1, <1>2, <1>3, <2>1, <3>0 DEF AddsUp
    <3> QED BY <3>1
  <2>2. CASE D # {}
    <3>1. PICK d \in D : TRUE
      BY <2>2
    <3>2. f[d] + 0 <= g[d]
      OBVIOUS
    <3> QED BY <1>5, <3>2
  <2> QED BY <2>1, <2>2
<1> QED BY <1>2, <1>3, <1>4, <1>5, <1>6

Sums(h, f, D) ==
    /\ IsFiniteSet(D) /\ f \in [D -> Nat] /\ h \in [SUBSET D -> Nat]
    /\ AddsUp(h, f, D, Cardinality(D))

\* Any element may be taken first.
LEMMA SumAnyTerm ==
    ASSUME NEW D, NEW f, NEW h, Sums(h, f, D), NEW d \in D
    PROVE  h[D] = f[d] + h[D \ {d}]
<1> USE DEF Sums
<1> DEFINE N == Cardinality(D)
           AnyTerm(T) == \A a \in T : h[T] = f[a] + h[T \ {a}]
           P == {n \in 0 .. N : \A T \in SUBSET D : Cardinality(T) = n => AnyTerm(T)}
<1>1. N \in Nat /\ D \in SUBSET D
  BY FS_CardinalityType
<1>2. \A T \in SUBSET D : T # {} => h[T] = f[AnyOf(T)] + h[T \ {AnyOf(T)}]
  <2> SUFFICES ASSUME NEW T \in SUBSET D, T # {}
               PROVE  h[T] = f[AnyOf(T)] + h[T \ {AnyOf(T)}]
    OBVIOUS
  <2>1. Dwindles(T, D)
    BY AnyOfFact
  <2>2. Cardinality(T) <= Cardinality(D)
    BY <2>1 DEF Dwindles
  <2> QED BY <2>2 DEF AddsUp
<1>3. \A T \in SUBSET D : \A a \in T : Cardinality(T \ {a}) = Cardinality(T) - 1
  <2> SUFFICES ASSUME NEW T \in SUBSET D, NEW a \in T
               PROVE  Cardinality(T \ {a}) = Cardinality(T) - 1
    OBVIOUS
  <2>1. IsFiniteSet(T)
    BY FS_Subset
  <2> QED BY <2>1, FS_RemoveElement
<1> HIDE DEF N
<1>4. 0 \in P
  <2>1. ASSUME NEW T \in SUBSET D, Cardinality(T) = 0 PROVE AnyTerm(T)
    <3>1. Dwindles(T, D)
      BY AnyOfFact
    <3>2. T = {}
      BY <2>1, <3>1 DEF Dwindles
    <3> QED BY <3>2
  <2> HIDE DEF AnyTerm
  <2> QED BY <1>1, <2>1
<1>5. ASSUME NEW n \in 1 .. N, n - 1 \in P PROVE n \in P
  <2>1. ASSUME NEW T \in SUBSET D, Cardinality(T) = n, NEW a \in T
        PROVE  h[T] = f[a] + h[T \ {a}]
    <3>1. PICK c : c = AnyOf(T)
      OBVIOUS
    <3>2. Dwindles(T, D)
      BY AnyOfFact
    <3>3. T # {} /\ c \in T
      BY <3>1, <3>2 DEF Dwindles
    <3>4. h[T] = f[c] + h[T \ {c}]
      BY <1>2, <3>1, <3>3
    <3>5. CASE c = a
      BY <3>4, <3>5
    <3>6. CASE c # a
      <4>1. PICK A, B, R : A = T \ {a} /\ B = T \ {c} /\ R = (T \ {c}) \ {a}
        OBVIOUS
      <4>2. /\ A \in SUBSET D /\ B \in SUBSET D /\ R \in SUBSET D
            /\ R = A \ {c} /\ R = B \ {a} /\ c \in A /\ a \in B
        BY <3>3, <3>6, <4>1
      <4>3. Cardinality(A) = n - 1 /\ Cardinality(B) = n - 1
        BY <1>3, <2>1, <3>3, <4>1
      <4>4. AnyTerm(A) /\ AnyTerm(B)
        <5> HIDE DEF AnyTerm
        <5> QED BY <1>5, <4>2, <4>3
      <4>5. h[A] = f[c] + h[R] /\ h[B] = f[a] + h[R]
        BY <4>2, <4>4
      <4>6. f[a] \in Nat /\ f[c] \in Nat /\ h[R] \in Nat
        BY <3>3, <4>2
      <4> QED BY <3>4, <4>1, <4>5, <4>6
    <3> QED BY <3>5, <3>6
  <2>2. \A T \in SUBSET D : Cardinality(T) = n => AnyTerm(T)
    BY <2>1
  <2> HIDE DEF AnyTerm
  <2> QED BY <2>2
<1>6. N \in P
  <2>1. N \in 0 .. N
    BY <1>1
  <2> HIDE DEF P
  <2> QED BY <1>1, <1>4, <1>5, <2>1, InductionUpTo
<1> QED BY <1>1, <1>6 DEF N

\* Sums of functions that agree on a set agree on it.
LEMMA SumAgree ==
    ASSUME NEW D, NEW f, NEW h, Sums(h, f, D), NEW E, NEW g, NEW k, Sums(k, g, E),
           NEW S \in SUBSET (D \cap E), \A x \in S : f[x] = g[x]
    PROVE  h[S] = k[S]
<1> USE DEF Sums
<1> DEFINE N == Cardinality(S)
           P == {n \in 0 .. N : \A T \in SUBSET S : Cardinality(T) = n => h[T] = k[T]}
<1>1. IsFiniteSet(S)
  BY FS_Subset
<1>2. N \in Nat /\ S \in SUBSET S
  BY <1>1, FS_CardinalityType
<1>3. \A T \in SUBSET S : h[T] = IF T = {} THEN 0 ELSE f[AnyOf(T)] + h[T \ {AnyOf(T)}]
  <2> SUFFICES ASSUME NEW T \in SUBSET S
               PROVE  h[T] = IF T = {} THEN 0 ELSE f[AnyOf(T)] + h[T \ {AnyOf(T)}]
    OBVIOUS
  <2>0. T \in SUBSET D
    OBVIOUS
  <2>1. Dwindles(T, D)
    BY <2>0, AnyOfFact
  <2>2. Cardinality(T) <= Cardinality(D)
    BY <2>1 DEF Dwindles
  <2> QED BY <2>0, <2>2 DEF AddsUp
<1>4. \A T \in SUBSET S : k[T] = IF T = {} THEN 0 ELSE g[AnyOf(T)] + k[T \ {AnyOf(T)}]
  <2> SUFFICES ASSUME NEW T \in SUBSET S
               PROVE  k[T] = IF T = {} THEN 0 ELSE g[AnyOf(T)] + k[T \ {AnyOf(T)}]
    OBVIOUS
  <2>0. T \in SUBSET E
    OBVIOUS
  <2>1. Dwindles(T, E)
    BY <2>0, AnyOfFact
  <2>2. Cardinality(T) <= Cardinality(E)
    BY <2>1 DEF Dwindles
  <2> QED BY <2>0, <2>2 DEF AddsUp
<1> HIDE DEF N
<1>5. 0 \in P
  <2>1. ASSUME NEW T \in SUBSET S, Cardinality(T) = 0 PROVE h[T] = k[T]
    <3>1. Dwindles(T, S)
      BY <1>1, AnyOfFact
    <3>2. T = {}
      BY <2>1, <3>1 DEF Dwindles
    <3> HIDE DEF P
    <3> QED BY <1>3, <1>4, <3>2
  <2> QED BY <1>2, <2>1
<1>6. ASSUME NEW n \in 1 .. N, n - 1 \in P PROVE n \in P
  <2>1. ASSUME NEW T \in SUBSET S, Cardinality(T) = n PROVE h[T] = k[T]
    <3>1. PICK c, R : c = AnyOf(T) /\ R = T \ {AnyOf(T)}
      OBVIOUS
    <3>2. Dwindles(T, S)
      BY <1>1, AnyOfFact
    <3>3. T # {} /\ c \in S /\ R \in SUBSET S /\ Cardinality(R) = n - 1
      BY <2>1, <3>1, <3>2 DEF Dwindles
    <3>4. h[R] = k[R]
      BY <1>6, <3>3
    <3>5. h[T] = f[c] + h[R] /\ k[T] = g[c] + k[R]
      BY <1>3, <1>4, <3>1, <3>3
    <3> QED BY <3>3, <3>4, <3>5
  <2> QED BY <2>1
<1>7. N \in P
  <2>1. N \in 0 .. N
    BY <1>2
  <2> HIDE DEF P
  <2> QED BY <1>2, <1>5, <1>6, <2>1, InductionUpTo
<1> QED BY <1>2, <1>7 DEF N

\* What one term adds to a sum.
TermOf(f, D, x) == IF x \in D THEN f[x] ELSE 0

\* Functions that differ at one point at most have sums that differ by what
\* they are there.
LEMMA SumOneTerm ==
    ASSUME NEW D, IsFiniteSet(D), NEW f \in [D -> Nat],
           NEW E, IsFiniteSet(E), NEW g \in [E -> Nat],
           NEW x, D \ {x} = E \ {x}, \A y \in D \ {x} : f[y] = g[y]
    PROVE  \E m \in Nat : /\ SumFunction(f) = TermOf(f, D, x) + m
                          /\ SumFunction(g) = TermOf(g, E, x) + m
<1>1. PICK h \in [SUBSET D -> Nat] : SumFunction(f) = h[D] /\ Sums(h, f, D)
  BY SumFact DEF Sums
<1>2. PICK k \in [SUBSET E -> Nat] : SumFunction(g) = k[E] /\ Sums(k, g, E)
  BY SumFact DEF Sums
<1>3. PICK S : S = D \ {x}
  OBVIOUS
<1>4. S = E \ {x} /\ S \in SUBSET (D \cap E) /\ \A y \in S : f[y] = g[y]
  BY <1>3
<1>5. h[S] = k[S]
  BY <1>1, <1>2, <1>4, SumAgree
<1>6. h[S] \in Nat
  BY <1>4
<1>7. h[D] = TermOf(f, D, x) + h[S]
  <2>1. CASE x \in D
    <3>1. h[D] = f[x] + h[D \ {x}]
      BY <1>1, <2>1, SumAnyTerm
    <3> QED BY <1>3, <2>1, <3>1 DEF TermOf
  <2>2. CASE x \notin D
    <3>1. S = D
      BY <1>3, <2>2
    <3> QED BY <1>6, <2>2, <3>1 DEF TermOf
  <2> QED BY <2>1, <2>2
<1>8. k[E] = TermOf(g, E, x) + k[S]
  <2>1. CASE x \in E
    <3>1. k[E] = g[x] + k[E \ {x}]
      BY <1>2, <2>1, SumAnyTerm
    <3> QED BY <1>4, <2>1, <3>1 DEF TermOf
  <2>2. CASE x \notin E
    <3>1. S = E
      BY <1>4, <2>2
    <3> QED BY <1>5, <1>6, <2>2, <3>1 DEF TermOf
  <2> QED BY <2>1, <2>2
<1> QED BY <1>1, <1>2, <1>5, <1>6, <1>7, <1>8

\* One more and one less in a bag, counted with copies.
LEMMA BagSizeUp ==
    ASSUME NEW bag, IsABag(bag), IsFiniteSet(DOMAIN bag), NEW elem
    PROVE  /\ IsFiniteSet(DOMAIN (bag (+) SetToBag({elem})))
           /\ SumFunction(bag) \in Nat
           /\ SumFunction(bag (+) SetToBag({elem})) = SumFunction(bag) + 1
<1> DEFINE one == SetToBag({elem})
<1>1. DOMAIN one = {elem} /\ one[elem] = 1
  BY DEF SetToBag
<1>2. PICK sum : sum = bag (+) one
  OBVIOUS
<1>3. sum = [e \in DOMAIN bag \cup DOMAIN one |->
          (IF e \in DOMAIN bag THEN bag[e] ELSE 0) + (IF e \in DOMAIN one THEN one[e] ELSE 0)]
  BY <1>2 DEF (+)
<1> HIDE DEF one
<1>4. bag \in [DOMAIN bag -> Nat]
  BY DEF IsABag
<1>5. PICK D, E : D = DOMAIN bag /\ E = D \cup {elem}
  OBVIOUS
<1>6. IsFiniteSet(D) /\ IsFiniteSet(E)
  BY <1>5, FS_AddElement
<1>7. bag \in [D -> Nat] /\ sum \in [E -> Nat] /\ D \ {elem} = E \ {elem}
  BY <1>1, <1>3, <1>4, <1>5
<1>8. /\ \A y \in D \ {elem} : bag[y] = sum[y]
      /\ TermOf(sum, E, elem) = TermOf(bag, D, elem) + 1
      /\ TermOf(bag, D, elem) \in Nat
  BY <1>1, <1>3, <1>4, <1>5, <1>7 DEF TermOf
<1>9. PICK m \in Nat : /\ SumFunction(bag) = TermOf(bag, D, elem) + m
                       /\ SumFunction(sum) = TermOf(sum, E, elem) + m
  BY <1>6, <1>7, <1>8, SumOneTerm
<1>10. DOMAIN sum = E
  BY <1>7
<1>11. SumFunction(bag) \in Nat /\ SumFunction(sum) = SumFunction(bag) + 1
  BY <1>8, <1>9
<1> QED BY <1>2, <1>6, <1>10, <1>11 DEF one

LEMMA BagSizeDown ==
    ASSUME NEW bag, IsABag(bag), IsFiniteSet(DOMAIN bag), NEW elem \in BagToSet(bag)
    PROVE  /\ IsFiniteSet(DOMAIN (bag (-) SetToBag({elem})))
           /\ SumFunction(bag (-) SetToBag({elem})) \in Nat
           /\ SumFunction(bag) = SumFunction(bag (-) SetToBag({elem})) + 1
<1> DEFINE one == SetToBag({elem})
           less == [e \in DOMAIN bag |-> IF e \in DOMAIN one THEN bag[e] - one[e] ELSE bag[e]]
<1>1. DOMAIN one = {elem} /\ one[elem] = 1
  BY DEF SetToBag
<1>2. PICK diff : diff = bag (-) one
  OBVIOUS
<1>3. diff = [e \in {d \in DOMAIN less : less[d] > 0} |-> less[e]]
  BY <1>2 DEF (-)
<1> HIDE DEF one
<1>4. /\ elem \in DOMAIN bag
      /\ \A e \in DOMAIN bag : bag[e] \in Nat /\ bag[e] > 0
  BY DEF IsABag, BagToSet
<1>5. /\ DOMAIN less = DOMAIN bag
      /\ \A e \in DOMAIN bag : less[e] = IF e = elem THEN bag[e] - 1 ELSE bag[e]
  BY <1>1
<1> HIDE DEF less
<1>6. PICK D, E : D = DOMAIN bag /\ E = DOMAIN diff
  OBVIOUS
<1>7. /\ E = {d \in D : less[d] > 0}
      /\ \A e \in E : diff[e] = less[e]
  BY <1>3, <1>5, <1>6
<1>8. E \in SUBSET D /\ D \ {elem} = E \ {elem}
  BY <1>4, <1>5, <1>6, <1>7
<1>9. IsFiniteSet(D) /\ IsFiniteSet(E)
  BY <1>6, <1>8, FS_Subset
<1>10. bag \in [D -> Nat]
  BY <1>6 DEF IsABag
<1>11. diff \in [E -> Nat]
  <2>1. \A e \in E : diff[e] \in Nat
    BY <1>4, <1>5, <1>6, <1>7
  <2>2. diff = [e \in E |-> diff[e]]
    BY <1>3, <1>6
  <2> QED BY <2>1, <2>2
<1>12. /\ \A y \in D \ {elem} : bag[y] = diff[y]
       /\ TermOf(bag, D, elem) = TermOf(diff, E, elem) + 1
       /\ TermOf(diff, E, elem) \in Nat
  BY <1>4, <1>5, <1>6, <1>7, <1>8 DEF TermOf
<1>13. PICK m \in Nat : /\ SumFunction(bag) = TermOf(bag, D, elem) + m
                        /\ SumFunction(diff) = TermOf(diff, E, elem) + m
  BY <1>8, <1>9, <1>10, <1>11, <1>12, SumOneTerm
<1>14. SumFunction(diff) \in Nat /\ SumFunction(bag) = SumFunction(diff) + 1
  BY <1>12, <1>13
<1> QED BY <1>2, <1>6, <1>9, <1>14 DEF one

LEMMA EmptyBagSize ==
    IsFiniteSet(DOMAIN EmptyBag) /\ SumFunction(EmptyBag) = 0
<1>1. PICK e, D : e = EmptyBag /\ D = DOMAIN e
  OBVIOUS
<1>2. e \in [D -> Nat] /\ D = {}
  BY <1>1 DEF EmptyBag, SetToBag
<1>3. IsFiniteSet(D) /\ Cardinality(D) = 0
  BY <1>2, FS_EmptySet
<1>4. PICK h \in [SUBSET D -> Nat] : SumFunction(e) = h[D] /\ AddsUp(h, e, D, Cardinality(D))
  BY <1>2, <1>3, SumFact
<1>5. h[D] = 0
  <2>1. D \in SUBSET D /\ Cardinality(D) <= Cardinality(D)
    BY <1>3
  <2> QED BY <1>2, <1>4, <2>1 DEF AddsUp
<1> QED BY <1>1, <1>3, <1>4, <1>5
==============================================================================
