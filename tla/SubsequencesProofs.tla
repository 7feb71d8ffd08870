------------------------- MODULE SubsequencesProofs -------------------------
(***************************************************************************)
(* What Kept returns, for every sequence.  Its loop is followed by         *)
(* induction; as an induction theorem with a predicate for a parameter     *)
(* cannot be instantiated, the predicate is given as the set of the        *)
(* numbers that satisfy it (SetInduction), and the induction is the        *)
(* absence of a least counterexample (LeastNatural), which follows from    *)
(* the subsets of a finite set being well-founded.                         *)
(***************************************************************************)
EXTENDS Subsequences, Integers, SequencesExt, FiniteSetTheorems, TLAPS

(* A set of naturals that is not empty has a least element: a loop over pages *)
(* or days that must end stops somewhere first (fetchKLineRange).            *)
LEMMA LeastNatural ==
  ASSUME NEW T \in SUBSET Nat, T # {}
  PROVE  \E m \in T : \A k \in T : m <= k
<1> DEFINE F == {0..k : k \in T}
<1>1. \A k \in T : 0..k \in FiniteSubsetsOf(Nat)
  BY FS_Interval DEF FiniteSubsetsOf
<1>2. F \subseteq FiniteSubsetsOf(Nat) /\ F # {}
  BY <1>1
<1>3. IsWellFoundedOn(StrictSubsetOrdering(Nat), FiniteSubsetsOf(Nat))
  BY FS_StrictSubsetOrderingWellFounded
<1> HIDE DEF F
<1>4. PICK x \in F : \A y \in F : ~ (<<y, x>> \in StrictSubsetOrdering(Nat))
  BY <1>2, <1>3, WFMin
<1>5. PICK m \in T : x = 0..m
  BY DEF F
<1>6. ASSUME NEW k \in T, k < m PROVE FALSE
  <2>1. 0..k \in F
    BY DEF F
  <2>2. 0..k # 0..m /\ 0..k \subseteq 0..m /\ 0..m \subseteq Nat
    BY <1>6
  <2>3. <<0..k, 0..m>> \in StrictSubsetOrdering(Nat)
    BY <2>2 DEF StrictSubsetOrdering
  <2>. QED BY <1>4, <1>5, <2>1, <2>3
<1>. QED BY <1>6

(* Induction up to n, for the numbers of a set: what holds before a loop, and *)
(* is kept by each turn, holds after n turns.                                *)
LEMMA SetInduction ==
  ASSUME NEW n \in Nat, NEW T, 0 \in T, \A i \in 0..(n - 1) : i \in T => i + 1 \in T
  PROVE  0..n \subseteq T
<1> DEFINE Missing == (0..n) \ T
<1>1. ASSUME Missing # {} PROVE FALSE
  <2>1. PICK m \in Missing : \A k \in Missing : m <= k
    <3>1. Missing \in SUBSET Nat
      OBVIOUS
    <3> HIDE DEF Missing
    <3>. QED BY <1>1, <3>1, LeastNatural
  <2>2. m # 0
    OBVIOUS
  <2>3. m - 1 \in 0..(n - 1) /\ m - 1 \notin Missing
    BY <2>1, <2>2
  <2>. QED BY <2>2, <2>3
<1>. QED BY <1>1

(* The loop of Kept, turn by turn.                                           *)
KeepsBy(s, places, kept, n) ==
  /\ kept = [i \in 0..n |-> kept[i]] /\ kept[0] = <<>>
  /\ \A i \in 1..n : kept[i] = IF i \in places THEN Append(kept[i - 1], s[i]) ELSE kept[i - 1]

(* Kept is the last of the slices its loop goes through.                     *)
LEMMA KeptLoop ==
  ASSUME NEW s, Len(s) \in Nat, NEW places
  PROVE  \E kept : KeepsBy(s, places, kept, Len(s)) /\ Kept(s, places) = kept[Len(s)]
<1> DEFINE Done == {n \in Nat : \E kept : KeepsBy(s, places, kept, n)}
<1>1. 0..Len(s) \subseteq Done
  <2>1. 0 \in Done
    <3>1. KeepsBy(s, places, [i \in 0..0 |-> <<>>], 0)
      BY DEF KeepsBy
    <3>. QED BY <3>1
  <2>2. ASSUME NEW n \in 0..(Len(s) - 1), n \in Done PROVE n + 1 \in Done
    <3>1. PICK g : KeepsBy(s, places, g, n)
      BY <2>2
    <3> DEFINE h == [i \in 0..(n + 1) |->
                       IF i <= n THEN g[i]
                       ELSE IF i \in places THEN Append(g[i - 1], s[i]) ELSE g[i - 1]]
    <3>2. h = [i \in 0..(n + 1) |-> h[i]] /\ h[0] = <<>>
      BY <3>1 DEF KeepsBy
    <3>3. \A i \in 1..(n + 1) : h[i] = IF i \in places THEN Append(h[i - 1], s[i]) ELSE h[i - 1]
      <4>1. \A i \in 1..(n + 1) : h[i - 1] = g[i - 1]
        OBVIOUS
      <4>2. h[n + 1] = IF n + 1 \in places THEN Append(g[n], s[n + 1]) ELSE g[n]
        OBVIOUS
      <4>3. \A i \in 1..n : h[i] = g[i]
        OBVIOUS
      <4> HIDE DEF h
      <4>. QED BY <3>1, <4>1, <4>2, <4>3 DEF KeepsBy
    <3>4. KeepsBy(s, places, h, n + 1)
      BY <3>2, <3>3 DEF KeepsBy
    <3>. QED BY <3>4
  <2> HIDE DEF Done
  <2>. QED BY <2>1, <2>2, SetInduction
<1>2. PICK kept : KeepsBy(s, places, kept, Len(s))
  BY <1>1
<1> DEFINE Loop(f) == [i \in 0..Len(s) |->
                         IF i = 0 THEN <<>>
                         ELSE IF i \in places THEN Append(f[i - 1], s[i]) ELSE f[i - 1]]
<1>3. kept = Loop(kept)
  <2>1. \A i \in 0..Len(s) : kept[i] = Loop(kept)[i]
    BY <1>2 DEF KeepsBy
  <2>. QED BY <1>2, <2>1 DEF KeepsBy
<1> DEFINE f == CHOOSE g : g = Loop(g)
<1>4. f = Loop(f)
  BY <1>3
<1>5. Kept(s, places) = f[Len(s)]
  BY DEF Kept
<1> HIDE DEF f
<1>6. KeepsBy(s, places, f, Len(s))
  <2>1. f = [i \in 0..Len(s) |-> f[i]] /\ f[0] = <<>>
    BY <1>4
  <2>2. ASSUME NEW i \in 1..Len(s)
        PROVE  f[i] = IF i \in places THEN Append(f[i - 1], s[i]) ELSE f[i - 1]
    <3> DEFINE g == Loop(f)
    <3>1. g[i] = IF i \in places THEN Append(f[i - 1], s[i]) ELSE f[i - 1]
      OBVIOUS
    <3>2. f = g
      BY <1>4
    <3> HIDE DEF g
    <3>. QED BY <3>1, <3>2
  <2>. QED BY <2>1, <2>2 DEF KeepsBy
<1>. QED BY <1>5, <1>6

(* e are the places of s that were kept up to n, in their order.             *)
Enumerates(kept, s, places, n, e) ==
  /\ e \in [1..Len(kept) -> places \cap 1..n]
  /\ Len(kept) <= n
  /\ \A j \in 1..Len(kept) : kept[j] = s[e[j]]
  /\ \A i, j \in 1..Len(kept) : i < j => e[i] < e[j]
  /\ \A i \in places \cap 1..n : \E j \in 1..Len(kept) : e[j] = i

(* The slice that is kept has the elements of s at the places, each once, in *)
(* their order (filterBarsByDate and uniqueNonEmptyHosts).                   *)
LEMMA KeptIs ==
  ASSUME NEW S, NEW s \in Seq(S), NEW places
  PROVE  /\ Kept(s, places) \in Seq(S)
         /\ \E e : Enumerates(Kept(s, places), s, places, Len(s), e)
<1>1. PICK kept : KeepsBy(s, places, kept, Len(s)) /\ Kept(s, places) = kept[Len(s)]
  BY KeptLoop
<1> DEFINE Good == {i \in 0..Len(s) : /\ kept[i] \in Seq(S)
                                      /\ \E e : Enumerates(kept[i], s, places, i, e)}
<1>2. 0 \in Good
  <2>1. Enumerates(<<>>, s, places, 0, [j \in 1..0 |-> 1])
    BY DEF Enumerates
  <2>2. kept[0] = <<>> /\ <<>> \in Seq(S) /\ 0 \in 0..Len(s)
    BY <1>1 DEF KeepsBy
  <2>. QED BY <2>1, <2>2
<1>3. ASSUME NEW n \in 0..(Len(s) - 1), n \in Good PROVE n + 1 \in Good
  <2>1. PICK e : Enumerates(kept[n], s, places, n, e)
    BY <1>3
  <2>2. n + 1 \in 1..Len(s) /\ (n + 1) - 1 = n /\ kept[n] \in Seq(S) /\ s[n + 1] \in S
    BY <1>3
  <2>3. CASE n + 1 \in places
    <3>1. kept[n + 1] = Append(kept[n], s[n + 1])
      BY <1>1, <2>2, <2>3 DEF KeepsBy
    <3>2. kept[n + 1] \in Seq(S) /\ Len(kept[n + 1]) = Len(kept[n]) + 1
      BY <2>2, <3>1
    <3> DEFINE d == [j \in 1..(Len(kept[n]) + 1) |-> IF j <= Len(kept[n]) THEN e[j] ELSE n + 1]
    <3>0. d[Len(kept[n]) + 1] = n + 1 /\ \A j \in 1..Len(kept[n]) : d[j] = e[j]
      BY <2>2
    <3>3. Enumerates(kept[n + 1], s, places, n + 1, d)
      <4>1. d \in [1..Len(kept[n + 1]) -> places \cap 1..(n + 1)]
        BY <2>1, <2>2, <2>3, <3>2 DEF Enumerates
      <4>2. Len(kept[n + 1]) <= n + 1
        BY <2>1, <2>2, <3>2 DEF Enumerates
      <4>3. \A j \in 1..Len(kept[n + 1]) : kept[n + 1][j] = s[d[j]]
        BY <2>1, <2>2, <3>1, <3>2 DEF Enumerates
      <4> HIDE DEF d
      <4>4. ASSUME NEW i \in 1..Len(kept[n + 1]), NEW j \in 1..Len(kept[n + 1]), i < j
            PROVE  d[i] < d[j]
        <5>1. i \in 1..Len(kept[n]) /\ e[i] <= n /\ e[i] \in Nat /\ d[i] = e[i]
          <6>1. i \in 1..Len(kept[n])
            BY <2>2, <3>2, <4>4
          <6>2. e[i] \in places \cap 1..n
            BY <2>1, <6>1 DEF Enumerates
          <6>. QED BY <2>2, <3>0, <6>1, <6>2
        <5>2. CASE j <= Len(kept[n])
          BY <2>1, <3>0, <3>2, <4>4, <5>1, <5>2 DEF Enumerates
        <5>3. CASE j = Len(kept[n]) + 1
          BY <2>2, <3>0, <5>1, <5>3
        <5>. QED BY <2>2, <3>2, <5>2, <5>3
      <4>5. ASSUME NEW i \in places \cap 1..(n + 1)
            PROVE  \E j \in 1..Len(kept[n + 1]) : d[j] = i
        <5>1. CASE i = n + 1
          <6>1. Len(kept[n]) + 1 \in 1..Len(kept[n + 1]) /\ d[Len(kept[n]) + 1] = n + 1
            BY <2>2, <3>0, <3>2
          <6>. QED BY <5>1, <6>1
        <5>2. CASE i # n + 1
          <6>1. PICK j \in 1..Len(kept[n]) : e[j] = i
            BY <2>1, <2>2, <5>2 DEF Enumerates
          <6>2. j \in 1..Len(kept[n + 1]) /\ d[j] = e[j]
            BY <2>2, <3>0, <3>2
          <6>. QED BY <6>1, <6>2
        <5>. QED BY <5>1, <5>2
      <4>. QED BY <4>1, <4>2, <4>3, <4>4, <4>5 DEF Enumerates
    <3>. QED BY <2>2, <3>2, <3>3
  <2>4. CASE n + 1 \notin places
    <3>1. kept[n + 1] = kept[n]
      BY <1>1, <2>2, <2>4 DEF KeepsBy
    <3>2. places \cap 1..(n + 1) = places \cap 1..n
      BY <2>2, <2>4
    <3>3. Enumerates(kept[n + 1], s, places, n + 1, e)
      BY <2>1, <2>2, <3>1, <3>2 DEF Enumerates
    <3>. QED BY <2>2, <3>1, <3>3
  <2>. QED BY <2>3, <2>4
<1>4. Len(s) \in Good
  <2>1. Len(s) \in Nat
    OBVIOUS
  <2> HIDE DEF Good
  <2>2. 0..Len(s) \subseteq Good
    BY <1>2, <1>3, <2>1, SetInduction
  <2>. QED BY <2>1, <2>2
<1>. QED BY <1>1, <1>4

(* What is kept are elements of s, and all those at the places; there are no *)
(* more than s has (filterBarsByDate and uniqueNonEmptyHosts).               *)
LEMMA KeptElements ==
  ASSUME NEW S, NEW s \in Seq(S), NEW places
  PROVE  /\ Kept(s, places) \in Seq(S) /\ Len(Kept(s, places)) <= Len(s)
         /\ ToSet(Kept(s, places)) = {s[i] : i \in places \cap 1..Len(s)}
<1>1. PICK e : Enumerates(Kept(s, places), s, places, Len(s), e)
  BY KeptIs
<1>2. Kept(s, places) \in Seq(S)
  BY KeptIs
<1>3. DOMAIN Kept(s, places) = 1..Len(Kept(s, places))
  BY <1>2
<1>4. \A j \in 1..Len(Kept(s, places)) : e[j] \in places \cap 1..Len(s)
  BY <1>1 DEF Enumerates
<1>5. ToSet(Kept(s, places)) = {Kept(s, places)[j] : j \in 1..Len(Kept(s, places))}
  BY <1>3 DEF ToSet
<1>6. \A j \in 1..Len(Kept(s, places)) : Kept(s, places)[j] = s[e[j]]
  BY <1>1 DEF Enumerates
<1>7. ToSet(Kept(s, places)) \subseteq {s[i] : i \in places \cap 1..Len(s)}
  BY <1>4, <1>5, <1>6
<1>8. ASSUME NEW i \in places \cap 1..Len(s) PROVE s[i] \in ToSet(Kept(s, places))
  <2>1. PICK j \in 1..Len(Kept(s, places)) : e[j] = i
    BY <1>1 DEF Enumerates
  <2>. QED BY <1>5, <1>6, <2>1
<1>9. Len(Kept(s, places)) <= Len(s)
  BY <1>1 DEF Enumerates
<1>. QED BY <1>2, <1>7, <1>8, <1>9

(* The bars that are kept of a slice in the order of time are in that order  *)
(* (filterBarsByDate).                                                       *)
LEMMA KeptAscends ==
  ASSUME NEW s \in Seq(Int), Ascends(s), NEW places
  PROVE  Ascends(Kept(s, places))
<1>1. PICK e : Enumerates(Kept(s, places), s, places, Len(s), e)
  BY KeptIs
<1>2. DOMAIN Kept(s, places) = 1..Len(Kept(s, places)) /\ DOMAIN s = 1..Len(s)
  BY KeptIs
<1>3. \A j \in 1..Len(Kept(s, places)) : e[j] \in 1..Len(s) /\ Kept(s, places)[j] = s[e[j]]
  BY <1>1 DEF Enumerates
<1>. QED BY <1>1, <1>2, <1>3 DEF Enumerates, Ascends

(* Nothing is kept twice when the elements at the places differ from one     *)
(* another, as the hosts do that uniqueNonEmptyHosts takes.                  *)
LEMMA KeptDiffer ==
  ASSUME NEW S, NEW s \in Seq(S), NEW places,
         \A i, j \in places \cap 1..Len(s) : s[i] = s[j] => i = j
  PROVE  \A i, j \in DOMAIN Kept(s, places) : Kept(s, places)[i] = Kept(s, places)[j] => i = j
<1> DEFINE k == Kept(s, places)
<1>1. PICK e : Enumerates(k, s, places, Len(s), e)
  BY KeptIs
<1>2. DOMAIN k = 1..Len(k) /\ Len(k) \in Nat
  BY KeptIs
<1> HIDE DEF k
<1>3. \A j \in 1..Len(k) : e[j] \in places \cap 1..Len(s) /\ k[j] = s[e[j]]
  BY <1>1 DEF Enumerates
<1>4. ASSUME NEW i \in 1..Len(k), NEW j \in 1..Len(k), k[i] = k[j] PROVE i = j
  <2>1. e[i] = e[j] /\ e[i] \in Int
    BY <1>3, <1>4
  <2>2. ~(i < j) /\ ~(j < i)
    BY <1>1, <2>1 DEF Enumerates
  <2>. QED BY <1>2, <2>2
<1>. QED BY <1>2, <1>4 DEF k

(* A slice all of whose elements are kept is returned as it was              *)
(* (filterBarsByDate of bars that are in the range already).                 *)
LEMMA KeptAll ==
  ASSUME NEW S, NEW s \in Seq(S), NEW places, 1..Len(s) \subseteq places
  PROVE  Kept(s, places) = s
<1>1. PICK kept : KeepsBy(s, places, kept, Len(s)) /\ Kept(s, places) = kept[Len(s)]
  BY KeptLoop
<1> DEFINE Same == {i \in 0..Len(s) : kept[i] = SubSeq(s, 1, i)}
<1>2. 0 \in Same
  <2>1. SubSeq(s, 1, 0) = <<>>
    OBVIOUS
  <2>. QED BY <1>1, <2>1 DEF KeepsBy
<1>3. ASSUME NEW n \in 0..(Len(s) - 1), n \in Same PROVE n + 1 \in Same
  <2>1. n + 1 \in 1..Len(s) /\ (n + 1) - 1 = n /\ n + 1 \in places
    OBVIOUS
  <2>2. kept[n + 1] = Append(SubSeq(s, 1, n), s[n + 1])
    BY <1>1, <1>3, <2>1 DEF KeepsBy
  <2>3. Append(SubSeq(s, 1, n), s[n + 1]) = SubSeq(s, 1, n + 1)
    BY <2>1
  <2>. QED BY <2>1, <2>2, <2>3
<1>4. Len(s) \in Same
  <2>1. Len(s) \in Nat
    OBVIOUS
  <2> HIDE DEF Same
  <2>2. 0..Len(s) \subseteq Same
    BY <1>2, <1>3, <2>1, SetInduction
  <2>. QED BY <2>1, <2>2
<1>5. SubSeq(s, 1, Len(s)) = s
  OBVIOUS
<1>. QED BY <1>1, <1>4, <1>5

(* Finitely many days, and one at least, have a latest (previousTradingDay-  *)
(* FromBars).                                                                *)
LEMMA GreatestOfFinite ==
  ASSUME NEW T \in SUBSET Nat, IsFiniteSet(T), T # {}
  PROVE  \E m \in T : \A k \in T : k <= m
<1> DEFINE Bad == {U \in SUBSET T : U # {} /\ ~ \E m \in U : \A k \in U : k <= m}
<1>1. ASSUME Bad # {} PROVE FALSE
  <2>1. Bad \subseteq FiniteSubsetsOf(Nat)
    BY FS_Subset DEF FiniteSubsetsOf
  <2>2. PICK U \in Bad : \A V \in Bad : ~ (<<V, U>> \in StrictSubsetOrdering(Nat))
    <3> HIDE DEF Bad
    <3>. QED BY <1>1, <2>1, FS_StrictSubsetOrderingWellFounded, WFMin
  <2>3. PICK x \in U : TRUE
    OBVIOUS
  <2> DEFINE V == U \ {x}
  <2>4. V \subseteq U /\ V # U /\ V \in SUBSET Nat /\ U \in SUBSET Nat
    BY <2>3
  <2>5. V \notin Bad
    BY <2>2, <2>4 DEF StrictSubsetOrdering
  <2>6. CASE V = {}
    <3>1. \A k \in U : k <= x
      BY <2>3, <2>6
    <3>. QED BY <2>3, <3>1
  <2>7. CASE V # {}
    <3>1. PICK m \in V : \A k \in V : k <= m
      BY <2>4, <2>5, <2>7
    <3>2. \A k \in U : k <= x \/ k <= m
      BY <2>3, <2>4, <3>1
    <3>3. m \in U /\ m \in Nat /\ x \in Nat
      BY <2>3, <2>4, <3>1
    <3>4. (x <= m => \A k \in U : k <= m) /\ (m <= x => \A k \in U : k <= x)
      BY <2>3, <2>4, <3>1, <3>3
    <3>. QED BY <2>3, <3>3, <3>4
  <2>. QED BY <2>6, <2>7
<1>. QED BY <1>1
=============================================================================
