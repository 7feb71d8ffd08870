----------------------------- MODULE KLineProofs -----------------------------
(***************************************************************************)
(* Proofs about getBars (KLine): what it answers is in order and inside    *)
(* the range that was asked for (AnswersAscend), a range is answered       *)
(* without a long hole (HolesAreShort), and bars of one key are loaded by  *)
(* one caller at a time (OneLoadPerKey).                                   *)
(*                                                                         *)
(* The first part is about the functions that getBars is made of: what     *)
(* they return for sorted bars.  The second shows that all bars that are   *)
(* held, cached or being loaded are sorted and in their range (BarsInv);   *)
(* the third, that those of a whole range leave none of its days in a long *)
(* hole, other than in a gap that is about to be filled (HolesInv).        *)
(***************************************************************************)
EXTENDS KLine, CallGroupProofs, SubsequencesProofs

-----------------------------------------------------------------------------
(* Bars                                                                      *)

Day == 1..Max(Trading)

(* A sequence over a set is one over a larger set.                           *)
LEMMA SeqWithin ==
  ASSUME NEW S, NEW T, S \subseteq T, NEW s \in Seq(S)
  PROVE  s \in Seq(T)
  OBVIOUS

(* The days that trade are days, and there is a last one.                    *)
LEMMA Days == Max(Trading) \in Trading /\ Trading \subseteq Day /\ Day \subseteq Nat \ {0}
<1>1. Trading \in SUBSET Nat /\ Trading # {} /\ IsFiniteSet(Trading)
  BY KLineAssumption
<1>2. PICK m \in Trading : \A d \in Trading : d <= m
  BY <1>1, GreatestOfFinite
<1> DEFINE Top(x) == \A y \in Trading : x >= y
<1>3. \E x \in Trading : Top(x)
  BY <1>1, <1>2
<1>4. Max(Trading) = CHOOSE x \in Trading : Top(x)
  BY DEF Max
<1> HIDE DEF Top
<1>5. Max(Trading) \in Trading /\ Top(Max(Trading))
  BY <1>3, <1>4
<1>. QED BY <1>1, <1>5, KLineAssumption DEF Top, Day

(* A slice of bars, oldest first.                                            *)
Sorted(bars) == bars \in Seq(Day) /\ Ascends(bars)

(* The bars of some days are theirs, oldest first (MemoryStore.PutBars).     *)
LEMMA BarsAre ==
  ASSUME NEW days
  PROVE  Sorted(Bars(days)) /\ ToSet(Bars(days)) = days \cap Day
<1> DEFINE all == [d \in 1..Max(Trading) |-> d]
<1>1. Max(Trading) \in Nat /\ Day \subseteq Int
  BY Days DEF Day
<1>2. all \in Seq(Day) /\ Len(all) = Max(Trading) /\ \A d \in Day : all[d] = d
  BY <1>1 DEF Day
<1>3. all \in Seq(Int) /\ Ascends(all)
  BY <1>1, <1>2 DEF Ascends, Day
<1>4. Bars(days) = Kept(all, days)
  BY DEF Bars
<1> HIDE DEF all
<1>5. Bars(days) \in Seq(Day) /\ ToSet(Bars(days)) = {all[d] : d \in days \cap 1..Len(all)}
  BY <1>2, <1>4, KeptElements
<1>6. {all[d] : d \in days \cap 1..Len(all)} = days \cap Day
  <2>1. \A d \in days \cap Day : d \in 1..Len(all) /\ all[d] = d
    BY <1>2 DEF Day
  <2>2. 1..Len(all) = Day
    BY <1>2 DEF Day
  <2>. QED BY <2>1, <2>2
<1>. QED BY <1>3, <1>4, <1>5, <1>6, KeptAscends DEF Sorted

(* The bars of a range are those inside it, in their order                   *)
(* (filterBarsByDate).                                                       *)
LEMMA InRangeIs ==
  ASSUME NEW bars, Sorted(bars), NEW q
  PROVE  /\ Sorted(InRange(bars, q))
         /\ ToSet(InRange(bars, q)) = {d \in ToSet(bars) : Inside(d, q)}
         /\ (\A i \in DOMAIN bars : Inside(bars[i], q)) => InRange(bars, q) = bars
<1> DEFINE places == {i \in DOMAIN bars : Inside(bars[i], q)}
<1>1. InRange(bars, q) = Kept(bars, places)
  BY DEF InRange
<1>2. bars \in Seq(Day) /\ Ascends(bars) /\ DOMAIN bars = 1..Len(bars) /\ Day \subseteq Int
  BY Days DEF Sorted
<1>3. bars \in Seq(Int)
  BY <1>2, SeqWithin
<1>4. {bars[i] : i \in places \cap 1..Len(bars)} = {d \in ToSet(bars) : Inside(d, q)}
  BY <1>2 DEF ToSet
<1>5. ASSUME \A i \in DOMAIN bars : Inside(bars[i], q) PROVE 1..Len(bars) \subseteq places
  BY <1>2, <1>5
<1> HIDE DEF places
<1>6. Sorted(Kept(bars, places))
  BY <1>2, <1>3, KeptElements, KeptAscends DEF Sorted
<1>7. ToSet(Kept(bars, places)) = {bars[i] : i \in places \cap 1..Len(bars)}
  BY <1>2, KeptElements
<1>8. 1..Len(bars) \subseteq places => Kept(bars, places) = bars
  BY <1>2, KeptAll
<1>. QED BY <1>1, <1>4, <1>5, <1>6, <1>7, <1>8

(* A part of a slice.                                                        *)
LEMMA PartIs ==
  ASSUME NEW bars, Sorted(bars), NEW m \in Nat \ {0}, NEW n \in Int, n <= Len(bars)
  PROVE  /\ Sorted(SubSeq(bars, m, n))
         /\ ToSet(SubSeq(bars, m, n)) = {bars[i] : i \in m..n}
         /\ Len(SubSeq(bars, m, n)) = IF m <= n THEN n - m + 1 ELSE 0
         /\ m <= n => SubSeq(bars, m, n)[1] = bars[m]
<1> DEFINE part == SubSeq(bars, m, n)
<1>1. bars \in Seq(Day) /\ DOMAIN bars = 1..Len(bars) /\ Len(bars) \in Nat
  BY DEF Sorted
<1>2. CASE m <= n
  <2>0. m \in 1..Len(bars) /\ n \in 1..Len(bars) /\ n - m + 1 \in Nat
    BY <1>1, <1>2
  <2>1. /\ part \in Seq(Day) /\ Len(part) = n - m + 1
        /\ \A i \in 1..(n - m + 1) : part[i] = bars[m + i - 1]
    BY <1>1, <1>2, <2>0
  <2>2. DOMAIN part = 1..(n - m + 1)
    BY <2>1
  <2> HIDE DEF part
  <2>3. ASSUME NEW i \in DOMAIN part, NEW j \in DOMAIN part, i < j PROVE part[i] < part[j]
    <3>1. m + i - 1 \in DOMAIN bars /\ m + j - 1 \in DOMAIN bars /\ m + i - 1 < m + j - 1
      BY <1>1, <2>0, <2>2, <2>3
    <3>2. part[i] = bars[m + i - 1] /\ part[j] = bars[m + j - 1]
      BY <2>1, <2>2
    <3>. QED BY <3>1, <3>2 DEF Ascends, Sorted
  <2>4. ToSet(part) = {bars[i] : i \in m..n}
    <3>1. ASSUME NEW i \in m..n PROVE \E j \in DOMAIN part : part[j] = bars[i]
      <4>1. i - m + 1 \in DOMAIN part /\ part[i - m + 1] = bars[i]
        BY <1>2, <2>1, <2>2
      <4>. QED BY <4>1
    <3>2. ASSUME NEW j \in DOMAIN part PROVE \E i \in m..n : part[j] = bars[i]
      <4>1. m + j - 1 \in m..n /\ part[j] = bars[m + j - 1]
        BY <1>2, <2>1, <2>2
      <4>. QED BY <4>1
    <3>. QED BY <3>1, <3>2 DEF ToSet
  <2>5. part[1] = bars[m]
    <3>1. 1 \in 1..(n - m + 1) /\ m + 1 - 1 = m
      BY <1>2, <2>0
    <3>. QED BY <2>1, <3>1
  <2>. QED BY <1>2, <2>1, <2>3, <2>4, <2>5 DEF Sorted, Ascends, part
<1>3. CASE ~(m <= n)
  <2>1. part = <<>>
    BY <1>1, <1>3
  <2>2. m..n = {} /\ Len(part) = 0 /\ DOMAIN part = {} /\ part \in Seq(Day)
    BY <1>3, <2>1
  <2>. QED BY <1>3, <2>2 DEF Sorted, Ascends, ToSet
<1>. QED BY <1>2, <1>3

-----------------------------------------------------------------------------
(* The upstream                                                              *)

(* The newest bars but some are the last of those that remain                *)
(* (fetchKLinePage).                                                         *)
LEMMA NewestIs ==
  ASSUME NEW all, Sorted(all), NEW skip \in Nat, NEW count \in Nat
  PROVE  LET got == Newest(all, skip, count)
             n == Len(all) - skip
         IN  /\ Sorted(got) /\ ToSet(got) \subseteq ToSet(all)
             /\ Len(got) = IF n <= 0 THEN 0 ELSE IF count < n THEN count ELSE n
             /\ \A i \in DOMAIN all : i <= n /\ n - count < i => all[i] \in ToSet(got)
             /\ 0 < count /\ count < n => got[1] = all[n - count + 1]
<1> DEFINE n == Len(all) - skip
           m == IF count < n THEN n - count + 1 ELSE 1
           got == Newest(all, skip, count)
<1>1. Len(all) \in Nat /\ DOMAIN all = 1..Len(all)
  BY DEF Sorted
<1>2. n \in Int /\ n <= Len(all) /\ m \in Nat \ {0} /\ got = SubSeq(all, m, n)
  BY <1>1 DEF Newest
<1>3. m..n \subseteq DOMAIN all
  BY <1>1, <1>2
<1>4. Len(got) = (IF n <= 0 THEN 0 ELSE IF count < n THEN count ELSE n)
  <2>1. m \in Nat \ {0} /\ n \in Int /\ n <= Len(all) /\ got = SubSeq(all, m, n)
    BY <1>2
  <2>2. m = IF count < n THEN n - count + 1 ELSE 1
    OBVIOUS
  <2> HIDE DEF m, n, got
  <2>3. Len(got) = IF m <= n THEN n - m + 1 ELSE 0
    BY <2>1, PartIs
  <2>. QED BY <2>1, <2>2, <2>3
<1>5. Sorted(got) /\ ToSet(got) = {all[i] : i \in m..n} /\ (m <= n => got[1] = all[m])
  <2>1. m \in Nat \ {0} /\ n \in Int /\ n <= Len(all) /\ got = SubSeq(all, m, n)
    BY <1>2
  <2> HIDE DEF m, n, got
  <2>. QED BY <2>1, PartIs
<1>6. \A i \in m..n : all[i] \in ToSet(all)
  BY <1>3 DEF ToSet
<1>7. \A i \in DOMAIN all : i <= n /\ n - count < i => i \in m..n
  BY <1>1, <1>2
<1>8. 0 < count /\ count < n => m <= n /\ m = n - count + 1
  BY <1>2
<1> HIDE DEF m, got
<1>. QED BY <1>4, <1>5, <1>6, <1>7, <1>8 DEF got

(* What a range of dates fetches is sorted, and has all bars from the date   *)
(* on at which it stops: it goes on until it has an older bar, or all.       *)
LEMMA FetchRangeIs ==
  ASSUME NEW all, Sorted(all), NEW stop \in Nat
  PROVE  LET got == FetchRange(all, stop)
         IN  /\ Sorted(got) /\ ToSet(got) \subseteq ToSet(all)
             /\ \A d \in ToSet(all) : d >= stop => d \in ToSet(got)
<1> DEFINE Pages(k) == Newest(all, 0, k * MaxPage)
           Enough(k) == Len(Pages(k)) < k * MaxPage \/ ~After(Pages(k)[1], stop)
           First(k) == Enough(k) /\ \A j \in 1..k - 1 : ~Enough(j)
           k == CHOOSE i \in 1..Len(all) + 1 : First(i)
<1>1. Len(all) \in Nat /\ MaxPage \in Nat \ {0} /\ DOMAIN all = 1..Len(all)
  BY KLineAssumption DEF Sorted
<1>2. \A i \in Nat \ {0} : i * MaxPage \in Nat /\ i <= i * MaxPage
  BY <1>1
<1>3. \E i \in 1..Len(all) + 1 : First(i)
  <2> DEFINE T == {i \in 1..Len(all) + 1 : Enough(i)}
  <2>1. Len(all) + 1 \in T
    <3>1. Len(all) + 1 \in Nat \ {0} /\ (Len(all) + 1) * MaxPage \in Nat
          /\ Len(all) + 1 <= (Len(all) + 1) * MaxPage
      BY <1>1, <1>2
    <3>2. Len(Pages(Len(all) + 1)) <= Len(all)
      BY <1>1, <3>1, NewestIs
    <3>3. Len(Pages(Len(all) + 1)) \in Nat
      BY <3>1, NewestIs DEF Sorted
    <3>. QED BY <1>1, <3>1, <3>2, <3>3
  <2> HIDE DEF Enough
  <2>2. T \in SUBSET Nat
    BY <1>1
  <2> HIDE DEF T
  <2>3. PICK m \in T : \A j \in T : m <= j
    BY <2>1, <2>2, LeastNatural
  <2>4. m \in 1..Len(all) + 1 /\ Enough(m) /\ \A j \in 1..m - 1 : ~Enough(j)
    BY <1>1, <2>2, <2>3 DEF T
  <2>. QED BY <2>4
<1>4. FetchRange(all, stop) = Pages(k)
  BY DEF FetchRange
<1>5. k \in 1..Len(all) + 1 /\ Enough(k)
  <2> HIDE DEF Enough
  <2>. QED BY <1>3
<1> HIDE DEF k
<1>6. k \in Nat \ {0} /\ k * MaxPage \in Nat \ {0}
  BY <1>1, <1>2, <1>5
<1> DEFINE got == Pages(k)
           count == k * MaxPage
           n == Len(all) - 0
<1>7. /\ Sorted(got) /\ ToSet(got) \subseteq ToSet(all)
      /\ Len(got) = IF n <= 0 THEN 0 ELSE IF count < n THEN count ELSE n
      /\ \A i \in DOMAIN all : i <= n /\ n - count < i => all[i] \in ToSet(got)
      /\ 0 < count /\ count < n => got[1] = all[n - count + 1]
  BY <1>6, NewestIs
<1>8. n = Len(all)
  BY <1>1
<1>9. Len(got) < count \/ ~After(got[1], stop)
  BY <1>5
<1> HIDE DEF got, count, n
<1>10. ASSUME NEW d \in ToSet(all), d >= stop PROVE d \in ToSet(got)
  <2>1. PICK i \in DOMAIN all : all[i] = d
    BY DEF ToSet
  <2>2. CASE n - count < i
    BY <1>1, <1>6, <1>7, <1>8, <2>1, <2>2 DEF count
  <2>3. CASE ~(n - count < i)
    <3>1. count \in Nat \ {0} /\ i \in 1..Len(all) /\ i <= n - count
      BY <1>1, <1>6, <1>8, <2>3 DEF count
    <3>2. count < n /\ Len(got) = count /\ got[1] = all[n - count + 1]
      <4>1. n \in Nat /\ count \in Nat /\ 0 < count /\ count < n /\ ~(n <= 0)
        BY <1>1, <1>8, <3>1
      <4>2. (IF n <= 0 THEN 0 ELSE IF count < n THEN count ELSE n) = count
        BY <4>1
      <4>. QED BY <1>7, <4>1, <4>2
    <3>3. all[i] < got[1]
      BY <1>1, <1>8, <3>1, <3>2 DEF Sorted, Ascends
    <3>4. d \in Nat /\ got[1] \in Nat
      <4>1. n - count + 1 \in 1..Len(all)
        BY <1>1, <1>8, <3>1
      <4>2. \A j \in 1..Len(all) : all[j] \in Day
        BY DEF Sorted
      <4>. QED BY <2>1, <3>1, <3>2, <4>1, <4>2, Days
    <3>. QED BY <1>9, <1>10, <2>1, <3>1, <3>2, <3>3, <3>4 DEF After
  <2>. QED BY <2>2, <2>3
<1>. QED BY <1>4, <1>7, <1>10 DEF got

(* Of a page there is one (fetchKLinePage).                                  *)
LEMMA OnePage ==
  ASSUME NEW all, NEW start \in Nat, NEW count \in 1..MaxPage
  PROVE  FetchPages(all, start, count) = Newest(all, start, count)
<1> DEFINE Pages == (count + MaxPage - 1) \div MaxPage
           Size(i) == IF i < Pages THEN MaxPage ELSE count - (Pages - 1) * MaxPage
           pages == [i \in 1..Pages |-> Newest(all, start + (i - 1) * MaxPage, Size(i))]
<1>1. MaxPage \in Nat \ {0} /\ count \in Nat \ {0}
  BY KLineAssumption
<1>2. Pages = 1
  <2>1. count + MaxPage - 1 \in Nat /\ Pages \in Nat
    BY <1>1
  <2>2. MaxPage * Pages <= count + MaxPage - 1 /\ count + MaxPage - 1 < MaxPage * (Pages + 1)
    BY <1>1
  <2> HIDE DEF Pages
  <2>3. ASSUME Pages >= 2 PROVE FALSE
    <3>1. MaxPage * Pages >= MaxPage * 2
      BY <1>1, <2>1, <2>3
    <3>2. MaxPage * 2 = MaxPage + MaxPage /\ MaxPage * Pages \in Int
      BY <1>1, <2>1
    <3>3. count + MaxPage - 1 < MaxPage + MaxPage /\ count + MaxPage - 1 \in Int
      BY <1>1
    <3> DEFINE fetched == MaxPage * Pages
    <3>4. fetched \in Int /\ fetched >= MaxPage + MaxPage /\ fetched <= count + MaxPage - 1
      BY <2>2, <3>1, <3>2
    <3> HIDE DEF fetched
    <3>. QED BY <1>1, <3>3, <3>4
  <2>4. ASSUME Pages = 0 PROVE FALSE
    BY <1>1, <2>2, <2>4
  <2>. QED BY <2>1, <2>3, <2>4
<1> HIDE DEF Pages
<1>3. Size(1) = count /\ start + (1 - 1) * MaxPage = start
  <2>1. (1 - 1) * MaxPage = 0 /\ (Pages - 1) * MaxPage = 0 /\ ~(1 < Pages)
    BY <1>1, <1>2
  <2>. QED BY <1>1, <2>1
<1>4. pages = [i \in 1..1 |-> Newest(all, start, count)]
  <2>1. \A i \in 1..1 : Newest(all, start + (i - 1) * MaxPage, Size(i)) = Newest(all, start, count)
    BY <1>3
  <2>. QED BY <1>2, <2>1
<1>5. FetchPages(all, start, count) = FlattenSeq(pages)
  BY DEF FetchPages, Pages
<1> HIDE DEF pages
<1>6. FlattenSeq(pages) = Newest(all, start, count)
  <2> DEFINE Loop(f) == [i \in 1..Len(pages) |-> IF i = 1 THEN pages[i] ELSE f[i - 1] \o pages[i]]
             flat == CHOOSE f : f = Loop(f)
  <2>1. Len(pages) = 1 /\ pages[1] = Newest(all, start, count)
    BY <1>4
  <2>2. FlattenSeq(pages) = flat[1]
    BY <2>1 DEF FlattenSeq
  <2>3. \E f : f = Loop(f)
    <3> DEFINE f == [i \in 1..1 |-> pages[1]]
    <3>1. f = Loop(f)
      BY <2>1
    <3>. QED BY <3>1
  <2>4. flat = Loop(flat)
    BY <2>3
  <2> HIDE DEF flat
  <2> DEFINE g == Loop(flat)
  <2>5. g[1] = pages[1]
    BY <2>1
  <2>6. flat = g
    BY <2>4
  <2> HIDE DEF g
  <2>. QED BY <2>1, <2>2, <2>5, <2>6
<1>. QED BY <1>5, <1>6

(* The fields of a request or of a key, and of a gap that is asked for.      *)
IsRequest(q) == {q.start, q.count, q.from, q.to} \subseteq Nat

(* A slice by start and count is a part, and everything when there are none  *)
(* (sliceBarsByStartCount).                                                  *)
LEMMA SliceIs ==
  ASSUME NEW bars, Sorted(bars), NEW q, IsRequest(q)
  PROVE  /\ Sorted(Slice(bars, q)) /\ ToSet(Slice(bars, q)) \subseteq ToSet(bars)
         /\ q.start = 0 /\ q.count = 0 => Slice(bars, q) = bars
<1> DEFINE n == Len(bars)
           first == q.start + 1
           m == IF q.count = 0 \/ q.start + q.count > n THEN n ELSE q.start + q.count
<1>1. bars \in Seq(Day) /\ n \in Nat /\ DOMAIN bars = 1..n /\ q.start \in Nat /\ q.count \in Nat
  BY DEF Sorted, IsRequest
<1>2. Slice(bars, q) = SubSeq(bars, first, m)
  BY DEF Slice
<1>3. first \in Nat \ {0} /\ m \in Int /\ m <= n
  BY <1>1
<1>4. q.start = 0 /\ q.count = 0 => m = n /\ first = 1 /\ SubSeq(bars, 1, n) = bars
  BY <1>1
<1> HIDE DEF m, first
<1>5. /\ Sorted(SubSeq(bars, first, m))
      /\ ToSet(SubSeq(bars, first, m)) = {bars[i] : i \in first..m}
  BY <1>3, PartIs
<1>6. \A i \in first..m : bars[i] \in ToSet(bars)
  <2>1. first..m \subseteq 1..n
    BY <1>1, <1>3
  <2>. QED BY <1>1, <2>1 DEF ToSet
<1>. QED BY <1>2, <1>4, <1>5, <1>6

(* Requests that AnswersAscend is about: with both dates, or for one page.   *)
Bounded(q) == Ranged(q) \/ q.count \in 1..MaxPage

(* Requests that HolesAreShort is about: for all the bars of a range.        *)
Whole(q) == Ranged(q) /\ q.start = 0 /\ q.count = 0

(* Bars that may be answered to a request.                                   *)
Good(bars, q) == Sorted(bars) /\ \A d \in ToSet(bars) : Inside(d, q)

(* The bars in a range, and a slice of them, may be answered.                *)
LEMMA InRangeIsGood ==
  ASSUME NEW bars, Sorted(bars), NEW q, IsRequest(q)
  PROVE  Good(InRange(bars, q), q) /\ Good(Slice(InRange(bars, q), q), q)
<1>1. Good(InRange(bars, q), q)
  BY InRangeIs DEF Good
<1>2. Sorted(InRange(bars, q))
  BY InRangeIs
<1>. QED BY <1>1, <1>2, SliceIs DEF Good

(* What the provider answers is sorted and in the range, and to a request    *)
(* for a whole range it is all that the upstream has (Provider.getBars).     *)
LEMMA FetchIs ==
  ASSUME NEW all, Sorted(all), NEW q, IsRequest(q), Bounded(q)
  PROVE  /\ Good(Fetch(all, q), q)
         /\ Whole(q) => \A d \in ToSet(all) : Inside(d, q) => d \in ToSet(Fetch(all, q))
<1> DEFINE items == IF q.from = 0 /\ q.to = 0
                      THEN FetchPages(all, q.start, IF q.count = 0 THEN DefaultCount ELSE q.count)
                      ELSE FetchRange(all, IF q.from = 0 THEN q.to ELSE q.from)
<1>1. Fetch(all, q) = Slice(InRange(items, q), q)
  BY DEF Fetch
<1>2. q.start \in Nat /\ q.count \in Nat /\ q.from \in Nat /\ q.to \in Nat
  BY DEF IsRequest
<1>3. CASE q.from = 0 /\ q.to = 0
  <2>1. q.count \in 1..MaxPage /\ q.count # 0
    BY <1>3, KLineAssumption DEF Bounded, Ranged
  <2>2. items = Newest(all, q.start, q.count)
    BY <1>2, <1>3, <2>1, OnePage
  <2> HIDE DEF items
  <2>3. Sorted(items)
    BY <1>2, <2>2, NewestIs
  <2>. QED BY <1>1, <1>3, <2>3, InRangeIsGood DEF Whole, Ranged
<1>4. CASE ~(q.from = 0 /\ q.to = 0)
  <2> DEFINE stop == IF q.from = 0 THEN q.to ELSE q.from
  <2>1. items = FetchRange(all, stop) /\ stop \in Nat
    BY <1>2, <1>4
  <2>2. Whole(q) => stop = q.from /\ q.from # 0
    BY DEF Whole, Ranged
  <2> HIDE DEF items, stop
  <2>3. Sorted(items) /\ \A d \in ToSet(all) : d >= stop => d \in ToSet(items)
    BY <2>1, FetchRangeIs
  <2>4. Good(Fetch(all, q), q)
    BY <1>1, <2>3, InRangeIsGood
  <2>5. ASSUME Whole(q), NEW d \in ToSet(all), Inside(d, q) PROVE d \in ToSet(Fetch(all, q))
    <3>1. d \in ToSet(items)
      BY <2>2, <2>3, <2>5 DEF Inside
    <3>2. d \in ToSet(InRange(items, q)) /\ Sorted(InRange(items, q))
      BY <2>3, <2>5, <3>1, InRangeIs
    <3>3. Fetch(all, q) = InRange(items, q)
      BY <1>1, <2>5, <3>2, SliceIs DEF Whole
    <3>. QED BY <3>2, <3>3
  <2>. QED BY <2>4, <2>5
<1>. QED BY <1>3, <1>4

(* Whether a day is close to one of some days.                               *)
Near(d, days) == \E a \in days : a - d \in -MaxGap..MaxGap

(* The gaps that are found are dates; the day after one has a bar, unless it *)
(* is the end of the range; and a day of the range is in a gap or close to a *)
(* bar (barGapsForRequest).                                                  *)
LEMMA GapsAre ==
  ASSUME NEW bars, Sorted(bars), NEW q, IsRequest(q), Ranged(q)
  PROVE  LET in == InRange(bars, q)
             found == BarGaps(bars, q)
         IN  /\ \A g \in found :
                  /\ g = Gap(g.from, g.to) /\ g.from \in Nat \ {0} /\ g.to \in Nat \ {0}
                  /\ g.to = q.to \/ g.to + 1 \in ToSet(in)
             /\ \A d \in Nat :
                  Inside(d, q) => \/ Near(d, ToSet(in))
                                  \/ \E g \in found : g.from <= d /\ d <= g.to
<1> DEFINE in == InRange(bars, q)
           n == Len(in)
           found == BarGaps(bars, q)
           Holes == {i \in 1..n - 1 : in[i + 1] - in[i] > MaxGap}
<1>1. /\ q.from \in Nat \ {0} /\ q.to \in Nat \ {0} /\ MaxGap \in Nat \ {0}
      /\ q.from # 0 /\ q.to # 0
  BY KLineAssumption DEF IsRequest, Ranged
<1>2. Sorted(in) /\ \A d \in ToSet(in) : Inside(d, q)
  BY InRangeIs
<1>3. found = IF q.to < q.from THEN {}
              ELSE IF in = <<>> THEN {Gap(q.from, q.to)}
              ELSE (IF in[1] > q.from THEN {Gap(q.from, in[1] - 1)} ELSE {})
                   \cup {Gap(in[i] + 1, in[i + 1] - 1) : i \in Holes}
                   \cup (IF q.to - in[n] > MaxGap THEN {Gap(in[n] + 1, q.to)} ELSE {})
  BY DEF BarGaps
<1> HIDE DEF in, found
<1>4. /\ n \in Nat /\ DOMAIN in = 1..n /\ (in # <<>> => n # 0)
      /\ \A i \in 1..n : in[i] \in Nat /\ in[i] # 0 /\ in[i] \in ToSet(in) /\ in[i] >= q.from
      /\ \A i, j \in 1..n : i < j => in[i] < in[j]
  <2>1. n \in Nat /\ DOMAIN in = 1..n /\ (in # <<>> => n # 0)
    BY <1>2 DEF Sorted
  <2>2. \A i \in 1..n : in[i] \in Day /\ in[i] \in ToSet(in)
    BY <1>2, <2>1 DEF Sorted, ToSet
  <2>3. \A i \in 1..n : in[i] >= q.from
    BY <1>1, <1>2, <2>2 DEF Inside
  <2>. QED BY <1>2, <2>1, <2>2, <2>3, Days DEF Sorted, Ascends
<1>5. \A i \in 1..n : in[i] <= q.to
  BY <1>1, <1>2, <1>4 DEF Inside, After
<1>6. ASSUME NEW g \in found
      PROVE  /\ g = Gap(g.from, g.to) /\ g.from \in Nat \ {0} /\ g.to \in Nat \ {0}
             /\ g.to = q.to \/ g.to + 1 \in ToSet(in)
  <2>1. CASE g = Gap(q.from, q.to)
    BY <1>1, <2>1 DEF Gap
  <2>2. CASE n # 0 /\ in[1] > q.from /\ g = Gap(q.from, in[1] - 1)
    <3>1. in[1] \in Nat /\ in[1] \in ToSet(in) /\ in[1] - 1 \in Nat \ {0} /\ in[1] - 1 + 1 = in[1]
      BY <1>1, <1>4, <2>2
    <3>. QED BY <1>1, <2>2, <3>1 DEF Gap
  <2>3. CASE \E i \in Holes : g = Gap(in[i] + 1, in[i + 1] - 1)
    <3>1. PICK i \in Holes : g = Gap(in[i] + 1, in[i + 1] - 1)
      BY <2>3
    <3>2. i \in 1..n /\ i + 1 \in 1..n /\ in[i] < in[i + 1]
      BY <1>4
    <3>3. /\ in[i] + 1 \in Nat \ {0} /\ in[i + 1] \in ToSet(in)
          /\ in[i + 1] - 1 \in Nat \ {0} /\ in[i + 1] - 1 + 1 = in[i + 1]
      BY <1>4, <3>2
    <3>. QED BY <3>1, <3>3 DEF Gap
  <2>4. CASE n # 0 /\ g = Gap(in[n] + 1, q.to)
    <3>1. in[n] + 1 \in Nat \ {0}
      BY <1>4, <2>4
    <3>. QED BY <1>1, <2>4, <3>1 DEF Gap
  <2>. QED BY <1>3, <1>4, <2>1, <2>2, <2>3, <2>4
<1>7. ASSUME NEW d \in Nat, Inside(d, q)
      PROVE  Near(d, ToSet(in)) \/ \E g \in found : g.from <= d /\ d <= g.to
  <2>1. q.from <= d /\ d <= q.to /\ ~(q.to < q.from)
    BY <1>1, <1>7 DEF Inside, After
  <2>2. CASE in = <<>>
    <3>1. Gap(q.from, q.to) \in found
      BY <1>3, <2>1, <2>2
    <3>. QED BY <2>1, <3>1 DEF Gap
  <2>3. CASE in # <<>> /\ d < in[1]
    <3>1. n # 0 /\ in[1] \in Nat /\ in[1] > q.from
      BY <1>1, <1>4, <2>1, <2>3
    <3>2. Gap(q.from, in[1] - 1) \in found
      BY <1>3, <2>1, <2>3, <3>1
    <3>3. d <= in[1] - 1
      BY <2>3, <3>1
    <3>. QED BY <2>1, <3>2, <3>3 DEF Gap
  <2>4. CASE in # <<>> /\ in[n] <= d
    <3>1. n \in 1..n /\ in[n] \in Nat /\ in[n] \in ToSet(in)
      BY <1>4, <2>4
    <3>2. CASE q.to - in[n] > MaxGap /\ d # in[n]
      <4>1. Gap(in[n] + 1, q.to) \in found
        BY <1>3, <2>1, <2>4, <3>2
      <4>2. in[n] + 1 <= d
        BY <2>4, <3>1, <3>2
      <4>. QED BY <2>1, <4>1, <4>2 DEF Gap
    <3>3. CASE ~(q.to - in[n] > MaxGap) \/ d = in[n]
      <4>1. in[n] - d \in -MaxGap..MaxGap
        BY <1>1, <2>1, <2>4, <3>1, <3>3
      <4>. QED BY <3>1, <4>1 DEF Near
    <3>. QED BY <3>2, <3>3
  <2>5. CASE in # <<>> /\ ~(d < in[1]) /\ ~(in[n] <= d)
    <3> DEFINE T == {j \in 1..n : d < in[j]}
    <3>1. T \in SUBSET Nat /\ n \in T
      <4>1. n \in 1..n /\ in[n] \in Nat
        BY <1>4, <2>5
      <4>. QED BY <2>5, <4>1
    <3> HIDE DEF T
    <3>2. PICK j \in T : \A i \in T : j <= i
      BY <3>1, LeastNatural
    <3> DEFINE i == j - 1
    <3>3. /\ j \in 1..n /\ d < in[j] /\ j # 1
      BY <2>5, <3>2 DEF T
    <3>4. i \in 1..n /\ i \in 1..n - 1 /\ i + 1 = j /\ i < j
      BY <1>4, <3>3
    <3>5. ~(d < in[i])
      BY <3>2, <3>3, <3>4 DEF T
    <3>6. in[i] \in Nat /\ in[j] \in Nat /\ in[i] \in ToSet(in) /\ in[i] <= d
      BY <1>4, <3>3, <3>4, <3>5
    <3> HIDE DEF i
    <3>7. CASE in[j] - in[i] > MaxGap /\ d # in[i]
      <4>1. i \in Holes
        BY <3>4, <3>7
      <4>2. Gap(in[i] + 1, in[j] - 1) \in found
        BY <1>3, <2>1, <2>5, <3>4, <4>1
      <4>3. in[i] + 1 <= d /\ d <= in[j] - 1
        BY <3>3, <3>6, <3>7
      <4>. QED BY <4>2, <4>3 DEF Gap
    <3>8. CASE ~(in[j] - in[i] > MaxGap) \/ d = in[i]
      <4>1. in[i] - d \in -MaxGap..MaxGap
        BY <1>1, <3>3, <3>6, <3>8
      <4>. QED BY <3>6, <4>1 DEF Near
    <3>. QED BY <3>7, <3>8
  <2>. QED BY <2>2, <2>3, <2>4, <2>5
<1>. QED BY <1>6, <1>7 DEF in, found

(* What is good stays so when it is sliced again (sliceBarsByStartCount).    *)
LEMMA SliceIsGood ==
  ASSUME NEW bars, NEW q, IsRequest(q), Good(bars, q)
  PROVE  Good(Slice(bars, q), q)
  BY SliceIs DEF Good

(* The request of a caller, and the key of its bars (barCacheKey).           *)
LEMMA RequestIs ==
  ASSUME NEW r \in Caller, NEW q \in Requests[r]
  PROVE  /\ IsRequest(q) /\ CacheKey(q) \in Key
         /\ Bounded(CacheKey(q)) <=> Bounded(q)
         /\ Whole(CacheKey(q)) <=> Whole(q)
         /\ \A bars : Good(bars, CacheKey(q)) <=> Good(bars, q)
         /\ \A d : Inside(d, CacheKey(q)) <=> Inside(d, q)
<1>1. CacheKey(q) \in Key
  BY KLineAssumption
<1>2. /\ CacheKey(q).start = q.start /\ CacheKey(q).count = q.count
      /\ CacheKey(q).from = q.from /\ CacheKey(q).to = q.to
  BY DEF CacheKey
<1>3. IsRequest(q)
  BY <1>1, <1>2, KLineAssumption DEF IsRequest
<1>4. \A d : Inside(d, CacheKey(q)) <=> Inside(d, q)
  BY <1>2 DEF Inside
<1>5. \A bars : Good(bars, CacheKey(q)) <=> Good(bars, q)
  BY <1>4 DEF Good
<1>. QED BY <1>1, <1>2, <1>3, <1>4, <1>5 DEF Bounded, Whole, Ranged

-----------------------------------------------------------------------------
(* Answers ascend                                                            *)

Holding == {"fill", "put local", "put bars", "put remote"}

(* What a caller relies on: while it is in the group, its call is for what   *)
(* it asks; the bars that it holds, and those it is answered, are good.      *)
CallerInv(r) ==
  /\ at[r] # "idle" \/ answer[r] # None => asked[r] \in Requests[r]
  /\ step[r] # "out" => at[r] = "group" /\ keyOf[call[r]] = CacheKey(asked[r])
  /\ at[r] = "fill" => Ranged(asked[r])
  /\ at[r] \in Holding /\ Bounded(asked[r]) => Good(page[r], asked[r])
  /\ Answered(r) /\ Bounded(asked[r]) => Good(answer[r], asked[r])

CachedInv ==
  \A k \in Key : cache[k] # None /\ Bounded(k) => Good(cache[k], k)

LoadedInv ==
  \A c \in CallId :
    value[c] \notin {None, Failed} /\ Bounded(keyOf[c]) => Good(value[c], keyOf[c])

PerCaller ==
  /\ DOMAIN at = Caller /\ DOMAIN asked = Caller /\ DOMAIN page = Caller /\ DOMAIN gaps = Caller
  /\ DOMAIN todo = Caller /\ DOMAIN filling = Caller /\ DOMAIN answer = Caller

BarsInv ==
  /\ GroupInv /\ PerCaller /\ today \in Trading /\ DOMAIN cache = Key
  /\ CachedInv /\ LoadedInv
  /\ \A r \in Caller : CallerInv(r)

(* In the beginning nobody asks, and there are no bars.                      *)
LEMMA BarsInitially == Init => BarsInv
<1> SUFFICES ASSUME Init PROVE BarsInv
  OBVIOUS
<1>1. GroupInv
  BY GroupInvInit DEF Init
<1>2. LoadedInv
  BY DEF Init, GroupInit, LoadedInv
<1>3. CachedInv /\ DOMAIN cache = Key /\ PerCaller /\ today \in Trading
  BY DEF Init, CachedInv, PerCaller
<1>4. \A r \in Caller : CallerInv(r)
  BY DEF Init, GroupInit, CallerInv, Answered, Holding
<1>. QED BY <1>1, <1>2, <1>3, <1>4 DEF BarsInv

(* A step of a caller on the variables of the group.                         *)
GroupStep(r) ==
  \/ \E k \in Key : Lead(r, k) \/ Join(r, k)
  \/ \E v \in Value : LoadReturns(r, v)
  \/ Returns(r)
  \/ UNCHANGED groupVars

(* It changes nothing that other callers, or calls that were made, rely on.  *)
LEMMA GroupKeeps ==
  ASSUME GroupInv, NEW r \in Caller, GroupStep(r)
  PROVE  /\ GroupInv'
         /\ \A s \in Caller \ {r} : step'[s] = step[s] /\ call'[s] = call[s]
         /\ \A c \in CallId : c \in 1..made => keyOf'[c] = keyOf[c]
         /\ \A c \in CallId : value[c] # None => value'[c] = value[c]
<1>1. ASSUME NEW k \in Key, Lead(r, k)
      PROVE  /\ UNCHANGED value
             /\ \A s \in Caller \ {r} : step'[s] = step[s] /\ call'[s] = call[s]
             /\ \A c \in CallId : c \in 1..made => keyOf'[c] = keyOf[c]
  <2>1. \A c \in 1..made : c # made + 1
    BY DEF GroupInv, GroupTypeOK
  <2>. QED BY <1>1, <2>1 DEF Lead, GroupInv, GroupTypeOK
<1>2. ASSUME NEW k \in Key, Join(r, k)
      PROVE  /\ UNCHANGED <<keyOf, value>>
             /\ \A s \in Caller \ {r} : step'[s] = step[s] /\ call'[s] = call[s]
  BY <1>2 DEF Join, GroupInv, GroupTypeOK
<1>3. ASSUME NEW v \in Value, LoadReturns(r, v)
      PROVE  /\ UNCHANGED keyOf
             /\ \A s \in Caller \ {r} : step'[s] = step[s] /\ call'[s] = call[s]
             /\ \A c \in CallId : value[c] # None => value'[c] = value[c]
  <2>1. value[call[r]] = None
    BY <1>3, InsideDo DEF LoadReturns, GroupInv, PendingHasLeader
  <2>. QED BY <1>3, <2>1 DEF LoadReturns, GroupInv, GroupTypeOK
<1>4. ASSUME Returns(r)
      PROVE  /\ UNCHANGED <<keyOf, value>>
             /\ \A s \in Caller \ {r} : step'[s] = step[s] /\ call'[s] = call[s]
  BY <1>4 DEF Returns, Leave, JoinReturns, GroupInv, GroupTypeOK
<1>5. ASSUME UNCHANGED groupVars
      PROVE  GroupInv' /\ UNCHANGED <<step, call, keyOf, value>>
  BY <1>5 DEF groupVars, GroupInv, GroupTypeOK, LeadersDiffer, MapHoldsLedCalls,
              PendingHasLeader, Leading
<1>6. GroupInv'
  BY <1>5, LeadKeepsInv, JoinKeepsInv, LoadReturnsKeepsInv, LeaveKeepsInv, JoinReturnsKeepsInv
  DEF GroupStep, Returns
<1>. QED BY <1>1, <1>2, <1>3, <1>4, <1>5, <1>6 DEF GroupStep

CallerStep(r) ==
  \/ \E q \in Requests[r] : ReadCache(r, q)
  \/ QueryBars(r) \/ FillGap(r) \/ FillFails(r) \/ PutFilled(r)
  \/ EnterGroup(r) \/ Load(r) \/ GroupReturns(r)
  \/ PutBars(r) \/ PutPage(r) \/ Cancelled(r)

OnlyOf(r) ==
  /\ PerCaller' /\ today' = today
  /\ \A s \in Caller \ {r} :
       /\ at'[s] = at[s] /\ asked'[s] = asked[s] /\ page'[s] = page[s] /\ gaps'[s] = gaps[s]
       /\ todo'[s] = todo[s] /\ filling'[s] = filling[s] /\ answer'[s] = answer[s]

(* A step of a caller is one of the group, if any, and changes what is its   *)
(* own.                                                                      *)
LEMMA StepsAreOfOne ==
  ASSUME BarsInv, NEW r \in Caller, CallerStep(r)
  PROVE  GroupStep(r) /\ OnlyOf(r)
<1> USE DEF BarsInv, PerCaller, OnlyOf
<1>1. ASSUME NEW q \in Requests[r], ReadCache(r, q) PROVE OnlyOf(r) /\ UNCHANGED groupVars
  BY <1>1 DEF ReadCache, Answer
<1>2. ASSUME QueryBars(r) PROVE OnlyOf(r) /\ UNCHANGED groupVars
  BY <1>2 DEF QueryBars, GoTo
<1>3. ASSUME FillGap(r) PROVE OnlyOf(r) /\ UNCHANGED groupVars
  BY <1>3 DEF FillGap
<1>4. ASSUME FillFails(r) \/ Cancelled(r) PROVE OnlyOf(r) /\ UNCHANGED groupVars
  BY <1>4 DEF FillFails, Cancelled, Answer
<1>5. ASSUME PutFilled(r) PROVE OnlyOf(r) /\ UNCHANGED groupVars
  BY <1>5 DEF PutFilled, Answer, GoTo
<1>6. ASSUME PutBars(r) PROVE OnlyOf(r) /\ UNCHANGED groupVars
  BY <1>6 DEF PutBars, GoTo
<1>7. ASSUME PutPage(r) PROVE OnlyOf(r) /\ UNCHANGED groupVars
  BY <1>7 DEF PutPage, Answer
<1>8. ASSUME EnterGroup(r) PROVE OnlyOf(r) /\ GroupStep(r)
  <2>1. CacheKey(asked[r]) \in Key
    BY <1>8, RequestIs DEF EnterGroup, CallerInv
  <2>. QED BY <1>8, <2>1 DEF EnterGroup, GroupStep, readVars
<1>9. ASSUME Load(r) PROVE OnlyOf(r) /\ GroupStep(r)
  <2>1. step[r] = "loading"
    BY <1>9 DEF Load, LoadReturns
  <2>2. keyOf[call[r]] \in Key
    BY <2>1, InsideDo DEF GroupInv
  <2>3. Failed \in Value /\ Fetch(Upstream(today), keyOf[call[r]]) \in Value
    BY <2>2, KLineAssumption
  <2>. QED BY <1>9, <2>3 DEF Load, GroupStep, readVars
<1>10. ASSUME GroupReturns(r) PROVE OnlyOf(r) /\ GroupStep(r)
  BY <1>10 DEF GroupReturns, GroupStep, Answer, GoTo
<1>. QED BY <1>1, <1>2, <1>3, <1>4, <1>5, <1>6, <1>7, <1>8, <1>9, <1>10 DEF CallerStep, GroupStep

(* Other callers keep what they rely on, and loads what they returned.       *)
LEMMA OthersKeep ==
  ASSUME BarsInv, NEW r \in Caller, CallerStep(r)
  PROVE  /\ \A s \in Caller \ {r} : CallerInv(s)'
         /\ value' = value => LoadedInv'
<1>1. GroupStep(r) /\ OnlyOf(r)
  BY StepsAreOfOne
<1>2. /\ GroupInv'
      /\ \A s \in Caller \ {r} : step'[s] = step[s] /\ call'[s] = call[s]
      /\ \A c \in CallId : c \in 1..made => keyOf'[c] = keyOf[c]
  BY <1>1, GroupKeeps DEF BarsInv
<1>3. ASSUME NEW s \in Caller \ {r} PROVE CallerInv(s)'
  <2>1. /\ at'[s] = at[s] /\ asked'[s] = asked[s] /\ page'[s] = page[s]
        /\ answer'[s] = answer[s] /\ step'[s] = step[s] /\ call'[s] = call[s]
    BY <1>1, <1>2 DEF OnlyOf
  <2>2. step[s] # "out" => keyOf'[call[s]] = keyOf[call[s]]
    BY <1>2, InsideDo DEF BarsInv, GroupInv
  <2>3. CallerInv(s)
    BY DEF BarsInv
  <2>. QED BY <2>1, <2>2, <2>3 DEF CallerInv, Answered
<1>4. ASSUME value' = value PROVE LoadedInv'
  <2>1. \A c \in CallId : value[c] # None => c \in 1..made
    BY DEF BarsInv, GroupInv, PendingHasLeader
  <2>2. \A c \in CallId : value[c] # None => keyOf'[c] = keyOf[c]
    BY <1>2, <2>1
  <2>. QED BY <1>4, <2>2 DEF LoadedInv, BarsInv
<1>. QED BY <1>3, <1>4

(* An answer, which leaves the caller with nothing to hold, is good.         *)
LEMMA AnswerIsGood ==
  ASSUME BarsInv, NEW r \in Caller, NEW bars, Answer(r, bars), step'[r] = "out",
         asked'[r] \in Requests[r],
         bars = Failed \/ (Bounded(asked'[r]) => Good(bars, asked'[r]))
  PROVE  CallerInv(r)'
<1>1. at'[r] = "idle" /\ answer'[r] = bars
  BY DEF Answer, BarsInv, PerCaller
<1>. QED BY <1>1 DEF CallerInv, Holding, Answered

(* A caller outside the group has no call.                                   *)
LEMMA OutsideIsOut ==
  ASSUME BarsInv, NEW r \in Caller, at[r] # "group"
  PROVE  step[r] = "out"
  BY DEF BarsInv, CallerInv

(* A request begins, and is answered if its bars are cached.                 *)
LEMMA ReadCacheKeeps ==
  ASSUME BarsInv, NEW r \in Caller, NEW q \in Requests[r], ReadCache(r, q)
  PROVE  CallerInv(r)'
<1>1. /\ at[r] = "idle" /\ asked' = [asked EXCEPT ![r] = q] /\ UNCHANGED groupVars
  BY DEF ReadCache
<1>2. asked'[r] = q /\ step'[r] = "out"
  BY <1>1, OutsideIsOut DEF BarsInv, PerCaller, groupVars
<1>3. CASE ~q.force /\ cache[CacheKey(q)] # None /\ CachedCovers(cache[CacheKey(q)], q)
  <2>1. Answer(r, Slice(cache[CacheKey(q)], q))
    BY <1>3 DEF ReadCache
  <2>2. ASSUME Bounded(q) PROVE Good(Slice(cache[CacheKey(q)], q), q)
    <3>1. IsRequest(q) /\ Good(cache[CacheKey(q)], q)
      BY <1>3, <2>2, RequestIs DEF BarsInv, CachedInv
    <3>. QED BY <3>1, SliceIsGood
  <2>. QED BY <1>2, <2>1, <2>2, AnswerIsGood
<1>4. CASE ~(~q.force /\ cache[CacheKey(q)] # None /\ CachedCovers(cache[CacheKey(q)], q))
  <2>1. /\ at' = [at EXCEPT ![r] = IF q.force THEN "group" ELSE "query"]
        /\ answer' = [answer EXCEPT ![r] = None]
    BY <1>4 DEF ReadCache
  <2>2. at'[r] \in {"group", "query"} /\ answer'[r] = None
    BY <2>1 DEF BarsInv, PerCaller
  <2>. QED BY <1>2, <2>2 DEF CallerInv, Holding, Answered
<1>. QED BY <1>3, <1>4

(* The stored bars that are taken are those in the range.                    *)
LEMMA QueryBarsKeeps ==
  ASSUME BarsInv, NEW r \in Caller, QueryBars(r)
  PROVE  CallerInv(r)'
<1> DEFINE q == asked[r]
           all == StoredUntil(q.to)
           found == IF all = <<>> THEN {} ELSE BarGaps(all, q)
<1>1. /\ at[r] = "query" /\ asked' = asked /\ UNCHANGED groupVars /\ DOMAIN at = Caller
      /\ DOMAIN page = Caller
  BY DEF QueryBars, BarsInv, PerCaller
<1>2. q \in Requests[r] /\ IsRequest(q) /\ step'[r] = "out"
  BY <1>1, OutsideIsOut, RequestIs DEF BarsInv, CallerInv, groupVars
<1>3. Sorted(all)
  BY BarsAre DEF StoredUntil
<1>4. Good(InRange(all, q), q) /\ Good(Slice(InRange(all, q), q), q)
  BY <1>2, <1>3, InRangeIsGood
<1>5. found # {} => Ranged(q)
  BY DEF BarGaps
<1>6. /\ answer' = answer /\ at'[r] \in {"put local", "fill", "group"}
      /\ at'[r] = "put local" => page'[r] = Slice(InRange(all, q), q)
      /\ at'[r] = "fill" => page'[r] = InRange(all, q) /\ found # {}
  BY <1>1 DEF QueryBars, GoTo
<1> HIDE DEF all, found
<1>7. CallerInv(r)
  BY DEF BarsInv
<1>8. asked'[r] = q
  BY <1>1
<1>9. at'[r] \in Holding => Good(page'[r], q)
  BY <1>4, <1>6 DEF Holding
<1>10. at'[r] = "fill" => Ranged(q)
  BY <1>5, <1>6
<1>11. (answer'[r] \notin {None, Failed}) /\ Bounded(q) => Good(answer'[r], q)
  BY <1>6, <1>7 DEF CallerInv, Answered
<1>. QED BY <1>2, <1>6, <1>8, <1>9, <1>10, <1>11 DEF CallerInv, Answered

(* To fetch for a gap leaves the bars that are held as they are; to give up, *)
(* or to be cancelled, answers an error.                                     *)
LEMMA FillingKeeps ==
  ASSUME BarsInv, NEW r \in Caller, FillGap(r) \/ FillFails(r) \/ Cancelled(r)
  PROVE  CallerInv(r)'
<1>1. CASE FillGap(r)
  <2>1. /\ UNCHANGED <<step, call, keyOf, at, asked, page, answer>>
    BY <1>1 DEF FillGap, groupVars
  <2>2. CallerInv(r)
    BY DEF BarsInv
  <2>. QED BY <2>1, <2>2 DEF CallerInv, Answered
<1>2. CASE FillFails(r) \/ Cancelled(r)
  <2>1. /\ at[r] \notin {"idle", "group"} /\ asked' = asked /\ UNCHANGED groupVars
        /\ Answer(r, Failed)
    BY <1>2 DEF FillFails, Cancelled
  <2>2. step'[r] = "out" /\ asked'[r] \in Requests[r]
    BY <2>1, OutsideIsOut DEF BarsInv, CallerInv, groupVars
  <2>. QED BY <2>1, <2>2, AnswerIsGood
<1>. QED BY <1>1, <1>2

(* What was filled in is put in its place, and nothing outside the range.    *)
LEMMA PutFilledKeeps ==
  ASSUME BarsInv, NEW r \in Caller, PutFilled(r)
  PROVE  CallerInv(r)'
<1> DEFINE q == asked[r]
           more == InRange(Bars(filling[r]), q)
           all == Bars(ToSet(page[r]) \cup ToSet(more))
           merged == Slice(all, q)
<1>1. /\ at[r] = "fill" /\ asked' = asked /\ UNCHANGED groupVars /\ DOMAIN at = Caller
      /\ DOMAIN page = Caller
  BY DEF PutFilled, BarsInv, PerCaller
<1>2. q \in Requests[r] /\ IsRequest(q) /\ step'[r] = "out" /\ Bounded(q) /\ Good(page[r], q)
  BY <1>1, OutsideIsOut, RequestIs DEF BarsInv, CallerInv, groupVars, Bounded, Holding
<1>3. Sorted(Bars(filling[r]))
  BY BarsAre
<1>4. \A d \in ToSet(more) : Inside(d, q)
  BY <1>3, InRangeIs
<1>5. Sorted(all) /\ ToSet(all) \subseteq ToSet(page[r]) \cup ToSet(more)
  BY BarsAre
<1> HIDE DEF more, all
<1>6. Good(all, q)
  BY <1>2, <1>4, <1>5 DEF Good
<1>7. Good(merged, q)
  BY <1>2, <1>6, SliceIsGood
<1>8. \/ page' = [page EXCEPT ![r] = merged] /\ GoTo(r, "put local")
      \/ Answer(r, merged)
  BY DEF PutFilled, more, all
<1> HIDE DEF merged
<1>9. CASE Answer(r, merged)
  BY <1>1, <1>2, <1>7, <1>9, AnswerIsGood
<1>10. CASE page' = [page EXCEPT ![r] = merged] /\ GoTo(r, "put local")
  <2>1. at'[r] = "put local" /\ page'[r] = merged /\ answer' = answer /\ asked'[r] = q
    BY <1>1, <1>10 DEF GoTo
  <2>2. CallerInv(r)
    BY DEF BarsInv
  <2>. QED BY <1>2, <1>7, <2>1, <2>2 DEF CallerInv, Answered
<1>. QED BY <1>8, <1>9, <1>10

(* The call that is made or joined is for the key of the request.            *)
LEMMA EnterGroupKeeps ==
  ASSUME BarsInv, NEW r \in Caller, EnterGroup(r)
  PROVE  CallerInv(r)'
<1> DEFINE k == CacheKey(asked[r])
<1>1. /\ at[r] = "group" /\ UNCHANGED <<at, asked, page, answer>>
      /\ Lead(r, k) \/ Join(r, k)
  BY DEF EnterGroup, readVars
<1>2. CallerInv(r) /\ asked[r] \in Requests[r] /\ k \in Key
  BY <1>1, RequestIs DEF BarsInv, CallerInv
<1> HIDE DEF k
<1>3. keyOf'[call'[r]] = k
  <2>1. CASE Lead(r, k)
    <3>1. made + 1 \in CallId /\ DOMAIN keyOf = CallId /\ DOMAIN call = Caller
      BY <2>1, GroupAssumption DEF Lead, BarsInv, GroupInv, GroupTypeOK, CallId
    <3>2. call' = [call EXCEPT ![r] = made + 1] /\ keyOf' = [keyOf EXCEPT ![made + 1] = k]
      BY <2>1 DEF Lead
    <3>. QED BY <3>1, <3>2
  <2>2. CASE Join(r, k)
    <3>1. call' = [call EXCEPT ![r] = calls[k]] /\ keyOf' = keyOf /\ calls[k] # None
      BY <2>2 DEF Join
    <3>2. keyOf[calls[k]] = k /\ DOMAIN call = Caller
      BY <1>2, <3>1 DEF BarsInv, GroupInv, GroupTypeOK, MapHoldsLedCalls
    <3>. QED BY <3>1, <3>2
  <2>. QED BY <1>1, <2>1, <2>2
<1>. QED BY <1>1, <1>2, <1>3 DEF CallerInv, Answered, Holding, k

(* A load returns good bars for its key, if any.                             *)
LEMMA LoadKeeps ==
  ASSUME BarsInv, NEW r \in Caller, Load(r)
  PROVE  CallerInv(r)' /\ LoadedInv'
<1> DEFINE c == call[r]
           k == keyOf[c]
           got == Fetch(Upstream(today), k)
<1>1. /\ step[r] = "loading" /\ UNCHANGED <<call, keyOf, at, asked, page, answer>>
      /\ \E v \in {Failed, got} : value' = [value EXCEPT ![c] = v]
  BY DEF Load, LoadReturns, readVars
<1>2. c \in CallId /\ k \in Key /\ DOMAIN value = CallId
  BY <1>1, InsideDo DEF BarsInv, GroupInv, GroupTypeOK
<1>3. CallerInv(r)'
  <2>1. CallerInv(r) /\ step[r] # "out"
    BY <1>1 DEF BarsInv
  <2>. QED BY <1>1, <2>1 DEF CallerInv, Answered
<1>4. IsRequest(k)
  BY <1>2, KLineAssumption DEF IsRequest
<1>5. Sorted(Upstream(today))
  BY BarsAre DEF Upstream
<1>6. Bounded(k) => Good(got, k)
  BY <1>4, <1>5, FetchIs
<1> HIDE DEF got
<1>7. PICK v \in {Failed, got} : value' = [value EXCEPT ![c] = v]
  BY <1>1
<1>8. ASSUME NEW d \in CallId, value'[d] \notin {None, Failed}, Bounded(keyOf[d])
      PROVE  Good(value'[d], keyOf[d])
  <2>1. CASE d = c
    BY <1>2, <1>6, <1>7, <1>8, <2>1
  <2>2. CASE d # c
    BY <1>2, <1>7, <1>8, <2>2 DEF BarsInv, LoadedInv
  <2>. QED BY <2>1, <2>2
<1>9. LoadedInv'
  BY <1>1, <1>8 DEF LoadedInv
<1>. QED BY <1>3, <1>9

(* Nobody returns from the group without a result.                           *)
LEMMA ReturnsWithValue ==
  ASSUME GroupInv, NEW r \in Caller, Returns(r)
  PROVE  step[r] # "out" /\ Result(r) # None
<1>1. step[r] # "out" /\ (step[r] = "leaving" \/ value[call[r]] # None)
  BY DEF Returns, Leave, JoinReturns
<1>2. call[r] \in 1..made /\ call[r] \in CallId
  BY <1>1, InsideDo DEF GroupInv
<1>3. ASSUME step[r] = "leaving" PROVE value[call[r]] # None
  <2>1. \A s \in Caller : step[s] = "loading" => call[s] # call[r]
    BY <1>3 DEF GroupInv, LeadersDiffer, Leading
  <2>. QED BY <1>2, <2>1 DEF GroupInv, PendingHasLeader
<1>. QED BY <1>1, <1>3 DEF Result

(* What Do returns with is good, if it is bars.                              *)
LEMMA GroupReturnsKeeps ==
  ASSUME BarsInv, NEW r \in Caller, GroupReturns(r)
  PROVE  CallerInv(r)'
<1>1. step[r] # "out" /\ Result(r) # None
  BY ReturnsWithValue DEF GroupReturns, BarsInv
<1>2. CallerInv(r) /\ asked' = asked /\ asked[r] \in Requests[r]
  BY <1>1 DEF GroupReturns, BarsInv, CallerInv
<1>3. call[r] \in CallId /\ keyOf[call[r]] = CacheKey(asked[r]) /\ step'[r] = "out"
  BY <1>1, <1>2, InsideDo DEF GroupReturns, Returns, Leave, JoinReturns, BarsInv, GroupInv,
                              GroupTypeOK, CallerInv
<1>4. Result(r) \notin {Failed, <<>>} /\ Bounded(asked[r]) => Good(Result(r), asked[r])
  BY <1>1, <1>2, <1>3, RequestIs DEF BarsInv, LoadedInv, Result
<1>5. CASE Answer(r, Failed)
  BY <1>2, <1>3, <1>5, AnswerIsGood
<1>6. CASE /\ Result(r) \notin {Failed, <<>>}
           /\ page' = [page EXCEPT ![r] = Result(r)] /\ GoTo(r, "put bars")
  <2>1. at'[r] = "put bars" /\ page'[r] = Result(r) /\ answer' = answer
    BY <1>6 DEF GoTo, BarsInv, PerCaller
  <2>. QED BY <1>2, <1>3, <1>4, <1>6, <2>1 DEF CallerInv, Answered
<1>. QED BY <1>5, <1>6 DEF GroupReturns

(* To store bars leaves those that are held as they are.                     *)
LEMMA PutBarsKeeps ==
  ASSUME BarsInv, NEW r \in Caller, PutBars(r)
  PROVE  CallerInv(r)'
<1>1. /\ at[r] = "put bars" /\ at'[r] = "put remote"
      /\ UNCHANGED <<step, call, keyOf, asked, page, answer>>
  BY DEF PutBars, GoTo, groupVars, BarsInv, PerCaller
<1>2. CallerInv(r) /\ step[r] = "out"
  BY <1>1, OutsideIsOut DEF BarsInv
<1>. QED BY <1>1, <1>2 DEF CallerInv, Answered, Holding

(* What is cached and answered is good.                                      *)
LEMMA PutPageKeeps ==
  ASSUME BarsInv, NEW r \in Caller, PutPage(r)
  PROVE  CallerInv(r)' /\ CachedInv'
<1> DEFINE q == asked[r]
<1>1. /\ at[r] \in {"put local", "put remote"} /\ asked' = asked /\ UNCHANGED groupVars
      /\ cache' = [cache EXCEPT ![CacheKey(q)] = page[r]]
      /\ Answer(r, IF at[r] = "put local" THEN page[r] ELSE Slice(page[r], q))
  BY DEF PutPage
<1>2. /\ q \in Requests[r] /\ IsRequest(q) /\ step'[r] = "out"
      /\ Bounded(q) => Good(page[r], q)
  BY <1>1, OutsideIsOut, RequestIs DEF BarsInv, CallerInv, groupVars, Holding
<1>3. CallerInv(r)'
  <2>1. Bounded(q) => Good(Slice(page[r], q), q)
    BY <1>2, SliceIsGood
  <2>. QED BY <1>1, <1>2, <2>1, AnswerIsGood
<1>4. CachedInv'
  <2>1. Bounded(CacheKey(q)) => Good(page[r], CacheKey(q))
    BY <1>2, RequestIs
  <2>2. \A k \in Key : cache'[k] = IF k = CacheKey(q) THEN page[r] ELSE cache[k]
    BY <1>1 DEF BarsInv
  <2>. QED BY <2>1, <2>2 DEF BarsInv, CachedInv
<1>. QED BY <1>3, <1>4

(* A step of a caller keeps everything that callers rely on.                 *)
LEMMA CallersKeepBars ==
  ASSUME BarsInv, NEW r \in Caller, CallerStep(r)
  PROVE  BarsInv'
<1>1. /\ GroupStep(r) /\ OnlyOf(r)
      /\ \A s \in Caller \ {r} : CallerInv(s)'
      /\ value' = value => LoadedInv'
  BY StepsAreOfOne, OthersKeep
<1>2. GroupInv' /\ PerCaller' /\ today' \in Trading
  BY <1>1, GroupKeeps DEF BarsInv, OnlyOf
<1>3. CallerInv(r)'
  BY ReadCacheKeeps, QueryBarsKeeps, FillingKeeps, PutFilledKeeps, EnterGroupKeeps, LoadKeeps,
     GroupReturnsKeeps, PutBarsKeeps, PutPageKeeps DEF CallerStep
<1>4. CASE Load(r)
  <2>1. LoadedInv' /\ cache' = cache
    BY <1>4, LoadKeeps DEF Load
  <2>2. CachedInv' /\ DOMAIN cache' = Key
    BY <2>1 DEF BarsInv, CachedInv
  <2>. QED BY <1>1, <1>2, <1>3, <2>1, <2>2 DEF BarsInv
<1>5. CASE PutPage(r)
  <2>1. CachedInv' /\ value' = value /\ DOMAIN cache' = Key
    BY <1>5, PutPageKeeps DEF PutPage, groupVars, BarsInv
  <2>. QED BY <1>1, <1>2, <1>3, <2>1 DEF BarsInv
<1>6. CASE ~Load(r) /\ ~PutPage(r)
  <2>1. value' = value /\ cache' = cache
    BY <1>6 DEF CallerStep, ReadCache, QueryBars, FillGap, FillFails, PutFilled, EnterGroup, Lead,
                Join, GroupReturns, Returns, Leave, JoinReturns, PutBars, Cancelled, groupVars
  <2>2. CachedInv' /\ DOMAIN cache' = Key
    BY <2>1 DEF BarsInv, CachedInv
  <2>. QED BY <1>1, <1>2, <1>3, <2>1, <2>2 DEF BarsInv
<1>. QED BY <1>4, <1>5, <1>6

(* So does the time that passes: cached bars expire, and days end.           *)
LEMMA TimeKeepsBars ==
  ASSUME BarsInv, (\E k \in Key : Expire(k)) \/ NextDay \/ UNCHANGED vars
  PROVE  BarsInv'
<1>1. UNCHANGED groupVars
  BY DEF Expire, NextDay, vars
<1>2. GroupInv' /\ LoadedInv'
  BY <1>1 DEF BarsInv, LoadedInv, groupVars, GroupInv, GroupTypeOK, LeadersDiffer,
              MapHoldsLedCalls, PendingHasLeader, Leading
<1>3. CASE \E k \in Key : Expire(k)
  <2>1. PICK k \in Key : Expire(k)
    BY <1>3
  <2>2. UNCHANGED <<today, readVars>> /\ cache' = [cache EXCEPT ![k] = None]
    BY <2>1 DEF Expire
  <2>3. CachedInv' /\ DOMAIN cache' = Key
    BY <2>2 DEF BarsInv, CachedInv
  <2>4. \A r \in Caller : CallerInv(r)'
    BY <1>1, <2>2 DEF BarsInv, CallerInv, Answered, readVars, groupVars
  <2>. QED BY <1>2, <2>2, <2>3, <2>4 DEF BarsInv, PerCaller, readVars
<1>4. CASE NextDay
  <2>1. /\ \A r \in Caller : at[r] = "idle"
        /\ answer' = [r \in Caller |-> None]
        /\ UNCHANGED <<cache, at, asked, page, gaps, todo, filling>>
    BY <1>4 DEF NextDay
  <2>2. today' \in Trading
    <3> DEFINE Following(d) == d > today /\ \A e \in Trading : e > today => d <= e
    <3>1. \E d \in Trading : Following(d)
      <4> DEFINE Later == {d \in Trading : d > today}
      <4>1. Later \in SUBSET Nat /\ Later # {}
        BY <1>4, KLineAssumption DEF NextDay
      <4>2. PICK d \in Later : \A e \in Later : d <= e
        BY <4>1, LeastNatural
      <4>. QED BY <4>2
    <3>2. today' = CHOOSE d \in Trading : Following(d)
      BY <1>4 DEF NextDay
    <3> HIDE DEF Following
    <3>. QED BY <3>1, <3>2
  <2>3. CachedInv' /\ DOMAIN cache' = Key /\ PerCaller'
    BY <2>1 DEF BarsInv, CachedInv, PerCaller
  <2>4. \A r \in Caller : CallerInv(r)'
    <3>1. \A r \in Caller : step'[r] = "out"
      BY <1>1, <2>1, OutsideIsOut DEF groupVars
    <3>. QED BY <2>1, <3>1 DEF CallerInv, Answered, Holding
  <2>. QED BY <1>2, <2>2, <2>3, <2>4 DEF BarsInv
<1>5. CASE UNCHANGED vars
  <2>1. UNCHANGED <<today, cache, readVars>>
    BY <1>5 DEF vars
  <2>2. \A r \in Caller : CallerInv(r)'
    BY <1>1, <2>1 DEF BarsInv, CallerInv, Answered, readVars, groupVars
  <2>. QED BY <1>2, <2>1, <2>2 DEF BarsInv, CachedInv, PerCaller, readVars
<1>. QED BY <1>3, <1>4, <1>5

(* The bars that are held, cached and loaded are good.                       *)
LEMMA BarsInvariance == Spec => []BarsInv
<1>1. BarsInv /\ [Next]_vars => BarsInv'
  <2> SUFFICES ASSUME BarsInv, [Next]_vars PROVE BarsInv'
    OBVIOUS
  <2>1. ASSUME NEW r \in Caller, CallerStep(r) PROVE BarsInv'
    BY <2>1, CallersKeepBars
  <2>. QED BY <2>1, TimeKeepsBars DEF Next, CallerStep
<1>. QED BY <1>1, BarsInitially, PTL DEF Spec

(* Two callers that load at the same time load different keys                *)
(* (group.go:44-54), when it is getBars that calls Do.                       *)
THEOREM BarsAreLoadedOnce == Spec => []OneLoadPerKey
<1>1. BarsInv => OneLoadPerKey
  BY DEF BarsInv, GroupInv, OneLoadPerKey, MapHoldsLedCalls, LeadersDiffer, Leading
<1>. QED BY <1>1, BarsInvariance, PTL

(* Answers are in the order of time, without repetition, and inside the      *)
(* range, however many pages and gaps they were put together from            *)
(* (mergeBars, fetchKLineRange, sliceBarsByStartCount).                      *)
THEOREM AnswersAreInOrder == Spec => []AnswersAscend
<1>1. ASSUME BarsInv PROVE AnswersAscend
  <2> SUFFICES ASSUME NEW r \in Caller, Answered(r),
                      Ranged(asked[r]) \/ asked[r].count \in 1..MaxPage
               PROVE  Ascends(answer[r]) /\ InRange(answer[r], asked[r]) = answer[r]
    BY DEF AnswersAscend
  <2>1. Good(answer[r], asked[r])
    BY <1>1 DEF BarsInv, CallerInv, Bounded
  <2>2. \A i \in DOMAIN answer[r] : Inside(answer[r][i], asked[r])
    BY <2>1 DEF Good, ToSet
  <2>. QED BY <2>1, <2>2, InRangeIs DEF Good, Sorted
<1>. QED BY <1>1, BarsInvariance, PTL

-----------------------------------------------------------------------------
(* Holes are short                                                           *)

(* The days whose bars a request should be answered, and whether bars leave  *)
(* none of them in a long hole.                                              *)
Due(q) == {d \in Trading : d <= today /\ Inside(d, q)}
Covers(bars, q) == \A d \in Due(q) : Near(d, ToSet(bars))

Within(d, gap) == gap.from <= d /\ d <= gap.to

(* What a caller relies on that asks for a range: the bars that it holds,    *)
(* waits for or is answered cover it; while it fills gaps, a day that is     *)
(* still missing is in one of those that are left, and the day after a gap   *)
(* has a bar.                                                                *)
CoverInv(r) ==
  /\ at[r] \in Holding \ {"fill"} /\ Whole(asked[r]) => Covers(page[r], asked[r])
  /\ Answered(r) /\ Whole(asked[r]) => Covers(answer[r], asked[r])
  /\ step[r] # "out" /\ value[call[r]] \notin {None, Failed} /\ Whole(asked[r]) =>
       Covers(value[call[r]], asked[r])
  /\ at[r] = "fill" =>
       /\ \A g \in todo[r] :
            /\ g = Gap(g.from, g.to) /\ g.from \in Nat \ {0} /\ g.to \in Nat \ {0}
            /\ g.to = asked[r].to \/ g.to + 1 \in ToSet(page[r])
       /\ \A d \in Due(asked[r]) :
            \/ d \in filling[r] \/ Near(d, ToSet(page[r]))
            \/ \E g \in todo[r] : Within(d, g)

HolesInv == BarsInv /\ \A r \in Caller : CoverInv(r)

(* In the beginning nobody asks.                                             *)
LEMMA HolesInitially == Init => HolesInv
<1> SUFFICES ASSUME Init PROVE HolesInv
  OBVIOUS
<1>1. \A r \in Caller : CoverInv(r)
  BY DEF Init, GroupInit, CoverInv, Answered, Holding
<1>. QED BY <1>1, BarsInitially DEF HolesInv

(* A day that has a bar is close to it.                                      *)
LEMMA HasIsNear ==
  ASSUME NEW d \in Nat, NEW days, d \in days
  PROVE  Near(d, days)
<1>1. d - d \in -MaxGap..MaxGap
  BY KLineAssumption
<1>. QED BY <1>1 DEF Near

(* Bars in whose range there is no gap cover it.                             *)
LEMMA NoGapsCovers ==
  ASSUME NEW bars, Sorted(bars), NEW q, IsRequest(q), Ranged(q), BarGaps(bars, q) = {}
  PROVE  Covers(InRange(bars, q), q)
<1>1. Due(q) \subseteq Nat
  BY KLineAssumption DEF Due
<1>2. \A d \in Nat : Inside(d, q) => Near(d, ToSet(InRange(bars, q)))
  BY GapsAre
<1>. QED BY <1>1, <1>2 DEF Covers, Due

(* What is near some days is near more of them.                              *)
LEMMA NearMore ==
  ASSUME NEW d, NEW some, NEW more, some \subseteq more, Near(d, some)
  PROVE  Near(d, more)
  BY DEF Near

(* What the upstream returns for a range covers it.                          *)
LEMMA FetchCovers ==
  ASSUME NEW q, IsRequest(q), Whole(q), today \in Trading
  PROVE  \A d \in Due(q) : d \in ToSet(Fetch(Upstream(today), q))
<1>1. Sorted(Upstream(today)) /\ ToSet(Upstream(today)) = (Trading \cap 1..today) \cap Day
  BY BarsAre DEF Upstream
<1>2. \A d \in ToSet(Upstream(today)) : Inside(d, q) => d \in ToSet(Fetch(Upstream(today), q))
  BY <1>1, FetchIs DEF Bounded, Whole
<1>3. Due(q) \subseteq ToSet(Upstream(today))
  <2>1. today \in Nat /\ \A d \in Trading : d \in Day /\ d \in Nat \ {0}
    BY Days
  <2>2. \A d \in Trading : d <= today => d \in 1..today
    BY <2>1
  <2>3. \A d \in Due(q) : d \in Trading /\ d \in 1..today /\ d \in Day
    BY <2>1, <2>2 DEF Due
  <2> HIDE DEF Due
  <2>. QED BY <1>1, <2>3
<1>. QED BY <1>2, <1>3 DEF Due

(* The request of a caller is one for a range if its key is.                 *)
LEMMA KeyCovers ==
  ASSUME NEW r \in Caller, NEW q \in Requests[r]
  PROVE  Due(CacheKey(q)) = Due(q)
  BY RequestIs DEF Due

(* Other callers keep what they rely on: the days that are over do not       *)
(* change, nor does a result that is there; one that comes covers its key.   *)
LEMMA OthersKeepCover ==
  ASSUME HolesInv, NEW r \in Caller, CallerStep(r), NEW s \in Caller \ {r}
  PROVE  CoverInv(s)'
<1>1. GroupStep(r) /\ OnlyOf(r) /\ BarsInv /\ CoverInv(s)
  BY StepsAreOfOne DEF HolesInv
<1>2. /\ at'[s] = at[s] /\ asked'[s] = asked[s] /\ page'[s] = page[s] /\ todo'[s] = todo[s]
      /\ filling'[s] = filling[s] /\ answer'[s] = answer[s] /\ today' = today
  BY <1>1 DEF OnlyOf
<1>3. step'[s] = step[s] /\ call'[s] = call[s]
  BY <1>1, GroupKeeps DEF BarsInv
<1>4. ASSUME step[s] # "out", value'[call[s]] \notin {None, Failed}, Whole(asked[s])
      PROVE  Covers(value'[call[s]], asked[s])
  <2>1. CASE value'[call[s]] = value[call[s]]
    BY <1>1, <1>4, <2>1 DEF CoverInv
  <2>2. CASE value'[call[s]] # value[call[s]]
    <3> DEFINE c == call[r]
               got == Fetch(Upstream(today), keyOf[c])
    <3>1. Load(r)
      BY <2>2 DEF CallerStep, ReadCache, QueryBars, FillGap, FillFails, PutFilled, EnterGroup, Lead,
                  Join, GroupReturns, Returns, Leave, JoinReturns, PutBars, PutPage, Cancelled, groupVars
    <3>2. \E v \in {Failed, got} : value' = [value EXCEPT ![c] = v]
      BY <3>1 DEF Load, LoadReturns
    <3> HIDE DEF got
    <3>3. call[s] = c /\ value'[call[s]] = got
      <4>1. PICK v \in {Failed, got} : value' = [value EXCEPT ![c] = v]
        BY <3>2
      <4>2. call[s] \in CallId /\ DOMAIN value = CallId
        BY <1>1, <1>4, InsideDo DEF BarsInv, GroupInv, GroupTypeOK
      <4>. QED BY <1>4, <2>2, <4>1, <4>2
    <3>4. keyOf[c] = CacheKey(asked[s]) /\ asked[s] \in Requests[s]
      BY <1>1, <1>4, <3>3 DEF BarsInv, CallerInv
    <3> HIDE DEF c
    <3> DEFINE k == keyOf[c]
    <3>5. IsRequest(k) /\ Whole(k) /\ Due(k) = Due(asked[s])
      <4>1. CacheKey(asked[s]) \in Key /\ Whole(CacheKey(asked[s]))
        BY <1>4, <3>4, RequestIs
      <4>. QED BY <3>4, <4>1, KeyCovers, KLineAssumption DEF IsRequest
    <3>6. \A d \in Due(k) : d \in ToSet(got)
      BY <1>1, <3>5, FetchCovers DEF got, BarsInv
    <3>7. \A d \in Due(k) : d \in Nat
      BY KLineAssumption DEF Due
    <3> HIDE DEF k
    <3>. QED BY <3>3, <3>5, <3>6, <3>7, HasIsNear DEF Covers
  <2>. QED BY <2>1, <2>2
<1>. QED BY <1>1, <1>2, <1>3, <1>4 DEF CoverInv, Answered, Covers, Due

(* A request for a range that is answered from the cache is covered by the   *)
(* bars there, as they leave no gap.                                         *)
LEMMA ReadCacheCovers ==
  ASSUME HolesInv, NEW r \in Caller, NEW q \in Requests[r], ReadCache(r, q)
  PROVE  CoverInv(r)'
<1>0. BarsInv /\ today' = today /\ at[r] = "idle"
  BY DEF HolesInv, ReadCache
<1>1. step'[r] = "out" /\ asked'[r] = q
  BY <1>0, OutsideIsOut DEF ReadCache, BarsInv, PerCaller, groupVars
<1>2. CASE ~q.force /\ cache[CacheKey(q)] # None /\ CachedCovers(cache[CacheKey(q)], q)
  <2> DEFINE bars == cache[CacheKey(q)]
  <2>1. at'[r] = "idle" /\ answer'[r] = Slice(bars, q)
    BY <1>0, <1>2 DEF ReadCache, Answer, BarsInv, PerCaller
  <2>2. ASSUME Whole(q) PROVE Covers(Slice(bars, q), q)
    <3>1. Sorted(bars) /\ IsRequest(q) /\ Ranged(q) /\ BarGaps(bars, q) = {}
      BY <1>0, <1>2, <2>2, RequestIs DEF BarsInv, CachedInv, Good, Bounded, Whole, CachedCovers
    <3>2. Slice(bars, q) = bars /\ ToSet(InRange(bars, q)) \subseteq ToSet(bars)
      BY <2>2, <3>1, SliceIs, InRangeIs DEF Whole
    <3>3. Covers(InRange(bars, q), q)
      BY <3>1, NoGapsCovers
    <3>. QED BY <3>2, <3>3, NearMore DEF Covers
  <2>. QED BY <1>0, <1>1, <2>1, <2>2 DEF CoverInv, Covers, Due, Holding, Answered
<1>3. CASE ~(~q.force /\ cache[CacheKey(q)] # None /\ CachedCovers(cache[CacheKey(q)], q))
  <2>1. /\ at' = [at EXCEPT ![r] = IF q.force THEN "group" ELSE "query"]
        /\ answer' = [answer EXCEPT ![r] = None]
    BY <1>3 DEF ReadCache
  <2>2. at'[r] \in {"group", "query"} /\ answer'[r] = None
    BY <1>0, <2>1 DEF BarsInv, PerCaller
  <2>. QED BY <1>1, <2>2 DEF CoverInv, Holding, Answered
<1>. QED BY <1>2, <1>3

(* The stored bars cover the range, or every day they lack is in a gap.      *)
LEMMA QueryBarsCovers ==
  ASSUME HolesInv, NEW r \in Caller, QueryBars(r)
  PROVE  CoverInv(r)'
<1> DEFINE q == asked[r]
           all == StoredUntil(q.to)
           in == InRange(all, q)
<1>0. BarsInv /\ CoverInv(r) /\ at[r] = "query" /\ today' = today /\ asked' = asked
  BY DEF HolesInv, QueryBars
<1>1. q \in Requests[r] /\ IsRequest(q) /\ step'[r] = "out"
  BY <1>0, OutsideIsOut, RequestIs DEF QueryBars, BarsInv, CallerInv, groupVars
<1>2. Sorted(all)
  BY BarsAre DEF StoredUntil
<1>3. answer' = answer /\ filling' = filling
  BY DEF QueryBars, GoTo
<1>4. CASE LocalCovers(all, q) /\ page' = [page EXCEPT ![r] = Slice(in, q)] /\ GoTo(r, "put local")
  <2>1. at'[r] = "put local" /\ page'[r] = Slice(in, q)
    BY <1>0, <1>4 DEF GoTo, BarsInv, PerCaller
  <2>2. ASSUME Whole(q) PROVE Covers(Slice(in, q), q)
    <3>1. Covers(in, q)
      BY <1>1, <1>2, <1>4, <2>2, NoGapsCovers DEF LocalCovers, Whole
    <3>2. Sorted(in)
      BY <1>2, InRangeIs
    <3>3. Slice(in, q) = in
      BY <1>1, <2>2, <3>2, SliceIs DEF Whole
    <3>. QED BY <3>1, <3>3
  <2>. QED BY <1>0, <1>1, <1>3, <2>1, <2>2 DEF CoverInv, Covers, Due, Answered
<1>5. CASE /\ BarGaps(all, q) # {}
           /\ page' = [page EXCEPT ![r] = in]
           /\ todo' = [todo EXCEPT ![r] = BarGaps(all, q)]
           /\ GoTo(r, "fill")
  <2>1. at'[r] = "fill" /\ page'[r] = in /\ todo'[r] = BarGaps(all, q)
    BY <1>0, <1>5 DEF GoTo, BarsInv, PerCaller
  <2>2. Ranged(q)
    BY <1>5 DEF BarGaps
  <2>3. /\ \A g \in BarGaps(all, q) :
             /\ g = Gap(g.from, g.to) /\ g.from \in Nat \ {0} /\ g.to \in Nat \ {0}
             /\ g.to = q.to \/ g.to + 1 \in ToSet(in)
        /\ \A d \in Nat :
             Inside(d, q) => Near(d, ToSet(in)) \/ \E g \in BarGaps(all, q) : Within(d, g)
    BY <1>1, <1>2, <2>2, GapsAre DEF Within
  <2>4. \A d \in Due(q) : d \in Nat /\ Inside(d, q)
    BY KLineAssumption DEF Due
  <2>5. Due(q)' = Due(q)
    BY <1>0 DEF Due
  <2>. QED BY <1>0, <1>1, <1>3, <2>1, <2>3, <2>4, <2>5 DEF CoverInv, Covers, Answered
<1>6. CASE GoTo(r, "group")
  <2>1. at'[r] = "group"
    BY <1>0, <1>6 DEF GoTo, BarsInv, PerCaller
  <2>. QED BY <1>0, <1>1, <1>3, <2>1 DEF CoverInv, Covers, Due, Answered, Holding
<1>7. \/ LocalCovers(all, q) /\ page' = [page EXCEPT ![r] = Slice(in, q)] /\ GoTo(r, "put local")
      \/ /\ BarGaps(all, q) # {}
         /\ page' = [page EXCEPT ![r] = in]
         /\ todo' = [todo EXCEPT ![r] = BarGaps(all, q)]
         /\ GoTo(r, "fill")
      \/ GoTo(r, "group")
  <2> DEFINE found == IF all = <<>> THEN {} ELSE BarGaps(all, q)
  <2>1. found # {} => found = BarGaps(all, q)
    OBVIOUS
  <2>2. \/ LocalCovers(all, q) /\ page' = [page EXCEPT ![r] = Slice(in, q)] /\ GoTo(r, "put local")
        \/ /\ found # {}
           /\ page' = [page EXCEPT ![r] = in] /\ todo' = [todo EXCEPT ![r] = found]
           /\ GoTo(r, "fill")
        \/ GoTo(r, "group")
    BY DEF QueryBars
  <2>. QED BY <2>1, <2>2
<1>. QED BY <1>4, <1>5, <1>6, <1>7

(* A gap that is fetched is filled, but for the bar of its last day: that    *)
(* one is close to the bar after the gap, or outside the range.              *)
LEMMA FillGapCovers ==
  ASSUME HolesInv, NEW r \in Caller, FillGap(r)
  PROVE  CoverInv(r)'
<1> DEFINE q == asked[r]
           Least(g) == \A h \in todo[r] : g.from <= h.from
           gap == CHOOSE g \in todo[r] : Least(g)
           part == [start |-> 0, count |-> 0, from |-> gap.from, to |-> gap.to]
           got == Fetch(Upstream(today), part)
<1>1. /\ BarsInv /\ CoverInv(r) /\ at[r] = "fill" /\ todo[r] # {}
      /\ UNCHANGED <<today, at, asked, page, answer, groupVars>>
      /\ todo' = [todo EXCEPT ![r] = @ \ {gap}]
      /\ filling' = [filling EXCEPT ![r] = @ \cup ToSet(got)]
  BY DEF HolesInv, FillGap
<1>2. \A g \in todo[r] : /\ g.from \in Nat \ {0} /\ g.to \in Nat \ {0}
                         /\ g.to = q.to \/ g.to + 1 \in ToSet(page[r])
  BY <1>1 DEF CoverInv
<1>3. gap \in todo[r]
  <2> DEFINE starts == {g.from : g \in todo[r]}
  <2>1. starts \in SUBSET Nat /\ starts # {}
    BY <1>1, <1>2
  <2>2. PICK i \in starts : \A j \in starts : i <= j
    BY <2>1, LeastNatural
  <2>3. \E g \in todo[r] : Least(g)
    BY <2>2
  <2> HIDE DEF Least
  <2>. QED BY <2>3
<1>4. IsRequest(part) /\ Whole(part) /\ today \in Trading
  BY <1>1, <1>2, <1>3 DEF IsRequest, Whole, Ranged, BarsInv
<1>5. \A d \in Due(part) : d \in ToSet(got)
  BY <1>4, FetchCovers
<1>6. part.from = gap.from /\ part.to = gap.to
  OBVIOUS
<1> HIDE DEF gap, part, got
<1>7. q \in Requests[r] /\ q.to # 0
  BY <1>1 DEF BarsInv, CallerInv, Ranged
<1>8. ASSUME NEW d \in Due(q), Within(d, gap)
      PROVE  d \in ToSet(got) \/ Near(d, ToSet(page[r]))
  <2>1. d \in Trading /\ d \in Nat /\ d <= today /\ ~After(d, q.to)
    BY <1>7, KLineAssumption DEF Due, Inside
  <2>2. d >= gap.from /\ d <= gap.to /\ gap.to \in Nat \ {0} /\ gap.from \in Nat
    BY <1>2, <1>3, <1>8 DEF Within
  <2>3. CASE ~After(d, gap.to)
    <3>1. d \in Due(part)
      BY <1>6, <2>1, <2>2, <2>3 DEF Due, Inside
    <3>. QED BY <1>5, <3>1
  <2>4. CASE After(d, gap.to)
    <3>1. d = gap.to /\ gap.to + 1 \in ToSet(page[r])
      BY <1>2, <1>3, <2>1, <2>2, <2>4 DEF After
    <3>2. PICK a \in ToSet(page[r]) : a = gap.to + 1
      BY <3>1
    <3>3. a - d \in -MaxGap..MaxGap
      BY <2>2, <3>1, <3>2, KLineAssumption
    <3>. QED BY <3>3 DEF Near
  <2>. QED BY <2>3, <2>4
<1>9. todo'[r] = todo[r] \ {gap} /\ filling'[r] = filling[r] \cup ToSet(got)
  BY <1>1 DEF BarsInv, PerCaller
<1>10. ASSUME NEW d \in Due(q)
       PROVE  \/ d \in filling'[r] \/ Near(d, ToSet(page[r]))
              \/ \E g \in todo'[r] : Within(d, g)
  <2>1. d \in filling[r] \/ Near(d, ToSet(page[r])) \/ \E g \in todo[r] : Within(d, g)
    BY <1>1 DEF CoverInv
  <2>. QED BY <1>8, <1>9, <2>1
<1>11. step'[r] = step[r] /\ at'[r] = "fill" /\ step[r] = "out" /\ answer' = answer
  BY <1>1, OutsideIsOut DEF groupVars
<1>12. Due(q)' = Due(q) /\ page' = page /\ asked' = asked
  BY <1>1 DEF Due
<1>13. \A g \in todo'[r] :
         /\ g = Gap(g.from, g.to) /\ g.from \in Nat \ {0} /\ g.to \in Nat \ {0}
         /\ g.to = q.to \/ g.to + 1 \in ToSet(page[r])
  BY <1>1, <1>9 DEF CoverInv
<1>14. Answered(r) /\ Whole(q) => Covers(answer[r], q)
  BY <1>1 DEF CoverInv
<1>. QED BY <1>10, <1>11, <1>12, <1>13, <1>14 DEF CoverInv, Covers, Answered

(* When no gap is left, what is held and filled in covers the range.         *)
LEMMA PutFilledCovers ==
  ASSUME HolesInv, NEW r \in Caller, PutFilled(r)
  PROVE  CoverInv(r)'
<1> DEFINE q == asked[r]
           more == InRange(Bars(filling[r]), q)
           all == Bars(ToSet(page[r]) \cup ToSet(more))
           merged == Slice(all, q)
<1>1. /\ BarsInv /\ CoverInv(r) /\ at[r] = "fill" /\ todo[r] = {}
      /\ today' = today /\ asked' = asked /\ UNCHANGED groupVars
  BY DEF HolesInv, PutFilled
<1>2. q \in Requests[r] /\ IsRequest(q) /\ step'[r] = "out" /\ Good(page[r], q)
  BY <1>1, OutsideIsOut, RequestIs DEF BarsInv, CallerInv, groupVars, Bounded, Holding
<1>3. \/ at'[r] = "put local" /\ page'[r] = merged /\ answer' = answer
      \/ at'[r] = "idle" /\ answer'[r] = merged
  BY <1>1 DEF PutFilled, Answer, GoTo, BarsInv, PerCaller
<1>4. ToSet(more) = {d \in filling[r] \cap Day : Inside(d, q)}
  <2>1. Sorted(Bars(filling[r])) /\ ToSet(Bars(filling[r])) = filling[r] \cap Day
    BY BarsAre
  <2>. QED BY <2>1, InRangeIs
<1>5. ToSet(page[r]) \subseteq Day
  BY <1>2 DEF Good, Sorted, ToSet
<1> HIDE DEF more
<1>6. Sorted(all) /\ ToSet(all) = ToSet(page[r]) \cup ToSet(more)
  <2>1. Sorted(all) /\ ToSet(all) = (ToSet(page[r]) \cup ToSet(more)) \cap Day
    BY BarsAre
  <2> HIDE DEF all
  <2>. QED BY <1>4, <1>5, <2>1
<1> HIDE DEF all
<1>7. ASSUME Whole(q) PROVE Covers(merged, q)
  <2>1. merged = all
    BY <1>2, <1>6, <1>7, SliceIs DEF Whole
  <2>2. ASSUME NEW d \in Due(q) PROVE Near(d, ToSet(all))
    <3>1. d \in Day /\ d \in Nat /\ Inside(d, q)
      BY Days DEF Due
    <3>2. d \in filling[r] \/ Near(d, ToSet(page[r]))
      BY <1>1 DEF CoverInv
    <3>3. d \in filling[r] => d \in ToSet(all)
      BY <1>4, <1>6, <3>1
    <3>. QED BY <1>6, <3>1, <3>2, <3>3, HasIsNear, NearMore
  <2>. QED BY <2>1, <2>2 DEF Covers
<1> HIDE DEF merged
<1>8. Answered(r) /\ Whole(q) => Covers(answer[r], q)
  BY <1>1 DEF CoverInv
<1>9. Due(q)' = Due(q)
  BY <1>1 DEF Due
<1>. QED BY <1>1, <1>2, <1>3, <1>7, <1>8, <1>9 DEF CoverInv, Covers, Answered, Holding

(* A caller that enters the group gets a call that has not returned, or one  *)
(* that its maker got the result of.                                         *)
LEMMA EnterGroupCovers ==
  ASSUME HolesInv, NEW r \in Caller, EnterGroup(r)
  PROVE  CoverInv(r)'
<1> DEFINE q == asked[r]
           k == CacheKey(q)
<1>1. /\ BarsInv /\ CoverInv(r) /\ at[r] = "group" /\ value' = value
      /\ UNCHANGED <<today, readVars>>
      /\ Lead(r, k) \/ Join(r, k)
  BY DEF HolesInv, EnterGroup, Lead, Join
<1>2. q \in Requests[r] /\ k \in Key
  BY <1>1, RequestIs DEF BarsInv, CallerInv
<1>3. ASSUME value[call'[r]] \notin {None, Failed}, Whole(q) PROVE Covers(value[call'[r]], q)
  <2>1. CASE Lead(r, k)
    <3>1. made + 1 \in CallId /\ made + 1 \notin 1..made /\ call'[r] = made + 1
      BY <1>1, <2>1, GroupAssumption DEF Lead, BarsInv, GroupInv, GroupTypeOK, CallId
    <3>2. value[made + 1] = None
      BY <1>1, <3>1 DEF BarsInv, GroupInv, PendingHasLeader
    <3>. QED BY <1>3, <3>1, <3>2
  <2>2. CASE Join(r, k)
    <3>1. calls[k] # None /\ call'[r] = calls[k]
      BY <1>1, <2>2 DEF Join, BarsInv, GroupInv, GroupTypeOK
    <3>2. PICK s \in Caller : Leading(s) /\ call[s] = calls[k] /\ keyOf[calls[k]] = k
      BY <1>1, <1>2, <3>1 DEF BarsInv, GroupInv, MapHoldsLedCalls
    <3>3. step[s] # "out" /\ CacheKey(asked[s]) = k /\ asked[s] \in Requests[s]
      BY <1>1, <3>2 DEF Leading, BarsInv, CallerInv
    <3>4. Whole(asked[s]) /\ Due(asked[s]) = Due(q)
      BY <1>2, <1>3, <3>3, RequestIs, KeyCovers
    <3>5. Covers(value[call[s]], asked[s])
      BY <1>3, <3>1, <3>2, <3>3, <3>4 DEF HolesInv, CoverInv
    <3>. QED BY <3>1, <3>2, <3>4, <3>5 DEF Covers
  <2>. QED BY <1>1, <2>1, <2>2
<1> HIDE DEF k
<1>. QED BY <1>1, <1>3 DEF CoverInv, Covers, Due, Answered, Holding, readVars

(* What Do returns with covers the range.                                    *)
LEMMA GroupReturnsCovers ==
  ASSUME HolesInv, NEW r \in Caller, GroupReturns(r)
  PROVE  CoverInv(r)'
<1>1. BarsInv /\ CoverInv(r) /\ today' = today /\ asked' = asked
  BY DEF HolesInv, GroupReturns
<1>2. step[r] # "out" /\ Result(r) # None /\ step'[r] = "out"
  BY <1>1, ReturnsWithValue DEF GroupReturns, Returns, Leave, JoinReturns, BarsInv, GroupInv, GroupTypeOK
<1>3. Result(r) \notin {Failed, <<>>} /\ Whole(asked[r]) => Covers(Result(r), asked[r])
  BY <1>1, <1>2 DEF CoverInv, Result
<1>4. \/ at'[r] = "idle" /\ answer'[r] = Failed
      \/ /\ at'[r] = "put bars" /\ page'[r] = Result(r) /\ answer' = answer
         /\ Result(r) \notin {Failed, <<>>}
  BY <1>1 DEF GroupReturns, Answer, GoTo, BarsInv, PerCaller
<1>. QED BY <1>1, <1>2, <1>3, <1>4 DEF CoverInv, Covers, Due, Answered, Holding

(* What is stored, cached and answered covers the range: to slice it again   *)
(* takes nothing away.                                                       *)
LEMMA PutCovers ==
  ASSUME HolesInv, NEW r \in Caller, PutBars(r) \/ PutPage(r)
  PROVE  CoverInv(r)'
<1>1. /\ BarsInv /\ CoverInv(r) /\ today' = today /\ asked' = asked /\ UNCHANGED groupVars
      /\ at[r] \in {"put bars", "put local", "put remote"}
  BY DEF HolesInv, PutBars, PutPage
<1>2. /\ step'[r] = "out" /\ asked[r] \in Requests[r]
      /\ Bounded(asked[r]) => Sorted(page[r])
  BY <1>1, OutsideIsOut DEF BarsInv, CallerInv, groupVars, Holding, Good
<1>3. Whole(asked[r]) => Covers(page[r], asked[r])
  BY <1>1 DEF CoverInv, Holding
<1>4. Whole(asked[r]) => Slice(page[r], asked[r]) = page[r]
  BY <1>2, SliceIs, RequestIs DEF Whole, Bounded
<1>5. \/ at'[r] = "put remote" /\ page' = page /\ answer' = answer
      \/ at'[r] = "idle" /\ answer'[r] \in {page[r], Slice(page[r], asked[r])}
  BY <1>1 DEF PutBars, PutPage, GoTo, Answer, BarsInv, PerCaller
<1>. QED BY <1>1, <1>2, <1>3, <1>4, <1>5 DEF CoverInv, Covers, Due, Answered, Holding

(* To load, to give up and to be cancelled leaves the caller's bars alone;   *)
(* what a load returns covers its key.                                       *)
LEMMA LoadCovers ==
  ASSUME HolesInv, NEW r \in Caller, Load(r)
  PROVE  CoverInv(r)'
<1> DEFINE q == asked[r]
           c == call[r]
           k == keyOf[c]
           got == Fetch(Upstream(today), k)
<1>1. /\ BarsInv /\ CoverInv(r) /\ step[r] = "loading" /\ call' = call
      /\ UNCHANGED <<today, readVars>>
      /\ \E v \in {Failed, got} : value' = [value EXCEPT ![c] = v]
  BY DEF HolesInv, Load, LoadReturns
<1>2. c \in CallId /\ DOMAIN value = CallId /\ q \in Requests[r] /\ k = CacheKey(q) /\ at[r] = "group"
  BY <1>1, InsideDo DEF BarsInv, GroupInv, GroupTypeOK, CallerInv
<1>3. ASSUME Whole(q) PROVE Covers(got, q)
  <2>1. IsRequest(k) /\ Whole(k) /\ Due(k) = Due(q)
    <3>1. CacheKey(q) \in Key /\ Whole(CacheKey(q))
      BY <1>2, <1>3, RequestIs
    <3>. QED BY <1>2, <3>1, KeyCovers, KLineAssumption DEF IsRequest
  <2>2. \A d \in Due(k) : d \in ToSet(got) /\ d \in Nat
    BY <1>1, <2>1, FetchCovers, KLineAssumption DEF BarsInv, Due
  <2> HIDE DEF got, k
  <2>. QED BY <2>1, <2>2, HasIsNear DEF Covers
<1> HIDE DEF got
<1>4. value'[c] \in {Failed, got}
  BY <1>1, <1>2
<1>. QED BY <1>1, <1>2, <1>3, <1>4 DEF CoverInv, Covers, Due, Answered, Holding, readVars

(* A step of a caller keeps everything that callers rely on.                 *)
LEMMA CallersKeepCover ==
  ASSUME HolesInv, NEW r \in Caller, CallerStep(r)
  PROVE  HolesInv'
<1>1. BarsInv'
  BY CallersKeepBars DEF HolesInv
<1>2. CASE FillFails(r) \/ Cancelled(r)
  <2>1. at[r] # "group" /\ at'[r] = "idle" /\ answer'[r] = Failed /\ step' = step
    BY <1>2 DEF FillFails, Cancelled, Answer, groupVars, HolesInv, BarsInv, PerCaller
  <2>2. step[r] = "out"
    BY <2>1, OutsideIsOut DEF HolesInv
  <2>. QED BY <1>1, <2>1, <2>2, OthersKeepCover DEF HolesInv, CoverInv, Answered, Holding
<1>3. CASE ~(FillFails(r) \/ Cancelled(r))
  <2>1. CoverInv(r)'
    BY <1>3, ReadCacheCovers, QueryBarsCovers, FillGapCovers, PutFilledCovers, EnterGroupCovers,
       LoadCovers, GroupReturnsCovers, PutCovers DEF CallerStep
  <2>. QED BY <1>1, <2>1, OthersKeepCover DEF HolesInv
<1>. QED BY <1>2, <1>3

(* Nobody relies on anything when a day ends.                                *)
LEMMA TimeKeepsCover ==
  ASSUME HolesInv, (\E k \in Key : Expire(k)) \/ NextDay \/ UNCHANGED vars
  PROVE  HolesInv'
<1>1. BarsInv' /\ BarsInv
  BY TimeKeepsBars DEF HolesInv
<1>2. CASE UNCHANGED <<groupVars, today, readVars>>
  BY <1>1, <1>2 DEF HolesInv, CoverInv, Covers, Due, Answered, groupVars, readVars
<1>3. CASE NextDay
  <2>1. /\ \A r \in Caller : at[r] = "idle" /\ step[r] = "out"
        /\ UNCHANGED <<at, step>> /\ \A r \in Caller : answer'[r] = None
    BY <1>1, <1>3, OutsideIsOut DEF NextDay, groupVars
  <2>. QED BY <1>1, <2>1 DEF HolesInv, CoverInv, Answered, Holding
<1>. QED BY <1>2, <1>3 DEF Expire, vars

(* A range is never answered with a long hole: a day that the upstream has,  *)
(* and that the answer lacks, is within maxDailyBarGap of one that it has,   *)
(* be the answer from the cache, the store, the filled gaps or the upstream  *)
(* (market_data.go:597-630).                                                 *)
THEOREM AnswersHaveNoLongHoles == Spec => []HolesAreShort
<1>1. HolesInv /\ [Next]_vars => HolesInv'
  <2> SUFFICES ASSUME HolesInv, [Next]_vars PROVE HolesInv'
    OBVIOUS
  <2>1. ASSUME NEW r \in Caller, CallerStep(r) PROVE HolesInv'
    BY <2>1, CallersKeepCover
  <2>. QED BY <2>1, TimeKeepsCover DEF Next, CallerStep
<1>2. ASSUME HolesInv PROVE HolesAreShort
  <2> SUFFICES ASSUME NEW r \in Caller, Answered(r), Whole(asked[r]),
                      NEW d \in ToSet(InRange(Upstream(today), asked[r]))
               PROVE  Near(d, ToSet(answer[r]))
    BY DEF HolesAreShort, Whole, Near
  <2>1. Sorted(Upstream(today)) /\ ToSet(Upstream(today)) = (Trading \cap 1..today) \cap Day
    BY BarsAre DEF Upstream
  <2>2. d \in Trading /\ d \in 1..today /\ Inside(d, asked[r])
    BY <2>1, InRangeIs
  <2>3. d \in Due(asked[r])
    BY <1>2, <2>2 DEF Due
  <2>. QED BY <1>2, <2>3 DEF HolesInv, CoverInv, Covers
<1>. QED BY <1>1, <1>2, HolesInitially, PTL DEF Spec
=============================================================================
