-------------------------------- MODULE KLine --------------------------------
(***************************************************************************)
(* getBars of internal/service/market_data.go: the daily bars of one       *)
(* symbol under one adjustment, from the cache, from the history store     *)
(* with its gaps filled from the upstream, or from the upstream through a  *)
(* CallGroup; and getBars of internal/provider/gotdx/provider.go, which    *)
(* pages the upstream from its newest bar backwards.                       *)
(*                                                                         *)
(* A day is a number and a date is the midnight it starts with; 0 is no    *)
(* date.  A bar is represented by its day.                                 *)
(***************************************************************************)
EXTENDS CallGroup, Subsequences, Integers, SequencesExt, FiniteSetsExt

CONSTANTS
  Failed,          \* an error answer
  Trading,         \* the days that have a bar, once they are over
  AtClose,         \* whether a bar's time is the close of its day, not midnight
  Requests,        \* what each caller may ask: [start, count, from, to, force]
  MaxGap,          \* maxDailyBarGap, in days
  MaxPage,         \* maxGotdxKLineCount
  DefaultCount     \* defaultKLineCount

(* barCacheKey: whether the caller wants fresh bars is not in it.            *)
CacheKey(q) == [start |-> q.start, count |-> q.count, from |-> q.from, to |-> q.to]

VARIABLES
  today,       \* the last day that is over
  cache,       \* Memory.barRanges, by key
  store,       \* the days whose bars are stored
  queued,      \* a backfill task was enqueued
  at,          \* where each caller is in getBars
  asked,       \* its request
  page,        \* the bars it holds
  gaps,        \* the gaps it found in the store
  todo,        \* those it has yet to fetch
  filling,     \* the days it fetched for them
  answer       \* what it was answered last

readVars == <<at, asked, page, gaps, todo, filling, answer>>
vars == <<groupVars, today, cache, store, queued, readVars>>

Init ==
  /\ GroupInit
  /\ today \in Trading
  /\ cache = [k \in Key |-> None]
  /\ store = {}
  /\ queued = FALSE
  /\ at = [r \in Caller |-> "idle"]
  /\ asked = [r \in Caller |-> None]
  /\ page = [r \in Caller |-> <<>>]
  /\ gaps = [r \in Caller |-> {}]
  /\ todo = [r \in Caller |-> {}]
  /\ filling = [r \in Caller |-> {}]
  /\ answer = [r \in Caller |-> None]

-----------------------------------------------------------------------------
(* Bars *)

(* The bars of some days, oldest first.                                      *)
Bars(days) == Kept([d \in 1..Max(Trading) |-> d], days)

(* Whether the bar of day d is after a date.                                 *)
After(d, date) == d > date \/ (AtClose /\ d = date)

(* The store after bars have been put: a bar of the same day is replaced.    *)
WithBars(days) == store \cup days

Inside(d, q) == (q.from = 0 \/ d >= q.from) /\ (q.to = 0 \/ ~After(d, q.to))

(* filterBarsByDate.                                                         *)
InRange(bars, q) == Kept(bars, {i \in DOMAIN bars : Inside(bars[i], q)})

(* QueryBars of the store: the bars up to a date, oldest first; no limit if  *)
(* it is 0.                                                                  *)
StoredUntil(to) == Bars({d \in store : to = 0 \/ ~After(d, to)})

(* sliceBarsByStartCount; no limit when the count is 0.                      *)
Slice(bars, q) ==
  LET n == Len(bars)
  IN  SubSeq(bars, q.start + 1,
             IF q.count = 0 \/ q.start + q.count > n THEN n ELSE q.start + q.count)

Ranged(q) == q.from # 0 /\ q.to # 0
Gap(from, to) == [from |-> from, to |-> to]

BarGaps_Between(bars, q) ==
  LET in == InRange(bars, q)
      Holes == {i \in 1..Len(in) - 1 : in[i + 1] - in[i] > MaxGap}
  IN  IF ~Ranged(q) \/ q.to < q.from THEN {}
      ELSE IF in = <<>> THEN {Gap(q.from, q.to)}
      ELSE {Gap(in[i] + 1, in[i + 1] - 1) : i \in Holes}

(* barGapsForRequest: what comes before the first bar, the long holes, and a *)
(* long tail.                                                                *)
BarGaps(bars, q) ==
  LET in == InRange(bars, q)
      n == Len(in)
      Holes == {i \in 1..n - 1 : in[i + 1] - in[i] > MaxGap}
  IN  IF ~Ranged(q) \/ q.to < q.from THEN {}
      ELSE IF in = <<>> THEN {Gap(q.from, q.to)}
      ELSE (IF in[1] > q.from THEN {Gap(q.from, in[1] - 1)} ELSE {})
           \cup {Gap(in[i] + 1, in[i + 1] - 1) : i \in Holes}
           \cup (IF q.to - in[n] > MaxGap THEN {Gap(in[n] + 1, q.to)} ELSE {})

(* localBarsCoverRequest: bars are those up to the end of the request.       *)
LocalCovers(bars, q) ==
  LET local == InRange(bars, q)
  IN  /\ local # <<>>
      /\ q.from = 0 \/ bars[1] <= q.from
      /\ q.count = 0 \/ q.start + q.count <= Len(local)
      /\ BarGaps(bars, q) = {}

(* cachedBarsCoverRequest.                                                   *)
CachedCovers(bars, q) ==
  /\ bars # <<>>
  /\ q.count = 0 \/ q.start + q.count <= Len(bars)
  /\ q.from = 0 \/ bars[1] <= q.from
  /\ BarGaps(bars, q) = {}

-----------------------------------------------------------------------------
(* The upstream, which has the bars all: Provider.getBars *)

Newest(all, skip, count) ==
  LET n == Len(all) - skip
  IN  SubSeq(all, IF count < n THEN n - count + 1 ELSE 1, n)

(* fetchKLinePage: each page is in order, and the pages go back in time.     *)
FetchPages(all, start, count) ==
  LET Pages == (count + MaxPage - 1) \div MaxPage
      Size(i) == IF i < Pages THEN MaxPage ELSE count - (Pages - 1) * MaxPage
  IN  FlattenSeq([i \in 1..Pages |-> Newest(all, start + (i - 1) * MaxPage, Size(i))])

(* fetchKLineRange: whole pages from the newest back, until one reaches the  *)
(* date stop or is the last.                                                 *)
FetchRange(all, stop) ==
  LET Enough(k) == LET got == Newest(all, 0, k * MaxPage)
                   IN  Len(got) < k * MaxPage \/ ~After(got[1], stop)
      k == CHOOSE i \in 1..Len(all) + 1 : Enough(i) /\ \A j \in 1..i - 1 : ~Enough(j)
  IN  Newest(all, 0, k * MaxPage)

Fetch(all, q) ==
  LET items == IF q.from = 0 /\ q.to = 0
                 THEN FetchPages(all, q.start, IF q.count = 0 THEN DefaultCount ELSE q.count)
                 ELSE FetchRange(all, IF q.from = 0 THEN q.to ELSE q.from)
  IN  Slice(InRange(items, q), q)

(* The bars it has at the end of a day.                                      *)
Upstream(day) == Bars(Trading \cap 1..day)

ASSUME KLineAssumption ==
  /\ Trading \subseteq Nat \ {0} /\ IsFiniteSet(Trading) /\ Trading # {}
  /\ AtClose \in BOOLEAN
  /\ {MaxGap, MaxPage, DefaultCount} \subseteq Nat \ {0}
  /\ \A k \in Key : {k.start, k.count, k.from, k.to} \subseteq Nat
  /\ \A r \in Caller : \A q \in Requests[r] :
       CacheKey(q) \in Key /\ q = [start |-> q.start, count |-> q.count,
                                   from |-> q.from, to |-> q.to, force |-> q.force]
  /\ \A k \in Key, d \in Trading : Fetch(Upstream(d), k) \in Value
  /\ Failed \in Value

-----------------------------------------------------------------------------
(* MarketDataService.getBars *)

Answer(r, bars) ==
  /\ at' = [at EXCEPT ![r] = "idle"]
  /\ answer' = [answer EXCEPT ![r] = bars]
  /\ page' = [page EXCEPT ![r] = <<>>]
  /\ todo' = [todo EXCEPT ![r] = {}]
  /\ filling' = [filling EXCEPT ![r] = {}]

GoTo(r, next) == at' = [at EXCEPT ![r] = next] /\ UNCHANGED answer

(* A backfill task is enqueued; an error of that is dropped.                 *)
MayQueue == queued' \in {queued, TRUE}

(* A request begins with the cached bars of its key, if they cover it.  They *)
(* are sliced again.                                                         *)
ReadCache(r, q) ==
  /\ at[r] = "idle"
  /\ asked' = [asked EXCEPT ![r] = q]
  /\ gaps' = [gaps EXCEPT ![r] = {}]
  /\ LET bars == cache[CacheKey(q)]
     IN  IF ~q.force /\ bars # None /\ CachedCovers(bars, q)
           THEN Answer(r, Slice(bars, q))
           ELSE /\ at' = [at EXCEPT ![r] = IF q.force THEN "group" ELSE "query"]
                /\ answer' = [answer EXCEPT ![r] = None]
                /\ UNCHANGED <<page, todo, filling>>
  /\ UNCHANGED <<groupVars, today, cache, store, queued>>

(* The stored bars up to the end of the request cover it, or leave gaps to   *)
(* fill, or are too few, and the request goes upstream.                      *)
QueryBars(r) ==
  /\ at[r] = "query"
  /\ LET q == asked[r]
         all == StoredUntil(q.to)
         found == IF all = <<>> THEN {} ELSE BarGaps(all, q)
     IN  \/ /\ LocalCovers(all, q)
            /\ page' = [page EXCEPT ![r] = Slice(InRange(all, q), q)]
            /\ GoTo(r, "put local")
            /\ UNCHANGED <<gaps, todo>>
         \/ /\ ~LocalCovers(all, q) /\ found # {}
            /\ page' = [page EXCEPT ![r] = InRange(all, q)]
            /\ gaps' = [gaps EXCEPT ![r] = found]
            /\ todo' = [todo EXCEPT ![r] = found]
            /\ GoTo(r, "fill")
         \/ /\ ~LocalCovers(all, q) /\ found = {}
            /\ GoTo(r, "group")
            /\ UNCHANGED <<page, gaps, todo>>
  /\ UNCHANGED <<groupVars, today, cache, store, queued, asked, filling>>

(* fetchBarGaps: the gaps are fetched one by one, outside the group, with no *)
(* start or count; an error gives up all of them.                            *)
FillGap(r) ==
  /\ at[r] = "fill" /\ todo[r] # {}
  /\ LET gap == CHOOSE g \in todo[r] : \A h \in todo[r] : g.from <= h.from
         got == Fetch(Upstream(today), [start |-> 0, count |-> 0, from |-> gap.from, to |-> gap.to])
     IN  /\ todo' = [todo EXCEPT ![r] = @ \ {gap}]
         /\ filling' = [filling EXCEPT ![r] = @ \cup ToSet(got)]
  /\ UNCHANGED <<groupVars, today, cache, store, queued, at, asked, page, gaps, answer>>

FillFails(r) ==
  /\ at[r] = "fill" /\ todo[r] # {}
  /\ Answer(r, Failed)
  /\ MayQueue
  /\ UNCHANGED <<groupVars, today, cache, store, asked, gaps>>

PutFilled_Unsorted(r) ==
  /\ at[r] = "fill" /\ todo[r] = {}
  /\ store' = store \cup filling[r]
  /\ Answer(r, Slice(page[r] \o InRange(Bars(filling[r]), asked[r]), asked[r]))
  /\ UNCHANGED <<groupVars, today, cache, queued, asked, gaps>>

(* What was fetched is stored, and merged with the bars read before.  The    *)
(* result is cached only if it covers the request.                           *)
PutFilled(r) ==
  /\ at[r] = "fill" /\ todo[r] = {}
  /\ store' = WithBars(filling[r])
  /\ LET q == asked[r]
         merged == Slice(Bars(ToSet(page[r]) \cup ToSet(InRange(Bars(filling[r]), q))), q)
     IN  IF CachedCovers(merged, q)
           THEN /\ page' = [page EXCEPT ![r] = merged]
                /\ GoTo(r, "put local")
                /\ UNCHANGED <<todo, filling>>
           ELSE Answer(r, merged)
  /\ UNCHANGED <<groupVars, today, cache, queued, asked, gaps>>

EnterGroup(r) ==
  /\ at[r] = "group"
  /\ Lead(r, CacheKey(asked[r])) \/ Join(r, CacheKey(asked[r]))
  /\ UNCHANGED <<today, cache, store, queued, readVars>>

Load(r) ==
  /\ \/ LoadReturns(r, Failed)
     \/ LoadReturns(r, Fetch(Upstream(today), keyOf[call[r]]))
  /\ UNCHANGED <<today, cache, store, queued, readVars>>

(* Do returns: an error or no bars is answered, and a backfill queued.       *)
GroupReturns(r) ==
  /\ Returns(r)
  /\ \/ Result(r) \in {Failed, <<>>} /\ Answer(r, Failed) /\ MayQueue
     \/ /\ Result(r) \notin {Failed, <<>>}
        /\ page' = [page EXCEPT ![r] = Result(r)]
        /\ GoTo(r, "put bars")
        /\ UNCHANGED <<queued, todo, filling>>
  /\ UNCHANGED <<today, cache, store, asked, gaps>>

(* The bars are stored, and a coverage that no read of bars looks at.        *)
PutBars(r) ==
  /\ at[r] = "put bars"
  /\ store' = WithBars(ToSet(page[r]))
  /\ GoTo(r, "put remote")
  /\ UNCHANGED <<groupVars, today, cache, queued, asked, page, gaps, todo, filling>>

(* The bars are cached under the request's key and answered: those of the    *)
(* upstream are sliced again, after the provider has.                        *)
PutPage(r) ==
  /\ at[r] \in {"put local", "put remote"}
  /\ cache' = [cache EXCEPT ![CacheKey(asked[r])] = page[r]]
  /\ Answer(r, IF at[r] = "put local" THEN page[r] ELSE Slice(page[r], asked[r]))
  /\ UNCHANGED <<groupVars, today, store, queued, asked, gaps>>

(* The request is cancelled: the next call it makes fails with its context.  *)
(* In the group that is a load that fails.                                   *)
Cancelled(r) ==
  /\ at[r] \notin {"idle", "group"}
  /\ Answer(r, Failed)
  /\ UNCHANGED <<groupVars, today, cache, store, queued, asked, gaps>>

(* Cached bars expire.                                                       *)
Expire(k) ==
  /\ cache[k] # None
  /\ cache' = [cache EXCEPT ![k] = None]
  /\ UNCHANGED <<groupVars, today, store, queued, readVars>>

(* The next trading day is over, and has a bar.  No request lasts from one   *)
(* day to the next, and the answers given before are forgotten.              *)
NextDay ==
  /\ \A r \in Caller : at[r] = "idle"
  /\ answer' = [r \in Caller |-> None]
  /\ \E d \in Trading : d > today
  /\ today' = CHOOSE d \in Trading : d > today /\ \A e \in Trading : e > today => d <= e
  /\ UNCHANGED <<groupVars, cache, store, queued, at, asked, page, gaps, todo, filling>>

Next ==
  \/ \E r \in Caller :
       \/ \E q \in Requests[r] : ReadCache(r, q)
       \/ QueryBars(r) \/ FillGap(r) \/ FillFails(r) \/ PutFilled(r)
       \/ EnterGroup(r) \/ Load(r) \/ GroupReturns(r)
       \/ PutBars(r) \/ PutPage(r) \/ Cancelled(r)
  \/ \E k \in Key : Expire(k)
  \/ NextDay

Spec == Init /\ [][Next]_vars

(* An upstream call returns or times out, and Do returns what it gave.       *)
FairSpec ==
  /\ Spec
  /\ \A r \in Caller : WF_vars(Load(r)) /\ WF_vars(GroupReturns(r))

-----------------------------------------------------------------------------
(* Properties *)

Answered(r) == answer[r] \notin {None, Failed}

(* Answers are in the order of time, without repetition, and inside the      *)
(* range, however many pages and gaps they were put together from, unless    *)
(* more than a page was asked for without dates (mergeBars, fetchKLineRange, *)
(* sliceBarsByStartCount).                                                   *)
AnswersAscend ==
  \A r \in Caller :
    Answered(r) /\ (Ranged(asked[r]) \/ asked[r].count \in 1..MaxPage) =>
      Ascends(answer[r]) /\ InRange(answer[r], asked[r]) = answer[r]

(* A range is never answered with a long hole, unless only a slice of it was *)
(* asked for: a day that the upstream has, and that the answer lacks, is     *)
(* within maxDailyBarGap of one that it has, be the answer from the cache,   *)
(* the store, the filled gaps or the upstream (market_data.go:597-630).      *)
HolesAreShort ==
  \A r \in Caller :
    Answered(r) /\ Ranged(asked[r]) /\ asked[r].start = 0 /\ asked[r].count = 0 =>
      \A d \in ToSet(InRange(Upstream(today), asked[r])) :
        \E a \in ToSet(answer[r]) : a - d \in -MaxGap..MaxGap

(* A gap that was found between stored bars is filled: the answer has every  *)
(* bar that the upstream has in it (docs/MULTI_INSTANCE_REDIS_POSTGRES.md).  *)
GapsAreFilled ==
  \A r \in Caller :
    Answered(r) /\ asked[r].count = 0 =>
      \A g \in gaps[r] : g.to < asked[r].to =>
        Trading \cap g.from..g.to \cap 1..today \subseteq ToSet(answer[r])

=============================================================================
