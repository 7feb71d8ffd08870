---------------------------- MODULE HistoryTicks ----------------------------
(***************************************************************************)
(* GetHistoryTicks of internal/service/market_data.go: the ticks of one    *)
(* symbol on one trading day, from the cache, from the history store       *)
(* (internal/history/memory_store.go, internal/storage/sql_store.go), or   *)
(* from the upstream, through a CallGroup.                                 *)
(*                                                                         *)
(* The ticks of the day are numbered 1..Len(Minute) in their order; several *)
(* may be of the same minute, which is all their timestamps tell.  A store *)
(* row is identified by a minute and a sequence number.                    *)
(***************************************************************************)
EXTENDS Naturals, Sequences, SequencesExt, FiniteSets

CONSTANTS
  Reader,          \* concurrent requests
  None,
  Failed,          \* an error answer
  Minute,          \* the minute of each tick of the day
  Requests,        \* the requests each reader makes: [start, count, full, force]
  DefaultCount,    \* defaultHistoryTickCount
  StickyCoverage,  \* whether "missing" leaves "covered" alone, as the SQL store does
  MaxCalls         \* bound on the loads

ASSUME HistoryAssumption ==
  /\ Minute \in Seq(Nat) /\ StickyCoverage \in BOOLEAN
  /\ DefaultCount \in Nat \ {0} /\ MaxCalls \in Nat
  /\ None \notin Nat /\ None \notin Seq(DOMAIN Minute) \cup {Failed}
  /\ \A i, j \in DOMAIN Minute : i < j => Minute[i] <= Minute[j]
  /\ \A r \in Reader : \A q \in Requests[r] :
       {q.start, q.count} \subseteq Nat /\ {q.full, q.force} \subseteq BOOLEAN

Tick == DOMAIN Minute
Day == [i \in Tick |-> i]

(* historyTickCacheKey: whether the caller wants fresh ticks is not in it.   *)
CacheKey(q) == [start |-> q.start, count |-> q.count, full |-> q.full]
Keys == {CacheKey(q) : q \in UNION {Requests[r] : r \in Reader}}

VARIABLES
  step, call, calls, made, keyOf, value,   \* of the CallGroup
  cache,       \* Memory.tickPages, by cache key
  store,       \* the rows of the day: from minute and sequence to a tick
  covered,     \* the day's coverage is "covered" with the marker "full"
  queued,      \* the day has a backfill task
  at,          \* where each reader is in GetHistoryTicks
  asked,       \* its request
  page,        \* the ticks it holds
  answer       \* what it was answered last

INSTANCE CallGroup WITH Caller <- Reader, Key <- Keys,
                        Value <- Seq(Tick) \cup {Failed}

doVars == <<step, call, calls, made, keyOf, value>>
vars == <<doVars, cache, store, covered, queued, at, asked, page, answer>>

Init ==
  /\ GroupInit
  /\ cache = [k \in Keys |-> None]
  /\ store = <<>>
  /\ covered = FALSE
  /\ queued = FALSE
  /\ at = [r \in Reader |-> "idle"]
  /\ asked = [r \in Reader |-> None]
  /\ page = [r \in Reader |-> <<>>]
  /\ answer = [r \in Reader |-> None]

-----------------------------------------------------------------------------
(* Reading and writing the store *)

Earlier(x, y) == x[1] < y[1] \/ (x[1] = y[1] /\ x[2] < y[2])

(* The stored ticks in the order of their minutes and sequence numbers: the  *)
(* place of a row is how many rows are before it.                            *)
Rows ==
  LET Place(k) == Cardinality({l \in DOMAIN store : Earlier(l, k)})
  IN  [i \in 1..Cardinality(DOMAIN store) |->
         store[CHOOSE k \in DOMAIN store : Place(k) = i - 1]]

(* At most limit ticks after the first "from"; no limit when it is 0.        *)
Slice(ticks, from, limit) ==
  LET n == Len(ticks)
  IN  SubSeq(ticks, from + 1,
             IF limit = 0 \/ from + limit > n THEN n ELSE from + limit)

LocalLimit(q) ==
  IF q.full THEN 0 ELSE IF q.count = 0 THEN DefaultCount ELSE q.count

(* MemoryStore.QueryTicks: the rows from q.start on, at most the limit.      *)
QueryTicks(q) == Slice(Rows, q.start, LocalLimit(q))

Covers_TooFew(ticks, q) ==
  /\ ticks # <<>>
  /\ covered \/ (~q.full /\ Len(ticks) + 1 >= LocalLimit(q))
(* historyTicksCoverRequest.                                                 *)
Covers(ticks, q) ==
  /\ ticks # <<>>
  /\ covered \/ (~q.full /\ Len(ticks) >= LocalLimit(q))

(* What the upstream has for a key; ticks are numbered from the start.       *)
Upstream(k) ==
  IF k.full THEN Day ELSE Slice(Day, k.start, LocalLimit(k))

WithRows_ByMinute(ticks) ==
  LET Row(m) == CHOOSE i \in DOMAIN ticks : Minute[ticks[i]] = m
  IN  [k \in {<<Minute[ticks[i]], 1>> : i \in DOMAIN ticks} |-> ticks[Row(k[1])]]

WithRows_Appended(ticks) ==
  LET n == IF store = <<>> THEN 0 ELSE Len(Minute)
      New == {<<Minute[ticks[i]], n + i>> : i \in DOMAIN ticks}
  IN  [k \in DOMAIN store \cup New |-> IF k \in New THEN ticks[k[2] - n] ELSE store[k]]

(* PutTicks: the sequence number of a row is the tick's place in its page.   *)
WithRows(ticks) ==
  LET RowKeys == {<<Minute[ticks[i]], i>> : i \in DOMAIN ticks}
      Old == DOMAIN store \ RowKeys
  IN  [k \in RowKeys \cup Old |-> IF k \in Old THEN store[k] ELSE ticks[k[2]]]

-----------------------------------------------------------------------------
(* GetHistoryTicks *)

Answer(r, ticks) ==
  /\ at' = [at EXCEPT ![r] = "idle"]
  /\ answer' = [answer EXCEPT ![r] = ticks]

(* A backfill task is enqueued; its error is dropped.                        *)
MayQueue == queued' \in {queued, TRUE}

GoTo(r, next) == at' = [at EXCEPT ![r] = next] /\ UNCHANGED answer

(* A request begins with the cached page of its key, if it may use one.      *)
ReadCache(r, q) ==
  /\ at[r] = "idle"
  /\ asked' = [asked EXCEPT ![r] = q]
  /\ LET hit == ~q.force /\ cache[CacheKey(q)] # None
     IN  /\ page' = [page EXCEPT ![r] = IF hit THEN cache[CacheKey(q)] ELSE <<>>]
         /\ at' = [at EXCEPT ![r] = IF q.force THEN "group"
                                    ELSE IF hit THEN "check cached" ELSE "query"]
  /\ answer' = [answer EXCEPT ![r] = None]
  /\ UNCHANGED <<doVars, queued, cache, store, covered>>

(* The cached page is the answer if the day's coverage, read now, lets it.   *)
CheckCached(r) ==
  /\ at[r] = "check cached"
  /\ IF Covers(page[r], asked[r]) THEN Answer(r, page[r]) ELSE GoTo(r, "query")
  /\ UNCHANGED <<doVars, queued, cache, store, covered, asked, page>>

(* The rows are read; the coverage is read in a later step.                  *)
QueryLocal(r) ==
  /\ at[r] = "query"
  /\ page' = [page EXCEPT ![r] = QueryTicks(asked[r])]
  /\ GoTo(r, "check local")
  /\ UNCHANGED <<doVars, queued, cache, store, covered, asked>>

CheckLocal(r) ==
  /\ at[r] = "check local"
  /\ GoTo(r, IF Covers(page[r], asked[r]) THEN "put page" ELSE "group")
  /\ UNCHANGED <<doVars, queued, cache, store, covered, asked, page>>

EnterGroup(r) ==
  /\ at[r] = "group"
  /\ Lead(r, CacheKey(asked[r])) \/ Join(r, CacheKey(asked[r]))
  /\ UNCHANGED <<queued, cache, store, covered, at, asked, page, answer>>

(* The upstream has the ticks, or answers nothing, or fails.                 *)
Load(r) ==
  /\ step[r] = "loading"
  /\ \E v \in {Upstream(keyOf[call[r]]), <<>>, Failed} : LoadReturns(r, v)
  /\ UNCHANGED <<queued, cache, store, covered, at, asked, page, answer>>

GroupReturns_CoverageFirst(r) ==
  /\ Returns(r)
  /\ \/ Result(r) = Failed /\ Answer(r, Failed) /\ MayQueue /\ UNCHANGED page
     \/ Result(r) = <<>> /\ GoTo(r, "put missing") /\ UNCHANGED <<page, queued>>
     \/ /\ Result(r) \notin {Failed, <<>>}
        /\ page' = [page EXCEPT ![r] = Result(r)]
        /\ GoTo(r, IF asked[r].full THEN "put coverage" ELSE "put ticks")
        /\ UNCHANGED queued
  /\ UNCHANGED <<cache, store, covered, asked>>

(* Do returns: an error is answered, and a backfill queued; an empty answer  *)
(* is recorded as missing; ticks are stored by each reader that was merged.  *)
GroupReturns(r) ==
  /\ Returns(r)
  /\ \/ Result(r) = Failed /\ Answer(r, Failed) /\ MayQueue /\ UNCHANGED page
     \/ Result(r) = <<>> /\ GoTo(r, "put missing") /\ UNCHANGED <<page, queued>>
     \/ /\ Result(r) \notin {Failed, <<>>}
        /\ page' = [page EXCEPT ![r] = Result(r)]
        /\ GoTo(r, "put ticks")
        /\ UNCHANGED queued
  /\ UNCHANGED <<cache, store, covered, asked>>

(* upsertCoverage: whether the day is covered after it has been recorded as  *)
(* covered or as missing.  MemoryStore replaces what was recorded before.    *)
Recorded(full) == full \/ (covered /\ StickyCoverage)

PutMissing(r) ==
  /\ at[r] = "put missing"
  /\ covered' = Recorded(FALSE)
  /\ Answer(r, Failed)
  /\ UNCHANGED <<doVars, queued, cache, store, asked, page>>

(* The ticks are stored; the day is then covered if all were asked for.      *)
PutTicks(r) ==
  /\ at[r] = "put ticks"
  /\ store' = WithRows(page[r])
  /\ GoTo(r, IF asked[r].full THEN "put coverage" ELSE "put page")
  /\ UNCHANGED <<doVars, queued, cache, covered, asked, page>>

PutCoverage(r) ==
  /\ at[r] = "put coverage"
  /\ covered' = Recorded(TRUE)
  /\ GoTo(r, "put page")
  /\ UNCHANGED <<doVars, queued, cache, store, asked, page>>

(* The answer is cached under its key and returned.                          *)
PutPage(r) ==
  /\ at[r] = "put page"
  /\ cache' = [cache EXCEPT ![CacheKey(asked[r])] = page[r]]
  /\ Answer(r, page[r])
  /\ UNCHANGED <<doVars, queued, store, covered, asked, page>>

(* The request is cancelled: the next call it makes fails with its context.  *)
Cancelled(r) ==
  /\ at[r] # "idle" /\ step[r] = "out"
  /\ Answer(r, Failed)
  /\ UNCHANGED <<doVars, queued, cache, store, covered, asked, page>>

(* A cached page expires.                                                    *)
Expire(k) ==
  /\ cache[k] # None
  /\ cache' = [cache EXCEPT ![k] = None]
  /\ UNCHANGED <<doVars, queued, store, covered, at, asked, page, answer>>

Next ==
  \/ \E r \in Reader :
       \/ \E q \in Requests[r] : ReadCache(r, q)
       \/ CheckCached(r) \/ QueryLocal(r) \/ CheckLocal(r)
       \/ EnterGroup(r) \/ Load(r) \/ GroupReturns(r)
       \/ PutMissing(r) \/ PutTicks(r) \/ PutCoverage(r) \/ PutPage(r)
       \/ Cancelled(r)
  \/ \E k \in Keys : Expire(k)

Spec == Init /\ [][Next]_vars

-----------------------------------------------------------------------------
(* Properties *)

(* A full request is answered with the whole day (market_data.go:535-538).   *)
FullAnswersAreWhole ==
  \A r \in Reader :
    answer[r] \notin {None, Failed} /\ asked[r].full => ToSet(answer[r]) = Tick

(* A page is answered with the ticks it would have been answered with by     *)
(* the upstream, be it served from the cache, the store or the upstream      *)
(* (market_data.go:539-543).                                                 *)
PageAnswersMatch ==
  \A r \in Reader :
    answer[r] \notin {None, Failed} /\ ~asked[r].full =>
      answer[r] = Upstream(CacheKey(asked[r]))

(* No answer holds a tick twice (memory_store.go:149-161).                   *)
NoTickTwice ==
  \A r \in Reader :
    answer[r] \notin {None, Failed} =>
      \A i, j \in DOMAIN answer[r] : answer[r][i] = answer[r][j] => i = j

(* A day that is recorded as fully covered has every tick in the store:      *)
(* the coverage is written last, and no later write of a page takes a tick   *)
(* away (market_data.go:217-225).                                            *)
CoveredMeansStored ==
  covered => Tick \subseteq {store[k] : k \in DOMAIN store}

=============================================================================
