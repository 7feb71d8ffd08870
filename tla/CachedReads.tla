---------------------------- MODULE CachedReads ----------------------------
(***************************************************************************)
(* The reads of internal/service/market_data.go that have a cache and no   *)
(* store behind them, over the caches of internal/cache/memory.go and      *)
(* redis.go.  A request takes what the cache has, loads what it lacks      *)
(* through a CallGroup, writes what the load gave to the cache, and is     *)
(* answered.  The readers are the callers of the group.  The reads differ  *)
(* in what one entry of the cache holds:                                   *)
(*   "each"  GetQuotes, GetOrderBook: one symbol, loaded with the others   *)
(*           that are missing;                                             *)
(*   "list"  GetSecurityInfo: all symbols of the markets asked about, of   *)
(*           which the answer is a part;                                   *)
(*   "page"  GetTicks, GetXDXR, GetFinance, GetTradingDay: what was asked. *)
(*                                                                         *)
(* A quote, a list's line or a page is represented by the time at which    *)
(* it was fetched.  The upstream answers every symbol it is asked for.     *)
(***************************************************************************)
EXTENDS Naturals, FiniteSets

CONSTANTS
  Reader,      \* concurrent requests
  Symbol,
  MarketOf,    \* the market of each symbol
  None,
  Failed,      \* the error of a load, or of the cache
  TTL,         \* QuoteTTL, TickTTL, ...
  MaxTime,     \* bound on the clock
  MaxCalls     \* bound on the loads

Time == 0..MaxTime
Symbols == (SUBSET Symbol) \ {{}}
Fetched == UNION {[ss -> Time] : ss \in SUBSET Symbol}

ASSUME ReadsAssumption ==
  /\ TTL \in Nat \ {0} /\ MaxTime \in Nat /\ MaxCalls \in Nat
  /\ None \notin Nat /\ None \notin Fetched \cup {Failed}
  /\ DOMAIN MarketOf = Symbol

(* A key of the cache and of the group.                                      *)
Entries == [of : Symbols, forced : BOOLEAN]

VARIABLES
  step, call, calls, made, keyOf, value,   \* of the CallGroup
  reads,       \* which reads the requests are: "each", "list" or "page"
  redis,       \* the cache is Redis
  now,
  cache,       \* the data of each key and when they expire, or None
  at,          \* where each reader is
  want,        \* what it asked for
  left,        \* the entries it has yet to read, or to write
  hits,        \* what the cache had
  loaded,      \* what the load gave
  answer       \* what it was answered last: data, Failed, None before that

INSTANCE CallGroup WITH Caller <- Reader, Key <- Entries,
                        Value <- Fetched \cup {Failed}

doVars == <<step, call, calls, made, keyOf, value>>
setup == <<reads, redis>>
vars == <<doVars, setup, now, cache, at, want, left, hits, loaded, answer>>

Idle == [symbols |-> {}, forced |-> FALSE]

(* GetQuotes and GetOrderBook have no force_refresh; pages are of a symbol.  *)
Requests ==
  {q \in [symbols : Symbols, forced : BOOLEAN] :
     /\ reads = "each" => ~q.forced
     /\ reads = "page" => Cardinality(q.symbols) = 1}

Init ==
  /\ GroupInit
  /\ reads \in {"each", "list", "page"}
  /\ redis \in IF reads = "each" THEN BOOLEAN ELSE {FALSE}   \* one entry: no difference
  /\ now = 0
  /\ cache = [k \in Entries |-> None]
  /\ at = [r \in Reader |-> "idle"]
  /\ want = [r \in Reader |-> Idle]
  /\ left = [r \in Reader |-> {}]
  /\ hits = [r \in Reader |-> <<>>]
  /\ loaded = [r \in Reader |-> <<>>]
  /\ answer = [r \in Reader |-> None]

-----------------------------------------------------------------------------

(* securityFetchQuery: a list is fetched for whole markets.                  *)
Scope(q) ==
  IF reads = "list"
    THEN {s \in Symbol : MarketOf[s] \in {MarketOf[x] : x \in q.symbols}}
    ELSE q.symbols

(* tickCacheKey has force_refresh in it, securityCacheKey has not.           *)
Forced(q) == q.forced /\ reads = "page"

(* The entries a request is about.                                           *)
EntriesOf(q) ==
  IF reads = "each"
    THEN {[of |-> {s}, forced |-> FALSE] : s \in q.symbols}
    ELSE {[of |-> Scope(q), forced |-> Forced(q)]}

Fresh(k) == cache[k] # None /\ now < cache[k].expiresAt

(* What f holds, and what only g holds.                                      *)
Over(f, g) == [s \in DOMAIN f \cup DOMAIN g |-> IF s \in DOMAIN f THEN f[s] ELSE g[s]]

(* The keys of ks that one call of the cache deals with: Memory holds its    *)
(* lock for all of them, Redis is sent a command for each.                   *)
Batches(ks) == IF redis THEN {{k} : k \in ks} ELSE {ks}

(* What the entries ks hold that have not expired.                           *)
Cached(ks) ==
  [s \in UNION {k.of : k \in {j \in ks : Fresh(j)}} |->
     LET k == CHOOSE k \in ks : s \in k.of IN cache[k].data[s]]

(* symbolsKey and the other keys under which a load is merged.               *)
MergeKey_First(r) ==
  [of |-> {CHOOSE s \in Scope(want[r]) \ DOMAIN hits[r] : TRUE}, forced |-> Forced(want[r])]
MergeKey(r) == [of |-> Scope(want[r]) \ DOMAIN hits[r], forced |-> Forced(want[r])]

(* What was loaded is preferred to what was cached, and all of it is kept.   *)
orderQuotes(symbols, cached, remote) ==
  Over(remote, [s \in symbols \cap DOMAIN cached |-> cached[s]])

filterSecurityInfo(items, symbols) == [s \in symbols \cap DOMAIN items |-> items[s]]

(* A list has been found as a whole or loaded as a whole.                    *)
Answer(r, new, old) ==
  IF reads = "list" THEN filterSecurityInfo(Over(new, old), want[r].symbols)
  ELSE orderQuotes(want[r].symbols, old, new)

-----------------------------------------------------------------------------

(* The request of r ends with the answer a; its locals are gone.             *)
Ends(r, a) ==
  /\ at' = [at EXCEPT ![r] = "idle"]
  /\ answer' = [answer EXCEPT ![r] = a]
  /\ left' = [left EXCEPT ![r] = {}]
  /\ hits' = [hits EXCEPT ![r] = <<>>]
  /\ loaded' = [loaded EXCEPT ![r] = <<>>]

(* A request is made.  One that is forced does not read the cache.           *)
Ask(r, q) ==
  /\ at[r] = "idle"
  /\ want' = [want EXCEPT ![r] = q]
  /\ left' = [left EXCEPT ![r] = EntriesOf(q)]
  /\ answer' = [answer EXCEPT ![r] = None]
  /\ at' = [at EXCEPT ![r] = IF q.forced THEN "group" ELSE "read"]
  /\ UNCHANGED <<doVars, setup, now, cache, hits, loaded>>

(* The cache is read, and answers the request if nothing is missing.         *)
Get(r) ==
  /\ at[r] = "read"
  /\ \E ks \in Batches(left[r]) :
       LET found == Over(Cached(ks), hits[r])
           rest  == left[r] \ ks
       IN  IF rest = {} /\ want[r].symbols \subseteq DOMAIN found
             THEN Ends(r, Answer(r, <<>>, found))
             ELSE /\ left' = [left EXCEPT ![r] = rest]
                  /\ hits' = [hits EXCEPT ![r] = found]
                  /\ at' = [at EXCEPT ![r] = IF rest = {} THEN "group" ELSE "read"]
                  /\ UNCHANGED <<answer, loaded>>
  /\ UNCHANGED <<doVars, setup, now, cache, want>>

(* The reader enters the group.  It does not look at the cache again.        *)
EnterGroup(r) ==
  /\ at[r] = "group"
  /\ Lead(r, MergeKey(r)) \/ Join(r, MergeKey(r))
  /\ UNCHANGED <<setup, now, cache, at, want, left, hits, loaded, answer>>

(* The upstream answers every symbol of the key, or the load fails.          *)
Load(r) ==
  /\ step[r] = "loading"
  /\ \/ LoadReturns(r, [s \in keyOf[call[r]].of |-> now])
     \/ LoadReturns(r, Failed)
  /\ UNCHANGED <<setup, now, cache, at, want, left, hits, loaded, answer>>

GroupReturns_All(r) ==
  /\ Returns(r)
  /\ IF Result(r) = Failed
       THEN Ends(r, Failed)
       ELSE /\ at' = [at EXCEPT ![r] = "put"]
            /\ loaded' = [loaded EXCEPT ![r] = Over(Result(r), hits[r])]
            /\ left' = [left EXCEPT ![r] = EntriesOf(want[r])]
            /\ UNCHANGED <<answer, hits>>
  /\ UNCHANGED <<setup, now, cache, want>>

(* Do returns.  An error is returned to the caller; data are first written   *)
(* to the cache, by the reader that led the load and by all that joined it.  *)
GroupReturns(r) ==
  /\ Returns(r)
  /\ IF Result(r) = Failed
       THEN Ends(r, Failed)
       ELSE /\ at' = [at EXCEPT ![r] = "put"]
            /\ loaded' = [loaded EXCEPT ![r] = Result(r)]
            /\ left' = [left EXCEPT ![r] = {k \in EntriesOf(want[r]) : k.of \subseteq DOMAIN Result(r)}]
            /\ UNCHANGED <<answer, hits>>
  /\ UNCHANGED <<setup, now, cache, want>>

NewEntry(data) == [data |-> data, expiresAt |-> now + TTL]

(* The cache after data have been written to its entries ks.                 *)
Written(ks, data) ==
  [k \in Entries |->
     IF k \in ks THEN NewEntry([s \in k.of |-> data[s]]) ELSE cache[k]]

(* What was loaded is written, and the request is answered.                  *)
Put(r) ==
  /\ at[r] = "put"
  /\ \E ks \in Batches(left[r]) :
       /\ cache' = Written(ks, loaded[r])
       /\ IF left[r] \subseteq ks
            THEN Ends(r, Answer(r, loaded[r], hits[r]))
            ELSE /\ left' = [left EXCEPT ![r] = left[r] \ ks]
                 /\ UNCHANGED <<at, answer, hits, loaded>>
  /\ UNCHANGED <<doVars, setup, now, want>>

(* The request is cancelled, which whatever it would do next finds out, or   *)
(* Redis answers a command with an error.  What was written stays.           *)
GiveUp(r) ==
  /\ at[r] # "idle" /\ step[r] = "out"
  /\ Ends(r, Failed)
  /\ UNCHANGED <<doVars, setup, now, cache, want>>

Tick ==
  /\ now < MaxTime
  /\ now' = now + 1
  /\ UNCHANGED <<doVars, setup, cache, at, want, left, hits, loaded, answer>>

ReadStep(r) ==
  \/ Get(r) \/ EnterGroup(r) \/ Load(r) \/ GroupReturns(r) \/ Put(r) \/ GiveUp(r)

Next ==
  \/ \E r \in Reader : ReadStep(r) \/ \E q \in Requests : Ask(r, q)
  \/ Tick

Spec == Init /\ [][Next]_vars

-----------------------------------------------------------------------------
(* Properties *)

(* An answer holds every symbol that was asked for and no other, although    *)
(* what the cache lacked may have been loaded by somebody else, for another  *)
(* request, and although a list was cached for a request that wanted a part  *)
(* of it (market_data.go:76, 90, 288, 304).                                  *)
AnswersComplete ==
  \A r \in Reader :
    answer[r] \notin {None, Failed} => DOMAIN answer[r] = want[r].symbols

(* Reading does not prolong the life of what is cached: an entry changes     *)
(* only when a reader that did not find it, or did not look, writes what a   *)
(* load of all of it gave (market_data.go:85-89, memory.go:141-156).         *)
NoSlidingExpiry ==
  [][\A k \in Entries :
       cache'[k] # cache[k] =>
         \E r \in Reader, c \in CallId :
           /\ at[r] = "put" /\ k \in left[r]
           /\ k.of \cap DOMAIN hits[r] = {}
           /\ value[c] \notin {None, Failed} /\ k.of \subseteq DOMAIN value[c]
           /\ cache'[k].data = [s \in k.of |-> value[c][s]]
    ]_vars

=============================================================================
