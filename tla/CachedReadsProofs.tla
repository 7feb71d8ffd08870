-------------------------- MODULE CachedReadsProofs --------------------------
(***************************************************************************)
(* Proofs about CachedReads for any readers, symbols, markets and times:   *)
(* answers are complete, and reading does not prolong the life of what is  *)
(* cached.  That loads are merged as CallGroup says is taken from          *)
(* CallGroupProofs, the readers being the group's callers.                 *)
(***************************************************************************)
EXTENDS CachedReads, TLAPS

G == INSTANCE CallGroupProofs WITH Caller <- Reader, Key <- Entries,
                                   Value <- Fetched \cup {Failed}

(* The variables have their types, as far as the proofs need them.           *)
ReadsTypeOK ==
  /\ at \in [Reader -> {"idle", "read", "group", "put"}]
  /\ DOMAIN want = Reader /\ DOMAIN left = Reader /\ DOMAIN hits = Reader
  /\ DOMAIN loaded = Reader /\ DOMAIN answer = Reader
  /\ now \in Time

(* A load gives all of the key it was made for, and nothing else.            *)
ValuesFit ==
  \A c \in CallId : value[c] \notin {None, Failed} => DOMAIN value[c] = keyOf[c].of

(* What a reader asks the group for is what it has not found, and what it    *)
(* writes is what a load gave it.                                            *)
ReaderFits(r) ==
  /\ step[r] # "out" => at[r] = "group" /\ keyOf[call[r]] = MergeKey(r)
  /\ at[r] = "idle" => DOMAIN hits[r] = {}
  /\ at[r] # "idle" => want[r] \in [symbols : Symbols, forced : BOOLEAN]
  /\ at[r] = "group" => ~(want[r].symbols \subseteq DOMAIN hits[r])
  /\ at[r] = "put" =>
       /\ DOMAIN loaded[r] = Scope(want[r]) \ DOMAIN hits[r]
       /\ \A k \in left[r] : k.of \subseteq DOMAIN loaded[r]
       /\ \E c \in CallId : value[c] = loaded[r] /\ value[c] \notin {None, Failed}

ReadsInv ==
  G!GroupInv /\ ReadsTypeOK /\ ValuesFit /\ (\A r \in Reader : ReaderFits(r)) /\ AnswersComplete

-----------------------------------------------------------------------------
(* The group.                                                                *)

(* A step of r on the variables of the group.                                *)
GroupStep(r) ==
  \/ \E k \in Entries : Lead(r, k) \/ Join(r, k)
  \/ \E v \in Fetched \cup {Failed} : LoadReturns(r, v)
  \/ Returns(r)
  \/ UNCHANGED doVars

(* What the invariant of the group says, in this module's terms.             *)
LEMMA GroupFacts ==
  ASSUME G!GroupInv
  PROVE  /\ step \in [Reader -> {"out", "loading", "leaving", "waiting"}]
         /\ call \in [Reader -> CallId \cup {None}] /\ made \in 0..MaxCalls
         /\ keyOf \in [CallId -> Entries \cup {None}] /\ DOMAIN value = CallId
         /\ \A r \in Reader : step[r] # "out" => call[r] \in 1..made /\ call[r] \in CallId
         /\ \A k \in Entries :
              calls[k] # None => calls[k] \in 1..made /\ calls[k] \in CallId /\ keyOf[calls[k]] = k
         /\ \A r \in Reader : step[r] = "loading" => value[call[r]] = None
         /\ \A r \in Reader : step[r] = "leaving" => value[call[r]] # None
         /\ \A c \in CallId : c \notin 1..made => value[c] = None
<1>1. /\ step \in [Reader -> {"out", "loading", "leaving", "waiting"}]
      /\ call \in [Reader -> CallId \cup {None}] /\ made \in 0..MaxCalls
      /\ keyOf \in [CallId -> Entries \cup {None}] /\ DOMAIN value = CallId
      /\ \A r \in Reader : step[r] # "out" => call[r] \in 1..made
  BY DEF G!GroupInv, G!GroupTypeOK, CallId, G!CallId
<1>2. \A r \in Reader : step[r] # "out" => call[r] \in CallId
  BY <1>1, ReadsAssumption DEF CallId
<1>3. ASSUME NEW k \in Entries, calls[k] # None
      PROVE  calls[k] \in 1..made /\ calls[k] \in CallId /\ keyOf[calls[k]] = k
  <2>1. PICK s \in Reader : G!Leading(s) /\ call[s] = calls[k] /\ keyOf[calls[k]] = k
    BY <1>3 DEF G!GroupInv, G!MapHoldsLedCalls
  <2>. QED BY <1>1, <1>2, <2>1 DEF G!Leading
<1>4. /\ \A c \in CallId : c \notin 1..made => value[c] = None
      /\ \A c \in CallId : c \in 1..made =>
           ((value[c] = None) <=> \E s \in Reader : step[s] = "loading" /\ call[s] = c)
  BY DEF G!GroupInv, G!PendingHasLeader, CallId, G!CallId
<1>5. \A r, s \in Reader : step[r] = "leaving" /\ step[s] = "loading" => call[r] # call[s]
  BY DEF G!GroupInv, G!LeadersDiffer, G!Leading
<1>. QED BY <1>1, <1>2, <1>3, <1>4, <1>5

(* A step of r keeps the invariant of the group, and changes nothing that    *)
(* other readers, or calls that were made, rely on.                          *)
LEMMA GroupKeeps ==
  ASSUME G!GroupInv, NEW r \in Reader, GroupStep(r)
  PROVE  /\ G!GroupInv'
         /\ \A s \in Reader \ {r} : step'[s] = step[s] /\ call'[s] = call[s]
         /\ \A c \in CallId : c \in 1..made => keyOf'[c] = keyOf[c]
         /\ \A c \in CallId : value[c] # None => value'[c] = value[c]
<1> USE GroupFacts
<1>1. ASSUME NEW k \in Entries, Lead(r, k)
      PROVE  /\ G!GroupInv' /\ value' = value
             /\ \A s \in Reader \ {r} : step'[s] = step[s] /\ call'[s] = call[s]
             /\ \A c \in CallId : c \in 1..made => keyOf'[c] = keyOf[c]
  <2>1. G!Lead(r, k)
    BY <1>1 DEF Lead, G!Lead
  <2>2. G!GroupInv'
    BY <2>1, G!LeadKeepsInv, ReadsAssumption
  <2>3. \A c \in 1..made : c # made + 1
    OBVIOUS
  <2>. QED BY <1>1, <2>2, <2>3 DEF Lead
<1>2. ASSUME NEW k \in Entries, Join(r, k)
      PROVE  /\ G!GroupInv' /\ UNCHANGED <<keyOf, value>>
             /\ \A s \in Reader \ {r} : step'[s] = step[s] /\ call'[s] = call[s]
  <2>1. G!Join(r, k)
    BY <1>2 DEF Join, G!Join
  <2>2. G!GroupInv'
    BY <2>1, G!JoinKeepsInv, ReadsAssumption
  <2>. QED BY <1>2, <2>2 DEF Join
<1>3. ASSUME NEW v \in Fetched \cup {Failed}, LoadReturns(r, v)
      PROVE  /\ G!GroupInv' /\ UNCHANGED keyOf
             /\ \A s \in Reader \ {r} : step'[s] = step[s] /\ call'[s] = call[s]
             /\ \A c \in CallId : value[c] # None => value'[c] = value[c]
  <2>1. G!LoadReturns(r, v)
    BY <1>3 DEF LoadReturns, G!LoadReturns
  <2>2. G!GroupInv'
    BY <2>1, G!LoadReturnsKeepsInv, ReadsAssumption
  <2>. QED BY <1>3, <2>2 DEF LoadReturns
<1>4. ASSUME Returns(r)
      PROVE  /\ G!GroupInv' /\ UNCHANGED <<keyOf, value>>
             /\ \A s \in Reader \ {r} : step'[s] = step[s] /\ call'[s] = call[s]
  <2>1. G!Leave(r) \/ G!JoinReturns(r)
    BY <1>4 DEF Returns, Leave, JoinReturns, G!Leave, G!JoinReturns
  <2>2. G!GroupInv'
    BY <2>1, G!LeaveKeepsInv, G!JoinReturnsKeepsInv, ReadsAssumption
  <2>. QED BY <1>4, <2>2 DEF Returns, Leave, JoinReturns
<1>5. ASSUME UNCHANGED doVars
      PROVE  G!GroupInv' /\ UNCHANGED <<step, call, keyOf, value>>
  BY <1>5 DEF doVars, G!GroupInv, G!GroupTypeOK, G!LeadersDiffer, G!MapHoldsLedCalls,
              G!PendingHasLeader, G!Leading
<1>. QED BY <1>1, <1>2, <1>3, <1>4, <1>5 DEF GroupStep

-----------------------------------------------------------------------------
(* The readers.                                                              *)

(* What is asked for is among what is fetched (securityFetchQuery).          *)
LEMMA ScopeIs ==
  ASSUME NEW q \in [symbols : Symbols, forced : BOOLEAN]
  PROVE  /\ q.symbols \subseteq Scope(q) /\ Scope(q) \in Symbols /\ Forced(q) \in BOOLEAN
         /\ EntriesOf(q) \subseteq Entries
<1>1. q.symbols \subseteq Symbol /\ q.symbols # {} /\ q.forced \in BOOLEAN
  BY DEF Symbols
<1>2. q.symbols \subseteq Scope(q) /\ Scope(q) \in Symbols
  BY <1>1 DEF Scope, Symbols
<1>3. Forced(q) \in BOOLEAN
  BY <1>1 DEF Forced
<1>4. EntriesOf(q) \subseteq Entries
  <2>1. CASE reads = "each"
    <3>1. \A s \in q.symbols : {s} \in Symbols
      BY <1>1 DEF Symbols
    <3>2. \A s \in q.symbols : [of |-> {s}, forced |-> FALSE] \in Entries
      BY <3>1 DEF Entries
    <3>3. EntriesOf(q) = {[of |-> {s}, forced |-> FALSE] : s \in q.symbols}
      BY <2>1 DEF EntriesOf
    <3>. QED BY <3>2, <3>3
  <2>2. CASE reads # "each"
    BY <1>2, <1>3, <2>2 DEF EntriesOf, Entries
  <2>. QED BY <2>1, <2>2
<1>. QED BY <1>2, <1>3, <1>4

(* The key under which a reader's load is merged is a key of the group.      *)
LEMMA MergeKeyIs ==
  ASSUME NEW r \in Reader, ReaderFits(r), at[r] = "group"
  PROVE  /\ MergeKey(r) \in Entries /\ MergeKey(r).of = Scope(want[r]) \ DOMAIN hits[r]
<1>1. /\ want[r] \in [symbols : Symbols, forced : BOOLEAN]
      /\ ~(want[r].symbols \subseteq DOMAIN hits[r])
  BY DEF ReaderFits
<1>2. /\ Scope(want[r]) \ DOMAIN hits[r] \in Symbols /\ Forced(want[r]) \in BOOLEAN
  BY <1>1, ScopeIs DEF Symbols
<1>. QED BY <1>2 DEF MergeKey, Entries

(* An answer made of data that cover the request is complete (orderQuotes,   *)
(* filterSecurityInfo).                                                      *)
LEMMA AnswerIs ==
  ASSUME NEW r, NEW new, NEW old, want[r].symbols \subseteq DOMAIN new \cup DOMAIN old,
         reads # "list" => DOMAIN new \subseteq want[r].symbols
  PROVE  DOMAIN Answer(r, new, old) = want[r].symbols
<1>1. DOMAIN Over(new, old) = DOMAIN new \cup DOMAIN old
  BY DEF Over
<1>2. DOMAIN filterSecurityInfo(Over(new, old), want[r].symbols) = want[r].symbols
  BY <1>1 DEF filterSecurityInfo
<1>3. reads # "list" => DOMAIN orderQuotes(want[r].symbols, old, new) = want[r].symbols
  BY DEF orderQuotes, Over
<1>. QED BY <1>2, <1>3 DEF Answer

(* What a step of r leaves to the other readers.                             *)
Aside(r) ==
  /\ GroupStep(r) /\ UNCHANGED setup
  /\ \A s \in Reader \ {r} : /\ at'[s] = at[s] /\ want'[s] = want[s] /\ left'[s] = left[s]
                            /\ hits'[s] = hits[s] /\ loaded'[s] = loaded[s]
                            /\ answer'[s] = answer[s]

(* A step keeps the invariant if it does for the reader that takes it.       *)
LEMMA ReaderKeeps ==
  ASSUME ReadsInv, NEW r \in Reader, Aside(r), ReadsTypeOK', ValuesFit', ReaderFits(r)',
         answer'[r] \notin {None, Failed} => DOMAIN answer'[r] = want'[r].symbols
  PROVE  ReadsInv'
<1>1. /\ G!GroupInv'
      /\ \A s \in Reader \ {r} : step'[s] = step[s] /\ call'[s] = call[s]
      /\ \A c \in CallId : c \in 1..made => keyOf'[c] = keyOf[c]
      /\ \A c \in CallId : value[c] # None => value'[c] = value[c]
  BY GroupKeeps DEF ReadsInv, Aside
<1>2. ASSUME NEW s \in Reader \ {r} PROVE ReaderFits(s)'
  <2>1. /\ step'[s] = step[s] /\ call'[s] = call[s] /\ at'[s] = at[s] /\ want'[s] = want[s]
        /\ left'[s] = left[s] /\ hits'[s] = hits[s] /\ loaded'[s] = loaded[s] /\ reads' = reads
    BY <1>1 DEF Aside, setup
  <2>2. ReaderFits(s)
    BY DEF ReadsInv
  <2>3. Scope(want[s])' = Scope(want[s]) /\ MergeKey(s)' = MergeKey(s)
    BY <2>1 DEF MergeKey, Scope, Forced
  <2>4. step[s] # "out" => keyOf'[call[s]] = keyOf[call[s]]
    BY <1>1, GroupFacts DEF ReadsInv
  <2>5. (step[s] # "out" => at[s] = "group" /\ keyOf[call[s]] = MergeKey(s))'
    BY <2>1, <2>2, <2>3, <2>4 DEF ReaderFits
  <2>6. at[s] = "put" => \E c \in CallId : value'[c] = loaded[s] /\ value'[c] \notin {None, Failed}
    BY <1>1, <2>2 DEF ReaderFits
  <2>. QED BY <2>1, <2>2, <2>3, <2>5, <2>6 DEF ReaderFits
<1>3. AnswersComplete'
  BY DEF ReadsInv, AnswersComplete, Aside
<1>. QED BY <1>1, <1>2, <1>3 DEF ReadsInv

(* Ending a request puts the reader in order whatever it did.                *)
LEMMA EndsFit ==
  ASSUME ReadsInv, NEW r \in Reader, NEW a, Ends(r, a), step'[r] = "out"
  PROVE  /\ ReaderFits(r)' /\ answer'[r] = a
         /\ at' \in [Reader -> {"idle", "read", "group", "put"}]
         /\ DOMAIN left' = Reader /\ DOMAIN hits' = Reader /\ DOMAIN loaded' = Reader
         /\ DOMAIN answer' = Reader
         /\ \A s \in Reader \ {r} : /\ at'[s] = at[s] /\ left'[s] = left[s] /\ hits'[s] = hits[s]
                                   /\ loaded'[s] = loaded[s] /\ answer'[s] = answer[s]
<1>1. /\ at' = [at EXCEPT ![r] = "idle"] /\ answer' = [answer EXCEPT ![r] = a]
      /\ left' = [left EXCEPT ![r] = {}] /\ hits' = [hits EXCEPT ![r] = <<>>]
      /\ loaded' = [loaded EXCEPT ![r] = <<>>]
  BY DEF Ends
<1>2. /\ at'[r] = "idle" /\ hits'[r] = <<>> /\ answer'[r] = a
      /\ at' \in [Reader -> {"idle", "read", "group", "put"}]
      /\ DOMAIN left' = Reader /\ DOMAIN hits' = Reader /\ DOMAIN loaded' = Reader
      /\ DOMAIN answer' = Reader
      /\ \A s \in Reader \ {r} : /\ at'[s] = at[s] /\ left'[s] = left[s] /\ hits'[s] = hits[s]
                                /\ loaded'[s] = loaded[s] /\ answer'[s] = answer[s]
  BY <1>1 DEF ReadsInv, ReadsTypeOK
<1>3. ReaderFits(r)'
  BY <1>2 DEF ReaderFits
<1>. QED BY <1>2, <1>3

(* A request begins.                                                         *)
LEMMA AskKeeps ==
  ASSUME ReadsInv, NEW r \in Reader, NEW q \in Requests, Ask(r, q)
  PROVE  ReadsInv'
<1>1. q \in [symbols : Symbols, forced : BOOLEAN]
  BY DEF Requests
<1>2. /\ at[r] = "idle" /\ UNCHANGED <<doVars, setup, now, hits, loaded>>
      /\ want' = [want EXCEPT ![r] = q] /\ left' = [left EXCEPT ![r] = EntriesOf(q)]
      /\ answer' = [answer EXCEPT ![r] = None]
      /\ at' = [at EXCEPT ![r] = IF q.forced THEN "group" ELSE "read"]
  BY DEF Ask
<1>3. ReadsTypeOK'
  BY <1>2 DEF ReadsInv, ReadsTypeOK
<1>4. step[r] = "out" /\ DOMAIN hits[r] = {}
  BY <1>2, GroupFacts DEF ReadsInv, ReaderFits
<1>5. /\ at'[r] \in {"group", "read"} /\ want'[r] = q /\ answer'[r] = None
      /\ hits'[r] = hits[r] /\ step'[r] = "out"
  BY <1>2, <1>4 DEF ReadsInv, ReadsTypeOK, doVars
<1>6. ReaderFits(r)'
  BY <1>1, <1>4, <1>5 DEF ReaderFits, Symbols
<1>7. Aside(r)
  BY <1>2 DEF Aside, GroupStep, ReadsInv, ReadsTypeOK
<1>8. ValuesFit'
  BY <1>2 DEF ReadsInv, ValuesFit, doVars
<1>. QED BY <1>3, <1>5, <1>6, <1>7, <1>8, ReaderKeeps

(* The cache is read.                                                        *)
LEMMA GetKeeps ==
  ASSUME ReadsInv, NEW r \in Reader, Get(r)
  PROVE  ReadsInv'
<1>1. /\ at[r] = "read" /\ UNCHANGED <<doVars, setup, now, cache, want>>
  BY DEF Get
<1>2. step[r] = "out" /\ step'[r] = "out" /\ want[r] \in [symbols : Symbols, forced : BOOLEAN]
      /\ UNCHANGED <<keyOf, value>>
  BY <1>1, GroupFacts DEF ReadsInv, ReaderFits, doVars
<1>3. PICK found :
        \/ want[r].symbols \subseteq DOMAIN found /\ Ends(r, Answer(r, <<>>, found))
        \/ /\ UNCHANGED <<answer, loaded>> /\ hits' = [hits EXCEPT ![r] = found]
           /\ \E rest : left' = [left EXCEPT ![r] = rest]
           /\ \/ at' = [at EXCEPT ![r] = "read"]
              \/ at' = [at EXCEPT ![r] = "group"] /\ ~(want[r].symbols \subseteq DOMAIN found)
  <2>1. PICK ks \in Batches(left[r]) :
          LET found == Over(Cached(ks), hits[r])
              rest  == left[r] \ ks
          IN  IF rest = {} /\ want[r].symbols \subseteq DOMAIN found
                THEN Ends(r, Answer(r, <<>>, found))
                ELSE /\ left' = [left EXCEPT ![r] = rest]
                     /\ hits' = [hits EXCEPT ![r] = found]
                     /\ at' = [at EXCEPT ![r] = IF rest = {} THEN "group" ELSE "read"]
                     /\ UNCHANGED <<answer, loaded>>
    BY DEF Get
  <2> DEFINE found == Over(Cached(ks), hits[r])
  <2>2. \/ want[r].symbols \subseteq DOMAIN found /\ Ends(r, Answer(r, <<>>, found))
        \/ /\ UNCHANGED <<answer, loaded>> /\ hits' = [hits EXCEPT ![r] = found]
           /\ \E rest : left' = [left EXCEPT ![r] = rest]
           /\ \/ at' = [at EXCEPT ![r] = "read"]
              \/ at' = [at EXCEPT ![r] = "group"] /\ ~(want[r].symbols \subseteq DOMAIN found)
    BY <2>1
  <2>. QED BY <2>2
<1>4. ValuesFit'
  BY <1>2 DEF ReadsInv, ValuesFit
<1>5. CASE want[r].symbols \subseteq DOMAIN found /\ Ends(r, Answer(r, <<>>, found))
  <2>1. DOMAIN Answer(r, <<>>, found) = want[r].symbols
    BY <1>5, AnswerIs
  <2>2. /\ ReaderFits(r)' /\ answer'[r] = Answer(r, <<>>, found)
        /\ at' \in [Reader -> {"idle", "read", "group", "put"}]
        /\ DOMAIN left' = Reader /\ DOMAIN hits' = Reader /\ DOMAIN loaded' = Reader
        /\ DOMAIN answer' = Reader
        /\ \A s \in Reader \ {r} : /\ at'[s] = at[s] /\ left'[s] = left[s] /\ hits'[s] = hits[s]
                                  /\ loaded'[s] = loaded[s] /\ answer'[s] = answer[s]
    BY <1>2, <1>5, EndsFit
  <2>3. ReadsTypeOK'
    BY <1>1, <2>2 DEF ReadsInv, ReadsTypeOK
  <2>4. Aside(r)
    BY <1>1, <2>2 DEF Aside, GroupStep
  <2>. QED BY <1>1, <1>4, <2>1, <2>2, <2>3, <2>4, ReaderKeeps
<1>6. CASE /\ UNCHANGED <<answer, loaded>> /\ hits' = [hits EXCEPT ![r] = found]
           /\ \E rest : left' = [left EXCEPT ![r] = rest]
           /\ \/ at' = [at EXCEPT ![r] = "read"]
              \/ at' = [at EXCEPT ![r] = "group"] /\ ~(want[r].symbols \subseteq DOMAIN found)
  <2>1. ReadsTypeOK'
    BY <1>1, <1>6 DEF ReadsInv, ReadsTypeOK
  <2>2. Aside(r)
    BY <1>1, <1>6 DEF Aside, GroupStep, ReadsInv, ReadsTypeOK
  <2>3. /\ hits'[r] = found /\ want'[r] = want[r]
        /\ at'[r] = "read" \/ (at'[r] = "group" /\ ~(want[r].symbols \subseteq DOMAIN found))
    BY <1>1, <1>6 DEF ReadsInv, ReadsTypeOK
  <2>4. ReaderFits(r)'
    BY <1>2, <2>3 DEF ReaderFits
  <2>5. answer'[r] \notin {None, Failed} => DOMAIN answer'[r] = want'[r].symbols
    BY <1>1, <1>6 DEF ReadsInv, AnswersComplete
  <2>. QED BY <1>4, <2>1, <2>2, <2>4, <2>5, ReaderKeeps
<1>. QED BY <1>3, <1>5, <1>6

(* A reader enters the group, with the key of what it has not found.         *)
LEMMA EnterKeeps ==
  ASSUME ReadsInv, NEW r \in Reader, EnterGroup(r)
  PROVE  ReadsInv'
<1>1. /\ at[r] = "group" /\ UNCHANGED <<setup, now, cache, at, want, left, hits, loaded, answer>>
      /\ Lead(r, MergeKey(r)) \/ Join(r, MergeKey(r))
  BY DEF EnterGroup
<1>2. ReaderFits(r) /\ MergeKey(r) \in Entries
  BY <1>1, MergeKeyIs DEF ReadsInv
<1>3. Aside(r)
  BY <1>1, <1>2 DEF Aside, GroupStep
<1>4. ReadsTypeOK'
  BY <1>1 DEF ReadsInv, ReadsTypeOK
<1>5. MergeKey(r)' = MergeKey(r) /\ Scope(want[r])' = Scope(want[r])
  BY <1>1 DEF MergeKey, Scope, Forced, setup
<1>6. keyOf'[call'[r]] = MergeKey(r)
  <2>1. CASE Lead(r, MergeKey(r))
    <3>1. /\ made' = made + 1 /\ made < MaxCalls /\ call' = [call EXCEPT ![r] = made + 1]
          /\ keyOf' = [keyOf EXCEPT ![made + 1] = MergeKey(r)]
      BY <2>1 DEF Lead
    <3>2. made + 1 \in CallId
      BY <3>1, GroupFacts, ReadsAssumption DEF ReadsInv, CallId
    <3>. QED BY <3>1, <3>2, GroupFacts DEF ReadsInv
  <2>2. CASE Join(r, MergeKey(r))
    BY <1>2, <2>2, GroupFacts DEF ReadsInv, Join
  <2>. QED BY <1>1, <2>1, <2>2
<1>7. ReaderFits(r)'
  BY <1>1, <1>2, <1>5, <1>6 DEF ReaderFits
<1>8. ValuesFit'
  <2>1. value' = value
    BY <1>1 DEF Lead, Join
  <2>2. \A c \in CallId : value[c] # None => keyOf'[c] = keyOf[c]
    BY <1>3, GroupKeeps, GroupFacts DEF ReadsInv, Aside
  <2>. QED BY <2>1, <2>2 DEF ReadsInv, ValuesFit
<1>9. answer'[r] \notin {None, Failed} => DOMAIN answer'[r] = want'[r].symbols
  BY <1>1 DEF ReadsInv, AnswersComplete
<1>. QED BY <1>3, <1>4, <1>7, <1>8, <1>9, ReaderKeeps

(* A load returns, with all of its key or with an error.                     *)
LEMMA LoadKeeps ==
  ASSUME ReadsInv, NEW r \in Reader, Load(r)
  PROVE  ReadsInv'
<1>1. step[r] = "loading" /\ UNCHANGED <<setup, now, cache, at, want, left, hits, loaded, answer>>
  BY DEF Load
<1>2. call[r] \in CallId /\ call[r] \in 1..made /\ at[r] = "group" /\ keyOf[call[r]] = MergeKey(r)
  BY <1>1, GroupFacts DEF ReadsInv, ReaderFits
<1>3. keyOf[call[r]] \in Entries
  BY <1>2, MergeKeyIs DEF ReadsInv
<1>4. PICK v \in Fetched \cup {Failed} :
        LoadReturns(r, v) /\ (v # Failed => DOMAIN v = keyOf[call[r]].of)
  <2>1. keyOf[call[r]].of \subseteq Symbol
    BY <1>3 DEF Entries, Symbols
  <2>2. [s \in keyOf[call[r]].of |-> now] \in Fetched
    BY <2>1 DEF Fetched, ReadsInv, ReadsTypeOK
  <2>. QED BY <2>2 DEF Load
<1>5. Aside(r)
  BY <1>1, <1>4 DEF Aside, GroupStep
<1>6. ReadsTypeOK'
  BY <1>1 DEF ReadsInv, ReadsTypeOK
<1>7. ReaderFits(r)'
  <2>1. call'[r] = call[r] /\ keyOf' = keyOf /\ MergeKey(r)' = MergeKey(r)
    BY <1>1, <1>4 DEF LoadReturns, MergeKey, Scope, Forced, setup
  <2>2. ReaderFits(r)
    BY DEF ReadsInv
  <2>. QED BY <1>1, <1>2, <2>1, <2>2 DEF ReaderFits
<1>8. ValuesFit'
  BY <1>2, <1>4, GroupFacts DEF ReadsInv, ValuesFit, LoadReturns
<1>9. answer'[r] \notin {None, Failed} => DOMAIN answer'[r] = want'[r].symbols
  BY <1>1 DEF ReadsInv, AnswersComplete
<1>. QED BY <1>5, <1>6, <1>7, <1>8, <1>9, ReaderKeeps

(* The group returns: the result is of all that the reader had not found.    *)
LEMMA ReturnKeeps ==
  ASSUME ReadsInv, NEW r \in Reader, GroupReturns(r)
  PROVE  ReadsInv'
<1>1. Returns(r) /\ UNCHANGED <<setup, now, cache, want>>
  BY DEF GroupReturns
<1>2. /\ step[r] # "out" /\ step' = [step EXCEPT ![r] = "out"] /\ UNCHANGED <<keyOf, value>>
      /\ Result(r) # None
  BY <1>1, GroupFacts DEF ReadsInv, Returns, Leave, JoinReturns, Result
<1>3. call[r] \in CallId /\ at[r] = "group" /\ keyOf[call[r]] = MergeKey(r) /\ step'[r] = "out"
  BY <1>2, GroupFacts DEF ReadsInv, ReaderFits
<1>4. ValuesFit'
  BY <1>2 DEF ReadsInv, ValuesFit
<1>5. CASE Result(r) = Failed
  <2>1. Ends(r, Failed)
    BY <1>5 DEF GroupReturns
  <2>2. /\ ReaderFits(r)' /\ answer'[r] = Failed
        /\ at' \in [Reader -> {"idle", "read", "group", "put"}]
        /\ DOMAIN left' = Reader /\ DOMAIN hits' = Reader /\ DOMAIN loaded' = Reader
        /\ DOMAIN answer' = Reader
        /\ \A s \in Reader \ {r} : /\ at'[s] = at[s] /\ left'[s] = left[s] /\ hits'[s] = hits[s]
                                  /\ loaded'[s] = loaded[s] /\ answer'[s] = answer[s]
    BY <1>3, <2>1, EndsFit
  <2>3. ReadsTypeOK'
    BY <1>1, <2>2 DEF ReadsInv, ReadsTypeOK
  <2>4. Aside(r)
    BY <1>1, <2>2 DEF Aside, GroupStep
  <2>. QED BY <1>4, <2>2, <2>3, <2>4, ReaderKeeps
<1>6. CASE Result(r) # Failed
  <2>1. /\ at' = [at EXCEPT ![r] = "put"] /\ loaded' = [loaded EXCEPT ![r] = Result(r)]
        /\ left' = [left EXCEPT ![r] = {k \in EntriesOf(want[r]) : k.of \subseteq DOMAIN Result(r)}]
        /\ UNCHANGED <<answer, hits>>
    BY <1>6 DEF GroupReturns
  <2>2. DOMAIN Result(r) = Scope(want[r]) \ DOMAIN hits[r]
    <3>1. DOMAIN value[call[r]] = keyOf[call[r]].of
      BY <1>2, <1>3, <1>6 DEF ReadsInv, ValuesFit, Result
    <3>. QED BY <1>3, <3>1, MergeKeyIs DEF ReadsInv, Result
  <2>3. ReadsTypeOK'
    BY <1>1, <2>1 DEF ReadsInv, ReadsTypeOK
  <2>4. Aside(r)
    BY <1>1, <2>1 DEF Aside, GroupStep, ReadsInv, ReadsTypeOK
  <2>5. /\ at'[r] = "put" /\ loaded'[r] = Result(r) /\ hits'[r] = hits[r] /\ want'[r] = want[r]
        /\ left'[r] = {k \in EntriesOf(want[r]) : k.of \subseteq DOMAIN Result(r)}
    BY <1>1, <2>1 DEF ReadsInv, ReadsTypeOK
  <2>6. Scope(want[r])' = Scope(want[r])
    BY <1>1 DEF Scope, setup
  <2>7. want[r] \in [symbols : Symbols, forced : BOOLEAN]
    BY <1>3 DEF ReadsInv, ReaderFits
  <2>8. \E c \in CallId : value'[c] = loaded'[r] /\ value'[c] \notin {None, Failed}
    BY <1>2, <1>3, <1>6, <2>5 DEF Result
  <2>9. ReaderFits(r)'
    BY <1>3, <2>2, <2>5, <2>6, <2>7, <2>8 DEF ReaderFits
  <2>10. answer'[r] \notin {None, Failed} => DOMAIN answer'[r] = want'[r].symbols
    BY <1>1, <2>1 DEF ReadsInv, AnswersComplete
  <2>. QED BY <1>4, <2>3, <2>4, <2>9, <2>10, ReaderKeeps
<1>. QED BY <1>5, <1>6

(* A request ends, with an answer that is complete.                          *)
LEMMA EndKeeps ==
  ASSUME ReadsInv, NEW r \in Reader, at[r] # "idle", step[r] = "out",
         UNCHANGED <<doVars, setup, now, want>>, NEW a, Ends(r, a),
         a \notin {None, Failed} => DOMAIN a = want[r].symbols
  PROVE  ReadsInv'
<1>1. step'[r] = "out" /\ UNCHANGED <<keyOf, value>>
  BY DEF doVars
<1>2. /\ ReaderFits(r)' /\ answer'[r] = a
      /\ at' \in [Reader -> {"idle", "read", "group", "put"}]
      /\ DOMAIN left' = Reader /\ DOMAIN hits' = Reader /\ DOMAIN loaded' = Reader
      /\ DOMAIN answer' = Reader
      /\ \A s \in Reader \ {r} : /\ at'[s] = at[s] /\ left'[s] = left[s] /\ hits'[s] = hits[s]
                                /\ loaded'[s] = loaded[s] /\ answer'[s] = answer[s]
  BY <1>1, EndsFit
<1>3. ReadsTypeOK'
  BY <1>2 DEF ReadsInv, ReadsTypeOK
<1>4. Aside(r)
  BY <1>2 DEF Aside, GroupStep
<1>5. ValuesFit'
  BY <1>1 DEF ReadsInv, ValuesFit
<1>6. answer'[r] \notin {None, Failed} => DOMAIN answer'[r] = want'[r].symbols
  BY <1>2
<1>. QED BY <1>2, <1>3, <1>4, <1>5, <1>6, ReaderKeeps

(* What was loaded is written, and the request is answered.                  *)
LEMMA PutKeeps ==
  ASSUME ReadsInv, NEW r \in Reader, Put(r)
  PROVE  ReadsInv'
<1>1. at[r] = "put" /\ UNCHANGED <<doVars, setup, now, want>>
  BY DEF Put
<1>2. step[r] = "out" /\ want[r] \in [symbols : Symbols, forced : BOOLEAN] /\ ReaderFits(r)
      /\ DOMAIN loaded[r] = Scope(want[r]) \ DOMAIN hits[r]
  BY <1>1, GroupFacts DEF ReadsInv, ReaderFits
<1>3. \/ Ends(r, Answer(r, loaded[r], hits[r]))
      \/ \E ks : left' = [left EXCEPT ![r] = left[r] \ ks] /\ UNCHANGED <<at, answer, hits, loaded>>
  BY DEF Put
<1>4. CASE Ends(r, Answer(r, loaded[r], hits[r]))
  <2>1. want[r].symbols \subseteq DOMAIN loaded[r] \cup DOMAIN hits[r]
    BY <1>2, ScopeIs
  <2>2. reads # "list" => DOMAIN loaded[r] \subseteq want[r].symbols
    BY <1>2 DEF Scope
  <2>3. DOMAIN Answer(r, loaded[r], hits[r]) = want[r].symbols
    BY <2>1, <2>2, AnswerIs
  <2>. QED BY <1>1, <1>2, <1>4, <2>3, EndKeeps
<1>5. ASSUME NEW ks, left' = [left EXCEPT ![r] = left[r] \ ks], UNCHANGED <<at, answer, hits, loaded>>
      PROVE  ReadsInv'
  <2>1. ReadsTypeOK'
    BY <1>1, <1>5 DEF ReadsInv, ReadsTypeOK
  <2>2. Aside(r)
    BY <1>1, <1>5 DEF Aside, GroupStep, ReadsInv, ReadsTypeOK
  <2>3. left'[r] \subseteq left[r] /\ UNCHANGED <<step, keyOf, value>>
    BY <1>1, <1>5 DEF ReadsInv, ReadsTypeOK, doVars
  <2>4. ValuesFit'
    BY <2>3 DEF ReadsInv, ValuesFit
  <2>5. Scope(want[r])' = Scope(want[r])
    BY <1>1 DEF Scope, setup
  <2>6. ReaderFits(r)'
    BY <1>1, <1>2, <1>5, <2>3, <2>5 DEF ReaderFits
  <2>7. answer'[r] \notin {None, Failed} => DOMAIN answer'[r] = want'[r].symbols
    BY <1>1, <1>5 DEF ReadsInv, AnswersComplete
  <2>. QED BY <2>1, <2>2, <2>4, <2>6, <2>7, ReaderKeeps
<1>. QED BY <1>3, <1>4, <1>5

(* Steps that change nothing the invariant is about.                         *)
LEMMA IdleKeeps ==
  ASSUME ReadsInv, now' \in Time, UNCHANGED <<doVars, setup, at, want, left, hits, loaded, answer>>
  PROVE  ReadsInv'
<1>1. G!GroupInv'
  BY DEF ReadsInv, doVars, G!GroupInv, G!GroupTypeOK, G!LeadersDiffer, G!MapHoldsLedCalls,
         G!PendingHasLeader, G!Leading
<1>2. ReadsTypeOK' /\ ValuesFit' /\ AnswersComplete'
  BY DEF ReadsInv, ReadsTypeOK, ValuesFit, AnswersComplete, doVars
<1>3. \A r \in Reader : ReaderFits(r)'
  BY DEF ReadsInv, ReaderFits, MergeKey, Scope, Forced, doVars, setup
<1>. QED BY <1>1, <1>2, <1>3 DEF ReadsInv

(* In the beginning nobody has asked.                                        *)
LEMMA ReadsInitially == Init => ReadsInv
<1> SUFFICES ASSUME Init PROVE ReadsInv
  OBVIOUS
<1>1. G!GroupInit
  BY DEF Init, GroupInit, G!GroupInit, CallId, G!CallId
<1>2. G!GroupInv
  BY <1>1, G!GroupInvInit, ReadsAssumption
<1>3. /\ at = [r \in Reader |-> "idle"] /\ hits = [r \in Reader |-> <<>>]
      /\ answer = [r \in Reader |-> None] /\ step = [r \in Reader |-> "out"]
      /\ value = [c \in CallId |-> None]
  BY DEF Init, GroupInit
<1>4. ReadsTypeOK
  BY ReadsAssumption DEF Init, ReadsTypeOK, Time
<1>5. ValuesFit /\ AnswersComplete
  BY <1>3 DEF ValuesFit, AnswersComplete
<1>6. \A r \in Reader : ReaderFits(r)
  BY <1>3 DEF ReaderFits
<1>. QED BY <1>2, <1>4, <1>5, <1>6 DEF ReadsInv

(* Every step keeps the invariant.                                           *)
LEMMA ReadsStep == ReadsInv /\ [Next]_vars => ReadsInv'
<1> SUFFICES ASSUME ReadsInv, [Next]_vars PROVE ReadsInv'
  OBVIOUS
<1>1. ASSUME NEW r \in Reader, ReadStep(r) PROVE ReadsInv'
  <2>1. CASE GiveUp(r)
    BY <2>1, EndKeeps DEF GiveUp
  <2>. QED BY <1>1, <2>1, GetKeeps, EnterKeeps, LoadKeeps, ReturnKeeps, PutKeeps DEF ReadStep
<1>2. ASSUME NEW r \in Reader, NEW q \in Requests, Ask(r, q) PROVE ReadsInv'
  BY <1>2, AskKeeps
<1>3. CASE Tick
  <2>1. now' \in Time
    BY <1>3, ReadsAssumption DEF Tick, ReadsInv, ReadsTypeOK, Time
  <2>. QED BY <1>3, <2>1, IdleKeeps DEF Tick
<1>4. CASE UNCHANGED vars
  BY <1>4, IdleKeeps DEF vars, ReadsInv, ReadsTypeOK
<1>. QED BY <1>1, <1>2, <1>3, <1>4 DEF Next

(* Every answer has all that was asked for and nothing else, whatever the    *)
(* cache had, and whoever loaded the rest (market_data.go:76, 90, 288, 304). *)
THEOREM AnswersAreComplete == Spec => []AnswersComplete
<1>1. ReadsInv => AnswersComplete
  BY DEF ReadsInv
<1>. QED BY <1>1, ReadsInitially, ReadsStep, PTL DEF Spec

(* An entry changes only when what a load of all of it gave is written by a  *)
(* reader that had not found it (market_data.go:85-89, memory.go:141-156).   *)
THEOREM ReadingDoesNotRenew == Spec => NoSlidingExpiry
<1> DEFINE Renewed(k) ==
      \E r \in Reader, c \in CallId :
        /\ at[r] = "put" /\ k \in left[r]
        /\ k.of \cap DOMAIN hits[r] = {}
        /\ value[c] \notin {None, Failed} /\ k.of \subseteq DOMAIN value[c]
        /\ cache'[k].data = [s \in k.of |-> value[c][s]]
<1>1. ASSUME ReadsInv, [Next]_vars, NEW k \in Entries, cache'[k] # cache[k]
      PROVE  Renewed(k)
  <2>1. PICK r \in Reader : Put(r)
    BY <1>1 DEF Next, ReadStep, Get, EnterGroup, Load, GroupReturns, GiveUp, Ask, Tick, vars
  <2>2. PICK ks \in Batches(left[r]) : cache' = Written(ks, loaded[r])
    BY <2>1 DEF Put
  <2>3. k \in ks /\ cache'[k] = NewEntry([s \in k.of |-> loaded[r][s]])
    BY <1>1, <2>2 DEF Written
  <2>4. k \in left[r]
    BY <2>2, <2>3 DEF Batches
  <2>5. at[r] = "put"
    BY <2>1 DEF Put
  <2>6. k.of \subseteq DOMAIN loaded[r] /\ DOMAIN loaded[r] = Scope(want[r]) \ DOMAIN hits[r]
    BY <1>1, <2>4, <2>5 DEF ReadsInv, ReaderFits
  <2>7. PICK c \in CallId : value[c] = loaded[r] /\ value[c] \notin {None, Failed}
    BY <1>1, <2>5 DEF ReadsInv, ReaderFits
  <2>8. cache'[k].data = [s \in k.of |-> value[c][s]]
    BY <2>3, <2>7 DEF NewEntry
  <2>9. k.of \cap DOMAIN hits[r] = {}
    BY <2>6
  <2>. QED BY <2>4, <2>5, <2>6, <2>7, <2>8, <2>9
<1>2. ReadsInv /\ [Next]_vars => [\A k \in Entries : cache'[k] # cache[k] => Renewed(k)]_vars
  BY <1>1
<1>. QED BY <1>2, ReadsInitially, ReadsStep, PTL DEF Spec, NoSlidingExpiry
=============================================================================
