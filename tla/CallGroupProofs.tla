--------------------------- MODULE CallGroupProofs ---------------------------
(* Theorems about CallGroup for any callers, keys and results.               *)
EXTENDS CallGroup, TLAPS

(* What a step of the group relies on: the shape of the state, the map, and  *)
(* of every call made, that it has no value exactly while somebody loads it. *)
LeadersDiffer ==
  \A r, s \in Caller : r # s /\ Leading(r) /\ Leading(s) => call[r] # call[s]

PendingHasLeader ==
  \A c \in CallId :
    /\ c \in 1..made =>
         ((value[c] = None) <=> \E s \in Caller : step[s] = "loading" /\ call[s] = c)
    /\ c \notin 1..made => value[c] = None

GroupInv ==
  GroupTypeOK /\ LeadersDiffer /\ MapHoldsLedCalls /\ PendingHasLeader

-----------------------------------------------------------------------------

(* Of a caller inside Do, its call is a call and its key a key.              *)
LEMMA InsideDo ==
  ASSUME GroupTypeOK, NEW r \in Caller, step[r] # "out"
  PROVE  /\ call[r] \in 1..made /\ call[r] \in CallId /\ call[r] # None
         /\ keyOf[call[r]] \in Key
  BY GroupAssumption DEF GroupTypeOK, CallId

(* The initial state satisfies the invariant.                                *)
LEMMA GroupInvInit == GroupInit => GroupInv
<1> SUFFICES ASSUME GroupInit PROVE GroupInv
  OBVIOUS
<1>1. GroupTypeOK
  BY GroupAssumption DEF GroupInit, GroupTypeOK, CallId
<1>2. LeadersDiffer /\ MapHoldsLedCalls /\ PendingHasLeader
  BY GroupAssumption
  DEF GroupInit, LeadersDiffer, MapHoldsLedCalls, PendingHasLeader, Leading, CallId
<1>. QED BY <1>1, <1>2 DEF GroupInv

(* A caller that makes a call: the call is new, so nobody leads it and it    *)
(* has no value; its key was free.                                           *)
LEMMA LeadKeepsInv ==
  ASSUME GroupInv, NEW r \in Caller, NEW k \in Key, Lead(r, k)
  PROVE  GroupInv'
<1> DEFINE c == made + 1
<1>1. /\ c \in CallId /\ c \in 1..made' /\ c \notin 1..made /\ made' = c
      /\ made' \in 0..MaxCalls /\ made \in Nat /\ c # None
      /\ \A d \in 1..made : d \in 1..made' /\ d # c
  BY GroupAssumption DEF GroupInv, GroupTypeOK, Lead, CallId
<1>2. /\ step' = [step EXCEPT ![r] = "loading"] /\ call' = [call EXCEPT ![r] = c]
      /\ calls' = [calls EXCEPT ![k] = c] /\ keyOf' = [keyOf EXCEPT ![c] = k]
      /\ value' = value /\ step[r] = "out" /\ calls[k] = None
  BY <1>1 DEF Lead
<1>3. GroupTypeOK'
  <2>1. /\ step' \in [Caller -> {"out", "loading", "leaving", "waiting"}]
        /\ call' \in [Caller -> CallId \cup {None}]
        /\ calls' \in [Key -> CallId \cup {None}]
        /\ keyOf' \in [CallId -> Key \cup {None}]
        /\ value' \in [CallId -> Value \cup {None}]
    BY <1>1, <1>2 DEF GroupInv, GroupTypeOK
  <2>2. ASSUME NEW s \in Caller, step'[s] # "out"
        PROVE  call'[s] \in 1..made' /\ keyOf'[call'[s]] \in Key
    <3>1. CASE s = r
      BY <1>1, <1>2, <3>1 DEF GroupInv, GroupTypeOK
    <3>2. CASE s # r
      <4>1. step[s] # "out" /\ call'[s] = call[s]
        BY <1>2, <2>2, <3>2 DEF GroupInv, GroupTypeOK
      <4>2. call[s] \in 1..made /\ call[s] \in CallId /\ keyOf[call[s]] \in Key
        BY <4>1, InsideDo DEF GroupInv
      <4>3. keyOf'[call[s]] = keyOf[call[s]]
        BY <1>1, <1>2, <4>2 DEF GroupInv, GroupTypeOK
      <4>. QED BY <1>1, <4>1, <4>2, <4>3
    <3>. QED BY <3>1, <3>2
  <2>. QED BY <1>1, <2>1, <2>2 DEF GroupTypeOK
<1>4. \A s \in Caller :
        /\ s # r => (Leading(s)' <=> Leading(s)) /\ call'[s] = call[s] /\ step'[s] = step[s]
        /\ Leading(s) => s # r /\ call[s] # c /\ keyOf'[call[s]] = keyOf[call[s]]
                         /\ keyOf[call[s]] # k
  <2> SUFFICES ASSUME NEW s \in Caller
               PROVE  /\ s # r => (Leading(s)' <=> Leading(s)) /\ call'[s] = call[s]
                                  /\ step'[s] = step[s]
                      /\ Leading(s) => s # r /\ call[s] # c
                                       /\ keyOf'[call[s]] = keyOf[call[s]]
                                       /\ keyOf[call[s]] # k
    OBVIOUS
  <2>1. s # r => (Leading(s)' <=> Leading(s)) /\ call'[s] = call[s] /\ step'[s] = step[s]
    BY <1>2 DEF Leading, GroupInv, GroupTypeOK
  <2>2. ASSUME Leading(s)
        PROVE  /\ s # r /\ call[s] # c /\ keyOf'[call[s]] = keyOf[call[s]]
               /\ keyOf[call[s]] # k
    <3>1. step[s] # "out" /\ s # r
      BY <1>2, <2>2 DEF Leading
    <3>2. call[s] \in 1..made /\ call[s] # None /\ call[s] \in CallId
      BY <3>1, InsideDo DEF GroupInv
    <3>3. calls[keyOf[call[s]]] = call[s]
      BY <2>2 DEF GroupInv, MapHoldsLedCalls
    <3>. QED BY <1>1, <1>2, <3>1, <3>2, <3>3 DEF GroupInv, GroupTypeOK
  <2>. QED BY <2>1, <2>2
<1>5. Leading(r)' /\ call'[r] = c /\ keyOf'[c] = k /\ calls'[k] = c /\ step'[r] = "loading"
  BY <1>1, <1>2 DEF Leading, GroupInv, GroupTypeOK
<1>6. LeadersDiffer'
  BY <1>4, <1>5 DEF LeadersDiffer, GroupInv
<1>7. MapHoldsLedCalls'
  <2>1. ASSUME NEW s \in Caller, Leading(s)'
        PROVE  calls'[keyOf'[call'[s]]] = call'[s]
    <3>1. CASE s = r
      BY <1>5, <3>1
    <3>2. CASE s # r
      <4>1. Leading(s) /\ call'[s] = call[s] /\ keyOf'[call[s]] = keyOf[call[s]]
            /\ keyOf[call[s]] # k
        BY <1>4, <2>1, <3>2
      <4>2. calls[keyOf[call[s]]] = call[s]
        BY <4>1 DEF GroupInv, MapHoldsLedCalls
      <4>3. keyOf[call[s]] \in Key
        BY <4>1, InsideDo DEF GroupInv, Leading
      <4>. QED BY <1>2, <4>1, <4>2, <4>3 DEF GroupInv, GroupTypeOK
    <3>. QED BY <3>1, <3>2
  <2>2. ASSUME NEW j \in Key, calls'[j] # None
        PROVE  \E s \in Caller : Leading(s)' /\ call'[s] = calls'[j] /\ keyOf'[calls'[j]] = j
    <3>1. CASE j = k
      BY <1>5, <3>1
    <3>2. CASE j # k
      <4>1. calls'[j] = calls[j]
        BY <1>2, <3>2 DEF GroupInv, GroupTypeOK
      <4>2. PICK s \in Caller : Leading(s) /\ call[s] = calls[j] /\ keyOf[calls[j]] = j
        BY <2>2, <4>1 DEF GroupInv, MapHoldsLedCalls
      <4>. QED BY <1>4, <4>1, <4>2
    <3>. QED BY <3>1, <3>2
  <2>. QED BY <2>1, <2>2 DEF MapHoldsLedCalls
<1>8. PendingHasLeader'
  <2> SUFFICES ASSUME NEW d \in CallId
               PROVE  /\ d \in 1..made' =>
                           ((value'[d] = None)
                              <=> \E s \in Caller : step'[s] = "loading" /\ call'[s] = d)
                      /\ d \notin 1..made' => value'[d] = None
    BY DEF PendingHasLeader
  <2>1. CASE d = c
    BY <1>1, <1>2, <1>5, <2>1 DEF GroupInv, PendingHasLeader
  <2>2. CASE d # c
    <3>1. d \in 1..made' <=> d \in 1..made
      BY <1>1, <2>2 DEF CallId
    <3>2. (\E s \in Caller : step'[s] = "loading" /\ call'[s] = d)
            <=> \E s \in Caller : step[s] = "loading" /\ call[s] = d
      BY <1>2, <1>4, <1>5, <2>2
    <3>. QED BY <1>2, <3>1, <3>2 DEF GroupInv, PendingHasLeader
  <2>. QED BY <2>1, <2>2
<1>. QED BY <1>3, <1>6, <1>7, <1>8 DEF GroupInv

(* A caller that joins only changes its own step and call.                   *)
LEMMA JoinKeepsInv ==
  ASSUME GroupInv, NEW r \in Caller, NEW k \in Key, Join(r, k)
  PROVE  GroupInv'
<1>1. PICK t \in Caller : Leading(t) /\ call[t] = calls[k] /\ keyOf[calls[k]] = k
  BY DEF Join, GroupInv, MapHoldsLedCalls
<1>2. calls[k] \in 1..made /\ calls[k] \in CallId /\ keyOf[calls[k]] \in Key
  BY <1>1, InsideDo DEF GroupInv, Leading
<1>3. /\ step' = [step EXCEPT ![r] = "waiting"] /\ call' = [call EXCEPT ![r] = calls[k]]
      /\ UNCHANGED <<calls, made, keyOf, value>> /\ step[r] = "out"
  BY DEF Join
<1>4. GroupTypeOK'
  BY <1>2, <1>3 DEF GroupInv, GroupTypeOK
<1>5. \A s \in Caller : /\ Leading(s)' <=> Leading(s)
                        /\ step'[s] = "loading" <=> step[s] = "loading"
                        /\ Leading(s) => call'[s] = call[s]
  BY <1>3 DEF Leading, GroupInv, GroupTypeOK
<1>6. LeadersDiffer'
  BY <1>5 DEF LeadersDiffer, GroupInv, Leading
<1>7. MapHoldsLedCalls'
  BY <1>3, <1>5 DEF MapHoldsLedCalls, GroupInv, Leading
<1>8. PendingHasLeader'
  BY <1>3, <1>5 DEF PendingHasLeader, GroupInv, Leading
<1>. QED BY <1>4, <1>6, <1>7, <1>8 DEF GroupInv

(* A load that returns gives its call a value, and its leader is the only    *)
(* one that was loading for it.                                              *)
LEMMA LoadReturnsKeepsInv ==
  ASSUME GroupInv, NEW r \in Caller, NEW v \in Value, LoadReturns(r, v)
  PROVE  GroupInv'
<1>1. /\ step[r] = "loading" /\ step' = [step EXCEPT ![r] = "leaving"]
      /\ value' = [value EXCEPT ![call[r]] = v] /\ UNCHANGED <<call, calls, made, keyOf>>
  BY DEF LoadReturns
<1>2. call[r] \in 1..made /\ call[r] \in CallId /\ v # None
  BY <1>1, InsideDo, GroupAssumption DEF GroupInv
<1>3. GroupTypeOK'
  BY <1>1, <1>2 DEF GroupInv, GroupTypeOK
<1>4. \A s \in Caller : /\ Leading(s)' <=> Leading(s)
                        /\ step'[s] = "loading" <=> step[s] = "loading" /\ s # r
  BY <1>1 DEF Leading, GroupInv, GroupTypeOK
<1>5. LeadersDiffer'
  BY <1>1, <1>4 DEF LeadersDiffer, GroupInv, Leading
<1>6. MapHoldsLedCalls'
  BY <1>1, <1>4 DEF MapHoldsLedCalls, GroupInv, Leading
<1>7. \A s \in Caller : step[s] = "loading" /\ s # r => call[s] # call[r]
  BY <1>1 DEF Leading, LeadersDiffer, GroupInv
<1>8. \A d \in CallId : value'[d] = IF d = call[r] THEN v ELSE value[d]
  BY <1>1, <1>2 DEF GroupInv, GroupTypeOK
<1>9. PendingHasLeader'
  BY <1>1, <1>2, <1>4, <1>7, <1>8 DEF PendingHasLeader, GroupInv, Leading
<1>. QED BY <1>3, <1>5, <1>6, <1>9 DEF GroupInv

(* A leader that leaves takes its own call out of the map, since the calls   *)
(* of the other leaders are of other keys.                                   *)
LEMMA LeaveKeepsInv ==
  ASSUME GroupInv, NEW r \in Caller, Leave(r)
  PROVE  GroupInv'
<1> DEFINE k == keyOf[call[r]]
<1>1. /\ step[r] = "leaving" /\ step' = [step EXCEPT ![r] = "out"]
      /\ calls' = [calls EXCEPT ![k] = None] /\ call' = [call EXCEPT ![r] = None]
      /\ UNCHANGED <<made, keyOf, value>>
  BY DEF Leave
<1>2. call[r] \in 1..made /\ k \in Key /\ Leading(r)
  BY <1>1, InsideDo DEF GroupInv, Leading
<1>3. GroupTypeOK'
  BY <1>1, <1>2 DEF GroupInv, GroupTypeOK
<1>4. \A s \in Caller : /\ Leading(s)' <=> Leading(s) /\ s # r
                        /\ step'[s] = "loading" <=> step[s] = "loading"
                        /\ s # r => call'[s] = call[s]
  BY <1>1 DEF Leading, GroupInv, GroupTypeOK
<1>5. LeadersDiffer'
  BY <1>4 DEF LeadersDiffer, GroupInv, Leading
<1>6. \A s \in Caller : Leading(s) /\ s # r => keyOf[call[s]] # k
  BY <1>2 DEF LeadersDiffer, MapHoldsLedCalls, GroupInv
<1>7. \A j \in Key : calls'[j] = IF j = k THEN None ELSE calls[j]
  BY <1>1, <1>2 DEF GroupInv, GroupTypeOK
<1>8. MapHoldsLedCalls'
  <2>1. ASSUME NEW s \in Caller, Leading(s)'
        PROVE  calls'[keyOf'[call'[s]]] = call'[s]
    <3>1. Leading(s) /\ s # r /\ call'[s] = call[s] /\ keyOf[call[s]] # k
      BY <1>4, <1>6, <2>1 DEF Leading
    <3>2. keyOf[call[s]] \in Key /\ calls[keyOf[call[s]]] = call[s]
      BY <3>1, InsideDo DEF GroupInv, MapHoldsLedCalls, Leading
    <3>. QED BY <1>1, <1>7, <3>1, <3>2
  <2>2. ASSUME NEW j \in Key, calls'[j] # None
        PROVE  \E s \in Caller : Leading(s)' /\ call'[s] = calls'[j] /\ keyOf'[calls'[j]] = j
    <3>1. j # k /\ calls'[j] = calls[j]
      BY <1>7, <2>2
    <3>2. PICK s \in Caller : Leading(s) /\ call[s] = calls[j] /\ keyOf[calls[j]] = j
      BY <2>2, <3>1 DEF GroupInv, MapHoldsLedCalls
    <3>3. s # r
      BY <3>1, <3>2
    <3>. QED BY <1>1, <1>4, <3>1, <3>2, <3>3 DEF Leading
  <2>. QED BY <2>1, <2>2 DEF MapHoldsLedCalls
<1>9. PendingHasLeader'
  BY <1>1, <1>4 DEF PendingHasLeader, GroupInv, Leading
<1>. QED BY <1>3, <1>5, <1>8, <1>9 DEF GroupInv

(* A caller that was merged and returns only changes its own step and call.  *)
LEMMA JoinReturnsKeepsInv ==
  ASSUME GroupInv, NEW r \in Caller, JoinReturns(r)
  PROVE  GroupInv'
<1>1. /\ step[r] = "waiting" /\ step' = [step EXCEPT ![r] = "out"]
      /\ call' = [call EXCEPT ![r] = None] /\ UNCHANGED <<calls, made, keyOf, value>>
  BY DEF JoinReturns
<1>2. GroupTypeOK'
  BY <1>1 DEF GroupInv, GroupTypeOK
<1>3. \A s \in Caller : /\ Leading(s)' <=> Leading(s)
                        /\ step'[s] = "loading" <=> step[s] = "loading"
                        /\ Leading(s) => call'[s] = call[s]
  BY <1>1 DEF Leading, GroupInv, GroupTypeOK
<1>4. LeadersDiffer'
  BY <1>3 DEF LeadersDiffer, GroupInv, Leading
<1>5. MapHoldsLedCalls'
  BY <1>1, <1>3 DEF MapHoldsLedCalls, GroupInv, Leading
<1>6. PendingHasLeader'
  BY <1>1, <1>3 DEF PendingHasLeader, GroupInv, Leading
<1>. QED BY <1>2, <1>4, <1>5, <1>6 DEF GroupInv

-----------------------------------------------------------------------------

(* The invariant holds in every state.                                       *)
LEMMA GroupInvariance == GroupSpec => []GroupInv
<1>1. GroupInv /\ [GroupNext]_groupVars => GroupInv'
  <2> SUFFICES ASSUME GroupInv, [GroupNext]_groupVars PROVE GroupInv'
    OBVIOUS
  <2>1. ASSUME NEW r \in Caller, NEW k \in Key, Lead(r, k) PROVE GroupInv'
    BY <2>1, LeadKeepsInv
  <2>2. ASSUME NEW r \in Caller, NEW k \in Key, Join(r, k) PROVE GroupInv'
    BY <2>2, JoinKeepsInv
  <2>3. ASSUME NEW r \in Caller, NEW v \in Value, LoadReturns(r, v) PROVE GroupInv'
    BY <2>3, LoadReturnsKeepsInv
  <2>4. ASSUME NEW r \in Caller, Returns(r) PROVE GroupInv'
    BY <2>4, LeaveKeepsInv, JoinReturnsKeepsInv DEF Returns
  <2>5. CASE UNCHANGED groupVars
    BY <2>5 DEF groupVars, GroupInv, GroupTypeOK, LeadersDiffer, MapHoldsLedCalls,
                PendingHasLeader, Leading
  <2>. QED BY <2>1, <2>2, <2>3, <2>4, <2>5 DEF GroupNext
<1>. QED BY <1>1, GroupInvInit, PTL DEF GroupSpec

(* Concurrent loads are of different keys, and the map holds exactly the     *)
(* calls in progress (group.go:44-59).                                       *)
THEOREM LoadsAreMerged == GroupSpec => [](OneLoadPerKey /\ MapHoldsLedCalls)
<1>1. GroupInv => OneLoadPerKey /\ MapHoldsLedCalls
  BY DEF GroupInv, OneLoadPerKey, MapHoldsLedCalls, LeadersDiffer, Leading
<1>. QED BY <1>1, GroupInvariance, PTL

(* Whoever waits has somebody that loads for it, or a result to return with  *)
(* (group.go:46-47, 54-55).                                                  *)
THEOREM WaitersAreServed == GroupSpec => []WaitersHaveLeader
<1>1. GroupInv => WaitersHaveLeader
  BY InsideDo DEF GroupInv, WaitersHaveLeader, PendingHasLeader
<1>. QED BY <1>1, GroupInvariance, PTL

(* A result never changes once it is there, and nobody returns without one   *)
(* (group.go:47, 60).                                                        *)
THEOREM ResultsAreFinal == GroupSpec => OneResultPerCall
<1> DEFINE Final ==
      /\ \A c \in CallId : value[c] # None => value'[c] = value[c]
      /\ \A r \in Caller : step[r] # "out" /\ step'[r] = "out" => Result(r) # None
<1>1. ASSUME GroupInv, [GroupNext]_groupVars PROVE [Final]_groupVars
  <2>1. ASSUME NEW r \in Caller, NEW k \in Key, Lead(r, k) \/ Join(r, k) PROVE Final
    <3>1. value' = value /\ step[r] = "out"
          /\ \E x \in {"loading", "waiting"} : step' = [step EXCEPT ![r] = x]
      BY <2>1 DEF Lead, Join
    <3>. QED BY <1>1, <3>1 DEF GroupInv, GroupTypeOK
  <2>2. ASSUME NEW r \in Caller, NEW v \in Value, LoadReturns(r, v) PROVE Final
    <3>1. value[call[r]] = None
      BY <1>1, <2>2, InsideDo DEF LoadReturns, GroupInv, PendingHasLeader
    <3>. QED BY <1>1, <2>2, <3>1 DEF LoadReturns, GroupInv, GroupTypeOK
  <2>3. ASSUME NEW r \in Caller, Leave(r) PROVE Final
    <3>1. /\ call[r] \in 1..made /\ call[r] \in CallId /\ step[r] = "leaving"
          /\ value' = value /\ step' = [step EXCEPT ![r] = "out"]
      BY <1>1, <2>3, InsideDo DEF Leave, GroupInv
    <3>2. \A s \in Caller : step[s] = "loading" => call[s] # call[r]
      BY <1>1, <3>1 DEF GroupInv, LeadersDiffer, Leading
    <3>3. value[call[r]] # None
      BY <1>1, <3>1, <3>2 DEF GroupInv, PendingHasLeader
    <3>. QED BY <1>1, <3>1, <3>3 DEF GroupInv, GroupTypeOK, Result
  <2>4. ASSUME NEW r \in Caller, JoinReturns(r) PROVE Final
    BY <1>1, <2>4 DEF JoinReturns, Result, GroupInv, GroupTypeOK
  <2>. QED BY <1>1, <2>1, <2>2, <2>3, <2>4 DEF GroupNext, Returns
<1>. QED BY <1>1, GroupInvariance, PTL DEF GroupSpec, OneResultPerCall

=============================================================================
