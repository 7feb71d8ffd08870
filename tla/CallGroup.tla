------------------------------ MODULE CallGroup ------------------------------
(***************************************************************************)
(* cache.Group of internal/cache/group.go: concurrent loads of one key are *)
(* merged.  The first caller of a key makes a call, loads, and removes the *)
(* call from the map; callers that find the call in the map wait for it.   *)
(*                                                                         *)
(* Calls are numbered in the order they are made, as the code allocates    *)
(* them.  Do is given to the modules that extend this one in its steps.    *)
(***************************************************************************)
EXTENDS Naturals

CONSTANTS
  Caller,      \* goroutines that call Do
  Key,         \* the non-empty keys; the empty key bypasses the group
  Value,       \* what a load returns, its error included
  None,        \* no call; a load that has not returned
  MaxCalls     \* bound on the calls made

ASSUME GroupAssumption == MaxCalls \in Nat /\ None \notin Nat /\ None \notin Value

VARIABLES
  step,        \* where each caller is in Do
  call,        \* the call each caller made or waits for
  calls,       \* Group.calls
  made,        \* how many calls have been made
  keyOf,       \* the key each call was made for
  value        \* the result of each call, None before wg.Done

groupVars == <<step, call, calls, made, keyOf, value>>

CallId == 1..MaxCalls

GroupInit ==
  /\ step = [r \in Caller |-> "out"]
  /\ call = [r \in Caller |-> None]
  /\ calls = [k \in Key |-> None]
  /\ made = 0
  /\ keyOf = [c \in CallId |-> None]
  /\ value = [c \in CallId |-> None]

-----------------------------------------------------------------------------

Lead_Always(r, k) ==
  /\ step[r] = "out"
  /\ made < MaxCalls
  /\ made' = made + 1
  /\ step' = [step EXCEPT ![r] = "loading"]
  /\ call' = [call EXCEPT ![r] = made']
  /\ calls' = [calls EXCEPT ![k] = made']
  /\ keyOf' = [keyOf EXCEPT ![made'] = k]
  /\ UNCHANGED value

(* The caller finds no call of its key and makes one.                        *)
Lead(r, k) ==
  /\ step[r] = "out" /\ calls[k] = None
  /\ made < MaxCalls
  /\ made' = made + 1
  /\ step' = [step EXCEPT ![r] = "loading"]
  /\ call' = [call EXCEPT ![r] = made']
  /\ calls' = [calls EXCEPT ![k] = made']
  /\ keyOf' = [keyOf EXCEPT ![made'] = k]
  /\ UNCHANGED value

(* The caller finds a call of its key, which may be done already.            *)
Join(r, k) ==
  /\ step[r] = "out" /\ calls[k] # None
  /\ step' = [step EXCEPT ![r] = "waiting"]
  /\ call' = [call EXCEPT ![r] = calls[k]]
  /\ UNCHANGED <<calls, made, keyOf, value>>

(* fn returns v, and wg.Done releases the callers that wait.                 *)
LoadReturns(r, v) ==
  /\ step[r] = "loading"
  /\ value' = [value EXCEPT ![call[r]] = v]
  /\ step' = [step EXCEPT ![r] = "leaving"]
  /\ UNCHANGED <<call, calls, made, keyOf>>

(* The call is removed from the map, and its maker returns.                  *)
Leave(r) ==
  /\ step[r] = "leaving"
  /\ calls' = [calls EXCEPT ![keyOf[call[r]]] = None]
  /\ step' = [step EXCEPT ![r] = "out"]
  /\ call' = [call EXCEPT ![r] = None]
  /\ UNCHANGED <<made, keyOf, value>>

JoinReturns_WhenLeft(r) ==
  /\ step[r] = "waiting" /\ value[call[r]] # None
  /\ calls[keyOf[call[r]]] = call[r]
  /\ step' = [step EXCEPT ![r] = "out"]
  /\ call' = [call EXCEPT ![r] = None]
  /\ UNCHANGED <<calls, made, keyOf, value>>

JoinReturns(r) ==
  /\ step[r] = "waiting" /\ value[call[r]] # None
  /\ step' = [step EXCEPT ![r] = "out"]
  /\ call' = [call EXCEPT ![r] = None]
  /\ UNCHANGED <<calls, made, keyOf, value>>

(* What Do returns: the value of the call the caller made or waited for.     *)
Result(r) == value[call[r]]

(* The step in which Do returns to r, with Result(r).                        *)
Returns(r) == Leave(r) \/ JoinReturns(r)

-----------------------------------------------------------------------------

GroupNext ==
  \E r \in Caller :
    \/ \E k \in Key : Lead(r, k) \/ Join(r, k)
    \/ \E v \in Value : LoadReturns(r, v)
    \/ Returns(r)

GroupSpec == GroupInit /\ [][GroupNext]_groupVars

-----------------------------------------------------------------------------
(* Properties *)

Leading(r) == step[r] \in {"loading", "leaving"}

(* The shape of the state: a caller inside Do has a call, and every call in  *)
(* use was made, for a key (group.go:9-22).                                  *)
GroupTypeOK ==
  /\ step \in [Caller -> {"out", "loading", "leaving", "waiting"}]
  /\ call \in [Caller -> CallId \cup {None}]
  /\ calls \in [Key -> CallId \cup {None}]
  /\ made \in 0..MaxCalls
  /\ keyOf \in [CallId -> Key \cup {None}]
  /\ value \in [CallId -> Value \cup {None}]
  /\ \A r \in Caller :
       step[r] # "out" => call[r] \in 1..made /\ keyOf[call[r]] \in Key

(* One load per key: two callers that load at the same time load different   *)
(* keys (group.go:44-54).                                                    *)
OneLoadPerKey ==
  \A r, s \in Caller :
    r # s /\ step[r] = "loading" /\ step[s] = "loading" =>
      keyOf[call[r]] # keyOf[call[s]]

(* The map holds the calls that are being led, and no others: a leader never *)
(* removes somebody else's call, no finished call stays behind to answer     *)
(* later callers, and no call is in the map under another's key              *)
(* (group.go:51, 57-59).                                                     *)
MapHoldsLedCalls ==
  /\ \A r \in Caller : Leading(r) => calls[keyOf[call[r]]] = call[r]
  /\ \A k \in Key :
       calls[k] # None =>
         \E r \in Caller : Leading(r) /\ call[r] = calls[k] /\ keyOf[calls[k]] = k

(* Whoever waits can be released: the call it waits for is done, or its      *)
(* leader is still loading; and a call in the middle of its load has no      *)
(* value that a caller could return (group.go:46-47, 54-55).                 *)
WaitersHaveLeader ==
  \A r \in Caller :
    step[r] = "waiting" =>
      (value[call[r]] = None) = \E s \in Caller : step[s] = "loading" /\ call[s] = call[r]

(* Everybody who was merged into a load gets its one result: a result does   *)
(* not change once it is there, and nobody returns without one               *)
(* (group.go:47, 60).                                                        *)
OneResultPerCall ==
  [][/\ \A c \in CallId : value[c] # None => value'[c] = value[c]
     /\ \A r \in Caller : step[r] # "out" /\ step'[r] = "out" => Result(r) # None
    ]_groupVars

(* Do returns to everyone, given that loads return.                          *)
DoReturns == \A r \in Caller : step[r] # "out" ~> step[r] = "out"

=============================================================================
