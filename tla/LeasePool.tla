----------------------------- MODULE LeasePool -----------------------------
(***************************************************************************)
(* What a source pool promises its callers, without hosts, circuits, locks *)
(* or condition variables: a client is lent to one worker at a time, no    *)
(* client is lent once closing has begun, and a client is closed once, and *)
(* only after every lent client has come back.  SourcePool implements it.  *)
(***************************************************************************)
CONSTANTS Worker, Client,
          Free,    \* an idle client
          Gone     \* a client whose Close function has been called

VARIABLES phase,   \* "open", "closing" or "closed"
          holder   \* for each client, the worker it is lent to, Free or Gone

vars == <<phase, holder>>

TypeOK ==
  /\ phase \in {"open", "closing", "closed"}
  /\ holder \in [Client -> Worker \cup {Free, Gone}]

Init ==
  /\ phase = "open"
  /\ holder = [c \in Client |-> Free]

Holds(w) == \E c \in Client : holder[c] = w

Lent == {c \in Client : holder[c] \in Worker}

Lend(w, c) ==
  /\ phase = "open" /\ ~Holds(w) /\ holder[c] = Free
  /\ holder' = [holder EXCEPT ![c] = w]
  /\ UNCHANGED phase

TakeBack(w, c) ==
  /\ holder[c] = w
  /\ holder' = [holder EXCEPT ![c] = Free]
  /\ UNCHANGED phase

BeginClose ==
  /\ phase = "open"
  /\ phase' = "closing"
  /\ UNCHANGED holder

Retire(c) ==
  /\ phase = "closing" /\ Lent = {} /\ holder[c] = Free
  /\ holder' = [holder EXCEPT ![c] = Gone]
  /\ UNCHANGED phase

EndClose ==
  /\ phase = "closing" /\ \A c \in Client : holder[c] = Gone
  /\ phase' = "closed"
  /\ UNCHANGED holder

Next ==
  \/ \E w \in Worker, c \in Client : Lend(w, c) \/ TakeBack(w, c)
  \/ BeginClose
  \/ \E c \in Client : Retire(c)
  \/ EndClose

Spec == Init /\ [][Next]_vars
=============================================================================
