----------------------------- MODULE SourcePool -----------------------------
(***************************************************************************)
(* The generic client pool of internal/source/pool.go: independent clients *)
(* on several hosts, leased one at a time, with a circuit breaker per host *)
(* and a Close that drains the leases before it closes the clients.        *)
(*                                                                         *)
(* Workers call Acquire, report on the host of their lease and Release it; *)
(* closers call Close.  An action is one hold of Pool.mu, except where the *)
(* code works without the lock.  sync.Cond is the set waitSet of the       *)
(* actors parked in cond.Wait: Broadcast empties it, and an actor that has *)
(* left it runs the next iteration of its loop.                            *)
(***************************************************************************)
EXTENDS Integers, FiniteSets

CONSTANTS
  NumHosts,                   \* hosts are numbered in the order of Config.Hosts
  NumClients,                 \* the number of ready clients of each host
  FailureThreshold,           \* consecutive failures that open a closed circuit
  HalfOpenSuccessThreshold,   \* successes that close a half-open circuit
  OpenTimeout,                \* how long a circuit stays open
  Worker, Closer,             \* goroutines that lease clients, and that call Close
  Background,                 \* the goroutine of scheduleBackgroundCloseLocked
  NoLease,                    \* the lease of a worker that never had one
  MaxTime,                    \* bound on the clock
  MaxGeneration,              \* bound on the leases given of one client
  MaxFailures                 \* bound on the counted consecutive failures

Host == 0..(NumHosts - 1)

Client == UNION {{h} \X (0..(NumClients[h] - 1)) : h \in Host}

Lease == [client : Client, generation : Nat]

ASSUME PoolAssumption ==
  /\ NumHosts \in Nat \ {0}
  /\ NumClients \in [Host -> Nat]
  /\ FailureThreshold \in Nat \ {0}
  /\ HalfOpenSuccessThreshold \in Nat \ {0}
  /\ OpenTimeout \in Nat \ {0}
  /\ MaxTime \in Nat /\ MaxGeneration \in Nat /\ MaxFailures \in Nat

ASSUME ActorAssumption ==
  /\ IsFiniteSet(Worker)
  /\ Worker \cap Closer = {}
  /\ Background \notin Worker \cup Closer
  /\ NoLease \notin Lease

VARIABLES
  now,          \* time.Now(); the clock starts at 1
  nextHost,     \* Pool.nextHost
  host,         \* the hostPool of each host
  client,       \* the pooledClient of each client
  closing, closeRunning, closed,   \* the Pool fields of the same names
  pc,           \* where each actor is
  waitSet,      \* the actors parked in cond.Wait
  ctxDone,      \* whether the context of an actor's call has ended
  wake,         \* the time a parked worker's timer fires, NoTime if it has none
  lease,        \* the last lease a worker was given, still held or not
  toClose,      \* the clients a finisher has still to close
  closeCalls    \* how often each client's Close function was called

leaseVars == <<lease, wake>>
closeVars == <<closing, closeRunning, closed, toClose, closeCalls>>
vars == <<now, nextHost, host, client, closing, closeRunning, closed, pc,
          waitSet, ctxDone, wake, lease, toClose, closeCalls>>

Finisher == Closer \cup {Background}
Actor == Worker \cup Finisher
NoTime == 0     \* the zero time.Time

WorkerPC == {"idle", "acquiring", "holding"}
FinisherPC == {"idle", "draining", "joining", "closing", "done", "timedOut"}

HostPool ==
  [circuit : {"closed", "open", "half-open"}, halfOpenInFlight : BOOLEAN,
   consecutiveFailures : Nat, consecutiveSuccesses : Nat, openUntil : Nat,
   inFlight : Nat, nextClient : Nat]

PooledClient == [inUse : BOOLEAN, generation : Nat]

Init ==
  /\ now = 1
  /\ nextHost = 0
  /\ host = [h \in Host |->
               [circuit |-> "closed", halfOpenInFlight |-> FALSE,
                consecutiveFailures |-> 0, consecutiveSuccesses |-> 0,
                openUntil |-> NoTime, inFlight |-> 0, nextClient |-> 0]]
  /\ client = [c \in Client |-> [inUse |-> FALSE, generation |-> 0]]
  /\ closing = FALSE /\ closeRunning = FALSE /\ closed = FALSE
  /\ pc = [a \in Actor |-> "idle"]
  /\ waitSet = {}
  /\ ctxDone = [a \in Actor |-> FALSE]
  /\ wake = [w \in Worker |-> NoTime]
  /\ lease = [w \in Worker |-> NoLease]
  /\ toClose = [k \in Finisher |-> {}]
  /\ closeCalls = [c \in Client |-> 0]

-----------------------------------------------------------------------------
(* The circuit of a host: pure functions from a hostPool record to the next. *)
(* An operator whose name continues another's with an underscore is that     *)
(* operator with a plausible bug; no specification uses it, it is there to   *)
(* show which property would notice the bug.                                 *)

Refresh_Early(hp, t) ==
  IF hp.circuit = "open" /\ t + 1 >= hp.openUntil
    THEN [hp EXCEPT !.circuit = "half-open", !.halfOpenInFlight = FALSE,
                    !.consecutiveSuccesses = 0]
    ELSE hp

Refresh(hp, t) ==
  IF hp.circuit = "open" /\ hp.openUntil # NoTime /\ t >= hp.openUntil
    THEN [hp EXCEPT !.circuit = "half-open", !.halfOpenInFlight = FALSE,
                    !.consecutiveSuccesses = 0]
    ELSE hp

OpenCircuit(hp, t) ==
  [hp EXCEPT !.circuit = "open", !.halfOpenInFlight = FALSE,
             !.consecutiveSuccesses = 0, !.openUntil = t + OpenTimeout]

CloseCircuit(hp) ==
  [hp EXCEPT !.circuit = "closed", !.halfOpenInFlight = FALSE,
             !.consecutiveFailures = 0, !.consecutiveSuccesses = 0,
             !.openUntil = NoTime]

CanAcquire_IgnoresInFlight(hp) ==
  \/ hp.circuit = "closed"
  \/ hp.circuit = "half-open" /\ ~hp.halfOpenInFlight

CanAcquire(hp) ==
  \/ hp.circuit = "closed"
  \/ hp.circuit = "half-open" /\ ~hp.halfOpenInFlight /\ hp.inFlight = 0

(* The host after ReportSuccess has refreshed it. *)
Succeeded(hp) ==
  LET s == [hp EXCEPT !.consecutiveFailures = 0]
  IN  CASE hp.circuit = "half-open" ->
             IF hp.consecutiveSuccesses + 1 >= HalfOpenSuccessThreshold
               THEN CloseCircuit(s)
               ELSE [s EXCEPT !.halfOpenInFlight = FALSE,
                              !.consecutiveSuccesses = @ + 1]
        [] hp.circuit = "closed" -> [s EXCEPT !.consecutiveSuccesses = 0]
        [] OTHER -> s

Failed_OneEarly(hp, t) ==
  LET f == [hp EXCEPT !.consecutiveFailures = @ + 1,
                      !.consecutiveSuccesses = 0, !.halfOpenInFlight = FALSE]
  IN  IF f.circuit = "closed" /\ f.consecutiveFailures < FailureThreshold - 1
        THEN f
        ELSE OpenCircuit(f, t)

(* The host after ReportFailure has refreshed it. *)
Failed(hp, t) ==
  LET f == [hp EXCEPT !.consecutiveFailures = @ + 1,
                      !.consecutiveSuccesses = 0, !.halfOpenInFlight = FALSE]
  IN  IF f.circuit = "closed" /\ f.consecutiveFailures < FailureThreshold
        THEN f
        ELSE OpenCircuit(f, t)

-----------------------------------------------------------------------------
(* Choosing a client: both rotations start at a cursor and take the first    *)
(* candidate, so the choice is the candidate the fewest places ahead of it.  *)

Ahead(cursor, k, n) == (k + n - cursor) % n

HostsAhead(h) == Ahead(nextHost, h, NumHosts)

Idle(h) == {c \in Client : c[1] = h /\ ~client[c].inUse}

Available ==
  {c \in Client : ~client[c].inUse /\ CanAcquire(Refresh(host[c[1]], now))}

IsNextAvailable(c) ==
  /\ c \in Available
  /\ \A d \in Available :
       /\ HostsAhead(c[1]) <= HostsAhead(d[1])
       /\ c[1] = d[1] =>
            LET Places(e) ==
                  Ahead(host[c[1]].nextClient, e[2], NumClients[c[1]])
            IN  Places(c) <= Places(d)

NextHost_Stays(c) == c[1]

NextHost(c) == (c[1] + 1) % NumHosts

NextClient(c) == (c[2] + 1) % NumClients[c[1]]

(* The hosts after nextAvailableLocked has refreshed those it looked at and  *)
(* Acquire has leased c, the client it found.                                *)
HostsAfterLease(c) ==
  [h \in Host |->
     LET hp == Refresh(host[h], now)
     IN  IF h = c[1]
           THEN [hp EXCEPT !.inFlight = @ + 1,
                           !.nextClient = NextClient(c),
                           !.halfOpenInFlight = @ \/ hp.circuit = "half-open"]
           ELSE IF HostsAhead(h) < HostsAhead(c[1]) THEN hp ELSE host[h]]

AllRefreshed == [h \in Host |-> Refresh(host[h], now)]

DueTimes(hosts) ==
  {hosts[h].openUntil :
     h \in {g \in Host : hosts[g].circuit = "open" /\ Idle(g) # {}}}

(* The earliest time an open circuit with an idle client may half-open, as a *)
(* set of one element.                                                       *)
NextWake(hosts) ==
  IF DueTimes(hosts) = {} THEN {NoTime}
  ELSE {t \in DueTimes(hosts) : \A u \in DueTimes(hosts) : t <= u}

-----------------------------------------------------------------------------
(* Acquire.  A worker runs its loop while it is "acquiring" and not parked.  *)

Running(a, where) == pc[a] = where /\ a \notin waitSet

Refuses_ClosedOnly == closed

Refuses == closed \/ closing

Call(w) ==
  /\ pc[w] = "idle"
  /\ pc' = [pc EXCEPT ![w] = "acquiring"]
  /\ ctxDone' = [ctxDone EXCEPT ![w] = FALSE]
  /\ UNCHANGED <<now, nextHost, host, client, waitSet, leaseVars, closeVars>>

AcquireRefused(w) ==
  /\ Running(w, "acquiring")
  /\ Refuses
  /\ pc' = [pc EXCEPT ![w] = "idle"]
  /\ UNCHANGED <<now, nextHost, host, client, waitSet, ctxDone, leaseVars, closeVars>>

AcquireCanceled(w) ==
  /\ Running(w, "acquiring")
  /\ ~Refuses /\ ctxDone[w]
  /\ pc' = [pc EXCEPT ![w] = "idle"]
  /\ UNCHANGED <<now, nextHost, host, client, waitSet, ctxDone, leaseVars, closeVars>>

NextGeneration(c) == client[c].generation + 1

AcquireLease(w) ==
  /\ Running(w, "acquiring")
  /\ ~Refuses /\ ~ctxDone[w]
  /\ \E c \in Client :
       /\ IsNextAvailable(c)
       /\ client[c].generation < MaxGeneration
       /\ client' = [client EXCEPT ![c] =
                       [inUse |-> TRUE, generation |-> NextGeneration(c)]]
       /\ host' = HostsAfterLease(c)
       /\ nextHost' = NextHost(c)
       /\ lease' = [lease EXCEPT ![w] =
                      [client |-> c, generation |-> NextGeneration(c)]]
  /\ pc' = [pc EXCEPT ![w] = "holding"]
  /\ UNCHANGED <<now, waitSet, ctxDone, wake, closeVars>>

AcquireWait(w) ==
  /\ Running(w, "acquiring")
  /\ ~Refuses /\ ~ctxDone[w]
  /\ Available = {}
  /\ host' = AllRefreshed
  /\ \E t \in NextWake(AllRefreshed) : wake' = [wake EXCEPT ![w] = t]
  /\ waitSet' = waitSet \cup {w}
  /\ UNCHANGED <<now, nextHost, client, pc, ctxDone, lease, closeVars>>

-----------------------------------------------------------------------------
(* Release and the reports.                                                  *)

Broadcast_Signal ==
  IF waitSet = {} THEN waitSet' = {}
  ELSE \E a \in waitSet : waitSet' = waitSet \ {a}

Broadcast == waitSet' = {}

LeaseValid_Unchecked(l) == TRUE

LeaseValid_IgnoresGeneration(l) == client[l.client].inUse

LeaseValid(l) ==
  client[l.client].inUse /\ client[l.client].generation = l.generation

(* The host after a lease of it came back.                                   *)
Released(hp) ==
  [hp EXCEPT !.inFlight = IF @ > 0 THEN @ - 1 ELSE 0,
             !.halfOpenInFlight = @ /\ hp.circuit # "half-open"]

(* A worker releases its lease; one that releases it again is told so, and   *)
(* nothing changes (ReleaseAgain).                                           *)
Release(w) ==
  /\ pc[w] # "acquiring" /\ lease[w] # NoLease
  /\ LeaseValid(lease[w])
  /\ LET c == lease[w].client
     IN  /\ client' = [client EXCEPT ![c].inUse = FALSE]
         /\ host' = [host EXCEPT ![c[1]] = Released(@)]
  /\ Broadcast
  /\ pc' = [pc EXCEPT ![w] = "idle"]
  /\ UNCHANGED <<now, nextHost, ctxDone, leaseVars, closeVars>>

ReleaseAgain(w) ==
  /\ pc[w] # "acquiring" /\ lease[w] # NoLease
  /\ ~LeaseValid(lease[w])
  /\ UNCHANGED vars

ReportSuccess(w) ==
  /\ pc[w] = "holding"
  /\ host' = [host EXCEPT ![lease[w].client[1]] = Succeeded(Refresh(@, now))]
  /\ Broadcast
  /\ UNCHANGED <<now, nextHost, client, pc, ctxDone, leaseVars, closeVars>>

ReportFailure(w) ==
  /\ pc[w] = "holding"
  /\ host[lease[w].client[1]].consecutiveFailures < MaxFailures
  /\ host' = [host EXCEPT ![lease[w].client[1]] = Failed(Refresh(@, now), now)]
  /\ Broadcast
  /\ UNCHANGED <<now, nextHost, client, pc, ctxDone, leaseVars, closeVars>>

(* A snapshot moves the circuits whose time has come.                        *)
HealthSnapshot ==
  /\ host' = AllRefreshed
  /\ UNCHANGED <<now, nextHost, client, pc, waitSet, ctxDone, leaseVars, closeVars>>

-----------------------------------------------------------------------------
(* Close.  The first caller, or the background goroutine its timeout starts, *)
(* is the finisher; later callers join it.                                   *)

InFlight == \E h \in Host : host[h].inFlight > 0

CloseReturnsAtOnce(k) ==
  /\ pc[k] = "idle" /\ closed
  /\ pc' = [pc EXCEPT ![k] = "done"]
  /\ UNCHANGED <<now, nextHost, host, client, waitSet, ctxDone, leaseVars, closeVars>>

CloseStart(k) ==
  /\ pc[k] = "idle" /\ ~closed /\ ~closeRunning
  /\ closing' = TRUE /\ closeRunning' = TRUE
  /\ pc' = [pc EXCEPT ![k] = "draining"]
  /\ Broadcast
  /\ UNCHANGED <<now, nextHost, host, client, ctxDone, leaseVars, closed,
                 toClose, closeCalls>>

Joins(k) ==
  \/ pc[k] = "idle" /\ ~closed /\ closeRunning
  \/ Running(k, "joining")

JoinDone(k) ==
  /\ Joins(k) /\ closed
  /\ pc' = [pc EXCEPT ![k] = "done"]
  /\ UNCHANGED <<now, nextHost, host, client, waitSet, ctxDone, leaseVars, closeVars>>

JoinTimeout(k) ==
  /\ Joins(k) /\ ~closed /\ ctxDone[k]
  /\ pc' = [pc EXCEPT ![k] = "timedOut"]
  /\ UNCHANGED <<now, nextHost, host, client, waitSet, ctxDone, leaseVars, closeVars>>

JoinWait(k) ==
  /\ Joins(k) /\ ~closed /\ ~ctxDone[k]
  /\ pc' = [pc EXCEPT ![k] = "joining"]
  /\ waitSet' = waitSet \cup {k}
  /\ UNCHANGED <<now, nextHost, host, client, ctxDone, leaseVars, closeVars>>

DrainWait(k) ==
  /\ Running(k, "draining")
  /\ InFlight /\ ~ctxDone[k]
  /\ waitSet' = waitSet \cup {k}
  /\ UNCHANGED <<now, nextHost, host, client, pc, ctxDone, leaseVars, closeVars>>

DrainTimeout_Abandons(k) ==
  /\ Running(k, "draining")
  /\ ctxDone[k]
  /\ pc' = [pc EXCEPT ![k] = "timedOut"]
  /\ Broadcast
  /\ UNCHANGED <<now, nextHost, host, client, ctxDone, leaseVars, closeVars>>

(* The caller's context ended: the drain goes on in the background.          *)
DrainTimeout(k) ==
  /\ Running(k, "draining")
  /\ ctxDone[k]
  /\ closing' = TRUE /\ closeRunning' = TRUE
  /\ pc' = [pc EXCEPT ![k] = "timedOut", ![Background] = "draining"]
  /\ Broadcast
  /\ UNCHANGED <<now, nextHost, host, client, ctxDone, leaseVars, closed,
                 toClose, closeCalls>>

DrainDone(k) ==
  /\ Running(k, "draining")
  /\ ~InFlight /\ ~ctxDone[k]
  /\ pc' = [pc EXCEPT ![k] = "closing"]
  /\ toClose' = [toClose EXCEPT ![k] = Client]
  /\ UNCHANGED <<now, nextHost, host, client, waitSet, ctxDone, leaseVars,
                 closing, closeRunning, closed, closeCalls>>

(* One client is closed, without the lock.                                   *)
CloseClient(k) ==
  /\ pc[k] = "closing"
  /\ \E c \in toClose[k] :
       /\ toClose' = [toClose EXCEPT ![k] = @ \ {c}]
       /\ closeCalls' = [closeCalls EXCEPT ![c] = @ + 1]
  /\ UNCHANGED <<now, nextHost, host, client, pc, waitSet, ctxDone, leaseVars,
                 closing, closeRunning, closed>>

CloseFinish_Early(k) ==
  /\ pc[k] = "closing"
  /\ closed' = TRUE /\ closing' = FALSE /\ closeRunning' = FALSE
  /\ pc' = [pc EXCEPT ![k] = "done"]
  /\ Broadcast
  /\ UNCHANGED <<now, nextHost, host, client, ctxDone, leaseVars, toClose, closeCalls>>

CloseFinish(k) ==
  /\ pc[k] = "closing" /\ toClose[k] = {}
  /\ closed' = TRUE /\ closing' = FALSE /\ closeRunning' = FALSE
  /\ pc' = [pc EXCEPT ![k] = "done"]
  /\ Broadcast
  /\ UNCHANGED <<now, nextHost, host, client, ctxDone, leaseVars, toClose, closeCalls>>

-----------------------------------------------------------------------------
(* The environment: time, contexts, and the helper goroutine waitLocked      *)
(* starts, which broadcasts when the context ends or the timer fires.        *)

Tick ==
  /\ now < MaxTime
  /\ now' = now + 1
  /\ UNCHANGED <<nextHost, host, client, pc, waitSet, ctxDone, leaseVars, closeVars>>

CtxEnds(a) ==
  /\ pc[a] \in {"acquiring", "draining", "joining"} /\ ~ctxDone[a]
  /\ ctxDone' = [ctxDone EXCEPT ![a] = TRUE]
  /\ UNCHANGED <<now, nextHost, host, client, pc, waitSet, leaseVars, closeVars>>

CtxBroadcast_TimerOrContext(a) ==
  /\ a \in waitSet /\ ctxDone[a] /\ (a \in Worker => wake[a] = NoTime)
  /\ Broadcast
  /\ UNCHANGED <<now, nextHost, host, client, pc, ctxDone, leaseVars, closeVars>>

CtxBroadcast(a) ==
  /\ a \in waitSet /\ ctxDone[a]
  /\ Broadcast
  /\ UNCHANGED <<now, nextHost, host, client, pc, ctxDone, leaseVars, closeVars>>

TimerBroadcast(w) ==
  /\ w \in waitSet /\ wake[w] # NoTime /\ wake[w] <= now
  /\ Broadcast
  /\ UNCHANGED <<now, nextHost, host, client, pc, ctxDone, leaseVars, closeVars>>

-----------------------------------------------------------------------------

Acquire(w) ==
  AcquireRefused(w) \/ AcquireCanceled(w) \/ AcquireLease(w) \/ AcquireWait(w)

WorkerStep(w) ==
  \/ Call(w) \/ Acquire(w)
  \/ Release(w) \/ ReleaseAgain(w) \/ ReportSuccess(w) \/ ReportFailure(w)

Close(k) == CloseReturnsAtOnce(k) \/ CloseStart(k)

JoinClose(k) == JoinDone(k) \/ JoinTimeout(k) \/ JoinWait(k)

FinishClose(k) ==
  DrainWait(k) \/ DrainTimeout(k) \/ DrainDone(k) \/ CloseClient(k) \/ CloseFinish(k)

Next ==
  \/ \E w \in Worker : WorkerStep(w) \/ TimerBroadcast(w)
  \/ \E k \in Closer : Close(k) \/ JoinClose(k)
  \/ \E k \in Finisher : FinishClose(k)
  \/ \E a \in Worker \cup Closer : CtxEnds(a) \/ CtxBroadcast(a)
  \/ HealthSnapshot
  \/ Tick

Spec == Init /\ [][Next]_vars

(* The Go scheduler and sync.Mutex let every goroutine that can take a step  *)
(* take it, helpers included.  Nothing obliges a caller to call, a context   *)
(* to end or time to pass.                                                   *)
Scheduling ==
  /\ \A w \in Worker : WF_vars(Acquire(w)) /\ WF_vars(TimerBroadcast(w))
  /\ \A k \in Closer : WF_vars(JoinClose(k))
  /\ \A k \in Finisher : WF_vars(FinishClose(k))
  /\ \A a \in Worker \cup Closer : WF_vars(CtxBroadcast(a))

ScheduledSpec == Spec /\ Scheduling

-----------------------------------------------------------------------------
(* Properties *)

(* The shape of the state: every cursor, counter, lease and wait-set member  *)
(* is one the code can hold (pool.go:85-139).                                *)
TypeOK ==
  /\ now \in Nat
  /\ nextHost \in Host
  /\ host \in [Host -> HostPool]
  /\ \A h \in Host : host[h].nextClient # 0 => host[h].nextClient < NumClients[h]
  /\ client \in [Client -> PooledClient]
  /\ closing \in BOOLEAN /\ closeRunning \in BOOLEAN /\ closed \in BOOLEAN
  /\ pc \in [Actor -> WorkerPC \cup FinisherPC]
  /\ \A w \in Worker : pc[w] \in WorkerPC
  /\ \A k \in Finisher : pc[k] \in FinisherPC
  /\ waitSet \subseteq Actor
  /\ ctxDone \in [Actor -> BOOLEAN]
  /\ wake \in [Worker -> Nat]
  /\ lease \in [Worker -> Lease \cup {NoLease}]
  /\ toClose \in [Finisher -> SUBSET Client]
  /\ closeCalls \in [Client -> Nat]

Holding(w, c) == pc[w] = "holding" /\ lease[w].client = c

(* A client belongs to one worker at a time, however often leases are        *)
(* released: the client of a held lease is in use under that lease's         *)
(* generation, two held leases are of different clients, and a client in use *)
(* is somebody's (Acquire and Release, pool.go:298-360).                     *)
LeaseExclusive ==
  /\ \A w \in Worker : pc[w] = "holding" => lease[w] # NoLease /\ LeaseValid(lease[w])
  /\ \A c \in Client : client[c].inUse => \E w \in Worker : Holding(w, c)
  /\ \A v, w \in Worker : v # w => \A c \in Client : ~(Holding(v, c) /\ Holding(w, c))

(* No lease is issued twice, and a lease outlives its Release only as a      *)
(* value older than its client's generation: this is what makes a second     *)
(* Release harmless (the generation of pooledClient, pool.go:318, 347).      *)
LeaseHistory ==
  /\ \A v, w \in Worker : v # w /\ lease[v] # NoLease => lease[v] # lease[w]
  /\ \A w \in Worker :
       lease[w] # NoLease =>
         lease[w].generation <= client[lease[w].client].generation

(* The in-flight counter that gates probes and the drain of Close counts the *)
(* clients in use, and the clamp of Release at zero never hides a drift      *)
(* (pool.go:319, 349-354).                                                   *)
InFlightCounts ==
  \A h \in Host :
    host[h].inFlight = Cardinality({c \in Client : c[1] = h /\ client[c].inUse})

(* A probe is alone: while halfOpenInFlight is set, the host is half-open    *)
(* and has one lease in flight, even when leases given before the circuit    *)
(* opened are still out (pool.go:321-323, 699-711).                          *)
ProbeIsAlone ==
  \A h \in Host :
    host[h].halfOpenInFlight =>
      host[h].circuit = "half-open" /\ host[h].inFlight = 1

(* No wakeup is lost.  A worker is never parked while it could be served: if *)
(* some client is available its own timer is due; nor while Close would      *)
(* refuse it.  A parked finisher has leases to wait for, and a parked joiner *)
(* has a Close to wait for (waitLocked, pool.go:617-661).                    *)
NoLostWakeup ==
  /\ \A w \in waitSet \cap Worker :
       /\ ~closing /\ ~closed
       /\ Available # {} => wake[w] # NoTime /\ wake[w] <= now
  /\ \A k \in waitSet \cap Finisher :
       /\ pc[k] = "draining" => InFlight
       /\ pc[k] = "joining" => ~closed

(* Closing waits for the leases: no Close function is called before every    *)
(* client is back, each is called once, and the pool is closed only when all *)
(* of them have been; closing and closeRunning move together                 *)
(* (finishClose, pool.go:526-565).                                           *)
ClosedOnceDrained ==
  /\ closing = closeRunning /\ ~(closing /\ closed)
  /\ \A k \in Finisher : pc[k] = "closing" =>
       \A c \in Client : /\ ~client[c].inUse
                         /\ closeCalls[c] = IF c \in toClose[k] THEN 0 ELSE 1
  /\ closed =>
       \A c \in Client : ~client[c].inUse /\ closeCalls[c] = 1
  /\ ~closed /\ (\A k \in Finisher : pc[k] # "closing") =>
       \A c \in Client : closeCalls[c] = 0

(* One goroutine at a time drains and closes the pool: there is a finisher   *)
(* exactly while closeRunning is set (pool.go:502-523, 567-578).             *)
OneFinisher ==
  /\ closeRunning <=> \E k \in Finisher : pc[k] \in {"draining", "closing"}
  /\ \A j, k \in Finisher :
       pc[j] \in {"draining", "closing"} /\ pc[k] \in {"draining", "closing"} => j = k

(* A Close that returns without its context's error has closed every client. *)
CloseMeansClosed ==
  \A k \in Finisher :
    pc[k] = "done" => closed /\ \A c \in Client : closeCalls[c] = 1

(* A host whose circuit is not closed is leased from only when its open time *)
(* is over and no earlier lease of it is out, so that at most one caller     *)
(* meets a failing host (nextAvailableLocked, canAcquireLocked).             *)
LeaseRespectsCircuit ==
  [][\A c \in Client :
       ~client[c].inUse /\ client'[c].inUse /\ host[c[1]].circuit # "closed" =>
         /\ host[c[1]].openUntil <= now
         /\ \A d \in Client : d[1] = c[1] => ~client[d].inUse]_vars

(* The rotation starves no host: whenever a lease passes over a host that    *)
(* has an available client, that host's turn has come closer                 *)
(* (nextAvailableLocked, pool.go:580-599).                                   *)
TurnComesCloser ==
  [][\A c \in Client :
       ~client[c].inUse /\ client'[c].inUse =>
         \A d \in Available :
           d[1] # c[1] => HostsAhead(d[1])' < HostsAhead(d[1])]_vars

(* An open circuit stays open until its time is over, whatever late leases   *)
(* report, and a closed one opens only on its FailureThreshold-th failure in *)
(* a row (ReportSuccess, ReportFailure, refreshCircuitLocked).               *)
CircuitMoves ==
  [][\A h \in Host :
       /\ host[h].circuit = "open" /\ host'[h].circuit # "open" =>
            now >= host[h].openUntil
       /\ host[h].circuit = "closed" /\ host'[h].circuit # "closed" =>
            /\ host'[h].circuit = "open"
            /\ host[h].consecutiveFailures >= FailureThreshold - 1]_vars

(* The provider releases every lease in a defer, and upstream calls time out. *)
LeasesComeBack == \A w \in Worker : WF_vars(Release(w))

(* A pool that starts closing gets closed, also when the caller's context    *)
(* ends first, given that leases are released (finishClose and the           *)
(* background drain).                                                        *)
CloseCompletes == LeasesComeBack => (closing ~> closed)

(* A call whose context has ended returns, even if no lease ever comes back  *)
(* and no time passes (waitLocked's helper goroutine, pool.go:628-649).      *)
CancelReturns ==
  \A a \in Worker \cup Closer :
    (ctxDone[a] /\ pc[a] \in {"acquiring", "draining", "joining"})
      ~> pc[a] \notin {"acquiring", "draining", "joining"}

=============================================================================
