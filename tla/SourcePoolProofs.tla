-------------------------- MODULE SourcePoolProofs --------------------------
(* Theorems about SourcePool for every number of hosts, clients, workers and *)
(* closers, and every threshold and bound, and that it implements LeasePool. *)
EXTENDS SourcePoolRefinement, FiniteSetTheorems, TLAPS

-----------------------------------------------------------------------------
(* The circuit operators keep a hostPool record a hostPool record and leave  *)
(* the in-flight counter and the cursor alone (pool.go:387-450, 743-767).    *)

LEMMA RefreshType ==
  ASSUME NEW hp \in HostPool, NEW t \in Nat
  PROVE  /\ Refresh(hp, t) \in HostPool
         /\ Refresh(hp, t).inFlight = hp.inFlight
         /\ Refresh(hp, t).nextClient = hp.nextClient
  BY DEF Refresh, HostPool

(* Opening a circuit keeps a host well typed (pool.go:752-758).              *)
LEMMA OpenCircuitType ==
  ASSUME NEW hp \in HostPool, NEW t \in Nat
  PROVE  /\ OpenCircuit(hp, t) \in HostPool
         /\ OpenCircuit(hp, t).inFlight = hp.inFlight
         /\ OpenCircuit(hp, t).nextClient = hp.nextClient
<1>1. t + OpenTimeout \in Nat
  BY PoolAssumption
<1>. QED BY <1>1 DEF OpenCircuit, HostPool

(* So does reporting a success (pool.go:387-414).                            *)
LEMMA SucceededType ==
  ASSUME NEW hp \in HostPool
  PROVE  /\ Succeeded(hp) \in HostPool
         /\ Succeeded(hp).inFlight = hp.inFlight
         /\ Succeeded(hp).nextClient = hp.nextClient
<1>1. hp.consecutiveSuccesses + 1 \in Nat
  BY DEF HostPool
<1>2. CASE hp.circuit = "half-open"
  BY <1>1, <1>2 DEF Succeeded, CloseCircuit, HostPool, NoTime
<1>3. CASE hp.circuit = "closed"
  BY <1>3 DEF Succeeded, HostPool
<1>4. CASE hp.circuit \notin {"half-open", "closed"}
  BY <1>4 DEF Succeeded, HostPool
<1>. QED BY <1>2, <1>3, <1>4

(* So does reporting a failure, which may open the circuit (pool.go:417-450). *)
LEMMA FailedType ==
  ASSUME NEW hp \in HostPool, NEW t \in Nat
  PROVE  /\ Failed(hp, t) \in HostPool
         /\ Failed(hp, t).inFlight = hp.inFlight
         /\ Failed(hp, t).nextClient = hp.nextClient
<1> DEFINE f == [hp EXCEPT !.consecutiveFailures = @ + 1,
                           !.consecutiveSuccesses = 0, !.halfOpenInFlight = FALSE]
<1>1. hp.consecutiveFailures + 1 \in Nat
  BY DEF HostPool
<1>2. f \in HostPool /\ f.inFlight = hp.inFlight /\ f.nextClient = hp.nextClient
  BY <1>1 DEF HostPool
<1>3. Failed(hp, t) = f \/ Failed(hp, t) = OpenCircuit(f, t)
  BY DEF Failed
<1>. QED BY <1>2, <1>3, OpenCircuitType

(* So does giving a lease back (pool.go:338-360).                            *)
LEMMA ReleasedType ==
  ASSUME NEW hp \in HostPool
  PROVE  /\ Released(hp) \in HostPool
         /\ Released(hp).inFlight = IF hp.inFlight > 0 THEN hp.inFlight - 1 ELSE 0
         /\ Released(hp).nextClient = hp.nextClient
<1>1. (IF hp.inFlight > 0 THEN hp.inFlight - 1 ELSE 0) \in Nat
  BY DEF HostPool
<1>2. (hp.halfOpenInFlight /\ hp.circuit # "half-open") \in BOOLEAN
  OBVIOUS
<1>. QED BY <1>1, <1>2 DEF Released, HostPool

(* A client's cursor wraps inside its host (pool.go:718-723).               *)
LEMMA ClientShape ==
  ASSUME NEW c \in Client
  PROVE  /\ c[1] \in Host /\ NumClients[c[1]] \in Nat \ {0}
         /\ c[2] \in 0..(NumClients[c[1]] - 1)
  BY PoolAssumption DEF Client, Host

(* The pool-wide cursor wraps inside the hosts (pool.go:584-595).            *)
LEMMA CursorsWrap ==
  ASSUME NEW c \in Client
  PROVE  NextHost(c) \in Host /\ NextClient(c) \in 0..(NumClients[c[1]] - 1)
<1>1. \A n \in Nat \ {0}, m \in Nat : m % n \in 0..(n - 1)
  OBVIOUS
<1>2. c[1] + 1 \in Nat /\ c[2] + 1 \in Nat
  BY ClientShape, PoolAssumption DEF Host
<1>. QED BY <1>1, <1>2, ClientShape, PoolAssumption DEF NextHost, NextClient, Host

-----------------------------------------------------------------------------
(* Type correctness.                                                         *)

LEMMA ActorsDiffer ==
  /\ Worker \subseteq Actor /\ Finisher \subseteq Actor
  /\ Closer \subseteq Finisher /\ Background \in Finisher
  /\ Worker \cap Finisher = {}
  BY ActorAssumption DEF Actor, Finisher

(* The conjunct of TypeOK about hosts.                                       *)
HostsOK ==
  /\ host \in [Host -> HostPool]
  /\ \A h \in Host : host[h].nextClient # 0 => host[h].nextClient < NumClients[h]

(* Refreshing every circuit leaves all hosts well typed.                     *)
LEMMA RefreshedHosts ==
  ASSUME TypeOK
  PROVE  /\ AllRefreshed \in [Host -> HostPool]
         /\ \A h \in Host : AllRefreshed[h].nextClient = host[h].nextClient
         /\ \A h \in Host : AllRefreshed[h].inFlight = host[h].inFlight
  BY RefreshType DEF TypeOK, AllRefreshed

(* Leasing a client of a chosen host keeps the hosts typed (pool.go:314-331). *)
LEMMA HostsAfterLeaseType ==
  ASSUME TypeOK, NEW c \in Client, host' = HostsAfterLease(c)
  PROVE  /\ HostsOK'
         /\ \A h \in Host :
              host'[h].inFlight = IF h = c[1] THEN host[h].inFlight + 1
                                  ELSE host[h].inFlight
<1> SUFFICES ASSUME NEW h \in Host
             PROVE  /\ host'[h] \in HostPool
                    /\ host'[h].nextClient # 0 => host'[h].nextClient < NumClients[h]
                    /\ host'[h].inFlight = IF h = c[1] THEN host[h].inFlight + 1
                                           ELSE host[h].inFlight
  BY DEF HostsAfterLease, HostsOK
<1> DEFINE hp == Refresh(host[h], now)
<1>1. /\ hp \in HostPool /\ host[h] \in HostPool
      /\ hp.inFlight = host[h].inFlight /\ hp.nextClient = host[h].nextClient
  BY RefreshType DEF TypeOK
<1>2. CASE h # c[1]
  <2>1. host'[h] \in {hp, host[h]}
    BY <1>2 DEF HostsAfterLease
  <2>. QED BY <1>1, <1>2, <2>1 DEF TypeOK
<1>3. CASE h = c[1]
  <2>1. NextClient(c) \in 0..(NumClients[h] - 1) /\ NumClients[h] \in Nat
    BY <1>3, CursorsWrap, ClientShape
  <2>2. NextClient(c) \in Nat /\ hp.inFlight + 1 \in Nat
    BY <1>1, <2>1 DEF HostPool
  <2>3. host'[h] = [hp EXCEPT !.inFlight = @ + 1, !.nextClient = NextClient(c),
                             !.halfOpenInFlight = @ \/ hp.circuit = "half-open"]
    BY <1>3 DEF HostsAfterLease
  <2>4. (hp.halfOpenInFlight \/ hp.circuit = "half-open") \in BOOLEAN
    OBVIOUS
  <2>5. host'[h] \in HostPool /\ host'[h].nextClient = NextClient(c)
        /\ host'[h].inFlight = host[h].inFlight + 1
    BY <1>1, <2>2, <2>3, <2>4 DEF HostPool
  <2>. QED BY <1>3, <2>1, <2>5
<1>. QED BY <1>2, <1>3

(* A new pool is well typed (pool.go:177-214).                               *)
LEMMA TypeInit == Init => TypeOK
<1> SUFFICES ASSUME Init PROVE TypeOK
  OBVIOUS
<1>1. HostsOK
  BY DEF Init, HostsOK, HostPool, NoTime
<1>2. client \in [Client -> PooledClient]
  BY DEF Init, PooledClient
<1>3. now \in Nat /\ nextHost \in Host
  BY PoolAssumption DEF Init, Host
<1>4. wake \in [Worker -> Nat] /\ closeCalls \in [Client -> Nat]
  BY DEF Init, NoTime
<1>. QED BY <1>1, <1>2, <1>3, <1>4, ActorsDiffer
         DEF Init, TypeOK, HostsOK, WorkerPC, FinisherPC

(* A step of a worker keeps the types: Acquire, Release and the reports.     *)
LEMMA TypeWorkerStep ==
  ASSUME TypeOK, NEW w \in Worker, WorkerStep(w)
  PROVE  TypeOK'
<1> USE ActorsDiffer
<1>1. CASE Call(w)
  BY <1>1 DEF TypeOK, Call, leaseVars, closeVars, WorkerPC
<1>2. CASE AcquireRefused(w)
  BY <1>2 DEF TypeOK, AcquireRefused, leaseVars, closeVars, WorkerPC
<1>3. CASE AcquireCanceled(w)
  BY <1>3 DEF TypeOK, AcquireCanceled, leaseVars, closeVars, WorkerPC
<1>4. CASE AcquireLease(w)
  <2>1. PICK c \in Client :
          /\ client' = [client EXCEPT ![c] =
                          [inUse |-> TRUE, generation |-> NextGeneration(c)]]
          /\ host' = HostsAfterLease(c)
          /\ nextHost' = NextHost(c)
          /\ lease' = [lease EXCEPT ![w] =
                         [client |-> c, generation |-> NextGeneration(c)]]
    BY <1>4 DEF AcquireLease
  <2>2. HostsOK'
    BY <2>1, HostsAfterLeaseType
  <2>3. NextGeneration(c) \in Nat
    BY DEF TypeOK, PooledClient, NextGeneration
  <2>4. client' \in [Client -> PooledClient]
    BY <2>1, <2>3 DEF TypeOK, PooledClient
  <2>5. lease' \in [Worker -> Lease \cup {NoLease}]
    BY <2>1, <2>3 DEF TypeOK, Lease
  <2>6. nextHost' \in Host
    BY <2>1, CursorsWrap
  <2>. QED BY <1>4, <2>2, <2>4, <2>5, <2>6
           DEF TypeOK, HostsOK, AcquireLease, closeVars, WorkerPC
<1>5. CASE AcquireWait(w)
  <2>1. HostsOK'
    BY <1>5, RefreshedHosts DEF AcquireWait, TypeOK, HostsOK
  <2>2. NextWake(AllRefreshed) \subseteq Nat
    BY RefreshedHosts DEF NextWake, DueTimes, HostPool, NoTime
  <2>. QED BY <1>5, <2>1, <2>2 DEF TypeOK, HostsOK, AcquireWait, closeVars
<1>6. CASE Release(w)
  <2> DEFINE c == lease[w].client
  <2>1. c \in Client
    BY <1>6 DEF Release, TypeOK, Lease
  <2>2. c[1] \in Host /\ host[c[1]] \in HostPool
    BY <2>1, ClientShape DEF TypeOK
  <2>3. /\ Released(host[c[1]]) \in HostPool
        /\ Released(host[c[1]]).nextClient = host[c[1]].nextClient
    BY <2>2, ReleasedType
  <2>4. host' = [host EXCEPT ![c[1]] = Released(@)]
    BY <1>6 DEF Release
  <2>5. HostsOK'
    BY <2>2, <2>3, <2>4 DEF TypeOK, HostsOK
  <2>6. client' \in [Client -> PooledClient]
    BY <1>6, <2>1 DEF Release, TypeOK, PooledClient
  <2>. QED BY <1>6, <2>5, <2>6
           DEF TypeOK, HostsOK, Release, Broadcast, leaseVars, closeVars, WorkerPC
<1>7. CASE ReleaseAgain(w)
  BY <1>7 DEF TypeOK, ReleaseAgain, vars
<1>8. CASE ReportSuccess(w)
  <2>1. \A h \in Host : /\ Succeeded(Refresh(host[h], now)) \in HostPool
                        /\ Succeeded(Refresh(host[h], now)).nextClient = host[h].nextClient
    BY RefreshType, SucceededType DEF TypeOK
  <2>2. HostsOK'
    BY <1>8, <2>1 DEF ReportSuccess, TypeOK, HostsOK
  <2>. QED BY <1>8, <2>2
           DEF TypeOK, HostsOK, ReportSuccess, Broadcast, leaseVars, closeVars
<1>9. CASE ReportFailure(w)
  <2>1. \A h \in Host : /\ Failed(Refresh(host[h], now), now) \in HostPool
                        /\ Failed(Refresh(host[h], now), now).nextClient = host[h].nextClient
    <3> SUFFICES ASSUME NEW h \in Host
                 PROVE  LET hp == Failed(Refresh(host[h], now), now)
                        IN  hp \in HostPool /\ hp.nextClient = host[h].nextClient
      OBVIOUS
    <3>1. now \in Nat /\ Refresh(host[h], now) \in HostPool
          /\ Refresh(host[h], now).nextClient = host[h].nextClient
      BY RefreshType DEF TypeOK
    <3>. QED BY <3>1, FailedType
  <2>2. HostsOK'
    BY <1>9, <2>1 DEF ReportFailure, TypeOK, HostsOK
  <2>. QED BY <1>9, <2>2
           DEF TypeOK, HostsOK, ReportFailure, Broadcast, leaseVars, closeVars
<1>. QED BY <1>1, <1>2, <1>3, <1>4, <1>5, <1>6, <1>7, <1>8, <1>9
         DEF WorkerStep, Acquire

(* A step of Close or of its background drain keeps the types.               *)
LEMMA TypeCloseStep ==
  ASSUME TypeOK, NEW k \in Finisher,
         Close(k) \/ JoinClose(k) \/ FinishClose(k)
  PROVE  TypeOK'
<1> USE ActorsDiffer
<1>1. CASE CloseReturnsAtOnce(k)
  BY <1>1 DEF TypeOK, CloseReturnsAtOnce, leaseVars, closeVars, FinisherPC
<1>2. CASE CloseStart(k)
  BY <1>2 DEF TypeOK, CloseStart, Broadcast, leaseVars, FinisherPC
<1>3. CASE JoinDone(k)
  BY <1>3 DEF TypeOK, JoinDone, leaseVars, closeVars, FinisherPC
<1>4. CASE JoinTimeout(k)
  BY <1>4 DEF TypeOK, JoinTimeout, leaseVars, closeVars, FinisherPC
<1>5. CASE JoinWait(k)
  BY <1>5 DEF TypeOK, JoinWait, leaseVars, closeVars, FinisherPC
<1>6. CASE DrainWait(k)
  BY <1>6 DEF TypeOK, DrainWait, leaseVars, closeVars
<1>7. CASE DrainTimeout(k)
  BY <1>7 DEF TypeOK, DrainTimeout, Broadcast, leaseVars, FinisherPC
<1>8. CASE DrainDone(k)
  BY <1>8 DEF TypeOK, DrainDone, leaseVars, FinisherPC
<1>9. CASE CloseClient(k)
  BY <1>9 DEF TypeOK, CloseClient, leaseVars
<1>10. CASE CloseFinish(k)
  BY <1>10 DEF TypeOK, CloseFinish, Broadcast, leaseVars, FinisherPC
<1>. QED BY <1>1, <1>2, <1>3, <1>4, <1>5, <1>6, <1>7, <1>8, <1>9, <1>10
         DEF Close, JoinClose, FinishClose

(* A step of the environment keeps the types, and so does stuttering.        *)
LEMMA TypeOtherStep ==
  ASSUME TypeOK,
         \/ \E w \in Worker : TimerBroadcast(w)
         \/ \E a \in Worker \cup Closer : CtxEnds(a) \/ CtxBroadcast(a)
         \/ HealthSnapshot \/ Tick \/ UNCHANGED vars
  PROVE  TypeOK'
<1>1. CASE \E w \in Worker : TimerBroadcast(w)
  BY <1>1 DEF TypeOK, TimerBroadcast, Broadcast, leaseVars, closeVars
<1>2. CASE \E a \in Worker \cup Closer : CtxEnds(a)
  BY <1>2 DEF TypeOK, CtxEnds, leaseVars, closeVars
<1>3. CASE \E a \in Worker \cup Closer : CtxBroadcast(a)
  BY <1>3 DEF TypeOK, CtxBroadcast, Broadcast, leaseVars, closeVars
<1>4. CASE HealthSnapshot
  <2>1. HostsOK'
    BY <1>4, RefreshedHosts DEF HealthSnapshot, TypeOK, HostsOK
  <2>. QED BY <1>4, <2>1 DEF TypeOK, HostsOK, HealthSnapshot, leaseVars, closeVars
<1>5. CASE Tick
  BY <1>5 DEF TypeOK, Tick, leaseVars, closeVars
<1>6. CASE UNCHANGED vars
  BY <1>6 DEF TypeOK, vars
<1>. QED BY <1>1, <1>2, <1>3, <1>4, <1>5, <1>6

(* No step breaks the types.                                                 *)
LEMMA TypeNext == TypeOK /\ [Next]_vars => TypeOK'
  BY TypeWorkerStep, TypeCloseStep, TypeOtherStep, ActorsDiffer DEF Next

(* Every reachable state of a pool is well typed, whatever its size.         *)
THEOREM TypeCorrect == Spec => []TypeOK
  BY TypeInit, TypeNext, PTL DEF Spec

-----------------------------------------------------------------------------
(* Leases.                                                                   *)

(* What leasing c to w does to clients and leases (pool.go:314-331).         *)
LEMMA LeaseStep ==
  ASSUME TypeOK, NEW w \in Worker, AcquireLease(w)
  PROVE  /\ pc' = [pc EXCEPT ![w] = "holding"] /\ pc[w] = "acquiring"
         /\ ~closing /\ ~closed
         /\ \E c \in Client :
              /\ ~client[c].inUse
              /\ CanAcquire(Refresh(host[c[1]], now))
              /\ client' = [client EXCEPT ![c] =
                              [inUse |-> TRUE, generation |-> client[c].generation + 1]]
              /\ lease' = [lease EXCEPT ![w] =
                              [client |-> c, generation |-> client[c].generation + 1]]
              /\ host' = HostsAfterLease(c)
  BY DEF AcquireLease, IsNextAvailable, Available, NextGeneration, Running, Refuses

(* What releasing a lease does (pool.go:338-360).                            *)
LEMMA ReleaseStep ==
  ASSUME TypeOK, NEW w \in Worker, Release(w)
  PROVE  /\ pc' = [pc EXCEPT ![w] = "idle"]
         /\ lease' = lease /\ lease[w] \in Lease /\ LeaseValid(lease[w])
         /\ client' = [client EXCEPT ![lease[w].client].inUse = FALSE]
         /\ host' = [host EXCEPT ![lease[w].client[1]] = Released(@)]
  BY DEF Release, TypeOK, leaseVars

(* Every other step leaves leases and clients alone, and who holds one.      *)
LEMMA LeasesUntouched ==
  ASSUME TypeOK, [Next]_vars,
         \A w \in Worker : ~AcquireLease(w) /\ ~Release(w)
  PROVE  /\ lease' = lease /\ client' = client
         /\ \A w \in Worker : pc'[w] = "holding" <=> pc[w] = "holding"
         /\ \A h \in Host : host'[h].inFlight = host[h].inFlight
<1> USE ActorsDiffer DEF leaseVars, closeVars
<1>1. ASSUME NEW w \in Worker, WorkerStep(w)
      PROVE  /\ lease' = lease /\ client' = client
             /\ \A v \in Worker : pc'[v] = "holding" <=> pc[v] = "holding"
             /\ \A h \in Host : host'[h].inFlight = host[h].inFlight
  <2>1. CASE Call(w)
    BY <2>1 DEF TypeOK, Call
  <2>2. CASE AcquireRefused(w) \/ AcquireCanceled(w)
    BY <2>2 DEF TypeOK, AcquireRefused, AcquireCanceled, Running
  <2>3. CASE AcquireWait(w)
    BY <2>3, RefreshedHosts DEF AcquireWait
  <2>4. CASE ReleaseAgain(w)
    BY <2>4 DEF ReleaseAgain, vars
  <2>5. CASE ReportSuccess(w)
    <3>1. \A h \in Host : Succeeded(Refresh(host[h], now)).inFlight = host[h].inFlight
      BY RefreshType, SucceededType DEF TypeOK
    <3>. QED BY <2>5, <3>1 DEF ReportSuccess, TypeOK
  <2>6. CASE ReportFailure(w)
    <3>1. ASSUME NEW h \in Host
          PROVE  Failed(Refresh(host[h], now), now).inFlight = host[h].inFlight
      <4>1. now \in Nat /\ Refresh(host[h], now) \in HostPool
            /\ Refresh(host[h], now).inFlight = host[h].inFlight
        BY RefreshType DEF TypeOK
      <4>. QED BY <4>1, FailedType
    <3>. QED BY <2>6, <3>1 DEF ReportFailure, TypeOK
  <2>. QED BY <1>1, <2>1, <2>2, <2>3, <2>4, <2>5, <2>6 DEF WorkerStep, Acquire
<1>2. ASSUME NEW k \in Finisher, Close(k) \/ JoinClose(k) \/ FinishClose(k)
      PROVE  /\ lease' = lease /\ client' = client /\ host' = host
             /\ \A v \in Worker : pc'[v] = pc[v]
  BY <1>2 DEF TypeOK, Close, JoinClose, FinishClose, CloseReturnsAtOnce, CloseStart,
     JoinDone, JoinTimeout, JoinWait, DrainWait, DrainTimeout, DrainDone,
     CloseClient, CloseFinish
<1>3. ASSUME HealthSnapshot
      PROVE  /\ lease' = lease /\ client' = client /\ pc' = pc
             /\ \A h \in Host : host'[h].inFlight = host[h].inFlight
  BY <1>3, RefreshedHosts DEF HealthSnapshot
<1>4. ASSUME \/ \E w \in Worker : TimerBroadcast(w)
             \/ \E a \in Worker \cup Closer : CtxEnds(a) \/ CtxBroadcast(a)
             \/ Tick \/ UNCHANGED vars
      PROVE  lease' = lease /\ client' = client /\ pc' = pc /\ host' = host
  BY <1>4 DEF TimerBroadcast, CtxEnds, CtxBroadcast, Tick, vars
<1>. QED BY <1>1, <1>2, <1>3, <1>4 DEF Next

LeaseInv == LeaseExclusive /\ LeaseHistory

(* The lease invariant is inductive over well-typed states.                  *)
LEMMA LeaseInvNext ==
  ASSUME TypeOK, TypeOK', LeaseInv, [Next]_vars
  PROVE  LeaseInv'
<1> USE DEF LeaseInv, LeaseExclusive, LeaseHistory, LeaseValid, Holding
<1>1. CASE \E w \in Worker : AcquireLease(w)
  <2>1. PICK w \in Worker : AcquireLease(w)
    BY <1>1
  <2>2. PICK c \in Client :
          /\ ~client[c].inUse
          /\ client' = [client EXCEPT ![c] =
                          [inUse |-> TRUE, generation |-> client[c].generation + 1]]
          /\ lease' = [lease EXCEPT ![w] =
                          [client |-> c, generation |-> client[c].generation + 1]]
    BY <2>1, LeaseStep
  <2>3. pc' = [pc EXCEPT ![w] = "holding"] /\ pc[w] = "acquiring"
    BY <2>1, LeaseStep
  <2>4. \A v \in Worker : lease[v] # NoLease => lease[v] \in Lease
    BY DEF TypeOK
  <2>5. \A d \in Client : client[d].generation \in Nat
    BY DEF TypeOK, PooledClient
  <2>6. /\ pc'[w] = "holding" /\ lease'[w].client = c /\ lease'[w] \in Lease
        /\ lease'[w].generation = client'[c].generation /\ client'[c].inUse
        /\ client'[c].generation = client[c].generation + 1
        /\ \A v \in Worker \ {w} : pc'[v] = pc[v] /\ lease'[v] = lease[v]
        /\ \A d \in Client \ {c} : client'[d] = client[d]
    BY <2>2, <2>3, <2>5, ActorsDiffer DEF TypeOK, Lease
  <2>7. \A v \in Worker \ {w} : pc[v] = "holding" => lease[v].client # c
    BY <2>2
  <2>8. LeaseExclusive'
    <3>1. \A v \in Worker : pc'[v] = "holding" =>
             /\ lease'[v] # NoLease /\ client'[lease'[v].client].inUse
             /\ client'[lease'[v].client].generation = lease'[v].generation
      BY <2>4, <2>6, <2>7, ActorAssumption DEF Lease
    <3>2. \A d \in Client : client'[d].inUse =>
             \E v \in Worker : pc'[v] = "holding" /\ lease'[v].client = d
      BY <2>3, <2>6
    <3>3. \A u, v \in Worker : u # v => \A d \in Client :
             ~(/\ pc'[u] = "holding" /\ lease'[u].client = d
               /\ pc'[v] = "holding" /\ lease'[v].client = d)
      BY <2>6, <2>7
    <3>. QED BY <3>1, <3>2, <3>3
  <2>9. LeaseHistory'
    <3>1. \A v \in Worker \ {w} : lease[v] # NoLease =>
             /\ lease'[v].generation <= client'[lease'[v].client].generation
             /\ lease'[v] # lease'[w]
      BY <2>4, <2>5, <2>6 DEF Lease
    <3>2. lease'[w].generation <= client'[lease'[w].client].generation
      BY <2>6 DEF TypeOK, PooledClient
    <3>3. lease'[w] # NoLease
      BY <2>6, ActorAssumption
    <3>. QED BY <2>6, <3>1, <3>2, <3>3
  <2>. QED BY <2>8, <2>9
<1>2. CASE \E w \in Worker : Release(w)
  <2>1. PICK w \in Worker : Release(w)
    BY <1>2
  <2> DEFINE c == lease[w].client
  <2>2. /\ pc' = [pc EXCEPT ![w] = "idle"] /\ lease' = lease /\ lease[w] \in Lease
        /\ client' = [client EXCEPT ![c].inUse = FALSE] /\ LeaseValid(lease[w])
    BY <2>1, ReleaseStep
  <2>3. c \in Client
    BY <2>2 DEF Lease
  <2>4. /\ \A d \in Client : client'[d].generation = client[d].generation
        /\ \A d \in Client \ {c} : client'[d] = client[d]
        /\ ~client'[c].inUse
        /\ pc'[w] = "idle" /\ \A v \in Worker \ {w} : pc'[v] = pc[v]
    BY <2>2, <2>3, ActorsDiffer DEF TypeOK, PooledClient
  <2>5. Holding(w, c)
    <3>1. PICK v \in Worker : Holding(v, c)
      BY <2>2, <2>3
    <3>2. lease[v] \in Lease /\ lease[v].client = lease[w].client
          /\ lease[v].generation = lease[w].generation
      BY <2>2, <3>1 DEF TypeOK
    <3>3. lease[v] = lease[w]
      BY <2>2, <3>2 DEF Lease
    <3>. QED BY <3>1, <3>2, <3>3, ActorAssumption
  <2>6. \A v \in Worker \ {w} : pc[v] = "holding" => lease[v].client # c
    BY <2>3, <2>5
  <2>7. \A v \in Worker : lease[v] # NoLease => lease[v].client \in Client
    BY DEF TypeOK, Lease
  <2>8. LeaseExclusive'
    BY <2>2, <2>4, <2>5, <2>6, <2>7
  <2>9. LeaseHistory'
    BY <2>2, <2>4, <2>7
  <2>. QED BY <2>8, <2>9
<1>3. CASE \A w \in Worker : ~AcquireLease(w) /\ ~Release(w)
  BY <1>3, LeasesUntouched
<1>. QED BY <1>1, <1>2, <1>3

(* A new pool has no leases.                                                 *)
LEMMA LeaseInvInit == Init => LeaseInv
  BY ActorsDiffer DEF Init, LeaseInv, LeaseExclusive, LeaseHistory, LeaseValid, Holding

(* A client belongs to one worker at a time and no lease is issued twice:    *)
(* however workers interleave, report, time out or release twice, the client *)
(* of a held lease is nobody else's.                                         *)
THEOREM LeasesAreExclusive == Spec => [](LeaseExclusive /\ LeaseHistory)
<1>1. Spec => []LeaseInv
  BY TypeInit, TypeNext, LeaseInvInit, LeaseInvNext, PTL DEF Spec
<1>. QED BY <1>1 DEF LeaseInv

-----------------------------------------------------------------------------
(* The in-flight counter and the probe.                                      *)

Busy(h) == {c \in Client : c[1] = h /\ client[c].inUse}

(* The leased clients of a host are finitely many.                           *)
LEMMA BusyFinite ==
  ASSUME NEW h \in Host
  PROVE  IsFiniteSet(Busy(h)) /\ IsFiniteSet(Busy(h)')
<1> DEFINE all == {h} \X (0..(NumClients[h] - 1))
<1>1. 0 \in Int /\ NumClients[h] - 1 \in Int
  BY PoolAssumption
<1>2. IsFiniteSet(0..(NumClients[h] - 1))
  BY <1>1, FS_Interval, Zenon
<1>3. IsFiniteSet(all)
  BY <1>2, FS_Product, FS_Singleton
<1>4. Busy(h) \subseteq all /\ Busy(h)' \subseteq all
  BY DEF Busy, Client
<1>. QED BY <1>3, <1>4, FS_Subset

(* A new pool has nothing in flight.                                         *)
LEMMA InFlightInit == Init => InFlightCounts
<1> SUFFICES ASSUME Init, NEW h \in Host
             PROVE  host[h].inFlight = Cardinality(Busy(h))
  BY DEF InFlightCounts, Busy
<1>1. Busy(h) = {}
  BY DEF Busy, Init
<1>. QED BY <1>1, FS_EmptySet DEF Init

(* Leasing adds one client to those in use and releasing takes one away, and *)
(* the counter follows (pool.go:316-319, 349-354).                           *)
LEMMA InFlightNext ==
  ASSUME TypeOK, InFlightCounts, [Next]_vars
  PROVE  InFlightCounts'
<1> SUFFICES ASSUME NEW h \in Host
             PROVE  host'[h].inFlight = Cardinality(Busy(h)')
  BY DEF InFlightCounts, Busy
<1>0. host[h].inFlight = Cardinality(Busy(h)) /\ host[h].inFlight \in Nat
  BY DEF InFlightCounts, Busy, TypeOK, HostPool
<1>1. CASE \E w \in Worker : AcquireLease(w)
  <2>1. PICK c \in Client :
          /\ ~client[c].inUse
          /\ client' = [client EXCEPT ![c] =
                          [inUse |-> TRUE, generation |-> client[c].generation + 1]]
          /\ host' = HostsAfterLease(c)
    BY <1>1, LeaseStep
  <2>2. host'[h].inFlight = IF h = c[1] THEN host[h].inFlight + 1 ELSE host[h].inFlight
    BY <2>1, HostsAfterLeaseType
  <2>3. /\ client'[c].inUse
        /\ \A d \in Client \ {c} : client'[d] = client[d]
    BY <2>1 DEF TypeOK
  <2>4. CASE h = c[1]
    <3>1. c \notin Busy(h) /\ Busy(h)' = Busy(h) \cup {c}
      BY <2>1, <2>3, <2>4 DEF Busy
    <3>2. Cardinality(Busy(h)') = Cardinality(Busy(h)) + 1
      BY <3>1, BusyFinite, FS_AddElement
    <3>. QED BY <1>0, <2>2, <2>4, <3>2
  <2>5. CASE h # c[1]
    <3>1. Busy(h)' = Busy(h)
      BY <2>3, <2>5 DEF Busy
    <3>. QED BY <1>0, <2>2, <2>5, <3>1
  <2>. QED BY <2>4, <2>5
<1>2. CASE \E w \in Worker : Release(w)
  <2>1. PICK w \in Worker : Release(w)
    BY <1>2
  <2> DEFINE c == lease[w].client
  <2>2. /\ c \in Client /\ client[c].inUse
        /\ client' = [client EXCEPT ![c].inUse = FALSE]
        /\ host' = [host EXCEPT ![c[1]] = Released(@)]
    BY <2>1, ReleaseStep DEF Lease, LeaseValid
  <2>3. /\ ~client'[c].inUse
        /\ \A d \in Client \ {c} : client'[d] = client[d]
    BY <2>2 DEF TypeOK, PooledClient
  <2>4. CASE h = c[1]
    <3>1. c \in Busy(h) /\ Busy(h)' = Busy(h) \ {c}
      BY <2>2, <2>3, <2>4 DEF Busy
    <3>2. Cardinality(Busy(h)') = Cardinality(Busy(h)) - 1
      BY <3>1, BusyFinite, FS_RemoveElement, Zenon
    <3>3. host[h].inFlight > 0 /\ host[h].inFlight - 1 = Cardinality(Busy(h)')
      <4>1. Cardinality(Busy(h)') \in Nat
        BY BusyFinite, FS_CardinalityType
      <4>. QED BY <1>0, <3>2, <4>1
    <3>4. host'[h] = Released(host[h])
      BY <2>2, <2>4 DEF TypeOK
    <3>5. host'[h].inFlight = host[h].inFlight - 1
      BY <3>3, <3>4, ReleasedType DEF TypeOK
    <3>. QED BY <3>3, <3>5
  <2>5. CASE h # c[1]
    <3>1. Busy(h)' = Busy(h)
      BY <2>3, <2>5 DEF Busy
    <3>2. host'[h] = host[h]
      BY <2>2, <2>5 DEF TypeOK
    <3>. QED BY <1>0, <3>1, <3>2
  <2>. QED BY <2>4, <2>5
<1>3. CASE \A w \in Worker : ~AcquireLease(w) /\ ~Release(w)
  <2>1. client' = client /\ host'[h].inFlight = host[h].inFlight
    BY <1>3, LeasesUntouched
  <2>2. Busy(h)' = Busy(h)
    BY <2>1 DEF Busy
  <2>. QED BY <1>0, <2>1, <2>2
<1>. QED BY <1>1, <1>2, <1>3

(* The counter that gates probes and the drain of Close is exact: it is the  *)
(* number of the host's clients in use, and Release's clamp at zero never    *)
(* acts.                                                                     *)
THEOREM InFlightIsExact == Spec => []InFlightCounts
  BY TypeInit, TypeNext, InFlightInit, InFlightNext, PTL DEF Spec

-----------------------------------------------------------------------------
(* Close.                                                                    *)

CloseInv == OneFinisher /\ ClosedOnceDrained /\ CloseMeansClosed

(* A new pool is open and nobody closes it.                                  *)
LEMMA CloseInvInit == Init => CloseInv
  BY ActorsDiffer DEF Init, CloseInv, OneFinisher, ClosedOnceDrained, CloseMeansClosed

(* No lease in flight means no client in use.                                *)
LEMMA DrainedPool ==
  ASSUME TypeOK, InFlightCounts, ~InFlight
  PROVE  \A c \in Client : ~client[c].inUse
<1> SUFFICES ASSUME NEW c \in Client, client[c].inUse
             PROVE  FALSE
  OBVIOUS
<1> DEFINE h == c[1]
<1>1. h \in Host /\ c \in Busy(h)
  BY ClientShape DEF Busy
<1>2. host[h].inFlight = Cardinality(Busy(h))
  BY <1>1 DEF InFlightCounts, Busy
<1>3. host[h].inFlight \in Nat /\ ~(host[h].inFlight > 0)
  BY <1>1 DEF InFlight, TypeOK, HostPool
<1>4. Cardinality(Busy(h)) = 0
  BY <1>2, <1>3
<1>. QED BY <1>1, <1>4, BusyFinite, FS_EmptySet

(* Outside Close the finishers stand still, and a client is taken into use   *)
(* only in an open pool.                                                     *)
LEMMA CloseUntouched ==
  ASSUME TypeOK,
         \/ \E w \in Worker : WorkerStep(w) \/ TimerBroadcast(w)
         \/ \E a \in Worker \cup Closer : CtxEnds(a) \/ CtxBroadcast(a)
         \/ HealthSnapshot \/ Tick \/ UNCHANGED vars
  PROVE  /\ UNCHANGED closeVars
         /\ \A k \in Finisher : pc'[k] = pc[k]
         /\ \A c \in Client :
              client'[c].inUse /\ ~client[c].inUse => ~closing /\ ~closed
<1> USE ActorsDiffer DEF closeVars
<1>1. ASSUME NEW w \in Worker, AcquireLease(w)
      PROVE  /\ UNCHANGED closeVars /\ ~closing /\ ~closed
             /\ \A k \in Finisher : pc'[k] = pc[k]
  BY <1>1 DEF AcquireLease, Refuses, TypeOK
<1>2. ASSUME NEW w \in Worker, Release(w)
      PROVE  /\ UNCHANGED closeVars
             /\ \A k \in Finisher : pc'[k] = pc[k]
             /\ \A c \in Client : client'[c].inUse => client[c].inUse
  <2>1. /\ UNCHANGED closeVars
        /\ \A k \in Finisher : pc'[k] = pc[k]
    BY <1>2 DEF Release, TypeOK
  <2>2. PICK d \in Client : client' = [client EXCEPT ![d].inUse = FALSE]
    BY <1>2, ReleaseStep DEF Lease
  <2>3. \A c \in Client : client'[c].inUse => client[c].inUse
    BY <2>2 DEF TypeOK, PooledClient
  <2>. QED BY <2>1, <2>3
<1>3. ASSUME NEW w \in Worker, WorkerStep(w), ~AcquireLease(w), ~Release(w)
      PROVE  /\ UNCHANGED closeVars /\ client' = client
             /\ \A k \in Finisher : pc'[k] = pc[k]
  BY <1>3 DEF WorkerStep, Acquire, Call, AcquireRefused, AcquireCanceled, AcquireWait,
     ReleaseAgain, ReportSuccess, ReportFailure, TypeOK, vars
<1>4. ASSUME \/ \E w \in Worker : TimerBroadcast(w)
             \/ \E a \in Worker \cup Closer : CtxEnds(a) \/ CtxBroadcast(a)
             \/ HealthSnapshot \/ Tick \/ UNCHANGED vars
      PROVE  UNCHANGED closeVars /\ client' = client /\ pc' = pc
  BY <1>4 DEF TimerBroadcast, CtxEnds, CtxBroadcast, HealthSnapshot, Tick, vars
<1>. QED BY <1>1, <1>2, <1>3, <1>4

(* Each step of Close keeps the invariant of Close.                          *)
LEMMA CloseStep ==
  ASSUME TypeOK, InFlightCounts, CloseInv, NEW k \in Finisher,
         Close(k) \/ JoinClose(k) \/ FinishClose(k)
  PROVE  CloseInv'
<1> USE ActorsDiffer DEF CloseInv, OneFinisher, ClosedOnceDrained, CloseMeansClosed,
                         closeVars
<1>1. CASE CloseReturnsAtOnce(k)
  BY <1>1 DEF CloseReturnsAtOnce, TypeOK
<1>2. CASE CloseStart(k)
  <2>1. /\ ~closed /\ ~closeRunning /\ ~closing /\ pc[k] = "idle"
        /\ closing' /\ closeRunning' /\ closed' = closed
        /\ pc'[k] = "draining" /\ \A j \in Finisher \ {k} : pc'[j] = pc[j]
        /\ client' = client /\ toClose' = toClose /\ closeCalls' = closeCalls
    BY <1>2 DEF CloseStart, TypeOK
  <2>. QED BY <2>1
<1>3. CASE JoinClose(k)
  <2>1. UNCHANGED closeVars /\ client' = client
    BY <1>3 DEF JoinClose, JoinDone, JoinTimeout, JoinWait
  <2>2. /\ pc[k] \in {"idle", "joining"} /\ pc'[k] \in {"done", "joining", "timedOut"}
        /\ \A j \in Finisher \ {k} : pc'[j] = pc[j]
        /\ pc'[k] = "done" => closed
    BY <1>3 DEF JoinClose, JoinDone, JoinTimeout, JoinWait, Joins, Running, TypeOK
  <2>. QED BY <2>1, <2>2
<1>4. CASE DrainWait(k)
  BY <1>4 DEF DrainWait, TypeOK
<1>5. CASE DrainTimeout(k)
  <2>1. /\ pc[k] = "draining" /\ closing' /\ closeRunning' /\ closed' = closed
        /\ client' = client /\ toClose' = toClose /\ closeCalls' = closeCalls
        /\ pc'[Background] = "draining"
        /\ k # Background => pc'[k] = "timedOut"
        /\ \A j \in Finisher \ {k, Background} : pc'[j] = pc[j]
    BY <1>5 DEF DrainTimeout, Running, TypeOK
  <2>2. closeRunning /\ closing /\ ~closed
    BY <2>1
  <2>3. \A j \in Finisher : pc'[j] \in {"draining", "closing"} <=> j = Background
    BY <2>1
  <2>4. (\A j \in Finisher : pc[j] # "closing") /\ (\A j \in Finisher : pc'[j] # "closing")
    BY <2>1
  <2>5. \A j \in Finisher : pc'[j] # "done"
    BY <2>1, <2>2
  <2>. QED BY <2>1, <2>2, <2>3, <2>4, <2>5
<1>6. CASE DrainDone(k)
  <2>1. /\ pc[k] = "draining" /\ pc'[k] = "closing" /\ ~InFlight
        /\ closing' = closing /\ closeRunning' = closeRunning /\ closed' = closed
        /\ client' = client /\ closeCalls' = closeCalls
        /\ toClose'[k] = Client
        /\ \A j \in Finisher \ {k} : pc'[j] = pc[j]
    BY <1>6 DEF DrainDone, Running, TypeOK
  <2>2. closeRunning /\ closing /\ ~closed
    BY <2>1
  <2>3. \A c \in Client : ~client[c].inUse
    BY <2>1, DrainedPool
  <2>4. \A c \in Client : closeCalls[c] = 0
    BY <2>1, <2>2
  <2>. QED BY <2>1, <2>2, <2>3, <2>4
<1>7. CASE CloseClient(k)
  <2>1. PICK c \in toClose[k] :
          /\ toClose' = [toClose EXCEPT ![k] = @ \ {c}]
          /\ closeCalls' = [closeCalls EXCEPT ![c] = @ + 1]
    BY <1>7 DEF CloseClient
  <2>2. /\ pc[k] = "closing" /\ pc' = pc /\ client' = client
        /\ closing' = closing /\ closeRunning' = closeRunning /\ closed' = closed
    BY <1>7 DEF CloseClient
  <2>3. /\ c \in Client /\ closeCalls[c] = 0 /\ closeCalls'[c] = 1
        /\ \A d \in Client \ {c} : closeCalls'[d] = closeCalls[d]
        /\ toClose'[k] = toClose[k] \ {c}
    BY <2>1, <2>2 DEF TypeOK
  <2>4. closeRunning /\ ~closed /\ \A j \in Finisher \ {k} : pc[j] # "closing"
    BY <2>2
  <2>5. \A d \in Client : closeCalls'[d] = IF d \in toClose'[k] THEN 0 ELSE 1
    BY <2>2, <2>3
  <2>. QED BY <2>2, <2>4, <2>5
<1>8. CASE CloseFinish(k)
  <2>1. /\ pc[k] = "closing" /\ toClose[k] = {} /\ pc'[k] = "done"
        /\ closed' = TRUE /\ closing' = FALSE /\ closeRunning' = FALSE
        /\ client' = client /\ closeCalls' = closeCalls
        /\ \A j \in Finisher \ {k} : pc'[j] = pc[j]
    BY <1>8 DEF CloseFinish, TypeOK
  <2>2. \A c \in Client : ~client[c].inUse /\ closeCalls[c] = 1
    BY <2>1
  <2>3. \A j \in Finisher : pc'[j] \notin {"draining", "closing"}
    BY <2>1
  <2>. QED BY <2>1, <2>2, <2>3
<1>. QED BY <1>1, <1>2, <1>3, <1>4, <1>5, <1>6, <1>7, <1>8 DEF Close, FinishClose

(* No step breaks the invariant of Close.                                    *)
LEMMA CloseInvNext ==
  ASSUME TypeOK, InFlightCounts, CloseInv, [Next]_vars
  PROVE  CloseInv'
<1>1. CASE \E k \in Finisher : Close(k) \/ JoinClose(k) \/ FinishClose(k)
  BY <1>1, CloseStep
<1>2. CASE \/ \E w \in Worker : WorkerStep(w) \/ TimerBroadcast(w)
           \/ \E a \in Worker \cup Closer : CtxEnds(a) \/ CtxBroadcast(a)
           \/ HealthSnapshot \/ Tick \/ UNCHANGED vars
  <2>1. /\ UNCHANGED closeVars
        /\ \A k \in Finisher : pc'[k] = pc[k]
        /\ \A c \in Client :
             client'[c].inUse /\ ~client[c].inUse => ~closing /\ ~closed
    BY <1>2, CloseUntouched
  <2>2. OneFinisher' /\ CloseMeansClosed'
    BY <2>1 DEF CloseInv, OneFinisher, CloseMeansClosed, closeVars
  <2>3. \A k \in Finisher : pc[k] = "closing" => closing
    BY DEF CloseInv, OneFinisher, ClosedOnceDrained
  <2>4. ClosedOnceDrained'
    BY <2>1, <2>3 DEF CloseInv, ClosedOnceDrained, closeVars
  <2>. QED BY <2>2, <2>4 DEF CloseInv
<1>. QED BY <1>1, <1>2, ActorsDiffer DEF Next

(* Close drains before it closes, closes every client exactly once, by one   *)
(* goroutine, and returns success only from a closed pool: for any number of *)
(* callers, timeouts and leases.                                             *)
THEOREM CloseIsOrderly == Spec => [](OneFinisher /\ ClosedOnceDrained /\ CloseMeansClosed)
<1>1. Spec => []CloseInv
  BY TypeInit, TypeNext, InFlightInit, InFlightNext, CloseInvInit, CloseInvNext, PTL
     DEF Spec
<1>. QED BY <1>1 DEF CloseInv

-----------------------------------------------------------------------------
(* Probes.                                                                   *)

(* What holds of every host: a probe is alone, and an open circuit has a     *)
(* time to wait for.                                                         *)
ProbeAlone(hp) == hp.halfOpenInFlight => hp.circuit = "half-open" /\ hp.inFlight = 1

OpenUntilSet(hp) == hp.circuit = "open" => hp.openUntil # NoTime

HostSound(hp) == ProbeAlone(hp) /\ OpenUntilSet(hp)

AllSound == \A h \in Host : HostSound(host[h])

(* The circuit operators keep it (pool.go:387-450, 743-767).                 *)
LEMMA CircuitKeepsSound ==
  ASSUME NEW hp \in HostPool, HostSound(hp), NEW t \in Nat
  PROVE  /\ HostSound(Refresh(hp, t))
         /\ HostSound(Succeeded(hp))
         /\ HostSound(Failed(hp, t))
         /\ HostSound(Released(hp))
<1> USE DEF HostSound, ProbeAlone, OpenUntilSet
<1>1. HostSound(Refresh(hp, t))
  BY DEF Refresh, HostPool
<1>2. HostSound(Succeeded(hp))
  BY DEF Succeeded, CloseCircuit, HostPool
<1>3. HostSound(Failed(hp, t))
  <2> DEFINE f == [hp EXCEPT !.consecutiveFailures = @ + 1,
                             !.consecutiveSuccesses = 0, !.halfOpenInFlight = FALSE]
  <2>1. t + OpenTimeout # NoTime
    BY PoolAssumption DEF NoTime
  <2>2. HostSound(OpenCircuit(f, t))
    BY <2>1 DEF OpenCircuit, HostPool
  <2>3. \/ Failed(hp, t) = OpenCircuit(f, t)
        \/ Failed(hp, t) = f /\ f.circuit = "closed"
    <3>1. CASE f.circuit = "closed" /\ f.consecutiveFailures < FailureThreshold
      BY <3>1 DEF Failed
    <3>2. CASE ~(f.circuit = "closed" /\ f.consecutiveFailures < FailureThreshold)
      BY <3>2 DEF Failed
    <3>. QED BY <3>1, <3>2
  <2>4. f.circuit = "closed" => HostSound(f)
    BY DEF HostPool
  <2>. QED BY <2>2, <2>3, <2>4
<1>4. HostSound(Released(hp))
  BY DEF Released, HostPool
<1>. QED BY <1>1, <1>2, <1>3, <1>4

(* A lease makes a probe only of a half-open host with nothing in flight     *)
(* (canAcquireLocked, pool.go:314-331).                                      *)
LEMMA LeaseKeepsSound ==
  ASSUME TypeOK, AllSound, NEW c \in Client,
         CanAcquire(Refresh(host[c[1]], now))
  PROVE  \A h \in Host : HostSound(HostsAfterLease(c)[h])
<1> SUFFICES ASSUME NEW h \in Host PROVE HostSound(HostsAfterLease(c)[h])
  OBVIOUS
<1> DEFINE hp == Refresh(host[h], now)
<1>1. /\ hp \in HostPool /\ HostSound(hp)
  BY RefreshType, CircuitKeepsSound DEF TypeOK, AllSound
<1>2. CASE h # c[1]
  BY <1>1, <1>2 DEF HostsAfterLease, AllSound
<1>3. CASE h = c[1]
  <2>1. HostsAfterLease(c)[h] = [hp EXCEPT !.inFlight = @ + 1, !.nextClient = NextClient(c),
                                   !.halfOpenInFlight = @ \/ hp.circuit = "half-open"]
    BY <1>3 DEF HostsAfterLease
  <2>2. CanAcquire(hp)
    BY <1>3
  <2>3. CASE hp.circuit = "closed"
    <3>1. ~hp.halfOpenInFlight
      BY <1>1, <2>3 DEF HostSound, ProbeAlone
    <3>2. ~HostsAfterLease(c)[h].halfOpenInFlight /\ HostsAfterLease(c)[h].circuit = "closed"
      BY <1>1, <2>1, <2>3, <3>1 DEF HostPool
    <3>. QED BY <3>2 DEF HostSound, ProbeAlone, OpenUntilSet
  <2>4. CASE hp.circuit = "half-open" /\ hp.inFlight = 0
    <3>1. /\ HostsAfterLease(c)[h].circuit = "half-open"
          /\ HostsAfterLease(c)[h].inFlight = 1
      BY <1>1, <2>1, <2>4 DEF HostPool
    <3>. QED BY <3>1 DEF HostSound, ProbeAlone, OpenUntilSet
  <2>. QED BY <2>2, <2>3, <2>4 DEF CanAcquire
<1>. QED BY <1>2, <1>3

(* Every step keeps every host sound.                                        *)
LEMMA SoundNext ==
  ASSUME TypeOK, AllSound, [Next]_vars
  PROVE  AllSound'
<1> USE DEF AllSound
<1>0. \A h \in Host : host[h] \in HostPool /\ now \in Nat
  BY DEF TypeOK
<1>1. ASSUME NEW w \in Worker, AcquireLease(w) PROVE AllSound'
  BY <1>1, LeaseStep, LeaseKeepsSound
<1>2. ASSUME NEW w \in Worker, Release(w) PROVE AllSound'
  <2>1. PICK g : host' = [host EXCEPT ![g] = Released(@)]
    BY <1>2, ReleaseStep
  <2>. QED BY <1>0, <2>1, CircuitKeepsSound DEF TypeOK
<1>3. ASSUME host' = AllRefreshed PROVE AllSound'
  BY <1>0, <1>3, CircuitKeepsSound DEF AllRefreshed
<1>4. ASSUME NEW w \in Worker, ReportSuccess(w) PROVE AllSound'
  <2>1. PICK g : host' = [host EXCEPT ![g] = Succeeded(Refresh(@, now))]
    BY <1>4 DEF ReportSuccess
  <2>2. \A h \in Host : HostSound(Succeeded(Refresh(host[h], now)))
    BY <1>0, RefreshType, CircuitKeepsSound
  <2>. QED BY <2>1, <2>2 DEF TypeOK
<1>5. ASSUME NEW w \in Worker, ReportFailure(w) PROVE AllSound'
  <2>1. PICK g : host' = [host EXCEPT ![g] = Failed(Refresh(@, now), now)]
    BY <1>5 DEF ReportFailure
  <2>2. \A h \in Host : HostSound(Failed(Refresh(host[h], now), now))
    BY <1>0, RefreshType, CircuitKeepsSound
  <2>. QED BY <2>1, <2>2 DEF TypeOK
<1>6. CASE host' = host
  BY <1>6
<1>. QED BY <1>1, <1>2, <1>3, <1>4, <1>5, <1>6
         DEF Next, WorkerStep, Acquire, Call, AcquireRefused, AcquireCanceled, AcquireWait,
             ReleaseAgain, Close, JoinClose, FinishClose, CloseReturnsAtOnce, CloseStart,
             JoinDone, JoinTimeout, JoinWait, DrainWait, DrainTimeout, DrainDone,
             CloseClient, CloseFinish, HealthSnapshot, TimerBroadcast, CtxEnds,
             CtxBroadcast, Tick, vars

(* Every host is sound in every state.                                       *)
THEOREM HostsAreSound == Spec => []AllSound
<1>1. Init => AllSound
  BY DEF Init, AllSound, HostSound, ProbeAlone, OpenUntilSet
<1>. QED BY <1>1, TypeInit, TypeNext, SoundNext, PTL DEF Spec

(* A probe is alone: while halfOpenInFlight is set, the host is half-open    *)
(* and has one lease in flight (pool.go:321-323, 699-711).                   *)
THEOREM ProbesAreAlone == Spec => []ProbeIsAlone
<1>1. AllSound => ProbeIsAlone
  BY DEF AllSound, HostSound, ProbeAlone, ProbeIsAlone
<1>. QED BY <1>1, HostsAreSound, PTL

-----------------------------------------------------------------------------
(* Wakeups.                                                                  *)

(* What a parked worker may rely on for a host with idle clients: its timer  *)
(* is set for the end of an open circuit, or due if the host could serve it. *)
Covered(w, h) ==
  Idle(h) # {} =>
    /\ host[h].circuit = "open" => wake[w] # NoTime /\ wake[w] <= host[h].openUntil
    /\ CanAcquire(host[h]) => wake[w] # NoTime /\ wake[w] <= now

WorkersWake ==
  \A w \in waitSet \cap Worker : ~closing /\ ~closed /\ \A h \in Host : Covered(w, h)

FinishersWake ==
  \A k \in waitSet \cap Finisher :
    /\ pc[k] = "draining" => InFlight
    /\ pc[k] = "joining" => ~closed

(* A host that time or a snapshot has refreshed is still covered: an open    *)
(* circuit half-opens no sooner than the timer is due (refreshCircuitLocked). *)
LEMMA RefreshedIsCovered ==
  ASSUME TypeOK, NEW w \in Worker, NEW h \in Host, Covered(w, h), Idle(h) # {}
  PROVE  /\ Refresh(host[h], now).circuit = "open" =>
              wake[w] # NoTime /\ wake[w] <= Refresh(host[h], now).openUntil
         /\ CanAcquire(Refresh(host[h], now)) => wake[w] # NoTime /\ wake[w] <= now
<1>1. /\ host[h] \in HostPool /\ now \in Nat /\ wake[w] \in Nat
      /\ host[h].openUntil \in Nat
  BY DEF TypeOK, HostPool
<1>2. CASE Refresh(host[h], now) = host[h]
  BY <1>2 DEF Covered
<1>3. CASE Refresh(host[h], now) # host[h]
  <2>1. host[h].circuit = "open" /\ host[h].openUntil <= now
    BY <1>1, <1>3 DEF Refresh
  <2>2. Refresh(host[h], now).circuit = "half-open"
    BY <1>1, <1>3 DEF Refresh, HostPool
  <2>3. wake[w] # NoTime /\ wake[w] <= now
    BY <1>1, <2>1 DEF Covered
  <2>. QED BY <2>2, <2>3
<1>. QED BY <1>2, <1>3

(* What a worker that parks has been told (nextWakeLocked).                  *)
LEMMA ParkedIsCovered ==
  ASSUME TypeOK, AllSound, NEW w \in Worker, AcquireWait(w), NEW h \in Host
  PROVE  Covered(w, h)'
<1> SUFFICES ASSUME Idle(h) # {}
             PROVE  /\ host'[h].circuit = "open" =>
                         wake'[w] # NoTime /\ wake'[w] <= host'[h].openUntil
                    /\ ~CanAcquire(host'[h])
  BY DEF AcquireWait, Covered, Idle, CanAcquire
<1>1. host'[h] = Refresh(host[h], now) /\ host' = AllRefreshed
  BY DEF AcquireWait, AllRefreshed
<1>2. ~CanAcquire(host'[h])
  BY <1>1 DEF AcquireWait, Available, Idle
<1>3. ASSUME host'[h].circuit = "open"
      PROVE  wake'[w] # NoTime /\ wake'[w] <= host'[h].openUntil
  <2>1. host'[h].openUntil \in DueTimes(host')
    BY <1>3 DEF DueTimes
  <2>2. PICK t \in NextWake(host') : wake' = [wake EXCEPT ![w] = t]
    BY <1>1 DEF AcquireWait
  <2>3. t \in DueTimes(host') /\ t <= host'[h].openUntil
    BY <2>1, <2>2 DEF NextWake
  <2>4. PICK g \in Host : t = host'[g].openUntil /\ host'[g].circuit = "open"
    BY <2>3 DEF DueTimes
  <2>5. HostSound(host'[g])
    BY <1>1, RefreshType, CircuitKeepsSound DEF AllRefreshed, TypeOK, AllSound
  <2>6. wake'[w] = t
    BY <2>2 DEF TypeOK
  <2>. QED BY <2>3, <2>4, <2>5, <2>6 DEF HostSound, OpenUntilSet
<1>. QED BY <1>2, <1>3

(* A lease leaves the other workers covered: it takes a client away, and     *)
(* makes the probe of a half-open host (pool.go:314-331).                    *)
LEMMA LeaseKeepsCovered ==
  ASSUME TypeOK, NEW c \in Client, ~client[c].inUse, CanAcquire(Refresh(host[c[1]], now)),
         client' = [client EXCEPT ![c] =
                      [inUse |-> TRUE, generation |-> client[c].generation + 1]],
         host' = HostsAfterLease(c), wake' = wake, now' = now,
         NEW w \in Worker, NEW h \in Host, Covered(w, h)
  PROVE  Covered(w, h)'
<1> SUFFICES ASSUME Idle(h)' # {}
             PROVE  /\ host'[h].circuit = "open" =>
                         wake[w] # NoTime /\ wake[w] <= host'[h].openUntil
                    /\ CanAcquire(host'[h]) => wake[w] # NoTime /\ wake[w] <= now
  BY DEF Covered, CanAcquire
<1> DEFINE hp == Refresh(host[h], now)
<1>1. Idle(h) # {}
  <2>1. \A d \in Client : ~client'[d].inUse => ~client[d].inUse
    BY DEF TypeOK
  <2>. QED BY <2>1 DEF Idle
<1>2. CASE h # c[1]
  <2>1. host'[h] \in {hp, host[h]}
    BY <1>2 DEF HostsAfterLease
  <2>. QED BY <1>1, <2>1, RefreshedIsCovered DEF Covered
<1>3. CASE h = c[1]
  <2>1. hp \in HostPool /\ CanAcquire(hp)
    BY <1>3, RefreshType DEF TypeOK
  <2>2. host'[h] = [hp EXCEPT !.inFlight = @ + 1, !.nextClient = NextClient(c),
                             !.halfOpenInFlight = @ \/ hp.circuit = "half-open"]
    BY <1>3 DEF HostsAfterLease
  <2>3. host'[h].circuit = hp.circuit /\ hp.circuit # "open"
    BY <2>1, <2>2 DEF HostPool, CanAcquire
  <2>4. wake[w] # NoTime /\ wake[w] <= now
    BY <1>1, <2>1, RefreshedIsCovered
  <2>. QED BY <2>3, <2>4
<1>. QED BY <1>2, <1>3

(* No step leaves a parked worker waiting for what has come already.         *)
LEMMA WorkersWakeNext ==
  ASSUME TypeOK, AllSound, WorkersWake, [Next]_vars
  PROVE  WorkersWake'
<1> USE ActorsDiffer DEF WorkersWake, leaseVars, closeVars
<1>1. CASE waitSet' = {}
  BY <1>1
<1>2. CASE /\ waitSet' \cap Worker \subseteq waitSet
           /\ UNCHANGED <<host, client, wake, closing, closed, now>>
  <2>1. \A w \in Worker, h \in Host : Covered(w, h) => Covered(w, h)'
    BY <1>2 DEF Covered, Idle, CanAcquire
  <2>. QED BY <1>2, <2>1
<1>3. CASE Tick
  <2>1. now \in Nat /\ now' = now + 1 /\ \A w \in Worker : wake[w] \in Nat
    BY <1>3 DEF Tick, TypeOK
  <2>2. \A w \in Worker : wake[w] <= now => wake[w] <= now'
    BY <2>1
  <2>3. \A w \in Worker, h \in Host : Covered(w, h) => Covered(w, h)'
    BY <1>3, <2>2 DEF Tick, Covered, Idle, CanAcquire
  <2>. QED BY <1>3, <2>3 DEF Tick
<1>4. ASSUME HealthSnapshot \/ \E v \in Worker : AcquireWait(v),
             NEW w \in waitSet \cap Worker, NEW h \in Host,
             wake'[w] = wake[w]
      PROVE  Covered(w, h)'
  <2>1. /\ host'[h] = Refresh(host[h], now) /\ client' = client /\ now' = now
    BY <1>4 DEF HealthSnapshot, AcquireWait, AllRefreshed
  <2>. QED BY <1>4, <2>1, RefreshedIsCovered DEF Covered, Idle, CanAcquire
<1>5. CASE HealthSnapshot
  BY <1>4, <1>5 DEF HealthSnapshot
<1>6. ASSUME NEW v \in Worker, AcquireWait(v) PROVE WorkersWake'
  <2>1. /\ waitSet' = waitSet \cup {v}
        /\ \A w \in Worker \ {v} : wake'[w] = wake[w]
        /\ closing' = closing /\ closed' = closed /\ ~closing /\ ~closed
    BY <1>6 DEF AcquireWait, TypeOK, Refuses
  <2>. QED BY <1>4, <1>6, <2>1, ParkedIsCovered
<1>7. ASSUME NEW v \in Worker, AcquireLease(v) PROVE WorkersWake'
  <2>1. UNCHANGED <<now, waitSet, wake, closing, closed>>
    BY <1>7 DEF AcquireLease
  <2>. QED BY <1>7, <2>1, LeaseStep, LeaseKeepsCovered
<1>8. ASSUME NEW v \in Worker,
             \/ Call(v) \/ AcquireRefused(v) \/ AcquireCanceled(v) \/ Release(v)
             \/ ReleaseAgain(v) \/ ReportSuccess(v) \/ ReportFailure(v) \/ TimerBroadcast(v)
      PROVE  WorkersWake'
  BY <1>1, <1>2, <1>8 DEF Call, AcquireRefused, AcquireCanceled, Release, ReleaseAgain,
     ReportSuccess, ReportFailure, TimerBroadcast, Broadcast, vars
<1>9. ASSUME NEW k \in Finisher, Close(k) \/ JoinClose(k) \/ FinishClose(k)
      PROVE  WorkersWake'
  BY <1>1, <1>2, <1>9 DEF Close, JoinClose, FinishClose, CloseReturnsAtOnce, CloseStart,
     JoinDone, JoinTimeout, JoinWait, DrainWait, DrainTimeout, DrainDone, CloseClient,
     CloseFinish, Broadcast
<1>10. ASSUME NEW a \in Worker \cup Closer, CtxEnds(a) \/ CtxBroadcast(a)
       PROVE  WorkersWake'
  BY <1>1, <1>2, <1>10 DEF CtxEnds, CtxBroadcast, Broadcast
<1>11. CASE UNCHANGED vars
  BY <1>2, <1>11 DEF vars
<1>. QED BY <1>3, <1>5, <1>6, <1>7, <1>8, <1>9, <1>10, <1>11 DEF Next, WorkerStep, Acquire

(* Nor a parked Close: a lease that comes back and a pool that gets closed   *)
(* wake it up (Release, finishClose).                                        *)
LEMMA FinishersWakeNext ==
  ASSUME TypeOK, FinishersWake, [Next]_vars
  PROVE  FinishersWake'
<1> USE ActorsDiffer DEF FinishersWake, leaseVars, closeVars
<1>1. CASE waitSet' = {}
  BY <1>1
<1>2. CASE /\ waitSet' \cap Finisher \subseteq waitSet
           /\ \A k \in Finisher : k \in waitSet' => pc'[k] = pc[k]
           /\ InFlight => InFlight'
           /\ closed' = closed
  BY <1>2
<1>3. ASSUME \A h \in Host : host[h].inFlight > 0 => host'[h].inFlight > 0
      PROVE  InFlight => InFlight'
  BY <1>3 DEF InFlight
<1>4. CASE \E w \in Worker : AcquireLease(w)
  <2>1. PICK w \in Worker, c \in Client : host' = HostsAfterLease(c) /\ AcquireLease(w)
    BY <1>4, LeaseStep
  <2>2. \A h \in Host : host[h].inFlight \in Nat
    BY DEF TypeOK, HostPool
  <2>3. \A h \in Host : host[h].inFlight > 0 => host'[h].inFlight > 0
    BY <2>1, <2>2, HostsAfterLeaseType
  <2>4. closed' = closed /\ waitSet' = waitSet /\ \A k \in Finisher : pc'[k] = pc[k]
    BY <2>1 DEF AcquireLease, TypeOK
  <2>. QED BY <1>2, <1>3, <2>3, <2>4
<1>5. CASE \E w \in Worker : Release(w)
  BY <1>1, <1>5 DEF Release, Broadcast
<1>6. CASE \A w \in Worker : ~AcquireLease(w) /\ ~Release(w)
  <2>1. InFlight => InFlight'
    BY <1>3, <1>6, LeasesUntouched
  <2>2. ASSUME NEW w \in Worker, WorkerStep(w) \/ TimerBroadcast(w) PROVE FinishersWake'
    <3>1. waitSet' = {} \/ /\ waitSet' \cap Finisher \subseteq waitSet /\ closed' = closed
                           /\ \A k \in Finisher : pc'[k] = pc[k]
      BY <1>6, <2>2 DEF WorkerStep, Acquire, Call, AcquireRefused, AcquireCanceled, AcquireWait,
         ReleaseAgain, ReportSuccess, ReportFailure, TimerBroadcast, Broadcast, TypeOK, vars
    <3>. QED BY <1>1, <1>2, <2>1, <3>1
  <2>3. ASSUME NEW k \in Closer, JoinWait(k) PROVE FinishersWake'
    <3>1. /\ ~closed /\ closed' = closed /\ waitSet' = waitSet \cup {k}
          /\ pc'[k] = "joining" /\ \A j \in Finisher \ {k} : pc'[j] = pc[j]
      BY <2>3 DEF JoinWait, TypeOK
    <3>. QED BY <2>1, <3>1
  <2>4. ASSUME NEW k \in Finisher, DrainWait(k) PROVE FinishersWake'
    <3>1. /\ InFlight /\ closed' = closed /\ waitSet' = waitSet \cup {k}
          /\ pc' = pc /\ pc[k] = "draining"
      BY <2>4 DEF DrainWait, Running
    <3>. QED BY <2>1, <3>1
  <2>5. ASSUME NEW k \in Finisher,
               \/ Close(k) \/ JoinDone(k) \/ JoinTimeout(k) \/ DrainTimeout(k)
               \/ DrainDone(k) \/ CloseClient(k) \/ CloseFinish(k)
        PROVE  FinishersWake'
    <3>1. \/ waitSet' = {}
          \/ /\ waitSet' = waitSet /\ closed' = closed
             /\ \A j \in Finisher \ {k} : pc'[j] = pc[j]
             /\ pc'[k] \notin {"draining", "joining"}
      BY <2>5 DEF Close, CloseReturnsAtOnce, CloseStart, JoinDone, JoinTimeout, DrainTimeout,
         DrainDone, CloseClient, CloseFinish, Broadcast, TypeOK
    <3>. QED BY <1>1, <2>1, <3>1
  <2>6. CASE \/ \E a \in Worker \cup Closer : CtxEnds(a) \/ CtxBroadcast(a)
             \/ HealthSnapshot \/ Tick \/ UNCHANGED vars
    <3>1. waitSet' = {} \/ /\ waitSet' = waitSet /\ closed' = closed /\ pc' = pc
      BY <2>6 DEF CtxEnds, CtxBroadcast, HealthSnapshot, Tick, Broadcast, vars
    <3>. QED BY <1>1, <1>2, <2>1, <3>1
  <2>. QED BY <2>2, <2>3, <2>4, <2>5, <2>6 DEF Next, JoinClose, FinishClose
<1>. QED BY <1>4, <1>5, <1>6

(* No wakeup is lost: a parked worker could not be served, or its own timer  *)
(* is due, and a parked Close has something to wait for (waitLocked,         *)
(* pool.go:617-661).                                                         *)
THEOREM WakeupsAreKept == Spec => []NoLostWakeup
<1>1. Init => WorkersWake /\ FinishersWake
  BY DEF Init, WorkersWake, FinishersWake
<1>2. TypeOK /\ WorkersWake /\ FinishersWake => NoLostWakeup
  <2> SUFFICES ASSUME TypeOK, WorkersWake, FinishersWake PROVE NoLostWakeup
    OBVIOUS
  <2>1. ASSUME NEW w \in waitSet \cap Worker, Available # {}
        PROVE  wake[w] # NoTime /\ wake[w] <= now
    <3>1. PICK c \in Client : ~client[c].inUse /\ CanAcquire(Refresh(host[c[1]], now))
      BY <2>1 DEF Available
    <3>2. c[1] \in Host /\ Idle(c[1]) # {} /\ Covered(w, c[1])
      BY <3>1, ClientShape DEF Idle, WorkersWake
    <3>. QED BY <3>1, <3>2, RefreshedIsCovered
  <2>. QED BY <2>1 DEF WorkersWake, FinishersWake, NoLostWakeup
<1>. QED BY <1>1, <1>2, TypeInit, TypeNext, HostsAreSound, WorkersWakeNext,
            FinishersWakeNext, PTL DEF Spec

-----------------------------------------------------------------------------
(* Circuits.                                                                 *)

(* A half-open host has waited for its time.                                 *)
DueHost(hp, t) == hp.circuit = "half-open" => hp.openUntil <= t

HalfOpenIsDue == \A h \in Host : DueHost(host[h], now)

(* What a circuit may do at time t: it leaves "open" when its time is over,  *)
(* and leaves "closed" for "open", with the last of enough failures.         *)
CircuitStep(old, new, t) ==
  /\ DueHost(new, t)
  /\ old.circuit = "open" /\ new.circuit # "open" => t >= old.openUntil
  /\ old.circuit = "closed" /\ new.circuit # "closed" =>
       new.circuit = "open" /\ old.consecutiveFailures >= FailureThreshold - 1

SameCircuit(old, new) == new.circuit = old.circuit /\ new.openUntil = old.openUntil

(* Leases, releases and refreshed times do no more (refreshCircuitLocked,    *)
(* pool.go:743-750).                                                         *)
LEMMA RefreshMoves ==
  ASSUME NEW hp \in HostPool, NEW t \in Nat, DueHost(hp, t)
  PROVE  /\ CircuitStep(hp, hp, t)
         /\ CircuitStep(hp, Refresh(hp, t), t)
         /\ CircuitStep(hp, Released(hp), t)
<1> USE DEF CircuitStep, DueHost
<1>1. CircuitStep(hp, hp, t)
  OBVIOUS
<1>2. CircuitStep(hp, Refresh(hp, t), t)
  BY DEF Refresh, HostPool
<1>3. CircuitStep(hp, Released(hp), t)
  BY DEF Released, HostPool
<1>. QED BY <1>1, <1>2, <1>3

(* Nor does a success, which closes a half-open circuit only (pool.go:387-414). *)
LEMMA SuccessMoves ==
  ASSUME NEW hp \in HostPool, NEW t \in Nat, DueHost(hp, t)
  PROVE  CircuitStep(hp, Succeeded(Refresh(hp, t)), t)
<1> DEFINE r == Refresh(hp, t)
<1>1. r \in HostPool /\ CircuitStep(hp, r, t)
  BY RefreshType, RefreshMoves
<1>2. CASE r.circuit = "half-open"
  <2>1. hp.circuit # "closed" /\ (hp.circuit = "open" => t >= hp.openUntil) /\ r.openUntil <= t
    BY <1>1, <1>2 DEF CircuitStep, DueHost
  <2>2. \/ Succeeded(r).circuit = "closed"
        \/ Succeeded(r).circuit = "half-open" /\ Succeeded(r).openUntil = r.openUntil
    BY <1>1, <1>2 DEF Succeeded, CloseCircuit, HostPool
  <2>. QED BY <2>1, <2>2 DEF CircuitStep, DueHost
<1>3. CASE r.circuit # "half-open"
  <2>1. SameCircuit(r, Succeeded(r))
    BY <1>1, <1>3 DEF Succeeded, SameCircuit, HostPool
  <2>. QED BY <1>1, <2>1 DEF CircuitStep, DueHost, SameCircuit
<1>. QED BY <1>2, <1>3

(* A failure opens a circuit, a closed one only as the last of enough        *)
(* (pool.go:417-450).                                                        *)
LEMMA FailureMoves ==
  ASSUME NEW hp \in HostPool, NEW t \in Nat, DueHost(hp, t)
  PROVE  CircuitStep(hp, Failed(Refresh(hp, t), t), t)
<1> DEFINE r == Refresh(hp, t)
           f == [r EXCEPT !.consecutiveFailures = @ + 1,
                          !.consecutiveSuccesses = 0, !.halfOpenInFlight = FALSE]
<1>1. r \in HostPool /\ CircuitStep(hp, r, t) /\ (hp.circuit = "closed" => r = hp)
  BY RefreshType, RefreshMoves DEF Refresh
<1>2. f.circuit = r.circuit /\ f.consecutiveFailures = r.consecutiveFailures + 1 /\ f.openUntil = r.openUntil
  BY <1>1 DEF HostPool
<1>3. CASE f.circuit = "closed" /\ f.consecutiveFailures < FailureThreshold
  <2>1. Failed(r, t) = f
    BY <1>3 DEF Failed
  <2>. QED BY <1>1, <1>2, <1>3, <2>1 DEF CircuitStep, DueHost
<1>4. CASE ~(f.circuit = "closed" /\ f.consecutiveFailures < FailureThreshold)
  <2>1. Failed(r, t) = OpenCircuit(f, t)
    BY <1>4 DEF Failed
  <2>2. Failed(r, t).circuit = "open"
    BY <1>1, <2>1 DEF OpenCircuit, HostPool
  <2>3. hp.circuit = "closed" => hp.consecutiveFailures >= FailureThreshold - 1
    BY <1>1, <1>2, <1>4, PoolAssumption DEF HostPool
  <2>. QED BY <2>2, <2>3 DEF CircuitStep, DueHost
<1>. QED BY <1>3, <1>4

(* So every step moves every circuit as it may (Next).                       *)
LEMMA CircuitNext ==
  ASSUME TypeOK, HalfOpenIsDue, [Next]_vars, NEW h \in Host
  PROVE  CircuitStep(host[h], host'[h], now)
<1>0. host[h] \in HostPool /\ now \in Nat /\ DueHost(host[h], now)
  BY DEF TypeOK, HalfOpenIsDue
<1>1. ASSUME NEW w \in Worker, AcquireLease(w)
      PROVE  CircuitStep(host[h], host'[h], now)
  <2>1. PICK c \in Client : host' = HostsAfterLease(c)
    BY <1>1, LeaseStep
  <2>2. SameCircuit(Refresh(host[h], now), host'[h]) \/ host'[h] = host[h]
    BY <1>0, <2>1, RefreshType DEF HostsAfterLease, SameCircuit, HostPool
  <2>. QED BY <1>0, <2>2, RefreshMoves DEF CircuitStep, DueHost, SameCircuit
<1>2. ASSUME NEW w \in Worker, Release(w)
      PROVE  CircuitStep(host[h], host'[h], now)
  <2>1. PICK g : host' = [host EXCEPT ![g] = Released(@)]
    BY <1>2, ReleaseStep
  <2>. QED BY <1>0, <2>1, RefreshMoves DEF TypeOK
<1>3. ASSUME host' = AllRefreshed PROVE CircuitStep(host[h], host'[h], now)
  BY <1>0, <1>3, RefreshMoves DEF AllRefreshed
<1>4. ASSUME NEW w \in Worker, ReportSuccess(w)
      PROVE  CircuitStep(host[h], host'[h], now)
  <2>1. PICK g : host' = [host EXCEPT ![g] = Succeeded(Refresh(@, now))]
    BY <1>4 DEF ReportSuccess
  <2>. QED BY <1>0, <2>1, RefreshMoves, SuccessMoves DEF TypeOK
<1>5. ASSUME NEW w \in Worker, ReportFailure(w)
      PROVE  CircuitStep(host[h], host'[h], now)
  <2>1. PICK g : host' = [host EXCEPT ![g] = Failed(Refresh(@, now), now)]
    BY <1>5 DEF ReportFailure
  <2>. QED BY <1>0, <2>1, RefreshMoves, FailureMoves DEF TypeOK
<1>6. CASE host' = host
  BY <1>0, <1>6, RefreshMoves
<1>. QED BY <1>1, <1>2, <1>3, <1>4, <1>5, <1>6
         DEF Next, WorkerStep, Acquire, Call, AcquireRefused, AcquireCanceled, AcquireWait,
             ReleaseAgain, Close, JoinClose, FinishClose, CloseReturnsAtOnce, CloseStart,
             JoinDone, JoinTimeout, JoinWait, DrainWait, DrainTimeout, DrainDone,
             CloseClient, CloseFinish, HealthSnapshot, TimerBroadcast, CtxEnds,
             CtxBroadcast, Tick, vars

(* Time only passes (Tick).                                                  *)
LEMMA TimePasses ==
  ASSUME TypeOK, [Next]_vars
  PROVE  now' \in Nat /\ now <= now'
<1>1. now \in Nat
  BY DEF TypeOK
<1>2. now' = now \/ now' = now + 1
  BY DEF Next, WorkerStep, Acquire, Call, AcquireRefused, AcquireCanceled, AcquireLease,
         AcquireWait, Release, ReleaseAgain, ReportSuccess, ReportFailure, Close, JoinClose,
         FinishClose, CloseReturnsAtOnce, CloseStart, JoinDone, JoinTimeout, JoinWait,
         DrainWait, DrainTimeout, DrainDone, CloseClient, CloseFinish, HealthSnapshot,
         TimerBroadcast, CtxEnds, CtxBroadcast, Tick, vars
<1>. QED BY <1>1, <1>2

(* And so what was due stays due.                                            *)
LEMMA DueNext == TypeOK /\ HalfOpenIsDue /\ [Next]_vars => HalfOpenIsDue'
<1> SUFFICES ASSUME TypeOK, HalfOpenIsDue, [Next]_vars, NEW h \in Host
             PROVE  DueHost(host'[h], now')
  BY DEF HalfOpenIsDue
<1>1. DueHost(host'[h], now)
  BY CircuitNext DEF CircuitStep
<1>2. host'[h] \in HostPool
  BY TypeNext DEF TypeOK
<1>3. now \in Nat
  BY DEF TypeOK
<1>. QED BY <1>1, <1>2, <1>3, TimePasses DEF DueHost, HostPool

(* Every half-open circuit has waited for its time.                          *)
LEMMA HalfOpenWaited == Spec => [](TypeOK /\ HalfOpenIsDue)
<1>1. Init => HalfOpenIsDue
  BY DEF Init, HalfOpenIsDue, DueHost
<1>. QED BY <1>1, TypeInit, TypeNext, DueNext, PTL DEF Spec

(* An open circuit stays open until its time is over, whatever late leases   *)
(* report, and a closed one opens only on its FailureThreshold-th failure in *)
(* a row (ReportSuccess, ReportFailure, refreshCircuitLocked).               *)
THEOREM CircuitsMoveInTime == Spec => CircuitMoves
<1> DEFINE Moves ==
      \A h \in Host :
        /\ host[h].circuit = "open" /\ host'[h].circuit # "open" =>
             now >= host[h].openUntil
        /\ host[h].circuit = "closed" /\ host'[h].circuit # "closed" =>
             /\ host'[h].circuit = "open"
             /\ host[h].consecutiveFailures >= FailureThreshold - 1
<1>1. TypeOK /\ HalfOpenIsDue /\ [Next]_vars => Moves
  BY CircuitNext DEF CircuitStep
<1>2. TypeOK /\ HalfOpenIsDue /\ [Next]_vars => [Moves]_vars
  BY <1>1
<1>. QED BY <1>2, HalfOpenWaited, PTL DEF Spec, CircuitMoves

(* A client that comes into use was leased in that step (Acquire).           *)
LEMMA LeasedBy ==
  ASSUME TypeOK, [Next]_vars, NEW c \in Client, ~client[c].inUse, client'[c].inUse
  PROVE  \E w \in Worker : AcquireLease(w)
<1>1. PICK w \in Worker : AcquireLease(w) \/ Release(w)
  BY LeasesUntouched
<1>2. ASSUME Release(w) PROVE FALSE
  <2>1. client' = [client EXCEPT ![lease[w].client].inUse = FALSE]
    BY <1>2, ReleaseStep
  <2>2. client'[c].inUse = client[c].inUse \/ client'[c].inUse = FALSE
    BY <2>1 DEF TypeOK, PooledClient
  <2>. QED BY <2>2
<1>. QED BY <1>1, <1>2

(* A host whose circuit is not closed is leased from only when its open time *)
(* is over and no earlier lease of it is out (nextAvailableLocked,           *)
(* canAcquireLocked, pool.go:580-599, 699-711).                              *)
THEOREM FailingHostsAreSpared == Spec => LeaseRespectsCircuit
<1> DEFINE Spares ==
      \A c \in Client :
        ~client[c].inUse /\ client'[c].inUse /\ host[c[1]].circuit # "closed" =>
          /\ host[c[1]].openUntil <= now
          /\ \A d \in Client : d[1] = c[1] => ~client[d].inUse
<1>1. TypeOK /\ HalfOpenIsDue /\ InFlightCounts /\ [Next]_vars => Spares
  <2> SUFFICES ASSUME TypeOK, HalfOpenIsDue, InFlightCounts, [Next]_vars,
                      NEW c \in Client, ~client[c].inUse, client'[c].inUse,
                      host[c[1]].circuit # "closed"
               PROVE  /\ host[c[1]].openUntil <= now
                      /\ \A d \in Client : d[1] = c[1] => ~client[d].inUse
    OBVIOUS
  <2> DEFINE h == c[1]
  <2>1. h \in Host /\ host[h] \in HostPool /\ now \in Nat
    BY ClientShape DEF TypeOK
  <2>2. CanAcquire(Refresh(host[h], now))
    <3>1. PICK w \in Worker : AcquireLease(w)
      BY LeasedBy
    <3>. QED BY <3>1, LeaseStep DEF TypeOK
  <2>3. Refresh(host[h], now).circuit = "half-open" /\ Refresh(host[h], now).inFlight = 0
    BY <2>1, <2>2 DEF CanAcquire, Refresh, HostPool
  <2>4. host[h].openUntil <= now
    BY <2>1, <2>3 DEF Refresh, HalfOpenIsDue, DueHost
  <2>5. Cardinality(Busy(h)) = 0
    BY <2>1, <2>3, RefreshType DEF InFlightCounts, Busy
  <2>6. Busy(h) = {}
    <3>1. IsFiniteSet(Busy(h))
      BY <2>1, BusyFinite
    <3>. QED BY <2>5, <3>1, FS_EmptySet
  <2>. QED BY <2>4, <2>6 DEF Busy
<1>2. TypeOK /\ HalfOpenIsDue /\ InFlightCounts /\ [Next]_vars => [Spares]_vars
  BY <1>1
<1>. QED BY <1>2, HalfOpenWaited, InFlightIsExact, PTL DEF Spec, LeaseRespectsCircuit

-----------------------------------------------------------------------------
(* The rotation.                                                             *)

(* How far a place is ahead of the cursor, without the remainder.            *)
LEMMA AheadIs ==
  ASSUME NEW n \in Nat \ {0}, NEW cursor \in 0..(n - 1), NEW k \in 0..(n - 1)
  PROVE  Ahead(cursor, k, n) = IF k >= cursor THEN k - cursor ELSE k + n - cursor
<1>1. \A x \in 0..(n - 1) : x % n = x
  OBVIOUS
<1>2. \A x \in n..(2 * n - 1) : x % n = x - n
  OBVIOUS
<1>3. CASE k >= cursor
  <2>1. k + n - cursor \in n..(2 * n - 1) /\ k + n - cursor - n = k - cursor
    BY <1>3
  <2>. QED BY <1>2, <1>3, <2>1 DEF Ahead
<1>4. CASE k < cursor
  <2>1. k + n - cursor \in 0..(n - 1)
    BY <1>4
  <2>. QED BY <1>1, <1>4, <2>1 DEF Ahead
<1>. QED BY <1>3, <1>4

(* When the cursor moves behind a place, all that were farther come closer   *)
(* (nextAvailableLocked, pool.go:580-599).                                   *)
LEMMA CursorPasses ==
  ASSUME NEW n \in Nat \ {0}, NEW cursor \in 0..(n - 1),
         NEW j \in 0..(n - 1), NEW k \in 0..(n - 1), j # k,
         Ahead(cursor, j, n) <= Ahead(cursor, k, n)
  PROVE  Ahead((j + 1) % n, k, n) < Ahead(cursor, k, n)
<1> DEFINE m == (j + 1) % n
<1>1. m = IF j + 1 = n THEN 0 ELSE j + 1
  <2>1. CASE j + 1 = n
    BY <2>1
  <2>2. CASE j + 1 # n
    <3>1. j + 1 \in 0..(n - 1)
      BY <2>2
    <3>2. \A x \in 0..(n - 1) : x % n = x
      OBVIOUS
    <3>. QED BY <2>2, <3>1, <3>2
  <2>. QED BY <2>1, <2>2
<1>2. m \in 0..(n - 1)
  BY <1>1
<1> HIDE DEF m
<1>3. Ahead(m, k, n) = IF k >= m THEN k - m ELSE k + n - m
  BY <1>2, AheadIs
<1>4. /\ Ahead(cursor, k, n) = IF k >= cursor THEN k - cursor ELSE k + n - cursor
      /\ Ahead(cursor, j, n) = IF j >= cursor THEN j - cursor ELSE j + n - cursor
  BY AheadIs
<1>5. Ahead(m, k, n) < Ahead(cursor, k, n)
  BY <1>1, <1>2, <1>3, <1>4
<1>. QED BY <1>5 DEF m

(* The rotation starves no host: whenever a lease passes over a host that    *)
(* has an available client, that host's turn has come closer                 *)
(* (nextAvailableLocked, pool.go:580-599).                                   *)
THEOREM TurnsComeCloser == Spec => TurnComesCloser
<1> DEFINE Nearer ==
      \A c \in Client :
        ~client[c].inUse /\ client'[c].inUse =>
          \A d \in Available : d[1] # c[1] => HostsAhead(d[1])' < HostsAhead(d[1])
<1>1. TypeOK /\ [Next]_vars => Nearer
  <2> SUFFICES ASSUME TypeOK, [Next]_vars, NEW c \in Client,
                      ~client[c].inUse, client'[c].inUse,
                      NEW d \in Available, d[1] # c[1]
               PROVE  HostsAhead(d[1])' < HostsAhead(d[1])
    OBVIOUS
  <2>1. PICK w \in Worker : AcquireLease(w)
    BY LeasedBy
  <2>2. PICK e \in Client : /\ IsNextAvailable(e)
                            /\ client' = [client EXCEPT ![e] =
                                 [inUse |-> TRUE, generation |-> NextGeneration(e)]]
                            /\ nextHost' = NextHost(e)
    BY <2>1 DEF AcquireLease
  <2>3. e = c
    BY <2>2 DEF TypeOK
  <2>4. HostsAhead(c[1]) <= HostsAhead(d[1])
    BY <2>2, <2>3 DEF IsNextAvailable
  <2>5. /\ NumHosts \in Nat \ {0} /\ nextHost \in 0..(NumHosts - 1)
        /\ c[1] \in 0..(NumHosts - 1) /\ d[1] \in 0..(NumHosts - 1)
    BY PoolAssumption, ClientShape DEF TypeOK, Available, Host
  <2>6. Ahead((c[1] + 1) % NumHosts, d[1], NumHosts) < Ahead(nextHost, d[1], NumHosts)
    BY <2>4, <2>5, CursorPasses DEF HostsAhead
  <2>. QED BY <2>2, <2>3, <2>6 DEF HostsAhead, NextHost
<1>2. TypeOK /\ [Next]_vars => [Nearer]_vars
  BY <1>1
<1>. QED BY <1>2, TypeCorrect, PTL DEF Spec, TurnComesCloser

-----------------------------------------------------------------------------
(* The refinement: every step of the pool lends a client, takes one back,    *)
(* begins or ends the close, retires a client, or changes nothing that a     *)
(* caller sees.                                                              *)

(* The invariants of the pool that the refinement rests on.                  *)
PoolInv == TypeOK /\ LeaseInv /\ CloseInv

(* They hold in every state (SourcePoolProofs).                              *)
LEMMA PoolInvariant == Spec => []PoolInv
<1>1. (LeaseExclusive /\ LeaseHistory) => LeaseInv
  BY DEF LeaseInv
<1>2. (OneFinisher /\ ClosedOnceDrained /\ CloseMeansClosed) => CloseInv
  BY DEF CloseInv
<1>. QED BY <1>1, <1>2, TypeCorrect, LeasesAreExclusive, CloseIsOrderly, PTL DEF PoolInv

(* Who holds a client, without the CHOOSE.                                   *)
HolderKnown ==
  \A c \in Client :
    /\ closeCalls[c] > 0 => Holder[c] = Gone
    /\ closeCalls[c] = 0 /\ ~client[c].inUse => Holder[c] = Free
    /\ \A w \in Worker :
         closeCalls[c] = 0 /\ client[c].inUse /\ Holding(w, c) => Holder[c] = w

(* A client that was not closed is held by its worker, or free.              *)
LEMMA HolderIs == PoolInv => HolderKnown
<1> SUFFICES ASSUME PoolInv, NEW c \in Client
             PROVE  /\ closeCalls[c] > 0 => Holder[c] = Gone
                    /\ closeCalls[c] = 0 /\ ~client[c].inUse => Holder[c] = Free
                    /\ \A w \in Worker :
                         closeCalls[c] = 0 /\ client[c].inUse /\ Holding(w, c)
                           => Holder[c] = w
  BY DEF HolderKnown
<1>1. closeCalls[c] \in Nat
  BY DEF PoolInv, TypeOK
<1>2. ASSUME closeCalls[c] = 0, client[c].inUse, NEW w \in Worker, Holding(w, c)
      PROVE  Holder[c] = w
  <2>1. \A v \in Worker : Holding(v, c) <=> v = w
    BY <1>2 DEF PoolInv, LeaseInv, LeaseExclusive
  <2>2. (CHOOSE v \in Worker : Holding(v, c)) = w
    BY <2>1
  <2>. QED BY <1>2, <2>2 DEF Holder
<1>. QED BY <1>1, <1>2 DEF Holder

(* Nor in the next state.                                                    *)
LEMMA HolderIsNext == PoolInv' => HolderKnown'
  BY HolderIs, PTL

(* Holder is a function on the clients, before and after a step.             *)
LEMMA HolderFunction ==
  /\ Holder = [c \in Client |-> Holder[c]]
  /\ Holder' = [c \in Client |-> Holder'[c]]
  BY DEF Holder

(* Every client is closed, held by somebody, or free.                        *)
LEMMA HolderCases ==
  ASSUME PoolInv, NEW c \in Client
  PROVE  \/ closeCalls[c] > 0 /\ ~client[c].inUse /\ Holder[c] = Gone
         \/ closeCalls[c] = 0 /\ ~client[c].inUse /\ Holder[c] = Free
         \/ /\ closeCalls[c] = 0 /\ client[c].inUse
            /\ \E w \in Worker : Holding(w, c) /\ Holder[c] = w
<1>1. closeCalls[c] \in Nat
  BY DEF PoolInv, TypeOK
<1>2. client[c].inUse => \E w \in Worker : Holding(w, c)
  BY DEF PoolInv, LeaseInv, LeaseExclusive
<1>3. closeCalls[c] > 0 => ~client[c].inUse
  <2> SUFFICES ASSUME closeCalls[c] > 0 PROVE ~client[c].inUse
    OBVIOUS
  <2>1. closed \/ \E k \in Finisher : pc[k] = "closing"
    BY DEF PoolInv, CloseInv, ClosedOnceDrained
  <2>. QED BY <2>1 DEF PoolInv, CloseInv, ClosedOnceDrained
<1>. QED BY <1>1, <1>2, <1>3, HolderIs DEF HolderKnown

(* Where no client changes hands or is closed, every holder stays.           *)
LEMMA HolderStays ==
  ASSUME PoolInv, PoolInv', client' = client, NEW c \in Client,
         closeCalls'[c] = closeCalls[c],
         \A w \in Worker : Holding(w, c) => Holding(w, c)'
  PROVE  Holder'[c] = Holder[c]
<1>1. CASE closeCalls[c] > 0
  BY <1>1, HolderIs, HolderIsNext DEF HolderKnown
<1>2. CASE closeCalls[c] = 0 /\ ~client[c].inUse
  BY <1>2, HolderIs, HolderIsNext DEF HolderKnown
<1>3. ASSUME closeCalls[c] = 0, client[c].inUse, NEW w \in Worker, Holding(w, c)
      PROVE  Holder'[c] = Holder[c]
  BY <1>3, HolderIs, HolderIsNext DEF HolderKnown
<1>. QED BY <1>1, <1>2, <1>3, HolderCases

(* Lending: the pool is open, and the worker holds nothing (Acquire).        *)
LEMMA LeaseLends ==
  ASSUME PoolInv, PoolInv', NEW w \in Worker, AcquireLease(w)
  PROVE  Abstract!Next
<1>1. PICK c \in Client :
        /\ ~client[c].inUse
        /\ client' = [client EXCEPT ![c] =
                        [inUse |-> TRUE, generation |-> client[c].generation + 1]]
        /\ lease' = [lease EXCEPT ![w] =
                        [client |-> c, generation |-> client[c].generation + 1]]
  BY LeaseStep DEF PoolInv
<1>2. /\ pc' = [pc EXCEPT ![w] = "holding"] /\ pc[w] = "acquiring" /\ ~closing /\ ~closed
      /\ closing' = closing /\ closed' = closed /\ closeCalls' = closeCalls
  BY LeaseStep DEF PoolInv, AcquireLease, closeVars
<1>3. \A d \in Client : closeCalls[d] = 0
  BY <1>2 DEF PoolInv, CloseInv, OneFinisher, ClosedOnceDrained
<1>4. Phase = "open" /\ Phase' = Phase
  BY <1>2 DEF Phase
<1>5. Holder[c] = Free
  BY <1>1, <1>3, HolderIs DEF HolderKnown
<1>6. /\ client'[c].inUse /\ \A d \in Client \ {c} : client'[d] = client[d]
      /\ Holding(w, c)'
      /\ \A v \in Worker, d \in Client : v # w => (Holding(v, d)' <=> Holding(v, d))
  BY <1>1, <1>2, ActorsDiffer DEF PoolInv, TypeOK, Holding
<1>7. Holder'[c] = w
  BY <1>2, <1>3, <1>6, HolderIsNext DEF HolderKnown
<1>8. ASSUME NEW d \in Client \ {c} PROVE Holder'[d] = Holder[d] /\ Holder[d] # w
  <2>1. CASE ~client[d].inUse
    <3>1. Holder[d] = Free /\ Holder'[d] = Free
      BY <1>2, <1>3, <1>6, <2>1, HolderIs, HolderIsNext DEF HolderKnown
    <3>. QED BY <3>1, MarkAssumption
  <2>2. CASE client[d].inUse
    <3>1. PICK v \in Worker : Holding(v, d) /\ Holder[d] = v
      BY <1>3, <2>2, HolderCases
    <3>2. v # w
      BY <1>2, <3>1 DEF Holding
    <3>3. Holder'[d] = v
      BY <1>2, <1>3, <1>6, <2>2, <3>1, <3>2, HolderIsNext DEF HolderKnown
    <3>. QED BY <3>1, <3>2, <3>3
  <2>. QED BY <2>1, <2>2
<1>9. Holder' = [Holder EXCEPT ![c] = w]
  BY <1>7, <1>8, HolderFunction
<1>10. ~Abstract!Holds(w)
  BY <1>5, <1>8, MarkAssumption DEF Abstract!Holds
<1>11. Abstract!Lend(w, c)
  BY <1>4, <1>5, <1>9, <1>10 DEF Abstract!Lend
<1>. QED BY <1>11 DEF Abstract!Next

(* Taking back: what a worker releases is what it holds (Release).           *)
LEMMA ReleaseTakesBack ==
  ASSUME PoolInv, PoolInv', NEW w \in Worker, Release(w)
  PROVE  Abstract!Next
<1> DEFINE c == lease[w].client
<1>1. /\ pc' = [pc EXCEPT ![w] = "idle"] /\ lease' = lease /\ c \in Client
      /\ lease[w] \in Lease /\ LeaseValid(lease[w])
      /\ client' = [client EXCEPT ![c].inUse = FALSE]
  BY ReleaseStep DEF PoolInv, Lease
<1>2. closing' = closing /\ closed' = closed /\ closeCalls' = closeCalls
  BY DEF Release, closeVars
<1>3. Holding(w, c) /\ client[c].inUse
  <2>1. PICK v \in Worker : Holding(v, c)
    BY <1>1 DEF PoolInv, LeaseInv, LeaseExclusive, LeaseValid
  <2>2. /\ lease[v] \in Lease /\ lease[v].client = lease[w].client
        /\ lease[v].generation = lease[w].generation
    BY <1>1, <2>1, ActorAssumption
       DEF PoolInv, LeaseInv, LeaseExclusive, LeaseValid, TypeOK, Holding
  <2>3. lease[v] = lease[w]
    BY <1>1, <2>2 DEF Lease
  <2>4. v = w
    BY <1>1, <2>1, <2>3, ActorAssumption DEF PoolInv, LeaseInv, LeaseHistory, Lease
  <2>. QED BY <1>1, <2>1, <2>4 DEF LeaseValid
<1>4. closeCalls[c] = 0 /\ Holder[c] = w
  BY <1>1, <1>3, HolderCases, HolderIs DEF HolderKnown
<1>5. /\ ~client'[c].inUse /\ \A d \in Client \ {c} : client'[d] = client[d]
      /\ \A v \in Worker, d \in Client \ {c} : Holding(v, d) => Holding(v, d)'
  BY <1>1, <1>3, ActorsDiffer DEF PoolInv, TypeOK, PooledClient, Holding
<1>6. Holder'[c] = Free
  BY <1>1, <1>2, <1>4, <1>5, HolderIsNext DEF HolderKnown
<1>7. ASSUME NEW d \in Client \ {c} PROVE Holder'[d] = Holder[d]
  <2>1. CASE closeCalls[d] > 0
    BY <1>2, <2>1, HolderIs, HolderIsNext DEF HolderKnown
  <2>2. CASE closeCalls[d] = 0 /\ ~client[d].inUse
    BY <1>2, <1>5, <2>2, HolderIs, HolderIsNext DEF HolderKnown
  <2>3. ASSUME closeCalls[d] = 0, client[d].inUse, NEW v \in Worker, Holding(v, d)
        PROVE  Holder'[d] = Holder[d]
    BY <1>2, <1>5, <2>3, HolderIs, HolderIsNext DEF HolderKnown
  <2>. QED BY <2>1, <2>2, <2>3, HolderCases
<1>8. Holder' = [Holder EXCEPT ![c] = Free]
  BY <1>6, <1>7, HolderFunction
<1>9. Phase' = Phase
  BY <1>2 DEF Phase
<1>10. Abstract!TakeBack(w, c)
  BY <1>4, <1>8, <1>9 DEF Abstract!TakeBack
<1>. QED BY <1>1, <1>10 DEF Abstract!Next

(* Beginning, retiring and ending: the steps of Close.                       *)
LEMMA CloseImplements ==
  ASSUME PoolInv, PoolInv', NEW k \in Finisher, Close(k) \/ JoinClose(k) \/ FinishClose(k)
  PROVE  [Abstract!Next]_Abstract!vars
<1> USE DEF Abstract!Next, Abstract!vars
<1>0. /\ client' = client
      /\ \A w \in Worker, c \in Client : Holding(w, c) => Holding(w, c)'
  BY ActorsDiffer DEF PoolInv, TypeOK, Close, JoinClose, FinishClose, CloseReturnsAtOnce,
     CloseStart, JoinDone, JoinTimeout, JoinWait, DrainWait, DrainTimeout, DrainDone,
     CloseClient, CloseFinish, Holding, leaseVars
<1>1. ASSUME closeCalls' = closeCalls PROVE Holder' = Holder
  <2>1. \A c \in Client : Holder'[c] = Holder[c]
    BY <1>0, <1>1, HolderStays
  <2>. QED BY <2>1 DEF Holder
<1>2. CASE CloseStart(k)
  <2>1. Phase = "open" /\ Phase' = "closing" /\ closeCalls' = closeCalls
    BY <1>2 DEF CloseStart, Phase, PoolInv, CloseInv, ClosedOnceDrained
  <2>. QED BY <1>1, <2>1 DEF Abstract!BeginClose
<1>3. CASE CloseClient(k)
  <2>1. PICK c \in toClose[k] :
          /\ toClose' = [toClose EXCEPT ![k] = @ \ {c}]
          /\ closeCalls' = [closeCalls EXCEPT ![c] = @ + 1]
    BY <1>3 DEF CloseClient
  <2>2. /\ c \in Client /\ pc[k] = "closing" /\ closing' = closing /\ closed' = closed
    BY <1>3, <2>1 DEF CloseClient, PoolInv, TypeOK
  <2>3. closing /\ ~closed /\ \A d \in Client : ~client[d].inUse
    BY <2>2 DEF PoolInv, CloseInv, OneFinisher, ClosedOnceDrained
  <2>4. Phase = "closing" /\ Phase' = Phase
    BY <2>2, <2>3 DEF Phase
  <2>5. closeCalls[c] = 0 /\ closeCalls'[c] = 1
        /\ \A d \in Client \ {c} : closeCalls'[d] = closeCalls[d]
    BY <2>1, <2>2 DEF PoolInv, CloseInv, ClosedOnceDrained, TypeOK
  <2>6. Holder[c] = Free /\ Holder'[c] = Gone
    BY <2>2, <2>3, <2>5, HolderIs, HolderIsNext DEF HolderKnown
  <2>7. \A d \in Client \ {c} : Holder'[d] = Holder[d]
    BY <1>0, <2>5, HolderStays
  <2>8. Holder' = [Holder EXCEPT ![c] = Gone]
    BY <2>6, <2>7, HolderFunction
  <2>9. Abstract!Lent = {}
    <3>1. \A d \in Client : Holder[d] \in {Free, Gone}
      BY <2>3, HolderCases
    <3>. QED BY <3>1, MarkAssumption DEF Abstract!Lent
  <2>10. Abstract!Retire(c)
    BY <2>4, <2>6, <2>8, <2>9 DEF Abstract!Retire
  <2>. QED BY <2>2, <2>10
<1>4. CASE CloseFinish(k)
  <2>1. /\ pc[k] = "closing" /\ toClose[k] = {} /\ closed' /\ closeCalls' = closeCalls
    BY <1>4 DEF CloseFinish
  <2>2. closing /\ ~closed /\ \A c \in Client : closeCalls[c] = 1
    BY <2>1 DEF PoolInv, CloseInv, OneFinisher, ClosedOnceDrained
  <2>3. Phase = "closing" /\ Phase' = "closed"
    BY <2>1, <2>2 DEF Phase
  <2>4. \A c \in Client : Holder[c] = Gone
    BY <2>2, HolderIs DEF HolderKnown
  <2>. QED BY <1>1, <2>1, <2>3, <2>4 DEF Abstract!EndClose
<1>5. CASE DrainTimeout(k)
  <2>1. pc[k] = "draining" /\ closing' /\ closed' = closed /\ closeCalls' = closeCalls
    BY <1>5 DEF DrainTimeout, Running
  <2>2. closing /\ ~closed
    BY <2>1 DEF PoolInv, CloseInv, OneFinisher, ClosedOnceDrained
  <2>3. Phase' = Phase
    BY <2>1, <2>2 DEF Phase
  <2>. QED BY <1>1, <2>1, <2>3
<1>6. CASE UNCHANGED <<closing, closed, closeCalls>>
  BY <1>1, <1>6 DEF Phase
<1>. QED BY <1>2, <1>3, <1>4, <1>5, <1>6
         DEF Close, JoinClose, FinishClose, CloseReturnsAtOnce, JoinDone, JoinTimeout, JoinWait,
             DrainWait, DrainDone, closeVars

(* Every step of the pool is a step of the contract, or no step of it.       *)
LEMMA StepImplements ==
  PoolInv /\ PoolInv' /\ [Next]_vars => [Abstract!Next]_Abstract!vars
<1> SUFFICES ASSUME PoolInv, PoolInv', [Next]_vars PROVE [Abstract!Next]_Abstract!vars
  OBVIOUS
<1>1. CASE \E w \in Worker : AcquireLease(w)
  BY <1>1, LeaseLends
<1>2. CASE \E w \in Worker : Release(w)
  BY <1>2, ReleaseTakesBack
<1>3. CASE \E k \in Finisher : Close(k) \/ JoinClose(k) \/ FinishClose(k)
  BY <1>3, CloseImplements
<1>4. ASSUME \A w \in Worker : ~AcquireLease(w) /\ ~Release(w),
             ~ \E k \in Finisher : Close(k) \/ JoinClose(k) \/ FinishClose(k)
      PROVE  UNCHANGED Abstract!vars
  <2>1. /\ lease' = lease /\ client' = client
        /\ \A w \in Worker : pc'[w] = "holding" <=> pc[w] = "holding"
    BY <1>4, LeasesUntouched DEF PoolInv
  <2>2. UNCHANGED closeVars
    BY <1>4, CloseUntouched, ActorsDiffer DEF Next, PoolInv
  <2>3. \A c \in Client : Holder'[c] = Holder[c]
    BY <2>1, <2>2, HolderStays DEF Holding, closeVars
  <2>4. Holder' = Holder
    BY <2>3 DEF Holder
  <2>. QED BY <2>2, <2>4 DEF Abstract!vars, Phase, closeVars
<1>. QED BY <1>1, <1>2, <1>3, <1>4

(* The pool implements the lending contract: a client is lent to one worker  *)
(* at a time, none once closing has begun, and each is closed once, when all *)
(* are back (Acquire, Release and Close, pool.go:298-578).                   *)
THEOREM PoolImplementsContract == Spec => ImplementsLeasePool
<1>1. Init => Abstract!Init
  BY DEF Init, Abstract!Init, Phase, Holder
<1>. QED BY <1>1, StepImplements, PoolInvariant, PTL DEF Spec, ImplementsLeasePool, Abstract!Spec

=============================================================================
