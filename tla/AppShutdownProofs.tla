-------------------------- MODULE AppShutdownProofs --------------------------
(***************************************************************************)
(* Proofs about ProviderRuntime, HttpIngress and AppShutdown.  Of the      *)
(* runtime, for any number of closers and requests: the provider is closed *)
(* once, a Close that returns without an error has left nothing open, and  *)
(* nobody is served after it.  Of the ingress, for any clients, burst,     *)
(* rate and length of the run: the limiter keeps its promise over every    *)
(* stretch of time, and the counters are those of the requests.  Of the    *)
(* App, for any requests and callers of Shutdown: it runs the two as their *)
(* own modules describe them, so that what is proved of them holds of it,  *)
(* and it takes nothing away under a running handler nor leaves anything   *)
(* open.  The first two parts use nothing of what the App assumes.         *)
(***************************************************************************)
EXTENDS AppShutdown, FiniteSetTheorems, TLAPS

-----------------------------------------------------------------------------
(* The provider runtime.                                                     *)

(* Where the builder is before it has closed the channel done.               *)
Unfinished == {"checking", "building", "backoff", "finishing", "signaling"}

(* Where a caller of Close is once it has waited for that channel.           *)
Admitted == {"entering", "closing", "returned"}

(* The builder and the channel: what was built is published, and nobody gets *)
(* past the channel before.                                                  *)
BuildInv ==
  /\ done <=> pc[Builder] \notin Unfinished
  /\ pc[Builder] \in {"checking", "building", "backoff"} => ~built
  /\ \A a \in Actor : pc[a] \in Admitted => done
  /\ closeOnce # "new" => done

(* The Once: before it nothing is closed and what was published is there; in *)
(* it is one caller, which has taken the provider; after it nothing is open. *)
OnceInv ==
  /\ closeCalls = IF upstream \in {"closing", "closed"} THEN 1 ELSE 0
  /\ provider => closeOnce = "new"
  /\ closeOnce = "new" =>
       /\ upstream \in {"none", "open"}
       /\ pc[Builder] \notin {"checking", "building", "backoff", "finishing"} => provider = built
       /\ \A a \in Actor : pc[a] \notin {"closing", "returned"}
  /\ closeOnce = "running" =>
       /\ upstream \in {"none", "closing"}
       /\ \A a \in Actor : pc[a] # "returned"
       /\ \A a, b \in Actor : pc[a] = "closing" /\ pc[b] = "closing" => a = b
  /\ closeOnce = "done" =>
       /\ upstream \in {"none", "closed"}
       /\ \A a \in Actor : pc[a] # "closing"

(* A Close that has begun was requested.                                     *)
RequestedInv ==
  \A a \in Actor : pc[a] \in {"polling", "waiting", "timedOut"} \cup Admitted => closeRequested

RuntimeInv == TypeOK /\ BuildInv /\ OnceInv /\ RequestedInv

USE DEF At, Goto, buildVars, closeVars

(* In the beginning nothing is built and nothing is closed                   *)
(* (newProviderRuntime).                                                     *)
LEMMA RuntimeInitially == Init => RuntimeInv
<1> SUFFICES ASSUME Init PROVE RuntimeInv
  OBVIOUS
<1> USE ActorAssumption DEF Init, Actor, BuildPC, ClosePC, Unfinished, Admitted
<1>1. TypeOK
  BY DEF TypeOK
<1>2. BuildInv
  BY DEF BuildInv
<1>3. OnceInv
  BY DEF OnceInv
<1>4. RequestedInv
  BY DEF RequestedInv
<1> QED BY <1>1, <1>2, <1>3, <1>4 DEF RuntimeInv

(* The types are kept by every step (providerRuntime).                       *)
LEMMA RuntimeTypeKept == RuntimeInv /\ [Next]_vars => TypeOK'
<1> SUFFICES ASSUME RuntimeInv, [Next]_vars PROVE TypeOK'
  OBVIOUS
<1> USE ActorAssumption DEF RuntimeInv, TypeOK, BuildInv, Actor, BuildPC, ClosePC
<1>1. CASE Check
  BY <1>1 DEF Check
<1>2. CASE FactoryReady
  BY <1>2 DEF FactoryReady
<1>f. CASE FactoryFails
  BY <1>f DEF FactoryFails
<1>c. CASE FactoryCanceled
  BY <1>c DEF FactoryCanceled
<1>3. CASE BackoffOver
  BY <1>3 DEF BackoffOver
<1>4. CASE Publish
  BY <1>4 DEF Publish
<1>5. CASE Signal
  BY <1>5 DEF Signal
<1>6. ASSUME NEW a \in Actor, Close(a) PROVE TypeOK'
  <2>1. CASE RequestClose(a)
    BY <2>1 DEF RequestClose
  <2>2. CASE PollDone(a)
    BY <2>2 DEF PollDone
  <2>3. CASE AwaitDone(a)
    BY <2>3 DEF AwaitDone
  <2>4. CASE EnterOnce(a)
    <3>1. CASE provider
      <4>1. upstream' = "closing" /\ closeCalls' = closeCalls + 1 /\ built
        BY <2>4, <3>1 DEF EnterOnce
      <4>2. /\ closeOnce' = "running" /\ provider' = FALSE
            /\ pc' = [pc EXCEPT ![a] = "closing"] /\ pc[a] = "entering"
            /\ UNCHANGED <<canceled, closeRequested, ctxDone, calling, built,
                           closeAfterFinish, done>>
        BY <2>4 DEF EnterOnce
      <4>3. closeCalls' \in Nat
        BY <4>1
      <4>4. /\ pc' \in [Actor -> BuildPC \cup ClosePC]
            /\ pc'[Builder] \notin {"idle", "timedOut"}
            /\ \A k \in Closer : pc'[k] \in ClosePC
        BY <4>2
      <4> QED BY <4>1, <4>2, <4>3, <4>4
    <3>2. CASE ~provider
      BY <2>4, <3>2 DEF EnterOnce
    <3> QED BY <3>1, <3>2
  <2>5. CASE LeaveOnce(a)
    BY <2>5 DEF LeaveOnce
  <2>6. CASE PassOnce(a)
    BY <2>6 DEF PassOnce
  <2> QED BY <1>6, <2>1, <2>2, <2>3, <2>4, <2>5, <2>6 DEF Close
<1>7. ASSUME NEW k \in Closer, CancelBuild(k) \/ AwaitTimeout(k) \/ CtxEnds(k) PROVE TypeOK'
  <2>1. CASE CancelBuild(k)
    BY <2>1 DEF CancelBuild
  <2>2. CASE AwaitTimeout(k)
    BY <2>2 DEF AwaitTimeout
  <2>3. CASE CtxEnds(k)
    BY <2>3 DEF CtxEnds
  <2> QED BY <1>7, <2>1, <2>2, <2>3
<1>8. CASE BuildContextEnds
  BY <1>8 DEF BuildContextEnds
<1>9. ASSUME NEW r \in Request, CallProvider(r) \/ CallReturns(r) PROVE TypeOK'
  BY <1>9 DEF CallProvider, CallReturns
<1>10. CASE UNCHANGED vars
  BY <1>10 DEF vars
<1> QED BY <1>1, <1>2, <1>f, <1>c, <1>3, <1>4, <1>5, <1>6, <1>7, <1>8, <1>9, <1>10
        DEF Next, Build, FactoryReturns, CloserStep

(* The builder steps keep what is known of it and of the Once                *)
(* (runProviderFactoryUntilReady, finish).                                   *)
LEMMA BuildKeeps ==
  RuntimeInv /\ Build => BuildInv' /\ OnceInv' /\ RequestedInv'
<1> SUFFICES ASSUME RuntimeInv, Build PROVE BuildInv' /\ OnceInv' /\ RequestedInv'
  OBVIOUS
<1> USE ActorAssumption DEF RuntimeInv, TypeOK, BuildInv, OnceInv, RequestedInv, Actor,
                            Unfinished, Admitted
<1>1. CASE Check
  BY <1>1 DEF Check
<1>2. CASE FactoryReady
  BY <1>2 DEF FactoryReady
<1>3. CASE FactoryFails
  BY <1>3 DEF FactoryFails
<1>4. CASE FactoryCanceled
  BY <1>4 DEF FactoryCanceled
<1>5. CASE BackoffOver
  BY <1>5 DEF BackoffOver
<1>6. CASE Publish
  BY <1>6 DEF Publish
<1>7. CASE Signal
  BY <1>7 DEF Signal
<1> QED BY <1>1, <1>2, <1>3, <1>4, <1>5, <1>6, <1>7 DEF Build, FactoryReturns

(* So do the steps of Close, by whoever calls it (providerRuntime.Close).    *)
LEMMA CloseKeeps ==
  ASSUME RuntimeInv, NEW a \in Actor, Close(a)
  PROVE  BuildInv' /\ OnceInv' /\ RequestedInv'
<1> USE ActorAssumption DEF RuntimeInv, TypeOK, BuildInv, OnceInv, RequestedInv, Actor,
                            Unfinished, Admitted
<1>1. CASE RequestClose(a)
  BY <1>1 DEF RequestClose
<1>2. CASE PollDone(a)
  BY <1>2 DEF PollDone
<1>3. CASE AwaitDone(a)
  BY <1>3 DEF AwaitDone
<1>4. CASE EnterOnce(a)
  BY <1>4 DEF EnterOnce
<1>5. CASE LeaveOnce(a)
  BY <1>5 DEF LeaveOnce
<1>6. CASE PassOnce(a)
  BY <1>6 DEF PassOnce
<1> QED BY <1>1, <1>2, <1>3, <1>4, <1>5, <1>6 DEF Close

(* And all the others.                                                       *)
LEMMA RuntimeInvKept == RuntimeInv /\ [Next]_vars => RuntimeInv'
<1> SUFFICES ASSUME RuntimeInv, [Next]_vars PROVE BuildInv' /\ OnceInv' /\ RequestedInv'
  BY RuntimeTypeKept DEF RuntimeInv
<1> USE ActorAssumption DEF RuntimeInv, TypeOK, BuildInv, OnceInv, RequestedInv, Actor,
                            Unfinished, Admitted
<1>1. ASSUME NEW k \in Closer, CancelBuild(k) \/ AwaitTimeout(k)
      PROVE BuildInv' /\ OnceInv' /\ RequestedInv'
  BY <1>1 DEF CancelBuild, AwaitTimeout
<1>2. CASE UNCHANGED <<pc, provider, closeRequested, buildVars, closeOnce, upstream, closeCalls>>
  BY <1>2
<1>3. ASSUME NEW k \in Closer, CtxEnds(k) PROVE BuildInv' /\ OnceInv' /\ RequestedInv'
  BY <1>2, <1>3 DEF CtxEnds
<1>4. ASSUME NEW r \in Request, CallProvider(r) \/ CallReturns(r)
      PROVE BuildInv' /\ OnceInv' /\ RequestedInv'
  BY <1>2, <1>4 DEF CallProvider, CallReturns
<1>5. CASE BuildContextEnds
  BY <1>2, <1>5 DEF BuildContextEnds
<1>6. CASE UNCHANGED vars
  BY <1>2, <1>6 DEF vars
<1> QED BY <1>1, <1>3, <1>4, <1>5, <1>6, BuildKeeps, CloseKeeps DEF Next, CloserStep

(* The runtime always has its shape: a provider exists exactly when one was  *)
(* built, and done is closed exactly when its build is over.                 *)
THEOREM RuntimeInvariant == Spec => []RuntimeInv
  BY RuntimeInitially, RuntimeInvKept, PTL DEF Spec

(* The hook of the provider is called once, never while the provider can     *)
(* still be looked up, and a Close that returns has left nothing open        *)
(* (providerRuntime.Close, provider_runtime.go:74-110).                      *)
THEOREM ClosedForGood == Spec => []CloseMeansClosed
<1>1. RuntimeInv => CloseMeansClosed
  BY DEF RuntimeInv, TypeOK, BuildInv, OnceInv, CloseMeansClosed, Actor, Admitted, Unfinished
<1> QED BY <1>1, RuntimeInvariant, PTL

(* No request reaches the provider once a Close has returned or given up     *)
(* (providerRuntime.current).                                                *)
THEOREM NobodyServedLate == Spec => NotServedAfterClose
<1> DEFINE Served(r) == r \notin calling /\ r \in calling' =>
                          /\ upstream = "open"
                          /\ \A k \in Closer : pc[k] \notin {"returned", "timedOut"}
<1>1. RuntimeInv /\ [Next]_vars => [\A r \in Request : Served(r)]_vars
  <2> SUFFICES ASSUME RuntimeInv, Next, NEW r \in Request, r \notin calling, r \in calling'
               PROVE Served(r)
    OBVIOUS
  <2>1. CallProvider(r)
    BY DEF Next, Build, Check, FactoryReturns, FactoryReady, FactoryFails, FactoryCanceled,
           BackoffOver, Publish, Signal, Close, RequestClose, PollDone, AwaitDone, EnterOnce,
           LeaveOnce, PassOnce, CloserStep, CancelBuild, AwaitTimeout, CtxEnds,
           BuildContextEnds, CallProvider, CallReturns
  <2>2. provider /\ ~closeRequested
    BY <2>1 DEF CallProvider, current
  <2>3. upstream = "open"
    BY <2>2 DEF RuntimeInv, TypeOK, OnceInv
  <2> QED BY <2>2, <2>3 DEF RuntimeInv, RequestedInv, Actor, Admitted
<1> QED BY <1>1, RuntimeInvariant, PTL DEF Spec, NotServedAfterClose

-----------------------------------------------------------------------------
(* The HTTP ingress.                                                         *)

RefusedOnes == {r \in Client : step[r] = "refused"}

(* The variables have their types, and the bucket is never overfull.         *)
IngressTypeOK ==
  /\ step \in [Client -> {"out", "started", "handling", "refused"}]
  /\ tokens \in Nat /\ tokens <= Capacity
  /\ now \in Nat /\ lastRefill \in Nat /\ lastRefill <= now
  /\ spent \in Nat /\ spentBefore \in [0..now -> Nat]
  /\ inFlight \in Nat /\ requests \in Nat /\ errors \in Nat
  /\ arrived \in Nat /\ refused \in Nat

(* What was given away since a time before the last refill, and what is in   *)
(* the bucket, came from a full bucket and from the refills; since the last  *)
(* refill nothing was given away.                                            *)
BucketInv ==
  \A t \in 0..now :
    IF t <= lastRefill
      THEN spent + tokens <= spentBefore[t] + Capacity + (lastRefill - t)
      ELSE spent = spentBefore[t]

(* The capacity of the bucket is a natural number (NewRateLimiter).          *)
LEMMA CapacityIsNatural == Capacity \in Nat
  BY IngressAssumption, SMT DEF Capacity

(* A refill adds what the time since the last one gives, up to the capacity  *)
(* (RateLimiter.Allow).                                                      *)
LEMMA RefillIsBounded ==
  ASSUME IngressTypeOK
  PROVE  /\ Refilled \in Nat
         /\ Refilled <= Capacity
         /\ Refilled <= tokens + (now - lastRefill)
  BY CapacityIsNatural, SMT DEF IngressTypeOK, Refilled

(* The types hold in every state (the variables of RateLimiter, Metrics).    *)
THEOREM IngressTypeCorrect == IngressSpec => []IngressTypeOK
<1>1. IngressInit => IngressTypeOK
  BY CapacityIsNatural DEF IngressInit, IngressTypeOK
<1>2. IngressTypeOK /\ [IngressNext]_ingressVars => IngressTypeOK'
  <2> SUFFICES ASSUME IngressTypeOK, [IngressNext]_ingressVars PROVE IngressTypeOK'
    OBVIOUS
  <2> USE DEF IngressTypeOK
  <2>1. CASE IngressTick
    <3>1. spentBefore' \in [0..(now + 1) -> Nat]
      BY <2>1 DEF IngressTick
    <3> QED BY <2>1, <3>1, CapacityIsNatural DEF IngressTick, metricsVars, Capacity
  <2>2. ASSUME NEW r \in Client, Start(r) PROVE IngressTypeOK'
    BY <2>2 DEF Start, limiterVars, Capacity
  <2>3. ASSUME NEW r \in Client, Allow(r) PROVE IngressTypeOK'
    <3>1. Refilled \in Nat /\ Refilled <= Capacity
      BY RefillIsBounded
    <3>2. Scale \in Nat
      BY IngressAssumption
    <3>3. /\ tokens' \in Nat /\ tokens' <= Capacity
          /\ spent' \in Nat /\ refused' \in Nat
      BY <2>3, <3>1, <3>2, CapacityIsNatural, SMT DEF Allow
    <3>4. step' \in [Client -> {"out", "started", "handling", "refused"}]
      BY <2>3 DEF Allow
    <3> QED BY <2>3, <3>3, <3>4 DEF Allow, metricsVars, Capacity
  <2>4. ASSUME NEW r \in Client, NEW failed \in BOOLEAN, Observe(r, failed)
        PROVE IngressTypeOK'
    <3>1. /\ inFlight' \in Nat /\ requests' \in Nat /\ errors' \in Nat
      BY <2>4, SMT DEF Observe, Decremented
    <3> QED BY <2>4, <3>1 DEF Observe, limiterVars, Capacity
  <2>5. CASE UNCHANGED ingressVars
    BY <2>5 DEF ingressVars, limiterVars, metricsVars, Capacity
  <2> QED BY <2>1, <2>2, <2>3, <2>4, <2>5 DEF IngressNext, EndRefused, EndHandled
<1> QED BY <1>1, <1>2, PTL DEF IngressSpec

(* What is known of the bucket is kept by every step (RateLimiter.Allow).    *)
LEMMA BucketKept ==
  IngressTypeOK /\ BucketInv /\ [IngressNext]_ingressVars => BucketInv'
<1> SUFFICES ASSUME IngressTypeOK, BucketInv, [IngressNext]_ingressVars PROVE BucketInv'
  OBVIOUS
<1> USE DEF IngressTypeOK, BucketInv
<1>1. CASE IngressTick
  <2> SUFFICES ASSUME NEW t \in 0..now'
               PROVE IF t <= lastRefill
                       THEN spent + tokens <= spentBefore'[t] + Capacity + (lastRefill - t)
                       ELSE spent = spentBefore'[t]
    BY <1>1 DEF IngressTick, Capacity
  <2>1. CASE t <= now
    <3>1. spentBefore'[t] = spentBefore[t] /\ t \in 0..now
      BY <1>1, <2>1 DEF IngressTick
    <3> QED BY <3>1
  <2>2. CASE ~(t <= now)
    <3>1. spentBefore'[t] = spent
      BY <1>1, <2>2 DEF IngressTick
    <3> QED BY <2>2, <3>1, SMT
  <2> QED BY <2>1, <2>2
<1>2. ASSUME NEW r \in Client, Allow(r) PROVE BucketInv'
  <2>1. /\ lastRefill' = now /\ now' = now /\ spentBefore' = spentBefore
        /\ spent' + tokens' = spent + Refilled
    <3>1. Refilled \in Nat /\ Scale \in Nat
      BY RefillIsBounded, IngressAssumption
    <3> QED BY <1>2, <3>1, SMT DEF Allow
  <2>2. /\ Refilled \in Nat /\ Refilled <= Capacity
        /\ Refilled <= tokens + (now - lastRefill)
    BY RefillIsBounded
  <2>3. ASSUME NEW t \in 0..now
        PROVE spent + Refilled <= spentBefore[t] + Capacity + (now - t)
    <3>1. CASE t <= lastRefill
      <4>1. spent + tokens <= spentBefore[t] + Capacity + (lastRefill - t)
        BY <3>1
      <4> QED BY <2>2, <4>1, CapacityIsNatural, SMT
    <3>2. CASE ~(t <= lastRefill)
      <4>1. spent = spentBefore[t]
        BY <3>2
      <4> QED BY <2>2, <4>1, CapacityIsNatural, SMT
    <3> QED BY <3>1, <3>2
  <2> QED BY <2>1, <2>3, CapacityIsNatural, SMT DEF Capacity
<1>3. CASE UNCHANGED <<tokens, lastRefill, now, spent, spentBefore>>
  BY <1>3 DEF Capacity
<1> QED BY <1>1, <1>2, <1>3 DEF IngressNext, Start, EndRefused, EndHandled, Observe,
                                limiterVars, ingressVars

(* However the requests come in, no stretch of time that ends now has let    *)
(* more of them through than the burst and what the rate gives for its       *)
(* length (RateLimiter.Allow).                                               *)
THEOREM LimiterLimits == IngressSpec => []RateIsLimited
<1>1. IngressInit => BucketInv
  BY CapacityIsNatural DEF IngressInit, BucketInv
<1>2. IngressTypeOK /\ BucketInv => RateIsLimited
  <2> SUFFICES ASSUME IngressTypeOK, BucketInv, NEW t \in 0..now
               PROVE  spent - spentBefore[t] <= Capacity + (now - t)
    BY DEF RateIsLimited
  <2>1. /\ t \in Nat /\ t <= now /\ now \in Nat /\ lastRefill \in Nat /\ lastRefill <= now
        /\ spentBefore[t] \in Nat /\ spent \in Nat /\ tokens \in Nat
    BY DEF IngressTypeOK
  <2>2. IF t <= lastRefill
          THEN spent + tokens <= spentBefore[t] + Capacity + (lastRefill - t)
          ELSE spent = spentBefore[t]
    BY DEF BucketInv
  <2> QED BY <2>1, <2>2, CapacityIsNatural, SMT
<1> QED BY <1>1, <1>2, BucketKept, IngressTypeCorrect, PTL DEF IngressSpec

-----------------------------------------------------------------------------

(* When one request comes in or goes, the requests inside are one more or    *)
(* one fewer (Metrics.start, Metrics.observe).                               *)
LEMMA OneComesOrGoes ==
  ASSUME NEW A, NEW B, NEW r, IsFiniteSet(A), r \notin A, B = A \cup {r}
  PROVE  /\ IsFiniteSet(B)
         /\ Cardinality(A) \in Nat
         /\ Cardinality(B) = Cardinality(A) + 1
  BY FS_AddElement, FS_CardinalityType

(* MetricsAddUp, with a name for the requests that are being refused.        *)
CountersInv ==
  /\ inFlight = Cardinality(Inside)
  /\ requests + inFlight = arrived
  /\ errors <= requests
  /\ refused <= errors + Cardinality(RefusedOnes)

(* The counters are those of the requests: in flight are the ones between    *)
(* start and the deferred done, counted is every other one that came in, the *)
(* refused ones as errors (Metrics.observe, Handler.instrument).             *)
THEOREM MetricsCount == IngressSpec => []MetricsAddUp
<1>1. IngressInit => CountersInv
  <2> SUFFICES ASSUME IngressInit PROVE CountersInv
    OBVIOUS
  <2>1. Inside = {} /\ RefusedOnes = {}
    BY DEF IngressInit, Inside, RefusedOnes
  <2> QED BY <2>1, FS_EmptySet DEF IngressInit, CountersInv
<1>2. IngressTypeOK /\ CountersInv /\ [IngressNext]_ingressVars => CountersInv'
  <2> SUFFICES ASSUME IngressTypeOK, CountersInv, [IngressNext]_ingressVars
               PROVE CountersInv'
    OBVIOUS
  <2>0. /\ IsFiniteSet(Inside) /\ IsFiniteSet(RefusedOnes)
        /\ Cardinality(Inside) \in Nat /\ Cardinality(RefusedOnes) \in Nat
    BY IngressAssumption, FS_Subset, FS_CardinalityType DEF Inside, RefusedOnes
  <2>n. /\ inFlight \in Nat /\ requests \in Nat /\ errors \in Nat
        /\ arrived \in Nat /\ refused \in Nat
    BY DEF IngressTypeOK
  <2>c. /\ inFlight = Cardinality(Inside)
        /\ requests + inFlight = arrived
        /\ errors <= requests
        /\ refused <= errors + Cardinality(RefusedOnes)
    BY DEF CountersInv
  <2>1. CASE UNCHANGED <<step, arrived, refused, inFlight, requests, errors>>
    BY <2>1 DEF CountersInv, Inside, RefusedOnes
  <2>2. ASSUME NEW r \in Client, Start(r) PROVE CountersInv'
    <3>1. r \notin Inside /\ Inside' = Inside \cup {r} /\ RefusedOnes' = RefusedOnes
      BY <2>2 DEF Start, Inside, RefusedOnes, IngressTypeOK
    <3>2. Cardinality(Inside') = Cardinality(Inside) + 1
      BY <2>0, <3>1, OneComesOrGoes
    <3>3. Cardinality(RefusedOnes') = Cardinality(RefusedOnes)
      BY <3>1
    <3>4. /\ inFlight' = inFlight + 1 /\ arrived' = arrived + 1
          /\ requests' = requests /\ errors' = errors /\ refused' = refused
      BY <2>2 DEF Start
    <3>5. /\ inFlight' = Cardinality(Inside')
          /\ requests' + inFlight' = arrived'
          /\ errors' <= requests'
          /\ refused' <= errors' + Cardinality(RefusedOnes')
      BY <2>0, <2>n, <2>c, <3>2, <3>3, <3>4, SMT
    <3> QED BY <3>5 DEF CountersInv
  <2>3. ASSUME NEW r \in Client, Allow(r) PROVE CountersInv'
    <3>1. Inside' = Inside
      BY <2>3 DEF Allow, Inside, IngressTypeOK
    <3>2. /\ UNCHANGED <<inFlight, requests, errors, arrived>>
          /\ \/ RefusedOnes' = RefusedOnes /\ refused' = refused
             \/ /\ r \notin RefusedOnes /\ RefusedOnes' = RefusedOnes \cup {r}
                /\ refused' = refused + 1
      BY <2>3 DEF Allow, RefusedOnes, IngressTypeOK, metricsVars
    <3>3. \/ Cardinality(RefusedOnes') = Cardinality(RefusedOnes) /\ refused' = refused
          \/ /\ Cardinality(RefusedOnes') = Cardinality(RefusedOnes) + 1
             /\ refused' = refused + 1
      BY <2>0, <3>2, OneComesOrGoes
    <3> QED BY <2>0, <3>1, <3>2, <3>3, SMT DEF CountersInv, IngressTypeOK
  <2>4. ASSUME NEW r \in Client, NEW failed \in BOOLEAN, Observe(r, failed),
               \/ step[r] = "refused" /\ failed
               \/ step[r] = "handling"
        PROVE CountersInv'
    <3>1. r \notin Inside' /\ Inside = Inside' \cup {r}
      BY <2>4 DEF Observe, Inside, IngressTypeOK
    <3>2. /\ Cardinality(Inside') \in Nat
          /\ Cardinality(Inside) = Cardinality(Inside') + 1
      <4>1. IsFiniteSet(Inside')
        BY <2>0, <3>1, FS_Subset
      <4> QED BY <3>1, <4>1, OneComesOrGoes
    <3>3. IsFiniteSet(RefusedOnes') /\ Cardinality(RefusedOnes') \in Nat
      <4>1. RefusedOnes' \subseteq RefusedOnes
        BY <2>4 DEF Observe, RefusedOnes, IngressTypeOK
      <4> QED BY <2>0, <4>1, FS_Subset, FS_CardinalityType
    <3>4. \/ RefusedOnes' = RefusedOnes
          \/ /\ failed
             /\ r \notin RefusedOnes' /\ RefusedOnes = RefusedOnes' \cup {r}
      BY <2>4 DEF Observe, RefusedOnes, IngressTypeOK
    <3>5. \/ Cardinality(RefusedOnes') = Cardinality(RefusedOnes)
          \/ failed /\ Cardinality(RefusedOnes) = Cardinality(RefusedOnes') + 1
      BY <3>3, <3>4, OneComesOrGoes
    <3>6. inFlight = Cardinality(Inside') + 1
      BY <3>2 DEF CountersInv
    <3>7. /\ inFlight' = Cardinality(Inside') /\ requests' = requests + 1
          /\ arrived' = arrived /\ refused' = refused
      BY <2>4, <3>2, <3>6, SMT DEF Observe, Decremented
    <3>8. \/ errors' = errors /\ ~failed
          \/ errors' = errors + 1
      BY <2>4 DEF Observe
    <3>9. CASE ~failed
      BY <2>0, <3>5, <3>6, <3>7, <3>8, <3>9, SMT DEF CountersInv, IngressTypeOK
    <3>10. CASE failed
      <4>1. errors' = errors + 1
        BY <2>4, <3>10 DEF Observe
      <4>2. Cardinality(RefusedOnes) <= Cardinality(RefusedOnes') + 1
        BY <3>3, <3>5, SMT
      <4>3. /\ inFlight' = Cardinality(Inside')
            /\ requests' + inFlight' = arrived'
            /\ errors' <= requests'
            /\ refused' <= errors' + Cardinality(RefusedOnes')
        BY <2>0, <2>n, <2>c, <3>2, <3>3, <3>6, <3>7, <4>1, <4>2, SMT
      <4> QED BY <4>3 DEF CountersInv
    <3> QED BY <3>9, <3>10
  <2>5. CASE IngressTick
    BY <2>1, <2>5 DEF IngressTick, metricsVars
  <2>6. CASE UNCHANGED ingressVars
    BY <2>1, <2>6 DEF ingressVars, metricsVars
  <2>7. ASSUME NEW r \in Client, EndRefused(r) \/ EndHandled(r) PROVE CountersInv'
    BY <2>4, <2>7 DEF EndRefused, EndHandled
  <2> QED BY <2>2, <2>3, <2>5, <2>6, <2>7 DEF IngressNext
<1>3. CountersInv => MetricsAddUp
  BY DEF CountersInv, MetricsAddUp, RefusedOnes
<1> QED BY <1>1, <1>2, <1>3, IngressTypeCorrect, PTL DEF IngressSpec

-----------------------------------------------------------------------------
(* The App.                                                                  *)

(* The variables of the App alone.                                           *)
lifeVars == <<phase, live, registered, server, caller, doorVars, handling,
              serverCtxDone, closedResources>>

(* App is the one closer, and it is not the builder (bootstrap.go:131-134).  *)
LEMMA AppIsCloser == App \in Closer /\ Closer = {App} /\ App # Builder
  BY ActorAssumption, AppAssumption

(* A step of the App is one of the runtime or leaves it alone                *)
(* (newProviderRuntime and the hooks of Build).                              *)
LEMMA StepOfRuntime == [AppNext]_allVars => [Next]_vars
<1> SUFFICES ASSUME AppNext PROVE [Next]_vars
  BY DEF allVars, vars
<1>1. CASE BuildStep
  BY <1>1 DEF BuildStep, Next
<1>2. CASE BuildContextEnds
  BY <1>2 DEF Next
<1>3. ASSUME NEW r \in Request, HandlerCalls(r) \/ HandlerCallReturns(r) PROVE [Next]_vars
  BY <1>3 DEF HandlerCalls, HandlerCallReturns, Next
<1>4. CASE CloseProvider \/ CleanupCtxEnds
  BY <1>4, AppIsCloser DEF CloseProvider, CleanupCtxEnds, CloserStep, Next
<1>5. CASE SignalArrives
  BY <1>5 DEF SignalArrives, BuildContextEnds, Next
<1>6. ASSUME NEW c \in Caller, Shutdown(c) PROVE [Next]_vars
  <2>1. CASE phase = "up"
    BY <1>6, <2>1 DEF Shutdown, BuildContextEnds, Next
  <2>2. CASE phase # "up"
    BY <1>6, <2>2 DEF Shutdown, vars, buildVars, closeVars
  <2> QED BY <2>1, <2>2
<1>7. CASE UNCHANGED vars
  BY <1>7
<1> QED BY <1>1, <1>2, <1>3, <1>4, <1>5, <1>6, <1>7
        DEF AppNext, Opening, OpenStore, OpenCache, OpenRouter, Open, Serving, ListenAndServe,
            ServerFails, ServerStopped, ListenReturns, LeaveServing, Accept, Limit,
            HandlerJoins, LoadEnds, HandlerEnds, ClockTicks,
            ShutdownReturns, ShutdownStep, StopHttp, HttpStopped, GrpcStopped, StopServer,
            ProviderClosed, CloseCache, CloseStore, CloseResource, ServerCtxEnds

(* A step of the App is one of the ingress or leaves it alone                *)
(* (Handler.instrument around the handlers).                                 *)
LEMMA StepOfIngress == [AppNext]_allVars => [IngressNext]_ingressVars
<1> SUFFICES ASSUME AppNext PROVE [IngressNext]_ingressVars
  BY DEF allVars, appVars
<1>1. ASSUME NEW r \in Request, Accept(r) \/ Limit(r) \/ HandlerEnds(r)
      PROVE  [IngressNext]_ingressVars
  BY <1>1 DEF Accept, Limit, HandlerEnds, IngressNext
<1>2. CASE ClockTicks
  BY <1>2 DEF ClockTicks, IngressNext
<1>3. CASE UNCHANGED ingressVars
  BY <1>3
<1> QED BY <1>1, <1>2, <1>3
        DEF AppNext, Opening, OpenStore, OpenCache, OpenRouter, Open, Serving, ListenAndServe,
            ServerFails, SignalArrives, GotoServer, ServerStopped, ListenReturns,
            LeaveServing, HandlerCalls, HandlerCallReturns, HandlerJoins, LoadEnds,
            BuildStep, appVars,
            Shutdown, ShutdownReturns, ShutdownStep, StopHttp, HttpStopped, GrpcStopped, StopServer,
            CloseProvider, ProviderClosed, CloseCache, CloseStore, CloseResource,
            ServerCtxEnds, CleanupCtxEnds

(* The composed system runs the provider runtime as its own module says.     *)
THEOREM AppRunsRuntime == AppSpec => Spec
<1>1. AppInit => Init
  BY DEF AppInit
<1> QED BY <1>1, StepOfRuntime, PTL DEF AppSpec, Spec

(* And the HTTP ingress.                                                     *)
THEOREM AppRunsIngress == AppSpec => IngressSpec
<1>1. AppInit => IngressInit
  BY DEF AppInit
<1> QED BY <1>1, StepOfIngress, PTL DEF AppSpec, IngressSpec

(* So what is proved of the two holds of the composed system: one close of   *)
(* the provider that leaves nothing open, nobody served after it, the limit  *)
(* of the rate, and the counters.                                            *)
THEOREM AppKeepsPromises ==
  AppSpec => [](CloseMeansClosed /\ RateIsLimited /\ MetricsAddUp) /\ NotServedAfterClose
  BY AppRunsRuntime, AppRunsIngress, ClosedForGood, NobodyServedLate, LimiterLimits,
     MetricsCount, PTL

-----------------------------------------------------------------------------
(* The phases before the servers, those of Shutdown, and its later ones.     *)
OpeningPhases == {"openStore", "openCache", "openRouter"}
CleanupPhases == {"provider", "cache", "store", "over"}
DrainedPhases == {"grpc"} \cup CleanupPhases
ClosingPhases == {"http"} \cup DrainedPhases
StoppingPhases == {"starting"} \cup ClosingPhases
Phases == OpeningPhases \cup {"up"} \cup StoppingPhases

AppTypeOK ==
  /\ phase \in Phases /\ live \in BOOLEAN
  /\ registered \subseteq {"store", "cache"}
  /\ server \in {"idle", "serving", "stopping", "returned"}
  /\ caller \in [Caller -> {"idle", "inside", "returned"}]
  /\ listening \subseteq Request /\ accepting \subseteq Request
  /\ handling \subseteq Request
  /\ serverCtxDone \in BOOLEAN

(* Shutdown and ListenAndServe: who has called what in which phase.          *)
CallersInv ==
  /\ \A c \in Caller : caller[c] # "idle" => phase \in StoppingPhases
  /\ \A c \in Caller : caller[c] = "returned" => phase = "over"
  /\ caller[Server] # "idle" => server \in {"stopping", "returned"}
  /\ server # "idle" =>
       phase \in {"up"} \cup StoppingPhases /\ (phase # "up" => ShutdownCalled)
  /\ server = "returned" => phase = "over" \/ \E c \in Caller \ {Server} : caller[c] # "idle"

(* Which listeners are open, which requests the servers still accept, and    *)
(* which handlers still run.                                                 *)
HandlersInv ==
  /\ server = "idle" => accepting = {} /\ handling = {}
  /\ server = "returned" => listening = {}
  /\ phase \in ClosingPhases => accepting \subseteq Rpc
  /\ phase \in DrainedPhases => accepting = {} /\ (handling \cap Client = {} \/ serverCtxDone)
  /\ phase \in CleanupPhases => handling \cap Rpc = {}

(* What is open and what was closed, cache first.                            *)
ResourcesInv ==
  /\ phase = "openStore" => registered = {}
  /\ phase = "openCache" => registered \subseteq {"store"}
  /\ phase \notin {"store", "over"} => closedResources = {}
  /\ phase = "store" => closedResources = registered \ {"store"}
  /\ phase = "over" => closedResources = registered

(* Close of the provider begins in its phase and is over when the cache is   *)
(* closed; nobody else asks for it before.                                   *)
ProviderInv ==
  /\ phase \notin CleanupPhases => pc[App] = "idle"
  /\ pc[App] = "idle" => ~closeRequested /\ ~closeAfterFinish /\ pc[Builder] \in BuildPC
  /\ closeOnce # "new" => closeRequested
  /\ phase \in {"cache", "store", "over"} /\ live /\ "cache" \in registered =>
       pc[App] \in {"returned", "timedOut"}

AppInv == AppTypeOK /\ CallersInv /\ HandlersInv /\ ResourcesInv /\ ProviderInv

USE DEF Phases, StoppingPhases, ClosingPhases, DrainedPhases, CleanupPhases, OpeningPhases

(* The phases come in the order of Phase (the close functions of Build and   *)
(* the body of shutdownOnce).                                                *)
LEMMA PhaseOrder ==
  ASSUME phase \in Phases
  PROVE  /\ Reached("up") <=> phase \in {"up"} \cup StoppingPhases
         /\ Reached("starting") <=> phase \in StoppingPhases
         /\ Reached("http") <=> phase \in ClosingPhases
         /\ Reached("grpc") <=> phase \in DrainedPhases
         /\ Reached("provider") <=> phase \in CleanupPhases
<1>1. DOMAIN Phase = 1..11
  BY DEF Phase
<1>2. /\ Phase[1] = "openStore" /\ Phase[2] = "openCache" /\ Phase[3] = "openRouter"
      /\ Phase[4] = "up" /\ Phase[5] = "starting" /\ Phase[6] = "http" /\ Phase[7] = "grpc"
      /\ Phase[8] = "provider" /\ Phase[9] = "cache" /\ Phase[10] = "store"
      /\ Phase[11] = "over"
  BY DEF Phase
<1>3. \A i, j \in 1..11 : Phase[i] = Phase[j] => i = j
  BY <1>2
<1>4. /\ PhaseNumber("openStore") = 1 /\ PhaseNumber("openCache") = 2
      /\ PhaseNumber("openRouter") = 3 /\ PhaseNumber("up") = 4
      /\ PhaseNumber("starting") = 5 /\ PhaseNumber("http") = 6 /\ PhaseNumber("grpc") = 7
      /\ PhaseNumber("provider") = 8 /\ PhaseNumber("cache") = 9
      /\ PhaseNumber("store") = 10 /\ PhaseNumber("over") = 11
  <2>1. \A i \in 1..11 : PhaseNumber(Phase[i]) = i
    BY <1>1, <1>3 DEF PhaseNumber
  <2> QED BY <1>2, <2>1
<1> QED BY <1>4 DEF Reached

(* The steps that only the runtime or the ingress takes leave the rest of    *)
(* the App alone.                                                            *)
Quiet ==
  \/ BuildStep
  \/ BuildContextEnds /\ UNCHANGED appVars
  \/ \E r \in Request : Limit(r) \/ HandlerCalls(r) \/ HandlerCallReturns(r)
  \/ ClockTicks \/ CloseProvider \/ CleanupCtxEnds

(* They do (Handler.instrument, providerRuntime).                            *)
LEMMA QuietSteps == Quiet => UNCHANGED lifeVars
  BY DEF Quiet, BuildStep, Limit, HandlerCalls, HandlerCallReturns, ClockTicks, CloseProvider,
         CleanupCtxEnds, lifeVars, appVars, buildOnly, serverVars, handlerVars

(* The invariant holds when Build begins.                                    *)
LEMMA AppInitially == AppInit => AppInv
<1> SUFFICES ASSUME AppInit PROVE AppInv
  OBVIOUS
<1> USE AppAssumption, AppIsCloser DEF AppInit
<1>1. AppTypeOK
  BY DEF AppTypeOK
<1>2. CallersInv
  BY DEF CallersInv
<1>3. HandlersInv
  BY DEF HandlersInv
<1>4. ResourcesInv
  BY DEF ResourcesInv
<1>5. ProviderInv
  BY DEF ProviderInv, Init, Actor, BuildPC
<1> QED BY <1>1, <1>2, <1>3, <1>4, <1>5 DEF AppInv

(* Build keeps it (bootstrap.go:60-180).                                     *)
LEMMA OpeningKeeps == AppInv /\ Opening => AppInv'
<1> SUFFICES ASSUME AppInv, Opening PROVE AppInv'
  OBVIOUS
<1> USE AppAssumption DEF AppInv
<1>1. ASSUME NEW p \in OpeningPhases, NEW resources \in SUBSET {"store", "cache"},
             NEW next \in Phases, Open(p, resources, next),
             \/ p = "openStore" /\ next = "openCache" /\ resources \subseteq {"store"}
             \/ p = "openStore" /\ next = "over" /\ resources = {}
             \/ p = "openCache" /\ next = "openRouter"
             \/ p = "openCache" /\ next = "store" /\ resources = {}
             \/ p = "openRouter" /\ next = "up"
             \/ p = "openRouter" /\ next = "provider"
      PROVE  AppInv'
  <2> USE <1>1 DEF Open, serverVars, doorVars, handlerVars, vars
  <2>1. AppTypeOK'
    BY DEF AppTypeOK
  <2>2. CallersInv'
    BY DEF CallersInv, ShutdownCalled
  <2>3. HandlersInv'
    BY DEF HandlersInv, CallersInv
  <2>4. ResourcesInv'
    BY DEF ResourcesInv
  <2>5. ProviderInv'
    BY DEF ProviderInv, ResourcesInv
  <2> QED BY <2>1, <2>2, <2>3, <2>4, <2>5
<1> QED BY <1>1 DEF Opening, OpenStore, OpenCache, OpenRouter

(* Handlers come and go, and wait for each other's loads, and keep it: a     *)
(* handler starts only where its server accepts (Handler.instrument).        *)
LEMMA HandlersKeep ==
  ASSUME AppInv, NEW r \in Request,
         \/ Accept(r) \/ HandlerEnds(r) \/ LoadEnds(r)
         \/ \E l \in Request : HandlerJoins(r, l)
  PROVE  AppInv'
<1> USE AppAssumption DEF AppInv
<1>1. /\ handling' \subseteq Request
      /\ handling' \subseteq handling \cup accepting
      /\ UNCHANGED <<phase, live, registered, server, caller, listening, accepting,
                     serverCtxDone, closedResources, vars>>
  BY DEF Accept, HandlerEnds, LoadEnds, HandlerJoins, handlerOnly, doorVars, buildOnly,
         AppTypeOK
<1>2. AppTypeOK'
  BY <1>1 DEF AppTypeOK
<1>3. CallersInv'
  BY <1>1 DEF CallersInv, ShutdownCalled
<1>4. HandlersInv'
  BY <1>1 DEF HandlersInv
<1>5. ResourcesInv'
  BY <1>1 DEF ResourcesInv
<1>6. ProviderInv'
  BY <1>1 DEF ProviderInv, vars
<1> QED BY <1>2, <1>3, <1>4, <1>5, <1>6

(* ListenAndServe keeps it (serveListeners).                                 *)
LEMMA ServingKeeps == AppInv /\ Serving => AppInv'
<1> SUFFICES ASSUME AppInv, Serving PROVE AppInv'
  OBVIOUS
<1> USE AppAssumption, PhaseOrder DEF AppInv, GotoServer, LeaveServing, handlerVars, buildOnly
<1>0. phase \in Phases
  BY DEF AppTypeOK
<1>1. /\ UNCHANGED <<phase, live, registered, caller, handling, serverCtxDone, closedResources>>
      /\ UNCHANGED <<pc, provider, closeRequested, calling, buildVars, closeVars>>
  BY DEF Serving, ListenAndServe, ServerFails, SignalArrives, ServerStopped, ListenReturns, vars,
         buildVars, closeVars
<1>2. AppTypeOK'
  BY <1>1 DEF Serving, ListenAndServe, ServerFails, SignalArrives, ServerStopped,
              ListenReturns, doorVars, AppTypeOK
<1>3. CallersInv'
  <2>1. CASE ListenAndServe
    BY <1>0, <1>1, <2>1 DEF ListenAndServe, CallersInv, ShutdownCalled
  <2>2. CASE ServerFails \/ SignalArrives
    BY <1>1, <2>2 DEF ServerFails, SignalArrives, CallersInv, ShutdownCalled
  <2>3. CASE ServerStopped
    BY <1>0, <1>1, <2>3 DEF ServerStopped, CallersInv, ShutdownCalled
  <2>4. CASE ListenReturns
    BY <1>1, <2>4 DEF ListenReturns, CallersInv, ShutdownCalled
  <2> QED BY <2>1, <2>2, <2>3, <2>4 DEF Serving
<1>4. HandlersInv'
  <2>1. CASE ListenAndServe
    BY <1>0, <1>1, <2>1 DEF ListenAndServe, HandlersInv
  <2>2. CASE ServerFails \/ SignalArrives
    BY <1>1, <2>2 DEF ServerFails, SignalArrives, doorVars, HandlersInv
  <2>3. CASE ServerStopped
    BY <1>0, <1>1, <2>3 DEF ServerStopped, HandlersInv
  <2>4. CASE ListenReturns
    BY <1>1, <2>4 DEF ListenReturns, HandlersInv, CallersInv
  <2> QED BY <2>1, <2>2, <2>3, <2>4 DEF Serving
<1>5. ResourcesInv'
  BY <1>1 DEF ResourcesInv
<1>6. ProviderInv'
  BY <1>1 DEF ProviderInv, buildVars, closeVars
<1> QED BY <1>2, <1>3, <1>4, <1>5, <1>6

(* Callers of Shutdown keep it: the first one leaves the phase of serving    *)
(* (App.Shutdown).                                                           *)
LEMMA CallersKeep ==
  ASSUME AppInv, NEW c \in Caller, Shutdown(c) \/ ShutdownReturns(c)
  PROVE  AppInv'
<1> USE AppAssumption DEF AppInv
<1>1. /\ UNCHANGED <<live, registered, server, listening, accepting, handling,
                     serverCtxDone, closedResources>>
      /\ UNCHANGED <<pc, closeRequested, closeAfterFinish, closeOnce>>
  BY DEF Shutdown, ShutdownReturns, doorVars, handlerVars, buildOnly, buildVars, closeVars, vars
<1>2. \/ phase' = phase
      \/ phase = "up" /\ phase' = "starting"
  BY DEF Shutdown, ShutdownReturns
<1>3. AppTypeOK'
  BY <1>1, <1>2 DEF Shutdown, ShutdownReturns, AppTypeOK
<1>4. CallersInv'
  <2>1. CASE Shutdown(c)
    <3>1. caller'[c] = "inside" /\ phase' \in StoppingPhases
      BY <2>1 DEF Shutdown, CallersInv, AppTypeOK, ShutdownCalled
    <3>2. \A d \in Caller : d # c => caller'[d] = caller[d]
      BY <2>1 DEF Shutdown, AppTypeOK
    <3> QED BY <1>1, <1>2, <2>1, <3>1, <3>2 DEF Shutdown, CallersInv, ShutdownCalled
  <2>2. CASE ShutdownReturns(c)
    BY <1>1, <2>2 DEF ShutdownReturns, CallersInv, AppTypeOK, ShutdownCalled
  <2> QED BY <2>1, <2>2
<1>5. HandlersInv'
  BY <1>1, <1>2 DEF HandlersInv
<1>6. ResourcesInv'
  BY <1>1, <1>2 DEF ResourcesInv
<1>7. ProviderInv'
  BY <1>1, <1>2 DEF ProviderInv
<1> QED BY <1>3, <1>4, <1>5, <1>6, <1>7

(* The body of shutdownOnce keeps it, but for Close of the provider          *)
(* (shutdownServers and the close functions of Build).                       *)
LEMMA ShutdownKeeps == AppInv /\ ShutdownStep /\ ~CloseProvider => AppInv'
<1> SUFFICES ASSUME AppInv, ShutdownStep, ~CloseProvider PROVE AppInv'
  OBVIOUS
<1> USE AppAssumption DEF AppInv
<1>1. ASSUME NEW from, NEW to, NEW stopped \in SUBSET Request, StopServer(from, to, stopped),
             \/ from = "starting" /\ to = "http" /\ stopped = Client
             \/ /\ from = "http" /\ to = "grpc" /\ stopped = Rpc
                /\ handling \cap Client = {} \/ serverCtxDone
             \/ /\ from = "grpc" /\ to = "provider" /\ stopped = {}
                /\ handling \cap Rpc = {}
      PROVE  AppInv'
  <2> USE <1>1 DEF StopServer, handlerVars, buildOnly, vars
  <2>1. AppTypeOK'
    BY DEF AppTypeOK
  <2>2. CallersInv'
    BY DEF CallersInv, ShutdownCalled
  <2>3. HandlersInv'
    BY DEF HandlersInv, AppTypeOK
  <2>4. ResourcesInv'
    BY DEF ResourcesInv
  <2>5. ProviderInv'
    BY DEF ProviderInv
  <2> QED BY <2>1, <2>2, <2>3, <2>4, <2>5
<1>2. CASE ProviderClosed
  <2> USE <1>2 DEF ProviderClosed, buildOnly, serverVars, doorVars, handlerVars, vars
  <2>1. AppTypeOK'
    BY DEF AppTypeOK
  <2>2. CallersInv'
    BY DEF CallersInv, ShutdownCalled
  <2>3. HandlersInv'
    BY DEF HandlersInv
  <2>4. ResourcesInv'
    BY DEF ResourcesInv
  <2>5. ProviderInv'
    BY DEF ProviderInv
  <2> QED BY <2>1, <2>2, <2>3, <2>4, <2>5
<1>3. CASE CloseCache \/ CloseStore
  <2>1. /\ UNCHANGED <<vars, live, registered, server, caller, listening, accepting, handling,
                       serverCtxDone>>
        /\ \/ /\ phase = "cache" /\ phase' = "store"
              /\ closedResources' = closedResources \cup (registered \cap {"cache"})
           \/ /\ phase = "store" /\ phase' = "over"
              /\ closedResources' = closedResources \cup (registered \cap {"store"})
    BY <1>3 DEF CloseCache, CloseStore, CloseResource, buildOnly, serverVars, doorVars,
                    handlerVars
  <2>2. AppTypeOK'
    BY <2>1 DEF AppTypeOK
  <2>3. CallersInv'
    BY <2>1 DEF CallersInv, ShutdownCalled
  <2>4. HandlersInv'
    BY <2>1 DEF HandlersInv
  <2>5. ResourcesInv'
    BY <2>1 DEF ResourcesInv, AppTypeOK
  <2>6. ProviderInv'
    BY <2>1 DEF ProviderInv, vars
  <2> QED BY <2>2, <2>3, <2>4, <2>5, <2>6
<1> QED BY <1>1, <1>2, <1>3 DEF ShutdownStep, StopHttp, HttpStopped, GrpcStopped

(* And the runtime keeps it: only App closes before the builder is told to   *)
(* (providerRuntime).                                                        *)
LEMMA QuietKeeps == AppInv /\ RuntimeInv /\ Quiet => AppInv'
<1> SUFFICES ASSUME AppInv, RuntimeInv, Quiet PROVE AppInv'
  OBVIOUS
<1>1. UNCHANGED lifeVars
  BY QuietSteps
<1>2. AppTypeOK' /\ CallersInv' /\ HandlersInv' /\ ResourcesInv'
  BY <1>1 DEF AppInv, lifeVars, doorVars, AppTypeOK, CallersInv, HandlersInv, ResourcesInv,
              ShutdownCalled
<1>3. ProviderInv'
  <2> USE AppIsCloser, <1>1 DEF AppInv, ProviderInv, lifeVars, At, Goto, buildVars, closeVars,
                                BuildPC, RuntimeInv, TypeOK
  <2>1. CASE UNCHANGED <<pc, closeRequested, closeAfterFinish, closeOnce>>
    BY <2>1
  <2>2. CASE Build
    BY <2>2 DEF Build, Check, FactoryReturns, FactoryReady, FactoryFails, FactoryCanceled,
                BackoffOver, Publish, Signal, Actor
  <2>3. CASE Close(Builder)
    BY <2>3 DEF Close, RequestClose, PollDone, AwaitDone, EnterOnce, LeaveOnce, PassOnce,
                RequestedInv, Admitted, Actor
  <2>4. CASE CloseProvider
    BY <2>4 DEF CloseProvider, CancelBuild, AwaitTimeout, Close, RequestClose, PollDone,
                AwaitDone, EnterOnce, LeaveOnce, PassOnce, RequestedInv, Admitted, Actor
  <2> QED BY <2>1, <2>2, <2>3, <2>4
          DEF Quiet, BuildStep, BuildContextEnds, Limit, HandlerCalls, HandlerCallReturns,
              CallProvider, CallReturns, ClockTicks, CleanupCtxEnds, CtxEnds, vars
<1> QED BY <1>2, <1>3 DEF AppInv

(* The invariant holds whenever the App runs, with that of the runtime.      *)
THEOREM AppInvariant == AppSpec => [](AppInv /\ RuntimeInv)
<1>1. AppInv /\ RuntimeInv /\ [AppNext]_allVars => AppInv'
  <2> SUFFICES ASSUME AppInv, RuntimeInv, [AppNext]_allVars PROVE AppInv'
    OBVIOUS
  <2>1. CASE Quiet
    BY <2>1, QuietKeeps
  <2>2. CASE ServerCtxEnds
    BY <2>2 DEF ServerCtxEnds, AppInv, AppTypeOK, CallersInv, HandlersInv, ResourcesInv,
                ProviderInv, ShutdownCalled, buildOnly, doorVars, handlerVars, vars
  <2>3. CASE UNCHANGED allVars
    BY <2>3 DEF allVars, appVars, buildOnly, serverVars, doorVars, handlerVars, vars, AppInv,
                AppTypeOK, CallersInv, HandlersInv, ResourcesInv, ProviderInv, ShutdownCalled
  <2>4. CASE ShutdownStep
    <3>1. CASE CloseProvider
      BY <2>1, <3>1 DEF Quiet
    <3> QED BY <2>4, <3>1, ShutdownKeeps
  <2> QED BY <2>1, <2>2, <2>3, <2>4, OpeningKeeps, HandlersKeep, ServingKeeps, CallersKeep
          DEF AppNext, Quiet
<1> QED BY <1>1, AppInitially, AppRunsRuntime, RuntimeInvariant, PTL DEF AppSpec

(* Nothing is taken away under a running handler that was not abandoned by a *)
(* timeout (stopGRPCServer and Shutdown, bootstrap.go:342-400).              *)
THEOREM HandlersAreSafe == AppSpec => []HandlersKeepResources
<1>1. AppInv /\ RuntimeInv => HandlersKeepResources
  <2> SUFFICES ASSUME AppInv, RuntimeInv, NEW r \in handling, r \in Rpc \/ ~serverCtxDone
               PROVE  upstream \notin {"closing", "closed"} /\ closedResources = {}
    BY DEF HandlersKeepResources
  <2>1. phase \notin CleanupPhases
    BY AppAssumption DEF AppInv, AppTypeOK, HandlersInv
  <2>2. closeOnce = "new"
    BY <2>1 DEF AppInv, ProviderInv, RuntimeInv, TypeOK
  <2> QED BY <2>1, <2>2 DEF AppInv, ResourcesInv, RuntimeInv, OnceInv
<1> QED BY <1>1, AppInvariant, PTL

(* Cache and store close after the provider, unless its close gave up, and   *)
(* whoever returns leaves open nothing that was opened (the order of         *)
(* closeFns, bootstrap.go:100-149).                                          *)
THEOREM ClosedInOrder == AppSpec => []ProviderBeforeStore
<1>1. AppInv /\ RuntimeInv => ProviderBeforeStore
  <2> SUFFICES ASSUME AppInv, RuntimeInv PROVE ProviderBeforeStore
    OBVIOUS
  <2>1. closedResources # {} => phase \in {"store", "over"}
    BY DEF AppInv, ResourcesInv
  <2>2. ASSUME closedResources # {}, live, "cache" \in registered
        PROVE closeRequested /\ (upstream \in {"none", "closed"} \/ pc[App] = "timedOut")
    <3>1. pc[App] \in {"returned", "timedOut"}
      BY <2>1, <2>2 DEF AppInv, ProviderInv
    <3> QED BY <3>1, AppIsCloser
            DEF RuntimeInv, TypeOK, RequestedInv, OnceInv, Admitted, Actor
  <2>3. "store" \in closedResources => registered = closedResources
    BY <2>1 DEF AppInv, ResourcesInv
  <2> QED BY <2>2, <2>3 DEF AppInv, ResourcesInv, CallersInv, ProviderBeforeStore
<1> QED BY <1>1, AppInvariant, PTL

(* ListenAndServe returns only when everything is closed, unless somebody    *)
(* else has called Shutdown, and never with a listener still open; once      *)
(* Shutdown has stopped the servers no request is served any more, over an   *)
(* old connection either (ListenAndServe and serveListeners,                 *)
(* bootstrap.go:299-340).                                                    *)
THEOREM NothingIsLeftServing == AppSpec => []ServeLeavesNothing
<1>1. AppInv => ServeLeavesNothing
  BY PhaseOrder DEF AppInv, AppTypeOK, CallersInv, HandlersInv, ServeLeavesNothing
<1> QED BY <1>1, AppInvariant, PTL
=============================================================================
