---------------------------- MODULE HttpIngress ----------------------------
(***************************************************************************)
(* What every HTTP request passes in internal/api/http before and after    *)
(* its handler: Handler.instrument, the token bucket of RateLimiter and    *)
(* the counters of Metrics.  Requests share both, each behind its mutex.   *)
(* Time is counted so that one unit of tokens arrives per tick and a token *)
(* is Scale units; the rounding of the float64 is left out.                *)
(***************************************************************************)
EXTENDS Naturals, FiniteSets

CONSTANTS
  Client,      \* goroutines that serve HTTP requests, one request after another
  Burst,       \* RateLimitConfig.Burst with its default filled in
  Scale,
  MaxTime,     \* bounds the clock
  MaxArrivals  \* bounds the requests

ASSUME IngressAssumption ==
  /\ IsFiniteSet(Client)
  /\ Burst \in Nat \ {0} /\ Scale \in Nat \ {0} /\ MaxTime \in Nat
  /\ MaxArrivals \in Nat

VARIABLES
  step,        \* where each client's request is
  tokens,      \* RateLimiter.tokens, in units
  lastRefill,
  now,
  inFlight,    \* Metrics.inFlight
  requests,    \* the requests of all routes, as Snapshot sums them up
  errors,      \* those of them with a status of 400 or more
  arrived,     \* the requests that have come in
  refused,     \* the requests that were answered with 429
  spent,       \* the units given away
  spentBefore  \* spentBefore[t]: those given away before time t

limiterVars == <<tokens, lastRefill, now, spent, spentBefore>>
metricsVars == <<inFlight, requests, errors>>
ingressVars == <<step, arrived, refused, limiterVars, metricsVars>>

Capacity == Burst * Scale

IngressInit ==
  /\ step = [r \in Client |-> "out"]
  /\ tokens = Capacity /\ lastRefill = 0 /\ now = 0
  /\ inFlight = 0 /\ requests = 0 /\ errors = 0
  /\ arrived = 0 /\ refused = 0
  /\ spent = 0 /\ spentBefore = [t \in {0} |-> 0]

IngressTick ==
  /\ now < MaxTime
  /\ now' = now + 1
  /\ spentBefore' = [t \in 0..(now + 1) |-> IF t <= now THEN spentBefore[t] ELSE spent]
  /\ UNCHANGED <<step, arrived, refused, tokens, lastRefill, spent, metricsVars>>

-----------------------------------------------------------------------------
(* Handler.instrument *)

Start(r) ==
  /\ step[r] = "out" /\ arrived < MaxArrivals
  /\ arrived' = arrived + 1
  /\ inFlight' = inFlight + 1
  /\ step' = [step EXCEPT ![r] = "started"]
  /\ UNCHANGED <<refused, requests, errors, limiterVars>>

Refilled_Uncapped == tokens + (now - lastRefill)

Refilled ==
  IF tokens + (now - lastRefill) > Capacity THEN Capacity
  ELSE tokens + (now - lastRefill)

(* RateLimiter.Allow; a request that is refused is answered without its      *)
(* handler.                                                                  *)
Allow(r) ==
  /\ step[r] = "started"
  /\ lastRefill' = now
  /\ IF Refilled >= Scale
       THEN /\ tokens' = Refilled - Scale
            /\ spent' = spent + Scale
            /\ step' = [step EXCEPT ![r] = "handling"]
            /\ UNCHANGED refused
       ELSE /\ tokens' = Refilled
            /\ step' = [step EXCEPT ![r] = "refused"]
            /\ refused' = refused + 1
            /\ UNCHANGED spent
  /\ UNCHANGED <<now, arrived, spentBefore, metricsVars>>

Decremented == IF inFlight = 0 THEN 0 ELSE inFlight - 1

(* The deferred call of done, for a refused request too.  A handler that     *)
(* panics has written no status and is counted with 200.                     *)
Observe(r, failed) ==
  /\ inFlight' = Decremented
  /\ requests' = requests + 1
  /\ errors' = IF failed THEN errors + 1 ELSE errors
  /\ step' = [step EXCEPT ![r] = "out"]
  /\ UNCHANGED <<arrived, refused, limiterVars>>

EndRefused_Undeferred(r) ==
  /\ step[r] = "refused"
  /\ step' = [step EXCEPT ![r] = "out"]
  /\ UNCHANGED <<arrived, refused, limiterVars, metricsVars>>

EndRefused(r) == step[r] = "refused" /\ Observe(r, TRUE)

EndHandled(r) == step[r] = "handling" /\ \E failed \in BOOLEAN : Observe(r, failed)

-----------------------------------------------------------------------------

IngressNext ==
  \/ IngressTick
  \/ \E r \in Client : Start(r) \/ Allow(r) \/ EndRefused(r) \/ EndHandled(r)

IngressSpec == IngressInit /\ [][IngressNext]_ingressVars

-----------------------------------------------------------------------------
(* Properties *)

Inside == {r \in Client : step[r] # "out"}

(* However the requests come in, no stretch of time that ends now has let    *)
(* more of them through than the burst and what the rate gives for its       *)
(* length (RateLimiter.Allow, limiter.go:47-67).                             *)
RateIsLimited ==
  \A t \in 0..now : spent - spentBefore[t] <= Capacity + (now - t)

(* The counters are those of the requests: in flight are the ones between    *)
(* start and the deferred done, so that the clamp at zero is never needed,   *)
(* counted is every other one that came in, the refused ones as errors       *)
(* (metrics.go:87-135, handler.go:86-105).                                   *)
MetricsAddUp ==
  /\ inFlight = Cardinality(Inside)
  /\ requests + inFlight = arrived
  /\ errors <= requests
  /\ refused <= errors + Cardinality({r \in Client : step[r] = "refused"})

=============================================================================
