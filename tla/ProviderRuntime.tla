--------------------------- MODULE ProviderRuntime ---------------------------
(***************************************************************************)
(* The upstream provider that internal/bootstrap builds in the background: *)
(* runProviderFactoryUntilReady retries the factory, providerRuntime.finish *)
(* hands the result over, requests look it up, and Close waits for the     *)
(* build before it closes what was built.                                  *)
(*                                                                         *)
(* The goroutine of the build is Builder; it calls Close itself when it    *)
(* finishes late.  Closers are the other callers: the close hook that      *)
(* Build registers, which cancels the build first.  The provider and its   *)
(* close hook are set and cleared together and are one variable here; the  *)
(* error of the hook, which Close only passes on, is left out.             *)
(***************************************************************************)
EXTENDS Naturals, FiniteSets

CONSTANTS
  Builder,     \* the goroutine of runProviderFactoryUntilReady
  Closer,      \* callers of the close hook of bootstrap.go:131-134
  TimingOut,   \* the closers whose context may end while they wait
  Request      \* goroutines that call the provider

ASSUME ActorAssumption ==
  Builder \notin Closer /\ TimingOut \subseteq Closer

VARIABLES
  canceled,        \* whether providerCtx has ended
  pc,              \* where the builder and each closer is
  built,           \* whether the factory returned a provider and its close hook
  provider,        \* providerRuntime.provider # nil, and closeFn # nil with it
  closeRequested,
  closeAfterFinish,
  done,            \* whether the channel done is closed
  closeOnce,       \* the sync.Once of Close
  ctxDone,         \* whether the context of a closer's call has ended
  calling,         \* the requests inside a provider method
  upstream,        \* external: the provider that was built
  closeCalls       \* external: the calls of its close hook

buildVars == <<built, closeAfterFinish, done>>
closeVars == <<closeOnce, ctxDone, upstream, closeCalls>>
vars == <<canceled, pc, built, provider, closeRequested, closeAfterFinish, done,
          closeOnce, ctxDone, calling, upstream, closeCalls>>

Actor == Closer \cup {Builder}

BuildPC == {"checking", "building", "backoff", "finishing", "signaling", "ended"}
ClosePC == {"idle", "requesting", "polling", "waiting", "entering", "closing",
            "returned", "timedOut"}

Init ==
  /\ canceled = FALSE
  /\ pc = [a \in Actor |-> IF a = Builder THEN "checking" ELSE "idle"]
  /\ built = FALSE
  /\ provider = FALSE
  /\ closeRequested = FALSE
  /\ closeAfterFinish = FALSE
  /\ done = FALSE
  /\ closeOnce = "new"
  /\ ctxDone = [k \in Closer |-> FALSE]
  /\ calling = {}
  /\ upstream = "none"
  /\ closeCalls = 0

Goto(a, where) == pc' = [pc EXCEPT ![a] = where]

At(a, where) == pc[a] = where

-----------------------------------------------------------------------------
(* runProviderFactoryUntilReady: build, back off, build again. *)

Check ==
  /\ At(Builder, "checking")
  /\ Goto(Builder, IF canceled THEN "finishing" ELSE "building")
  /\ UNCHANGED <<canceled, provider, closeRequested, calling, buildVars, closeVars>>

(* The factory may succeed although its context has ended meanwhile.         *)
FactoryReady ==
  /\ At(Builder, "building")
  /\ built' = TRUE
  /\ upstream' = "open"
  /\ Goto(Builder, "finishing")
  /\ UNCHANGED <<canceled, provider, closeRequested, closeAfterFinish, done,
                 calling, closeOnce, ctxDone, closeCalls>>

FactoryFails ==
  /\ At(Builder, "building")
  /\ Goto(Builder, "backoff")
  /\ UNCHANGED <<canceled, provider, closeRequested, calling, buildVars, closeVars>>

(* The live factory returns the error of its context, and no other that wraps *)
(* context.Canceled or context.DeadlineExceeded (source.NewPool).             *)
FactoryCanceled ==
  /\ At(Builder, "building") /\ canceled
  /\ Goto(Builder, "finishing")
  /\ UNCHANGED <<canceled, provider, closeRequested, calling, buildVars, closeVars>>

(* The select of the back-off: the context ended, or the delay is over.      *)
BackoffOver ==
  /\ At(Builder, "backoff")
  /\ \/ canceled /\ Goto(Builder, "finishing")
     \/ Goto(Builder, "checking")
  /\ UNCHANGED <<canceled, provider, closeRequested, calling, buildVars, closeVars>>

-----------------------------------------------------------------------------
(* finish: publish under the lock, close the channel, then close what came   *)
(* too late.                                                                 *)

Publish_Forgets ==
  /\ At(Builder, "finishing")
  /\ provider' = built
  /\ closeAfterFinish' = FALSE
  /\ Goto(Builder, "signaling")
  /\ UNCHANGED <<canceled, built, closeRequested, done, calling, closeVars>>

Publish ==
  /\ At(Builder, "finishing")
  /\ provider' = built
  /\ closeAfterFinish' = (closeRequested /\ built)
  /\ Goto(Builder, "signaling")
  /\ UNCHANGED <<canceled, built, closeRequested, done, calling, closeVars>>

Signal ==
  /\ At(Builder, "signaling")
  /\ done' = TRUE
  /\ Goto(Builder, IF closeAfterFinish THEN "requesting" ELSE "ended")
  /\ UNCHANGED <<canceled, built, provider, closeRequested, closeAfterFinish,
                 calling, closeVars>>

-----------------------------------------------------------------------------
(* Close *)

(* The hook cancels providerCtx, then calls Close.                           *)
CancelBuild(k) ==
  /\ At(k, "idle")
  /\ canceled' = TRUE
  /\ Goto(k, "requesting")
  /\ UNCHANGED <<provider, closeRequested, calling, buildVars, closeVars>>

RequestClose(a) ==
  /\ At(a, "requesting")
  /\ closeRequested' = TRUE
  /\ Goto(a, "polling")
  /\ UNCHANGED <<canceled, provider, calling, buildVars, closeVars>>

(* The outer select: done wins over a context that has ended already.        *)
PollDone(a) ==
  /\ At(a, "polling")
  /\ Goto(a, IF done THEN "entering" ELSE "waiting")
  /\ UNCHANGED <<canceled, provider, closeRequested, calling, buildVars, closeVars>>

AwaitDone(a) ==
  /\ At(a, "waiting") /\ done
  /\ Goto(a, "entering")
  /\ UNCHANGED <<canceled, provider, closeRequested, calling, buildVars, closeVars>>

(* The inner select: with both channels ready, Go picks either.              *)
AwaitTimeout(k) ==
  /\ At(k, "waiting") /\ ctxDone[k]
  /\ Goto(k, "timedOut")
  /\ UNCHANGED <<canceled, provider, closeRequested, calling, buildVars, closeVars>>

(* The first caller takes the provider and its hook, and calls the hook.     *)
EnterOnce(a) ==
  /\ At(a, "entering") /\ closeOnce = "new"
  /\ closeOnce' = "running"
  /\ provider' = FALSE
  /\ IF provider
       THEN upstream' = "closing" /\ closeCalls' = closeCalls + 1
       ELSE UNCHANGED <<upstream, closeCalls>>
  /\ Goto(a, "closing")
  /\ UNCHANGED <<canceled, closeRequested, ctxDone, calling, buildVars>>

LeaveOnce(a) ==
  /\ At(a, "closing")
  /\ closeOnce' = "done"
  /\ upstream' = IF upstream = "closing" THEN "closed" ELSE upstream
  /\ Goto(a, "returned")
  /\ UNCHANGED <<canceled, provider, closeRequested, ctxDone, calling, closeCalls, buildVars>>

PassOnce_Early(a) ==
  /\ At(a, "entering") /\ closeOnce # "new"
  /\ Goto(a, "returned")
  /\ UNCHANGED <<canceled, provider, closeRequested, calling, buildVars, closeVars>>

(* sync.Once lets the others pass only when the first has finished.          *)
PassOnce(a) ==
  /\ At(a, "entering") /\ closeOnce = "done"
  /\ Goto(a, "returned")
  /\ UNCHANGED <<canceled, provider, closeRequested, calling, buildVars, closeVars>>

CtxEnds(k) ==
  /\ k \in TimingOut /\ ~ctxDone[k]
  /\ ctxDone' = [ctxDone EXCEPT ![k] = TRUE]
  /\ UNCHANGED <<canceled, pc, provider, closeRequested, calling, buildVars,
                 closeOnce, upstream, closeCalls>>

(* The context of Build ends, or App.Shutdown calls shutdownStartFn.         *)
BuildContextEnds ==
  /\ canceled' = TRUE
  /\ UNCHANGED <<pc, provider, closeRequested, calling, buildVars, closeVars>>

-----------------------------------------------------------------------------
(* Requests: current() under the lock, then the call without it.  A request  *)
(* that finds no provider returns ErrUpstreamUnavailable at once.            *)

current_Unchecked == provider

current == provider /\ ~closeRequested

CallProvider(r) ==
  /\ r \notin calling
  /\ current
  /\ calling' = calling \cup {r}
  /\ UNCHANGED <<canceled, pc, provider, closeRequested, buildVars, closeVars>>

CallReturns(r) ==
  /\ r \in calling
  /\ calling' = calling \ {r}
  /\ UNCHANGED <<canceled, pc, provider, closeRequested, buildVars, closeVars>>

-----------------------------------------------------------------------------

FactoryReturns == FactoryReady \/ FactoryFails \/ FactoryCanceled

Build == Check \/ FactoryReturns \/ BackoffOver \/ Publish \/ Signal

Close(a) ==
  \/ RequestClose(a) \/ PollDone(a) \/ AwaitDone(a)
  \/ EnterOnce(a) \/ LeaveOnce(a) \/ PassOnce(a)

CloserStep(k) == CancelBuild(k) \/ Close(k) \/ AwaitTimeout(k) \/ CtxEnds(k)

Next ==
  \/ Build
  \/ Close(Builder)
  \/ BuildContextEnds
  \/ \E k \in Closer : CloserStep(k)
  \/ \E r \in Request : CallProvider(r) \/ CallReturns(r)

Spec == Init /\ [][Next]_vars

(* Goroutines are scheduled; the factory returns because every dial it makes *)
(* times out, and the hook because Pool.Close returns when its context ends. *)
FairSpec ==
  /\ Spec
  /\ WF_vars(Build)
  /\ \A a \in Actor : WF_vars(Close(a))
  /\ \A k \in Closer : WF_vars(AwaitTimeout(k))

-----------------------------------------------------------------------------
(* Properties *)

(* The shape of the state, and the phases that go with each other: only the  *)
(* builder builds, and a provider exists exactly when one was built          *)
(* (provider_runtime.go:11-20).                                              *)
TypeOK ==
  /\ canceled \in BOOLEAN
  /\ pc \in [Actor -> BuildPC \cup ClosePC]
  /\ pc[Builder] \notin {"idle", "timedOut"}
  /\ \A k \in Closer : pc[k] \in ClosePC
  /\ built \in BOOLEAN /\ provider \in BOOLEAN
  /\ closeRequested \in BOOLEAN /\ closeAfterFinish \in BOOLEAN /\ done \in BOOLEAN
  /\ closeOnce \in {"new", "running", "done"}
  /\ ctxDone \in [Closer -> BOOLEAN]
  /\ calling \subseteq Request
  /\ upstream \in {"none", "open", "closing", "closed"}
  /\ (upstream # "none" <=> built) /\ (provider => built)
  /\ closeCalls \in Nat

(* The hook of the provider is called once, by whichever of the closers and  *)
(* the late builder enters the Once first, and never while the provider can  *)
(* still be published or looked up; and a Close that returns without its     *)
(* context's error leaves nothing open: the build is over and the hook of    *)
(* what it built has returned (provider_runtime.go:74-110).                  *)
CloseMeansClosed ==
  /\ closeCalls = IF upstream \in {"closing", "closed"} THEN 1 ELSE 0
  /\ upstream \in {"closing", "closed"} => done /\ ~provider
  /\ \A a \in Actor : At(a, "returned") => done /\ upstream \in {"none", "closed"}

(* No request reaches the provider once a Close has returned or given up,    *)
(* also when the build finishes after that (bootstrap_test.go:408).          *)
NotServedAfterClose ==
  [][\A r \in Request :
       r \notin calling /\ r \in calling' =>
         /\ upstream = "open"
         /\ \A k \in Closer : pc[k] \notin {"returned", "timedOut"}]_vars

(* A provider that is open when Close is requested gets closed, however the  *)
(* build and the callers of Close interleave.                                *)
ProviderGetsClosed == (closeRequested /\ upstream = "open") ~> upstream = "closed"

(* A provider that is built after a closer gave up is closed by the builder  *)
(* (finish, provider_runtime.go:33, 42-50).                                  *)
LateProviderGetsClosed ==
  (At(Builder, "finishing") /\ built /\ \E k \in Closer : At(k, "timedOut"))
    ~> upstream = "closed"

=============================================================================
