----------------------------- MODULE AppShutdown -----------------------------
(***************************************************************************)
(* The life of the App of internal/bootstrap, composed with the provider   *)
(* runtime and the HTTP ingress: Build opens store, cache and provider and *)
(* takes them back if it fails; ListenAndServe binds, serves and shuts     *)
(* down; Shutdown stops the servers and then runs the close functions of   *)
(* Build in reverse.  Requests are HTTP and gRPC handlers that may be      *)
(* inside the provider.  A gRPC handler may wait in cache.Group for the    *)
(* load of another handler; an HTTP handler, which may run for ever        *)
(* anyway, waits as one that does nothing.  The close hook of the runtime  *)
(* has one caller, App, and its context is the clean-up context.           *)
(***************************************************************************)
EXTENDS ProviderRuntime, HttpIngress

CONSTANTS
  App,        \* the one closer of the runtime
  Rpc,        \* the requests that come in by gRPC, not by HTTP as the Clients
  Caller,     \* goroutines that call Shutdown
  Server      \* the one of them that runs ListenAndServe

ASSUME AppAssumption ==
  /\ Closer = {App} /\ Server \in Caller
  /\ Request = Rpc \cup Client /\ Rpc \cap Client = {}

VARIABLES
  phase,          \* where Build and then the body of shutdownOnce are
  live,           \* ~Config.DisableLive
  registered,     \* the resources with a function in closeFns, the provider apart
  server,         \* where ListenAndServe is
  caller,         \* where each caller of Shutdown is
  listening,      \* the requests whose server has an open listener
  accepting,      \* those whose server serves requests, over new or old connections
  handling,       \* the requests with a running handler
  joined,         \* the pairs of a waiting gRPC handler and the one that loads for it
  serverCtxDone,  \* whether the context of the server shutdown has ended
  closedResources \* the closed ones of cache and store

buildOnly == <<live, registered>>
doorVars == <<listening, accepting>>
handlerVars == <<handling, joined>>
serverVars == <<server, caller, doorVars, handlerVars, serverCtxDone>>
appVars == <<phase, buildOnly, serverVars, closedResources, ingressVars>>
allVars == <<vars, appVars>>

Phase == <<"openStore", "openCache", "openRouter", "up", "starting", "http",
           "grpc", "provider", "cache", "store", "over">>

PhaseNumber(p) == CHOOSE i \in DOMAIN Phase : Phase[i] = p

Reached(p) == PhaseNumber(phase) >= PhaseNumber(p)

(* Whether Shutdown has been called; without it only a Build that failed     *)
(* gets past "up".                                                           *)
ShutdownCalled == \E c \in Caller : caller[c] # "idle"

AppInit ==
  /\ Init /\ IngressInit
  /\ phase = "openStore"
  /\ live \in BOOLEAN
  /\ registered = {}
  /\ server = "idle"
  /\ caller = [c \in Caller |-> "idle"]
  /\ listening = {} /\ accepting = {}
  /\ handling = {} /\ joined = {}
  /\ serverCtxDone = FALSE
  /\ closedResources = {}

-----------------------------------------------------------------------------
(* Build *)

Open(p, resources, next) ==
  /\ phase = p
  /\ phase' = next
  /\ registered' = registered \cup resources
  /\ UNCHANGED <<vars, live, serverVars, closedResources, ingressVars>>

(* A store in memory has nothing to close.                                   *)
OpenStore ==
  \/ Open("openStore", {"store"}, "openCache") \/ Open("openStore", {}, "openCache")
  \/ Open("openStore", {}, "over")

(* The cleanup closes what is registered, the latest first.                  *)
OpenCache ==
  \/ Open("openCache", {"cache"}, "openRouter")
  \/ Open("openCache", {}, "store")

OpenRouter ==
  Open("openRouter", {}, "up") \/ Open("openRouter", {}, "provider")

-----------------------------------------------------------------------------
(* Handlers *)

Waits(r) == \E p \in joined : p[1] = r

Leads(r) == \E p \in joined : p[2] = r

(* Past the limiter, and not waiting for somebody else's load.               *)
Works(r) == r \in handling /\ (r \in Client => step[r] = "handling") /\ ~Waits(r)

handlerOnly == UNCHANGED <<phase, buildOnly, server, caller, doorVars, serverCtxDone, closedResources>>

Accept(r) ==
  /\ r \in accepting \ handling
  /\ handling' = handling \cup {r}
  /\ IF r \in Client THEN Start(r) ELSE UNCHANGED ingressVars
  /\ UNCHANGED <<vars, joined>> /\ handlerOnly

Limit(r) ==
  /\ r \in Client /\ Allow(r)
  /\ UNCHANGED <<vars, phase, buildOnly, serverVars, closedResources>>

HandlerCalls(r) ==
  /\ Works(r)
  /\ live /\ CallProvider(r)
  /\ UNCHANGED appVars

HandlerCallReturns(r) == CallReturns(r) /\ UNCHANGED appVars

(* Whether stopGRPCServer has called Stop, which cancels gRPC handlers.      *)
Stopped == phase = "grpc" /\ serverCtxDone

(* Group.Do, which returns at once with a context that has ended, finds the  *)
(* key of r in the map: r waits for the WaitGroup of l, without its context. *)
HandlerJoins(r, l) ==
  /\ r \in Rpc \ calling /\ ~Stopped /\ Works(r) /\ ~Leads(r)
  /\ l # r /\ Works(l)
  /\ joined' = joined \cup {<<r, l>>}
  /\ UNCHANGED <<vars, ingressVars, handling>> /\ handlerOnly

(* The load is over, whatever came of it: wg.Done wakes everybody.           *)
LoadEnds(l) ==
  /\ Leads(l) /\ l \notin calling
  /\ joined' = {p \in joined : p[2] # l}
  /\ UNCHANGED <<vars, ingressVars, handling>> /\ handlerOnly

HandlerEnds(r) ==
  /\ r \in handling \ calling /\ ~Waits(r) /\ ~Leads(r)
  /\ handling' = handling \ {r}
  /\ IF r \in Client THEN EndRefused(r) \/ EndHandled(r)
     ELSE UNCHANGED ingressVars
  /\ UNCHANGED <<vars, joined>> /\ handlerOnly

ClockTicks ==
  /\ IngressTick
  /\ UNCHANGED <<vars, phase, buildOnly, serverVars, closedResources>>

-----------------------------------------------------------------------------
(* ListenAndServe *)

GotoServer(from, to) ==
  /\ server = from
  /\ server' = to
  /\ UNCHANGED <<phase, buildOnly, caller, handlerVars, serverCtxDone, closedResources, ingressVars>>

(* Both listeners are bound and the servers accept, unless they were shut    *)
(* down already.  An address in use leads to Shutdown; if it is that of gRPC *)
(* the HTTP listener is open meanwhile, but not served.                      *)
ListenAndServe ==
  /\ Reached("up") /\ (phase = "up" \/ ShutdownCalled)
  /\ \/ /\ GotoServer("idle", "serving")
        /\ accepting' = IF Reached("grpc") THEN {}
                        ELSE IF Reached("http") THEN Rpc ELSE Request
        /\ listening' = accepting'
     \/ /\ GotoServer("idle", "stopping")
        /\ listening' \in {{}, Client} /\ UNCHANGED accepting
  /\ UNCHANGED vars

LeaveServing_Undeferred(from) ==
  /\ GotoServer(from, "returned")
  /\ UNCHANGED <<vars, doorVars>>

(* ListenAndServe returns: the deferred calls close both listeners.  What is *)
(* connected to a server that was not shut down stays connected.             *)
LeaveServing(from) ==
  /\ GotoServer(from, "returned")
  /\ listening' = {}
  /\ UNCHANGED <<vars, accepting>>

(* A server fails on its own and listens no more: the error leads to         *)
(* Shutdown, which stops the other one.                                      *)
ServerFails ==
  /\ GotoServer("serving", "stopping")
  /\ \E failed \in {Client, Rpc} : listening' = listening \ failed
  /\ UNCHANGED <<vars, accepting>>

(* The signal ends the context of ListenAndServe and of Build.               *)
SignalArrives ==
  /\ GotoServer("serving", "stopping")
  /\ canceled' = TRUE
  /\ UNCHANGED <<doorVars, pc, provider, closeRequested, calling, buildVars, closeVars>>

(* Serve returns ErrServerClosed at once when somebody else calls Shutdown,  *)
(* and ListenAndServe does not wait for that call.                           *)
ServerStopped == Reached("http") /\ LeaveServing("serving")

ListenReturns == caller[Server] = "returned" /\ LeaveServing("stopping")

-----------------------------------------------------------------------------
(* Shutdown *)

(* The first caller enters shutdownOnce and calls shutdownStartFn; the       *)
(* others wait in the Once.                                                  *)
Shutdown(c) ==
  /\ caller[c] = "idle"
  /\ phase = "up" \/ ShutdownCalled
  /\ c = Server => server = "stopping"
  /\ caller' = [caller EXCEPT ![c] = "inside"]
  /\ IF phase = "up"
       THEN phase' = "starting" /\ canceled' = TRUE
       ELSE UNCHANGED <<phase, canceled>>
  /\ UNCHANGED <<pc, provider, closeRequested, calling, buildVars, closeVars, buildOnly,
                 server, doorVars, handlerVars, serverCtxDone, closedResources, ingressVars>>

ShutdownReturns(c) ==
  /\ caller[c] = "inside" /\ phase = "over"
  /\ caller' = [caller EXCEPT ![c] = "returned"]
  /\ UNCHANGED <<vars, phase, buildOnly, server, doorVars, handlerVars, serverCtxDone,
                 closedResources, ingressVars>>

(* A server that is shut down closes the listener it serves.                 *)
StopServer(from, to, stopped) ==
  /\ phase = from
  /\ phase' = to
  /\ accepting' = accepting \ stopped
  /\ listening' = listening \ (stopped \cap accepting)
  /\ UNCHANGED <<vars, buildOnly, server, caller, handlerVars, serverCtxDone,
                 closedResources, ingressVars>>

(* Server.Shutdown closes the listener at once.                              *)
StopHttp == StopServer("starting", "http", Client)

HttpStopped_OnlyDrained ==
  /\ handling \cap Client = {}
  /\ StopServer("http", "grpc", Rpc)

(* Server.Shutdown returns when the handlers have ended, or with the error   *)
(* of its context; then stopGRPCServer starts GracefulStop.                  *)
HttpStopped ==
  /\ handling \cap Client = {} \/ serverCtxDone
  /\ StopServer("http", "grpc", Rpc)

GrpcStopped_Abandons ==
  /\ handling \cap Rpc = {} \/ serverCtxDone
  /\ StopServer("grpc", "provider", {})

(* GracefulStop returns when the gRPC handlers have ended; Stop, after the   *)
(* context, only cancels them, and stopGRPCServer waits for GracefulStop,    *)
(* however long a handler waits for what its own context cannot end.         *)
GrpcStopped ==
  /\ handling \cap Rpc = {}
  /\ StopServer("grpc", "provider", {})

CloseProvider ==
  /\ phase = "provider" /\ live
  /\ CancelBuild(App) \/ Close(App) \/ AwaitTimeout(App)
  /\ UNCHANGED appVars

ProviderClosed_Unawaited ==
  /\ phase = "provider"
  /\ ~live \/ pc[App] # "idle"
  /\ phase' = "cache"
  /\ UNCHANGED <<vars, buildOnly, serverVars, closedResources, ingressVars>>

ProviderClosed ==
  /\ phase = "provider"
  /\ ~live \/ pc[App] \in {"returned", "timedOut"}
  /\ phase' = "cache"
  /\ UNCHANGED <<vars, buildOnly, serverVars, closedResources, ingressVars>>

CloseResource(p, next) ==
  /\ phase = p
  /\ phase' = next
  /\ closedResources' = closedResources \cup (registered \cap {p})
  /\ UNCHANGED <<vars, buildOnly, serverVars, ingressVars>>

CloseCache == CloseResource("cache", "store")

CloseStore == CloseResource("store", "over")

ServerCtxEnds ==
  /\ Reached("starting") /\ ~serverCtxDone
  /\ serverCtxDone' = TRUE
  /\ UNCHANGED <<vars, phase, buildOnly, server, caller, doorVars, handlerVars,
                 closedResources, ingressVars>>

(* The clean-up context starts when the servers have stopped; that of a      *)
(* Build that fails is its caller's.                                         *)
CleanupCtxEnds == Reached("provider") /\ CtxEnds(App) /\ UNCHANGED appVars

-----------------------------------------------------------------------------

Opening == OpenStore \/ OpenCache \/ OpenRouter

(* The goroutine of runProviderFactoryUntilReady is started by Build.        *)
BuildStep ==
  /\ live /\ "cache" \in registered
  /\ Build \/ Close(Builder)
  /\ UNCHANGED appVars

Serving ==
  ListenAndServe \/ ServerFails \/ SignalArrives \/ ServerStopped \/ ListenReturns

ShutdownStep ==
  \/ StopHttp \/ HttpStopped \/ GrpcStopped
  \/ CloseProvider \/ ProviderClosed \/ CloseCache \/ CloseStore

AppNext ==
  \/ Opening \/ Serving \/ BuildStep
  \/ BuildContextEnds /\ UNCHANGED appVars
  \/ \E r \in Request :
       \/ Accept(r) \/ Limit(r) \/ HandlerCalls(r) \/ HandlerCallReturns(r)
       \/ (\E l \in Request : HandlerJoins(r, l)) \/ LoadEnds(r) \/ HandlerEnds(r)
  \/ ClockTicks
  \/ \E c \in Caller : Shutdown(c) \/ ShutdownReturns(c)
  \/ ShutdownStep
  \/ ServerCtxEnds \/ CleanupCtxEnds

AppSpec == AppInit /\ [][AppNext]_allVars

(* Goroutines are scheduled.  Contexts with a timeout end; the hook that a   *)
(* late builder calls has a timeout as well.  A gRPC handler whose context   *)
(* Stop has cancelled makes finitely many calls, which return, ends the load *)
(* that it leads, joins no other, and ends; nothing ends its wait for a load *)
(* it has joined.  HTTP handlers, their loads and the factory may run for    *)
(* ever.                                                                     *)
FairAppSpec ==
  /\ AppSpec
  /\ WF_allVars(ShutdownStep)
  /\ WF_allVars(Shutdown(Server) \/ ShutdownReturns(Server) \/ ListenReturns)
  /\ WF_allVars((Publish \/ Signal \/ Close(Builder)) /\ UNCHANGED appVars)
  /\ WF_allVars(ServerCtxEnds \/ CleanupCtxEnds)
  /\ \A r \in Rpc :
       /\ WF_allVars(Stopped /\ HandlerCallReturns(r))
       /\ SF_allVars(Stopped /\ (LoadEnds(r) \/ HandlerEnds(r)))

-----------------------------------------------------------------------------
(* Properties *)

(* Nothing is taken away under a running handler: while one runs that was    *)
(* not abandoned by a timeout, the provider's hook has not been called and   *)
(* cache and store are open; gRPC handlers are never abandoned               *)
(* (stopGRPCServer and Shutdown, bootstrap.go:342-400).                      *)
HandlersKeepResources ==
  \A r \in handling :
    (r \in Rpc \/ ~serverCtxDone) =>
      upstream \notin {"closing", "closed"} /\ closedResources = {}

(* Cache and store close after the provider, unless its close gave up or     *)
(* Build failed before there was one, and whoever returns, a caller of       *)
(* Shutdown or a Build that failed, leaves open nothing that was opened (the *)
(* order of closeFns, bootstrap.go:100-149).                                 *)
ProviderBeforeStore ==
  /\ closedResources # {} /\ live /\ "cache" \in registered =>
       closeRequested /\ (upstream \in {"none", "closed"} \/ pc[App] = "timedOut")
  /\ "store" \in closedResources => registered = closedResources
  /\ phase = "over" => closedResources = registered
  /\ \A c \in Caller : caller[c] = "returned" => phase = "over"

(* ListenAndServe returns only when everything is closed, unless somebody    *)
(* else has called Shutdown and is at it, and in any case leaves no listener *)
(* open, also not one that no server took over; no server serves a request   *)
(* that comes in after Shutdown has stopped them, over an old connection     *)
(* either (ListenAndServe and serveListeners, bootstrap.go:299-340).         *)
ServeLeavesNothing ==
  /\ server = "returned" =>
       /\ phase = "over" \/ \E c \in Caller \ {Server} : caller[c] # "idle"
       /\ listening = {}
  /\ Reached("provider") => accepting = {}

(* Shutdown ends, even if HTTP handlers or the build of the provider never   *)
(* do, as long as no gRPC handler waits for ever for the load of an HTTP     *)
(* handler: that is the one wait which neither of the two timeouts bounds    *)
(* (stopGRPCServer, bootstrap.go:342-354; Group.Do, group.go:46).            *)
ShutdownCompletes ==
  (\A r \in Rpc, l \in Client : []<>(<<r, l>> \notin joined))
    => (phase = "starting" ~> phase = "over")

=============================================================================
