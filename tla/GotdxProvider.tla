---------------------------- MODULE GotdxProvider ----------------------------
(***************************************************************************)
(* The live provider of internal/provider/gotdx: NewLiveProvider, which    *)
(* selects hosts and builds one pool for each kind of data, the requests,  *)
(* which call upstream through the live client of a leased slot, and       *)
(* Close.  A pool is what LeasePool says of it: circuits and rotation are  *)
(* in SourcePool.  The client of a slot is used under its own mutex by the *)
(* holder of its lease, or by the pool, which disconnects it; withLiveMAC- *)
(* Client and withLiveClient are the same steps.                           *)
(***************************************************************************)
EXTENDS HostSelection, TradingDay

CONSTANTS
  PoolOrder,      \* the kinds in the order of NewLiveProvider and of Close
  ConfigHosts,    \* for each kind, the sequence of its hosts, defaults filled in
  ClientsPerHost, \* for each kind, the clients per host
  Worker,         \* goroutines that make requests
  Asked,          \* the kinds of data they ask for
  Reply,          \* what a MAC server may answer
  BarDays,        \* the sets of days that an answer with daily bars may have
  MaxPages        \* bounds the calls made with one lease

Kind == ToSet(PoolOrder)

(* A slot of a pool; every host has ClientsPerHost[k] of them in a row.  The *)
(* hosts that are not selected leave the last numbers unused.                *)
Slot == UNION {{k} \X (1..Len(ConfigHosts[k]) * ClientsPerHost[k]) : k \in Kind}

ASSUME ProviderAssumption ==
  /\ PoolOrder \in Seq(Kind) /\ PoolOrder # <<>>
  /\ IsInjective(PoolOrder) /\ "mac" \notin ToSet(Front(PoolOrder))
  /\ \A k \in Kind : ClientsPerHost[k] \in Nat \ {0}
  /\ \A k \in Kind : ConfigHosts[k] \in Seq(ToSet(ConfigHosts[k]))

(* The dates are numbers.  Those of a server are in order: the code relies   *)
(* on that when today is no trading day (tradingDayToDomain).                *)
ASSUME AnswerAssumption ==
  /\ \A r \in Reply : {r.today, r.last, r.last2} \subseteq Nat
  /\ \A r \in Reply : Parses(r) => r.last2 <= r.last /\ r.last <= r.today
  /\ \A days \in BarDays : days \subseteq Nat /\ IsFiniteSet(days)

VARIABLES
  build,        \* where NewLiveProvider is
  buildCtxDone, \* whether its context has ended
  kindNo,       \* the place in PoolOrder of the kind it works on
  slotNo,       \* the slot whose client NewPool creates next
  selected,     \* the hosts selected for each kind; gone once the pools are built
  reachable,    \* external: the hosts that could be reached when they were probed
  pool,         \* for each kind "absent", "building", "open", "closing" or "closed"
  clients,      \* the slots for which the factory returned a client
  connected,    \* the slots whose live client has c.client # nil
  opened,       \* external: upstream connections of a slot that are still open
  at,           \* where each worker is
  wants,        \* the kind it asks for
  held,         \* its leases, the last one taken last
  pages,        \* the calls it has made with the last lease
  ctxDone,      \* the workers whose context has ended
  day,          \* what GetTradingDay knows: reply, previous day, symbols tried
  closeAt,      \* 0, or the place in PoolOrder Close has come to
  closeCtxDone, \* whether the context of Close has ended
  closeErr,     \* whether Close has an error to return
  background    \* the kinds whose pool is drained in the background

buildVars == <<build, buildCtxDone, kindNo, slotNo, selected, reachable, clients>>
workVars  == <<at, wants, held, pages, ctxDone, day>>
closeVars == <<closeAt, closeCtxDone, closeErr, background>>
vars == <<buildVars, pool, connected, opened, workVars, closeVars>>

NoAnswer == [reply |-> [today |-> NoDay, last |-> NoDay, last2 |-> NoDay],
             previous |-> NoDay, tried |-> 0, heard |-> {}]

Init ==
  /\ build = "selecting" /\ buildCtxDone = FALSE /\ kindNo = 1 /\ slotNo = 1
  /\ selected = [k \in Kind |-> <<>>] /\ reachable = [k \in Kind |-> {}]
  /\ pool = [k \in Kind |-> "absent"]
  /\ clients = {} /\ connected = {} /\ opened = [s \in Slot |-> 0]
  /\ at = [w \in Worker |-> "idle"] /\ wants = [w \in Worker |-> "none"]
  /\ held = [w \in Worker |-> <<>>] /\ pages = [w \in Worker |-> 0]
  /\ ctxDone = {} /\ day = [w \in Worker |-> NoAnswer]
  /\ closeAt = 0 /\ closeCtxDone = FALSE /\ closeErr = FALSE /\ background = {}

-----------------------------------------------------------------------------
(* Connections.  connectLocked stores a new connection whatever was stored   *)
(* before; Disconnect of a client without one does nothing.                  *)

Connect(s) ==
  /\ connected' = connected \cup {s}
  /\ opened' = [opened EXCEPT ![s] = @ + 1]

Disconnect(slots) ==
  /\ connected' = connected \ slots
  /\ opened' = [s \in Slot |->
                  IF s \in slots \cap connected THEN opened[s] - 1 ELSE opened[s]]

-----------------------------------------------------------------------------
(* NewLiveProvider *)

kind == PoolOrder[kindNo]

hostsOf(k) == uniqueNonEmptyHosts(ConfigHosts[k])

(* The kind selectFor has selected the same hosts for before, if any.        *)
SelectedBefore(k) ==
  {j \in Kind \ {"mac"} : selected[j] # <<>> /\ hostsOf(j) = hostsOf(k)}

NextKindOr(next) ==
  IF kindNo = Len(PoolOrder)
    THEN build' = next /\ kindNo' = 1
    ELSE kindNo' = kindNo + 1 /\ UNCHANGED build

Select(hosts, reached) ==
  /\ selected' = [selected EXCEPT ![kind] = hosts]
  /\ reachable' = [reachable EXCEPT ![kind] = reached]
  /\ NextKindOr("creating")
  /\ UNCHANGED <<buildCtxDone, slotNo, clients, pool, connected, opened, workVars, closeVars>>

(* Probing opens and closes its own connections.                             *)
SelectHosts ==
  /\ build = "selecting"
  /\ IF kind = "mac" THEN Select(selectLimitedHosts(ConfigHosts[kind]), {})
     ELSE IF SelectedBefore(kind) # {}
       THEN \E j \in SelectedBefore(kind) : Select(selected[j], reachable[j])
     ELSE LET hosts == hostsOf(kind)
              Probed == IF NeedsProbe(hosts) /\ ~buildCtxDone
                          THEN SUBSET ToSet(hosts) ELSE {{}}
          IN  \E reached \in Probed : \E order \in Orders(reached) :
                Select(selectLiveHosts(hosts, buildCtxDone, order), reached)

ClientsOf(k) == {s \in clients : s[1] = k}

(* NewPool creates the client of a slot after one look at the context and    *)
(* keeps it after another; a dial that fails is skipped.                     *)
CreateClient ==
  LET s == <<kind, slotNo>> IN
  /\ build = "creating" /\ ~buildCtxDone
  /\ slotNo <= Len(selected[kind]) * ClientsPerHost[kind]
  /\ slotNo' = slotNo + 1
  /\ pool' = [pool EXCEPT ![kind] = "building"]
  /\ \/ UNCHANGED <<build, buildCtxDone, clients, connected, opened>>
     \/ Connect(s) /\ clients' = clients \cup {s} /\ UNCHANGED <<build, buildCtxDone>>
     \/ Connect(s) /\ buildCtxDone' = TRUE /\ build' = "failing" /\ UNCHANGED clients
  /\ UNCHANGED <<kindNo, selected, reachable, workVars, closeVars>>

AllCreated ==
  build = "creating" /\ slotNo > Len(selected[kind]) * ClientsPerHost[kind]

Forget ==
  /\ selected' = [k \in Kind |-> <<>>]
  /\ reachable' = [k \in Kind |-> {}]

PoolReady ==
  /\ AllCreated /\ ~buildCtxDone
  /\ ClientsOf(kind) # {}
  /\ pool' = [pool EXCEPT ![kind] = "open"]
  /\ slotNo' = 1
  /\ NextKindOr("ready")
  /\ IF kindNo = Len(PoolOrder) THEN Forget ELSE UNCHANGED <<selected, reachable>>
  /\ UNCHANGED <<buildCtxDone, clients, connected, opened, workVars, closeVars>>

(* NewPool gives up at every look at a context that has ended, or when it    *)
(* got no client at all.                                                     *)
PoolFails ==
  /\ \/ build = "creating" /\ buildCtxDone
     \/ AllCreated /\ ClientsOf(kind) = {}
  /\ build' = "failing"
  /\ UNCHANGED <<buildCtxDone, kindNo, slotNo, selected, reachable, clients, pool,
                 connected, opened, workVars, closeVars>>

(* closeInitializedClients, with the client that came too late, and Close of *)
(* the pools built before, from which nobody has leased.                     *)
CleanUp ==
  /\ build = "failing"
  /\ Disconnect(clients \cup {<<kind, slotNo - 1>>})
  /\ build' = "failed" /\ kindNo' = 1 /\ slotNo' = 1 /\ Forget
  /\ pool' = [k \in Kind |-> IF pool[k] = "absent" THEN "absent" ELSE "closed"]
  /\ UNCHANGED <<buildCtxDone, clients, workVars, closeVars>>

BuildCtxEnds ==
  /\ build \in {"selecting", "creating"} /\ ~buildCtxDone
  /\ buildCtxDone' = TRUE
  /\ UNCHANGED <<build, kindNo, slotNo, selected, reachable, clients, pool,
                 connected, opened, workVars, closeVars>>

-----------------------------------------------------------------------------
(* Requests *)

workUnchanged == UNCHANGED <<buildVars, pool, closeVars>>

Goto(w, where) == at' = [at EXCEPT ![w] = where]

Current(w) == Last(held[w])

Leased == UNION {ToSet(held[w]) : w \in Worker}

(* A kind without a pool of its own is served by the quote pool, but for MAC.*)
pickPool(k) == IF k \in Kind \/ k = "mac" THEN k ELSE "quote"

IsOpen(k) == k \in Kind /\ pool[k] = "open"

Request(w, k) ==
  /\ build = "ready" /\ at[w] = "idle"
  /\ Goto(w, "acquiring")
  /\ wants' = [wants EXCEPT ![w] = k]
  /\ UNCHANGED <<held, pages, ctxDone, day, connected, opened>> /\ workUnchanged

RequestCtxEnds(w) ==
  /\ at[w] # "idle" /\ w \notin ctxDone
  /\ ctxDone' = ctxDone \cup {w}
  /\ UNCHANGED <<at, wants, held, pages, day, connected, opened>> /\ workUnchanged

Acquire(w) ==
  /\ at[w] = "acquiring" /\ IsOpen(pickPool(wants[w])) /\ w \notin ctxDone
  /\ \E s \in ClientsOf(pickPool(wants[w])) \ Leased :
       held' = [held EXCEPT ![w] = Append(@, s)]
  /\ Goto(w, "entering")
  /\ pages' = [pages EXCEPT ![w] = 1]
  /\ UNCHANGED <<wants, ctxDone, day, connected, opened>> /\ workUnchanged

(* The request returns: every lease is released in a defer.                  *)
Return(w) ==
  /\ Goto(w, "idle")
  /\ wants' = [wants EXCEPT ![w] = "none"]
  /\ held' = [held EXCEPT ![w] = <<>>]
  /\ pages' = [pages EXCEPT ![w] = 0]
  /\ ctxDone' = ctxDone \ {w}
  /\ day' = [day EXCEPT ![w] = NoAnswer]

(* GetKLine has returned to inferPreviousTradingDayFromKLine with bars of    *)
(* these days, none if it failed: the next symbol, or the end of the loop.   *)
Infer(w, days) ==
  LET previous == previousTradingDayFromBars(day[w].reply.today, days)
      done == previous # NoDay \/ day[w].tried = CalendarSymbols
  IN  /\ day' = [day EXCEPT ![w] =
                   [reply |-> day[w].reply, previous |-> previous,
                    tried |-> day[w].tried + IF done THEN 0 ELSE 1,
                    heard |-> day[w].heard \cup days]]
      /\ Goto(w, IF done THEN "informed" ELSE "acquiring")
      /\ held' = [held EXCEPT ![w] = <<Head(@)>>]
      /\ pages' = [pages EXCEPT ![w] = 0]
      /\ UNCHANGED <<wants, ctxDone>>

Infers(w) == day[w].tried > 0

(* The call with the current lease, or the try to get one, has failed.       *)
CallFails(w) == IF Infers(w) THEN Infer(w, {}) ELSE Return(w)

Refused_OpenOnly(w) ==
  /\ at[w] = "acquiring" /\ w \in ctxDone
  /\ CallFails(w)
  /\ UNCHANGED <<connected, opened>> /\ workUnchanged

Refused(w) ==
  /\ at[w] = "acquiring"
  /\ ~IsOpen(pickPool(wants[w])) \/ w \in ctxDone
  /\ CallFails(w)
  /\ UNCHANGED <<connected, opened>> /\ workUnchanged

-----------------------------------------------------------------------------
(* withLiveClient: connect if there is no connection, call, and after an     *)
(* error or a panic reconnect and call once more.                            *)

(* The kinds of requests that call page by page with one lease.              *)
Paged == {"kline", "static"}

(* Before every page of bars the context is looked at.  Before a page of     *)
(* securities it is in fetchSecurityRange, which may fetch one or more of    *)
(* them, and not in GetFinance, which leases from the same pool.             *)
LookFails(w) ==
  /\ at[w] = "entering" /\ wants[w] \in Paged /\ w \in ctxDone
  /\ Goto(w, "failed")
  /\ UNCHANGED <<wants, held, pages, ctxDone, day, connected, opened>> /\ workUnchanged

EnterClient(w) ==
  LET s == Current(w) IN
  /\ at[w] = "entering" /\ (w \in ctxDone => wants[w] # "kline")
  /\ \/ s \in connected /\ Goto(w, "calling") /\ UNCHANGED <<connected, opened>>
     \/ s \notin connected /\ Connect(s) /\ Goto(w, "calling")
     \/ s \notin connected /\ Goto(w, "failed") /\ UNCHANGED <<connected, opened>>
  /\ UNCHANGED <<wants, held, pages, ctxDone, day>> /\ workUnchanged

Answers(w) ==
  /\ at[w] \in {"calling", "calling again"}
  /\ Goto(w, "answered")
  /\ UNCHANGED <<wants, held, pages, ctxDone, day, connected, opened>> /\ workUnchanged

FirstCallFails_KeepsConnection(w) ==
  /\ at[w] = "calling"
  /\ Goto(w, "reconnecting")
  /\ UNCHANGED <<wants, held, pages, ctxDone, day, connected, opened>> /\ workUnchanged

FirstCallFails(w) ==
  /\ at[w] = "calling"
  /\ Disconnect({Current(w)})
  /\ Goto(w, "reconnecting")
  /\ UNCHANGED <<wants, held, pages, ctxDone, day>> /\ workUnchanged

Reconnects(w) ==
  /\ at[w] = "reconnecting"
  /\ \/ Connect(Current(w)) /\ Goto(w, "calling again")
     \/ Goto(w, "failed") /\ UNCHANGED <<connected, opened>>
  /\ UNCHANGED <<wants, held, pages, ctxDone, day>> /\ workUnchanged

(* The connection is kept although its call failed.                          *)
SecondCallFails(w) ==
  /\ at[w] = "calling again"
  /\ Goto(w, "failed")
  /\ UNCHANGED <<wants, held, pages, ctxDone, day, connected, opened>> /\ workUnchanged

-----------------------------------------------------------------------------
(* After the call *)

(* ReportFailure, and the deferred Release.                                  *)
ReportFailure(w) ==
  /\ at[w] = "failed"
  /\ CallFails(w)
  /\ UNCHANGED <<connected, opened>> /\ workUnchanged

(* Another page is asked for with the same lease.                            *)
NextPage(w) ==
  /\ at[w] = "answered" /\ wants[w] \in Paged
  /\ pages[w] < MaxPages
  /\ pages' = [pages EXCEPT ![w] = @ + 1]
  /\ Goto(w, "entering")
  /\ UNCHANGED <<wants, held, ctxDone, day, connected, opened>> /\ workUnchanged

DataArrives(w) ==
  /\ at[w] = "answered" /\ Current(w)[1] # "mac"
  /\ IF Infers(w) THEN \E days \in BarDays : Infer(w, days) ELSE Return(w)
  /\ UNCHANGED <<connected, opened>> /\ workUnchanged

(* tradingDayToDomain and enrichPreviousTradingDay, which keeps the MAC      *)
(* lease while it asks for bars.                                             *)
MacAnswers(w) ==
  /\ at[w] = "answered" /\ Current(w)[1] = "mac"
  /\ \E reply \in Reply :
       IF ~Parses(reply) THEN Return(w)
       ELSE /\ day' = [day EXCEPT ![w] =
                         [reply |-> reply, previous |-> PreviousInReply(reply),
                          tried |-> IF LacksPrevious(reply) THEN 1 ELSE 0,
                          heard |-> {reply.last, reply.last2}]]
            /\ wants' = [wants EXCEPT ![w] = "kline"]
            /\ Goto(w, IF LacksPrevious(reply) THEN "acquiring" ELSE "informed")
            /\ UNCHANGED <<held, pages, ctxDone>>
  /\ UNCHANGED <<connected, opened>> /\ workUnchanged

ReturnDay(w) ==
  /\ at[w] = "informed"
  /\ Return(w)
  /\ UNCHANGED <<connected, opened>> /\ workUnchanged

-----------------------------------------------------------------------------
(* Close: one pool after the other, whatever the ones before returned.       *)

closeUnchanged == UNCHANGED <<buildVars, workVars>>

(* Every pool has stopped lending when its turn comes; a pool given in two   *)
(* places is closed once ("seen").                                           *)
TurnTo(n, pools) ==
  /\ closeAt' = n
  /\ pool' = IF n > Len(PoolOrder) THEN pools ELSE [pools EXCEPT ![PoolOrder[n]] = "closing"]

Closing == closeAt \in 1..Len(PoolOrder)

BeginClose ==
  /\ build = "ready" /\ closeAt = 0
  /\ TurnTo(1, pool)
  /\ UNCHANGED <<closeCtxDone, closeErr, background, connected, opened>> /\ closeUnchanged

CloseCtxEnds ==
  /\ Closing /\ ~closeCtxDone
  /\ closeCtxDone' = TRUE
  /\ UNCHANGED <<pool, connected, opened, closeAt, closeErr, background>> /\ closeUnchanged

Drained(k) == Leased \cap ClientsOf(k) = {}

ClosePool ==
  /\ Closing /\ ~closeCtxDone
  /\ Drained(PoolOrder[closeAt])
  /\ Disconnect(ClientsOf(PoolOrder[closeAt]))
  /\ TurnTo(closeAt + 1, [pool EXCEPT ![PoolOrder[closeAt]] = "closed"])
  /\ UNCHANGED <<closeCtxDone, closeErr, background>> /\ closeUnchanged

PoolTimesOut_Abandons ==
  /\ Closing /\ closeCtxDone
  /\ closeErr' = TRUE
  /\ TurnTo(closeAt + 1, pool)
  /\ UNCHANGED <<closeCtxDone, background, connected, opened>> /\ closeUnchanged

(* scheduleBackgroundCloseLocked; the first error is kept.                   *)
PoolTimesOut ==
  /\ Closing /\ closeCtxDone
  /\ background' = background \cup {PoolOrder[closeAt]}
  /\ closeErr' = TRUE
  /\ TurnTo(closeAt + 1, pool)
  /\ UNCHANGED <<closeCtxDone, connected, opened>> /\ closeUnchanged

BackgroundClose(k) ==
  /\ k \in background /\ Drained(k)
  /\ background' = background \ {k}
  /\ Disconnect(ClientsOf(k))
  /\ pool' = [pool EXCEPT ![k] = "closed"]
  /\ UNCHANGED <<closeAt, closeCtxDone, closeErr>> /\ closeUnchanged

-----------------------------------------------------------------------------

BuildStep == SelectHosts \/ CreateClient \/ PoolReady \/ PoolFails \/ CleanUp

CallStep(w) ==
  \/ LookFails(w) \/ EnterClient(w) \/ Answers(w) \/ FirstCallFails(w) \/ Reconnects(w)
  \/ SecondCallFails(w)

WorkStep(w) ==
  \/ Acquire(w) \/ Refused(w) \/ CallStep(w) \/ ReportFailure(w)
  \/ NextPage(w) \/ DataArrives(w) \/ MacAnswers(w) \/ ReturnDay(w)

CloseStep == ClosePool \/ PoolTimesOut \/ \E k \in Kind : BackgroundClose(k)

Next ==
  \/ BuildStep \/ BuildCtxEnds
  \/ \E w \in Worker :
       \/ \E k \in Asked : Request(w, k)
       \/ RequestCtxEnds(w) \/ WorkStep(w)
  \/ BeginClose \/ CloseCtxEnds \/ CloseStep

Spec == Init /\ [][Next]_vars

(* Goroutines are scheduled, and upstream calls and dials return because     *)
(* they have timeouts.                                                       *)
FairSpec ==
  /\ Spec
  /\ \A w \in Worker : WF_vars(WorkStep(w))
  /\ WF_vars(ClosePool \/ PoolTimesOut)
  /\ \A k \in Kind : WF_vars(BackgroundClose(k))

-----------------------------------------------------------------------------
(* Properties *)

(* The pools get hosts that are configured, each once, no more than MaxHosts *)
(* and one at least if one is configured; a pool is built on a host that     *)
(* could not be reached only if no host could, and pools with the same hosts *)
(* are built on the same choice (selectFor, selectLiveHosts,                 *)
(* provider.go:399-486).                                                     *)
HostsChosen ==
  build = "creating" =>
    \A k \in Kind :
      LET chosen == ToSet(selected[k])
          configured == ToSet(ConfigHosts[k]) \ {NoHost}
      IN  /\ chosen \subseteq configured
          /\ configured # {} => chosen # {}
          /\ Cardinality(chosen) = Len(selected[k])
          /\ MaxHosts > 0 => Len(selected[k]) <= MaxHosts
          /\ reachable[k] # {} => chosen \subseteq reachable[k]
          /\ \A j \in Kind \ {"mac"} :
               k # "mac" /\ hostsOf(j) = hostsOf(k) => selected[j] = selected[k]

(* No connection is lost track of: a slot has one open connection if its     *)
(* client holds one and none otherwise, also while it reconnects; there is   *)
(* none in a pool that is closed, or left by a construction that failed; and *)
(* nobody uses a client of a closed pool, nor does a Close that returns      *)
(* without an error leave a connection (liveClient, provider.go:498-594;     *)
(* NewPool and finishClose, pool.go:217-284, 493-577).                       *)
ConnectionsOwned ==
  /\ \A s \in Slot : opened[s] = IF s \in connected THEN 1 ELSE 0
  /\ \A s \in connected : pool[s[1]] \in {"building", "open", "closing"}
  /\ build = "failed" => connected = {}
  /\ \A s \in Leased : pool[s[1]] \in {"open", "closing"}
  /\ closeAt > Len(PoolOrder) /\ ~closeErr => connected = {}

(* The previous trading day that is returned is the latest day before today  *)
(* that the reply or the bars named, and it is missing only when none of the *)
(* three symbols had an earlier bar (trading_day.go:49-128).                 *)
PreviousDayIsLatest ==
  \A w \in Worker :
    at[w] = "informed" =>
      LET d == day[w]
          earlier == {e \in d.heard : e # NoDay /\ e < d.reply.today}
      IN  /\ d.previous = IF earlier = {} THEN NoDay ELSE Max(earlier)
          /\ d.previous = NoDay => d.tried = CalendarSymbols

(* Once Close has begun every request returns, the one that holds a MAC      *)
(* lease while it waits for bars too: the pools it waits for refuse it       *)
(* (trading_day.go:19-36, 88-98).                                            *)
RequestsReturn ==
  \A w \in Worker : (closeAt > 0 /\ at[w] # "idle") ~> at[w] = "idle"

(* After Close every connection gets closed, also when its context ended     *)
(* while leases were out (Provider.Close, provider.go:997-1022).             *)
ConnectionsGetClosed == closeAt > 0 ~> opened = [s \in Slot |-> 0]

=============================================================================
