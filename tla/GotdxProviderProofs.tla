------------------------ MODULE GotdxProviderProofs ------------------------
(***************************************************************************)
(* Proofs about GotdxProvider for any kinds, hosts, workers, answers and   *)
(* bounds: no connection is lost track of (ConnectionsOwned), pools are    *)
(* built on the hosts that were selected for them (HostsChosen), and the   *)
(* previous trading day is the latest that is known (PreviousDayIsLatest). *)
(***************************************************************************)
EXTENDS GotdxProvider, SubsequencesProofs

AnySlot == Kind \X Nat

Inside == {"entering", "calling", "calling again", "reconnecting", "failed", "answered", "informed"}

(* The variables have their types.                                           *)
ProviderTypeOK ==
  /\ build \in {"selecting", "creating", "ready", "failing", "failed"}
  /\ kindNo \in 1..Len(PoolOrder) /\ slotNo \in Nat \ {0}
  /\ pool \in [Kind -> {"absent", "building", "open", "closing", "closed"}]
  /\ clients \subseteq AnySlot /\ connected \subseteq AnySlot
  /\ opened = [s \in Slot |-> IF s \in connected THEN 1 ELSE 0]
  /\ at \in [Worker -> {"idle", "acquiring"} \cup Inside]
  /\ held \in [Worker -> Seq(AnySlot)]
  /\ DOMAIN day = Worker
  /\ closeAt \in 0..(Len(PoolOrder) + 1) /\ closeErr \in BOOLEAN
  /\ background \subseteq Kind

(* How far the construction has come: pools before the one it works on are   *)
(* open, those after it absent, and the slots it has yet to fill are new.    *)
Constructing == build \in {"creating", "failing"}

BuildInv ==
  /\ build = "selecting" =>
       clients = {} /\ connected = {} /\ slotNo = 1 /\ \A k \in Kind : pool[k] = "absent"
  /\ Constructing =>
       /\ \A i \in 1..Len(PoolOrder) :
            /\ i < kindNo => pool[PoolOrder[i]] = "open"
            /\ i = kindNo => pool[PoolOrder[i]] \in {"absent", "building"}
            /\ i > kindNo => pool[PoolOrder[i]] = "absent"
       /\ \A s \in clients \cup connected :
            pool[s[1]] # "absent" /\ (s[1] = kind => s[2] < slotNo)
  /\ build \in {"creating", "ready"} => connected \subseteq clients
  /\ build = "failing" => connected \subseteq clients \cup {<<kind, slotNo - 1>>}
  /\ build = "failed" => connected = {}
  /\ build # "ready" =>
       closeAt = 0 /\ background = {} /\ \A w \in Worker : at[w] = "idle"

(* Which leases are out: they are of clients of pools that are not closed,   *)
(* each of one worker and of one place in its row.                           *)
Fits(w) ==
  /\ at[w] = "idle" => held[w] = <<>>
  /\ at[w] \in Inside \/ Infers(w) => held[w] # <<>>
  /\ at[w] = "reconnecting" => Current(w) \notin connected

LeasesInv ==
  /\ \A w \in Worker : Fits(w)
  /\ \A w \in Worker : \A i \in DOMAIN held[w] :
       held[w][i] \in clients /\ pool[held[w][i][1]] \in {"open", "closing"}
  /\ \A v, w \in Worker : \A i \in DOMAIN held[v], j \in DOMAIN held[w] :
       held[v][i] = held[w][j] => v = w /\ i = j

(* How far Close has come: the pools before its place are closed, or are     *)
(* being drained in the background.                                          *)
ClosingInv ==
  /\ build = "ready" =>
       \A i \in 1..Len(PoolOrder) :
         /\ closeAt < i => pool[PoolOrder[i]] = "open"
         /\ closeAt = i => pool[PoolOrder[i]] = "closing" /\ PoolOrder[i] \notin background
         /\ closeAt > i =>
              \/ pool[PoolOrder[i]] = "closed"
              \/ pool[PoolOrder[i]] = "closing" /\ PoolOrder[i] \in background /\ closeErr
  /\ \A k \in background : pool[k] = "closing"
  /\ \A s \in connected : pool[s[1]] # "closed"

SlotInv == ProviderTypeOK /\ BuildInv /\ LeasesInv /\ ClosingInv

(* Every kind has one place in the order (NewLiveProvider).                  *)
LEMMA Places ==
  /\ Len(PoolOrder) \in Nat \ {0}
  /\ \A i \in 1..Len(PoolOrder) : PoolOrder[i] \in Kind
  /\ \A i, j \in 1..Len(PoolOrder) : PoolOrder[i] = PoolOrder[j] => i = j
  /\ \A k \in Kind : \E i \in 1..Len(PoolOrder) : PoolOrder[i] = k
  BY ProviderAssumption DEF IsInjective, Kind, ToSet

(* A lease that is out is in somebody's row.                                 *)
LEMMA LeasedIs ==
  ASSUME ProviderTypeOK
  PROVE  \A s : s \in Leased <=> \E w \in Worker : \E i \in DOMAIN held[w] : held[w][i] = s
  BY DEF Leased, ToSet

(* In the beginning there is nothing.                                        *)
LEMMA SlotInitially == Init => SlotInv
<1> SUFFICES ASSUME Init PROVE SlotInv
  OBVIOUS
<1> USE DEF Init
<1>1. opened = [s \in Slot |-> IF s \in connected THEN 1 ELSE 0]
  OBVIOUS
<1>2. DOMAIN day = Worker /\ at \in [Worker -> {"idle", "acquiring"} \cup Inside]
  OBVIOUS
<1>3. held \in [Worker -> Seq(AnySlot)]
  OBVIOUS
<1>4. ProviderTypeOK
  <2>1. kindNo \in 1..Len(PoolOrder) /\ slotNo \in Nat \ {0} /\ closeAt \in 0..(Len(PoolOrder) + 1)
    BY Places
  <2>2. pool \in [Kind -> {"absent", "building", "open", "closing", "closed"}]
    OBVIOUS
  <2>. QED BY <1>1, <1>2, <1>3, <2>1, <2>2 DEF ProviderTypeOK
<1>5. BuildInv
  BY DEF BuildInv, Constructing
<1>6. LeasesInv
  BY DEF LeasesInv, Fits, Inside, Infers, NoAnswer
<1>7. ClosingInv
  BY DEF ClosingInv
<1>. QED BY <1>4, <1>5, <1>6, <1>7 DEF SlotInv

-----------------------------------------------------------------------------
(* Construction.                                                             *)

(* A choice of hosts changes nothing but how far the choosing has come.      *)
LEMMA SelectIs ==
  ASSUME SelectHosts
  PROVE  /\ build = "selecting"
         /\ \/ kindNo = Len(PoolOrder) /\ build' = "creating" /\ kindNo' = 1
            \/ kindNo # Len(PoolOrder) /\ build' = build /\ kindNo' = kindNo + 1
         /\ UNCHANGED <<buildCtxDone, slotNo, clients, pool, connected, opened, workVars, closeVars>>
<1>1. ASSUME NEW hosts, NEW reached, Select(hosts, reached)
      PROVE  /\ \/ kindNo = Len(PoolOrder) /\ build' = "creating" /\ kindNo' = 1
                \/ kindNo # Len(PoolOrder) /\ build' = build /\ kindNo' = kindNo + 1
             /\ UNCHANGED <<buildCtxDone, slotNo, clients, pool, connected, opened, workVars, closeVars>>
  BY <1>1 DEF Select, NextKindOr
<1>2. \E hosts, reached : Select(hosts, reached)
  BY DEF SelectHosts
<1>3. build = "selecting"
  BY DEF SelectHosts
<1>. QED BY <1>1, <1>2, <1>3

(* A new connection of a client without one is its only one (connectLocked). *)
LEMMA ConnectCounts ==
  ASSUME ProviderTypeOK, NEW s \in AnySlot, s \notin connected, Connect(s)
  PROVE  /\ connected' = connected \cup {s} /\ connected' \subseteq AnySlot
         /\ opened' = [x \in Slot |-> IF x \in connected' THEN 1 ELSE 0]
<1>1. connected' = connected \cup {s} /\ connected' \subseteq AnySlot
  BY DEF Connect, ProviderTypeOK
<1>2. opened' = [opened EXCEPT ![s] = opened[s] + 1] /\ DOMAIN opened = Slot
  BY DEF Connect, ProviderTypeOK
<1>3. \A x \in Slot : opened'[x] = IF x \in connected' THEN 1 ELSE 0
  BY <1>1, <1>2 DEF ProviderTypeOK
<1>. QED BY <1>1, <1>2, <1>3

(* Disconnecting closes the one connection a client has (Disconnect).        *)
LEMMA DisconnectCounts ==
  ASSUME ProviderTypeOK, NEW slots, Disconnect(slots)
  PROVE  /\ connected' = connected \ slots /\ connected' \subseteq AnySlot
         /\ opened' = [x \in Slot |-> IF x \in connected' THEN 1 ELSE 0]
  BY DEF Disconnect, ProviderTypeOK

(* While the provider is under construction nobody works with it or closes it. *)
LEMMA NobodyWorks ==
  ASSUME SlotInv, build # "ready", UNCHANGED <<workVars, closeVars>>
  PROVE  /\ LeasesInv'
         /\ closeAt' = 0 /\ background' = {} /\ \A w \in Worker : at'[w] = "idle"
<1>1. \A w \in Worker : at[w] = "idle" /\ held[w] = <<>> /\ ~Infers(w)
  BY DEF SlotInv, BuildInv, LeasesInv, Fits
<1>2. \A w \in Worker : at'[w] = "idle" /\ held'[w] = <<>> /\ ~Infers(w)'
  BY <1>1 DEF workVars, Infers
<1>3. LeasesInv'
  <2>1. \A w \in Worker : DOMAIN held'[w] = {}
    BY <1>2
  <2>2. \A w \in Worker : at'[w] # "reconnecting" /\ at'[w] \notin Inside
    BY <1>2 DEF Inside
  <2>. QED BY <1>2, <2>1, <2>2 DEF LeasesInv, Fits
<1>4. closeAt' = 0 /\ background' = {}
  BY DEF SlotInv, BuildInv, closeVars
<1>. QED BY <1>2, <1>3, <1>4

(* Every step of the construction keeps the invariant (NewLiveProvider).     *)
LEMMA BuildKeeps ==
  ASSUME SlotInv, BuildStep \/ BuildCtxEnds
  PROVE  SlotInv'
<1> USE DEF SlotInv
<1> USE Places
<1>1. CASE SelectHosts
  <2>1. ProviderTypeOK'
    BY <1>1, SelectIs DEF ProviderTypeOK, workVars, closeVars
  <2>2. BuildInv'
    BY <1>1, SelectIs, NobodyWorks DEF BuildInv, Constructing
  <2>3. ClosingInv'
    BY <1>1, SelectIs DEF ClosingInv, BuildInv, closeVars
  <2>. QED BY <1>1, <2>1, <2>2, <2>3, SelectIs, NobodyWorks
<1>2. CASE CreateClient
  <2> DEFINE s == <<kind, slotNo>>
  <2>1. /\ build = "creating" /\ slotNo' = slotNo + 1 /\ kindNo' = kindNo
        /\ pool' = [pool EXCEPT ![kind] = "building"]
        /\ UNCHANGED <<workVars, closeVars>>
    BY <1>2 DEF CreateClient
  <2>2. kind \in Kind /\ s \in AnySlot /\ s[1] = kind /\ s[2] = slotNo /\ kind' = kind
    BY <2>1 DEF ProviderTypeOK, kind, AnySlot
  <2>3. s \notin clients \cup connected
    BY <2>1, <2>2 DEF BuildInv, Constructing, ProviderTypeOK
  <2>4. /\ connected' \in {connected, connected \cup {s}} /\ connected' \subseteq AnySlot
        /\ opened' = [x \in Slot |-> IF x \in connected' THEN 1 ELSE 0]
        /\ clients' \in {clients, clients \cup {s}}
        /\ build' \in {"creating", "failing"}
        /\ build' = "creating" => connected' \subseteq connected \cup (clients' \cap {s})
    <3>1. CASE UNCHANGED <<build, buildCtxDone, clients, connected, opened>>
      BY <2>1, <3>1 DEF ProviderTypeOK
    <3>2. CASE Connect(s) /\ clients' = clients \cup {s} /\ UNCHANGED <<build, buildCtxDone>>
      BY <2>1, <2>2, <2>3, <3>2, ConnectCounts
    <3>3. CASE Connect(s) /\ buildCtxDone' = TRUE /\ build' = "failing" /\ UNCHANGED clients
      BY <2>1, <2>2, <2>3, <3>3, ConnectCounts
    <3>. QED BY <1>2, <3>1, <3>2, <3>3 DEF CreateClient
  <2>5. ProviderTypeOK'
    <3>1. clients' \subseteq AnySlot
      <4>1. clients \subseteq AnySlot
        BY DEF ProviderTypeOK
      <4> HIDE DEF s
      <4>. QED BY <2>2, <2>4, <4>1
    <3>2. slotNo' \in Nat \ {0}
      BY <2>1 DEF ProviderTypeOK
    <3>3. pool' \in [Kind -> {"absent", "building", "open", "closing", "closed"}]
      BY <2>1 DEF ProviderTypeOK
    <3>4. UNCHANGED <<kindNo, at, held, day, closeAt, closeErr, background>>
      BY <2>1 DEF workVars, closeVars
    <3>5. build' \in {"selecting", "creating", "ready", "failing", "failed"}
      BY <2>4
    <3>. QED BY <2>4, <3>1, <3>2, <3>3, <3>4, <3>5 DEF ProviderTypeOK
  <2>6. BuildInv'
    <3>1. \A i \in 1..Len(PoolOrder) :
            /\ i < kindNo => pool'[PoolOrder[i]] = "open"
            /\ i = kindNo => pool'[PoolOrder[i]] \in {"absent", "building"}
            /\ i > kindNo => pool'[PoolOrder[i]] = "absent"
      BY <2>1, <2>2 DEF BuildInv, Constructing, ProviderTypeOK, kind
    <3>2. ASSUME NEW x \in clients' \cup connected'
          PROVE  pool'[x[1]] # "absent" /\ (x[1] = kind => x[2] < slotNo')
      <4>1. CASE x = s
        BY <2>1, <2>2, <4>1 DEF ProviderTypeOK
      <4>2. CASE x # s
        <5>1. x \in clients \cup connected /\ x \in AnySlot
          BY <2>4, <4>2 DEF ProviderTypeOK
        <5>2. pool[x[1]] # "absent" /\ (x[1] = kind => x[2] < slotNo) /\ x[1] \in Kind /\ x[2] \in Nat
          BY <2>1, <5>1 DEF BuildInv, Constructing, AnySlot
        <5>. QED BY <2>1, <2>2, <5>2 DEF ProviderTypeOK
      <4>. QED BY <4>1, <4>2
    <3>3. build' = "creating" => connected' \subseteq clients'
      BY <2>1, <2>4 DEF BuildInv
    <3>4. build' = "failing" => connected' \subseteq clients' \cup {<<kind', slotNo' - 1>>}
      <4>1. slotNo' - 1 = slotNo
        BY <2>1 DEF ProviderTypeOK
      <4>. QED BY <2>1, <2>2, <2>4, <4>1 DEF BuildInv
    <3>5. closeAt' = 0 /\ background' = {} /\ \A w \in Worker : at'[w] = "idle"
      BY <2>1, NobodyWorks
    <3>. QED BY <2>1, <2>2, <2>4, <3>1, <3>2, <3>3, <3>4, <3>5 DEF BuildInv, Constructing
  <2>7. ClosingInv'
    <3>1. \A x \in connected' : pool'[x[1]] # "closed"
      <4>1. ASSUME NEW x \in connected, x[1] # kind PROVE pool'[x[1]] # "closed"
        <5>1. x[1] \in Kind
          BY <4>1 DEF ProviderTypeOK, AnySlot
        <5>. QED BY <2>1, <4>1, <5>1 DEF ClosingInv, ProviderTypeOK
      <4>2. pool'[kind] = "building"
        BY <2>1, <2>2 DEF ProviderTypeOK
      <4>. QED BY <2>2, <2>4, <4>1, <4>2
    <3>2. build' # "ready" /\ background' = {}
      BY <2>1, <2>4, NobodyWorks
    <3>. QED BY <3>1, <3>2 DEF ClosingInv
  <2>. QED BY <2>1, <2>5, <2>6, <2>7, NobodyWorks
<1>3. CASE PoolReady
  <2>1. /\ build = "creating" /\ slotNo' = 1
        /\ pool' = [pool EXCEPT ![kind] = "open"]
        /\ \/ kindNo = Len(PoolOrder) /\ build' = "ready" /\ kindNo' = 1
           \/ kindNo # Len(PoolOrder) /\ build' = build /\ kindNo' = kindNo + 1
        /\ UNCHANGED <<clients, connected, opened, workVars, closeVars>>
    BY <1>3 DEF PoolReady, AllCreated, NextKindOr
  <2>2. kind \in Kind /\ kind = PoolOrder[kindNo]
    BY DEF ProviderTypeOK, kind
  <2>3. ProviderTypeOK'
    BY <2>1, <2>2 DEF ProviderTypeOK, workVars, closeVars
  <2>4. \A i \in 1..Len(PoolOrder) :
          /\ i <= kindNo => pool'[PoolOrder[i]] = "open"
          /\ i > kindNo => pool'[PoolOrder[i]] = "absent"
    BY <2>1, <2>2 DEF BuildInv, Constructing, ProviderTypeOK
  <2>5. \A x \in clients' \cup connected' : x[1] \in Kind /\ pool'[x[1]] = "open"
    <3> SUFFICES ASSUME NEW x \in clients \cup connected
                 PROVE  x[1] \in Kind /\ pool'[x[1]] = "open"
      BY <2>1
    <3>1. x[1] \in Kind /\ pool[x[1]] # "absent"
      BY <2>1 DEF ProviderTypeOK, AnySlot, BuildInv, Constructing
    <3>2. PICK i \in 1..Len(PoolOrder) : PoolOrder[i] = x[1]
      BY <3>1
    <3>3. i <= kindNo
      BY <2>1, <3>1, <3>2 DEF BuildInv, Constructing, ProviderTypeOK
    <3>. QED BY <2>4, <3>1, <3>2, <3>3
  <2>6. BuildInv'
    <3>1. CASE kindNo = Len(PoolOrder)
      BY <2>1, <3>1 DEF BuildInv, Constructing
    <3>2. CASE kindNo # Len(PoolOrder)
      <4>1. kind' = PoolOrder[kindNo + 1] /\ kindNo + 1 \in 1..Len(PoolOrder) /\ kindNo' = kindNo + 1
        BY <2>1, <3>2 DEF ProviderTypeOK, kind
      <4>2. pool'[kind'] = "absent"
        BY <2>4, <4>1 DEF ProviderTypeOK
      <4>3. \A x \in clients' \cup connected' : x[1] # kind' /\ pool'[x[1]] # "absent"
        BY <2>5, <4>2
      <4>4. \A i \in 1..Len(PoolOrder) :
              /\ i < kindNo' => pool'[PoolOrder[i]] = "open"
              /\ i = kindNo' => pool'[PoolOrder[i]] \in {"absent", "building"}
              /\ i > kindNo' => pool'[PoolOrder[i]] = "absent"
        BY <2>4, <4>1 DEF ProviderTypeOK
      <4>5. closeAt' = 0 /\ background' = {} /\ \A w \in Worker : at'[w] = "idle"
        BY <2>1, NobodyWorks
      <4>. QED BY <2>1, <3>2, <4>3, <4>4, <4>5 DEF BuildInv, Constructing
    <3>. QED BY <3>1, <3>2
  <2>7. ClosingInv'
    <3>1. closeAt' = 0 /\ background' = {}
      BY <2>1, NobodyWorks
    <3>2. build' = "ready" => \A i \in 1..Len(PoolOrder) : pool'[PoolOrder[i]] = "open"
      BY <2>1, <2>4 DEF ProviderTypeOK
    <3>. QED BY <2>5, <3>1, <3>2 DEF ClosingInv
  <2>. QED BY <2>1, <2>3, <2>6, <2>7, NobodyWorks
<1>4. CASE PoolFails
  <2>1. /\ build = "creating" /\ build' = "failing"
        /\ UNCHANGED <<kindNo, slotNo, clients, pool, connected, opened, workVars, closeVars>>
    BY <1>4 DEF PoolFails, AllCreated
  <2>2. kind' = kind
    BY <2>1 DEF kind
  <2>3. ProviderTypeOK'
    BY <2>1 DEF ProviderTypeOK, workVars, closeVars
  <2>4. BuildInv'
    BY <2>1, <2>2, NobodyWorks DEF BuildInv, Constructing
  <2>5. ClosingInv'
    BY <2>1, NobodyWorks DEF ClosingInv
  <2>. QED BY <2>1, <2>3, <2>4, <2>5, NobodyWorks
<1>5. CASE CleanUp
  <2>1. /\ build = "failing" /\ build' = "failed" /\ kindNo' = 1 /\ slotNo' = 1
        /\ Disconnect(clients \cup {<<kind, slotNo - 1>>})
        /\ pool' = [k \in Kind |-> IF pool[k] = "absent" THEN "absent" ELSE "closed"]
        /\ UNCHANGED <<clients, workVars, closeVars>>
    BY <1>5 DEF CleanUp
  <2>2. connected' = {}
    BY <2>1, DisconnectCounts DEF BuildInv
  <2>3. ProviderTypeOK'
    BY <2>1, DisconnectCounts DEF ProviderTypeOK, workVars, closeVars
  <2>4. BuildInv'
    BY <2>1, <2>2, NobodyWorks DEF BuildInv, Constructing
  <2>5. ClosingInv'
    BY <2>1, <2>2, NobodyWorks DEF ClosingInv
  <2>. QED BY <2>1, <2>3, <2>4, <2>5, NobodyWorks
<1>6. CASE BuildCtxEnds
  <2>1. /\ build # "ready"
        /\ UNCHANGED <<build, kindNo, slotNo, clients, pool, connected, opened, workVars, closeVars>>
    BY <1>6 DEF BuildCtxEnds
  <2>2. kind' = kind
    BY <2>1 DEF kind
  <2>3. ProviderTypeOK'
    BY <2>1 DEF ProviderTypeOK, workVars, closeVars
  <2>4. BuildInv'
    BY <2>1, <2>2, NobodyWorks DEF BuildInv, Constructing
  <2>5. ClosingInv'
    BY <2>1, NobodyWorks DEF ClosingInv
  <2>. QED BY <2>1, <2>3, <2>4, <2>5, NobodyWorks
<1>. QED BY <1>1, <1>2, <1>3, <1>4, <1>5, <1>6 DEF BuildStep

-----------------------------------------------------------------------------
(* Requests.                                                                 *)

(* What a step of a worker does: it changes nobody else's place, row or      *)
(* answer, adds at most one lease, of a client that is free, to the end of   *)
(* its row, and connects or disconnects only the client it leased last.      *)
ConnectionStep(w) ==
  \/ UNCHANGED <<connected, opened>>
  \/ at[w] \in Inside /\ Current(w) \notin connected /\ Connect(Current(w))
  \/ at[w] \in Inside /\ Disconnect({Current(w)})

RowStep(w) ==
  \A i \in DOMAIN held'[w] :
    \/ i \in DOMAIN held[w] /\ held'[w][i] = held[w][i]
    \/ /\ i = Len(held'[w])
       /\ held'[w][i] \in clients \ Leased /\ pool[held'[w][i][1]] = "open"

Changes(w) ==
  /\ build = "ready" /\ workUnchanged
  /\ at' \in [Worker -> {"idle", "acquiring"} \cup Inside]
  /\ held' \in [Worker -> Seq(AnySlot)] /\ DOMAIN day' = Worker
  /\ \A v \in Worker \ {w} : at'[v] = at[v] /\ held'[v] = held[v] /\ day'[v] = day[v]
  /\ RowStep(w) /\ ConnectionStep(w) /\ Fits(w)'

(* The client a worker works with is the last of its row, and nobody else's  *)
(* (withLiveClient).                                                         *)
LEMMA CurrentIs ==
  ASSUME SlotInv, NEW w \in Worker, held[w] # <<>>
  PROVE  /\ Current(w) \in clients /\ Current(w) \in AnySlot
         /\ pool[Current(w)[1]] \in {"open", "closing"}
         /\ \A v \in Worker \ {w} : held[v] # <<>> => Current(v) # Current(w)
<1>1. \A v \in Worker : held[v] # <<>> => Len(held[v]) \in DOMAIN held[v]
  BY DEF SlotInv, ProviderTypeOK
<1>2. \A v \in Worker : Current(v) = held[v][Len(held[v])]
  BY DEF Current, Last
<1>3. held[w][Len(held[w])] \in clients /\ pool[held[w][Len(held[w])][1]] \in {"open", "closing"}
  BY <1>1 DEF SlotInv, LeasesInv
<1>4. \A v \in Worker \ {w} : held[v] # <<>> => held[v][Len(held[v])] # held[w][Len(held[w])]
  BY <1>1 DEF SlotInv, LeasesInv
<1>. QED BY <1>2, <1>3, <1>4 DEF SlotInv, ProviderTypeOK

(* Such a step keeps the invariant (acquireLive, withLiveClient).            *)
LEMMA ChangesKeep ==
  ASSUME SlotInv, NEW w \in Worker, Changes(w)
  PROVE  SlotInv'
<1>1. UNCHANGED <<build, kindNo, slotNo, clients, pool, closeAt, closeErr, background>>
  BY DEF Changes, workUnchanged, buildVars, closeVars
<1>2. /\ connected' \subseteq AnySlot
      /\ opened' = [x \in Slot |-> IF x \in connected' THEN 1 ELSE 0]
      /\ connected' \subseteq clients /\ \A s \in connected' : pool[s[1]] # "closed"
      /\ \A v \in Worker \ {w} : at[v] = "reconnecting" => Current(v) \notin connected'
  <2>1. /\ connected \subseteq AnySlot /\ connected \subseteq clients
        /\ \A s \in connected : pool[s[1]] # "closed"
        /\ opened = [x \in Slot |-> IF x \in connected THEN 1 ELSE 0]
        /\ \A v \in Worker : at[v] = "reconnecting" => Current(v) \notin connected /\ held[v] # <<>>
    BY DEF SlotInv, ProviderTypeOK, BuildInv, ClosingInv, LeasesInv, Fits, Changes, Inside
  <2>2. at[w] \in Inside => held[w] # <<>>
    BY DEF SlotInv, LeasesInv, Fits
  <2>3. CASE UNCHANGED <<connected, opened>>
    BY <2>1, <2>3
  <2>4. CASE at[w] \in Inside /\ Current(w) \notin connected /\ Connect(Current(w))
    <3>1. /\ connected' = connected \cup {Current(w)} /\ connected' \subseteq AnySlot
          /\ opened' = [x \in Slot |-> IF x \in connected' THEN 1 ELSE 0]
      BY <2>2, <2>4, CurrentIs, ConnectCounts DEF SlotInv
    <3>. QED BY <2>1, <2>2, <2>4, <3>1, CurrentIs
  <2>5. CASE at[w] \in Inside /\ Disconnect({Current(w)})
    <3>1. /\ connected' = connected \ {Current(w)} /\ connected' \subseteq AnySlot
          /\ opened' = [x \in Slot |-> IF x \in connected' THEN 1 ELSE 0]
      BY <2>5, DisconnectCounts DEF SlotInv
    <3>. QED BY <2>1, <3>1
  <2>. QED BY <2>3, <2>4, <2>5 DEF Changes, ConnectionStep
<1>3. ProviderTypeOK'
  BY <1>1, <1>2 DEF Changes, SlotInv, ProviderTypeOK
<1>4. BuildInv'
  BY <1>1, <1>2 DEF Changes, SlotInv, BuildInv, Constructing
<1>5. ClosingInv'
  BY <1>1, <1>2 DEF SlotInv, ClosingInv
<1>6. LeasesInv'
  <2>1. \A v \in Worker : Fits(v)'
    <3> SUFFICES ASSUME NEW v \in Worker \ {w} PROVE Fits(v)'
      BY DEF Changes
    <3>1. Fits(v) /\ at'[v] = at[v] /\ held'[v] = held[v] /\ day'[v] = day[v]
      BY DEF Changes, SlotInv, LeasesInv
    <3>. QED BY <1>2, <3>1 DEF Fits, Infers, Current
  <2>2. ASSUME NEW v \in Worker, NEW i \in DOMAIN held'[v]
        PROVE  /\ held'[v][i] \in clients' /\ pool'[held'[v][i][1]] \in {"open", "closing"}
               /\ \/ i \in DOMAIN held[v] /\ held'[v][i] = held[v][i]
                  \/ v = w /\ i = Len(held'[w]) /\ held'[v][i] \notin Leased
    BY <1>1 DEF Changes, RowStep, SlotInv, LeasesInv
  <2>3. ASSUME NEW u \in Worker, NEW v \in Worker, NEW i \in DOMAIN held'[u], NEW j \in DOMAIN held'[v],
               held'[u][i] = held'[v][j]
        PROVE  u = v /\ i = j
    <3>1. \A x \in Worker : \A n \in DOMAIN held[x] : held[x][n] \in Leased
      BY LeasedIs DEF SlotInv
    <3>2. CASE i \in DOMAIN held[u] /\ held'[u][i] = held[u][i]
      <4>1. held'[v][j] \in Leased
        BY <2>3, <3>1, <3>2
      <4>2. j \in DOMAIN held[v] /\ held'[v][j] = held[v][j]
        BY <2>2, <4>1
      <4>3. held[u][i] = held[v][j]
        BY <2>3, <3>2, <4>2
      <4>4. \A x, y \in Worker : \A n \in DOMAIN held[x], m \in DOMAIN held[y] :
              held[x][n] = held[y][m] => x = y /\ n = m
        BY DEF SlotInv, LeasesInv
      <4>. QED BY <3>2, <4>2, <4>3, <4>4
    <3>3. CASE u = w /\ i = Len(held'[w]) /\ held'[u][i] \notin Leased
      BY <2>2, <2>3, <3>1, <3>3
    <3>. QED BY <2>2, <3>2, <3>3
  <2>. QED BY <2>1, <2>2, <2>3 DEF LeasesInv
<1>. QED BY <1>3, <1>4, <1>5, <1>6 DEF SlotInv

(* Returning gives every lease back (the deferred Release).                  *)
LEMMA ReturnChanges ==
  ASSUME SlotInv, NEW w \in Worker, build = "ready",
         Return(w), UNCHANGED <<connected, opened>>, workUnchanged
  PROVE  Changes(w)
<1>1. at' \in [Worker -> {"idle", "acquiring"} \cup Inside] /\ at'[w] = "idle"
  BY DEF Return, Goto, SlotInv, ProviderTypeOK
<1>2. held' \in [Worker -> Seq(AnySlot)] /\ held'[w] = <<>>
  BY DEF Return, SlotInv, ProviderTypeOK
<1>3. DOMAIN day' = Worker /\ day'[w] = NoAnswer
  BY DEF Return, SlotInv, ProviderTypeOK
<1>4. \A v \in Worker \ {w} : at'[v] = at[v] /\ held'[v] = held[v] /\ day'[v] = day[v]
  <2>1. at' = [at EXCEPT ![w] = "idle"] /\ held' = [held EXCEPT ![w] = <<>>]
        /\ day' = [day EXCEPT ![w] = NoAnswer]
    BY DEF Return, Goto
  <2>2. DOMAIN at = Worker /\ DOMAIN held = Worker /\ DOMAIN day = Worker
    BY DEF SlotInv, ProviderTypeOK
  <2>. QED BY <2>1, <2>2
<1>5. Fits(w)'
  <2>1. ~Infers(w)'
    BY <1>3 DEF Infers, NoAnswer
  <2>. QED BY <1>1, <1>2, <2>1 DEF Fits, Inside
<1>6. RowStep(w)
  BY <1>2 DEF RowStep
<1>. QED BY <1>1, <1>2, <1>3, <1>4, <1>5, <1>6 DEF Changes, ConnectionStep

(* A request for bars that returns to the search for the previous day gives  *)
(* back all but the first lease (inferPreviousTradingDayFromKLine).          *)
LEMMA InferChanges ==
  ASSUME SlotInv, NEW w \in Worker, build = "ready", held[w] # <<>>,
         NEW days, Infer(w, days), UNCHANGED <<connected, opened>>, workUnchanged
  PROVE  Changes(w)
<1> DEFINE previous == previousTradingDayFromBars(day[w].reply.today, days)
           done == previous # NoDay \/ day[w].tried = CalendarSymbols
           where == IF done THEN "informed" ELSE "acquiring"
           answer == [reply |-> day[w].reply, previous |-> previous,
                      tried |-> day[w].tried + IF done THEN 0 ELSE 1,
                      heard |-> day[w].heard \cup days]
<1>1. /\ day' = [day EXCEPT ![w] = answer] /\ at' = [at EXCEPT ![w] = where]
      /\ held' = [held EXCEPT ![w] = <<Head(held[w])>>]
  <2>1. day' = [day EXCEPT ![w] = answer]
    BY DEF Infer
  <2>2. at' = [at EXCEPT ![w] = where]
    BY DEF Infer, Goto
  <2>3. held' = [held EXCEPT ![w] = <<Head(held[w])>>]
    BY DEF Infer
  <2>. QED BY <2>1, <2>2, <2>3
<1>2. where \in {"informed", "acquiring"}
  OBVIOUS
<1> HIDE DEF where, answer
<1>3. DOMAIN day' = Worker /\ \A v \in Worker \ {w} : day'[v] = day[v]
  BY <1>1 DEF SlotInv, ProviderTypeOK
<1>4. /\ at' \in [Worker -> {"idle", "acquiring"} \cup Inside] /\ at'[w] \in {"informed", "acquiring"}
      /\ \A v \in Worker \ {w} : at'[v] = at[v]
  BY <1>1, <1>2 DEF SlotInv, ProviderTypeOK, Inside
<1>5. held[w] \in Seq(AnySlot) /\ Head(held[w]) = held[w][1] /\ 1 \in DOMAIN held[w]
  BY DEF SlotInv, ProviderTypeOK
<1>6. /\ held' \in [Worker -> Seq(AnySlot)] /\ held'[w] = <<held[w][1]>>
      /\ \A v \in Worker \ {w} : held'[v] = held[v]
  <2>1. <<held[w][1]>> \in Seq(AnySlot)
    BY <1>5
  <2>. QED BY <1>1, <1>5, <2>1 DEF SlotInv, ProviderTypeOK
<1>7. Fits(w)'
  BY <1>4, <1>6 DEF Fits
<1>8. RowStep(w)
  BY <1>5, <1>6 DEF RowStep
<1>. QED BY <1>3, <1>4, <1>6, <1>7, <1>8 DEF Changes, ConnectionStep

(* A step that leaves the row as it is and goes on inside the call.          *)
LEMMA GoesOn ==
  ASSUME SlotInv, NEW w \in Worker, build = "ready", held[w] # <<>>,
         NEW where \in {"acquiring"} \cup Inside, Goto(w, where),
         UNCHANGED held, workUnchanged, DOMAIN day' = Worker,
         \A v \in Worker \ {w} : day'[v] = day[v],
         ConnectionStep(w), where = "reconnecting" => Current(w) \notin connected'
  PROVE  Changes(w)
<1>1. /\ at' \in [Worker -> {"idle", "acquiring"} \cup Inside] /\ at'[w] = where
      /\ \A v \in Worker \ {w} : at'[v] = at[v]
  BY DEF Goto, SlotInv, ProviderTypeOK
<1>2. Fits(w)'
  BY <1>1 DEF Fits, Current, Inside
<1>3. RowStep(w)
  BY DEF RowStep
<1>. QED BY <1>1, <1>2, <1>3 DEF Changes, SlotInv, ProviderTypeOK

(* Every step of a request keeps the invariant.                              *)
LEMMA WorkKeeps ==
  ASSUME SlotInv, NEW w \in Worker,
         (\E k \in Asked : Request(w, k)) \/ RequestCtxEnds(w) \/ WorkStep(w)
  PROVE  SlotInv'
<1>1. at[w] # "idle" => build = "ready"
  BY DEF SlotInv, BuildInv
<1>2. Fits(w)
  BY DEF SlotInv, LeasesInv
<1>3. /\ DOMAIN day = Worker /\ at \in [Worker -> {"idle", "acquiring"} \cup Inside]
      /\ held \in [Worker -> Seq(AnySlot)] /\ DOMAIN at = Worker /\ DOMAIN held = Worker
  BY DEF SlotInv, ProviderTypeOK
<1>4. ASSUME build = "ready", CallFails(w), UNCHANGED <<connected, opened>>, workUnchanged
      PROVE  Changes(w)
  <2>1. CASE Infers(w)
    BY <1>2, <1>4, <2>1, InferChanges DEF CallFails, Fits
  <2>2. CASE ~Infers(w)
    BY <1>4, <2>2, ReturnChanges DEF CallFails
  <2>. QED BY <2>1, <2>2
<1>5. CASE \E k \in Asked : Request(w, k)
  <2>1. /\ build = "ready" /\ at[w] = "idle" /\ at' = [at EXCEPT ![w] = "acquiring"]
        /\ UNCHANGED <<held, day, connected, opened>> /\ workUnchanged
    BY <1>5 DEF Request, Goto
  <2>2. Fits(w)'
    BY <1>2, <1>3, <2>1 DEF Fits, Infers, Inside
  <2>3. Changes(w)
    BY <1>3, <2>1, <2>2 DEF Changes, RowStep, ConnectionStep
  <2>. QED BY <2>3, ChangesKeep
<1>6. CASE RequestCtxEnds(w)
  <2>1. build = "ready" /\ UNCHANGED <<at, held, day, connected, opened>> /\ workUnchanged
    BY <1>1, <1>6 DEF RequestCtxEnds
  <2>2. Fits(w)'
    BY <1>2, <2>1 DEF Fits, Infers, Current
  <2>3. Changes(w)
    BY <1>3, <2>1, <2>2 DEF Changes, RowStep, ConnectionStep
  <2>. QED BY <2>3, ChangesKeep
<1>7. CASE Acquire(w)
  <2>1. /\ build = "ready" /\ at[w] = "acquiring" /\ at' = [at EXCEPT ![w] = "entering"]
        /\ UNCHANGED <<day, connected, opened>> /\ workUnchanged
        /\ IsOpen(pickPool(wants[w]))
    BY <1>1, <1>7 DEF Acquire, Goto
  <2>2. PICK s \in ClientsOf(pickPool(wants[w])) \ Leased : held' = [held EXCEPT ![w] = Append(@, s)]
    BY <1>7 DEF Acquire
  <2>3. s \in clients \ Leased /\ s \in AnySlot /\ pool[s[1]] = "open"
    BY <2>1, <2>2 DEF ClientsOf, IsOpen, SlotInv, ProviderTypeOK
  <2>4. /\ held' \in [Worker -> Seq(AnySlot)] /\ held'[w] = Append(held[w], s)
        /\ \A v \in Worker \ {w} : held'[v] = held[v]
    BY <1>3, <2>2, <2>3
  <2>5. RowStep(w)
    BY <1>3, <2>3, <2>4 DEF RowStep
  <2>6. at'[w] = "entering" /\ held'[w] # <<>>
    <3>1. held[w] \in Seq(AnySlot) /\ Len(Append(held[w], s)) = Len(held[w]) + 1
      BY <1>3, <2>3
    <3>2. Append(held[w], s) # <<>>
      BY <3>1
    <3>. QED BY <1>3, <2>1, <2>4, <3>2
  <2>7. Fits(w)'
    BY <2>6 DEF Fits
  <2>8. at' \in [Worker -> {"idle", "acquiring"} \cup Inside]
    BY <1>3, <2>1 DEF Inside
  <2>9. Changes(w)
    BY <1>3, <2>1, <2>4, <2>5, <2>7, <2>8 DEF Changes, ConnectionStep
  <2>. QED BY <2>9, ChangesKeep
<1>8. CASE Refused(w)
  BY <1>1, <1>4, <1>8, ChangesKeep DEF Refused
<1>9. CASE CallStep(w)
  <2>1. at[w] \in Inside /\ build = "ready" /\ held[w] # <<>>
    BY <1>1, <1>2, <1>9 DEF CallStep, LookFails, EnterClient, Answers, FirstCallFails, Reconnects,
                            SecondCallFails, Inside, Fits
  <2>2. UNCHANGED <<held, day>> /\ workUnchanged
    BY <1>9 DEF CallStep, LookFails, EnterClient, Answers, FirstCallFails, Reconnects, SecondCallFails
  <2>3. \E where \in Inside : /\ Goto(w, where) /\ ConnectionStep(w)
                              /\ where = "reconnecting" => Current(w) \notin connected'
    <3>1. CASE EnterClient(w)
      BY <2>1, <3>1 DEF EnterClient, ConnectionStep, Inside
    <3>2. CASE Answers(w)
      BY <3>2 DEF Answers, ConnectionStep, Inside
    <3>3. CASE FirstCallFails(w)
      BY <2>1, <3>3 DEF FirstCallFails, ConnectionStep, Inside, Disconnect
    <3>4. CASE Reconnects(w)
      BY <1>2, <2>1, <3>4 DEF Reconnects, ConnectionStep, Inside, Fits
    <3>5. CASE SecondCallFails(w)
      BY <3>5 DEF SecondCallFails, ConnectionStep, Inside
    <3>6. CASE LookFails(w)
      BY <3>6 DEF LookFails, ConnectionStep, Inside
    <3>. QED BY <1>9, <3>1, <3>2, <3>3, <3>4, <3>5, <3>6 DEF CallStep
  <2>4. Changes(w)
    BY <1>3, <2>1, <2>2, <2>3, GoesOn
  <2>. QED BY <2>4, ChangesKeep
<1>10. CASE ReportFailure(w)
  BY <1>1, <1>4, <1>10, ChangesKeep DEF ReportFailure
<1>11. CASE NextPage(w)
  <2>1. at[w] \in Inside /\ build = "ready" /\ held[w] # <<>>
    BY <1>1, <1>2, <1>11 DEF NextPage, Inside, Fits
  <2>2. /\ UNCHANGED <<held, day, connected, opened>> /\ workUnchanged
        /\ Goto(w, "entering")
    BY <1>11 DEF NextPage
  <2>3. Changes(w)
    BY <1>3, <2>1, <2>2, GoesOn DEF ConnectionStep, Inside
  <2>. QED BY <2>3, ChangesKeep
<1>12. CASE DataArrives(w)
  <2>1. build = "ready" /\ UNCHANGED <<connected, opened>> /\ workUnchanged
    BY <1>1, <1>12 DEF DataArrives
  <2>2. CASE Infers(w)
    BY <1>2, <1>12, <2>1, <2>2, InferChanges, ChangesKeep DEF DataArrives, Fits
  <2>3. CASE ~Infers(w)
    BY <1>12, <2>1, <2>3, ReturnChanges, ChangesKeep DEF DataArrives
  <2>. QED BY <2>2, <2>3
<1>13. CASE MacAnswers(w)
  <2>1. /\ at[w] \in Inside /\ build = "ready" /\ held[w] # <<>>
        /\ UNCHANGED <<connected, opened>> /\ workUnchanged
    BY <1>1, <1>2, <1>13 DEF MacAnswers, Inside, Fits
  <2>2. PICK reply \in Reply :
          \/ Return(w)
          \/ /\ \E answer : day' = [day EXCEPT ![w] = answer]
             /\ UNCHANGED held
             /\ Goto(w, "acquiring") \/ Goto(w, "informed")
    BY <1>13 DEF MacAnswers
  <2>3. CASE Return(w)
    BY <2>1, <2>3, ReturnChanges, ChangesKeep
  <2>4. CASE /\ \E answer : day' = [day EXCEPT ![w] = answer]
             /\ UNCHANGED held
             /\ Goto(w, "acquiring") \/ Goto(w, "informed")
    <3>1. DOMAIN day' = Worker /\ \A v \in Worker \ {w} : day'[v] = day[v]
      BY <1>3, <2>4
    <3>2. Changes(w)
      BY <2>1, <2>4, <3>1, GoesOn DEF ConnectionStep, Inside
    <3>. QED BY <3>2, ChangesKeep
  <2>. QED BY <2>2, <2>3, <2>4
<1>14. CASE ReturnDay(w)
  BY <1>1, <1>14, ReturnChanges, ChangesKeep DEF ReturnDay
<1>. QED BY <1>5, <1>6, <1>7, <1>8, <1>9, <1>10, <1>11, <1>12, <1>13, <1>14 DEF WorkStep

-----------------------------------------------------------------------------
(* Close.                                                                    *)

(* What a step of Close does to the leases and connections: it disconnects   *)
(* clients, and takes no pool with a lease away.                             *)
LEMMA LeasesOutlive ==
  ASSUME SlotInv, build = "ready", closeUnchanged, connected' \subseteq connected,
         \A s \in Leased : pool[s[1]] \in {"open", "closing"} => pool'[s[1]] \in {"open", "closing"}
  PROVE  LeasesInv'
<1>1. UNCHANGED <<clients, at, held, day>>
  BY DEF closeUnchanged, buildVars, workVars
<1>2. \A w \in Worker : Fits(w)'
  BY <1>1 DEF SlotInv, LeasesInv, Fits, Infers, Current
<1>3. ASSUME NEW w \in Worker, NEW i \in DOMAIN held[w]
      PROVE  held[w][i] \in clients /\ pool'[held[w][i][1]] \in {"open", "closing"}
  <2>1. held[w][i] \in Leased
    BY LeasedIs DEF SlotInv
  <2>. QED BY <2>1 DEF SlotInv, LeasesInv
<1>. QED BY <1>1, <1>2, <1>3 DEF SlotInv, LeasesInv

(* A pool that is drained has no lease out (drainPool).                      *)
LEMMA DrainedIs ==
  ASSUME SlotInv, NEW k \in Kind, Drained(k)
  PROVE  \A s \in Leased : s[1] # k
BY LeasedIs DEF Drained, ClientsOf, SlotInv, LeasesInv

(* Disconnecting the clients of a pool leaves it without a connection.       *)
LEMMA PoolDisconnects ==
  ASSUME SlotInv, build = "ready", NEW k \in Kind, Disconnect(ClientsOf(k))
  PROVE  /\ connected' \subseteq connected /\ connected' \subseteq AnySlot
         /\ opened' = [x \in Slot |-> IF x \in connected' THEN 1 ELSE 0]
         /\ \A s \in connected' : s[1] # k
<1>1. connected \subseteq clients
  BY DEF SlotInv, BuildInv
<1>2. connected' = connected \ ClientsOf(k)
  BY DisconnectCounts DEF SlotInv
<1>. QED BY <1>1, <1>2, DisconnectCounts DEF SlotInv, ClientsOf

(* When Close comes to the next pool, that one stops lending (TurnTo).       *)
LEMMA NextTurn ==
  ASSUME SlotInv, build = "ready", Closing,
         NEW pools \in [Kind -> {"absent", "building", "open", "closing", "closed"}],
         \A k \in Kind \ {PoolOrder[closeAt]} : pools[k] = pool[k],
         TurnTo(closeAt + 1, pools)
  PROVE  /\ closeAt' = closeAt + 1 /\ closeAt \in 1..Len(PoolOrder)
         /\ closeAt' \in 0..(Len(PoolOrder) + 1)
         /\ pool' \in [Kind -> {"absent", "building", "open", "closing", "closed"}]
         /\ pool'[PoolOrder[closeAt]] = pools[PoolOrder[closeAt]]
         /\ \A i \in 1..Len(PoolOrder) :
              /\ i # closeAt /\ i # closeAt + 1 => pool'[PoolOrder[i]] = pool[PoolOrder[i]]
              /\ i = closeAt + 1 => pool[PoolOrder[i]] = "open" /\ pool'[PoolOrder[i]] = "closing"
<1> USE Places
<1>1. closeAt \in 1..Len(PoolOrder) /\ closeAt' = closeAt + 1 /\ closeAt + 1 \in 0..(Len(PoolOrder) + 1)
  BY DEF Closing, TurnTo
<1>2. \A i \in 1..Len(PoolOrder) : i = closeAt + 1 => pool[PoolOrder[i]] = "open"
  BY <1>1 DEF SlotInv, ClosingInv
<1>3. CASE closeAt + 1 > Len(PoolOrder)
  <2>1. pool' = pools
    BY <1>3 DEF TurnTo
  <2>. QED BY <1>1, <1>2, <1>3, <2>1
<1>4. CASE ~(closeAt + 1 > Len(PoolOrder))
  <2>1. pool' = [pools EXCEPT ![PoolOrder[closeAt + 1]] = "closing"]
    BY <1>4 DEF TurnTo
  <2>2. closeAt + 1 \in 1..Len(PoolOrder) /\ PoolOrder[closeAt + 1] \in Kind
    BY <1>1, <1>4
  <2>. QED BY <1>1, <1>2, <2>1, <2>2
<1>. QED BY <1>3, <1>4

(* Every step of Close keeps the invariant.                                  *)
LEMMA CloseKeeps ==
  ASSUME SlotInv, BeginClose \/ CloseCtxEnds \/ CloseStep
  PROVE  SlotInv'
<1> USE Places
<1>1. build = "ready" /\ closeUnchanged
  BY DEF SlotInv, BuildInv, BeginClose, CloseCtxEnds, CloseStep, ClosePool, PoolTimesOut,
         BackgroundClose, Closing
<1>2. UNCHANGED <<build, kindNo, slotNo, clients, at, held, day>>
  BY <1>1 DEF closeUnchanged, buildVars, workVars
<1>3. /\ connected \subseteq AnySlot /\ connected \subseteq clients
      /\ opened = [x \in Slot |-> IF x \in connected THEN 1 ELSE 0]
      /\ \A s \in connected : s[1] \in Kind /\ pool[s[1]] # "closed"
      /\ \A s \in Leased : s[1] \in Kind /\ pool[s[1]] \in {"open", "closing"}
      /\ background \subseteq Kind /\ \A k \in background : pool[k] = "closing"
      /\ pool \in [Kind -> {"absent", "building", "open", "closing", "closed"}]
  BY <1>1, LeasedIs DEF SlotInv, ProviderTypeOK, BuildInv, ClosingInv, LeasesInv, AnySlot
<1>4. \A i \in 1..Len(PoolOrder) :
        /\ closeAt < i => pool[PoolOrder[i]] = "open"
        /\ closeAt = i => pool[PoolOrder[i]] = "closing" /\ PoolOrder[i] \notin background
        /\ closeAt > i =>
             \/ pool[PoolOrder[i]] = "closed"
             \/ pool[PoolOrder[i]] = "closing" /\ PoolOrder[i] \in background /\ closeErr
  BY <1>1 DEF SlotInv, ClosingInv
<1>5. ASSUME /\ connected' \subseteq connected
             /\ opened' = [x \in Slot |-> IF x \in connected' THEN 1 ELSE 0]
             /\ pool' \in [Kind -> {"absent", "building", "open", "closing", "closed"}]
             /\ closeAt' \in 0..(Len(PoolOrder) + 1) /\ closeErr' \in BOOLEAN
             /\ background' \subseteq Kind
             /\ ClosingInv'
             /\ \A s \in Leased : pool[s[1]] \in {"open", "closing"} => pool'[s[1]] \in {"open", "closing"}
      PROVE  SlotInv'
  <2>1. ProviderTypeOK'
    BY <1>2, <1>3, <1>5 DEF SlotInv, ProviderTypeOK
  <2>2. BuildInv'
    BY <1>1, <1>2, <1>3, <1>5 DEF BuildInv, Constructing
  <2>. QED BY <1>1, <1>5, <2>1, <2>2, LeasesOutlive DEF SlotInv
<1>6. CASE BeginClose
  <2>1. /\ closeAt = 0 /\ closeAt' = 1 /\ pool' = [pool EXCEPT ![PoolOrder[1]] = "closing"]
        /\ UNCHANGED <<closeErr, background, connected, opened>>
    BY <1>6 DEF BeginClose, TurnTo
  <2>2. \A k \in Kind : pool[k] = "open"
    BY <1>4, <2>1
  <2>3. background = {}
    BY <1>3, <2>2
  <2>4. \A i \in 1..Len(PoolOrder) :
          pool'[PoolOrder[i]] = IF i = 1 THEN "closing" ELSE "open"
    BY <1>3, <2>1, <2>2
  <2>5. \A k \in Kind : pool'[k] \in {"open", "closing"}
    BY <2>4
  <2>6. ClosingInv'
    BY <1>2, <1>3, <2>1, <2>3, <2>4, <2>5 DEF ClosingInv
  <2>7. closeErr' \in BOOLEAN /\ closeAt' \in 0..(Len(PoolOrder) + 1)
    BY <2>1 DEF SlotInv, ProviderTypeOK
  <2>8. pool' \in [Kind -> {"absent", "building", "open", "closing", "closed"}]
    BY <1>3, <2>1
  <2>. QED BY <1>3, <1>5, <2>1, <2>5, <2>6, <2>7, <2>8
<1>7. CASE CloseCtxEnds
  <2>1. UNCHANGED <<pool, connected, opened, closeAt, closeErr, background>>
    BY <1>7 DEF CloseCtxEnds
  <2>2. ClosingInv'
    BY <1>2, <2>1 DEF SlotInv, ClosingInv
  <2>. QED BY <1>3, <1>5, <2>1, <2>2 DEF SlotInv, ProviderTypeOK
<1>8. CASE ClosePool
  <2> DEFINE k == PoolOrder[closeAt]
  <2>1. Closing /\ k \in Kind /\ Drained(k) /\ Disconnect(ClientsOf(k))
    BY <1>8 DEF ClosePool, Closing
  <2>2. TurnTo(closeAt + 1, [pool EXCEPT ![k] = "closed"]) /\ UNCHANGED <<closeErr, background>>
    BY <1>8 DEF ClosePool
  <2>3. /\ closeAt' = closeAt + 1 /\ closeAt \in 1..Len(PoolOrder)
        /\ closeAt' \in 0..(Len(PoolOrder) + 1)
        /\ pool' \in [Kind -> {"absent", "building", "open", "closing", "closed"}]
        /\ pool'[k] = "closed"
        /\ \A i \in 1..Len(PoolOrder) :
              /\ i # closeAt /\ i # closeAt + 1 => pool'[PoolOrder[i]] = pool[PoolOrder[i]]
              /\ i = closeAt + 1 => pool[PoolOrder[i]] = "open" /\ pool'[PoolOrder[i]] = "closing"
    <3> DEFINE pools == [pool EXCEPT ![k] = "closed"]
    <3>1. /\ pools \in [Kind -> {"absent", "building", "open", "closing", "closed"}]
          /\ pools[k] = "closed" /\ \A j \in Kind \ {k} : pools[j] = pool[j]
      BY <1>3, <2>1
    <3>2. TurnTo(closeAt + 1, pools)
      BY <2>2
    <3> HIDE DEF pools
    <3>. QED BY <1>1, <2>1, <3>1, <3>2, NextTurn
  <2> HIDE DEF k
  <2>4. ASSUME NEW j \in Kind \ {k}
        PROVE  pool'[j] = pool[j] \/ (pool[j] = "open" /\ pool'[j] = "closing")
    <3>1. PICK i \in 1..Len(PoolOrder) : PoolOrder[i] = j
      OBVIOUS
    <3>. QED BY <2>3, <3>1 DEF k
  <2>5. /\ connected' \subseteq connected /\ \A s \in connected' : s[1] # k
        /\ opened' = [x \in Slot |-> IF x \in connected' THEN 1 ELSE 0]
    BY <1>1, <2>1, PoolDisconnects
  <2>6. \A s \in Leased : s[1] # k
    BY <2>1, DrainedIs
  <2>7. k \notin background
    BY <1>4, <2>3 DEF k
  <2>8. ClosingInv'
    <3>1. \A j \in background' : pool'[j] = "closing"
      BY <1>3, <2>2, <2>4, <2>7
    <3>2. \A s \in connected' : pool'[s[1]] # "closed"
      BY <1>3, <2>4, <2>5
    <3>3. ASSUME NEW i \in 1..Len(PoolOrder)
          PROVE  /\ closeAt' < i => pool'[PoolOrder[i]] = "open"
                 /\ closeAt' = i => pool'[PoolOrder[i]] = "closing" /\ PoolOrder[i] \notin background
                 /\ closeAt' > i =>
                      \/ pool'[PoolOrder[i]] = "closed"
                      \/ pool'[PoolOrder[i]] = "closing" /\ PoolOrder[i] \in background /\ closeErr
      <4>1. CASE i = closeAt
        BY <2>3, <4>1 DEF k
      <4>2. CASE i = closeAt + 1
        BY <1>3, <2>3, <4>2
      <4>3. CASE i # closeAt /\ i # closeAt + 1
        BY <1>4, <2>3, <4>3
      <4>. QED BY <4>1, <4>2, <4>3
    <3>. QED BY <1>2, <2>2, <3>1, <3>2, <3>3 DEF ClosingInv
  <2>9. \A s \in Leased : pool'[s[1]] \in {"open", "closing"}
    BY <1>3, <2>4, <2>6
  <2>. QED BY <1>3, <1>5, <2>2, <2>3, <2>5, <2>8, <2>9 DEF SlotInv, ProviderTypeOK
<1>9. CASE PoolTimesOut
  <2> DEFINE k == PoolOrder[closeAt]
  <2>1. Closing /\ k \in Kind /\ TurnTo(closeAt + 1, pool) /\ UNCHANGED <<connected, opened>>
    BY <1>9 DEF PoolTimesOut, Closing
  <2>2. background' = background \cup {k} /\ closeErr' = TRUE
    BY <1>9 DEF PoolTimesOut
  <2>3. /\ closeAt' = closeAt + 1 /\ closeAt \in 1..Len(PoolOrder)
        /\ closeAt' \in 0..(Len(PoolOrder) + 1)
        /\ pool' \in [Kind -> {"absent", "building", "open", "closing", "closed"}]
        /\ pool'[k] = pool[k]
        /\ \A i \in 1..Len(PoolOrder) :
              /\ i # closeAt /\ i # closeAt + 1 => pool'[PoolOrder[i]] = pool[PoolOrder[i]]
              /\ i = closeAt + 1 => pool[PoolOrder[i]] = "open" /\ pool'[PoolOrder[i]] = "closing"
    BY <1>1, <1>3, <2>1, NextTurn
  <2> HIDE DEF k
  <2>4. pool[k] = "closing" /\ pool'[k] = "closing"
    BY <1>4, <2>3 DEF k
  <2>5. ASSUME NEW j \in Kind
        PROVE  pool'[j] = pool[j] \/ (pool[j] = "open" /\ pool'[j] = "closing")
    <3>1. PICK i \in 1..Len(PoolOrder) : PoolOrder[i] = j
      OBVIOUS
    <3>. QED BY <2>3, <3>1 DEF k
  <2>6. ClosingInv'
    <3>1. \A j \in background' : pool'[j] = "closing"
      BY <1>3, <2>2, <2>4, <2>5
    <3>2. \A s \in connected' : pool'[s[1]] # "closed"
      BY <1>3, <2>1, <2>5
    <3>3. ASSUME NEW i \in 1..Len(PoolOrder)
          PROVE  /\ closeAt' < i => pool'[PoolOrder[i]] = "open"
                 /\ closeAt' = i => pool'[PoolOrder[i]] = "closing" /\ PoolOrder[i] \notin background'
                 /\ closeAt' > i =>
                      \/ pool'[PoolOrder[i]] = "closed"
                      \/ pool'[PoolOrder[i]] = "closing" /\ PoolOrder[i] \in background' /\ closeErr'
      <4>1. CASE i = closeAt
        BY <2>2, <2>3, <2>4, <4>1 DEF k
      <4>2. CASE i = closeAt + 1
        <5>1. pool[PoolOrder[i]] = "open" /\ pool'[PoolOrder[i]] = "closing" /\ PoolOrder[i] # k
          BY <2>3, <2>4, <4>2
        <5>. QED BY <1>3, <2>2, <2>3, <4>2, <5>1
      <4>3. CASE i # closeAt /\ i # closeAt + 1
        BY <1>4, <2>2, <2>3, <4>3
      <4>. QED BY <4>1, <4>2, <4>3
    <3>. QED BY <1>2, <3>1, <3>2, <3>3 DEF ClosingInv
  <2>7. background' \subseteq Kind
    BY <1>3, <2>1, <2>2
  <2>. QED BY <1>3, <1>5, <2>1, <2>2, <2>3, <2>5, <2>6, <2>7
<1>10. ASSUME NEW k \in Kind, BackgroundClose(k) PROVE SlotInv'
  <2>1. /\ k \in background /\ Drained(k) /\ Disconnect(ClientsOf(k))
        /\ background' = background \ {k} /\ pool' = [pool EXCEPT ![k] = "closed"]
        /\ UNCHANGED <<closeAt, closeErr>>
    BY <1>10 DEF BackgroundClose
  <2>2. /\ connected' \subseteq connected /\ \A s \in connected' : s[1] # k
        /\ opened' = [x \in Slot |-> IF x \in connected' THEN 1 ELSE 0]
    BY <1>1, <2>1, PoolDisconnects
  <2>3. \A s \in Leased : s[1] # k
    BY <2>1, DrainedIs
  <2>4. pool'[k] = "closed" /\ \A j \in Kind \ {k} : pool'[j] = pool[j]
    BY <1>3, <2>1
  <2>5. ClosingInv'
    <3>1. \A j \in background' : pool'[j] = "closing"
      BY <1>3, <2>1, <2>4
    <3>2. \A s \in connected' : pool'[s[1]] # "closed"
      BY <1>3, <2>2, <2>4
    <3>3. ASSUME NEW i \in 1..Len(PoolOrder)
          PROVE  /\ closeAt < i => pool'[PoolOrder[i]] = "open"
                 /\ closeAt = i => pool'[PoolOrder[i]] = "closing" /\ PoolOrder[i] \notin background'
                 /\ closeAt > i =>
                      \/ pool'[PoolOrder[i]] = "closed"
                      \/ pool'[PoolOrder[i]] = "closing" /\ PoolOrder[i] \in background' /\ closeErr
      <4>1. CASE PoolOrder[i] = k
        <5>1. pool[PoolOrder[i]] = "closing" /\ ~(closeAt < i) /\ closeAt # i
          BY <1>3, <1>4, <2>1, <4>1
        <5>. QED BY <2>4, <4>1, <5>1
      <4>2. CASE PoolOrder[i] # k
        BY <1>4, <2>1, <2>4, <4>2
      <4>. QED BY <4>1, <4>2
    <3>. QED BY <1>2, <2>1, <3>1, <3>2, <3>3 DEF ClosingInv
  <2>6. pool' \in [Kind -> {"absent", "building", "open", "closing", "closed"}]
    BY <1>3, <2>1
  <2>7. \A s \in Leased : pool'[s[1]] \in {"open", "closing"}
    BY <1>3, <2>3, <2>4
  <2>. QED BY <1>3, <1>5, <2>1, <2>2, <2>5, <2>6, <2>7 DEF SlotInv, ProviderTypeOK
<1>. QED BY <1>6, <1>7, <1>8, <1>9, <1>10 DEF CloseStep

-----------------------------------------------------------------------------
(* The invariant says all of ConnectionsOwned.                               *)
LEMMA OwnedThen == SlotInv => ConnectionsOwned
<1> SUFFICES ASSUME SlotInv PROVE ConnectionsOwned
  OBVIOUS
<1> USE Places
<1>1. \A s \in Slot : opened[s] = IF s \in connected THEN 1 ELSE 0
  BY DEF SlotInv, ProviderTypeOK
<1>2. ASSUME NEW s \in connected PROVE pool[s[1]] \in {"building", "open", "closing"}
  <2>1. s[1] \in Kind /\ pool[s[1]] # "closed"
    BY DEF SlotInv, ProviderTypeOK, AnySlot, ClosingInv
  <2>2. pool[s[1]] # "absent"
    <3>1. CASE build = "selecting"
      BY <3>1 DEF SlotInv, BuildInv
    <3>2. CASE Constructing
      BY <3>2 DEF SlotInv, BuildInv
    <3>3. CASE build = "ready"
      <4>1. PICK i \in 1..Len(PoolOrder) : PoolOrder[i] = s[1]
        BY <2>1
      <4>2. closeAt < i \/ closeAt = i \/ closeAt > i
        BY DEF SlotInv, ProviderTypeOK
      <4>. QED BY <3>3, <4>1, <4>2 DEF SlotInv, ClosingInv
    <3>4. CASE build = "failed"
      BY <3>4 DEF SlotInv, BuildInv
    <3>. QED BY <3>1, <3>2, <3>3, <3>4 DEF SlotInv, ProviderTypeOK, Constructing
  <2>. QED BY <2>1, <2>2 DEF SlotInv, ProviderTypeOK
<1>3. build = "failed" => connected = {}
  BY DEF SlotInv, BuildInv
<1>4. \A s \in Leased : pool[s[1]] \in {"open", "closing"}
  BY LeasedIs DEF SlotInv, LeasesInv
<1>5. ASSUME closeAt > Len(PoolOrder), ~closeErr PROVE connected = {}
  <2>1. build = "ready"
    BY <1>5 DEF SlotInv, BuildInv
  <2>2. \A i \in 1..Len(PoolOrder) : pool[PoolOrder[i]] = "closed"
    BY <1>5, <2>1 DEF SlotInv, ClosingInv, ProviderTypeOK
  <2>3. \A s \in connected : s[1] \in Kind /\ pool[s[1]] # "closed"
    BY DEF SlotInv, ProviderTypeOK, AnySlot, ClosingInv
  <2>. QED BY <2>2, <2>3
<1>. QED BY <1>1, <1>2, <1>3, <1>4, <1>5 DEF ConnectionsOwned

(* Every step keeps it.                                                      *)
LEMMA SlotsKept == SlotInv /\ [Next]_vars => SlotInv'
<1> SUFFICES ASSUME SlotInv, [Next]_vars PROVE SlotInv'
  OBVIOUS
<1>1. CASE BuildStep \/ BuildCtxEnds
  BY <1>1, BuildKeeps
<1>2. ASSUME NEW w \in Worker,
             (\E k \in Asked : Request(w, k)) \/ RequestCtxEnds(w) \/ WorkStep(w)
      PROVE  SlotInv'
  BY <1>2, WorkKeeps
<1>3. CASE BeginClose \/ CloseCtxEnds \/ CloseStep
  BY <1>3, CloseKeeps
<1>4. CASE UNCHANGED vars
  BY <1>4 DEF SlotInv, ProviderTypeOK, BuildInv, Constructing, LeasesInv, Fits, Infers, Current,
              ClosingInv, kind, vars, buildVars, workVars, closeVars
<1>. QED BY <1>1, <1>2, <1>3, <1>4 DEF Next

-----------------------------------------------------------------------------
(* The selection of hosts *)

(* A slice without repetition has as many elements as it is long             *)
(* (uniqueNonEmptyHosts, the results of probeLiveHosts).                     *)
LEMMA InjectiveLength ==
  ASSUME NEW S, NEW s \in Seq(S), IsInjective(s)
  PROVE  IsFiniteSet(ToSet(s)) /\ Cardinality(ToSet(s)) = Len(s)
<1>1. s \in Surjection(1..Len(s), ToSet(s)) /\ s \in Injection(1..Len(s), ToSet(s))
  BY DEF Surjection, Injection, IsInjective, ToSet
<1>2. Len(s) \in Nat /\ IsFiniteSet(1..Len(s)) /\ Cardinality(1..Len(s)) = Len(s)
  <2>1. Len(s) \in Nat
    OBVIOUS
  <2>. QED BY <2>1, FS_Interval
<1>. QED BY <1>1, <1>2, FS_Surjection

(* What the hosts of a kind are: the configured ones that are not empty,     *)
(* each once (uniqueNonEmptyHosts).                                          *)
LEMMA UniqueHosts ==
  ASSUME NEW hosts, hosts \in Seq(ToSet(hosts))
  PROVE  /\ uniqueNonEmptyHosts(hosts) \in Seq(ToSet(hosts))
         /\ ToSet(uniqueNonEmptyHosts(hosts)) = ToSet(hosts) \ {NoHost}
         /\ IsInjective(uniqueNonEmptyHosts(hosts))
<1> DEFINE first == {i \in DOMAIN hosts : /\ hosts[i] # NoHost
                                          /\ \A j \in 1..(i - 1) : hosts[j] # hosts[i]}
<1>1. uniqueNonEmptyHosts(hosts) = Kept(hosts, first)
  BY DEF uniqueNonEmptyHosts
<1>2. DOMAIN hosts = 1..Len(hosts) /\ Len(hosts) \in Nat
  OBVIOUS
<1>3. \A i, j \in first \cap 1..Len(hosts) : hosts[i] = hosts[j] => i = j
  <2> SUFFICES ASSUME NEW i \in first \cap 1..Len(hosts), NEW j \in first \cap 1..Len(hosts),
                      hosts[i] = hosts[j]
               PROVE  i = j
    OBVIOUS
  <2>1. ~(i < j) /\ ~(j < i)
    BY <1>2
  <2>. QED BY <1>2, <2>1
<1>4. {hosts[i] : i \in first \cap 1..Len(hosts)} = ToSet(hosts) \ {NoHost}
  <2>1. ASSUME NEW h \in ToSet(hosts) \ {NoHost}
        PROVE  \E i \in first \cap 1..Len(hosts) : hosts[i] = h
    <3> DEFINE T == {i \in 1..Len(hosts) : hosts[i] = h}
    <3>1. T # {} /\ T \in SUBSET Nat
      BY <1>2, <2>1 DEF ToSet
    <3>2. PICK m \in T : \A k \in T : m <= k
      <4> HIDE DEF T
      <4>. QED BY <3>1, LeastNatural
    <3>3. \A j \in 1..(m - 1) : hosts[j] # hosts[m]
      BY <1>2, <3>2
    <3>. QED BY <1>2, <2>1, <3>2, <3>3
  <2>2. \A i \in first \cap 1..Len(hosts) : hosts[i] \in ToSet(hosts) \ {NoHost}
    BY <1>2 DEF ToSet
  <2> HIDE DEF first
  <2>. QED BY <2>1, <2>2
<1> HIDE DEF first
<1>5. /\ Kept(hosts, first) \in Seq(ToSet(hosts))
      /\ ToSet(Kept(hosts, first)) = {hosts[i] : i \in first \cap 1..Len(hosts)}
  BY KeptElements
<1>6. IsInjective(Kept(hosts, first))
  BY <1>3, KeptDiffer DEF IsInjective
<1>. QED BY <1>1, <1>4, <1>5, <1>6

(* A choice of hosts, of which some could be reached, that HostsChosen        *)
(* allows for kind k.                                                        *)
ChoiceFor(k, hosts, reached) ==
  LET configured == ToSet(ConfigHosts[k]) \ {NoHost}
  IN  /\ hosts \in Seq(configured) /\ IsInjective(hosts)
      /\ configured # {} => hosts # <<>>
      /\ MaxHosts > 0 => Len(hosts) <= MaxHosts
      /\ reached # {} => ToSet(hosts) \subseteq reached

Chosen(k) == ChoiceFor(k, selected[k], reachable[k])

(* While hosts are selected, those of the kinds before are chosen, and kinds *)
(* with the same hosts have the same choice.                                 *)
SelectionInv ==
  /\ DOMAIN selected = Kind /\ DOMAIN reachable = Kind
  /\ kindNo \in 1..Len(PoolOrder) /\ build \in {"selecting", "creating", "ready", "failing", "failed"}
  /\ build = "selecting" =>
       \A i \in 1..Len(PoolOrder) :
         IF i < kindNo THEN Chosen(PoolOrder[i])
         ELSE selected[PoolOrder[i]] = <<>> /\ reachable[PoolOrder[i]] = {}
  /\ build = "creating" => \A k \in Kind : Chosen(k)
  /\ build \in {"selecting", "creating"} =>
       \A j, k \in Kind \ {"mac"} :
         selected[j] # <<>> /\ selected[k] # <<>> /\ hostsOf(j) = hostsOf(k) =>
           selected[j] = selected[k]

(* In the beginning no host is selected.                                     *)
LEMMA SelectionInitially == Init => SelectionInv
  BY Places DEF Init, SelectionInv

(* The first MaxHosts of some hosts are hosts of those, each once, and there *)
(* is one if there was one (selectLiveHosts, selectLimitedHosts).            *)
LEMMA FirstHostsAre ==
  ASSUME NEW S, NEW hosts \in Seq(S), IsInjective(hosts), MaxHosts > 0
  PROVE  LET first == FirstHosts(hosts)
         IN  /\ first \in Seq(S) /\ IsInjective(first) /\ Len(first) <= MaxHosts
             /\ ToSet(first) \subseteq ToSet(hosts)
             /\ hosts # <<>> => first # <<>>
<1> DEFINE n == IF MaxHosts < Len(hosts) THEN MaxHosts ELSE Len(hosts)
           first == SubSeq(hosts, 1, n)
<1>1. n \in 0..Len(hosts) /\ n <= MaxHosts /\ (hosts # <<>> => n # 0)
  BY MaxHostsAssumption
<1> HIDE DEF n
<1>2. first \in Seq(S) /\ Len(first) = n /\ \A i \in 1..n : first[i] = hosts[i]
  BY <1>1
<1>3. DOMAIN first = 1..n /\ DOMAIN hosts = 1..Len(hosts)
  BY <1>2
<1>4. FirstHosts(hosts) = first
  BY DEF FirstHosts, n
<1> HIDE DEF first
<1>5. IsInjective(first) /\ ToSet(first) \subseteq ToSet(hosts)
  BY <1>1, <1>2, <1>3 DEF IsInjective, ToSet
<1>6. hosts # <<>> => first # <<>>
  BY <1>1, <1>2
<1>. QED BY <1>1, <1>2, <1>4, <1>5, <1>6

(* The configured hosts of a kind, without empty ones and duplicates.        *)
LEMMA HostsOfKind ==
  ASSUME NEW k \in Kind
  PROVE  LET configured == ToSet(ConfigHosts[k]) \ {NoHost}
         IN  /\ hostsOf(k) \in Seq(configured) /\ IsInjective(hostsOf(k))
             /\ ToSet(hostsOf(k)) = configured
             /\ configured # {} => hostsOf(k) # <<>>
<1> DEFINE hosts == hostsOf(k)
           configured == ToSet(ConfigHosts[k]) \ {NoHost}
<1>1. hosts \in Seq(ToSet(ConfigHosts[k])) /\ IsInjective(hosts) /\ ToSet(hosts) = configured
  BY UniqueHosts, ProviderAssumption DEF hostsOf
<1> HIDE DEF hosts, configured
<1>2. \A i \in 1..Len(hosts) : hosts[i] \in configured
  BY <1>1 DEF ToSet
<1>3. hosts \in Seq(configured)
  BY <1>1, <1>2
<1>4. hosts = <<>> => configured = {}
  BY <1>1 DEF ToSet
<1>. QED BY <1>1, <1>3, <1>4 DEF hosts, configured

(* What selectLiveHosts takes of the hosts of a kind, whichever of them      *)
(* could be reached and however fast they answered.                          *)
LEMMA LiveHostsAre ==
  ASSUME NEW k \in Kind, NEW done, NEW reached \in SUBSET ToSet(hostsOf(k)),
         ~(NeedsProbe(hostsOf(k)) /\ ~done) => reached = {},
         NEW order \in Orders(reached)
  PROVE  ChoiceFor(k, selectLiveHosts(hostsOf(k), done, order), reached)
<1> DEFINE hosts == hostsOf(k)
           configured == ToSet(ConfigHosts[k]) \ {NoHost}
<1>1. /\ hosts \in Seq(configured) /\ IsInjective(hosts) /\ ToSet(hosts) = configured
      /\ configured # {} => hosts # <<>>
  BY HostsOfKind
<1>2. CASE ~NeedsProbe(hosts)
  <2>1. selectLiveHosts(hosts, done, order) = hosts /\ reached = {}
    BY <1>2 DEF selectLiveHosts
  <2>2. MaxHosts > 0 => Len(hosts) <= MaxHosts
    BY <1>1, <1>2, MaxHostsAssumption DEF NeedsProbe
  <2>. QED BY <1>1, <2>1, <2>2 DEF ChoiceFor
<1>3. CASE NeedsProbe(hosts)
  <2>1. MaxHosts > 0 /\ hosts # <<>>
    BY <1>1, <1>3, MaxHostsAssumption DEF NeedsProbe
  <2>2. order \in Seq(reached) /\ IsInjective(order) /\ (order = <<>> => reached = {})
    <3>1. IsFiniteSet(reached) /\ Cardinality(reached) \in Nat
      BY <1>1, InjectiveLength, FS_Subset, FS_CardinalityType
    <3>2. order \in [1..Cardinality(reached) -> reached] /\ IsInjective(order)
      BY DEF Orders, SetToSeqs, IsInjective
    <3>3. order \in Seq(reached) /\ Len(order) = Cardinality(reached)
      BY <3>1, <3>2
    <3>4. Cardinality(reached) = 0 => reached = {}
      BY <3>1, FS_EmptySet
    <3>. QED BY <3>2, <3>3, <3>4
  <2>3. CASE done \/ order = <<>>
    <3>1. selectLiveHosts(hosts, done, order) = FirstHosts(hosts) /\ reached = {}
      BY <1>3, <2>2, <2>3 DEF selectLiveHosts
    <3> HIDE DEF hosts, configured
    <3>2. ChoiceFor(k, FirstHosts(hosts), {})
      BY <1>1, <2>1, FirstHostsAre DEF ChoiceFor, configured
    <3>. QED BY <3>1, <3>2 DEF hosts
  <2>4. CASE ~done /\ order # <<>>
    <3>1. selectLiveHosts(hosts, done, order) = FirstHosts(order)
      BY <1>3, <2>4 DEF selectLiveHosts
    <3> DEFINE first == FirstHosts(order)
    <3>2. /\ first \in Seq(reached) /\ IsInjective(first) /\ Len(first) <= MaxHosts
          /\ first # <<>>
      BY <2>1, <2>2, <2>4, FirstHostsAre
    <3> HIDE DEF first
    <3>3. reached \subseteq configured
      BY <1>1
    <3>4. first \in Seq(configured) /\ ToSet(first) \subseteq reached
      BY <3>2, <3>3 DEF ToSet
    <3>. QED BY <3>1, <3>2, <3>4 DEF ChoiceFor, first
  <2>. QED BY <2>3, <2>4
<1>. QED BY <1>2, <1>3

(* What selectFor and selectLimitedHosts find for a kind: hosts it may be    *)
(* given, and the ones that another kind with the same hosts was given.      *)
LEMMA SelectFinds ==
  ASSUME SelectionInv, SelectHosts
  PROVE  \E hosts, reached :
           /\ Select(hosts, reached)
           /\ ChoiceFor(kind, hosts, reached)
           /\ kind # "mac" =>
                \A j \in Kind \ {"mac"} :
                  selected[j] # <<>> /\ hostsOf(j) = hostsOf(kind) => selected[j] = hosts
<1>1. kind \in Kind /\ kind = PoolOrder[kindNo] /\ kindNo \in 1..Len(PoolOrder)
  BY Places DEF kind, SelectionInv
<1>2. \A j \in Kind : selected[j] # <<>> => Chosen(j)
  <2> TAKE j \in Kind
  <2>1. PICK i \in 1..Len(PoolOrder) : PoolOrder[i] = j
    BY Places
  <2>. QED BY <2>1 DEF SelectHosts, SelectionInv
<1>3. CASE kind = "mac"
  <2> DEFINE hosts == selectLimitedHosts(ConfigHosts[kind])
             unique == hostsOf(kind)
             configured == ToSet(ConfigHosts[kind]) \ {NoHost}
  <2>1. Select(hosts, {})
    BY <1>3 DEF SelectHosts
  <2>2. /\ unique \in Seq(configured) /\ IsInjective(unique)
        /\ configured # {} => unique # <<>>
    BY <1>1, HostsOfKind
  <2>3. hosts = IF MaxHosts > 0 THEN FirstHosts(unique) ELSE unique
    BY DEF selectLimitedHosts, hostsOf
  <2> HIDE DEF hosts, unique
  <2>4. ChoiceFor(kind, hosts, {})
    <3>1. CASE MaxHosts > 0
      <4>1. LET first == FirstHosts(unique)
            IN  /\ first \in Seq(configured) /\ IsInjective(first) /\ Len(first) <= MaxHosts
                /\ unique # <<>> => first # <<>>
        <5> HIDE DEF configured
        <5>. QED BY <2>2, <3>1, FirstHostsAre
      <4>. QED BY <2>2, <2>3, <3>1, <4>1 DEF ChoiceFor
    <3>2. CASE ~(MaxHosts > 0)
      BY <2>2, <2>3, <3>2 DEF ChoiceFor
    <3>. QED BY <3>1, <3>2
  <2>. QED BY <1>3, <2>1, <2>4
<1>4. CASE kind # "mac" /\ SelectedBefore(kind) # {}
  <2>1. PICK j \in SelectedBefore(kind) : Select(selected[j], reachable[j])
    BY <1>4 DEF SelectHosts
  <2>2. j \in Kind \ {"mac"} /\ selected[j] # <<>> /\ hostsOf(j) = hostsOf(kind)
    BY DEF SelectedBefore
  <2>3. ToSet(ConfigHosts[j]) \ {NoHost} = ToSet(ConfigHosts[kind]) \ {NoHost}
    BY <1>1, <2>2, HostsOfKind
  <2>4. ChoiceFor(kind, selected[j], reachable[j])
    BY <1>2, <2>2, <2>3 DEF Chosen, ChoiceFor
  <2>5. \A i \in Kind \ {"mac"} :
          selected[i] # <<>> /\ hostsOf(i) = hostsOf(kind) => selected[i] = selected[j]
    BY <2>2 DEF SelectionInv, SelectHosts
  <2>. QED BY <2>1, <2>4, <2>5
<1>5. CASE kind # "mac" /\ SelectedBefore(kind) = {}
  <2> DEFINE hosts == hostsOf(kind)
             Probed == IF NeedsProbe(hosts) /\ ~buildCtxDone THEN SUBSET ToSet(hosts) ELSE {{}}
  <2>1. PICK reached \in Probed : \E order \in Orders(reached) :
          Select(selectLiveHosts(hosts, buildCtxDone, order), reached)
    BY <1>5 DEF SelectHosts
  <2>2. PICK order \in Orders(reached) :
          Select(selectLiveHosts(hosts, buildCtxDone, order), reached)
    BY <2>1
  <2>3. /\ reached \in SUBSET ToSet(hosts)
        /\ ~(NeedsProbe(hosts) /\ ~buildCtxDone) => reached = {}
    OBVIOUS
  <2>4. ChoiceFor(kind, selectLiveHosts(hosts, buildCtxDone, order), reached)
    BY <1>1, <2>3, LiveHostsAre
  <2>5. \A j \in Kind \ {"mac"} : ~(selected[j] # <<>> /\ hostsOf(j) = hostsOf(kind))
    BY <1>5 DEF SelectedBefore
  <2>. QED BY <2>2, <2>4, <2>5
<1>. QED BY <1>3, <1>4, <1>5

(* Selecting keeps that the hosts selected so far are chosen well.           *)
LEMMA SelectionGrows ==
  ASSUME SelectionInv, SelectHosts
  PROVE  SelectionInv'
<1>1. PICK hosts, reached :
        /\ Select(hosts, reached)
        /\ ChoiceFor(kind, hosts, reached)
        /\ kind # "mac" =>
             \A j \in Kind \ {"mac"} :
               selected[j] # <<>> /\ hostsOf(j) = hostsOf(kind) => selected[j] = hosts
  BY SelectFinds
<1>2. /\ build = "selecting" /\ kind \in Kind /\ kind = PoolOrder[kindNo]
      /\ kindNo \in 1..Len(PoolOrder)
      /\ DOMAIN selected = Kind /\ DOMAIN reachable = Kind
  BY Places DEF SelectHosts, SelectionInv, kind
<1>3. /\ selected'[kind] = hosts /\ reachable'[kind] = reached
      /\ \A k \in Kind \ {kind} : selected'[k] = selected[k] /\ reachable'[k] = reachable[k]
      /\ DOMAIN selected' = Kind /\ DOMAIN reachable' = Kind
  BY <1>1, <1>2 DEF Select
<1>4. \/ kindNo = Len(PoolOrder) /\ build' = "creating" /\ kindNo' = 1
      \/ kindNo # Len(PoolOrder) /\ build' = "selecting" /\ kindNo' = kindNo + 1
  BY <1>1, <1>2 DEF Select, NextKindOr
<1>5. kindNo' \in 1..Len(PoolOrder) /\ build' \in {"selecting", "creating"}
  BY <1>2, <1>4, Places
<1>6. \A i \in 1..kindNo : Chosen(PoolOrder[i])'
  <2> TAKE i \in 1..kindNo
  <2>1. i \in 1..Len(PoolOrder) /\ PoolOrder[i] \in Kind
    BY <1>2, Places
  <2>2. CASE i = kindNo
    BY <1>1, <1>2, <1>3, <2>2 DEF Chosen, ChoiceFor
  <2>3. CASE i < kindNo
    <3>1. Chosen(PoolOrder[i]) /\ PoolOrder[i] # kind
      BY <1>2, <2>1, <2>3, Places DEF SelectionInv
    <3>. QED BY <1>3, <2>1, <3>1 DEF Chosen, ChoiceFor
  <2>. QED BY <1>2, <2>2, <2>3
<1>7. ASSUME NEW i \in 1..Len(PoolOrder), i > kindNo
      PROVE  selected'[PoolOrder[i]] = <<>> /\ reachable'[PoolOrder[i]] = {}
  <2>1. PoolOrder[i] \in Kind \ {kind}
    BY <1>2, <1>7, Places
  <2>. QED BY <1>2, <1>3, <1>7, <2>1 DEF SelectionInv
<1>8. build' = "selecting" =>
        \A i \in 1..Len(PoolOrder) :
          IF i < kindNo' THEN Chosen(PoolOrder[i])'
          ELSE selected'[PoolOrder[i]] = <<>> /\ reachable'[PoolOrder[i]] = {}
  BY <1>2, <1>4, <1>6, <1>7
<1>9. ASSUME build' = "creating", NEW k \in Kind PROVE Chosen(k)'
  <2>1. PICK i \in 1..Len(PoolOrder) : PoolOrder[i] = k
    BY Places
  <2>. QED BY <1>2, <1>4, <1>6, <1>9, <2>1
<1>10. ASSUME NEW j \in Kind \ {"mac"}, NEW k \in Kind \ {"mac"},
              selected'[j] # <<>>, selected'[k] # <<>>, hostsOf(j) = hostsOf(k)
       PROVE  selected'[j] = selected'[k]
  BY <1>1, <1>2, <1>3, <1>10 DEF SelectionInv
<1>. QED BY <1>3, <1>5, <1>8, <1>9, <1>10 DEF SelectionInv, hostsOf

(* Chosen as they are, the hosts are what HostsChosen asks for.              *)
LEMMA ChosenThen == SelectionInv => HostsChosen
<1> SUFFICES ASSUME SelectionInv, build = "creating", NEW k \in Kind
             PROVE  LET chosen == ToSet(selected[k])
                        configured == ToSet(ConfigHosts[k]) \ {NoHost}
                    IN  /\ chosen \subseteq configured
                        /\ configured # {} => chosen # {}
                        /\ Cardinality(chosen) = Len(selected[k])
                        /\ MaxHosts > 0 => Len(selected[k]) <= MaxHosts
                        /\ reachable[k] # {} => chosen \subseteq reachable[k]
                        /\ \A j \in Kind \ {"mac"} :
                             k # "mac" /\ hostsOf(j) = hostsOf(k) => selected[j] = selected[k]
  BY DEF HostsChosen
<1>1. Chosen(k)
  BY DEF SelectionInv
<1>2. ToSet(selected[k]) \subseteq ToSet(ConfigHosts[k]) \ {NoHost}
  BY <1>1 DEF Chosen, ChoiceFor, ToSet
<1>3. ToSet(ConfigHosts[k]) \ {NoHost} # {} => ToSet(selected[k]) # {}
  <2> SUFFICES ASSUME ToSet(ConfigHosts[k]) \ {NoHost} # {} PROVE ToSet(selected[k]) # {}
    OBVIOUS
  <2>1. selected[k] \in Seq(ToSet(ConfigHosts[k]) \ {NoHost}) /\ selected[k] # <<>>
    BY <1>1 DEF Chosen, ChoiceFor
  <2>2. 1 \in DOMAIN selected[k]
    BY <2>1
  <2>. QED BY <2>2 DEF ToSet
<1>4. Cardinality(ToSet(selected[k])) = Len(selected[k])
  BY <1>1, InjectiveLength DEF Chosen, ChoiceFor
<1>5. ASSUME NEW j \in Kind \ {"mac"}, k # "mac", hostsOf(j) = hostsOf(k)
      PROVE  selected[j] = selected[k]
  <2>1. Chosen(j)
    BY DEF SelectionInv
  <2>2. ToSet(ConfigHosts[j]) \ {NoHost} = ToSet(ConfigHosts[k]) \ {NoHost}
    BY <1>5, HostsOfKind
  <2>3. CASE selected[j] # <<>> /\ selected[k] # <<>>
    BY <1>5, <2>3 DEF SelectionInv
  <2>4. CASE selected[j] = <<>> \/ selected[k] = <<>>
    <3>1. ToSet(ConfigHosts[k]) \ {NoHost} = {}
      BY <1>1, <2>1, <2>2, <2>4 DEF Chosen, ChoiceFor
    <3>2. selected[j] \in Seq({}) /\ selected[k] \in Seq({})
      BY <1>1, <2>1, <2>2, <3>1 DEF Chosen, ChoiceFor
    <3>. QED BY <3>2
  <2>. QED BY <2>3, <2>4
<1>. QED BY <1>1, <1>2, <1>3, <1>4, <1>5 DEF Chosen, ChoiceFor

(* Every step keeps the choice.                                              *)
LEMMA SelectionKept == SelectionInv /\ [Next]_vars => SelectionInv'
<1> SUFFICES ASSUME SelectionInv, [Next]_vars PROVE SelectionInv'
  OBVIOUS
<1>1. CASE SelectHosts
  BY <1>1, SelectionGrows
<1>2. ASSUME UNCHANGED <<kindNo, selected, reachable>>,
             build' = build \/ (build \in {"selecting", "creating"} /\ build' = "failing")
      PROVE  SelectionInv'
  BY <1>2 DEF SelectionInv, Chosen, ChoiceFor, hostsOf
<1>3. CASE CreateClient \/ PoolFails \/ BuildCtxEnds
  <2>1. UNCHANGED <<kindNo, selected, reachable>>
    BY <1>3 DEF CreateClient, PoolFails, BuildCtxEnds
  <2>2. build' = build \/ (build \in {"selecting", "creating"} /\ build' = "failing")
    BY <1>3 DEF CreateClient, PoolFails, AllCreated, BuildCtxEnds
  <2>. QED BY <1>2, <2>1, <2>2
<1>4. CASE PoolReady
  <2>1. build = "creating" /\ kindNo \in 1..Len(PoolOrder)
    BY <1>4 DEF PoolReady, AllCreated, SelectionInv
  <2>2. CASE kindNo = Len(PoolOrder)
    <3>1. build' = "ready" /\ kindNo' = 1 /\ DOMAIN selected' = Kind /\ DOMAIN reachable' = Kind
      BY <1>4, <2>2 DEF PoolReady, NextKindOr, Forget
    <3>. QED BY <3>1, Places DEF SelectionInv
  <2>3. CASE kindNo # Len(PoolOrder)
    <3>1. build' = build /\ kindNo' = kindNo + 1 /\ UNCHANGED <<selected, reachable>>
      BY <1>4, <2>3 DEF PoolReady, NextKindOr
    <3>2. kindNo' \in 1..Len(PoolOrder)
      BY <2>1, <2>3, <3>1, Places
    <3>. QED BY <2>1, <3>1, <3>2 DEF SelectionInv, Chosen, ChoiceFor, hostsOf
  <2>. QED BY <2>2, <2>3
<1>5. CASE CleanUp
  <2>1. build' = "failed" /\ kindNo' = 1 /\ DOMAIN selected' = Kind /\ DOMAIN reachable' = Kind
    BY <1>5 DEF CleanUp, Forget
  <2>. QED BY <2>1, Places DEF SelectionInv
<1>6. ASSUME UNCHANGED buildVars PROVE SelectionInv'
  BY <1>2, <1>6 DEF buildVars
<1>7. ASSUME NEW w \in Worker,
             (\E k \in Asked : Request(w, k)) \/ RequestCtxEnds(w) \/ WorkStep(w)
      PROVE  UNCHANGED buildVars
  BY <1>7 DEF Request, RequestCtxEnds, WorkStep, Acquire, Refused, CallStep, LookFails, EnterClient, Answers,
              FirstCallFails, Reconnects, SecondCallFails, ReportFailure, NextPage, DataArrives,
              MacAnswers, ReturnDay, workUnchanged
<1>8. CASE BeginClose \/ CloseCtxEnds \/ CloseStep
  <2>1. UNCHANGED buildVars
    BY <1>8 DEF BeginClose, CloseCtxEnds, CloseStep, ClosePool, PoolTimesOut, BackgroundClose,
                closeUnchanged
  <2>. QED BY <1>6, <2>1
<1>9. CASE UNCHANGED vars
  BY <1>6, <1>9 DEF vars
<1>. QED BY <1>1, <1>3, <1>4, <1>5, <1>6, <1>7, <1>8, <1>9 DEF Next, BuildStep

(* The pools are built on hosts that are configured, each once, on ones that *)
(* could be reached if any could, and pools with the same hosts on the same  *)
(* choice (selectFor, selectLiveHosts, provider.go).                         *)
THEOREM HostsAreChosen == Spec => []HostsChosen
  BY SelectionInitially, SelectionKept, ChosenThen, PTL DEF Spec

-----------------------------------------------------------------------------
(* The slots *)

(* The slots that clients and connections are of have a number in Slot.      *)
NumbersInv == clients \subseteq Slot /\ connected \subseteq Slot

(* The product grows with its factor.                                        *)
LEMMA ProductGrows ==
  ASSUME NEW m \in Nat, NEW n \in Nat, NEW c \in Nat, m <= n
  PROVE  m * c <= n * c
  OBVIOUS

(* No more hosts are selected than configured (selectFor).                   *)
LEMMA FewerSelected ==
  ASSUME SelectionInv, build = "creating", NEW k \in Kind
  PROVE  Len(selected[k]) \in Nat /\ Len(selected[k]) <= Len(ConfigHosts[k])
<1> DEFINE configured == ToSet(ConfigHosts[k])
<1>1. selected[k] \in Seq(configured \ {NoHost}) /\ IsInjective(selected[k])
  BY DEF SelectionInv, Chosen, ChoiceFor
<1>2. ConfigHosts[k] \in Seq(configured) /\ Len(ConfigHosts[k]) \in Nat
  BY ProviderAssumption
<1>3. Cardinality(ToSet(selected[k])) = Len(selected[k])
  BY <1>1, InjectiveLength
<1>4. ToSet(selected[k]) \subseteq configured
  BY <1>1 DEF ToSet
<1>5. IsFiniteSet(configured) /\ Cardinality(configured) <= Len(ConfigHosts[k])
  <2>1. ConfigHosts[k] \in Surjection(1..Len(ConfigHosts[k]), configured)
    BY <1>2 DEF Surjection, ToSet
  <2>2. /\ IsFiniteSet(1..Len(ConfigHosts[k]))
        /\ Cardinality(1..Len(ConfigHosts[k])) = Len(ConfigHosts[k])
    <3> DEFINE n == Len(ConfigHosts[k])
    <3>1. n \in Nat
      BY <1>2
    <3> HIDE DEF n
    <3>2. IsFiniteSet(1..n) /\ Cardinality(1..n) = n
      BY <3>1, FS_Interval
    <3>. QED BY <3>2 DEF n
  <2>. QED BY <2>1, <2>2, FS_Surjection
<1>6. Cardinality(ToSet(selected[k])) <= Cardinality(configured)
  BY <1>4, <1>5, FS_Subset
<1>7. Len(selected[k]) \in Nat /\ Cardinality(configured) \in Nat
  BY <1>1, <1>5, FS_CardinalityType
<1>. QED BY <1>2, <1>3, <1>5, <1>6, <1>7

(* Clients are created, and connections made, within these numbers (NewPool, *)
(* connectLocked).                                                           *)
LEMMA NumbersKept ==
  ASSUME SlotInv, SelectionInv, NumbersInv, [Next]_vars
  PROVE  NumbersInv'
<1>1. CASE CreateClient
  <2> DEFINE s == <<kind, slotNo>>
  <2>1. /\ kind \in Kind /\ build = "creating" /\ slotNo \in Nat \ {0}
        /\ slotNo <= Len(selected[kind]) * ClientsPerHost[kind]
    BY <1>1, Places DEF CreateClient, SlotInv, ProviderTypeOK, kind
  <2>2. Len(selected[kind]) \in Nat /\ Len(selected[kind]) <= Len(ConfigHosts[kind])
    BY <2>1, FewerSelected
  <2>3. Len(ConfigHosts[kind]) \in Nat /\ ClientsPerHost[kind] \in Nat
    BY <2>1, ProviderAssumption
  <2>4. Len(selected[kind]) * ClientsPerHost[kind] <= Len(ConfigHosts[kind]) * ClientsPerHost[kind]
    BY <2>2, <2>3, ProductGrows
  <2>5. slotNo \in 1..Len(ConfigHosts[kind]) * ClientsPerHost[kind]
    BY <2>1, <2>2, <2>3, <2>4
  <2>6. s \in Slot
    BY <2>1, <2>5 DEF Slot
  <2>7. clients' \subseteq clients \cup {s} /\ connected' \subseteq connected \cup {s}
    BY <1>1 DEF CreateClient, Connect
  <2> HIDE DEF s
  <2>. QED BY <2>6, <2>7 DEF NumbersInv
<1>2. CASE SelectHosts \/ PoolReady \/ PoolFails \/ CleanUp \/ BuildCtxEnds \/ UNCHANGED vars
  <2>1. clients' = clients /\ connected' \subseteq connected
    <3>1. CASE SelectHosts
      BY <3>1, SelectIs
    <3>2. CASE PoolReady \/ PoolFails \/ BuildCtxEnds
      BY <3>2 DEF PoolReady, PoolFails, BuildCtxEnds
    <3>3. CASE CleanUp
      BY <3>3 DEF CleanUp, Disconnect
    <3>4. CASE UNCHANGED vars
      BY <3>4 DEF vars, buildVars
    <3>. QED BY <1>2, <3>1, <3>2, <3>3, <3>4
  <2>. QED BY <2>1 DEF NumbersInv
<1>3. ASSUME NEW w \in Worker,
             (\E k \in Asked : Request(w, k)) \/ RequestCtxEnds(w) \/ WorkStep(w)
      PROVE  NumbersInv'
  <2>1. CASE CallStep(w)
    <3>1. at[w] \in Inside /\ clients' = clients
      BY <2>1 DEF CallStep, LookFails, EnterClient, Answers, FirstCallFails, Reconnects,
                  SecondCallFails, Inside, workUnchanged, buildVars
    <3>2. Current(w) \in clients
      BY <3>1, CurrentIs DEF SlotInv, LeasesInv, Fits
    <3>3. connected' \subseteq connected \cup {Current(w)}
      BY <2>1 DEF CallStep, LookFails, EnterClient, Answers, FirstCallFails, Reconnects,
                  SecondCallFails, Connect, Disconnect
    <3>. QED BY <3>1, <3>2, <3>3 DEF NumbersInv
  <2>2. CASE ~CallStep(w)
    <3>1. UNCHANGED <<clients, connected>>
      BY <1>3, <2>2 DEF Request, RequestCtxEnds, WorkStep, Acquire, Refused, ReportFailure, NextPage,
                        DataArrives, MacAnswers, ReturnDay, workUnchanged, buildVars
    <3>. QED BY <3>1 DEF NumbersInv
  <2>. QED BY <2>1, <2>2
<1>4. CASE BeginClose \/ CloseCtxEnds \/ CloseStep
  <2>1. clients' = clients /\ connected' \subseteq connected
    BY <1>4 DEF BeginClose, CloseCtxEnds, CloseStep, ClosePool, PoolTimesOut, BackgroundClose,
                Disconnect, closeUnchanged, buildVars
  <2>. QED BY <2>1 DEF NumbersInv
<1>. QED BY <1>1, <1>2, <1>3, <1>4 DEF Next, BuildStep

(* No connection is lost track of, and none is left behind by a construction *)
(* that failed or by a Close that succeeded (provider.go, pool.go); and the  *)
(* slots for which that is said are all that there are connections of.       *)
THEOREM ConnectionsAreOwned == Spec => [](ConnectionsOwned /\ connected \subseteq Slot)
<1> DEFINE IInv == SlotInv /\ SelectionInv /\ NumbersInv
<1>1. Init => IInv
  <2>1. Init => NumbersInv
    BY DEF Init, NumbersInv
  <2>. QED BY <2>1, SlotInitially, SelectionInitially
<1>2. IInv /\ [Next]_vars => IInv'
  BY SlotsKept, SelectionKept, NumbersKept
<1>3. IInv => ConnectionsOwned /\ connected \subseteq Slot
  BY OwnedThen DEF NumbersInv
<1>. QED BY <1>1, <1>2, <1>3, PTL DEF Spec

-----------------------------------------------------------------------------
(* The previous trading day *)

EarlierThan(today, days) == {e \in days : e # NoDay /\ e < today}

(* What GetTradingDay knows at each place.  As long as it asks for bars it   *)
(* has heard of no earlier day, and has a symbol left to try.                *)
DayInv(w) ==
  LET d == day[w]
      earlier == EarlierThan(d.reply.today, d.heard)
  IN  /\ {d.reply.today, d.previous, d.tried} \subseteq Nat /\ d.heard \subseteq Nat
      /\ at[w] = "informed" =>
           /\ d.previous = IF earlier = {} THEN NoDay ELSE Max(earlier)
           /\ d.previous = NoDay => d.tried = CalendarSymbols
      /\ at[w] # "informed" /\ Infers(w) => earlier = {} /\ d.tried <= CalendarSymbols

DaysInv ==
  /\ DOMAIN at = Worker /\ DOMAIN day = Worker
  /\ \A w \in Worker : DayInv(w)

(* The latest of some days is the one the others do not exceed.              *)
LEMMA LatestIs ==
  ASSUME NEW T \in SUBSET Nat, NEW m \in T, \A k \in T : k <= m
  PROVE  Max(T) = m
<1> DEFINE Top(x) == \A y \in T : x >= y
<1>1. \E x \in T : Top(x)
  OBVIOUS
<1>2. Max(T) = CHOOSE x \in T : Top(x)
  BY DEF Max
<1> HIDE DEF Top
<1>3. Max(T) \in T /\ Top(Max(T))
  BY <1>1, <1>2
<1>4. Max(T) \in Nat /\ m \in Nat /\ Max(T) >= m /\ Max(T) <= m
  BY <1>3 DEF Top
<1>. QED BY <1>4

(* previousTradingDayFromBars of the bars of an answer: the latest day       *)
(* before today, and no day only if there is none.                           *)
LEMMA LatestInBars ==
  ASSUME NEW today \in Nat, NEW days \in SUBSET Nat, IsFiniteSet(days)
  PROVE  LET earlier == EarlierThan(today, days)
             previous == previousTradingDayFromBars(today, days)
         IN  /\ previous = IF earlier = {} THEN NoDay ELSE Max(earlier)
             /\ previous \in Nat /\ (previous = NoDay <=> earlier = {})
<1> DEFINE earlier == EarlierThan(today, days)
<1>1. previousTradingDayFromBars(today, days) = IF earlier = {} THEN NoDay ELSE Max(earlier)
  BY DEF previousTradingDayFromBars, EarlierThan
<1>2. ASSUME earlier # {} PROVE Max(earlier) \in earlier
  <2>1. earlier \in SUBSET Nat /\ IsFiniteSet(earlier)
    BY FS_Subset DEF EarlierThan
  <2> HIDE DEF earlier
  <2>2. PICK m \in earlier : \A k \in earlier : k <= m
    BY <1>2, <2>1, GreatestOfFinite
  <2>. QED BY <2>1, <2>2, LatestIs
<1>3. NoDay \in Nat /\ \A e \in earlier : e \in Nat /\ e # NoDay
  BY DEF EarlierThan, NoDay
<1> HIDE DEF earlier
<1>4. CASE earlier = {}
  BY <1>1, <1>3, <1>4 DEF earlier
<1>5. CASE earlier # {}
  BY <1>1, <1>2, <1>3, <1>5 DEF earlier
<1>. QED BY <1>4, <1>5

(* The bars of another symbol, or none: GetTradingDay is informed once one   *)
(* of them is earlier, or the last symbol has been tried.                    *)
LEMMA InferKnows ==
  ASSUME NEW w \in Worker, DaysInv, at[w] # "informed", Infers(w),
         NEW days \in SUBSET Nat, IsFiniteSet(days), Infer(w, days)
  PROVE  DayInv(w)'
<1> DEFINE today == day[w].reply.today
           previous == previousTradingDayFromBars(today, days)
           tried == day[w].tried
           done == previous # NoDay \/ tried = CalendarSymbols
           earlier == EarlierThan(today, days)
<1>1. /\ day'[w].reply = day[w].reply /\ day'[w].previous = previous
      /\ day'[w].tried = tried + (IF done THEN 0 ELSE 1)
      /\ day'[w].heard = day[w].heard \cup days
      /\ at'[w] = IF done THEN "informed" ELSE "acquiring"
  BY DEF Infer, DaysInv, Goto
<1>2. /\ day[w].heard \subseteq Nat /\ tried \in Nat /\ today \in Nat
      /\ EarlierThan(today, day[w].heard) = {} /\ tried <= CalendarSymbols
  BY DEF DaysInv, DayInv
<1>3. EarlierThan(today, day[w].heard \cup days) = earlier
  BY <1>2 DEF EarlierThan
<1>4. /\ previous = IF earlier = {} THEN NoDay ELSE Max(earlier)
      /\ previous \in Nat /\ (previous = NoDay <=> earlier = {})
  BY <1>2, LatestInBars
<1> HIDE DEF today, previous, tried, done, earlier
<1>5. /\ day'[w].reply.today = today
      /\ EarlierThan(day'[w].reply.today, day'[w].heard) = earlier
  BY <1>1, <1>3 DEF today
<1>6. CASE done
  <2>1. at'[w] = "informed" /\ day'[w].tried = tried
    BY <1>1, <1>2, <1>6
  <2>2. previous = NoDay => day'[w].tried = CalendarSymbols
    BY <1>6, <2>1 DEF done
  <2>3. {day'[w].reply.today, day'[w].previous, day'[w].tried} \subseteq Nat
    BY <1>1, <1>2, <1>4, <1>5, <2>1
  <2>. QED BY <1>1, <1>2, <1>4, <1>5, <2>1, <2>2, <2>3 DEF DayInv
<1>7. CASE ~done
  <2>1. at'[w] = "acquiring" /\ day'[w].tried = tried + 1
    BY <1>1, <1>2, <1>7
  <2>2. earlier = {} /\ tried + 1 <= CalendarSymbols
    BY <1>2, <1>4, <1>7 DEF done, CalendarSymbols
  <2>3. {day'[w].reply.today, day'[w].previous, day'[w].tried} \subseteq Nat
    BY <1>1, <1>2, <1>4, <1>5, <2>1
  <2>. QED BY <1>1, <1>2, <1>5, <2>1, <2>2, <2>3 DEF DayInv
<1>. QED BY <1>6, <1>7

(* The answer of a MAC server: it names the previous day, or it lacks it and *)
(* names no earlier day at all (tradingDayToDomain).                         *)
LEMMA MacKnows ==
  ASSUME NEW w \in Worker, DaysInv, at[w] = "answered", NEW reply \in Reply, Parses(reply),
         day' = [day EXCEPT ![w] =
                   [reply |-> reply, previous |-> PreviousInReply(reply),
                    tried |-> IF LacksPrevious(reply) THEN 1 ELSE 0,
                    heard |-> {reply.last, reply.last2}]],
         at' = [at EXCEPT ![w] = IF LacksPrevious(reply) THEN "acquiring" ELSE "informed"]
  PROVE  DayInv(w)'
<1> DEFINE earlier == EarlierThan(reply.today, {reply.last, reply.last2})
           previous == PreviousInReply(reply)
<1>1. /\ day'[w].reply = reply /\ day'[w].previous = previous
      /\ day'[w].tried = IF LacksPrevious(reply) THEN 1 ELSE 0
      /\ day'[w].heard = {reply.last, reply.last2}
      /\ at'[w] = IF LacksPrevious(reply) THEN "acquiring" ELSE "informed"
  BY DEF DaysInv
<1>2. /\ reply.today \in Nat /\ reply.last \in Nat /\ reply.last2 \in Nat
      /\ reply.last2 <= reply.last /\ reply.last <= reply.today
      /\ reply.today # 0 /\ reply.last # 0 /\ NoDay = 0
  BY AnswerAssumption DEF Parses, NoDay
<1>3. CASE reply.today # reply.last
  <2>1. previous = reply.last /\ ~LacksPrevious(reply)
    BY <1>3 DEF PreviousInReply, LacksPrevious, IsTodayTradingDay
  <2>2. /\ reply.last \in earlier /\ earlier \in SUBSET Nat
        /\ \A e \in earlier : e <= reply.last
    BY <1>2, <1>3 DEF EarlierThan
  <2>3. Max(earlier) = reply.last /\ earlier # {}
    <3> HIDE DEF earlier
    <3>. QED BY <2>2, LatestIs
  <2>4. /\ at'[w] = "informed" /\ day'[w].tried = 0 /\ day'[w].previous = reply.last
        /\ EarlierThan(day'[w].reply.today, day'[w].heard) = earlier /\ day'[w].reply = reply
    BY <1>1, <2>1
  <2> HIDE DEF earlier, previous
  <2>. QED BY <1>1, <1>2, <2>3, <2>4 DEF DayInv
<1>4. CASE reply.today = reply.last /\ reply.last2 # 0 /\ reply.last2 < reply.today
  <2>1. previous = reply.last2 /\ ~LacksPrevious(reply)
    BY <1>2, <1>4 DEF PreviousInReply, LacksPrevious, IsTodayTradingDay
  <2>2. /\ reply.last2 \in earlier /\ earlier \in SUBSET Nat
        /\ \A e \in earlier : e <= reply.last2
    BY <1>2, <1>4 DEF EarlierThan
  <2>3. Max(earlier) = reply.last2 /\ earlier # {}
    <3> HIDE DEF earlier
    <3>. QED BY <2>2, LatestIs
  <2>. QED BY <1>1, <1>2, <1>4, <2>1, <2>3 DEF DayInv
<1>5. CASE reply.today = reply.last /\ (reply.last2 = 0 \/ ~(reply.last2 < reply.today))
  <2>1. previous = NoDay /\ LacksPrevious(reply)
    BY <1>2, <1>5 DEF PreviousInReply, LacksPrevious, IsTodayTradingDay
  <2>2. earlier = {}
    BY <1>2, <1>5 DEF EarlierThan
  <2>. QED BY <1>1, <1>2, <2>1, <2>2 DEF DayInv, CalendarSymbols
<1>. QED BY <1>2, <1>3, <1>4, <1>5

(* A step of one request leaves what the others know.                        *)
LEMMA DaysKeep ==
  ASSUME NEW w \in Worker, DaysInv,
         (\E k \in Asked : Request(w, k)) \/ RequestCtxEnds(w) \/ WorkStep(w)
  PROVE  DaysInv'
<1>1. ASSUME NEW where, at' = [at EXCEPT ![w] = where], UNCHANGED day,
             at[w] # "informed", where # "informed"
      PROVE  DaysInv'
  BY <1>1 DEF DaysInv, DayInv, Infers
<1>2. ASSUME NEW where, NEW known, at' = [at EXCEPT ![w] = where],
             day' = [day EXCEPT ![w] = known], DayInv(w)'
      PROVE  DaysInv'
  <2>1. \A v \in Worker \ {w} : at'[v] = at[v] /\ day'[v] = day[v]
    BY <1>2 DEF DaysInv
  <2>2. \A v \in Worker \ {w} : DayInv(v)'
    BY <2>1 DEF DaysInv, DayInv, Infers
  <2>. QED BY <1>2, <2>2 DEF DaysInv
<1>3. ASSUME Return(w) PROVE DaysInv'
  <2>1. at'[w] = "idle" /\ day'[w] = NoAnswer
    BY <1>3 DEF Return, Goto, DaysInv
  <2>2. DayInv(w)'
    BY <2>1 DEF DayInv, Infers, NoAnswer, NoDay, EarlierThan
  <2>. QED BY <1>2, <1>3, <2>2 DEF Return, Goto
<1>4. ASSUME NEW days \in SUBSET Nat, IsFiniteSet(days), Infers(w), at[w] # "informed", Infer(w, days)
      PROVE  DaysInv'
  <2>1. DayInv(w)'
    BY <1>4, InferKnows
  <2>. QED BY <1>2, <1>4, <2>1 DEF Infer, Goto
<1>5. ASSUME CallFails(w), at[w] # "informed" PROVE DaysInv'
  <2>1. {} \in SUBSET Nat /\ IsFiniteSet({})
    BY FS_EmptySet
  <2>. QED BY <1>3, <1>4, <1>5, <2>1 DEF CallFails
<1>6. CASE \E k \in Asked : Request(w, k)
  BY <1>1, <1>6 DEF Request, Goto
<1>7. CASE RequestCtxEnds(w)
  BY <1>7 DEF RequestCtxEnds, DaysInv, DayInv, Infers
<1>8. CASE Acquire(w)
  BY <1>1, <1>8 DEF Acquire, Goto
<1>9. CASE Refused(w) \/ ReportFailure(w)
  BY <1>5, <1>9 DEF Refused, ReportFailure
<1>10. CASE CallStep(w)
  <2>1. \E where : at' = [at EXCEPT ![w] = where] /\ where # "informed"
    BY <1>10 DEF CallStep, LookFails, EnterClient, Answers, FirstCallFails, Reconnects, SecondCallFails, Goto
  <2>2. at[w] # "informed" /\ UNCHANGED day
    BY <1>10 DEF CallStep, LookFails, EnterClient, Answers, FirstCallFails, Reconnects, SecondCallFails
  <2>. QED BY <1>1, <2>1, <2>2
<1>11. CASE NextPage(w)
  BY <1>1, <1>11 DEF NextPage, Goto
<1>12. CASE DataArrives(w)
  BY <1>3, <1>4, <1>12, AnswerAssumption DEF DataArrives
<1>13. CASE MacAnswers(w)
  <2>1. PICK reply \in Reply :
          IF ~Parses(reply) THEN Return(w)
          ELSE /\ day' = [day EXCEPT ![w] =
                            [reply |-> reply, previous |-> PreviousInReply(reply),
                             tried |-> IF LacksPrevious(reply) THEN 1 ELSE 0,
                             heard |-> {reply.last, reply.last2}]]
               /\ Goto(w, IF LacksPrevious(reply) THEN "acquiring" ELSE "informed")
    BY <1>13 DEF MacAnswers
  <2>2. CASE ~Parses(reply)
    BY <1>3, <2>1, <2>2
  <2>3. CASE Parses(reply)
    <3>1. at[w] = "answered"
      BY <1>13 DEF MacAnswers
    <3>2. DayInv(w)'
      BY <2>1, <2>3, <3>1, MacKnows DEF Goto
    <3>. QED BY <1>2, <2>1, <2>3, <3>2 DEF Goto
  <2>. QED BY <2>2, <2>3
<1>14. CASE ReturnDay(w)
  BY <1>3, <1>14 DEF ReturnDay
<1>. QED BY <1>6, <1>7, <1>8, <1>9, <1>10, <1>11, <1>12, <1>13, <1>14 DEF WorkStep

(* The previous trading day that is returned is the latest one before today  *)
(* that the server or the bars named, and it is missing only after all three *)
(* symbols were tried (trading_day.go).                                      *)
THEOREM PreviousDaysAreLatest == Spec => []PreviousDayIsLatest
<1>1. Init => DaysInv
  BY DEF Init, DaysInv, DayInv, NoAnswer, NoDay, Infers
<1>2. DaysInv /\ [Next]_vars => DaysInv'
  <2> SUFFICES ASSUME DaysInv, [Next]_vars PROVE DaysInv'
    OBVIOUS
  <2>1. ASSUME NEW w \in Worker,
               (\E k \in Asked : Request(w, k)) \/ RequestCtxEnds(w) \/ WorkStep(w)
        PROVE  DaysInv'
    BY <2>1, DaysKeep
  <2>2. ASSUME UNCHANGED workVars PROVE DaysInv'
    BY <2>2 DEF workVars, DaysInv, DayInv, Infers
  <2>3. CASE BuildStep \/ BuildCtxEnds
    BY <2>2, <2>3 DEF BuildStep, BuildCtxEnds, SelectHosts, Select, CreateClient, PoolReady, PoolFails,
                      CleanUp
  <2>4. CASE BeginClose \/ CloseCtxEnds \/ CloseStep
    BY <2>2, <2>4 DEF BeginClose, CloseCtxEnds, CloseStep, ClosePool, PoolTimesOut, BackgroundClose,
                      closeUnchanged
  <2>5. CASE UNCHANGED vars
    BY <2>2, <2>5 DEF vars
  <2>. QED BY <2>1, <2>3, <2>4, <2>5 DEF Next
<1>3. DaysInv => PreviousDayIsLatest
  BY DEF DaysInv, DayInv, PreviousDayIsLatest, EarlierThan
<1>. QED BY <1>1, <1>2, <1>3, PTL DEF Spec
=============================================================================
