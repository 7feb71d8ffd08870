---------------------------- MODULE HostSelection ----------------------------
(***************************************************************************)
(* Which upstream hosts a pool is built on: the configured hosts without   *)
(* empty ones and duplicates, cut down to MaxHosts by probing them all and *)
(* taking the fastest.  An order is what probeLiveHosts returns, without   *)
(* the hosts that could not be reached: they are sorted behind the others. *)
(***************************************************************************)
EXTENDS Subsequences, Integers, FiniteSets, SequencesExt

CONSTANTS
  NoHost,    \* the empty address
  MaxHosts   \* LiveConfig.MaxHostsPerPool with its default filled in

ASSUME MaxHostsAssumption == MaxHosts \in Int \ {0}

(* A host is kept where it first occurs.                                     *)
uniqueNonEmptyHosts(hosts) ==
  Kept(hosts, {i \in DOMAIN hosts : /\ hosts[i] # NoHost
                                    /\ \A j \in 1..(i - 1) : hosts[j] # hosts[i]})

(* Every host is probed in its own goroutine; the results are sorted by      *)
(* latency, which may be anything.                                           *)
Orders(reachable) == SetToSeqs(reachable)

FirstHosts(hosts) == SubSeq(hosts, 1, IF MaxHosts < Len(hosts) THEN MaxHosts ELSE Len(hosts))

(* No probe is made when there is nothing to choose from.                    *)
NeedsProbe(hosts) == MaxHosts > 0 /\ MaxHosts < Len(hosts)

selectLiveHosts_ReachableOnly(hosts, ctxDone, order) ==
  IF ~NeedsProbe(hosts) THEN hosts ELSE FirstHosts(IF ctxDone THEN hosts ELSE order)

selectLiveHosts(hosts, ctxDone, order) ==
  IF ~NeedsProbe(hosts) THEN hosts
  ELSE IF ctxDone \/ order = <<>> THEN FirstHosts(hosts)
  ELSE FirstHosts(order)

selectLimitedHosts(hosts) ==
  LET unique == uniqueNonEmptyHosts(hosts)
  IN  IF MaxHosts > 0 THEN FirstHosts(unique) ELSE unique

=============================================================================
