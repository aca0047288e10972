------------------------------- MODULE Daemon -------------------------------
(***************************************************************************)
(* internal/daemon after a successful start: the run loop (probe round,    *)
(* then Reconcile), the SIGHUP goroutine (Reload, then Reconcile), the     *)
(* probe goroutines, and the processes that edit the store meanwhile.      *)
(*                                                                         *)
(* Everything the daemon does to its state happens under d.mu.  `phase`    *)
(* says what the holder of the mutex is doing and is "free" when nobody    *)
(* holds it; a critical section is a sequence of steps, one per peer or    *)
(* upstream it handles.  The store, the signal and the answers of probes   *)
(* change between any two steps, as nothing locks them out.                *)
(*                                                                         *)
(* A failing call takes one unit of the fault budget MaxFaults, so every   *)
(* behaviour has finitely many failures; FaultKinds says which calls may   *)
(* fail.  Stop, crash and restart are not in this module.                  *)
(***************************************************************************)
EXTENDS Dataplane, Policy, Tracker, FiniteSets

CONSTANTS Keys,        \* public keys; a key is generated once, never reused
          Profiles,    \* profile names a peer may carry
          Sources,     \* contents of provider files
          Configs,     \* the configurations the file may hold
          None,        \* absent: no upstream, no key, no source, no profile
          MaxFaults, FaultKinds

Peers == [key : Keys, ip : Ips, profile : Profiles]
Upstreams == [source : Sources, tracker : Trackers]

\* A configuration: the source each configured upstream's file has when it
\* is read, the Prefer list of each profile, and the health thresholds
ConfigType ==
  [source : [Ups -> Sources \cup {None}],
   prefer : [Profiles -> Seq(SUBSET Ups) \cup {None}],
   downAfter : Thresholds, upAfter : Thresholds]

AllFaults == {"unroute", "route", "alive", "reload", "open", "device", "list"}

ASSUME DaemonAssumption ==
  /\ None \notin Ups \cup Keys \cup Sources
  /\ None \notin Upstreams \cup Trackers
  /\ Configs \subseteq ConfigType /\ Configs # {}
  /\ MaxFaults \in Nat /\ FaultKinds \subseteq AllFaults

VARIABLES
  store,          \* rows of the peers table
  usedKeys,       \* keys generated so far
  signal,         \* a SIGHUP waits in the channel
  cfg,            \* d.cfg
  ups,            \* d.ups: upstream -> its object, or None
  assignments,    \* d.assignments: address -> upstream, or None
  unroutePending, \* d.unroutePending
  devicePeers,    \* d.devicePeers, as peer records
  aliveFailed,    \* keys of d.aliveFailed
  wg,             \* cryptokey routing of lm0: address -> key, or None
  run, hup,       \* where the run loop and the SIGHUP goroutine are
  probing,        \* upstreams whose probe of this round is out
  stale,          \* upstream -> tracker of a replaced object still probed
  phase,          \* what the holder of d.mu is doing
  holder,         \* the goroutine in Reconcile or Reload
  snapshot,       \* peers ListPeers returned
  todo,           \* peers the current loop of Reconcile has not handled
  held,           \* addresses whose old peer is not cleaned up
  failed,         \* Reconcile has collected an error
  newCfg,         \* the configuration Reload applies
  upsTodo,        \* upstreams the current loop of Reload has not handled
  dropping,       \* the upstream dropUpstream works on
  ipsTodo,        \* addresses dropUpstream has still to unroute
  faults,         \* failures so far
  outdated,       \* observation only: assigned to an object since closed
  torn,           \* observation only: a failed Route changed the rules, and
                  \* nothing has put them right since
  fresh           \* observation only: opened by a Reload that has not applied
                  \* the health of the new object, nor has a probe since

daemonVars == <<cfg, ups, assignments, unroutePending, devicePeers, aliveFailed>>
envVars == <<store, usedKeys, signal>>
roundVars == <<run, hup, probing, stale>>
lockVars == <<phase, holder, snapshot, todo, held, failed, newCfg, upsTodo,
              dropping, ipsTodo>>
ghostVars == <<outdated, torn, fresh>>
vars == <<dpVars, daemonVars, envVars, roundVars, lockVars, ghostVars, wg, faults>>

-----------------------------------------------------------------------------
(* Helpers                                                                 *)

InService == {u \in Ups : ups[u] # None}
Healthy == {u \in InService : ups[u].tracker.state = "up"}
KeysOf(S) == {p.key : p \in S}
IpsOf(S) == {p.ip : p \in S}
Configured(c) == {u \in Ups : c.source[u] # None}
AssignedTo(u) == {ip \in Ips : assignments[ip] = u}

Fault(kind) ==
  /\ kind \in FaultKinds
  /\ faults < MaxFaults
  /\ faults' = faults + 1

DoubleFault(kind1, kind2) ==
  /\ {kind1, kind2} \subseteq FaultKinds
  /\ faults + 1 < MaxFaults
  /\ faults' = faults + 2

NoFault == UNCHANGED faults

\* Slip: a finished cleanup is not taken off the list
UnroutedStillPending(ip) ==
  /\ Unroute(ip)
  /\ assignments' = [assignments EXCEPT ![ip] = None]
  /\ outdated' = outdated \ {ip} /\ torn' = torn \ {ip}
  /\ UNCHANGED unroutePending

\* d.unroute: the dataplane call and the daemon's record of it
Unrouted(ip) ==
  /\ Unroute(ip)
  /\ unroutePending' = unroutePending \ {ip}
  /\ assignments' = [assignments EXCEPT ![ip] = None]
  /\ outdated' = outdated \ {ip} /\ torn' = torn \ {ip}

NotUnrouted(ip) ==
  /\ UnrouteFails(ip)
  /\ unroutePending' = unroutePending \cup {ip}
  /\ UNCHANGED <<assignments, outdated, torn>>

UnroutePeer(ip) == NoFault /\ Unrouted(ip)
UnroutePeerFails(ip) == Fault("unroute") /\ NotUnrouted(ip)

\* Slip: a failed removal of pins is not remembered
ApplyAliveOnce(u, up) ==
  /\ \/ SetAlive(u, up) /\ NoFault
     \/ Fault("alive") /\ SetAliveFails(u, up)
     \/ NoFault /\ SetAliveUnknown(u)
  /\ fresh' = fresh \ {u}
  /\ UNCHANGED aliveFailed

\* d.applyAlive for a name and the health its tracker reports
ApplyAlive(u, up) ==
  /\ \/ /\ SetAlive(u, up) /\ NoFault
        /\ aliveFailed' = aliveFailed \ {u}
     \/ /\ \/ Fault("alive") /\ SetAliveFails(u, up)
           \/ NoFault /\ SetAliveUnknown(u)
        /\ aliveFailed' = aliveFailed \cup {u}
  /\ fresh' = fresh \ {u}

-----------------------------------------------------------------------------
(* Initial state: start has opened every upstream and Setup has succeeded. *)

Init ==
  /\ cfg \in Configs
  /\ ups = [u \in Ups |->
              IF cfg.source[u] = None THEN None
              ELSE [source |-> cfg.source[u],
                    tracker |-> NewTracker(cfg.downAfter, cfg.upAfter)]]
  /\ DpInit(Configured(cfg))
  /\ store = {} /\ usedKeys = {} /\ signal = FALSE
  /\ assignments = [ip \in Ips |-> None]
  /\ unroutePending = {} /\ devicePeers = {} /\ aliveFailed = {}
  /\ wg = [ip \in Ips |-> None]
  /\ run = "idle" /\ hup = "idle"
  /\ probing = {} /\ stale = [u \in Ups |-> None]
  /\ phase = "free" /\ holder = "none"
  /\ snapshot = {} /\ todo = {} /\ held = {} /\ failed = FALSE
  /\ newCfg = cfg /\ upsTodo = {} /\ dropping = None /\ ipsTodo = {}
  /\ faults = 0 /\ outdated = {} /\ torn = {} /\ fresh = {}

-----------------------------------------------------------------------------
(* The command line, in processes of its own                               *)

\* Slip: two processes insert the same address
FreeAddressAny(ip) == TRUE

FreeAddress(ip) == ip \notin IpsOf(store)

\* user add: a fresh key pair on a free address (UNIQUE in the schema)
StoreAdd(p) ==
  /\ p.key \notin usedKeys
  /\ FreeAddress(p.ip)
  /\ store' = store \cup {p}
  /\ usedKeys' = usedKeys \cup {p.key}
  /\ UNCHANGED <<signal, dpVars, daemonVars, roundVars, lockVars, ghostVars, wg, faults>>

\* user rm -device -profile; a whole device or user is several of these
StoreDelete(p) ==
  /\ p \in store
  /\ store' = store \ {p}
  /\ UNCHANGED <<usedKeys, signal, dpVars, daemonVars, roundVars, lockVars, ghostVars,
                 wg, faults>>

\* nudgeDaemon or systemctl reload; signals that arrive together are one
Signal ==
  /\ ~signal
  /\ signal' = TRUE
  /\ UNCHANGED <<store, usedKeys, dpVars, daemonVars, roundVars, lockVars, ghostVars,
                 wg, faults>>

Environment ==
  \/ \E p \in Peers : StoreAdd(p)
  \/ \E p \in store : StoreDelete(p)
  \/ Signal

-----------------------------------------------------------------------------
(* probeAll                                                                *)

\* The round captures the upstream objects in service and starts a
\* goroutine for each
ProbeStart ==
  /\ run = "idle" /\ phase = "free"
  /\ run' = "probing"
  /\ probing' = InService
  /\ UNCHANGED <<hup, stale, dpVars, daemonVars, envVars, lockVars, ghostVars, wg, faults>>

\* What a goroutine does under d.mu with the tracker of its object
Observed(u, before, after) ==
  IF after.state # before.state \/ u \in aliveFailed
  THEN ApplyAlive(u, after.state = "up")
  ELSE NoFault /\ UNCHANGED <<dpVars, aliveFailed, fresh>>

\* A probe of an object still in service answers or times out
ProbeDone(u, ok) ==
  /\ u \in probing /\ phase = "free"
  /\ LET after == Observe(ups[u].tracker, ok)
     IN  /\ ups' = [ups EXCEPT ![u].tracker = after]
         /\ Observed(u, ups[u].tracker, after)
  /\ probing' = probing \ {u}
  /\ UNCHANGED <<cfg, assignments, unroutePending, devicePeers, run, hup, stale,
                 envVars, lockVars, outdated, torn, wg>>

\* The object was replaced or removed while its probe was out: the goroutine
\* still holds it and still applies its health under the same name
StaleProbeDone(u, ok) ==
  /\ stale[u] # None /\ phase = "free"
  /\ Observed(u, stale[u], Observe(stale[u], ok))
  /\ stale' = [stale EXCEPT ![u] = None]
  /\ UNCHANGED <<cfg, ups, assignments, unroutePending, devicePeers, run, hup, probing,
                 envVars, lockVars, outdated, torn, wg>>

\* wg.Wait returns when every goroutine of the round has finished
RoundOver ==
  /\ run = "probing" /\ probing = {} /\ \A u \in Ups : stale[u] = None
  /\ run' = "reconcile"
  /\ UNCHANGED <<hup, probing, stale, dpVars, daemonVars, envVars, lockVars, ghostVars,
                 wg, faults>>

-----------------------------------------------------------------------------
(* Reconcile: revoke, then admit and route                                 *)

\* The goroutine leaves Reconcile
Leave(g) ==
  /\ phase' = "free" /\ holder' = "none"
  /\ run' = IF g = "run" THEN "idle" ELSE run
  /\ hup' = IF g = "hup" THEN "idle" ELSE hup

Waiting(g) ==
  \/ g = "run" /\ run = "reconcile"
  \/ g = "hup" /\ hup = "reconcile"

\* Lock, ListPeers, and the set of device peers that are no longer wanted
ReconcileBegin(g) ==
  /\ Waiting(g) /\ phase = "free"
  /\ phase' = "revoke" /\ holder' = g
  /\ snapshot' = store
  /\ todo' = {p \in devicePeers : p.key \notin KeysOf(store)}
  /\ failed' = FALSE
  /\ UNCHANGED <<held, newCfg, upsTodo, dropping, ipsTodo, roundVars, dpVars, daemonVars,
                 envVars, ghostVars, wg, faults>>

\* ListPeers fails and Reconcile returns at once
ReconcileListFails(g) ==
  /\ Waiting(g) /\ phase = "free"
  /\ Fault("list")
  /\ Leave(g)
  /\ UNCHANGED <<snapshot, todo, held, failed, newCfg, upsTodo, dropping, ipsTodo,
                 probing, stale, dpVars, daemonVars, envVars, ghostVars, wg>>

RemoveKey(k) == wg' = [ip \in Ips |-> IF wg[ip] = k THEN None ELSE wg[ip]]

\* Slip: only the device forgets the peer
RevokedStillRouted(p) ==
  /\ NoFault /\ RemoveKey(p.key)
  /\ devicePeers' = devicePeers \ {p}
  /\ UNCHANGED <<failed, dpVars, assignments, unroutePending, outdated, torn>>

Revoked(p) ==
  /\ NoFault /\ RemoveKey(p.key) /\ Unrouted(p.ip)
  /\ devicePeers' = devicePeers \ {p}
  /\ UNCHANGED failed

\* RemovePeer and unroute are both tried, whether or not the first succeeds
RevokeGoesWrong(p) ==
  \/ Fault("unroute") /\ RemoveKey(p.key) /\ NotUnrouted(p.ip)
  \/ Fault("device") /\ UNCHANGED wg /\ Unrouted(p.ip)
  \/ DoubleFault("device", "unroute") /\ UNCHANGED wg /\ NotUnrouted(p.ip)

\* Slip: the record goes with the first attempt
NotRevokedForgotten(p) ==
  /\ RevokeGoesWrong(p)
  /\ failed' = TRUE
  /\ devicePeers' = devicePeers \ {p}

\* Slip: the error is not collected
NotRevokedSilently(p) ==
  /\ RevokeGoesWrong(p)
  /\ UNCHANGED <<failed, devicePeers>>

\* The record stays, so the next Reconcile tries again
NotRevoked(p) ==
  /\ RevokeGoesWrong(p)
  /\ failed' = TRUE
  /\ UNCHANGED devicePeers

Revoke(p) ==
  /\ phase = "revoke" /\ p \in todo
  /\ todo' = todo \ {p}
  /\ Revoked(p) \/ NotRevoked(p)
  /\ UNCHANGED <<phase, holder, snapshot, held, newCfg, upsTodo, dropping, ipsTodo,
                 cfg, ups, aliveFailed, fresh, roundVars, envVars>>

\* Slip: no address is held back
NoneHeld == {}

\* Addresses whose old peer is not cleaned up
HeldAddresses == IpsOf(devicePeers)

\* The second loop starts from the peers the snapshot holds
RevokeEnd ==
  /\ phase = "revoke" /\ todo = {}
  /\ phase' = "sync"
  /\ todo' = snapshot
  /\ held' = HeldAddresses
  /\ UNCHANGED <<holder, snapshot, failed, newCfg, upsTodo, dropping, ipsTodo, roundVars,
                 dpVars, daemonVars, envVars, ghostVars, wg, faults>>

Known(p) == p.key \in KeysOf(devicePeers)

\* The address still belongs to a peer whose cleanup failed
SyncHeld(p) ==
  /\ ~Known(p) /\ p.ip \in held
  /\ todo' = todo \ {p}
  /\ NoFault
  /\ UNCHANGED <<failed, dpVars, daemonVars, ghostVars, wg>>

\* Slip: the peer is recorded before AddPeer has answered
SyncAddRecorded(p) ==
  /\ ~Known(p) /\ p.ip \notin held
  /\ \/ NoFault /\ wg' = [wg EXCEPT ![p.ip] = p.key] /\ UNCHANGED <<failed, todo>>
     \/ Fault("device") /\ failed' = TRUE /\ todo' = todo \ {p} /\ UNCHANGED wg
  /\ devicePeers' = devicePeers \cup {p}
  /\ UNCHANGED <<cfg, ups, assignments, unroutePending, aliveFailed, dpVars, ghostVars>>

\* AddPeer moves the address to the new key; the peer is routed next
SyncAdd(p) ==
  /\ ~Known(p) /\ p.ip \notin held
  /\ \/ /\ NoFault
        /\ wg' = [wg EXCEPT ![p.ip] = p.key]
        /\ devicePeers' = devicePeers \cup {p}
        /\ UNCHANGED <<failed, todo>>
     \/ /\ Fault("device")
        /\ failed' = TRUE /\ todo' = todo \ {p}
        /\ UNCHANGED <<wg, devicePeers>>
  /\ UNCHANGED <<cfg, ups, assignments, unroutePending, aliveFailed, dpVars, ghostVars>>

\* The peer's profile is not in the configuration: an error, and blocked
SyncNoProfile(p) ==
  /\ Known(p) /\ cfg.prefer[p.profile] = None
  /\ UnroutePeer(p.ip) \/ UnroutePeerFails(p.ip)
  /\ failed' = TRUE /\ todo' = todo \ {p}
  /\ UNCHANGED <<cfg, ups, devicePeers, aliveFailed, fresh, wg>>

\* An unfinished cleanup comes before any selection; when it succeeds the
\* peer goes on to be routed
SyncCleanup(p) ==
  /\ Known(p) /\ cfg.prefer[p.profile] # None /\ p.ip \in unroutePending
  /\ \/ UnroutePeer(p.ip) /\ UNCHANGED <<failed, todo>>
     \/ UnroutePeerFails(p.ip) /\ failed' = TRUE /\ todo' = todo \ {p}
  /\ UNCHANGED <<cfg, ups, devicePeers, aliveFailed, fresh, wg>>

\* Slip: an upstream that has not been probed is taken for healthy
OffersUnknown(p) ==
  Selectable(cfg.prefer[p.profile], {u \in InService : ups[u].tracker.state # "down"},
             assignments[p.ip])

\* What the policy offers the peer, with its current upstream
Offers(p) == Selectable(cfg.prefer[p.profile], Healthy, assignments[p.ip])

Routable(p) ==
  /\ Known(p) /\ cfg.prefer[p.profile] # None /\ p.ip \notin unroutePending

\* No healthy upstream for the profile: the peer is blocked
SyncBlock(p) ==
  /\ Routable(p) /\ Offers(p) = {} /\ assignments[p.ip] # None
  /\ \/ UnroutePeer(p.ip) /\ UNCHANGED failed
     \/ UnroutePeerFails(p.ip) /\ failed' = TRUE
  /\ todo' = todo \ {p}
  /\ UNCHANGED <<cfg, ups, devicePeers, aliveFailed, fresh, wg>>

\* Still blocked, or still on the selected upstream: nothing to do
SyncKeep(p) ==
  /\ Routable(p)
  /\ IF Offers(p) = {} THEN assignments[p.ip] = None ELSE assignments[p.ip] \in Offers(p)
  /\ todo' = todo \ {p}
  /\ NoFault
  /\ UNCHANGED <<failed, dpVars, daemonVars, ghostVars, wg>>

\* Observations: Route has succeeded, with the one rule it should leave or with
\* others beside it; Route has failed, after a change of the rules or before any
Mended(ip, want) == torn' = IF rules'[ip] = <<want>> THEN torn \ {ip} ELSE torn
Torn(ip) == torn' = IF rules'[ip] # rules[ip] THEN torn \cup {ip} ELSE torn


\* The peer moves to the selected upstream
SyncMove(p, want) ==
  /\ Routable(p) /\ want \in Offers(p) /\ want # assignments[p.ip]
  /\ \/ /\ NoFault /\ Route(p.ip, want)
        /\ assignments' = [assignments EXCEPT ![p.ip] = want]
        /\ outdated' = outdated \ {p.ip} /\ Mended(p.ip, want)
        /\ UNCHANGED failed
     \/ /\ \/ Fault("route") /\ RouteFails(p.ip, want)
           \/ NoFault /\ RouteUnknown(want)
        /\ failed' = TRUE /\ Torn(p.ip)
        /\ UNCHANGED <<assignments, outdated>>
  /\ todo' = todo \ {p}
  /\ UNCHANGED <<cfg, ups, unroutePending, devicePeers, aliveFailed, fresh, wg>>

Sync(p) ==
  /\ phase = "sync" /\ p \in todo
  /\ \/ SyncHeld(p) \/ SyncAdd(p) \/ SyncNoProfile(p) \/ SyncCleanup(p)
     \/ SyncBlock(p) \/ SyncKeep(p)
     \/ \E want \in Ups : SyncMove(p, want)
  /\ UNCHANGED <<phase, holder, snapshot, held, newCfg, upsTodo, dropping, ipsTodo,
                 roundVars, envVars>>

\* Unlock; forget the locals
ReconcileEnd ==
  /\ phase = "sync" /\ todo = {}
  /\ Leave(holder)
  /\ snapshot' = {} /\ held' = {} /\ failed' = FALSE
  /\ UNCHANGED <<todo, newCfg, upsTodo, dropping, ipsTodo, probing, stale, dpVars,
                 daemonVars, envVars, ghostVars, wg, faults>>

Reconcile ==
  \/ \E g \in {"run", "hup"} : ReconcileBegin(g) \/ ReconcileListFails(g)
  \/ \E p \in todo : Revoke(p) \/ Sync(p)
  \/ RevokeEnd \/ ReconcileEnd

-----------------------------------------------------------------------------
(* Reload                                                                  *)

\* handleHUP takes the signal, loads a configuration and locks
ReloadBegin(c) ==
  /\ hup = "idle" /\ signal /\ phase = "free"
  /\ signal' = FALSE
  /\ hup' = "reload" /\ phase' = "reload" /\ holder' = "hup"
  /\ newCfg' = c
  /\ upsTodo' = InService \cup Configured(c)
  /\ UNCHANGED <<snapshot, todo, held, failed, dropping, ipsTodo, run, probing, stale,
                 store, usedKeys, dpVars, daemonVars, ghostVars, wg, faults>>

\* The file does not parse or validate, or restartRequired refuses it: the
\* peers are reconciled all the same
ReloadRejected ==
  /\ hup = "idle" /\ signal /\ phase = "free"
  /\ signal' = FALSE
  /\ hup' = "reconcile"
  /\ UNCHANGED <<run, probing, stale, store, usedKeys, lockVars, dpVars, daemonVars,
                 ghostVars, wg, faults>>

\* The provider file is unchanged: the object stays, with new thresholds
ReloadKeep(u) ==
  /\ phase = "reload" /\ u \in upsTodo /\ u \in InService
  /\ ups[u].source = newCfg.source[u]
  /\ ups' = [ups EXCEPT ![u].tracker =
               SetThresholds(@, newCfg.downAfter, newCfg.upAfter)]
  /\ upsTodo' = upsTodo \ {u}
  /\ UNCHANGED <<phase, holder, snapshot, todo, held, failed, newCfg, dropping, ipsTodo,
                 cfg, assignments, unroutePending, devicePeers, aliveFailed, dpVars,
                 envVars, roundVars, ghostVars, wg, faults>>

\* dropUpstream begins: a replaced upstream in its turn, the removed ones
\* after every configured one
DropBegin(u) ==
  /\ phase = "reload" /\ u \in upsTodo /\ u \in InService
  /\ ups[u].source # newCfg.source[u]
  /\ u \notin Configured(newCfg) => upsTodo \cap Configured(newCfg) = {}
  /\ phase' = "drop" /\ dropping' = u /\ ipsTodo' = AssignedTo(u)
  /\ UNCHANGED <<holder, snapshot, todo, held, failed, newCfg, upsTodo, dpVars, daemonVars,
                 envVars, roundVars, ghostVars, wg, faults>>

\* One of its peers is unrouted; a failure stays pending
DropPeer(ip) ==
  /\ phase = "drop" /\ ip \in ipsTodo
  /\ UnroutePeer(ip) \/ UnroutePeerFails(ip)
  /\ ipsTodo' = ipsTodo \ {ip}
  /\ UNCHANGED <<phase, holder, snapshot, todo, held, failed, newCfg, upsTodo, dropping,
                 cfg, ups, devicePeers, aliveFailed, fresh, envVars, roundVars, wg>>

\* A probe that is out goes on with the old object
LeaveProbe(u) ==
  /\ probing' = probing \ {u}
  /\ stale' = IF u \in probing THEN [stale EXCEPT ![u] = ups[u].tracker] ELSE stale

\* The device is closed
DropEnd ==
  /\ phase = "drop" /\ ipsTodo = {}
  /\ ups' = [ups EXCEPT ![dropping] = None]
  /\ aliveFailed' = aliveFailed \ {dropping}
  /\ LeaveProbe(dropping)
  /\ outdated' = outdated \cup AssignedTo(dropping)
  /\ fresh' = fresh \ {dropping}
  /\ upsTodo' = IF dropping \in Configured(newCfg) THEN upsTodo ELSE upsTodo \ {dropping}
  /\ phase' = "reload" /\ dropping' = None
  /\ UNCHANGED <<holder, snapshot, todo, held, failed, newCfg, ipsTodo, cfg, assignments,
                 unroutePending, devicePeers, run, hup, dpVars, envVars, torn, wg, faults>>

\* openUpstream for a new or replaced upstream: a fresh tracker, or an error
\* that leaves the upstream out
ReloadOpen(u) ==
  /\ phase = "reload" /\ u \in upsTodo /\ u \notin InService
  /\ u \in Configured(newCfg)
  /\ \/ /\ NoFault
        /\ ups' = [ups EXCEPT ![u] =
             [source |-> newCfg.source[u],
              tracker |-> NewTracker(newCfg.downAfter, newCfg.upAfter)]]
        /\ fresh' = fresh \cup {u}
     \/ Fault("open") /\ UNCHANGED <<ups, fresh>>
  /\ upsTodo' = upsTodo \ {u}
  /\ UNCHANGED <<phase, holder, snapshot, todo, held, failed, newCfg, dropping, ipsTodo,
                 cfg, assignments, unroutePending, devicePeers, aliveFailed, dpVars,
                 envVars, roundVars, outdated, torn, wg>>

\* The new configuration is in; on an error Reload returns without applying
\* the health of anything
ReloadApply ==
  /\ phase = "reload" /\ upsTodo = {}
  /\ cfg' = newCfg
  /\ \/ /\ NoFault /\ SetUpstreams(InService)
        /\ phase' = "alive" /\ upsTodo' = InService
        /\ UNCHANGED <<holder, hup>>
     \/ /\ Fault("reload") /\ SetUpstreamsFails(InService)
        /\ phase' = "free" /\ holder' = "none" /\ hup' = "reconcile"
        /\ UNCHANGED upsTodo
  /\ UNCHANGED <<snapshot, todo, held, failed, newCfg, dropping, ipsTodo, ups, assignments,
                 unroutePending, devicePeers, aliveFailed, run, probing, stale, envVars,
                 ghostVars, wg>>

\* Device.Up, then the health of one upstream object
ReloadAlive(u) ==
  /\ phase = "alive" /\ u \in upsTodo
  /\ ApplyAlive(u, ups[u].tracker.state = "up")
  /\ upsTodo' = upsTodo \ {u}
  /\ UNCHANGED <<phase, holder, snapshot, todo, held, failed, newCfg, dropping, ipsTodo,
                 cfg, ups, assignments, unroutePending, devicePeers, envVars, roundVars,
                 outdated, torn, wg>>

ReloadEnd ==
  /\ phase = "alive" /\ upsTodo = {}
  /\ phase' = "free" /\ holder' = "none" /\ hup' = "reconcile"
  /\ UNCHANGED <<snapshot, todo, held, failed, newCfg, upsTodo, dropping, ipsTodo,
                 run, probing, stale, dpVars, daemonVars, envVars, ghostVars, wg, faults>>

Reload ==
  \/ \E c \in Configs : ReloadBegin(c)
  \/ ReloadRejected
  \/ \E u \in upsTodo : ReloadKeep(u) \/ DropBegin(u) \/ ReloadOpen(u) \/ ReloadAlive(u)
  \/ \E ip \in ipsTodo : DropPeer(ip)
  \/ DropEnd \/ ReloadApply \/ ReloadEnd

-----------------------------------------------------------------------------
Probes ==
  \/ ProbeStart \/ RoundOver
  \/ \E u \in Ups, ok \in BOOLEAN : ProbeDone(u, ok) \/ StaleProbeDone(u, ok)

Next == Environment \/ Probes \/ Reconcile \/ Reload

Spec == Init /\ [][Next]_vars

-----------------------------------------------------------------------------
(* Fairness.  Goroutines that hold d.mu keep running, every probe answers  *)
(* or hits its timeout, the interval timer fires, and sync.Mutex hands the *)
(* lock to a waiter that has starved for a millisecond, so a goroutine     *)
(* that finds the mutex free again and again gets it.                      *)

HolderStep ==
  \/ \E p \in todo : Revoke(p) \/ Sync(p)
  \/ RevokeEnd \/ ReconcileEnd
  \/ \E u \in upsTodo : ReloadKeep(u) \/ DropBegin(u) \/ ReloadOpen(u) \/ ReloadAlive(u)
  \/ \E ip \in ipsTodo : DropPeer(ip)
  \/ DropEnd \/ ReloadApply \/ ReloadEnd

Fairness ==
  /\ WF_vars(HolderStep)
  /\ WF_vars(RoundOver)
  /\ SF_vars(ProbeStart)
  /\ SF_vars(ReconcileBegin("run"))
  /\ \A u \in Ups :
       /\ SF_vars(\E ok \in BOOLEAN : ProbeDone(u, ok))
       /\ SF_vars(\E ok \in BOOLEAN : StaleProbeDone(u, ok))

FairSpec == Spec /\ Fairness
=============================================================================
