---------------------------- MODULE DaemonProofs ----------------------------
(***************************************************************************)
(* Proofs about Daemon.tla for every set of upstreams, addresses, keys and *)
(* configurations and every number of failures: its types, the inductive   *)
(* invariant IInv and what follows from it, what a clean Reconcile means,  *)
(* and that the daemon implements Gateway, in what it believes and reports *)
(* and, unless Route or SetUpstreams fails half-way, in what the kernel    *)
(* does.                                                                   *)
(***************************************************************************)
EXTENDS DaemonProperties, DataplaneProofs

-----------------------------------------------------------------------------
(* Types                                                                   *)

\* The tracker's operators stay within its type.
LEMMA TrackerTypes ==
  /\ \A d, u \in Thresholds : NewTracker(d, u) \in Trackers
  /\ \A t \in Trackers, ok \in BOOLEAN : Observe(t, ok) \in Trackers
  /\ \A t \in Trackers, d, u \in Thresholds : SetThresholds(t, d, u) \in Trackers
<1> USE CapAssumption
<1>1. \A n \in 0 .. Cap : Bump(n) \in 0 .. Cap
  BY DEF Bump
<1>2. 0 \in 0 .. Cap /\ "up" \in States /\ "down" \in States /\ "unknown" \in States
  BY DEF States
<1>3. \A d, u \in Thresholds : NewTracker(d, u) \in Trackers
  BY <1>2 DEF NewTracker, Trackers
<1>4. \A t \in Trackers : ObserveOk(t) \in Trackers
  BY <1>1, <1>2 DEF ObserveOk, Trackers
<1>5. \A t \in Trackers : ObserveFail(t) \in Trackers
  BY <1>1, <1>2 DEF ObserveFail, Trackers
<1>6. \A t \in Trackers, d, u \in Thresholds : SetThresholds(t, d, u) \in Trackers
  BY DEF SetThresholds, Trackers
<1> QED
  BY <1>3, <1>4, <1>5, <1>6 DEF Observe

\* Updating the tracker of an object in service keeps it an object.
LEMMA TrackerUpdate ==
  ASSUME ups \in [Ups -> Upstreams \cup {None}], NEW u \in InService
  PROVE  /\ ups[u].tracker \in Trackers
         /\ \A next : \A t \in Trackers :
              next = [ups EXCEPT ![u].tracker = t] =>
                /\ next \in [Ups -> Upstreams \cup {None}]
                /\ \A v \in Ups : next[v] # None <=> v \in InService
                /\ \A v \in Ups : v # u => next[v] = ups[v]
<1>1. ups[u] \in Upstreams /\ u \in Ups
  BY DEF InService
<1>2. \A t \in Trackers : [ups[u] EXCEPT !.tracker = t] \in Upstreams
  BY <1>1 DEF Upstreams
<1>3. None \notin Upstreams
  BY DaemonAssumption
<1> QED
  BY <1>1, <1>2, <1>3 DEF InService, Upstreams

\* A failure is counted within the budget.
LEMMA FaultType ==
  ASSUME NEW kind, faults \in 0 .. MaxFaults, Fault(kind)
  PROVE  faults' \in 0 .. MaxFaults
BY DaemonAssumption DEF Fault

\* What d.unroute writes has its type.
LEMMA UnrouteTypes ==
  ASSUME TypeOK, NEW ip \in Ips, Unrouted(ip) \/ NotUnrouted(ip)
  PROVE  /\ DpTypeOK'
         /\ unroutePending' \in SUBSET Ips /\ outdated' \in SUBSET Ips /\ torn' \in SUBSET Ips
         /\ assignments' \in [Ips -> Ups \cup {None}]
<1>1. CASE Unrouted(ip)
  BY <1>1, UnrouteStep DEF Unrouted, TypeOK
<1>2. CASE NotUnrouted(ip)
  BY <1>2, UnrouteFailsStep DEF NotUnrouted, TypeOK
<1> QED
  BY <1>1, <1>2

\* What d.applyAlive writes has its type, and it only takes pins away.
LEMMA ApplyAliveStep ==
  ASSUME DpTypeOK, aliveFailed \in SUBSET Ups, fresh \in SUBSET Ups,
         faults \in 0 .. MaxFaults, NEW u \in Ups, NEW up \in BOOLEAN, ApplyAlive(u, up)
  PROVE  /\ DpTypeOK' /\ Shrinks
         /\ aliveFailed' \in SUBSET Ups /\ fresh' \in SUBSET Ups
         /\ faults' \in 0 .. MaxFaults
<1>1. aliveFailed' \in SUBSET Ups /\ fresh' \in SUBSET Ups
  BY DEF ApplyAlive
<1>2. faults' \in 0 .. MaxFaults
  BY FaultType DEF ApplyAlive, NoFault
<1>3. SetAlive(u, up) \/ SetAliveFails(u, up) \/ UNCHANGED dpVars
  BY DEF ApplyAlive, SetAliveUnknown
<1> QED
  BY <1>1, <1>2, <1>3, SetAliveStep, DpStutter

\* The same for a probe goroutine, which applies only a changed health.
LEMMA ObservedStep ==
  ASSUME DpTypeOK, aliveFailed \in SUBSET Ups, fresh \in SUBSET Ups,
         faults \in 0 .. MaxFaults, NEW u \in Ups, NEW before, NEW after,
         Observed(u, before, after)
  PROVE  /\ DpTypeOK' /\ Shrinks
         /\ aliveFailed' \in SUBSET Ups /\ fresh' \in SUBSET Ups
         /\ faults' \in 0 .. MaxFaults
<1>1. (after.state = "up") \in BOOLEAN
  OBVIOUS
<1>2. CASE ApplyAlive(u, after.state = "up")
  BY <1>1, <1>2, ApplyAliveStep
<1>3. CASE NoFault /\ UNCHANGED <<dpVars, aliveFailed, fresh>>
  BY <1>3, DpStutter DEF NoFault
<1> QED
  BY <1>2, <1>3 DEF Observed

\* A configuration names sources and thresholds of the right type.
LEMMA ConfigTypes ==
  ASSUME NEW c \in Configs
  PROVE  /\ c.downAfter \in Thresholds /\ c.upAfter \in Thresholds
         /\ \A u \in Ups : c.source[u] \in Sources \cup {None}
         /\ Configured(c) \subseteq Ups
BY DaemonAssumption DEF ConfigType, Configured

\* Every initial state has the right types.
LEMMA TypeInit == Init => TypeOK
<1> SUFFICES ASSUME Init PROVE TypeOK
  OBVIOUS
<1> USE DEF Init
<1>1. Configured(cfg) \subseteq Ups
  BY ConfigTypes
<1>2. DpTypeOK
  BY <1>1 DEF DpInit, DpTypeOK
<1>3. ups \in [Ups -> Upstreams \cup {None}]
  BY ConfigTypes, TrackerTypes DEF Upstreams
<1>4. faults \in 0 .. MaxFaults
  BY DaemonAssumption
<1>5. assignments \in [Ips -> Ups \cup {None}] /\ wg \in [Ips -> Keys \cup {None}]
      /\ stale \in [Ups -> Trackers \cup {None}]
  OBVIOUS
<1> QED
  BY <1>2, <1>3, <1>4, <1>5 DEF TypeOK

\* Reading and editing the store keeps the types.
LEMMA TypeEnvironment == ASSUME TypeOK, Environment PROVE TypeOK'
<1> USE DEF TypeOK, InService, daemonVars, roundVars, lockVars, ghostVars, envVars
<1>1. ASSUME NEW p \in Peers, StoreAdd(p) PROVE TypeOK'
  BY <1>1, DpStutter DEF StoreAdd, FreeAddress, Peers
<1>2. ASSUME NEW p \in store, StoreDelete(p) PROVE TypeOK'
  BY <1>2, DpStutter DEF StoreDelete
<1>3. CASE Signal
  BY <1>3, DpStutter DEF Signal
<1> QED
  BY <1>1, <1>2, <1>3 DEF Environment

\* A probe round keeps the types.
LEMMA TypeProbes == ASSUME TypeOK, Probes PROVE TypeOK'
<1> USE DEF TypeOK, InService, daemonVars, roundVars, lockVars, ghostVars, envVars
<1>1. CASE ProbeStart
  BY <1>1, DpStutter DEF ProbeStart, InService
<1>2. CASE RoundOver
  BY <1>2, DpStutter DEF RoundOver
<1>3. ASSUME NEW u \in Ups, NEW ok \in BOOLEAN, ProbeDone(u, ok) PROVE TypeOK'
  <2> DEFINE after == Observe(ups[u].tracker, ok)
  <2>1. Observed(u, ups[u].tracker, after) /\ ups' = [ups EXCEPT ![u].tracker = after]
    BY <1>3 DEF ProbeDone
  <2>2. DpTypeOK' /\ aliveFailed' \in SUBSET Ups /\ fresh' \in SUBSET Ups /\ faults' \in 0 .. MaxFaults
    BY <2>1, ObservedStep
  <2>3. /\ ups' \in [Ups -> Upstreams \cup {None}]
        /\ \A v \in Ups : ups'[v] # None <=> v \in InService
    <3>1. u \in InService /\ ups \in [Ups -> Upstreams \cup {None}]
      BY <1>3 DEF ProbeDone
    <3> HIDE DEF TypeOK
    <3>2. ups[u].tracker \in Trackers
      BY <3>1, TrackerUpdate
    <3>3. after \in Trackers
      BY <3>2, TrackerTypes
    <3> HIDE DEF after, InService
    <3> QED
      BY <2>1, <3>1, <3>3, TrackerUpdate
  <2>4. InService' = InService
    BY <2>3
  <2>5. probing' \in SUBSET (InService')
    BY <1>3, <2>4 DEF ProbeDone
  <2>6. UNCHANGED <<cfg, assignments, unroutePending, devicePeers, run, hup, stale,
                    envVars, lockVars, outdated, torn, wg>>
    BY <1>3 DEF ProbeDone
  <2> HIDE DEF InService
  <2> QED
    BY <2>2, <2>3, <2>5, <2>6
<1>4. ASSUME NEW u \in Ups, NEW ok \in BOOLEAN, StaleProbeDone(u, ok) PROVE TypeOK'
  <2>1. Observed(u, stale[u], Observe(stale[u], ok))
    BY <1>4 DEF StaleProbeDone
  <2>2. DpTypeOK' /\ aliveFailed' \in SUBSET Ups /\ fresh' \in SUBSET Ups /\ faults' \in 0 .. MaxFaults
    BY <2>1, ObservedStep
  <2> QED
    BY <1>4, <2>2 DEF StaleProbeDone
<1> QED
  BY <1>1, <1>2, <1>3, <1>4 DEF Probes

\* Reconcile keeps the types.
LEMMA TypeReconcile == ASSUME TypeOK, Reconcile PROVE TypeOK'
<1> USE DEF TypeOK, InService, daemonVars, roundVars, lockVars, ghostVars, envVars
<1>1. ASSUME NEW g \in {"run", "hup"}, ReconcileBegin(g) PROVE TypeOK'
  BY <1>1, DpStutter DEF ReconcileBegin
<1>2. ASSUME NEW g \in {"run", "hup"}, ReconcileListFails(g) PROVE TypeOK'
  BY <1>2, DpStutter, FaultType DEF ReconcileListFails, Leave
<1>3. ASSUME NEW p \in todo, Revoke(p) PROVE TypeOK'
  <2>1. p \in Peers /\ p.ip \in Ips
    BY DEF Peers
  <2>2. Unrouted(p.ip) \/ NotUnrouted(p.ip)
    BY <1>3 DEF Revoke, Revoked, NotRevoked, RevokeGoesWrong
  <2>3. faults' \in 0 .. MaxFaults
    BY <1>3, DaemonAssumption DEF Revoke, Revoked, NotRevoked, RevokeGoesWrong, NoFault, Fault, DoubleFault
  <2>4. wg' \in [Ips -> Keys \cup {None}]
    BY <1>3 DEF Revoke, Revoked, NotRevoked, RevokeGoesWrong, RemoveKey
  <2>5. devicePeers' \in SUBSET Peers /\ failed' \in BOOLEAN
    BY <1>3 DEF Revoke, Revoked, NotRevoked, RevokeGoesWrong
  <2> HIDE DEF TypeOK
  <2>6. /\ DpTypeOK'
        /\ unroutePending' \in SUBSET Ips /\ outdated' \in SUBSET Ips /\ torn' \in SUBSET Ips
        /\ assignments' \in [Ips -> Ups \cup {None}]
    BY <2>1, <2>2, UnrouteTypes
  <2> QED
    BY <1>3, <2>3, <2>4, <2>5, <2>6 DEF Revoke, Revoked, NotRevoked, RevokeGoesWrong, TypeOK
<1>4. CASE RevokeEnd
  BY <1>4, DpStutter DEF RevokeEnd, HeldAddresses, IpsOf, Peers
<1>5. ASSUME NEW p \in todo, Sync(p) PROVE TypeOK'
  <2>1. p \in Peers /\ p.ip \in Ips /\ p.key \in Keys
    BY DEF Peers
  <2>2. UNCHANGED <<phase, holder, snapshot, held, newCfg, upsTodo, dropping, ipsTodo,
                    run, hup, probing, stale, store, usedKeys, signal>>
    BY <1>5 DEF Sync
  <2>3. ASSUME Unrouted(p.ip) \/ NotUnrouted(p.ip),
               faults' \in 0 .. MaxFaults, todo' \subseteq todo, failed' \in BOOLEAN,
               UNCHANGED <<cfg, ups, devicePeers, aliveFailed, fresh, wg>>
        PROVE  TypeOK'
    <3> HIDE DEF TypeOK
    <3>1. /\ DpTypeOK'
          /\ unroutePending' \in SUBSET Ips /\ outdated' \in SUBSET Ips /\ torn' \in SUBSET Ips
          /\ assignments' \in [Ips -> Ups \cup {None}]
      BY <2>1, <2>3, UnrouteTypes
    <3> QED
      BY <2>2, <2>3, <3>1 DEF TypeOK
  <2>4. CASE SyncHeld(p)
    BY <2>2, <2>4, DpStutter DEF SyncHeld, NoFault
  <2>5. CASE SyncAdd(p)
    <3>1. faults' \in 0 .. MaxFaults
      BY <2>5, FaultType DEF SyncAdd, NoFault
    <3>2. wg' \in [Ips -> Keys \cup {None}] /\ devicePeers' \in SUBSET Peers
      BY <2>1, <2>5 DEF SyncAdd
    <3>3. failed' \in BOOLEAN /\ todo' \in SUBSET Peers
      BY <2>5 DEF SyncAdd
    <3> QED
      BY <2>2, <2>5, <3>1, <3>2, <3>3, DpStutter DEF SyncAdd
  <2>6. CASE SyncNoProfile(p)
    BY <2>3, <2>6, FaultType DEF SyncNoProfile, UnroutePeer, UnroutePeerFails, NoFault
  <2>7. CASE SyncCleanup(p)
    BY <2>3, <2>7, FaultType DEF SyncCleanup, UnroutePeer, UnroutePeerFails, NoFault
  <2>8. CASE SyncBlock(p)
    BY <2>3, <2>8, FaultType DEF SyncBlock, UnroutePeer, UnroutePeerFails, NoFault
  <2>9. CASE SyncKeep(p)
    BY <2>2, <2>9, DpStutter DEF SyncKeep, NoFault
  <2>10. ASSUME NEW want \in Ups, SyncMove(p, want) PROVE TypeOK'
    <3>1. Route(p.ip, want) \/ RouteFails(p.ip, want) \/ UNCHANGED dpVars
      BY <2>10 DEF SyncMove, RouteUnknown
    <3>2. DpTypeOK'
      BY <2>1, <3>1, RouteStep, RouteFailsStep, DpStutter
    <3>3. faults' \in 0 .. MaxFaults /\ failed' \in BOOLEAN /\ todo' \subseteq todo
      BY <2>10, FaultType DEF SyncMove, NoFault
    <3>4. /\ assignments' \in [Ips -> Ups \cup {None}] /\ outdated' \in SUBSET Ips
          /\ torn' \in SUBSET Ips
          /\ UNCHANGED <<cfg, ups, unroutePending, devicePeers, aliveFailed, fresh, wg>>
      BY <2>1, <2>10 DEF SyncMove, Mended, Torn
    <3> QED
      BY <2>2, <3>2, <3>3, <3>4
  <2> QED
    BY <1>5, <2>4, <2>5, <2>6, <2>7, <2>8, <2>9, <2>10 DEF Sync
<1>6. CASE ReconcileEnd
  BY <1>6, DpStutter DEF ReconcileEnd, Leave
<1> QED
  BY <1>1, <1>2, <1>3, <1>4, <1>5, <1>6 DEF Reconcile

\* Reload keeps the types.
LEMMA TypeReload == ASSUME TypeOK, Reload PROVE TypeOK'
<1> USE DEF TypeOK, InService, daemonVars, roundVars, lockVars, ghostVars, envVars
<1>1. ASSUME NEW c \in Configs, ReloadBegin(c) PROVE TypeOK'
  BY <1>1, DpStutter DEF ReloadBegin, Configured
<1>2. CASE ReloadRejected
  BY <1>2, DpStutter DEF ReloadRejected
<1>3. ASSUME NEW u \in upsTodo, ReloadKeep(u) PROVE TypeOK'
  <2>1. u \in InService
    BY <1>3 DEF ReloadKeep
  <2>2. SetThresholds(ups[u].tracker, newCfg.downAfter, newCfg.upAfter) \in Trackers
    BY <2>1, TrackerUpdate, TrackerTypes, ConfigTypes
  <2>3. /\ ups' \in [Ups -> Upstreams \cup {None}]
        /\ InService' = InService
    BY <1>3, <2>1, <2>2, TrackerUpdate DEF ReloadKeep
  <2> QED
    BY <1>3, <2>3, DpStutter DEF ReloadKeep
<1>4. ASSUME NEW u \in upsTodo, DropBegin(u) PROVE TypeOK'
  BY <1>4, DpStutter DEF DropBegin, AssignedTo
<1>5. ASSUME NEW u \in upsTodo, ReloadOpen(u) PROVE TypeOK'
  <2>1. NewTracker(newCfg.downAfter, newCfg.upAfter) \in Trackers
    BY TrackerTypes, ConfigTypes
  <2>2. newCfg.source[u] \in Sources
    BY <1>5, ConfigTypes DEF ReloadOpen, Configured
  <2>3. faults' \in 0 .. MaxFaults
    BY <1>5, FaultType DEF ReloadOpen, NoFault
  <2>4. /\ ups' \in [Ups -> Upstreams \cup {None}] /\ InService \subseteq InService'
        /\ fresh' \in SUBSET Ups
    BY <1>5, <2>1, <2>2 DEF ReloadOpen, Upstreams
  <2> QED
    BY <1>5, <2>3, <2>4, DpStutter DEF ReloadOpen
<1>6. ASSUME NEW u \in upsTodo, ReloadAlive(u) PROVE TypeOK'
  <2>1. (ups[u].tracker.state = "up") \in BOOLEAN
    OBVIOUS
  <2>2. ApplyAlive(u, ups[u].tracker.state = "up")
    BY <1>6 DEF ReloadAlive
  <2>3. DpTypeOK' /\ aliveFailed' \in SUBSET Ups /\ fresh' \in SUBSET Ups /\ faults' \in 0 .. MaxFaults
    BY <2>1, <2>2, ApplyAliveStep
  <2> QED
    BY <1>6, <2>3 DEF ReloadAlive
<1>7. ASSUME NEW ip \in ipsTodo, DropPeer(ip) PROVE TypeOK'
  <2>1. Unrouted(ip) \/ NotUnrouted(ip)
    BY <1>7 DEF DropPeer, UnroutePeer, UnroutePeerFails
  <2>2. faults' \in 0 .. MaxFaults
    BY <1>7, FaultType DEF DropPeer, UnroutePeer, UnroutePeerFails, NoFault
  <2>3. ip \in Ips
    OBVIOUS
  <2> HIDE DEF TypeOK
  <2>4. /\ DpTypeOK'
        /\ unroutePending' \in SUBSET Ips /\ outdated' \in SUBSET Ips /\ torn' \in SUBSET Ips
        /\ assignments' \in [Ips -> Ups \cup {None}]
    BY <2>1, <2>3, UnrouteTypes
  <2> QED
    BY <1>7, <2>2, <2>4 DEF DropPeer, TypeOK
<1>8. CASE DropEnd
  <2>1. stale' \in [Ups -> Trackers \cup {None}]
    BY <1>8 DEF DropEnd, LeaveProbe, Upstreams
  <2>2. ups' \in [Ups -> Upstreams \cup {None}] /\ probing' \subseteq InService'
    BY <1>8 DEF DropEnd, LeaveProbe
  <2> QED
    BY <1>8, <2>1, <2>2, DpStutter DEF DropEnd, LeaveProbe, AssignedTo
<1>9. CASE ReloadApply
  <2>1. InService \in SUBSET Ups
    OBVIOUS
  <2>2. SetUpstreams(InService) \/ SetUpstreamsFails(InService)
    BY <1>9 DEF ReloadApply
  <2>3. DpTypeOK'
    BY <2>1, <2>2, SetUpstreamsStep
  <2>4. faults' \in 0 .. MaxFaults
    BY <1>9, FaultType DEF ReloadApply, NoFault
  <2> QED
    BY <1>9, <2>3, <2>4 DEF ReloadApply
<1>10. CASE ReloadEnd
  BY <1>10, DpStutter DEF ReloadEnd
<1> QED
  BY <1>1, <1>2, <1>3, <1>4, <1>5, <1>6, <1>7, <1>8, <1>9, <1>10 DEF Reload

\* No step of the daemon, of the command line or of a probe breaks a type.
LEMMA TypeNext == TypeOK /\ [Next]_vars => TypeOK'
<1> SUFFICES ASSUME TypeOK, [Next]_vars PROVE TypeOK'
  OBVIOUS
<1>1. CASE UNCHANGED vars
  BY <1>1, DpStutter DEF TypeOK, InService, vars, dpVars, daemonVars, roundVars,
                         lockVars, ghostVars, envVars
<1> QED
  BY <1>1, TypeEnvironment, TypeProbes, TypeReconcile, TypeReload DEF Next

\* Every variable keeps its type, and a probe of a round always has the
\* object it started with.
THEOREM TypeCorrect == Spec => []TypeOK
BY TypeInit, TypeNext, PTL DEF Spec

-----------------------------------------------------------------------------
(* Peers: who owns an address                                              *)

\* PeerInv looks at few variables; steps that leave them alone preserve it.
LEMMA PeerFrame ==
  ASSUME PeerInv,
         UNCHANGED <<store, usedKeys, devicePeers, wg, snapshot, held>>,
         todo' \subseteq todo,
         phase' \in {"revoke", "sync"} => phase' = phase
  PROVE  PeerInv'
BY DEF PeerInv, OneOwnerPerAddress, StoredPeerKeepsItsTunnel, KeysIdentify,
       AddressesUnique, LoopsInBounds, KeysOf, IpsOf

\* Nobody is on the device at first.
LEMMA PeerInit == Init => PeerInv
BY DEF Init, PeerInv, OneOwnerPerAddress, StoredPeerKeepsItsTunnel, KeysIdentify,
       AddressesUnique, LoopsInBounds, KeysOf, IpsOf

\* The command line only brings fresh keys and free addresses.
LEMMA PeerEnvironment == ASSUME TypeOK, PeerInv, Environment PROVE PeerInv'
<1> USE DEF KeysOf, IpsOf, PeerInv, OneOwnerPerAddress, StoredPeerKeepsItsTunnel,
            KeysIdentify, AddressesUnique, LoopsInBounds, lockVars, daemonVars
<1>1. ASSUME NEW p \in Peers, StoreAdd(p) PROVE PeerInv'
  <2>1. p.key \notin usedKeys /\ p.ip \notin IpsOf(store)
        /\ store' = store \cup {p} /\ usedKeys' = usedKeys \cup {p.key}
        /\ UNCHANGED <<devicePeers, wg, snapshot, held, todo, phase>>
    BY <1>1 DEF StoreAdd, FreeAddress
  <2>2. \A q \in store \cup snapshot \cup devicePeers : q.key # p.key
    BY <2>1
  <2>3. OneOwnerPerAddress' /\ StoredPeerKeepsItsTunnel'
    BY <2>1, <2>2
  <2>4. KeysIdentify' /\ AddressesUnique'
    BY <2>1, <2>2
  <2>5. LoopsInBounds'
    BY <2>1, <2>2
  <2> QED
    BY <2>3, <2>4, <2>5
<1>2. ASSUME NEW p \in store, StoreDelete(p) PROVE PeerInv'
  BY <1>2 DEF StoreDelete
<1>3. CASE Signal
  BY <1>3 DEF Signal
<1> QED
  BY <1>1, <1>2, <1>3 DEF Environment

\* Reconcile moves an address to a new key only once its old peer is gone,
\* and revokes only keys that have left the store for good.
LEMMA PeerReconcile == ASSUME TypeOK, PeerInv, Reconcile PROVE PeerInv'
<1> USE DEF KeysOf, IpsOf, roundVars, envVars, daemonVars
<1>1. ASSUME NEW g \in {"run", "hup"}, ReconcileBegin(g) PROVE PeerInv'
  BY <1>1 DEF ReconcileBegin, PeerInv, OneOwnerPerAddress, StoredPeerKeepsItsTunnel,
              KeysIdentify, AddressesUnique, LoopsInBounds
<1>2. ASSUME NEW g \in {"run", "hup"}, ReconcileListFails(g) PROVE PeerInv'
  BY <1>2, PeerFrame DEF ReconcileListFails, Leave
<1>3. ASSUME NEW p \in todo, Revoke(p) PROVE PeerInv'
  <2> USE DEF PeerInv, OneOwnerPerAddress, StoredPeerKeepsItsTunnel, KeysIdentify,
              AddressesUnique, LoopsInBounds
  <2>1. /\ phase = "revoke" /\ p \in devicePeers /\ p.key \notin KeysOf(store)
        /\ todo' = todo \ {p}
        /\ UNCHANGED <<phase, snapshot, held, store, usedKeys>>
    BY <1>3 DEF Revoke, Revoked, NotRevoked, RevokeGoesWrong
  <2>2. \/ devicePeers' = devicePeers \ {p} /\ RemoveKey(p.key)
        \/ devicePeers' = devicePeers /\ (RemoveKey(p.key) \/ UNCHANGED wg)
    BY <1>3 DEF Revoke, Revoked, NotRevoked, RevokeGoesWrong
  <2>3. \A ip \in Ips : wg'[ip] = wg[ip] \/ (wg[ip] = p.key /\ wg'[ip] = None)
    BY <2>2 DEF RemoveKey, TypeOK
  <2>4. RemoveKey(p.key) => \A ip \in Ips : wg'[ip] # p.key
    <3>1. p.key # None
      BY <2>1, DaemonAssumption DEF TypeOK, Peers
    <3> QED
      BY <3>1 DEF RemoveKey
  <2>5. OneOwnerPerAddress'
    BY <2>1, <2>2, <2>3, <2>4
  <2>6. \A q \in Peers : q.ip \in Ips
    BY DEF Peers
  <2>7. StoredPeerKeepsItsTunnel'
    BY <2>1, <2>2, <2>3, <2>6 DEF TypeOK
  <2>8. KeysIdentify' /\ AddressesUnique' /\ LoopsInBounds'
    BY <2>1, <2>2
  <2> QED
    BY <2>5, <2>7, <2>8
<1>4. CASE RevokeEnd
  BY <1>4 DEF RevokeEnd, HeldAddresses, PeerInv, OneOwnerPerAddress, StoredPeerKeepsItsTunnel,
              KeysIdentify, AddressesUnique, LoopsInBounds
<1>5. ASSUME NEW p \in todo, Sync(p) PROVE PeerInv'
  <2>1. phase = "sync" /\ UNCHANGED <<phase, snapshot, held, store, usedKeys>>
    BY <1>5 DEF Sync
  <2>2. CASE SyncAdd(p)
    <3>1. CASE devicePeers' = devicePeers /\ wg' = wg /\ todo' = todo \ {p}
      BY <2>1, <3>1, PeerFrame
    <3>2. CASE /\ devicePeers' = devicePeers \cup {p}
               /\ wg' = [wg EXCEPT ![p.ip] = p.key] /\ todo' = todo
      <4> USE DEF PeerInv, OneOwnerPerAddress, StoredPeerKeepsItsTunnel, KeysIdentify,
                  AddressesUnique, LoopsInBounds
      <4>1. p \in snapshot /\ p.ip \notin held /\ p.key \notin KeysOf(devicePeers)
        BY <2>1, <2>2 DEF SyncAdd, Known
      <4>2. \A q \in devicePeers : q.ip # p.ip
        BY <2>1, <4>1
      <4>3. \A q \in Peers : q.ip \in Ips
        BY DEF Peers
      <4>4. wg'[p.ip] = p.key /\ \A ip \in Ips : ip # p.ip => wg'[ip] = wg[ip]
        BY <3>2, <4>1, <4>3 DEF TypeOK
      <4>5. OneOwnerPerAddress'
        BY <3>2, <4>1, <4>2, <4>4
      <4>6. StoredPeerKeepsItsTunnel'
        BY <2>1, <3>2, <4>2, <4>3, <4>4 DEF TypeOK
      <4>7. KeysIdentify' /\ AddressesUnique' /\ LoopsInBounds'
        BY <2>1, <3>2, <4>1
      <4> QED
        BY <4>5, <4>6, <4>7
    <3> QED
      BY <2>2, <3>1, <3>2 DEF SyncAdd
  <2>3. CASE UNCHANGED <<devicePeers, wg>> /\ todo' \subseteq todo
    BY <2>1, <2>3, PeerFrame
  <2> QED
    BY <1>5, <2>2, <2>3 DEF Sync, SyncHeld, SyncNoProfile, SyncCleanup, SyncBlock,
                            SyncKeep, SyncMove
<1>6. CASE ReconcileEnd
  BY <1>6 DEF ReconcileEnd, Leave, PeerInv, OneOwnerPerAddress, StoredPeerKeepsItsTunnel,
              KeysIdentify, AddressesUnique, LoopsInBounds
<1> QED
  BY <1>1, <1>2, <1>3, <1>4, <1>5, <1>6 DEF Reconcile

\* Probes and reloads leave the device's peers alone.
LEMMA PeerOther == ASSUME PeerInv, Probes \/ Reload PROVE PeerInv'
<1> USE DEF envVars, daemonVars, lockVars
<1>1. CASE Probes
  BY <1>1, PeerFrame DEF Probes, ProbeStart, RoundOver, ProbeDone, StaleProbeDone
<1>2. CASE Reload
  BY <1>2, PeerFrame DEF Reload, ReloadBegin, ReloadRejected, ReloadKeep, DropBegin,
       ReloadOpen, ReloadAlive, DropPeer, DropEnd, ReloadApply, ReloadEnd
<1> QED
  BY <1>1, <1>2

-----------------------------------------------------------------------------
(* Addresses: what the daemon and the dataplane hold about one of them     *)

\* Nothing is held about address j
Idle(j) ==
  /\ assignments[j] = None /\ j \notin unroutePending
  /\ j \notin allowed /\ rules[j] = <<>> /\ \A u \in Ups : <<j, u>> \notin pins

\* The parts of AddressInv, for one address
AddressOK(j) ==
  /\ Idle(j) \/ j \in IpsOf(devicePeers)
  /\ j \in allowed => assignments[j] # None
  /\ j \in outdated => j \in unroutePending
  /\ assignments[j] # None /\ assignments[j] \notin InService => j \in unroutePending
  /\ assignments[j] # None /\ j \notin unroutePending => j \in allowed

\* AddressInv speaks of each address on its own.
LEMMA AddressSplit ==
  TypeOK => (AddressInv <=> DropInBounds /\ \A j \in Ips : AddressOK(j))
<1> SUFFICES ASSUME TypeOK
             PROVE  AddressInv <=> DropInBounds /\ \A j \in Ips : AddressOK(j)
  OBVIOUS
<1>1. \A j \in Ips : PinsOf(j) = {} <=> \A u \in Ups : <<j, u>> \notin pins
  BY DEF PinsOf, TypeOK, DpTypeOK
<1>2. NothingOutlivesItsPeer <=> \A j \in Ips : Idle(j) \/ j \in IpsOf(devicePeers)
  BY <1>1 DEF NothingOutlivesItsPeer, Idle
<1>3. allowed \subseteq Ips /\ outdated \subseteq Ips
  BY DEF TypeOK, DpTypeOK
<1> QED
  BY <1>2, <1>3 DEF AddressInv, AddressOK, AdmittedIsAssigned, ReplacedIsPending,
                    SettledIsAdmitted

\* Nothing about address j changes but that rules and pins may go
Untouched(j) ==
  /\ assignments'[j] = assignments[j]
  /\ j \in unroutePending' <=> j \in unroutePending
  /\ j \in outdated' <=> j \in outdated
  /\ j \in allowed' <=> j \in allowed
  /\ rules[j] = <<>> => rules'[j] = <<>>
  /\ \A u \in Ups : <<j, u>> \in pins' => <<j, u>> \in pins

\* An address nobody touches stays in order while upstreams stay in service
\* and its peer stays on the device.
LEMMA AddressFrame ==
  ASSUME NEW j \in Ips, AddressOK(j), Untouched(j),
         assignments[j] \in InService => assignments[j] \in InService',
         j \in IpsOf(devicePeers) => j \in IpsOf(devicePeers)'
  PROVE  AddressOK(j)'
BY DEF AddressOK, Idle, Untouched

\* A step that only takes rules and pins away touches no address.
LEMMA ShrinksUntouched ==
  ASSUME Shrinks, UNCHANGED <<assignments, unroutePending, outdated>>, NEW j \in Ips
  PROVE  Untouched(j)
BY DEF Shrinks, Untouched

\* d.unroute leaves nothing behind, or leaves the address marked.
LEMMA UnrouteAddress ==
  ASSUME TypeOK, NEW ip \in Ips, ip \in IpsOf(devicePeers),
         \A j \in Ips : AddressOK(j),
         UNCHANGED ups,
         \/ /\ Unrouted(ip) /\ devicePeers' \subseteq devicePeers
            /\ \A q \in devicePeers \ devicePeers' : q.ip = ip
         \/ NotUnrouted(ip) /\ UNCHANGED devicePeers
  PROVE  /\ \A j \in Ips : AddressOK(j)'
         /\ \A j \in Ips : j # ip => Untouched(j)
         /\ assignments'[ip] = None \/ ip \in unroutePending'
<1>1. DpTypeOK
  BY DEF TypeOK
<1>2. OnlyAt(ip) /\ \A j \in Ips : j # ip => Untouched(j)
  <2>1. OnlyAt(ip)
    BY <1>1, UnrouteStep, UnrouteFailsStep DEF Unrouted, NotUnrouted
  <2>2. \A j \in Ips : j # ip =>
          /\ assignments'[j] = assignments[j]
          /\ j \in unroutePending' <=> j \in unroutePending
          /\ j \in outdated' <=> j \in outdated
    BY DEF Unrouted, NotUnrouted, TypeOK
  <2> QED
    BY <2>1, <2>2 DEF OnlyAt, Untouched
<1>3. \A j \in Ips : j # ip => (j \in IpsOf(devicePeers) => j \in IpsOf(devicePeers)')
  BY DEF IpsOf
<1>4. InService' = InService
  BY DEF InService
<1>5. \A j \in Ips : j # ip => AddressOK(j)'
  BY <1>2, <1>3, <1>4, AddressFrame
<1>6. CASE Unrouted(ip)
  <2>1. ip \notin allowed' /\ rules'[ip] = <<>> /\ PinsOf(ip)' = {}
    BY <1>1, <1>6, UnrouteStep DEF Unrouted
  <2>2. \A u \in Ups : <<ip, u>> \notin pins'
    BY <2>1 DEF PinsOf
  <2>3. assignments'[ip] = None /\ ip \notin unroutePending' /\ ip \notin outdated'
    BY <1>6 DEF Unrouted, TypeOK
  <2> QED
    BY <1>2, <1>5, <2>1, <2>2, <2>3 DEF AddressOK, Idle
<1>7. CASE NotUnrouted(ip) /\ UNCHANGED devicePeers
  <2>1. /\ allowed' \subseteq allowed /\ UNCHANGED <<assignments, outdated>>
        /\ ip \in unroutePending'
    BY <1>1, <1>7, UnrouteFailsStep DEF NotUnrouted
  <2>2. ip \in IpsOf(devicePeers)'
    BY <1>7 DEF IpsOf
  <2> QED
    BY <1>2, <1>5, <2>1, <2>2 DEF AddressOK
<1> QED
  BY <1>6, <1>7

\* Nothing is held about any address at first.
LEMMA AddressInit == Init => DropInBounds /\ \A j \in Ips : AddressOK(j)
BY DEF Init, DpInit, DropInBounds, AddressOK, Idle

\* The command line touches neither the daemon nor the kernel.
LEMMA AddressEnvironment ==
  ASSUME DropInBounds, \A j \in Ips : AddressOK(j), Environment
  PROVE  DropInBounds' /\ \A j \in Ips : AddressOK(j)'
<1>1. UNCHANGED <<dpVars, daemonVars, lockVars, ghostVars>>
  BY DEF Environment, StoreAdd, StoreDelete, Signal
<1> QED
  BY <1>1 DEF dpVars, daemonVars, lockVars, ghostVars, DropInBounds, AddressOK, Idle,
              InService, AssignedTo, IpsOf

\* A probe changes the tracker of an object and may take pins away.
LEMMA AddressProbes ==
  ASSUME TypeOK, DropInBounds, \A j \in Ips : AddressOK(j), Probes
  PROVE  DropInBounds' /\ \A j \in Ips : AddressOK(j)'
<1> USE DEF daemonVars, lockVars, ghostVars, envVars
<1>1. UNCHANGED <<assignments, unroutePending, outdated, devicePeers, phase, dropping, ipsTodo>>
  BY DEF Probes, ProbeStart, RoundOver, ProbeDone, StaleProbeDone
<1>2. InService' = InService /\ Shrinks
  <2>1. CASE ProbeStart \/ RoundOver
    BY <2>1, DpStutter DEF ProbeStart, RoundOver, InService, TypeOK
  <2>2. ASSUME NEW u \in Ups, NEW ok \in BOOLEAN, ProbeDone(u, ok)
        PROVE  InService' = InService /\ Shrinks
    <3>1. /\ Observed(u, ups[u].tracker, Observe(ups[u].tracker, ok))
          /\ ups' = [ups EXCEPT ![u].tracker = Observe(ups[u].tracker, ok)]
          /\ u \in InService
      BY <2>2 DEF ProbeDone, TypeOK
    <3>2. Shrinks
      BY <3>1, ObservedStep DEF TypeOK
    <3>3. \A v \in Ups : ups'[v] # None <=> v \in InService
      BY <3>1, TrackerUpdate, TrackerTypes DEF TypeOK
    <3> QED
      BY <3>2, <3>3 DEF InService
  <2>3. ASSUME NEW u \in Ups, NEW ok \in BOOLEAN, StaleProbeDone(u, ok)
        PROVE  InService' = InService /\ Shrinks
    BY <2>3, ObservedStep DEF StaleProbeDone, InService, TypeOK
  <2> QED
    BY <2>1, <2>2, <2>3 DEF Probes
<1>3. \A j \in Ips : AddressOK(j)'
  BY <1>1, <1>2, AddressFrame, ShrinksUntouched DEF IpsOf
<1> QED
  BY <1>1, <1>2, <1>3 DEF DropInBounds, AssignedTo

\* A peer of the snapshot whose key is on the device is there itself.
LEMMA KnownPeer ==
  ASSUME TypeOK, PeerInv, phase = "sync", NEW p \in todo, Known(p)
  PROVE  p \in Peers /\ p.ip \in Ips /\ p \in devicePeers /\ p.ip \in IpsOf(devicePeers)
<1>1. p \in snapshot /\ p \in Peers
  BY DEF PeerInv, LoopsInBounds, TypeOK
<1>2. PICK q \in devicePeers : q.key = p.key
  BY DEF Known, KeysOf
<1>3. p = q
  BY <1>1, <1>2 DEF PeerInv, KeysIdentify
<1> QED
  BY <1>1, <1>3 DEF Peers, IpsOf

\* The policy only offers upstreams in service.
LEMMA OffersInService ==
  ASSUME NEW p, NEW want \in Offers(p)
  PROVE  want \in InService
BY DEF Offers, Selectable, Candidates, Healthy

\* Reconcile admits an address only together with its assignment, and
\* forgets a peer only once nothing is left of its address.
LEMMA AddressReconcile ==
  ASSUME TypeOK, PeerInv, DropInBounds, \A j \in Ips : AddressOK(j), Reconcile
  PROVE  DropInBounds' /\ \A j \in Ips : AddressOK(j)'
<1> USE DEF roundVars, envVars, daemonVars, ghostVars
<1>1. phase' # "drop"
  BY DEF Reconcile, ReconcileBegin, ReconcileListFails, RevokeEnd, ReconcileEnd, Leave,
         Revoke, Revoked, NotRevoked, Sync
<1>2. ASSUME UNCHANGED <<dpVars, daemonVars, ghostVars>>
      PROVE  \A j \in Ips : AddressOK(j)'
  BY <1>2 DEF dpVars, AddressOK, Idle, InService, IpsOf
<1>3. ASSUME NEW p \in todo, Revoke(p) PROVE \A j \in Ips : AddressOK(j)'
  <2>1. p \in devicePeers /\ p.ip \in Ips /\ p.ip \in IpsOf(devicePeers)
    BY <1>3 DEF Revoke, Revoked, NotRevoked, RevokeGoesWrong, PeerInv, LoopsInBounds, TypeOK, Peers, IpsOf
  <2>2. UNCHANGED ups
    BY <1>3 DEF Revoke, Revoked, NotRevoked, RevokeGoesWrong
  <2>3. \/ Unrouted(p.ip) /\ (devicePeers' = devicePeers \ {p} \/ devicePeers' = devicePeers)
        \/ NotUnrouted(p.ip) /\ UNCHANGED devicePeers
    BY <1>3 DEF Revoke, Revoked, NotRevoked, RevokeGoesWrong
  <2> QED
    BY <2>1, <2>2, <2>3, UnrouteAddress
<1>4. ASSUME NEW p \in todo, Sync(p) PROVE \A j \in Ips : AddressOK(j)'
  <2>1. phase = "sync"
    BY <1>4 DEF Sync
  <2>2. CASE SyncHeld(p) \/ SyncKeep(p)
    BY <1>2, <2>2 DEF SyncHeld, SyncKeep
  <2>3. CASE SyncAdd(p)
    <3>1. /\ UNCHANGED <<assignments, unroutePending, outdated, ups, dpVars>>
          /\ devicePeers \subseteq devicePeers'
      BY <2>3 DEF SyncAdd
    <3> QED
      BY <3>1 DEF dpVars, AddressOK, Idle, InService, IpsOf
  <2>4. CASE SyncNoProfile(p) \/ SyncCleanup(p) \/ SyncBlock(p)
    <3>1. /\ Known(p) /\ UNCHANGED <<ups, devicePeers>>
          /\ Unrouted(p.ip) \/ NotUnrouted(p.ip)
      BY <2>4 DEF SyncNoProfile, SyncCleanup, SyncBlock, Routable, UnroutePeer,
                  UnroutePeerFails
    <3> QED
      BY <2>1, <3>1, KnownPeer, UnrouteAddress
  <2>5. ASSUME NEW want \in Ups, SyncMove(p, want) PROVE \A j \in Ips : AddressOK(j)'
    <3>1. /\ Known(p) /\ want \in InService /\ p.ip \notin unroutePending
          /\ UNCHANGED <<ups, devicePeers, unroutePending>>
      BY <2>5, OffersInService DEF SyncMove, Routable
    <3>2. p.ip \in Ips /\ p.ip \in IpsOf(devicePeers)
      BY <2>1, <3>1, KnownPeer
    <3>3. CASE /\ Route(p.ip, want) /\ assignments' = [assignments EXCEPT ![p.ip] = want]
               /\ outdated' = outdated \ {p.ip}
      <4>1. OnlyAt(p.ip) /\ allowed' = allowed \cup {p.ip}
        BY <3>2, <3>3, RouteStep DEF TypeOK
      <4>2. ASSUME NEW j \in Ips, j # p.ip PROVE AddressOK(j)'
        <5>1. Untouched(j)
          BY <3>1, <3>3, <4>1, <4>2 DEF OnlyAt, Untouched, TypeOK
        <5> QED
          BY <3>1, <5>1, AddressFrame DEF InService, IpsOf
      <4>3. assignments'[p.ip] = want /\ want # None
        BY <3>2, <3>3, DaemonAssumption DEF TypeOK
      <4>4. AddressOK(p.ip)'
        BY <3>1, <3>2, <3>3, <4>1, <4>3 DEF AddressOK, InService, IpsOf
      <4> QED
        BY <4>2, <4>4
    <3>4. CASE /\ RouteFails(p.ip, want) \/ RouteUnknown(want)
               /\ UNCHANGED <<assignments, outdated>>
      <4>1. OnlyAt(p.ip) /\ allowed' = allowed
        BY <3>2, <3>4, RouteFailsStep DEF TypeOK, RouteUnknown, dpVars, OnlyAt
      <4>2. ASSUME NEW j \in Ips, j # p.ip PROVE AddressOK(j)'
        <5>1. Untouched(j)
          BY <3>1, <3>4, <4>1, <4>2 DEF OnlyAt, Untouched
        <5> QED
          BY <3>1, <5>1, AddressFrame DEF InService, IpsOf
      <4>3. AddressOK(p.ip)'
        BY <3>1, <3>2, <3>4, <4>1 DEF AddressOK, InService, IpsOf
      <4> QED
        BY <4>2, <4>3
    <3> QED
      BY <2>5, <3>3, <3>4 DEF SyncMove
  <2> QED
    BY <1>4, <2>2, <2>3, <2>4, <2>5 DEF Sync
<1>5. \A j \in Ips : AddressOK(j)'
  BY <1>2, <1>3, <1>4 DEF Reconcile, ReconcileBegin, ReconcileListFails, RevokeEnd,
     ReconcileEnd
<1> QED
  BY <1>1, <1>5 DEF DropInBounds

\* Reload marks what it cannot unroute before it closes the upstream.
LEMMA AddressReload ==
  ASSUME TypeOK, DropInBounds, \A j \in Ips : AddressOK(j), Reload
  PROVE  DropInBounds' /\ \A j \in Ips : AddressOK(j)'
<1> USE DEF roundVars, envVars, daemonVars, ghostVars
<1>1. ASSUME Shrinks, phase' # "drop", InService \subseteq InService',
             UNCHANGED <<assignments, unroutePending, outdated, devicePeers>>
      PROVE  DropInBounds' /\ \A j \in Ips : AddressOK(j)'
  BY <1>1, AddressFrame, ShrinksUntouched DEF IpsOf, DropInBounds
<1>2. DpTypeOK
  BY DEF TypeOK
<1>3. ASSUME NEW c \in Configs, ReloadBegin(c)
      PROVE  DropInBounds' /\ \A j \in Ips : AddressOK(j)'
  BY <1>1, <1>2, <1>3, DpStutter DEF ReloadBegin, InService
<1>4. CASE ReloadRejected
  BY <1>2, <1>4, DpStutter, AddressFrame, ShrinksUntouched
     DEF ReloadRejected, InService, lockVars, IpsOf, DropInBounds, AssignedTo
<1>5. ASSUME NEW u \in upsTodo, ReloadKeep(u)
      PROVE  DropInBounds' /\ \A j \in Ips : AddressOK(j)'
  <2>1. u \in InService /\ phase' # "drop"
    BY <1>5 DEF ReloadKeep
  <2>2. SetThresholds(ups[u].tracker, newCfg.downAfter, newCfg.upAfter) \in Trackers
    BY <2>1, TrackerUpdate, TrackerTypes, ConfigTypes DEF TypeOK
  <2>3. InService' = InService
    BY <1>5, <2>1, <2>2, TrackerUpdate DEF ReloadKeep, TypeOK, InService
  <2> QED
    BY <1>1, <1>2, <1>5, <2>1, <2>3, DpStutter DEF ReloadKeep
<1>6. ASSUME NEW u \in upsTodo, DropBegin(u)
      PROVE  DropInBounds' /\ \A j \in Ips : AddressOK(j)'
  <2>1. /\ u \in InService /\ dropping' = u /\ ipsTodo' = AssignedTo(u)
        /\ UNCHANGED <<dpVars, assignments, unroutePending, outdated, devicePeers, ups>>
    BY <1>6 DEF DropBegin
  <2>2. DropInBounds'
    BY <2>1 DEF DropInBounds, AssignedTo, InService
  <2> QED
    BY <2>1, <2>2 DEF dpVars, AddressOK, Idle, InService, IpsOf
<1>7. ASSUME NEW u \in upsTodo, ReloadOpen(u)
      PROVE  DropInBounds' /\ \A j \in Ips : AddressOK(j)'
  <2>1. UNCHANGED <<dpVars, assignments, unroutePending, outdated, devicePeers, phase>>
        /\ phase = "reload"
    BY <1>7 DEF ReloadOpen
  <2>2. InService \subseteq InService'
    BY <1>7 DEF ReloadOpen, InService, TypeOK
  <2> QED
    BY <1>1, <1>2, <2>1, <2>2, DpStutter
<1>8. ASSUME NEW u \in upsTodo, ReloadAlive(u)
      PROVE  DropInBounds' /\ \A j \in Ips : AddressOK(j)'
  <2>1. /\ ApplyAlive(u, ups[u].tracker.state = "up") /\ phase' = "alive"
        /\ UNCHANGED <<assignments, unroutePending, outdated, devicePeers, ups>>
    BY <1>8 DEF ReloadAlive
  <2>2. (ups[u].tracker.state = "up") \in BOOLEAN
    OBVIOUS
  <2>3. Shrinks
    BY <2>1, <2>2, ApplyAliveStep DEF TypeOK
  <2> QED
    BY <1>1, <2>1, <2>3 DEF InService
<1>9. ASSUME NEW ip \in ipsTodo, DropPeer(ip)
      PROVE  DropInBounds' /\ \A j \in Ips : AddressOK(j)'
  <2>1. /\ phase = "drop" /\ ipsTodo' = ipsTodo \ {ip}
        /\ Unrouted(ip) \/ NotUnrouted(ip)
        /\ UNCHANGED <<dropping, ups, devicePeers>>
    BY <1>9 DEF DropPeer, UnroutePeer, UnroutePeerFails
  <2>2. ip \in Ips /\ assignments[ip] = dropping /\ dropping # None /\ dropping \in InService
    BY <2>1, DaemonAssumption DEF DropInBounds, InService, TypeOK
  <2>3. ip \in IpsOf(devicePeers)
    BY <2>2 DEF AddressOK, Idle
  <2>4. /\ \A j \in Ips : AddressOK(j)'
        /\ \A j \in Ips : j # ip => Untouched(j)
        /\ assignments'[ip] = None \/ ip \in unroutePending'
    BY <2>1, <2>2, <2>3, UnrouteAddress
  <2>5. DropInBounds'
    BY <2>1, <2>2, <2>4 DEF DropInBounds, AssignedTo, Untouched, InService, TypeOK
  <2> QED
    BY <2>4, <2>5
<1>10. CASE DropEnd
  <2>1. /\ phase = "drop" /\ ipsTodo = {} /\ phase' = "reload"
        /\ ups' = [ups EXCEPT ![dropping] = None]
        /\ outdated' = outdated \cup AssignedTo(dropping)
        /\ UNCHANGED <<dpVars, assignments, unroutePending, devicePeers>>
    BY <1>10 DEF DropEnd, LeaveProbe
  <2>2. \A j \in AssignedTo(dropping) : j \in unroutePending
    BY <2>1 DEF DropInBounds
  <2>3. \A u \in InService : u \in InService' \/ u = dropping
    BY <2>1 DEF InService, TypeOK
  <2>4. \A j \in Ips : AddressOK(j)'
    BY <2>1, <2>2, <2>3 DEF AddressOK, Idle, dpVars, IpsOf, AssignedTo
  <2> QED
    BY <2>1, <2>4 DEF DropInBounds
<1>11. CASE ReloadApply
  <2>1. /\ SetUpstreams(InService) \/ SetUpstreamsFails(InService)
        /\ phase' # "drop"
        /\ UNCHANGED <<assignments, unroutePending, outdated, devicePeers, ups>>
    BY <1>11 DEF ReloadApply
  <2>2. InService \in SUBSET Ups
    BY DEF InService
  <2> QED
    BY <1>1, <1>2, <2>1, <2>2, SetUpstreamsStep DEF InService
<1>12. CASE ReloadEnd
  BY <1>1, <1>2, <1>12, DpStutter DEF ReloadEnd, InService
<1> QED
  BY <1>3, <1>4, <1>5, <1>6, <1>7, <1>8, <1>9, <1>10, <1>11, <1>12 DEF Reload

-----------------------------------------------------------------------------
(* The inductive invariant and what follows from it                        *)

\* IInv holds at first.
LEMMA IInvInit == Init => IInv
BY TypeInit, PeerInit, AddressInit, AddressSplit DEF IInv

\* No step breaks IInv.
LEMMA IInvNext == IInv /\ [Next]_vars => IInv'
<1> SUFFICES ASSUME IInv, [Next]_vars PROVE IInv'
  OBVIOUS
<1>1. TypeOK /\ PeerInv /\ DropInBounds /\ \A j \in Ips : AddressOK(j)
  BY AddressSplit DEF IInv
<1>2. TypeOK'
  BY <1>1, TypeNext
<1>3. (AddressInv <=> DropInBounds /\ \A j \in Ips : AddressOK(j))'
  BY <1>2, AddressSplit, PTL
<1>4. CASE Next
  <2>1. PeerInv'
    BY <1>1, <1>4, PeerEnvironment, PeerReconcile, PeerOther DEF Next
  <2>2. DropInBounds' /\ \A j \in Ips : AddressOK(j)'
    BY <1>1, <1>4, AddressEnvironment, AddressProbes, AddressReconcile, AddressReload
       DEF Next
  <2> QED
    BY <1>2, <1>3, <2>1, <2>2 DEF IInv
<1>5. CASE UNCHANGED vars
  <2>1. PeerInv'
    BY <1>1, <1>5, PeerFrame DEF vars, envVars, daemonVars, lockVars
  <2>2. DropInBounds' /\ \A j \in Ips : AddressOK(j)'
    BY <1>1, <1>5 DEF vars, dpVars, daemonVars, lockVars, ghostVars, DropInBounds,
       AddressOK, Idle, InService, AssignedTo, IpsOf
  <2> QED
    BY <1>2, <1>3, <2>1, <2>2 DEF IInv
<1> QED
  BY <1>4, <1>5

\* The inductive invariant holds in every state.
THEOREM Invariant == Spec => []IInv
BY IInvInit, IInvNext, PTL DEF Spec

\* No two records share an address or a key, and the device routes an address
\* only to its owner of record.
THEOREM OneOwner == Spec => []OneOwnerPerAddress
<1>1. IInv => OneOwnerPerAddress
  BY DEF IInv, PeerInv
<1> QED
  BY <1>1, Invariant, PTL

\* A stored client that is on the device keeps its address there.
THEOREM TunnelKept == Spec => []StoredPeerKeepsItsTunnel
<1>1. IInv => StoredPeerKeepsItsTunnel
  BY DEF IInv, PeerInv
<1> QED
  BY <1>1, Invariant, PTL

\* What is held about an address goes before the record of its peer does.
THEOREM NothingOutlives == Spec => []NothingOutlivesItsPeer
<1>1. IInv => NothingOutlivesItsPeer
  BY DEF IInv, AddressInv
<1> QED
  BY <1>1, Invariant, PTL

\* The firewall admits an address exactly when it is assigned, up to pending
\* cleanups.
THEOREM AdmissionFollowsAssignment == Spec => [](AdmittedIsAssigned /\ SettledIsAdmitted)
<1>1. IInv => AdmittedIsAssigned /\ SettledIsAdmitted
  BY DEF IInv, AddressInv
<1> QED
  BY <1>1, Invariant, PTL

\* No assignment to a closed upstream passes for a current one.
THEOREM ReplacedPending == Spec => []ReplacedIsPending
<1>1. IInv => ReplacedIsPending
  BY DEF IInv, AddressInv
<1> QED
  BY <1>1, Invariant, PTL

-----------------------------------------------------------------------------
(* Pins to upstreams that are not alive                                    *)

\* Unroute takes pins away and leaves health alone.
LEMMA UnroutePins ==
  ASSUME NEW ip \in Ips, Unroute(ip) \/ UnrouteFails(ip)
  PROVE  alive' = alive /\ \A pin \in pins' : pin \in pins \/ pin[2] \in alive
<1>1. CASE Unroute(ip)  BY <1>1 DEF Unroute
<1>2. CASE RevokeFails(ip)  BY <1>2 DEF RevokeFails, dpVars
<1>3. CASE CleanupFails(ip)
  <2>1. pins' \subseteq pins /\ alive' = alive  BY <1>3 DEF CleanupFails, PinsOf
  <2> QED  BY <2>1
<1> QED  BY <1>1, <1>2, <1>3 DEF UnrouteFails

\* Route pins an address to old upstreams that are alive, wherever it fails.
LEMMA RoutePins ==
  ASSUME NEW ip \in Ips, NEW u \in Ups, Route(ip, u) \/ RouteFails(ip, u) \/ RouteUnknown(u)
  PROVE  alive' = alive /\ \A pin \in pins' : pin \in pins \/ pin[2] \in alive
<1>1. \A pin \in NewPins(ip) : pin[2] \in alive  BY DEF NewPins
<1>2. CASE Route(ip, u)  BY <1>1, <1>2 DEF Route, AlreadyRouted, MoveRule
<1>3. CASE RouteFailsEarly \/ RouteUnknown(u)
  BY <1>3 DEF RouteFailsEarly, RouteUnknown, dpVars
<1>4. CASE RouteFailsAdding(ip, u)
  <2>1. PICK added \in SUBSET NewPins(ip) : pins' = (pins \ {<<ip, u>>}) \cup added
    BY <1>4 DEF RouteFailsAdding
  <2> QED  BY <1>1, <1>4, <2>1 DEF RouteFailsAdding
<1>5. CASE RouteFailsDeleting(ip, u)  BY <1>1, <1>5 DEF RouteFailsDeleting
<1>6. CASE AuthorizeFails(ip, u)  BY <1>1, <1>6 DEF AuthorizeFails
<1> QED  BY <1>2, <1>3, <1>4, <1>5, <1>6 DEF RouteFails

\* The pins to the upstreams in S are all alive or to be retried.
Covered(S) == \A pin \in pins : pin[2] \in S => pin[2] \in alive \cup aliveFailed

\* d.applyAlive either takes the pins of a dead upstream away or remembers it.
LEMMA ApplyAliveCovers ==
  ASSUME NEW u \in Ups, NEW up \in BOOLEAN, NEW S, Covered(S \ {u}), ApplyAlive(u, up)
  PROVE  \A pin \in pins' : pin[2] \in S => pin[2] \in alive' \cup aliveFailed'
<1>1. CASE SetAlive(u, up) /\ aliveFailed' = aliveFailed \ {u}
  <2> SUFFICES ASSUME NEW pin \in pins', pin[2] \in S PROVE pin[2] \in alive' \cup aliveFailed'
    OBVIOUS
  <2>1. CASE up  BY <1>1, <2>1 DEF SetAlive, Covered
  <2>2. CASE ~up
    <3>1. pin \in pins /\ pin[2] # u  BY <1>1, <2>2 DEF SetAlive, PinsTo
    <3> QED  BY <1>1, <2>2, <3>1 DEF SetAlive, Covered
  <2> QED  BY <2>1, <2>2
<1>2. CASE SetAliveFails(u, up) /\ aliveFailed' = aliveFailed \cup {u}
  <2>1. alive' = alive \ {u} /\ pins' \subseteq pins  BY <1>2 DEF SetAliveFails, PinsTo
  <2> QED  BY <1>2, <2>1 DEF Covered
<1>3. CASE SetAliveUnknown(u) /\ aliveFailed' = aliveFailed \cup {u}
  BY <1>3 DEF SetAliveUnknown, dpVars, Covered
<1> QED  BY <1>1, <1>2, <1>3 DEF ApplyAlive

\* It accounts for its upstream from then on, a new one included.
LEMMA ApplyAlivePins ==
  ASSUME TypeOK, PinsAreAliveOrRetried, NEW u \in Ups, NEW up \in BOOLEAN,
         ApplyAlive(u, up), InService' = InService
  PROVE  PinsAreAliveOrRetried'
<1> DEFINE S == InService \ fresh'
<1>1. fresh' = fresh \ {u}  BY DEF ApplyAlive
<1>2. Covered(S \ {u})  BY <1>1 DEF PinsAreAliveOrRetried, Covered
<1>3. \A pin \in pins' : pin[2] \in S => pin[2] \in alive' \cup aliveFailed'
  <2> HIDE DEF S
  <2> QED  BY <1>2, ApplyAliveCovers
<1> QED  BY <1>3 DEF PinsAreAliveOrRetried

\* The same for a probe, which does nothing if the health is what it was.
LEMMA ObservedPins ==
  ASSUME TypeOK, PinsAreAliveOrRetried, NEW u \in Ups, NEW before, NEW after,
         Observed(u, before, after), InService' = InService
  PROVE  PinsAreAliveOrRetried'
<1>1. (after.state = "up") \in BOOLEAN  OBVIOUS
<1>2. CASE ApplyAlive(u, after.state = "up")  BY <1>1, <1>2, ApplyAlivePins
<1>3. CASE UNCHANGED <<dpVars, aliveFailed, fresh>>
  BY <1>3 DEF dpVars, PinsAreAliveOrRetried
<1> QED  BY <1>2, <1>3 DEF Observed

\* A probe applies health under d.mu.
LEMMA PinProbes ==
  ASSUME TypeOK, PinsAreAliveOrRetried, Probes PROVE PinsAreAliveOrRetried'
<1>1. CASE ProbeStart \/ RoundOver
  BY <1>1 DEF ProbeStart, RoundOver, PinsAreAliveOrRetried, InService, dpVars, daemonVars, ghostVars
<1>2. ASSUME NEW u \in Ups, NEW ok \in BOOLEAN, ProbeDone(u, ok) PROVE PinsAreAliveOrRetried'
  <2>1. /\ Observed(u, ups[u].tracker, Observe(ups[u].tracker, ok))
        /\ ups' = [ups EXCEPT ![u].tracker = Observe(ups[u].tracker, ok)]
        /\ u \in InService
    BY <1>2 DEF ProbeDone, TypeOK
  <2>2. \A v \in Ups : ups'[v] # None <=> v \in InService
    BY <2>1, TrackerUpdate, TrackerTypes DEF TypeOK
  <2>3. InService' = InService  BY <2>2 DEF InService
  <2> QED  BY <2>1, <2>3, ObservedPins
<1>3. ASSUME NEW u \in Ups, NEW ok \in BOOLEAN, StaleProbeDone(u, ok)
      PROVE  PinsAreAliveOrRetried'
  BY <1>3, ObservedPins DEF StaleProbeDone, InService
<1> QED  BY <1>1, <1>2, <1>3 DEF Probes

\* Calls for one address, by whomever.
LEMMA PinCalls ==
  ASSUME PinsAreAliveOrRetried, alive' = alive, UNCHANGED <<ups, aliveFailed, fresh>>,
         \A pin \in pins' : pin \in pins \/ pin[2] \in alive
  PROVE  PinsAreAliveOrRetried'
BY DEF PinsAreAliveOrRetried, InService

\* Reconcile only makes calls for addresses.
LEMMA PinReconcile ==
  ASSUME TypeOK, PinsAreAliveOrRetried, Reconcile PROVE PinsAreAliveOrRetried'
<1> USE DEF dpVars, daemonVars, ghostVars
<1>1. ASSUME NEW g \in {"run", "hup"}, ReconcileBegin(g) \/ ReconcileListFails(g)
      PROVE  PinsAreAliveOrRetried'
  BY <1>1, PinCalls DEF ReconcileBegin, ReconcileListFails
<1>2. CASE RevokeEnd \/ ReconcileEnd  BY <1>2, PinCalls DEF RevokeEnd, ReconcileEnd
<1>3. ASSUME NEW p \in todo, Revoke(p) PROVE PinsAreAliveOrRetried'
  <2>1. p.ip \in Ips  BY <1>3 DEF TypeOK, Peers
  <2>2. UNCHANGED <<ups, aliveFailed, fresh>> /\ (Unroute(p.ip) \/ UnrouteFails(p.ip))
    BY <1>3 DEF Revoke, Revoked, NotRevoked, RevokeGoesWrong, Unrouted, NotUnrouted
  <2> QED  BY <2>1, <2>2, UnroutePins, PinCalls
<1>4. ASSUME NEW p \in todo, Sync(p) PROVE PinsAreAliveOrRetried'
  <2>1. p.ip \in Ips  BY <1>4 DEF TypeOK, Peers
  <2>2. UNCHANGED <<ups, aliveFailed, fresh>>
    BY <1>4
    DEF Sync, SyncHeld, SyncAdd, SyncNoProfile, SyncCleanup, SyncBlock, SyncKeep, SyncMove
  <2>3. CASE SyncHeld(p) \/ SyncAdd(p) \/ SyncKeep(p)
    BY <2>2, <2>3, PinCalls DEF SyncHeld, SyncAdd, SyncKeep
  <2>4. CASE SyncNoProfile(p) \/ SyncCleanup(p) \/ SyncBlock(p)
    <3>1. Unroute(p.ip) \/ UnrouteFails(p.ip)
      BY <2>4
      DEF SyncNoProfile, SyncCleanup, SyncBlock, UnroutePeer, UnroutePeerFails, Unrouted,
          NotUnrouted
    <3> QED  BY <2>1, <2>2, <3>1, UnroutePins, PinCalls
  <2>5. ASSUME NEW want \in Ups, SyncMove(p, want) PROVE PinsAreAliveOrRetried'
    <3>1. Route(p.ip, want) \/ RouteFails(p.ip, want) \/ RouteUnknown(want)
      BY <2>5 DEF SyncMove
    <3> QED  BY <2>1, <2>2, <3>1, RoutePins, PinCalls
  <2> QED  BY <1>4, <2>3, <2>4, <2>5 DEF Sync
<1> QED  BY <1>1, <1>2, <1>3, <1>4 DEF Reconcile

\* Reload forgets a retry only with its upstream, and takes nothing that is in
\* service for dead.
LEMMA PinReload ==
  ASSUME TypeOK, PinsAreAliveOrRetried, Reload PROVE PinsAreAliveOrRetried'
<1> USE DEF dpVars, daemonVars, ghostVars
<1>1. ASSUME NEW c \in Configs, ReloadBegin(c) PROVE PinsAreAliveOrRetried'
  BY <1>1, PinCalls DEF ReloadBegin
<1>2. CASE ReloadRejected \/ ReloadEnd  BY <1>2, PinCalls DEF ReloadRejected, ReloadEnd
<1>3. ASSUME NEW u \in upsTodo, DropBegin(u) PROVE PinsAreAliveOrRetried'
  BY <1>3, PinCalls DEF DropBegin
<1>4. ASSUME NEW u \in upsTodo, ReloadKeep(u) PROVE PinsAreAliveOrRetried'
  <2>1. u \in InService /\ ups \in [Ups -> Upstreams \cup {None}] /\ newCfg \in Configs
    BY <1>4 DEF ReloadKeep, TypeOK
  <2>2. SetThresholds(ups[u].tracker, newCfg.downAfter, newCfg.upAfter) \in Trackers
    BY <2>1, TrackerUpdate, TrackerTypes, ConfigTypes
  <2>3. ups' = [ups EXCEPT ![u].tracker =
                  SetThresholds(ups[u].tracker, newCfg.downAfter, newCfg.upAfter)]
    BY <1>4 DEF ReloadKeep
  <2>4. InService' = InService  BY <2>1, <2>2, <2>3, TrackerUpdate DEF InService
  <2> QED  BY <1>4, <2>4 DEF ReloadKeep, PinsAreAliveOrRetried
<1>5. ASSUME NEW u \in upsTodo, ReloadOpen(u) PROVE PinsAreAliveOrRetried'
  <2>1. InService' \ fresh' \subseteq InService \ fresh
    BY <1>5 DEF ReloadOpen, InService, TypeOK
  <2> QED  BY <1>5, <2>1 DEF ReloadOpen, PinsAreAliveOrRetried
<1>6. ASSUME NEW ip \in ipsTodo, DropPeer(ip) PROVE PinsAreAliveOrRetried'
  <2>1. /\ ip \in Ips /\ UNCHANGED <<ups, aliveFailed, fresh>>
        /\ Unroute(ip) \/ UnrouteFails(ip)
    BY <1>6 DEF DropPeer, UnroutePeer, UnroutePeerFails, Unrouted, NotUnrouted, TypeOK
  <2> QED  BY <2>1, UnroutePins, PinCalls
<1>7. CASE DropEnd
  <2>1. /\ InService' \ fresh' \subseteq (InService \ fresh) \ {dropping}
        /\ pins' = pins /\ alive' = alive /\ aliveFailed' = aliveFailed \ {dropping}
    BY <1>7 DEF DropEnd, InService, TypeOK
  <2> QED  BY <2>1 DEF PinsAreAliveOrRetried
<1>8. CASE ReloadApply
  <2>1. /\ pins' \subseteq pins /\ alive \cap InService \subseteq alive'
        /\ UNCHANGED <<ups, aliveFailed, fresh>>
    BY <1>8 DEF ReloadApply, SetUpstreams, SetUpstreamsFails, AddUpstreamFails, RemoveUpstreamFails
  <2> QED  BY <2>1 DEF PinsAreAliveOrRetried, InService
<1>9. ASSUME NEW u \in upsTodo, ReloadAlive(u) PROVE PinsAreAliveOrRetried'
  <2>1. /\ u \in Ups /\ (ups[u].tracker.state = "up") \in BOOLEAN
        /\ InService' = InService /\ ApplyAlive(u, ups[u].tracker.state = "up")
    BY <1>9 DEF ReloadAlive, InService, TypeOK
  <2> QED  BY <2>1, ApplyAlivePins
<1> QED  BY <1>1, <1>2, <1>3, <1>4, <1>5, <1>6, <1>7, <1>8, <1>9 DEF Reload

\* At every moment a pin to an upstream in service that is not alive is one the
\* daemon remembers to remove, unless a Reload has just opened the upstream and its
\* health has not been applied yet (applyAlive, Reload).
THEOREM PinsRetried == Spec => []PinsAreAliveOrRetried
<1>1. Init => PinsAreAliveOrRetried  BY DEF Init, DpInit, PinsAreAliveOrRetried
<1>2. TypeOK /\ PinsAreAliveOrRetried /\ [Next]_vars => PinsAreAliveOrRetried'
  <2> SUFFICES ASSUME TypeOK, PinsAreAliveOrRetried, [Next]_vars PROVE PinsAreAliveOrRetried'
    OBVIOUS
  <2>1. CASE Environment \/ UNCHANGED vars
    BY <2>1, PinCalls
    DEF Environment, StoreAdd, StoreDelete, Signal, vars, dpVars, daemonVars, ghostVars
  <2> QED  BY <2>1, PinProbes, PinReconcile, PinReload DEF Next
<1> QED  BY <1>1, <1>2, TypeCorrect, PTL DEF Spec

-----------------------------------------------------------------------------
(* Where the rules send new flows                                          *)

\* RulesFollow, one address at a time
RuleFollows(ip) ==
  ip \notin torn => /\ AtMostOne(rules[ip])
                    /\ ip \notin unroutePending => rules[ip] = RuleOf(ip)

\* Deleting rules from a list of one leaves it, or nothing.
LEMMA SurvivorsOfOne ==
  ASSUME NEW u \in Ups, NEW gone, NEW t \in Survivors(<<u>>, gone)
  PROVE  t = IF u \in gone THEN <<>> ELSE <<u>>
<1>1. PICK n \in 0 .. 1 : t \in [1 .. n -> Ups]
  BY DEF Survivors
<1>2. Elems(t) = {u} \ gone
  BY DEF Survivors, Elems
<1>3. CASE n = 0
  <2>1. t = <<>>
    BY <1>1, <1>3
  <2>2. Elems(t) = {}
    BY <2>1 DEF Elems
  <2> QED
    BY <1>2, <2>1, <2>2
<1>4. CASE n = 1
  <2>1. t = <<t[1]>> /\ DOMAIN t = {1}
    BY <1>1, <1>4
  <2>2. t[1] \in Elems(t)
    BY <2>1 DEF Elems
  <2> QED
    BY <1>2, <2>1, <2>2
<1> QED
  BY <1>1, <1>3, <1>4

\* A deletion that stops part of the way keeps the last rule.
LEMMA TailsOfOne ==
  ASSUME NEW s \in Seq(Ups), Len(s) = 1, NEW t \in Tails(s)
  PROVE  t = s
<1>1. t = SubSeq(s, 1, 1)
  BY DEF Tails
<1>2. \A i \in 1 .. 1 : s[i] \in Ups
  OBVIOUS
<1>3. t \in Seq(Ups) /\ Len(t) = 1 /\ \A i \in 1 .. 1 : t[i] = s[1 + i - 1]
  BY <1>1, <1>2, SubSeqProperties
<1>4. t[1] = s[1]
  BY <1>3
<1> QED
  BY <1>3, <1>4

\* The same for a list with at most one rule.
LEMMA SurvivorsOfLone ==
  ASSUME NEW s \in Seq(Ups), AtMostOne(s),
         NEW gone, NEW t \in Survivors(s, gone)
  PROVE  /\ t = s \/ t = <<>>
         /\ \A u \in Ups : t = <<u>> => u \notin gone
         /\ \A u \in Ups : s = <<u>> /\ u \notin gone => t = s
<1>1. CASE s = <<>>
  <2>1. t = <<>>
    <3>1. Survivors(s, gone) \subseteq {<<>>}
      BY <1>1, SurvivorsType
    <3> QED
      BY <3>1
  <2> QED
    BY <1>1, <2>1
<1>2. ASSUME NEW u \in Ups, s = <<u>>
      PROVE  /\ t = s \/ t = <<>>
             /\ \A v \in Ups : t = <<v>> => v \notin gone
             /\ \A v \in Ups : s = <<v>> /\ v \notin gone => t = s
  <2>1. t = IF u \in gone THEN <<>> ELSE <<u>>
    BY <1>2, SurvivorsOfOne
  <2>2. \A v : <<>> # <<v>> /\ (<<u>> = <<v>> => u = v)
    OBVIOUS
  <2>3. CASE u \in gone
    BY <1>2, <2>1, <2>2, <2>3
  <2>4. CASE u \notin gone
    BY <1>2, <2>1, <2>2, <2>4
  <2> QED
    BY <2>3, <2>4
<1> QED
  BY <1>1, <1>2 DEF AtMostOne

\* d.unroute empties the list, or leaves a lone rule and marks the address.
LEMMA UnrouteRules ==
  ASSUME TypeOK, NEW ip \in Ips, RuleFollows(ip), Unrouted(ip) \/ NotUnrouted(ip)
  PROVE  /\ RuleFollows(ip)'
         /\ ip \notin torn => rules'[ip] = rules[ip] \/ rules'[ip] = <<>>
         /\ \A j \in Ips : j # ip => /\ rules'[j] = rules[j] /\ assignments'[j] = assignments[j]
                                     /\ j \in unroutePending' <=> j \in unroutePending
                                     /\ j \in torn' <=> j \in torn
         /\ allowed' \subseteq allowed /\ fwUps' = fwUps
<1> USE DEF TypeOK, DpTypeOK
<1>1. CASE Unrouted(ip)
  BY <1>1 DEF Unrouted, Unroute, RuleFollows, AtMostOne, RuleOf
<1>2. CASE NotUnrouted(ip)
  <2>1. /\ ip \in unroutePending' /\ UNCHANGED <<assignments, torn>>
        /\ unroutePending' = unroutePending \cup {ip}
    BY <1>2 DEF NotUnrouted
  <2>2. CASE RevokeFails(ip)
    BY <2>1, <2>2 DEF RevokeFails, dpVars, RuleFollows
  <2>3. CASE CleanupFails(ip)
    <3>1. /\ allowed' \subseteq allowed /\ fwUps' = fwUps
          /\ \A j \in Ips : j # ip => rules'[j] = rules[j]
      BY <2>3 DEF CleanupFails
    <3>2. ASSUME ip \notin torn PROVE rules' = rules
      <4>1. ASSUME NEW tail \in Tails(rules[ip]), rules' = [rules EXCEPT ![ip] = tail]
            PROVE  rules' = rules
        <5>1. DOMAIN rules[ip] # {}
          BY <4>1 DEF Tails
        <5>2. PICK u \in Ups : rules[ip] = <<u>>
          BY <3>2, <5>1 DEF RuleFollows, AtMostOne
        <5>3. rules[ip] \in Seq(Ups) /\ Len(rules[ip]) = 1
          BY <5>2
        <5>4. tail = rules[ip]
          BY <4>1, <5>3, TailsOfOne
        <5>5. [rules EXCEPT ![ip] = rules[ip]] = rules
          OBVIOUS
        <5> HIDE DEF TypeOK, DpTypeOK
        <5> QED
          BY <4>1, <5>4, <5>5
      <4> QED
        BY <2>3, <4>1 DEF CleanupFails
    <3> QED
      BY <2>1, <3>1, <3>2 DEF RuleFollows
  <2> QED
    BY <1>2, <2>2, <2>3 DEF NotUnrouted, UnrouteFails
<1> QED
  BY <1>1, <1>2

\* Neither rules nor admissions move: so does nothing here.
LEMMA RulesFrame ==
  ASSUME NEW ip \in Ips, RuleFollows(ip),
         UNCHANGED <<rules, assignments, unroutePending, torn>>
  PROVE  RuleFollows(ip)'
BY DEF RuleFollows, RuleOf

\* SetUpstreams, whether it fails or not, takes no rule from an assigned address
\* that is not to be cleaned up.
LEMMA SetUpstreamsRules ==
  ASSUME TypeOK, ReplacedIsPending, \A ip \in Ips : RuleFollows(ip),
         UNCHANGED <<assignments, unroutePending, torn>>,
         SetUpstreams(InService) \/ SetUpstreamsFails(InService)
  PROVE  \A ip \in Ips : RuleFollows(ip)'
<1> SUFFICES ASSUME NEW ip \in Ips, ip \notin torn PROVE RuleFollows(ip)'
  BY DEF RuleFollows
<1> USE DEF RuleOf
<1>1. CASE AddUpstreamFails(InService)
  BY <1>1 DEF AddUpstreamFails, RuleFollows
<1>2. ASSUME NEW gone \in SUBSET Ups, gone \cap InService = {},
             rules'[ip] \in Survivors(rules[ip], gone)
      PROVE  RuleFollows(ip)'
  <2>1. /\ AtMostOne(rules[ip])
        /\ rules[ip] \in Seq(Ups)
    BY DEF RuleFollows, TypeOK, DpTypeOK
  <2>2. rules'[ip] = rules[ip] \/ rules'[ip] = <<>>
    <3>1. \A t \in Survivors(rules[ip], gone) : t = rules[ip] \/ t = <<>>
      BY <2>1, SurvivorsOfLone
    <3> QED
      BY <1>2, <3>1
  <2>3. CASE ip \in unroutePending
    BY <2>1, <2>2, <2>3 DEF RuleFollows, AtMostOne
  <2>4. CASE ip \notin unroutePending
    <3>1. CASE assignments[ip] = None
      BY <2>2, <2>4, <3>1 DEF RuleFollows, AtMostOne
    <3>2. CASE assignments[ip] # None
      <4>1. rules[ip] = <<assignments[ip]>> /\ assignments[ip] \in InService
            /\ assignments[ip] \in Ups
        BY <2>4, <3>2 DEF RuleFollows, ReplacedIsPending, InService
      <4>2. rules'[ip] = rules[ip]
        <5>1. PICK u \in Ups : u = assignments[ip] /\ rules[ip] = <<u>> /\ u \notin gone
          BY <1>2, <4>1
        <5>2. rules'[ip] \in Survivors(<<u>>, gone)
          BY <1>2, <5>1
        <5>3. rules'[ip] = <<u>>
          BY <5>1, <5>2, SurvivorsOfOne
        <5> QED
          BY <5>1, <5>3
      <4> QED
        BY <2>1, <4>1, <4>2 DEF RuleFollows
    <3> QED
      BY <3>1, <3>2
  <2> QED
    BY <2>3, <2>4
<1>3. CASE SetUpstreams(InService)
  <2>1. (Ups \ InService) \in SUBSET Ups /\ (Ups \ InService) \cap InService = {}
    OBVIOUS
  <2> QED
    BY <1>2, <1>3, <2>1 DEF SetUpstreams
<1>4. CASE RemoveUpstreamFails(InService)
  <2>1. tables \subseteq Ups
    BY DEF TypeOK, DpTypeOK
  <2>2. PICK removed, half \in SUBSET (tables \ InService) :
          rules'[ip] \in Survivors(rules[ip], removed)
            \/ rules'[ip] \in Survivors(rules[ip], removed \cup half)
    BY <1>4 DEF RemoveUpstreamFails
  <2> QED
    BY <1>2, <2>1, <2>2
<1> QED
  BY <1>1, <1>3, <1>4 DEF SetUpstreamsFails

\* No address has a rule at first.
LEMMA RulesInit == Init => RulesFollow
BY DEF Init, DpInit, RulesFollow, AtMostOne, RuleOf

\* Route leaves the address one rule, to the upstream it is assigned to then, or
\* the rules of an earlier Route that failed.
LEMMA RouteRules ==
  ASSUME TypeOK, NEW ip \in Ips, NEW u \in Ups, RuleFollows(ip), Route(ip, u),
         ip \notin unroutePending, UNCHANGED unroutePending, Mended(ip, u),
         assignments' = [assignments EXCEPT ![ip] = u]
  PROVE  /\ RuleFollows(ip)' /\ fwUps' = fwUps
         /\ ip \notin torn => rules'[ip] = <<u>>
         /\ \A j \in Ips : j # ip => /\ rules'[j] = rules[j] /\ assignments'[j] = assignments[j]
                                     /\ j \in torn' <=> j \in torn
<1> USE DEF TypeOK, DpTypeOK
<1>1. u # None
  BY DaemonAssumption
<1>2. /\ fwUps' = fwUps
      /\ \A j \in Ips : j # ip => rules'[j] = rules[j]
  BY DEF Route, AlreadyRouted, MoveRule
<1>3. ASSUME ip \notin torn PROVE rules'[ip] = <<u>>
  <2>1. CASE AlreadyRouted(ip, u)
    <3>1. PICK v \in Ups : rules[ip] = <<v>>
      BY <1>3, <2>1 DEF AlreadyRouted, Elems, RuleFollows, AtMostOne
    <3>2. v = u
      BY <2>1, <3>1 DEF AlreadyRouted, Elems
    <3> QED
      BY <2>1, <3>1, <3>2 DEF AlreadyRouted
  <2>2. CASE MoveRule(ip, u)
    BY <2>2 DEF MoveRule
  <2> QED
    BY <2>1, <2>2 DEF Route
<1>4. ip \notin torn' => rules'[ip] = <<u>>
  BY <1>3 DEF Mended
<1>5. RuleFollows(ip)'
  BY <1>1, <1>4 DEF RuleFollows, AtMostOne, RuleOf
<1> QED
  BY <1>2, <1>3, <1>5 DEF Mended

\* A Route that fails tears the rules, or leaves them and the assignment alone.
LEMMA RouteFailsRules ==
  ASSUME TypeOK, NEW ip \in Ips, NEW u \in Ups, RouteFails(ip, u) \/ RouteUnknown(u),
         \A j \in Ips : RuleFollows(j), UNCHANGED <<assignments, unroutePending>>, Torn(ip)
  PROVE  \A j \in Ips : RuleFollows(j)'
<1>1. \A j \in Ips : j # ip => rules'[j] = rules[j]
  BY RouteFailsStep DEF TypeOK, OnlyAt, RouteUnknown, dpVars
<1>2. \A j \in Ips : j \notin torn' => rules'[j] = rules[j] /\ j \notin torn
  BY <1>1 DEF Torn
<1> QED
  BY <1>2 DEF RuleFollows, RuleOf

\* No step but a Route that fails half-way separates rules from assignments.
LEMMA RulesNext ==
  ASSUME IInv, RulesFollow, [Next]_vars
  PROVE  RulesFollow'
<1> USE DEF dpVars, daemonVars, envVars, ghostVars, lockVars, roundVars
<1>1. TypeOK /\ ReplacedIsPending /\ (phase = "sync" => \A p \in todo : p.ip \in Ips)
      /\ (phase = "revoke" => \A p \in todo : p.ip \in Ips)
  BY DEF IInv, AddressInv, TypeOK, Peers
<1>2. \A ip \in Ips : RuleFollows(ip)
  BY DEF RulesFollow, RuleFollows
<1> SUFFICES \A ip \in Ips : RuleFollows(ip)'
  BY DEF RulesFollow, RuleFollows
<1>3. ASSUME UNCHANGED <<rules, assignments, unroutePending, torn>>
      PROVE  \A ip \in Ips : RuleFollows(ip)'
  BY <1>2, <1>3, RulesFrame
<1>4. ASSUME NEW ip \in Ips, Unrouted(ip) \/ NotUnrouted(ip)
      PROVE  \A j \in Ips : RuleFollows(j)'
  <2>1. RuleFollows(ip)' /\ \A j \in Ips : j # ip =>
          /\ rules'[j] = rules[j] /\ assignments'[j] = assignments[j]
          /\ j \in unroutePending' <=> j \in unroutePending
          /\ j \in torn' <=> j \in torn
    BY <1>1, <1>2, <1>4, UnrouteRules
  <2> QED
    BY <1>2, <2>1 DEF RuleFollows, RuleOf
<1>5. CASE Environment
  BY <1>3, <1>5 DEF Environment, StoreAdd, StoreDelete, Signal
<1>6. CASE Probes
  <2>1. UNCHANGED <<assignments, unroutePending, torn>>
    BY <1>6 DEF Probes, ProbeStart, RoundOver, ProbeDone, StaleProbeDone
  <2>2. UNCHANGED rules
    BY <1>6 DEF Probes, ProbeStart, RoundOver, ProbeDone, StaleProbeDone, Observed,
                ApplyAlive, SetAlive, SetAliveFails, SetAliveUnknown
  <2> QED
    BY <1>3, <2>1, <2>2
<1>7. CASE Reload
  <2>1. ASSUME NEW ip \in ipsTodo, DropPeer(ip) PROVE \A j \in Ips : RuleFollows(j)'
    BY <1>1, <1>4, <2>1 DEF DropPeer, UnroutePeer, UnroutePeerFails, TypeOK
  <2>2. ASSUME NEW u \in upsTodo, ReloadAlive(u) PROVE \A j \in Ips : RuleFollows(j)'
    BY <1>3, <2>2 DEF ReloadAlive, ApplyAlive, SetAlive, SetAliveFails, SetAliveUnknown
  <2>3. CASE ReloadApply
    BY <1>1, <1>2, <2>3, SetUpstreamsRules DEF ReloadApply
  <2> QED
    BY <1>3, <1>7, <2>1, <2>2, <2>3
       DEF Reload, ReloadBegin, ReloadRejected, ReloadKeep, DropBegin, ReloadOpen, DropEnd, ReloadEnd
<1>8. CASE Reconcile
  <2>1. ASSUME NEW p \in todo, Revoke(p) PROVE \A j \in Ips : RuleFollows(j)'
    BY <1>1, <1>4, <2>1 DEF Revoke, Revoked, NotRevoked, RevokeGoesWrong
  <2>2. ASSUME NEW p \in todo, Sync(p) PROVE \A j \in Ips : RuleFollows(j)'
    <3>1. p.ip \in Ips
      BY <1>1, <2>2 DEF Sync
    <3>2. CASE SyncHeld(p) \/ SyncAdd(p) \/ SyncKeep(p)
      BY <1>3, <3>2 DEF SyncHeld, SyncAdd, SyncKeep
    <3>3. CASE SyncNoProfile(p) \/ SyncCleanup(p) \/ SyncBlock(p)
      BY <1>4, <3>1, <3>3
         DEF SyncNoProfile, SyncCleanup, SyncBlock, UnroutePeer, UnroutePeerFails
    <3>4. ASSUME NEW want \in Ups, SyncMove(p, want) PROVE \A j \in Ips : RuleFollows(j)'
      <4>1. p.ip \notin unroutePending /\ UNCHANGED unroutePending
        BY <3>4 DEF SyncMove, Routable
      <4>2. CASE /\ RouteFails(p.ip, want) \/ RouteUnknown(want)
                 /\ Torn(p.ip) /\ UNCHANGED assignments
        BY <1>1, <1>2, <3>1, <4>1, <4>2, RouteFailsRules
      <4>3. CASE /\ Route(p.ip, want) /\ Mended(p.ip, want)
                 /\ assignments' = [assignments EXCEPT ![p.ip] = want]
        <5>1. RuleFollows(p.ip)' /\ \A j \in Ips : j # p.ip =>
                /\ rules'[j] = rules[j] /\ assignments'[j] = assignments[j]
                /\ j \in torn' <=> j \in torn
          BY <1>1, <1>2, <3>1, <4>1, <4>3, RouteRules
        <5> QED
          BY <1>2, <4>1, <5>1 DEF RuleFollows, RuleOf
      <4> QED
        BY <3>4, <4>2, <4>3 DEF SyncMove
    <3> QED
      BY <2>2, <3>2, <3>3, <3>4 DEF Sync
  <2> QED
    BY <1>3, <1>8, <2>1, <2>2
       DEF Reconcile, ReconcileBegin, ReconcileListFails, RevokeEnd, ReconcileEnd
<1>9. CASE UNCHANGED vars
  BY <1>3, <1>9 DEF vars
<1> QED
  BY <1>5, <1>6, <1>7, <1>8, <1>9 DEF Next

\* Only a Route that fails tears rules.
LEMMA NothingTorn ==
  ASSUME "route" \notin FaultKinds, TypeOK, torn = {}, [Next]_vars
  PROVE  torn' = {}
<1> USE DEF ghostVars
<1>1. CASE Environment \/ UNCHANGED vars
  BY <1>1 DEF Environment, StoreAdd, StoreDelete, Signal, vars
<1>2. CASE Probes
  BY <1>2 DEF Probes, ProbeStart, RoundOver, ProbeDone, StaleProbeDone
<1>3. ASSUME NEW ip, Unrouted(ip) \/ NotUnrouted(ip) PROVE torn' = {}
  BY <1>3 DEF Unrouted, NotUnrouted
<1>4. CASE Reload
  BY <1>3, <1>4
  DEF Reload, ReloadBegin, ReloadRejected, ReloadKeep, DropBegin, ReloadOpen, ReloadAlive,
      DropPeer, DropEnd, ReloadApply, ReloadEnd, UnroutePeer, UnroutePeerFails
<1>5. ASSUME NEW p \in todo, NEW want \in Ups, SyncMove(p, want) PROVE torn' = {}
  <2>1. ~Fault("route")
    BY DEF Fault
  <2>2. CASE Mended(p.ip, want)
    BY <2>2 DEF Mended
  <2>3. CASE RouteUnknown(want) /\ Torn(p.ip)
    BY <2>3 DEF RouteUnknown, Torn, dpVars
  <2> QED
    BY <1>5, <2>1, <2>2, <2>3 DEF SyncMove
<1>6. ASSUME NEW p \in todo, Sync(p) PROVE torn' = {}
  BY <1>3, <1>5, <1>6
  DEF Sync, SyncHeld, SyncAdd, SyncNoProfile, SyncCleanup, SyncBlock, SyncKeep, UnroutePeer,
      UnroutePeerFails
<1>7. ASSUME NEW p \in todo, Revoke(p) PROVE torn' = {}
  BY <1>3, <1>7 DEF Revoke, Revoked, NotRevoked, RevokeGoesWrong
<1>8. CASE Reconcile
  BY <1>6, <1>7, <1>8
  DEF Reconcile, ReconcileBegin, ReconcileListFails, RevokeEnd, ReconcileEnd
<1> QED
  BY <1>1, <1>2, <1>4, <1>8 DEF Next

\* Unless Route fails half-way, the first rule of an admitted address whose
\* cleanup is not pending leads to the upstream it is assigned to.
THEOREM EgressFollowsAssignment ==
  ASSUME "route" \notin FaultKinds
  PROVE  Spec => []EgressIsAssigned
<1>1. IInv /\ RulesFollow /\ torn = {} => EgressIsAssigned
  <2> SUFFICES ASSUME IInv, RulesFollow, torn = {}, NEW ip \in allowed \ unroutePending
               PROVE  rules[ip] # <<>> /\ Head(rules[ip]) = assignments[ip]
    BY DEF EgressIsAssigned
  <2>1. ip \in Ips /\ assignments[ip] # None
    BY DEF IInv, TypeOK, DpTypeOK, AddressInv, AdmittedIsAssigned
  <2>2. rules[ip] = <<assignments[ip]>>
    BY <2>1 DEF RulesFollow, RuleOf
  <2> QED
    BY <2>2
<1>2. IInv /\ RulesFollow /\ [Next]_vars => RulesFollow'
  BY RulesNext
<1>3. IInv /\ torn = {} /\ [Next]_vars => (torn = {})'
  BY NothingTorn DEF IInv
<1>4. Init => torn = {}
  BY DEF Init
<1> QED
  BY <1>1, <1>2, <1>3, <1>4, RulesInit, Invariant, PTL DEF Spec

-----------------------------------------------------------------------------
(* What Reconcile's loops may rely on                                      *)

\* LoopServed looks at few variables.
LEMMA ServedFrame ==
  ASSUME LoopServed, UNCHANGED <<devicePeers, wg, snapshot>>, todo' \subseteq todo,
         phase' \in {"revoke", "sync"} => phase' = phase
  PROVE  LoopServed'
BY DEF LoopServed, KeysOf

\* The first loop takes an address from nobody who is on the list, the second
\* gives each address of the list to one key.
LEMMA ServedReconcile == ASSUME IInv, LoopServed, Reconcile PROVE LoopServed'
<1> USE DEF roundVars, envVars, daemonVars
<1>1. ASSUME NEW g \in {"run", "hup"}, ReconcileBegin(g) PROVE LoopServed'
  BY <1>1 DEF ReconcileBegin, LoopServed, IInv, PeerInv, StoredPeerKeepsItsTunnel, KeysOf
<1>2. ASSUME NEW g \in {"run", "hup"}, ReconcileListFails(g) PROVE LoopServed'
  BY <1>2 DEF ReconcileListFails, Leave, LoopServed
<1>3. ASSUME NEW p \in todo, Revoke(p) PROVE LoopServed'
  <2>1. /\ phase = "revoke" /\ p.key \notin KeysOf(snapshot)
        /\ todo' = todo \ {p} /\ UNCHANGED <<phase, snapshot>>
        /\ devicePeers' \subseteq devicePeers /\ (RemoveKey(p.key) \/ UNCHANGED wg)
    BY <1>3 DEF Revoke, Revoked, NotRevoked, RevokeGoesWrong, LoopServed
  <2>2. \A ip \in Ips : wg[ip] # p.key => wg'[ip] = wg[ip]
    BY <2>1 DEF RemoveKey
  <2>3. \A q \in snapshot : q.key # p.key /\ q.ip \in Ips
    BY <2>1 DEF KeysOf, IInv, TypeOK, Peers
  <2> QED
    BY <2>1, <2>2, <2>3 DEF LoopServed, KeysOf
<1>4. CASE RevokeEnd
  BY <1>4 DEF RevokeEnd, LoopServed
<1>5. ASSUME NEW p \in todo, Sync(p) PROVE LoopServed'
  <2>1. phase = "sync" /\ UNCHANGED <<phase, snapshot>> /\ p \in snapshot
    BY <1>5 DEF Sync, IInv, PeerInv, LoopsInBounds
  <2>2. CASE UNCHANGED <<devicePeers, wg>>
    BY <2>1, <2>2 DEF LoopServed
  <2>3. CASE /\ wg' = [wg EXCEPT ![p.ip] = p.key]
             /\ devicePeers' = devicePeers \cup {p}
    <3>1. \A q \in snapshot : q.ip \in Ips /\ (q.ip = p.ip => q = p)
      BY <2>1 DEF IInv, TypeOK, Peers, PeerInv, AddressesUnique
    <3>2. wg \in [Ips -> Keys \cup {None}]
      BY DEF IInv, TypeOK
    <3> QED
      BY <2>1, <2>3, <3>1, <3>2 DEF LoopServed
  <2> QED
    BY <1>5, <2>2, <2>3 DEF Sync, SyncHeld, SyncAdd, SyncNoProfile, SyncCleanup, SyncBlock,
                            SyncKeep, SyncMove
<1>6. CASE ReconcileEnd
  BY <1>6 DEF ReconcileEnd, Leave, LoopServed
<1> QED
  BY <1>1, <1>2, <1>3, <1>4, <1>5, <1>6 DEF Reconcile

\* LoopServed holds at first, and no step breaks it.
LEMMA ServedNext == (Init => LoopServed) /\ (IInv /\ LoopServed /\ [Next]_vars => LoopServed')
<1>1. Init => LoopServed
  BY DEF Init, LoopServed
<1>2. ASSUME IInv, LoopServed, [Next]_vars PROVE LoopServed'
  <2> USE DEF envVars, daemonVars, lockVars, roundVars, ghostVars
  <2>1. CASE Environment
    BY <1>2, <2>1, ServedFrame DEF Environment, StoreAdd, StoreDelete, Signal
  <2>2. CASE Probes
    BY <1>2, <2>2, ServedFrame DEF Probes, ProbeStart, RoundOver, ProbeDone, StaleProbeDone
  <2>3. CASE Reload
    BY <1>2, <2>3, ServedFrame DEF Reload, ReloadBegin, ReloadRejected, ReloadKeep, DropBegin,
         ReloadOpen, ReloadAlive, DropPeer, DropEnd, ReloadApply, ReloadEnd
  <2>4. CASE UNCHANGED vars
    BY <1>2, <2>4, ServedFrame DEF vars
  <2> QED
    BY <1>2, <2>1, <2>2, <2>3, <2>4, ServedReconcile DEF Next
<1> QED
  BY <1>1, <1>2

-----------------------------------------------------------------------------
(* A Reconcile without errors                                              *)

\* The first loop ends with nobody on the device who is not on the list.
LEMMA CleanRevoke ==
  ASSUME IInv, CleanInv
  PROVE  /\ \A g \in {"run", "hup"} : ReconcileBegin(g) => CleanInv'
         /\ \A p \in todo : Revoke(p) => CleanInv'
         /\ RevokeEnd => CleanInv'
<1>1. ASSUME NEW g \in {"run", "hup"}, ReconcileBegin(g) PROVE CleanInv'
  <2>1. /\ phase' = "revoke" /\ snapshot' = store /\ devicePeers' = devicePeers
        /\ todo' = {p \in devicePeers : p.key \notin KeysOf(store)}
    BY <1>1 DEF ReconcileBegin, daemonVars
  <2> QED  BY <2>1 DEF CleanInv, KeysOf
<1>2. ASSUME NEW p \in todo, Revoke(p) PROVE CleanInv'
  <2>1. phase = "revoke" /\ phase' = phase /\ snapshot' = snapshot /\ todo' = todo \ {p}
    BY <1>2 DEF Revoke
  <2>2. CASE Revoked(p)
    <3>1. devicePeers' = devicePeers \ {p} /\ failed' = failed  BY <2>2 DEF Revoked
    <3> QED  BY <2>1, <3>1 DEF CleanInv, KeysOf
  <2>3. CASE NotRevoked(p)
    <3>1. failed' = TRUE  BY <2>3 DEF NotRevoked
    <3> QED  BY <3>1 DEF CleanInv
  <2> QED  BY <1>2, <2>2, <2>3 DEF Revoke
<1>3. ASSUME RevokeEnd PROVE CleanInv'
  <2>1. /\ phase = "revoke" /\ phase' = "sync" /\ todo = {} /\ todo' = snapshot
        /\ held' = IpsOf(devicePeers)
        /\ failed' = failed /\ snapshot' = snapshot /\ devicePeers' = devicePeers
    BY <1>3 DEF RevokeEnd, HeldAddresses, daemonVars
  <2>2. \A p \in devicePeers, q \in snapshot : p.key = q.key => p = q
    BY DEF IInv, PeerInv, KeysIdentify
  <2>3. ~failed => devicePeers \subseteq snapshot
    BY <2>1, <2>2 DEF CleanInv, KeysOf
  <2> QED  BY <2>1, <2>3 DEF CleanInv, IpsOf
<1> QED  BY <1>1, <1>2, <1>3

\* What the policy offers is the best tier that is healthy.
LEMMA OffersBest ==
  ASSUME NEW p
  PROVE  /\ Offers(p) \subseteq Candidates(cfg.prefer[p.profile], Healthy)
         /\ Offers(p) = {} => Candidates(cfg.prefer[p.profile], Healthy) = {}
BY DEF Offers, Selectable

\* A peer stays settled while others are worked on.
LEMMA SettledFrame ==
  ASSUME NEW p, Settled(p), cfg' = cfg, ups' = ups,
         p.ip \in unroutePending' <=> p.ip \in unroutePending,
         assignments'[p.ip] = assignments[p.ip]
  PROVE  Settled(p)'
<1>1. Healthy' = Healthy  BY DEF Healthy, InService
<1> QED  BY <1>1 DEF Settled

\* A step of the second loop settles its peer, leaves it to do or reports an
\* error; a held address belongs to a cleanup that has failed.
LEMMA CleanSync == ASSUME IInv, CleanInv, NEW p \in todo, Sync(p) PROVE CleanInv'
<1>1. /\ phase = "sync" /\ phase' = phase /\ snapshot' = snapshot /\ held' = held
      /\ p \in snapshot /\ p \in Peers /\ p.ip \in Ips
  BY DEF Sync, IInv, TypeOK, PeerInv, LoopsInBounds, Peers
<1>2. \A q \in snapshot : q.ip \in Ips /\ (q.ip = p.ip => q = p)
  BY <1>1 DEF IInv, TypeOK, Peers, PeerInv, AddressesUnique
<1>3. /\ cfg' = cfg /\ ups' = ups
  BY DEF Sync, SyncHeld, SyncAdd, SyncNoProfile, SyncCleanup, SyncBlock, SyncKeep, SyncMove,
         daemonVars
<1>4. Healthy' = Healthy  BY <1>3 DEF Healthy, InService
<1>5. SUFFICES ASSUME ~failed, failed' = failed PROVE CleanInv'
  <2>1. failed' = failed \/ failed' = TRUE
    BY DEF Sync, SyncHeld, SyncAdd, SyncNoProfile, SyncCleanup, SyncBlock, SyncKeep, SyncMove
  <2> QED  BY <2>1 DEF CleanInv
<1>6. /\ devicePeers \subseteq snapshot /\ held \subseteq IpsOf(devicePeers)
      /\ \A q \in snapshot \ todo : q \in devicePeers /\ Settled(q)
  BY <1>1, <1>5 DEF CleanInv
<1>7. Known(p) => p \in devicePeers  BY <1>1, KnownPeer DEF IInv
<1>8. assignments \in [Ips -> Ups \cup {None}]  BY DEF IInv, TypeOK
<1>9. ASSUME devicePeers' = devicePeers, todo' = todo \ {p}, Known(p), Settled(p)',
             \A q \in snapshot : q # p =>
               /\ q.ip \in unroutePending' <=> q.ip \in unroutePending
               /\ assignments'[q.ip] = assignments[q.ip]
      PROVE  CleanInv'
  <2>1. ASSUME NEW q \in snapshot \ todo' PROVE q \in devicePeers /\ Settled(q)'
    <3>1. CASE q = p  BY <1>7, <1>9, <3>1
    <3>2. CASE q # p  BY <1>3, <1>6, <1>9, <2>1, <3>2, SettledFrame
    <3> QED  BY <3>1, <3>2
  <2> QED  BY <1>1, <1>6, <1>9, <2>1 DEF CleanInv, IpsOf
<1>10. ASSUME todo' = todo, devicePeers \subseteq devicePeers', devicePeers' \subseteq snapshot,
              \A q \in snapshot : q # p =>
                /\ q.ip \in unroutePending' <=> q.ip \in unroutePending
                /\ assignments'[q.ip] = assignments[q.ip]
       PROVE  CleanInv'
  <2>1. ASSUME NEW q \in snapshot \ todo PROVE q \in devicePeers' /\ Settled(q)'
    BY <1>3, <1>6, <1>10, SettledFrame
  <2>2. IpsOf(devicePeers) \subseteq IpsOf(devicePeers)'  BY <1>10 DEF IpsOf
  <2> QED  BY <1>1, <1>6, <1>10, <2>1, <2>2 DEF CleanInv
<1>11. CASE SyncHeld(p)
  <2>1. ~Known(p) /\ p.ip \in held  BY <1>11 DEF SyncHeld
  <2>2. PICK q \in devicePeers : q.ip = p.ip  BY <1>6, <2>1 DEF IpsOf
  <2>3. q = p  BY <1>2, <1>6, <2>2
  <2> QED  BY <2>1, <2>2, <2>3 DEF Known, KeysOf
<1>12. CASE SyncAdd(p)
  <2>1. /\ todo' = todo /\ devicePeers' = devicePeers \cup {p}
        /\ UNCHANGED <<assignments, unroutePending>>
    BY <1>5, <1>12 DEF SyncAdd
  <2> QED  BY <1>1, <1>6, <1>10, <2>1
<1>13. CASE SyncNoProfile(p)
  <2>1. failed' = TRUE  BY <1>13 DEF SyncNoProfile
  <2> QED  BY <1>5, <2>1
<1>14. ASSUME Unrouted(p.ip)
       PROVE  /\ p.ip \notin unroutePending' /\ assignments'[p.ip] = None
              /\ \A q \in snapshot : q # p =>
                   /\ q.ip \in unroutePending' <=> q.ip \in unroutePending
                   /\ assignments'[q.ip] = assignments[q.ip]
  <2>1. /\ unroutePending' = unroutePending \ {p.ip}
        /\ assignments' = [assignments EXCEPT ![p.ip] = None]
    BY <1>14 DEF Unrouted
  <2> QED  BY <1>1, <1>2, <1>8, <2>1
<1>15. CASE SyncCleanup(p)
  <2>1. Unrouted(p.ip) /\ todo' = todo /\ devicePeers' = devicePeers
    BY <1>5, <1>15 DEF SyncCleanup, UnroutePeer
  <2> QED  BY <1>6, <1>10, <1>14, <2>1
<1>16. CASE SyncBlock(p)
  <2>1. /\ Routable(p) /\ Offers(p) = {} /\ Unrouted(p.ip)
        /\ todo' = todo \ {p} /\ devicePeers' = devicePeers
    BY <1>5, <1>16 DEF SyncBlock, UnroutePeer
  <2>2. Known(p) /\ cfg.prefer[p.profile] # None  BY <2>1 DEF Routable
  <2>3. Settled(p)'  BY <1>3, <1>4, <1>14, <2>1, <2>2, OffersBest DEF Settled
  <2> QED  BY <1>9, <1>14, <2>1, <2>2, <2>3
<1>17. CASE SyncKeep(p)
  <2>1. /\ Routable(p) /\ todo' = todo \ {p}
        /\ devicePeers' = devicePeers /\ UNCHANGED <<assignments, unroutePending>>
        /\ IF Offers(p) = {} THEN assignments[p.ip] = None ELSE assignments[p.ip] \in Offers(p)
    BY <1>17 DEF SyncKeep, daemonVars
  <2>2. Known(p) /\ cfg.prefer[p.profile] # None /\ p.ip \notin unroutePending
    BY <2>1 DEF Routable
  <2>3. Settled(p)  BY <2>1, <2>2, OffersBest DEF Settled
  <2>4. Settled(p)'  BY <1>3, <2>1, <2>3, SettledFrame
  <2> QED  BY <1>9, <2>1, <2>2, <2>4
<1>18. ASSUME NEW want \in Ups, SyncMove(p, want) PROVE CleanInv'
  <2>1. /\ Routable(p) /\ want \in Offers(p) /\ todo' = todo \ {p}
        /\ devicePeers' = devicePeers /\ unroutePending' = unroutePending
        /\ assignments' = [assignments EXCEPT ![p.ip] = want]
    BY <1>5, <1>18 DEF SyncMove
  <2>2. Known(p) /\ cfg.prefer[p.profile] # None /\ p.ip \notin unroutePending
    BY <2>1 DEF Routable
  <2>3. assignments'[p.ip] = want /\ \A q \in snapshot : q # p => assignments'[q.ip] = assignments[q.ip]
    BY <1>1, <1>2, <1>8, <2>1
  <2>4. Settled(p)'  BY <1>3, <1>4, <2>1, <2>2, <2>3, OffersBest DEF Settled
  <2> QED  BY <1>9, <2>1, <2>2, <2>3, <2>4
<1> QED  BY <1>11, <1>12, <1>13, <1>15, <1>16, <1>17, <1>18 DEF Sync

\* Nothing else touches what Reconcile has done while it holds d.mu.
LEMMA CleanNext == (Init => CleanInv) /\ (IInv /\ CleanInv /\ [Next]_vars => CleanInv')
<1>1. Init => CleanInv  BY DEF Init, CleanInv
<1>2. ASSUME IInv, CleanInv, [Next]_vars PROVE CleanInv'
  <2>1. ASSUME UNCHANGED <<lockVars, daemonVars>> PROVE CleanInv'
    <3>1. /\ UNCHANGED <<phase, snapshot, todo, held, failed>>
          /\ UNCHANGED <<cfg, ups, assignments, unroutePending, devicePeers>>
      BY <2>1 DEF lockVars, daemonVars
    <3>2. \A p : Settled(p) => Settled(p)'
      BY <3>1 DEF Settled, Healthy, InService
    <3>3. KeysOf(snapshot)' = KeysOf(snapshot) /\ IpsOf(devicePeers)' = IpsOf(devicePeers)
      BY <3>1 DEF KeysOf, IpsOf
    <3>4. CASE phase = "revoke"
      BY <1>2, <3>1, <3>3, <3>4 DEF CleanInv
    <3>5. CASE phase = "sync"
      BY <1>2, <3>1, <3>2, <3>3, <3>5 DEF CleanInv
    <3> QED  BY <3>1, <3>4, <3>5 DEF CleanInv
  <2>2. ASSUME phase' \notin {"revoke", "sync"} PROVE CleanInv'  BY <2>2 DEF CleanInv
  <2>3. CASE Environment \/ UNCHANGED vars
    BY <2>1, <2>3 DEF Environment, StoreAdd, StoreDelete, Signal, vars
  <2>4. CASE Probes
    <3>1. CASE ProbeStart \/ RoundOver  BY <2>1, <3>1 DEF ProbeStart, RoundOver
    <3>2. ASSUME NEW u \in Ups, NEW ok \in BOOLEAN, ProbeDone(u, ok) \/ StaleProbeDone(u, ok)
          PROVE  CleanInv'
      BY <2>2, <3>2 DEF ProbeDone, StaleProbeDone, lockVars
    <3> QED  BY <2>4, <3>1, <3>2 DEF Probes
  <2>5. CASE Reload
    <3>1. CASE ReloadRejected  BY <2>1, <3>1 DEF ReloadRejected
    <3>2. CASE ~ReloadRejected
      BY <2>2, <2>5, <3>2
      DEF Reload, ReloadBegin, ReloadKeep, DropBegin, ReloadOpen, ReloadAlive, DropPeer, DropEnd,
          ReloadApply, ReloadEnd
    <3> QED  BY <3>1, <3>2
  <2>6. CASE Reconcile
    <3>1. ASSUME NEW g \in {"run", "hup"}, ReconcileListFails(g) PROVE CleanInv'
      BY <2>2, <3>1 DEF ReconcileListFails, Leave
    <3>2. CASE ReconcileEnd  BY <2>2, <3>2 DEF ReconcileEnd, Leave
    <3> QED  BY <1>2, <2>6, <3>1, <3>2, CleanRevoke, CleanSync DEF Reconcile
  <2> QED  BY <1>2, <2>3, <2>4, <2>5, <2>6 DEF Next
<1> QED  BY <1>1, <1>2

\* A Reconcile that returns no error has made the device, the kernel's rules and the
\* firewall those of the list it read and of the current health, but for the rules
\* of an address whose Route has failed half-way before (Reconcile).
THEOREM CleanMeansConverged == Spec => []CleanReconcileConverges
<1>1. IInv /\ LoopServed /\ CleanInv /\ RulesFollow => CleanReconcileConverges
  <2> SUFFICES ASSUME IInv, LoopServed, CleanInv, RulesFollow, phase = "sync", todo = {}, ~failed
               PROVE  Converged
    BY DEF CleanReconcileConverges
  <2>1. devicePeers = snapshot /\ \A p \in snapshot : Settled(p)  BY DEF CleanInv
  <2>2. \A ip \in allowed : assignments[ip] # None  BY DEF IInv, AddressInv, AdmittedIsAssigned
  <2>3. \A p \in snapshot : p.ip \in Ips /\ wg[p.ip] = p.key
    BY <2>1 DEF LoopServed, IInv, TypeOK, Peers
  <2>4. ASSUME NEW ip \in Ips, ip \in IpsOf(snapshot)
        PROVE  [key |-> wg[ip], ip |-> ip] \in {[key |-> p.key, ip |-> p.ip] : p \in snapshot}
    <3>1. PICK p \in snapshot : p.ip = ip  BY <2>4 DEF IpsOf
    <3> QED  BY <2>3, <3>1
  <2>5. ASSUME NEW ip \in Ips, ip \notin IpsOf(snapshot)
        PROVE  wg[ip] = None /\ ip \notin allowed /\ rules[ip] = <<>>
    <3>1. wg[ip] = None
      BY <2>1, <2>5 DEF IInv, PeerInv, OneOwnerPerAddress, IpsOf
    <3>2. ip \notin allowed /\ rules[ip] = <<>>
      BY <2>1, <2>5 DEF IInv, AddressInv, NothingOutlivesItsPeer
    <3> QED  BY <3>1, <3>2
  <2>6. ASSUME NEW p \in snapshot
        PROVE  LET best == Candidates(cfg.prefer[p.profile], Healthy)
               IN  /\ cfg.prefer[p.profile] # None
                   /\ p.ip \notin unroutePending
                   /\ IF best = {} THEN assignments[p.ip] = None /\ p.ip \notin allowed
                      ELSE assignments[p.ip] \in best /\ p.ip \in allowed
                   /\ p.ip \notin torn => rules[p.ip] = RuleOf(p.ip)
    <3> DEFINE best == Candidates(cfg.prefer[p.profile], Healthy)
    <3>1. /\ cfg.prefer[p.profile] # None /\ p.ip \notin unroutePending
          /\ IF best = {} THEN assignments[p.ip] = None ELSE assignments[p.ip] \in best
      BY <2>1 DEF Settled
    <3>2. \A u \in best : u # None
      BY DaemonAssumption DEF Candidates, Healthy, InService
    <3>3. assignments[p.ip] # None => p.ip \in allowed
      BY <2>3, <3>1 DEF IInv, AddressInv, SettledIsAdmitted
    <3> HIDE DEF best
    <3>4. IF best = {} THEN assignments[p.ip] = None /\ p.ip \notin allowed
          ELSE assignments[p.ip] \in best /\ p.ip \in allowed
      BY <2>2, <3>1, <3>2, <3>3
    <3>5. p.ip \notin torn => rules[p.ip] = RuleOf(p.ip)
      BY <2>3, <3>1 DEF RulesFollow
    <3> QED  BY <3>1, <3>4, <3>5 DEF best
  <2> QED  BY <2>1, <2>4, <2>5, <2>6 DEF Converged
<1>2. IInv /\ RulesFollow /\ [Next]_vars => RulesFollow'
  BY RulesNext
<1> QED
  BY <1>1, <1>2, CleanNext, ServedNext, RulesInit, IInvInit, IInvNext, PTL DEF Spec

-----------------------------------------------------------------------------
(* The daemon implements Gateway: every step of Daemon.tla, whatever call  *)
(* fails in it, is a step of the abstract gateway or leaves it alone.      *)
(*                                                                         *)
(* IInv says who owns an address between critical sections; LoopServed     *)
(* adds what Reconcile's two loops may rely on about the list they work    *)
(* from, which the store may have left behind.                             *)

\* A record of the list that is known to the device is on it, with its address.
LEMMA KnownIsServed ==
  ASSUME IInv, LoopServed, phase = "sync", NEW p \in todo, Known(p)
  PROVE  p \in Peers /\ p \in snapshot /\ wg[p.ip] = p.key /\ p.key # None
<1>1. p \in Peers /\ p \in devicePeers
  BY KnownPeer DEF IInv
<1>2. p \in snapshot
  BY DEF IInv, PeerInv, LoopsInBounds
<1>3. p.key # None
  BY <1>1, DaemonAssumption DEF Peers
<1> QED
  BY <1>1, <1>2, <1>3 DEF LoopServed

-----------------------------------------------------------------------------
(* The simulation                                                          *)

\* What the command line and the device know is as before.
GatewayStays == UNCHANGED <<usedKeys, store, wg>>

\* Exits that stay or close
OnlyCloses == \A ip \in Ips : ReportedExit(ip)' \in {ReportedExit(ip), None}

\* Health and profiles, which the abstract gateway follows, have their types.
LEMMA InputsStep == Reported!Inputs
BY DEF Reported!Inputs, Healthy, InService, MenuOf

\* Exits that stay or close are those of some set of open addresses.
LEMMA SomeStayOpen ==
  ASSUME OnlyCloses
  PROVE  \E open \in SUBSET Ips :
           [ip \in Ips |-> ReportedExit(ip)]' =
             [ip \in Ips |-> IF ip \in open THEN [j \in Ips |-> ReportedExit(j)][ip] ELSE None]
<1> DEFINE open == {ip \in Ips : ReportedExit(ip)' = ReportedExit(ip)}
<1>1. open \in SUBSET Ips
  OBVIOUS
<1>2. \A ip \in Ips :
        ReportedExit(ip)' = IF ip \in open THEN [j \in Ips |-> ReportedExit(j)][ip] ELSE None
  BY DEF OnlyCloses
<1> HIDE DEF open
<1> QED
  BY <1>1, <1>2

\* A step in which nobody comes or goes and exits at most close.
LEMMA QuietStep == ASSUME GatewayStays, OnlyCloses PROVE Reported!Next
<1>1. Reported!Block
  BY SomeStayOpen DEF Reported!Block, GatewayStays, KeysOf
<1> QED
  BY <1>1, InputsStep DEF Reported!Next

\* Most steps touch no assignment.
LEMMA NoExitMoves == ASSUME UNCHANGED assignments PROVE OnlyCloses
BY DEF OnlyCloses, ReportedExit

\* A removal of routes closes the exit of one address, or leaves it open.
LEMMA UnrouteCloses ==
  ASSUME TypeOK, NEW ip \in Ips, Unrouted(ip) \/ NotUnrouted(ip)
  PROVE  OnlyCloses
BY DEF Unrouted, NotUnrouted, OnlyCloses, ReportedExit, TypeOK

\* The command line: clients join and part.
LEMMA SimulateEnvironment == ASSUME IInv, Environment PROVE Reported!Next
<1> USE DEF dpVars, daemonVars
<1>1. UNCHANGED <<wg, assignments>>
  BY DEF Environment, StoreAdd, StoreDelete, Signal
<1>2. UNCHANGED [ip \in Ips |-> ReportedExit(ip)]
  BY <1>1 DEF ReportedExit
<1>3. ASSUME NEW p \in Peers, StoreAdd(p) PROVE Reported!Next
  <2>1. Reported!Join(p.key)
    BY <1>1, <1>2, <1>3 DEF Reported!Join, StoreAdd, KeysOf
  <2>2. p.key \in Keys
    BY DEF Peers
  <2> QED
    BY <2>1, <2>2, InputsStep DEF Reported!Next
<1>4. ASSUME NEW p \in store, StoreDelete(p) PROVE Reported!Next
  <2>1. p.key \in Keys
    BY DEF IInv, TypeOK, Peers
  <2>2. KeysOf(store)' = KeysOf(store) \ {p.key}
    BY <1>4 DEF StoreDelete, KeysOf, IInv, PeerInv, KeysIdentify
  <2>3. Reported!Part(p.key)
    BY <1>1, <1>2, <1>4, <2>2 DEF Reported!Part, StoreDelete
  <2> QED
    BY <2>1, <2>3, InputsStep DEF Reported!Next
<1>5. CASE Signal
  BY <1>1, <1>5, NoExitMoves, QuietStep DEF Signal, GatewayStays
<1> QED
  BY <1>3, <1>4, <1>5 DEF Environment

\* A probe, whoever answers it, opens no exit.
LEMMA SimulateProbes == ASSUME IInv, Probes PROVE Reported!Next
<1> USE DEF dpVars, daemonVars, envVars
<1>1. GatewayStays /\ UNCHANGED assignments
  BY DEF Probes, ProbeStart, RoundOver, ProbeDone, StaleProbeDone, GatewayStays
<1> QED
  BY <1>1, NoExitMoves, QuietStep

\* A reload closes exits, one address at a time.
LEMMA SimulateReload == ASSUME IInv, Reload PROVE Reported!Next
<1> USE DEF dpVars, daemonVars, envVars
<1>1. GatewayStays
  BY DEF Reload, ReloadBegin, ReloadRejected, ReloadKeep, DropBegin, ReloadOpen,
         ReloadAlive, DropPeer, DropEnd, ReloadApply, ReloadEnd, GatewayStays
<1>2. ASSUME NEW ip \in ipsTodo, DropPeer(ip) PROVE OnlyCloses
  BY <1>2, UnrouteCloses DEF DropPeer, UnroutePeer, UnroutePeerFails, IInv, TypeOK
<1>3. OnlyCloses
  BY <1>2, NoExitMoves
     DEF Reload, ReloadBegin, ReloadRejected, ReloadKeep, DropBegin, ReloadOpen, ReloadAlive,
         DropEnd, ReloadApply, ReloadEnd
<1> QED
  BY <1>1, <1>3, QuietStep

\* The first loop of Reconcile evicts, or only closes an exit.
LEMMA SimulateRevoke ==
  ASSUME IInv, IInv', NEW p \in todo, Revoke(p) PROVE Reported!Next
<1>1. /\ phase = "revoke" /\ p.key \notin KeysOf(store) /\ p.key \in Keys /\ p.ip \in Ips
      /\ UNCHANGED <<usedKeys, store>>
  BY DEF Revoke, IInv, PeerInv, LoopsInBounds, TypeOK, Peers, envVars
<1>2. OnlyCloses
  BY <1>1, UnrouteCloses DEF Revoke, Revoked, NotRevoked, RevokeGoesWrong, IInv
<1>3. CASE UNCHANGED wg
  BY <1>1, <1>2, <1>3, QuietStep DEF GatewayStays
<1>4. CASE RemoveKey(p.key)
  <2>1. Reported!Evict(p.key)
    BY <1>1, <1>2, <1>4, SomeStayOpen DEF Reported!Evict, RemoveKey, KeysOf
  <2> QED
    BY <1>1, <2>1, InputsStep DEF Reported!Next
<1> QED
  BY <1>3, <1>4 DEF Revoke, Revoked, NotRevoked, RevokeGoesWrong

\* SyncAdd gives an address that nobody holds, and that is closed, to a key that
\* holds none.
LEMMA SimulateAdd ==
  ASSUME IInv, phase = "sync", NEW p \in todo, SyncAdd(p), UNCHANGED envVars
  PROVE  Reported!Next
<1>1. /\ p \in snapshot /\ p.key \in Keys /\ p.ip \in Ips
      /\ UNCHANGED <<usedKeys, store, assignments>>
  BY DEF IInv, PeerInv, LoopsInBounds, TypeOK, Peers, SyncAdd, envVars, dpVars
<1>2. CASE UNCHANGED wg
  BY <1>1, <1>2, NoExitMoves, QuietStep DEF GatewayStays
<1>3. CASE wg' = [wg EXCEPT ![p.ip] = p.key]
  <2>1. \A q \in devicePeers : q.ip # p.ip /\ q.key # p.key
    BY <1>1 DEF SyncAdd, Known, KeysOf, IpsOf, IInv, PeerInv, LoopsInBounds, AddressesUnique
  <2>2. wg[p.ip] = None /\ \A ip \in Ips : wg[ip] # p.key
    BY <1>1, <2>1, DaemonAssumption DEF IInv, PeerInv, OneOwnerPerAddress
  <2>3. ReportedExit(p.ip) = None
    BY <1>1, <2>1 DEF IInv, AddressInv, NothingOutlivesItsPeer, IpsOf, ReportedExit
  <2>4. p.key \in usedKeys
    BY <1>1 DEF IInv, PeerInv, KeysIdentify, KeysOf
  <2>5. UNCHANGED [ip \in Ips |-> ReportedExit(ip)]
    BY <1>1 DEF ReportedExit
  <2>6. Reported!Admit(p.ip, p.key)
    BY <1>1, <1>3, <2>2, <2>3, <2>4, <2>5 DEF Reported!Admit, KeysOf
  <2> QED
    BY <1>1, <2>6, InputsStep DEF Reported!Next
<1> QED
  BY <1>2, <1>3 DEF SyncAdd

\* A choice of the policy is healthy and on the menu of the peer's key.
LEMMA OffersAreOnTheMenu ==
  ASSUME NEW p \in snapshot, cfg.prefer[p.profile] # None, NEW want \in Offers(p)
  PROVE  want \in Healthy \cap MenuOf(p.key)
BY DEF Offers, Selectable, Candidates, MenuOf, RecordsOf, Healthy, InService

\* SyncMove opens the exit only when Route has succeeded.
LEMMA SimulateMove ==
  ASSUME IInv, IInv', LoopServed, phase = "sync", NEW p \in todo, NEW want \in Ups,
         SyncMove(p, want), UNCHANGED envVars
  PROVE  Reported!Next
<1>1. p \in snapshot /\ wg[p.ip] = p.key /\ p.key # None /\ p.ip \in Ips
  BY KnownIsServed DEF SyncMove, Routable, Peers
<1>2. assignments \in [Ips -> Ups \cup {None}]
  BY DEF IInv, TypeOK
<1>3. UNCHANGED <<usedKeys, store, wg>>
  BY DEF SyncMove, envVars
<1>4. CASE UNCHANGED assignments
  BY <1>3, <1>4, NoExitMoves, QuietStep DEF GatewayStays
<1>5. CASE assignments' = [assignments EXCEPT ![p.ip] = want]
  <2>1. want \in Healthy \cap MenuOf(p.key)
    BY <1>1, OffersAreOnTheMenu DEF SyncMove, Routable
  <2>2. [ip \in Ips |-> ReportedExit(ip)]' =
          [[ip \in Ips |-> ReportedExit(ip)] EXCEPT ![p.ip] = want]
    BY <1>1, <1>2, <1>5 DEF ReportedExit
  <2>3. p.key \in Keys
    BY <1>1 DEF IInv, TypeOK, Peers
  <2>4. Reported!Forward(p.ip, want)
    BY <1>1, <1>3, <2>1, <2>2, <2>3 DEF Reported!Forward, KeysOf
  <2> QED
    BY <1>1, <2>4, InputsStep DEF Reported!Next
<1> QED
  BY <1>4, <1>5 DEF SyncMove

\* Both loops of Reconcile.
LEMMA SimulateReconcile ==
  ASSUME IInv, IInv', LoopServed, Reconcile PROVE Reported!Next
<1> USE DEF dpVars, daemonVars, envVars
<1>1. ASSUME NEW g \in {"run", "hup"}, ReconcileBegin(g) \/ ReconcileListFails(g)
      PROVE  Reported!Next
  BY <1>1, NoExitMoves, QuietStep DEF ReconcileBegin, ReconcileListFails, GatewayStays
<1>2. CASE RevokeEnd \/ ReconcileEnd
  BY <1>2, NoExitMoves, QuietStep DEF RevokeEnd, ReconcileEnd, GatewayStays
<1>3. ASSUME NEW p \in todo, Sync(p) PROVE Reported!Next
  <2>1. phase = "sync" /\ p.ip \in Ips /\ UNCHANGED envVars
    BY <1>3 DEF Sync, IInv, TypeOK, Peers
  <2>2. CASE SyncAdd(p)
    BY <2>1, <2>2, SimulateAdd
  <2>3. ASSUME NEW want \in Ups, SyncMove(p, want) PROVE Reported!Next
    BY <2>1, <2>3, SimulateMove
  <2>4. CASE SyncHeld(p) \/ SyncKeep(p)
    BY <2>1, <2>4, NoExitMoves, QuietStep DEF SyncHeld, SyncKeep, GatewayStays
  <2>5. CASE SyncNoProfile(p) \/ SyncCleanup(p) \/ SyncBlock(p)
    <3>1. OnlyCloses
      BY <2>1, <2>5, UnrouteCloses
         DEF SyncNoProfile, SyncCleanup, SyncBlock, UnroutePeer, UnroutePeerFails, IInv
    <3> QED
      BY <2>1, <2>5, <3>1, QuietStep DEF SyncNoProfile, SyncCleanup, SyncBlock, GatewayStays
  <2> QED
    BY <1>3, <2>2, <2>3, <2>4, <2>5 DEF Sync
<1> QED
  BY <1>1, <1>2, <1>3, SimulateRevoke DEF Reconcile

\* The daemon's initial states are the gateway's.
LEMMA GatewayInit == Init => Reported!Init
BY DEF Init, DpInit, Reported!Init, KeysOf, ReportedExit, Healthy, InService, MenuOf

\* A step of the daemon is a step of the gateway or changes nothing of it.
LEMMA GatewayNext ==
  IInv /\ IInv' /\ LoopServed /\ [Next]_vars => [Reported!Next]_(Reported!vars)
<1> SUFFICES ASSUME IInv, IInv', LoopServed, [Next]_vars
             PROVE  [Reported!Next]_(Reported!vars)
  OBVIOUS
<1>1. CASE Next
  BY <1>1, SimulateEnvironment, SimulateProbes, SimulateReconcile, SimulateReload DEF Next
<1>2. CASE UNCHANGED vars
  BY <1>2, NoExitMoves, QuietStep DEF vars, dpVars, daemonVars, envVars, GatewayStays
<1> QED
  BY <1>1, <1>2

\* Whatever fails, and whatever the store, the probes and the configuration do
\* meanwhile, what the daemon reports about addresses is what a gateway may do:
\* Gateway.tla is its specification.
THEOREM DaemonIsAGateway == Spec => ReportsAGateway
<1>1. Spec => []IInv
  BY Invariant
<1>2. []IInv /\ Spec => []LoopServed
  BY ServedNext, PTL DEF Spec
<1>3. []IInv /\ []LoopServed /\ Spec => Reported!Spec
  BY GatewayInit, GatewayNext, PTL DEF Spec, Reported!Spec
<1> QED
  BY <1>1, <1>2, <1>3, PTL DEF ReportsAGateway

-----------------------------------------------------------------------------
(* The gateway the kernel is                                               *)

\* Requests that at most take an admission or a rule away
TakesAway ==
  /\ allowed' \subseteq allowed /\ fwUps' = fwUps
  /\ \A ip \in Ips : rules'[ip] = rules[ip] \/ rules'[ip] = <<>>

\* Exits that stay or close
ActualCloses == \A ip \in Ips : ActualExit(ip)' \in {ActualExit(ip), None}

\* Taking away closes exits.
LEMMA TakingAwayCloses == ASSUME TakesAway PROVE ActualCloses
BY DEF TakesAway, ActualCloses, ActualExit

\* Most steps touch none of the three.
LEMMA NothingTaken == ASSUME UNCHANGED <<allowed, rules, fwUps>> PROVE TakesAway
BY DEF TakesAway

\* Removing the routes of an address takes away.
LEMMA UnrouteTakesAway ==
  ASSUME TypeOK, RulesFollow, torn = {}, NEW ip \in Ips, Unrouted(ip) \/ NotUnrouted(ip)
  PROVE  TakesAway
<1>1. RuleFollows(ip)
  BY DEF RulesFollow, RuleFollows
<1>2. /\ rules'[ip] = rules[ip] \/ rules'[ip] = <<>>
      /\ \A j \in Ips : j # ip => rules'[j] = rules[j]
      /\ allowed' \subseteq allowed /\ fwUps' = fwUps
  BY <1>1, UnrouteRules
<1> QED
  BY <1>2 DEF TakesAway

\* WayOut survives what takes away, outside SetUpstreams.
LEMMA WayOutFrame ==
  ASSUME WayOut, TakesAway, TypeOK',
         phase' \notin {"reload", "drop"} => phase \notin {"reload", "drop"},
         phase' \notin {"reload", "drop"} => InService' \subseteq InService
  PROVE  WayOut'
<1>1. allowed' \subseteq Ips
  BY DEF TypeOK, DpTypeOK
<1> QED
  BY <1>1 DEF WayOut, TakesAway

\* SetUpstreams drops the rules to what it takes out of the firewall's set, and
\* so opens no exit.
LEMMA SetUpstreamsCloses ==
  ASSUME TypeOK, TypeOK', RulesFollow, torn = {}, WayOut, SetUpstreams(InService),
         UNCHANGED ups
  PROVE  ActualCloses /\ WayOut'
<1>1. InService' = InService /\ allowed' = allowed /\ fwUps' = InService
  BY DEF SetUpstreams, InService
<1>2. ASSUME NEW ip \in Ips
      PROVE  /\ rules'[ip] = rules[ip] \/ rules'[ip] = <<>>
             /\ rules'[ip] # <<>> => Head(rules'[ip]) \in InService
  <2>1. AtMostOne(rules[ip]) /\ rules[ip] \in Seq(Ups)
    BY DEF RulesFollow, TypeOK, DpTypeOK
  <2>2. rules'[ip] \in Survivors(rules[ip], Ups \ InService)
    BY DEF SetUpstreams
  <2>3. CASE rules[ip] = <<>>
    <3>1. Survivors(rules[ip], Ups \ InService) \subseteq {<<>>}
      BY <2>1, <2>3, SurvivorsType
    <3> QED
      BY <2>2, <3>1
  <2>4. ASSUME NEW u \in Ups, rules[ip] = <<u>>
        PROVE  /\ rules'[ip] = rules[ip] \/ rules'[ip] = <<>>
               /\ rules'[ip] # <<>> => Head(rules'[ip]) \in InService
    <3>1. rules'[ip] \in Survivors(<<u>>, Ups \ InService)
      BY <2>2, <2>4
    <3>2. rules'[ip] = IF u \in Ups \ InService THEN <<>> ELSE <<u>>
      BY <3>1, SurvivorsOfOne
    <3>3. Head(<<u>>) = u
      OBVIOUS
    <3> QED
      BY <2>4, <3>2, <3>3
  <2> QED
    BY <2>1, <2>3, <2>4 DEF AtMostOne
<1>3. allowed \subseteq Ips
  BY DEF TypeOK, DpTypeOK
<1>4. ActualCloses
  <2> SUFFICES ASSUME NEW ip \in Ips PROVE ActualExit(ip)' \in {ActualExit(ip), None}
    BY DEF ActualCloses
  <2>1. CASE ip \in allowed /\ rules'[ip] # <<>>
    <3>1. rules'[ip] = rules[ip] /\ Head(rules[ip]) \in fwUps
      BY <1>2, <2>1 DEF WayOut
    <3> QED
      BY <1>1, <2>1, <3>1 DEF ActualExit
  <2>2. CASE ~(ip \in allowed /\ rules'[ip] # <<>>)
    BY <1>1, <2>2 DEF ActualExit
  <2> QED
    BY <2>1, <2>2
<1> QED
  BY <1>1, <1>2, <1>3, <1>4 DEF WayOut

\* Route opens the way to the upstream and to no other.
LEMMA RouteOpens ==
  ASSUME TypeOK, NEW ip \in Ips, NEW u \in Ups, u \in fwUps, WayOut,
         RuleFollows(ip), ip \notin torn, Route(ip, u), Mended(ip, u),
         ip \notin unroutePending, UNCHANGED unroutePending,
         assignments' = [assignments EXCEPT ![ip] = u]
  PROVE  /\ \A j \in Ips : ActualExit(j)' = IF j = ip THEN u ELSE ActualExit(j)
         /\ \A j \in allowed' : rules'[j] # <<>> => Head(rules'[j]) \in fwUps'
<1>1. /\ rules'[ip] = <<u>> /\ fwUps' = fwUps
      /\ \A j \in Ips : j # ip => rules'[j] = rules[j]
  BY RouteRules
<1>2. allowed' = allowed \cup {ip} /\ allowed \subseteq Ips
  BY RouteStep DEF TypeOK, DpTypeOK
<1>3. rules'[ip] # <<>> /\ Head(rules'[ip]) = u
  BY <1>1
<1> QED
  BY <1>1, <1>2, <1>3 DEF ActualExit, WayOut

\* The firewall has every upstream of the initial configuration.
LEMMA WayOutInit == Init => WayOut
<1> SUFFICES ASSUME Init PROVE WayOut
  OBVIOUS
<1>1. InService \subseteq Configured(cfg)
  BY DEF Init, InService, Configured
<1> QED
  BY <1>1 DEF Init, DpInit, WayOut

-----------------------------------------------------------------------------
(* The simulation, as for Reported                                         *)

\* Health and profiles, which the abstract gateway follows, have their types.
LEMMA ActualInputs == Actual!Inputs
BY DEF Actual!Inputs, Healthy, InService, MenuOf

\* Exits that stay or close are those of some set of open addresses.
LEMMA SomeExitsStayOpen ==
  ASSUME ActualCloses
  PROVE  \E open \in SUBSET Ips :
           [ip \in Ips |-> ActualExit(ip)]' =
             [ip \in Ips |-> IF ip \in open THEN [j \in Ips |-> ActualExit(j)][ip] ELSE None]
<1> DEFINE open == {ip \in Ips : ActualExit(ip)' = ActualExit(ip)}
<1>1. open \in SUBSET Ips
  OBVIOUS
<1>2. \A ip \in Ips :
        ActualExit(ip)' = IF ip \in open THEN [j \in Ips |-> ActualExit(j)][ip] ELSE None
  BY DEF ActualCloses
<1> HIDE DEF open
<1> QED
  BY <1>1, <1>2

\* A step in which nobody comes or goes and exits at most close.
LEMMA QuietKernel == ASSUME GatewayStays, ActualCloses PROVE Actual!Next
<1>1. Actual!Block
  BY SomeExitsStayOpen DEF Actual!Block, GatewayStays, KeysOf
<1> QED
  BY <1>1, ActualInputs DEF Actual!Next

\* The command line touches no exit.
LEMMA KernelEnvironment ==
  ASSUME IInv, IInv', WayOut, Environment PROVE Actual!Next /\ WayOut'
<1> USE DEF dpVars, daemonVars
<1>1. UNCHANGED <<wg, allowed, rules, fwUps, ups, phase>>
  BY DEF Environment, StoreAdd, StoreDelete, Signal, lockVars
<1>2. UNCHANGED [ip \in Ips |-> ActualExit(ip)]
  BY <1>1 DEF ActualExit
<1>3. TakesAway /\ WayOut'
  BY <1>1, NothingTaken, WayOutFrame DEF InService, IInv
<1>4. ASSUME NEW p \in Peers, StoreAdd(p) PROVE Actual!Next
  <2>1. Actual!Join(p.key)
    BY <1>1, <1>2, <1>4 DEF Actual!Join, StoreAdd, KeysOf
  <2>2. p.key \in Keys
    BY DEF Peers
  <2> QED
    BY <2>1, <2>2, ActualInputs DEF Actual!Next
<1>5. ASSUME NEW p \in store, StoreDelete(p) PROVE Actual!Next
  <2>1. p.key \in Keys
    BY DEF IInv, TypeOK, Peers
  <2>2. KeysOf(store)' = KeysOf(store) \ {p.key}
    BY <1>5 DEF StoreDelete, KeysOf, IInv, PeerInv, KeysIdentify
  <2>3. Actual!Part(p.key)
    BY <1>1, <1>2, <1>5, <2>2 DEF Actual!Part, StoreDelete
  <2> QED
    BY <2>1, <2>3, ActualInputs DEF Actual!Next
<1>6. CASE Signal
  BY <1>3, <1>6, TakingAwayCloses, QuietKernel DEF Signal, GatewayStays
<1> QED
  BY <1>3, <1>4, <1>5, <1>6 DEF Environment

\* A probe moves the health of an upstream and, with it, pins.
LEMMA KernelProbes ==
  ASSUME IInv, IInv', WayOut, Probes PROVE Actual!Next /\ WayOut'
<1> USE DEF dpVars, daemonVars, envVars
<1>1. GatewayStays /\ UNCHANGED phase
  BY DEF Probes, ProbeStart, RoundOver, ProbeDone, StaleProbeDone, GatewayStays, lockVars
<1>2. UNCHANGED <<allowed, rules, fwUps>>
  BY DEF Probes, ProbeStart, RoundOver, ProbeDone, StaleProbeDone, Observed, ApplyAlive,
         SetAlive, SetAliveFails, SetAliveUnknown
<1>3. InService' \subseteq InService
  BY DEF Probes, ProbeStart, RoundOver, ProbeDone, StaleProbeDone, InService, IInv, TypeOK
<1>4. TakesAway
  BY <1>2, NothingTaken
<1> QED
  BY <1>1, <1>3, <1>4, TakingAwayCloses, WayOutFrame, QuietKernel DEF IInv

\* A reload that does not fail in SetUpstreams closes exits.
LEMMA KernelReload ==
  ASSUME "reload" \notin FaultKinds, IInv, IInv', RulesFollow, torn = {}, WayOut, Reload
  PROVE  Actual!Next /\ WayOut'
<1> USE DEF dpVars, daemonVars, envVars
<1>1. GatewayStays
  BY DEF Reload, ReloadBegin, ReloadRejected, ReloadKeep, DropBegin, ReloadOpen,
         ReloadAlive, DropPeer, DropEnd, ReloadApply, ReloadEnd, GatewayStays
<1>2. CASE ReloadApply
  <2>1. SetUpstreams(InService) /\ UNCHANGED ups
    BY <1>2 DEF ReloadApply, Fault
  <2> QED
    BY <1>1, <2>1, SetUpstreamsCloses, QuietKernel DEF IInv
<1>3. CASE ~ReloadApply
  <2>1. ASSUME NEW ip \in ipsTodo, DropPeer(ip)
        PROVE  TakesAway /\ phase' \in {"reload", "drop"}
    BY <2>1, UnrouteTakesAway DEF DropPeer, UnroutePeer, UnroutePeerFails, IInv, TypeOK
  <2>2. ASSUME NEW u \in upsTodo, ReloadAlive(u)
        PROVE  TakesAway /\ phase \notin {"reload", "drop"} /\ InService' \subseteq InService
    <3>1. UNCHANGED <<allowed, rules, fwUps>>
      BY <2>2 DEF ReloadAlive, ApplyAlive, SetAlive, SetAliveFails, SetAliveUnknown
    <3> QED
      BY <2>2, <3>1, NothingTaken DEF ReloadAlive, InService
  <2>3. TakesAway
    BY <1>3, <2>1, <2>2, NothingTaken
       DEF Reload, ReloadBegin, ReloadRejected, ReloadKeep, DropBegin, ReloadOpen, DropEnd, ReloadEnd
  <2>4. \/ phase' \in {"reload", "drop"}
        \/ phase \notin {"reload", "drop"} /\ InService' \subseteq InService
    BY <1>3, <2>1, <2>2
       DEF Reload, ReloadBegin, ReloadRejected, ReloadKeep, DropBegin, ReloadOpen, DropEnd,
           ReloadEnd, lockVars, InService
  <2> QED
    BY <1>1, <2>3, <2>4, TakingAwayCloses, WayOutFrame, QuietKernel DEF IInv
<1> QED
  BY <1>2, <1>3

\* The first loop of Reconcile evicts, or only closes an exit.
LEMMA KernelRevoke ==
  ASSUME IInv, IInv', RulesFollow, torn = {}, WayOut, NEW p \in todo, Revoke(p)
  PROVE  Actual!Next /\ WayOut'
<1>1. /\ phase = "revoke" /\ p.key \notin KeysOf(store) /\ p.key \in Keys /\ p.ip \in Ips
      /\ UNCHANGED <<usedKeys, store, phase, ups>>
  BY DEF Revoke, IInv, PeerInv, LoopsInBounds, TypeOK, Peers, envVars
<1>2. TakesAway
  BY <1>1, UnrouteTakesAway DEF Revoke, Revoked, NotRevoked, RevokeGoesWrong, IInv
<1>3. ActualCloses /\ WayOut'
  BY <1>1, <1>2, TakingAwayCloses, WayOutFrame DEF IInv, InService
<1>4. CASE UNCHANGED wg
  BY <1>1, <1>3, <1>4, QuietKernel DEF GatewayStays
<1>5. CASE RemoveKey(p.key)
  <2>1. Actual!Evict(p.key)
    BY <1>1, <1>3, <1>5, SomeExitsStayOpen DEF Actual!Evict, RemoveKey, KeysOf
  <2> QED
    BY <1>1, <1>3, <2>1, ActualInputs DEF Actual!Next
<1> QED
  BY <1>4, <1>5 DEF Revoke, Revoked, NotRevoked, RevokeGoesWrong

\* SyncAdd gives away an address from which nothing leaves.
LEMMA KernelAdd ==
  ASSUME IInv, phase = "sync", NEW p \in todo, SyncAdd(p), UNCHANGED envVars
  PROVE  Actual!Next
<1>1. /\ p \in snapshot /\ p.key \in Keys /\ p.ip \in Ips
      /\ UNCHANGED <<usedKeys, store, allowed, rules, fwUps>>
  BY DEF IInv, PeerInv, LoopsInBounds, TypeOK, Peers, SyncAdd, envVars, dpVars
<1>2. CASE UNCHANGED wg
  BY <1>1, <1>2, NothingTaken, TakingAwayCloses, QuietKernel DEF GatewayStays
<1>3. CASE wg' = [wg EXCEPT ![p.ip] = p.key]
  <2>1. \A q \in devicePeers : q.ip # p.ip /\ q.key # p.key
    BY <1>1 DEF SyncAdd, Known, KeysOf, IpsOf, IInv, PeerInv, LoopsInBounds, AddressesUnique
  <2>2. wg[p.ip] = None /\ \A ip \in Ips : wg[ip] # p.key
    BY <1>1, <2>1, DaemonAssumption DEF IInv, PeerInv, OneOwnerPerAddress
  <2>3. ActualExit(p.ip) = None
    BY <1>1, <2>1 DEF IInv, AddressInv, NothingOutlivesItsPeer, IpsOf, ActualExit
  <2>4. p.key \in usedKeys
    BY <1>1 DEF IInv, PeerInv, KeysIdentify, KeysOf
  <2>5. UNCHANGED [ip \in Ips |-> ActualExit(ip)]
    BY <1>1 DEF ActualExit
  <2>6. Actual!Admit(p.ip, p.key)
    BY <1>1, <1>3, <2>2, <2>3, <2>4, <2>5 DEF Actual!Admit, KeysOf
  <2> QED
    BY <1>1, <2>6, ActualInputs DEF Actual!Next
<1> QED
  BY <1>2, <1>3 DEF SyncAdd

\* SyncMove opens the exit to the upstream it has chosen.
LEMMA KernelMove ==
  ASSUME "route" \notin FaultKinds, IInv, IInv', LoopServed, RulesFollow, torn = {}, WayOut,
         phase = "sync",
         NEW p \in todo, NEW want \in Ups, SyncMove(p, want), UNCHANGED <<envVars, phase>>
  PROVE  Actual!Next /\ WayOut'
<1>1. p \in snapshot /\ wg[p.ip] = p.key /\ p.key # None /\ p.ip \in Ips
  BY KnownIsServed DEF SyncMove, Routable, Peers
<1>2. UNCHANGED <<usedKeys, store, wg, ups>>
  BY DEF SyncMove, envVars
<1>3. CASE RouteUnknown(want)
  <2>1. TakesAway
    BY <1>3, NothingTaken DEF RouteUnknown, dpVars
  <2> QED
    BY <1>2, <2>1, TakingAwayCloses, WayOutFrame, QuietKernel DEF GatewayStays, InService, IInv
<1>4. CASE /\ Route(p.ip, want) /\ Mended(p.ip, want)
           /\ assignments' = [assignments EXCEPT ![p.ip] = want]
  <2>1. want \in Healthy \cap MenuOf(p.key)
    BY <1>1, OffersAreOnTheMenu DEF SyncMove, Routable
  <2>2. want \in fwUps /\ InService \subseteq fwUps
    BY <2>1 DEF WayOut, Healthy
  <2>3. RuleFollows(p.ip) /\ p.ip \notin unroutePending /\ UNCHANGED unroutePending
    BY <1>1 DEF RulesFollow, RuleFollows, SyncMove, Routable
  <2>4. /\ \A j \in Ips : ActualExit(j)' = IF j = p.ip THEN want ELSE ActualExit(j)
        /\ \A j \in allowed' : rules'[j] # <<>> => Head(rules'[j]) \in fwUps'
        /\ fwUps' = fwUps
    BY <1>1, <1>4, <2>2, <2>3, RouteOpens, RouteRules DEF IInv
  <2>5. WayOut'
    BY <1>2, <2>2, <2>4 DEF WayOut, InService
  <2>6. [ip \in Ips |-> ActualExit(ip)]' =
          [[ip \in Ips |-> ActualExit(ip)] EXCEPT ![p.ip] = want]
    BY <1>1, <2>4
  <2>7. p.key \in Keys
    BY <1>1 DEF IInv, TypeOK, Peers
  <2>8. Actual!Forward(p.ip, want)
    BY <1>1, <1>2, <2>1, <2>6, <2>7 DEF Actual!Forward, KeysOf
  <2> QED
    BY <1>1, <2>5, <2>8, ActualInputs DEF Actual!Next
<1>5. ~Fault("route")
  BY DEF Fault
<1> QED
  BY <1>3, <1>4, <1>5 DEF SyncMove

\* Both loops of Reconcile.
LEMMA KernelReconcile ==
  ASSUME "route" \notin FaultKinds, IInv, IInv', LoopServed, RulesFollow, torn = {}, WayOut,
         Reconcile
  PROVE  Actual!Next /\ WayOut'
<1> USE DEF dpVars, daemonVars, envVars
<1>1. CASE GatewayStays /\ TakesAway /\ UNCHANGED ups
           /\ phase \notin {"reload", "drop"} /\ phase' \notin {"reload", "drop"}
  BY <1>1, TakingAwayCloses, WayOutFrame, QuietKernel DEF InService, IInv
<1>2. ASSUME NEW g \in {"run", "hup"}, ReconcileBegin(g) \/ ReconcileListFails(g)
      PROVE  Actual!Next /\ WayOut'
  BY <1>1, <1>2, NothingTaken DEF ReconcileBegin, ReconcileListFails, Leave, GatewayStays
<1>3. CASE RevokeEnd \/ ReconcileEnd
  BY <1>1, <1>3, NothingTaken DEF RevokeEnd, ReconcileEnd, Leave, GatewayStays
<1>4. ASSUME NEW p \in todo, Sync(p) PROVE Actual!Next /\ WayOut'
  <2>1. phase = "sync" /\ p.ip \in Ips /\ UNCHANGED <<envVars, phase>>
    BY <1>4 DEF Sync, IInv, TypeOK, Peers
  <2>2. CASE SyncAdd(p)
    <3>1. TakesAway /\ UNCHANGED ups
      BY <2>2, NothingTaken DEF SyncAdd
    <3>2. WayOut'
      BY <2>1, <3>1, WayOutFrame DEF InService, IInv
    <3> QED
      BY <2>1, <2>2, <3>2, KernelAdd
  <2>3. ASSUME NEW want \in Ups, SyncMove(p, want) PROVE Actual!Next /\ WayOut'
    BY <2>1, <2>3, KernelMove
  <2>4. CASE SyncHeld(p) \/ SyncKeep(p)
    BY <1>1, <2>1, <2>4, NothingTaken DEF SyncHeld, SyncKeep, GatewayStays
  <2>5. CASE SyncNoProfile(p) \/ SyncCleanup(p) \/ SyncBlock(p)
    <3>1. TakesAway
      BY <2>1, <2>5, UnrouteTakesAway
         DEF SyncNoProfile, SyncCleanup, SyncBlock, UnroutePeer, UnroutePeerFails, IInv
    <3> QED
      BY <1>1, <2>1, <2>5, <3>1 DEF SyncNoProfile, SyncCleanup, SyncBlock, GatewayStays
  <2> QED
    BY <1>4, <2>2, <2>3, <2>4, <2>5 DEF Sync
<1> QED
  BY <1>2, <1>3, <1>4, KernelRevoke DEF Reconcile

\* The daemon's initial states are the gateway's in the kernel too.
LEMMA KernelInit == Init => Actual!Init
BY DEF Init, DpInit, Actual!Init, KeysOf, ActualExit, Healthy, InService, MenuOf

\* As long as neither Route nor SetUpstreams fails half-way, every step is one of
\* the gateway in what the kernel does.
LEMMA KernelNext ==
  ASSUME "route" \notin FaultKinds, "reload" \notin FaultKinds,
         IInv, IInv', LoopServed, RulesFollow, torn = {}, WayOut, [Next]_vars
  PROVE  [Actual!Next]_(Actual!vars) /\ WayOut'
<1>1. CASE Next
  BY <1>1, KernelEnvironment, KernelProbes, KernelReconcile, KernelReload DEF Next
<1>2. CASE UNCHANGED vars
  <2>1. GatewayStays /\ TakesAway /\ UNCHANGED <<ups, phase>>
    BY <1>2, NothingTaken DEF vars, dpVars, daemonVars, envVars, lockVars, GatewayStays
  <2> QED
    BY <2>1, TakingAwayCloses, WayOutFrame, QuietKernel DEF InService, IInv
<1> QED
  BY <1>1, <1>2

\* The exit through which the kernel really sends a client's new flows - the first
\* rule, if the firewall lets packets out there - obeys the gateway's rules, not
\* only the one Status reports.
THEOREM KernelIsAGateway ==
  ASSUME "route" \notin FaultKinds, "reload" \notin FaultKinds
  PROVE  Spec => ActsAsAGateway
<1>1. Spec => []IInv
  BY Invariant
<1>2. []IInv /\ Spec => []LoopServed
  BY ServedNext, PTL DEF Spec
<1>3. IInv /\ RulesFollow /\ [Next]_vars => RulesFollow'
  BY RulesNext
<1>4. IInv /\ torn = {} /\ [Next]_vars => (torn = {})'
  BY NothingTorn DEF IInv
<1>5. Init => torn = {}
  BY DEF Init
<1>6. []IInv /\ Spec => [](RulesFollow /\ torn = {})
  BY <1>3, <1>4, <1>5, RulesInit, PTL DEF Spec
<1>7. IInv /\ IInv' /\ LoopServed /\ RulesFollow /\ torn = {} /\ WayOut /\ [Next]_vars
        => [Actual!Next]_(Actual!vars) /\ WayOut'
  BY KernelNext
<1>8. []IInv /\ []LoopServed /\ [](RulesFollow /\ torn = {}) /\ Spec => Actual!Spec
  BY <1>7, KernelInit, WayOutInit, PTL DEF Spec, Actual!Spec
<1> QED
  BY <1>1, <1>2, <1>6, <1>8, PTL DEF ActsAsAGateway

\* An admitted address is admitted to an upstream the firewall lets packets out
\* through, when neither call fails half-way.
THEOREM EgressStaysOpen ==
  ASSUME "route" \notin FaultKinds, "reload" \notin FaultKinds
  PROVE  Spec => []EgressIsOpen
<1>1. Spec => []IInv
  BY Invariant
<1>2. []IInv /\ Spec => []LoopServed
  BY ServedNext, PTL DEF Spec
<1>3. IInv /\ RulesFollow /\ [Next]_vars => RulesFollow'
  BY RulesNext
<1>4. IInv /\ torn = {} /\ [Next]_vars => (torn = {})'
  BY NothingTorn DEF IInv
<1>5. Init => torn = {}
  BY DEF Init
<1>6. []IInv /\ Spec => [](RulesFollow /\ torn = {})
  BY <1>3, <1>4, <1>5, RulesInit, PTL DEF Spec
<1>7. IInv /\ IInv' /\ LoopServed /\ RulesFollow /\ torn = {} /\ WayOut /\ [Next]_vars => WayOut'
  BY KernelNext
<1>8. []IInv /\ []LoopServed /\ [](RulesFollow /\ torn = {}) /\ Spec => []WayOut
  BY <1>7, WayOutInit, PTL DEF Spec
<1>9. IInv /\ RulesFollow /\ torn = {} /\ WayOut => EgressIsOpen
  <2> SUFFICES ASSUME IInv, RulesFollow, torn = {}, WayOut, NEW ip \in allowed \ unroutePending
               PROVE  assignments[ip] \in fwUps
    BY DEF EgressIsOpen
  <2>1. ip \in Ips /\ assignments[ip] # None
    BY DEF IInv, TypeOK, DpTypeOK, AddressInv, AdmittedIsAssigned
  <2>2. rules[ip] = <<assignments[ip]>>
    BY <2>1 DEF RulesFollow, RuleOf
  <2>3. rules[ip] # <<>> /\ Head(rules[ip]) = assignments[ip]
    BY <2>2
  <2> QED
    BY <2>3 DEF WayOut
<1> QED
  BY <1>1, <1>2, <1>6, <1>8, <1>9, PTL
=============================================================================
