-------------------------- MODULE DaemonProperties --------------------------
(***************************************************************************)
(* What the daemon promises, as invariants and liveness properties of      *)
(* Daemon.tla, and the inductive invariant DaemonProofs.tla proves.        *)
(***************************************************************************)
EXTENDS Daemon

-----------------------------------------------------------------------------
(* Invariants                                                              *)

TypeOK ==
  /\ DpTypeOK
  /\ store \in SUBSET Peers /\ usedKeys \in SUBSET Keys /\ signal \in BOOLEAN
  /\ cfg \in Configs /\ newCfg \in Configs
  /\ ups \in [Ups -> Upstreams \cup {None}]
  /\ assignments \in [Ips -> Ups \cup {None}]
  /\ unroutePending \in SUBSET Ips /\ outdated \in SUBSET Ips /\ torn \in SUBSET Ips
  /\ devicePeers \in SUBSET Peers /\ aliveFailed \in SUBSET Ups
  /\ wg \in [Ips -> Keys \cup {None}]
  /\ run \in {"idle", "probing", "reconcile"}
  /\ hup \in {"idle", "reload", "reconcile"}
  /\ probing \in SUBSET InService
  /\ stale \in [Ups -> Trackers \cup {None}]
  /\ phase \in {"free", "revoke", "sync", "reload", "drop", "alive"}
  /\ holder \in {"none", "run", "hup"}
  /\ snapshot \in SUBSET Peers /\ todo \in SUBSET Peers
  /\ held \in SUBSET Ips /\ failed \in BOOLEAN
  /\ upsTodo \in SUBSET Ups /\ dropping \in Ups \cup {None}
  /\ ipsTodo \in SUBSET Ips
  /\ faults \in 0 .. MaxFaults /\ fresh \in SUBSET Ups

\* A peer record on the device owns its address alone, and the device routes
\* an address only to the owner of record: a client that gets a freed address
\* never shares it with the one being revoked (Reconcile, "held").
OneOwnerPerAddress ==
  /\ \A p, q \in devicePeers : p.ip = q.ip \/ p.key = q.key => p = q
  /\ \A ip \in Ips : wg[ip] # None =>
       \E p \in devicePeers : p.ip = ip /\ p.key = wg[ip]

\* Nothing about an address - assignment, retry mark, rule, pin or firewall
\* entry - outlives the record of its peer, so the next client to get the
\* address inherits nothing (Reconcile keeps the record until both succeed).
NothingOutlivesItsPeer ==
  \A ip \in Ips :
    \/ assignments[ip] # None \/ ip \in unroutePending \/ ip \in allowed
    \/ rules[ip] # <<>> \/ PinsOf(ip) # {}
    => ip \in IpsOf(devicePeers)

\* The firewall admits an address only while the daemon has it assigned: a
\* peer that Status reports as blocked is blocked (route, unroute).
AdmittedIsAssigned == \A ip \in allowed : assignments[ip] # None

\* An assignment made to an upstream that has since been closed is marked for
\* cleanup until that is done, even when a new upstream has taken the name
\* (unroute: "a reloaded upstream can reuse the same name").
ReplacedIsPending ==
  /\ outdated \subseteq unroutePending
  /\ \A ip \in Ips : assignments[ip] # None /\ assignments[ip] \notin InService
                     => ip \in unroutePending

\* An assignment that is not marked for cleanup is really in force: the
\* firewall admits the address, so Reconcile may leave it alone.
SettledIsAdmitted ==
  \A ip \in Ips : assignments[ip] # None /\ ip \notin unroutePending => ip \in allowed

\* A client that is on the device and still in the store can always use its
\* tunnel: revoking others never takes its address away (Reconcile).
StoredPeerKeepsItsTunnel ==
  \A p \in devicePeers \cap store : wg[p.ip] = p.key

\* At every moment, a pin to an upstream in service is to one the dataplane holds
\* alive, or its failed removal is remembered for a retry (applyAlive).  Excepted
\* is the object a Reload has opened under a name that may still have pins, until
\* its health is applied; after a failed SetUpstreams that waits for a probe.
PinsAreAliveOrRetried ==
  \A pin \in pins : pin[2] \in InService \ fresh => pin[2] \in alive \cup aliveFailed

\* The one rule an address should have
RuleOf(ip) == IF assignments[ip] = None THEN <<>> ELSE <<assignments[ip]>>

\* What Reconcile has achieved when it returns without an error
Converged ==
  /\ devicePeers = snapshot
  /\ \A ip \in Ips : IF ip \in IpsOf(snapshot)
                     THEN [key |-> wg[ip], ip |-> ip] \in
                            {[key |-> p.key, ip |-> p.ip] : p \in snapshot}
                     ELSE wg[ip] = None /\ ip \notin allowed /\ rules[ip] = <<>>
  /\ \A p \in snapshot :
       LET best == Candidates(cfg.prefer[p.profile], Healthy)
       IN  /\ cfg.prefer[p.profile] # None
           /\ p.ip \notin unroutePending
           /\ IF best = {} THEN assignments[p.ip] = None /\ p.ip \notin allowed
              ELSE assignments[p.ip] \in best /\ p.ip \in allowed
           /\ p.ip \notin torn => rules[p.ip] = RuleOf(p.ip)

\* Reconcile without an error leaves exactly the stored peers on the device, each
\* on a healthy upstream of its best tier, by record and by the one rule in the
\* kernel, or blocked and without a rule; skipping a held address is therefore
\* never silent (Reconcile).  Only the rules of an address whose Route once failed
\* half-way are excepted: its repetition can leave the old one (MCretry.cfg).
CleanReconcileConverges ==
  phase = "sync" /\ todo = {} /\ ~failed => Converged

\* New flows of an admitted peer leave through the upstream the daemon has
\* assigned (dataplane.go, Route), unless its cleanup is pending.
EgressIsAssigned ==
  \A ip \in allowed \ unroutePending :
    rules[ip] # <<>> /\ Head(rules[ip]) = assignments[ip]

\* The firewall lets an admitted peer out through the upstream it is assigned to
\* (Route; Status reports that upstream).
EgressIsOpen ==
  \A ip \in allowed \ unroutePending : assignments[ip] \in fwUps

\* Between two critical sections the dataplane's view of an upstream's health
\* is the tracker's, or the disagreement is remembered for a retry.
HealthIsApplied ==
  phase = "free" =>
    \A u \in InService \ (aliveFailed \cup fresh) : u \in alive <=> u \in Healthy

\* Nothing is pinned to an upstream that has not been probed yet (Reload:
\* "A replaced upstream starts unknown again; nothing may stay pinned").
NothingPinnedToUnknown ==
  phase = "free" =>
    \A pin \in pins : pin[2] \in InService => ups[pin[2]].tracker.state # "unknown"

-----------------------------------------------------------------------------
(* Liveness                                                                *)

\* A removed client loses its tunnel (user rm, Reconcile's first loop).
RevokedPeerLosesTunnel ==
  \A k \in Keys : k \in usedKeys \ KeysOf(store) ~> \A ip \in Ips : wg[ip] # k

\* A failed route cleanup is retried until it succeeds (unroutePending).
CleanupFinishes ==
  \A ip \in Ips : ip \in unroutePending ~> ip \notin unroutePending

\* Flows do not stay pinned to an upstream that stays down (aliveFailed).
DeadUpstreamLosesPins ==
  \A u \in Ups :
    []<>(PinsTo(u) = {} \/ u \notin InService \/ ups[u].tracker.state # "down")

-----------------------------------------------------------------------------
(* The daemon as a gateway                                                 *)

\* The records of key k anywhere; they are one record (KeysIdentify)
RecordsOf(k) == {p \in store \cup snapshot \cup devicePeers : p.key = k}

MenuOf(k) ==
  {u \in Ups : \E p \in RecordsOf(k) :
     cfg.prefer[p.profile] # None /\ TierOf(cfg.prefer[p.profile], u) # 0}

\* The exit Status reports, and the one the first rule makes it
ReportedExit(ip) == assignments[ip]
ActualExit(ip) ==
  IF ip \in allowed /\ rules[ip] # <<>> /\ Head(rules[ip]) \in fwUps
  THEN Head(rules[ip]) ELSE None

Reported ==
  INSTANCE Gateway WITH issued <- usedKeys, clients <- KeysOf(store), healthy <- Healthy,
    menu <- [k \in Keys |-> MenuOf(k)], tenant <- wg,
    exit <- [ip \in Ips |-> ReportedExit(ip)]

Actual ==
  INSTANCE Gateway WITH issued <- usedKeys, clients <- KeysOf(store), healthy <- Healthy,
    menu <- [k \in Keys |-> MenuOf(k)], tenant <- wg,
    exit <- [ip \in Ips |-> ActualExit(ip)]

\* Whatever fails, the daemon is a gateway in what it believes and reports: no
\* address changes hands while it is admitted, no client is evicted, nobody is
\* routed through an ill upstream or one outside the profile (Reconcile, Reload).
ReportsAGateway == Reported!Spec

\* As long as Route and SetUpstreams do not fail half-way, it is one in what the
\* kernel does with a new flow.
ActsAsAGateway == Actual!Spec

\* The upstreams Select may choose from for p
Best(p) == IF cfg.prefer[p.profile] = None THEN {}
           ELSE Candidates(cfg.prefer[p.profile], Healthy)

\* p's packets come in at its address and leave through its upstream
Served(p) ==
  /\ p \in devicePeers /\ wg[p.ip] = p.key
  /\ assignments[p.ip] # None /\ p.ip \in allowed

\* A client that stays in the store is served again and again if its profile
\* always has a healthy upstream, one after another as it may be, through failed
\* calls, moves and reloads (Reconcile, route).  Those upstreams must have routing
\* tables: where SetUpstreams has failed (daemon.go:277) a new one has none, every
\* Route to it is refused until the next reload, and the promise is not kept
\* (ServedRegardless, MCunserved.cfg).
ServedWhileHealthy ==
  \A p \in Peers :
    <>[](p \in store /\ Best(p) # {} /\ Best(p) \subseteq tables) => []<>Served(p)

\* The same of every healthy upstream a reload has brought in ("applies the file
\* live", docs/OPERATIONS.md:135).
ServedRegardless ==
  \A p \in Peers : <>[](p \in store /\ Best(p) # {}) => []<>Served(p)

-----------------------------------------------------------------------------
(* Strengthening.  Each part says what a phase of a critical section may   *)
(* rely on; together with the invariants above they are inductive.         *)

\* Every record anywhere belongs to a generated key, and a key has one record
KeysIdentify ==
  LET records == store \cup snapshot \cup devicePeers
  IN  /\ KeysOf(records) \subseteq usedKeys
      /\ \A p, q \in records : p.key = q.key => p = q

\* UNIQUE (ip), in the store and in what was read from it
AddressesUnique ==
  /\ \A p, q \in store : p.ip = q.ip => p = q
  /\ \A p, q \in snapshot : p.ip = q.ip => p = q

\* Reconcile's loops only handle what they were started with
LoopsInBounds ==
  /\ phase = "revoke" => /\ todo \subseteq devicePeers
                         /\ \A p \in todo : p.key \notin KeysOf(store)
  /\ phase = "sync" => /\ todo \subseteq snapshot
                       /\ \A p \in devicePeers : p.ip \in held \/ p \in snapshot

\* dropUpstream: a peer of the dropped upstream is still to be unrouted or
\* its cleanup is pending
DropInBounds ==
  phase = "drop" =>
    /\ dropping \in InService
    /\ \A ip \in ipsTodo : assignments[ip] = dropping
    /\ \A ip \in AssignedTo(dropping) : ip \in ipsTodo \/ ip \in unroutePending

\* Inside Reconcile: no key of the list is being revoked, and a peer that is
\* both listed and on the device has its address
LoopServed ==
  /\ phase = "revoke" => \A p \in todo : p.key \notin KeysOf(snapshot)
  /\ phase \in {"revoke", "sync"} => \A p \in devicePeers \cap snapshot : wg[p.ip] = p.key

PeerInv ==
  /\ OneOwnerPerAddress /\ StoredPeerKeepsItsTunnel
  /\ KeysIdentify /\ AddressesUnique /\ LoopsInBounds

AddressInv ==
  /\ NothingOutlivesItsPeer /\ AdmittedIsAssigned
  /\ ReplacedIsPending /\ SettledIsAdmitted /\ DropInBounds

IInv == TypeOK /\ PeerInv /\ AddressInv

\* A peer has the best exit its profile allows
Settled(p) ==
  LET best == Candidates(cfg.prefer[p.profile], Healthy)
  IN  /\ cfg.prefer[p.profile] # None /\ p.ip \notin unroutePending
      /\ IF best = {} THEN assignments[p.ip] = None ELSE assignments[p.ip] \in best

\* What a Reconcile that has seen no error has done so far: every device peer is
\* listed or still to be revoked, then every listed one is settled or still to do
CleanInv ==
  ~failed =>
    /\ phase = "revoke" => \A p \in devicePeers : p.key \in KeysOf(snapshot) \/ p \in todo
    /\ phase = "sync" =>
         /\ devicePeers \subseteq snapshot /\ held \subseteq IpsOf(devicePeers)
         /\ \A p \in snapshot \ todo : p \in devicePeers /\ Settled(p)

\* A list of no rule or one.
AtMostOne(list) == list = <<>> \/ \E u \in Ups : list = <<u>>

\* An address whose Route has not failed half-way has at most one rule, and
\* without a pending cleanup exactly that of its assignment
RulesFollow ==
  \A ip \in Ips \ torn :
    /\ AtMostOne(rules[ip])
    /\ ip \notin unroutePending => rules[ip] = RuleOf(ip)

\* As long as SetUpstreams does not fail either, whoever Reconcile routes and
\* whoever is admitted with a rule has an upstream the firewall lets packets to
WayOut ==
  /\ phase \notin {"reload", "drop"} => InService \subseteq fwUps
  /\ \A ip \in allowed : rules[ip] # <<>> => Head(rules[ip]) \in fwUps
=============================================================================
