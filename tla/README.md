# A TLA+ model of Lotsman

Lotsman is a VPN gateway: clients connect to its AmneziaWG interface `lm0`, and
each client's traffic leaves through one of several upstream VPN tunnels
`lm-up-*`, chosen by the client's profile and the health of the upstreams. This
directory holds TLA+ specifications of its Go code under `src/`, TLC
configurations that check them, and TLAPS proofs about the daemon, running connections,
the life of the process, the tunnels, the trackers and the store.

1. [The system](#the-system)
2. [The modules](#the-modules)
3. [The runs](#the-runs)
4. [Fairness](#fairness)
5. [The proofs](#the-proofs)
6. [Where the code and its documentation disagree](#where-the-code-and-its-documentation-disagree)
7. [What is not modelled](#what-is-not-modelled)
8. [Plan](#plan)

To check a run: `tlc -config X.cfg M`; to check the proofs: `tlapm M.tla` for `M` in
`DataplaneProofs`, `DaemonProofs`, `TrafficProofs`, `LifecycleProofs`, `ServeProofs`, `TunnelProofs`, `HealthProofs` and `StoreProofs`. `PROJECT.json` maps each
definition to the lines of code it stands for and lists runs, hazards, findings and theorems.

## The system

| Component | State it keeps | Operations |
|---|---|---|
| Daemon (`internal/daemon/daemon.go`) | configuration, upstream objects, assignments, pending cleanups, peers on the device, failed health updates; all under one mutex | `Run` (a probe round, then `Reconcile`, again and again), `Reload`, `Reconcile`, `start`, `stop` |
| Dataplane (`internal/dataplane/linux`) | table per upstream, health per upstream, admitted peers; in the kernel: rules, pin rules, default routes, one nftables table | `Setup`, `SetUpstreams`, `Route`, `Unroute`, `SetAlive`, `Teardown` |
| Health tracker (`internal/health`) | state, two streak counters, two thresholds | `Observe`, `SetThresholds` |
| Policy (`internal/policy`) | none | `Select` |
| Configuration (`internal/config`) | the YAML file | `Load`, `Validate` |
| Store (`internal/store`) | SQLite tables `users`, `peers`, a schema version, backups | `Open` with migrations, `CreateUser`, `AddPeer`, deletes, lists |
| Identity (`internal/daemon/identity.go`) | `identity.json` | load or create |
| Command line (`cmd/lotsman`) | none; edits the store and signals the daemon | `serve`, `user add/rm/show/list`, `upstream status` |
| Process (`cmd/lotsman/serve_linux.go`) | PID file, status file, a goroutine for SIGHUP and one for the status | `serve`, `handleHUP`, `publishStatus` |
| Tunnels (`internal/tunnel`) | userspace devices, a UDP socket bound to an address | `AddPeer`, `RemovePeer`, `Configure`, `Close`; `Open`/`Close`/`Send` of the socket |
| Upstream loading (`daemon/upstream.go`, `awgconf`) | the resolved endpoint of each upstream | `Parse`, `LoadUpstream`, `RefreshEndpoint` |
| Client MTU (`internal/mtu`) | none | `Client` |
| Metrics, client config | none, or one file | format |

How they interact:

- The run loop, one goroutine per probe and the SIGHUP goroutine share the daemon's
  state under `d.mu`. A probe runs outside the mutex and its answer is applied when
  it arrives, whatever has happened to its upstream meanwhile.
- `user add` and `user rm` are processes of their own. They write the store and send
  SIGHUP; the daemon reads the store when it reconciles. Nothing else connects them.
- The daemon calls the dataplane, which issues netlink and nftables requests. Each
  may fail and leave the call half done; the daemon remembers what it must repeat.
- After a failed probe its goroutine looks the provider's name up again and repoints the
  upstream's device, under `d.mu`.
- The PID file is all the command line knows of a daemon: whoever it names gets the signal.
- The kernel outlives the process. Its rules and nftables survive a crash; its TUNs
  and the routes over them do not. Other software has rules, routes and forward
  chains on the same host.

What is hard to get right, and what correctness means here:

| Part | Hard behaviour | Correct if |
|---|---|---|
| Reconcile | steps that fail and are retried; addresses reused while the last owner is not cleaned up; a store that changes underneath | one owner per address, nothing inherited from the last owner, a clean pass really converges, revoked clients lose their tunnel |
| Reload | upstream names reused by new objects; half failed; probes still out | nothing is believed to be routed through a closed upstream, the cleanup finishes |
| Route, pins | several rules of equal priority, partial failure, retry | new flows leave through the assigned upstream, pins only to live ones |
| Setup, Teardown, crash | order of ingress, firewall and routes; leftovers; other software | fail closed, wherever a start or a stop has got to, hands off foreign rules, a clean exit leaves nothing |
| Tracker, policy | thresholds that change during a streak; ties and order | documented hysteresis; deterministic, sticky choice of the best tier |
| Packets during a call | connections that run between two netlink requests of `Route` | an open connection keeps its upstream; an admitted client always has a rule |
| Process and signals | SIGHUP before, during and after the daemon's life; crashes; PID files of other processes | nudges find the daemon and reach a `Reconcile`; SIGTERM always ends it |
| Upstream loading | limits known only after DNS; sums of sizes; providers that move; refused requests | no datagram is too long; the device follows its provider |
| Bound socket | reopened under receivers and senders that are still inside a call | no receiver or batch changes sockets; `Close` never waits for a write |
| Store, identity | processes that start together; deferred transactions | one identity, each migration once, no peer lost or confused |

## The modules

A definition marked *Slip* is what a plausible mistake would make of the definition
after it. No specification uses one. Substituted for it, each makes TLC find one of the
properties violated, so every property is known to notice a mistake in the code
(`PROJECT.json`, "mutants"). Type invariants are not run on their own: `TypeOK` of the daemon, of `Traffic`,
`Upstream`, `Health` and `Store` are conjuncts of their `IInv`.

### Tracker, Health

`Tracker` holds the operators of `tracker.go`: `Observe` and `SetThresholds` on a
record. The code's counters are unbounded integers that are only compared with
thresholds, so the model saturates them at `Cap`, the largest threshold. `Health`
runs one tracker next to a history of the last `MaxLog` results that the tracker
never sees; both of its properties speak of the history. The saturation would show there.

### Policy, PolicyLoop

`Policy` says what `Select` may return as a set, `Selectable`: the current upstream if it
is among the healthy ones of the best tier, otherwise any of these, as the latencies
that break the tie are arbitrary. `Daemon` uses it. `PolicyLoop` has the code's loop
(tiers by scanning the Prefer list, candidates, the minimum by latency and name) and
checks, in every order the configuration may have, that it computes one of the choices.

### Dataplane

The six calls on the kernel, each as the step where all requests succeed (`Route`) and
the union of what is left when one fails (`RouteFails`). State: `tables` (`d.tables`),
`alive` (`d.alive`), `allowed` (`d.allowed` and the set `authorized_peers`, which change in one
transaction), `rules` (per address, the priority-5000 rules in kernel order: the first
decides new flows), `pins` (priority-3000 rules, distinguished by mark), `fwUps` (the
firewall's upstream sets). A table is identified with its upstream.

### Daemon, DaemonProperties

`Daemon` composes `Dataplane`, `Policy` and `Tracker`. `phase` says what the holder of
`d.mu` is doing; a critical section is a sequence of steps, one per peer or
upstream, so every point between two dataplane calls is a state where invariants are
checked and where the store, the signal and the answers of probes may change.

| Code | Model |
|---|---|
| `d.cfg`, `d.ups`, `d.assignments`, `d.unroutePending`, `d.devicePeers`, `d.aliveFailed` | variables of these names |
| the device's AllowedIPs | `wg`: adding an address to a key takes it from the other |
| `probeAll`: start, a goroutine's answer, `wg.Wait` | `ProbeStart`, `ProbeDone`, `StaleProbeDone`, `RoundOver` |
| an object a goroutine captured and `Reload` replaced | `stale` |
| `Reconcile`: list, revoke loop, `held`, add and route loop | `ReconcileBegin`, `Revoke`, `RevokeEnd`, `Sync`, `ReconcileEnd` |
| the cases of `route` | `SyncNoProfile`, `SyncCleanup`, `SyncBlock`, `SyncKeep`, `SyncMove` |
| `Reload`: loop over the configuration, `dropUpstream`, `SetUpstreams`, health | `ReloadKeep`, `DropBegin`, `DropPeer`, `DropEnd`, `ReloadOpen`, `ReloadApply`, `ReloadAlive`, `ReloadEnd` |
| `handleHUP` | `ReloadBegin`, `ReloadRejected`, then `Reconcile` as goroutine `hup` |
| `user add`, `user rm`, the nudge | `StoreAdd`, `StoreDelete`, `Signal` |

Three variables are observations that no guard reads: `outdated` (addresses whose assignment
was made to an object that has been closed since), `torn` (addresses whose rules a failed `Route`
has changed and nothing has put right since) and `fresh` (upstreams that a `Reload` has opened and whose
health has not been applied since). Several things are wider than in the code: `StoreAdd` takes any free address, loops
handle peers and upstreams in any order (Go's maps do; the configuration's order is
one of them), latencies are arbitrary. `AddPeer` that fails changes nothing.

### Gateway

The abstract contract of the daemon: an address has a tenant and an exit; clients come and go,
upstreams become healthy or ill and profiles change with any step; the gateway may close an exit whenever it likes, but may
only open one for a tenant, through a healthy upstream its profile names, and may hand an address on only
once nothing of it is open. `DaemonProperties` instantiates it twice:

- `Reported` reads the daemon's own records: the tenant is `wg`, the exit the assignment that `Status` reports
  (`ReportedExit`).
  `ReportsAGateway` is the refinement, checked with every kind of failure (`faults`) and
  proved for all constants (`DaemonProofs`).
- `Actual` reads the kernel: the exit is the first rule's table if the firewall admits the address and
  knows the upstream. `ActsAsAGateway` is checked where `Route` and `SetUpstreams` do not fail
  half-way (`pins`), and proved for all constants under that condition; where they do, the code departs from it (`MCretry.cfg`, `MCclosed.cfg`).

### Traffic

`Dataplane` has `Route` in one step. `Traffic` has its requests one by one (`Unpin`, `Pin`, `AddRule`, `DeleteOld`,
`Authorize`, with `RouteFailed` at each), and between any two of them flows open, continue and end: the mark is
restored, the kernel takes the pin rule of that mark or the first plain rule, the forward chain admits or drops. What
conntrack and masquerading do is external. `CallsAreAtomic` shows
that the steps add up to the atomic outcomes `Dataplane` lists, so `Daemon` may use those.

### Serve

`lotsman serve` as a process: main goroutine, `handleHUP` with its one-place channel, `publishStatus`, `d.mu` between
them, the PID and the status file, `user add/rm` with its nudge, SIGTERM, crashes, restarts and, with `Overlap`, two processes at once. A critical section of the daemon
is one step here: the order in which goroutines get it is the subject. `SetUp` keeps any of the rules an earlier process
left, since `removeLeftovers` keeps those in a table that holds somebody else's route. `unseen`, `asked` and `ended` are observations.

### Upstream

One upstream from its provider file to the datagrams it sends: the checks of `awgconf.Parse`, name resolution, the
checks of `LoadUpstream` for the family it resolved to, tag by tag for `I1` to `I5`; then the sender (external,
as the comments in `wire.go` and `config.go` describe it) next to a provider that moves, its DNS record, failed probes, and
`RefreshEndpoint` in its two halves, each of which may fail. `MCUpstream` has files at and around every bound.

### AddressBind

`bind.go` step by step: `Open` and `Close` under `b.mu`, the receive function of each `Open` with its own socket,
`Send` which takes the socket under the mutex and writes after releasing it. The AmneziaWG device that calls them is external: it opens and closes one after the
other, at any time.

### ClientMTU

`mtu.Client` as the loop it is, over upstreams `LoadUpstream` accepts. It has no run, as it is proved for every list
(`ClientIsLargest` in `TunnelProofs`); `MCmtu.cfg` checks an instance.

### Store

Processes that open one state directory: load or create the identity, read the schema
version, back up, migrate, run one command. A statement outside a transaction is a step. A
deferred transaction reads the database as it was at its first read; its first write is
refused when anyone has committed since. A crash needs no action: a process
that is killed is one that takes no more steps, and nothing it has not committed counts.

### Lifecycle

`serve` from start to stop over a kernel that outlives it: `Daemon.start`, `Daemon.stop`,
`Setup` and `Teardown`, one step per change of kernel state, each of which may fail,
with `Crash` between any two, and other software that adds and removes routes and
rules. `AddPeer` and `RoutePeer` stand for what reconciling does meanwhile: while the daemon runs and, as handleHUP
may find `d.mu` free there, between a start that has failed and `stop` (label `failed`; no upstream has answered a probe
by then, so nobody is routed). `served` is an observation: the instances whose start has succeeded. What is assumed of other
software is in two guards: it does not put a second default route into a table that
has one, and a rule of exactly Lotsman's shape points into a table that holds its own route.
An ambiguous probe rule, which the code refuses to delete, is one of the reasons for the failing outcomes.

### DataplaneProofs, DaemonProofs, TrafficProofs, LifecycleProofs, ServeProofs, TunnelProofs, HealthProofs, StoreProofs, MCDaemon, MCPolicy, MCTraffic, MCUpstream, MCMTU

The proofs, and the constants of the instances TLC checks.

## The runs

| Run | Configuration | Question | Result |
|---|---|---|---|
| `health` | `Health.cfg` | hysteresis under changing thresholds | holds |
| `policy` | `MCPolicy.cfg` | the loop computes the best tier, sticks, breaks ties by latency, then name | holds |
| `faults` | `MCfaults.cfg` | records and kernel agree, and the daemon's records are a gateway's, through any two failures | holds |
| `pins` | `MCpins.cfg` | the kernel acts as a gateway; dead upstreams lose their pins; a client that moves is served again and again | holds |
| `revoke` | `MCrevoke.cfg` | the inductive invariant; revocation and cleanup finish; a client with a healthy upstream that has a table is served again and again | holds |
| `store` | `Store.cfg` | identity, schema, peers with three processes | holds |
| `lifecycle` | `Lifecycle.cfg` | fail closed but after a failed start, foreign rules kept, clean exit | holds |
| `traffic` | `MCtraffic.cfg` | open connections keep their upstream between any two requests; atomic calls are what the requests add up to | holds |
| `serve` | `Serve.cfg` | nudges find the daemon and reach a `Reconcile`; SIGTERM ends the process | holds |
| `bind` | `AddressBind.cfg` | the socket is reopened under receivers and senders without a mix-up or a wait | holds |
| `upstream` | `MCupstream.cfg` | datagrams fit; the device follows its provider | holds |
| `secondinstance` | `SecondInstance.cfg` | fail closed with two processes | violated |

The other `.cfg` files show single disagreements between code and documentation;
[below](#where-the-code-and-its-documentation-disagree) each is named with its property.

Bounds, and why they are enough:

- **Failures.** `MaxFaults` bounds how many calls fail in a behaviour, `FaultKinds` which. Two
  failures of all seven kinds reach every pair of a half-done step and a failing retry
  (`faults`). The liveness runs allow one: in `pins` of the four kinds other than `Route`, `SetUpstreams` and
  listing the peers, in `revoke` of `Unroute`, `Route`, `SetUpstreams` and `RemovePeer`.
  `ActsAsAGateway` and `EgressIsAssigned` hold as long as `Route` and `SetUpstreams` do not fail half-way (`pins`; the proofs)
  and do not hold when they may (`MCclosed.cfg`, `MCretry.cfg`).
- **Peers and addresses.** Two keys on one address (one key in `pins`, which is about upstreams): every conflict is about one
  address and two owners, the old and the new. Keys are generated once (`usedKeys`), so a behaviour has finitely
  many clients; addresses are reused without bound. Keys and addresses are symmetric, and the
  symmetry is used only in runs without liveness properties.
- **Upstreams.** Two: a move needs an old and a new one. `revoke` has one, `b`, as its properties
  are about peers; reloads add, replace and remove it. Configurations: `Both`; `Replaced`, where the file of `b` has changed; `Less`,
  without `b` and without profile `x`; `Without`, without `b` but with its profile. Profile `x` prefers `a`, then `b`.
- **Thresholds.** `Cap = 1` in the daemon: its properties depend on when a tracker changes,
  not on how long its streaks are. `Health` has `Cap = 3` and remembers five results, more than the longest
  streak, so that an older result can lie before it.
- **Policy.** Three upstreams that share a geo tag or a provider tag pairwise, two latencies (a tie and
  a difference), Prefer lists up to length two, every order of the configuration.
- **Store.** Three processes (two that race and one that comes after), two addresses, two devices. The
  checks for deadlock are off: processes finish.
- **Lifecycle.** One instance starts, stops, fails and crashes without bound; two
  upstreams, two tables, so that a leftover or foreign route leaves a table short. With two
  instances one upstream and one table are enough for the finding.
- **Traffic.** Three upstreams, so that a client can move on before the flows of its first upstream have ended, two flows of one client,
  two failures. Rules and pins of different addresses never meet in the code. Upstreams and flows are symmetric.
- **Serve.** Two processes, one after the other (`Overlap` is `FALSE`), started, stopped and killed without bound; one key: the
  properties are about whether an edit is seen, not which.
- **AddressBind.** Three sockets, so that one that was open twice ago still has a receiver; batches of two, the fewest that can be split; a
  backlog of one, so that a packet can wait. A bounded number of sockets bounds the number of `Open` calls.
- **Upstream.** Two I strings instead of five, each of every shape (none, fixed, negative, malformed, at, below and above either limit); junk,
  padding and MTU one below, at and above each bound; two IPv4 addresses and one IPv6 address; one failure. The checks are sums
  and comparisons with constants, so only files at a bound can tell a wrong check from a right one.

What the properties say is stated above each of them. The ones worth arguing about:
`ReportsAGateway` and `ActsAsAGateway` (every intermediate state of every retry still means one tenant and at most one permitted
exit per address), `FlowsStick` (whatever request `Route` has reached or failed at, the next packet of an open connection finds its pin or its
rule), `ServedWhileHealthy` (not starved by a contended address, a failing call or one healthy upstream after another; `pins` has the
moves, `revoke` the contended address and upstreams without a table, which the property excepts and `ServedRegardless` does not),
`CleanReconcileConverges` (a `Reconcile` that returns no error has really made the device, the
records, the firewall and the one rule of each address those of the store and the current health; so skipping a held address is
never silent; excepted are the rules of `torn` addresses, where `MCretry.cfg` shows what a repeated `Route` leaves), `ReplacedIsPending` (a conjunct of `IInv`) and `SettledIsAdmitted` (the daemon may trust its
assignments exactly when no cleanup is pending), `PinsAreAliveOrRetried` (in every state, except for a `fresh` upstream: in the middle of a
`Reload`, and after a failed `SetUpstreams` until a probe of it has been answered, see `MCpinned.cfg`), `AdmittedAsCached`
(`authorize` skips a request its cache says is unnecessary, which is only right while the cache is the kernel),
`FailClosed` (whatever a start, a stop or an earlier crash has left half done; excepted is the time from a failed start until `stop` has cut ingress,
where `AlwaysClosed` does not hold, `FailedStart.cfg`), `CleanExit`, `ShutdownFinishes` (nobody keeps `d.mu` from `stop`) and `ExistsIsTrue`.

## Fairness

`FairSpec` (runs `pins` and `revoke`) assumes:

- *weak* for `HolderStep`: a goroutine that holds `d.mu` runs on. Each of its
  steps ends, as netlink, nftables and the device answer or fail. An outcome is never
  required to be success; failures end because the budget does.
- *weak* for `RoundOver`: `wg.Wait` returns.
- *strong* for `ProbeStart`, for a probe's answer (`ProbeDone`, `StaleProbeDone`) and for the run loop's
  `ReconcileBegin`: they need `d.mu`, which is free again and again but not for good.
  `sync.Mutex` hands itself to a waiter that has starved for a millisecond, so a waiter that finds it free infinitely
  often gets it. A probe has a timeout, the loop's timer fires.

Nothing is assumed of the environment: no signal has to arrive (a nudge only makes the
daemon faster, as `nudgeDaemon`'s comment says), no probe has to succeed, nobody has to edit the store.
`ServedWhileHealthy` has as hypotheses, not as fairness, that the client stays in the store, and that its profile always has a healthy upstream, not always the same, and these have tables.

- `Serve` (run `serve`): *weak* for what the main goroutine does under the mutex and on its way out, for the select that takes a signal and for the end of
  a `Reconcile` of `handleHUP`; *strong* for the steps in which either goroutine waits for `d.mu` (a `sync.Mutex` starves no waiter), and for the select of the run loop, which
  picks among what is ready at random and so does not pass over a cancelled context for ever. No tick is assumed, so `NudgeIsServed` is
  the nudge's doing, and no start.
- `Upstream` (run `upstream`): *weak* for a failing probe while the provider is elsewhere and for the two halves of `RefreshEndpoint`; rounds of
  probes go on, lookups end. Failures end as the budget does.
- `AddressBind` (run `bind`): *weak* for receivers and for a goroutine that holds `b.mu`, *strong* for the device's turn to lock it. No
  write has to end, which is what `CloseReturns` is about.

## The proofs

`DaemonProofs` proves, for all sets of upstreams, addresses, keys, profiles, configurations, any `Cap` and any number and
kind of failures:

| Theorem | States |
|---|---|
| `TypeCorrect` | `Spec => []TypeOK` |
| `Invariant` | `Spec => []IInv` |
| `OneOwner` | `Spec => []OneOwnerPerAddress` |
| `TunnelKept` | `Spec => []StoredPeerKeepsItsTunnel` |
| `NothingOutlives` | `Spec => []NothingOutlivesItsPeer` |
| `AdmissionFollowsAssignment` | `Spec => [](AdmittedIsAssigned /\ SettledIsAdmitted)` |
| `ReplacedPending` | `Spec => []ReplacedIsPending` |
| `PinsRetried` | `Spec => []PinsAreAliveOrRetried` |
| `CleanMeansConverged` | `Spec => []CleanReconcileConverges` |
| `DaemonIsAGateway` | `Spec => ReportsAGateway` |
| `EgressFollowsAssignment` | `Spec => []EgressIsAssigned`, if `"route"` is not among `FaultKinds` |
| `KernelIsAGateway` | `Spec => ActsAsAGateway`, if neither `"route"` nor `"reload"` is |
| `EgressStaysOpen` | `Spec => []EgressIsOpen`, under the same condition |

The conditions name the two calls that may not fail half-way, every other one may; `MCretry.cfg` and `MCclosed.cfg` show that they
cannot be dropped.

`LifecycleProofs` proves, for all sets of upstreams, peers and tables, all other software on the host and any number of starts, failures and crashes:

| Theorem | States | Instances |
|---|---|---|
| `TypeCorrect` | `Spec => []TypeOK` | any number |
| `ForeignIsKept` | `Spec => ForeignKept` | any number |
| `NeverOpen` | `Spec => []FailClosed` | one |
| `CacheIsTrue` | `Spec => []AdmittedAsCached` | one |
| `TablesStayOwn` | `Spec => []TablesAreOwn` | one |
| `ExitIsClean` | `Spec => CleanExit` | one |

One instance (`Alone`) is one process at a time on the host, restarted as often as one likes; run `secondinstance` shows what a second one
beside it does to `FailClosed`. `ServeProofs` proves `TypeCorrect` for any processes and, where they do not overlap (`Overlap = FALSE`),
`PIDIsOwn == Spec => []NudgeFindsDaemon`; `SecondPID.cfg` shows that it needs the condition.

`TunnelProofs` has three parts. `DatagramsAlwaysFit == Spec => []DatagramsFit` holds of `Upstream` for every set of provider files with up to 127 I strings of any
tags, all addresses and any number of refreshes and failures. `ClientIsLargest` holds of `ClientMTU`, an instance with variables of its own: for every list of accepted upstreams the
loop ends with the largest packet that passes all of them, and a TUN can have it. `LoadedIsAccepted` connects the two: an upstream
that is up is one of the accepted ones, so what `ClientIsLargest` assumes is what `LoadUpstream` checks.
`BatchesStayTogether`, `ReceiversStayOff` and `BindInvariant` hold of `AddressBind`: buffers of one `Send` leave together, receivers
keep to their sockets, and the kernel has at most one socket of the bind open, with a receiver that reads it. `TrafficProofs` proves
`ConnectionsKeepTheirUpstream == Spec => []FlowsStick`, `RulesNeverVanish == Spec => MakeBeforeBreak` and the refinement
`RequestsImplementCalls == Spec => CallsAreAtomic` for all sets of upstreams, addresses and connections and any number of failures. `HealthProofs` proves
`StreaksDecide == Spec => []StreakDecides` and `MovesNeedStreaks == Spec => MovesOnlyOnStreak` for every cap and every sequence of results and
reloads. `StoreProofs` proves `OneIdentity`, `UpgradesHaveBackups`, `NoOrphans`, `ErrExistsIsTrue` and `PeersAreKept`: the five properties of run
`store`, for any number of processes, users, devices, profiles and addresses.

Assumptions: `CapAssumption` (`Cap` is a positive number) and `DaemonAssumption` (`None`
differs from names, keys, sources and records; the configurations have the shape `config.Validate`
admits; `MaxFaults` is a number); TLC evaluates both in every run of the daemon. `TrafficAssumption` (every connection has a
source address, `None` is no upstream and no address), evaluated in run `traffic`;
`LogAssumption` (the history is longer than any threshold) in run `health`; `StoreAssumption` (addresses are ordered, the first release's key is no process's,
`None` is nothing else) in run `store`. `UpstreamAssumption` (the fields of a
file are numbers as their Go types admit, the families are disjoint), which TLC evaluates in run `upstream`;
`LifecycleAssumption` in run `lifecycle`. The theorems about `AddressBind` assume only `BindAssumption`, which run `bind` evaluates: `Nil` is no socket and no
sender, `Batch` and `Backlog` are positive numbers.

The inductive invariant is `IInv == TypeOK /\ PeerInv /\ AddressInv`:

- `PeerInv` is about who owns an address. `OneOwnerPerAddress` is not inductive alone: `SyncAdd` adds a peer from a
  list read earlier, so one needs that the list has one peer per address and per key
  (`AddressesUnique`, `KeysIdentify`), that whoever is on the device and not in that list is held
  (`LoopsInBounds`), and that `Revoke` only takes keys that left the store, which never
  come back (`usedKeys` in `KeysIdentify`).
- `AddressInv` is about one address at a time. `DropInBounds` says which addresses of an upstream that is being
  closed are still to be unrouted, from which `ReplacedIsPending` follows when `DropEnd` closes it. `SettledIsAdmitted`
  depends on `ReplacedIsPending` through the names that `Route` accepts, and `NothingOutlivesItsPeer`
  on the record staying until device and routes are both cleaned up.

`PinsRetried` is inductive with `TypeOK` alone, thanks to `fresh`: a `Reload` that replaces an upstream makes `DropEnd` forget the retry mark of the
old object while its pins may still be there, and from then on the new object is excused until its own health is applied.

`CleanMeansConverged` needs to know what a `Reconcile` without an error has done so far (`CleanInv`): in the first loop every peer on the device is
listed or still to be revoked; in the second every listed peer is settled or still to do. A step that settles nobody must be shown to be impossible: `SyncHeld` skips
its peer in silence, but without an error a held address belongs to a listed peer, which is then the same one and known.
`LoopServed` adds that a listed peer on the device has its address. That the rules follow is `RulesFollow`, below, for all addresses that are not `torn`: a failed
`Route` is the only step that leaves an address with more rules than one.

`DataplaneProofs` has one lemma per dataplane call: what it does to the address it is given, that
it leaves all others alone, and that a failing call only shrinks what was there. The daemon's
proof never looks into a call again. `AddressSplit` restates
`AddressInv` as a predicate of one address, so an action that works on one needs a proof for that one and a frame
lemma for the rest. There is one step per action under each of the groups `Environment`, `Probes`,
`Reconcile` and `Reload`. TLC checks `IInv` itself in run `revoke`.

`DaemonIsAGateway` shows that initial states map to initial states and that every step maps to a step of
`Gateway` or changes nothing it sees. Most actions only close exits (`Block`) or move inputs. The interesting ones are `SyncAdd` (`Admit` needs an address
without tenant and exit: `OneOwnerPerAddress`, and `NothingOutlivesItsPeer` for the exit), `Revoke` (`Evict` needs that the key is no client any more) and the steps
of `route` (`Forward` needs that the upstream is in service, healthy and on the menu of the tenant's profile). Beyond
`IInv` this needs `LoopServed`: no key of the list `Reconcile` works from is being revoked, and a peer both on that list and on the device
has its address. It is inductive relative to `IInv`.

`KernelIsAGateway` is the same argument about the rules and the firewall instead of the assignments, and needs two more invariants. `RulesFollow`: an address has at most
one rule, and without a pending cleanup exactly that of its assignment. A `Route` that fails half-way breaks it, as then there are two, so it excepts the addresses that are
`torn`, of which there are none where `Route` does not fail; a failed
`Unroute` does not, since of a list of one rule it deletes all or nothing. There it implies `EgressIsAssigned`. `WayOut`: outside a reload the firewall's set has every
upstream in service, and any admitted address with a rule has its upstream there. It holds through `SetUpstreams`, which drops the rules to what it takes out of
the set, unless that fails half-way. With both, the first rule of an address appears only in the step of `route` whose upstream `Forward` permits.
TLC checked both with two failures of the five other kinds, and `RulesFollow` with a failing `SetUpstreams` as well.

Each theorem of `LifecycleProofs` about one instance has an invariant of its own, named after it at the end of `Lifecycle`; they rest on `TypeOK` only. `TypeOK` has one conjunct
that is no type: an upstream the allocation loop is through with has a table (`Allocated`), without which `RoutePeer` would put `None` into a rule. That the
lowest free number is a free number needs a least element, the lemma `Least`, from the well-foundedness of `<`.
`DeviceInv`: ingress and peers live and die with `lm0`, so at each step of `stop` that weakens the firewall there is no ingress or nobody to use it,
also after a failed start that `handleHUP` has added peers to and in the second `Teardown`, which no longer finds the device. `FirewallInv`: the set is empty when its table is new, and cache and set move together
until `stop`. `TableInv`: a table given to an upstream had no route and no rule when it was given, and from then until `stop` it has the upstream's route and only
its probe rule and rules of peers on the device. `ExitInv`: routes into upstreams need their TUNs, and as long as no error has been seen each part of `Teardown` that is done
has left nothing. TLC found no violation of the four on instances with two upstreams and one peer, and with one upstream and two peers.

The inductive invariant of `Serve` is `ServeInv`: at most one process runs; it is named in `lotsman.pid` from the write to the removal; and `handleHUP` dies with its
main goroutine.

The inductive invariant of `AddressBind` is `BindTypeOK /\ BindInv`: one socket, one reader, and per sender what it has written so far went to the socket it still
writes to.

The inductive invariant of `Traffic` is `IInv == TypeOK /\ RulesInv /\ MoveInv /\ FlowInv /\ CallInv`. `RulesInv`: an address has at most one
rule to an upstream. `Route` keeps that (it adds only when it finds none) and relies on it: when it deletes the first rule, the
head of what is left is not the same upstream again, and `SetUpstreams` leaves a first rule it keeps the first. `MoveInv`: before any rule goes,
what the old rules lead to and is alive has its pin, which is what the order "pin, add, delete" of `Route` is for. `FlowInv` gives
`FlowsStick` its induction: a connection whose address is no longer admitted or whose upstream is dead is excused for good, all others have
a pin or the first rule. `CallInv` says what the requests so far have made of the kernel `Route` was called with, and is needed for the refinement only: at the
end of a call, or where it fails, that is one of the outcomes `Dataplane` lists. The proof uses the lemmas of `DataplaneProofs` for the types.

The inductive invariant of `Health` is `IInv == TypeOK /\ Counted /\ Decided`. `Counted`: a counter of the tracker has reached `n` exactly when the
last `n` results agree, for every `n` up to `Cap`, not only for the present thresholds. That is what makes a reload harmless. `Decided`: after a
result, a counter at its threshold has decided the state.

The inductive invariant of `Store` is `IInv == TypeOK /\ IdentityAgrees /\ SchemaInv /\ LegacyInv /\ TxInv /\ RowsHaveUsers`. `TxInv` is about
snapshots: what `AddPeer`'s transaction has read (the user's row, a free address) is still so, unless the transaction is outdated and SQLite will refuse its
`INSERT`. `NoOrphans` and `ErrExistsIsTrue` rest on it. `LegacyInv`: while the first release's peers have no backup, no process is at the second migration,
which needs that tables which are not there yet have no rows (`SchemaInv`). `AddPeerRead` names the least free address by its property, so
the proof needs no fact about least elements; that one exists is a fact about numbers.

The loop invariant of `ClientMTU` (`LoopInv`) is the theorem's formula itself; its assumption `MTUAssumption` (accepted upstreams, padding as
`newIdentity` draws it) is a hypothesis of the theorem.

The inductive invariant of `Upstream` is `IInv == TypeOK /\ LoopInv /\ LoadedInv /\ SendInv /\ PeerInv`. The sender adds the
sizes of the tags of one string one by one, and they may be negative; that no intermediate sum leaves `0 .. limit` is
what `checkSignature` has found for each prefix, and the variable `totals` keeps it: `LoopInv` says which prefixes have been
summed, `LoadedInv` that all have once the strings are checked, against the limit of the address the file resolved to, and `SendInv` that the sender
is at one of these sums. `PeerInv` carries the limit through the refreshes: only a name is looked up again, and `resolveEndpoint`
only takes IPv4 addresses, so the limit checked is the limit of every later address. There is one lemma per action. TLC finds no violation of `IInv`
on the instance of run `upstream`.

Only model-checked: all liveness properties and `PolicyLoop`. Liveness under fairness and induction over data (that the loop of `Select` is right for
every length) are out of the prover's reach. Every safety invariant the passing runs check, `PolicyLoop`'s aside, is a theorem.

## Where the code and its documentation disagree

TLC violates each property below with the configuration named; the counterexample is the behaviour described. The
first is a run of the project; the others are further configurations.

| Configuration, property | Code | What happens | What is written |
|---|---|---|---|
| `SecondInstance.cfg`, `FailClosed` | `linux.go:548` | A second `serve` cannot create `lm0` and calls `stop`; its `Teardown`, which knows of no interface to disable, deletes the nftables table of the first, whose `lm0` stays up. | `ARCHITECTURE.md:24`: "User traffic must never leave via the host's own IP." |
| `MCretry.cfg`, `EgressIsAssigned` | `linux.go:430` | `Route` adds the new rule behind the old one at equal priority, then fails to delete the old one. The retry finds its own rule and returns success, with the old rule still first. | `dataplane.go:22`: "Route makes new flows from peer leave through the upstream interface with that name" |
| `MCpinned.cfg`, `NothingPinnedToUnknown` | `daemon.go:277` | A reload replaces an upstream and `SetUpstreams` fails: `Reload` returns before it has applied the health of the replaced upstream, and no retry is recorded. | `daemon.go:284`: "A replaced upstream starts unknown again; nothing may stay pinned to it." |
| `MCclosed.cfg`, `EgressIsOpen` | `daemon.go:277` | The same failure leaves a new upstream out of the firewall's set: clients are routed to it and reported as served, and their packets are dropped until the next reload. | `dataplane.go:22`, as above |
| `MCunserved.cfg`, `ServedRegardless` | `daemon.go:277` | The same failure leaves an upstream the reload brought in without a routing table, as nothing repeats `SetUpstreams`: it is healthy and preferred, every `Route` to it is refused, and the client is not served until the next reload. | `OPERATIONS.md:135`: a reload "applies the file live" |
| `FailedStart.cfg`, `AlwaysClosed` | `daemon.go:116` | A start fails after `Setup` has brought `lm0` up (`linux.go:597`) and before the firewall is there. It gives `d.mu` back, and a SIGHUP handler that has waited for it (`serve_linux.go:74`) adds the peers before `stop` has it (`daemon.go:209`). | `ARCHITECTURE.md:24`, as above |
| `MCstale.cfg`, `HealthIsApplied` | `daemon.go:363` | A probe goroutine whose upstream was replaced while it waited applies the old object's health under the same device name. | `daemon.go:67`: the kernel is stale only while `aliveFailed` has an entry |
| `MCmoveback.cfg`, `MoveKeepsFlows` | `linux.go:436` | A client moves from `a` to `b` and back. The move back deletes the pins of `a` first; until the rule of `a` is the first again, the next packet of a connection through `a` takes `b`. | `OPERATIONS.md:238`: connections through an upstream that is still alive stay pinned to it until they close |
| `Migrate.cfg`, `DevicesKept` | `store.go:138` | The schema version is read outside the migrations' transactions: two processes run the second migration, and the later pass sets the device of peers added in between back to `default`. | `store.go:30`: "PRAGMA user_version records how many have been applied." |
| `EarlyNudge.cfg`, `NudgeIsHarmless` | `serve_linux.go:62` | The PID file is written before `signal.Notify`, and `signal.Stop` precedes the end of `stop`: a nudge then kills the process. | `user.go:175`: `nudgeDaemon` "asks a running daemon to reconcile now" |
| `EarlyReconcile.cfg`, `ReconcileIsSafe` | `daemon.go:438` | A SIGHUP before `start` has the mutex reconciles with `d.down` nil, and panics if there is a peer. | `daemon.go:401`: "It is safe to call from any goroutine." |
| `LateReload.cfg`, `ExitLeavesNoRule` | `daemon.go:208` | A SIGHUP that waits for `d.mu` during `stop` reconciles afterwards, and routes known peers of a changed profile again. | `OPERATIONS.md:286`: "removes its rules, routes and nftables table on shutdown" |
| `StaleStatus.cfg`, `StatusGoesWithDaemon` | `serve_linux.go:99` | `serve` does not wait for `publishStatus`: a process may exit before it has removed the status file. | `status.go` reads the file as a running daemon's |
| `SecondPID.cfg`, `NudgeFindsDaemon` | `serve_linux.go:38` | A second `serve` overwrites the PID file and removes it when it fails. | `OPERATIONS.md:172`: the CLI nudges the running daemon |

`OPERATIONS.md:121` also says that I packet lengths and the size of padded handshake packets are not
validated; `wire.go:33` does validate them, and `Upstream` models that.

## What is not modelled

- Metrics and counters, log lines, what `show`, `list` and `status` print, client files (`client.go`): read or formatted only. (The error path of
  `SetUpstreams` in `Reload` also skips the reload counter.)
- The text conversions of `awgconf`: parsing and printing keys, ranges and files keep no state. `Upstream` starts from the numbers of a parsed file;
  files with other than one peer, or without `0.0.0.0/0` or an IPv4 address, only end the load.
- The AmneziaWG engine. Its sender is in `Upstream` as the comments describe it; that it moves a peer's endpoint to the source of an authenticated packet is
  left out, since nothing in `src/` shows when.
- Default routes and probe rules in `Dataplane`: they are in `Lifecycle`, which has no reload. The conversion of marks and the validation of names and prefixes in
  `linux.go`.
- In `Lifecycle`: a `Reload`, also one between a failed start and `stop`, and a `Reconcile` after `stop`, which finds `lm0` closed and can only leave rules behind, as a crash does (`Serve` has both).
- The time `RefreshEndpoint` spends in DNS under `d.mu`, and a client MTU that goes stale when a reload brings a narrower upstream
  (documented in `OPERATIONS.md`).
- The expressions in the nftables chains: the models have which sets exist, what they contain and what the chains decide.
- Probe I/O: every probe may succeed or time out at any time. The fake dataplane and deployment files.

## Plan

Done, in this order: Tracker, Policy, Dataplane, Daemon with its invariants and liveness, the proofs of
its core, Store with Identity, Lifecycle; then Gateway with its refinement and proof, Serve, Traffic, AddressBind, Upstream and ClientMTU
with their proofs; and the proofs about Lifecycle, Serve, AddressBind and the kernel's side of the gateway.

Next, in this order:

1. Proofs about `PolicyLoop`: that the choice is allowed and the same for every order of the map, as far as no induction over the list is needed.
2. Lifecycle with `SetUpstreams`, so that default routes move with a reload.
