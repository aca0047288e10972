----------------------------- MODULE Lifecycle -----------------------------
(***************************************************************************)
(* `lotsman serve` from start to stop, on a host whose kernel outlives it: *)
(* Daemon.start and Daemon.stop with the Setup and Teardown of             *)
(* internal/dataplane/linux, one step per change of kernel state.  Any     *)
(* step may fail, the process may be killed between any two steps (the     *)
(* kernel then closes its TUNs and drops the routes over them, and keeps   *)
(* rules and nftables), and other software has routes, rules and forward   *)
(* chains of its own.                                                      *)
(*                                                                         *)
(* One probe rule per upstream and one rule per peer and table stand for   *)
(* all rules; pins and failover are in Dataplane and Daemon.               *)
(***************************************************************************)
EXTENDS Naturals, FiniteSets

CONSTANTS Instances,    \* processes that may run `serve` on the host
          Ups, Peers,
          Tables,       \* routing table numbers, tableBase .. tableLimit - 1
          Eth,          \* an interface that is not Lotsman's
          Them,         \* a source address other software has rules for
          None

ASSUME LifecycleAssumption ==
  /\ Tables \subseteq Nat
  /\ None \notin Instances \cup Tables
  /\ Eth \notin Ups /\ Them \notin Ups \cup Peers

Rules == [kind : {"probe"}, table : Tables, who : Ups]
           \cup [kind : {"peer"}, table : Tables, who : Peers \cup {Them}]
           \cup [kind : {"other"}, table : Tables, who : {Them}]
Routes == [table : Tables, dev : Ups \cup {Eth}]   \* default routes

VARIABLES
  lm0,       \* the instance whose lm0 exists, or None
  ingress,   \* lm0's link is up
  peered,    \* peers on the device behind lm0
  tun,       \* upstream -> the instance whose TUN exists, or None
  routes, rules,
  fw,        \* the nftables table "lotsman" exists
  admitted,  \* its set authorized_peers
  opened     \* Lotsman's accept rules are in the foreign forward chains

kernel == <<lm0, ingress, peered, tun, routes, rules, fw, admitted, opened>>

VARIABLES
  pc,        \* per instance: the next step
  todo,      \* upstreams the current loop has left
  hasDown,   \* Dataplane.down is set
  tab,       \* Dataplane.tables
  allowed,   \* Dataplane.allowed
  err,       \* the current Teardown has failed somewhere
  retried,   \* it is the one after CloseDown
  served     \* observation: the instances whose start has succeeded

process == <<pc, todo, hasDown, tab, allowed, err, retried, served>>
vars == <<kernel, process>>

StartSteps == {"down", "open", "setup", "leftovers", "tables", "close", "delete", "add",
               "chains", "up"}
StopSteps == {"disable", "rules", "flush", "unchain", "drop", "closeDown", "closeUps"}

At(i, label) == pc[i] = label
Goto(i, label) == pc' = [pc EXCEPT ![i] = label]
NoTables == [u \in Ups |-> None]

Init ==
  /\ lm0 = None /\ ingress = FALSE /\ peered = {}
  /\ tun = [u \in Ups |-> None] /\ routes = {} /\ rules = {}
  /\ fw = FALSE /\ admitted = {} /\ opened = FALSE
  /\ pc = [i \in Instances |-> "off"] /\ todo = [i \in Instances |-> {}]
  /\ hasDown = [i \in Instances |-> FALSE] /\ tab = [i \in Instances |-> NoTables]
  /\ allowed = [i \in Instances |-> {}] /\ err = [i \in Instances |-> FALSE]
  /\ retried = [i \in Instances |-> FALSE] /\ served = {}

\* The process is gone and so is what it knew
Forgets(i) ==
  /\ Goto(i, "off") /\ todo' = [todo EXCEPT ![i] = {}]
  /\ hasDown' = [hasDown EXCEPT ![i] = FALSE] /\ tab' = [tab EXCEPT ![i] = NoTables]
  /\ allowed' = [allowed EXCEPT ![i] = {}] /\ err' = [err EXCEPT ![i] = FALSE]
  /\ retried' = [retried EXCEPT ![i] = FALSE] /\ served' = served \ {i}

-----------------------------------------------------------------------------
(* start                                                                   *)

Start(i) ==
  /\ At(i, "off") /\ Goto(i, "down")
  /\ UNCHANGED <<kernel, todo, hasDown, tab, allowed, err, retried, served>>

\* A start step that fails before it changes anything.  start gives the mutex
\* back and Run calls stop, which has yet to get it.
StartFails(i) ==
  /\ pc[i] \in StartSteps /\ Goto(i, "failed")
  /\ UNCHANGED <<kernel, todo, hasDown, tab, allowed, err, retried, served>>

\* newTUN("lm0"): the name may be another process's
CreateDown(i) ==
  /\ At(i, "down")
  /\ IF lm0 # None THEN Goto(i, "failed") /\ UNCHANGED <<lm0, todo>>
     ELSE lm0' = i /\ Goto(i, "open") /\ todo' = [todo EXCEPT ![i] = Ups]
  /\ UNCHANGED <<ingress, peered, tun, routes, rules, fw, admitted, opened,
                 hasDown, tab, allowed, err, retried, served>>

\* The loop over upstreams goes on, or the step after it is next
Loop(i, u, next) ==
  IF todo[i] = {u} THEN Goto(i, next) /\ todo' = [todo EXCEPT ![i] = Ups]
  ELSE todo' = [todo EXCEPT ![i] = @ \ {u}] /\ UNCHANGED pc

OpenUpstream(i, u) ==
  /\ At(i, "open") /\ u \in todo[i]
  /\ IF tun[u] # None THEN Goto(i, "failed") /\ UNCHANGED <<tun, todo>>
     ELSE tun' = [tun EXCEPT ![u] = i] /\ Loop(i, u, "setup")
  /\ UNCHANGED <<lm0, ingress, peered, routes, rules, fw, admitted, opened,
                 hasDown, tab, allowed, err, retried, served>>

-----------------------------------------------------------------------------
(* Setup                                                                   *)

\* d.down is set even when configureLink goes wrong before the link is up
ConfigureDown(i) ==
  /\ At(i, "setup")
  /\ hasDown' = [hasDown EXCEPT ![i] = TRUE]
  /\ \/ ingress' = TRUE /\ Goto(i, "leftovers")
     \/ UNCHANGED ingress /\ Goto(i, "failed")
  /\ UNCHANGED <<lm0, peered, tun, routes, rules, fw, admitted, opened,
                 todo, tab, allowed, err, retried, served>>

Ours(r) == r.kind \in {"peer", "probe"}

\* Slip: any table in the range is taken for Lotsman's
OwnedTableAny(t) == TRUE

\* Every route in the table is over an upstream interface; or there is none
OwnedTable(t) == \A r \in routes : r.table = t => r.dev \in Ups

ProbeTableMatches(r) ==
  r.kind = "probe" => \A s \in routes : s.table = r.table => s.dev = r.who

LeftRules == {r \in rules : Ours(r) /\ OwnedTable(r.table) /\ ProbeTableMatches(r)}
LeftRoutes == {r \in routes : OwnedTable(r.table)}

\* Rules first, then routes; a deletion that fails ends Setup
RemoveLeftovers(i) ==
  /\ At(i, "leftovers")
  /\ \/ \E gone \in SUBSET LeftRules \ {LeftRules} :
          rules' = rules \ gone /\ UNCHANGED routes /\ Goto(i, "failed")
     \/ rules' = rules \ LeftRules /\ routes' = routes \ LeftRoutes /\ Goto(i, "tables")
  /\ UNCHANGED <<lm0, ingress, peered, tun, fw, admitted, opened,
                 todo, hasDown, tab, allowed, err, retried, served>>

\* Slip: rules are not looked at
FreeOfRoutes(i) ==
  {t \in Tables : (\A u \in Ups : tab[i][u] # t) /\ (\A r \in routes : r.table # t)}

FreeTables(i) ==
  {t \in Tables : (\A u \in Ups : tab[i][u] # t) /\ \A r \in routes \cup rules : r.table # t}

\* allocateTable: the lowest number nothing refers to
AllocateTable(i, u) ==
  /\ At(i, "tables") /\ u \in todo[i]
  /\ \A v \in todo[i] : tab[i][v] = None
  /\ IF FreeTables(i) = {} THEN Goto(i, "failed") /\ UNCHANGED tab
     ELSE /\ tab' = [tab EXCEPT ![i][u] =
                       CHOOSE t \in FreeTables(i) : \A s \in FreeTables(i) : t <= s]
          /\ UNCHANGED pc
  /\ UNCHANGED <<kernel, todo, hasDown, allowed, err, retried, served>>

\* The default route, which the kernel refuses beside another, and the probe
\* rule, which may fail after it
AddUpstream(i, u) ==
  /\ At(i, "tables") /\ u \in todo[i] /\ tab[i][u] # None
  /\ LET route == [table |-> tab[i][u], dev |-> u]
         probe == [kind |-> "probe", table |-> tab[i][u], who |-> u]
     IN  \/ /\ \E r \in routes : r.table = tab[i][u]
            /\ Goto(i, "failed") /\ UNCHANGED <<routes, rules, todo>>
         \/ /\ \A r \in routes : r.table # tab[i][u]
            /\ routes' = routes \cup {route}
            /\ \/ rules' = rules \cup {probe} /\ Loop(i, u, "close")
               \/ UNCHANGED <<rules, todo>> /\ Goto(i, "failed")
  /\ UNCHANGED <<lm0, ingress, peered, tun, fw, admitted, opened,
                 hasDown, tab, allowed, err, retried, served>>

-----------------------------------------------------------------------------
(* installFirewall, and the devices come up                                *)

CloseForeign(i) ==
  /\ At(i, "close") /\ opened' = FALSE /\ Goto(i, "delete")
  /\ UNCHANGED <<lm0, ingress, peered, tun, routes, rules, fw, admitted,
                 todo, hasDown, tab, allowed, err, retried, served>>

\* Slip: the table of an earlier run is built upon
KeepFirewall(i) ==
  /\ At(i, "delete") /\ Goto(i, "add")
  /\ UNCHANGED <<kernel, todo, hasDown, tab, allowed, err, retried, served>>

DeleteFirewall(i) ==
  /\ At(i, "delete") /\ fw' = FALSE /\ admitted' = {} /\ Goto(i, "add")
  /\ UNCHANGED <<lm0, ingress, peered, tun, routes, rules, opened,
                 todo, hasDown, tab, allowed, err, retried, served>>

\* The empty set is only added when the table has none
AddFirewall(i) ==
  /\ At(i, "add") /\ fw' = TRUE /\ Goto(i, "chains")
  /\ allowed' = [allowed EXCEPT ![i] = {}]
  /\ UNCHANGED <<lm0, ingress, peered, tun, routes, rules, admitted, opened,
                 todo, hasDown, tab, err, retried, served>>

OpenForeign(i) ==
  /\ At(i, "chains") /\ opened' = TRUE /\ Goto(i, "up")
  /\ UNCHANGED <<lm0, ingress, peered, tun, routes, rules, fw, admitted,
                 todo, hasDown, tab, allowed, err, retried, served>>

BringUp(i) ==
  /\ At(i, "up") /\ Goto(i, "running") /\ served' = served \cup {i}
  /\ UNCHANGED <<kernel, todo, hasDown, tab, allowed, err, retried>>

-----------------------------------------------------------------------------
(* What reconciling does to the kernel, in short                           *)

\* Any goroutine that finds the mutex free: handleHUP may come between a failed
\* start and stop, when lm0 may be up.  (With no d.down it panics: Crash.)
AddPeer(i, p) ==
  /\ At(i, "running") \/ (At(i, "failed") /\ lm0 = i)
  /\ p \notin peered /\ peered' = peered \cup {p}
  /\ UNCHANGED <<lm0, ingress, tun, routes, rules, fw, admitted, opened, process>>

\* Route: the new rule, the old ones go, then authorize, which needs the table
RoutePeer(i, p, u) ==
  /\ At(i, "running") /\ p \in peered
  /\ rules' = {r \in rules : ~(r.kind = "peer" /\ r.who = p)}
                \cup {[kind |-> "peer", table |-> tab[i][u], who |-> p]}
  /\ IF fw /\ p \notin allowed[i]
     THEN admitted' = admitted \cup {p} /\ allowed' = [allowed EXCEPT ![i] = @ \cup {p}]
     ELSE UNCHANGED <<admitted, allowed>>
  /\ UNCHANGED <<lm0, ingress, peered, tun, routes, fw, opened,
                 pc, todo, hasDown, tab, err, retried, served>>

-----------------------------------------------------------------------------
(* stop and Teardown                                                       *)

\* SIGTERM
Stop(i) ==
  /\ At(i, "running") /\ Goto(i, "disable")
  /\ UNCHANGED <<kernel, todo, hasDown, tab, allowed, err, retried, served>>

\* stop gets the mutex after a failed start
StopLocks(i) ==
  /\ At(i, "failed") /\ Goto(i, "disable")
  /\ UNCHANGED <<kernel, todo, hasDown, tab, allowed, err, retried, served>>

\* Where stop goes on when Teardown returns
Returned(i) == IF retried[i] THEN "closeUps" ELSE "closeDown"
Failed(i) == err' = [err EXCEPT ![i] = TRUE]

\* Slip: ingress that stays up does not end Teardown
DisableGoesOn(i) ==
  /\ At(i, "disable") /\ Goto(i, "rules")
  /\ \/ UNCHANGED err /\ ingress' = (ingress /\ ~hasDown[i])
     \/ hasDown[i] /\ lm0 # None /\ Failed(i) /\ UNCHANGED ingress
  /\ UNCHANGED <<lm0, peered, tun, routes, rules, fw, admitted, opened,
                 todo, hasDown, tab, allowed, retried, served>>

\* Ingress goes first; while it cannot be disabled everything else stays
DisableIngress(i) ==
  /\ At(i, "disable")
  /\ \/ /\ ~hasDown[i] \/ lm0 = None
        /\ Goto(i, "rules") /\ UNCHANGED <<ingress, err>>
     \/ /\ hasDown[i] /\ lm0 # None
        /\ \/ ingress' = FALSE /\ Goto(i, "rules") /\ UNCHANGED err
           \/ UNCHANGED ingress /\ Goto(i, Returned(i)) /\ Failed(i)
  /\ UNCHANGED <<lm0, peered, tun, routes, rules, fw, admitted, opened,
                 todo, hasDown, tab, allowed, retried, served>>

OwnRules(i) ==
  {r \in rules : /\ Ours(r)
                 /\ \E u \in Ups : tab[i][u] = r.table /\ (r.kind = "probe" => r.who = u)}

\* Slip: a rule that cannot be deleted is only logged
DeleteRulesQuietly(i) ==
  /\ At(i, "rules") /\ Goto(i, "flush")
  /\ \E gone \in SUBSET OwnRules(i) : rules' = rules \ gone
  /\ UNCHANGED <<lm0, ingress, peered, tun, routes, fw, admitted, opened,
                 todo, hasDown, tab, allowed, err, retried, served>>

\* Rules that cannot be listed, or are ambiguous, end Teardown; one that cannot
\* be deleted does not
DeleteRules(i) ==
  /\ At(i, "rules")
  /\ \/ \E gone \in SUBSET OwnRules(i) :
          /\ rules' = rules \ gone /\ Goto(i, "flush")
          /\ IF gone = OwnRules(i) THEN UNCHANGED err ELSE Failed(i)
     \/ UNCHANGED rules /\ Failed(i) /\ Goto(i, Returned(i))
  /\ UNCHANGED <<lm0, ingress, peered, tun, routes, fw, admitted, opened,
                 todo, hasDown, tab, allowed, retried, served>>

FlushTables(i) ==
  /\ At(i, "flush") /\ Goto(i, "unchain")
  /\ LET own == {r \in routes : r.dev \in Ups /\ \E u \in Ups : tab[i][u] = r.table}
     IN  \E gone \in SUBSET own :
           /\ routes' = routes \ gone
           /\ IF gone = own THEN UNCHANGED err ELSE Failed(i)
  /\ UNCHANGED <<lm0, ingress, peered, tun, rules, fw, admitted, opened,
                 todo, hasDown, tab, allowed, retried, served>>

CloseForeignAgain(i) ==
  /\ At(i, "unchain") /\ Goto(i, "drop")
  /\ \/ opened' = FALSE /\ UNCHANGED err
     \/ UNCHANGED opened /\ Failed(i)
  /\ UNCHANGED <<lm0, ingress, peered, tun, routes, rules, fw, admitted,
                 todo, hasDown, tab, allowed, retried, served>>

DropFirewall(i) ==
  /\ At(i, "drop") /\ Goto(i, Returned(i))
  /\ \/ fw' = FALSE /\ admitted' = {} /\ UNCHANGED err
     \/ UNCHANGED <<fw, admitted>> /\ Failed(i)
  /\ UNCHANGED <<lm0, ingress, peered, tun, routes, rules, opened,
                 todo, hasDown, tab, allowed, retried, served>>

DownClosed(i) ==
  IF lm0 = i THEN lm0' = None /\ ingress' = FALSE /\ peered' = {}
  ELSE UNCHANGED <<lm0, ingress, peered>>

\* Closing lm0 also stops ingress, so Teardown is worth another try
CloseDown(i) ==
  /\ At(i, "closeDown") /\ DownClosed(i)
  /\ IF err[i] THEN Goto(i, "disable") ELSE Goto(i, "closeUps")
  /\ retried' = [retried EXCEPT ![i] = err[i]]
  /\ err' = [err EXCEPT ![i] = FALSE]
  /\ UNCHANGED <<tun, routes, rules, fw, admitted, opened, todo, hasDown, tab, allowed, served>>

\* A TUN takes the routes over it along
UpsClosed(i) ==
  /\ tun' = [u \in Ups |-> IF tun[u] = i THEN None ELSE tun[u]]
  /\ routes' = {r \in routes : r.dev = Eth \/ tun[r.dev] # i}

CloseUps(i) ==
  /\ At(i, "closeUps") /\ UpsClosed(i) /\ Forgets(i)
  /\ UNCHANGED <<lm0, ingress, peered, rules, fw, admitted, opened>>

Crash(i) ==
  /\ ~At(i, "off") /\ DownClosed(i) /\ UpsClosed(i) /\ Forgets(i)
  /\ UNCHANGED <<rules, fw, admitted, opened>>

-----------------------------------------------------------------------------
(* Other software: it keeps to tables that hold no other default route, and *)
(* a rule of Lotsman's shape points at a table that holds its own route     *)

AddForeignRoute(t) ==
  /\ \A r \in routes : r.table # t
  /\ routes' = routes \cup {[table |-> t, dev |-> Eth]}
  /\ UNCHANGED <<lm0, ingress, peered, tun, rules, fw, admitted, opened, process>>

AddForeignRule(t, kind) ==
  /\ [table |-> t, dev |-> Eth] \in routes
  /\ rules' = rules \cup {[kind |-> kind, table |-> t, who |-> Them]}
  /\ UNCHANGED <<lm0, ingress, peered, tun, routes, fw, admitted, opened, process>>

RemoveForeign ==
  /\ \/ \E r \in routes : r.dev = Eth /\ routes' = routes \ {r} /\ UNCHANGED rules
     \/ \E r \in rules : r.who = Them /\ rules' = rules \ {r} /\ UNCHANGED routes
  /\ UNCHANGED <<lm0, ingress, peered, tun, fw, admitted, opened, process>>

ForeignStep ==
  \/ \E t \in Tables : AddForeignRoute(t) \/ AddForeignRule(t, "peer") \/ AddForeignRule(t, "other")
  \/ RemoveForeign

-----------------------------------------------------------------------------
Lotsman(i) ==
  \/ Start(i) \/ StartFails(i) \/ CreateDown(i) \/ ConfigureDown(i) \/ RemoveLeftovers(i)
  \/ \E u \in Ups : OpenUpstream(i, u) \/ AllocateTable(i, u) \/ AddUpstream(i, u)
  \/ CloseForeign(i) \/ DeleteFirewall(i) \/ AddFirewall(i) \/ OpenForeign(i) \/ BringUp(i)
  \/ \E p \in Peers : AddPeer(i, p) \/ \E u \in Ups : RoutePeer(i, p, u)
  \/ Stop(i) \/ StopLocks(i) \/ DisableIngress(i) \/ DeleteRules(i) \/ FlushTables(i)
  \/ CloseForeignAgain(i) \/ DropFirewall(i) \/ CloseDown(i) \/ CloseUps(i)
  \/ Crash(i)

Next == (\E i \in Instances : Lotsman(i)) \/ ForeignStep

Spec == Init /\ [][Next]_vars

-----------------------------------------------------------------------------
\* Whenever a peer's packets can come in, the firewall is there to drop what
\* must not be forwarded (ARCHITECTURE.md, "Fail-closed").  It is not after a
\* failed start, if handleHUP adds the peers before stop has the mutex.
AlwaysClosed == ingress /\ peered # {} => fw

\* A start has failed, and stop has neither disabled ingress nor closed lm0
StartHasFailed(i) == i \notin served /\ pc[i] \in {"failed", "disable", "closeDown"}

\* Nowhere else: not while a daemon starts or serves, nor while it stops with any
\* step failing, nor after a crash or beside what one has left, nor after a
\* failed start once Teardown is past ingress (stop, Teardown).
FailClosed == AlwaysClosed \/ \E i \in Instances : lm0 = i /\ StartHasFailed(i)

\* While the daemon runs, the set in the kernel is the one its cache says, so
\* authorize never skips a change that is needed, whatever an earlier run that
\* crashed or failed to clean up has left in it (installFirewall, authorize).
AdmittedAsCached ==
  \A i \in Instances : At(i, "running") => admitted = allowed[i]

\* The tables of a running daemon hold nothing of an earlier run: exactly its own
\* default route, and no rule of Lotsman's but its own probe rule and rules of
\* peers it has connected (removeLeftovers, allocateTable, addDefaultRoute).
\* Rules of other software can get there between allocateTable and the route.
TablesAreOwn ==
  \A i \in Instances, u \in Ups : At(i, "running") =>
    /\ {r \in routes : r.table = tab[i][u]} = {[table |-> tab[i][u], dev |-> u]}
    /\ \A r \in rules : r.table = tab[i][u] /\ r.who # Them =>
         IF r.kind = "peer" THEN r.who \in peered ELSE r.kind = "probe" /\ r.who = u

\* A rule Lotsman must leave alone: of another shape, or in a table that holds
\* other software's route and that no instance believes to be its own
MustStay(r) ==
  r.who = Them
    /\ (Ours(r) => ~OwnedTable(r.table) /\ \A i \in Instances, u \in Ups : tab[i][u] # r.table)

\* Setup, Teardown and every failure on their way keep their hands off the
\* routes and rules of other software ("Everything else stays", removeLeftovers;
\* OPERATIONS.md: "only removes rules and routes of the exact" shape).
ForeignKept ==
  [][~ForeignStep =>
       /\ \A r \in routes : r.dev = Eth => r \in routes'
       /\ \A r \in rules : MustStay(r) => r \in rules']_vars

\* A stop whose last Teardown reports no error leaves nothing behind: no route,
\* no rule of its own in its tables, no firewall table and nothing in
\* foreign chains; one that failed before lm0 was closed has been made good
\* (stop retries, Teardown joins its errors).
CleanExit ==
  [][\A i \in Instances : CloseUps(i) /\ ~err[i] =>
       /\ {r \in OwnRules(i) : r.who # Them} = {} /\ ~fw' /\ ~opened'
       /\ \A r \in routes' : r.dev = Eth]_vars

-----------------------------------------------------------------------------
(* Strengthening.  The types hold for any number of instances; together    *)
(* with them each of the four parts below is inductive where a host runs   *)
(* one.                                                                    *)

Steps == {"off", "running", "failed"} \cup StartSteps \cup StopSteps

\* From the allocation of tables to the end of the service
Installed == {"tables", "close", "delete", "add", "chains", "up", "running"}

\* An upstream the loop is through with has a table
Allocated(i) ==
  /\ pc[i] \in {"setup", "leftovers"} => todo[i] = Ups
  /\ pc[i] = "tables" => \A u \in Ups \ todo[i] : tab[i][u] # None
  /\ pc[i] \in Installed \ {"tables"} => \A u \in Ups : tab[i][u] # None

\* Every variable has its type, and an upstream in service has a table.
TypeOK ==
  /\ lm0 \in Instances \cup {None} /\ ingress \in BOOLEAN /\ peered \subseteq Peers
  /\ tun \in [Ups -> Instances \cup {None}]
  /\ routes \subseteq Routes /\ rules \subseteq Rules
  /\ fw \in BOOLEAN /\ admitted \subseteq Peers /\ opened \in BOOLEAN
  /\ pc \in [Instances -> Steps] /\ todo \in [Instances -> SUBSET Ups]
  /\ hasDown \in [Instances -> BOOLEAN] /\ tab \in [Instances -> [Ups -> Tables \cup {None}]]
  /\ allowed \in [Instances -> SUBSET Peers]
  /\ err \in [Instances -> BOOLEAN] /\ retried \in [Instances -> BOOLEAN]
  /\ served \subseteq Instances
  /\ \A i \in Instances : Allocated(i)

\* Ingress and the peers on the device go with lm0, which a start step creates and
\* the second Teardown no longer finds
DeviceOK(i) ==
  /\ ingress => lm0 = i /\ hasDown[i]
  /\ peered # {} => lm0 = i /\ pc[i] \in {"running", "failed"} \cup StopSteps
  /\ pc[i] \in Installed \cup {"open", "setup", "leftovers"} => lm0 = i
  /\ lm0 = i => pc[i] \notin {"off", "down", "closeUps"} /\ ~retried[i]
  /\ retried[i] => pc[i] \in StopSteps
  /\ pc[i] = "running" => i \in served
  /\ pc[i] \in {"off", "failed"} \cup StartSteps => i \notin served
  /\ pc[i] \in {"rules", "flush", "unchain", "drop"} => ~ingress \/ peered = {}
  /\ pc[i] \in {"chains", "up", "running"} => fw

DeviceInv == FailClosed /\ \A i \in Instances : DeviceOK(i)

\* The set is empty when the table that holds it is new
FirewallOK(i) ==
  /\ pc[i] = "add" => admitted = {}
  /\ pc[i] \in {"chains", "up", "running"} => fw /\ admitted = allowed[i]

FirewallInv == \A i \in Instances : FirewallOK(i)

\* An upstream has a table, which holds its default route
Holds(i, u) == tab[i][u] \in Tables /\ [table |-> tab[i][u], dev |-> u] \in routes

\* Lotsman's rules in the table are the upstream's probe rule and rules of peers
OwnRule(u, r) == IF r.kind = "peer" THEN r.who \in peered ELSE r.kind = "probe" /\ r.who = u

\* No two upstreams share a table, and one that an upstream has is without rules
\* of an earlier run
TableOK(i) ==
  /\ pc[i] \in {"off", "down", "open", "setup", "leftovers"} => tab[i] = NoTables
  /\ \A u, v \in Ups : tab[i][u] = tab[i][v] => u = v \/ tab[i][u] = None
  /\ pc[i] = "tables" => \A u \in Ups \ todo[i] : Holds(i, u)
  /\ pc[i] \in Installed \ {"tables"} => \A u \in Ups : Holds(i, u)
  /\ pc[i] \in Installed =>
       \A u \in Ups, r \in rules : r.table = tab[i][u] /\ r.who # Them => OwnRule(u, r)

TableInv ==
  /\ \A r, s \in routes : r.table = s.table => r = s
  /\ \A i \in Instances : TableOK(i)

\* What a Teardown that has seen no error has done so far
ExitOK(i) ==
  /\ pc[i] = "open" => \A u \in Ups \ todo[i] : tun[u] = i
  /\ pc[i] \in Installed \cup {"setup", "leftovers"} => \A u \in Ups : tun[u] = i
  /\ ~err[i] =>
       /\ pc[i] \in {"flush", "unchain", "drop", "closeDown", "closeUps"} =>
            \A r \in OwnRules(i) : r.who = Them
       /\ pc[i] \in {"drop", "closeDown", "closeUps"} => ~opened
       /\ pc[i] \in {"closeDown", "closeUps"} => ~fw

ExitInv ==
  /\ \A r \in routes : r.dev # Eth => tun[r.dev] # None
  /\ \A i \in Instances : ExitOK(i)
=============================================================================
