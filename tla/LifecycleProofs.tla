-------------------------- MODULE LifecycleProofs --------------------------
(***************************************************************************)
(* Proofs about Lifecycle.tla for any upstreams, peers and tables, any     *)
(* software beside Lotsman, and any number of starts, failures and         *)
(* crashes.                                                                *)
(*                                                                         *)
(* What concerns other software holds however many instances run; the rest *)
(* where a host runs one, since two take each other's firewall away.       *)
(***************************************************************************)
EXTENDS Lifecycle, TLAPS, WellFoundedInduction

USE DEF kernel, process

\* One `serve` at a time and never a second beside it; it may crash, fail, stop and
\* start again as often as it likes.
Alone == \A i, j \in Instances : i = j

\* A set of numbers has a least one.
LEMMA Least ==
  ASSUME NEW T \in SUBSET Nat, T # {}
  PROVE  \E m \in T : \A n \in T : m <= n
<1> DEFINE R == OpToRel(<, Nat)
<1>1. IsWellFoundedOn(R, Nat)
  BY NatLessThanWellFounded
<1>2. \A x, y \in Nat : x < y => <<x, y>> \in R
  BY DEF OpToRel
<1> HIDE DEF R
<1>3. PICK m \in T : \A n \in T : <<n, m>> \notin R
  BY <1>1, WFMin
<1>4. ASSUME NEW n \in T PROVE m <= n
  <2>1. m \in Nat /\ n \in Nat /\ ~(n < m)
    BY <1>2, <1>3
  <2> QED
    BY <2>1
<1> QED
  BY <1>4

-----------------------------------------------------------------------------
(* Types                                                                   *)

USE DEF Goto, At, Steps, StartSteps, StopSteps, Installed

\* A host on which nothing has run has its types.
LEMMA TypeInit == Init => TypeOK
BY DEF Init, TypeOK, NoTables, Allocated

\* The loop over upstreams keeps its types.
LEMMA LoopType ==
  ASSUME TypeOK, NEW i \in Instances, NEW u \in Ups, NEW next \in Steps, Loop(i, u, next)
  PROVE  /\ pc' \in [Instances -> Steps] /\ todo' \in [Instances -> SUBSET Ups]
         /\ \A j \in Instances : j # i => pc'[j] = pc[j] /\ todo'[j] = todo[j]
         /\ \/ pc'[i] = next /\ todo[i] = {u} /\ todo'[i] = Ups
            \/ pc'[i] = pc[i] /\ todo'[i] = todo[i] \ {u}
<1>1. pc \in [Instances -> Steps] /\ todo \in [Instances -> SUBSET Ups]
  BY DEF TypeOK
<1>2. CASE todo[i] = {u}
  BY <1>1, <1>2 DEF Loop
<1>3. CASE todo[i] # {u}
  BY <1>1, <1>3 DEF Loop
<1> QED
  BY <1>2, <1>3

\* allocateTable finds the lowest number nothing refers to, if there is one.
LEMMA LowestIsFree ==
  ASSUME NEW i \in Instances, FreeTables(i) # {}
  PROVE  (CHOOSE t \in FreeTables(i) : \A s \in FreeTables(i) : t <= s) \in FreeTables(i)
<1>1. FreeTables(i) \in SUBSET Nat
  BY LifecycleAssumption DEF FreeTables
<1>2. \E t \in FreeTables(i) : \A s \in FreeTables(i) : t <= s
  BY <1>1, Least
<1> QED
  BY <1>2

\* Most steps allocate no table, and outside the loops they need none or have
\* them all.
LEMMA AllocatedFrame ==
  ASSUME TypeOK, NEW i \in Instances, NEW label \in Steps, Goto(i, label), UNCHANGED <<todo, tab>>,
         \/ label \notin Installed \cup {"setup", "leftovers"}
         \/ {label, pc[i]} \subseteq Installed \ {"tables"}
         \/ pc[i] \in {"setup", "leftovers"} /\ label \in {"leftovers", "tables"}
  PROVE  pc' \in [Instances -> Steps] /\ \A j \in Instances : Allocated(j)'
BY DEF TypeOK, Allocated

\* The steps of start that touch no upstream.
LEMMA TypeStart ==
  ASSUME TypeOK, NEW i \in Instances,
         \/ Start(i) \/ StartFails(i) \/ CreateDown(i) \/ ConfigureDown(i) \/ CloseForeign(i)
         \/ DeleteFirewall(i) \/ AddFirewall(i) \/ OpenForeign(i) \/ BringUp(i)
  PROVE  TypeOK'
<1>1. CASE Start(i) \/ StartFails(i)
  <2>1. PICK label \in {"down", "failed"} : Goto(i, label)
    BY <1>1 DEF Start, StartFails
  <2>2. UNCHANGED <<kernel, todo, hasDown, tab, allowed, err, retried, served>>
    BY <1>1 DEF Start, StartFails
  <2> QED
    BY <2>1, <2>2, AllocatedFrame DEF TypeOK
<1>2. CASE CreateDown(i)
  <2>1. CASE lm0 # None
    BY <1>2, <2>1, AllocatedFrame DEF CreateDown, TypeOK
  <2>2. CASE lm0 = None
    <3>1. /\ lm0' = i /\ Goto(i, "open") /\ todo' = [todo EXCEPT ![i] = Ups]
          /\ UNCHANGED <<ingress, peered, tun, routes, rules, fw, admitted, opened,
                         hasDown, tab, allowed, err, retried, served>>
      BY <1>2, <2>2 DEF CreateDown
    <3>2. \A j \in Instances : Allocated(j)'
      BY <3>1 DEF TypeOK, Allocated
    <3>3. todo' \in [Instances -> SUBSET Ups]
      BY <3>1 DEF TypeOK
    <3> QED
      BY <3>1, <3>2, <3>3 DEF TypeOK
  <2> QED
    BY <2>1, <2>2
<1>3. CASE ConfigureDown(i)
  BY <1>3, AllocatedFrame DEF ConfigureDown, TypeOK
<1>4. CASE CloseForeign(i) \/ DeleteFirewall(i)
  BY <1>4, AllocatedFrame DEF CloseForeign, DeleteFirewall, TypeOK
<1>5. CASE AddFirewall(i)
  BY <1>5, AllocatedFrame DEF AddFirewall, TypeOK
<1>6. CASE OpenForeign(i) \/ BringUp(i)
  BY <1>6, AllocatedFrame DEF OpenForeign, BringUp, TypeOK
<1> QED
  BY <1>1, <1>2, <1>3, <1>4, <1>5, <1>6

\* The two loops of start.
LEMMA TypeLoops ==
  ASSUME TypeOK, NEW i \in Instances, NEW u \in Ups,
         OpenUpstream(i, u) \/ AllocateTable(i, u) \/ AddUpstream(i, u)
  PROVE  TypeOK'
<1>1. CASE OpenUpstream(i, u)
  <2>1. CASE Goto(i, "failed") /\ UNCHANGED <<tun, todo>>
    BY <1>1, <2>1 DEF TypeOK, OpenUpstream, Allocated
  <2>2. CASE tun' = [tun EXCEPT ![u] = i] /\ Loop(i, u, "setup")
    <3>1. UNCHANGED <<lm0, ingress, peered, routes, rules, fw, admitted, opened,
                      hasDown, tab, allowed, err, retried, served>> /\ pc[i] = "open"
      BY <1>1 DEF OpenUpstream
    <3>2. /\ pc' \in [Instances -> Steps] /\ todo' \in [Instances -> SUBSET Ups]
          /\ \A j \in Instances : j # i => pc'[j] = pc[j] /\ todo'[j] = todo[j]
          /\ (pc'[i] = "setup" /\ todo'[i] = Ups) \/ pc'[i] = "open"
      BY <2>2, <3>1, LoopType
    <3>3. \A j \in Instances : Allocated(j)'
      BY <3>1, <3>2 DEF TypeOK, Allocated
    <3> QED
      BY <2>2, <3>1, <3>2, <3>3 DEF TypeOK
  <2> QED
    BY <1>1, <2>1, <2>2 DEF OpenUpstream
<1>2. CASE AllocateTable(i, u)
  <2>1. CASE FreeTables(i) = {}
    BY <1>2, <2>1, AllocatedFrame DEF TypeOK, AllocateTable
  <2>2. CASE FreeTables(i) # {}
    <3>1. PICK t \in FreeTables(i) : tab' = [tab EXCEPT ![i][u] = t] /\ UNCHANGED pc
      BY <1>2, <2>2, LowestIsFree DEF AllocateTable
    <3>2. t \in Tables /\ t # None
      BY LifecycleAssumption DEF FreeTables
    <3> QED
      BY <1>2, <3>1, <3>2 DEF TypeOK, AllocateTable, Allocated
  <2> QED
    BY <2>1, <2>2
<1>3. CASE AddUpstream(i, u)
  <2>1. [table |-> tab[i][u], dev |-> u] \in Routes
        /\ [kind |-> "probe", table |-> tab[i][u], who |-> u] \in Rules
    BY <1>3 DEF AddUpstream, TypeOK, Routes, Rules
  <2>2. UNCHANGED <<lm0, ingress, peered, tun, fw, admitted, opened,
                    hasDown, tab, allowed, err, retried, served>>
        /\ pc[i] = "tables" /\ tab[i][u] # None
        /\ routes' \subseteq Routes /\ rules' \subseteq Rules
    BY <1>3, <2>1 DEF AddUpstream, TypeOK
  <2>3. CASE Goto(i, "failed") /\ UNCHANGED todo
    BY <2>2, <2>3 DEF TypeOK, Allocated
  <2>4. CASE Loop(i, u, "close")
    <3>1. /\ pc' \in [Instances -> Steps] /\ todo' \in [Instances -> SUBSET Ups]
          /\ \A j \in Instances : j # i => pc'[j] = pc[j] /\ todo'[j] = todo[j]
          /\ \/ pc'[i] = "close" /\ todo[i] = {u} /\ todo'[i] = Ups
             \/ pc'[i] = pc[i] /\ todo'[i] = todo[i] \ {u}
      BY <2>4, LoopType
    <3>2. \A j \in Instances : Allocated(j)'
      BY <2>2, <3>1 DEF TypeOK, Allocated
    <3> QED
      BY <2>2, <3>1, <3>2 DEF TypeOK
  <2> QED
    BY <1>3, <2>3, <2>4 DEF AddUpstream
<1> QED
  BY <1>1, <1>2, <1>3

\* removeLeftovers only takes away.
LEMMA TypeLeftovers == ASSUME TypeOK, NEW i \in Instances, RemoveLeftovers(i) PROVE TypeOK'
<1>1. PICK label \in {"tables", "failed"} : Goto(i, label)
  BY DEF RemoveLeftovers
<1> QED
  BY <1>1, AllocatedFrame DEF TypeOK, RemoveLeftovers

\* A running daemon has a table for every upstream.
LEMMA TypeService ==
  ASSUME TypeOK, NEW i \in Instances, NEW p \in Peers,
         AddPeer(i, p) \/ \E u \in Ups : RoutePeer(i, p, u)
  PROVE  TypeOK'
<1>1. CASE AddPeer(i, p)
  BY <1>1 DEF TypeOK, Allocated, AddPeer
<1>2. ASSUME NEW u \in Ups, RoutePeer(i, p, u) PROVE TypeOK'
  <2>1. tab[i][u] \in Tables
    BY <1>2 DEF TypeOK, Allocated, RoutePeer
  <2>2. [kind |-> "peer", table |-> tab[i][u], who |-> p] \in Rules
    BY <2>1 DEF Rules
  <2>3. rules' \subseteq Rules
    BY <1>2, <2>2 DEF TypeOK, RoutePeer
  <2>4. admitted' \subseteq Peers /\ allowed' \in [Instances -> SUBSET Peers]
    BY <1>2 DEF TypeOK, RoutePeer
  <2> QED
    BY <1>2, <2>3, <2>4 DEF TypeOK, Allocated, RoutePeer
<1> QED
  BY <1>1, <1>2

\* Every step of stop.
LEMMA TypeStop ==
  ASSUME TypeOK, NEW i \in Instances,
         \/ Stop(i) \/ StopLocks(i) \/ DisableIngress(i) \/ DeleteRules(i) \/ FlushTables(i)
         \/ CloseForeignAgain(i) \/ DropFirewall(i) \/ CloseDown(i) \/ CloseUps(i) \/ Crash(i)
  PROVE  TypeOK'
<1>1. Returned(i) \in {"closeUps", "closeDown"}
  BY DEF Returned
<1>2. ASSUME \/ Stop(i) \/ StopLocks(i) \/ DisableIngress(i) \/ DeleteRules(i) \/ FlushTables(i)
             \/ CloseForeignAgain(i) \/ DropFirewall(i) \/ CloseDown(i)
      PROVE  TypeOK'
  <2>1. /\ \E label \in StopSteps : Goto(i, label)
        /\ UNCHANGED <<tun, todo, hasDown, tab, allowed, served>>
    BY <1>1, <1>2 DEF Stop, StopLocks, DisableIngress, DeleteRules, FlushTables, CloseForeignAgain,
                      DropFirewall, CloseDown
  <2>2. \A j \in Instances : Allocated(j)'
    BY <2>1 DEF TypeOK, Allocated
  <2>3. /\ lm0' \in Instances \cup {None} /\ ingress' \in BOOLEAN /\ peered' \subseteq Peers
        /\ fw' \in BOOLEAN /\ admitted' \subseteq Peers /\ opened' \in BOOLEAN
    BY <1>2 DEF TypeOK, Stop, StopLocks, DisableIngress, DeleteRules, FlushTables,
                CloseForeignAgain, DropFirewall, CloseDown, DownClosed
  <2>4. routes' \subseteq routes /\ rules' \subseteq rules
    BY <1>2 DEF Stop, StopLocks, DisableIngress, DeleteRules, FlushTables, CloseForeignAgain,
                DropFirewall, CloseDown
  <2>5. err' \in [Instances -> BOOLEAN] /\ retried' \in [Instances -> BOOLEAN]
    BY <1>2 DEF TypeOK, Stop, StopLocks, DisableIngress, DeleteRules, FlushTables,
                CloseForeignAgain, DropFirewall, CloseDown, Failed
  <2>6. pc' \in [Instances -> Steps]
    BY <2>1 DEF TypeOK
  <2>7. /\ tun' \in [Ups -> Instances \cup {None}] /\ todo' \in [Instances -> SUBSET Ups]
        /\ hasDown' \in [Instances -> BOOLEAN]
        /\ tab' \in [Instances -> [Ups -> Tables \cup {None}]]
        /\ allowed' \in [Instances -> SUBSET Peers] /\ served' \subseteq Instances
    BY <2>1 DEF TypeOK
  <2>8. routes' \subseteq Routes /\ rules' \subseteq Rules
    BY <2>4 DEF TypeOK
  <2> QED
    BY <2>2, <2>3, <2>5, <2>6, <2>7, <2>8 DEF TypeOK
<1>4. CASE CloseUps(i) \/ Crash(i)
  <2>1. /\ DownClosed(i) \/ UNCHANGED <<lm0, ingress, peered>>
        /\ UpsClosed(i) /\ Forgets(i) /\ UNCHANGED <<rules, fw, admitted, opened>>
    BY <1>4 DEF CloseUps, Crash
  <2>2. lm0' \in Instances \cup {None} /\ ingress' \in BOOLEAN /\ peered' \subseteq Peers
    BY <2>1 DEF TypeOK, DownClosed
  <2>3. tun' \in [Ups -> Instances \cup {None}] /\ routes' \subseteq Routes
    BY <2>1 DEF TypeOK, UpsClosed
  <2>4. /\ pc' \in [Instances -> Steps] /\ todo' \in [Instances -> SUBSET Ups]
        /\ hasDown' \in [Instances -> BOOLEAN]
        /\ tab' \in [Instances -> [Ups -> Tables \cup {None}]]
        /\ allowed' \in [Instances -> SUBSET Peers]
        /\ err' \in [Instances -> BOOLEAN] /\ retried' \in [Instances -> BOOLEAN]
        /\ served' \subseteq Instances
    BY <2>1 DEF TypeOK, Forgets, NoTables
  <2>5. \A j \in Instances : Allocated(j)'
    BY <2>1 DEF TypeOK, Allocated, Forgets
  <2> QED
    BY <2>1, <2>2, <2>3, <2>4, <2>5 DEF TypeOK
<1> QED
  BY <1>2, <1>4

\* Other software.
LEMMA TypeForeign == ASSUME TypeOK, ForeignStep PROVE TypeOK'
<1>1. ASSUME NEW t \in Tables, AddForeignRoute(t) PROVE TypeOK'
  BY <1>1 DEF TypeOK, Allocated, AddForeignRoute, Routes
<1>2. ASSUME NEW t \in Tables, NEW kind \in {"peer", "other"}, AddForeignRule(t, kind)
      PROVE  TypeOK'
  <2>1. [kind |-> kind, table |-> t, who |-> Them] \in Rules
    BY <1>2 DEF Rules
  <2> QED
    BY <1>2, <2>1 DEF TypeOK, Allocated, AddForeignRule
<1>3. CASE RemoveForeign
  BY <1>3 DEF TypeOK, Allocated, RemoveForeign
<1> QED
  BY <1>1, <1>2, <1>3 DEF ForeignStep

\* Every step keeps the types.
LEMMA TypeNext == TypeOK /\ [Next]_vars => TypeOK'
<1> SUFFICES ASSUME TypeOK, [Next]_vars PROVE TypeOK'
  OBVIOUS
<1>1. ASSUME NEW i \in Instances, Lotsman(i) PROVE TypeOK'
  BY <1>1, TypeStart, TypeLoops, TypeLeftovers, TypeService, TypeStop DEF Lotsman
<1>2. CASE UNCHANGED vars
  BY <1>2 DEF vars, TypeOK, Allocated
<1> QED
  BY <1>1, <1>2, TypeForeign DEF Next

\* Every variable has its type, for any number of instances.
THEOREM TypeCorrect == Spec => []TypeOK
BY TypeInit, TypeNext, PTL DEF Spec

-----------------------------------------------------------------------------
(* What is not Lotsman's                                                   *)

\* Routes and rules of other software stay, whatever fails and however many
\* instances there are.
LEMMA ForeignStays ==
  ASSUME NEW i \in Instances, Lotsman(i)
  PROVE  /\ \A r \in routes : r.dev = Eth => r \in routes'
         /\ \A r \in rules : MustStay(r) => r \in rules'
<1>1. ASSUME NEW p \in Peers, NEW u \in Ups, RoutePeer(i, p, u)
      PROVE  routes' = routes /\ \A r \in rules : MustStay(r) => r \in rules'
  BY <1>1, LifecycleAssumption DEF RoutePeer, MustStay
<1>2. CASE RemoveLeftovers(i)
  <2>1. \A r \in LeftRules : ~MustStay(r)
    BY DEF LeftRules, MustStay
  <2>2. \A r \in LeftRoutes : r.dev # Eth
    BY LifecycleAssumption DEF LeftRoutes, OwnedTable
  <2> QED
    BY <1>2, <2>1, <2>2 DEF RemoveLeftovers
<1>3. CASE DeleteRules(i)
  <2>1. \A r \in OwnRules(i) : ~MustStay(r)
    BY DEF OwnRules, MustStay
  <2> QED
    BY <1>3, <2>1 DEF DeleteRules
<1>4. CASE FlushTables(i)
  BY <1>4, LifecycleAssumption DEF FlushTables
<1>5. CASE CloseUps(i) \/ Crash(i)
  BY <1>5 DEF CloseUps, Crash, UpsClosed
<1>6. ASSUME NEW u \in Ups, OpenUpstream(i, u) \/ AllocateTable(i, u) \/ AddUpstream(i, u)
      PROVE  routes \subseteq routes' /\ rules \subseteq rules'
  BY <1>6 DEF OpenUpstream, AllocateTable, AddUpstream
<1>7. ASSUME \/ Start(i) \/ StartFails(i) \/ CreateDown(i) \/ ConfigureDown(i) \/ CloseForeign(i)
             \/ DeleteFirewall(i) \/ AddFirewall(i) \/ OpenForeign(i) \/ BringUp(i)
             \/ \E p \in Peers : AddPeer(i, p)
             \/ Stop(i) \/ StopLocks(i) \/ DisableIngress(i) \/ CloseForeignAgain(i)
             \/ DropFirewall(i) \/ CloseDown(i)
      PROVE  routes' = routes /\ rules' = rules
  BY <1>7 DEF Start, StartFails, CreateDown, ConfigureDown, CloseForeign, DeleteFirewall,
              AddFirewall, OpenForeign, BringUp, AddPeer, Stop, StopLocks, DisableIngress,
              CloseForeignAgain, DropFirewall, CloseDown
<1> QED
  BY <1>1, <1>2, <1>3, <1>4, <1>5, <1>6, <1>7 DEF Lotsman

\* No start, service or stop, of any number of instances and with any failures, takes a
\* route or a rule of other software away, unless it looks like a leftover of Lotsman
\* (removeLeftovers, cleanup).
THEOREM ForeignIsKept == Spec => ForeignKept
<1>1. [Next]_vars => [~ForeignStep =>
        /\ \A r \in routes : r.dev = Eth => r \in routes'
        /\ \A r \in rules : MustStay(r) => r \in rules']_vars
  BY ForeignStays DEF Next
<1> QED
  BY <1>1, PTL DEF Spec, ForeignKept

-----------------------------------------------------------------------------
(* One instance: ingress and protection                                    *)

\* Every instance there is.
LEMMA OnlyOne == ASSUME Alone, NEW i \in Instances PROVE \A j \in Instances : j = i
BY DEF Alone

\* start, up to the service.
LEMMA DeviceStart ==
  ASSUME Alone, TypeOK, DeviceInv, NEW i \in Instances,
         \/ Start(i) \/ StartFails(i) \/ CreateDown(i) \/ ConfigureDown(i) \/ RemoveLeftovers(i)
         \/ CloseForeign(i) \/ DeleteFirewall(i) \/ AddFirewall(i) \/ OpenForeign(i) \/ BringUp(i)
  PROVE  DeviceInv'
<1> USE DEF TypeOK, FailClosed, AlwaysClosed, StartHasFailed, DeviceOK
<1> SUFFICES FailClosed' /\ DeviceOK(i)'
  BY OnlyOne DEF DeviceInv
<1> USE DEF DeviceInv
<1>1. CASE Start(i)
  BY <1>1 DEF Start
<1>2. CASE StartFails(i)
  BY <1>2 DEF StartFails
<1>3. CASE CreateDown(i)
  BY <1>3 DEF CreateDown
<1>4. CASE ConfigureDown(i)
  BY <1>4 DEF ConfigureDown
<1>5. CASE RemoveLeftovers(i)
  BY <1>5 DEF RemoveLeftovers
<1>6. CASE CloseForeign(i)
  BY <1>6 DEF CloseForeign
<1>7. CASE DeleteFirewall(i)
  BY <1>7 DEF DeleteFirewall
<1>8. CASE AddFirewall(i)
  BY <1>8 DEF AddFirewall
<1>9. CASE OpenForeign(i) \/ BringUp(i)
  BY <1>9 DEF OpenForeign, BringUp
<1> QED
  BY <1>1, <1>2, <1>3, <1>4, <1>5, <1>6, <1>7, <1>8, <1>9

\* The loops over upstreams stay among the start steps.
LEMMA LoopSteps ==
  ASSUME TypeOK, NEW i \in Instances, NEW u \in Ups,
         OpenUpstream(i, u) \/ AllocateTable(i, u) \/ AddUpstream(i, u)
  PROVE  /\ pc' \in [Instances -> Steps]
         /\ \/ pc[i] = "open" /\ pc'[i] \in {"open", "setup", "failed"}
            \/ pc[i] = "tables" /\ pc'[i] \in {"tables", "close", "failed"}
         /\ UNCHANGED <<lm0, ingress, peered, fw, admitted, opened, hasDown, allowed, err,
                        retried, served>>
<1>1. \A next \in Steps : Loop(i, u, next) =>
        pc' \in [Instances -> Steps] /\ pc'[i] \in {next, pc[i]}
  BY LoopType DEF TypeOK
<1>2. pc' \in [Instances -> Steps] /\ pc'[i] \in {"failed", "setup", "close", pc[i]}
  BY <1>1, TypeLoops DEF OpenUpstream, AllocateTable, AddUpstream, TypeOK
<1> QED
  BY <1>1, <1>2 DEF OpenUpstream, AllocateTable, AddUpstream, TypeOK

\* The loops of start touch neither ingress nor the firewall.
LEMMA DeviceLoops ==
  ASSUME Alone, TypeOK, DeviceInv, NEW i \in Instances, NEW u \in Ups,
         OpenUpstream(i, u) \/ AllocateTable(i, u) \/ AddUpstream(i, u)
  PROVE  DeviceInv'
<1>1. FailClosed' /\ DeviceOK(i)'
  BY LoopSteps DEF DeviceInv, FailClosed, AlwaysClosed, StartHasFailed, DeviceOK
<1> QED
  BY <1>1, OnlyOne DEF DeviceInv

\* Service, stop and death: Teardown cuts ingress or closes the device first.
LEMMA DeviceStop ==
  ASSUME Alone, TypeOK, DeviceInv, NEW i \in Instances,
         \/ \E p \in Peers : AddPeer(i, p) \/ \E u \in Ups : RoutePeer(i, p, u)
         \/ Stop(i) \/ StopLocks(i) \/ DisableIngress(i) \/ DeleteRules(i) \/ FlushTables(i)
         \/ CloseForeignAgain(i) \/ DropFirewall(i) \/ CloseDown(i) \/ CloseUps(i) \/ Crash(i)
  PROVE  DeviceInv'
<1>0. lm0 \in {i, None} /\ i # None
  BY OnlyOne, LifecycleAssumption DEF TypeOK
<1> USE DEF TypeOK, FailClosed, AlwaysClosed, StartHasFailed, DeviceOK
<1> SUFFICES FailClosed' /\ DeviceOK(i)'
  BY OnlyOne DEF DeviceInv
<1> USE <1>0 DEF DeviceInv
<1>1. ASSUME NEW p \in Peers, AddPeer(i, p) \/ \E u \in Ups : RoutePeer(i, p, u)
      PROVE  FailClosed' /\ DeviceOK(i)'
  BY <1>1 DEF AddPeer, RoutePeer
<1>2. CASE Stop(i) \/ StopLocks(i)
  BY <1>2 DEF Stop, StopLocks
<1>3. CASE DisableIngress(i)
  BY <1>3 DEF DisableIngress, Returned
<1>4. CASE DeleteRules(i)
  BY <1>4 DEF DeleteRules, Returned
<1>5. CASE FlushTables(i) \/ CloseForeignAgain(i)
  BY <1>5 DEF FlushTables, CloseForeignAgain
<1>6. CASE DropFirewall(i)
  BY <1>6 DEF DropFirewall, Returned
<1>7. CASE CloseDown(i)
  BY <1>7 DEF CloseDown, DownClosed
<1>8. CASE CloseUps(i)
  BY <1>8 DEF CloseUps, Forgets
<1>9. CASE Crash(i)
  BY <1>9 DEF Crash, DownClosed, Forgets
<1> QED
  BY <1>1, <1>2, <1>3, <1>4, <1>5, <1>6, <1>7, <1>8, <1>9

\* Other software touches neither the devices nor Lotsman's firewall.
LEMMA ForeignFrame ==
  ASSUME ForeignStep
  PROVE  UNCHANGED <<lm0, ingress, peered, tun, fw, admitted, opened, process>>
BY DEF ForeignStep, AddForeignRoute, AddForeignRule, RemoveForeign

\* Every step keeps the firewall in front of the ingress.
LEMMA DeviceNext == ASSUME Alone, TypeOK, DeviceInv, [Next]_vars PROVE DeviceInv'
<1>1. ASSUME NEW i \in Instances, Lotsman(i) PROVE DeviceInv'
  BY <1>1, DeviceStart, DeviceLoops, DeviceStop DEF Lotsman
<1>2. CASE ForeignStep \/ UNCHANGED vars
  BY <1>2, ForeignFrame DEF vars, DeviceInv, FailClosed, AlwaysClosed, StartHasFailed, DeviceOK
<1> QED
  BY <1>1, <1>2 DEF Next

\* Initially there is no ingress.
LEMMA DeviceInit == Init => DeviceInv
BY LifecycleAssumption DEF Init, DeviceInv, FailClosed, AlwaysClosed, StartHasFailed, DeviceOK

\* One instance on the host: whatever step of start, service or stop fails and
\* whenever it is killed, no peer's packet comes in while the firewall is away,
\* except after a failed start, until stop has cut ingress: there handleHUP's
\* Reconcile may have added the peers (Run, stop, Teardown).
THEOREM NeverOpen == ASSUME Alone PROVE Spec => []FailClosed
<1>1. TypeOK /\ DeviceInv /\ [Next]_vars => DeviceInv'
  BY DeviceNext
<1>2. DeviceInv => FailClosed
  BY DEF DeviceInv
<1> QED
  BY <1>1, <1>2, DeviceInit, TypeCorrect, PTL DEF Spec

-----------------------------------------------------------------------------
(* One instance: the cache of admitted addresses                           *)

\* The set is new and empty when the service begins, and cache and set move together.
LEMMA FirewallNext == ASSUME Alone, TypeOK, FirewallInv, [Next]_vars PROVE FirewallInv'
<1> USE DEF FirewallInv, FirewallOK, TypeOK
<1>1. ASSUME NEW i \in Instances, Lotsman(i) PROVE FirewallInv'
  <2> SUFFICES FirewallOK(i)'
    BY OnlyOne
  <2>1. CASE \/ Start(i) \/ StartFails(i) \/ CreateDown(i) \/ ConfigureDown(i)
             \/ RemoveLeftovers(i) \/ CloseForeign(i) \/ DeleteFirewall(i)
    BY <2>1 DEF Start, StartFails, CreateDown, ConfigureDown, RemoveLeftovers, CloseForeign,
                DeleteFirewall
  <2>2. CASE AddFirewall(i) \/ OpenForeign(i) \/ BringUp(i)
    BY <2>2 DEF AddFirewall, OpenForeign, BringUp
  <2>3. ASSUME NEW u \in Ups, OpenUpstream(i, u) \/ AllocateTable(i, u) \/ AddUpstream(i, u)
        PROVE  FirewallOK(i)'
    BY <2>3, LoopSteps
  <2>4. ASSUME NEW p \in Peers, AddPeer(i, p) \/ \E u \in Ups : RoutePeer(i, p, u)
        PROVE  FirewallOK(i)'
    BY <2>4 DEF AddPeer, RoutePeer
  <2>5. CASE \/ Stop(i) \/ StopLocks(i) \/ DisableIngress(i) \/ DeleteRules(i) \/ FlushTables(i)
             \/ CloseForeignAgain(i) \/ DropFirewall(i) \/ CloseDown(i) \/ CloseUps(i) \/ Crash(i)
    <3>1. pc'[i] \in StopSteps \cup {"off"}
      BY <2>5 DEF Stop, StopLocks, DisableIngress, DeleteRules, FlushTables,
                  CloseForeignAgain, DropFirewall, CloseDown, CloseUps, Crash, Forgets, Returned
    <3> QED
      BY <3>1
  <2> QED
    BY <1>1, <2>1, <2>2, <2>3, <2>4, <2>5 DEF Lotsman
<1>2. CASE ForeignStep \/ UNCHANGED vars
  BY <1>2, ForeignFrame DEF vars
<1> QED
  BY <1>1, <1>2 DEF Next

\* The daemon's cache is the set in the kernel, whatever an earlier run has left.
THEOREM CacheIsTrue == ASSUME Alone PROVE Spec => []AdmittedAsCached
<1>1. TypeOK /\ FirewallInv /\ [Next]_vars => FirewallInv'
  BY FirewallNext
<1>2. Init => FirewallInv
  BY DEF Init, FirewallInv, FirewallOK
<1>3. FirewallInv => AdmittedAsCached
  BY DEF FirewallInv, FirewallOK, AdmittedAsCached
<1> QED
  BY <1>1, <1>2, <1>3, TypeCorrect, PTL DEF Spec

-----------------------------------------------------------------------------
(* One instance: routes and rules in Lotsman's tables                      *)

\* Steps that only take routes and rules away, and keep the upstreams' routes.
LEMMA TableFrame ==
  ASSUME TypeOK, TableInv, NEW i \in Instances, routes' \subseteq routes, rules' \subseteq rules,
         \A r \in routes : r.dev # Eth => r \in routes', UNCHANGED <<peered, tab, todo>>,
         pc'[i] = pc[i]
  PROVE  TableOK(i)'
<1>1. \A u \in Ups : [table |-> tab[i][u], dev |-> u].dev # Eth
  BY LifecycleAssumption
<1>2. \A u \in Ups : Holds(i, u) => Holds(i, u)'
  BY <1>1 DEF Holds
<1> QED
  BY <1>2 DEF TableInv, TableOK, OwnRule

\* Once stop has begun the tables are no longer Lotsman's to rely on.
LEMMA TableStops ==
  ASSUME TypeOK, TableInv, NEW i \in Instances, pc'[i] \in StopSteps \cup {"failed"},
         UNCHANGED tab
  PROVE  TableOK(i)'
BY DEF TableInv, TableOK

\* start takes away: removeLeftovers clears what earlier runs left in every table it uses.
LEMMA TableStart ==
  ASSUME Alone, TypeOK, TableInv, NEW i \in Instances,
         \/ Start(i) \/ StartFails(i) \/ CreateDown(i) \/ ConfigureDown(i) \/ RemoveLeftovers(i)
         \/ CloseForeign(i) \/ DeleteFirewall(i) \/ AddFirewall(i) \/ OpenForeign(i) \/ BringUp(i)
  PROVE  TableInv'
<1>1. routes' \subseteq routes /\ rules' \subseteq rules /\ UNCHANGED <<peered, tab>>
  BY DEF Start, StartFails, CreateDown, ConfigureDown, RemoveLeftovers,
         CloseForeign, DeleteFirewall, AddFirewall, OpenForeign, BringUp
<1>2. \A r, s \in routes' : r.table = s.table => r = s
  BY <1>1 DEF TableInv
<1> SUFFICES TableOK(i)'
  BY <1>2, OnlyOne DEF TableInv
<1>3. CASE pc'[i] = "failed"
  BY <1>1, <1>3, TableStops
<1>4. CASE Start(i) \/ CreateDown(i) \/ ConfigureDown(i)
  <2>1. pc'[i] \in {"down", "open", "leftovers", "failed"} /\ tab[i] = NoTables
    BY <1>4 DEF Start, CreateDown, ConfigureDown, TypeOK, TableInv, TableOK
  <2> QED
    BY <1>1, <1>3, <2>1 DEF TableOK, NoTables
<1>5. CASE RemoveLeftovers(i)
  <2>1. pc'[i] \in {"tables", "failed"} /\ tab[i] = NoTables /\ todo'[i] = Ups
    BY <1>5 DEF RemoveLeftovers, TypeOK, Allocated, TableInv, TableOK
  <2>2. \A r \in rules', u \in Ups : r.table # tab'[i][u]
    BY <1>1, <2>1, LifecycleAssumption DEF NoTables, TypeOK, Rules
  <2> QED
    BY <1>1, <1>3, <2>1, <2>2 DEF TableOK, NoTables
<1>6. CASE CloseForeign(i) \/ DeleteFirewall(i) \/ AddFirewall(i) \/ OpenForeign(i) \/ BringUp(i)
  <2>1. {pc[i], pc'[i]} \subseteq Installed \ {"tables"} /\ UNCHANGED <<routes, rules, todo>>
    BY <1>6 DEF CloseForeign, DeleteFirewall, AddFirewall, OpenForeign, BringUp, TypeOK
  <2> QED
    BY <1>1, <2>1 DEF TableInv, TableOK, Holds, OwnRule
<1>7. StartFails(i) => pc'[i] = "failed"
  BY DEF StartFails, TypeOK
<1> QED
  BY <1>3, <1>4, <1>5, <1>6, <1>7

\* A table is given to one upstream only, and only if nothing refers to it.
LEMMA TableLoops ==
  ASSUME Alone, TypeOK, TableInv, NEW i \in Instances, NEW u \in Ups,
         OpenUpstream(i, u) \/ AllocateTable(i, u) \/ AddUpstream(i, u)
  PROVE  TableInv'
<1>1. CASE OpenUpstream(i, u)
  <2>1. UNCHANGED <<routes, rules, peered, tab>>
    BY <1>1 DEF OpenUpstream
  <2>2. pc'[i] \in {"open", "setup", "failed"} /\ pc[i] = "open"
    BY <1>1, LoopSteps DEF OpenUpstream
  <2>3. TableOK(i)'
    BY <2>1, <2>2 DEF TableInv, TableOK
  <2> QED
    BY <2>1, <2>3, OnlyOne DEF TableInv
<1>2. CASE AllocateTable(i, u)
  <2>1. UNCHANGED <<routes, rules, peered, todo>> /\ pc[i] = "tables" /\ u \in todo[i]
        /\ \A v \in todo[i] : tab[i][v] = None
    BY <1>2 DEF AllocateTable
  <2>2. TableOK(i)'
    <3>1. CASE FreeTables(i) = {}
      BY <1>2, <2>1, <3>1, TableStops DEF AllocateTable, TypeOK
    <3>2. CASE FreeTables(i) # {}
      <4>1. PICK t \in FreeTables(i) : tab' = [tab EXCEPT ![i][u] = t] /\ UNCHANGED pc
        BY <1>2, <3>2, LowestIsFree DEF AllocateTable
      <4>2. /\ \A v \in Ups : tab[i][v] # t
            /\ \A r \in routes \cup rules : r.table # t
        BY DEF FreeTables
      <4>3. tab'[i] = [tab[i] EXCEPT ![u] = t] /\ tab[i] \in [Ups -> Tables \cup {None}]
        BY <4>1 DEF TypeOK
      <4>4. \A v \in Ups : tab'[i][v] = IF v = u THEN t ELSE tab[i][v]
        BY <4>3
      <4>5. \A v \in Ups \ todo[i] : v # u /\ (Holds(i, v) => Holds(i, v)')
        BY <2>1, <4>4 DEF Holds
      <4>6. \A v \in Ups, r \in rules : r.table = tab'[i][v] => v # u
        BY <4>2, <4>4
      <4> QED
        BY <2>1, <4>1, <4>2, <4>4, <4>5, <4>6 DEF TableInv, TableOK, OwnRule
    <3> QED
      BY <3>1, <3>2
  <2> QED
    BY <2>1, <2>2, OnlyOne DEF TableInv
<1>3. CASE AddUpstream(i, u)
  <2> DEFINE route == [table |-> tab[i][u], dev |-> u]
             probe == [kind |-> "probe", table |-> tab[i][u], who |-> u]
  <2>1. UNCHANGED <<peered, tab>> /\ pc[i] = "tables" /\ u \in todo[i] /\ tab[i][u] \in Tables
    BY <1>3 DEF AddUpstream, TypeOK
  <2>2. CASE UNCHANGED <<routes, rules>> /\ Goto(i, "failed")
    <3>1. TableOK(i)'
      BY <2>1, <2>2, TableStops DEF TypeOK
    <3> QED
      BY <2>2, <3>1, OnlyOne DEF TableInv
  <2>3. CASE (\A r \in routes : r.table # tab[i][u]) /\ routes' = routes \cup {route}
    <3>1. \A r, s \in routes' : r.table = s.table => r = s
      BY <2>3 DEF TableInv
    <3>2. CASE Goto(i, "failed")
      <4>1. TableOK(i)'
        BY <2>1, <3>2, TableStops DEF TypeOK
      <4> QED
        BY <3>1, <4>1, OnlyOne DEF TableInv
    <3>3. CASE rules' = rules \cup {probe} /\ Loop(i, u, "close")
      <4>1. Holds(i, u)' /\ \A v \in Ups : Holds(i, v) => Holds(i, v)'
        BY <2>1, <2>3 DEF Holds
      <4>2. \A v \in Ups, r \in rules' :
              r.table = tab'[i][v] /\ r.who # Them => OwnRule(v, r)'
        <5> SUFFICES ASSUME NEW v \in Ups, NEW r \in rules', r.table = tab'[i][v], r.who # Them
                     PROVE  OwnRule(v, r)'
          OBVIOUS
        <5>1. CASE r \in rules
          BY <2>1, <5>1 DEF TableInv, TableOK, OwnRule
        <5>2. CASE r = probe
          <6>1. v = u
            BY <2>1, <5>2, LifecycleAssumption DEF TableInv, TableOK
          <6> QED
            BY <5>2, <6>1 DEF OwnRule
        <5> QED
          BY <3>3, <5>1, <5>2
      <4>3. \/ pc'[i] = "close" /\ todo[i] = {u}
            \/ pc'[i] = pc[i] /\ todo'[i] = todo[i] \ {u}
        BY <3>3, LoopType
      <4>4. TableOK(i)'
        BY <2>1, <4>1, <4>2, <4>3 DEF TableInv, TableOK
      <4> QED
        BY <3>1, <4>4, OnlyOne DEF TableInv
    <3> QED
      BY <1>3, <2>3, <3>2, <3>3 DEF AddUpstream
  <2> QED
    BY <1>3, <2>2, <2>3 DEF AddUpstream
<1> QED
  BY <1>1, <1>2, <1>3

\* Rules of peers on the device are the only ones the service adds.
LEMMA TableService ==
  ASSUME Alone, TypeOK, TableInv, NEW i \in Instances, NEW p \in Peers,
         AddPeer(i, p) \/ \E u \in Ups : RoutePeer(i, p, u)
  PROVE  TableInv'
<1>1. CASE AddPeer(i, p)
  <2>1. UNCHANGED <<routes, rules, pc, tab, todo>> /\ peered \subseteq peered'
    BY <1>1 DEF AddPeer
  <2>2. TableOK(i)'
    BY <2>1 DEF TableInv, TableOK, Holds, OwnRule
  <2> QED
    BY <2>1, <2>2, OnlyOne DEF TableInv
<1>2. ASSUME NEW u \in Ups, RoutePeer(i, p, u) PROVE TableInv'
  <2>1. UNCHANGED <<routes, peered, pc, tab, todo>> /\ p \in peered
    BY <1>2 DEF RoutePeer
  <2>2. \A r \in rules' : r \in rules \/ (r.kind = "peer" /\ r.who \in peered)
    BY <1>2, <2>1 DEF RoutePeer
  <2>3. TableOK(i)'
    BY <2>1, <2>2 DEF TableInv, TableOK, Holds, OwnRule
  <2> QED
    BY <2>1, <2>3, OnlyOne DEF TableInv
<1> QED
  BY <1>1, <1>2

\* stop takes away.
LEMMA TableStop ==
  ASSUME Alone, TypeOK, TableInv, NEW i \in Instances,
         \/ Stop(i) \/ StopLocks(i) \/ DisableIngress(i) \/ DeleteRules(i) \/ FlushTables(i)
         \/ CloseForeignAgain(i) \/ DropFirewall(i) \/ CloseDown(i) \/ CloseUps(i) \/ Crash(i)
  PROVE  TableInv'
<1>1. routes' \subseteq routes
  BY DEF Stop, StopLocks, DisableIngress, DeleteRules, FlushTables, CloseForeignAgain, DropFirewall,
         CloseDown, CloseUps, Crash, UpsClosed
<1>2. CASE CloseUps(i) \/ Crash(i)
  <2>1. pc'[i] = "off" /\ tab'[i] = NoTables
    BY <1>2 DEF CloseUps, Crash, Forgets, TypeOK
  <2>2. TableOK(i)'
    BY <2>1 DEF TableOK, NoTables
  <2> QED
    BY <1>1, <2>2, OnlyOne DEF TableInv
<1>3. CASE \/ Stop(i) \/ StopLocks(i) \/ DisableIngress(i) \/ DeleteRules(i) \/ FlushTables(i)
           \/ CloseForeignAgain(i) \/ DropFirewall(i) \/ CloseDown(i)
  <2>1. pc'[i] \in StopSteps /\ UNCHANGED tab
    BY <1>3 DEF Stop, StopLocks, DisableIngress, DeleteRules, FlushTables,
                CloseForeignAgain, DropFirewall, CloseDown, Returned, TypeOK
  <2> QED
    BY <1>1, <2>1, TableStops, OnlyOne DEF TableInv
<1> QED
  BY <1>2, <1>3

\* Other software puts a route only where there is none, and its rules are known as such.
LEMMA TableForeign == ASSUME Alone, TypeOK, TableInv, ForeignStep PROVE TableInv'
<1>1. UNCHANGED <<peered, pc, tab, todo>>
  BY ForeignFrame
<1>2. ASSUME NEW t \in Tables, AddForeignRoute(t) PROVE TableInv'
  <2>1. \A r, s \in routes' : r.table = s.table => r = s
    BY <1>2 DEF AddForeignRoute, TableInv
  <2>2. routes \subseteq routes' /\ UNCHANGED rules
    BY <1>2 DEF AddForeignRoute
  <2> QED
    BY <1>1, <2>1, <2>2 DEF TableInv, TableOK, Holds, OwnRule
<1>3. ASSUME NEW t \in Tables, NEW kind \in {"peer", "other"}, AddForeignRule(t, kind)
      PROVE  TableInv'
  <2>1. \A r \in rules' : r \in rules \/ r.who = Them
    BY <1>3 DEF AddForeignRule
  <2>2. UNCHANGED routes
    BY <1>3 DEF AddForeignRule
  <2> QED
    BY <1>1, <2>1, <2>2 DEF TableInv, TableOK, Holds, OwnRule
<1>4. CASE RemoveForeign
  <2>1. routes' \subseteq routes /\ rules' \subseteq rules
        /\ \A r \in routes : r.dev # Eth => r \in routes'
    BY <1>4 DEF RemoveForeign
  <2>2. \A i \in Instances : TableOK(i)'
    BY <1>1, <2>1, TableFrame
  <2> QED
    BY <2>1, <2>2 DEF TableInv
<1> QED
  BY <1>2, <1>3, <1>4 DEF ForeignStep

\* Every step keeps the tables apart.
LEMMA TableNext == ASSUME Alone, TypeOK, TableInv, [Next]_vars PROVE TableInv'
<1>1. ASSUME NEW i \in Instances, Lotsman(i) PROVE TableInv'
  BY <1>1, TableStart, TableLoops, TableService, TableStop DEF Lotsman
<1>2. CASE UNCHANGED vars
  BY <1>2 DEF vars, TableInv, TableOK, Holds, OwnRule
<1> QED
  BY <1>1, <1>2, TableForeign DEF Next

\* Whatever an earlier run has left and whatever other software adds meanwhile, the
\* tables of a running daemon hold its own routes and rules.
THEOREM TablesStayOwn == ASSUME Alone PROVE Spec => []TablesAreOwn
<1>1. TypeOK /\ TableInv /\ [Next]_vars => TableInv'
  BY TableNext
<1>2. Init => TableInv
  BY DEF Init, TableInv, TableOK, NoTables
<1>3. TableInv => TablesAreOwn
  <2> SUFFICES ASSUME TableInv, NEW i \in Instances, NEW u \in Ups, At(i, "running")
               PROVE  /\ {r \in routes : r.table = tab[i][u]} = {[table |-> tab[i][u], dev |-> u]}
                      /\ \A r \in rules : r.table = tab[i][u] /\ r.who # Them => OwnRule(u, r)
    BY DEF TablesAreOwn, OwnRule
  <2>1. Holds(i, u) /\ \A r, s \in routes : r.table = s.table => r = s
    BY DEF TableInv, TableOK
  <2>2. {r \in routes : r.table = tab[i][u]} = {[table |-> tab[i][u], dev |-> u]}
    BY <2>1 DEF Holds
  <2> QED
    BY <2>2 DEF TableInv, TableOK
<1> QED
  BY <1>1, <1>2, <1>3, TypeCorrect, PTL DEF Spec

-----------------------------------------------------------------------------
(* One instance: what a clean exit leaves                                  *)

\* start puts no route into an upstream, other than by AddUpstream.
LEMMA ExitStart ==
  ASSUME Alone, TypeOK, ExitInv, NEW i \in Instances,
         \/ Start(i) \/ StartFails(i) \/ CreateDown(i) \/ ConfigureDown(i) \/ RemoveLeftovers(i)
         \/ CloseForeign(i) \/ DeleteFirewall(i) \/ AddFirewall(i) \/ OpenForeign(i) \/ BringUp(i)
  PROVE  ExitInv'
<1>1. routes' \subseteq routes /\ UNCHANGED tun
  BY DEF Start, StartFails, CreateDown, ConfigureDown, RemoveLeftovers,
         CloseForeign, DeleteFirewall, AddFirewall, OpenForeign, BringUp
<1>2. CASE Start(i) \/ StartFails(i)
  <2>1. pc'[i] \in {"down", "failed"} /\ UNCHANGED <<routes, tun>>
    BY <1>2 DEF Start, StartFails, TypeOK
  <2>2. ExitOK(i)'
    BY <2>1 DEF ExitOK
  <2> QED
    BY <2>1, <2>2, OnlyOne DEF ExitInv
<1> SUFFICES ASSUME ~Start(i), ~StartFails(i) PROVE ExitOK(i)'
  BY <1>1, <1>2, OnlyOne DEF ExitInv
<1>3. CASE CreateDown(i)
  BY <1>3 DEF CreateDown, ExitOK, TypeOK
<1>4. CASE ConfigureDown(i) \/ RemoveLeftovers(i)
  BY <1>4 DEF ConfigureDown, RemoveLeftovers, ExitInv, ExitOK, TypeOK
<1>5. CASE CloseForeign(i) \/ DeleteFirewall(i) \/ AddFirewall(i) \/ OpenForeign(i) \/ BringUp(i)
  BY <1>5 DEF CloseForeign, DeleteFirewall, AddFirewall, OpenForeign, BringUp, ExitInv, ExitOK,
              TypeOK
<1> QED
  BY <1>3, <1>4, <1>5

\* A route into an upstream is one into a TUN the daemon has opened.
LEMMA ExitLoops ==
  ASSUME Alone, TypeOK, ExitInv, NEW i \in Instances, NEW u \in Ups,
         OpenUpstream(i, u) \/ AllocateTable(i, u) \/ AddUpstream(i, u)
  PROVE  ExitInv'
<1>0. i # None
  BY LifecycleAssumption
<1>1. CASE OpenUpstream(i, u)
  <2>1. CASE Goto(i, "failed") /\ UNCHANGED <<tun, todo>>
    BY <1>1, <2>1, OnlyOne DEF OpenUpstream, ExitInv, ExitOK, TypeOK
  <2>2. CASE tun' = [tun EXCEPT ![u] = i] /\ Loop(i, u, "setup")
    <3>1. /\ pc[i] = "open" /\ UNCHANGED routes
          /\ \/ pc'[i] = "setup" /\ todo[i] = {u}
             \/ pc'[i] = pc[i] /\ todo'[i] = todo[i] \ {u}
      BY <1>1, <2>2, LoopType DEF OpenUpstream
    <3>2. \A v \in Ups : tun'[v] = IF v = u THEN i ELSE tun[v]
      BY <2>2 DEF TypeOK
    <3>3. \A r \in routes' : r.dev # Eth => tun'[r.dev] # None
      BY <1>0, <3>1, <3>2 DEF ExitInv, TypeOK, Routes
    <3>4. ExitOK(i)'
      BY <3>1, <3>2 DEF ExitInv, ExitOK
    <3> QED
      BY <3>3, <3>4, OnlyOne DEF ExitInv
  <2> QED
    BY <1>1, <2>1, <2>2 DEF OpenUpstream
<1>2. CASE AllocateTable(i, u)
  <2>1. UNCHANGED <<routes, tun>> /\ pc[i] = "tables" /\ pc'[i] \in {"tables", "failed", "close"}
    BY <1>2, LoopSteps DEF AllocateTable
  <2>2. ExitOK(i)'
    BY <2>1 DEF ExitInv, ExitOK
  <2> QED
    BY <2>1, <2>2, OnlyOne DEF ExitInv
<1>3. CASE AddUpstream(i, u)
  <2>1. /\ pc[i] = "tables" /\ pc'[i] \in {"tables", "failed", "close"} /\ UNCHANGED tun
        /\ \A r \in routes' : r \in routes \/ r.dev = u
    BY <1>3, LoopSteps DEF AddUpstream
  <2>2. ExitOK(i)'
    BY <2>1 DEF ExitInv, ExitOK
  <2>3. tun[u] = i
    BY <2>1 DEF ExitInv, ExitOK
  <2>4. \A r \in routes' : r.dev # Eth => tun'[r.dev] # None
    BY <1>0, <2>1, <2>3 DEF ExitInv
  <2> QED
    BY <2>2, <2>4, OnlyOne DEF ExitInv
<1> QED
  BY <1>1, <1>2, <1>3

\* Each part of Teardown that sees no error leaves nothing of its kind.
LEMMA ExitStop ==
  ASSUME Alone, TypeOK, ExitInv, NEW i \in Instances,
         \/ \E p \in Peers : AddPeer(i, p) \/ \E u \in Ups : RoutePeer(i, p, u)
         \/ Stop(i) \/ StopLocks(i) \/ DisableIngress(i) \/ DeleteRules(i) \/ FlushTables(i)
         \/ CloseForeignAgain(i) \/ DropFirewall(i) \/ CloseDown(i)
  PROVE  ExitInv'
<1>1. routes' \subseteq routes /\ UNCHANGED <<tun, tab>>
  BY DEF AddPeer, RoutePeer, Stop, StopLocks, DisableIngress, DeleteRules, FlushTables,
         CloseForeignAgain, DropFirewall, CloseDown
<1> SUFFICES ExitOK(i)'
  BY <1>1, OnlyOne DEF ExitInv
<1> USE DEF TypeOK, ExitInv, ExitOK
<1>2. ASSUME NEW p \in Peers, AddPeer(i, p) \/ \E u \in Ups : RoutePeer(i, p, u)
      PROVE  ExitOK(i)'
  BY <1>2 DEF AddPeer, RoutePeer
<1>3. CASE Stop(i) \/ StopLocks(i) \/ DisableIngress(i)
  BY <1>3 DEF Stop, StopLocks, DisableIngress, Returned, Failed
<1>4. CASE DeleteRules(i)
  <2>1. rules' = rules \ OwnRules(i) => \A r \in OwnRules(i)' : FALSE
    BY <1>1 DEF OwnRules
  <2> QED
    BY <1>4, <2>1 DEF DeleteRules, Returned, Failed
<1>5. CASE FlushTables(i)
  <2>1. UNCHANGED rules
    BY <1>5 DEF FlushTables
  <2>2. OwnRules(i)' = OwnRules(i)
    BY <1>1, <2>1 DEF OwnRules
  <2>3. pc[i] = "flush" /\ pc'[i] = "unchain"
    BY <1>5 DEF FlushTables
  <2>4. ~err'[i] => ~err[i]
    <3>1. err' = err \/ Failed(i)
      BY <1>5 DEF FlushTables
    <3> QED
      BY <3>1 DEF Failed
  <2> QED
    BY <2>2, <2>3, <2>4
<1>6. CASE CloseForeignAgain(i) \/ DropFirewall(i) \/ CloseDown(i)
  <2>1. UNCHANGED rules
    BY <1>6 DEF CloseForeignAgain, DropFirewall, CloseDown
  <2>2. OwnRules(i)' = OwnRules(i)
    BY <1>1, <2>1 DEF OwnRules
  <2>3. CASE CloseForeignAgain(i)
    BY <2>2, <2>3 DEF CloseForeignAgain, Failed
  <2>4. CASE DropFirewall(i)
    BY <2>2, <2>4 DEF DropFirewall, Returned, Failed
  <2>5. CASE CloseDown(i)
    BY <2>2, <2>5 DEF CloseDown
  <2> QED
    BY <1>6, <2>3, <2>4, <2>5
<1> QED
  BY <1>2, <1>3, <1>4, <1>5, <1>6

\* The process ends and takes its routes along.
LEMMA ExitEnds ==
  ASSUME Alone, TypeOK, ExitInv, NEW i \in Instances, CloseUps(i) \/ Crash(i)
  PROVE  ExitInv' /\ \A r \in routes' : r.dev = Eth
<1>1. pc'[i] = "off" /\ UpsClosed(i)
  BY DEF CloseUps, Crash, Forgets, TypeOK
<1>2. \A u \in Ups : tun[u] \in {i, None}
  BY OnlyOne DEF TypeOK
<1>3. \A r \in routes : r.dev \in Ups \cup {Eth}
  BY DEF TypeOK, Routes
<1>4. \A r \in routes' : r.dev = Eth
  BY <1>1, <1>2, <1>3 DEF UpsClosed, ExitInv
<1>5. ExitOK(i)'
  BY <1>1 DEF ExitOK
<1> QED
  BY <1>4, <1>5, OnlyOne DEF ExitInv

\* Every step keeps what a clean exit relies on.
LEMMA ExitNext == ASSUME Alone, TypeOK, ExitInv, [Next]_vars PROVE ExitInv'
<1>1. ASSUME NEW i \in Instances, Lotsman(i) PROVE ExitInv'
  BY <1>1, ExitStart, ExitLoops, ExitStop, ExitEnds DEF Lotsman
<1>2. CASE ForeignStep
  <2>0. UNCHANGED <<tun, fw, opened, pc, todo, tab, err>>
    BY <1>2, ForeignFrame
  <2>1. /\ \A r \in routes' : r \in routes \/ r.dev = Eth
        /\ \A r \in rules' : r \in rules \/ r.who = Them
    <3>1. CASE \E t \in Tables : AddForeignRoute(t)
      BY <3>1 DEF AddForeignRoute
    <3>2. ASSUME NEW t \in Tables, NEW kind, AddForeignRule(t, kind)
          PROVE  /\ \A r \in routes' : r \in routes \/ r.dev = Eth
                 /\ \A r \in rules' : r \in rules \/ r.who = Them
      BY <3>2 DEF AddForeignRule
    <3>3. CASE RemoveForeign
      BY <3>3 DEF RemoveForeign
    <3> QED
      BY <1>2, <3>1, <3>2, <3>3 DEF ForeignStep
  <2>2. \A i \in Instances : \A r \in OwnRules(i)' : r \in OwnRules(i) \/ r.who = Them
    BY <2>0, <2>1 DEF OwnRules
  <2> QED
    BY <2>0, <2>1, <2>2 DEF ExitInv, ExitOK
<1>3. CASE UNCHANGED vars
  BY <1>3 DEF vars, ExitInv, ExitOK, OwnRules
<1> QED
  BY <1>1, <1>2, <1>3 DEF Next

\* A stop that reports no error, after whatever failures before, leaves neither a
\* route nor a rule of its own nor anything in nftables.
THEOREM ExitIsClean == ASSUME Alone PROVE Spec => CleanExit
<1>1. TypeOK /\ ExitInv /\ [Next]_vars => ExitInv'
  BY ExitNext
<1>2. Init => ExitInv
  BY DEF Init, ExitInv, ExitOK
<1>3. TypeOK /\ ExitInv => \A i \in Instances : CloseUps(i) /\ ~err[i] =>
        /\ {r \in OwnRules(i) : r.who # Them} = {} /\ ~fw' /\ ~opened'
        /\ \A r \in routes' : r.dev = Eth
  BY ExitEnds DEF ExitInv, ExitOK, CloseUps
<1> QED
  BY <1>1, <1>2, <1>3, TypeCorrect, PTL DEF Spec, CleanExit
=============================================================================
