----------------------------- MODULE Dataplane -----------------------------
(***************************************************************************)
(* internal/dataplane/linux: what the daemon's calls do to the kernel.     *)
(*                                                                         *)
(* Every call is a sequence of netlink and nftables requests, any of which *)
(* may fail and end the call with an error.  Each operation is given as    *)
(* two action formulas: Xxx(...) is the run in which every request         *)
(* succeeds, XxxFails(...) is the union of the states the call can leave   *)
(* behind when one of them fails.  Daemon.tla composes them into steps.    *)
(*                                                                         *)
(* An upstream's routing table is identified with the upstream: the table  *)
(* a known interface keeps is found by name, and an allocated one starts   *)
(* without rules.  The rules of a peer at priority 5000 form a list: equal *)
(* priorities keep insertion order and the first one decides a new flow.   *)
(* Pin rules carry different marks, so they are a set.  The firewall's     *)
(* peer set and Dataplane.allowed change together, in one transaction.     *)
(***************************************************************************)
EXTENDS Naturals, Sequences

CONSTANTS Ups,      \* upstream names
          Ips       \* peer addresses

VARIABLES tables,   \* upstreams with an allocated routing table (d.tables)
          alive,    \* upstreams whose pins may stay (d.alive)
          allowed,  \* addresses the firewall admits (authorized_peers)
          rules,    \* address -> its "from <peer> lookup" rules, oldest first
          pins,     \* <<address, upstream>> pin rules
          fwUps     \* members of the firewall's upstreams set and pinmark map

dpVars == <<tables, alive, allowed, rules, pins, fwUps>>

DpTypeOK ==
  /\ tables \in SUBSET Ups
  /\ alive \in SUBSET Ups
  /\ allowed \in SUBSET Ips
  /\ rules \in [Ips -> Seq(Ups)]
  /\ pins \in SUBSET (Ips \X Ups)
  /\ fwUps \in SUBSET Ups

\* Setup on a clean host, with the given upstreams
DpInit(S) ==
  /\ tables = S /\ fwUps = S
  /\ alive = {} /\ allowed = {} /\ pins = {}
  /\ rules = [ip \in Ips |-> <<>>]

PinsOf(ip) == {pin \in pins : pin[1] = ip}
PinsTo(u) == {pin \in pins : pin[2] = u}
Elems(s) == {s[i] : i \in DOMAIN s}

\* The rules of list s that are left once those to upstreams in `gone` are
\* deleted, in their old order (a set with one element)
Survivors(s, gone) ==
  {t \in UNION {[1 .. n -> Ups] : n \in 0 .. Len(s)} :
     /\ Elems(t) = Elems(s) \ gone
     /\ \A i, j \in DOMAIN t : i < j =>
          \E k, l \in DOMAIN s : k < l /\ s[k] = t[i] /\ s[l] = t[j]}

\* Every list some deletion could make of the present ones
Sublists == UNION {Survivors(rules[ip], gone) : ip \in Ips, gone \in SUBSET Ups}

\* What a deletion that walks list s from its head can stop at
Tails(s) == {SubSeq(s, k, Len(s)) : k \in DOMAIN s}

-----------------------------------------------------------------------------
(* Unroute: revoke the address in the firewall, then delete every rule.    *)

Unroute(ip) ==
  /\ allowed' = allowed \ {ip}
  /\ pins' = pins \ PinsOf(ip)
  /\ rules' = [rules EXCEPT ![ip] = <<>>]
  /\ UNCHANGED <<tables, alive, fwUps>>

\* The revocation fails: nothing has happened yet
RevokeFails(ip) ==
  /\ ip \in allowed
  /\ UNCHANGED dpVars

\* Revoked, but listing the rules or deleting one of them fails; pins have
\* the lower priority number and go first
CleanupFails(ip) ==
  /\ allowed' = allowed \ {ip}
  /\ \/ /\ \E kept \in SUBSET PinsOf(ip) : pins' = (pins \ PinsOf(ip)) \cup kept
        /\ UNCHANGED rules
     \/ /\ pins' = pins \ PinsOf(ip)
        /\ \E tail \in Tails(rules[ip]) : rules' = [rules EXCEPT ![ip] = tail]
  /\ UNCHANGED <<tables, alive, fwUps>>

UnrouteFails(ip) == RevokeFails(ip) \/ CleanupFails(ip)

-----------------------------------------------------------------------------
(* Route: new flows of the address leave through u, open ones stay pinned. *)

Authorized(ip) == allowed \cup {ip}

\* Slip: a rule in place is taken for a peer that is admitted
AlreadyRoutedUnauthorized(ip, u) ==
  /\ u \in Elems(rules[ip])
  /\ pins' = pins \ {<<ip, u>>}
  /\ UNCHANGED <<tables, alive, allowed, rules, fwUps>>

\* The rule to u is already there: only a pin to u and the firewall change
AlreadyRouted(ip, u) ==
  /\ u \in Elems(rules[ip])
  /\ allowed' = Authorized(ip)
  /\ pins' = pins \ {<<ip, u>>}
  /\ UNCHANGED <<tables, alive, rules, fwUps>>

\* Slip: every old upstream keeps the open flows
NewPinsToAll(ip) == {<<ip, a>> : a \in Elems(rules[ip])}

\* Pins that Route leaves to the address's old upstreams that are alive
NewPins(ip) == {<<ip, a>> : a \in Elems(rules[ip]) \cap alive}

\* Slip: the old rules stay in front of the new one
MoveRuleKeepsOld(ip, u) ==
  /\ u \notin Elems(rules[ip])
  /\ allowed' = Authorized(ip)
  /\ pins' = (pins \ {<<ip, u>>}) \cup NewPins(ip)
  /\ rules' = [rules EXCEPT ![ip] = Append(@, u)]
  /\ UNCHANGED <<tables, alive, fwUps>>

MoveRule(ip, u) ==
  /\ u \notin Elems(rules[ip])
  /\ allowed' = Authorized(ip)
  /\ pins' = (pins \ {<<ip, u>>}) \cup NewPins(ip)
  /\ rules' = [rules EXCEPT ![ip] = <<u>>]
  /\ UNCHANGED <<tables, alive, fwUps>>

Route(ip, u) == u \in tables /\ (AlreadyRouted(ip, u) \/ MoveRule(ip, u))

\* Listing the rules or deleting the pin to u fails
RouteFailsEarly == UNCHANGED dpVars

\* A pin to an old upstream or the new rule cannot be added
RouteFailsAdding(ip, u) ==
  /\ u \notin Elems(rules[ip])
  /\ \E added \in SUBSET NewPins(ip) :
       pins' = (pins \ {<<ip, u>>}) \cup added
  /\ UNCHANGED <<tables, alive, allowed, rules, fwUps>>

\* The new rule is in, an old one cannot be deleted
RouteFailsDeleting(ip, u) ==
  /\ u \notin Elems(rules[ip])
  /\ pins' = (pins \ {<<ip, u>>}) \cup NewPins(ip)
  /\ \E tail \in Tails(rules[ip]) :
       rules' = [rules EXCEPT ![ip] = Append(tail, u)]
  /\ UNCHANGED <<tables, alive, allowed, fwUps>>

\* Everything is in place but the firewall does not admit the address
AuthorizeFails(ip, u) ==
  /\ ip \notin allowed
  /\ \/ /\ u \in Elems(rules[ip])
        /\ pins' = pins \ {<<ip, u>>}
        /\ UNCHANGED rules
     \/ /\ u \notin Elems(rules[ip])
        /\ pins' = (pins \ {<<ip, u>>}) \cup NewPins(ip)
        /\ rules' = [rules EXCEPT ![ip] = <<u>>]
  /\ UNCHANGED <<tables, alive, allowed, fwUps>>

RouteFails(ip, u) ==
  /\ u \in tables
  /\ \/ RouteFailsEarly
     \/ RouteFailsAdding(ip, u)
     \/ RouteFailsDeleting(ip, u)
     \/ AuthorizeFails(ip, u)

\* An upstream without a table is refused before anything is touched
RouteUnknown(u) == u \notin tables /\ UNCHANGED dpVars

-----------------------------------------------------------------------------
(* SetAlive: record the health; a dead upstream loses its pins.            *)

SetAlive(u, up) ==
  /\ u \in tables
  /\ alive' = IF up THEN alive \cup {u} ELSE alive \ {u}
  /\ pins' = IF up THEN pins ELSE pins \ PinsTo(u)
  /\ UNCHANGED <<tables, allowed, rules, fwUps>>

\* Only a dead upstream asks the kernel for anything; what it could not
\* delete stays, though the upstream already counts as dead
SetAliveFails(u, up) ==
  /\ u \in tables /\ ~up
  /\ alive' = alive \ {u}
  /\ \E kept \in SUBSET PinsTo(u) : pins' = (pins \ PinsTo(u)) \cup kept
  /\ UNCHANGED <<tables, allowed, rules, fwUps>>

SetAliveUnknown(u) == u \notin tables /\ UNCHANGED dpVars

-----------------------------------------------------------------------------
(* SetUpstreams: tables for new upstreams, none for the others, then the   *)
(* firewall sets.                                                          *)

SetUpstreams(S) ==
  /\ tables' = S
  /\ fwUps' = S
  /\ alive' = alive \cap S
  /\ pins' = {pin \in pins : pin[2] \in S}
  /\ rules' \in [Ips -> Sublists]
  /\ \A ip \in Ips : rules'[ip] \in Survivors(rules[ip], Ups \ S)
  /\ UNCHANGED allowed

\* The link, its MTU or one of the addUpstream calls fails
AddUpstreamFails(S) ==
  /\ \E added \in SUBSET S : tables' = tables \cup added
  /\ UNCHANGED <<alive, allowed, rules, pins, fwUps>>

\* The upstreams in `removed` are gone when the removal of another one (the
\* one in `half`) fails among its pins or among its rules, or, with `half`
\* empty, when the firewall sets cannot be replaced.  The half removed
\* upstream keeps its place in d.tables, so the next call tries again.
RemoveUpstreamFails(S) ==
  \E removed, half \in SUBSET (tables \ S), cut \in SUBSET Ips :
    LET Partly(ip) == IF ip \in cut THEN removed \cup half ELSE removed
    IN
    /\ removed \cap half = {}
    /\ \A u, v \in half : u = v
    /\ tables' = (tables \cup S) \ removed
    /\ alive' = alive \ removed
    /\ rules' \in [Ips -> Sublists]
    /\ \/ /\ pins' = {pin \in pins : pin[2] \notin Partly(pin[1])}
          /\ \A ip \in Ips : rules'[ip] \in Survivors(rules[ip], removed)
       \/ /\ pins' = {pin \in pins : pin[2] \notin removed \cup half}
          /\ \A ip \in Ips : rules'[ip] \in Survivors(rules[ip], Partly(ip))
    /\ UNCHANGED <<allowed, fwUps>>

SetUpstreamsFails(S) == AddUpstreamFails(S) \/ RemoveUpstreamFails(S)
=============================================================================
