------------------------------ MODULE Traffic ------------------------------
(***************************************************************************)
(* Packets between the requests of a dataplane call.                       *)
(*                                                                         *)
(* Dataplane.tla gives each call's outcome; here Route is the sequence of  *)
(* netlink requests it really is, and between any two of them the clients  *)
(* send.  A packet of lm0 gets its flow's mark (restore_mark), follows the *)
(* pin rule of that mark or the first plain rule of its source, passes the *)
(* forward chain and is stamped and masqueraded on its way out.  The       *)
(* kernel's share is external: a flow is masqueraded once, and dropped from    *)
(* conntrack when it would leave through another interface than before or  *)
(* when that interface goes.                                               *)
(*                                                                         *)
(* The calls come one at a time (d.mu), in any order the daemon may make   *)
(* them: Route to an upstream that is alive, Unroute, SetAlive, and        *)
(* SetUpstreams with the closing of the devices it removes.                *)
(***************************************************************************)
EXTENDS Dataplane, FiniteSets

CONSTANTS Flows, None,
          Source,      \* flow -> the client address that sends it
          MaxFaults

ASSUME TrafficAssumption ==
  /\ Source \in [Flows -> Ips] /\ None \notin Ups /\ None \notin Ips /\ MaxFaults \in Nat

VARIABLES
  at,       \* the request Route is about to make, or "idle"
  peer, to, \* its arguments, or None
  via,      \* flow -> the upstream it is masqueraded on, None without an entry
  mark,     \* flow -> the upstream whose table its conntrack mark names
  faults,   \* failed calls
  before,   \* observation: rules, pins and admissions when Route was called
  excused,  \* observation: flows opened through a dead upstream, or whose
            \* upstream died or whose address was unrouted since
  unpinned  \* observation: flows through the upstream Route is moving back to

callVars == <<at, peer, to, before>>
flowVars == <<via, mark>>
ghostVars == <<excused, unpinned>>
vars == <<dpVars, callVars, flowVars, faults, ghostVars>>

Kernel == [rules |-> rules, pins |-> pins, allowed |-> allowed]
NoCall == [rules |-> [ip \in Ips |-> <<>>], pins |-> {}, allowed |-> {}]
FlowsOf(ip) == {f \in Flows : Source[f] = ip}
Through(u) == {f \in Flows : via[f] = u}

Init ==
  /\ DpInit(Ups)
  /\ at = "idle" /\ peer = None /\ to = None /\ before = NoCall
  /\ via = [f \in Flows |-> None] /\ mark = [f \in Flows |-> None]
  /\ faults = 0 /\ excused = {} /\ unpinned = {}

-----------------------------------------------------------------------------
(* Packets                                                                 *)

\* The rules that apply to a packet of flow f, in the order of their priority
PinFor(f) ==
  IF mark[f] # None /\ <<Source[f], mark[f]>> \in pins
  THEN <<mark[f]>> ELSE <<>>

Hops(f) == PinFor(f) \o rules[Source[f]]

\* Where it goes; None is the host's main table
Hop(f) == IF Hops(f) = <<>> THEN None ELSE Head(Hops(f))

\* The forward chain: from lm0 to an upstream, by an admitted address
Passes(f) == Hop(f) \in fwUps /\ Source[f] \in allowed

\* The first packet of a flow: masqueraded, and stamped unless it has a mark
Opens(f) ==
  /\ via[f] = None /\ Passes(f)
  /\ via' = [via EXCEPT ![f] = Hop(f)]
  /\ mark' = [mark EXCEPT ![f] = Hop(f)]
  /\ excused' = IF Hop(f) \in alive THEN excused \ {f} ELSE excused \cup {f}
  /\ unpinned' = unpinned \ {f}
  /\ UNCHANGED <<dpVars, callVars, faults>>

Forget(F) ==
  /\ via' = [f \in Flows |-> IF f \in F THEN None ELSE via[f]]
  /\ mark' = [f \in Flows |-> IF f \in F THEN None ELSE mark[f]]

\* A packet that would leave through another upstream: the flow is lost
Resets(f) ==
  /\ via[f] # None /\ Passes(f) /\ Hop(f) # via[f]
  /\ Forget({f})
  /\ UNCHANGED <<dpVars, callVars, faults, ghostVars>>

\* The client or the server closes it
Ends(f) ==
  /\ via[f] # None
  /\ Forget({f})
  /\ UNCHANGED <<dpVars, callVars, faults, ghostVars>>

-----------------------------------------------------------------------------
(* Route, one request at a time                                            *)

\* Slip: the firewall admits the address before its rule is there
RouteBeginAdmits(ip, u) ==
  /\ at = "idle" /\ u \in alive \cap tables
  /\ at' = "unpin" /\ peer' = ip /\ to' = u /\ before' = Kernel
  /\ allowed' = Authorized(ip)
  /\ UNCHANGED <<tables, alive, rules, pins, fwUps, flowVars, faults, ghostVars>>

RouteBegin(ip, u) ==
  /\ at = "idle" /\ u \in alive \cap tables
  /\ at' = "unpin" /\ peer' = ip /\ to' = u /\ before' = Kernel
  /\ UNCHANGED <<dpVars, flowVars, faults, ghostVars>>

\* A pin to the upstream the peer moves to is deleted
Unpin ==
  /\ at = "unpin"
  /\ pins' = pins \ {<<peer, to>>}
  /\ unpinned' = unpinned \cup (FlowsOf(peer) \cap Through(to))
  /\ at' = IF to \in Elems(rules[peer]) THEN "authorize" ELSE "pin"
  /\ UNCHANGED <<tables, alive, allowed, rules, fwUps, peer, to, before, flowVars,
                 faults, excused>>

\* Slip: the old upstreams are pinned only when the rules are right
PinNothing ==
  /\ at = "pin" /\ at' = "add"
  /\ UNCHANGED <<dpVars, peer, to, before, flowVars, faults, ghostVars>>

\* The open flows of each old upstream that is alive are pinned to it
Pin ==
  /\ at = "pin"
  /\ IF NewPins(peer) \subseteq pins THEN at' = "add" /\ UNCHANGED pins
     ELSE /\ \E pin \in NewPins(peer) \ pins : pins' = pins \cup {pin}
          /\ UNCHANGED at
  /\ UNCHANGED <<tables, alive, allowed, rules, fwUps, peer, to, before, flowVars,
                 faults, ghostVars>>

\* Slip: the new rule replaces what is there, one after the other
AddRuleAfterwards ==
  /\ at = "add"
  /\ IF rules[peer] = <<>> THEN rules' = [rules EXCEPT ![peer] = <<to>>] /\ at' = "delete"
     ELSE rules' = [rules EXCEPT ![peer] = Tail(@)] /\ UNCHANGED at
  /\ UNCHANGED <<tables, alive, allowed, pins, fwUps, peer, to, before, flowVars,
                 faults, ghostVars>>

AddRule ==
  /\ at = "add" /\ at' = "delete"
  /\ rules' = [rules EXCEPT ![peer] = Append(@, to)]
  /\ UNCHANGED <<tables, alive, allowed, pins, fwUps, peer, to, before, flowVars,
                 faults, ghostVars>>

DeleteOld ==
  /\ at = "delete"
  /\ IF Head(rules[peer]) = to THEN at' = "authorize" /\ UNCHANGED rules
     ELSE rules' = [rules EXCEPT ![peer] = Tail(@)] /\ UNCHANGED at
  /\ UNCHANGED <<tables, alive, allowed, pins, fwUps, peer, to, before, flowVars,
                 faults, ghostVars>>

\* The call returns
Idle == at' = "idle" /\ peer' = None /\ to' = None /\ before' = NoCall

\* Route returns nil; flows through the target follow its rule again, if that
\* rule is the first
Authorize ==
  /\ at = "authorize" /\ Idle
  /\ allowed' = Authorized(peer)
  /\ LET follow == IF Head(rules[peer]) = to THEN FlowsOf(peer) \cap Through(to) ELSE {}
     IN  excused' = excused \ follow /\ unpinned' = unpinned \ follow
  /\ UNCHANGED <<tables, alive, rules, pins, fwUps, flowVars, faults>>

\* Any request may fail, and Route returns the error
RouteFailed ==
  /\ at # "idle" /\ Idle
  /\ at = "delete" => Head(rules[peer]) # to
  /\ at = "authorize" => peer \notin allowed
  /\ faults < MaxFaults /\ faults' = faults + 1
  /\ UNCHANGED <<dpVars, flowVars, ghostVars>>

RouteSteps ==
  \/ \E ip \in Ips, u \in Ups : RouteBegin(ip, u)
  \/ Unpin \/ Pin \/ AddRule \/ DeleteOld \/ Authorize \/ RouteFailed

-----------------------------------------------------------------------------
(* The other calls, each with the outcomes Dataplane.tla gives it          *)

Succeeds == UNCHANGED faults
Errs == faults < MaxFaults /\ faults' = faults + 1

UnrouteCall(ip) ==
  /\ at = "idle"
  /\ (Unroute(ip) /\ Succeeds) \/ (UnrouteFails(ip) /\ Errs)
  /\ excused' = excused \cup FlowsOf(ip)
  /\ UNCHANGED <<callVars, flowVars, unpinned>>

SetAliveCall(u, up) ==
  /\ at = "idle"
  /\ (SetAlive(u, up) /\ Succeeds) \/ (SetAliveFails(u, up) /\ Errs)
  /\ excused' = IF up THEN excused ELSE excused \cup Through(u)
  /\ UNCHANGED <<callVars, flowVars, unpinned>>

\* A reload: the devices of removed upstreams go once nothing points to them
SetUpstreamsCall(S) ==
  /\ at = "idle"
  /\ SetUpstreams(S) /\ Succeeds
  /\ Forget(UNION {Through(u) : u \in Ups \ S})
  /\ UNCHANGED <<callVars, ghostVars>>

Calls ==
  \/ \E ip \in Ips : UnrouteCall(ip)
  \/ \E u \in Ups, up \in BOOLEAN : SetAliveCall(u, up)
  \/ \E S \in SUBSET Ups : SetUpstreamsCall(S)

Packets == \E f \in Flows : Opens(f) \/ Resets(f) \/ Ends(f)

Next == RouteSteps \/ Calls \/ Packets

Spec == Init /\ [][Next]_vars

-----------------------------------------------------------------------------
(* Properties                                                              *)

\* An open flow whose upstream has been alive all along, and whose address has
\* not been unrouted, keeps its upstream: its next packet finds either its pin
\* or the rule that opened it, whatever request Route has reached or has
\* failed at.  Flows through the upstream Route moves to are left out.
FlowsStick ==
  \A f \in Flows :
    via[f] \in alive /\ Source[f] \in allowed /\ f \notin excused \cup unpinned
      => Hop(f) = via[f]

\* OPERATIONS.md: connections open through an upstream that is still alive
\* stay on it until they close.
MoveKeepsFlows ==
  \A f \in Flows :
    via[f] \in alive /\ Source[f] \in allowed /\ f \notin excused => Hop(f) = via[f]

\* Make before break: as long as an admitted address keeps its upstreams, no
\* request takes its last rule, so a move leaves no moment without a next hop.
MakeBeforeBreak ==
  [][\A ip \in allowed \cap allowed' :
       tables' = tables /\ rules[ip] # <<>> => rules'[ip] # <<>>]_vars

\* Seen from outside, before the call or after it
Seen == IF at = "idle" THEN Kernel ELSE before

Atomic == INSTANCE Dataplane
  WITH rules <- Seen.rules, pins <- Seen.pins, allowed <- Seen.allowed

\* The outcomes Dataplane.tla lists for a call are the ones its requests can
\* have: a caller that holds d.mu sees Route succeed or fail in one step.
CallsAreAtomic ==
  [][\/ \E ip \in Ips, u \in Ups : Atomic!Route(ip, u) \/ Atomic!RouteFails(ip, u)
     \/ \E ip \in Ips : Atomic!Unroute(ip) \/ Atomic!UnrouteFails(ip)
     \/ \E u \in Ups, up \in BOOLEAN : Atomic!SetAlive(u, up) \/ Atomic!SetAliveFails(u, up)
     \/ \E S \in SUBSET Ups : Atomic!SetUpstreams(S)]_(Atomic!dpVars)

-----------------------------------------------------------------------------
(* Strengthening                                                           *)

TypeOK ==
  /\ DpTypeOK
  /\ at \in {"idle", "unpin", "pin", "add", "delete", "authorize"}
  /\ at # "idle" => peer \in Ips /\ to \in alive /\ to \in tables
  /\ via \in [Flows -> Ups \cup {None}] /\ mark = via
  /\ excused \subseteq Flows /\ unpinned \subseteq Flows

Distinct(s) == \A i, j \in DOMAIN s : s[i] = s[j] => i = j

\* An address has at most one rule to an upstream, and only to known ones
RulesInv == \A ip \in Ips : Distinct(rules[ip]) /\ Elems(rules[ip]) \subseteq tables

\* Whether the target's rule is in, and what is pinned before a rule goes
MoveInv ==
  /\ at \in {"pin", "add"} => to \notin Elems(rules[peer])
  /\ at \in {"add", "delete"} => NewPins(peer) \subseteq pins \cup {<<peer, to>>}
  /\ at \in {"delete", "authorize"} => to \in Elems(rules[peer])

\* The flow's upstream is its source's first rule, or pinned
Sticks(f) ==
  \/ <<Source[f], via[f]>> \in pins
  \/ rules[Source[f]] # <<>> /\ Head(rules[Source[f]]) = via[f]

\* An open flow is excused if its address is not admitted or its upstream not
\* alive, so that neither can come back and find it off its way
FlowInv ==
  \A f \in Flows : via[f] # None =>
    /\ Source[f] \notin allowed \/ via[f] \notin alive => f \in excused
    /\ f \notin excused \cup unpinned => Sticks(f)

OldRules == before.rules[peer]
OldPins == {<<peer, a>> : a \in Elems(OldRules) \cap alive}
PinsLeft == before.pins \ {<<peer, to>>}

\* What the requests so far have made of the kernel Route was called with
CallInv ==
  at # "idle" =>
    /\ before.allowed = allowed /\ before.rules \in [Ips -> Seq(Ups)]
    /\ at \in {"unpin", "pin", "add"} => rules = before.rules
    /\ at = "unpin" => pins = before.pins
    /\ at = "pin" => \E added \in SUBSET OldPins : pins = PinsLeft \cup added
    /\ at \in {"add", "delete"} => pins = PinsLeft \cup OldPins
    /\ at \in {"pin", "add", "delete"} => to \notin Elems(OldRules)
    /\ at = "delete" =>
         \E tail \in Tails(OldRules) \cup {<<>>} :
           rules = [before.rules EXCEPT ![peer] = Append(tail, to)]
    /\ at = "authorize" =>
         \/ to \in Elems(OldRules) /\ rules = before.rules /\ pins = PinsLeft
         \/ /\ to \notin Elems(OldRules) /\ pins = PinsLeft \cup OldPins
            /\ rules = [before.rules EXCEPT ![peer] = <<to>>]

IInv == TypeOK /\ RulesInv /\ MoveInv /\ FlowInv /\ CallInv
=============================================================================
