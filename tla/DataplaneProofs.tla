-------------------------- MODULE DataplaneProofs --------------------------
(***************************************************************************)
(* What the dataplane's operations leave behind, whether they succeed or   *)
(* fail: types, and the footprint DaemonProofs.tla reasons with.           *)
(***************************************************************************)
EXTENDS Dataplane, SequenceTheorems, TLAPS

\* Nothing but the address ip is touched
OnlyAt(ip) ==
  \A j \in Ips : j # ip =>
    /\ j \in allowed' <=> j \in allowed
    /\ rules'[j] = rules[j]
    /\ \A u \in Ups : <<j, u>> \in pins' => <<j, u>> \in pins

\* Nothing is admitted or given a first rule, and no pin appears
Shrinks ==
  /\ allowed' = allowed
  /\ pins' \subseteq pins
  /\ \A j \in Ips : rules[j] = <<>> => rules'[j] = <<>>

\* Deleting rules from a list leaves a list, and from an empty one nothing.
LEMMA SurvivorsType ==
  ASSUME NEW s \in Seq(Ups), NEW gone
  PROVE  /\ Survivors(s, gone) \subseteq Seq(Ups)
         /\ s = <<>> => Survivors(s, gone) \subseteq {<<>>}
<1>1. ASSUME NEW t \in Survivors(s, gone)
      PROVE  t \in Seq(Ups) /\ (s = <<>> => t = <<>>)
  <2>1. PICK n \in 0 .. Len(s) : t \in [1 .. n -> Ups]
    BY DEF Survivors
  <2>2. n \in Nat
    BY <2>1
  <2>3. t \in Seq(Ups)
    BY <2>1, <2>2
  <2>4. s = <<>> => Len(t) = 0
    BY <2>1, <2>2
  <2> QED
    BY <2>3, <2>4
<1> QED
  BY <1>1

\* A deletion that stops part of the way leaves a list.
LEMMA TailsType ==
  ASSUME NEW s \in Seq(Ups)
  PROVE  Tails(s) \subseteq Seq(Ups)
<1> SUFFICES ASSUME NEW k \in DOMAIN s
             PROVE  SubSeq(s, k, Len(s)) \in Seq(Ups)
  BY DEF Tails
<1>1. Len(s) \in Nat /\ k \in 1 .. Len(s) /\ \A i \in k .. Len(s) : s[i] \in Ups
  OBVIOUS
<1> QED
  BY <1>1, SubSeqProperties

\* Unroute touches one address and revokes it.
LEMMA UnrouteStep ==
  ASSUME DpTypeOK, NEW ip \in Ips, Unroute(ip)
  PROVE  /\ DpTypeOK'
         /\ OnlyAt(ip)
         /\ ip \notin allowed' /\ rules'[ip] = <<>> /\ PinsOf(ip)' = {}
BY DEF DpTypeOK, Unroute, OnlyAt, PinsOf

\* A failed Unroute touches one address and never admits it.
LEMMA UnrouteFailsStep ==
  ASSUME DpTypeOK, NEW ip \in Ips, UnrouteFails(ip)
  PROVE  /\ DpTypeOK'
         /\ OnlyAt(ip)
         /\ allowed' \subseteq allowed
<1>1. CASE RevokeFails(ip)
  BY <1>1 DEF RevokeFails, dpVars, DpTypeOK, OnlyAt
<1>2. CASE CleanupFails(ip)
  <2>1. allowed' \in SUBSET Ips /\ allowed' \subseteq allowed
    BY <1>2 DEF CleanupFails, DpTypeOK
  <2>2. pins' \subseteq pins
    BY <1>2 DEF CleanupFails, PinsOf
  <2>3. rules' = rules \/ \E tail \in Tails(rules[ip]) : rules' = [rules EXCEPT ![ip] = tail]
    BY <1>2 DEF CleanupFails
  <2>4. Tails(rules[ip]) \subseteq Seq(Ups)
    BY TailsType DEF DpTypeOK
  <2>5. DpTypeOK'
    BY <1>2, <2>1, <2>2, <2>3, <2>4 DEF CleanupFails, DpTypeOK
  <2>6. \A j \in Ips : j # ip => rules'[j] = rules[j]
    BY <2>3 DEF DpTypeOK
  <2>7. \A j \in Ips : j # ip => (j \in allowed' <=> j \in allowed)
    BY <1>2 DEF CleanupFails
  <2> QED
    BY <2>1, <2>2, <2>5, <2>6, <2>7 DEF OnlyAt
<1> QED
  BY <1>1, <1>2 DEF UnrouteFails

\* Route touches one address and admits it.
LEMMA RouteStep ==
  ASSUME DpTypeOK, NEW ip \in Ips, NEW u \in Ups, Route(ip, u)
  PROVE  /\ DpTypeOK'
         /\ OnlyAt(ip)
         /\ allowed' = allowed \cup {ip}
<1>1. NewPins(ip) \in SUBSET (Ips \X Ups)
  BY DEF NewPins, DpTypeOK
<1>2. \A v : \A j \in Ips : j # ip => <<j, v>> \notin NewPins(ip)
  BY DEF NewPins
<1>3. CASE AlreadyRouted(ip, u)
  BY <1>3 DEF AlreadyRouted, Authorized, DpTypeOK, OnlyAt
<1>4. CASE MoveRule(ip, u)
  <2>1. <<u>> \in Seq(Ups)
    OBVIOUS
  <2> QED
    BY <1>1, <1>2, <1>4, <2>1 DEF MoveRule, Authorized, DpTypeOK, OnlyAt
<1> QED
  BY <1>3, <1>4 DEF Route

\* A failed Route touches one address and admits nobody.
LEMMA RouteFailsStep ==
  ASSUME DpTypeOK, NEW ip \in Ips, NEW u \in Ups, RouteFails(ip, u)
  PROVE  /\ DpTypeOK'
         /\ OnlyAt(ip)
         /\ allowed' = allowed
<1>1. NewPins(ip) \in SUBSET (Ips \X Ups)
  BY DEF NewPins, DpTypeOK
<1>2. \A v : \A j \in Ips : j # ip => <<j, v>> \notin NewPins(ip)
  BY DEF NewPins
<1>3. CASE RouteFailsEarly
  BY <1>3 DEF RouteFailsEarly, dpVars, DpTypeOK, OnlyAt
<1>4. CASE RouteFailsAdding(ip, u)
  BY <1>1, <1>2, <1>4 DEF RouteFailsAdding, DpTypeOK, OnlyAt
<1>5. CASE RouteFailsDeleting(ip, u)
  <2>1. \A tail \in Tails(rules[ip]) : Append(tail, u) \in Seq(Ups)
    BY TailsType DEF DpTypeOK
  <2> QED
    BY <1>1, <1>2, <1>5, <2>1 DEF RouteFailsDeleting, DpTypeOK, OnlyAt
<1>6. CASE AuthorizeFails(ip, u)
  <2>1. <<u>> \in Seq(Ups)
    OBVIOUS
  <2> QED
    BY <1>1, <1>2, <1>6, <2>1 DEF AuthorizeFails, DpTypeOK, OnlyAt
<1> QED
  BY <1>3, <1>4, <1>5, <1>6 DEF RouteFails

\* SetAlive, successful or not, only takes pins away.
LEMMA SetAliveStep ==
  ASSUME DpTypeOK, NEW u \in Ups, NEW up \in BOOLEAN,
         SetAlive(u, up) \/ SetAliveFails(u, up)
  PROVE  DpTypeOK' /\ Shrinks
<1>1. CASE SetAlive(u, up)
  BY <1>1 DEF SetAlive, PinsTo, DpTypeOK, Shrinks
<1>2. CASE SetAliveFails(u, up)
  BY <1>2 DEF SetAliveFails, PinsTo, DpTypeOK, Shrinks
<1> QED
  BY <1>1, <1>2

\* SetUpstreams, successful or not, only takes rules and pins away.
LEMMA SetUpstreamsStep ==
  ASSUME DpTypeOK, NEW S \in SUBSET Ups, SetUpstreams(S) \/ SetUpstreamsFails(S)
  PROVE  DpTypeOK' /\ Shrinks
<1>1. \A ip \in Ips : rules[ip] \in Seq(Ups)
  BY DEF DpTypeOK
<1>2. Sublists \subseteq Seq(Ups)
  BY <1>1, SurvivorsType DEF Sublists
<1>3. ASSUME NEW ip \in Ips, rules[ip] = <<>>, NEW gone, rules'[ip] \in Survivors(rules[ip], gone)
      PROVE  rules'[ip] = <<>>
  BY <1>1, <1>3, SurvivorsType
<1>4. CASE SetUpstreams(S)
  <2>1. Shrinks
    BY <1>3, <1>4 DEF SetUpstreams, Shrinks
  <2> QED
    BY <1>2, <1>4, <2>1 DEF SetUpstreams, DpTypeOK
<1>5. CASE AddUpstreamFails(S)
  BY <1>5 DEF AddUpstreamFails, DpTypeOK, Shrinks
<1>6. CASE RemoveUpstreamFails(S)
  <2>1. PICK removed \in SUBSET (tables \ S) : 
          /\ tables' = (tables \cup S) \ removed
          /\ alive' = alive \ removed
          /\ rules' \in [Ips -> Sublists]
          /\ pins' \subseteq pins
          /\ \A ip \in Ips : \E gone : rules'[ip] \in Survivors(rules[ip], gone)
          /\ UNCHANGED <<allowed, fwUps>>
    BY <1>6 DEF RemoveUpstreamFails
  <2>2. Shrinks
    BY <1>3, <2>1 DEF Shrinks
  <2> QED
    BY <1>2, <2>1, <2>2 DEF DpTypeOK
<1> QED
  BY <1>4, <1>5, <1>6 DEF SetUpstreamsFails

\* A step that leaves the dataplane alone keeps its types.
LEMMA DpStutter ==
  ASSUME DpTypeOK, UNCHANGED dpVars
  PROVE  DpTypeOK' /\ Shrinks
BY DEF DpTypeOK, dpVars, Shrinks
=============================================================================
