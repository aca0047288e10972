--------------------------- MODULE TrafficProofs ---------------------------
(***************************************************************************)
(* Connections while Route runs request by request: proofs for all sets of *)
(* upstreams, addresses and flows and any number of failures.              *)
(***************************************************************************)
EXTENDS Traffic, DataplaneProofs

-----------------------------------------------------------------------------
(* Lists of rules                                                          *)

\* SetUpstreams leaves the first rule of an address first, if it keeps it.
LEMMA SurvivorsKeep ==
  ASSUME NEW s \in Seq(Ups), Distinct(s), NEW gone, NEW t \in Survivors(s, gone)
  PROVE  /\ t \in Seq(Ups) /\ Distinct(t) /\ Elems(t) = Elems(s) \ gone
         /\ s # <<>> /\ Head(s) \notin gone => t # <<>> /\ Head(t) = Head(s)
<1>1. t \in Seq(Ups)  BY SurvivorsType
<1>2. /\ Elems(t) = Elems(s) \ gone
      /\ \A i, j \in DOMAIN t : i < j => \E k, l \in DOMAIN s : k < l /\ s[k] = t[i] /\ s[l] = t[j]
  BY DEF Survivors
<1>3. /\ DOMAIN t = 1 .. Len(t) /\ DOMAIN s = 1 .. Len(s) /\ Len(t) \in Nat /\ Len(s) \in Nat
  BY <1>1
<1>4. \A k, l \in DOMAIN s : s[k] = s[l] => k = l  BY DEF Distinct
<1>5. ASSUME NEW i \in DOMAIN t, NEW j \in DOMAIN t, i < j PROVE t[i] # t[j]
  <2>1. PICK k \in DOMAIN s, l \in DOMAIN s : k < l /\ s[k] = t[i] /\ s[l] = t[j]  BY <1>2, <1>5
  <2>2. k # l  BY <1>3, <2>1
  <2> QED  BY <1>4, <2>1, <2>2
<1>6. Distinct(t)
  <2> SUFFICES ASSUME NEW i \in DOMAIN t, NEW j \in DOMAIN t, i # j PROVE t[i] # t[j]
    BY DEF Distinct
  <2>1. i < j \/ j < i  BY <1>3
  <2> QED  BY <1>5, <2>1
<1>7. ASSUME s # <<>>, Head(s) \notin gone PROVE t # <<>> /\ Head(t) = Head(s)
  <2>1. 1 \in DOMAIN s /\ Head(s) = s[1]  BY <1>3, <1>7
  <2>2. s[1] \in Elems(t)  BY <1>2, <1>7, <2>1 DEF Elems
  <2>3. PICK m \in DOMAIN t : t[m] = s[1]  BY <2>2 DEF Elems
  <2>4. m = 1
    <3> SUFFICES ASSUME m # 1 PROVE FALSE  OBVIOUS
    <3>1. 1 \in DOMAIN t /\ 1 < m  BY <1>3, <2>3
    <3>2. PICK k \in DOMAIN s, l \in DOMAIN s : k < l /\ s[k] = t[1] /\ s[l] = t[m]
      BY <1>2, <2>3, <3>1
    <3>3. l = 1  BY <1>4, <2>1, <2>3, <3>2
    <3> QED  BY <1>3, <3>2, <3>3
  <2> QED  BY <1>1, <1>3, <2>1, <2>3, <2>4
<1> QED  BY <1>1, <1>2, <1>6, <1>7

\* Deleting the first rule of a list.
LEMMA TailFacts ==
  ASSUME NEW s \in Seq(Ups), s # <<>>, Distinct(s)
  PROVE  /\ Tail(s) \in Seq(Ups) /\ Distinct(Tail(s)) /\ Elems(Tail(s)) \subseteq Elems(s)
         /\ \A u \in Elems(s) : u # Head(s) => u \in Elems(Tail(s))
<1> DEFINE t == Tail(s)
<1>1. /\ t \in Seq(Ups) /\ Len(s) \in Nat \ {0} /\ DOMAIN s = 1 .. Len(s)
      /\ DOMAIN t = 1 .. Len(s) - 1 /\ Head(s) = s[1]
      /\ \A i \in 1 .. Len(s) - 1 : t[i] = s[i + 1]
  OBVIOUS
<1>2. \A k, l \in DOMAIN s : s[k] = s[l] => k = l  BY DEF Distinct
<1> HIDE DEF t
<1>3. Distinct(t)
  <2> SUFFICES ASSUME NEW i \in DOMAIN t, NEW j \in DOMAIN t, t[i] = t[j] PROVE i = j
    BY DEF Distinct
  <2>1. i + 1 \in DOMAIN s /\ j + 1 \in DOMAIN s /\ s[i + 1] = s[j + 1]  BY <1>1
  <2>2. i + 1 = j + 1  BY <1>2, <2>1
  <2> QED  BY <1>1, <2>2
<1>4. Elems(t) \subseteq Elems(s)
  <2> SUFFICES ASSUME NEW i \in DOMAIN t PROVE t[i] \in Elems(s)  BY DEF Elems
  <2>1. i + 1 \in DOMAIN s /\ t[i] = s[i + 1]  BY <1>1
  <2> QED  BY <2>1 DEF Elems
<1>5. ASSUME NEW i \in DOMAIN s, s[i] # Head(s) PROVE s[i] \in Elems(t)
  <2>1. i - 1 \in DOMAIN t /\ t[i - 1] = s[i]  BY <1>1, <1>5
  <2> QED  BY <2>1 DEF Elems
<1>6. \A u \in Elems(s) : u # Head(s) => u \in Elems(t)  BY <1>5 DEF Elems
<1> QED  BY <1>1, <1>3, <1>4, <1>6 DEF t

\* Adding a rule behind the others.
LEMMA AppendFacts ==
  ASSUME NEW s \in Seq(Ups), NEW u \in Ups, Distinct(s), u \notin Elems(s)
  PROVE  /\ Append(s, u) \in Seq(Ups) /\ Distinct(Append(s, u))
         /\ Elems(Append(s, u)) = Elems(s) \cup {u} /\ Append(s, u) # <<>>
         /\ s # <<>> => Head(Append(s, u)) = Head(s)
<1> DEFINE t == Append(s, u)
<1>1. /\ t \in Seq(Ups) /\ Len(s) \in Nat /\ DOMAIN s = 1 .. Len(s)
      /\ DOMAIN t = 1 .. Len(s) + 1 /\ t[Len(s) + 1] = u /\ t # <<>>
      /\ \A i \in 1 .. Len(s) : t[i] = s[i]
      /\ s # <<>> => Head(t) = Head(s)
  <2>1. t \in Seq(Ups) /\ Len(s) \in Nat /\ Len(t) = Len(s) + 1  OBVIOUS
  <2>2. DOMAIN s = 1 .. Len(s) /\ DOMAIN t = 1 .. Len(s) + 1  BY <2>1
  <2>3. t[Len(s) + 1] = u /\ \A i \in 1 .. Len(s) : t[i] = s[i]  OBVIOUS
  <2>4. t # <<>>  BY <2>1
  <2>5. ASSUME s # <<>> PROVE Head(t) = Head(s)
    <3>1. 1 \in 1 .. Len(s) /\ Head(s) = s[1]  BY <2>5
    <3>2. t[1] = s[1]  BY <2>3, <3>1
    <3>3. Head(t) = t[1]  BY <2>1, <2>4
    <3> QED  BY <3>1, <3>2, <3>3
  <2> QED  BY <2>1, <2>2, <2>3, <2>4, <2>5
<1>2. \A k, l \in DOMAIN s : s[k] = s[l] => k = l  BY DEF Distinct
<1>3. \A k \in DOMAIN s : s[k] # u  BY DEF Elems
<1> HIDE DEF t
<1>4. Distinct(t)
  <2> SUFFICES ASSUME NEW i \in DOMAIN t, NEW j \in DOMAIN t, t[i] = t[j] PROVE i = j
    BY DEF Distinct
  <2> QED  BY <1>1, <1>2, <1>3
<1>5. Elems(t) = Elems(s) \cup {u}
  <2>1. \A i \in DOMAIN t : t[i] \in Elems(s) \cup {u}  BY <1>1 DEF Elems
  <2>2. \A i \in DOMAIN s : i \in DOMAIN t /\ t[i] = s[i]  BY <1>1
  <2>3. Len(s) + 1 \in DOMAIN t  BY <1>1
  <2> QED  BY <1>1, <2>1, <2>2, <2>3 DEF Elems
<1> QED  BY <1>1, <1>4, <1>5 DEF t

\* What a deletion that stops part of the way leaves.
LEMMA TailsFacts ==
  ASSUME NEW s \in Seq(Ups), Distinct(s), NEW t \in Tails(s)
  PROVE  t \in Seq(Ups) /\ Distinct(t) /\ Elems(t) \subseteq Elems(s)
<1>1. t \in Seq(Ups)  BY TailsType
<1>2. PICK k \in DOMAIN s : t = SubSeq(s, k, Len(s))  BY DEF Tails
<1>3. /\ Len(s) \in Nat /\ DOMAIN s = 1 .. Len(s) /\ k \in 1 .. Len(s)
      /\ DOMAIN t = 1 .. Len(s) - k + 1 /\ \A i \in 1 .. Len(s) - k + 1 : t[i] = s[k + i - 1]
  BY <1>2
<1>4. \A i, j \in DOMAIN s : s[i] = s[j] => i = j  BY DEF Distinct
<1>5. \A i \in DOMAIN t : k + i - 1 \in DOMAIN s /\ t[i] = s[k + i - 1]  BY <1>3
<1>6. Distinct(t)
  <2> SUFFICES ASSUME NEW i \in DOMAIN t, NEW j \in DOMAIN t, t[i] = t[j] PROVE i = j
    BY DEF Distinct
  <2>1. k + i - 1 = k + j - 1  BY <1>4, <1>5
  <2> QED  BY <1>3, <2>1
<1>7. Elems(t) \subseteq Elems(s)  BY <1>5 DEF Elems
<1> QED  BY <1>1, <1>6, <1>7

-----------------------------------------------------------------------------
(* Frames                                                                  *)

\* Where the next packet of a flow goes.
LEMMA HopFacts ==
  ASSUME TypeOK, NEW f \in Flows
  PROVE  /\ via[f] = None /\ Hop(f) # None =>
              rules[Source[f]] # <<>> /\ Hop(f) = Head(rules[Source[f]])
         /\ via[f] # None /\ Sticks(f) => Hop(f) = via[f]
<1> DEFINE r == rules[Source[f]]
<1>1. r \in Seq(Ups) /\ mark = via  BY TrafficAssumption DEF TypeOK, DpTypeOK
<1>2. CASE via[f] = None
  <2>1. PinFor(f) = <<>>  BY <1>1, <1>2 DEF PinFor
  <2>2. Hops(f) = r  BY <1>1, <2>1 DEF Hops
  <2> QED  BY <1>2, <2>2 DEF Hop
<1>3. CASE via[f] # None /\ <<Source[f], via[f]>> \in pins
  <2>1. PinFor(f) = <<via[f]>>  BY <1>1, <1>3 DEF PinFor
  <2>2. via[f] \in Ups  BY <1>3 DEF TypeOK
  <2>3. Hops(f) = <<via[f]>> \o r  BY <2>1 DEF Hops
  <2>4. Hops(f) \in Seq(Ups) /\ Hops(f) # <<>> /\ Hops(f)[1] = via[f]  BY <1>1, <2>2, <2>3
  <2> QED  BY <1>3, <2>4 DEF Hop
<1>4. CASE via[f] # None /\ <<Source[f], via[f]>> \notin pins
  <2>1. PinFor(f) = <<>>  BY <1>1, <1>4 DEF PinFor
  <2>2. Hops(f) = r  BY <1>1, <2>1 DEF Hops
  <2> QED  BY <1>4, <2>2 DEF Hop, Sticks
<1> QED  BY <1>2, <1>3, <1>4

\* Packets change no rule and no call.
LEMMA PacketFrame ==
  ASSUME TypeOK, RulesInv, MoveInv, CallInv, UNCHANGED <<dpVars, callVars>>
  PROVE  DpTypeOK' /\ RulesInv' /\ MoveInv' /\ CallInv'
<1>1. /\ tables' = tables /\ alive' = alive /\ allowed' = allowed /\ rules' = rules /\ pins' = pins
      /\ fwUps' = fwUps /\ at' = at /\ peer' = peer /\ to' = to /\ before' = before
  BY DEF dpVars, callVars
<1>2. DpTypeOK' /\ RulesInv'  BY <1>1 DEF TypeOK, DpTypeOK, RulesInv
<1>3. MoveInv'  BY <1>1 DEF MoveInv, NewPins
<1>4. OldRules' = OldRules /\ OldPins' = OldPins /\ PinsLeft' = PinsLeft
  BY <1>1 DEF OldRules, OldPins, PinsLeft
<1>5. CallInv'  BY <1>1, <1>4 DEF CallInv
<1> QED  BY <1>2, <1>3, <1>5

\* Neither do calls that come when Route is not under way begin one.
LEMMA IdleFrame ==
  ASSUME at = "idle", UNCHANGED callVars
  PROVE  at' = "idle" /\ MoveInv' /\ CallInv'
<1>1. at' = "idle"  BY DEF callVars
<1> QED  BY <1>1 DEF MoveInv, CallInv

\* Flows that stay as they were, while pins are only added and no first rule
\* changes but that of an address that had none.
LEMMA FlowFrame ==
  ASSUME FlowInv, UNCHANGED <<flowVars, ghostVars, alive, allowed>>, pins \subseteq pins',
         \A ip \in Ips : rules[ip] # <<>> => rules'[ip] # <<>> /\ Head(rules'[ip]) = Head(rules[ip])
  PROVE  FlowInv'
<1> SUFFICES ASSUME NEW f \in Flows, via[f] # None
             PROVE  /\ Source[f] \notin allowed \/ via[f] \notin alive => f \in excused
                    /\ f \notin excused \cup unpinned => Sticks(f)'
  BY DEF FlowInv, flowVars, ghostVars
<1>1. f \notin excused \cup unpinned => Sticks(f)  BY DEF FlowInv
<1>2. Source[f] \in Ips  BY TrafficAssumption
<1>3. Sticks(f) => Sticks(f)'  BY <1>2 DEF Sticks, flowVars
<1> QED  BY <1>1, <1>3 DEF FlowInv

-----------------------------------------------------------------------------
(* Packets                                                                 *)

\* A new flow follows the first rule of its source.
LEMMA OpensInv == ASSUME IInv, NEW f \in Flows, Opens(f) PROVE IInv'
<1>1. TypeOK /\ RulesInv /\ MoveInv /\ FlowInv /\ CallInv  BY DEF IInv
<1>2. /\ via[f] = None /\ Hop(f) \in fwUps /\ Source[f] \in allowed
      /\ via' = [via EXCEPT ![f] = Hop(f)] /\ mark' = [mark EXCEPT ![f] = Hop(f)]
      /\ excused' = (IF Hop(f) \in alive THEN excused \ {f} ELSE excused \cup {f})
      /\ unpinned' = unpinned \ {f}
      /\ UNCHANGED <<dpVars, callVars>>
  BY DEF Opens, Passes
<1>3. DpTypeOK' /\ RulesInv' /\ MoveInv' /\ CallInv'  BY <1>1, <1>2, PacketFrame
<1>4. /\ tables' = tables /\ alive' = alive /\ allowed' = allowed /\ rules' = rules /\ pins' = pins
      /\ at' = at /\ peer' = peer /\ to' = to
  BY <1>2 DEF dpVars, callVars
<1> DEFINE h == Hop(f)
<1>5. h \in Ups /\ h # None  BY <1>1, <1>2, TrafficAssumption DEF TypeOK, DpTypeOK
<1>6. rules[Source[f]] # <<>> /\ h = Head(rules[Source[f]])  BY <1>1, <1>2, <1>5, HopFacts
<1> HIDE DEF h
<1>7. /\ via' = [via EXCEPT ![f] = h] /\ mark' = [mark EXCEPT ![f] = h]
      /\ excused' = (IF h \in alive THEN excused \ {f} ELSE excused \cup {f})
  BY <1>2 DEF h
<1>8. TypeOK'
  <2>1. via \in [Flows -> Ups \cup {None}] /\ mark = via  BY <1>1 DEF TypeOK
  <2>2. via' \in [Flows -> Ups \cup {None}] /\ mark' = via'  BY <1>5, <1>7, <2>1
  <2>3. excused' \subseteq Flows /\ unpinned' \subseteq Flows  BY <1>1, <1>2, <1>7 DEF TypeOK
  <2> QED  BY <1>1, <1>3, <1>4, <2>2, <2>3 DEF TypeOK
<1>9. FlowInv'
  <2> SUFFICES ASSUME NEW g \in Flows, via'[g] # None
               PROVE  /\ Source[g] \notin allowed \/ via'[g] \notin alive => g \in excused'
                      /\ g \notin excused' \cup unpinned' => Sticks(g)'
    BY <1>4 DEF FlowInv
  <2>1. via \in [Flows -> Ups \cup {None}]  BY <1>1 DEF TypeOK
  <2>2. CASE g = f
    <3>1. via'[g] = h  BY <1>7, <2>1, <2>2
    <3>2. Sticks(g)'  BY <1>4, <1>6, <2>2, <3>1 DEF Sticks
    <3> QED  BY <1>2, <1>7, <2>2, <3>1, <3>2
  <2>3. CASE g # f
    <3>1. via'[g] = via[g] /\ (g \in excused' <=> g \in excused) /\ (g \in unpinned' <=> g \in unpinned)
      BY <1>2, <1>7, <2>1, <2>3
    <3>2. Sticks(g) => Sticks(g)'  BY <1>4, <3>1 DEF Sticks
    <3> QED  BY <1>1, <3>1, <3>2 DEF FlowInv
  <2> QED  BY <2>2, <2>3
<1> QED  BY <1>3, <1>8, <1>9 DEF IInv

\* Flows that end leave the others as they are.
LEMMA ForgetInv ==
  ASSUME IInv, NEW F, Forget(F), UNCHANGED <<dpVars, callVars, ghostVars>>
  PROVE  IInv'
<1>1. TypeOK /\ RulesInv /\ MoveInv /\ FlowInv /\ CallInv  BY DEF IInv
<1>2. DpTypeOK' /\ RulesInv' /\ MoveInv' /\ CallInv'  BY <1>1, PacketFrame
<1>3. /\ tables' = tables /\ alive' = alive /\ allowed' = allowed /\ rules' = rules /\ pins' = pins
      /\ at' = at /\ peer' = peer /\ to' = to /\ excused' = excused /\ unpinned' = unpinned
  BY DEF dpVars, callVars, ghostVars
<1>4. /\ via \in [Flows -> Ups \cup {None}] /\ mark = via
      /\ via' = [f \in Flows |-> IF f \in F THEN None ELSE via[f]]
      /\ mark' = [f \in Flows |-> IF f \in F THEN None ELSE mark[f]]
  BY <1>1 DEF TypeOK, Forget
<1>5. via' \in [Flows -> Ups \cup {None}] /\ mark' = via'  BY <1>4
<1>6. TypeOK'  BY <1>1, <1>2, <1>3, <1>5 DEF TypeOK
<1>7. FlowInv'
  <2> SUFFICES ASSUME NEW g \in Flows, via'[g] # None
               PROVE  /\ Source[g] \notin allowed \/ via'[g] \notin alive => g \in excused
                      /\ g \notin excused \cup unpinned => Sticks(g)'
    BY <1>3 DEF FlowInv
  <2>1. via'[g] = via[g]  BY <1>4
  <2>2. Sticks(g) => Sticks(g)'  BY <1>3, <2>1 DEF Sticks
  <2> QED  BY <1>1, <2>1, <2>2 DEF FlowInv
<1> QED  BY <1>2, <1>6, <1>7 DEF IInv

-----------------------------------------------------------------------------
(* Route                                                                   *)

\* A call begins with the kernel as it is.
LEMMA RouteBeginInv == ASSUME IInv, NEW ip \in Ips, NEW u \in Ups, RouteBegin(ip, u) PROVE IInv'
<1>1. TypeOK /\ RulesInv /\ FlowInv  BY DEF IInv
<1>2. /\ u \in alive /\ u \in tables /\ at' = "unpin" /\ peer' = ip /\ to' = u /\ before' = Kernel
      /\ UNCHANGED <<dpVars, flowVars, ghostVars>>
  BY DEF RouteBegin
<1>3. /\ tables' = tables /\ alive' = alive /\ allowed' = allowed /\ rules' = rules /\ pins' = pins
      /\ fwUps' = fwUps /\ via' = via /\ mark' = mark
  BY <1>2 DEF dpVars, flowVars
<1>4. DpTypeOK' /\ RulesInv'  BY <1>1, <1>3 DEF TypeOK, DpTypeOK, RulesInv
<1>5. TypeOK'  BY <1>1, <1>2, <1>3, <1>4 DEF TypeOK, ghostVars
<1>6. FlowInv'  BY <1>1, <1>2, <1>3, FlowFrame
<1>7. MoveInv'  BY <1>2 DEF MoveInv
<1>8. CallInv'
  <2>1. before'.allowed = allowed' /\ before'.rules = rules' /\ before'.pins = pins'
    BY <1>2, <1>3 DEF Kernel
  <2>2. rules' \in [Ips -> Seq(Ups)]  BY <1>4 DEF DpTypeOK
  <2> QED  BY <1>2, <2>1, <2>2 DEF CallInv
<1> QED  BY <1>4, <1>5, <1>6, <1>7, <1>8 DEF IInv

\* The pin to the target goes; the flows that may have needed it are unpinned.
LEMMA UnpinInv == ASSUME IInv, Unpin PROVE IInv'
<1>1. TypeOK /\ RulesInv /\ FlowInv /\ CallInv  BY DEF IInv
<1>2. /\ at = "unpin" /\ pins' = pins \ {<<peer, to>>}
      /\ unpinned' = unpinned \cup (FlowsOf(peer) \cap Through(to))
      /\ at' = (IF to \in Elems(rules[peer]) THEN "authorize" ELSE "pin")
      /\ tables' = tables /\ alive' = alive /\ allowed' = allowed /\ rules' = rules
      /\ fwUps' = fwUps /\ peer' = peer /\ to' = to /\ before' = before
      /\ via' = via /\ mark' = mark /\ excused' = excused
  BY DEF Unpin, flowVars
<1>3. DpTypeOK' /\ RulesInv'  BY <1>1, <1>2 DEF TypeOK, DpTypeOK, RulesInv
<1>4. TypeOK'
  <2>1. unpinned' \subseteq Flows  BY <1>1, <1>2 DEF TypeOK, FlowsOf
  <2> QED  BY <1>1, <1>2, <1>3, <2>1 DEF TypeOK
<1>5. MoveInv'  BY <1>2 DEF MoveInv
<1>6. FlowInv'
  <2> SUFFICES ASSUME NEW f \in Flows, via[f] # None
               PROVE  /\ Source[f] \notin allowed \/ via[f] \notin alive => f \in excused
                      /\ f \notin excused \cup unpinned' => Sticks(f)'
    BY <1>2 DEF FlowInv
  <2>1. ASSUME f \notin excused \cup unpinned' PROVE Sticks(f)'
    <3>1. Sticks(f)  BY <1>1, <1>2, <2>1 DEF FlowInv
    <3>2. <<Source[f], via[f]>> # <<peer, to>>  BY <1>2, <2>1 DEF FlowsOf, Through
    <3> QED  BY <1>2, <3>1, <3>2 DEF Sticks
  <2> QED  BY <1>1, <2>1 DEF FlowInv
<1>7. CallInv'
  <2>1. /\ before.allowed = allowed /\ before.rules \in [Ips -> Seq(Ups)]
        /\ before.rules = rules /\ before.pins = pins
    BY <1>1, <1>2 DEF CallInv
  <2>2. OldRules' = rules[peer] /\ OldPins' = OldPins /\ PinsLeft' = pins'
    BY <1>2, <2>1 DEF OldRules, OldPins, PinsLeft
  <2>3. CASE to \in Elems(rules[peer])
    BY <1>2, <2>1, <2>2, <2>3 DEF CallInv
  <2>4. CASE to \notin Elems(rules[peer])
    <3>1. {} \in SUBSET OldPins /\ pins' = PinsLeft' \cup {}  BY <2>2
    <3> QED  BY <1>2, <2>1, <2>2, <2>4, <3>1 DEF CallInv
  <2> QED  BY <2>3, <2>4
<1> QED  BY <1>3, <1>4, <1>5, <1>6, <1>7 DEF IInv

\* Pins to the old upstreams are added one by one, until none is missing.
LEMMA PinInv == ASSUME IInv, Pin PROVE IInv'
<1>1. TypeOK /\ RulesInv /\ MoveInv /\ FlowInv /\ CallInv  BY DEF IInv
<1>2. /\ at = "pin"
      /\ tables' = tables /\ alive' = alive /\ allowed' = allowed /\ rules' = rules
      /\ fwUps' = fwUps /\ peer' = peer /\ to' = to /\ before' = before
      /\ via' = via /\ mark' = mark /\ excused' = excused /\ unpinned' = unpinned
  BY DEF Pin, flowVars, ghostVars
<1>3. /\ before.allowed = allowed /\ before.rules \in [Ips -> Seq(Ups)]
      /\ before.rules = rules /\ to \notin Elems(OldRules)
  BY <1>1, <1>2 DEF CallInv
<1>4. PICK added \in SUBSET OldPins : pins = PinsLeft \cup added  BY <1>1, <1>2 DEF CallInv
<1>5. /\ OldRules' = OldRules /\ OldPins' = OldPins /\ PinsLeft' = PinsLeft
      /\ NewPins(peer) = OldPins
  BY <1>2, <1>3 DEF OldRules, OldPins, PinsLeft, NewPins
<1>6. CASE NewPins(peer) \subseteq pins /\ at' = "add" /\ pins' = pins
  <2>1. DpTypeOK' /\ RulesInv'  BY <1>1, <1>2, <1>6 DEF TypeOK, DpTypeOK, RulesInv
  <2>2. TypeOK'  BY <1>1, <1>2, <1>6, <2>1 DEF TypeOK
  <2>3. MoveInv'  BY <1>1, <1>2, <1>6 DEF MoveInv, NewPins
  <2>4. FlowInv'  BY <1>1, <1>2, <1>6, FlowFrame DEF flowVars, ghostVars
  <2>5. pins = PinsLeft \cup OldPins  BY <1>4, <1>5, <1>6
  <2>6. CallInv'  BY <1>2, <1>3, <1>5, <1>6, <2>5 DEF CallInv
  <2> QED  BY <2>1, <2>2, <2>3, <2>4, <2>6 DEF IInv
<1>7. CASE at' = at /\ \E pin \in NewPins(peer) \ pins : pins' = pins \cup {pin}
  <2>1. PICK pin \in NewPins(peer) : pins' = pins \cup {pin}  BY <1>7
  <2>2. pin \in Ips \X Ups
    <3>1. peer \in Ips /\ rules[peer] \in Seq(Ups) /\ alive \subseteq Ups
      BY <1>1, <1>2 DEF TypeOK, DpTypeOK
    <3> QED  BY <3>1 DEF NewPins
  <2>3. DpTypeOK' /\ RulesInv'  BY <1>1, <1>2, <2>1, <2>2 DEF TypeOK, DpTypeOK, RulesInv
  <2>4. TypeOK'  BY <1>1, <1>2, <1>7, <2>3 DEF TypeOK
  <2>5. MoveInv'  BY <1>1, <1>2, <1>7 DEF MoveInv
  <2>6. FlowInv'  BY <1>1, <1>2, <2>1, FlowFrame DEF flowVars, ghostVars
  <2>7. added \cup {pin} \in SUBSET OldPins /\ pins' = PinsLeft \cup (added \cup {pin})
    BY <1>4, <1>5, <2>1
  <2>8. CallInv'  BY <1>2, <1>3, <1>5, <1>7, <2>7 DEF CallInv
  <2> QED  BY <2>3, <2>4, <2>5, <2>6, <2>8 DEF IInv
<1> QED  BY <1>6, <1>7 DEF Pin

\* The new rule goes behind the old ones.
LEMMA AddRuleInv == ASSUME IInv, AddRule PROVE IInv'
<1>1. TypeOK /\ RulesInv /\ MoveInv /\ FlowInv /\ CallInv  BY DEF IInv
<1>2. /\ at = "add" /\ at' = "delete" /\ rules' = [rules EXCEPT ![peer] = Append(@, to)]
      /\ tables' = tables /\ alive' = alive /\ allowed' = allowed /\ pins' = pins
      /\ fwUps' = fwUps /\ peer' = peer /\ to' = to /\ before' = before
      /\ via' = via /\ mark' = mark /\ excused' = excused /\ unpinned' = unpinned
  BY DEF AddRule, flowVars, ghostVars
<1>3. /\ peer \in Ips /\ to \in Ups /\ to \in tables /\ rules \in [Ips -> Seq(Ups)]
      /\ rules[peer] \in Seq(Ups)
  BY <1>1, <1>2 DEF TypeOK, DpTypeOK
<1>4. Distinct(rules[peer]) /\ to \notin Elems(rules[peer]) /\ Elems(rules[peer]) \subseteq tables
  BY <1>1, <1>2, <1>3 DEF RulesInv, MoveInv
<1> DEFINE new == Append(rules[peer], to)
<1>5. /\ new \in Seq(Ups) /\ Distinct(new) /\ Elems(new) = Elems(rules[peer]) \cup {to}
      /\ rules[peer] # <<>> => new # <<>> /\ Head(new) = Head(rules[peer])
  BY <1>3, <1>4, AppendFacts
<1>6. rules' = [rules EXCEPT ![peer] = new]  BY <1>2
<1> HIDE DEF new
<1>7. rules'[peer] = new /\ \A ip \in Ips : ip # peer => rules'[ip] = rules[ip]  BY <1>3, <1>6
<1>8. DpTypeOK'
  <2>1. rules' \in [Ips -> Seq(Ups)]  BY <1>3, <1>5, <1>6
  <2> QED  BY <1>1, <1>2, <2>1 DEF TypeOK, DpTypeOK
<1>9. TypeOK'  BY <1>1, <1>2, <1>8 DEF TypeOK
<1>10. RulesInv'
  <2> SUFFICES ASSUME NEW ip \in Ips PROVE Distinct(rules'[ip]) /\ Elems(rules'[ip]) \subseteq tables
    BY <1>2 DEF RulesInv
  <2>1. CASE ip = peer  BY <1>3, <1>4, <1>5, <1>7, <2>1
  <2>2. CASE ip # peer  BY <1>1, <1>7, <2>2 DEF RulesInv
  <2> QED  BY <2>1, <2>2
<1>11. MoveInv'
  <2>1. NewPins(peer) \subseteq pins \cup {<<peer, to>>}  BY <1>1, <1>2 DEF MoveInv
  <2>2. Elems(rules'[peer]) = Elems(rules[peer]) \cup {to}  BY <1>5, <1>7
  <2>3. NewPins(peer)' \subseteq NewPins(peer) \cup {<<peer, to>>}  BY <1>2, <2>2 DEF NewPins
  <2> QED  BY <1>2, <2>1, <2>2, <2>3 DEF MoveInv
<1>12. FlowInv'
  <2>1. \A ip \in Ips : rules[ip] # <<>> => rules'[ip] # <<>> /\ Head(rules'[ip]) = Head(rules[ip])
    BY <1>5, <1>7
  <2> QED  BY <1>1, <1>2, <2>1, FlowFrame DEF flowVars, ghostVars
<1>13. CallInv'
  <2>1. /\ before.allowed = allowed /\ before.rules \in [Ips -> Seq(Ups)] /\ before.rules = rules
        /\ to \notin Elems(OldRules) /\ pins = PinsLeft \cup OldPins
    BY <1>1, <1>2 DEF CallInv
  <2>2. OldRules' = OldRules /\ OldPins' = OldPins /\ PinsLeft' = PinsLeft /\ OldRules = rules[peer]
    BY <1>2, <2>1 DEF OldRules, OldPins, PinsLeft
  <2>3. \E tail \in Tails(OldRules) \cup {<<>>} :
          rules' = [before.rules EXCEPT ![peer] = Append(tail, to)]
    <3>1. CASE OldRules = <<>>  BY <1>2, <2>1, <2>2, <3>1
    <3>2. CASE OldRules # <<>>
      <4>1. OldRules \in Tails(OldRules)
        <5>1. 1 \in DOMAIN OldRules /\ SubSeq(OldRules, 1, Len(OldRules)) = OldRules
          BY <1>3, <2>2, <3>2
        <5> QED  BY <5>1 DEF Tails
      <4> QED  BY <1>2, <2>1, <2>2, <4>1
    <3> QED  BY <3>1, <3>2
  <2> QED  BY <1>2, <2>1, <2>2, <2>3 DEF CallInv
<1> QED  BY <1>9, <1>10, <1>11, <1>12, <1>13 DEF IInv

\* What is left of the old rules is what some deletion stops at.
LEMMA TailOfTails ==
  ASSUME NEW s \in Seq(Ups), NEW t \in Tails(s)
  PROVE  t \in Seq(Ups) /\ t # <<>> /\ Head(t) \in Elems(s) /\ Tail(t) \in Tails(s) \cup {<<>>}
<1>1. PICK k \in DOMAIN s : t = SubSeq(s, k, Len(s))  BY DEF Tails
<1>2. /\ Len(s) \in Nat /\ DOMAIN s = 1 .. Len(s) /\ k \in 1 .. Len(s)
      /\ t \in Seq(Ups) /\ Len(t) = Len(s) - k + 1
      /\ \A i \in 1 .. Len(s) - k + 1 : t[i] = s[k + i - 1]
  BY <1>1, TailsType
<1>3. t # <<>>  BY <1>2
<1>4. Head(t) \in Elems(s)
  <2>1. Head(t) = t[1] /\ 1 \in 1 .. Len(s) - k + 1 /\ k + 1 - 1 = k  BY <1>2, <1>3
  <2> QED  BY <1>2, <2>1 DEF Elems
<1>5. /\ Tail(t) \in Seq(Ups) /\ Len(Tail(t)) = Len(s) - k
      /\ \A i \in 1 .. Len(s) - k : Tail(t)[i] = t[i + 1]
  BY <1>2, <1>3
<1>6. ASSUME k = Len(s) PROVE Tail(t) = <<>>
  <2> DEFINE x == Tail(t)
  <2>1. x \in Seq(Ups) /\ Len(x) = 0  BY <1>2, <1>5, <1>6
  <2> HIDE DEF x
  <2>2. x = <<>>  BY <2>1
  <2> QED  BY <2>2 DEF x
<1>7. ASSUME k < Len(s) PROVE Tail(t) \in Tails(s)
  <2> DEFINE r == SubSeq(s, k + 1, Len(s))
  <2>1. r \in Tails(s)
    <3>1. k + 1 \in DOMAIN s  BY <1>2, <1>7
    <3> QED  BY <3>1 DEF Tails
  <2>2. /\ r \in Seq(Ups) /\ Len(r) = Len(s) - k
        /\ \A i \in 1 .. Len(s) - k : r[i] = s[k + 1 + i - 1]
    <3>1. r \in Seq(Ups)  BY <2>1, TailsType
    <3> QED  BY <1>2, <1>7, <3>1
  <2> HIDE DEF r
  <2>3. ASSUME NEW i \in 1 .. Len(s) - k PROVE Tail(t)[i] = r[i]
    <3>1. i + 1 \in 1 .. Len(s) - k + 1 /\ k + 1 + i - 1 = k + (i + 1) - 1  BY <1>2
    <3> QED  BY <1>2, <1>5, <2>2, <3>1
  <2>4. Tail(t) = r  BY <1>5, <2>2, <2>3, SeqEqual
  <2> QED  BY <2>1, <2>4
<1>8. k = Len(s) \/ k < Len(s)  BY <1>2
<1> QED  BY <1>2, <1>3, <1>4, <1>6, <1>7, <1>8, Zenon

\* The first rule that is not the new one goes; its flows are pinned.
LEMMA DeleteOldInv == ASSUME IInv, DeleteOld PROVE IInv'
<1>1. TypeOK /\ RulesInv /\ MoveInv /\ FlowInv /\ CallInv  BY DEF IInv
<1>2. /\ at = "delete"
      /\ tables' = tables /\ alive' = alive /\ allowed' = allowed /\ pins' = pins
      /\ fwUps' = fwUps /\ peer' = peer /\ to' = to /\ before' = before
      /\ via' = via /\ mark' = mark /\ excused' = excused /\ unpinned' = unpinned
  BY DEF DeleteOld, flowVars, ghostVars
<1> DEFINE old == rules[peer]
<1>3. /\ peer \in Ips /\ to \in Ups /\ to \in tables /\ rules \in [Ips -> Seq(Ups)]
      /\ old \in Seq(Ups) /\ alive \subseteq Ups
  BY <1>1, <1>2 DEF TypeOK, DpTypeOK
<1>4. Distinct(old) /\ Elems(old) \subseteq tables /\ to \in Elems(old)
  BY <1>1, <1>2, <1>3 DEF RulesInv, MoveInv
<1>5. old # <<>>  BY <1>4 DEF Elems
<1>6. /\ before.allowed = allowed /\ before.rules \in [Ips -> Seq(Ups)]
      /\ to \notin Elems(OldRules) /\ pins = PinsLeft \cup OldPins
  BY <1>1, <1>2 DEF CallInv
<1>7. PICK tail \in Tails(OldRules) \cup {<<>>} :
        rules = [before.rules EXCEPT ![peer] = Append(tail, to)]
  BY <1>1, <1>2 DEF CallInv
<1>8. OldRules' = OldRules /\ OldPins' = OldPins /\ PinsLeft' = PinsLeft /\ OldRules \in Seq(Ups)
  BY <1>2, <1>3, <1>6 DEF OldRules, OldPins, PinsLeft
<1>9. old = Append(tail, to)  BY <1>3, <1>6, <1>7
<1>10. CASE Head(old) = to /\ at' = "authorize" /\ rules' = rules
  <2>1. DpTypeOK' /\ RulesInv'  BY <1>1, <1>2, <1>10 DEF TypeOK, DpTypeOK, RulesInv
  <2>2. TypeOK'  BY <1>1, <1>2, <1>10, <2>1 DEF TypeOK
  <2>3. MoveInv'  BY <1>2, <1>4, <1>10 DEF MoveInv
  <2>4. FlowInv'  BY <1>1, <1>2, <1>10, FlowFrame DEF flowVars, ghostVars
  <2>5. tail = <<>>
    <3> SUFFICES ASSUME tail \in Tails(OldRules) PROVE FALSE  BY <1>7
    <3>1. Head(old) = Head(tail) /\ Head(tail) \in Elems(OldRules)
      <4>1. tail \in Seq(Ups) /\ tail # <<>> /\ Head(tail) \in Elems(OldRules)
        BY <1>8, TailOfTails
      <4> QED  BY <1>9, <4>1, HeadTailAppend
    <3> QED  BY <1>6, <1>10, <3>1
  <2>6. rules = [before.rules EXCEPT ![peer] = <<to>>]
    <3>1. Append(<<>>, to) = <<to>>  OBVIOUS
    <3> QED  BY <1>7, <2>5, <3>1
  <2>7. CallInv'  BY <1>2, <1>6, <1>8, <1>10, <2>6 DEF CallInv
  <2> QED  BY <2>1, <2>2, <2>3, <2>4, <2>7 DEF IInv
<1>11. CASE Head(old) # to /\ at' = at /\ rules' = [rules EXCEPT ![peer] = Tail(old)]
  <2> DEFINE new == Tail(old)
  <2>1. /\ new \in Seq(Ups) /\ Distinct(new) /\ Elems(new) \subseteq Elems(old)
        /\ \A u \in Elems(old) : u # Head(old) => u \in Elems(new)
    BY <1>3, <1>4, <1>5, TailFacts
  <2>2. rules' = [rules EXCEPT ![peer] = new]  BY <1>11
  <2> HIDE DEF new
  <2>3. rules'[peer] = new /\ \A ip \in Ips : ip # peer => rules'[ip] = rules[ip]  BY <1>3, <2>2
  <2>4. DpTypeOK'
    <3>1. rules' \in [Ips -> Seq(Ups)]  BY <1>3, <2>1, <2>2
    <3> QED  BY <1>1, <1>2, <3>1 DEF TypeOK, DpTypeOK
  <2>5. TypeOK'  BY <1>1, <1>2, <1>11, <2>4 DEF TypeOK
  <2>6. RulesInv'
    <3> SUFFICES ASSUME NEW ip \in Ips
                 PROVE  Distinct(rules'[ip]) /\ Elems(rules'[ip]) \subseteq tables
      BY <1>2 DEF RulesInv
    <3>1. CASE ip = peer  BY <1>4, <2>1, <2>3, <3>1
    <3>2. CASE ip # peer  BY <1>1, <2>3, <3>2 DEF RulesInv
    <3> QED  BY <3>1, <3>2
  <2>7. NewPins(peer) \subseteq pins \cup {<<peer, to>>}  BY <1>1, <1>2 DEF MoveInv
  <2>8. MoveInv'
    <3>1. to \in Elems(new)  BY <1>4, <1>11, <2>1
    <3>2. NewPins(peer)' \subseteq NewPins(peer)  BY <1>2, <2>1, <2>3 DEF NewPins
    <3> QED  BY <1>2, <1>11, <2>3, <2>7, <3>1, <3>2 DEF MoveInv
  <2>9. FlowInv'
    <3> SUFFICES ASSUME NEW f \in Flows, via[f] # None
                 PROVE  /\ Source[f] \notin allowed \/ via[f] \notin alive => f \in excused
                        /\ f \notin excused \cup unpinned => Sticks(f)'
      BY <1>2 DEF FlowInv
    <3>1. ASSUME f \notin excused \cup unpinned PROVE Sticks(f)'
      <4>1. Sticks(f) /\ via[f] \in alive /\ Source[f] \in Ips
        BY <1>1, <3>1, TrafficAssumption DEF FlowInv
      <4>2. CASE <<Source[f], via[f]>> \in pins  BY <1>2, <4>2 DEF Sticks
      <4>3. CASE Source[f] # peer  BY <1>2, <2>3, <4>1, <4>3 DEF Sticks
      <4>4. CASE Source[f] = peer /\ Head(old) = via[f]
        <5>1. via[f] \in Elems(old)
          <6>1. 1 \in DOMAIN old /\ Head(old) = old[1]  BY <1>3, <1>5
          <6> QED  BY <4>4, <6>1 DEF Elems
        <5>2. <<peer, via[f]>> \in NewPins(peer)  BY <4>1, <5>1 DEF NewPins
        <5>3. <<peer, via[f]>> \in pins  BY <1>11, <2>7, <4>4, <5>2
        <5> QED  BY <1>2, <4>4, <5>3 DEF Sticks
      <4> QED  BY <4>1, <4>2, <4>3, <4>4 DEF Sticks
    <3> QED  BY <1>1, <3>1 DEF FlowInv
  <2>10. CallInv'
    <3>1. tail \in Tails(OldRules)
      <4> SUFFICES ASSUME tail = <<>> PROVE FALSE  BY <1>7
      <4>1. old = <<to>>  BY <1>9
      <4> QED  BY <1>11, <4>1
    <3> DEFINE rest == Tail(tail)
    <3>2. rest \in Tails(OldRules) \cup {<<>>} /\ new = Append(rest, to)
      <4>1. tail \in Seq(Ups) /\ tail # <<>> /\ rest \in Tails(OldRules) \cup {<<>>}
        BY <1>8, <3>1, TailOfTails
      <4>2. Tail(Append(tail, to)) = Append(rest, to)  BY <4>1, HeadTailAppend
      <4> QED  BY <1>9, <4>1, <4>2, Zenon DEF new
    <3> HIDE DEF rest
    <3>3. rules' = [before.rules EXCEPT ![peer] = Append(rest, to)]
      BY <1>3, <1>6, <1>7, <2>2, <3>2
    <3>4. \E left \in Tails(OldRules) \cup {<<>>} :
            rules' = [before.rules EXCEPT ![peer] = Append(left, to)]
      BY <3>2, <3>3, Zenon
    <3>5. at' = "delete"  BY <1>2, <1>11
    <3> QED  BY <1>2, <1>6, <1>8, <3>4, <3>5 DEF CallInv
  <2> QED  BY <2>5, <2>6, <2>8, <2>9, <2>10 DEF IInv
<1> QED  BY <1>10, <1>11 DEF DeleteOld

\* Flows through the target are back on their way when Route returns.
LEMMA AuthorizeInv == ASSUME IInv, Authorize PROVE IInv'
<1>1. TypeOK /\ RulesInv /\ MoveInv /\ FlowInv  BY DEF IInv
<1> DEFINE follow == IF Head(rules[peer]) = to THEN FlowsOf(peer) \cap Through(to) ELSE {}
<1>2. /\ at = "authorize" /\ at' = "idle" /\ allowed' = allowed \cup {peer}
      /\ excused' = excused \ follow /\ unpinned' = unpinned \ follow
      /\ tables' = tables /\ alive' = alive /\ rules' = rules /\ pins' = pins /\ fwUps' = fwUps
      /\ via' = via /\ mark' = mark
  BY DEF Authorize, Idle, Authorized, flowVars
<1>3. peer \in Ips /\ to \in alive /\ to \in Elems(rules[peer])
  BY <1>1, <1>2 DEF TypeOK, MoveInv
<1>4. DpTypeOK' /\ RulesInv'  BY <1>1, <1>2, <1>3 DEF TypeOK, DpTypeOK, RulesInv
<1>5. TypeOK'
  <2> HIDE DEF follow
  <2>1. excused' \subseteq Flows /\ unpinned' \subseteq Flows  BY <1>1, <1>2 DEF TypeOK
  <2> QED  BY <1>1, <1>2, <1>4, <2>1 DEF TypeOK
<1>6. MoveInv' /\ CallInv'  BY <1>2 DEF MoveInv, CallInv
<1>7. FlowInv'
  <2> SUFFICES ASSUME NEW f \in Flows, via[f] # None
               PROVE  /\ Source[f] \notin allowed' \/ via[f] \notin alive => f \in excused'
                      /\ f \notin excused' \cup unpinned' => Sticks(f)'
    BY <1>2 DEF FlowInv
  <2>1. Sticks(f) => Sticks(f)'  BY <1>2 DEF Sticks
  <2>2. CASE f \in follow
    <3>1. Source[f] = peer /\ via[f] = to /\ Head(rules[peer]) = to
      BY <2>2 DEF FlowsOf, Through
    <3>2. rules[peer] # <<>>  BY <1>3 DEF Elems
    <3> QED  BY <1>2, <1>3, <2>1, <3>1, <3>2 DEF Sticks
  <2>3. CASE f \notin follow
    <3> HIDE DEF follow
    <3> QED  BY <1>1, <1>2, <2>1, <2>3 DEF FlowInv
  <2> QED  BY <2>2, <2>3
<1> QED  BY <1>4, <1>5, <1>6, <1>7 DEF IInv

\* A request that fails leaves everything where it is.
LEMMA RouteFailedInv == ASSUME IInv, RouteFailed PROVE IInv'
<1>1. TypeOK /\ RulesInv /\ FlowInv  BY DEF IInv
<1>2. /\ at' = "idle" /\ UNCHANGED <<flowVars, ghostVars>>
      /\ tables' = tables /\ alive' = alive /\ allowed' = allowed /\ rules' = rules /\ pins' = pins
      /\ fwUps' = fwUps
  BY DEF RouteFailed, Idle, dpVars
<1>3. DpTypeOK' /\ RulesInv'  BY <1>1, <1>2 DEF TypeOK, DpTypeOK, RulesInv
<1>4. TypeOK'  BY <1>1, <1>2, <1>3 DEF TypeOK, flowVars, ghostVars
<1>5. FlowInv'  BY <1>1, <1>2, FlowFrame
<1>6. MoveInv' /\ CallInv'  BY <1>2 DEF MoveInv, CallInv
<1> QED  BY <1>3, <1>4, <1>5, <1>6 DEF IInv

-----------------------------------------------------------------------------
(* The other calls                                                         *)

\* Unrouting an address excuses its flows and touches no other.
LEMMA UnrouteInv == ASSUME IInv, NEW ip \in Ips, UnrouteCall(ip) PROVE IInv'
<1>1. TypeOK /\ DpTypeOK /\ RulesInv /\ FlowInv  BY DEF IInv, TypeOK
<1>2. /\ at = "idle" /\ UNCHANGED callVars /\ via' = via /\ mark' = mark /\ unpinned' = unpinned
      /\ excused' = excused \cup FlowsOf(ip)
      /\ Unroute(ip) \/ UnrouteFails(ip)
  BY DEF UnrouteCall, flowVars
<1>3. at' = "idle" /\ MoveInv' /\ CallInv'  BY <1>2, IdleFrame
<1>4. DpTypeOK'  BY <1>1, <1>2, UnrouteStep, UnrouteFailsStep
<1>5. /\ tables' = tables /\ alive' = alive
      /\ \A j \in Ips : j # ip => (j \in allowed' <=> j \in allowed) /\ rules'[j] = rules[j]
      /\ \A u : \A j \in Ips : j # ip => (<<j, u>> \in pins' <=> <<j, u>> \in pins)
      /\ rules'[ip] \in {rules[ip], <<>>} \cup Tails(rules[ip])
  <2>1. rules \in [Ips -> Seq(Ups)]  BY <1>1 DEF DpTypeOK
  <2>2. CASE Unroute(ip)  BY <2>1, <2>2 DEF Unroute, PinsOf
  <2>3. CASE RevokeFails(ip)  BY <2>3 DEF RevokeFails, dpVars
  <2>4. CASE CleanupFails(ip)
    <3>1. tables' = tables /\ alive' = alive /\ allowed' = allowed \ {ip}  BY <2>4 DEF CleanupFails
    <3>2. pins \ PinsOf(ip) \subseteq pins' /\ pins' \subseteq pins
      BY <2>4 DEF CleanupFails, PinsOf
    <3>3. \A u : \A j \in Ips : j # ip => (<<j, u>> \in pins' <=> <<j, u>> \in pins)
      BY <3>2 DEF PinsOf
    <3>4. rules' = rules \/ \E tail \in Tails(rules[ip]) : rules' = [rules EXCEPT ![ip] = tail]
      BY <2>4 DEF CleanupFails
    <3> QED  BY <2>1, <3>1, <3>3, <3>4
  <2> QED  BY <1>2, <2>2, <2>3, <2>4 DEF UnrouteFails
<1>6. TypeOK'
  <2>1. excused' \subseteq Flows  BY <1>1, <1>2 DEF TypeOK, FlowsOf
  <2> QED  BY <1>1, <1>2, <1>3, <1>4, <2>1 DEF TypeOK
<1>7. RulesInv'
  <2> SUFFICES ASSUME NEW j \in Ips PROVE Distinct(rules'[j]) /\ Elems(rules'[j]) \subseteq tables
    BY <1>5 DEF RulesInv
  <2>1. /\ Distinct(rules[j]) /\ Elems(rules[j]) \subseteq tables /\ rules[j] \in Seq(Ups)
    BY <1>1 DEF RulesInv, DpTypeOK
  <2>2. CASE rules'[j] = rules[j]  BY <2>1, <2>2
  <2>3. CASE rules'[j] = <<>>  BY <2>3 DEF Distinct, Elems
  <2>4. CASE rules'[j] \in Tails(rules[j])  BY <2>1, <2>4, TailsFacts
  <2> QED  BY <1>5, <2>2, <2>3, <2>4
<1>8. FlowInv'
  <2> SUFFICES ASSUME NEW f \in Flows, via[f] # None, f \notin FlowsOf(ip)
               PROVE  /\ Source[f] \notin allowed' \/ via[f] \notin alive => f \in excused'
                      /\ f \notin excused' \cup unpinned => Sticks(f)'
    BY <1>2, <1>5 DEF FlowInv
  <2>1. Source[f] \in Ips /\ Source[f] # ip  BY TrafficAssumption DEF FlowsOf
  <2>2. Sticks(f) => Sticks(f)'  BY <1>2, <1>5, <2>1 DEF Sticks
  <2> QED  BY <1>1, <1>2, <1>5, <2>1, <2>2 DEF FlowInv
<1> QED  BY <1>3, <1>6, <1>7, <1>8 DEF IInv

\* A dead upstream loses its pins, whose flows are excused; one that comes back
\* has none left that is not.
LEMMA SetAliveInv ==
  ASSUME IInv, NEW u \in Ups, NEW up \in BOOLEAN, SetAliveCall(u, up)
  PROVE  IInv'
<1>1. TypeOK /\ DpTypeOK /\ RulesInv /\ FlowInv  BY DEF IInv, TypeOK
<1>2. /\ at = "idle" /\ UNCHANGED callVars /\ via' = via /\ mark' = mark /\ unpinned' = unpinned
      /\ excused' = (IF up THEN excused ELSE excused \cup Through(u))
      /\ SetAlive(u, up) \/ SetAliveFails(u, up)
  BY DEF SetAliveCall, flowVars
<1>3. at' = "idle" /\ MoveInv' /\ CallInv'  BY <1>2, IdleFrame
<1>4. DpTypeOK'  BY <1>1, <1>2, SetAliveStep
<1>5. /\ tables' = tables /\ allowed' = allowed /\ rules' = rules
      /\ alive' = (IF up THEN alive \cup {u} ELSE alive \ {u})
      /\ up => pins' = pins
      /\ \A j, v : v # u => (<<j, v>> \in pins' <=> <<j, v>> \in pins)
  <2>1. CASE SetAlive(u, up)  BY <2>1 DEF SetAlive, PinsTo
  <2>2. CASE SetAliveFails(u, up)  BY <2>2 DEF SetAliveFails, PinsTo
  <2> QED  BY <1>2, <2>1, <2>2
<1>6. TypeOK'
  <2>1. excused' \subseteq Flows  BY <1>1, <1>2 DEF TypeOK, Through
  <2> QED  BY <1>1, <1>2, <1>3, <1>4, <2>1 DEF TypeOK
<1>7. RulesInv'  BY <1>1, <1>5 DEF RulesInv
<1>8. FlowInv'
  <2> SUFFICES ASSUME NEW f \in Flows, via[f] # None
               PROVE  /\ Source[f] \notin allowed \/ via[f] \notin alive' => f \in excused'
                      /\ f \notin excused' \cup unpinned => Sticks(f)'
    BY <1>2, <1>5 DEF FlowInv
  <2>1. CASE up
    <3>1. Sticks(f) => Sticks(f)'  BY <1>2, <1>5, <2>1 DEF Sticks
    <3> QED  BY <1>1, <1>2, <1>5, <2>1, <3>1 DEF FlowInv
  <2>2. CASE ~up /\ via[f] = u
    <3>1. f \in excused'  BY <1>2, <2>2 DEF Through
    <3> QED  BY <3>1
  <2>3. CASE ~up /\ via[f] # u
    <3>1. Sticks(f) => Sticks(f)'  BY <1>2, <1>5, <2>3 DEF Sticks
    <3>2. f \in excused' <=> f \in excused  BY <1>2, <2>3 DEF Through
    <3> QED  BY <1>1, <1>2, <1>5, <2>3, <3>1, <3>2 DEF FlowInv
  <2> QED  BY <2>1, <2>2, <2>3
<1> QED  BY <1>3, <1>6, <1>7, <1>8 DEF IInv

\* A reload takes the flows of the upstreams it removes and no first rule of
\* the others.
LEMMA SetUpstreamsInv == ASSUME IInv, NEW S \in SUBSET Ups, SetUpstreamsCall(S) PROVE IInv'
<1>1. TypeOK /\ DpTypeOK /\ RulesInv /\ FlowInv  BY DEF IInv, TypeOK
<1> DEFINE F == UNION {Through(u) : u \in Ups \ S}
<1>2. /\ at = "idle" /\ UNCHANGED callVars /\ Forget(F)
      /\ excused' = excused /\ unpinned' = unpinned /\ SetUpstreams(S)
  BY DEF SetUpstreamsCall, ghostVars
<1>3. at' = "idle" /\ MoveInv' /\ CallInv'  BY <1>2, IdleFrame
<1>4. DpTypeOK'  BY <1>1, <1>2, SetUpstreamsStep
<1>5. /\ tables' = S /\ alive' = alive \cap S /\ allowed' = allowed
      /\ pins' = {pin \in pins : pin[2] \in S}
      /\ \A ip \in Ips : rules'[ip] \in Survivors(rules[ip], Ups \ S)
  BY <1>2 DEF SetUpstreams
<1>6. /\ via \in [Flows -> Ups \cup {None}] /\ mark = via
      /\ via' = [f \in Flows |-> IF f \in F THEN None ELSE via[f]]
      /\ mark' = [f \in Flows |-> IF f \in F THEN None ELSE mark[f]]
  BY <1>1, <1>2 DEF TypeOK, Forget
<1>7. TypeOK'
  <2>1. via' \in [Flows -> Ups \cup {None}] /\ mark' = via'
    <3> HIDE DEF F
    <3> QED  BY <1>6
  <2> QED  BY <1>1, <1>2, <1>3, <1>4, <2>1 DEF TypeOK
<1>8. ASSUME NEW ip \in Ips
      PROVE  /\ Distinct(rules'[ip]) /\ Elems(rules'[ip]) = Elems(rules[ip]) \ (Ups \ S)
             /\ rules[ip] # <<>> /\ Head(rules[ip]) \in S =>
                  rules'[ip] # <<>> /\ Head(rules'[ip]) = Head(rules[ip])
  <2>1. rules[ip] \in Seq(Ups) /\ Distinct(rules[ip])  BY <1>1 DEF RulesInv, DpTypeOK
  <2> QED  BY <1>5, <2>1, SurvivorsKeep
<1>9. RulesInv'
  <2>1. \A ip \in Ips : Elems(rules[ip]) \subseteq Ups  BY <1>1 DEF RulesInv, DpTypeOK
  <2> QED  BY <1>5, <1>8, <2>1 DEF RulesInv
<1>10. FlowInv'
  <2> SUFFICES ASSUME NEW f \in Flows, via'[f] # None
               PROVE  /\ Source[f] \notin allowed \/ via'[f] \notin alive' => f \in excused
                      /\ f \notin excused \cup unpinned => Sticks(f)'
    BY <1>2, <1>5 DEF FlowInv
  <2>1. via'[f] = via[f] /\ f \notin F  BY <1>6
  <2>2. via[f] \in S  BY <1>6, <2>1 DEF Through
  <2>3. Source[f] \in Ips  BY TrafficAssumption
  <2>4. Sticks(f) => Sticks(f)'  BY <1>5, <1>8, <2>1, <2>2, <2>3 DEF Sticks
  <2> QED  BY <1>1, <1>5, <2>1, <2>2, <2>4 DEF FlowInv
<1> QED  BY <1>3, <1>7, <1>9, <1>10 DEF IInv

-----------------------------------------------------------------------------
(* The invariant                                                           *)

\* Without rules and flows there is nothing to keep.
LEMMA InitInv == Init => IInv
<1> SUFFICES ASSUME Init PROVE IInv  OBVIOUS
<1>1. /\ tables = Ups /\ alive = {} /\ allowed = {} /\ pins = {} /\ fwUps = Ups
      /\ rules = [ip \in Ips |-> <<>>]
      /\ at = "idle" /\ excused = {} /\ unpinned = {}
      /\ via = [f \in Flows |-> None] /\ mark = [f \in Flows |-> None]
  BY DEF Init, DpInit
<1>2. DpTypeOK
  <2>1. <<>> \in Seq(Ups)  OBVIOUS
  <2>2. rules \in [Ips -> Seq(Ups)]  BY <1>1, <2>1
  <2> QED  BY <1>1, <2>2 DEF DpTypeOK
<1>3. TypeOK  BY <1>1, <1>2 DEF TypeOK
<1>4. RulesInv  BY <1>1 DEF RulesInv, Distinct, Elems
<1>5. MoveInv /\ FlowInv /\ CallInv  BY <1>1 DEF MoveInv, FlowInv, CallInv
<1> QED  BY <1>3, <1>4, <1>5 DEF IInv

\* Every request, call and packet keeps the invariant.
LEMMA NextInv == IInv /\ [Next]_vars => IInv'
<1> SUFFICES ASSUME IInv, [Next]_vars PROVE IInv'  OBVIOUS
<1>1. CASE RouteSteps
  BY <1>1, RouteBeginInv, UnpinInv, PinInv, AddRuleInv, DeleteOldInv, AuthorizeInv, RouteFailedInv
  DEF RouteSteps
<1>2. CASE Calls  BY <1>2, UnrouteInv, SetAliveInv, SetUpstreamsInv DEF Calls
<1>3. ASSUME NEW f \in Flows, Opens(f) PROVE IInv'  BY <1>3, OpensInv
<1>4. ASSUME NEW f \in Flows, Resets(f) \/ Ends(f) PROVE IInv'
  BY <1>4, ForgetInv DEF Resets, Ends
<1>5. CASE UNCHANGED vars
  <2>1. /\ UNCHANGED <<dpVars, callVars, flowVars, ghostVars>> /\ allowed' = allowed
        /\ alive' = alive /\ rules' = rules /\ pins' = pins /\ tables' = tables /\ at' = at
        /\ peer' = peer /\ to' = to
    BY <1>5 DEF vars, dpVars, callVars
  <2>2. TypeOK /\ RulesInv /\ MoveInv /\ FlowInv /\ CallInv  BY DEF IInv
  <2>3. DpTypeOK' /\ RulesInv' /\ MoveInv' /\ CallInv'  BY <2>1, <2>2, PacketFrame
  <2>4. TypeOK'  BY <2>1, <2>2, <2>3 DEF TypeOK, flowVars, ghostVars
  <2>5. FlowInv'  BY <2>1, <2>2, FlowFrame
  <2> QED  BY <2>3, <2>4, <2>5 DEF IInv
<1> QED  BY <1>1, <1>2, <1>3, <1>4, <1>5 DEF Next, Packets

-----------------------------------------------------------------------------
(* The theorems                                                            *)

\* An open flow keeps its upstream between any two requests, for any number of
\* upstreams, clients, flows and failures (Route, Unroute, SetAlive,
\* SetUpstreams and restore_mark).
THEOREM ConnectionsKeepTheirUpstream == Spec => []FlowsStick
<1>1. IInv => FlowsStick
  <2> SUFFICES ASSUME IInv, NEW f \in Flows, via[f] \in alive, f \notin excused \cup unpinned
               PROVE  Hop(f) = via[f]
    BY DEF FlowsStick
  <2>1. TypeOK /\ FlowInv  BY DEF IInv
  <2>2. via[f] # None  BY <2>1, TrafficAssumption DEF TypeOK, DpTypeOK
  <2> QED  BY <2>1, <2>2, HopFacts DEF FlowInv
<1> QED  BY <1>1, InitInv, NextInv, PTL DEF Spec

\* A client never loses its last rule while it stays admitted, whichever
\* request fails (Route adds the new rule before it deletes the old one).
THEOREM RulesNeverVanish == Spec => MakeBeforeBreak
<1> DEFINE Keeps == \A ip \in allowed \cap allowed' :
                      tables' = tables /\ rules[ip] # <<>> => rules'[ip] # <<>>
<1>1. IInv /\ [Next]_vars => [Keeps]_vars
  <2> SUFFICES ASSUME IInv, Next, NEW ip \in allowed, ip \in allowed', tables' = tables,
                      rules[ip] # <<>>
               PROVE  rules'[ip] # <<>>
    OBVIOUS
  <2>1. /\ DpTypeOK /\ RulesInv /\ MoveInv /\ rules \in [Ips -> Seq(Ups)] /\ ip \in Ips
        /\ at # "idle" => peer \in Ips
    BY DEF IInv, TypeOK, DpTypeOK
  <2>2. CASE rules' = rules  BY <2>2
  <2>3. CASE AddRule
    <3>1. rules' = [rules EXCEPT ![peer] = Append(@, to)] /\ at = "add" /\ to \in Ups
      BY <2>3 DEF AddRule, IInv, TypeOK, DpTypeOK
    <3>2. Append(rules[peer], to) # <<>>  BY <2>1, <3>1, AppendProperties
    <3> QED  BY <2>1, <3>1, <3>2
  <2>4. CASE DeleteOld
    <3>1. at = "delete" /\ to \in Elems(rules[peer])  BY <2>1, <2>4 DEF DeleteOld, MoveInv
    <3>2. CASE Head(rules[peer]) # to /\ rules' = [rules EXCEPT ![peer] = Tail(@)]
      <4>1. rules[peer] \in Seq(Ups) /\ Distinct(rules[peer]) /\ rules[peer] # <<>>
        BY <2>1, <3>1 DEF RulesInv, Elems
      <4>2. to \in Elems(Tail(rules[peer]))  BY <3>1, <3>2, <4>1, TailFacts
      <4>3. Tail(rules[peer]) # <<>>  BY <4>2 DEF Elems
      <4> QED  BY <2>1, <3>1, <3>2, <4>3
    <3> QED  BY <2>2, <2>4, <3>2 DEF DeleteOld
  <2>5. ASSUME NEW j \in Ips, UnrouteCall(j) PROVE rules'[ip] # <<>>
    <3>1. CASE Unroute(j)  BY <2>1, <2>5, <3>1 DEF Unroute
    <3>2. CASE RevokeFails(j)  BY <3>2 DEF RevokeFails, dpVars
    <3>3. CASE CleanupFails(j)  BY <2>1, <3>3 DEF CleanupFails
    <3> QED  BY <2>5, <3>1, <3>2, <3>3 DEF UnrouteCall, UnrouteFails
  <2>6. ASSUME NEW S \in SUBSET Ups, SetUpstreamsCall(S) PROVE rules'[ip] # <<>>
    <3>1. S = tables /\ rules'[ip] \in Survivors(rules[ip], Ups \ S)
      BY <2>1, <2>6 DEF SetUpstreamsCall, SetUpstreams
    <3>2. rules[ip] \in Seq(Ups) /\ Distinct(rules[ip]) /\ Elems(rules[ip]) \subseteq tables
      BY <2>1 DEF RulesInv
    <3>3. Head(rules[ip]) \in Elems(rules[ip])
      <4>1. 1 \in DOMAIN rules[ip] /\ Head(rules[ip]) = rules[ip][1]  BY <3>2
      <4> QED  BY <4>1 DEF Elems
    <3> QED  BY <3>1, <3>2, <3>3, SurvivorsKeep
  <2>7. CASE RouteSteps
    BY <2>2, <2>3, <2>4, <2>7
    DEF RouteSteps, RouteBegin, Unpin, Pin, Authorize, RouteFailed, dpVars
  <2>8. CASE Calls
    BY <2>2, <2>5, <2>6, <2>8 DEF Calls, SetAliveCall, SetAlive, SetAliveFails
  <2>9. CASE Packets  BY <2>2, <2>9 DEF Packets, Opens, Resets, Ends, dpVars
  <2> QED  BY <2>7, <2>8, <2>9 DEF Next
<1> QED  BY <1>1, InitInv, NextInv, PTL DEF Spec, MakeBeforeBreak

\* A step that is none seen from outside.
LEMMA SeenFrame ==
  ASSUME UNCHANGED <<tables, alive, fwUps>>, Seen' = Seen
  PROVE  UNCHANGED Atomic!dpVars
BY DEF Atomic!dpVars

\* Route returns in a state its one step in Dataplane allows.
LEMMA AuthorizeIsRoute ==
  ASSUME IInv, Authorize
  PROVE  \E ip \in Ips, u \in Ups : Atomic!Route(ip, u)
<1>1. /\ at = "authorize" /\ at' = "idle" /\ allowed' = allowed \cup {peer}
      /\ tables' = tables /\ alive' = alive /\ rules' = rules /\ pins' = pins /\ fwUps' = fwUps
  BY DEF Authorize, Idle, Authorized
<1>2. Seen = before /\ Seen'.rules = rules /\ Seen'.pins = pins /\ Seen'.allowed = allowed \cup {peer}
  BY <1>1 DEF Seen, Kernel
<1>3. peer \in Ips /\ to \in Ups /\ to \in tables  BY <1>1 DEF IInv, TypeOK, DpTypeOK
<1>4. before.allowed = allowed  BY <1>1 DEF IInv, CallInv
<1>5. CASE to \in Elems(OldRules) /\ rules = before.rules /\ pins = PinsLeft
  <2>1. Atomic!AlreadyRouted(peer, to)
    BY <1>1, <1>2, <1>4, <1>5
    DEF Atomic!AlreadyRouted, Atomic!Elems, Atomic!Authorized, Elems, OldRules, PinsLeft
  <2> QED  BY <1>3, <2>1 DEF Atomic!Route
<1>6. CASE /\ to \notin Elems(OldRules) /\ pins = PinsLeft \cup OldPins
           /\ rules = [before.rules EXCEPT ![peer] = <<to>>]
  <2>1. Atomic!MoveRule(peer, to)
    BY <1>1, <1>2, <1>4, <1>6
    DEF Atomic!MoveRule, Atomic!NewPins, Atomic!Elems, Atomic!Authorized, Elems, OldRules,
        PinsLeft, OldPins
  <2> QED  BY <1>3, <2>1 DEF Atomic!Route
<1> QED  BY <1>1, <1>5, <1>6 DEF IInv, CallInv

\* What a failed request leaves is what Dataplane says a failed Route may leave.
LEMMA RouteFailedIsRouteFails ==
  ASSUME IInv, RouteFailed
  PROVE  \E ip \in Ips, u \in Ups : Atomic!RouteFails(ip, u)
<1>1. /\ at # "idle" /\ at' = "idle" /\ allowed' = allowed
      /\ tables' = tables /\ alive' = alive /\ rules' = rules /\ pins' = pins /\ fwUps' = fwUps
      /\ at = "delete" => Head(rules[peer]) # to
      /\ at = "authorize" => peer \notin allowed
  BY DEF RouteFailed, Idle, dpVars
<1>2. Seen = before /\ Seen'.rules = rules /\ Seen'.pins = pins /\ Seen'.allowed = allowed
  BY <1>1 DEF Seen, Kernel
<1>3. peer \in Ips /\ to \in Ups /\ to \in tables  BY <1>1 DEF IInv, TypeOK, DpTypeOK
<1>4. CallInv /\ before.allowed = allowed /\ before.rules \in [Ips -> Seq(Ups)]
  BY <1>1 DEF IInv, CallInv
<1>5. Atomic!NewPins(peer) = OldPins
  BY <1>2 DEF Atomic!NewPins, Atomic!Elems, Elems, OldRules, OldPins
<1>6. CASE at = "unpin"
  <2>1. before.rules = rules /\ before.pins = pins  BY <1>4, <1>6 DEF CallInv
  <2>2. Atomic!RouteFailsEarly
    BY <1>1, <1>2, <1>4, <2>1 DEF Atomic!RouteFailsEarly, Atomic!dpVars
  <2> QED  BY <1>3, <2>2 DEF Atomic!RouteFails
<1>7. CASE at \in {"pin", "add"}
  <2>1. /\ before.rules = rules /\ to \notin Elems(OldRules)
        /\ \E added \in SUBSET OldPins : pins = PinsLeft \cup added
    <3>1. before.rules = rules /\ to \notin Elems(OldRules)  BY <1>4, <1>7 DEF CallInv
    <3>2. CASE at = "pin"  BY <1>4, <3>1, <3>2 DEF CallInv
    <3>3. CASE at = "add"  BY <1>4, <3>1, <3>3 DEF CallInv
    <3> QED  BY <1>7, <3>2, <3>3
  <2>2. PICK added \in SUBSET OldPins : pins = PinsLeft \cup added  BY <2>1
  <2>3. Atomic!RouteFailsAdding(peer, to)
    <3>1. to \notin Atomic!Elems(Seen.rules[peer])
      BY <1>2, <2>1 DEF Atomic!Elems, Elems, OldRules
    <3>2. Seen'.pins = (Seen.pins \ {<<peer, to>>}) \cup added  BY <1>2, <2>2 DEF PinsLeft
    <3> QED  BY <1>1, <1>2, <1>4, <1>5, <2>1, <2>2, <3>1, <3>2 DEF Atomic!RouteFailsAdding
  <2> QED  BY <1>3, <2>3 DEF Atomic!RouteFails
<1>8. CASE at = "delete"
  <2>1. pins = PinsLeft \cup OldPins /\ to \notin Elems(OldRules)  BY <1>4, <1>8 DEF CallInv
  <2>2. PICK tail \in Tails(OldRules) \cup {<<>>} :
          rules = [before.rules EXCEPT ![peer] = Append(tail, to)]
    BY <1>4, <1>8 DEF CallInv
  <2>3. tail # <<>>
    <3> SUFFICES ASSUME tail = <<>> PROVE FALSE  OBVIOUS
    <3>1. rules[peer] = <<to>>  BY <1>3, <1>4, <2>2
    <3> QED  BY <1>1, <1>8, <3>1
  <2>4. tail \in Tails(OldRules)  BY <2>2, <2>3
  <2>5. Atomic!RouteFailsDeleting(peer, to)
    <3>1. to \notin Atomic!Elems(Seen.rules[peer])
      BY <1>2, <2>1 DEF Atomic!Elems, Elems, OldRules
    <3>2. tail \in Atomic!Tails(Seen.rules[peer])  BY <1>2, <2>4 DEF Atomic!Tails, Tails, OldRules
    <3>3. Seen'.pins = (Seen.pins \ {<<peer, to>>}) \cup OldPins  BY <1>2, <2>1 DEF PinsLeft
    <3>4. Seen'.rules = [Seen.rules EXCEPT ![peer] = Append(tail, to)]  BY <1>2, <2>2
    <3> QED
      BY <1>1, <1>2, <1>4, <1>5, <3>1, <3>2, <3>3, <3>4, Zenon DEF Atomic!RouteFailsDeleting
  <2> QED  BY <1>3, <2>5 DEF Atomic!RouteFails
<1>9. CASE at = "authorize"
  <2>1. Atomic!AuthorizeFails(peer, to)
    BY <1>1, <1>2, <1>4, <1>9
    DEF Atomic!AuthorizeFails, Atomic!NewPins, Atomic!Elems, Elems, OldRules, OldPins, PinsLeft,
        CallInv
  <2> QED  BY <1>3, <2>1 DEF Atomic!RouteFails
<1> QED  BY <1>1, <1>6, <1>7, <1>8, <1>9 DEF IInv, TypeOK

\* The dataplane the daemon's model calls in one step is what the requests add up
\* to: every call implements one of the outcomes Dataplane lists, and packets and
\* requests in between are not seen (d.mu).
THEOREM RequestsImplementCalls == Spec => CallsAreAtomic
<1> DEFINE Call ==
      \/ \E ip \in Ips, u \in Ups : Atomic!Route(ip, u) \/ Atomic!RouteFails(ip, u)
      \/ \E ip \in Ips : Atomic!Unroute(ip) \/ Atomic!UnrouteFails(ip)
      \/ \E u \in Ups, up \in BOOLEAN : Atomic!SetAlive(u, up) \/ Atomic!SetAliveFails(u, up)
      \/ \E S \in SUBSET Ups : Atomic!SetUpstreams(S)
<1>1. IInv /\ [Next]_vars => [Call]_(Atomic!dpVars)
  <2> SUFFICES ASSUME IInv, [Next]_vars PROVE Call \/ UNCHANGED Atomic!dpVars  OBVIOUS
  <2>1. CASE Authorize  BY <2>1, AuthorizeIsRoute
  <2>2. CASE RouteFailed  BY <2>2, RouteFailedIsRouteFails
  <2>3. CASE Unpin \/ Pin \/ AddRule \/ DeleteOld
    <3>1. at # "idle" /\ at' # "idle" /\ before' = before /\ UNCHANGED <<tables, alive, fwUps>>
      BY <2>3 DEF Unpin, Pin, AddRule, DeleteOld
    <3> QED  BY <3>1, SeenFrame DEF Seen
  <2>4. ASSUME NEW ip \in Ips, NEW u \in Ups, RouteBegin(ip, u) PROVE UNCHANGED Atomic!dpVars
    BY <2>4, SeenFrame DEF RouteBegin, dpVars, Seen
  <2>5. CASE Packets \/ UNCHANGED vars
    <3>1. UNCHANGED <<dpVars, callVars>>  BY <2>5 DEF Packets, Opens, Resets, Ends, vars
    <3> QED  BY <3>1, SeenFrame DEF dpVars, callVars, Seen, Kernel
  <2>6. CASE Calls
    <3>1. at = "idle" /\ at' = "idle"
      BY <2>6 DEF Calls, UnrouteCall, SetAliveCall, SetUpstreamsCall, callVars
    <3>2. /\ Seen.rules = rules /\ Seen.pins = pins /\ Seen.allowed = allowed
          /\ Seen'.rules = rules' /\ Seen'.pins = pins' /\ Seen'.allowed = allowed'
      BY <3>1 DEF Seen, Kernel
    <3>3. ASSUME NEW ip \in Ips, UnrouteCall(ip)
          PROVE  Atomic!Unroute(ip) \/ Atomic!UnrouteFails(ip)
      BY <3>2, <3>3
      DEF UnrouteCall, Unroute, UnrouteFails, RevokeFails, CleanupFails, PinsOf, Tails, dpVars,
          Atomic!Unroute, Atomic!UnrouteFails, Atomic!RevokeFails, Atomic!CleanupFails,
          Atomic!PinsOf, Atomic!Tails, Atomic!dpVars
    <3>4. ASSUME NEW u \in Ups, NEW up \in BOOLEAN, SetAliveCall(u, up)
          PROVE  Atomic!SetAlive(u, up) \/ Atomic!SetAliveFails(u, up)
      BY <3>2, <3>4
      DEF SetAliveCall, SetAlive, SetAliveFails, PinsTo, Atomic!SetAlive, Atomic!SetAliveFails,
          Atomic!PinsTo
    <3>5. ASSUME NEW S \in SUBSET Ups, SetUpstreamsCall(S)
          PROVE  Atomic!SetUpstreams(S)
      <4>1. \A s, gone : Atomic!Survivors(s, gone) = Survivors(s, gone)
        BY DEF Atomic!Survivors, Atomic!Elems, Survivors, Elems
      <4>2. Atomic!Sublists = Sublists  BY <3>2, <4>1 DEF Atomic!Sublists, Sublists
      <4>3. SetUpstreams(S)  BY <3>5 DEF SetUpstreamsCall
      <4> QED  BY <3>2, <4>1, <4>2, <4>3 DEF SetUpstreams, Atomic!SetUpstreams
    <3> QED  BY <2>6, <3>3, <3>4, <3>5 DEF Calls
  <2> QED  BY <2>1, <2>2, <2>3, <2>4, <2>5, <2>6 DEF Next, RouteSteps
<1> QED  BY <1>1, InitInv, NextInv, PTL DEF Spec, CallsAreAtomic
=============================================================================
