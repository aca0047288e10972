------------------------------ MODULE Upstream ------------------------------
(***************************************************************************)
(* daemon/upstream.go with awgconf's checks and the device: one upstream   *)
(* from its provider file to the datagrams it sends, wherever they go.     *)
(*                                                                         *)
(* awgconf.Parse checks the numbers of the file for any address family.    *)
(* LoadUpstream resolves the endpoint, checks them again for its family    *)
(* and hands the file to the device.  From then on the device sends, and   *)
(* after every failed probe RefreshEndpoint looks the name up again.       *)
(*                                                                         *)
(* The sender is the AmneziaWG library, as the checks' comments describe   *)
(* it: it prepends S1 to S3 padding to the handshake messages and S4 to    *)
(* transport packets, draws the sizes of junk packets from Jmin to below   *)
(* Jmax, and makes one packet of each of I1 to I5 that has tags.  A string *)
(* is the sequence of its tags, empty if it has none.  The provider serves *)
(* from one address at a time and moves when it likes; the record of its   *)
(* name follows in its own time.                                           *)
(***************************************************************************)
EXTENDS Integers, Sequences, FiniteSets

CONSTANTS Slots,     \* number of I strings, five in the code
          Files,     \* provider files to load
          V4, V6,    \* addresses of either family
          Name,      \* an endpoint that is a hostname
          None,
          MaxFaults  \* lookups, requests and answered probes that fail

Limit4 == 65507
Limit6 == 65527
DefaultWireGuard == 1420

Addrs == V4 \cup V6

TagNames == {"t", "d", "b", "r", "other"}
Tags == [name : TagNames, n : Int]

FileType ==
  [S1 : Nat, S2 : Nat, S3 : Nat, S4 : Nat, Jc : Nat, Jmin : Nat, Jmax : Nat,
   I : [1 .. Slots -> Seq(Tags)], MTU : Int, endpoint : Addrs \cup {Name}]

ASSUME UpstreamAssumption ==
  /\ Slots \in 0 .. 127 /\ Files \subseteq FileType
  /\ V4 \cap V6 = {} /\ Name \notin Addrs /\ None \notin Addrs
  /\ MaxFaults \in Nat

VARIABLES
  file,     \* the provider file
  stage,    \* "parse", "tags", "load", "mtu", "configure", "up" or "refused"
  limit,    \* payloadMax of the checks under way
  loading,  \* LoadUpstream is checking, not Parse
  slot,     \* I string the check or the sender is at
  pos,      \* its next tag
  total,    \* length of the tags before it
  totals,   \* observation: per string, the lengths before each tag, as checked
  size      \* of the datagram the sender is building or has sent

VARIABLES
  conf,     \* u.Conf.Peers[0].Endpoint, once resolved
  device,   \* where the device sends
  provider, \* where the provider is
  dns,      \* what its name resolves to
  pc,       \* a goroutine of probeAll: "idle", "failed" or "resolved"
  resolved, \* its lookup's answer, or None
  faults

checks == <<stage, limit, loading, slot, pos, total, totals>>
world == <<provider, dns>>
refresh == <<pc, resolved, faults>>
vars == <<file, checks, size, conf, device, world, refresh>>

-----------------------------------------------------------------------------
(* The checks                                                              *)

\* The largest junk packet: the bound is exclusive unless the range is a point
Largest(f) == IF f.Jmin < f.Jmax THEN f.Jmax - 1 ELSE f.Jmax

Signatures(f) == {i \in 1 .. Slots : f.I[i] # <<>>}

BatchOK(f) ==
  f.Jc > 0 => f.Jmin <= f.Jmax /\ f.Jc + 1 + Cardinality(Signatures(f)) <= 128

JunkOK(f, max) == f.Jc > 0 => Largest(f) <= max

PaddingOK(f, max) == f.S1 + 148 <= max /\ f.S2 + 92 <= max /\ f.S3 + 64 <= max

Size(tag) == CASE tag.name = "t" -> 4 [] tag.name = "d" -> 0 [] OTHER -> tag.n

\* An unknown tag, or a "b" without bytes
BadTag(tag) == tag.name = "other" \/ (tag.name = "b" /\ tag.n <= 0)
Malformed(string) == \E k \in DOMAIN string : BadTag(string[k])

LinkMTU(f) == IF f.MTU = 0 THEN DefaultWireGuard ELSE f.MTU

MTUOK(f, max) == LinkMTU(f) >= 68 + f.S4 /\ LinkMTU(f) <= max - 32 - f.S4

-----------------------------------------------------------------------------
(* Loading                                                                 *)

Unchecked == [i \in 1 .. Slots |-> <<0>>]

Init ==
  /\ file \in Files
  /\ stage = "parse" /\ limit = Limit6 /\ loading = FALSE
  /\ slot = 1 /\ pos = 1 /\ total = 0 /\ totals = Unchecked /\ size = 0
  /\ conf = None /\ device = None
  /\ provider \in Addrs /\ dns \in Addrs
  /\ pc = "idle" /\ resolved = None /\ faults = 0

Refuse == stage' = "refused" /\ UNCHANGED <<limit, loading, slot, pos, total, totals>>

StartTags ==
  /\ stage' = "tags" /\ slot' = 1 /\ pos' = 1 /\ total' = 0 /\ totals' = Unchecked

Parse ==
  /\ stage = "parse"
  /\ \/ /\ BatchOK(file) /\ JunkOK(file, limit) /\ PaddingOK(file, limit)
        /\ StartTags /\ UNCHANGED <<limit, loading>>
     \/ /\ ~(BatchOK(file) /\ JunkOK(file, limit) /\ PaddingOK(file, limit))
        /\ Refuse
  /\ UNCHANGED <<file, size, conf, device, world, refresh>>

\* What is left of the limit for the next tag
Room == limit - total

\* One tag of checkSignature's sum
CheckTag ==
  /\ stage = "tags" /\ slot <= Slots
  /\ ~Malformed(file.I[slot]) /\ pos <= Len(file.I[slot])
  /\ LET n == Size(file.I[slot][pos])
     IN  \/ /\ n >= 0 /\ n <= Room
            /\ total' = total + n /\ pos' = pos + 1
            /\ totals' = [totals EXCEPT ![slot] = Append(@, total + n)]
            /\ UNCHANGED <<stage, limit, loading, slot>>
         \/ (n < 0 \/ n > Room) /\ Refuse
  /\ UNCHANGED <<file, size, conf, device, world, refresh>>

\* The string is checked, or is none the device would build
NextString ==
  /\ stage = "tags" /\ slot <= Slots
  /\ Malformed(file.I[slot]) \/ pos > Len(file.I[slot])
  /\ slot' = slot + 1 /\ pos' = 1 /\ total' = 0
  /\ UNCHANGED <<file, stage, limit, loading, totals, size, conf, device, world, refresh>>

StringsChecked ==
  /\ stage = "tags" /\ slot > Slots
  /\ stage' = IF loading THEN "mtu" ELSE "load"
  /\ UNCHANGED <<file, limit, loading, slot, pos, total, totals, size, conf, device, world, refresh>>

\* Slip: a name may resolve to either family
AnswersAny(endpoint) == IF endpoint = Name THEN {dns} ELSE {endpoint}

\* resolveEndpoint: a literal is its own answer; a name without an IPv4
\* address has none
Answers(endpoint) == IF endpoint = Name THEN {dns} \cap V4 ELSE {endpoint}

LimitOf(addr) == IF addr \in V4 THEN Limit4 ELSE Limit6

\* LoadUpstream: the endpoint's family decides the limit
Load(addr) ==
  /\ stage = "load" /\ addr \in Answers(file.endpoint)
  /\ loading' = TRUE /\ conf' = addr
  /\ LET max == LimitOf(addr)
     IN  /\ limit' = max
         /\ \/ JunkOK(file, max) /\ PaddingOK(file, max) /\ StartTags
            \/ /\ ~(JunkOK(file, max) /\ PaddingOK(file, max))
               /\ stage' = "refused" /\ UNCHANGED <<slot, pos, total, totals>>
  /\ UNCHANGED <<file, size, device, world, refresh>>

\* The lookup fails, or has no IPv4 address to offer
Unresolved ==
  /\ stage = "load" /\ file.endpoint = Name
  /\ Refuse
  /\ UNCHANGED <<file, size, conf, device, world, refresh>>

CheckMTU ==
  /\ stage = "mtu"
  /\ \/ /\ MTUOK(file, limit) /\ stage' = "configure"
        /\ UNCHANGED <<limit, loading, slot, pos, total, totals>>
     \/ ~MTUOK(file, limit) /\ Refuse
  /\ UNCHANGED <<file, size, conf, device, world, refresh>>

\* The device takes the file, unless it cannot build one of the strings
Configure ==
  /\ stage = "configure"
  /\ \/ /\ \A i \in 1 .. Slots : ~Malformed(file.I[i])
        /\ stage' = "up" /\ slot' = Slots + 1 /\ device' = conf
        /\ UNCHANGED <<limit, loading, pos, total, totals>>
     \/ /\ \E i \in 1 .. Slots : Malformed(file.I[i])
        /\ Refuse /\ UNCHANGED device
  /\ UNCHANGED <<file, size, conf, world, refresh>>

-----------------------------------------------------------------------------
(* The sender                                                              *)

Junk(f) == IF f.Jc = 0 THEN {} ELSE IF f.Jmin = f.Jmax THEN {f.Jmin} ELSE f.Jmin .. f.Jmax - 1
Handshakes(f) == {f.S1 + 148, f.S2 + 92, f.S3 + 64}

\* A keepalive and a full packet
Transport(f) == {32 + f.S4, LinkMTU(f) + 32 + f.S4}

Packets(f) == f.Jc + 1 + Cardinality(Signatures(f))

Sends ==
  /\ stage = "up"
  /\ size' \in Junk(file) \cup Handshakes(file) \cup Transport(file)
  /\ slot' = Slots + 1
  /\ UNCHANGED <<file, stage, limit, loading, pos, total, totals, conf, device, world, refresh>>

\* A signature packet, tag by tag
StartsSignature(i) ==
  /\ stage = "up" /\ i \in Signatures(file)
  /\ slot' = i /\ pos' = 1 /\ size' = 0
  /\ UNCHANGED <<file, stage, limit, loading, total, totals, conf, device, world, refresh>>

AppendsTag ==
  /\ stage = "up" /\ slot <= Slots /\ pos <= Len(file.I[slot])
  /\ size' = size + Size(file.I[slot][pos]) /\ pos' = pos + 1
  /\ UNCHANGED <<file, stage, limit, loading, slot, total, totals, conf, device, world, refresh>>

-----------------------------------------------------------------------------
(* The provider, and RefreshEndpoint                                       *)

\* Init has every address to begin with; moves count once the device is up
Moves(addr) ==
  /\ stage = "up" /\ provider' = addr
  /\ UNCHANGED <<file, checks, size, conf, device, dns, refresh>>

Announces(addr) ==
  /\ stage = "up" /\ dns' = addr
  /\ UNCHANGED <<file, checks, size, conf, device, provider, refresh>>

\* A probe that the provider cannot answer, or is lost
ProbeFails ==
  /\ stage = "up" /\ pc = "idle" /\ pc' = "failed"
  /\ device = provider => faults < MaxFaults
  /\ faults' = IF device = provider THEN faults + 1 ELSE faults
  /\ UNCHANGED <<file, checks, size, conf, device, world, resolved>>

Fails == faults < MaxFaults /\ faults' = faults + 1

\* The first half of RefreshEndpoint: a literal is left alone, and so is an
\* answer that brings nothing new or fails
Lookup ==
  /\ pc = "failed"
  /\ \/ /\ file.endpoint = Name
        /\ \E addr \in Answers(file.endpoint) \ {conf} : pc' = "resolved" /\ resolved' = addr
        /\ UNCHANGED faults
     \/ /\ file.endpoint # Name \/ Answers(file.endpoint) \subseteq {conf}
        /\ pc' = "idle" /\ UNCHANGED <<resolved, faults>>
     \/ /\ file.endpoint = Name /\ Fails
        /\ pc' = "idle" /\ UNCHANGED resolved
  /\ UNCHANGED <<file, checks, size, conf, device, world>>

\* Slip: the new address is recorded before the device has taken it
RepointRecordsFirst ==
  /\ pc = "resolved" /\ pc' = "idle" /\ resolved' = None
  /\ conf' = resolved
  /\ \/ device' = resolved /\ UNCHANGED faults
     \/ Fails /\ UNCHANGED device
  /\ UNCHANGED <<file, checks, size, world>>

\* The second half: the device is told, then the configuration
Repoint ==
  /\ pc = "resolved" /\ pc' = "idle" /\ resolved' = None
  /\ \/ device' = resolved /\ conf' = resolved /\ UNCHANGED faults
     \/ Fails /\ UNCHANGED <<device, conf>>
  /\ UNCHANGED <<file, checks, size, world>>

Next ==
  \/ Parse \/ CheckTag \/ NextString \/ StringsChecked \/ Unresolved \/ CheckMTU \/ Configure
  \/ Sends \/ AppendsTag \/ ProbeFails \/ Lookup \/ Repoint
  \/ \E i \in 1 .. Slots : StartsSignature(i)
  \/ \E addr \in Addrs : Load(addr) \/ Moves(addr) \/ Announces(addr)

Spec == Init /\ [][Next]_vars

\* Rounds go on, and the goroutine that holds d.mu runs on
FairSpec == Spec /\ WF_vars(ProbeFails) /\ WF_vars(Lookup) /\ WF_vars(Repoint)

-----------------------------------------------------------------------------
(* Properties                                                              *)

\* No datagram of a device that is up is longer than a UDP payload of the address
\* family it sends to, after any number of refreshes, no buffer has a negative
\* length, and junk, signatures and initiation fit the batch the library sends at
\* once, though Parse does not count them without junk (CheckWireSizes, Parse).
DatagramsFit ==
  stage = "up" => size \in 0 .. LimitOf(device) /\ Packets(file) <= 128

\* A provider known by name that has moved for good, and whose record says so,
\* is found again, whichever request has failed ("points the running device at it").
FollowsProvider ==
  \A addr \in V4 :
    <>[](file.endpoint = Name /\ stage = "up" /\ provider = addr /\ dns = addr)
    => <>[](device = addr)

\* OPERATIONS.md lists what is rejected and says that these checks do not
\* validate I packet lengths or the size of padded handshake packets.
OnlyDocumentedChecks ==
  stage = "refused" =>
    \/ ~(BatchOK(file) /\ JunkOK(file, limit) /\ MTUOK(file, limit))
    \/ file.endpoint = Name \/ \E i \in 1 .. Slots : Malformed(file.I[i])

-----------------------------------------------------------------------------
(* Strengthening                                                           *)

TypeOK ==
  /\ file \in FileType
  /\ stage \in {"parse", "tags", "load", "mtu", "configure", "up", "refused"}
  /\ limit \in {Limit4, Limit6} /\ loading \in BOOLEAN
  /\ slot \in 1 .. Slots + 1 /\ pos \in Nat \ {0} /\ total \in Nat
  /\ totals \in [1 .. Slots -> Seq(Nat)] /\ size \in Int

\* The first n tags of string i have been summed, within the limit
Summed(i, n) ==
  /\ Len(totals[i]) = n + 1 /\ totals[i][1] = 0
  /\ \A k \in 1 .. n + 1 : totals[i][k] \in 0 .. limit
  /\ \A k \in 1 .. n : totals[i][k + 1] = totals[i][k] + Size(file.I[i][k])

Checked(i) == ~Malformed(file.I[i]) => Summed(i, Len(file.I[i]))

\* The loop of CheckWireSizes: strings before slot are checked, the one at slot
\* up to pos, and later ones not yet
LoopInv ==
  stage = "tags" =>
    /\ \A i \in 1 .. slot - 1 : Checked(i)
    /\ \A i \in slot + 1 .. Slots : totals[i] = <<0>>
    /\ slot <= Slots =>
         /\ pos <= Len(file.I[slot]) + 1
         /\ Summed(slot, pos - 1) /\ total = totals[slot][pos]

InLoad == stage \in {"mtu", "configure", "up"} \/ (stage = "tags" /\ loading)

\* What LoadUpstream has established at each stage
LoadedInv ==
  /\ InLoad => limit = LimitOf(conf) /\ JunkOK(file, limit) /\ PaddingOK(file, limit)
  /\ stage \in {"mtu", "configure", "up"} => \A i \in 1 .. Slots : Checked(i)
  /\ stage \in {"configure", "up"} => MTUOK(file, limit)
  /\ stage \notin {"parse", "refused"} => BatchOK(file)
  /\ stage = "parse" => ~loading

SendInv ==
  /\ stage # "up" => size = 0
  /\ stage = "up" =>
       /\ size \in 0 .. limit
       /\ \A i \in 1 .. Slots : ~Malformed(file.I[i])
       /\ slot <= Slots => pos <= Len(file.I[slot]) + 1 /\ size = totals[slot][pos]

\* The device sends where the configuration says.  A refresh is of a name, and
\* names stay in the family they were checked for.
PeerInv ==
  /\ stage = "up" => device = conf
  /\ InLoad /\ file.endpoint = Name => conf \in V4
  /\ pc # "idle" => stage = "up"
  /\ pc = "resolved" => file.endpoint = Name /\ resolved \in V4

IInv == TypeOK /\ LoopInv /\ LoadedInv /\ SendInv /\ PeerInv
=============================================================================
