---------------------------- MODULE TunnelProofs ----------------------------
(***************************************************************************)
(* The tunnels: no datagram of an upstream exceeds a UDP payload, for any  *)
(* provider file, number of strings and sequence of tags, and for any      *)
(* number of refreshes and failures; the clients' packets fit into those   *)
(* of every upstream; and lm0's socket is one, whoever uses it meanwhile.  *)
(*                                                                         *)
(* Upstream.tla and AddressBind.tla share no name, so both are extended;   *)
(* ClientMTU.tla comes in as an instance with variables of its own.        *)
(***************************************************************************)
EXTENDS Upstream, AddressBind, FiniteSetTheorems, SequenceTheorems, TLAPS

USE DEF Limit4, Limit6

\* sums are the sums of the first n tags of a string, within max
Sums(sums, string, n, max) ==
  /\ sums \in Seq(Nat) /\ Len(sums) = n + 1 /\ sums[1] = 0
  /\ \A k \in 1 .. n + 1 : sums[k] \in 0 .. max
  /\ \A k \in 1 .. n : sums[k + 1] = sums[k] + Size(string[k])

\* A tag the device can build adds its size; the strings of a file are sequences.
LEMMA FileFacts ==
  ASSUME NEW f \in FileType
  PROVE  /\ f.S1 \in Nat /\ f.S2 \in Nat /\ f.S3 \in Nat /\ f.S4 \in Nat
         /\ f.Jc \in Nat /\ f.Jmin \in Nat /\ f.Jmax \in Nat /\ f.MTU \in Int
         /\ \A i \in 1 .. Slots : f.I[i] \in Seq(Tags)
         /\ \A i \in 1 .. Slots, k \in Nat \ {0} :
              k <= Len(f.I[i]) => Size(f.I[i][k]) \in Int
<1>1. /\ f.S1 \in Nat /\ f.S2 \in Nat /\ f.S3 \in Nat /\ f.S4 \in Nat
      /\ f.Jc \in Nat /\ f.Jmin \in Nat /\ f.Jmax \in Nat /\ f.MTU \in Int
      /\ \A i \in 1 .. Slots : f.I[i] \in Seq(Tags)
  BY DEF FileType
<1>2. ASSUME NEW i \in 1 .. Slots, NEW k \in Nat \ {0}, k <= Len(f.I[i])
      PROVE  Size(f.I[i][k]) \in Int
  <2>1. f.I[i] \in Seq(Tags)  BY <1>1
  <2>2. f.I[i][k] \in Tags  BY <2>1, <1>2
  <2> QED  BY <2>2 DEF Tags, Size
<1> QED  BY <1>1, <1>2

\* One more tag that fits keeps the sums of a string within the limit.
LEMMA SumsAppend ==
  ASSUME NEW sums, NEW new, NEW string \in Seq(Tags), NEW n \in Nat, NEW max \in Nat,
         NEW next \in 0 .. max, n < Len(string), Sums(sums, string, n, max),
         next = sums[n + 1] + Size(string[n + 1]),
         new \in Seq(Nat), Len(new) = n + 2, new[n + 2] = next,
         \A k \in 1 .. n + 1 : new[k] = sums[k]
  PROVE  Sums(new, string, n + 1, max)
<1>1. /\ sums \in Seq(Nat) /\ Len(sums) = n + 1 /\ sums[1] = 0
      /\ \A k \in 1 .. n + 1 : sums[k] \in 0 .. max
      /\ \A k \in 1 .. n : sums[k + 1] = sums[k] + Size(string[k])
  BY DEF Sums
<1>2. /\ new \in Seq(Nat) /\ Len(new) = n + 2 /\ new[n + 2] = next
      /\ \A k \in 1 .. n + 1 : new[k] = sums[k]
  OBVIOUS
<1>3. new[1] = 0  BY <1>1, <1>2
<1>4. \A k \in 1 .. n + 2 : new[k] \in 0 .. max
  <2> SUFFICES ASSUME NEW k \in 1 .. n + 2 PROVE new[k] \in 0 .. max  OBVIOUS
  <2>1. CASE k = n + 2  BY <2>1, <1>2
  <2>2. CASE k \in 1 .. n + 1  BY <2>2, <1>1, <1>2
  <2> QED  BY <2>1, <2>2
<1>5. \A k \in 1 .. n + 1 : new[k + 1] = new[k] + Size(string[k])
  <2> SUFFICES ASSUME NEW k \in 1 .. n + 1 PROVE new[k + 1] = new[k] + Size(string[k])  OBVIOUS
  <2>1. CASE k = n + 1  BY <2>1, <1>2
  <2>2. CASE k \in 1 .. n  BY <2>2, <1>1, <1>2
  <2> QED  BY <2>1, <2>2
<1> QED  BY <1>2, <1>3, <1>4, <1>5 DEF Sums

-----------------------------------------------------------------------------
(* The initial states and the steps                                        *)

\* Reading the file starts the invariant.
LEMMA InitInv == Init => IInv
<1> SUFFICES ASSUME Init PROVE IInv  OBVIOUS
<1>1. stage = "parse" /\ limit = Limit6 /\ slot = 1 /\ pos = 1 /\ total = 0 /\ size = 0
      /\ loading = FALSE /\ pc = "idle"
  BY DEF Init, checks
<1>2. totals \in [1 .. Slots -> Seq(Nat)]  BY DEF Init, Unchecked
<1>3. file \in FileType /\ Slots \in Nat  BY UpstreamAssumption DEF Init
<1>4. TypeOK
  <2>1. limit \in {Limit4, Limit6} /\ total \in Nat /\ size \in Int  BY <1>1
  <2>2. slot \in 1 .. Slots + 1 /\ pos \in Nat \ {0}  BY <1>1, <1>3
  <2>3. stage \in {"parse", "tags", "load", "mtu", "configure", "up", "refused"}  BY <1>1
  <2>4. loading \in BOOLEAN
    <3>1. loading = FALSE  BY <1>1
    <3> QED  BY <3>1, Zenon
  <2> QED  BY <1>2, <1>3, <2>1, <2>2, <2>3, <2>4 DEF TypeOK
<1>5. LoopInv /\ SendInv  BY <1>1 DEF LoopInv, SendInv
<1>6. LoadedInv /\ PeerInv  BY <1>1 DEF LoadedInv, PeerInv, InLoad
<1> QED  BY <1>4, <1>5, <1>6 DEF IInv

\* What the checks and the sender rest on, if none of it changes.
LEMMA CheckFrame ==
  ASSUME TypeOK, LoopInv, SendInv, UNCHANGED <<file, checks, size>>
  PROVE  TypeOK' /\ LoopInv' /\ SendInv'
<1>1. /\ file' = file /\ stage' = stage /\ limit' = limit /\ loading' = loading /\ slot' = slot
      /\ pos' = pos /\ total' = total /\ totals' = totals /\ size' = size
  BY DEF checks
<1>2. TypeOK'  BY <1>1 DEF TypeOK
<1>3. LoopInv'  BY <1>1 DEF LoopInv, Checked, Summed
<1>4. SendInv'  BY <1>1 DEF SendInv
<1> QED  BY <1>2, <1>3, <1>4

\* An upstream that is refused sends nothing.
LEMMA RefusedInv ==
  ASSUME IInv, stage # "up", Refuse, UNCHANGED <<file, size, refresh>>
  PROVE  IInv'
<1>1. /\ stage' = "refused" /\ limit' = limit /\ loading' = loading /\ slot' = slot /\ pos' = pos
      /\ total' = total /\ totals' = totals /\ file' = file /\ size' = size /\ pc' = pc
  BY DEF Refuse, refresh
<1>2. TypeOK /\ size = 0 /\ pc = "idle"  BY DEF IInv, SendInv, PeerInv
<1>3. TypeOK'  BY <1>1, <1>2 DEF TypeOK
<1>4. LoopInv' /\ LoadedInv' /\ SendInv' /\ PeerInv'
  BY <1>1, <1>2 DEF LoopInv, LoadedInv, SendInv, PeerInv, InLoad
<1> QED  BY <1>3, <1>4 DEF IInv

\* Starting a pass over the strings: nothing is summed yet.
LEMMA StartsPass ==
  ASSUME TypeOK, StartTags, file' = file, size' = size, limit' \in {Limit4, Limit6},
         loading' \in BOOLEAN
  PROVE  TypeOK' /\ LoopInv'
<1>1. stage' = "tags" /\ slot' = 1 /\ pos' = 1 /\ total' = 0 /\ totals' = Unchecked
  BY DEF StartTags
<1>2. file \in FileType /\ Slots \in Nat /\ size \in Int  BY UpstreamAssumption DEF TypeOK
<1>3. /\ totals' \in [1 .. Slots -> Seq(Nat)]
      /\ \A i \in 1 .. Slots : Len(totals'[i]) = 1 /\ totals'[i] = <<0>> /\ totals'[i][1] = 0
  BY <1>1 DEF Unchecked
<1>4. TypeOK'
  <2>1. slot' \in 1 .. Slots + 1 /\ pos' \in Nat \ {0} /\ total' \in Nat  BY <1>1, <1>2
  <2>2. stage' \in {"parse", "tags", "load", "mtu", "configure", "up", "refused"}  BY <1>1
  <2> QED  BY <1>2, <1>3, <2>1, <2>2 DEF TypeOK
<1>5. LoopInv'
  <2>1. 1 <= Slots => Len(file.I[1]) \in Nat  BY <1>2, FileFacts
  <2>2. Slots >= 1 => \A k \in 1 .. 1 : totals'[1][k] \in 0 .. limit'  BY <1>2, <1>3
  <2> QED  BY <1>1, <1>2, <1>3, <2>1, <2>2 DEF LoopInv, Summed
<1> QED  BY <1>4, <1>5

\* Parse starts the loop over strings, or refuses the file.
LEMMA ParseInv == ASSUME IInv, Parse PROVE IInv'
<1>1. file' = file /\ size' = size /\ UNCHANGED refresh /\ conf' = conf /\ device' = device
  BY DEF Parse
<1>2. CASE Refuse  BY <1>1, <1>2, RefusedInv DEF Parse
<1>3. CASE BatchOK(file) /\ StartTags /\ UNCHANGED <<limit, loading>>
  <2>1. TypeOK /\ stage = "parse" /\ ~loading /\ size = 0 /\ pc = "idle"
    BY DEF IInv, LoadedInv, SendInv, PeerInv, Parse
  <2>2. limit' = limit /\ loading' = loading /\ stage' = "tags" /\ ~loading'
    BY <1>3, <2>1 DEF StartTags
  <2>3. limit' \in {Limit4, Limit6}  BY <2>1, <2>2 DEF TypeOK
  <2>4. loading' \in BOOLEAN  BY <2>1, <2>2 DEF TypeOK
  <2>5. TypeOK' /\ LoopInv'  BY <1>1, <1>3, <2>1, <2>3, <2>4, StartsPass
  <2>6. LoadedInv' /\ SendInv' /\ PeerInv'
    BY <1>1, <1>3, <2>1, <2>2 DEF LoadedInv, SendInv, PeerInv, InLoad, refresh, BatchOK, Signatures
  <2> QED  BY <2>5, <2>6 DEF IInv
<1> QED  BY <1>2, <1>3 DEF Parse

\* LoadUpstream starts it again with the limit of the family.
LEMMA LoadInv == ASSUME IInv, NEW addr \in Addrs, Load(addr) PROVE IInv'
<1>1. /\ file' = file /\ size' = size /\ pc' = pc /\ resolved' = resolved
      /\ conf' = addr /\ limit' = LimitOf(addr) /\ addr \in Answers(file.endpoint)
      /\ loading' = TRUE /\ stage = "load" /\ device' = device
  BY DEF Load, refresh
<1>2. TypeOK /\ BatchOK(file) /\ size = 0 /\ pc = "idle"
  BY <1>1 DEF IInv, LoadedInv, SendInv, PeerInv
<1>3. limit' \in {Limit4, Limit6}  BY <1>1 DEF LimitOf
<1>4. loading' \in BOOLEAN
  <2>1. loading' = TRUE  BY <1>1
  <2> QED  BY <2>1, Zenon
<1>5. CASE JunkOK(file, limit') /\ PaddingOK(file, limit') /\ StartTags
  <2>1. TypeOK' /\ LoopInv'  BY <1>1, <1>2, <1>3, <1>4, <1>5, StartsPass
  <2>2. stage' = "tags"  BY <1>5 DEF StartTags
  <2>3. LoadedInv' /\ SendInv'
    BY <1>1, <1>2, <1>5, <2>2
    DEF LoadedInv, SendInv, InLoad, BatchOK, Signatures, JunkOK, PaddingOK, Largest, LimitOf
  <2>4. PeerInv'  BY <1>1, <1>2, <2>2 DEF PeerInv, Answers
  <2> QED  BY <2>1, <2>3, <2>4 DEF IInv
<1>6. CASE stage' = "refused" /\ UNCHANGED <<slot, pos, total, totals>>
  <2>1. TypeOK'
    BY <1>1, <1>2, <1>3, <1>4, <1>6 DEF TypeOK
  <2>2. LoopInv' /\ LoadedInv' /\ SendInv' /\ PeerInv'
    BY <1>1, <1>2, <1>6 DEF LoopInv, LoadedInv, SendInv, PeerInv, InLoad
  <2> QED  BY <2>1, <2>2 DEF IInv
<1> QED  BY <1>1, <1>5, <1>6 DEF Load

\* A tag that fits is summed; any other ends the load.
LEMMA CheckTagInv == ASSUME IInv, CheckTag PROVE IInv'
<1> DEFINE string == file.I[slot]
           n == Size(string[pos])
<1>1. /\ stage = "tags" /\ slot <= Slots /\ ~Malformed(string) /\ pos <= Len(string)
      /\ file' = file /\ size' = size /\ UNCHANGED <<refresh, conf, device>>
  BY DEF CheckTag
<1>2. TypeOK /\ LoopInv /\ LoadedInv /\ size = 0 /\ pc = "idle" /\ Slots \in Nat
  <2>1. TypeOK /\ LoopInv /\ LoadedInv /\ SendInv /\ PeerInv  BY DEF IInv
  <2>2. size = 0  BY <1>1, <2>1 DEF SendInv
  <2>3. pc = "idle"  BY <1>1, <2>1 DEF PeerInv
  <2> QED  BY <2>1, <2>2, <2>3, UpstreamAssumption
<1>3. slot \in 1 .. Slots /\ pos \in Nat \ {0} /\ file \in FileType  BY <1>1, <1>2 DEF TypeOK
<1>4. string \in Seq(Tags) /\ n \in Int /\ Len(string) \in Nat  BY <1>1, <1>3, FileFacts
<1>5. CASE Refuse  BY <1>1, <1>5, RefusedInv
<1>6. CASE /\ n >= 0 /\ n <= Room
           /\ total' = total + n /\ pos' = pos + 1
           /\ totals' = [totals EXCEPT ![slot] = Append(@, total + n)]
           /\ UNCHANGED <<stage, limit, loading, slot>>
  <2> DEFINE sums == totals[slot]
  <2>1. /\ Len(sums) = pos /\ sums[1] = 0 /\ total = sums[pos]
        /\ \A k \in 1 .. pos : sums[k] \in 0 .. limit
        /\ \A k \in 1 .. pos - 1 : sums[k + 1] = sums[k] + Size(string[k])
    <3>1. Summed(slot, pos - 1) /\ total = totals[slot][pos]  BY <1>1, <1>2 DEF LoopInv
    <3>2. pos - 1 + 1 = pos  BY <1>3
    <3> QED  BY <3>1, <3>2 DEF Summed
  <2>2. sums \in Seq(Nat) /\ limit \in Nat /\ total \in Nat /\ totals \in [1 .. Slots -> Seq(Nat)]
    BY <1>2, <1>3 DEF TypeOK
  <2>3. total + n \in 0 .. limit  BY <1>4, <1>6, <2>2 DEF Room
  <2> DEFINE new == Append(sums, total + n)
  <2>4. /\ new \in Seq(Nat) /\ Len(new) = pos + 1 /\ new[1] = 0 /\ new[pos + 1] = total + n
        /\ \A k \in 1 .. pos + 1 : new[k] \in 0 .. limit
        /\ \A k \in 1 .. pos : new[k + 1] = new[k] + Size(string[k])
    <3> DEFINE m == pos - 1
    <3>1. m \in Nat /\ m < Len(string) /\ m + 1 = pos /\ m + 2 = pos + 1  BY <1>1, <1>3, <1>4
    <3>2. Sums(sums, string, m, limit)  BY <2>1, <2>2, <3>1 DEF Sums
    <3>3. total + n = sums[m + 1] + Size(string[m + 1])  BY <2>1, <3>1
    <3>4. Sums(new, string, m + 1, limit) /\ new[m + 2] = total + n
      <4> DEFINE next == total + n
      <4>1. next \in 0 .. limit /\ next = sums[m + 1] + Size(string[m + 1])  BY <2>3, <3>3
      <4>2. /\ new \in Seq(Nat) /\ Len(new) = m + 2 /\ new[m + 2] = next
            /\ \A k \in 1 .. m + 1 : new[k] = sums[k]
        <5>1. sums \in Seq(Nat) /\ Len(sums) = m + 1 /\ next \in Nat /\ m \in Nat
          BY <2>1, <2>2, <3>1, <4>1
        <5>2. new = Append(sums, next)  OBVIOUS
        <5> HIDE DEF m, sums, next, new
        <5> QED  BY <5>1, <5>2
      <4>3. Sums(new, string, m + 1, limit)
        <5> HIDE DEF m, sums, string, n, next, new
        <5> QED  BY <1>4, <2>2, <3>1, <3>2, <4>1, <4>2, SumsAppend
      <4> QED  BY <4>2, <4>3
    <3> HIDE DEF m, new, n
    <3> QED  BY <3>1, <3>4 DEF Sums
  <2>5. /\ stage' = stage /\ limit' = limit /\ loading' = loading /\ slot' = slot /\ pos' = pos + 1
        /\ total' = total + n /\ totals' = [totals EXCEPT ![slot] = new]
        /\ file' = file /\ size' = size
    BY <1>1, <1>6
  <2>6. totals'[slot] = new /\ \A i \in 1 .. Slots : i # slot => totals'[i] = totals[i]
    BY <1>3, <2>2, <2>5
  <2>7. TypeOK'
    <3>1. total' \in Nat /\ pos' \in Nat \ {0}  BY <1>3, <2>3, <2>5, <2>2
    <3>2. totals' \in [1 .. Slots -> Seq(Nat)]
      <4> HIDE DEF new
      <4> QED  BY <1>3, <2>2, <2>4, <2>5
    <3> HIDE DEF new, n
    <3> QED  BY <1>2, <2>5, <3>1, <3>2 DEF TypeOK
  <2>8. LoopInv'
    <3> HIDE DEF new, n
    <3>1. \A i \in 1 .. slot - 1 : i \in 1 .. Slots /\ i # slot /\ Checked(i)
      BY <1>1, <1>2, <1>3 DEF LoopInv
    <3>2. \A i \in slot + 1 .. Slots : totals'[i] = <<0>>
      BY <1>1, <1>2, <1>3, <2>6 DEF LoopInv
    <3>3. \A i \in 1 .. slot - 1 : Checked(i)'
      BY <2>5, <2>6, <3>1 DEF Checked, Summed
    <3>4. Summed(slot, pos - 1)'
      <4>1. slot' = slot /\ pos' - 1 = pos  BY <2>5, <1>3
      <4> QED  BY <4>1, <2>4, <2>5, <2>6 DEF Summed
    <3>5. pos' <= Len(file'.I[slot']) + 1  BY <1>1, <1>3, <1>4, <2>5
    <3>6. total' = totals'[slot'][pos']  BY <2>4, <2>5, <2>6
    <3> QED  BY <2>5, <3>2, <3>3, <3>4, <3>5, <3>6 DEF LoopInv
  <2>9. LoadedInv' /\ SendInv' /\ PeerInv'
    BY <1>1, <1>2, <2>5
    DEF LoadedInv, SendInv, PeerInv, IInv, InLoad, refresh, BatchOK, Signatures, JunkOK,
        PaddingOK, Largest, LimitOf
  <2> QED  BY <2>7, <2>8, <2>9 DEF IInv
<1> QED  BY <1>5, <1>6 DEF CheckTag

\* A string that has been passed is checked, unless the device would not build it.
LEMMA NextStringInv == ASSUME IInv, NextString PROVE IInv'
<1>1. /\ stage = "tags" /\ slot <= Slots
      /\ (Malformed(file.I[slot]) \/ pos > Len(file.I[slot]))
      /\ slot' = slot + 1 /\ pos' = 1 /\ total' = 0
      /\ file' = file /\ stage' = stage /\ limit' = limit /\ loading' = loading
      /\ totals' = totals /\ size' = size /\ UNCHANGED <<conf, device, refresh>>
  BY DEF NextString
<1>2. TypeOK /\ LoopInv /\ size = 0 /\ Slots \in Nat
  BY <1>1, UpstreamAssumption DEF IInv, SendInv
<1>3. slot \in 1 .. Slots /\ pos \in Nat \ {0} /\ file \in FileType /\ limit \in Nat
  BY <1>1, <1>2 DEF TypeOK
<1>4. TypeOK'
  <2>1. slot' \in 1 .. Slots + 1 /\ pos' \in Nat \ {0} /\ total' \in Nat  BY <1>1, <1>2, <1>3
  <2> QED  BY <1>1, <1>2, <2>1 DEF TypeOK
<1>5. LoopInv'
  <2>1. Len(file.I[slot]) \in Nat  BY <1>3, FileFacts
  <2>2. Checked(slot)
    <3>1. SUFFICES ASSUME ~Malformed(file.I[slot]) PROVE Summed(slot, Len(file.I[slot]))
      BY DEF Checked
    <3>2. pos - 1 = Len(file.I[slot])  BY <1>1, <1>2, <1>3, <2>1, <3>1 DEF LoopInv
    <3> QED  BY <1>1, <1>2, <3>2 DEF LoopInv
  <2>3. \A i \in 1 .. slot : Checked(i)
    <3> SUFFICES ASSUME NEW i \in 1 .. slot PROVE Checked(i)  OBVIOUS
    <3>1. CASE i = slot  BY <2>2, <3>1
    <3>2. CASE i \in 1 .. slot - 1  BY <1>1, <1>2, <3>2 DEF LoopInv
    <3> QED  BY <1>3, <3>1, <3>2
  <2>4. \A i \in slot + 1 .. Slots : totals[i] = <<0>>  BY <1>1, <1>2 DEF LoopInv
  <2>5. slot' <= Slots => Summed(slot, pos - 1)' /\ total' = totals'[slot'][pos']
    <3> SUFFICES ASSUME slot + 1 <= Slots
                 PROVE  Summed(slot, pos - 1)' /\ total' = totals'[slot'][pos']
      BY <1>1
    <3>1. totals[slot + 1] = <<0>>  BY <1>3, <2>4
    <3>2. Len(totals[slot + 1]) = 1 /\ totals[slot + 1][1] = 0  BY <3>1
    <3>3. \A k \in 1 .. 1 : totals[slot + 1][k] \in 0 .. limit  BY <1>3, <3>2
    <3> QED  BY <1>1, <3>2, <3>3 DEF Summed
  <2>6. slot' <= Slots => pos' <= Len(file'.I[slot']) + 1
    <3>1. slot + 1 <= Slots => Len(file.I[slot + 1]) \in Nat  BY <1>3, FileFacts
    <3> QED  BY <1>1, <3>1
  <2>7. \A i \in 1 .. slot' - 1 : Checked(i)'
    <3>1. slot' - 1 = slot  BY <1>1, <1>3
    <3> QED  BY <1>1, <2>3, <3>1 DEF Checked, Summed
  <2>8. \A i \in slot' + 1 .. Slots : totals'[i] = <<0>>  BY <1>1, <1>3, <2>4
  <2> QED  BY <2>5, <2>6, <2>7, <2>8 DEF LoopInv
<1>6. LoadedInv'
  BY <1>1 DEF LoadedInv, IInv, InLoad, BatchOK, Signatures, JunkOK, PaddingOK, Largest, LimitOf
<1>7. SendInv' /\ PeerInv'  BY <1>1, <1>2 DEF SendInv, PeerInv, IInv, InLoad, refresh
<1> QED  BY <1>4, <1>5, <1>6, <1>7 DEF IInv

\* After the last one all strings are checked.
LEMMA StringsCheckedInv == ASSUME IInv, StringsChecked PROVE IInv'
<1>1. /\ stage = "tags" /\ slot > Slots /\ stage' = (IF loading THEN "mtu" ELSE "load")
      /\ file' = file /\ limit' = limit /\ loading' = loading /\ slot' = slot /\ pos' = pos
      /\ total' = total /\ totals' = totals /\ size' = size /\ UNCHANGED <<conf, device, refresh>>
  BY DEF StringsChecked
<1>2. TypeOK /\ LoopInv /\ size = 0 /\ Slots \in Nat /\ pc = "idle"
  BY <1>1, UpstreamAssumption DEF IInv, SendInv, PeerInv
<1>3. stage' \in {"mtu", "load"} /\ (stage' = "mtu" => loading)  BY <1>1
<1>4. TypeOK'  BY <1>1, <1>2, <1>3 DEF TypeOK
<1>5. \A i \in 1 .. Slots : Checked(i)
  <2>1. slot = Slots + 1  BY <1>1, <1>2 DEF TypeOK
  <2> QED  BY <1>1, <1>2, <2>1 DEF LoopInv
<1>6. stage' = "mtu" => \A i \in 1 .. Slots : Checked(i)'
  BY <1>1, <1>5 DEF Checked, Summed
<1>7. LoadedInv'
  BY <1>1, <1>3, <1>6
  DEF LoadedInv, IInv, InLoad, BatchOK, Signatures, JunkOK, PaddingOK, Largest, LimitOf
<1>8. LoopInv' /\ SendInv' /\ PeerInv'
  BY <1>1, <1>2, <1>3 DEF LoopInv, SendInv, PeerInv, IInv, InLoad, refresh
<1> QED  BY <1>4, <1>7, <1>8 DEF IInv

\* A refused file is not loaded.
LEMMA UnresolvedInv == ASSUME IInv, Unresolved PROVE IInv'
BY RefusedInv DEF Unresolved

\* The last check of LoadUpstream.
LEMMA CheckMTUInv == ASSUME IInv, CheckMTU PROVE IInv'
<1>1. /\ stage = "mtu" /\ file' = file /\ size' = size /\ UNCHANGED <<conf, device, refresh>>
  BY DEF CheckMTU
<1>2. CASE Refuse  BY <1>1, <1>2, RefusedInv DEF refresh
<1>3. CASE /\ MTUOK(file, limit) /\ stage' = "configure"
           /\ UNCHANGED <<limit, loading, slot, pos, total, totals>>
  <2>1. TypeOK /\ LoadedInv /\ size = 0 /\ pc = "idle"  BY <1>1 DEF IInv, SendInv, PeerInv
  <2>2. TypeOK'  BY <1>1, <1>3, <2>1 DEF TypeOK
  <2>3. \A i \in 1 .. Slots : Checked(i)'  BY <1>1, <1>3, <2>1 DEF LoadedInv, Checked, Summed
  <2>4. LoadedInv'
    BY <1>1, <1>3, <2>1, <2>3
    DEF LoadedInv, InLoad, BatchOK, Signatures, JunkOK, PaddingOK, Largest, LimitOf, MTUOK, LinkMTU
  <2>5. LoopInv' /\ SendInv' /\ PeerInv'
    BY <1>1, <1>3, <2>1 DEF LoopInv, SendInv, PeerInv, IInv, InLoad, refresh
  <2> QED  BY <2>2, <2>4, <2>5 DEF IInv
<1> QED  BY <1>2, <1>3 DEF CheckMTU

\* The device takes no file with a string it cannot build.
LEMMA ConfigureInv == ASSUME IInv, Configure PROVE IInv'
<1>1. /\ stage = "configure" /\ file' = file /\ size' = size /\ UNCHANGED <<conf, refresh>>
  BY DEF Configure
<1>2. CASE Refuse  BY <1>1, <1>2, RefusedInv
<1>3. CASE /\ \A i \in 1 .. Slots : ~Malformed(file.I[i])
           /\ stage' = "up" /\ slot' = Slots + 1 /\ device' = conf
           /\ UNCHANGED <<limit, loading, pos, total, totals>>
  <2>1. TypeOK /\ LoadedInv /\ size = 0 /\ pc = "idle" /\ Slots \in Nat /\ limit \in Nat
    BY <1>1, UpstreamAssumption DEF IInv, SendInv, PeerInv, TypeOK
  <2>2. TypeOK'
    <3>1. slot' \in 1 .. Slots + 1  BY <1>3, <2>1
    <3> QED  BY <1>1, <1>3, <2>1, <3>1 DEF TypeOK
  <2>3. \A i \in 1 .. Slots : Checked(i)'  BY <1>1, <1>3, <2>1 DEF LoadedInv, Checked, Summed
  <2>4. LoadedInv'
    BY <1>1, <1>3, <2>1, <2>3
    DEF LoadedInv, InLoad, BatchOK, Signatures, JunkOK, PaddingOK, Largest, LimitOf, MTUOK, LinkMTU
  <2>5. SendInv'
    <3>1. size' \in 0 .. limit' /\ ~(slot' <= Slots)  BY <1>1, <1>3, <2>1
    <3> QED  BY <1>1, <1>3, <3>1 DEF SendInv
  <2>6. LoopInv' /\ PeerInv'
    BY <1>1, <1>3, <2>1 DEF LoopInv, PeerInv, IInv, InLoad, refresh
  <2> QED  BY <2>2, <2>4, <2>5, <2>6 DEF IInv
<1> QED  BY <1>2, <1>3 DEF Configure

\* What LoadUpstream has established, if the addresses do not change either.
LEMMA LoadedFrame ==
  ASSUME LoadedInv, file' = file, stage' = stage, limit' = limit, loading' = loading,
         totals' = totals, stage = "up", LimitOf(conf)' = LimitOf(conf)
  PROVE  LoadedInv'
<1>1. limit = LimitOf(conf) /\ JunkOK(file, limit) /\ PaddingOK(file, limit) /\ MTUOK(file, limit)
      /\ BatchOK(file) /\ \A i \in 1 .. Slots : Checked(i)
  BY DEF LoadedInv, InLoad
<1>2. \A i \in 1 .. Slots : Checked(i)'  BY <1>1 DEF Checked, Summed
<1> QED
  BY <1>1, <1>2
  DEF LoadedInv, InLoad, BatchOK, Signatures, JunkOK, PaddingOK, Largest, MTUOK, LinkMTU

-----------------------------------------------------------------------------
(* The sender                                                              *)

\* Junk, handshake messages and transport packets are as long as was checked.
LEMMA SendsInv == ASSUME IInv, Sends PROVE IInv'
<1>1. /\ stage = "up" /\ size' \in Junk(file) \cup Handshakes(file) \cup Transport(file)
      /\ slot' = Slots + 1 /\ file' = file /\ stage' = stage /\ limit' = limit
      /\ loading' = loading /\ pos' = pos /\ total' = total /\ totals' = totals
      /\ conf' = conf /\ device' = device /\ UNCHANGED refresh
  BY DEF Sends
<1>2. TypeOK /\ LoadedInv /\ PeerInv /\ Slots \in Nat  BY UpstreamAssumption DEF IInv
<1>3. /\ file \in FileType /\ limit \in Nat
      /\ \A i \in 1 .. Slots : ~Malformed(file.I[i])
  BY <1>1, <1>2 DEF TypeOK, IInv, SendInv
<1>4. JunkOK(file, limit) /\ PaddingOK(file, limit) /\ MTUOK(file, limit) /\ BatchOK(file)
  BY <1>1, <1>2 DEF LoadedInv, InLoad
<1>5. size' \in 0 .. limit
  <2>1. /\ file.S1 \in Nat /\ file.S2 \in Nat /\ file.S3 \in Nat /\ file.S4 \in Nat
        /\ file.Jc \in Nat /\ file.Jmin \in Nat /\ file.Jmax \in Nat /\ file.MTU \in Int
    BY <1>3, FileFacts
  <2>2. CASE size' \in Junk(file)
    <3>1. file.Jc > 0 /\ file.Jmin <= file.Jmax /\ Largest(file) <= limit
      BY <1>4, <2>1, <2>2 DEF Junk, JunkOK, BatchOK
    <3>2. size' \in Nat /\ size' <= Largest(file)  BY <2>1, <2>2, <3>1 DEF Junk, Largest
    <3>3. Largest(file) \in Int  BY <2>1 DEF Largest
    <3> QED  BY <1>3, <3>1, <3>2, <3>3
  <2>3. CASE size' \in Handshakes(file)
    BY <1>3, <1>4, <2>1, <2>3 DEF Handshakes, PaddingOK
  <2>4. CASE size' \in Transport(file)
    <3> DEFINE mtu == LinkMTU(file)
    <3>1. mtu \in Int  BY <2>1 DEF LinkMTU, DefaultWireGuard
    <3>2. mtu >= 68 + file.S4 /\ mtu <= limit - 32 - file.S4  BY <1>4 DEF MTUOK
    <3>3. size' = 32 + file.S4 \/ size' = mtu + 32 + file.S4  BY <2>4 DEF Transport
    <3> HIDE DEF mtu
    <3> QED  BY <1>3, <2>1, <3>1, <3>2, <3>3
  <2> QED  BY <1>1, <2>2, <2>3, <2>4
<1>6. TypeOK'
  <2>1. slot' \in 1 .. Slots + 1 /\ size' \in Int  BY <1>1, <1>2, <1>5
  <2> QED  BY <1>1, <1>2, <2>1 DEF TypeOK
<1>7. SendInv'
  <2>1. ~(slot' <= Slots)  BY <1>1, <1>2
  <2> QED  BY <1>1, <1>3, <1>5, <2>1 DEF SendInv
<1>8. LoopInv' /\ PeerInv'  BY <1>1, <1>2 DEF LoopInv, PeerInv, InLoad, refresh
<1>9. LoadedInv'  BY <1>1, <1>2, LoadedFrame DEF LimitOf
<1> QED  BY <1>6, <1>7, <1>8, <1>9 DEF IInv

\* What the check of a string the device can build has left in totals.
LEMMA StringSummed ==
  ASSUME IInv, stage = "up", NEW i \in 1 .. Slots
  PROVE  Summed(i, Len(file.I[i])) /\ file.I[i] \in Seq(Tags) /\ Len(file.I[i]) \in Nat
<1>1. ~Malformed(file.I[i]) /\ Checked(i) /\ file \in FileType
  BY DEF IInv, SendInv, LoadedInv, TypeOK
<1> QED  BY <1>1, FileFacts DEF Checked

\* A signature packet starts empty.
LEMMA StartsSignatureInv ==
  ASSUME IInv, NEW i \in 1 .. Slots, StartsSignature(i)
  PROVE  IInv'
<1>1. /\ stage = "up" /\ slot' = i /\ pos' = 1 /\ size' = 0
      /\ file' = file /\ stage' = stage /\ limit' = limit /\ loading' = loading
      /\ total' = total /\ totals' = totals
      /\ conf' = conf /\ device' = device /\ UNCHANGED refresh
  BY DEF StartsSignature
<1>2. TypeOK /\ LoadedInv /\ PeerInv /\ Slots \in Nat  BY UpstreamAssumption DEF IInv
<1>3. limit \in Nat /\ \A j \in 1 .. Slots : ~Malformed(file.I[j])
  BY <1>1, <1>2 DEF TypeOK, IInv, SendInv
<1>4. totals[i][1] = 0 /\ Len(file.I[i]) \in Nat  BY <1>1, StringSummed DEF Summed
<1>5. TypeOK'
  <2>1. slot' \in 1 .. Slots + 1 /\ pos' \in Nat \ {0} /\ size' \in Int  BY <1>1, <1>2
  <2> QED  BY <1>1, <1>2, <2>1 DEF TypeOK
<1>6. SendInv'
  <2>1. size' \in 0 .. limit' /\ pos' <= Len(file'.I[slot']) + 1  BY <1>1, <1>3, <1>4
  <2>2. size' = totals'[slot'][pos']  BY <1>1, <1>4
  <2> QED  BY <1>1, <1>3, <2>1, <2>2 DEF SendInv
<1>7. LoopInv' /\ PeerInv'  BY <1>1, <1>2 DEF LoopInv, PeerInv, InLoad, refresh
<1>8. LoadedInv'  BY <1>1, <1>2, LoadedFrame DEF LimitOf
<1> QED  BY <1>5, <1>6, <1>7, <1>8 DEF IInv

\* It grows as the check has summed it.
LEMMA AppendsTagInv == ASSUME IInv, AppendsTag PROVE IInv'
<1>1. /\ stage = "up" /\ slot <= Slots /\ pos <= Len(file.I[slot])
      /\ size' = size + Size(file.I[slot][pos]) /\ pos' = pos + 1
      /\ file' = file /\ stage' = stage /\ limit' = limit /\ loading' = loading /\ slot' = slot
      /\ total' = total /\ totals' = totals
      /\ conf' = conf /\ device' = device /\ UNCHANGED refresh
  BY DEF AppendsTag
<1>2. TypeOK /\ LoadedInv /\ PeerInv /\ Slots \in Nat  BY UpstreamAssumption DEF IInv
<1>3. limit \in Nat /\ \A j \in 1 .. Slots : ~Malformed(file.I[j])
  BY <1>1, <1>2 DEF TypeOK, IInv, SendInv
<1>4. slot \in 1 .. Slots /\ pos \in Nat \ {0}  BY <1>1, <1>2 DEF TypeOK
<1>5. size = totals[slot][pos]  BY <1>1 DEF IInv, SendInv
<1>6. Summed(slot, Len(file.I[slot])) /\ Len(file.I[slot]) \in Nat  BY <1>1, <1>4, StringSummed
<1>7. totals[slot][pos + 1] \in 0 .. limit
      /\ totals[slot][pos + 1] = totals[slot][pos] + Size(file.I[slot][pos])
  <2> DEFINE n == Len(file.I[slot])
  <2>1. n \in Nat /\ pos \in 1 .. n /\ pos + 1 \in 1 .. n + 1  BY <1>1, <1>4, <1>6
  <2>2. /\ \A k \in 1 .. n + 1 : totals[slot][k] \in 0 .. limit
        /\ \A k \in 1 .. n : totals[slot][k + 1] = totals[slot][k] + Size(file.I[slot][k])
    BY <1>6, Zenon DEF Summed
  <2> HIDE DEF n
  <2> QED  BY <2>1, <2>2
<1>8. size' \in 0 .. limit' /\ size' = totals'[slot'][pos']  BY <1>1, <1>5, <1>7
<1>9. pos' \in Nat \ {0} /\ pos' <= Len(file'.I[slot']) + 1  BY <1>1, <1>4, <1>6
<1>10. TypeOK'
  <2>1. size' \in Int  BY <1>1, <1>3, <1>8
  <2> QED  BY <1>1, <1>2, <1>9, <2>1 DEF TypeOK
<1>11. SendInv'  BY <1>1, <1>3, <1>8, <1>9 DEF SendInv
<1>12. LoopInv' /\ PeerInv'  BY <1>1, <1>2 DEF LoopInv, PeerInv, InLoad, refresh
<1>13. LoadedInv'  BY <1>1, <1>2, LoadedFrame DEF LimitOf
<1> QED  BY <1>10, <1>11, <1>12, <1>13 DEF IInv

-----------------------------------------------------------------------------
(* The provider and the refreshes                                          *)

\* Neither the provider, nor a probe, nor a lookup changes what is sent.
LEMMA RoundInv ==
  ASSUME IInv, stage = "up", UNCHANGED <<file, checks, size, conf, device>>,
         pc' = "resolved" => file.endpoint = Name /\ resolved' \in V4
  PROVE  IInv'
<1>1. /\ TypeOK /\ LoopInv /\ SendInv /\ LoadedInv /\ PeerInv
      /\ file' = file /\ stage' = stage /\ limit' = limit /\ loading' = loading
      /\ totals' = totals /\ conf' = conf /\ device' = device
  BY DEF IInv, checks
<1>2. TypeOK' /\ LoopInv' /\ SendInv'  BY <1>1, CheckFrame
<1>3. LoadedInv'  BY <1>1, LoadedFrame DEF LimitOf
<1>4. PeerInv'  BY <1>1 DEF PeerInv, InLoad
<1> QED  BY <1>2, <1>3, <1>4 DEF IInv

\* A failed probe starts a refresh.
LEMMA ProbeFailsInv == ASSUME IInv, ProbeFails PROVE IInv'
BY RoundInv DEF ProbeFails

\* The provider moves without the daemon.
LEMMA MovesInv == ASSUME IInv, NEW addr \in Addrs, Moves(addr) PROVE IInv'
BY RoundInv DEF Moves, refresh, IInv, PeerInv

\* So does its record.
LEMMA AnnouncesInv == ASSUME IInv, NEW addr \in Addrs, Announces(addr) PROVE IInv'
BY RoundInv DEF Announces, refresh, IInv, PeerInv

\* Only a name is looked up, and only its IPv4 address is taken.
LEMMA LookupInv == ASSUME IInv, Lookup PROVE IInv'
<1>1. stage = "up"  BY DEF Lookup, IInv, PeerInv
<1>2. pc' = "resolved" => file.endpoint = Name /\ resolved' \in V4  BY DEF Lookup, Answers
<1> QED  BY <1>1, <1>2, RoundInv DEF Lookup

\* The new address has the same limit, so that what was checked still holds.
LEMMA RepointInv == ASSUME IInv, Repoint PROVE IInv'
<1>1. /\ pc = "resolved" /\ pc' = "idle" /\ UNCHANGED <<file, checks, size>>
      /\ \/ device' = resolved /\ conf' = resolved
         \/ UNCHANGED <<device, conf>>
  BY DEF Repoint
<1>2. /\ TypeOK /\ LoopInv /\ SendInv /\ LoadedInv /\ PeerInv
      /\ file' = file /\ stage' = stage /\ limit' = limit /\ loading' = loading
      /\ totals' = totals
  BY <1>1 DEF IInv, checks
<1>3. stage = "up" /\ device = conf /\ file.endpoint = Name /\ resolved \in V4 /\ conf \in V4
  BY <1>1, <1>2 DEF PeerInv, InLoad
<1>4. conf' \in V4 /\ device' = conf'  BY <1>1, <1>3
<1>5. TypeOK' /\ LoopInv' /\ SendInv'  BY <1>1, <1>2, CheckFrame
<1>6. LoadedInv'  BY <1>2, <1>3, <1>4, LoadedFrame DEF LimitOf
<1>7. PeerInv'  BY <1>1, <1>2, <1>3, <1>4 DEF PeerInv, InLoad
<1> QED  BY <1>5, <1>6, <1>7 DEF IInv

-----------------------------------------------------------------------------
(* The theorem                                                             *)

\* Every step keeps the invariant.
LEMMA NextInv == IInv /\ [Next]_vars => IInv'
<1> SUFFICES ASSUME IInv, [Next]_vars PROVE IInv'  OBVIOUS
<1>1. CASE Parse  BY <1>1, ParseInv
<1>2. CASE CheckTag  BY <1>2, CheckTagInv
<1>3. CASE NextString  BY <1>3, NextStringInv
<1>4. CASE StringsChecked  BY <1>4, StringsCheckedInv
<1>5. CASE Unresolved  BY <1>5, UnresolvedInv
<1>6. CASE CheckMTU  BY <1>6, CheckMTUInv
<1>7. CASE Configure  BY <1>7, ConfigureInv
<1>8. CASE Sends  BY <1>8, SendsInv
<1>9. CASE AppendsTag  BY <1>9, AppendsTagInv
<1>10. CASE ProbeFails  BY <1>10, ProbeFailsInv
<1>11. CASE Lookup  BY <1>11, LookupInv
<1>12. CASE Repoint  BY <1>12, RepointInv
<1>13. ASSUME NEW i \in 1 .. Slots, StartsSignature(i) PROVE IInv'  BY <1>13, StartsSignatureInv
<1>14. ASSUME NEW addr \in Addrs, Load(addr) \/ Moves(addr) \/ Announces(addr) PROVE IInv'
  BY <1>14, LoadInv, MovesInv, AnnouncesInv
<1>15. CASE UNCHANGED vars
  <2>1. UNCHANGED <<file, checks, size, conf, device, refresh>>  BY <1>15 DEF vars
  <2>2. TypeOK /\ LoopInv /\ SendInv  BY DEF IInv
  <2>3. TypeOK' /\ LoopInv' /\ SendInv'  BY <2>1, <2>2, CheckFrame
  <2>4. /\ file' = file /\ stage' = stage /\ limit' = limit /\ loading' = loading
        /\ totals' = totals /\ conf' = conf /\ device' = device /\ pc' = pc /\ resolved' = resolved
    BY <2>1 DEF checks, refresh
  <2>5. \A i \in 1 .. Slots : Checked(i) => Checked(i)'  BY <2>4 DEF Checked, Summed
  <2>6. LoadedInv'
    BY <2>4, <2>5
    DEF IInv, LoadedInv, InLoad, BatchOK, Signatures, JunkOK, PaddingOK, Largest, MTUOK, LinkMTU,
        LimitOf
  <2>7. PeerInv'  BY <2>4 DEF IInv, PeerInv, InLoad
  <2> QED  BY <2>3, <2>6, <2>7 DEF IInv
<1> QED
  BY <1>1, <1>2, <1>3, <1>4, <1>5, <1>6, <1>7, <1>8, <1>9, <1>10, <1>11, <1>12, <1>13, <1>14, <1>15
  DEF Next

\* A batch without junk fits by the number of strings alone.
LEMMA BatchFits ==
  ASSUME NEW f \in FileType, BatchOK(f)
  PROVE  Packets(f) <= 128
<1>1. f.Jc \in Nat /\ Slots \in 0 .. 127  BY FileFacts, UpstreamAssumption
<1>2. CASE f.Jc > 0  BY <1>2 DEF BatchOK, Packets
<1>3. CASE f.Jc = 0
  <2>1. IsFiniteSet(1 .. Slots) /\ Cardinality(1 .. Slots) = Slots
    <3>1. Slots \in Int /\ 1 \in Int  BY <1>1
    <3>2. /\ IsFiniteSet(1 .. Slots)
          /\ Cardinality(1 .. Slots) = IF 1 > Slots THEN 0 ELSE Slots - 1 + 1
      BY <3>1, FS_Interval, Zenon
    <3>3. Cardinality(1 .. Slots) = Slots  BY <1>1, <3>2
    <3> QED  BY <3>2, <3>3
  <2>2. Signatures(f) \subseteq 1 .. Slots  BY DEF Signatures
  <2>3. Cardinality(Signatures(f)) <= Slots /\ Cardinality(Signatures(f)) \in Nat
    BY <2>1, <2>2, FS_Subset, FS_CardinalityType
  <2> QED  BY <1>1, <1>3, <2>3 DEF Packets
<1> QED  BY <1>1, <1>2, <1>3

\* No datagram is longer than a UDP payload of the family the device sends to and
\* no batch is too large, for any provider file, any strings, any addresses and
\* any sequence of refreshes (CheckWireSizes, LoadUpstream, RefreshEndpoint).
THEOREM DatagramsAlwaysFit == Spec => []DatagramsFit
<1>1. IInv => DatagramsFit
  <2> SUFFICES ASSUME IInv, stage = "up" PROVE size \in 0 .. LimitOf(device) /\ Packets(file) <= 128
    BY DEF DatagramsFit
  <2>1. size \in 0 .. limit /\ limit = LimitOf(conf) /\ device = conf /\ BatchOK(file)
    BY DEF IInv, SendInv, LoadedInv, PeerInv, InLoad
  <2>2. file \in FileType  BY DEF IInv, TypeOK
  <2>3. Packets(file) <= 128  BY <2>1, <2>2, BatchFits
  <2> QED  BY <2>1, <2>3
<1> QED  BY <1>1, InitInv, NextInv, PTL DEF Spec

-----------------------------------------------------------------------------
(* The clients' packets                                                    *)

CONSTANTS Upstreams, Paddings, MaxUps
VARIABLES list, s4Down, best, seen

Client == INSTANCE ClientMTU WITH ups <- list, k <- seen

\* What LoadUpstream has accepted is what mtu.Client counts on: an upstream that
\* is up takes packets of at least 68 bytes, its padding included.
THEOREM LoadedIsAccepted ==
  Spec => [](stage = "up" => Client!Accepted([MTU |-> file.MTU, S4 |-> file.S4])
                              /\ file.MTU \in Nat)
<1>1. IInv => (stage = "up" => Client!Accepted([MTU |-> file.MTU, S4 |-> file.S4])
                               /\ file.MTU \in Nat)
  <2> SUFFICES ASSUME IInv, stage = "up"
               PROVE  Client!Accepted([MTU |-> file.MTU, S4 |-> file.S4]) /\ file.MTU \in Nat
    OBVIOUS
  <2>1. MTUOK(file, limit) /\ file.MTU \in Int /\ file.S4 \in Nat
    BY FileFacts DEF IInv, LoadedInv, InLoad, TypeOK
  <2> QED
    BY <2>1 DEF MTUOK, LinkMTU, DefaultWireGuard, Client!Accepted, Client!LinkMTU,
                Client!MinTUN, Client!DefaultWireGuard
<1> QED
  BY <1>1, InitInv, NextInv, PTL DEF Spec

\* An accepted upstream takes packets of at least 68 bytes.
LEMMA AcceptedFits ==
  ASSUME Client!MTUAssumption, NEW u \in Upstreams
  PROVE  /\ u.S4 \in Nat /\ Client!LinkMTU(u) \in Nat /\ Client!Fits(u) \in Int
         /\ Client!Fits(u) = Client!LinkMTU(u) - u.S4 /\ Client!Fits(u) >= 68
BY DEF Client!MTUAssumption, Client!LinkMTU, Client!Accepted, Client!Fits, Client!MinTUN,
       Client!DefaultWireGuard

\* Client's loop finds the largest packet, for every list of accepted upstreams.
THEOREM ClientIsLargest ==
  ASSUME Client!MTUAssumption
  PROVE  Client!Spec => [](Client!TypeOK /\ Client!LargestThatPasses /\ Client!Usable)
<1> USE DEF Client!Overhead, Client!Ethernet, Client!MinTUN
<1>1. Client!Init => Client!LoopInv
  <2> SUFFICES ASSUME Client!Init PROVE Client!LoopInv  OBVIOUS
  <2>1. PICK m \in 0 .. MaxUps : list \in [1 .. m -> Upstreams]  BY DEF Client!Init, Client!Lists
  <2>2. list \in Seq(Upstreams)  BY <2>1, SeqDef DEF Client!MTUAssumption
  <2>3. s4Down \in 8 .. 16 /\ s4Down \in Paddings /\ best = 1440 - s4Down /\ seen = 0
    BY DEF Client!Init, Client!MTUAssumption
  <2>4. Client!TypeOK  BY <2>2, <2>3 DEF Client!TypeOK
  <2>5. Client!LargestThatPasses /\ Client!Usable
    BY <2>3 DEF Client!LargestThatPasses, Client!Passes, Client!Usable
  <2> QED  BY <2>4, <2>5 DEF Client!LoopInv
<1>2. Client!LoopInv /\ [Client!Step]_(Client!vars) => Client!LoopInv'
  <2> SUFFICES ASSUME Client!LoopInv, [Client!Step]_(Client!vars) PROVE Client!LoopInv'  OBVIOUS
  <2>1. CASE Client!Step
    <3> DEFINE u == list[seen + 1]
    <3>1. /\ seen \in 0 .. Len(list) /\ seen < Len(list) /\ seen' = seen + 1
          /\ list' = list /\ s4Down' = s4Down
          /\ list \in Seq(Upstreams) /\ s4Down \in Paddings /\ best \in Int
          /\ best' = IF Client!Fits(u) < best THEN Client!Fits(u) ELSE best
      BY <2>1 DEF Client!Step, Client!LoopInv, Client!TypeOK
    <3>2. u \in Upstreams  BY <3>1
    <3>3. /\ u.S4 \in Nat /\ Client!LinkMTU(u) \in Nat /\ Client!Fits(u) \in Int
          /\ Client!Fits(u) = Client!LinkMTU(u) - u.S4 /\ Client!Fits(u) >= 68
      <4> HIDE DEF u
      <4> QED  BY <3>2, AcceptedFits
    <3>4. Client!TypeOK'  BY <3>1, <3>3 DEF Client!TypeOK
    <3>5. \A i \in 1 .. seen + 1 : list[i].S4 \in Nat /\ Client!LinkMTU(list[i]) \in Nat
      <4>1. \A i \in 1 .. seen + 1 : list[i] \in Upstreams  BY <3>1
      <4> QED  BY <4>1, AcceptedFits
    <3>6. Client!LargestThatPasses'
      <4>1. s4Down \in Int  BY <3>1 DEF Client!MTUAssumption
      <4>2. Client!Passes(best) /\ ~Client!Passes(best + 1)
        BY DEF Client!LoopInv, Client!LargestThatPasses
      <4>3. CASE Client!Fits(u) < best
        <5>1. best' = Client!Fits(u)  BY <3>1, <4>3
        <5>2. \A i \in 1 .. seen : Client!Fits(u) + list[i].S4 <= Client!LinkMTU(list[i])
          <6> SUFFICES ASSUME NEW i \in 1 .. seen
                       PROVE  Client!Fits(u) + list[i].S4 <= Client!LinkMTU(list[i])
            OBVIOUS
          <6>1. best + list[i].S4 <= Client!LinkMTU(list[i])  BY <4>2 DEF Client!Passes
          <6>2. list[i].S4 \in Nat /\ Client!LinkMTU(list[i]) \in Nat  BY <3>1, <3>5
          <6>3. best \in Int  BY <3>1
          <6> HIDE DEF u
          <6> QED  BY <3>3, <4>3, <6>1, <6>2, <6>3
        <5>3. Client!Fits(u) + s4Down + 60 <= 1500
          BY <3>1, <3>3, <4>1, <4>2, <4>3 DEF Client!Passes
        <5>4. /\ Client!Fits(u) + u.S4 <= Client!LinkMTU(u)
              /\ ~(Client!Fits(u) + 1 + u.S4 <= Client!LinkMTU(u))
          BY <3>3
        <5>5. Client!Passes(best)'  BY <3>1, <5>1, <5>2, <5>3, <5>4 DEF Client!Passes
        <5>6. ~Client!Passes(best + 1)'  BY <3>1, <5>1, <5>4 DEF Client!Passes
        <5> QED  BY <5>5, <5>6 DEF Client!LargestThatPasses
      <4>4. CASE ~(Client!Fits(u) < best)
        <5>1. best' = best  BY <3>1, <4>4
        <5>2. best + u.S4 <= Client!LinkMTU(u)
          <6> HIDE DEF u
          <6> QED  BY <3>1, <3>3, <4>4
        <5>3. Client!Passes(best)'  BY <3>1, <4>2, <5>1, <5>2 DEF Client!Passes
        <5>4. ~Client!Passes(best + 1)'  BY <3>1, <4>2, <5>1 DEF Client!Passes
        <5> QED  BY <5>3, <5>4 DEF Client!LargestThatPasses
      <4> QED  BY <4>3, <4>4
    <3>7. Client!Usable'
      <4> HIDE DEF u
      <4> QED  BY <3>1, <3>3 DEF Client!LoopInv, Client!Usable
    <3> QED  BY <3>4, <3>6, <3>7 DEF Client!LoopInv
  <2>2. CASE UNCHANGED Client!vars
    <3>1. list' = list /\ s4Down' = s4Down /\ best' = best /\ seen' = seen  BY <2>2 DEF Client!vars
    <3>2. Client!LargestThatPasses'
      BY <3>1 DEF Client!LoopInv, Client!LargestThatPasses, Client!Passes
    <3> QED  BY <3>1, <3>2 DEF Client!LoopInv, Client!TypeOK, Client!Usable
  <2> QED  BY <2>1, <2>2
<1>3. QED  BY <1>1, <1>2, PTL DEF Client!Spec, Client!LoopInv

-----------------------------------------------------------------------------
(* The socket of lm0                                                       *)

\* Initially the bind is closed and nobody sends.
LEMMA InitBind ==
  ASSUME BindInit PROVE BindTypeOK /\ BindInv
BY BindAssumption DEF BindInit, BindTypeOK, BindInv, OneSocketServed, SendOK

\* Open and Close make and end the one socket.
LEMMA BindDevice ==
  ASSUME BindTypeOK, BindInv,
         \/ \E method \in {"open", "close"} : Call(method)
         \/ DeviceLocks \/ Opens \/ OpenFails \/ Closes
  PROVE  BindTypeOK' /\ BindInv'
<1> USE DEF BindTypeOK, BindInv, OneSocketServed, SendOK, sendVars, Return
<1>1. ASSUME NEW method \in {"open", "close"}, Call(method)
      PROVE  BindTypeOK' /\ BindInv'
  BY <1>1 DEF Call
<1>2. CASE DeviceLocks \/ OpenFails
  BY <1>2 DEF DeviceLocks, OpenFails
<1>3. CASE Opens
  <2>1. PICK s \in Sockets \ used :
          /\ socket' = s /\ open' = open \cup {s} /\ used' = used \cup {s}
          /\ receiver' = [receiver EXCEPT ![s] = "reading"]
    BY <1>3 DEF Opens
  <2>2. open = {} /\ s # Nil
    BY <1>3, BindAssumption DEF Opens
  <2> QED
    BY <1>3, <2>1, <2>2 DEF Opens
<1>4. CASE Closes
  BY <1>4 DEF Closes
<1> QED
  BY <1>1, <1>2, <1>3, <1>4

\* Packets arrive, and every receiver reads its own socket until it is closed.
LEMMA BindReceive ==
  ASSUME BindTypeOK, BindInv, NEW s \in Sockets, Arrives(s) \/ Receives(s)
  PROVE  BindTypeOK' /\ BindInv'
<1>1. UNCHANGED <<mu, socket, open, used, call, send, captured, left, via, stray>>
  BY DEF Arrives, Receives, ReadsFrom, sendVars
<1>2. queue' \in [Sockets -> 0 .. Backlog]
  BY BindAssumption DEF BindTypeOK, Arrives, Receives, ReadsFrom
<1>3. /\ receiver' \in [Sockets -> {"none", "reading", "failed"}]
      /\ \A r \in open : receiver'[r] = receiver[r]
  BY DEF BindTypeOK, Arrives, Receives, ReadsFrom
<1> QED
  BY <1>1, <1>2, <1>3 DEF BindTypeOK, BindInv, OneSocketServed, SendOK

\* A Send writes to the socket it captured, whatever has become of it.
LEMMA BindSend ==
  ASSUME BindTypeOK, BindInv, NEW x \in Senders, SendBegins(x) \/ Captures(x) \/ Writes(x)
  PROVE  BindTypeOK' /\ BindInv'
<1>1. UNCHANGED <<socket, open, used, queue, call, receiver, stray>>
  BY DEF SendBegins, Captures, Writes
<1>2. \A y \in Senders : y # x => send'[y] = send[y] /\ captured'[y] = captured[y]
                                  /\ via'[y] = via[y]
  BY DEF SendBegins, Captures, Writes, SendReturns, WritesTo, BindTypeOK
<1>3. SendOK(x) /\ captured[x] \in Sockets \cup {Nil} /\ socket \in Sockets \cup {Nil}
  BY DEF BindInv, BindTypeOK
<1>4. CASE SendBegins(x)
  <2>1. BindTypeOK'
    BY <1>4 DEF SendBegins, BindTypeOK
  <2>2. SendOK(x)'
    BY <1>3, <1>4 DEF SendBegins, BindTypeOK, SendOK
  <2> QED
    BY <1>1, <1>2, <2>1, <2>2 DEF BindInv, OneSocketServed, SendOK
<1>5. CASE Captures(x)
  <2>1. BindTypeOK'
    BY <1>5, BindAssumption DEF Captures, BindTypeOK
  <2>2. SendOK(x)'
    <3>1. CASE socket = Nil
      BY <1>3, <1>5, <3>1 DEF Captures, BindTypeOK, SendOK
    <3>2. CASE socket # Nil
      <4>1. via'[x] = {}
        BY <1>5, <3>2 DEF Captures, BindTypeOK
      <4> QED
        BY <4>1 DEF SendOK
    <3> QED
      BY <3>1, <3>2
  <2> QED
    BY <1>1, <1>2, <2>1, <2>2 DEF BindInv, OneSocketServed, SendOK
<1>6. CASE Writes(x)
  <2>1. CASE SendReturns(x) /\ UNCHANGED <<left, via>>
    <3>1. BindTypeOK' /\ SendOK(x)'
      BY <1>1, <1>3, <2>1 DEF SendReturns, BindTypeOK, SendOK
    <3> QED
      BY <1>1, <1>2, <3>1 DEF BindInv, OneSocketServed, SendOK
  <2>2. CASE /\ captured[x] \in open /\ left[x] > 0
             /\ left' = [left EXCEPT ![x] = @ - 1]
             /\ via' = [via EXCEPT ![x] = @ \cup {captured[x]}]
             /\ UNCHANGED <<send, captured, mu>>
    <3>1. BindTypeOK'
      BY <1>1, <2>2, BindAssumption DEF BindTypeOK
    <3>2. via'[x] = via[x] \cup {captured[x]} /\ send[x] = "write"
      BY <1>6, <2>2 DEF Writes, BindTypeOK
    <3>3. SendOK(x)'
      BY <1>3, <2>2, <3>2 DEF SendOK
    <3> QED
      BY <1>1, <1>2, <3>1, <3>3 DEF BindInv, OneSocketServed, SendOK
  <2> QED
    BY <1>6, <2>1, <2>2 DEF Writes, WritesTo
<1> QED
  BY <1>4, <1>5, <1>6

\* Open, Close, receivers and senders together.
LEMMA NextBind ==
  ASSUME BindTypeOK, BindInv, [BindNext]_bindVars
  PROVE  BindTypeOK' /\ BindInv'
<1>1. CASE UNCHANGED bindVars
  BY <1>1 DEF bindVars, BindTypeOK, BindInv, OneSocketServed, SendOK
<1>2. CASE BindNext
  BY <1>2, BindDevice, BindReceive, BindSend DEF BindNext
<1> QED
  BY <1>1, <1>2

\* The bind has its types, one socket at most, and a reader for it.
THEOREM BindInvariant == BindSpec => [](BindTypeOK /\ BindInv)
<1>1. BindTypeOK /\ BindInv /\ [BindNext]_bindVars => BindTypeOK' /\ BindInv'
  BY NextBind
<1> QED
  BY <1>1, InitBind, PTL DEF BindSpec

\* All buffers of one Send leave from one socket, for any number of senders and
\* buffers, however often the bind is closed and opened meanwhile.
THEOREM BatchesStayTogether == BindSpec => []BatchLeavesTogether
<1>1. BindInv => BatchLeavesTogether
  <2> SUFFICES ASSUME BindInv, NEW x \in Senders PROVE Cardinality(via[x]) <= 1
    BY DEF BatchLeavesTogether
  <2>1. PICK s \in Sockets \cup {Nil} : via[x] \subseteq {s}
    BY DEF BindInv, SendOK
  <2>2. via[x] = {} \/ via[x] = {s}
    BY <2>1
  <2>3. Cardinality({}) = 0
    BY FS_EmptySet
  <2>4. Cardinality({s}) = 1
    BY FS_Singleton
  <2> QED
    BY <2>2, <2>3, <2>4
<1> QED
  BY <1>1, BindInvariant, PTL

\* No receiver of an earlier Open reads the socket of a later one.
THEOREM ReceiversStayOff == BindSpec => []OldReceiversStayOff
<1>1. BindInv => OldReceiversStayOff
  BY DEF BindInv, OldReceiversStayOff
<1> QED
  BY <1>1, BindInvariant, PTL
=============================================================================
