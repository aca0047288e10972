----------------------------- MODULE ClientMTU -----------------------------
(***************************************************************************)
(* mtu/mtu.go: the packet size a client may use, from the upstreams that   *)
(* LoadUpstream has accepted and the padding Lotsman itself uses.          *)
(*                                                                         *)
(* The daemon computes it for lm0 (clientMTU), the command line for the    *)
(* files it prints, each from its own list, in any order.                  *)
(***************************************************************************)
EXTENDS Integers, Sequences

CONSTANTS Upstreams,   \* records [MTU, S4] of accepted provider files
          Paddings,    \* S4 of the identity
          MaxUps       \* upstreams in a configuration

Overhead == 60
Ethernet == 1500
DefaultWireGuard == 1420
MinTUN == 68

LinkMTU(u) == IF u.MTU = 0 THEN DefaultWireGuard ELSE u.MTU

\* LoadUpstream: a TUN needs 68 bytes, also for what is left after the padding
Accepted(u) == LinkMTU(u) >= MinTUN + u.S4

\* newIdentity draws S4 from 8 to 16
MTUAssumption ==
  /\ MaxUps \in Nat
  /\ Upstreams \subseteq {u \in [MTU : Nat, S4 : Nat] : Accepted(u)}
  /\ Paddings \subseteq 8 .. 16

VARIABLES ups,     \* the upstreams, in the order of the configuration
          s4Down, best,
          k        \* upstreams the loop has seen

vars == <<ups, s4Down, best, k>>

Lists == UNION {[1 .. n -> Upstreams] : n \in 0 .. MaxUps}

Init ==
  /\ ups \in Lists /\ s4Down \in Paddings
  /\ best = Ethernet - Overhead - s4Down /\ k = 0

Fits(u) == LinkMTU(u) - u.S4

Step ==
  /\ k < Len(ups) /\ k' = k + 1
  /\ best' = IF Fits(ups[k + 1]) < best THEN Fits(ups[k + 1]) ELSE best
  /\ UNCHANGED <<ups, s4Down>>

Spec == Init /\ [][Step]_vars

-----------------------------------------------------------------------------
(* Properties                                                              *)

\* Every variable has its type.
TypeOK ==
  /\ ups \in Seq(Upstreams) /\ s4Down \in Paddings
  /\ best \in Int /\ k \in 0 .. Len(ups)

\* A packet of n bytes passes the client's path and the upstreams the loop has seen
Passes(n) ==
  /\ n + s4Down + Overhead <= Ethernet
  /\ \A i \in 1 .. k : n + ups[i].S4 <= LinkMTU(ups[i])

\* Packets of the length Client has found so far pass both encapsulations and longer
\* ones do not: the MTU is neither too large for an upstream the client may be moved
\* to nor smaller than it has to be (mtu.Client).
LargestThatPasses == Passes(best) /\ ~Passes(best + 1)

\* lm0 and the clients' interfaces can have the MTU, since LoadUpstream refuses an
\* upstream that would take it below what a TUN needs.
Usable == best >= MinTUN

-----------------------------------------------------------------------------
(* Strengthening                                                           *)

\* The loop's invariant: every variable has its type, and best separates the
\* packets that pass what has been seen from those that do not.
LoopInv == TypeOK /\ LargestThatPasses /\ Usable
=============================================================================
