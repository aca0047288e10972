------------------------------- MODULE Policy -------------------------------
(***************************************************************************)
(* internal/policy: which upstream a peer's profile selects.               *)
(*                                                                         *)
(* A profile is its Prefer list, here the sequence of the sets of          *)
(* upstreams that each Match selects; the empty list is one tier matching  *)
(* everything.  Latency enters only as the tie-break, and a probe may      *)
(* report any latency, so what Select can return is a set of choices.      *)
(* PolicyLoop.tla has Select's own loop, latencies and matches, and checks *)
(* that it computes one of these choices.                                  *)
(***************************************************************************)
EXTENDS Naturals, Sequences

\* tierOf: the first preference that matches, from 1; 0 stands for the code's -1
TierOf(prefer, u) ==
  IF prefer = <<>> THEN 1
  ELSE IF \E i \in DOMAIN prefer : u \in prefer[i]
       THEN CHOOSE i \in DOMAIN prefer :
              /\ u \in prefer[i]
              /\ \A j \in DOMAIN prefer : u \in prefer[j] => i <= j
       ELSE 0

\* The healthy upstreams of the best tier that has one
Candidates(prefer, healthy) ==
  {u \in healthy :
     /\ TierOf(prefer, u) # 0
     /\ \A v \in healthy :
          TierOf(prefer, v) # 0 => TierOf(prefer, u) <= TierOf(prefer, v)}

\* What Select may return: the current upstream if it is a candidate, any
\* candidate otherwise; the empty set is ok = false
Selectable(prefer, healthy, current) ==
  LET candidates == Candidates(prefer, healthy)
  IN  IF current \in candidates THEN {current} ELSE candidates
=============================================================================
