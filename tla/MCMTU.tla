------------------------------- MODULE MCMTU -------------------------------
(* Upstreams at the bounds of what LoadUpstream accepts, and in between.   *)
EXTENDS ClientMTU

Boundary ==
  {u \in [MTU : {0, 68, 84, 1280, 1440, 1500, 65475}, S4 : {0, 16, 400}] : Accepted(u)}
=============================================================================
