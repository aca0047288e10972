----------------------------- MODULE MCTraffic -----------------------------
(* Instances of Traffic.tla for TLC: every flow belongs to one client.     *)
EXTENDS Traffic, TLC

OneClient == [f \in Flows |-> CHOOSE ip \in Ips : TRUE]
Interchangeable == Permutations(Ups) \cup Permutations(Flows)
=============================================================================
