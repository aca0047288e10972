------------------------------ MODULE MCPolicy ------------------------------
(* Three upstreams that share a geo tag or a provider tag pairwise.         *)
EXTENDS PolicyLoop

MCNames == 1 .. 3
MCGeoOf == [n \in MCNames |-> IF n = 3 THEN "nl" ELSE "de"]
MCProviderOf == [n \in MCNames |-> IF n = 2 THEN "q" ELSE "p"]
=============================================================================
