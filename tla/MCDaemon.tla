------------------------------ MODULE MCDaemon ------------------------------
(* Small instances of the daemon: which configurations a reload may bring.  *)
EXTENDS DaemonProperties, TLC

CONSTANTS a, b,            \* upstreams
          s1, s2,          \* provider file contents
          x, y             \* profiles

Config(source, prefer) ==
  [source |-> [u \in Ups |-> source[u]], prefer |-> [f \in Profiles |-> prefer[f]],
   downAfter |-> 1, upAfter |-> 1]

\* Profile x prefers a, then b; profile y takes anything
Prefer == [f \in Profiles |-> IF f = x THEN <<{a}, {b}>> ELSE <<>>]

Both == Config([u \in Ups |-> s1], Prefer)
Replaced == Config([u \in Ups |-> IF u = b THEN s2 ELSE s1], Prefer)

\* One reload drops upstream b and profile x
Less == Config([u \in Ups |-> IF u = b THEN None ELSE s1],
               [f \in Profiles |-> IF f = x THEN None ELSE <<>>])

\* Keys and addresses are interchangeable in the runs without liveness
Symmetry == Permutations(Keys) \cup Permutations(Ips)

\* One reload drops upstream b, or brings it in, and leaves the profiles alone
Without == Config([u \in Ups |-> IF u = b THEN None ELSE s1], Prefer)

TwoConfigs == {Both, Replaced}
AddedConfigs == {Both, Replaced, Without}
ThreeConfigs == {Both, Replaced, Less}
=============================================================================
