----------------------------- MODULE MCUpstream -----------------------------
(* Provider files at and around every bound the checks have.               *)
EXTENDS Upstream

CONSTANTS a, b, s   \* addresses

Tag(name, n) == [name |-> name, n |-> n]

Plain ==
  [S1 |-> 0, S2 |-> 0, S3 |-> 0, S4 |-> 0, Jc |-> 0, Jmin |-> 0, Jmax |-> 0,
   I |-> [i \in 1 .. Slots |-> <<>>], MTU |-> 0, endpoint |-> a]

Around(n) == {n - 1, n, n + 1}
Limits == {Limit4, Limit6}

Padded == UNION {{[Plain EXCEPT !.S1 = m - 148], [Plain EXCEPT !.S2 = m - 92],
                  [Plain EXCEPT !.S3 = m - 64]} : m \in UNION {Around(l) : l \in Limits}}

Junked ==
  {[Plain EXCEPT !.Jc = c, !.Jmin = l - d, !.Jmax = l + e] :
     c \in {0, 1}, l \in Limits, d \in {-2, 0, 2}, e \in 0 .. 2}

Sized ==
  {[Plain EXCEPT !.MTU = m, !.S4 = p] : p \in {0, 8, 65400},
     m \in UNION {Around(l - 32 - p) : l \in Limits, p \in {0, 8}}
           \cup UNION {Around(68 + p) : p \in {0, 8}} \cup {0, -1}}

Strings ==
  {<<>>, <<Tag("t", 0)>>, <<Tag("r", -1), Tag("r", 2)>>, <<Tag("b", 0)>>,
   <<Tag("r", -1), Tag("other", 0)>>, <<Tag("d", 9), Tag("b", 3), Tag("t", 0)>>}
  \cup {<<Tag("t", 0), Tag("b", n), Tag("r", 3)>> : n \in UNION {Around(l - 7) : l \in Limits}}

Signed ==
  {[Plain EXCEPT !.I = i, !.Jc = c, !.Jmin = 1, !.Jmax = 1] :
     i \in [1 .. Slots -> Strings], c \in {0, 1, 125, 126, 127}}

\* Each file with an address of either family, and with a name
Boundary ==
  {[f EXCEPT !.endpoint = e] : f \in Padded \cup Junked \cup Sized \cup Signed, e \in {a, s, Name}}
=============================================================================
