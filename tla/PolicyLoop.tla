----------------------------- MODULE PolicyLoop -----------------------------
(***************************************************************************)
(* policy.Select as the code computes it, called again and again for one   *)
(* peer while the health and latency of the upstreams change.  Checks the  *)
(* loop against the set definitions of Policy.tla that the daemon model    *)
(* uses, in every order the configuration may list the upstreams.          *)
(*                                                                         *)
(* Names are numbers, compared as strings.Compare orders the real names.   *)
(***************************************************************************)
EXTENDS Policy, SequencesExt

CONSTANTS Names,        \* upstream names, ordered
          GeoOf,        \* [Names -> geo tag]
          ProviderOf,   \* [Names -> provider tag]
          Latencies,    \* probe latencies
          MaxPrefer     \* longest Prefer list tried

Wildcard == ""               \* an empty Match field
NoName == 0             \* the empty string a blocked peer has as current

ASSUME NamesAssumption == Names \subseteq Nat \ {NoName}

Geos == {GeoOf[n] : n \in Names}
Providers == {ProviderOf[n] : n \in Names}
MatchSet == [geo : Geos \cup {Wildcard}, provider : Providers \cup {Wildcard}]

\* Match.Matches: an empty field matches anything
Matches(m, n) ==
  /\ m.geo = Wildcard \/ m.geo = GeoOf[n]
  /\ m.provider = Wildcard \/ m.provider = ProviderOf[n]

\* config.Validate: every preference matches some upstream
Valid(prefer) == \A i \in DOMAIN prefer : \E n \in Names : Matches(prefer[i], n)

\* The sets of upstreams the Prefer list stands for
Tiers(prefer) == [i \in DOMAIN prefer |-> {n \in Names : Matches(prefer[i], n)}]

VARIABLES prefer,    \* the profile's Prefer list
          fleet,     \* cfg.Upstreams, in configuration order
          healthy, latency, current
vars == <<prefer, fleet, healthy, latency, current>>

-----------------------------------------------------------------------------
\* tierOf as a scan; -1 is "no preference matches"
tierOf(n) ==
  IF prefer = <<>> THEN 0
  ELSE FoldLeft(LAMBDA found, i :
                  IF found >= 0 THEN found
                  ELSE IF Matches(prefer[i], n) THEN i - 1 ELSE found,
                0 - 1, [i \in DOMAIN prefer |-> i])

\* One iteration of the loop that collects candidates
Consider(acc, n, up) ==
  LET tier == tierOf(n)
  IN  IF n \notin up \/ tier < 0 THEN acc
      ELSE IF acc.bestTier < 0 \/ tier < acc.bestTier
           THEN [bestTier |-> tier, candidates |-> <<n>>]
      ELSE IF tier = acc.bestTier
           THEN [acc EXCEPT !.candidates = Append(@, n)]
      ELSE acc

Collect(up) ==
  FoldLeft(LAMBDA acc, n : Consider(acc, n, up),
           [bestTier |-> 0 - 1, candidates |-> <<>>], fleet).candidates

\* Slip: equal latencies are not told apart by name
FastestByLatency(candidates, lat) ==
  FoldLeft(LAMBDA best, n : IF lat[n] < lat[best] THEN n ELSE best,
           Head(candidates), candidates)

\* slices.MinFunc by latency, then name: the first of the minimal elements
Fastest(candidates, lat) ==
  LET Less(a, b) == lat[a] < lat[b] \/ (lat[a] = lat[b] /\ a < b)
  IN  FoldLeft(LAMBDA best, n : IF Less(n, best) THEN n ELSE best,
               Head(candidates), candidates)

\* Slip: a faster upstream takes a peer away from one that still qualifies
SelectNotSticky(up, lat, cur) ==
  LET candidates == Collect(up)
  IN  IF candidates = <<>> THEN NoName ELSE Fastest(candidates, lat)

\* Select; NoName is ok = false
Select(up, lat, cur) ==
  LET candidates == Collect(up)
  IN  IF candidates = <<>> THEN NoName
      ELSE IF \E i \in DOMAIN candidates : candidates[i] = cur THEN cur
      ELSE Fastest(candidates, lat)

Init ==
  /\ prefer \in UNION {[1 .. n -> MatchSet] : n \in 0 .. MaxPrefer}
  /\ Valid(prefer)
  /\ fleet \in SetToSeqs(Names)
  /\ healthy = {} /\ latency = [n \in Names |-> 0] /\ current = NoName

\* A probe round changes health and latency and the peer is re-evaluated
Reassess(up, lat) ==
  /\ healthy' = up
  /\ latency' = [n \in Names |-> IF n \in up THEN lat[n] ELSE latency[n]]
  /\ current' = Select(up, latency', current)
  /\ UNCHANGED <<prefer, fleet>>

Next == \E up \in SUBSET Names, lat \in [Names -> Latencies] : Reassess(up, lat)

Spec == Init /\ [][Next]_vars

-----------------------------------------------------------------------------
\* Every call returns one of the choices the daemon model allows, and blocks
\* the peer only when there is none ("the caller must then fail closed").
ChoiceIsAllowed ==
  [][LET choices == Selectable(Tiers(prefer), healthy', current)
     IN  IF choices = {} THEN current' = NoName ELSE current' \in choices]_vars

\* The choice never depends on the order of the configuration: the lowest
\* latency wins and equal latencies fall back to the lowest name.
Deterministic ==
  [][current' \notin {NoName, current} =>
       \A n \in Candidates(Tiers(prefer), healthy') :
          \/ latency'[current'] < latency'[n]
          \/ latency'[current'] = latency'[n] /\ current' <= n]_vars
=============================================================================
