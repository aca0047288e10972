------------------------------ MODULE Tracker ------------------------------
(***************************************************************************)
(* internal/health: the Tracker that turns a stream of probe results into  *)
(* the health of one upstream.  Only operators; Health.tla runs them as a  *)
(* state machine and Daemon.tla keeps one tracker per upstream object.     *)
(*                                                                         *)
(* The code counts consecutive results in an int.  Only comparisons with   *)
(* the thresholds are ever made, so the counters saturate at Cap, which no *)
(* threshold exceeds; Health.tla checks the result against the history.     *)
(* The latency of the last good probe is data nothing here compares.       *)
(*                                                                         *)
(* A definition marked "Slip", here and in the other modules, is what a    *)
(* plausible mistake would make of the one after it.  No specification     *)
(* uses it; it shows that a property would notice the mistake.             *)
(***************************************************************************)
EXTENDS Naturals

CONSTANT Cap        \* the largest threshold a configuration may carry

ASSUME CapAssumption == Cap \in Nat \ {0}

\* health.State
States == {"unknown", "up", "down"}

\* config.Validate refuses thresholds below 1
Thresholds == 1 .. Cap

Trackers == [state : States, fails : 0 .. Cap, oks : 0 .. Cap,
             downAfter : Thresholds, upAfter : Thresholds]

NewTracker(downAfter, upAfter) ==
  [state |-> "unknown", fails |-> 0, oks |-> 0,
   downAfter |-> downAfter, upAfter |-> upAfter]

\* A counter that stops at Cap
Bump(n) == IF n < Cap THEN n + 1 ELSE Cap

\* Slip: a success does not end a streak of failures
ObserveOkKeepsFails(t) ==
  [t EXCEPT !.oks = Bump(t.oks),
            !.state = IF t.state = "unknown" \/ Bump(t.oks) >= t.upAfter
                      THEN "up" ELSE t.state]

\* Observe(true, latency): one success is enough to leave Unknown
ObserveOk(t) ==
  [t EXCEPT !.fails = 0, !.oks = Bump(t.oks),
            !.state = IF t.state = "unknown" \/ Bump(t.oks) >= t.upAfter
                      THEN "up" ELSE t.state]

\* Slip: one failure too many is needed
ObserveFailLate(t) ==
  [t EXCEPT !.oks = 0, !.fails = Bump(t.fails),
            !.state = IF Bump(t.fails) > t.downAfter THEN "down" ELSE t.state]

\* Observe(false, latency)
ObserveFail(t) ==
  [t EXCEPT !.oks = 0, !.fails = Bump(t.fails),
            !.state = IF Bump(t.fails) >= t.downAfter THEN "down" ELSE t.state]

Observe(t, ok) == IF ok THEN ObserveOk(t) ELSE ObserveFail(t)

\* SetThresholds leaves the state and the running counts alone
SetThresholds(t, downAfter, upAfter) ==
  [t EXCEPT !.downAfter = downAfter, !.upAfter = upAfter]
=============================================================================
