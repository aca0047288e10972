------------------------------- MODULE Health -------------------------------
(***************************************************************************)
(* One tracker fed by a prober, with reloads changing its thresholds while *)
(* a streak is running.  `log` is the history of results a reader of the   *)
(* documentation would reason about; the tracker never sees it.            *)
(***************************************************************************)
EXTENDS Tracker, Sequences

CONSTANT MaxLog      \* how many of the latest probe results are remembered

ASSUME LogAssumption == MaxLog \in Nat /\ MaxLog > Cap

VARIABLES tracker,   \* the tracker as the daemon holds it
          log,       \* the last MaxLog results, newest last
          observed   \* whether the last step was a probe result

vars == <<tracker, log, observed>>

Init ==
  /\ \E d, u \in Thresholds : tracker = NewTracker(d, u)
  /\ log = <<>>
  /\ observed = FALSE

Remember(ok) ==
  LET longer == Append(log, ok)
  IN  IF Len(longer) > MaxLog THEN Tail(longer) ELSE longer

\* A probe round delivers one result
Probe(ok) ==
  /\ tracker' = Observe(tracker, ok)
  /\ log' = Remember(ok)
  /\ observed' = TRUE

\* A reload keeps the upstream and swaps its thresholds
Reload(d, u) ==
  /\ tracker' = SetThresholds(tracker, d, u)
  /\ observed' = FALSE
  /\ UNCHANGED log

Next ==
  \/ \E ok \in BOOLEAN : Probe(ok)
  \/ \E d, u \in Thresholds : Reload(d, u)

Spec == Init /\ [][Next]_vars

-----------------------------------------------------------------------------
\* The last n results were all `ok`
Streak(n, ok) ==
  /\ n <= Len(log)
  /\ \A i \in (Len(log) - n + 1) .. Len(log) : log[i] = ok

\* Right after a probe the state obeys the documented hysteresis: a full
\* streak of the current length always decides it, whatever the thresholds
\* were while the streak was building up (tracker.go, Observe).
StreakDecides ==
  observed =>
    /\ Streak(tracker.downAfter, FALSE) => tracker.state = "down"
    /\ Streak(tracker.upAfter, TRUE) => tracker.state = "up"

\* The state only moves on a full streak of results, or on the first success
\* of an upstream that is still unknown; a reload never moves it
\* (tracker.go: "it takes downAfter consecutive failures to leave Up and
\* upAfter consecutive successes to leave Down").
MovesOnlyOnStreak ==
  [][tracker'.state # tracker.state =>
       \/ tracker'.state = "down" /\ Streak(tracker.downAfter, FALSE)'
       \/ tracker'.state = "up" /\ Streak(tracker.upAfter, TRUE)'
       \/ tracker.state = "unknown" /\ tracker'.state = "up" /\ Streak(1, TRUE)']_vars

-----------------------------------------------------------------------------
(* Strengthening                                                           *)

TypeOK ==
  /\ tracker \in Trackers
  /\ log \in Seq(BOOLEAN) /\ Len(log) <= MaxLog
  /\ observed \in BOOLEAN

\* Each counter is the length of its streak, as far as a threshold can tell
Counted ==
  \A n \in 0 .. Cap :
    /\ Streak(n, FALSE) <=> n <= tracker.fails
    /\ Streak(n, TRUE) <=> n <= tracker.oks

Decided ==
  observed =>
    /\ tracker.downAfter <= tracker.fails => tracker.state = "down"
    /\ tracker.upAfter <= tracker.oks => tracker.state = "up"

IInv == TypeOK /\ Counted /\ Decided
=============================================================================
