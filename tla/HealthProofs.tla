---------------------------- MODULE HealthProofs ----------------------------
(***************************************************************************)
(* The tracker obeys its hysteresis for every cap, every thresholds and    *)
(* every sequence of results and reloads.                                  *)
(***************************************************************************)
EXTENDS Health, TLAPS, SequenceTheorems

\* The history grows by one result, and forgets only what is older than any
\* threshold: the last n results are all b if the new one is and the n - 1
\* before it were.
LEMMA StreakGrows ==
  ASSUME TypeOK, NEW ok \in BOOLEAN, log' = Remember(ok)
  PROVE  /\ log' \in Seq(BOOLEAN) /\ Len(log') <= MaxLog
         /\ \A n \in 1 .. Cap, b \in BOOLEAN :
              Streak(n, b)' <=> b = ok /\ Streak(n - 1, b)
<1> DEFINE longer == Append(log, ok)
<1>1. log \in Seq(BOOLEAN) /\ Len(log) \in Nat /\ Len(log) <= MaxLog  BY DEF TypeOK
<1>2. MaxLog \in Nat /\ Cap \in Nat \ {0} /\ Cap < MaxLog  BY LogAssumption, CapAssumption
<1>3. /\ longer \in Seq(BOOLEAN) /\ Len(longer) = Len(log) + 1
      /\ longer[Len(log) + 1] = ok
      /\ \A i \in 1 .. Len(log) : longer[i] = log[i]
  BY <1>1, AppendProperties
<1>4. CASE Len(longer) <= MaxLog
  <2>1. log' = longer  BY <1>2, <1>3, <1>4 DEF Remember
  <2>2. ASSUME NEW n \in 1 .. Cap, NEW b \in BOOLEAN
        PROVE  Streak(n, b)' <=> b = ok /\ Streak(n - 1, b)
    <3> HIDE DEF longer
    <3>1. Streak(n, b)' <=>
            /\ n - 1 <= Len(log)
            /\ \A i \in Len(log) + 2 - n .. Len(log) + 1 : longer[i] = b
      BY <1>1, <1>2, <1>3, <2>1 DEF Streak
    <3>2. Streak(n - 1, b) <=>
            /\ n - 1 <= Len(log)
            /\ \A i \in Len(log) + 2 - n .. Len(log) : log[i] = b
      BY <1>1, <1>2 DEF Streak
    <3> QED  BY <1>1, <1>2, <1>3, <3>1, <3>2
  <2> QED  BY <1>3, <1>4, <2>1, <2>2
<1>5. CASE Len(longer) > MaxLog
  <2>1. log' = Tail(longer) /\ longer # <<>> /\ Len(log) = MaxLog
    BY <1>1, <1>2, <1>3, <1>5 DEF Remember
  <2>2. /\ log' \in Seq(BOOLEAN) /\ Len(log') = Len(log)
        /\ \A i \in 1 .. Len(log) : log'[i] = longer[i + 1]
    BY <1>1, <1>3, <2>1, HeadTailProperties
  <2>3. ASSUME NEW n \in 1 .. Cap, NEW b \in BOOLEAN
        PROVE  Streak(n, b)' <=> b = ok /\ Streak(n - 1, b)
    <3> HIDE DEF longer
    <3>1. Streak(n, b)' <=> \A i \in Len(log) + 1 - n .. Len(log) : longer[i + 1] = b
      BY <1>1, <1>2, <2>1, <2>2 DEF Streak
    <3>2. Streak(n - 1, b) <=> \A i \in Len(log) + 2 - n .. Len(log) : log[i] = b
      BY <1>1, <1>2, <2>1 DEF Streak
    <3>3. (\A i \in Len(log) + 1 - n .. Len(log) : longer[i + 1] = b) <=>
            b = ok /\ \A i \in Len(log) + 2 - n .. Len(log) : log[i] = b
      <4>1. ASSUME \A i \in Len(log) + 1 - n .. Len(log) : longer[i + 1] = b
            PROVE  b = ok /\ \A i \in Len(log) + 2 - n .. Len(log) : log[i] = b
        <5>1. longer[Len(log) + 1] = b  BY <1>1, <1>2, <2>1, <4>1
        <5>2. ASSUME NEW i \in Len(log) + 2 - n .. Len(log) PROVE log[i] = b
          <6>1. i - 1 \in Len(log) + 1 - n .. Len(log) /\ (i - 1) + 1 = i /\ i \in 1 .. Len(log)
            BY <1>1, <1>2, <2>1
          <6> QED  BY <1>3, <4>1, <6>1
        <5> QED  BY <1>3, <5>1, <5>2
      <4>2. ASSUME b = ok, \A i \in Len(log) + 2 - n .. Len(log) : log[i] = b,
                   NEW i \in Len(log) + 1 - n .. Len(log)
            PROVE  longer[i + 1] = b
        <5>1. CASE i = Len(log)  BY <1>3, <4>2, <5>1
        <5>2. CASE i # Len(log)
          <6>1. i + 1 \in Len(log) + 2 - n .. Len(log) /\ i + 1 \in 1 .. Len(log)
            BY <1>1, <1>2, <2>1, <5>2
          <6> QED  BY <1>3, <4>2, <6>1
        <5> QED  BY <5>1, <5>2
      <4> QED  BY <4>1, <4>2
    <3> QED  BY <3>1, <3>2, <3>3
  <2> QED  BY <1>1, <2>1, <2>2, <2>3
<1> QED  BY <1>1, <1>2, <1>3, <1>4, <1>5

\* What one result makes of a tracker.
LEMMA ObserveFacts ==
  ASSUME NEW t \in Trackers, NEW ok \in BOOLEAN, NEW u, u = Observe(t, ok)
  PROVE  /\ u \in Trackers /\ u.downAfter = t.downAfter /\ u.upAfter = t.upAfter
         /\ ok => /\ u.fails = 0 /\ u.oks = Bump(t.oks)
                  /\ u.state = IF t.state = "unknown" \/ u.upAfter <= u.oks
                               THEN "up" ELSE t.state
         /\ ~ok => /\ u.oks = 0 /\ u.fails = Bump(t.fails)
                   /\ u.state = IF u.downAfter <= u.fails THEN "down" ELSE t.state
<1>1. Cap \in Nat /\ \A n \in 0 .. Cap : Bump(n) \in 0 .. Cap  BY CapAssumption DEF Bump
<1>2. CASE ok
  <2>1. u = ObserveOk(t)  BY <1>2 DEF Observe
  <2> DEFINE s == IF t.state = "unknown" \/ Bump(t.oks) >= t.upAfter THEN "up" ELSE t.state
  <2>2. u = [state |-> s, fails |-> 0, oks |-> Bump(t.oks),
             downAfter |-> t.downAfter, upAfter |-> t.upAfter]
    BY <2>1 DEF ObserveOk, Trackers
  <2>3. s \in States /\ 0 \in 0 .. Cap /\ Bump(t.oks) \in 0 .. Cap
    BY <1>1 DEF Trackers, States
  <2>4. s = IF t.state = "unknown" \/ t.upAfter <= Bump(t.oks) THEN "up" ELSE t.state
    BY <1>1, <2>3 DEF Trackers, Thresholds
  <2> HIDE DEF s
  <2>5. u \in Trackers  BY <2>2, <2>3 DEF Trackers
  <2>6. /\ u.state = s /\ u.fails = 0 /\ u.oks = Bump(t.oks)
        /\ u.downAfter = t.downAfter /\ u.upAfter = t.upAfter
    BY <2>2
  <2> QED  BY <1>2, <2>4, <2>5, <2>6
<1>3. CASE ~ok
  <2>1. u = ObserveFail(t)  BY <1>3 DEF Observe
  <2> DEFINE s == IF Bump(t.fails) >= t.downAfter THEN "down" ELSE t.state
  <2>2. u = [state |-> s, fails |-> Bump(t.fails), oks |-> 0,
             downAfter |-> t.downAfter, upAfter |-> t.upAfter]
    BY <2>1 DEF ObserveFail, Trackers
  <2>3. s \in States /\ 0 \in 0 .. Cap /\ Bump(t.fails) \in 0 .. Cap
    BY <1>1 DEF Trackers, States
  <2>4. s = IF t.downAfter <= Bump(t.fails) THEN "down" ELSE t.state
    BY <1>1, <2>3 DEF Trackers, Thresholds
  <2> HIDE DEF s
  <2>5. u \in Trackers  BY <2>2, <2>3 DEF Trackers
  <2>6. /\ u.state = s /\ u.fails = Bump(t.fails) /\ u.oks = 0
        /\ u.downAfter = t.downAfter /\ u.upAfter = t.upAfter
    BY <2>2
  <2> QED  BY <1>3, <2>4, <2>5, <2>6
<1> QED  BY <1>2, <1>3

\* A result keeps the counters in step with the history.
LEMMA ProbeInv == ASSUME IInv, NEW ok \in BOOLEAN, Probe(ok) PROVE IInv'
<1>1. TypeOK /\ Counted /\ tracker \in Trackers  BY DEF IInv, TypeOK
<1>2. tracker' = Observe(tracker, ok) /\ log' = Remember(ok) /\ observed' = TRUE  BY DEF Probe
<1>3. Cap \in Nat \ {0}  BY CapAssumption
<1>4. /\ log' \in Seq(BOOLEAN) /\ Len(log') <= MaxLog
      /\ \A n \in 1 .. Cap, b \in BOOLEAN : Streak(n, b)' <=> b = ok /\ Streak(n - 1, b)
  BY <1>1, <1>2, StreakGrows
<1>5. /\ tracker' \in Trackers
      /\ ok => /\ tracker'.fails = 0 /\ tracker'.oks = Bump(tracker.oks)
               /\ tracker'.upAfter <= tracker'.oks => tracker'.state = "up"
      /\ ~ok => /\ tracker'.oks = 0 /\ tracker'.fails = Bump(tracker.fails)
                /\ tracker'.downAfter <= tracker'.fails => tracker'.state = "down"
  BY <1>1, <1>2, ObserveFacts
<1>6. TypeOK'  BY <1>2, <1>4, <1>5 DEF TypeOK
<1>7. tracker.fails \in 0 .. Cap /\ tracker.oks \in 0 .. Cap  BY <1>1 DEF Trackers
<1>8. \A n \in 1 .. Cap, c \in 0 .. Cap : n - 1 <= c <=> n <= Bump(c)  BY <1>3 DEF Bump
<1>9. ASSUME NEW n \in 1 .. Cap
      PROVE  (Streak(n, FALSE)' <=> n <= tracker'.fails) /\ (Streak(n, TRUE)' <=> n <= tracker'.oks)
  <2>1. n - 1 \in 0 .. Cap /\ ~(n <= 0)  BY <1>3
  <2>2. /\ Streak(n - 1, FALSE) <=> n - 1 <= tracker.fails
        /\ Streak(n - 1, TRUE) <=> n - 1 <= tracker.oks
    BY <1>1, <2>1 DEF Counted
  <2>3. /\ Streak(n, FALSE)' <=> FALSE = ok /\ Streak(n - 1, FALSE)
        /\ Streak(n, TRUE)' <=> TRUE = ok /\ Streak(n - 1, TRUE)
    BY <1>4
  <2> QED  BY <1>5, <1>7, <1>8, <2>1, <2>2, <2>3
<1>10. Streak(0, FALSE)' /\ Streak(0, TRUE)'  BY <1>4 DEF Streak
<1>11. 0 <= tracker'.fails /\ 0 <= tracker'.oks  BY <1>3, <1>5 DEF Trackers
<1>12. Counted'
  <2> SUFFICES ASSUME NEW n \in 0 .. Cap
               PROVE  /\ Streak(n, FALSE)' <=> n <= tracker'.fails
                      /\ Streak(n, TRUE)' <=> n <= tracker'.oks
    BY DEF Counted
  <2>1. n = 0 \/ n \in 1 .. Cap  BY <1>3
  <2> QED  BY <1>9, <1>10, <1>11, <2>1
<1>13. Decided'
  <2>1. tracker'.downAfter \in 1 .. Cap /\ tracker'.upAfter \in 1 .. Cap
    BY <1>5 DEF Trackers, Thresholds
  <2>2. ~(tracker'.downAfter <= 0) /\ ~(tracker'.upAfter <= 0)  BY <1>3, <2>1
  <2> QED  BY <1>5, <2>2 DEF Decided
<1> QED  BY <1>6, <1>12, <1>13 DEF IInv

\* A reload touches neither history nor counters, and nothing is decided until
\* the next result.
LEMMA ReloadInv ==
  ASSUME IInv, NEW d \in Thresholds, NEW u \in Thresholds, Reload(d, u) PROVE IInv'
<1>1. /\ tracker \in Trackers /\ log' = log /\ observed' = FALSE
      /\ tracker' = [tracker EXCEPT !.downAfter = d, !.upAfter = u]
  BY DEF IInv, TypeOK, Reload, SetThresholds
<1>2. /\ tracker' \in Trackers
      /\ tracker'.fails = tracker.fails /\ tracker'.oks = tracker.oks
  BY <1>1 DEF Trackers
<1>3. TypeOK'  BY <1>1, <1>2 DEF IInv, TypeOK
<1>4. \A n \in 0 .. Cap, b \in BOOLEAN : Streak(n, b)' <=> Streak(n, b)  BY <1>1 DEF Streak
<1>5. Counted'  BY <1>2, <1>4 DEF IInv, Counted
<1> QED  BY <1>1, <1>3, <1>5 DEF IInv, Decided

\* A new tracker has seen nothing.
LEMMA InitInv == Init => IInv
<1> SUFFICES ASSUME Init PROVE IInv  OBVIOUS
<1>1. Cap \in Nat \ {0} /\ MaxLog \in Nat  BY CapAssumption, LogAssumption
<1>2. PICK d \in Thresholds, u \in Thresholds : tracker = NewTracker(d, u)  BY DEF Init
<1>3. log = <<>> /\ Len(log) = 0 /\ observed = FALSE  BY DEF Init
<1>4. tracker \in Trackers /\ tracker.fails = 0 /\ tracker.oks = 0
  BY <1>1, <1>2 DEF NewTracker, Trackers, States
<1>5. TypeOK
  <2>1. log \in Seq(BOOLEAN)  BY <1>3, EmptySeq
  <2>2. observed \in BOOLEAN  BY <1>3, Zenon
  <2>3. Len(log) <= MaxLog  BY <1>1, <1>3
  <2> QED  BY <1>4, <2>1, <2>2, <2>3 DEF TypeOK
<1>6. Counted  BY <1>1, <1>3, <1>4 DEF Counted, Streak
<1> QED  BY <1>3, <1>5, <1>6 DEF IInv, Decided

\* Every step keeps the invariant.
LEMMA NextInv == IInv /\ [Next]_vars => IInv'
<1> SUFFICES ASSUME IInv, [Next]_vars PROVE IInv'  OBVIOUS
<1>1. CASE Next  BY <1>1, ProbeInv, ReloadInv DEF Next
<1>2. CASE UNCHANGED vars
  BY <1>2 DEF vars, IInv, TypeOK, Counted, Decided, Streak
<1> QED  BY <1>1, <1>2

\* A full streak decides the state, whatever reloads did to the thresholds while
\* it was building up (tracker.go, Observe).
THEOREM StreaksDecide == Spec => []StreakDecides
<1>1. IInv => StreakDecides
  <2> SUFFICES ASSUME IInv, observed PROVE
        /\ Streak(tracker.downAfter, FALSE) => tracker.state = "down"
        /\ Streak(tracker.upAfter, TRUE) => tracker.state = "up"
    BY DEF StreakDecides
  <2>1. Cap \in Nat /\ tracker.downAfter \in 1 .. Cap /\ tracker.upAfter \in 1 .. Cap
    BY CapAssumption DEF IInv, TypeOK, Trackers, Thresholds
  <2>2. tracker.downAfter \in 0 .. Cap /\ tracker.upAfter \in 0 .. Cap  BY <2>1
  <2> QED  BY <2>2 DEF IInv, Counted, Decided
<1> QED  BY <1>1, InitInv, NextInv, PTL DEF Spec

\* The state moves only on a full streak or the first success, and never in a
\* reload (Observe, SetThresholds).
THEOREM MovesNeedStreaks == Spec => MovesOnlyOnStreak
<1> DEFINE Move ==
      tracker'.state # tracker.state =>
        \/ tracker'.state = "down" /\ Streak(tracker.downAfter, FALSE)'
        \/ tracker'.state = "up" /\ Streak(tracker.upAfter, TRUE)'
        \/ tracker.state = "unknown" /\ tracker'.state = "up" /\ Streak(1, TRUE)'
<1>1. IInv /\ IInv' /\ [Next]_vars => [Move]_vars
  <2> SUFFICES ASSUME IInv, IInv', Next, tracker'.state # tracker.state PROVE Move
    OBVIOUS
  <2>1. tracker \in Trackers /\ tracker' \in Trackers  BY DEF IInv, TypeOK
  <2>2. PICK ok \in BOOLEAN : Probe(ok)
    <3>1. ASSUME NEW d \in Thresholds, NEW u \in Thresholds, Reload(d, u) PROVE FALSE
      BY <2>1, <3>1 DEF Reload, SetThresholds, Trackers
    <3> QED  BY <3>1 DEF Next
  <2>3. tracker' = Observe(tracker, ok)  BY <2>2 DEF Probe
  <2>4. Cap \in Nat \ {0} /\ tracker'.downAfter \in 1 .. Cap /\ tracker'.upAfter \in 1 .. Cap
    BY <2>1, CapAssumption DEF Trackers, Thresholds
  <2>5. /\ tracker'.downAfter \in 0 .. Cap /\ tracker'.upAfter \in 0 .. Cap /\ 1 \in 0 .. Cap
    BY <2>4
  <2>6. \A n \in 0 .. Cap :
          (Streak(n, FALSE)' <=> n <= tracker'.fails) /\ (Streak(n, TRUE)' <=> n <= tracker'.oks)
    BY DEF IInv, Counted
  <2>7. CASE ok
    <3>1. /\ tracker'.oks = Bump(tracker.oks)
          /\ tracker'.state = "up"
          /\ tracker.state = "unknown" \/ tracker'.upAfter <= tracker'.oks
      BY <2>1, <2>3, <2>7, ObserveFacts
    <3>2. 1 <= tracker'.oks
      BY <2>1, <2>4, <3>1 DEF Bump, Trackers
    <3>3. Streak(1, TRUE)'  BY <2>5, <2>6, <3>2
    <3>4. tracker'.upAfter <= tracker'.oks => Streak(tracker.upAfter, TRUE)'  BY <2>5, <2>6
    <3> QED  BY <3>1, <3>3, <3>4
  <2>8. CASE ~ok
    <3>1. tracker'.state = "down" /\ tracker'.downAfter <= tracker'.fails
      BY <2>1, <2>3, <2>8, ObserveFacts
    <3>2. Streak(tracker.downAfter, FALSE)'  BY <2>5, <2>6, <3>1
    <3> QED  BY <3>1, <3>2
  <2> QED  BY <2>7, <2>8
<1> QED  BY <1>1, InitInv, NextInv, PTL DEF Spec, MovesOnlyOnStreak
=============================================================================
