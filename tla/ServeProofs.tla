---------------------------- MODULE ServeProofs ----------------------------
(***************************************************************************)
(* Proofs about Serve.tla for any number of processes and keys, however    *)
(* the processes end.  The types hold of overlapping processes too; the    *)
(* PID file names the running process where they do not overlap.           *)
(***************************************************************************)
EXTENDS Serve, TLAPS

USE DEF host, process, ghosts

-----------------------------------------------------------------------------
(* Types                                                                   *)

\* Before any process has started the variables have their types.
LEMMA TypeInit == Init => TypeOK
BY DEF Init, TypeOK, MainSteps, HupSteps

\* A process that dies leaves every variable with its type.
LEMMA DiesType ==
  ASSUME TypeOK, NEW i \in Instances, NEW how \in {"killed", "hup", "panic", "exit"},
         Dies(i, how), UNCHANGED <<store, unseen>>
  PROVE  TypeOK'
BY DEF TypeOK, Dies, Set, MainSteps, HupSteps

\* Signals, edits and the status file keep the types.
LEMMA TypeOutside ==
  ASSUME TypeOK,
         \/ \E i \in Instances : Kill(i) \/ Terminate(i) \/ Publish(i) \/ Unpublish(i)
         \/ \E k \in Keys : Edit(k)
         \/ Nudge
  PROVE  TypeOK'
<1>1. ASSUME NEW i \in Instances, Kill(i) PROVE TypeOK'
  BY <1>1, DiesType DEF Kill
<1>2. ASSUME NEW i \in Instances, Terminate(i) PROVE TypeOK'
  BY <1>2 DEF TypeOK, Terminate, Set
<1>3. ASSUME NEW i \in Instances, Publish(i) \/ Unpublish(i) PROVE TypeOK'
  BY <1>3 DEF TypeOK, Publish, Unpublish, Set
<1>4. ASSUME NEW k \in Keys, Edit(k) PROVE TypeOK'
  BY <1>4 DEF TypeOK, Edit
<1>5. CASE Nudge
  <2>1. pidFile \in Instances
    BY <1>5 DEF Nudge, TypeOK
  <2>2. CASE Dies(pidFile, "hup")
    BY <1>5, <2>1, <2>2, DiesType DEF Nudge
  <2>3. CASE ~Dies(pidFile, "hup")
    <3>1. /\ hupChan' = Set(hupChan, pidFile, TRUE) /\ asked' = Set(asked, pidFile, TRUE)
          /\ UNCHANGED <<pc, hup, publisher, term, mu, down, opened, known, moving, ready,
                         pidFile, status, lm0, tun, rules, ended, store, unseen>>
      BY <1>5, <2>3 DEF Nudge
    <3>2. hupChan' \in [Instances -> BOOLEAN] /\ asked' \in [Instances -> BOOLEAN]
      BY <2>1, <3>1 DEF TypeOK, Set
    <3> QED
      BY <3>1, <3>2 DEF TypeOK
  <2> QED
    BY <2>2, <2>3
<1> QED
  BY <1>1, <1>2, <1>3, <1>4, <1>5

\* The main goroutine keeps the types.
LEMMA TypeMain == ASSUME TypeOK, NEW i \in Instances, Main(i) PROVE TypeOK'
<1> USE DEF TypeOK, Set, Goto, MainSteps, HupSteps
<1>1. CASE Serve(i)
  BY <1>1 DEF Serve
<1>10. CASE WritePID(i)
  BY <1>10 DEF WritePID
<1>11. CASE Spawn(i)
  BY <1>11 DEF Spawn
<1>12. CASE StartLock(i)
  BY <1>12 DEF StartLock
<1>2. CASE NewDown(i)
  BY <1>2 DEF NewDown, StartError
<1>3. CASE OpenUpstream(i)
  <2>1. CASE StartError(i) /\ UNCHANGED <<tun, opened>>
    BY <1>3, <2>1 DEF OpenUpstream, StartError
  <2>2. CASE tun' = i /\ opened' = Set(opened, i, TRUE) /\ Goto(i, "setup") /\ UNCHANGED mu
    BY <1>3, <2>2 DEF OpenUpstream
  <2> QED
    BY <1>3, <2>1, <2>2 DEF OpenUpstream
<1>4. CASE SetUp(i)
  BY <1>4 DEF SetUp, StartError
<1>5. CASE MainReconcile(i)
  BY <1>5 DEF MainReconcile, Reconciled
<1>6. CASE Tick(i) \/ RunReturns(i) \/ StopLock(i)
  BY <1>6 DEF Tick, RunReturns, StopLock
<1>7. CASE Stopped(i)
  BY <1>7 DEF Stopped
<1>8. CASE RemovePID(i)
  BY <1>8 DEF RemovePID
<1>9. CASE Exit(i)
  BY <1>9, DiesType DEF Exit
<1> QED
  BY <1>1, <1>2, <1>3, <1>4, <1>5, <1>6, <1>7, <1>8, <1>9, <1>10, <1>11, <1>12 DEF Main

\* handleHUP keeps the types.
LEMMA TypeHUP == ASSUME TypeOK, NEW i \in Instances, HandleHUP(i) PROVE TypeOK'
<1>1. CASE Notify(i)
  BY <1>1 DEF TypeOK, Set, HupSteps, Notify
<1>2. CASE Take(i)
  <2>1. hup' \in [Instances -> HupSteps]
    BY <1>2 DEF TypeOK, Set, HupSteps, Take
  <2> QED
    BY <1>2, <2>1 DEF TypeOK, Set, Take
<1>3. CASE Quit(i)
  BY <1>3 DEF TypeOK, Set, HupSteps, Quit
<1>4. CASE HupUnlock(i)
  BY <1>4 DEF TypeOK, Set, HupSteps, HupUnlock
<1>5. CASE HupReload(i)
  <2>1. moving' \in [Instances -> BOOLEAN]
    <3>1. PICK other \in BOOLEAN :
            moving' = [moving EXCEPT ![i] = moving[i] \/ (other /\ known[i] # {})]
      BY <1>5 DEF HupReload, Set
    <3>2. (moving[i] \/ (other /\ known[i] # {})) \in BOOLEAN
      OBVIOUS
    <3> QED
      BY <3>1, <3>2 DEF TypeOK
  <2>2. opened' \in [Instances -> BOOLEAN] /\ tun' \in Instances \cup {None}
    BY <1>5 DEF TypeOK, Set, HupReload
  <2>3. hup' \in [Instances -> HupSteps]
    BY <1>5 DEF TypeOK, Set, HupSteps, HupReload
  <2> QED
    BY <1>5, <2>1, <2>2, <2>3 DEF TypeOK, HupReload
<1>6. CASE HupReconcile(i) /\ Panics(i)
  BY <1>6, DiesType DEF HupReconcile
<1>7. CASE HupReconcile(i) /\ ~Panics(i)
  <2>1. /\ Reconciled(i) /\ hup' = Set(hup, i, "reconciling") /\ mu' = Set(mu, i, "hup")
        /\ UNCHANGED <<store, pidFile, status, lm0, tun, pc, publisher, hupChan, term,
                       down, opened, ready, asked, ended>>
    BY <1>7 DEF HupReconcile
  <2>2. unseen' \subseteq Keys /\ rules' \subseteq Instances
    BY <2>1 DEF TypeOK, Reconciled
  <2>3. known' \in [Instances -> SUBSET Keys] /\ moving' \in [Instances -> BOOLEAN]
    BY <2>1 DEF TypeOK, Reconciled, Set
  <2>4. hup' \in [Instances -> HupSteps] /\ mu' \in [Instances -> {"free", "main", "hup"}]
    BY <2>1 DEF TypeOK, Set, HupSteps
  <2> QED
    BY <2>1, <2>2, <2>3, <2>4 DEF TypeOK
<1> QED
  BY <1>1, <1>2, <1>3, <1>4, <1>5, <1>6, <1>7 DEF HandleHUP

\* Every step keeps the types.
LEMMA TypeNext == TypeOK /\ [Next]_vars => TypeOK'
<1> SUFFICES ASSUME TypeOK, [Next]_vars PROVE TypeOK'
  OBVIOUS
<1>1. CASE UNCHANGED vars
  BY <1>1 DEF vars, TypeOK
<1> QED
  BY <1>1, TypeMain, TypeHUP, TypeOutside DEF Next

\* Every variable has its type, whether processes overlap or not.
THEOREM TypeCorrect == Spec => []TypeOK
BY TypeInit, TypeNext, PTL DEF Spec

-----------------------------------------------------------------------------
(* One process after the other                                             *)

USE DEF MainSteps, HupSteps, Running

\* A step of the process that runs disturbs no other.
LEMMA StepOfOne ==
  ASSUME TypeOK, TypeOK', ServeInv, NEW i \in Instances, pc[i] # "off",
         \A j \in Instances : j # i => pc'[j] = pc[j] /\ hup'[j] = hup[j],
         ProcessOK(i)'
  PROVE  ServeInv'
<1>1. \A j \in Instances : j # i => pc'[j] = "off" /\ hup'[j] = "none"
  BY DEF ServeInv, OneProcess, ProcessOK
<1> QED
  BY <1>1 DEF ServeInv, OneProcess, ProcessOK

\* Death is such a step.
LEMMA DeathOfOne ==
  ASSUME TypeOK, TypeOK', ServeInv, NEW i \in Instances, pc[i] # "off", NEW how, Dies(i, how)
  PROVE  ServeInv'
<1>1. ProcessOK(i)' /\ \A j \in Instances : j # i => pc'[j] = pc[j] /\ hup'[j] = hup[j]
  BY DEF Dies, Set, TypeOK, ProcessOK
<1> QED
  BY <1>1, StepOfOne

\* Signals from outside end a process or leave the file alone.
LEMMA ServeOutside ==
  ASSUME TypeOK, TypeOK', ServeInv,
         \/ \E i \in Instances : Kill(i) \/ Terminate(i) \/ Publish(i) \/ Unpublish(i)
         \/ \E k \in Keys : Edit(k)
         \/ Nudge
  PROVE  ServeInv'
<1>1. ASSUME UNCHANGED <<pc, hup, pidFile>> PROVE ServeInv'
  BY <1>1 DEF ServeInv, OneProcess, ProcessOK
<1>2. ASSUME NEW i \in Instances, Kill(i) PROVE ServeInv'
  BY <1>2, DeathOfOne DEF Kill
<1>3. CASE Nudge
  <2>1. pidFile \in Instances /\ pc[pidFile] # "off"
    BY <1>3 DEF Nudge, TypeOK
  <2>2. CASE Dies(pidFile, "hup")
    BY <2>1, <2>2, DeathOfOne
  <2> QED
    BY <1>1, <1>3, <2>2 DEF Nudge
<1> QED
  BY <1>1, <1>2, <1>3 DEF Terminate, Publish, Unpublish, Edit

\* The main goroutine writes the file before it runs.
LEMMA ServeMain ==
  ASSUME Overlap = FALSE, TypeOK, TypeOK', ServeInv, NEW i \in Instances, Main(i)
  PROVE  ServeInv'
<1>1. CASE Serve(i)
  <2>1. \A j \in Instances : pc[j] = "off"
    BY <1>1 DEF Serve
  <2>2. \A j \in Instances : j # i => pc'[j] = "off"
    BY <1>1, <2>1 DEF Serve, Goto, Set, TypeOK
  <2>3. pc'[i] = "open" /\ UNCHANGED hup
    BY <1>1 DEF Serve, Goto, Set, TypeOK
  <2> QED
    BY <2>1, <2>2, <2>3 DEF ServeInv, OneProcess, ProcessOK
<1>2. CASE Exit(i)
  BY <1>2, DeathOfOne DEF Exit
<1>3. ASSUME ~Serve(i), ~Exit(i) PROVE ServeInv'
  <2>1. pc[i] # "off" /\ \A j \in Instances : j # i => pc'[j] = pc[j] /\ hup'[j] = hup[j]
    BY <1>3 DEF Main, WritePID, Spawn, StartLock, NewDown, OpenUpstream, SetUp, MainReconcile,
                Tick, RunReturns, StopLock, Stopped, RemovePID, StartError, Goto, Set, TypeOK
  <2> SUFFICES ProcessOK(i)'
    BY <2>1, StepOfOne
  <2> USE DEF ServeInv, ProcessOK, Goto, Set, TypeOK
  <2>2. CASE WritePID(i) \/ Spawn(i) \/ StartLock(i)
    BY <2>2 DEF WritePID, Spawn, StartLock
  <2>3. CASE NewDown(i)
    BY <2>3 DEF NewDown, StartError
  <2>4. CASE OpenUpstream(i)
    BY <2>4 DEF OpenUpstream, StartError
  <2>5. CASE SetUp(i)
    BY <2>5 DEF SetUp, StartError
  <2>6. CASE MainReconcile(i)
    BY <2>6 DEF MainReconcile
  <2>7. CASE Tick(i) \/ RunReturns(i) \/ StopLock(i)
    BY <2>7 DEF Tick, RunReturns, StopLock
  <2>8. CASE Stopped(i) \/ RemovePID(i)
    BY <2>8 DEF Stopped, RemovePID
  <2> QED
    BY <1>3, <2>2, <2>3, <2>4, <2>5, <2>6, <2>7, <2>8 DEF Main
<1> QED
  BY <1>1, <1>2, <1>3

\* handleHUP lives as long as its process.
LEMMA ServeHUP ==
  ASSUME TypeOK, TypeOK', ServeInv, NEW i \in Instances, HandleHUP(i)
  PROVE  ServeInv'
<1>1. pc[i] # "off"
  BY DEF ServeInv, ProcessOK, HandleHUP, Notify, Take, Quit, HupReload, HupReconcile, HupUnlock
<1>2. CASE Dies(i, "panic")
  BY <1>1, <1>2, DeathOfOne
<1>3. CASE ~Dies(i, "panic")
  <2>1. UNCHANGED <<pc, pidFile>>
        /\ \A j \in Instances : j # i => hup'[j] = hup[j]
    BY <1>3 DEF HandleHUP, Notify, Take, Quit, HupReload, HupReconcile, HupUnlock,
                Set, TypeOK
  <2>2. ProcessOK(i)'
    BY <1>1, <2>1 DEF ServeInv, ProcessOK
  <2> QED
    BY <1>1, <2>1, <2>2, StepOfOne
<1> QED
  BY <1>2, <1>3

\* Every step keeps the invariant where processes do not overlap.
LEMMA ServeNext ==
  ASSUME Overlap = FALSE, TypeOK, TypeOK', ServeInv, [Next]_vars PROVE ServeInv'
<1>1. CASE UNCHANGED vars
  BY <1>1 DEF vars, ServeInv, OneProcess, ProcessOK
<1> QED
  BY <1>1, ServeMain, ServeHUP, ServeOutside DEF Next

\* Initially no process runs.
LEMMA ServeInit == Init => ServeInv
BY DEF Init, ServeInv, OneProcess, ProcessOK

\* Processes that run one after the other, however they end, keep the invariant.
LEMMA ServeInvariant == ASSUME Overlap = FALSE PROVE Spec => []ServeInv
<1>1. TypeOK /\ TypeOK' /\ ServeInv /\ [Next]_vars => ServeInv'
  BY ServeNext
<1> QED
  BY <1>1, ServeInit, TypeCorrect, PTL DEF Spec

\* lotsman.pid names the process that runs, so that a command that edits the store
\* wakes it, however earlier processes ended and whatever they left.
THEOREM PIDIsOwn == ASSUME Overlap = FALSE PROVE Spec => []NudgeFindsDaemon
<1>1. ServeInv => NudgeFindsDaemon
  BY DEF ServeInv, ProcessOK, Running, MainSteps, NudgeFindsDaemon
<1> QED
  BY <1>1, ServeInvariant, PTL
=============================================================================
