------------------------------- MODULE Serve -------------------------------
(***************************************************************************)
(* The process `lotsman serve` around the daemon: its main goroutine, the  *)
(* one that handles SIGHUP and the one that publishes the status, d.mu     *)
(* between them, the PID file and the commands that signal whoever it      *)
(* names.  Processes may overlap, crash and be started again.              *)
(*                                                                         *)
(* Daemon.tla looks inside the critical sections of a running daemon; here *)
(* each is one step, and what counts is the order in which the goroutines  *)
(* get them: before the start, between a failed start and the stop, after  *)
(* the stop.  One upstream TUN and the peers' rules stand for the kernel.  *)
(***************************************************************************)
EXTENDS Naturals, FiniteSets, TLC

CONSTANTS Instances,    \* processes that may run `serve` on the state directory
          Keys,         \* client keys
          Overlap,      \* a process may be started while another runs
          None

ASSUME ServeAssumption == None \notin Instances /\ Overlap \in BOOLEAN

VARIABLES
  store,     \* keys of the peers in the database
  pidFile,   \* the process lotsman.pid names, or None
  status,    \* the process that wrote status.json, or None
  lm0, tun,  \* the process whose TUN of that name exists, or None
  rules      \* processes that have peer rules in the kernel

host == <<store, pidFile, status, lm0, tun, rules>>

VARIABLES
  pc,        \* the main goroutine
  hup,       \* handleHUP
  publisher, \* publishStatus
  hupChan,   \* a signal is in handleHUP's channel, which holds one
  term,      \* the context is cancelled
  mu,        \* who is inside a critical section that other steps interrupt
  down,      \* d.down: "nil", "open" or "closed"
  opened,    \* d.ups holds the upstream
  known,     \* d.devicePeers
  moving,    \* the configuration sends the peers elsewhere
  ready      \* d.ready is closed

process == <<pc, hup, publisher, hupChan, term, mu, down, opened, known, moving, ready>>

VARIABLES
  unseen,    \* observation: keys edited since the last ListPeers of anyone
  asked,     \* observation: the process was signalled for the last edit
  ended      \* observation: what ended the processes since the last start of one

ghosts == <<unseen, asked, ended>>
vars == <<host, process, ghosts>>

Running(i) == pc[i] \in {"loop", "wait"}

Set(var, i, value) == [var EXCEPT ![i] = value]

Init ==
  /\ store = {} /\ pidFile = None /\ status = None /\ lm0 = None /\ tun = None /\ rules = {}
  /\ pc = [i \in Instances |-> "off"] /\ hup = [i \in Instances |-> "none"]
  /\ publisher = [i \in Instances |-> "none"] /\ hupChan = [i \in Instances |-> FALSE]
  /\ term = [i \in Instances |-> FALSE] /\ mu = [i \in Instances |-> "free"]
  /\ down = [i \in Instances |-> "nil"] /\ opened = [i \in Instances |-> FALSE]
  /\ known = [i \in Instances |-> {}] /\ moving = [i \in Instances |-> FALSE]
  /\ ready = [i \in Instances |-> FALSE]
  /\ unseen = {} /\ asked = [i \in Instances |-> FALSE] /\ ended = [i \in Instances |-> "never"]

\* The process is gone: the kernel closes its TUNs, files and rules stay
Dies(i, how) ==
  /\ pc' = Set(pc, i, "off") /\ hup' = Set(hup, i, "none")
  /\ publisher' = Set(publisher, i, "none") /\ hupChan' = Set(hupChan, i, FALSE)
  /\ term' = Set(term, i, FALSE) /\ mu' = Set(mu, i, "free")
  /\ down' = Set(down, i, "nil") /\ opened' = Set(opened, i, FALSE)
  /\ known' = Set(known, i, {}) /\ moving' = Set(moving, i, FALSE)
  /\ ready' = Set(ready, i, FALSE)
  /\ lm0' = (IF lm0 = i THEN None ELSE lm0) /\ tun' = (IF tun = i THEN None ELSE tun)
  /\ asked' = Set(asked, i, FALSE) /\ ended' = Set(ended, i, how)
  /\ UNCHANGED <<pidFile, status, rules>>

Kill(i) == pc[i] # "off" /\ Dies(i, "killed") /\ UNCHANGED <<store, unseen>>

\* SIGTERM, once NotifyContext has asked for it
Terminate(i) ==
  /\ pc[i] \notin {"off", "open", "pid"} /\ ~term[i]
  /\ term' = Set(term, i, TRUE)
  /\ UNCHANGED <<host, ghosts, pc, hup, publisher, hupChan, mu, down, opened, known,
                 moving, ready>>

-----------------------------------------------------------------------------
(* The command line                                                        *)

\* user add or user rm commits
Edit(k) ==
  /\ store' = IF k \in store THEN store \ {k} ELSE store \cup {k}
  /\ unseen' = unseen \cup {k}
  /\ asked' = [i \in Instances |-> FALSE]
  /\ UNCHANGED <<pidFile, status, lm0, tun, rules, process, ended>>

\* Slip: the channel holds nothing, so a busy handleHUP misses the signal
NudgeUnbuffered ==
  /\ pidFile # None /\ pc[pidFile] # "off"
  /\ IF hup[pidFile] \in {"none", "begin", "done"} THEN Dies(pidFile, "hup")
     ELSE /\ hupChan' = Set(hupChan, pidFile, hup[pidFile] = "wait")
          /\ asked' = Set(asked, pidFile, TRUE)
          /\ UNCHANGED <<pc, hup, publisher, term, mu, down, opened, known, moving, ready,
                         pidFile, status, lm0, tun, rules, ended>>
  /\ UNCHANGED <<store, unseen>>

\* nudgeDaemon: SIGHUP to the process the file names, if it is alive.  Before
\* signal.Notify and after signal.Stop the signal has its default action.
Nudge ==
  /\ pidFile # None /\ pc[pidFile] # "off"
  /\ IF hup[pidFile] \in {"none", "begin", "done"} THEN Dies(pidFile, "hup")
     ELSE /\ hupChan' = Set(hupChan, pidFile, TRUE)
          /\ asked' = Set(asked, pidFile, TRUE)
          /\ UNCHANGED <<pc, hup, publisher, term, mu, down, opened, known, moving, ready,
                         pidFile, status, lm0, tun, rules, ended>>
  /\ UNCHANGED <<store, unseen>>

-----------------------------------------------------------------------------
(* serve                                                                   *)

Goto(i, label) == pc' = Set(pc, i, label)

\* openEnv
Serve(i) ==
  /\ pc[i] = "off" /\ (Overlap \/ \A j \in Instances : pc[j] = "off")
  /\ Goto(i, "open") /\ ended' = [j \in Instances |-> "never"]
  /\ UNCHANGED <<host, unseen, asked, hup, publisher, hupChan, term, mu, down, opened, known,
                 moving, ready>>

\* Slip: a file that is there already is taken for a running daemon's
WritePIDOnce(i) ==
  /\ pc[i] = "open" /\ Goto(i, "pid")
  /\ pidFile' = IF pidFile = None THEN i ELSE pidFile
  /\ UNCHANGED <<store, status, lm0, tun, rules, ghosts, hup, publisher, hupChan, term, mu,
                 down, opened, known, moving, ready>>

WritePID(i) ==
  /\ pc[i] = "open" /\ Goto(i, "pid")
  /\ pidFile' = i
  /\ UNCHANGED <<store, status, lm0, tun, rules, ghosts, hup, publisher, hupChan, term, mu,
                 down, opened, known, moving, ready>>

\* NotifyContext and the go statements
Spawn(i) ==
  /\ pc[i] = "pid" /\ Goto(i, "start")
  /\ hup' = Set(hup, i, "begin") /\ publisher' = Set(publisher, i, "waiting")
  /\ UNCHANGED <<host, ghosts, hupChan, term, mu, down, opened, known, moving, ready>>

RemovePID(i) ==
  /\ pc[i] = "remove" /\ Goto(i, "exit")
  /\ pidFile' = None
  /\ UNCHANGED <<store, status, lm0, tun, rules, ghosts, hup, publisher, hupChan, term, mu,
                 down, opened, known, moving, ready>>

Exit(i) == pc[i] = "exit" /\ Dies(i, "exit") /\ UNCHANGED <<store, unseen>>

-----------------------------------------------------------------------------
(* Run: start, the loop, stop                                              *)

StartLock(i) ==
  /\ pc[i] = "start" /\ mu[i] = "free"
  /\ mu' = Set(mu, i, "main") /\ Goto(i, "down")
  /\ UNCHANGED <<host, ghosts, hup, publisher, hupChan, term, down, opened, known, moving, ready>>

\* Slip: an error return leaves the mutex locked
StartErrorKeepsLock(i) == Goto(i, "stop") /\ UNCHANGED mu

StartError(i) == Goto(i, "stop") /\ mu' = Set(mu, i, "free")

NewDown(i) ==
  /\ pc[i] = "down"
  /\ IF lm0 # None THEN StartError(i) /\ UNCHANGED <<lm0, down>>
     ELSE lm0' = i /\ down' = Set(down, i, "open") /\ Goto(i, "ups") /\ UNCHANGED mu
  /\ UNCHANGED <<store, pidFile, status, tun, rules, ghosts, hup, publisher, hupChan, term,
                 opened, known, moving, ready>>

\* openUpstream: the file, DNS, the TUN of that name
OpenUpstream(i) ==
  /\ pc[i] = "ups"
  /\ \/ tun = None /\ tun' = i /\ opened' = Set(opened, i, TRUE) /\ Goto(i, "setup")
        /\ UNCHANGED mu
     \/ StartError(i) /\ UNCHANGED <<tun, opened>>
  /\ UNCHANGED <<store, pidFile, status, lm0, rules, ghosts, hup, publisher, hupChan, term,
                 down, known, moving, ready>>

\* Setup and the devices come up.  removeLeftovers takes the rules an earlier run
\* left, except in a table that looks like another's (Lifecycle!LeftRules).
SetUp(i) ==
  /\ pc[i] = "setup"
  /\ \/ rules' \in SUBSET rules /\ Goto(i, "loop") /\ mu' = Set(mu, i, "free")
     \/ StartError(i) /\ UNCHANGED rules
  /\ UNCHANGED <<store, pidFile, status, lm0, tun, ghosts, hup, publisher, hupChan, term,
                 down, opened, known, moving, ready>>

\* Peers to add, remove or route: what Reconcile needs d.down for
Changed(i) == (store \ known[i]) \cup (known[i] \ store)

\* Reconcile in goroutine g.  With no device yet it dereferences nil; on a
\* closed one no peer can be added, but known ones are routed as ever.  Nobody
\* is routed before a probe has found an upstream healthy.
Reconciled(i) ==
  /\ unseen' = {}
  /\ known' = Set(known, i, IF down[i] = "open" THEN store ELSE known[i])
  /\ \/ UNCHANGED rules
     \/ /\ (Running(i) /\ store # {}) \/ (ready[i] /\ moving[i] /\ known[i] # {})
        /\ rules' = rules \cup {i}
  /\ moving' = Set(moving, i, FALSE)

Panics(i) == down[i] = "nil" /\ Changed(i) # {}

MainReconcile(i) ==
  /\ pc[i] = "loop" /\ mu[i] = "free"
  /\ Reconciled(i) /\ ready' = Set(ready, i, TRUE) /\ Goto(i, "wait")
  /\ UNCHANGED <<store, pidFile, status, lm0, tun, hup, publisher, hupChan, term, mu, down,
                 opened, asked, ended>>

Tick(i) ==
  /\ pc[i] = "wait" /\ Goto(i, "loop")
  /\ UNCHANGED <<host, ghosts, hup, publisher, hupChan, term, mu, down, opened, known,
                 moving, ready>>

RunReturns(i) ==
  /\ pc[i] = "wait" /\ term[i] /\ Goto(i, "stop")
  /\ UNCHANGED <<host, ghosts, hup, publisher, hupChan, term, mu, down, opened, known,
                 moving, ready>>

StopLock(i) ==
  /\ pc[i] = "stop" /\ mu[i] = "free"
  /\ mu' = Set(mu, i, "main") /\ Goto(i, "stopping")
  /\ UNCHANGED <<host, ghosts, hup, publisher, hupChan, term, down, opened, known, moving, ready>>

\* Teardown, here one that succeeds, and every device is closed
Stopped(i) ==
  /\ pc[i] = "stopping" /\ mu' = Set(mu, i, "free") /\ Goto(i, "remove")
  /\ rules' = rules \ {i}
  /\ lm0' = (IF lm0 = i THEN None ELSE lm0) /\ tun' = (IF tun = i THEN None ELSE tun)
  /\ down' = Set(down, i, IF down[i] = "nil" THEN "nil" ELSE "closed")
  /\ UNCHANGED <<store, pidFile, status, ghosts, hup, publisher, hupChan, term, opened, known,
                 moving, ready>>

Main(i) ==
  \/ Serve(i) \/ WritePID(i) \/ Spawn(i) \/ StartLock(i) \/ NewDown(i) \/ OpenUpstream(i)
  \/ SetUp(i) \/ MainReconcile(i) \/ Tick(i) \/ RunReturns(i) \/ StopLock(i) \/ Stopped(i)
  \/ RemovePID(i) \/ Exit(i)

-----------------------------------------------------------------------------
(* handleHUP                                                               *)

Notify(i) ==
  /\ hup[i] = "begin" /\ hup' = Set(hup, i, "wait")
  /\ UNCHANGED <<host, ghosts, pc, publisher, hupChan, term, mu, down, opened, known, moving, ready>>

\* The select takes the signal; the file loads, or it does not
Take(i) ==
  /\ hup[i] = "wait" /\ hupChan[i]
  /\ hupChan' = Set(hupChan, i, FALSE)
  /\ \E next \in {"reload", "reconcile"} : hup' = Set(hup, i, next)
  /\ UNCHANGED <<host, ghosts, pc, publisher, term, mu, down, opened, known, moving, ready>>

Quit(i) ==
  /\ hup[i] = "wait" /\ term[i]
  /\ hup' = Set(hup, i, "done")
  /\ UNCHANGED <<host, ghosts, pc, publisher, hupChan, term, mu, down, opened, known, moving, ready>>

\* A file that sends the peers elsewhere or not, or is refused.  With no
\* upstream in d.ups it is opened, if the name is free.
HupReload(i) ==
  /\ hup[i] = "reload" /\ mu[i] = "free" /\ hup' = Set(hup, i, "reconcile")
  /\ \E other \in BOOLEAN : moving' = Set(moving, i, moving[i] \/ (other /\ known[i] # {}))
  /\ IF ~opened[i] /\ tun = None
     THEN \/ tun' = i /\ opened' = Set(opened, i, TRUE)
          \/ UNCHANGED <<tun, opened>>
     ELSE UNCHANGED <<tun, opened>>
  /\ UNCHANGED <<store, pidFile, status, lm0, rules, ghosts, pc, publisher, hupChan, term, mu,
                 down, known, ready>>

HupReconcile(i) ==
  /\ hup[i] = "reconcile" /\ mu[i] = "free"
  /\ IF Panics(i) THEN Dies(i, "panic") /\ UNCHANGED <<store, unseen>>
     ELSE /\ Reconciled(i) /\ hup' = Set(hup, i, "reconciling") /\ mu' = Set(mu, i, "hup")
          /\ UNCHANGED <<store, pidFile, status, lm0, tun, pc, publisher, hupChan, term,
                         down, opened, ready, asked, ended>>

\* The rest of Reconcile, which works from the list it has read
HupUnlock(i) ==
  /\ hup[i] = "reconciling" /\ hup' = Set(hup, i, "wait") /\ mu' = Set(mu, i, "free")
  /\ UNCHANGED <<host, ghosts, pc, publisher, hupChan, term, down, opened, known, moving, ready>>

HandleHUP(i) == Notify(i) \/ Take(i) \/ Quit(i) \/ HupReload(i) \/ HupReconcile(i) \/ HupUnlock(i)

-----------------------------------------------------------------------------
(* publishStatus                                                           *)

Publish(i) ==
  /\ publisher[i] \in {"waiting", "publishing"} /\ ready[i]
  /\ publisher' = Set(publisher, i, "publishing") /\ status' = i
  /\ UNCHANGED <<store, pidFile, lm0, tun, rules, ghosts, pc, hup, hupChan, term, mu, down,
                 opened, known, moving, ready>>

Unpublish(i) ==
  /\ publisher[i] \in {"waiting", "publishing"} /\ term[i]
  /\ publisher' = Set(publisher, i, "done")
  /\ status' = IF publisher[i] = "publishing" THEN None ELSE status
  /\ UNCHANGED <<store, pidFile, lm0, tun, rules, ghosts, pc, hup, hupChan, term, mu, down,
                 opened, known, moving, ready>>

Next ==
  \/ \E i \in Instances :
       Main(i) \/ HandleHUP(i) \/ Publish(i) \/ Unpublish(i) \/ Kill(i) \/ Terminate(i)
  \/ \E k \in Keys : Edit(k)
  \/ Nudge

Spec == Init /\ [][Next]_vars

\* The main goroutine goes on with what it does; a goroutine that waits for the
\* mutex gets it in the end, since a sync.Mutex starves nobody; handleHUP, once in
\* its loop, takes the next signal; and a select that finds the context cancelled
\* again and again returns some time.  No tick is needed, and no other start.
Fairness ==
  \A i \in Instances :
    /\ WF_vars(NewDown(i) \/ OpenUpstream(i) \/ SetUp(i) \/ Stopped(i) \/ RemovePID(i) \/ Exit(i))
    /\ SF_vars(StartLock(i) \/ MainReconcile(i) \/ StopLock(i)) /\ SF_vars(RunReturns(i))
    /\ WF_vars(Take(i) \/ HupUnlock(i)) /\ SF_vars(HupReload(i) \/ HupReconcile(i))

FairSpec == Spec /\ Fairness

-----------------------------------------------------------------------------
\* A command finds the only process there is through lotsman.pid
\* (OPERATIONS.md: "takes effect immediately when the daemon is running (the
\* CLI nudges it)").
NudgeFindsDaemon ==
  \A i \in Instances :
    Running(i) /\ (\A j \in Instances \ {i} : pc[j] = "off") => pidFile = i

\* An edit followed by a nudge reaches a Reconcile without waiting for a tick,
\* also when handleHUP is busy with an earlier one (one place in its channel).
NudgeIsServed ==
  \A i \in Instances :
    asked[i] /\ unseen # {} ~> unseen = {} \/ ~asked[i] \/ term[i]

\* After SIGTERM the process ends, in whatever step of start it came, with
\* handleHUP in a Reload or Reconcile of its own, signals still coming in and
\* start failing: nobody keeps the mutex from stop for ever (start, Run, stop).
ShutdownFinishes == \A i \in Instances : term[i] ~> pc[i] = "off"

\* A nudge never ends the process it is meant to wake (nudgeDaemon: "asks a
\* running daemon to reconcile now").
NudgeIsHarmless == \A i \in Instances : ended[i] # "hup"

\* Reconcile "is safe to call from any goroutine": handleHUP calls it before
\* start has made the device.
ReconcileIsSafe == \A i \in Instances : ended[i] # "panic"

\* After an orderly exit no status file is left to be taken for a running
\* daemon's (readStatus, user list).
StatusGoesWithDaemon ==
  \A i \in Instances : pc[i] = "off" /\ ended[i] = "exit" => status # i

\* An orderly exit leaves no rule in the kernel (OPERATIONS.md: "removes its
\* rules, routes and nftables table on shutdown").
ExitLeavesNoRule ==
  \A i \in Instances : pc[i] = "off" /\ ended[i] = "exit" => i \notin rules

-----------------------------------------------------------------------------
(* Strengthening, for processes that run one after the other               *)

MainSteps == {"off", "open", "pid", "start", "down", "ups", "setup", "loop", "wait", "stop",
              "stopping", "remove", "exit"}
HupSteps == {"none", "begin", "wait", "reload", "reconcile", "reconciling", "done"}

\* Every variable has its type.
TypeOK ==
  /\ store \subseteq Keys /\ unseen \subseteq Keys /\ rules \subseteq Instances
  /\ {pidFile, status, lm0, tun} \subseteq Instances \cup {None}
  /\ pc \in [Instances -> MainSteps] /\ hup \in [Instances -> HupSteps]
  /\ publisher \in [Instances -> {"none", "waiting", "publishing", "done"}]
  /\ hupChan \in [Instances -> BOOLEAN] /\ term \in [Instances -> BOOLEAN]
  /\ mu \in [Instances -> {"free", "main", "hup"}]
  /\ down \in [Instances -> {"nil", "open", "closed"}] /\ opened \in [Instances -> BOOLEAN]
  /\ known \in [Instances -> SUBSET Keys] /\ moving \in [Instances -> BOOLEAN]
  /\ ready \in [Instances -> BOOLEAN] /\ asked \in [Instances -> BOOLEAN]
  /\ ended \in [Instances -> {"never", "killed", "hup", "panic", "exit"}]

\* No two processes run at the same time.
OneProcess == \A i, j \in Instances : pc[i] # "off" /\ pc[j] # "off" => i = j

\* The file names the process from the moment it is written to its removal, and
\* nothing of a process outlives its main goroutine
ProcessOK(i) ==
  /\ pc[i] = "off" => hup[i] = "none"
  /\ pc[i] \in MainSteps \ {"off", "open", "exit"} => pidFile = i

ServeInv == OneProcess /\ \A i \in Instances : ProcessOK(i)
=============================================================================
