------------------------------- MODULE Store -------------------------------
(***************************************************************************)
(* internal/store and the commands of cmd/lotsman that use it: processes   *)
(* that open the same state directory at the same time, create or load the *)
(* identity, bring the schema up to date and then run one command each.    *)
(*                                                                         *)
(* A statement outside a transaction is one step.  A transaction reads the *)
(* database as it was at its first read, and SQLite refuses its first      *)
(* write when anyone has committed since (SQLITE_BUSY_SNAPSHOT, which      *)
(* busy_timeout does not wait for).  Nothing makes a process take its      *)
(* next step: one that fails or is killed between two steps is one that    *)
(* takes no other, and its open transaction leaves no trace.               *)
(***************************************************************************)
EXTENDS Naturals, FiniteSets

CONSTANTS Procs,      \* processes; each runs one command, its key pair has its name
          Users, Devices, Profiles,
          Default,    \* store.DefaultDevice
          Hosts,      \* addresses AddPeer may hand out, ordered
          Legacy,     \* the key of a peer of the first release
          None

Latest == 2           \* len(migrations)

Rows == [user : Users, device : Devices, profile : Profiles,
         key : Procs \cup {Legacy}, ip : Hosts]

Commands == [op : {"add", "rmPeer", "rmDevice", "rmUser"},
             user : Users, device : Devices, profile : Profiles]

ASSUME StoreAssumption ==
  /\ Default \in Devices /\ Hosts \subseteq Nat
  /\ Legacy \notin Procs /\ None \notin Procs \cup Commands \cup Hosts

VARIABLES
  identity,   \* whose identity identity.json holds, or None
  schema,     \* how many migrations the tables have been through
  version,    \* PRAGMA user_version
  backedUp,   \* a backup of the first release's database exists
  users,      \* table users
  rows,       \* table peers
  pc,         \* per process: the next step
  cmd,        \* the command it runs once the store is open
  id,         \* the identity it works with
  from,       \* the schema version it has read, or reached
  chosen,     \* the address its transaction has picked
  stale       \* processes whose transaction reads an outdated database

dbVars == <<schema, version, backedUp, users, rows>>
vars == <<identity, dbVars, pc, cmd, id, from, chosen, stale>>

Goto(p, label) == pc' = [pc EXCEPT ![p] = label]

\* A commit makes every other open read transaction outdated
Commit == stale' = {q \in Procs : pc[q] = "insert"}

FirstRelease ==
  /\ schema = 1 /\ version = 0
  /\ users = Users
  /\ rows \in {{}} \cup
       {{[user |-> u, device |-> Default, profile |-> f, key |-> Legacy, ip |-> ip]} :
          u \in Users, f \in Profiles, ip \in Hosts}

Init ==
  /\ identity = None /\ backedUp = FALSE
  /\ \/ schema = 0 /\ version = 0 /\ users = {} /\ rows = {}
     \/ FirstRelease
     \/ schema = Latest /\ version = Latest /\ users = {} /\ rows = {}
  /\ pc = [p \in Procs |-> "identity"] /\ cmd = [p \in Procs |-> None]
  /\ id = [p \in Procs |-> None] /\ from = [p \in Procs |-> 0]
  /\ chosen = [p \in Procs |-> None] /\ stale = {}

-----------------------------------------------------------------------------
(* LoadOrCreateIdentity                                                    *)

LoadIdentity(p) ==
  /\ pc[p] = "identity"
  /\ IF identity = None THEN Goto(p, "create") /\ UNCHANGED id
     ELSE Goto(p, "open") /\ id' = [id EXCEPT ![p] = identity]
  /\ UNCHANGED <<identity, dbVars, cmd, from, chosen, stale>>

\* Slip: the file is renamed into place, over one that has appeared
SaveIdentityRename(p) ==
  /\ pc[p] = "create" /\ Goto(p, "open")
  /\ identity' = p
  /\ id' = [id EXCEPT ![p] = p]
  /\ UNCHANGED <<dbVars, cmd, from, chosen, stale>>

\* link(2) publishes a complete file or finds that another process has
SaveIdentity(p) ==
  /\ pc[p] = "create" /\ Goto(p, "open")
  /\ identity' = IF identity = None THEN p ELSE identity
  /\ id' = [id EXCEPT ![p] = identity']
  /\ UNCHANGED <<dbVars, cmd, from, chosen, stale>>

-----------------------------------------------------------------------------
(* Open: schemaVersion, then migrate                                       *)

Opened(p, v) ==
  /\ from' = [from EXCEPT ![p] = v]
  /\ Goto(p, IF v >= Latest THEN "run" ELSE IF v = 0 THEN "migrate" ELSE "backup")

ReadVersion(p) ==
  /\ pc[p] = "open"
  /\ IF version # 0 THEN Opened(p, version) ELSE Goto(p, "count") /\ UNCHANGED from
  /\ UNCHANGED <<identity, dbVars, cmd, id, chosen, stale>>

\* The first release recorded no version: look for its tables
CountTables(p) ==
  /\ pc[p] = "count"
  /\ Opened(p, IF schema = 0 THEN 0 ELSE 1)
  /\ UNCHANGED <<identity, dbVars, cmd, id, chosen, stale>>

\* Slip: the migration starts without a snapshot
BackupSkipped(p) ==
  /\ pc[p] = "backup" /\ Goto(p, "migrate")
  /\ UNCHANGED <<identity, dbVars, cmd, id, from, chosen, stale>>

\* VACUUM INTO; that the file exists already is one way to give up
Backup(p) ==
  /\ pc[p] = "backup" /\ Goto(p, "migrate")
  /\ backedUp' = TRUE
  /\ UNCHANGED <<identity, schema, version, users, rows, cmd, id, from, chosen, stale>>

\* CREATE TABLE users fails when another process has been here
FirstMigration(p) ==
  /\ from[p] = 0
  /\ IF schema # 0 THEN Goto(p, "failed") /\ UNCHANGED <<schema, version, from, stale>>
     ELSE /\ schema' = 1 /\ version' = 1 /\ Commit
          /\ from' = [from EXCEPT ![p] = 1] /\ UNCHANGED pc
  /\ UNCHANGED rows

\* INSERT INTO peers_new SELECT ... : the row of every peer, device 'default'
OnDefault == {[r EXCEPT !.device = Default] : r \in rows}

\* UNIQUE (user_id, device, profile)
OneRowEach(S) ==
  \A r, s \in S : r.user = s.user /\ r.device = s.device /\ r.profile = s.profile => r = s

\* Slip: the old table is dropped before it is copied
SecondMigrationEmpty(p) ==
  /\ from[p] = 1
  /\ rows' = {}
  /\ schema' = 2 /\ version' = 2 /\ Commit
  /\ from' = [from EXCEPT ![p] = 2] /\ Goto(p, "run")

\* The script says nothing of the version it starts from: it also runs on
\* tables that have been through it
SecondMigration(p) ==
  /\ from[p] = 1
  /\ IF OneRowEach(OnDefault)
     THEN /\ rows' = OnDefault
          /\ schema' = 2 /\ version' = 2 /\ Commit
          /\ from' = [from EXCEPT ![p] = 2] /\ Goto(p, "run")
     ELSE Goto(p, "failed") /\ UNCHANGED <<rows, schema, version, from, stale>>

Migrate(p) ==
  /\ pc[p] = "migrate"
  /\ FirstMigration(p) \/ SecondMigration(p)
  /\ UNCHANGED <<identity, backedUp, users, cmd, id, chosen>>

-----------------------------------------------------------------------------
(* user add                                                                *)

\* ErrExists is fine: the user may have other peers
CreateUser(p, c) ==
  /\ pc[p] = "run" /\ c.op = "add" /\ Goto(p, "add")
  /\ cmd' = [cmd EXCEPT ![p] = c]
  /\ users' = users \cup {c.user}
  /\ IF c.user \in users THEN UNCHANGED stale ELSE Commit
  /\ UNCHANGED <<identity, schema, version, backedUp, rows, id, from, chosen>>

Free == Hosts \ {r.ip : r \in rows}

\* AddPeer's transaction up to its INSERT: the user's id and the lowest free
\* address; ErrNotFound or ErrSubnetFull ends it
AddPeerRead(p) ==
  /\ pc[p] = "add"
  /\ IF cmd[p].user \notin users \/ Free = {}
     THEN Goto(p, "failed") /\ UNCHANGED <<chosen, stale>>
     ELSE /\ \E ip \in Free :
               (\A j \in Free : ip <= j) /\ chosen' = [chosen EXCEPT ![p] = ip]
          /\ stale' = stale \ {p}
          /\ Goto(p, "insert")
  /\ UNCHANGED <<identity, dbVars, cmd, id, from>>

NewRow(p) == [user |-> cmd[p].user, device |-> cmd[p].device,
              profile |-> cmd[p].profile, key |-> p, ip |-> chosen[p]]

\* The INSERT breaks one of the UNIQUE constraints
Clashes(r) == ~OneRowEach(rows \cup {r}) \/ \E s \in rows : s.ip = r.ip

\* Slip: the statements do not share a transaction
CanWriteAlways(p) == TRUE

CanWrite(p) == p \notin stale

\* INSERT and COMMIT; any UNIQUE violation is reported as ErrExists
AddPeerInsert(p) ==
  /\ pc[p] = "insert"
  /\ IF ~CanWrite(p) THEN Goto(p, "failed") /\ UNCHANGED <<rows, stale>>
     ELSE IF Clashes(NewRow(p)) THEN Goto(p, "exists") /\ UNCHANGED <<rows, stale>>
     ELSE rows' = rows \cup {NewRow(p)} /\ Commit /\ Goto(p, "done")
  /\ UNCHANGED <<identity, schema, version, backedUp, users, cmd, id, from, chosen>>

-----------------------------------------------------------------------------
(* user rm                                                                 *)

Removed(c) ==
  {r \in rows :
     /\ r.user = c.user
     /\ c.op \in {"rmPeer", "rmDevice"} => r.device = c.device
     /\ c.op = "rmPeer" => r.profile = c.profile}

\* Nothing to delete is ErrNotFound
Missing(c) ==
  IF c.op = "rmUser" THEN c.user \notin users ELSE Removed(c) = {}

\* Slip: foreign keys are not enforced
DeletedNoCascade(c) ==
  /\ users' = IF c.op = "rmUser" THEN users \ {c.user} ELSE users
  /\ rows' = IF c.op = "rmUser" THEN rows ELSE rows \ Removed(c)

\* One DELETE; removing a user cascades to its peers
Deleted(c) ==
  /\ users' = IF c.op = "rmUser" THEN users \ {c.user} ELSE users
  /\ rows' = rows \ Removed(c)

Remove(p, c) ==
  /\ pc[p] = "run" /\ c.op # "add"
  /\ cmd' = [cmd EXCEPT ![p] = c]
  /\ Deleted(c)
  /\ IF Missing(c) THEN Goto(p, "failed") /\ UNCHANGED stale ELSE Goto(p, "done") /\ Commit
  /\ UNCHANGED <<identity, schema, version, backedUp, id, from, chosen>>

-----------------------------------------------------------------------------
Step(p) ==
  \/ LoadIdentity(p) \/ SaveIdentity(p)
  \/ ReadVersion(p) \/ CountTables(p) \/ Backup(p) \/ Migrate(p)
  \/ AddPeerRead(p) \/ AddPeerInsert(p)
  \/ \E c \in Commands : CreateUser(p, c) \/ Remove(p, c)

Next == \E p \in Procs : Step(p)

Spec == Init /\ [][Next]_vars

-----------------------------------------------------------------------------
\* Processes that start together on an empty state directory end up with the
\* one identity that is on disk, which every client config is made for
\* (identity.go: "exactly one creator publishes a complete file, the others
\* load the winner's").
IdentityAgrees == \A p \in Procs : id[p] # None => id[p] = identity

\* The first release's peers are only rewritten with a backup on disk
\* (migrate: "so a bad upgrade can be undone").
LegacyBackedUp == schema = Latest /\ Legacy \in {r.key : r \in rows} => backedUp

\* A peer never outlives its user, so nobody keeps a tunnel after `user rm`
\* of the whole user (ON DELETE CASCADE, foreign_keys).
RowsHaveUsers == \A r \in rows : r.user \in users

\* "Already has profile" is only said of a peer that exists: two processes that
\* pick the same address never mistake that clash for it (AddPeer, isUnique).
ExistsIsTrue ==
  [][\A p \in Procs : pc[p] # "exists" /\ pc'[p] = "exists" =>
       ~OneRowEach(rows \cup {NewRow(p)})]_vars

\* Nothing but `user rm` takes a peer, its key or its address away; migrations
\* and whoever loses a race leave every issued client config valid.
PeersOnlyRemoved ==
  [][(\A p \in Procs, c \in Commands : ~Remove(p, c)) =>
       \A r \in rows : \E s \in rows' : s.key = r.key /\ s.ip = r.ip /\ s.user = r.user]_vars

\* Every migration runs once: what a later one has added is never undone
\* (store.go: "PRAGMA user_version records how many have been applied").
DevicesKept ==
  [][\A r \in rows, s \in rows' : s.key = r.key => s.device = r.device]_vars

-----------------------------------------------------------------------------
(* Strengthening                                                           *)

TypeOK ==
  /\ identity \in Procs \cup {None} /\ id \in [Procs -> Procs \cup {None}]
  /\ schema \in 0 .. Latest /\ version \in 0 .. Latest /\ from \in [Procs -> 0 .. Latest]
  /\ backedUp \in BOOLEAN
  /\ users \subseteq Users /\ rows \subseteq Rows
  /\ pc \in [Procs -> {"identity", "create", "open", "count", "backup", "migrate",
                       "run", "add", "insert", "done", "failed", "exists"}]
  /\ cmd \in [Procs -> Commands \cup {None}] /\ chosen \in [Procs -> Hosts \cup {None}]
  /\ stale \subseteq Procs

HasLegacy == \E r \in rows : r.key = Legacy

\* Nobody works with tables that are not there
SchemaInv ==
  /\ schema = 0 => version = 0 /\ rows = {}
  /\ \A p \in Procs : pc[p] \in {"run", "add", "insert"} => schema # 0

\* The first release's peers have a backup before anyone can rewrite them
LegacyInv ==
  HasLegacy /\ ~backedUp =>
    schema # Latest /\ \A p \in Procs : ~(pc[p] = "migrate" /\ from[p] = 1)

\* What a transaction has read is still so unless it is stale
TxInv ==
  \A p \in Procs :
    /\ pc[p] \in {"add", "insert"} => cmd[p] \in Commands
    /\ pc[p] = "insert" => chosen[p] \in Hosts
    /\ pc[p] = "insert" /\ p \notin stale => cmd[p].user \in users /\ chosen[p] \in Free

IInv == TypeOK /\ IdentityAgrees /\ SchemaInv /\ LegacyInv /\ TxInv /\ RowsHaveUsers
=============================================================================
