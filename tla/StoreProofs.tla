---------------------------- MODULE StoreProofs ----------------------------
(***************************************************************************)
(* One identity, no orphaned peer and no lost one, for any number of       *)
(* processes that start, crash and run their commands together.            *)
(***************************************************************************)
EXTENDS Store, TLAPS

Labels == {"identity", "create", "open", "count", "backup", "migrate",
           "run", "add", "insert", "done", "failed", "exists"}

\* A transaction that was not outdated before a step is outdated after it, or
\* the step left alone what it has read
Reliable ==
  Commit \/ (stale' = stale /\ users \subseteq users' /\ Free \subseteq Free')

-----------------------------------------------------------------------------
(* Frames                                                                  *)

\* A step of a process to a place outside AddPeer keeps what all transactions
\* rely on, if it is reliable.
LEMMA TxFrame ==
  ASSUME TypeOK, TxInv, Reliable, NEW p \in Procs, NEW l \in Labels \ {"add", "insert"},
         Goto(p, l), chosen' = chosen, \A q \in Procs : q # p => cmd'[q] = cmd[q]
  PROVE  TxInv'
<1> SUFFICES ASSUME NEW q \in Procs
             PROVE  /\ pc'[q] \in {"add", "insert"} => cmd'[q] \in Commands
                    /\ pc'[q] = "insert" => chosen'[q] \in Hosts
                    /\ pc'[q] = "insert" /\ q \notin stale' =>
                         cmd'[q].user \in users' /\ chosen'[q] \in Free'
  BY DEF TxInv
<1>1. pc' = [pc EXCEPT ![p] = l] /\ pc \in [Procs -> Labels]  BY DEF Goto, TypeOK, Labels
<1>2. CASE q = p  BY <1>1, <1>2
<1>3. CASE q # p
  <2>1. pc'[q] = pc[q] /\ cmd'[q] = cmd[q]  BY <1>1, <1>3
  <2>2. /\ pc[q] \in {"add", "insert"} => cmd[q] \in Commands
        /\ pc[q] = "insert" => chosen[q] \in Hosts
        /\ pc[q] = "insert" /\ q \notin stale => cmd[q].user \in users /\ chosen[q] \in Free
    BY DEF TxInv
  <2>3. CASE Commit  BY <2>1, <2>2, <2>3 DEF Commit
  <2>4. CASE stale' = stale /\ users \subseteq users' /\ Free \subseteq Free'
    BY <2>1, <2>2, <2>4
  <2> QED  BY <2>3, <2>4 DEF Reliable
<1> QED  BY <1>2, <1>3

\* A step that leaves the database alone and does not reach "run" or AddPeer
\* keeps what is known of the schema.
LEMMA SchemaFrame ==
  ASSUME TypeOK, SchemaInv, UNCHANGED dbVars, NEW p \in Procs, NEW l \in Labels, Goto(p, l),
         l \in {"run", "add", "insert"} => schema # 0
  PROVE  SchemaInv'
<1>1. pc' = [pc EXCEPT ![p] = l] /\ pc \in [Procs -> Labels]  BY DEF Goto, TypeOK, Labels
<1>2. schema' = schema /\ version' = version /\ rows' = rows  BY DEF dbVars
<1>3. ASSUME NEW q \in Procs, pc'[q] \in {"run", "add", "insert"} PROVE schema # 0
  <2>1. CASE q = p  BY <1>1, <1>3, <2>1
  <2>2. CASE q # p  BY <1>1, <1>3, <2>2 DEF SchemaInv
  <2> QED  BY <2>1, <2>2
<1> QED  BY <1>2, <1>3 DEF SchemaInv

\* A step that brings no process to the second migration keeps the first
\* release's peers safe, if it leaves the schema alone.
LEMMA LegacyFrame ==
  ASSUME TypeOK, LegacyInv, NEW p \in Procs, NEW l \in Labels, Goto(p, l),
         schema' = schema, HasLegacy' => HasLegacy, backedUp' = backedUp,
         \A q \in Procs : q # p => from'[q] = from[q],
         l = "migrate" => from'[p] # 1
  PROVE  LegacyInv'
<1>1. pc' = [pc EXCEPT ![p] = l] /\ pc \in [Procs -> Labels]  BY DEF Goto, TypeOK, Labels
<1> SUFFICES ASSUME HasLegacy', ~backedUp
             PROVE  /\ schema # Latest
                    /\ \A q \in Procs : ~(pc'[q] = "migrate" /\ from'[q] = 1)
  BY DEF LegacyInv
<1>2. schema # Latest /\ \A q \in Procs : ~(pc[q] = "migrate" /\ from[q] = 1)
  BY DEF LegacyInv
<1>3. ASSUME NEW q \in Procs, pc'[q] = "migrate", from'[q] = 1 PROVE FALSE
  <2>1. CASE q = p  BY <1>1, <1>3, <2>1
  <2>2. CASE q # p  BY <1>1, <1>2, <1>3, <2>2
  <2> QED  BY <2>1, <2>2
<1> QED  BY <1>2, <1>3

\* A step that leaves the database alone disturbs nothing others have read.
LEMMA QuietStep ==
  ASSUME UNCHANGED <<dbVars, stale>>
  PROVE  Reliable /\ HasLegacy' = HasLegacy /\ RowsHaveUsers' = RowsHaveUsers
<1>1. users' = users /\ rows' = rows /\ stale' = stale  BY DEF dbVars
<1>2. Free' = Free  BY <1>1 DEF Free
<1> QED  BY <1>1, <1>2 DEF Reliable, HasLegacy, RowsHaveUsers

\* A process that only moves on, outside AddPeer and the migrations.
LEMMA MovesOn ==
  ASSUME IInv, NEW p \in Procs, NEW l \in Labels \ {"add", "insert"}, Goto(p, l),
         UNCHANGED <<dbVars, cmd, chosen, stale>>,
         \A q \in Procs : q # p => from'[q] = from[q],
         l = "migrate" => from'[p] # 1, l = "run" => schema # 0,
         from' \in [Procs -> 0 .. Latest], identity' \in Procs \cup {None},
         id' \in [Procs -> Procs \cup {None}], IdentityAgrees'
  PROVE  IInv'
<1>1. TypeOK /\ SchemaInv /\ LegacyInv /\ TxInv /\ RowsHaveUsers  BY DEF IInv
<1>2. Reliable /\ HasLegacy' = HasLegacy /\ RowsHaveUsers' = RowsHaveUsers  BY QuietStep
<1>3. schema' = schema /\ backedUp' = backedUp  BY DEF dbVars
<1>4. l \in Labels /\ l \notin {"add", "insert"}  OBVIOUS
<1>5. TxInv'  BY <1>1, <1>2, TxFrame
<1>6. SchemaInv'  BY <1>1, <1>4, SchemaFrame
<1>7. LegacyInv'  BY <1>1, <1>2, <1>3, <1>4, LegacyFrame
<1>8. TypeOK'
  <2>1. pc' \in [Procs -> Labels]  BY <1>1, <1>4 DEF TypeOK, Goto, Labels
  <2> QED  BY <1>1, <2>1 DEF TypeOK, dbVars, Labels
<1> QED  BY <1>1, <1>2, <1>5, <1>6, <1>7, <1>8 DEF IInv

-----------------------------------------------------------------------------
(* The identity                                                            *)

\* Whoever loads the file has what is in it.
LEMMA LoadIdentityInv == ASSUME IInv, NEW p \in Procs, LoadIdentity(p) PROVE IInv'
<1>1. TypeOK /\ IdentityAgrees  BY DEF IInv
<1>2. identity' = identity /\ from' = from /\ UNCHANGED <<dbVars, cmd, chosen, stale>>
  BY DEF LoadIdentity
<1>3. CASE identity = None
  <2>1. Goto(p, "create") /\ id' = id  BY <1>3 DEF LoadIdentity
  <2>2. IdentityAgrees'  BY <1>1, <1>2, <2>1 DEF IdentityAgrees
  <2> QED  BY <1>1, <1>2, <2>1, <2>2, MovesOn DEF TypeOK, Labels
<1>4. CASE identity # None
  <2>1. Goto(p, "open") /\ id' = [id EXCEPT ![p] = identity]  BY <1>4 DEF LoadIdentity
  <2>2. id' \in [Procs -> Procs \cup {None}]  BY <1>1, <2>1 DEF TypeOK
  <2>3. IdentityAgrees'  BY <1>1, <1>2, <2>1 DEF IdentityAgrees, TypeOK
  <2> QED  BY <1>1, <1>2, <2>1, <2>2, <2>3, MovesOn DEF TypeOK, Labels
<1> QED  BY <1>3, <1>4

\* Nobody has an identity while there is no file, and link(2) never replaces it.
LEMMA SaveIdentityInv == ASSUME IInv, NEW p \in Procs, SaveIdentity(p) PROVE IInv'
<1>1. TypeOK /\ IdentityAgrees  BY DEF IInv
<1>2. /\ Goto(p, "open") /\ from' = from /\ UNCHANGED <<dbVars, cmd, chosen, stale>>
      /\ identity' = IF identity = None THEN p ELSE identity
      /\ id' = [id EXCEPT ![p] = identity']
  BY DEF SaveIdentity
<1>3. identity' \in Procs \cup {None}  BY <1>1, <1>2 DEF TypeOK
<1>4. id' \in [Procs -> Procs \cup {None}]  BY <1>1, <1>2, <1>3 DEF TypeOK
<1>5. IdentityAgrees'
  <2> SUFFICES ASSUME NEW q \in Procs, id'[q] # None PROVE id'[q] = identity'
    BY DEF IdentityAgrees
  <2>1. CASE q = p  BY <1>1, <1>2, <2>1 DEF TypeOK
  <2>2. CASE q # p
    <3>1. id'[q] = id[q]  BY <1>1, <1>2, <2>2 DEF TypeOK
    <3>2. id[q] = identity /\ identity # None  BY <1>1, <3>1 DEF IdentityAgrees
    <3> QED  BY <1>2, <3>1, <3>2
  <2> QED  BY <2>1, <2>2
<1> QED  BY <1>1, <1>2, <1>3, <1>4, <1>5, MovesOn DEF TypeOK, Labels

-----------------------------------------------------------------------------
(* Opening                                                                 *)

\* A process that finds a current schema runs, one that finds an older one
\* makes a backup first, unless there is nothing to back up.
LEMMA OpenedInv ==
  ASSUME IInv, NEW p \in Procs, NEW v \in 0 .. Latest, Opened(p, v), v # 0 => schema # 0,
         UNCHANGED <<identity, dbVars, cmd, id, chosen, stale>>
  PROVE  IInv'
<1>1. TypeOK /\ IdentityAgrees  BY DEF IInv
<1> DEFINE l == IF v >= Latest THEN "run" ELSE IF v = 0 THEN "migrate" ELSE "backup"
<1>2. from' = [from EXCEPT ![p] = v] /\ Goto(p, l)  BY DEF Opened
<1>3. /\ l \in Labels \ {"add", "insert"}
      /\ l = "migrate" => v = 0
      /\ l = "run" => v # 0
  BY DEF Labels, Latest
<1> HIDE DEF l
<1>4. from' \in [Procs -> 0 .. Latest] /\ from'[p] = v  BY <1>1, <1>2 DEF TypeOK
<1>5. \A q \in Procs : q # p => from'[q] = from[q]  BY <1>1, <1>2 DEF TypeOK
<1>6. IdentityAgrees'  BY <1>1 DEF IdentityAgrees
<1>7. identity' \in Procs \cup {None} /\ id' \in [Procs -> Procs \cup {None}]
  BY <1>1 DEF TypeOK
<1>8. (l = "migrate" => from'[p] # 1) /\ (l = "run" => schema # 0)  BY <1>3, <1>4
<1> QED  BY <1>2, <1>3, <1>4, <1>5, <1>6, <1>7, <1>8, MovesOn

\* Only a database with tables has a version.
LEMMA ReadVersionInv == ASSUME IInv, NEW p \in Procs, ReadVersion(p) PROVE IInv'
<1>1. TypeOK /\ IdentityAgrees /\ SchemaInv  BY DEF IInv
<1>2. UNCHANGED <<identity, dbVars, cmd, id, chosen, stale>>  BY DEF ReadVersion
<1>3. CASE version # 0
  <2>1. Opened(p, version)  BY <1>3 DEF ReadVersion
  <2>2. version \in 0 .. Latest /\ schema # 0  BY <1>1, <1>3 DEF TypeOK, SchemaInv
  <2> QED  BY <1>2, <2>1, <2>2, OpenedInv
<1>4. CASE version = 0
  <2>1. Goto(p, "count") /\ from' = from  BY <1>4 DEF ReadVersion
  <2>2. IdentityAgrees'  BY <1>1, <1>2 DEF IdentityAgrees
  <2> QED  BY <1>1, <1>2, <2>1, <2>2, MovesOn DEF TypeOK, Labels
<1> QED  BY <1>3, <1>4

\* Tables without a version are the first release's.
LEMMA CountTablesInv == ASSUME IInv, NEW p \in Procs, CountTables(p) PROVE IInv'
<1>1. Opened(p, IF schema = 0 THEN 0 ELSE 1)  BY DEF CountTables
<1>2. UNCHANGED <<identity, dbVars, cmd, id, chosen, stale>>  BY DEF CountTables
<1>3. 0 \in 0 .. Latest /\ 1 \in 0 .. Latest  BY DEF Latest
<1>4. CASE schema = 0  BY <1>1, <1>2, <1>3, <1>4, OpenedInv
<1>5. CASE schema # 0  BY <1>1, <1>2, <1>3, <1>5, OpenedInv
<1> QED  BY <1>4, <1>5

\* With a backup everything may be rewritten.
LEMMA BackupInv == ASSUME IInv, NEW p \in Procs, Backup(p) PROVE IInv'
<1>1. TypeOK /\ IdentityAgrees /\ SchemaInv /\ TxInv /\ RowsHaveUsers  BY DEF IInv
<1>2. /\ Goto(p, "migrate") /\ backedUp' = TRUE
      /\ UNCHANGED <<identity, schema, version, users, rows, cmd, id, from, chosen, stale>>
  BY DEF Backup
<1>3. Free' = Free  BY <1>2 DEF Free
<1>4. Reliable  BY <1>2, <1>3 DEF Reliable
<1>5. TxInv'  BY <1>1, <1>2, <1>4, TxFrame DEF Labels
<1>6. pc' = [pc EXCEPT ![p] = "migrate"] /\ pc \in [Procs -> Labels]
  BY <1>1, <1>2 DEF Goto, TypeOK, Labels
<1>7. TypeOK'
  <2>1. pc' \in [Procs -> Labels]  BY <1>6 DEF Labels
  <2>2. backedUp' \in BOOLEAN  BY <1>2, Zenon
  <2> QED  BY <1>1, <1>2, <2>1, <2>2 DEF TypeOK, Labels
<1>8. SchemaInv'  BY <1>1, <1>2, <1>6 DEF SchemaInv
<1>9. LegacyInv'  BY <1>2 DEF LegacyInv
<1>10. RowsHaveUsers' /\ IdentityAgrees'  BY <1>1, <1>2 DEF RowsHaveUsers, IdentityAgrees
<1> QED  BY <1>1, <1>5, <1>7, <1>8, <1>9, <1>10 DEF IInv

\* The first migration makes empty tables, so there is nothing to back up.
LEMMA FirstMigrationInv ==
  ASSUME IInv, NEW p \in Procs, pc[p] = "migrate", FirstMigration(p),
         UNCHANGED <<identity, backedUp, users, cmd, id, chosen>>
  PROVE  IInv'
<1>1. TypeOK /\ IdentityAgrees /\ SchemaInv /\ TxInv /\ RowsHaveUsers  BY DEF IInv
<1>2. rows' = rows /\ IdentityAgrees'  BY <1>1 DEF FirstMigration, IdentityAgrees
<1>3. CASE schema # 0
  <2>1. Goto(p, "failed") /\ UNCHANGED <<schema, version, from, stale>>
    BY <1>3 DEF FirstMigration
  <2>2. UNCHANGED dbVars  BY <1>2, <2>1 DEF dbVars
  <2> QED  BY <1>1, <1>2, <2>1, <2>2, MovesOn DEF TypeOK, Labels
<1>4. CASE schema = 0
  <2>1. /\ schema' = 1 /\ version' = 1 /\ Commit /\ from' = [from EXCEPT ![p] = 1]
        /\ pc' = pc
    BY <1>4 DEF FirstMigration
  <2>2. rows = {}  BY <1>1, <1>4 DEF SchemaInv
  <2>3. TypeOK'
    <3>1. schema' \in 0 .. Latest /\ version' \in 0 .. Latest  BY <2>1 DEF Latest
    <3>2. from' \in [Procs -> 0 .. Latest]  BY <1>1, <2>1 DEF TypeOK, Latest
    <3>3. stale' \subseteq Procs  BY <2>1 DEF Commit
    <3> QED  BY <1>1, <1>2, <2>1, <3>1, <3>2, <3>3 DEF TypeOK
  <2>4. SchemaInv'  BY <2>1 DEF SchemaInv
  <2>5. LegacyInv'  BY <1>2, <2>2 DEF LegacyInv, HasLegacy
  <2>6. RowsHaveUsers'  BY <1>2, <2>2 DEF RowsHaveUsers
  <2>7. TxInv'  BY <1>1, <2>1 DEF TxInv, Commit
  <2> QED  BY <1>2, <2>3, <2>4, <2>5, <2>6, <2>7 DEF IInv
<1> QED  BY <1>3, <1>4

\* The second migration rewrites every row and keeps all of it but the device.
LEMMA OnDefaultFacts ==
  ASSUME TypeOK
  PROVE  /\ OnDefault \subseteq Rows
         /\ \A r \in rows : \E s \in OnDefault : s.key = r.key /\ s.ip = r.ip /\ s.user = r.user
         /\ \A s \in OnDefault : \E r \in rows : s.key = r.key /\ s.ip = r.ip /\ s.user = r.user
<1>1. ASSUME NEW r \in rows
      PROVE  LET s == [r EXCEPT !.device = Default]
             IN  s \in Rows /\ s.key = r.key /\ s.ip = r.ip /\ s.user = r.user
  <2>1. r \in Rows /\ Default \in Devices  BY <1>1, StoreAssumption DEF TypeOK
  <2> QED  BY <2>1 DEF Rows
<1> QED  BY <1>1 DEF OnDefault

\* The rows it keeps have a backup, if they are the first release's.
LEMMA SecondMigrationInv ==
  ASSUME IInv, NEW p \in Procs, pc[p] = "migrate", SecondMigration(p),
         UNCHANGED <<identity, backedUp, users, cmd, id, chosen>>
  PROVE  IInv'
<1>1. TypeOK /\ IdentityAgrees /\ SchemaInv /\ LegacyInv /\ TxInv /\ RowsHaveUsers
  BY DEF IInv
<1>2. IdentityAgrees'  BY <1>1 DEF IdentityAgrees
<1>3. CASE ~OneRowEach(OnDefault)
  <2>1. Goto(p, "failed") /\ UNCHANGED <<rows, schema, version, from, stale>>
    BY <1>3 DEF SecondMigration
  <2>2. UNCHANGED dbVars  BY <2>1 DEF dbVars
  <2> QED  BY <1>1, <1>2, <2>1, <2>2, MovesOn DEF TypeOK, Labels
<1>4. CASE OneRowEach(OnDefault)
  <2>1. /\ rows' = OnDefault /\ schema' = 2 /\ version' = 2 /\ Commit
        /\ from' = [from EXCEPT ![p] = 2] /\ Goto(p, "run")
    BY <1>4 DEF SecondMigration
  <2>2. pc' = [pc EXCEPT ![p] = "run"] /\ pc \in [Procs -> Labels]
    BY <1>1, <2>1 DEF Goto, TypeOK, Labels
  <2>3. TypeOK'
    <3>1. schema' \in 0 .. Latest /\ version' \in 0 .. Latest  BY <2>1 DEF Latest
    <3>2. from' \in [Procs -> 0 .. Latest]  BY <1>1, <2>1 DEF TypeOK, Latest
    <3>3. stale' \subseteq Procs  BY <2>1 DEF Commit
    <3>4. pc' \in [Procs -> Labels]  BY <2>2 DEF Labels
    <3>5. rows' \subseteq Rows  BY <1>1, <2>1, OnDefaultFacts
    <3> QED  BY <1>1, <3>1, <3>2, <3>3, <3>4, <3>5 DEF TypeOK, Labels
  <2>4. SchemaInv'  BY <2>1 DEF SchemaInv
  <2>5. LegacyInv'
    <3>1. from[p] = 1  BY DEF SecondMigration
    <3>2. HasLegacy' => HasLegacy  BY <1>1, <2>1, OnDefaultFacts DEF HasLegacy
    <3>3. ~(HasLegacy /\ ~backedUp)  BY <1>1, <3>1 DEF LegacyInv
    <3> QED  BY <3>2, <3>3 DEF LegacyInv
  <2>6. RowsHaveUsers'
    <3> SUFFICES ASSUME NEW s \in OnDefault PROVE s.user \in users
      BY <2>1 DEF RowsHaveUsers
    <3> QED  BY <1>1, OnDefaultFacts DEF RowsHaveUsers
  <2>7. TxInv'  BY <1>1, <2>1, TxFrame DEF Reliable, Labels
  <2> QED  BY <1>2, <2>3, <2>4, <2>5, <2>6, <2>7 DEF IInv
<1> QED  BY <1>3, <1>4

-----------------------------------------------------------------------------
(* user add                                                                *)

\* The user's row is there before the transaction looks for it.
LEMMA CreateUserInv ==
  ASSUME IInv, NEW p \in Procs, NEW c \in Commands, CreateUser(p, c) PROVE IInv'
<1>1. TypeOK /\ IdentityAgrees /\ SchemaInv /\ LegacyInv /\ TxInv /\ RowsHaveUsers
  BY DEF IInv
<1>2. /\ pc[p] = "run" /\ Goto(p, "add") /\ cmd' = [cmd EXCEPT ![p] = c]
      /\ users' = users \cup {c.user} /\ (stale' = stale \/ Commit)
      /\ UNCHANGED <<identity, schema, version, backedUp, rows, id, from, chosen>>
  BY DEF CreateUser
<1>3. c.user \in Users  BY DEF Commands
<1>4. pc' = [pc EXCEPT ![p] = "add"] /\ pc \in [Procs -> Labels]
  BY <1>1, <1>2 DEF Goto, TypeOK, Labels
<1>5. TypeOK'
  <2>1. pc' \in [Procs -> Labels]  BY <1>4 DEF Labels
  <2>2. cmd' \in [Procs -> Commands \cup {None}]  BY <1>1, <1>2 DEF TypeOK
  <2>3. stale' \subseteq Procs  BY <1>1, <1>2 DEF TypeOK, Commit
  <2>4. users' \subseteq Users  BY <1>1, <1>2, <1>3 DEF TypeOK
  <2> QED  BY <1>1, <1>2, <2>1, <2>2, <2>3, <2>4 DEF TypeOK, Labels
<1>6. SchemaInv'  BY <1>1, <1>2, <1>4 DEF SchemaInv
<1>7. HasLegacy' = HasLegacy  BY <1>2 DEF HasLegacy
<1>8. LegacyInv'  BY <1>1, <1>2, <1>7, LegacyFrame DEF Labels
<1>9. RowsHaveUsers' /\ IdentityAgrees'  BY <1>1, <1>2 DEF RowsHaveUsers, IdentityAgrees
<1>10. TxInv'
  <2> SUFFICES ASSUME NEW q \in Procs
               PROVE  /\ pc'[q] \in {"add", "insert"} => cmd'[q] \in Commands
                      /\ pc'[q] = "insert" => chosen'[q] \in Hosts
                      /\ pc'[q] = "insert" /\ q \notin stale' =>
                           cmd'[q].user \in users' /\ chosen'[q] \in Free'
    BY DEF TxInv
  <2>1. CASE q = p
    <3>1. cmd'[p] = c /\ pc'[p] = "add"  BY <1>1, <1>2, <1>4 DEF TypeOK
    <3> QED  BY <2>1, <3>1
  <2>2. CASE q # p
    <3>1. pc'[q] = pc[q] /\ cmd'[q] = cmd[q] /\ chosen' = chosen
      BY <1>1, <1>2, <1>4, <2>2 DEF TypeOK
    <3>2. Free' = Free  BY <1>2 DEF Free
    <3>3. /\ pc[q] \in {"add", "insert"} => cmd[q] \in Commands
          /\ pc[q] = "insert" => chosen[q] \in Hosts
          /\ pc[q] = "insert" /\ q \notin stale => cmd[q].user \in users /\ chosen[q] \in Free
      BY <1>1 DEF TxInv
    <3>4. pc[q] = "insert" /\ q \notin stale' => q \notin stale  BY <1>2 DEF Commit
    <3> QED  BY <1>2, <3>1, <3>2, <3>3, <3>4
  <2> QED  BY <2>1, <2>2
<1> QED  BY <1>5, <1>6, <1>8, <1>9, <1>10 DEF IInv

\* What the transaction reads is so when it reads it.
LEMMA AddPeerReadInv == ASSUME IInv, NEW p \in Procs, AddPeerRead(p) PROVE IInv'
<1>1. TypeOK /\ IdentityAgrees /\ SchemaInv /\ LegacyInv /\ TxInv /\ RowsHaveUsers
  BY DEF IInv
<1>2. pc[p] = "add" /\ UNCHANGED <<identity, dbVars, cmd, id, from>>  BY DEF AddPeerRead
<1>3. IdentityAgrees'  BY <1>1, <1>2 DEF IdentityAgrees
<1>4. CASE cmd[p].user \notin users \/ Free = {}
  <2>1. Goto(p, "failed") /\ UNCHANGED <<chosen, stale>>  BY <1>4 DEF AddPeerRead
  <2> QED  BY <1>1, <1>2, <1>3, <2>1, MovesOn DEF TypeOK, Labels
<1>5. CASE cmd[p].user \in users /\ Free # {}
  <2>1. PICK ip \in Free : chosen' = [chosen EXCEPT ![p] = ip]  BY <1>5 DEF AddPeerRead
  <2>2. stale' = stale \ {p} /\ Goto(p, "insert")  BY <1>5 DEF AddPeerRead
  <2>3. ip \in Hosts  BY <2>1 DEF Free
  <2>4. pc' = [pc EXCEPT ![p] = "insert"] /\ pc \in [Procs -> Labels]
    BY <1>1, <2>2 DEF Goto, TypeOK, Labels
  <2>5. TypeOK'
    <3>1. pc' \in [Procs -> Labels]  BY <2>4 DEF Labels
    <3>2. chosen' \in [Procs -> Hosts \cup {None}]  BY <1>1, <2>1, <2>3 DEF TypeOK
    <3>3. stale' \subseteq Procs  BY <1>1, <2>2 DEF TypeOK
    <3> QED  BY <1>1, <1>2, <3>1, <3>2, <3>3 DEF TypeOK, dbVars, Labels
  <2>6. schema # 0  BY <1>1, <1>2 DEF SchemaInv
  <2>7. SchemaInv'  BY <1>1, <1>2, <2>2, <2>6, SchemaFrame DEF Labels
  <2>8. HasLegacy' = HasLegacy /\ RowsHaveUsers' /\ Free' = Free /\ users' = users
    BY <1>1, <1>2 DEF dbVars, HasLegacy, RowsHaveUsers, Free
  <2>9. LegacyInv'  BY <1>1, <1>2, <2>2, <2>8, LegacyFrame DEF Labels, dbVars
  <2>10. TxInv'
    <3> SUFFICES ASSUME NEW q \in Procs
                 PROVE  /\ pc'[q] \in {"add", "insert"} => cmd'[q] \in Commands
                        /\ pc'[q] = "insert" => chosen'[q] \in Hosts
                        /\ pc'[q] = "insert" /\ q \notin stale' =>
                             cmd'[q].user \in users' /\ chosen'[q] \in Free'
      BY DEF TxInv
    <3>1. cmd' = cmd  BY <1>2
    <3>2. CASE q = p
      <4>1. chosen'[p] = ip /\ cmd[p] \in Commands  BY <1>1, <1>2, <2>1 DEF TypeOK, TxInv
      <4> QED  BY <1>5, <2>1, <2>3, <2>8, <3>1, <3>2, <4>1
    <3>3. CASE q # p
      <4>1. pc'[q] = pc[q] /\ chosen'[q] = chosen[q] /\ (q \in stale' <=> q \in stale)
        BY <1>1, <2>1, <2>2, <2>4, <3>3 DEF TypeOK
      <4> QED  BY <1>1, <2>8, <3>1, <4>1 DEF TxInv
    <3> QED  BY <3>2, <3>3
  <2> QED  BY <1>3, <2>5, <2>7, <2>8, <2>9, <2>10 DEF IInv
<1> QED  BY <1>4, <1>5

\* A transaction that may still write inserts a row that belongs to a user and
\* has an address nobody has.
LEMMA AddPeerInsertInv == ASSUME IInv, NEW p \in Procs, AddPeerInsert(p) PROVE IInv'
<1>1. TypeOK /\ IdentityAgrees /\ SchemaInv /\ LegacyInv /\ TxInv /\ RowsHaveUsers
  BY DEF IInv
<1>2. /\ pc[p] = "insert"
      /\ UNCHANGED <<identity, schema, version, backedUp, users, cmd, id, from, chosen>>
  BY DEF AddPeerInsert
<1>3. IdentityAgrees'  BY <1>1, <1>2 DEF IdentityAgrees
<1>4. ASSUME NEW l \in {"failed", "exists"}, Goto(p, l), UNCHANGED <<rows, stale>> PROVE IInv'
  <2>1. UNCHANGED dbVars /\ l \in Labels \ {"add", "insert"}  BY <1>2, <1>4 DEF dbVars, Labels
  <2> QED  BY <1>1, <1>2, <1>3, <1>4, <2>1, MovesOn DEF TypeOK
<1>5. ASSUME CanWrite(p), rows' = rows \cup {NewRow(p)}, Commit, Goto(p, "done") PROVE IInv'
  <2>1. cmd[p] \in Commands /\ cmd[p].user \in users /\ chosen[p] \in Hosts
    BY <1>1, <1>2, <1>5 DEF TxInv, CanWrite
  <2>2. NewRow(p) \in Rows /\ NewRow(p).user \in users /\ NewRow(p).key = p
    BY <2>1 DEF NewRow, Rows, Commands
  <2>3. pc' = [pc EXCEPT ![p] = "done"] /\ pc \in [Procs -> Labels]
    BY <1>1, <1>5 DEF Goto, TypeOK, Labels
  <2>4. TypeOK'
    <3>1. pc' \in [Procs -> Labels]  BY <2>3 DEF Labels
    <3>2. rows' \subseteq Rows  BY <1>1, <1>5, <2>2 DEF TypeOK
    <3>3. stale' \subseteq Procs  BY <1>5 DEF Commit
    <3> QED  BY <1>1, <1>2, <3>1, <3>2, <3>3 DEF TypeOK, Labels
  <2>5. schema # 0  BY <1>1, <1>2 DEF SchemaInv
  <2>6. SchemaInv'  BY <1>2, <2>5 DEF SchemaInv
  <2>7. HasLegacy' => HasLegacy  BY <1>5, <2>2, StoreAssumption DEF HasLegacy
  <2>8. LegacyInv'  BY <1>1, <1>2, <1>5, <2>7, LegacyFrame DEF Labels
  <2>9. RowsHaveUsers'  BY <1>1, <1>2, <1>5, <2>2 DEF RowsHaveUsers
  <2>10. TxInv'  BY <1>1, <1>2, <1>5, TxFrame DEF Reliable, Labels
  <2> QED  BY <1>3, <2>4, <2>6, <2>8, <2>9, <2>10 DEF IInv
<1> QED  BY <1>4, <1>5 DEF AddPeerInsert

-----------------------------------------------------------------------------
(* user rm                                                                 *)

\* A user takes all its rows along.
LEMMA RemoveInv ==
  ASSUME IInv, NEW p \in Procs, NEW c \in Commands, Remove(p, c) PROVE IInv'
<1>1. TypeOK /\ IdentityAgrees /\ SchemaInv /\ LegacyInv /\ TxInv /\ RowsHaveUsers
  BY DEF IInv
<1>2. /\ pc[p] = "run" /\ cmd' = [cmd EXCEPT ![p] = c]
      /\ users' = IF c.op = "rmUser" THEN users \ {c.user} ELSE users
      /\ rows' = rows \ Removed(c)
      /\ UNCHANGED <<identity, schema, version, backedUp, id, from, chosen>>
  BY DEF Remove, Deleted
<1>3. PICK l \in {"failed", "done"} :
        /\ Goto(p, l)
        /\ Commit \/ (stale' = stale /\ Missing(c))
  <2>1. CASE Missing(c)  BY <2>1 DEF Remove
  <2>2. CASE ~Missing(c)  BY <2>2 DEF Remove
  <2> QED  BY <2>1, <2>2
<1>4. l \in Labels \ {"add", "insert"} /\ l \notin {"run", "migrate"}  BY DEF Labels
<1>5. pc' = [pc EXCEPT ![p] = l] /\ pc \in [Procs -> Labels]
  BY <1>1, <1>3 DEF Goto, TypeOK, Labels
<1>6. TypeOK'
  <2>1. pc' \in [Procs -> Labels]  BY <1>4, <1>5
  <2>2. cmd' \in [Procs -> Commands \cup {None}]  BY <1>1, <1>2 DEF TypeOK
  <2>3. stale' \subseteq Procs  BY <1>1, <1>3 DEF TypeOK, Commit
  <2>4. users' \subseteq Users /\ rows' \subseteq Rows  BY <1>1, <1>2 DEF TypeOK
  <2> QED  BY <1>1, <1>2, <2>1, <2>2, <2>3, <2>4 DEF TypeOK, Labels
<1>7. schema # 0  BY <1>1, <1>2 DEF SchemaInv
<1>8. SchemaInv'  BY <1>2, <1>7 DEF SchemaInv
<1>9. LegacyInv'
  <2>1. HasLegacy' => HasLegacy  BY <1>2 DEF HasLegacy
  <2> QED  BY <1>1, <1>2, <1>3, <1>4, <2>1, LegacyFrame
<1>10. RowsHaveUsers'
  <2> SUFFICES ASSUME NEW r \in rows, r \notin Removed(c) PROVE r.user \in users'
    BY <1>2 DEF RowsHaveUsers
  <2>1. r.user \in users  BY <1>1 DEF RowsHaveUsers
  <2> QED  BY <1>2, <2>1 DEF Removed
<1>11. Reliable
  <2> SUFFICES ASSUME stale' = stale, Missing(c)
               PROVE  users \subseteq users' /\ Free \subseteq Free'
    BY <1>3 DEF Reliable
  <2>1. Free \subseteq Free'  BY <1>2 DEF Free
  <2>2. users \subseteq users'  BY <1>2 DEF Missing
  <2> QED  BY <2>1, <2>2
<1>12. TxInv'
  <2>1. \A q \in Procs : q # p => cmd'[q] = cmd[q]  BY <1>1, <1>2 DEF TypeOK
  <2> QED  BY <1>1, <1>2, <1>3, <1>4, <1>11, <2>1, TxFrame
<1>13. IdentityAgrees'  BY <1>1, <1>2 DEF IdentityAgrees
<1> QED  BY <1>6, <1>8, <1>9, <1>10, <1>12, <1>13 DEF IInv

-----------------------------------------------------------------------------
(* The invariant                                                           *)

\* A directory that is empty, of the first release or current.
LEMMA InitInv == Init => IInv
<1> SUFFICES ASSUME Init PROVE IInv  OBVIOUS
<1>1. /\ identity = None /\ backedUp = FALSE /\ pc = [p \in Procs |-> "identity"]
      /\ cmd = [p \in Procs |-> None] /\ id = [p \in Procs |-> None]
      /\ from = [p \in Procs |-> 0] /\ chosen = [p \in Procs |-> None] /\ stale = {}
  BY DEF Init
<1>2. /\ schema \in 0 .. Latest /\ version \in 0 .. Latest
      /\ users \subseteq Users /\ rows \subseteq Rows
      /\ (schema = 0 => version = 0 /\ rows = {}) /\ (schema = Latest => rows = {})
      /\ \A r \in rows : r.user \in users
  <2>1. CASE schema = 0 /\ version = 0 /\ users = {} /\ rows = {}  BY <2>1 DEF Latest
  <2>2. CASE schema = Latest /\ version = Latest /\ users = {} /\ rows = {}
    BY <2>2 DEF Latest
  <2>3. CASE FirstRelease
    <3>1. schema = 1 /\ version = 0 /\ users = Users  BY <2>3 DEF FirstRelease
    <3>2. Default \in Devices  BY StoreAssumption
    <3>3. rows \subseteq Rows /\ \A r \in rows : r.user \in Users
      BY <2>3, <3>2 DEF FirstRelease, Rows
    <3> QED  BY <3>1, <3>3 DEF Latest
  <2> QED  BY <2>1, <2>2, <2>3 DEF Init
<1>3. TypeOK
  <2>1. backedUp \in BOOLEAN  BY <1>1, Zenon
  <2>2. from \in [Procs -> 0 .. Latest]  BY <1>1 DEF Latest
  <2>3. pc \in [Procs -> Labels]  BY <1>1 DEF Labels
  <2> QED  BY <1>1, <1>2, <2>1, <2>2, <2>3 DEF TypeOK, Labels
<1>4. IdentityAgrees  BY <1>1 DEF IdentityAgrees
<1>5. SchemaInv  BY <1>1, <1>2 DEF SchemaInv
<1>6. LegacyInv
  <2>1. HasLegacy => schema # Latest  BY <1>2 DEF HasLegacy
  <2> QED  BY <1>1, <2>1 DEF LegacyInv
<1>7. TxInv  BY <1>1 DEF TxInv
<1>8. RowsHaveUsers  BY <1>2 DEF RowsHaveUsers
<1> QED  BY <1>3, <1>4, <1>5, <1>6, <1>7, <1>8 DEF IInv

\* Every step of every process keeps the invariant.
LEMMA NextInv == IInv /\ [Next]_vars => IInv'
<1> SUFFICES ASSUME IInv, [Next]_vars PROVE IInv'  OBVIOUS
<1>1. ASSUME NEW p \in Procs, Step(p) PROVE IInv'
  <2>1. CASE LoadIdentity(p) \/ SaveIdentity(p)  BY <2>1, LoadIdentityInv, SaveIdentityInv
  <2>2. CASE ReadVersion(p) \/ CountTables(p) \/ Backup(p)
    BY <2>2, ReadVersionInv, CountTablesInv, BackupInv
  <2>3. CASE Migrate(p)  BY <2>3, FirstMigrationInv, SecondMigrationInv DEF Migrate
  <2>4. CASE AddPeerRead(p) \/ AddPeerInsert(p)  BY <2>4, AddPeerReadInv, AddPeerInsertInv
  <2>5. ASSUME NEW c \in Commands, CreateUser(p, c) \/ Remove(p, c) PROVE IInv'
    BY <2>5, CreateUserInv, RemoveInv
  <2> QED  BY <1>1, <2>1, <2>2, <2>3, <2>4, <2>5 DEF Step
<1>2. CASE UNCHANGED vars
  BY <1>2
  DEF vars, dbVars, IInv, TypeOK, IdentityAgrees, SchemaInv, LegacyInv, HasLegacy, TxInv, Free,
      RowsHaveUsers
<1> QED  BY <1>1, <1>2 DEF Next

-----------------------------------------------------------------------------
(* The theorems                                                            *)

\* All processes that start together work with the identity on disk
\* (LoadOrCreateIdentity).
THEOREM OneIdentity == Spec => []IdentityAgrees
<1>1. IInv => IdentityAgrees  BY DEF IInv
<1> QED  BY <1>1, InitInv, NextInv, PTL DEF Spec

\* The first release's peers are not rewritten without a backup (migrate).
THEOREM UpgradesHaveBackups == Spec => []LegacyBackedUp
<1>1. IInv => LegacyBackedUp  BY DEF IInv, LegacyInv, HasLegacy, LegacyBackedUp
<1> QED  BY <1>1, InitInv, NextInv, PTL DEF Spec

\* No peer outlives its user, however commands race (ON DELETE CASCADE,
\* AddPeer's transaction).
THEOREM NoOrphans == Spec => []RowsHaveUsers
<1>1. IInv => RowsHaveUsers  BY DEF IInv
<1> QED  BY <1>1, InitInv, NextInv, PTL DEF Spec

\* ErrExists is never said of an address clash (AddPeer, isUnique).
THEOREM ErrExistsIsTrue == Spec => ExistsIsTrue
<1>1. ASSUME IInv, NEW q \in Procs, Step(q), NEW p \in Procs, pc[p] # "exists", pc'[p] = "exists"
      PROVE  ~OneRowEach(rows \cup {NewRow(p)})
  <2>1. \A l \in Labels : l # "exists" => ~Goto(q, l)
    <3> SUFFICES ASSUME NEW l \in Labels, l # "exists", Goto(q, l) PROVE FALSE  OBVIOUS
    <3>1. pc \in [Procs -> Labels] /\ pc' = [pc EXCEPT ![q] = l]
      BY <1>1 DEF IInv, TypeOK, Goto, Labels
    <3> QED  BY <1>1, <3>1
  <2>2. pc' # pc  BY <1>1
  <2>3. AddPeerInsert(q)
    BY <1>1, <2>1, <2>2
    DEF Step, LoadIdentity, SaveIdentity, ReadVersion, CountTables, Opened, Backup, Migrate,
        FirstMigration, SecondMigration, AddPeerRead, CreateUser, Remove, Labels
  <2>4. CanWrite(q) /\ Clashes(NewRow(q)) /\ Goto(q, "exists") /\ pc[q] = "insert"
    BY <2>1, <2>3 DEF AddPeerInsert, Labels
  <2>5. q = p
    <3>1. pc \in [Procs -> Labels] /\ pc' = [pc EXCEPT ![q] = "exists"]
      BY <1>1, <2>4 DEF IInv, TypeOK, Goto, Labels
    <3> QED  BY <1>1, <3>1
  <2>6. chosen[p] \in Free  BY <1>1, <2>4, <2>5 DEF IInv, TxInv, CanWrite
  <2>7. NewRow(p).ip = chosen[p]  BY DEF NewRow
  <2> QED  BY <2>4, <2>5, <2>6, <2>7 DEF Clashes, Free
<1>2. IInv /\ [Next]_vars =>
        [\A p \in Procs : pc[p] # "exists" /\ pc'[p] = "exists" =>
            ~OneRowEach(rows \cup {NewRow(p)})]_vars
  BY <1>1 DEF Next
<1> QED  BY <1>2, InitInv, NextInv, PTL DEF Spec, ExistsIsTrue

\* Nothing but `user rm` takes a peer, its key or its address away (migrate,
\* CreateUser, AddPeer).
THEOREM PeersAreKept == Spec => PeersOnlyRemoved
<1> DEFINE Kept ==
      (\A p \in Procs, c \in Commands : ~Remove(p, c)) =>
        \A r \in rows : \E s \in rows' : s.key = r.key /\ s.ip = r.ip /\ s.user = r.user
<1>1. ASSUME IInv, NEW q \in Procs, Step(q), \A p \in Procs, c \in Commands : ~Remove(p, c)
      PROVE  rows \subseteq rows' \/ rows' = OnDefault
  BY <1>1
  DEF Step, LoadIdentity, SaveIdentity, ReadVersion, CountTables, Backup, Migrate, FirstMigration,
      SecondMigration, AddPeerRead, AddPeerInsert, CreateUser, dbVars
<1>2. ASSUME IInv, Next PROVE Kept
  <2> SUFFICES ASSUME \A p \in Procs, c \in Commands : ~Remove(p, c), NEW r \in rows
               PROVE  \E s \in rows' : s.key = r.key /\ s.ip = r.ip /\ s.user = r.user
    OBVIOUS
  <2>1. rows \subseteq rows' \/ rows' = OnDefault  BY <1>1, <1>2 DEF Next
  <2>2. CASE rows \subseteq rows'  BY <2>2
  <2>3. CASE rows' = OnDefault  BY <1>2, <2>3, OnDefaultFacts DEF IInv
  <2> QED  BY <2>1, <2>2, <2>3
<1>3. IInv /\ [Next]_vars => [Kept]_vars  BY <1>2
<1> QED  BY <1>3, InitInv, NextInv, PTL DEF Spec, PeersOnlyRemoved
=============================================================================
