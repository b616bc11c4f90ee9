----------------------------- MODULE AuthSchema -----------------------------
(***************************************************************************)
(* What auth_init of auth.c does to the database before a request gets any *)
(* further: CREATE TABLE IF NOT EXISTS, then the migrations of a database  *)
(* of the first version.  audit_log and sessions are rebuilt with ON       *)
(* DELETE actions (BEGIN; DROP TABLE IF EXISTS t_v2; CREATE; INSERT ...    *)
(* SELECT; DROP; RENAME; COMMIT) and users gets password_changed_at.       *)
(*                                                                         *)
(* Every request is a process with its own connection, so several may find *)
(* the old schema at a time, others insert rows meanwhile, and any may be  *)
(* killed between two statements.  An action is one statement.  SQLite is  *)
(* external: in WAL mode a transaction works on the snapshot of its first  *)
(* statement, and its first write fails when another connection is writing *)
(* or has committed since (SQLITE_BUSY).                                   *)
(***************************************************************************)
EXTENDS Naturals, FiniteSets

CONSTANTS
    Procs,       \* requests
    Old,         \* the rows of each table at the start
    Nobody

(* A row that a request inserts is a new one. *)
ASSUME RequestsAssumption ==
    IsFiniteSet(Procs) /\ Nobody \notin Procs /\ Old \intersect Procs = {}

Tables == {"audit_log", "sessions"}
NoTable == [there |-> FALSE]
Table(rows, actions) == [there |-> TRUE, rows |-> rows, actions |-> actions]

VARIABLES
    db,          \* the committed database: tables, half-built ones, the table users
    ver,         \* number of commits
    writer,      \* the connection that holds the write lock
    tx,          \* transaction of a connection: open, its database, its snapshot's ver
    pc, table,   \* where a request is, and with which table
    need,        \* audit_needs, sess_needs
    orphans,     \* old rows whose user does not exist
    accepted     \* history: rows of a table whose INSERT succeeded

dbVars == <<db, ver, writer, tx, table, need, orphans, accepted>>

NoTx == [open |-> FALSE]

(* A database that db_init has just made, one of the first version (with    *)
(* the leftover of an aborted rebuild, or without), or one of today.        *)
SchemaInit(age) ==
    /\ \E left \in BOOLEAN, col \in BOOLEAN :
         /\ age # "first" => left /\ col
         /\ db = [main |-> [t \in Tables |-> IF age = "none" THEN NoTable
                                            ELSE Table(Old, age = "today")],
                  v2 |-> [t \in Tables |-> IF age = "first" /\ left THEN Table({}, TRUE)
                                          ELSE NoTable],
                  users |-> IF age = "none" THEN "none" ELSE IF col THEN "today" ELSE "first"]
    /\ ver = 0 /\ writer = Nobody
    /\ tx = [p \in Procs |-> NoTx]
    /\ pc = [p \in Procs |-> "idle"]
    /\ table = [p \in Procs |-> "audit_log"]
    /\ need = [p \in Procs |-> {}]
    /\ \/ orphans = {}
       \/ age = "first" /\ orphans = Old
    /\ accepted = [t \in Tables |-> IF age = "none" THEN {} ELSE Old]

Goto(p, step) == pc' = [pc EXCEPT ![p] = step]

(* The database a statement of p works on, and its effect there. *)
Work(p) == IF tx[p].open THEN tx[p].db ELSE db
Free(p) == writer \in {Nobody, p}
Put(p, d) ==
    IF tx[p].open
    THEN tx' = [tx EXCEPT ![p].db = d] /\ UNCHANGED <<db, ver>>
    ELSE db' = d /\ ver' = ver + 1 /\ UNCHANGED tx

(* auth_init: CREATE TABLE IF NOT EXISTS, a statement that is committed on  *)
(* its own.  A request that finds another one writing ends with "Database   *)
(* error".                                                                  *)
Create(p, there, made, next) ==
    /\ \/ there /\ Goto(p, next) /\ UNCHANGED <<db, ver>>
       \/ ~ there /\ writer = Nobody /\ db' = made /\ ver' = ver + 1 /\ Goto(p, next)
       \/ ~ there /\ writer # Nobody /\ Goto(p, "done") /\ UNCHANGED <<db, ver>>
    /\ UNCHANGED <<writer, tx, table, need, orphans, accepted>>

CreateUsers(p) ==
    /\ pc[p] = "create"
    /\ Create(p, db.users # "none", [db EXCEPT !.users = "today"], "create_sessions")

CreateTable(p, t) == Create(p, db.main[t].there, [db EXCEPT !.main[t] = Table({}, TRUE)],
                            IF t = "sessions" THEN "create_log" ELSE "probe")

CreateSessions(p) == pc[p] = "create_sessions" /\ CreateTable(p, "sessions")
CreateLog(p) == pc[p] = "create_log" /\ CreateTable(p, "audit_log")

(* migrate_delete_fks: PRAGMA foreign_key_list *)
Probe(p) ==
    /\ pc[p] = "probe"
    /\ LET t == table[p]
           v1 == IF db.main[t].there THEN ~ db.main[t].actions ELSE FALSE
       IN need' = [need EXCEPT ![p] = IF v1 THEN @ \union {t} ELSE @]
    /\ table' = [table EXCEPT ![p] = IF @ = "audit_log" THEN "sessions" ELSE "audit_log"]
    /\ Goto(p, IF table[p] = "audit_log" THEN "probe" ELSE "begin")
    /\ UNCHANGED <<db, ver, writer, tx, orphans, accepted>>

NextTable(p) ==
    /\ table' = [table EXCEPT ![p] = "sessions"]
    /\ Goto(p, IF table[p] = "audit_log" THEN "begin" ELSE "column")

Skip(p) ==
    /\ pc[p] = "begin" /\ table[p] \notin need[p]
    /\ NextTable(p)
    /\ UNCHANGED <<db, ver, writer, tx, need, orphans, accepted>>

(* Mutant: the statements run one by one.                                   *)
NoBegin(p) ==
    /\ pc[p] = "begin" /\ table[p] \in need[p]
    /\ Goto(p, "rebuild")
    /\ UNCHANGED dbVars

(* BEGIN and the first statement, which takes the snapshot. *)
Begin(p) ==
    /\ pc[p] = "begin" /\ table[p] \in need[p]
    /\ tx' = [tx EXCEPT ![p] = [open |-> TRUE, db |-> db, base |-> ver]]
    /\ Goto(p, "rebuild")
    /\ UNCHANGED <<db, ver, writer, table, need, orphans, accepted>>

Current(p) == IF tx[p].open THEN tx[p].base = ver ELSE TRUE

(* DROP TABLE IF EXISTS t_v2; CREATE TABLE t_v2 *)
Rebuild(p) ==
    /\ pc[p] = "rebuild" /\ Free(p) /\ Current(p)
    /\ writer' = IF tx[p].open THEN p ELSE writer
    /\ Put(p, [Work(p) EXCEPT !.v2[table[p]] = Table({}, TRUE)])
    /\ Goto(p, "copy")
    /\ UNCHANGED <<table, need, orphans, accepted>>

(* INSERT INTO t_v2 SELECT ... FROM t *)
Copy(p) ==
    /\ pc[p] = "copy" /\ Free(p)
    /\ Work(p).main[table[p]].there /\ Work(p).v2[table[p]].there
    /\ Work(p).main[table[p]].rows \intersect orphans = {}
    /\ Put(p, [Work(p) EXCEPT !.v2[table[p]].rows = Work(p).main[table[p]].rows])
    /\ Goto(p, "drop")
    /\ UNCHANGED <<writer, table, need, orphans, accepted>>

(* DROP TABLE t *)
Drop(p) ==
    /\ pc[p] = "drop" /\ Free(p)
    /\ Put(p, [Work(p) EXCEPT !.main[table[p]] = NoTable])
    /\ Goto(p, "rename")
    /\ UNCHANGED <<writer, table, need, orphans, accepted>>

(* ALTER TABLE t_v2 RENAME TO t *)
Rename(p) ==
    /\ pc[p] = "rename" /\ Free(p)
    /\ Work(p).v2[table[p]].there /\ ~ Work(p).main[table[p]].there
    /\ Put(p, [Work(p) EXCEPT !.main[table[p]] = Work(p).v2[table[p]],
                              !.v2[table[p]] = NoTable])
    /\ Goto(p, "commit")
    /\ UNCHANGED <<writer, table, need, orphans, accepted>>

Commit(p) ==
    /\ pc[p] = "commit"
    /\ IF tx[p].open THEN db' = tx[p].db /\ ver' = ver + 1 ELSE UNCHANGED <<db, ver>>
    /\ tx' = [tx EXCEPT ![p] = NoTx]
    /\ writer' = IF writer = p THEN Nobody ELSE writer
    /\ NextTable(p)
    /\ UNCHANGED <<need, orphans, accepted>>

(* A statement of the rebuild fails: the connection is busy, its snapshot   *)
(* is old, or a row violates a constraint.  ROLLBACK.                       *)
Fails(p) ==
    \/ pc[p] = "rebuild" /\ ~ (Free(p) /\ Current(p))
    \/ /\ pc[p] = "copy"
       /\ IF Work(p).main[table[p]].there
          THEN Work(p).main[table[p]].rows \intersect orphans # {}
          ELSE TRUE

Rollback(p) ==
    /\ Fails(p)
    /\ tx' = [tx EXCEPT ![p] = NoTx]
    /\ writer' = IF writer = p THEN Nobody ELSE writer
    /\ NextTable(p)
    /\ UNCHANGED <<db, ver, need, orphans, accepted>>

(* migrate_password_policy: the probe, and ALTER TABLE for what it saw; a   *)
(* busy database and a column that is there by now are both ignored.        *)
ProbeColumn(p) ==
    /\ pc[p] = "column"
    /\ Goto(p, IF db.users = "today" THEN "ready" ELSE "alter")
    /\ UNCHANGED dbVars

AddColumn(p) ==
    /\ pc[p] = "alter"
    /\ \/ /\ writer = Nobody /\ db.users = "first"
          /\ db' = [db EXCEPT !.users = "today"] /\ ver' = ver + 1
       \/ (writer # Nobody \/ db.users = "today") /\ UNCHANGED <<db, ver>>
    /\ Goto(p, "ready")
    /\ UNCHANGED <<writer, tx, table, need, orphans, accepted>>

SchemaStep(p) ==
    \/ CreateUsers(p) \/ CreateSessions(p) \/ CreateLog(p) \/ Probe(p)
    \/ Skip(p) \/ Begin(p) \/ Rebuild(p) \/ Copy(p) \/ Drop(p) \/ Rename(p) \/ Commit(p)
    \/ Rollback(p)
    \/ ProbeColumn(p) \/ AddColumn(p)

(* INSERT INTO t by a request that got past auth_init: refused while        *)
(* another connection writes for longer than busy_timeout.                  *)
Insert(p, t, row) ==
    IF writer = Nobody /\ db.main[t].there
    THEN /\ db' = [db EXCEPT !.main[t].rows = @ \union {row}]
         /\ ver' = ver + 1
         /\ accepted' = [accepted EXCEPT ![t] = @ \union {row}]
    ELSE UNCHANGED <<db, ver, accepted>>

(* DELETE FROM sessions: logging out, and auth_session_cleanup. *)
Delete(rows) ==
    IF writer = Nobody /\ db.main["sessions"].there
    THEN /\ db' = [db EXCEPT !.main["sessions"].rows = @ \ rows]
         /\ ver' = ver + 1
         /\ accepted' = [accepted EXCEPT !["sessions"] = @ \ rows]
    ELSE UNCHANGED <<db, ver, accepted>>

(* The process of request p ends: SQLite undoes what it has not committed. *)
Leave(p) ==
    /\ tx' = [tx EXCEPT ![p] = NoTx]
    /\ writer' = IF writer = p THEN Nobody ELSE writer

-----------------------------------------------------------------------------
(* Properties *)

(* Where a request has not been through the three CREATE TABLE. *)
Creating == {"idle", "create", "create_sessions", "create_log", "done"}

TablesMade ==
    /\ db.main["audit_log"].there => db.main["sessions"].there
    /\ db.main["sessions"].there => db.users # "none"
    /\ \A t \in Tables :
          accepted[t] # {} \/ (\E p \in Procs : pc[p] \notin Creating) => db.main[t].there

(* MigrationSafe: however the migrations of several requests, their ends    *)
(* and the statements of others interleave, no table a request relies on is *)
(* missing, not even between two CREATE TABLE, no row that was accepted is  *)
(* lost and none that was deleted returns, a rebuilt table leaves nothing   *)
(* half-built behind, and a table with rows of unknown users keeps them and *)
(* the old schema (auth_init, migrate_delete_fks).                          *)
MigrationSafe ==
    /\ TablesMade
    /\ \A t \in Tables : db.main[t].there =>
          /\ db.main[t].rows = accepted[t]
          /\ db.main[t].actions => ~ db.v2[t].there
          /\ accepted[t] \intersect orphans # {} => ~ db.main[t].actions
=============================================================================
