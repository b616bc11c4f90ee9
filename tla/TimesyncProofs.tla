--------------------------- MODULE TimesyncProofs ---------------------------
(***************************************************************************)
(* That the migrations of auth_init lose nothing (MigrationSafe) and that  *)
(* the page shows a mode the receiver was sent (ModeShown), for any number *)
(* of requests, rows and modes and every mix of faults.                    *)
(***************************************************************************)
EXTENDS Timesync, FiniteSetTheorems, TLAPS

-----------------------------------------------------------------------------
(* The inductive invariant of the migrations *)

Rows == Old \union Procs
TableSet == {NoTable} \union [there : {TRUE}, rows : SUBSET Rows, actions : BOOLEAN]
Database == [main : [Tables -> TableSet], v2 : [Tables -> TableSet],
             users : {"none", "first", "today"}]

Rebuilding == {"copy", "drop", "rename", "commit"}
Steps == {"idle", "create", "create_sessions", "create_log", "probe", "begin", "rebuild",
          "column", "alter", "ready", "audit", "tmp_open", "tmp_write", "tmp_rename", "close", "done"} \union Rebuilding

SchemaType ==
    /\ db \in Database
    /\ ver \in Nat
    /\ writer \in Procs \union {Nobody}
    /\ tx \in [Procs -> {NoTx} \union [open : {TRUE}, db : Database, base : Nat]]
    /\ pc \in [Procs -> Steps]
    /\ table \in [Procs -> Tables]
    /\ need \in [Procs -> SUBSET Tables]
    /\ orphans \subseteq Old
    /\ accepted \in [Tables -> SUBSET Rows]

(* The connection that writes is rebuilding a table, and the other way round. *)
OneWriter ==
    \A p \in Procs :
        /\ tx[p].open <=> pc[p] \in Rebuilding \union {"rebuild"}
        /\ writer = p <=> pc[p] \in Rebuilding

(* Until it writes, a transaction has the database of its snapshot. *)
Snapshot ==
    \A p \in Procs : pc[p] = "rebuild" =>
        /\ tx[p].base =< ver
        /\ tx[p].base = ver => tx[p].db = db

(* Once it writes, nothing else is committed, and its database differs from   *)
(* the committed one by the statements it has been through.                   *)
CopyOf(main) == Table(main.rows, TRUE)
Statements(c, t, d, all, bad) ==
    /\ all.main[t].there /\ d.users = all.users
    /\ \A u \in Tables \ {t} : d.main[u] = all.main[u] /\ d.v2[u] = all.v2[u]
    /\ c \in {"copy", "drop"} => d.main[t] = all.main[t]
    /\ c = "copy" => d.v2[t] = Table({}, TRUE)
    /\ c # "copy" => all.main[t].rows \intersect bad = {}
    /\ c \in {"drop", "rename"} => d.v2[t] = CopyOf(all.main[t])
    /\ c = "rename" => d.main[t] = NoTable
    /\ c = "commit" => d.main[t] = CopyOf(all.main[t]) /\ d.v2[t] = NoTable
Underway(p) == Statements(pc[p], table[p], tx[p].db, db, orphans)
Progress == \A p \in Procs : pc[p] \in Rebuilding => Underway(p)

(* Whoever got past CREATE TABLE finds the tables; a database without a table *)
(* has no half-built one either.                                             *)
Created ==
    /\ \A p \in Procs : pc[p] \notin Creating =>
           \A t \in Tables : db.main[t].there
    /\ \A p \in Procs :
         /\ pc[p] = "create_sessions" => db.users # "none"
         /\ pc[p] = "create_log" => db.main["sessions"].there
    /\ \A t \in Tables : db.v2[t].there => db.main[t].there

SchemaInv ==
    /\ SchemaType
    /\ OneWriter
    /\ Snapshot
    /\ Progress
    /\ Created
    /\ MigrationSafe

-----------------------------------------------------------------------------
(* The inductive invariant of the receiver's mode *)

(* The steps at which the receiver has been sent the whole command *)
Saving == {"audit", "tmp_open", "tmp_write", "tmp_rename"}

ModeType ==
    /\ req = [p \in Procs |-> req[p]]
    /\ \A p \in Procs : req[p].kind = "setmode" => req[p].mode \in Modes
    /\ ram \in Modes /\ flash \in Modes
    /\ path \in Inodes \union {0} /\ tmp \in Inodes \union {0}
    /\ content \in [Inodes -> Modes \union {NoMode}]
    /\ fd \in [Procs -> Inodes \union {0}]
    /\ sent \subseteq Modes

(* What is or will be in a file was sent; a file is open while it is written. *)
FilesSent ==
    /\ \A i \in Inodes : content[i] \in sent \union {NoMode}
    /\ tmp # 0 => tmp # path
    /\ \A p \in Procs :
         /\ fd[p] # 0 <=> pc[p] = "tmp_write"
         /\ pc[p] \in Saving => req[p].kind = "setmode" /\ req[p].mode \in sent

(* One request at a time *)
Alone ==
    ~ sit.overlap =>
      /\ \A p, q \in Setting : p = q
      /\ path # 0 => content[path] # NoMode
      /\ last = "saved" => path # 0 /\ content[path] = ram /\ ram = flash
      /\ \A p \in Procs :
           /\ pc[p] \in Saving => ram = req[p].mode /\ flash = ram
           /\ pc[p] = "tmp_write" => fd[p] = tmp
           /\ pc[p] = "tmp_rename" => tmp # 0 /\ content[tmp] = req[p].mode

(* Several at a time and no faults: an empty file has somebody who fills it. *)
Filled ==
    sit.faults = {} =>
      \A i \in {path, tmp} \ {0} :
         content[i] = NoMode => \E p \in Procs : pc[p] = "tmp_write" /\ fd[p] = i

ModeInv == ModeType /\ FilesSent /\ Alone /\ Filled

-----------------------------------------------------------------------------
(* Tables and databases *)

(* LEMMA TableShape: a table is missing, or has rows and a schema. *)
LEMMA TableShape ==
    ASSUME NEW x \in TableSet
    PROVE  /\ x.there \in BOOLEAN
           /\ x.there => x.rows \subseteq Rows /\ x.actions \in BOOLEAN
           /\ ~ x.there => x = NoTable
  <1>1. CASE x = NoTable
    BY <1>1 DEF NoTable
  <1>2. CASE x \in [there : {TRUE}, rows : SUBSET Rows, actions : BOOLEAN]
    <2>1. x.there = TRUE /\ x.rows \in SUBSET Rows /\ x.actions \in BOOLEAN
      BY <1>2
    <2> QED  BY <2>1
  <1> QED  BY <1>1, <1>2 DEF TableSet

(* LEMMA TableMade: the tables that statements make. *)
LEMMA TableMade ==
    ASSUME NEW rows \in SUBSET Rows, NEW a \in BOOLEAN
    PROVE  /\ Table(rows, a) \in TableSet /\ NoTable \in TableSet
           /\ Table(rows, a).there /\ ~ NoTable.there
           /\ Table(rows, a).rows = rows /\ Table(rows, a).actions = a
  BY DEF TableSet, Table, NoTable

(* LEMMA TxShape: a transaction has a database and a snapshot. *)
LEMMA TxShape ==
    ASSUME SchemaType, NEW p \in Procs
    PROVE  /\ tx[p].open \in BOOLEAN
           /\ tx[p].open => tx[p].db \in Database /\ tx[p].base \in Nat
  <1>1. CASE tx[p] = NoTx
    BY <1>1 DEF NoTx
  <1>2. CASE tx[p] \in [open : {TRUE}, db : Database, base : Nat]
    <2>1. tx[p].open = TRUE /\ tx[p].db \in Database /\ tx[p].base \in Nat
      BY <1>2
    <2> QED  BY <2>1
  <1> QED  BY <1>1, <1>2 DEF SchemaType

(* LEMMA FirstSchema: the databases auth_init may find satisfy the invariant. *)
LEMMA FirstSchema == ModeInit => SchemaInv
  <1> SUFFICES ASSUME ModeInit PROVE SchemaInv
    OBVIOUS
  <1> DEFINE a == sit.age
  <1>1. PICK left \in BOOLEAN, col \in BOOLEAN :
           /\ a # "first" => left /\ col
           /\ db = [main |-> [t \in Tables |-> IF a = "none" THEN NoTable
                                              ELSE Table(Old, a = "today")],
                    v2 |-> [t \in Tables |-> IF a = "first" /\ left THEN Table({}, TRUE)
                                            ELSE NoTable],
                    users |-> IF a = "none" THEN "none" ELSE IF col THEN "today" ELSE "first"]
    BY DEF ModeInit, SchemaInit
  <1>2. /\ ver = 0 /\ writer = Nobody
        /\ tx = [p \in Procs |-> NoTx]
        /\ pc = [p \in Procs |-> "idle"]
        /\ table = [p \in Procs |-> "audit_log"]
        /\ need = [p \in Procs |-> {}]
        /\ orphans = {} \/ (a = "first" /\ orphans = Old)
        /\ accepted = [t \in Tables |-> IF a = "none" THEN {} ELSE Old]
    BY DEF ModeInit, SchemaInit
  <1> HIDE DEF a
  <1>3. Old \in SUBSET Rows /\ {} \in SUBSET Rows /\ (a = "today") \in BOOLEAN
    BY DEF Rows
  <1>4. db \in Database
    BY <1>1, <1>3, TableMade DEF Database
  <1>5. SchemaType
    BY <1>2, <1>3, <1>4 DEF SchemaType, Tables, Steps
  <1>6. OneWriter /\ Snapshot /\ Progress
    BY <1>2, RequestsAssumption DEF OneWriter, Snapshot, Progress, NoTx, Rebuilding
  <1>7. ASSUME NEW t \in Tables
        PROVE  /\ db.main[t] = IF a = "none" THEN NoTable ELSE Table(Old, a = "today")
               /\ db.v2[t] = IF a = "first" /\ left THEN Table({}, TRUE) ELSE NoTable
    BY <1>1
  <1>8. MigrationSafe
    <2>0. TablesMade
      <3>1. \A t \in Tables : db.main[t].there <=> a # "none"
        BY <1>3, <1>7, TableMade
      <3>2. a # "none" => db.users # "none"
        BY <1>1
      <3> QED  BY <1>2, <3>1, <3>2 DEF TablesMade, Tables, Creating
    <2> SUFFICES ASSUME NEW t \in Tables
                 PROVE  db.main[t].there =>
                              /\ db.main[t].rows = accepted[t]
                              /\ db.main[t].actions => ~ db.v2[t].there
                              /\ accepted[t] \intersect orphans # {} => ~ db.main[t].actions
      BY <2>0 DEF MigrationSafe
    <2>1. CASE a = "none"
      BY <1>2, <1>7, <2>1, TableMade, <1>3
    <2>2. CASE a # "none"
      <3>1. /\ db.main[t].there /\ db.main[t].rows = Old /\ accepted[t] = Old
            /\ db.main[t].actions = (a = "today")
        <4>1. db.main[t] = Table(Old, a = "today") /\ accepted[t] = Old
          BY <1>2, <1>7, <2>2
        <4> QED  BY <4>1, <1>3, TableMade, Zenon
      <3>2. CASE a = "today"
        <4>1. orphans = {}
          BY <1>2, <3>2
        <4>2. ~ db.v2[t].there
          BY <1>3, <1>7, <3>2, TableMade
        <4> QED  BY <3>1, <4>1, <4>2
      <3>3. CASE a # "today"
        BY <3>1, <3>3
      <3> QED  BY <3>2, <3>3
    <2> QED  BY <2>1, <2>2
  <1>9. Created
    BY <1>2, <1>3, <1>7, TableMade DEF Created, Creating
  <1> QED  BY <1>5, <1>6, <1>8, <1>9 DEF SchemaInv

(* LEMMA OtherStep: a step of a request that touches no table and is not      *)
(* inside a rebuild.                                                          *)
LEMMA OtherStep ==
    ASSUME SchemaInv, NEW p \in Procs, NEW s \in Steps,
           pc' = [pc EXCEPT ![p] = s],
           {pc[p], s} \intersect (Rebuilding \union {"rebuild"}) = {},
           s \in {"idle", "create", "done"} \/ pc[p] \notin Creating \/ Created',
           UNCHANGED <<db, ver, writer, tx, orphans, accepted>>,
           table' \in [Procs -> Tables], need' \in [Procs -> SUBSET Tables],
           \A q \in Procs \ {p} : table'[q] = table[q]
    PROVE  SchemaInv'
  <1>0. SchemaType /\ OneWriter /\ Snapshot /\ Progress /\ Created /\ MigrationSafe
    BY DEF SchemaInv
  <1>1. pc' \in [Procs -> Steps] /\ pc'[p] = s /\ \A q \in Procs \ {p} : pc'[q] = pc[q]
    BY <1>0 DEF SchemaType
  <1>2. SchemaType'
    BY <1>0, <1>1 DEF SchemaType
  <1>3. OneWriter'
    BY <1>0, <1>1 DEF OneWriter
  <1>4. Snapshot'
    BY <1>0, <1>1 DEF Snapshot
  <1>5. Progress'
    <2>1. \A q \in Procs : pc'[q] \in Rebuilding =>
                q # p /\ pc'[q] = pc[q] /\ table'[q] = table[q]
      BY <1>1
    <2> SUFFICES ASSUME NEW q \in Procs, pc'[q] \in Rebuilding
                 PROVE  Underway(q)'
      BY DEF Progress
    <2>2. Underway(q) /\ pc'[q] = pc[q] /\ table'[q] = table[q]
      BY <1>0, <2>1 DEF Progress
    <2> QED  BY <2>2 DEF Underway
  <1>6. Created'
    BY <1>0, <1>1 DEF Created, MigrationSafe, TablesMade, Tables, Creating
  <1>7. MigrationSafe'
    BY <1>0, <1>6 DEF MigrationSafe, TablesMade, Created
  <1> QED  BY <1>2, <1>3, <1>4, <1>5, <1>6, <1>7 DEF SchemaInv

(* LEMMA OtherWrite: a statement outside a rebuild that changes the database, *)
(* which it can only when no connection writes.                               *)
LEMMA OtherWrite ==
    ASSUME SchemaInv, NEW p \in Procs, NEW s \in Steps,
           pc' = [pc EXCEPT ![p] = s],
           {pc[p], s} \intersect (Rebuilding \union {"rebuild"}) = {},
           writer = Nobody, db' \in Database, ver' = ver + 1,
           accepted' \in [Tables -> SUBSET Rows],
           Created', MigrationSafe',
           UNCHANGED <<writer, tx, table, need, orphans>>
    PROVE  SchemaInv'
  <1>0. SchemaType /\ OneWriter /\ Snapshot /\ Progress /\ Created /\ MigrationSafe
    BY DEF SchemaInv
  <1>1. pc' \in [Procs -> Steps] /\ pc'[p] = s /\ \A q \in Procs \ {p} : pc'[q] = pc[q]
    BY <1>0 DEF SchemaType
  <1>2. SchemaType'
    <2>1. ver' \in Nat
      BY <1>0 DEF SchemaType
    <2> QED  BY <1>0, <1>1, <2>1, Zenon DEF SchemaType
  <1>3. OneWriter'
    BY <1>0, <1>1, RequestsAssumption DEF OneWriter
  <1>4. Snapshot'
    <2> SUFFICES ASSUME NEW q \in Procs, pc'[q] = "rebuild"
                 PROVE  tx[q].base =< ver + 1 /\ tx[q].base # ver + 1
      BY DEF Snapshot
    <2>1. pc[q] = "rebuild" /\ tx[q].base =< ver
      BY <1>0, <1>1 DEF Snapshot
    <2>2. tx[q].base \in Nat /\ ver \in Nat
      BY <1>0, <2>1, TxShape DEF OneWriter, SchemaType
    <2> QED  BY <2>1, <2>2
  <1>5. Progress'
    <2> SUFFICES ASSUME NEW q \in Procs, pc'[q] \in Rebuilding
                 PROVE  FALSE
      BY DEF Progress
    <2> QED  BY <1>0, <1>1, RequestsAssumption DEF OneWriter
  <1> QED  BY <1>2, <1>3, <1>4, <1>5 DEF SchemaInv

-----------------------------------------------------------------------------
(* The statements of a rebuild *)

(* LEMMA Filling: INSERT INTO an empty table. *)
LEMMA Filling ==
    ASSUME NEW r
    PROVE  [Table({}, TRUE) EXCEPT !.rows = r] = Table(r, TRUE)
  <1>1. \A b, x : [[there |-> b, rows |-> x, actions |-> b] EXCEPT !.rows = r]
                    = [there |-> b, rows |-> r, actions |-> b]
    OBVIOUS
  <1> QED  BY <1>1, Zenon DEF Table

(* LEMMA Statement: a statement of a rebuild changes the database of its      *)
(* transaction only.                                                          *)
LEMMA Statement ==
    ASSUME SchemaInv, NEW p \in Procs, NEW s \in Rebuilding,
           pc[p] \in Rebuilding \union {"rebuild"},
           pc' = [pc EXCEPT ![p] = s],
           writer \in {Nobody, p}, writer' = p,
           NEW d \in Database, tx' = [tx EXCEPT ![p].db = d],
           UNCHANGED <<db, ver, table, need, orphans, accepted>>,
           tx'[p].db = d => Underway(p)'
    PROVE  SchemaInv'
  <1>0. SchemaType /\ OneWriter /\ Snapshot /\ Progress /\ Created /\ MigrationSafe
    BY DEF SchemaInv
  <1>1. /\ pc' \in [Procs -> Steps] /\ pc'[p] = s
        /\ \A q \in Procs \ {p} : pc'[q] = pc[q] /\ tx'[q] = tx[q]
    BY <1>0 DEF SchemaType, Steps
  <1>2. tx[p] \in [open : {TRUE}, db : Database, base : Nat]
    <2>1. tx[p].open
      BY <1>0 DEF OneWriter
    <2>2. tx[p] # NoTx
      BY <2>1 DEF NoTx
    <2> QED  BY <1>0, <2>2 DEF SchemaType
  <1>3. /\ tx'[p] \in [open : {TRUE}, db : Database, base : Nat]
        /\ tx'[p].db = d
        /\ tx' \in [Procs -> {NoTx} \union [open : {TRUE}, db : Database, base : Nat]]
    <2>1. tx'[p] = [tx[p] EXCEPT !.db = d]
      BY <1>0 DEF SchemaType
    <2>2. tx'[p] \in [open : {TRUE}, db : Database, base : Nat] /\ tx'[p].db = d
      BY <1>2, <2>1
    <2> QED  BY <1>0, <1>1, <2>2 DEF SchemaType
  <1>4. SchemaType'
    BY <1>0, <1>1, <1>3 DEF SchemaType
  <1>5. OneWriter'
    <2> SUFFICES ASSUME NEW q \in Procs
                 PROVE  /\ tx'[q].open <=> pc'[q] \in Rebuilding \union {"rebuild"}
                        /\ p = q <=> pc'[q] \in Rebuilding
      BY DEF OneWriter
    <2>1. CASE q = p
      BY <1>1, <1>3, <2>1
    <2>2. CASE q # p
      BY <1>0, <1>1, <2>2, RequestsAssumption DEF OneWriter
    <2> QED  BY <2>1, <2>2
  <1>6. Snapshot'
    BY <1>0, <1>1 DEF Snapshot, Rebuilding
  <1>7. Progress'
    <2> SUFFICES ASSUME NEW q \in Procs, pc'[q] \in Rebuilding
                 PROVE  Underway(q)'
      BY DEF Progress
    <2>1. q = p
      BY <1>5 DEF OneWriter
    <2> QED  BY <1>3, <2>1
  <1>8. Created'
    BY <1>0, <1>1 DEF Created, Rebuilding, Creating
  <1>9. MigrationSafe'
    BY <1>0, <1>8 DEF MigrationSafe, TablesMade, Created
  <1> QED  BY <1>4, <1>5, <1>6, <1>7, <1>8, <1>9 DEF SchemaInv

(* LEMMA Ended: a rebuild is given up, or the process ends.                   *)
LEMMA Ended ==
    ASSUME SchemaInv, NEW p \in Procs, NEW s \in Steps,
           pc' = [pc EXCEPT ![p] = s],
           pc[p] \notin Creating \/ s \in {"idle", "create", "done"},
           s \notin Rebuilding \union {"rebuild"},
           tx' = [tx EXCEPT ![p] = NoTx],
           writer' = IF writer = p THEN Nobody ELSE writer,
           UNCHANGED <<db, ver, need, orphans, accepted>>,
           table' \in [Procs -> Tables],
           \A q \in Procs \ {p} : table'[q] = table[q]
    PROVE  SchemaInv'
  <1>0. SchemaType /\ OneWriter /\ Snapshot /\ Progress /\ Created /\ MigrationSafe
    BY DEF SchemaInv
  <1>1. /\ pc' \in [Procs -> Steps] /\ pc'[p] = s /\ tx'[p] = NoTx
        /\ \A q \in Procs \ {p} : pc'[q] = pc[q] /\ tx'[q] = tx[q]
    BY <1>0 DEF SchemaType, Steps
  <1>2. SchemaType'
    BY <1>0, <1>1 DEF SchemaType
  <1>3. OneWriter'
    <2> SUFFICES ASSUME NEW q \in Procs
                 PROVE  /\ tx'[q].open <=> pc'[q] \in Rebuilding \union {"rebuild"}
                        /\ writer' = q <=> pc'[q] \in Rebuilding
      BY DEF OneWriter
    <2>1. CASE q = p
      BY <1>1, <2>1, RequestsAssumption DEF NoTx
    <2>2. CASE q # p
      BY <1>0, <1>1, <2>2, RequestsAssumption DEF OneWriter
    <2> QED  BY <2>1, <2>2
  <1>4. Snapshot'
    BY <1>0, <1>1 DEF Snapshot
  <1>5. Progress'
    <2> SUFFICES ASSUME NEW q \in Procs, pc'[q] \in Rebuilding
                 PROVE  Underway(q)'
      BY DEF Progress
    <2>1. q # p
      BY <1>1
    <2>2. Underway(q) /\ pc'[q] = pc[q] /\ table'[q] = table[q] /\ tx'[q] = tx[q]
      BY <1>0, <1>1, <2>1 DEF Progress
    <2>3. db' = db /\ orphans' = orphans
      OBVIOUS
    <2> QED  BY <2>2, <2>3 DEF Underway
  <1>6. Created'
    BY <1>0, <1>1 DEF Created, MigrationSafe, TablesMade, Tables, Creating
  <1>7. MigrationSafe'
    BY <1>0, <1>6 DEF MigrationSafe, TablesMade, Created
  <1> QED  BY <1>2, <1>3, <1>4, <1>5, <1>6, <1>7 DEF SchemaInv

(* LEMMA TableSteps: where a request goes with its tables. *)
LEMMA TableSteps ==
    ASSUME SchemaType, NEW p \in Procs, NextTable(p)
    PROVE  /\ table' \in [Procs -> Tables]
           /\ \A q \in Procs \ {p} : table'[q] = table[q]
           /\ \E s \in {"begin", "column"} : pc' = [pc EXCEPT ![p] = s]
  BY DEF SchemaType, NextTable, Goto, Tables

(* LEMMA BeginStep: the statements from BEGIN to RENAME follow. *)
LEMMA BeginStep ==
    ASSUME SchemaInv, NEW p \in Procs, Begin(p)
    PROVE  SchemaInv'
  <1>0. SchemaType /\ OneWriter /\ Snapshot /\ Progress /\ Created /\ MigrationSafe
    BY DEF SchemaInv
  <1>1. /\ pc' \in [Procs -> Steps] /\ pc[p] = "begin" /\ pc'[p] = "rebuild"
        /\ tx'[p] = [open |-> TRUE, db |-> db, base |-> ver]
        /\ \A q \in Procs \ {p} : pc'[q] = pc[q] /\ tx'[q] = tx[q]
        /\ UNCHANGED <<db, ver, writer, table, need, orphans, accepted>>
    BY <1>0 DEF SchemaType, Steps, Begin, Goto
  <1>2. tx' \in [Procs -> {NoTx} \union [open : {TRUE}, db : Database, base : Nat]]
    BY <1>0 DEF SchemaType, Begin
  <1>3. SchemaType'
    BY <1>0, <1>1, <1>2 DEF SchemaType
  <1>4. OneWriter'
    <2> SUFFICES ASSUME NEW q \in Procs
                 PROVE  /\ tx'[q].open <=> pc'[q] \in Rebuilding \union {"rebuild"}
                        /\ writer = q <=> pc'[q] \in Rebuilding
      BY <1>1 DEF OneWriter
    <2>1. CASE q = p
      BY <1>0, <1>1, <2>1 DEF OneWriter, Rebuilding
    <2>2. CASE q # p
      BY <1>0, <1>1, <2>2 DEF OneWriter
    <2> QED  BY <2>1, <2>2
  <1>5. Snapshot'
    <2> SUFFICES ASSUME NEW q \in Procs, pc'[q] = "rebuild"
                 PROVE  tx'[q].base =< ver /\ (tx'[q].base = ver => tx'[q].db = db)
      BY <1>1 DEF Snapshot
    <2>1. CASE q = p
      BY <1>0, <1>1, <2>1 DEF SchemaType
    <2>2. CASE q # p
      BY <1>0, <1>1, <2>2 DEF Snapshot
    <2> QED  BY <2>1, <2>2
  <1>6. Progress'
    <2> SUFFICES ASSUME NEW q \in Procs, pc'[q] \in Rebuilding
                 PROVE  Underway(q)'
      BY DEF Progress
    <2>1. q # p
      BY <1>1 DEF Rebuilding
    <2>2. Underway(q) /\ pc'[q] = pc[q] /\ tx'[q] = tx[q]
      BY <1>0, <1>1, <2>1 DEF Progress
    <2> QED  BY <1>1, <2>2 DEF Underway, Statements, CopyOf
  <1>7. Created'
    BY <1>0, <1>1 DEF Created, Creating, MigrationSafe, TablesMade, Tables
  <1>8. MigrationSafe'
    BY <1>0, <1>1, <1>7 DEF MigrationSafe, TablesMade, Created
  <1> QED  BY <1>3, <1>4, <1>5, <1>6, <1>7, <1>8 DEF SchemaInv

(* LEMMA RebuildStep: the new table of a migration. *)
LEMMA RebuildStep ==
    ASSUME SchemaInv, NEW p \in Procs, Rebuild(p)
    PROVE  SchemaInv'
  <1>0. SchemaType /\ OneWriter /\ Snapshot /\ Progress /\ Created /\ MigrationSafe
    BY DEF SchemaInv
  <1> DEFINE t == table[p]
             d == [Work(p) EXCEPT !.v2[t] = Table({}, TRUE)]
  <1>1. pc[p] = "rebuild" /\ tx[p].open /\ writer \in {Nobody, p} /\ tx[p].base = ver
    BY <1>0 DEF Rebuild, OneWriter, Free, Current
  <1>2. Work(p) = db /\ tx[p].db = db /\ t \in Tables /\ db \in Database
    BY <1>0, <1>1 DEF Snapshot, Work, SchemaType
  <1>3. /\ pc' = [pc EXCEPT ![p] = "copy"] /\ writer' = p
        /\ tx' = [tx EXCEPT ![p].db = d]
        /\ UNCHANGED <<db, ver, table, need, orphans, accepted>>
    BY <1>1 DEF Rebuild, Put, Goto
  <1>4. Table({}, TRUE) \in TableSet
    BY TableMade
  <1>5. d \in Database /\ d.main = db.main /\ d.v2[t] = Table({}, TRUE) /\ d.users = db.users
        /\ \A u \in Tables \ {t} : d.v2[u] = db.v2[u]
    <2>1. d = [db EXCEPT !.v2[t] = Table({}, TRUE)]
      BY <1>2
    <2> HIDE DEF d, t
    <2> QED  BY <1>2, <1>4, <2>1 DEF Database
  <1> HIDE DEF d
  <1>6. tx'[p].db = d => Underway(p)'
    <2> SUFFICES ASSUME tx'[p].db = d PROVE Underway(p)'
      OBVIOUS
    <2>1. pc'[p] = "copy" /\ db.main[t].there
      BY <1>0, <1>1, <1>2, <1>3 DEF SchemaType, Created, Creating
    <2> QED  BY <1>3, <1>5, <2>1 DEF Underway, Statements
  <1> QED  BY <1>1, <1>3, <1>5, <1>6, Statement DEF Rebuilding

(* LEMMA CopyStep: the rows are copied. *)
LEMMA CopyStep ==
    ASSUME SchemaInv, NEW p \in Procs, Copy(p)
    PROVE  SchemaInv'
  <1>0. SchemaType /\ OneWriter /\ Snapshot /\ Progress /\ Created /\ MigrationSafe
    BY DEF SchemaInv
  <1> DEFINE t == table[p]
             w == tx[p].db
             d == [w EXCEPT !.v2[t].rows = w.main[t].rows]
  <1>1. pc[p] = "copy" /\ tx[p].open /\ writer = p /\ Underway(p) /\ Work(p) = w
    BY <1>0 DEF Copy, OneWriter, Progress, Work, Rebuilding
  <1>2. t \in Tables /\ w \in Database
    BY <1>0, <1>1, TxShape DEF SchemaType
  <1>3. /\ pc' = [pc EXCEPT ![p] = "drop"] /\ writer' = p
        /\ tx' = [tx EXCEPT ![p].db = d]
        /\ UNCHANGED <<db, ver, table, need, orphans, accepted>>
        /\ w.main[t].rows \intersect orphans = {}
    BY <1>1 DEF Copy, Put, Goto
  <1>4. w.main[t] = db.main[t] /\ db.main[t].there /\ w.v2[t] = Table({}, TRUE)
    BY <1>1 DEF Underway, Statements
  <1>5. db.main[t] \in TableSet /\ db.main[t].rows \in SUBSET Rows
    BY <1>0, <1>2, <1>4, TableShape DEF SchemaType, Database
  <1>6. [w.v2[t] EXCEPT !.rows = w.main[t].rows] = Table(db.main[t].rows, TRUE)
    BY <1>4, Filling
  <1>7. d = [w EXCEPT !.v2[t] = Table(db.main[t].rows, TRUE)]
    BY <1>2, <1>6 DEF Database
  <1>8. Table(db.main[t].rows, TRUE) \in TableSet
    BY <1>5, TableMade
  <1> HIDE DEF d
  <1>9. /\ d \in Database /\ d.main = w.main /\ d.v2[t] = Table(db.main[t].rows, TRUE)
        /\ d.users = w.users /\ \A u \in Tables \ {t} : d.v2[u] = w.v2[u]
    <2> HIDE DEF t, w
    <2> QED  BY <1>2, <1>7, <1>8 DEF Database
  <1>10. tx'[p].db = d => Underway(p)'
    <2> SUFFICES ASSUME tx'[p].db = d PROVE Underway(p)'
      OBVIOUS
    <2>1. pc'[p] = "drop"
      BY <1>0, <1>3 DEF SchemaType
    <2> QED  BY <1>1, <1>3, <1>4, <1>9, <2>1 DEF Underway, Statements, CopyOf
  <1> QED  BY <1>1, <1>3, <1>9, <1>10, Statement DEF Rebuilding

(* LEMMA DropStep: the old table is dropped. *)
LEMMA DropStep ==
    ASSUME SchemaInv, NEW p \in Procs, Drop(p)
    PROVE  SchemaInv'
  <1>0. SchemaType /\ OneWriter /\ Snapshot /\ Progress /\ Created /\ MigrationSafe
    BY DEF SchemaInv
  <1> DEFINE t == table[p]
             w == tx[p].db
             d == [w EXCEPT !.main[t] = NoTable]
  <1>1. pc[p] = "drop" /\ tx[p].open /\ writer = p /\ Underway(p) /\ Work(p) = w
    BY <1>0 DEF Drop, OneWriter, Progress, Work, Rebuilding
  <1>2. t \in Tables /\ w \in Database /\ NoTable \in TableSet
    BY <1>0, <1>1, TxShape DEF SchemaType, TableSet
  <1>3. /\ pc' = [pc EXCEPT ![p] = "rename"] /\ writer' = p
        /\ tx' = [tx EXCEPT ![p].db = d]
        /\ UNCHANGED <<db, ver, table, need, orphans, accepted>>
    BY <1>1 DEF Drop, Put, Goto
  <1>4. /\ d \in Database /\ d.v2 = w.v2 /\ d.main[t] = NoTable /\ d.users = w.users
        /\ \A u \in Tables \ {t} : d.main[u] = w.main[u]
    <2> HIDE DEF t, w
    <2> QED  BY <1>2 DEF Database
  <1> HIDE DEF d
  <1>5. tx'[p].db = d => Underway(p)'
    <2> SUFFICES ASSUME tx'[p].db = d PROVE Underway(p)'
      OBVIOUS
    <2>1. pc'[p] = "rename"
      BY <1>0, <1>3 DEF SchemaType
    <2>2. /\ w.v2[t] = CopyOf(db.main[t]) /\ db.main[t].there
          /\ db.main[t].rows \intersect orphans = {} /\ w.users = db.users
          /\ \A u \in Tables \ {t} : w.main[u] = db.main[u] /\ w.v2[u] = db.v2[u]
      BY <1>1 DEF Underway, Statements
    <2>3. d.v2[t] = CopyOf(db'.main[t]) /\ \A u \in Tables \ {t} : d.v2[u] = w.v2[u]
      BY <1>3, <1>4, <2>2 DEF CopyOf
    <2>4. table'[p] = t /\ db' = db /\ orphans' = orphans
      BY <1>3
    <2>5. \A u \in Tables \ {t} : d.main[u] = db.main[u] /\ d.v2[u] = db.v2[u]
      BY <1>4, <2>2, <2>3
    <2> HIDE DEF t
    <2> QED  BY <1>4, <2>1, <2>2, <2>3, <2>4, <2>5 DEF Underway, Statements
  <1> QED  BY <1>1, <1>3, <1>4, <1>5, Statement DEF Rebuilding

(* LEMMA RenameStep: the new table takes its name. *)
LEMMA RenameStep ==
    ASSUME SchemaInv, NEW p \in Procs, Rename(p)
    PROVE  SchemaInv'
  <1>0. SchemaType /\ OneWriter /\ Snapshot /\ Progress /\ Created /\ MigrationSafe
    BY DEF SchemaInv
  <1> DEFINE t == table[p]
             w == tx[p].db
             d == [w EXCEPT !.main[t] = w.v2[t], !.v2[t] = NoTable]
  <1>1. pc[p] = "rename" /\ tx[p].open /\ writer = p /\ Underway(p) /\ Work(p) = w
    BY <1>0 DEF Rename, OneWriter, Progress, Work, Rebuilding
  <1>2. t \in Tables /\ w \in Database /\ NoTable \in TableSet
    BY <1>0, <1>1, TxShape DEF SchemaType, TableSet
  <1>3. /\ pc' = [pc EXCEPT ![p] = "commit"] /\ writer' = p
        /\ tx' = [tx EXCEPT ![p].db = d]
        /\ UNCHANGED <<db, ver, table, need, orphans, accepted>>
    BY <1>1 DEF Rename, Put, Goto
  <1>4. /\ d \in Database /\ d.main[t] = w.v2[t] /\ d.v2[t] = NoTable /\ d.users = w.users
        /\ \A u \in Tables \ {t} : d.main[u] = w.main[u] /\ d.v2[u] = w.v2[u]
    <2> HIDE DEF t, w
    <2> QED  BY <1>2 DEF Database
  <1> HIDE DEF d
  <1>5. tx'[p].db = d => Underway(p)'
    <2> SUFFICES ASSUME tx'[p].db = d PROVE Underway(p)'
      OBVIOUS
    <2>1. pc'[p] = "commit"
      BY <1>0, <1>3 DEF SchemaType
    <2>2. /\ db.main[t].there /\ w.users = db.users
          /\ db.main[t].rows \intersect orphans = {} /\ w.v2[t] = CopyOf(db.main[t])
          /\ \A u \in Tables \ {t} : w.main[u] = db.main[u] /\ w.v2[u] = db.v2[u]
      BY <1>1 DEF Underway, Statements
    <2>3. table'[p] = t /\ db' = db /\ orphans' = orphans
      BY <1>3
    <2>4. d.main[t] = CopyOf(db.main[t])
      BY <1>4, <2>2
    <2>5. \A u \in Tables \ {t} : d.main[u] = db.main[u] /\ d.v2[u] = db.v2[u]
      BY <1>4, <2>2
    <2> HIDE DEF t, w
    <2>6. Statements("commit", t, d, db, orphans)
      BY <1>4, <2>2, <2>4, <2>5 DEF Statements
    <2> QED  BY <2>1, <2>3, <2>6 DEF Underway, Statements, CopyOf
  <1> QED  BY <1>1, <1>3, <1>4, <1>5, Statement DEF Rebuilding

(* LEMMA CommitStep: the rebuilt table has the rows of the old one, and       *)
(* nobody has added any since.                                                *)
LEMMA CommitStep ==
    ASSUME SchemaInv, NEW p \in Procs, Commit(p)
    PROVE  SchemaInv'
  <1>0. SchemaType /\ OneWriter /\ Snapshot /\ Progress /\ Created /\ MigrationSafe
    BY DEF SchemaInv
  <1> DEFINE t == table[p]
  <1>1. /\ pc[p] = "commit" /\ tx[p].open /\ writer = p /\ Underway(p)
        /\ tx[p].db \in Database /\ t \in Tables /\ ver \in Nat
    BY <1>0, TxShape DEF Commit, OneWriter, Progress, Rebuilding, SchemaType
  <1>2. /\ db' = tx[p].db /\ ver' = ver + 1 /\ writer' = Nobody
        /\ tx' = [tx EXCEPT ![p] = NoTx]
        /\ UNCHANGED <<need, orphans, accepted>>
    BY <1>1 DEF Commit
  <1>3. PICK s \in {"begin", "column"} : pc' = [pc EXCEPT ![p] = s]
    BY <1>0, TableSteps DEF Commit
  <1>4. /\ pc' \in [Procs -> Steps] /\ pc'[p] = s /\ tx'[p] = NoTx
        /\ \A q \in Procs \ {p} : pc'[q] = pc[q] /\ tx'[q] = tx[q]
    BY <1>0, <1>2, <1>3 DEF SchemaType, Steps
  <1>5. SchemaType'
    <2>1. ver' \in Nat /\ writer' \in Procs \union {Nobody} /\ db' \in Database
      BY <1>1, <1>2
    <2>2. table' \in [Procs -> Tables]
      BY <1>0, TableSteps DEF Commit
    <2>3. tx' \in [Procs -> {NoTx} \union [open : {TRUE}, db : Database, base : Nat]]
      BY <1>0, <1>2 DEF SchemaType
    <2> QED  BY <1>0, <1>2, <1>4, <2>1, <2>2, <2>3 DEF SchemaType
  <1>6. \A q \in Procs : pc'[q] \notin Rebuilding
    <2> TAKE q \in Procs
    <2>1. CASE q = p
      BY <1>4, <2>1 DEF Rebuilding
    <2>2. CASE q # p
      BY <1>0, <1>1, <1>4, <2>2 DEF OneWriter
    <2> QED  BY <2>1, <2>2
  <1>7. OneWriter'
    <2> SUFFICES ASSUME NEW q \in Procs
                 PROVE  tx'[q].open <=> pc'[q] \in Rebuilding \union {"rebuild"}
      BY <1>2, <1>6, RequestsAssumption DEF OneWriter
    <2>1. CASE q = p
      BY <1>4, <2>1 DEF NoTx, Rebuilding
    <2>2. CASE q # p
      BY <1>0, <1>4, <2>2 DEF OneWriter
    <2> QED  BY <2>1, <2>2
  <1>8. Snapshot'
    <2> SUFFICES ASSUME NEW q \in Procs, pc'[q] = "rebuild"
                 PROVE  tx'[q].base =< ver + 1 /\ tx'[q].base # ver + 1
      BY <1>2 DEF Snapshot
    <2>1. q # p /\ pc[q] = "rebuild" /\ tx[q].base =< ver /\ tx'[q] = tx[q]
      BY <1>0, <1>4 DEF Snapshot
    <2>2. tx[q].base \in Nat
      BY <1>0, <2>1, TxShape DEF OneWriter
    <2> QED  BY <1>1, <2>1, <2>2
  <1>9. Progress'
    BY <1>6 DEF Progress
  <1>10. \A u \in Tables : db.main[u].there
    BY <1>0, <1>1 DEF Created, Creating
  <1>11. /\ db'.main[t] = Table(db.main[t].rows, TRUE) /\ db'.v2[t] = NoTable
         /\ db.main[t].rows \intersect orphans = {}
         /\ \A u \in Tables \ {t} : db'.main[u] = db.main[u] /\ db'.v2[u] = db.v2[u]
    BY <1>1, <1>2 DEF Underway, Statements, CopyOf
  <1>12. /\ db'.main[t].there /\ db'.main[t].rows = db.main[t].rows
         /\ ~ db'.v2[t].there
    BY <1>11 DEF Table, NoTable
  <1>13. db.main[t].rows = accepted[t]
    BY <1>0, <1>1, <1>10 DEF MigrationSafe
  <1>14. \A u \in Tables : db'.main[u].there
    BY <1>10, <1>11, <1>12
  <1>16. db'.users = db.users
    BY <1>1, <1>2 DEF Underway, Statements
  <1>15. MigrationSafe'
    <2> SUFFICES ASSUME NEW u \in Tables
                 PROVE  /\ db'.main[u].rows = accepted[u]
                        /\ db'.main[u].actions => ~ db'.v2[u].there
                        /\ accepted[u] \intersect orphans # {} => ~ db'.main[u].actions
      <3>1. TablesMade'
        BY <1>0, <1>10, <1>14, <1>16 DEF TablesMade, MigrationSafe, Tables
      <3> QED  BY <1>2, <3>1 DEF MigrationSafe
    <2>1. CASE u = t
      BY <1>11, <1>12, <1>13, <2>1
    <2>2. CASE u # t
      BY <1>0, <1>10, <1>11, <2>2 DEF MigrationSafe
    <2> QED  BY <2>1, <2>2
  <1>17. Created'
    BY <1>0, <1>10, <1>14, <1>16 DEF Created, MigrationSafe, TablesMade, Tables
  <1> QED  BY <1>5, <1>7, <1>8, <1>9, <1>15, <1>17 DEF SchemaInv

(* LEMMA CreateStep: CREATE TABLE IF NOT EXISTS, for a table that is there,   *)
(* for one that is made, and for one that another connection keeps from it.   *)
LEMMA CreateStep ==
    ASSUME SchemaInv, NEW p \in Procs, NEW there \in BOOLEAN, NEW made,
           NEW s \in {"create_sessions", "create_log", "probe"},
           pc[p] \in {"create", "create_sessions", "create_log"},
           Create(p, there, made, s),
           there /\ s = "create_sessions" => db.users # "none",
           there /\ s = "create_log" => db.main["sessions"].there,
           there /\ s = "probe" => \A t \in Tables : db.main[t].there,
           ~ there => made \in Database,
           ~ there /\ db' = made => Created' /\ MigrationSafe'
    PROVE  SchemaInv'
  <1>0. SchemaType /\ OneWriter /\ Snapshot /\ Progress /\ Created /\ MigrationSafe
    BY DEF SchemaInv
  <1>1. /\ UNCHANGED <<writer, tx, table, need, orphans, accepted>>
        /\ {s, "done"} \subseteq Steps
        /\ {pc[p], s, "done"} \intersect (Rebuilding \union {"rebuild"}) = {}
    BY DEF Create, Rebuilding, Steps
  <1>2. CASE there /\ pc' = [pc EXCEPT ![p] = s] /\ UNCHANGED <<db, ver>>
    <2>1. pc'[p] = s /\ \A q \in Procs \ {p} : pc'[q] = pc[q]
      BY <1>0, <1>2 DEF SchemaType
    <2>2. Created'
      BY <1>0, <1>2, <2>1 DEF Created, Creating
    <2> QED  BY <1>0, <1>1, <1>2, <2>2, OtherStep DEF SchemaType
  <1>3. CASE pc' = [pc EXCEPT ![p] = "done"] /\ UNCHANGED <<db, ver>>
    BY <1>0, <1>1, <1>3, OtherStep DEF SchemaType, Creating
  <1>4. CASE ~ there /\ writer = Nobody /\ db' = made /\ ver' = ver + 1
               /\ pc' = [pc EXCEPT ![p] = s]
    BY <1>0, <1>1, <1>4, OtherWrite DEF SchemaType
  <1> QED  BY <1>2, <1>3, <1>4 DEF Create, Goto

(* LEMMA CreateUsersStep: CREATE TABLE users. *)
LEMMA CreateUsersStep ==
    ASSUME SchemaInv, NEW p \in Procs, CreateUsers(p)
    PROVE  SchemaInv'
  <1>0. SchemaType /\ Created /\ MigrationSafe
    BY DEF SchemaInv
  <1> DEFINE made == [db EXCEPT !.users = "today"]
  <1>1. /\ pc[p] = "create"
        /\ Create(p, db.users # "none", made, "create_sessions")
    BY DEF CreateUsers
  <1>2. made \in Database /\ made.main = db.main /\ made.v2 = db.v2 /\ made.users = "today"
    BY <1>0 DEF SchemaType, Database
  <1> HIDE DEF made
  <1>3. db.users = "none" /\ db' = made => Created' /\ MigrationSafe'
    <2> SUFFICES ASSUME db.users = "none", db' = made PROVE Created' /\ MigrationSafe'
      OBVIOUS
    <2>1. pc' = [pc EXCEPT ![p] = "create_sessions"] \/ pc' = [pc EXCEPT ![p] = "done"]
      BY <1>1 DEF Create, Goto
    <2>2. \A q \in Procs : pc'[q] \in {"create_sessions", "done"} \/ pc'[q] = pc[q]
      BY <1>0, <2>1 DEF SchemaType
    <2>3. UNCHANGED <<accepted, orphans>>
      BY <1>1 DEF Create
    <2> QED  BY <1>0, <1>2, <2>2, <2>3 DEF Created, MigrationSafe, TablesMade, Creating
  <1> QED  BY <1>1, <1>2, <1>3, CreateStep

(* LEMMA CreateTableStep: CREATE TABLE sessions and CREATE TABLE audit_log.   *)
LEMMA CreateTableStep ==
    ASSUME SchemaInv, NEW p \in Procs, CreateSessions(p) \/ CreateLog(p)
    PROVE  SchemaInv'
  <1>0. SchemaType /\ Created /\ MigrationSafe
    BY DEF SchemaInv
  <1>1. PICK t \in Tables :
           /\ pc[p] = IF t = "sessions" THEN "create_sessions" ELSE "create_log"
           /\ CreateTable(p, t)
    BY DEF CreateSessions, CreateLog, Tables
  <1> DEFINE made == [db EXCEPT !.main[t] = Table({}, TRUE)]
             next == IF t = "sessions" THEN "create_log" ELSE "probe"
             there == db.main[t].there
  <1>2. Create(p, there, made, next) /\ next \in {"create_log", "probe"} /\ there \in BOOLEAN
    BY <1>0, <1>1, TableShape DEF CreateTable, SchemaType, Database
  <1>3. /\ made \in Database /\ made.v2 = db.v2 /\ made.users = db.users
        /\ made.main[t] = Table({}, TRUE)
        /\ \A u \in Tables \ {t} : made.main[u] = db.main[u]
    BY <1>0, TableMade DEF SchemaType, Database
  <1> HIDE DEF made, next, there
  <1>4. /\ next # "create_sessions" /\ next = "create_log" /\ there => db.main["sessions"].there
        /\ next = "probe" /\ there => \A u \in Tables : db.main[u].there
    BY <1>0, <1>1 DEF MigrationSafe, TablesMade, Tables, next, there
  <1>5. ~ there /\ db' = made => Created' /\ MigrationSafe'
    <2> SUFFICES ASSUME ~ there, db' = made PROVE Created' /\ MigrationSafe'
      OBVIOUS
    <2>1. /\ pc'[p] \in {next, "done"} /\ \A q \in Procs \ {p} : pc'[q] = pc[q]
          /\ UNCHANGED <<accepted, orphans>>
      BY <1>0, <1>2 DEF SchemaType, Create, Goto
    <2>2. /\ Table({}, TRUE).there /\ Table({}, TRUE).rows = {} /\ accepted[t] = {}
          /\ ~ db.v2[t].there
      BY <1>0, TableMade DEF Created, MigrationSafe, TablesMade, there
    <2>3. /\ db'.users # "none" /\ db'.main["sessions"].there
          /\ next = "probe" => db'.main["audit_log"].there
      BY <1>0, <1>1, <1>3, <2>2 DEF Created, MigrationSafe, TablesMade, Tables, next
    <2>4. \A u \in Tables : db.main[u].there => db'.main[u].there
      BY <1>3, <2>2
    <2>5. \A q \in Procs : pc'[q] \in Creating \/ next = "probe" \/ pc'[q] = pc[q]
      BY <2>1 DEF Creating, next
    <2>6. TablesMade'
      BY <1>0, <2>1, <2>2, <2>3, <2>4, <2>5 DEF MigrationSafe, TablesMade, Tables
    <2>7. Created'
      BY <1>0, <1>3, <2>1, <2>3, <2>4, <2>5 DEF Created, Tables, Creating, next
    <2>8. \A u \in Tables : db'.main[u].there =>
             /\ db'.main[u].rows = accepted[u]
             /\ db'.main[u].actions => ~ db'.v2[u].there
             /\ accepted[u] \intersect orphans # {} => ~ db'.main[u].actions
      BY <1>0, <1>3, <2>2 DEF MigrationSafe
    <2> QED  BY <2>1, <2>6, <2>7, <2>8 DEF MigrationSafe
  <1>6. pc[p] \in {"create", "create_sessions", "create_log"}
    BY <1>1
  <1> QED  BY <1>2, <1>3, <1>4, <1>5, <1>6, CreateStep

(* LEMMA SchemaSteps: every step of auth_init keeps the invariant.            *)
LEMMA SchemaSteps ==
    ASSUME SchemaInv, NEW p \in Procs, SchemaStep(p)
    PROVE  SchemaInv'
  <1>0. SchemaType /\ OneWriter /\ Snapshot /\ Progress /\ Created /\ MigrationSafe
    BY DEF SchemaInv
  <1>2. CASE Probe(p)
    <2>1. PICK s \in {"probe", "begin"} : pc' = [pc EXCEPT ![p] = s]
      BY <1>2 DEF Probe, Goto
    <2>2. /\ pc[p] = "probe"
          /\ UNCHANGED <<db, ver, writer, tx, orphans, accepted>>
          /\ table' = [table EXCEPT ![p] = IF @ = "audit_log" THEN "sessions" ELSE "audit_log"]
      BY <1>2 DEF Probe
    <2>3. table' \in [Procs -> Tables] /\ \A q \in Procs \ {p} : table'[q] = table[q]
      BY <1>0, <2>2 DEF SchemaType, Tables
    <2>4. need' \in [Procs -> SUBSET Tables]
      BY <1>0, <1>2 DEF Probe, SchemaType
    <2>5. {pc[p], s} \intersect (Rebuilding \union {"rebuild"}) = {} /\ s \in Steps
      BY <2>2 DEF Rebuilding, Steps, Creating
    <2> QED  BY <2>1, <2>2, <2>3, <2>4, <2>5, OtherStep DEF Creating
  <1>3. CASE Skip(p)
    <2>1. PICK s \in {"begin", "column"} : pc' = [pc EXCEPT ![p] = s]
      BY <1>0, <1>3, TableSteps DEF Skip
    <2>2. /\ pc[p] = "begin"
          /\ UNCHANGED <<db, ver, writer, tx, need, orphans, accepted>>
          /\ need' \in [Procs -> SUBSET Tables]
      BY <1>0, <1>3 DEF Skip, SchemaType
    <2>3. table' \in [Procs -> Tables] /\ \A q \in Procs \ {p} : table'[q] = table[q]
      BY <1>0, <1>3, TableSteps DEF Skip
    <2>4. {pc[p], s} \intersect (Rebuilding \union {"rebuild"}) = {} /\ s \in Steps
      BY <2>2 DEF Rebuilding, Steps, Creating
    <2> QED  BY <2>1, <2>2, <2>3, <2>4, OtherStep DEF Creating
  <1>4. CASE Rollback(p)
    <2>1. PICK s \in {"begin", "column"} : pc' = [pc EXCEPT ![p] = s]
      BY <1>0, <1>4, TableSteps DEF Rollback
    <2>2. /\ pc[p] \in {"rebuild", "copy"}
          /\ tx' = [tx EXCEPT ![p] = NoTx]
          /\ writer' = IF writer = p THEN Nobody ELSE writer
          /\ UNCHANGED <<db, ver, need, orphans, accepted>>
      BY <1>4 DEF Rollback, Fails
    <2>3. table' \in [Procs -> Tables] /\ \A q \in Procs \ {p} : table'[q] = table[q]
      BY <1>0, <1>4, TableSteps DEF Rollback
    <2>4. s \notin Rebuilding \union {"rebuild"} /\ s \in Steps
      BY DEF Rebuilding, Steps
    <2> QED  BY <2>1, <2>2, <2>3, <2>4, Ended DEF Creating
  <1>5. CASE ProbeColumn(p)
    <2>1. PICK s \in {"ready", "alter"} : pc' = [pc EXCEPT ![p] = s]
      BY <1>5 DEF ProbeColumn, Goto
    <2>2. pc[p] = "column" /\ UNCHANGED <<db, ver, writer, tx, table, need, orphans, accepted>>
      BY <1>5 DEF ProbeColumn, dbVars
    <2>3. {pc[p], s} \intersect (Rebuilding \union {"rebuild"}) = {} /\ s \in Steps
      BY <2>2 DEF Rebuilding, Steps, Creating
    <2> QED  BY <1>0, <2>1, <2>2, <2>3, OtherStep DEF SchemaType, Creating
  <1>6. CASE AddColumn(p)
    <2>1. /\ pc[p] = "alter" /\ pc' = [pc EXCEPT ![p] = "ready"]
          /\ UNCHANGED <<writer, tx, table, need, orphans, accepted>>
      BY <1>6 DEF AddColumn, Goto
    <2>2. {pc[p], "ready"} \intersect (Rebuilding \union {"rebuild"}) = {} /\ "ready" \in Steps
      BY <2>1 DEF Rebuilding, Steps, Creating
    <2>3. CASE UNCHANGED <<db, ver>>
      BY <1>0, <2>1, <2>2, <2>3, OtherStep DEF SchemaType, Creating
    <2>4. CASE writer = Nobody /\ db' = [db EXCEPT !.users = "today"] /\ ver' = ver + 1
      <3>1. /\ db' \in Database /\ db'.main = db.main /\ db'.v2 = db.v2
            /\ db'.users = "today"
        BY <1>0, <2>4 DEF SchemaType, Database
      <3>2. Created' /\ \A t \in Tables : db.main[t].there
        BY <1>0, <2>1, <3>1 DEF Created, Creating
      <3>3. MigrationSafe'
        BY <1>0, <2>1, <3>1, <3>2 DEF MigrationSafe, TablesMade
      <3> QED  BY <1>0, <2>1, <2>2, <2>4, <3>1, <3>2, <3>3, OtherWrite DEF SchemaType
    <2> QED  BY <1>6, <2>3, <2>4 DEF AddColumn
  <1> QED
    BY <1>2, <1>3, <1>4, <1>5, <1>6, CreateUsersStep, CreateTableStep, BeginStep, RebuildStep, CopyStep, DropStep,
       RenameStep, CommitStep DEF SchemaStep

-----------------------------------------------------------------------------
(* The statements of requests that got past auth_init *)

(* LEMMA RowsChanged: INSERT and DELETE, together with the history of what    *)
(* was accepted.                                                              *)
LEMMA RowsChanged ==
    ASSUME SchemaInv, NEW p \in Procs, NEW s \in Steps,
           pc' = [pc EXCEPT ![p] = s],
           {pc[p], s} \intersect (Rebuilding \union {"rebuild"}) = {},
           pc[p] \notin Creating,
           writer = Nobody,
           NEW t \in Tables, NEW rows \in SUBSET Rows,
           rows \intersect orphans \subseteq accepted[t],
           db' = [db EXCEPT !.main[t].rows = rows],
           ver' = ver + 1,
           accepted' = [accepted EXCEPT ![t] = rows],
           UNCHANGED <<writer, tx, table, need, orphans>>
    PROVE  SchemaInv'
  <1>0. SchemaType /\ OneWriter /\ Snapshot /\ Progress /\ Created /\ MigrationSafe
    BY DEF SchemaInv
  <1>1. \A u \in Tables : db.main[u].there
    BY <1>0 DEF Created
  <1>2. db.main[t] \in [there : {TRUE}, rows : SUBSET Rows, actions : BOOLEAN]
    <2>1. db.main[t] # NoTable
      BY <1>1 DEF NoTable
    <2> QED  BY <1>0, <2>1 DEF SchemaType, Database, TableSet
  <1> DEFINE x == [db.main[t] EXCEPT !.rows = rows]
  <1>3. /\ x \in TableSet /\ x.there = TRUE /\ x.rows = rows
        /\ x.actions = db.main[t].actions
    <2>1. x \in [there : {TRUE}, rows : SUBSET Rows, actions : BOOLEAN]
      BY <1>2
    <2>2. x.rows = rows /\ x.actions = db.main[t].actions
      BY <1>2
    <2>3. x.there = TRUE
      BY <2>1
    <2> QED  BY <2>1, <2>2, <2>3, Zenon DEF TableSet
  <1>4. db' = [db EXCEPT !.main[t] = x]
    BY <1>0 DEF SchemaType, Database
  <1> HIDE DEF x
  <1>5. /\ db' \in Database /\ db'.v2 = db.v2 /\ db'.main[t] = x
        /\ \A u \in Tables \ {t} : db'.main[u] = db.main[u]
    BY <1>0, <1>3, <1>4 DEF SchemaType, Database
  <1>6. \A u \in Tables : db'.main[u].there
    BY <1>1, <1>3, <1>5
  <1>7. /\ accepted' \in [Tables -> SUBSET Rows] /\ accepted'[t] = rows
        /\ \A u \in Tables \ {t} : accepted'[u] = accepted[u]
    BY <1>0 DEF SchemaType
  <1>8. MigrationSafe'
    <2> SUFFICES ASSUME NEW u \in Tables
                 PROVE  /\ db'.main[u].rows = accepted'[u]
                        /\ db'.main[u].actions => ~ db'.v2[u].there
                        /\ accepted'[u] \intersect orphans # {} => ~ db'.main[u].actions
      <3>1. TablesMade'
        BY <1>0, <1>1, <1>5, <1>6 DEF TablesMade, MigrationSafe, Tables
      <3> QED  BY <3>1 DEF MigrationSafe
    <2>1. CASE u = t
      <3>1. /\ db.main[t].actions => ~ db.v2[t].there
            /\ accepted[t] \intersect orphans # {} => ~ db.main[t].actions
        BY <1>0, <1>1 DEF MigrationSafe
      <3> QED  BY <1>3, <1>5, <1>7, <2>1, <3>1
    <2>2. CASE u # t
      BY <1>0, <1>1, <1>5, <1>7, <2>2 DEF MigrationSafe
    <2> QED  BY <2>1, <2>2
  <1>9. Created'
    BY <1>0, <1>5, <1>6 DEF Created, MigrationSafe, TablesMade, Tables
  <1> QED  BY <1>5, <1>7, <1>8, <1>9, OtherWrite

(* LEMMA InsertStep: INSERT INTO audit_log and sessions. *)
LEMMA InsertStep ==
    ASSUME SchemaInv, NEW p \in Procs, NEW s \in Steps,
           pc' = [pc EXCEPT ![p] = s],
           {pc[p], s} \intersect (Rebuilding \union {"rebuild"}) = {},
           pc[p] \notin Creating,
           NEW t \in Tables, Insert(p, t, p),
           UNCHANGED <<writer, tx, table, need, orphans>>
    PROVE  SchemaInv'
  <1>0. SchemaType /\ OneWriter /\ Snapshot /\ Progress /\ Created /\ MigrationSafe
    BY DEF SchemaInv
  <1>1. \A u \in Tables : db.main[u].there
    BY <1>0 DEF Created
  <1>2. CASE writer = Nobody
    <2> DEFINE rows == accepted[t] \union {p}
    <2>1. db.main[t].rows = accepted[t] /\ accepted[t] \subseteq Rows
      BY <1>0, <1>1 DEF MigrationSafe, SchemaType
    <2>2. rows \in SUBSET Rows /\ rows \intersect orphans \subseteq accepted[t]
      BY <1>0, <2>1, RequestsAssumption DEF Rows, SchemaType
    <2>3. /\ db' = [db EXCEPT !.main[t].rows = rows] /\ ver' = ver + 1
          /\ accepted' = [accepted EXCEPT ![t] = rows]
      BY <1>1, <1>2, <2>1 DEF Insert
    <2> HIDE DEF rows
    <2> QED  BY <1>2, <2>2, <2>3, RowsChanged
  <1>3. CASE writer # Nobody
    <2>1. UNCHANGED <<db, ver, accepted>>
      BY <1>3 DEF Insert
    <2> QED  BY <1>0, <1>1, <2>1, OtherStep DEF SchemaType
  <1> QED  BY <1>2, <1>3

(* LEMMA DeleteStep: DELETE FROM sessions. *)
LEMMA DeleteStep ==
    ASSUME SchemaInv, NEW p \in Procs, NEW s \in Steps,
           pc' = [pc EXCEPT ![p] = s],
           {pc[p], s} \intersect (Rebuilding \union {"rebuild"}) = {},
           pc[p] \notin Creating,
           NEW expired, Delete(expired),
           UNCHANGED <<writer, tx, table, need, orphans>>
    PROVE  SchemaInv'
  <1>0. SchemaType /\ OneWriter /\ Snapshot /\ Progress /\ Created /\ MigrationSafe
    BY DEF SchemaInv
  <1> DEFINE t == "sessions"
  <1>1. t \in Tables /\ \A u \in Tables : db.main[u].there
    BY <1>0 DEF Created, Tables
  <1>2. CASE writer = Nobody
    <2> DEFINE rows == accepted[t] \ expired
    <2>1. db.main[t].rows = accepted[t] /\ accepted[t] \subseteq Rows
      BY <1>0, <1>1 DEF MigrationSafe, SchemaType
    <2>2. rows \in SUBSET Rows /\ rows \intersect orphans \subseteq accepted[t]
      BY <2>1
    <2>3. /\ db' = [db EXCEPT !.main[t].rows = rows] /\ ver' = ver + 1
          /\ accepted' = [accepted EXCEPT ![t] = rows]
      BY <1>1, <1>2, <2>1 DEF Delete
    <2> HIDE DEF rows, t
    <2> QED  BY <1>1, <1>2, <2>2, <2>3, RowsChanged
  <1>3. CASE writer # Nobody
    <2>1. UNCHANGED <<db, ver, accepted>>
      BY <1>3 DEF Delete
    <2> QED  BY <1>0, <1>1, <2>1, OtherStep DEF SchemaType
  <1> QED  BY <1>2, <1>3

(* LEMMA PlainStep: a step of a request that touches no table. *)
LEMMA PlainStep ==
    ASSUME SchemaInv, NEW p \in Procs, NEW s \in Steps,
           pc' = [pc EXCEPT ![p] = s],
           {pc[p], s} \intersect (Rebuilding \union {"rebuild"}) = {},
           s \in {"idle", "create", "done"} \/ pc[p] \notin Creating,
           UNCHANGED dbVars
    PROVE  SchemaInv'
  <1>1. table' \in [Procs -> Tables] /\ need' \in [Procs -> SUBSET Tables]
        /\ \A q \in Procs \ {p} : table'[q] = table[q]
    BY DEF SchemaInv, SchemaType, dbVars
  <1> QED  BY <1>1, OtherStep DEF dbVars

(* LEMMA SchemaNext: every step of every request keeps the invariant. *)
LEMMA SchemaNext ==
    ASSUME SchemaInv, [ModeNext]_requestVars
    PROVE  SchemaInv'
  <1>1. CASE UNCHANGED <<dbVars, pc>>
    <2>1. UNCHANGED <<db, ver, writer, tx, table, need, orphans, accepted, pc>>
      BY <1>1 DEF dbVars
    <2>2. SchemaType' /\ OneWriter' /\ Snapshot' /\ Created' /\ MigrationSafe'
      BY <2>1 DEF SchemaInv, SchemaType, OneWriter, Snapshot, Created, MigrationSafe, TablesMade
    <2>3. Progress'
      BY <2>1 DEF SchemaInv, Progress, Underway, Statements, CopyOf
    <2> QED  BY <2>2, <2>3 DEF SchemaInv
  <1>2. ASSUME NEW p \in Procs, Arrive(p) PROVE SchemaInv'
    <2>1. pc[p] = "idle" /\ pc' = [pc EXCEPT ![p] = "create"] /\ UNCHANGED dbVars
      BY <1>2 DEF Arrive, Goto
    <2> QED  BY <2>1, PlainStep DEF Steps, Rebuilding, Creating
  <1>3. ASSUME NEW p \in Procs, Migrate(p) PROVE SchemaInv'
    BY <1>3, SchemaSteps DEF Migrate
  <1>4. ASSUME NEW p \in Procs, Login(p) PROVE SchemaInv'
    <2>1. /\ pc[p] = "ready" /\ pc' = [pc EXCEPT ![p] = "close"]
          /\ Insert(p, "sessions", p) /\ UNCHANGED <<writer, tx, table, need, orphans>>
      BY <1>4 DEF Login, Goto
    <2>2. {pc[p], "close"} \intersect (Rebuilding \union {"rebuild"}) = {}
          /\ pc[p] \notin Creating
          /\ "close" \in Steps /\ "sessions" \in Tables
      BY <2>1 DEF Steps, Rebuilding, Tables, Creating
    <2> QED  BY <2>1, <2>2, InsertStep
  <1>5. ASSUME NEW p \in Procs, Send(p) PROVE SchemaInv'
    <2>1. PICK s \in {"audit", "close"} : pc' = [pc EXCEPT ![p] = s]
      BY <1>5 DEF Send, SendAll, SendPart, Goto
    <2>2. pc[p] = "ready" /\ UNCHANGED dbVars
      BY <1>5 DEF Send
    <2> QED  BY <2>1, <2>2, PlainStep DEF Steps, Rebuilding, Creating
  <1>6. ASSUME NEW p \in Procs, Audit(p) PROVE SchemaInv'
    <2>1. /\ pc[p] = "audit" /\ pc' = [pc EXCEPT ![p] = "tmp_open"]
          /\ Insert(p, "audit_log", p) /\ UNCHANGED <<writer, tx, table, need, orphans>>
      BY <1>6 DEF Audit, Goto
    <2>2. {pc[p], "tmp_open"} \intersect (Rebuilding \union {"rebuild"}) = {}
          /\ pc[p] \notin Creating
          /\ "tmp_open" \in Steps /\ "audit_log" \in Tables
      BY <2>1 DEF Steps, Rebuilding, Tables, Creating
    <2> QED  BY <2>1, <2>2, InsertStep
  <1>7. ASSUME NEW p \in Procs, OpenTmp(p) \/ WriteTmp(p) \/ RenameTmp(p) PROVE SchemaInv'
    <2>1. PICK s \in {"tmp_write", "tmp_rename", "close"} : pc' = [pc EXCEPT ![p] = s]
      BY <1>7 DEF OpenTmp, WriteTmp, RenameTmp, Goto
    <2>2. pc[p] \in {"tmp_open", "tmp_write", "tmp_rename"} /\ UNCHANGED dbVars
      BY <1>7 DEF OpenTmp, WriteTmp, RenameTmp
    <2> QED  BY <2>1, <2>2, PlainStep DEF Steps, Rebuilding, Creating
  <1>8. ASSUME NEW p \in Procs, Close(p) PROVE SchemaInv'
    <2>1. PICK expired \in SUBSET Old : Delete(expired)
      BY <1>8 DEF Close
    <2>2. /\ pc[p] = "close" /\ pc' = [pc EXCEPT ![p] = "done"]
          /\ UNCHANGED <<writer, tx, table, need, orphans>>
      BY <1>8 DEF Close, Goto
    <2>3. {pc[p], "done"} \intersect (Rebuilding \union {"rebuild"}) = {}
          /\ pc[p] \notin Creating
          /\ "done" \in Steps
      BY <2>2 DEF Steps, Rebuilding, Creating
    <2> QED  BY <2>1, <2>2, <2>3, DeleteStep
  <1>9. ASSUME NEW p \in Procs, Kill(p) PROVE SchemaInv'
    <2>1. /\ pc' = [pc EXCEPT ![p] = "done"] /\ tx' = [tx EXCEPT ![p] = NoTx]
          /\ writer' = IF writer = p THEN Nobody ELSE writer
          /\ UNCHANGED <<db, ver, table, need, orphans, accepted>>
      BY <1>9 DEF Kill, Leave, Goto
    <2>2. "done" \in Steps /\ "done" \notin Rebuilding \union {"rebuild"}
      BY DEF Steps, Rebuilding
    <2>3. table' \in [Procs -> Tables] /\ \A q \in Procs \ {p} : table'[q] = table[q]
      BY <2>1 DEF SchemaInv, SchemaType
    <2> QED  BY <2>1, <2>2, <2>3, Ended
  <1>10. CASE ReceiverReset
    BY <1>1, <1>10 DEF ReceiverReset
  <1> QED
    BY <1>1, <1>2, <1>3, <1>4, <1>5, <1>6, <1>7, <1>8, <1>9, <1>10
    DEF ModeNext, requestVars

(* THEOREM SchemaInvariant: at every statement of every request, the write    *)
(* lock belongs to the one connection that rebuilds a table, whose database   *)
(* differs from the committed one by exactly the statements it has been       *)
(* through (auth_init, migrate_delete_fks).                                   *)
THEOREM SchemaInvariant == RequestSpec => []SchemaInv
  <1>1. ModeInit => SchemaInv
    BY FirstSchema
  <1>2. SchemaInv /\ [ModeNext]_requestVars => SchemaInv'
    BY SchemaNext
  <1> QED  BY <1>1, <1>2, PTL DEF RequestSpec

(* THEOREM MigrationsLoseNothing: any number of requests may migrate, insert, *)
(* delete and be killed in any order, and no table and no row is lost.        *)
THEOREM MigrationsLoseNothing == RequestSpec => []MigrationSafe
  <1>1. SchemaInv => MigrationSafe
    BY DEF SchemaInv
  <1> QED  BY <1>1, SchemaInvariant, PTL

-----------------------------------------------------------------------------
(* The receiver's mode *)

(* LEMMA SomeInodes: there are inodes, and 0 is none of them. *)
LEMMA SomeInodes == 1 \in Inodes /\ 0 \notin Inodes
  BY RequestsAssumption, FS_CardinalityType DEF Inodes

(* LEMMA OneMore: a set with one more element. *)
LEMMA OneMore ==
    ASSUME NEW S, IsFiniteSet(S), NEW x, NEW k \in Int, Cardinality(S) =< k
    PROVE  IsFiniteSet(S \union {x}) /\ Cardinality(S \union {x}) =< k + 1
  <1>1. /\ IsFiniteSet(S \union {x}) /\ Cardinality(S) \in Nat
        /\ Cardinality(S \union {x}) = IF x \in S THEN Cardinality(S) ELSE Cardinality(S) + 1
    BY FS_AddElement, FS_CardinalityType
  <1> QED  BY <1>1

(* LEMMA FreeInode: a request that is about to open the temporary file finds  *)
(* an inode nobody uses.                                                      *)
LEMMA FreeInode ==
    ASSUME ModeType, FilesSent, NEW p \in Procs, pc[p] = "tmp_open", tmp = 0
    PROVE  Reuse \in Unused
  <1> DEFINE others == Procs \ {p}
             open == {fd[q] : q \in others}
             f == [q \in others |-> fd[q]]
             n == Cardinality(Procs)
             used == (open \union {path}) \union {0}
  <1>1. fd[p] = 0
    BY DEF FilesSent
  <1>2. n \in Nat /\ IsFiniteSet(others) /\ Cardinality(others) = n - 1
    BY RequestsAssumption, FS_CardinalityType, FS_RemoveElement
  <1>3. f \in Surjection(others, open)
    BY DEF Surjection
  <1>4. IsFiniteSet(open) /\ Cardinality(open) =< n - 1
    BY <1>2, <1>3, FS_Surjection
  <1> HIDE DEF open, n
  <1>5. n - 1 \in Int /\ (n - 1) + 1 = n /\ n \in Int
    BY <1>2
  <1>6. IsFiniteSet(open \union {path}) /\ Cardinality(open \union {path}) =< n
    BY <1>4, <1>5, OneMore
  <1>7. IsFiniteSet(used) /\ Cardinality(used) =< n + 1
    BY <1>5, <1>6, OneMore
  <1>8. IsFiniteSet(Inodes) /\ Cardinality(Inodes) = n + 2
    BY <1>2, FS_Interval DEF Inodes, n
  <1>9. ~ (Inodes \subseteq used)
    <2> SUFFICES ASSUME Inodes \subseteq used PROVE FALSE
      OBVIOUS
    <2> HIDE DEF used
    <2>1. Cardinality(Inodes) =< Cardinality(used)
      BY <1>7, FS_Subset
    <2>2. Cardinality(used) \in Nat
      BY <1>7, FS_CardinalityType
    <2> QED  BY <1>2, <1>7, <1>8, <2>1, <2>2
  <1>10. {path, tmp} \union {fd[q] : q \in Procs} \subseteq used
    BY <1>1 DEF open
  <1>11. Unused # {}
    BY <1>9, <1>10 DEF Unused
  <1> QED  BY <1>11 DEF Reuse

(* LEMMA FirstMode: no request yet, and a file that is whole or missing. *)
LEMMA FirstMode == ModeInit => ModeInv
  <1> SUFFICES ASSUME ModeInit PROVE ModeInv
    OBVIOUS
  <1>1. /\ pc = [p \in Procs |-> "idle"]
        /\ req = [p \in Procs |-> [kind |-> "login"]]
        /\ ram \in Modes /\ flash = ram
        /\ path \in {0, 1} /\ tmp = 0
        /\ content = [i \in Inodes |-> IF i = path THEN ram ELSE NoMode]
        /\ fd = [p \in Procs |-> 0]
        /\ sent = {ram}
        /\ last = IF path = 0 THEN "unsaved" ELSE "saved"
    BY DEF ModeInit, SchemaInit
  <1>2. ModeType
    <2>1. \A p \in Procs : req[p].kind = "login"
      BY <1>1
    <2> QED  BY <1>1, <2>1, SomeInodes DEF ModeType
  <1>3. FilesSent
    BY <1>1 DEF FilesSent, Saving
  <1>4. path # 0 => content[path] = ram
    BY <1>1, SomeInodes
  <1>5. Alone
    BY <1>1, <1>4, ModesAssumption DEF Alone, Saving, Setting, Running
  <1>6. Filled
    BY <1>1, <1>4, ModesAssumption DEF Filled
  <1> QED  BY <1>2, <1>3, <1>5, <1>6 DEF ModeInv

(* LEMMA Passing: a step of a request that touches neither the receiver nor   *)
(* the files.                                                                 *)
LEMMA Passing ==
    ASSUME ModeInv, pc \in [Procs -> Steps], NEW p \in Procs, NEW s,
           pc' = [pc EXCEPT ![p] = s],
           pc[p] \notin {"idle", "done", "tmp_write"},
           s \notin Saving \/ (s \in {"audit", "tmp_open"} /\ pc[p] \in Saving),
           UNCHANGED modeVars
    PROVE  ModeInv'
  <1>0. ModeType /\ FilesSent /\ Alone /\ Filled
    BY DEF ModeInv
  <1>1. pc'[p] = s /\ \A q \in Procs \ {p} : pc'[q] = pc[q]
    OBVIOUS
  <1>2. UNCHANGED <<sit, req, ram, flash, path, tmp, content, fd, kills, sent, last>>
    BY DEF modeVars, fileVars
  <1>3. ModeType'
    BY <1>0, <1>2 DEF ModeType
  <1>4. FilesSent'
    BY <1>0, <1>1, <1>2 DEF FilesSent, Saving
  <1>5. Alone'
    <2>1. Setting' \subseteq Setting
      BY <1>1, <1>2 DEF Setting, Running
    <2> QED  BY <1>0, <1>1, <1>2, <2>1 DEF Alone, Saving
  <1>6. Filled'
    BY <1>0, <1>1, <1>2 DEF Filled
  <1> QED  BY <1>3, <1>4, <1>5, <1>6 DEF ModeInv

(* LEMMA ArriveMode: with requests one at a time, the one that arrives is the *)
(* only one that sets the mode.                                               *)
LEMMA ArriveMode ==
    ASSUME ModeInv, pc \in [Procs -> Steps], NEW p \in Procs, Arrive(p)
    PROVE  ModeInv'
  <1>0. ModeType /\ FilesSent /\ Alone /\ Filled
    BY DEF ModeInv
  <1>1. PICK kind, m :
          /\ kind = "setmode" /\ ~ sit.overlap => Setting = {}
          /\ m \in Modes
          /\ req' = [req EXCEPT ![p] = IF kind = "setmode" THEN [kind |-> kind, mode |-> m]
                                       ELSE [kind |-> kind]]
    BY DEF Arrive
  <1>2. /\ pc[p] = "idle" /\ pc'[p] = "create"
        /\ \A q \in Procs \ {p} : pc'[q] = pc[q]
        /\ UNCHANGED <<sit, ram, flash, path, tmp, content, fd, kills, sent, last>>
    BY DEF Arrive, Goto, fileVars
  <1>3. /\ req' = [q \in Procs |-> req'[q]]
        /\ \A q \in Procs \ {p} : req'[q] = req[q]
        /\ req'[p] = IF kind = "setmode" THEN [kind |-> kind, mode |-> m]
                     ELSE [kind |-> kind]
    BY <1>0, <1>1 DEF ModeType
  <1>4. ModeType'
    <2>1. \A q \in Procs : req'[q].kind = "setmode" => req'[q].mode \in Modes
      BY <1>0, <1>1, <1>3 DEF ModeType
    <2> QED  BY <1>0, <1>2, <1>3, <2>1 DEF ModeType
  <1>5. FilesSent'
    BY <1>0, <1>2, <1>3 DEF FilesSent, Saving
  <1>6. Alone'
    <2> SUFFICES ASSUME ~ sit.overlap
                 PROVE  /\ \A q, r \in Setting' : q = r
                        /\ \A q \in Procs : pc'[q] \in Saving => q # p
      BY <1>0, <1>2, <1>3 DEF Alone, Saving
    <2>1. \A q \in Setting' : q \in Setting \/ (q = p /\ kind = "setmode")
      BY <1>2, <1>3 DEF Setting, Running
    <2>2. \A q, r \in Setting' : q = r
      BY <1>0, <1>1, <2>1 DEF Alone
    <2> QED  BY <1>2, <2>2 DEF Saving
  <1>7. Filled'
    BY <1>0, <1>2 DEF Filled
  <1> QED  BY <1>4, <1>5, <1>6, <1>7 DEF ModeInv

(* LEMMA SendMode: the command, whole or in part. *)
LEMMA SendMode ==
    ASSUME ModeInv, pc \in [Procs -> Steps], NEW p \in Procs, Send(p)
    PROVE  ModeInv'
  <1>0. ModeType /\ FilesSent /\ Alone /\ Filled
    BY DEF ModeInv
  <1>1. /\ pc[p] = "ready" /\ req[p].kind = "setmode" /\ req[p].mode \in Modes
        /\ UNCHANGED <<sit, req, path, tmp, content, fd, kills>>
    BY <1>0 DEF Send, fileVars, ModeType
  <1>2. PICK s \in {"audit", "close"} : pc' = [pc EXCEPT ![p] = s]
    BY DEF Send, SendAll, SendPart, Goto
  <1>3. pc'[p] = s /\ \A q \in Procs \ {p} : pc'[q] = pc[q]
    BY <1>2
  <1>4. /\ ram' \in {ram, req[p].mode} /\ flash' \in {flash, req[p].mode}
        /\ sent' \in {sent, sent \union {req[p].mode}}
    BY DEF Send, SendAll, SendPart
  <1>5. s = "audit" => /\ ram' = req[p].mode /\ flash' = ram'
                       /\ req[p].mode \in sent' /\ last' = "unsaved"
    BY <1>1, <1>2, <1>3 DEF Send, SendAll, SendPart, Goto
  <1>6. ModeType'
    BY <1>0, <1>1, <1>4 DEF ModeType
  <1>7. FilesSent'
    BY <1>0, <1>1, <1>3, <1>4, <1>5 DEF FilesSent, Saving
  <1>8. Alone'
    <2> SUFFICES ASSUME ~ sit.overlap PROVE Alone'
      BY <1>1 DEF Alone
    <2>1. \A q \in Procs : pc[q] \in Saving => FALSE
      BY <1>0, <1>1 DEF FilesSent, Alone, Setting, Running, Saving
    <2>2. \A q \in Procs : pc'[q] \in Saving => q = p /\ s = "audit"
      BY <1>3, <2>1 DEF Saving
    <2>3. Setting' \subseteq Setting
      BY <1>1, <1>3 DEF Setting, Running
    <2>4. last' = "saved" => last = "saved" /\ ram' = ram /\ flash' = flash
      BY DEF Send, SendAll, SendPart
    <2> QED  BY <1>0, <1>1, <1>3, <1>5, <2>2, <2>3, <2>4 DEF Alone
  <1>9. Filled'
    BY <1>0, <1>1, <1>3 DEF Filled
  <1> QED  BY <1>6, <1>7, <1>8, <1>9 DEF ModeInv

(* LEMMA KillMode: a process ends with the file open, or not. *)
LEMMA KillMode ==
    ASSUME ModeInv, pc \in [Procs -> Steps], NEW p \in Procs, Kill(p)
    PROVE  ModeInv'
  <1>0. ModeType /\ FilesSent /\ Alone /\ Filled
    BY DEF ModeInv
  <1>1. /\ pc'[p] = "done" /\ \A q \in Procs \ {p} : pc'[q] = pc[q]
        /\ UNCHANGED <<sit, req, ram, flash, path, tmp, content, sent, last>>
        /\ sit.faults # {}
    BY DEF Kill, Goto
  <1>2. /\ fd' \in [Procs -> Inodes \union {0}]
        /\ fd'[p] = 0 /\ \A q \in Procs \ {p} : fd'[q] = fd[q]
    BY <1>0 DEF Kill, ModeType
  <1>3. ModeType'
    BY <1>0, <1>1, <1>2 DEF ModeType
  <1>4. FilesSent'
    BY <1>0, <1>1, <1>2 DEF FilesSent, Saving
  <1>5. Alone'
    <2>1. Setting' \subseteq Setting
      BY <1>1 DEF Setting, Running
    <2> QED  BY <1>0, <1>1, <1>2, <2>1 DEF Alone, Saving
  <1>6. Filled'
    BY <1>1 DEF Filled
  <1> QED  BY <1>3, <1>4, <1>5, <1>6 DEF ModeInv

(* LEMMA ResetMode: the receiver starts anew, which nobody is told. *)
LEMMA ResetMode ==
    ASSUME ModeInv, ReceiverReset
    PROVE  ModeInv'
  <1>0. ModeType /\ FilesSent /\ Alone /\ Filled
    BY DEF ModeInv
  <1>1. /\ ram # flash /\ ram' = flash /\ last' = "unsaved"
        /\ UNCHANGED <<pc, sit, req, flash, path, tmp, content, fd, sent>>
    BY DEF ReceiverReset, fileVars
  <1>2. ModeType' /\ FilesSent'
    BY <1>0, <1>1 DEF ModeType, FilesSent
  <1>3. Alone'
    BY <1>0, <1>1 DEF Alone, Setting, Running
  <1>4. Filled'
    BY <1>0, <1>1 DEF Filled
  <1> QED  BY <1>2, <1>3, <1>4 DEF ModeInv

(* LEMMA OpenMode: fopen of the temporary file. *)
LEMMA OpenMode ==
    ASSUME ModeInv, pc \in [Procs -> Steps], NEW p \in Procs, OpenTmp(p)
    PROVE  ModeInv'
  <1>0. ModeType /\ FilesSent /\ Alone /\ Filled
    BY DEF ModeInv
  <1>1. /\ pc[p] = "tmp_open"
        /\ UNCHANGED <<sit, req, ram, flash, path, kills, sent, last>>
    BY DEF OpenTmp
  <1>2. CASE pc' = [pc EXCEPT ![p] = "close"] /\ UNCHANGED <<tmp, content, fd>>
    BY <1>1, <1>2, Passing DEF Saving, modeVars, fileVars
  <1> DEFINE i == IF tmp = 0 THEN Reuse ELSE tmp
  <1>3. CASE /\ tmp' = i /\ content' = [content EXCEPT ![i] = NoMode]
             /\ fd' = [fd EXCEPT ![p] = i] /\ pc' = [pc EXCEPT ![p] = "tmp_write"]
    <2>1. i \in Inodes /\ i # path /\ i # 0
      <3>1. CASE tmp = 0
        BY <1>0, <1>1, <3>1, FreeInode, SomeInodes DEF Unused
      <3>2. CASE tmp # 0
        BY <1>0, <3>2 DEF ModeType, FilesSent
      <3> QED  BY <3>1, <3>2
    <2> HIDE DEF i
    <2>2. /\ pc'[p] = "tmp_write" /\ \A q \in Procs \ {p} : pc'[q] = pc[q]
          /\ fd'[p] = i /\ \A q \in Procs \ {p} : fd'[q] = fd[q]
          /\ fd' \in [Procs -> Inodes \union {0}]
          /\ content'[i] = NoMode /\ \A j \in Inodes \ {i} : content'[j] = content[j]
          /\ content' \in [Inodes -> Modes \union {NoMode}]
      BY <1>0, <1>3, <2>1 DEF ModeType
    <2>3. (path \in Inodes \union {0} /\ content'[path] = content[path]) \/ path = 0
      BY <1>0, <2>1, <2>2 DEF ModeType
    <2>4. ModeType'
      BY <1>0, <1>1, <1>3, <2>1, <2>2 DEF ModeType
    <2>5. FilesSent'
      BY <1>0, <1>1, <1>3, <2>1, <2>2 DEF FilesSent, Saving
    <2>6. Alone'
      <3> SUFFICES ASSUME ~ sit.overlap PROVE Alone'
        BY <1>1 DEF Alone
      <3>1. \A q \in Procs : pc[q] \in Saving => q = p
        BY <1>0, <1>1 DEF FilesSent, Alone, Setting, Running, Saving
      <3>2. Setting' \subseteq Setting
        BY <1>1, <2>2 DEF Setting, Running
      <3>3. ram = req[p].mode /\ flash = ram
        BY <1>0, <1>1 DEF Alone, Saving
      <3>4. \A q \in Procs : pc'[q] \in Saving => q = p
        BY <2>2, <3>1
      <3> QED  BY <1>0, <1>1, <1>3, <2>2, <2>3, <3>2, <3>3, <3>4
               DEF Alone, Saving
    <2>7. Filled'
      <3> SUFFICES ASSUME sit.faults = {}, NEW j \in {path, i} \ {0}, content'[j] = NoMode
                   PROVE  \E q \in Procs : pc'[q] = "tmp_write" /\ fd'[q] = j
        BY <1>1, <1>3 DEF Filled
      <3>1. CASE j = i
        BY <2>2, <3>1
      <3>2. CASE j # i
        <4>1. PICK q \in Procs : pc[q] = "tmp_write" /\ fd[q] = j
          BY <1>0, <2>3, <3>2 DEF Filled
        <4> QED  BY <1>1, <2>2, <4>1
      <3> QED  BY <3>1, <3>2
    <2> QED  BY <2>4, <2>5, <2>6, <2>7 DEF ModeInv
  <1> QED  BY <1>2, <1>3 DEF OpenTmp, Goto

(* LEMMA WriteMode: fclose writes, unless the disk is full. *)
LEMMA WriteMode ==
    ASSUME ModeInv, pc \in [Procs -> Steps], NEW p \in Procs, WriteTmp(p)
    PROVE  ModeInv'
  <1>0. ModeType /\ FilesSent /\ Alone /\ Filled
    BY DEF ModeInv
  <1>1. /\ pc[p] = "tmp_write"
        /\ UNCHANGED <<sit, req, ram, flash, path, tmp, kills, sent, last>>
        /\ fd' = [fd EXCEPT ![p] = 0]
    BY DEF WriteTmp
  <1>2. /\ fd[p] # 0 /\ fd[p] \in Inodes
        /\ req[p].kind = "setmode" /\ req[p].mode \in sent /\ req[p].mode \in Modes
    BY <1>0, <1>1 DEF FilesSent, ModeType, Saving
  <1>3. /\ fd' \in [Procs -> Inodes \union {0}]
        /\ fd'[p] = 0 /\ \A q \in Procs \ {p} : fd'[q] = fd[q]
    BY <1>0, <1>1 DEF ModeType
  <1>4. PICK s \in {"tmp_rename", "close"} : pc' = [pc EXCEPT ![p] = s]
    BY DEF WriteTmp, Goto
  <1>5. pc'[p] = s /\ \A q \in Procs \ {p} : pc'[q] = pc[q]
    BY <1>4
  <1>6. Setting' \subseteq Setting
    BY <1>1, <1>5 DEF Setting, Running
  <1>7. CASE sit.faults # {} /\ s = "close" /\ UNCHANGED content
    <2>1. ModeType'
      BY <1>0, <1>1, <1>3, <1>7 DEF ModeType
    <2>2. FilesSent'
      BY <1>0, <1>1, <1>3, <1>5, <1>7 DEF FilesSent, Saving
    <2>3. Alone'
      BY <1>0, <1>1, <1>3, <1>5, <1>6, <1>7 DEF Alone, Saving
    <2>4. Filled'
      BY <1>1, <1>7 DEF Filled
    <2> QED  BY <2>1, <2>2, <2>3, <2>4 DEF ModeInv
  <1>8. CASE content' = [content EXCEPT ![fd[p]] = req[p].mode] /\ s = "tmp_rename"
    <2>0. /\ content'[fd[p]] = req[p].mode
          /\ \A j \in Inodes \ {fd[p]} : content'[j] = content[j]
          /\ content' \in [Inodes -> Modes \union {NoMode}]
      BY <1>0, <1>2, <1>8 DEF ModeType
    <2>1. ModeType'
      BY <1>0, <1>1, <1>3, <2>0 DEF ModeType
    <2>2. FilesSent'
      BY <1>0, <1>1, <1>2, <1>3, <1>5, <1>8, <2>0 DEF FilesSent, Saving
    <2>3. Alone'
      <3> SUFFICES ASSUME ~ sit.overlap PROVE Alone'
        BY <1>1 DEF Alone
      <3>1. \A q \in Procs : pc[q] \in Saving => q = p
        BY <1>0, <1>1 DEF FilesSent, Alone, Setting, Running, Saving
      <3>2. ram = req[p].mode /\ flash = ram /\ fd[p] = tmp /\ tmp # 0 /\ tmp # path
        BY <1>0, <1>1, <1>2 DEF Alone, Saving, FilesSent
      <3>3. \A q \in Procs : pc'[q] \in Saving => q = p
        BY <1>5, <3>1
      <3>4. path = 0 \/ content'[path] = content[path]
        BY <1>0, <2>0, <3>2 DEF ModeType
      <3> QED  BY <1>0, <1>1, <1>5, <1>6, <1>8, <2>0, <3>2, <3>3, <3>4
               DEF Alone, Saving
    <2>4. Filled'
      <3> SUFFICES ASSUME sit.faults = {}, NEW j \in {path, tmp} \ {0}, content'[j] = NoMode
                   PROVE  \E q \in Procs : pc'[q] = "tmp_write" /\ fd'[q] = j
        BY <1>1 DEF Filled
      <3>1. j # fd[p] /\ content[j] = NoMode
        BY <1>0, <1>2, <2>0, ModesAssumption DEF ModeType
      <3>2. PICK q \in Procs : pc[q] = "tmp_write" /\ fd[q] = j
        BY <1>0, <3>1 DEF Filled
      <3> QED  BY <1>3, <1>5, <3>1, <3>2
    <2> QED  BY <2>1, <2>2, <2>3, <2>4 DEF ModeInv
  <1> QED
    <2>1. s = "close" <=> pc' = [pc EXCEPT ![p] = "close"]
      BY <1>4
    <2> QED  BY <1>1, <1>4, <1>5, <1>7, <1>8 DEF WriteTmp, Goto

(* LEMMA RenameMode: the temporary file becomes the one that is shown. *)
LEMMA RenameMode ==
    ASSUME ModeInv, pc \in [Procs -> Steps], NEW p \in Procs, RenameTmp(p)
    PROVE  ModeInv'
  <1>0. ModeType /\ FilesSent /\ Alone /\ Filled
    BY DEF ModeInv
  <1>1. /\ pc[p] = "tmp_rename" /\ pc' = [pc EXCEPT ![p] = "close"]
        /\ UNCHANGED <<sit, req, ram, flash, content, fd, kills, sent>>
    BY DEF RenameTmp, Goto
  <1>2. pc'[p] = "close" /\ \A q \in Procs \ {p} : pc'[q] = pc[q]
    BY <1>1
  <1>3. CASE tmp = 0
    BY <1>1, <1>3, Passing DEF RenameTmp, Saving, modeVars, fileVars
  <1>4. CASE tmp # 0
    <2>1. path' = tmp /\ tmp' = 0 /\ last' = "saved"
      BY <1>4 DEF RenameTmp
    <2>2. ModeType'
      BY <1>0, <1>1, <2>1 DEF ModeType
    <2>3. FilesSent'
      BY <1>0, <1>1, <1>2, <2>1 DEF FilesSent, Saving
    <2>4. Alone'
      <3> SUFFICES ASSUME ~ sit.overlap PROVE Alone'
        BY <1>1 DEF Alone
      <3>1. \A q \in Procs : pc[q] \in Saving => q = p
        BY <1>0, <1>1 DEF FilesSent, Alone, Setting, Running, Saving
      <3>2. Setting' \subseteq Setting
        BY <1>1, <1>2 DEF Setting, Running
      <3>3. ram = req[p].mode /\ flash = ram /\ content[tmp] = ram /\ ram # NoMode
        BY <1>0, <1>1, ModesAssumption DEF Alone, Saving, ModeType
      <3>4. \A q \in Procs : pc'[q] \notin Saving
        BY <1>2, <3>1 DEF Saving
      <3> QED  BY <1>0, <1>1, <1>4, <2>1, <3>2, <3>3, <3>4 DEF Alone, Saving
    <2>5. Filled'
      BY <1>0, <1>1, <1>2, <2>1 DEF Filled
    <2> QED  BY <2>2, <2>3, <2>4, <2>5 DEF ModeInv
  <1> QED  BY <1>3, <1>4

(* LEMMA SchemaMoves: where a step of auth_init leads. *)
LEMMA SchemaMoves ==
    ASSUME NEW p \in Procs, SchemaStep(p)
    PROVE  /\ pc[p] \notin {"idle", "done", "tmp_write"}
           /\ \E s \in Steps \ Saving : pc' = [pc EXCEPT ![p] = s]
  <1>1. CASE CreateUsers(p) \/ CreateSessions(p) \/ CreateLog(p)
    BY <1>1 DEF CreateUsers, CreateSessions, CreateLog, CreateTable, Create, Goto, Steps, Saving
  <1>4. CASE Probe(p) \/ ProbeColumn(p) \/ AddColumn(p)
    BY <1>4 DEF Probe, ProbeColumn, AddColumn, Goto, Steps, Saving
  <1>2. CASE Begin(p) \/ Rebuild(p) \/ Copy(p) \/ Drop(p) \/ Rename(p)
    BY <1>2 DEF Begin, Rebuild, Copy, Drop, Rename, Goto, Steps, Saving, Rebuilding
  <1>3. CASE Skip(p) \/ Commit(p) \/ Rollback(p)
    <2>1. NextTable(p) /\ pc[p] \in {"begin", "commit", "rebuild", "copy"}
      BY <1>3 DEF Skip, Commit, Rollback, Fails
    <2>2. PICK s \in {"begin", "column"} : pc' = [pc EXCEPT ![p] = s]
      BY <2>1 DEF NextTable, Goto
    <2>3. s \in Steps \ Saving
      BY DEF Steps, Saving
    <2> QED  BY <2>1, <2>2, <2>3
  <1> QED  BY <1>1, <1>2, <1>3, <1>4 DEF SchemaStep

(* LEMMA ModeSteps: every step of every request keeps the invariant. *)
LEMMA ModeSteps ==
    ASSUME ModeInv, pc \in [Procs -> Steps], [ModeNext]_requestVars
    PROVE  ModeInv'
  <1>1. CASE UNCHANGED requestVars
    <2>1. UNCHANGED <<pc, sit, req, ram, flash, path, tmp, content, fd, sent, last>>
      BY <1>1 DEF requestVars, modeVars, fileVars
    <2> QED  BY <2>1 DEF ModeInv, ModeType, FilesSent, Alone, Filled, Setting, Running
  <1>2. ASSUME NEW p \in Procs, Migrate(p) PROVE ModeInv'
    <2>1. UNCHANGED modeVars
      BY <1>2 DEF Migrate
    <2> QED  BY <1>2, <2>1, SchemaMoves, Passing DEF Migrate
  <1>3. ASSUME NEW p \in Procs, Login(p) \/ Audit(p) \/ Close(p) PROVE ModeInv'
    <2>1. /\ UNCHANGED modeVars
          /\ \/ pc[p] = "ready" /\ pc' = [pc EXCEPT ![p] = "close"]
             \/ pc[p] = "audit" /\ pc' = [pc EXCEPT ![p] = "tmp_open"]
             \/ pc[p] = "close" /\ pc' = [pc EXCEPT ![p] = "done"]
      BY <1>3 DEF Login, Audit, Close, Goto
    <2> QED  BY <2>1, Passing DEF Saving
  <1> QED
    BY <1>1, <1>2, <1>3, ArriveMode, SendMode, OpenMode, WriteMode, RenameMode, KillMode,
       ResetMode DEF ModeNext

(* LEMMA ShownMode: what the invariant means for the page. *)
LEMMA ShownMode ==
    ASSUME ModeInv, pc \in [Procs -> Steps]
    PROVE  ModeShown
  <1>0. ModeType /\ FilesSent /\ Alone /\ Filled
    BY DEF ModeInv
  <1>1. timesync_mode_last \in sent \union {NoMode}
    BY <1>0 DEF ModeType, FilesSent, timesync_mode_last
  <1>2. ASSUME ~ sit.overlap
        PROVE  /\ path # 0 => timesync_mode_last # NoMode
               /\ Setting = {} /\ last = "saved" => timesync_mode_last = ram /\ ram = flash
    BY <1>0, <1>2 DEF Alone, timesync_mode_last
  <1>3. ASSUME Setting = {}, sit.faults = {}, path # 0
        PROVE  timesync_mode_last # NoMode
    <2> SUFFICES ASSUME content[path] = NoMode PROVE FALSE
      BY <1>3 DEF timesync_mode_last
    <2>1. PICK p \in Procs : pc[p] = "tmp_write"
      BY <1>0, <1>3 DEF Filled
    <2> QED  BY <1>0, <1>3, <2>1 DEF FilesSent, Setting, Running, Saving
  <1> QED  BY <1>1, <1>2, <1>3 DEF ModeShown

(* THEOREM ShownModeWasSent: the page shows a mode the receiver was really    *)
(* sent, whole and the receiver's own when requests do not overlap, for any   *)
(* number of requests and whatever is killed or fails (timesync_set_mode,     *)
(* timesync_mode_save, timesync_mode_last).                                   *)
THEOREM ShownModeWasSent == RequestSpec => []ModeShown
  <1>1. ModeInit => ModeInv
    BY FirstMode
  <1>2. SchemaInv => pc \in [Procs -> Steps]
    BY DEF SchemaInv, SchemaType
  <1>3. SchemaInv /\ ModeInv /\ [ModeNext]_requestVars => ModeInv'
    BY <1>2, ModeSteps
  <1>4. SchemaInv /\ ModeInv => ModeShown
    BY <1>2, ShownMode
  <1> QED  BY <1>1, <1>3, <1>4, SchemaInvariant, PTL DEF RequestSpec
=============================================================================
