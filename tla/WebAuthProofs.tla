--------------------------- MODULE WebAuthProofs ---------------------------
(***************************************************************************)
(* Proofs about WebAuth, for every set of request processes, session ids,   *)
(* names and passwords and for every bound.                                 *)
(***************************************************************************)
EXTENDS WebAuth, TLAPS

-----------------------------------------------------------------------------
(* Types of the records the actions build                                   *)

(* The fields of a request have the types of its record set.                *)
LEMMA RequestFields ==
  ASSUME NEW r \in Request
  PROVE  /\ r.pc \in Steps /\ r.uid \in 0..MaxUid /\ r.tgt \in 0..MaxUid
         /\ r.sid \in Sids \cup {NoSid} /\ r.pw \in Passwords \cup {NoPw}
         /\ r.en \in BOOLEAN /\ r.old \in BOOLEAN /\ r.logged \in BOOLEAN
         /\ r.name \in Names \cup {NoName}
         /\ r.role \in {"none", "root", "admin"}
  BY DEF Request

(* The null records are of their types.                                     *)
LEMMA NullTypes ==
  Idle \in Request /\ NoUser \in UserRow /\ NoSession \in SessionRow
  BY BoundAssumption DEF Idle, Request, Steps, NoUser, UserRow, NoSession,
     SessionRow

(* Moving a request to another statement keeps its type.                    *)
LEMMA RequestPc ==
  ASSUME NEW r \in Request, NEW pc \in Steps
  PROVE  [r EXCEPT !.pc = pc] \in Request
  BY DEF Request

(* User ids are among the values an id field may have.                      *)
LEMMA UidRange == Uid \subseteq 0..MaxUid
  BY BoundAssumption DEF Uid

(* The same for the other groups of fields the actions set.                 *)
LEMMA RequestOp ==
  ASSUME NEW r \in Request, NEW pc \in Steps, NEW t \in 0..MaxUid,
         NEW op \in {"create", "delete", "toggle", "passwd", "change"},
         NEW en \in BOOLEAN
  PROVE  /\ [r EXCEPT !.pc = pc, !.op = op, !.tgt = t] \in Request
         /\ [r EXCEPT !.pc = pc, !.op = op, !.tgt = t, !.en = en] \in Request
  BY ZenonT(60) DEF Request

(* The fields users_change_password sets when it starts                     *)
LEMMA RequestChange ==
  ASSUME NEW r \in Request, NEW n \in Names \cup {NoName}
  PROVE  [r EXCEPT !.pc = "chLogin", !.op = "change", !.tgt = r.uid,
                   !.name = n] \in Request
  BY RequestFields, ZenonT(60) DEF Request, Steps

(* The fields the audit step sets                                           *)
LEMMA RequestLogged ==
  ASSUME NEW r \in Request, NEW pc \in Steps, NEW b \in BOOLEAN
  PROVE  [r EXCEPT !.logged = b, !.pc = pc] \in Request
  BY DEF Request

(* The fields db_init and users_change_password set                         *)
LEMMA RequestPw ==
  ASSUME NEW r \in Request, NEW pw \in Passwords, NEW pc \in Steps
  PROVE  /\ [r EXCEPT !.pw = pw, !.pc = pc] \in Request
         /\ [r EXCEPT !.pc = pc, !.pw = pw] \in Request
  BY ZenonT(60) DEF Request

(* The fields the gate and a login set                                      *)
LEMMA RequestSession ==
  ASSUME NEW pc \in Steps, NEW s \in Sids, NEW u \in 0..MaxUid,
         NEW n \in Names \cup {NoName}, NEW role \in {"none", "root", "admin"}
  PROVE  /\ [Idle EXCEPT !.pc = pc, !.sid = s, !.uid = u, !.name = n,
                         !.role = role] \in Request
         /\ [Idle EXCEPT !.pc = pc, !.name = n, !.uid = u, !.sid = s] \in Request
  BY NullTypes, ZenonT(60) DEF Request

(* What Become does to the requests, and that it keeps their type.          *)
LEMMA BecomeFacts ==
  ASSUME NEW p \in Procs, NEW r \in Request, cgi \in [Procs -> Request],
         Become(p, r)
  PROVE  /\ cgi' \in [Procs -> Request]
         /\ cgi'[p] = r
         /\ \A q \in Procs \ {p} : cgi'[q] = cgi[q]
  BY DEF Become

(* What Goto does to the requests: only pc of p changes.                    *)
LEMMA GotoFacts ==
  ASSUME NEW p \in Procs, NEW pc \in Steps, cgi \in [Procs -> Request],
         Goto(p, pc)
  PROVE  /\ cgi' \in [Procs -> Request]
         /\ cgi'[p] = [cgi[p] EXCEPT !.pc = pc]
         /\ \A q \in Procs \ {p} : cgi'[q] = cgi[q]
  BY RequestPc, BecomeFacts DEF Goto

(* DeleteSessions keeps the type of the table.                              *)
LEMMA DeleteSessionsType ==
  ASSUME NEW S, sessions \in [Sids -> SessionRow], DeleteSessions(S)
  PROVE  sessions' \in [Sids -> SessionRow]
  BY NullTypes DEF DeleteSessions

(* A password update keeps the types of both tables and of the requests.    *)
LEMMA SetPasswordType ==
  ASSUME TypeOK, NEW p \in Procs, NEW t \in Uid,
         NEW pw \in Passwords \cup {NoPw}, NEW keep,
         NEW next \in Request, SetPassword(p, t, pw, keep, next)
  PROVE  /\ users' \in [Uid -> UserRow]
         /\ sessions' \in [Sids -> SessionRow]
         /\ cgi' \in [Procs -> Request]
<1>1. users' \in [Uid -> UserRow]
  <2>1. now \in Nat
    BY BoundAssumption DEF TypeOK
  <2>2. [users[t] EXCEPT !.pw = pw, !.changed = now] \in UserRow
    BY <2>1 DEF TypeOK, UserRow
  <2>3. users' = [users EXCEPT ![t] = [users[t] EXCEPT !.pw = pw, !.changed = now]]
    BY DEF SetPassword, TypeOK
  <2> QED
    BY <2>2, <2>3 DEF TypeOK
<1>2. sessions' \in [Sids -> SessionRow]
  <2>1. ASSUME NEW s \in Sids
        PROVE  [sessions[s] EXCEPT !.mark = "present"] \in SessionRow
    BY DEF TypeOK, SessionRow
  <2> QED
    BY <2>1 DEF SetPassword, TypeOK
<1>3. cgi' \in [Procs -> Request]
  <2>1. ASSUME NEW q \in Procs
        PROVE  [cgi[q] EXCEPT !.old = TRUE] \in Request
    BY DEF TypeOK, Request
  <2> QED
    BY <2>1 DEF SetPassword, TypeOK
<1> QED
  BY <1>1, <1>2, <1>3

(* Inserting a row under the next id keeps the types.                       *)
LEMMA InsertUserType ==
  ASSUME TypeOK, seq < MaxUid, NEW row \in UserRow, InsertUser(row)
  PROVE  users' \in [Uid -> UserRow] /\ seq' \in 0..MaxUid /\ seq + 1 \in Uid
  BY BoundAssumption DEF InsertUser, TypeOK, Uid
-----------------------------------------------------------------------------
(* Type correctness                                                         *)

LEMMA TypeInit == Init => TypeOK
  BY NullTypes, BoundAssumption DEF Init, TypeOK, Uid

(* One step per action; each action is one SQL statement of a request.      *)
LEMMA TypeStep == TypeOK /\ [Next]_vars => TypeOK'
<1> SUFFICES ASSUME TypeOK, [Next]_vars PROVE TypeOK'
  OBVIOUS
<1>0. /\ cgi \in [Procs -> Request] /\ users \in [Uid -> UserRow]
      /\ sessions \in [Sids -> SessionRow] /\ now \in Nat
      /\ Steps = Steps \cup {"idle", "policy", "authed", "escape", "createAudit",
           "delAudit", "delete", "togUpdate", "togAudit", "pwKick", "pwAudit",
           "chLogin", "chHash", "chUpdate", "chKick", "chAudit", "loginInsert",
           "dbUpdate", "dbInsert", "reply", "close"}
  BY BoundAssumption DEF TypeOK, Steps
<1>1. ASSUME NEW p \in Procs, DbInitCheck(p) PROVE TypeOK'
  <2>1. PICK pw \in Passwords :
          Become(p, [cgi[p] EXCEPT !.pw = pw,
                       !.pc = IF \E u \in Present : users[u].role = "root"
                              THEN "dbUpdate" ELSE "dbInsert"])
    BY <1>1 DEF DbInitCheck
  <2>2. [cgi[p] EXCEPT !.pw = pw,
                       !.pc = IF \E u \in Present : users[u].role = "root"
                              THEN "dbUpdate" ELSE "dbInsert"] \in Request
    BY <1>0, RequestPw
  <2> QED
    BY <1>1, <1>0, <2>1, <2>2, BecomeFacts DEF DbInitCheck, TypeOK
<1>2. ASSUME NEW p \in Procs, DbInitUpdate(p) PROVE TypeOK'
  <2>1. cgi[p].pw \in Passwords \cup {NoPw}
    BY <1>0, RequestFields
  <2>2. ASSUME NEW u \in Uid
        PROVE  [users[u] EXCEPT !.pw = cgi[p].pw, !.changed = now] \in UserRow
    BY <1>0, <2>1 DEF UserRow
  <2>3. users' \in [Uid -> UserRow]
    BY <1>2, <1>0, <2>2 DEF DbInitUpdate
  <2> QED
    BY <1>2, <1>0, <2>3, GotoFacts DEF DbInitUpdate, TypeOK
<1>3. ASSUME NEW p \in Procs, DbInitInsert(p) PROVE TypeOK'
  <2>1. [name |-> RootName, role |-> "root", pw |-> cgi[p].pw, changed |-> 0,
         enabled |-> TRUE, by |-> 0] \in UserRow
    BY <1>0, RequestFields, NullAssumption, BoundAssumption DEF UserRow
  <2> QED
    BY <1>3, <1>0, <2>1, GotoFacts, InsertUserType DEF DbInitInsert, TypeOK
<1>4. ASSUME NEW p \in Procs, LoginVerify(p) PROVE TypeOK'
  <2>1. ASSUME NEW n \in Names, NEW pw \in Passwords, NEW s \in Sids,
               NEW u \in auth_user_login(n, pw)
        PROVE  [Idle EXCEPT !.pc = "loginInsert", !.name = n, !.uid = u,
                            !.sid = s] \in Request
    BY <1>0, RequestSession, UidRange DEF auth_user_login, Present
  <2> QED
    BY <1>4, <1>0, <2>1, GotoFacts, BecomeFacts DEF LoginVerify, TypeOK
<1>5. ASSUME NEW p \in Procs, auth_session_create(p) PROVE TypeOK'
  <2>1. [user |-> cgi[p].uid, expires |-> now + SessionExpire,
         mark |-> IF cgi[p].old THEN "late" ELSE "current"] \in SessionRow
    BY <1>0, RequestFields, BoundAssumption DEF SessionRow
  <2> QED
    BY <1>5, <1>0, <2>1, GotoFacts DEF auth_session_create, TypeOK
<1>6. ASSUME NEW p \in Procs, Logout(p) PROVE TypeOK'
  BY <1>6, <1>0, GotoFacts, DeleteSessionsType DEF Logout, TypeOK
<1>7. ASSUME NEW p \in Procs, GateSession(p) PROVE TypeOK'
  <2>1. ASSUME NEW s \in Sids, NEW skipPolicy \in BOOLEAN,
               auth_session_verify(s)
        PROVE  [Idle EXCEPT !.pc = IF skipPolicy THEN "escape" ELSE "policy",
                  !.sid = s, !.uid = sessions[s].user,
                  !.name = users[sessions[s].user].name,
                  !.role = users[sessions[s].user].role] \in Request
    <3>1. sessions[s].user \in Uid
      BY <2>1 DEF auth_session_verify, Present
    <3>2. users[sessions[s].user] \in UserRow
      BY <3>1, <1>0
    <3>3. users[sessions[s].user].name \in Names \cup {NoName}
      BY <3>2 DEF UserRow
    <3>4. users[sessions[s].user].role \in {"none", "root", "admin"}
      BY <3>2 DEF UserRow
    <3> QED
      <4>1. ASSUME NEW pc \in Steps
            PROVE  [Idle EXCEPT !.pc = pc, !.sid = s, !.uid = sessions[s].user,
                      !.name = users[sessions[s].user].name,
                      !.role = users[sessions[s].user].role] \in Request
        BY <3>1, <3>3, <3>4, UidRange, RequestSession, ZenonT(60)
      <4>2. "escape" \in Steps /\ "policy" \in Steps
        BY <1>0
      <4> QED
        BY <4>1, <4>2
  <2> QED
    BY <1>7, <1>0, <2>1, GotoFacts, BecomeFacts DEF GateSession, TypeOK
<1>8. ASSUME NEW p \in Procs, GatePolicy(p) PROVE TypeOK'
  BY <1>8, <1>0, GotoFacts DEF GatePolicy, TypeOK
<1>9. ASSUME NEW p \in Procs, ServeOrRefuse(p) PROVE TypeOK'
  BY <1>9, <1>0, GotoFacts DEF ServeOrRefuse, TypeOK
<1>10. ASSUME NEW p \in Procs, CreateInsert(p) PROVE TypeOK'
  <2>1. ASSUME NEW n \in Names, NEW pw \in Passwords
        PROVE  [name |-> n, role |-> "admin", pw |-> pw, changed |-> now,
                enabled |-> TRUE, by |-> cgi[p].uid] \in UserRow
    BY <1>0, RequestFields DEF UserRow
  <2>2. ASSUME seq < MaxUid
        PROVE  [cgi[p] EXCEPT !.pc = "createAudit", !.op = "create",
                              !.tgt = seq + 1] \in Request
    <3>1. seq + 1 \in 0..MaxUid
      BY <2>2, BoundAssumption DEF TypeOK
    <3> QED
      BY <1>0, <3>1, RequestOp
  <2>3. PICK n \in Names, pw \in Passwords :
           IF NameTaken(n)
           THEN Goto(p, "close") /\ UNCHANGED <<users, seq>>
           ELSE /\ seq < MaxUid
                /\ InsertUser([name |-> n, role |-> "admin", pw |-> pw,
                               changed |-> now, enabled |-> TRUE,
                               by |-> cgi[p].uid])
                /\ Become(p, [cgi[p] EXCEPT !.pc = "createAudit",
                                            !.op = "create", !.tgt = seq + 1])
    BY <1>10 DEF CreateInsert
  <2>4. CASE NameTaken(n)
    BY <1>10, <1>0, <2>3, <2>4, GotoFacts DEF CreateInsert, TypeOK
  <2>5. CASE ~NameTaken(n)
    BY <1>10, <1>0, <2>1, <2>2, <2>3, <2>5, BecomeFacts, InsertUserType
       DEF CreateInsert, TypeOK
  <2> QED
    BY <2>4, <2>5
<1>11. ASSUME NEW p \in Procs, DeleteSelect(p) PROVE TypeOK'
  <2>1. ASSUME NEW t \in Uid
        PROVE  [cgi[p] EXCEPT !.pc = DeleteOrder("select"), !.op = "delete",
                              !.tgt = t] \in Request
    <3>1. DeleteOrder("select") \in Steps
      BY <1>0 DEF DeleteOrder
    <3> QED
      BY <1>0, <3>1, RequestOp, UidRange
  <2> QED
    BY <1>11, <1>0, <2>1, GotoFacts, BecomeFacts DEF DeleteSelect, TypeOK
<1>12. ASSUME NEW p \in Procs, DeleteUser(p) PROVE TypeOK'
  <2>1. DeleteOrder("delete") = "reply"
    BY DEF DeleteOrder
  <2>2. cgi[p].tgt \in Present => [users EXCEPT ![cgi[p].tgt] = NoUser] \in [Uid -> UserRow]
    BY <1>0, NullTypes
  <2> QED
    BY <1>12, <1>0, <2>1, <2>2, GotoFacts, DeleteSessionsType DEF DeleteUser, TypeOK
<1>13. ASSUME NEW p \in Procs, ToggleSelect(p) PROVE TypeOK'
  <2>1. ASSUME NEW t \in Uid, NEW en \in BOOLEAN
        PROVE  [cgi[p] EXCEPT !.pc = "togUpdate", !.op = "toggle", !.tgt = t,
                              !.en = en] \in Request
    BY <1>0, RequestOp, UidRange
  <2> QED
    BY <1>13, <1>0, <2>1, GotoFacts, BecomeFacts DEF ToggleSelect, TypeOK
<1>14. ASSUME NEW p \in Procs, ToggleUpdate(p) PROVE TypeOK'
  <2>1. ASSUME cgi[p].tgt \in Present
        PROVE  [users[cgi[p].tgt] EXCEPT !.enabled = cgi[p].en] \in UserRow
    <3>1. users[cgi[p].tgt] \in UserRow
      BY <2>1, <1>0 DEF Present
    <3> QED
      BY <3>1, <1>0, RequestFields DEF UserRow
  <2> QED
    BY <1>14, <1>0, <2>1, GotoFacts DEF ToggleUpdate, TypeOK
<1>15. ASSUME NEW p \in Procs, PasswdUpdate(p) PROVE TypeOK'
  <2>1. ASSUME NEW t \in Uid
        PROVE  [cgi[p] EXCEPT !.pc = "pwKick", !.op = "passwd", !.tgt = t]
                 \in Request
    BY <1>0, RequestOp, UidRange
  <2> QED
    BY <1>15, <1>0, <2>1, GotoFacts, SetPasswordType DEF PasswdUpdate, TypeOK
<1>16. ASSUME NEW p \in Procs, PasswdKick(p) PROVE TypeOK'
  BY <1>16, <1>0, GotoFacts, DeleteSessionsType DEF PasswdKick, TypeOK
<1>17. ASSUME NEW p \in Procs, ChangeName(p) PROVE TypeOK'
  <2>1. ASSUME cgi[p].uid \in Present
        PROVE  [cgi[p] EXCEPT !.pc = "chLogin", !.op = "change",
                  !.tgt = cgi[p].uid, !.name = users[cgi[p].uid].name] \in Request
    <3>1. users[cgi[p].uid] \in UserRow
      BY <2>1, <1>0 DEF Present
    <3>2. users[cgi[p].uid].name \in Names \cup {NoName}
      BY <3>1 DEF UserRow
    <3> QED
      BY <3>2, <1>0, RequestChange
  <2> QED
    BY <1>17, <1>0, <2>1, GotoFacts, BecomeFacts DEF ChangeName, TypeOK
<1>18. ASSUME NEW p \in Procs, ChangeLogin(p) PROVE TypeOK'
  <2>1. ASSUME NEW new \in Passwords
        PROVE  [cgi[p] EXCEPT !.pc = "chHash", !.pw = new] \in Request
    BY <1>0, RequestPw
  <2> QED
    BY <1>18, <1>0, <2>1, GotoFacts, BecomeFacts DEF ChangeLogin, TypeOK
<1>19. ASSUME NEW p \in Procs, ChangeHash(p) PROVE TypeOK'
  BY <1>19, <1>0, GotoFacts DEF ChangeHash, TypeOK
<1>20. ASSUME NEW p \in Procs, ChangeUpdate(p) PROVE TypeOK'
  <2>1. cgi[p].pw \in Passwords \cup {NoPw}
    BY <1>0, RequestFields
  <2> QED
    BY <1>20, <1>0, <2>1, GotoFacts, RequestPc, SetPasswordType DEF ChangeUpdate, TypeOK, Present
<1>21. ASSUME NEW p \in Procs, ChangeKick(p) PROVE TypeOK'
  BY <1>21, <1>0, GotoFacts, DeleteSessionsType DEF ChangeKick, TypeOK
<1>22. ASSUME NEW p \in Procs, Audit(p) PROVE TypeOK'
  <2>1. [cgi[p] EXCEPT !.logged = auth_audit_log(cgi[p].uid, cgi[p].tgt),
                       !.pc = IF cgi[p].pc = "delAudit"
                              THEN DeleteOrder("delAudit") ELSE "reply"] \in Request
    <3>1. DeleteOrder("delAudit") \in Steps
      BY <1>0 DEF DeleteOrder
    <3>2. auth_audit_log(cgi[p].uid, cgi[p].tgt) \in BOOLEAN
      BY DEF auth_audit_log
    <3> DEFINE b == auth_audit_log(cgi[p].uid, cgi[p].tgt)
               step == IF cgi[p].pc = "delAudit"
                       THEN DeleteOrder("delAudit") ELSE "reply"
    <3>3. step \in Steps
      BY <1>0, <3>1
    <3>4. [cgi[p] EXCEPT !.logged = b, !.pc = step] \in Request
      <4> HIDE DEF b, step
      <4> QED
        BY <1>0, <3>2, <3>3, RequestLogged DEF b
    <3> QED
      BY <3>4
  <2> QED
    BY <1>22, <1>0, <2>1, BecomeFacts DEF Audit, TypeOK
<1>23. ASSUME NEW p \in Procs, auth_cleanup(p) PROVE TypeOK'
  BY <1>23, <1>0, NullTypes, BecomeFacts, DeleteSessionsType DEF auth_cleanup, TypeOK
<1>24. ASSUME NEW p \in Procs, Kill(p) PROVE TypeOK'
  BY <1>24, <1>0, NullTypes, BecomeFacts DEF Kill, TypeOK
<1>25. CASE SetClock
  BY <1>25 DEF SetClock, TypeOK
<1>26. CASE UNCHANGED vars
  BY <1>26 DEF vars, TypeOK
<1> QED
  BY <1>1, <1>2, <1>3, <1>4, <1>5, <1>6, <1>7, <1>8, <1>9, <1>10, <1>11, <1>12, <1>13, <1>14, <1>15, <1>16, <1>17, <1>18, <1>19, <1>20, <1>21, <1>22, <1>23, <1>24, <1>25, <1>26 DEF Next

(* Every reachable state is type-correct: the rows of both tables, the id    *)
(* sequence, the clock and the locals of every request.                      *)
THEOREM TypeCorrect == Spec => []TypeOK
  BY TypeInit, TypeStep, PTL DEF Spec

-----------------------------------------------------------------------------
(* The inductive invariant                                                  *)

(* A request that leaves the protected statements needs no new fact.        *)
LEMMA MoveOK ==
  ASSUME NEW r \in Request, RequestOK(r), NEW pc \in Steps,
         pc \notin RootSteps \cup {"authed"}
  PROVE  RequestOK([r EXCEPT !.pc = pc])
  BY DEF RequestOK, Request, RootSteps

(* A new request remembers nothing.                                         *)
LEMMA IdleOK ==
  ASSUME TypeOK PROVE RequestOK(Idle)
  BY BoundAssumption DEF RequestOK, Idle, RootSteps, TypeOK, Present, Uid

(* A step that changes neither users nor seq and moves one request to locals *)
(* that are in order keeps the invariant, if it keeps the sessions owned.    *)
LEMMA QuietStep ==
  ASSUME TypeOK, RowsInv, NEW p \in Procs, NEW r \in Request, Become(p, r),
         RequestOK(r), UNCHANGED <<users, seq>>, SessionsOwned'
  PROVE  RowsInv'
<1>1. \A q \in Procs : RequestOK(cgi'[q])
  BY BecomeFacts DEF RowsInv, TypeOK
<1>2. \A q \in Procs : RequestOK(cgi[q])'
  BY <1>1 DEF RequestOK, Present
<1> QED
  BY <1>2 DEF RowsInv, TableOK, Present

(* Deleting sessions leaves the others owned.                               *)
LEMMA DeleteSessionsOwned ==
  ASSUME SessionsOwned, NEW S, DeleteSessions(S), users' = users
  PROVE  SessionsOwned'
  BY DEF SessionsOwned, DeleteSessions, NoSession, Present

(* A statement that only touches the cgi variable leaves the sessions owned. *)
LEMMA SameSessionsOwned ==
  ASSUME SessionsOwned, UNCHANGED <<users, sessions>>
  PROVE  SessionsOwned'
  BY DEF SessionsOwned, Present

(* A request past its root gate acts for row 1, which is root.              *)
LEMMA RootActs ==
  ASSUME TypeOK, RowsInv, NEW p \in Procs, cgi[p].role = "root"
  PROVE  /\ cgi[p].uid = 1 /\ seq > 0 /\ 1 \in Present
         /\ users[1].role = "root"
  BY BoundAssumption DEF RowsInv, TableOK, RequestOK, Present, TypeOK, Uid

(* A row inserted above every id in use disturbs nothing read before.       *)
LEMMA InsertKeeps ==
  ASSUME TypeOK, RowsInv, seq < MaxUid, NEW row \in UserRow,
         row.role # "none", InsertUser(row)
  PROVE  /\ \A r \in Request : RequestOK(r) => RequestOK(r)'
         /\ \A u \in Uid : users'[u] = IF u = seq + 1 THEN row ELSE users[u]
         /\ seq' = seq + 1 /\ seq + 1 \in Uid
         /\ sessions' = sessions => SessionsOwned'
<1>1. /\ seq' = seq + 1 /\ seq + 1 \in Uid /\ seq \in Nat
      /\ \A u \in Uid : users'[u] = IF u = seq + 1 THEN row ELSE users[u]
  BY BoundAssumption DEF InsertUser, TypeOK, Uid
<1>2. \A u \in Uid : u <= seq => (u \in Present <=> u \in Present')
  BY <1>1 DEF Present, Uid
<1>3. Present \subseteq Present'
  BY <1>1 DEF Present, RowsInv, TableOK, Uid
<1>4. ASSUME NEW r \in Request, RequestOK(r)
      PROVE  RequestOK(r)'
  <2>1. r.uid \in Nat /\ r.uid <= seq
    BY <1>4, RequestFields, BoundAssumption DEF RequestOK
  <2>2. /\ r.uid \in Present' => r.uid \in Present
        /\ r.uid \in Present => users'[r.uid] = users[r.uid]
    BY <1>1, <1>2, <2>1 DEF Present, Uid
  <2> QED
    BY <1>1, <1>4, <2>1, <2>2 DEF RequestOK
<1>5. sessions' = sessions => SessionsOwned'
  BY <1>3 DEF SessionsOwned, RowsInv
<1> QED
  BY <1>1, <1>4, <1>5

(* Changing password, timer or enabled flag of rows keeps what requests and  *)
(* sessions rely on, as long as row 1 stays enabled and no timer becomes 0.  *)
LEMMA UpdateKeeps ==
  ASSUME TypeOK, RowsInv, users' \in [Uid -> UserRow], seq' = seq,
         \A u \in Uid : /\ users'[u].role = users[u].role
                        /\ users'[u].name = users[u].name
                        /\ users'[u].by = users[u].by
                        /\ users[u].changed # 0 => users'[u].changed # 0,
         users[1].enabled => users'[1].enabled
  PROVE  /\ TableOK'
         /\ \A r \in Request : RequestOK(r) => RequestOK(r)'
         /\ Present' = Present
<1>1. Present' = Present
  BY DEF Present
<1>2. TableOK'
  BY BoundAssumption DEF RowsInv, TableOK, Uid
<1>3. ASSUME NEW r \in Request, RequestOK(r)
      PROVE  RequestOK(r)'
  BY <1>1, <1>3 DEF RequestOK, Present
<1> QED
  BY <1>1, <1>2, <1>3

(* A password update by a request that continues in order keeps RowsInv.     *)
LEMMA SetPasswordKeeps ==
  ASSUME TypeOK, RowsInv, NEW p \in Procs, NEW t \in Uid,
         NEW pw \in Passwords \cup {NoPw}, NEW keep, NEW next \in Request,
         RequestOK(next), SetPassword(p, t, pw, keep, next), seq' = seq
  PROVE  RowsInv'
<1>1. /\ users' \in [Uid -> UserRow] /\ cgi' \in [Procs -> Request]
      /\ now \in Nat \ {0}
  BY SetPasswordType, BoundAssumption DEF TypeOK
<1>2. \A u \in Uid : users'[u] = IF u = t
                                THEN [users[t] EXCEPT !.pw = pw, !.changed = now]
                                ELSE users[u]
  BY DEF SetPassword, TypeOK
<1>3. users[t] \in UserRow /\ 1 \in Uid
  BY BoundAssumption DEF TypeOK, Uid
<1>4. \A u \in Uid : /\ users'[u].role = users[u].role
                     /\ users'[u].name = users[u].name
                     /\ users'[u].by = users[u].by
                     /\ users'[u].enabled = users[u].enabled
                     /\ users[u].changed # 0 => users'[u].changed # 0
  <2> SUFFICES ASSUME NEW u \in Uid
               PROVE  /\ users'[u].role = users[u].role
                      /\ users'[u].name = users[u].name
                      /\ users'[u].by = users[u].by
                      /\ users'[u].enabled = users[u].enabled
                      /\ users[u].changed # 0 => users'[u].changed # 0
    OBVIOUS
  <2>1. CASE u = t
    <3> DEFINE row == users[t]
    <3>1. users'[u] = [row EXCEPT !.pw = pw, !.changed = now] /\ row \in UserRow
      BY <1>2, <1>3, <2>1
    <3> HIDE DEF row
    <3>2. /\ users'[u].role = row.role /\ users'[u].name = row.name
          /\ users'[u].by = row.by /\ users'[u].enabled = row.enabled
          /\ users'[u].changed = now
      BY <3>1 DEF UserRow
    <3> QED
      BY <1>1, <2>1, <3>2 DEF row
  <2>2. CASE u # t
    BY <1>2, <2>2
  <2> QED
    BY <2>1, <2>2
<1>5. /\ TableOK'
      /\ \A r \in Request : RequestOK(r) => RequestOK(r)'
      /\ Present' = Present
  BY <1>1, <1>3, <1>4, UpdateKeeps
<1>6. ASSUME NEW q \in Procs PROVE RequestOK(cgi'[q])
  <2>1. CASE q = p
    BY <2>1 DEF SetPassword
  <2>2. CASE q # p /\ cgi'[q] = [cgi[q] EXCEPT !.old = TRUE]
    <3>1. cgi[q] \in Request /\ RequestOK(cgi[q])
      BY DEF TypeOK, RowsInv
    <3> QED
      BY <2>2, <3>1 DEF RequestOK, Request
  <2>3. CASE q # p /\ cgi'[q] = cgi[q]
    BY <2>3 DEF RowsInv
  <2> QED
    BY <2>1, <2>2, <2>3 DEF SetPassword
<1>7. \A q \in Procs : RequestOK(cgi[q])'
  BY <1>1, <1>5, <1>6 DEF RequestOK
<1>8. SessionsOwned'
  <2>1. \A s \in Sids : sessions'[s].user = sessions[s].user
    BY DEF SetPassword, TypeOK, SessionRow
  <2> QED
    BY <2>1, <1>5 DEF SessionsOwned, RowsInv
<1> QED
  BY <1>5, <1>7, <1>8 DEF RowsInv

LEMMA AuthInit == Init => RowsInv
<1> SUFFICES ASSUME Init PROVE RowsInv
  OBVIOUS
<1>1. TypeOK
  BY TypeInit
<1>2. TableOK
  BY BoundAssumption DEF Init, TableOK, NoUser, Uid
<1>3. \A p \in Procs : RequestOK(cgi[p])
  BY <1>1, IdleOK DEF Init
<1>4. SessionsOwned
  BY DEF Init, SessionsOwned, NoSession
<1> QED
  BY <1>2, <1>3, <1>4 DEF RowsInv

(* One step per action.                                                     *)
LEMMA AuthStep == TypeOK /\ RowsInv /\ [Next]_vars => RowsInv'
<1> SUFFICES ASSUME TypeOK, RowsInv, [Next]_vars PROVE RowsInv'
  OBVIOUS
<1>0. /\ TypeOK' /\ SessionsOwned /\ TableOK
      /\ \A p \in Procs : cgi[p] \in Request /\ RequestOK(cgi[p])
      /\ users \in [Uid -> UserRow] /\ cgi \in [Procs -> Request]
      /\ 1 \in Uid /\ seq \in Nat /\ now \in Nat \ {0}
  BY TypeStep, BoundAssumption DEF TypeOK, RowsInv, Uid
<1>a. ASSUME NEW p \in Procs, NEW pc \in Steps, Goto(p, pc),
             pc \notin RootSteps \cup {"authed"}, UNCHANGED <<users, seq>>,
             SessionsOwned'
      PROVE  RowsInv'
  BY <1>0, <1>a, MoveOK, RequestPc, QuietStep DEF Goto
<1>c. ASSUME NEW p \in Procs, NEW pc \in Steps, Goto(p, pc),
             pc \notin RootSteps \cup {"authed"}
      PROVE  \A q \in Procs : RequestOK(cgi'[q]) /\ cgi'[q] \in Request
  <2>1. RequestOK([cgi[p] EXCEPT !.pc = pc])
    BY <1>0, <1>c, MoveOK
  <2> QED
    BY <1>0, <1>c, <2>1, GotoFacts
<1>b. /\ {"close", "reply", "escape", "policy", "loginInsert", "dbUpdate", "dbInsert",
          "chLogin", "chHash", "chUpdate", "chKick", "chAudit"} \subseteq Steps
      /\ {"close", "reply", "escape", "policy", "loginInsert", "dbUpdate", "dbInsert",
          "chLogin", "chHash", "chUpdate", "chKick", "chAudit"}
           \cap (RootSteps \cup {"authed"}) = {}
      /\ RootSteps \cup {"authed"} \subseteq Steps
  BY DEF Steps, RootSteps
<1>1. ASSUME NEW p \in Procs, DbInitCheck(p) PROVE RowsInv'
  <2>1. PICK pw \in Passwords, pc \in {"dbUpdate", "dbInsert"} :
          Become(p, [cgi[p] EXCEPT !.pw = pw, !.pc = pc])
    BY <1>1 DEF DbInitCheck
  <2>2. [cgi[p] EXCEPT !.pw = pw, !.pc = pc] \in Request
    BY <1>0, <1>b, RequestPw
  <2>3. RequestOK([cgi[p] EXCEPT !.pw = pw, !.pc = pc])
    BY <1>0, <1>b, ZenonT(60) DEF RequestOK, Request, RootSteps
  <2> QED
    BY <1>1, <1>0, <2>1, <2>2, <2>3, QuietStep, SameSessionsOwned DEF DbInitCheck
<1>2. ASSUME NEW p \in Procs, DbInitUpdate(p) PROVE RowsInv'
  <2>1. \A u \in Uid : /\ users'[u].role = users[u].role
                       /\ users'[u].name = users[u].name
                       /\ users'[u].by = users[u].by
                       /\ users'[u].enabled = users[u].enabled
                       /\ users[u].changed # 0 => users'[u].changed # 0
    BY <1>2, <1>0 DEF DbInitUpdate, UserRow
  <2>2. /\ TableOK' /\ Present' = Present
        /\ \A r \in Request : RequestOK(r) => RequestOK(r)'
    BY <1>2, <1>0, <2>1, UpdateKeeps DEF DbInitUpdate, TypeOK
  <2>3. \A q \in Procs : RequestOK(cgi'[q]) /\ cgi'[q] \in Request
    BY <1>2, <1>b, <1>c DEF DbInitUpdate
  <2>4. \A q \in Procs : RequestOK(cgi[q])'
    BY <2>2, <2>3 DEF RequestOK
  <2> QED
    BY <1>2, <1>0, <2>2, <2>4 DEF RowsInv, SessionsOwned, DbInitUpdate
<1>3. ASSUME NEW p \in Procs, DbInitInsert(p) PROVE RowsInv'
  <2> DEFINE row == [name |-> RootName, role |-> "root", pw |-> cgi[p].pw,
                     changed |-> 0, enabled |-> TRUE, by |-> 0]
  <2>1. CASE NameTaken(RootName)
    BY <1>3, <2>1, <1>0, <1>a, <1>b, SameSessionsOwned DEF DbInitInsert
  <2>2. CASE ~NameTaken(RootName)
    <3>1. seq = 0
      BY <2>2, <1>0 DEF TableOK, NameTaken, Present
    <3>2. row \in UserRow
      BY <1>0, RequestFields, NullAssumption, BoundAssumption DEF UserRow
    <3>3. /\ \A r \in Request : RequestOK(r) => RequestOK(r)'
          /\ \A u \in Uid : users'[u] = IF u = 1 THEN row ELSE users[u]
          /\ seq' = 1
          /\ SessionsOwned'
      BY <1>3, <2>2, <3>1, <3>2, InsertKeeps DEF DbInitInsert
    <3>4. TableOK'
      BY <1>0, <3>1, <3>3 DEF TableOK, Uid
    <3>5. \A q \in Procs : RequestOK(cgi'[q]) /\ cgi'[q] \in Request
      BY <1>3, <1>b, <1>c DEF DbInitInsert
    <3>6. \A q \in Procs : RequestOK(cgi[q])'
      BY <3>3, <3>5 DEF RequestOK
    <3> QED
      BY <3>3, <3>4, <3>6 DEF RowsInv
  <2> QED
    BY <2>1, <2>2
<1>4. ASSUME NEW p \in Procs, LoginVerify(p) PROVE RowsInv'
  <2>1. PICK n \in Names, pw \in Passwords :
          IF auth_user_login(n, pw) = {}
          THEN Goto(p, "close")
          ELSE \E s \in Sids, u \in auth_user_login(n, pw) :
                 Become(p, [Idle EXCEPT !.pc = "loginInsert", !.name = n,
                                        !.uid = u, !.sid = s])
    BY <1>4 DEF LoginVerify
  <2>2. UNCHANGED <<users, seq, sessions>> /\ SessionsOwned'
    BY <1>4, <1>0, SameSessionsOwned DEF LoginVerify
  <2>3. CASE auth_user_login(n, pw) = {}
    BY <1>a, <1>b, <2>1, <2>2, <2>3
  <2>4. CASE auth_user_login(n, pw) # {}
    <3>1. PICK s \in Sids, u \in auth_user_login(n, pw) :
             Become(p, [Idle EXCEPT !.pc = "loginInsert", !.name = n,
                                    !.uid = u, !.sid = s])
      BY <2>1, <2>4
    <3>2. u \in Uid /\ u \in Present /\ users[u].name = n /\ u <= seq
      BY <1>0, SMTT(40) DEF auth_user_login, Present, TableOK, Uid
    <3>3. [Idle EXCEPT !.pc = "loginInsert", !.name = n, !.uid = u, !.sid = s]
            \in Request
      BY <1>b, <3>2, RequestSession, UidRange
    <3>4. RequestOK([Idle EXCEPT !.pc = "loginInsert", !.name = n, !.uid = u,
                                 !.sid = s])
      BY <3>2 DEF RequestOK, Idle, RootSteps
    <3> QED
      BY <2>2, <3>1, <3>3, <3>4, QuietStep
  <2> QED
    BY <2>3, <2>4
<1>5. ASSUME NEW p \in Procs, auth_session_create(p) PROVE RowsInv'
  <2>1. SessionsOwned'
    BY <1>5, <1>0 DEF auth_session_create, SessionsOwned, Present
  <2> QED
    BY <1>5, <1>a, <1>b, <2>1 DEF auth_session_create
<1>6. ASSUME NEW p \in Procs, Logout(p) PROVE RowsInv'
  BY <1>6, <1>0, <1>a, <1>b, DeleteSessionsOwned DEF Logout
<1>7. ASSUME NEW p \in Procs, GateSession(p) PROVE RowsInv'
  <2>1. PICK s \in Sids, pc \in {"escape", "policy"} :
          IF auth_session_verify(s)
          THEN Become(p, [Idle EXCEPT !.pc = pc, !.sid = s,
                            !.uid = sessions[s].user,
                            !.name = users[sessions[s].user].name,
                            !.role = users[sessions[s].user].role])
          ELSE Goto(p, "close")
    BY <1>7 DEF GateSession
  <2>2. UNCHANGED <<users, seq, sessions>> /\ SessionsOwned'
    BY <1>7, <1>0, SameSessionsOwned DEF GateSession
  <2>3. CASE ~auth_session_verify(s)
    BY <1>a, <1>b, <2>1, <2>2, <2>3
  <2>4. CASE auth_session_verify(s)
    <3> DEFINE u == sessions[s].user
               r == [Idle EXCEPT !.pc = pc, !.sid = s, !.uid = u,
                       !.name = users[u].name, !.role = users[u].role]
    <3>1. u \in Uid /\ u \in Present /\ users[u] \in UserRow
      BY <1>0, <2>4 DEF auth_session_verify, Present
    <3>2. /\ users[u].name \in Names \cup {NoName}
          /\ users[u].role \in {"none", "root", "admin"}
      BY <3>1, SMTT(40) DEF UserRow
    <3>3. r \in Request
      BY <1>b, <3>1, <3>2, RequestSession, UidRange, ZenonT(60)
    <3>4. u <= seq /\ (users[u].role = "root" => u = 1 /\ seq > 0)
      BY <1>0, <3>1 DEF TableOK, Present, Uid
    <3>5. RequestOK(r)
      BY <3>1, <3>4 DEF RequestOK, Idle, RootSteps
    <3> QED
      BY <2>1, <2>2, <2>4, <3>3, <3>5, QuietStep
  <2> QED
    BY <2>3, <2>4, SMTT(40)
<1>8. ASSUME NEW p \in Procs, GatePolicy(p) PROVE RowsInv'
  <2>1. PICK pc \in {"close", "authed"} :
          /\ Goto(p, pc)
          /\ pc = "authed" /\ cgi[p].uid \in Present =>
               users[cgi[p].uid].changed # 0
    BY <1>8 DEF GatePolicy, auth_user_must_change_password
  <2>2. RequestOK([cgi[p] EXCEPT !.pc = pc])
    BY <1>0, <2>1 DEF RequestOK, RootSteps, Request
  <2> QED
    BY <1>8, <1>0, <1>b, <2>1, <2>2, RequestPc, QuietStep, SameSessionsOwned
       DEF GatePolicy, Goto
<1>9. ASSUME NEW p \in Procs, ServeOrRefuse(p) PROVE RowsInv'
  BY <1>9, <1>0, <1>a, <1>b, SameSessionsOwned DEF ServeOrRefuse
<1>10. ASSUME NEW p \in Procs, CreateInsert(p) PROVE RowsInv'
  <2>0. cgi[p].role = "root" /\ cgi[p].pc = "authed"
    BY <1>10 DEF CreateInsert, RootRequest, gate_require_role
  <2>1. PICK n \in Names, pw \in Passwords :
          IF NameTaken(n)
          THEN Goto(p, "close") /\ UNCHANGED <<users, seq>>
          ELSE /\ seq < MaxUid
               /\ InsertUser([name |-> n, role |-> "admin", pw |-> pw,
                              changed |-> now, enabled |-> TRUE,
                              by |-> cgi[p].uid])
               /\ Become(p, [cgi[p] EXCEPT !.pc = "createAudit",
                                           !.op = "create", !.tgt = seq + 1])
    BY <1>10 DEF CreateInsert
  <2>2. CASE NameTaken(n)
    BY <1>10, <1>0, <1>a, <1>b, <2>1, <2>2, SameSessionsOwned DEF CreateInsert
  <2>3. CASE ~NameTaken(n)
    <3> DEFINE row == [name |-> n, role |-> "admin", pw |-> pw, changed |-> now,
                       enabled |-> TRUE, by |-> cgi[p].uid]
               r == [cgi[p] EXCEPT !.pc = "createAudit", !.op = "create",
                                   !.tgt = seq + 1]
    <3>1. row \in UserRow
      BY <1>0, RequestFields DEF UserRow
    <3>2. /\ \A x \in Request : RequestOK(x) => RequestOK(x)'
          /\ \A u \in Uid : users'[u] = IF u = seq + 1 THEN row ELSE users[u]
          /\ seq' = seq + 1 /\ seq + 1 \in Uid
          /\ SessionsOwned'
      BY <1>10, <2>1, <2>3, <3>1, InsertKeeps DEF CreateInsert
    <3>3. TableOK'
      BY <1>0, <2>0, <3>2, RootActs DEF TableOK, Uid
    <3>4. r \in Request
      <4>1. seq + 1 \in 0..MaxUid
        BY <3>2, UidRange
      <4> QED
        BY <1>0, <1>b, <4>1, RequestOp DEF RootSteps
    <3>5. RequestOK(r)
      BY <1>0, <2>0, ZenonT(60) DEF RequestOK, Request, RootSteps
    <3>6. \A q \in Procs : RequestOK(cgi'[q]) /\ cgi'[q] \in Request
      BY <1>0, <2>1, <2>3, <3>4, <3>5, BecomeFacts
    <3>7. \A q \in Procs : RequestOK(cgi[q])'
      BY <3>2, <3>6 DEF RequestOK
    <3> QED
      BY <3>2, <3>3, <3>7 DEF RowsInv
  <2> QED
    BY <2>2, <2>3
<1>11. ASSUME NEW p \in Procs, DeleteSelect(p) PROVE RowsInv'
  <2>0. cgi[p].role = "root" /\ cgi[p].pc = "authed"
    BY <1>11 DEF DeleteSelect, RootRequest, gate_require_role
  <2>1. PICK t \in Uid :
          IF t # cgi[p].uid /\ t \in Present /\ users[t].role # "root"
          THEN Become(p, [cgi[p] EXCEPT !.pc = "delAudit", !.op = "delete",
                                        !.tgt = t])
          ELSE Goto(p, "close")
    BY <1>11 DEF DeleteSelect, DeleteOrder
  <2>2. UNCHANGED <<users, seq, sessions>> /\ SessionsOwned'
    BY <1>11, <1>0, SameSessionsOwned DEF DeleteSelect
  <2> DEFINE r == [cgi[p] EXCEPT !.pc = "delAudit", !.op = "delete", !.tgt = t]
  <2>3. r \in Request
    BY <1>0, <1>b, RequestOp, UidRange DEF RootSteps
  <2>4. t # cgi[p].uid => RequestOK(r)
    <3>1. cgi[p].uid = 1
      BY <2>0, RootActs
    <3>2. /\ r.pc = "delAudit" /\ r.tgt = t /\ r.uid = cgi[p].uid
          /\ r.role = cgi[p].role /\ r.name = cgi[p].name
      BY <1>0 DEF Request
    <3> QED
      BY <1>0, <2>0, <3>1, <3>2 DEF RequestOK, RootSteps
  <2> QED
    BY <1>a, <1>b, <2>1, <2>2, <2>3, <2>4, QuietStep
<1>12. ASSUME NEW p \in Procs, DeleteUser(p) PROVE RowsInv'
  <2> DEFINE t == cgi[p].tgt
  <2>1. UNCHANGED <<seq, issued, now>>
    BY <1>12 DEF DeleteUser
  <2>2. t # 1 /\ cgi[p].role = "root"
    BY <1>12, <1>0 DEF DeleteUser, RequestOK, RootSteps
  <2>3. CASE t \in Present /\ \A u \in Present : users[u].by # t
    <3>1. /\ users' = [users EXCEPT ![t] = NoUser]
          /\ DeleteSessions(SessionsOf(t)) /\ Goto(p, "reply")
      BY <1>12, <2>3 DEF DeleteUser, Cascade, DeleteOrder
    <3>2. t \in Uid /\ \A u \in Uid : users'[u] = IF u = t THEN NoUser ELSE users[u]
      BY <1>0, <2>3, <3>1 DEF Present
    <3>3. TableOK'
      BY <1>0, <2>1, <2>2, <3>2 DEF TableOK, NoUser
    <3>4. Present' = Present \ {t}
      BY <3>2 DEF Present, NoUser
    <3>5. \A x \in Request : RequestOK(x) => RequestOK(x)'
      BY <2>1, <3>2, <3>4 DEF RequestOK, Present
    <3>6. \A q \in Procs : RequestOK(cgi'[q]) /\ cgi'[q] \in Request
      BY <1>b, <1>c, <3>1
    <3>7. \A q \in Procs : RequestOK(cgi[q])'
      BY <3>5, <3>6 DEF RequestOK
    <3>8. SessionsOwned'
      BY <1>0, <3>1, <3>4 DEF SessionsOwned, DeleteSessions, SessionsOf, NoSession
    <3> QED
      BY <3>3, <3>7, <3>8 DEF RowsInv
  <2>4. CASE ~(t \in Present /\ \A u \in Present : users[u].by # t)
    BY <1>12, <1>0, <1>a, <1>b, <2>1, <2>4, SameSessionsOwned DEF DeleteUser
  <2> QED
    BY <2>3, <2>4
<1>13. ASSUME NEW p \in Procs, ToggleSelect(p) PROVE RowsInv'
  <2>0. cgi[p].role = "root" /\ cgi[p].pc = "authed"
    BY <1>13 DEF ToggleSelect, RootRequest, gate_require_role
  <2>1. PICK t \in Uid, en \in BOOLEAN :
          IF ToggleAllowed(p, t, en)
          THEN Become(p, [cgi[p] EXCEPT !.pc = "togUpdate", !.op = "toggle",
                                        !.tgt = t, !.en = en])
          ELSE Goto(p, "close")
    BY <1>13 DEF ToggleSelect
  <2>2. UNCHANGED <<users, seq, sessions>> /\ SessionsOwned'
    BY <1>13, <1>0, SameSessionsOwned, SMTT(40) DEF ToggleSelect
  <2> DEFINE r == [cgi[p] EXCEPT !.pc = "togUpdate", !.op = "toggle", !.tgt = t,
                                 !.en = en]
  <2>3. r \in Request
    BY <1>0, <1>b, RequestOp, UidRange DEF RootSteps
  <2>4. ToggleAllowed(p, t, en) => RequestOK(r)
    <3>1. cgi[p].uid = 1
      BY <2>0, RootActs
    <3>2. /\ r.pc = "togUpdate" /\ r.tgt = t /\ r.uid = cgi[p].uid
          /\ r.role = cgi[p].role /\ r.name = cgi[p].name
      BY <1>0 DEF Request
    <3> QED
      BY <1>0, <2>0, <3>1, <3>2 DEF RequestOK, RootSteps, ToggleAllowed
  <2> QED
    BY <1>a, <1>b, <2>1, <2>2, <2>3, <2>4, QuietStep
<1>14. ASSUME NEW p \in Procs, ToggleUpdate(p) PROVE RowsInv'
  <2> DEFINE t == cgi[p].tgt
  <2>1. UNCHANGED <<seq, sessions>>
    BY <1>14 DEF ToggleUpdate
  <2>2. t # 1 /\ cgi[p].role = "root" /\ cgi[p].pc = "togUpdate"
    BY <1>14, <1>0 DEF ToggleUpdate, RequestOK, RootSteps
  <2>3. CASE t \in Present
    <3>1. /\ users' = [users EXCEPT ![t].enabled = cgi[p].en]
          /\ Goto(p, "togAudit")
      BY <1>14, <2>3 DEF ToggleUpdate
    <3>2. \A u \in Uid : /\ users'[u].role = users[u].role
                         /\ users'[u].name = users[u].name
                         /\ users'[u].by = users[u].by
                         /\ users'[u].changed = users[u].changed
                         /\ u # t => users'[u] = users[u]
      BY <1>0, <3>1 DEF UserRow
    <3>3. /\ TableOK' /\ Present' = Present
          /\ \A r \in Request : RequestOK(r) => RequestOK(r)'
      BY <1>0, <2>1, <2>2, <3>2, UpdateKeeps DEF TypeOK
    <3>4. RequestOK([cgi[p] EXCEPT !.pc = "togAudit"])
      BY <1>0, <2>2, ZenonT(60) DEF RequestOK, Request, RootSteps
    <3>5. \A q \in Procs : RequestOK(cgi'[q]) /\ cgi'[q] \in Request
      BY <1>0, <1>b, <3>1, <3>4, GotoFacts DEF RootSteps
    <3>6. \A q \in Procs : RequestOK(cgi[q])'
      BY <3>3, <3>5 DEF RequestOK
    <3> QED
      BY <1>0, <2>1, <3>3, <3>6 DEF RowsInv, SessionsOwned
  <2>4. CASE t \notin Present
    BY <1>14, <1>0, <1>a, <1>b, <2>1, <2>4, SameSessionsOwned DEF ToggleUpdate
  <2> QED
    BY <2>3, <2>4
<1>15. ASSUME NEW p \in Procs, PasswdUpdate(p) PROVE RowsInv'
  <2>0. cgi[p].role = "root" /\ cgi[p].pc = "authed"
    BY <1>15 DEF PasswdUpdate, RootRequest, gate_require_role
  <2>1. PICK t \in Uid, pw \in Passwords :
          IF t \in Present
          THEN SetPassword(p, t, pw, NoSid,
                 [cgi[p] EXCEPT !.pc = "pwKick", !.op = "passwd", !.tgt = t])
          ELSE Goto(p, "close") /\ UNCHANGED <<users, sessions>>
    BY <1>15 DEF PasswdUpdate
  <2>2. seq' = seq
    BY <1>15 DEF PasswdUpdate
  <2>3. CASE t \in Present
    <3> DEFINE r == [cgi[p] EXCEPT !.pc = "pwKick", !.op = "passwd", !.tgt = t]
    <3>1. r \in Request
      BY <1>0, <1>b, RequestOp, UidRange DEF RootSteps
    <3>2. RequestOK(r)
      BY <1>0, <2>0, ZenonT(60) DEF RequestOK, Request, RootSteps
    <3> QED
      BY <2>1, <2>2, <2>3, <3>1, <3>2, SetPasswordKeeps
  <2>4. CASE t \notin Present
    BY <1>0, <1>a, <1>b, <2>1, <2>2, <2>4, SameSessionsOwned
  <2> QED
    BY <2>3, <2>4
<1>16. ASSUME NEW p \in Procs, PasswdKick(p) PROVE RowsInv'
  <2>1. RequestOK([cgi[p] EXCEPT !.pc = "pwAudit"])
    BY <1>16, <1>0 DEF PasswdKick, RequestOK, Request, RootSteps
  <2>2. [cgi[p] EXCEPT !.pc = "pwAudit"] \in Request
    BY <1>0, <1>b, RequestPc DEF RootSteps
  <2> QED
    BY <1>16, <1>0, <2>1, <2>2, QuietStep, DeleteSessionsOwned DEF PasswdKick, Goto
<1>17. ASSUME NEW p \in Procs, ChangeName(p) PROVE RowsInv'
  <2>1. UNCHANGED <<users, seq, sessions>> /\ SessionsOwned'
    BY <1>17, <1>0, SameSessionsOwned DEF ChangeName
  <2>2. CASE cgi[p].uid \in Present
    <3> DEFINE u == cgi[p].uid
               r == [cgi[p] EXCEPT !.pc = "chLogin", !.op = "change", !.tgt = u,
                                   !.name = users[u].name]
    <3>1. users[u] \in UserRow
      BY <1>0, <2>2 DEF Present
    <3>2. r \in Request
      BY <1>0, <3>1, RequestChange DEF UserRow
    <3>3. RequestOK(r)
      BY <1>0, <2>2, ZenonT(60) DEF RequestOK, Request, RootSteps
    <3> QED
      BY <1>17, <2>1, <2>2, <3>2, <3>3, QuietStep DEF ChangeName
  <2>3. CASE cgi[p].uid \notin Present
    BY <1>17, <1>a, <1>b, <2>1, <2>3 DEF ChangeName
  <2> QED
    BY <2>2, <2>3
<1>18. ASSUME NEW p \in Procs, ChangeLogin(p) PROVE RowsInv'
  <2>1. PICK new \in Passwords :
          \/ Become(p, [cgi[p] EXCEPT !.pc = "chHash", !.pw = new])
          \/ Goto(p, "close")
    BY <1>18 DEF ChangeLogin
  <2>2. UNCHANGED <<users, seq, sessions>> /\ SessionsOwned'
    BY <1>18, <1>0, SameSessionsOwned DEF ChangeLogin
  <2>3. [cgi[p] EXCEPT !.pc = "chHash", !.pw = new] \in Request
    BY <1>0, <1>b, RequestPw
  <2>4. RequestOK([cgi[p] EXCEPT !.pc = "chHash", !.pw = new])
    BY <1>0, ZenonT(60) DEF RequestOK, Request, RootSteps
  <2> QED
    BY <1>a, <1>b, <2>1, <2>2, <2>3, <2>4, QuietStep
<1>19. ASSUME NEW p \in Procs, ChangeHash(p) PROVE RowsInv'
  BY <1>19, <1>0, <1>a, <1>b, SameSessionsOwned DEF ChangeHash
<1>20. ASSUME NEW p \in Procs, ChangeUpdate(p) PROVE RowsInv'
  <2>1. CASE cgi[p].uid \in Present
    <3>1. cgi[p].pw \in Passwords \cup {NoPw} /\ cgi[p].uid \in Uid
      BY <1>0, <2>1, RequestFields DEF Present
    <3>2. /\ [cgi[p] EXCEPT !.pc = "chKick"] \in Request
          /\ RequestOK([cgi[p] EXCEPT !.pc = "chKick"])
      BY <1>0, <1>b, RequestPc, MoveOK
    <3> QED
      BY <1>20, <2>1, <3>1, <3>2, SetPasswordKeeps DEF ChangeUpdate
  <2>2. CASE cgi[p].uid \notin Present
    BY <1>20, <1>0, <1>a, <1>b, <2>2, SameSessionsOwned DEF ChangeUpdate
  <2> QED
    BY <2>1, <2>2
<1>21. ASSUME NEW p \in Procs, ChangeKick(p) PROVE RowsInv'
  BY <1>21, <1>0, <1>a, <1>b, DeleteSessionsOwned DEF ChangeKick
<1>22. ASSUME NEW p \in Procs, Audit(p) PROVE RowsInv'
  <2> DEFINE b == auth_audit_log(cgi[p].uid, cgi[p].tgt)
             pc == IF cgi[p].pc = "delAudit" THEN "delete" ELSE "reply"
             r == [cgi[p] EXCEPT !.logged = b, !.pc = pc]
  <2>1. Become(p, r) /\ UNCHANGED <<users, seq, sessions>>
    BY <1>22 DEF Audit, DeleteOrder
  <2>2. r \in Request
    <3>1. pc \in Steps /\ b \in BOOLEAN
      BY DEF Steps, auth_audit_log
    <3> QED
      BY <1>0, <3>1, RequestLogged
  <2>3. RequestOK(r)
    BY <1>0, ZenonT(60) DEF RequestOK, Request, RootSteps
  <2> QED
    BY <1>0, <2>1, <2>2, <2>3, QuietStep, SameSessionsOwned
<1>23. ASSUME NEW p \in Procs, auth_cleanup(p) PROVE RowsInv'
  BY <1>23, <1>0, NullTypes, IdleOK, QuietStep, DeleteSessionsOwned DEF auth_cleanup
<1>24. ASSUME NEW p \in Procs, Kill(p) PROVE RowsInv'
  BY <1>24, <1>0, NullTypes, IdleOK, QuietStep, SameSessionsOwned DEF Kill
<1>25. CASE SetClock
  BY <1>25 DEF SetClock, RowsInv, TableOK, RequestOK, SessionsOwned, Present
<1>26. CASE UNCHANGED vars
  BY <1>26 DEF vars, RowsInv, TableOK, RequestOK, SessionsOwned, Present
<1> QED
  BY <1>1, <1>2, <1>3, <1>4, <1>5, <1>6, <1>7, <1>8, <1>9, <1>10, <1>11, <1>12, <1>13, <1>14, <1>15, <1>16, <1>17, <1>18, <1>19, <1>20, <1>21, <1>22, <1>23, <1>24, <1>25, <1>26 DEF Next

(* The inductive invariant holds in every reachable state.                  *)
LEMMA RowsInvariant == Spec => []RowsInv
<1>1. Init => TypeOK /\ RowsInv
  BY TypeInit, AuthInit
<1>2. TypeOK /\ RowsInv /\ [Next]_vars => (TypeOK /\ RowsInv)'
  BY TypeStep, AuthStep
<1> QED
  BY <1>1, <1>2, PTL DEF Spec

(* Types, the users table, what requests have read from it and the sessions   *)
(* agree in every behaviour of auth.c, users.c and the CGI programs.           *)
THEOREM AuthInvariant == Spec => []AuthInv
  BY TypeCorrect, RowsInvariant, PTL DEF AuthInv

-----------------------------------------------------------------------------
(* What follows from it                                                     *)

(* No interleaving of requests and of db_init, no killed request and no      *)
(* clock step leaves the device without its one enabled root account.        *)
THEOREM RootNeverLost == Spec => []RootAlive
<1>1. TypeOK /\ RowsInv => RootAlive
  <2> SUFFICES ASSUME TypeOK, RowsInv, seq > 0 PROVE RootAlive
    BY DEF RootAlive
  <2>1. 1 \in Present /\ users[1].enabled
    BY BoundAssumption DEF RowsInv, TableOK, Present, Uid
  <2>2. \A u \in Present : users[u].role = "root" <=> u = 1
    BY DEF RowsInv, TableOK, Present
  <2> QED
    BY <2>1, <2>2 DEF RootAlive
<1> QED
  BY <1>1, TypeCorrect, RowsInvariant, PTL

(* The role the gate read is still true when the operation is carried out.  *)
THEOREM OnlyRootManages == Spec => []ManagedByRoot
<1>1. TypeOK /\ RowsInv => ManagedByRoot
  BY RootActs DEF RowsInv, RequestOK, TableOK, ManagedByRoot
<1> QED
  BY <1>1, TypeCorrect, RowsInvariant, PTL

(* Every session row belongs to an existing user.                           *)
THEOREM NoOrphanSession == Spec => []SessionsOwned
  BY RowsInvariant, PTL DEF RowsInv

(* An id read earlier never denotes another account.                        *)
THEOREM IdsNeverReused == Spec => []IdentityStable
<1>1. RowsInv => IdentityStable
  BY DEF RowsInv, RequestOK, IdentityStable
<1> QED
  BY <1>1, RowsInvariant, PTL

(* created_by never blocks the deletion of an admin.                        *)
THEOREM NoBlockedDelete == Spec => []AdminsDeletable
<1>1. TypeOK /\ RowsInv => AdminsDeletable
  <2> SUFFICES ASSUME TypeOK, RowsInv, NEW t \in Present, users[t].role = "admin",
                      NEW u \in Present, users[u].by = t
               PROVE  FALSE
    BY DEF AdminsDeletable
  <2>1. t \in Uid /\ u \in Uid /\ t <= seq /\ t \in Nat \ {0} /\ seq \in Nat
    BY BoundAssumption DEF Present, RowsInv, TableOK, Uid, TypeOK
  <2>2. t = 1 /\ seq > 0
    BY <2>1 DEF RowsInv, TableOK
  <2> QED
    BY <2>2 DEF RowsInv, TableOK
<1> QED
  BY <1>1, TypeCorrect, RowsInvariant, PTL

(* A never-changed password opens nothing but the change itself.            *)
THEOREM ForcedChangeHolds == Spec => []FreshPasswordForced
<1>1. RowsInv => FreshPasswordForced
  BY DEF RowsInv, RequestOK, FreshPasswordForced
<1> QED
  BY <1>1, RowsInvariant, PTL

-----------------------------------------------------------------------------
(* Sessions that were open when a password was replaced                     *)

(* A statement of a request that is not about to kick, and that marks no     *)
(* session, leaves the others as they are about to be kicked.               *)
LEMMA KickKeeps ==
  ASSUME OpenSessionsKicked, NEW p \in Procs, cgi[p].pc \notin {"pwKick", "chKick"},
         \A q \in Procs \ {p} : cgi'[q] = cgi[q],
         \A s \in Sids : sessions'[s] = sessions[s] \/ sessions'[s].mark = "current"
                           \/ sessions'[s].mark = "late"
  PROVE  OpenSessionsKicked'
  BY DEF OpenSessionsKicked, KickPending

(* What Become leaves alone, whatever the locals are.                        *)
LEMMA OthersSame ==
  ASSUME TypeOK, NEW p \in Procs, NEW r, Become(p, r)
  PROVE  \A q \in Procs \ {p} : cgi'[q] = cgi[q]
  BY DEF TypeOK, Become

(* DeleteSessions leaves a row or empties it.                                *)
LEMMA DeletedRows ==
  ASSUME NEW S, DeleteSessions(S)
  PROVE  /\ \A s \in Sids : sessions'[s] = sessions[s] \/ sessions'[s].mark = "current"
         /\ \A s \in Sids \cap S : sessions'[s].mark = "current"
  BY DEF DeleteSessions, NoSession

(* A password update: the request that makes it is about to kick the         *)
(* sessions it marks.                                                        *)
LEMMA SetPasswordKicks ==
  ASSUME TypeOK, OpenSessionsKicked, NEW p \in Procs, NEW t, NEW pw, NEW keep, NEW next,
         SetPassword(p, t, pw, keep, next), cgi[p].pc \notin {"pwKick", "chKick"},
         \/ next.pc = "pwKick" /\ next.tgt = t
         \/ next.pc = "chKick" /\ next.uid = t /\ next.sid = keep
  PROVE  OpenSessionsKicked'
<1>1. cgi'[p] = next
  BY DEF SetPassword
<1>2. ASSUME NEW q \in Procs \ {p}
      PROVE  /\ cgi'[q].pc = cgi[q].pc /\ cgi'[q].tgt = cgi[q].tgt
             /\ cgi'[q].uid = cgi[q].uid /\ cgi'[q].sid = cgi[q].sid
  <2>1. \A r \in Request, b \in BOOLEAN : LET x == [r EXCEPT !.old = b] IN
           x.pc = r.pc /\ x.tgt = r.tgt /\ x.uid = r.uid /\ x.sid = r.sid
    BY DEF Request
  <2>2. cgi[q] \in Request
    BY DEF TypeOK
  <2>3. cgi'[q] = cgi[q] \/ cgi'[q] = [cgi[q] EXCEPT !.old = TRUE]
    BY DEF SetPassword
  <2> QED
    BY <2>1, <2>2, <2>3, Zenon
<1>3. ASSUME NEW s \in Sids
      PROVE  /\ sessions'[s].user = sessions[s].user
             /\ sessions'[s].mark = "present" =>
                  sessions[s].mark = "present" \/ (sessions[s].user = t /\ s # keep)
  BY DEF SetPassword, TypeOK, SessionRow
<1>4. ASSUME NEW s \in Sids, sessions'[s].mark = "present" PROVE KickPending(s)'
  <2>1. CASE sessions[s].user = t /\ s # keep
    BY <1>1, <1>3, <2>1 DEF KickPending
  <2>2. CASE sessions[s].mark = "present"
    <3>1. PICK q \in Procs :
            \/ cgi[q].pc = "pwKick" /\ sessions[s].user = cgi[q].tgt
            \/ cgi[q].pc = "chKick" /\ sessions[s].user = cgi[q].uid /\ s # cgi[q].sid
      BY <2>2 DEF OpenSessionsKicked, KickPending
    <3>2. q \in Procs \ {p}
      BY <3>1
    <3> QED
      BY <1>2, <1>3, <3>1, <3>2 DEF KickPending
  <2> QED
    BY <1>3, <1>4, <2>1, <2>2
<1> QED
  BY <1>4 DEF OpenSessionsKicked

(* A kick: what the request was about to kick is gone, the rest is another   *)
(* request's.                                                                *)
LEMMA KickDone ==
  ASSUME OpenSessionsKicked, NEW p \in Procs, NEW S, DeleteSessions(S),
         \A q \in Procs \ {p} : cgi'[q] = cgi[q],
         \A s \in Sids :
            \/ cgi[p].pc = "pwKick" /\ sessions[s].user = cgi[p].tgt
            \/ cgi[p].pc = "chKick" /\ sessions[s].user = cgi[p].uid /\ s # cgi[p].sid
            => s \in S
  PROVE  OpenSessionsKicked'
<1>1. ASSUME NEW s \in Sids, sessions'[s].mark = "present" PROVE KickPending(s)'
  <2>1. sessions'[s] = sessions[s] /\ s \notin S
    BY <1>1, DeletedRows
  <2>2. PICK q \in Procs :
          \/ cgi[q].pc = "pwKick" /\ sessions[s].user = cgi[q].tgt
          \/ cgi[q].pc = "chKick" /\ sessions[s].user = cgi[q].uid /\ s # cgi[q].sid
    BY <1>1, <2>1 DEF OpenSessionsKicked, KickPending
  <2>3. q \in Procs \ {p}
    BY <2>1, <2>2
  <2> QED
    BY <2>1, <2>2, <2>3 DEF KickPending
<1> QED
  BY <1>1 DEF OpenSessionsKicked

(* Every statement of every request, none of which is killed.                *)
LEMMA KickStep ==
  ASSUME TypeOK, OpenSessionsKicked, ~KillAllowed, [Next]_vars
  PROVE  OpenSessionsKicked'
<1>1. ASSUME NEW p \in Procs,
             \/ DbInitCheck(p) \/ DbInitUpdate(p) \/ DbInitInsert(p) \/ LoginVerify(p)
             \/ GateSession(p) \/ GatePolicy(p) \/ ServeOrRefuse(p)
             \/ CreateInsert(p) \/ DeleteSelect(p) \/ ToggleSelect(p) \/ ToggleUpdate(p)
             \/ ChangeName(p) \/ ChangeLogin(p) \/ ChangeHash(p) \/ Audit(p)
      PROVE  OpenSessionsKicked'
  <2>1. cgi[p].pc \notin {"pwKick", "chKick"} /\ sessions' = sessions
    BY <1>1 DEF DbInitCheck, DbInitUpdate, DbInitInsert, LoginVerify, GateSession, GatePolicy,
       ServeOrRefuse, CreateInsert, DeleteSelect, ToggleSelect, ToggleUpdate, ChangeName,
       ChangeLogin, ChangeHash, Audit, RootRequest, AuditSteps
  <2>2. \E r : Become(p, r)
    BY <1>1 DEF DbInitCheck, DbInitUpdate, DbInitInsert, LoginVerify, GateSession, GatePolicy,
       ServeOrRefuse, CreateInsert, DeleteSelect, ToggleSelect, ToggleUpdate, ChangeName,
       ChangeLogin, ChangeHash, Audit, Goto
  <2> QED
    BY <2>1, <2>2, OthersSame, KickKeeps
<1>2. ASSUME NEW p \in Procs, auth_session_create(p) PROVE OpenSessionsKicked'
  <2>1. cgi[p].pc = "loginInsert" /\ \E r : Become(p, r)
    BY <1>2 DEF auth_session_create, Goto
  <2>2. \A s \in Sids : sessions'[s] = sessions[s] \/ sessions'[s].mark = "current"
                           \/ sessions'[s].mark = "late"
    BY <1>2 DEF auth_session_create, TypeOK
  <2> QED
    BY <2>1, <2>2, OthersSame, KickKeeps
<1>3. ASSUME NEW p \in Procs, Logout(p) \/ auth_cleanup(p) PROVE OpenSessionsKicked'
  <2>1. cgi[p].pc \in {"idle", "reply", "close"} /\ (\E r : Become(p, r)) /\ \E S : DeleteSessions(S)
    BY <1>3 DEF Logout, auth_cleanup, Goto
  <2> QED
    BY <2>1, DeletedRows, OthersSame, KickKeeps
<1>4. ASSUME NEW p \in Procs, DeleteUser(p) PROVE OpenSessionsKicked'
  <2>1. cgi[p].pc = "delete" /\ (\E r : Become(p, r))
        /\ (sessions' = sessions \/ \E S : DeleteSessions(S))
    BY <1>4 DEF DeleteUser, Goto
  <2> QED
    BY <2>1, DeletedRows, OthersSame, KickKeeps
<1>5. ASSUME NEW p \in Procs, PasswdUpdate(p) PROVE OpenSessionsKicked'
  <2>1. cgi[p].pc = "authed"
    BY <1>5 DEF PasswdUpdate, RootRequest
  <2>2. CASE \E t \in Uid, pw \in Passwords :
               SetPassword(p, t, pw, NoSid,
                   [cgi[p] EXCEPT !.pc = "pwKick", !.op = "passwd", !.tgt = t])
    <3>1. PICK t \in Uid, pw \in Passwords :
               SetPassword(p, t, pw, NoSid,
                   [cgi[p] EXCEPT !.pc = "pwKick", !.op = "passwd", !.tgt = t])
      BY <2>2
    <3> DEFINE next == [cgi[p] EXCEPT !.pc = "pwKick", !.op = "passwd", !.tgt = t]
    <3>2. next.pc = "pwKick" /\ next.tgt = t
      BY DEF TypeOK, Request
    <3> HIDE DEF next
    <3>3. SetPassword(p, t, pw, NoSid, next)
      BY <3>1 DEF next
    <3> QED
      BY <2>1, <3>2, <3>3, SetPasswordKicks
  <2>3. CASE Goto(p, "close") /\ UNCHANGED <<users, sessions>>
    BY <2>1, <2>3, OthersSame, KickKeeps DEF Goto
  <2> QED
    BY <1>5, <2>2, <2>3 DEF PasswdUpdate
<1>6. ASSUME NEW p \in Procs, PasswdKick(p) PROVE OpenSessionsKicked'
  <2>1. cgi[p].pc = "pwKick" /\ DeleteSessions(SessionsOf(cgi[p].tgt)) /\ \E r : Become(p, r)
    BY <1>6 DEF PasswdKick, KickTarget, Goto
  <2>2. \A s \in Sids : sessions[s].user = cgi[p].tgt => s \in SessionsOf(cgi[p].tgt)
    BY DEF SessionsOf
  <2> QED
    BY <2>1, <2>2, OthersSame, KickDone
<1>7. ASSUME NEW p \in Procs, ChangeUpdate(p) PROVE OpenSessionsKicked'
  <2>1. cgi[p].pc = "chUpdate"
    BY <1>7 DEF ChangeUpdate
  <2>2. CASE SetPassword(p, cgi[p].uid, cgi[p].pw, cgi[p].sid, [cgi[p] EXCEPT !.pc = "chKick"])
    <3> DEFINE next == [cgi[p] EXCEPT !.pc = "chKick"]
    <3>1. next.pc = "chKick" /\ next.uid = cgi[p].uid /\ next.sid = cgi[p].sid
      BY DEF TypeOK, Request
    <3> HIDE DEF next
    <3>2. SetPassword(p, cgi[p].uid, cgi[p].pw, cgi[p].sid, next)
      BY <2>2 DEF next
    <3> QED
      BY <2>1, <3>1, <3>2, SetPasswordKicks
  <2>3. CASE Goto(p, "chKick") /\ UNCHANGED <<users, sessions>>
    BY <2>1, <2>3, OthersSame, KickKeeps DEF Goto
  <2> QED
    BY <1>7, <2>2, <2>3 DEF ChangeUpdate
<1>8. ASSUME NEW p \in Procs, ChangeKick(p) PROVE OpenSessionsKicked'
  <2>1. /\ cgi[p].pc = "chKick" /\ DeleteSessions(SessionsOf(cgi[p].uid) \ {cgi[p].sid})
        /\ \E r : Become(p, r)
    BY <1>8 DEF ChangeKick, Goto
  <2>2. \A s \in Sids : sessions[s].user = cgi[p].uid /\ s # cgi[p].sid
                          => s \in SessionsOf(cgi[p].uid) \ {cgi[p].sid}
    BY DEF SessionsOf
  <2> QED
    BY <2>1, <2>2, OthersSame, KickDone
<1>9. ASSUME NEW p \in Procs, Kill(p) PROVE FALSE
  BY <1>9 DEF Kill
<1>10. CASE SetClock \/ UNCHANGED vars
  BY <1>10 DEF SetClock, vars, OpenSessionsKicked, KickPending
<1> QED
  BY <1>1, <1>2, <1>3, <1>4, <1>5, <1>6, <1>7, <1>8, <1>9, <1>10 DEF Next

(* As long as requests are not killed half way, a session that was open when *)
(* its user's password was replaced is gone once the replacing requests are  *)
(* through, however many of them cross.                                      *)
THEOREM ReplacedPasswordKicks ==
  ASSUME ~KillAllowed
  PROVE  Spec => []OpenSessionsKicked
<1>1. Init => OpenSessionsKicked
  BY DEF Init, OpenSessionsKicked, NoSession
<1>2. TypeOK /\ OpenSessionsKicked /\ [Next]_vars => OpenSessionsKicked'
  BY KickStep
<1> QED
  BY <1>1, <1>2, TypeCorrect, PTL DEF Spec

-----------------------------------------------------------------------------
(* The audit row of a deletion                                              *)

(* A request that is past the audit row of users_delete has logged the       *)
(* deletion, or its target is gone.                                          *)
LoggedOK(r) ==
    /\ r.op = "delete" => r.pc \in {"delAudit", "delete", "reply", "close"}
    /\ r.pc \in {"delAudit", "delete"} => r.tgt <= seq
    /\ r.pc = "delete" /\ r.tgt \in Present => r.logged
    /\ r.pc = "reply" /\ r.op = "delete" => r.logged

LoggedInv == \A p \in Procs : LoggedOK(cgi[p])

(* A row that is gone does not come back under its id.                       *)
GoneStays == seq <= seq' /\ \A u \in 0..seq : u \in Present' => u \in Present

(* Whatever the users table does otherwise, what was logged stays so.        *)
LEMMA LoggedStays ==
  ASSUME TypeOK, GoneStays, seq' \in 0..MaxUid, NEW r \in Request, LoggedOK(r)
  PROVE  LoggedOK(r)'
<1>1. seq \in Nat /\ seq' \in Nat /\ r.tgt \in Nat
  BY RequestFields, BoundAssumption DEF TypeOK
<1> QED
  BY <1>1 DEF GoneStays, LoggedOK

(* A step of p leaves the others as they are.                                *)
LEMMA LoggedOne ==
  ASSUME TypeOK, LoggedInv, GoneStays, seq' \in 0..MaxUid, NEW p \in Procs,
         \A q \in Procs \ {p} : cgi'[q] = cgi[q],
         LoggedOK(cgi[p])'
  PROVE  LoggedInv'
<1>1. ASSUME NEW q \in Procs \ {p} PROVE LoggedOK(cgi[q])'
  <2>1. cgi[q] \in Request /\ LoggedOK(cgi[q]) /\ cgi'[q] = cgi[q]
    BY DEF TypeOK, LoggedInv
  <2>2. PICK r \in Request : r = cgi[q]
    BY <2>1
  <2>3. LoggedOK(r)'
    BY <2>1, <2>2, LoggedStays
  <2> QED
    BY <2>1, <2>2, <2>3 DEF LoggedOK
<1> QED
  BY <1>1 DEF LoggedInv

(* A request that has nothing to do with a deletion                          *)
LEMMA LoggedOther ==
  ASSUME NEW p \in Procs, cgi'[p].op # "delete", cgi'[p].pc \notin {"delAudit", "delete"}
  PROVE  LoggedOK(cgi[p])'
  BY DEF LoggedOK

(* The locals of a request with other values in some fields                  *)
LEMMA OpFields ==
  ASSUME NEW r \in Request, NEW pc, NEW op, NEW t, NEW x, NEW pw, NEW b
  PROVE  /\ [r EXCEPT !.pc = pc].pc = pc /\ [r EXCEPT !.pc = pc].op = r.op
         /\ [r EXCEPT !.pc = pc].logged = r.logged /\ [r EXCEPT !.pc = pc].tgt = r.tgt
         /\ [r EXCEPT !.pc = pc, !.op = op, !.tgt = t].pc = pc
         /\ [r EXCEPT !.pc = pc, !.op = op, !.tgt = t].op = op
         /\ [r EXCEPT !.pc = pc, !.op = op, !.tgt = t].tgt = t
         /\ [r EXCEPT !.pc = pc, !.op = op, !.tgt = t, !.en = x].pc = pc
         /\ [r EXCEPT !.pc = pc, !.op = op, !.tgt = t, !.en = x].op = op
         /\ [r EXCEPT !.pc = pc, !.op = op, !.tgt = t, !.name = x].pc = pc
         /\ [r EXCEPT !.pc = pc, !.op = op, !.tgt = t, !.name = x].op = op
         /\ [r EXCEPT !.pw = pw, !.pc = pc].pc = pc /\ [r EXCEPT !.pw = pw, !.pc = pc].op = r.op
         /\ [r EXCEPT !.pc = pc, !.pw = pw].pc = pc /\ [r EXCEPT !.pc = pc, !.pw = pw].op = r.op
         /\ [r EXCEPT !.logged = b, !.pc = pc].pc = pc
         /\ [r EXCEPT !.logged = b, !.pc = pc].op = r.op
         /\ [r EXCEPT !.logged = b, !.pc = pc].tgt = r.tgt
         /\ [r EXCEPT !.logged = b, !.pc = pc].logged = b
  BY DEF Request

(* Rows appear only under ids never given out.                               *)
LEMMA RowsGone ==
  ASSUME TypeOK, RowsInv, [Next]_vars
  PROVE  GoneStays
<1>0. seq \in Nat /\ users \in [Uid -> UserRow]
  BY BoundAssumption DEF TypeOK
<1>1. CASE users' = users /\ seq' = seq
  BY <1>0, <1>1 DEF GoneStays, Present
<1>2. CASE seq < MaxUid /\ \E row : InsertUser(row)
  <2>1. seq' = seq + 1 /\ \A u \in Uid : u # seq + 1 => users'[u] = users[u]
    BY <1>0, <1>2 DEF InsertUser
  <2> QED
    BY <1>0, <2>1 DEF GoneStays, Present
<1>3. CASE seq' = seq /\ \A u \in Uid : users'[u].role # "none" => users[u].role # "none"
  BY <1>0, <1>3 DEF GoneStays, Present
<1>4. ASSUME NEW p \in Procs,
             \/ DbInitCheck(p) \/ LoginVerify(p) \/ auth_session_create(p) \/ Logout(p)
             \/ GateSession(p) \/ GatePolicy(p) \/ ServeOrRefuse(p) \/ DeleteSelect(p)
             \/ ToggleSelect(p) \/ PasswdKick(p) \/ ChangeName(p) \/ ChangeLogin(p)
             \/ ChangeHash(p) \/ ChangeKick(p) \/ Audit(p) \/ auth_cleanup(p) \/ Kill(p)
      PROVE  GoneStays
  BY <1>1, <1>4 DEF DbInitCheck, LoginVerify, auth_session_create, Logout, GateSession,
     GatePolicy, ServeOrRefuse, DeleteSelect, ToggleSelect, PasswdKick, ChangeName,
     ChangeLogin, ChangeHash, ChangeKick, Audit, auth_cleanup, Kill
<1>5. ASSUME NEW p \in Procs, DbInitInsert(p) \/ CreateInsert(p) PROVE GoneStays
  BY <1>1, <1>2, <1>5 DEF DbInitInsert, CreateInsert
<1>6. ASSUME NEW p \in Procs, DbInitUpdate(p) PROVE GoneStays
  <2>1. \A u \in Uid : users'[u].role = users[u].role
    BY <1>0, <1>6 DEF DbInitUpdate, UserRow
  <2> QED
    BY <1>3, <1>6, <2>1 DEF DbInitUpdate
<1>7. ASSUME NEW p \in Procs, DeleteUser(p) PROVE GoneStays
  <2>1. seq' = seq /\ \A u \in Uid : users'[u] = users[u] \/ users'[u] = NoUser
    BY <1>0, <1>7 DEF DeleteUser
  <2> QED
    BY <1>3, <2>1 DEF NoUser
<1>8. ASSUME NEW p \in Procs, ToggleUpdate(p) PROVE GoneStays
  <2>1. seq' = seq /\ \A u \in Uid : users'[u].role = users[u].role
    BY <1>0, <1>8 DEF ToggleUpdate, UserRow
  <2> QED
    BY <1>3, <2>1
<1>9. ASSUME NEW p \in Procs, PasswdUpdate(p) \/ ChangeUpdate(p) PROVE GoneStays
  <2>1. seq' = seq
    BY <1>9 DEF PasswdUpdate, ChangeUpdate
  <2>2. \/ users' = users
        \/ \E t \in Uid : \E pw : users' = [users EXCEPT ![t].pw = pw, ![t].changed = now]
    BY <1>9 DEF PasswdUpdate, ChangeUpdate, SetPassword, Present
  <2>3. ASSUME NEW t \in Uid, NEW pw,
               users' = [users EXCEPT ![t].pw = pw, ![t].changed = now]
        PROVE  \A u \in Uid : users'[u].role = users[u].role
    <3>1. users' = [users EXCEPT ![t] = [users[t] EXCEPT !.pw = pw, !.changed = now]]
      BY <1>0, <2>3
    <3>2. [users[t] EXCEPT !.pw = pw, !.changed = now].role = users[t].role
      BY <1>0 DEF UserRow
    <3> QED
      BY <1>0, <3>1, <3>2
  <2> QED
    BY <1>1, <1>3, <2>1, <2>2, <2>3
<1>10. CASE SetClock \/ UNCHANGED vars
  BY <1>1, <1>10 DEF SetClock, vars
<1> QED
  BY <1>4, <1>5, <1>6, <1>7, <1>8, <1>9, <1>10 DEF Next

(* A statement that moves p to locals r, told by their fields                *)
LEMMA LoggedBecome ==
  ASSUME TypeOK, LoggedInv, GoneStays, seq' \in 0..MaxUid, NEW p \in Procs,
         NEW r, Become(p, r), r.op # "delete", r.pc \notin {"delAudit", "delete"}
  PROVE  LoggedInv'
<1>1. cgi'[p] = r /\ \A q \in Procs \ {p} : cgi'[q] = cgi[q]
  BY DEF TypeOK, Become
<1> QED
  BY <1>1, LoggedOther, LoggedOne

(* A statement that moves p on to a step that is no step of a deletion, or   *)
(* to the end                                                                *)
LEMMA LoggedGoto ==
  ASSUME TypeOK, LoggedInv, GoneStays, seq' \in 0..MaxUid, NEW p \in Procs, NEW pc, Goto(p, pc),
         pc = "close" \/ (/\ cgi[p].pc \notin {"delAudit", "delete", "reply", "close"}
                          /\ pc \notin {"delAudit", "delete"})
  PROVE  LoggedInv'
<1>0. cgi[p] \in Request /\ LoggedOK(cgi[p])
  BY DEF TypeOK, LoggedInv
<1>1. /\ cgi'[p].pc = pc /\ cgi'[p].op = cgi[p].op
      /\ \A q \in Procs \ {p} : cgi'[q] = cgi[q]
  BY <1>0, OpFields DEF TypeOK, Goto, Become
<1>2. LoggedOK(cgi[p])'
  BY <1>0, <1>1 DEF LoggedOK
<1> QED
  BY <1>1, <1>2, LoggedOne

(* A password update of a request that is no deletion                        *)
LEMMA LoggedPassword ==
  ASSUME TypeOK, LoggedInv, GoneStays, seq' \in 0..MaxUid, NEW p \in Procs,
         NEW t, NEW pw, NEW keep, NEW next, SetPassword(p, t, pw, keep, next),
         next.op # "delete", next.pc \notin {"delAudit", "delete"}
  PROVE  LoggedInv'
<1>1. cgi'[p] = next
  BY DEF SetPassword
<1>2. ASSUME NEW q \in Procs \ {p} PROVE LoggedOK(cgi[q])'
  <2>1. cgi[q] \in Request /\ LoggedOK(cgi[q])
    BY DEF TypeOK, LoggedInv
  <2>2. PICK r \in Request : r = cgi[q]
    BY <2>1
  <2>3. LoggedOK(r)'
    BY <2>1, <2>2, LoggedStays
  <2>4. \A x \in Request, b \in BOOLEAN : LET y == [x EXCEPT !.old = b] IN
           y.pc = x.pc /\ y.tgt = x.tgt /\ y.op = x.op /\ y.logged = x.logged
    BY DEF Request
  <2>5. cgi'[q] = cgi[q] \/ cgi'[q] = [cgi[q] EXCEPT !.old = TRUE]
    BY DEF SetPassword
  <2>6. /\ cgi'[q].pc = cgi[q].pc /\ cgi'[q].tgt = cgi[q].tgt
        /\ cgi'[q].op = cgi[q].op /\ cgi'[q].logged = cgi[q].logged
    BY <2>1, <2>4, <2>5, Zenon
  <2> QED
    BY <2>2, <2>3, <2>6 DEF LoggedOK
<1>3. LoggedOK(cgi[p])'
  BY <1>1, LoggedOther
<1> QED
  BY <1>2, <1>3 DEF LoggedInv

(* Every statement of every request                                          *)
LEMMA LoggedStep ==
  ASSUME TypeOK, RowsInv, LoggedInv, seq' \in 0..MaxUid, [Next]_vars
  PROVE  LoggedInv'
<1>0. GoneStays /\ \A p \in Procs : cgi[p] \in Request /\ LoggedOK(cgi[p])
  BY RowsGone DEF TypeOK, LoggedInv
<1>1. ASSUME NEW p \in Procs,
             DbInitUpdate(p) \/ DbInitInsert(p) \/ auth_session_create(p) \/ Logout(p)
             \/ ServeOrRefuse(p) \/ PasswdKick(p) \/ ChangeKick(p) \/ GatePolicy(p)
             \/ ChangeHash(p) \/ ToggleUpdate(p)
      PROVE  LoggedInv'
  <2>1. CASE Goto(p, "close")
    BY <1>0, <2>1, LoggedGoto
  <2>2. CASE \E pc \in {"authed", "chUpdate", "togAudit", "pwAudit", "chAudit"} :
               /\ Goto(p, pc)
               /\ cgi[p].pc \in {"policy", "chHash", "togUpdate", "pwKick", "chKick"}
    BY <1>0, <2>2, LoggedGoto
  <2>3. CASE GatePolicy(p)
    BY <2>1, <2>2, <2>3 DEF GatePolicy
  <2>4. CASE ChangeHash(p)
    BY <2>1, <2>2, <2>4 DEF ChangeHash
  <2>5. CASE ToggleUpdate(p)
    BY <2>1, <2>2, <2>5 DEF ToggleUpdate
  <2>6. CASE PasswdKick(p) \/ ChangeKick(p)
    BY <2>2, <2>6 DEF PasswdKick, ChangeKick
  <2> QED
    BY <1>1, <2>1, <2>3, <2>4, <2>5, <2>6 DEF DbInitUpdate, DbInitInsert,
       auth_session_create, Logout, ServeOrRefuse
<1>2. ASSUME NEW p \in Procs, Goto(p, "close") PROVE LoggedInv'
  BY <1>0, <1>2, LoggedGoto
<1>3. ASSUME NEW p \in Procs, auth_cleanup(p) \/ Kill(p) PROVE LoggedInv'
  BY <1>0, <1>3, LoggedBecome DEF auth_cleanup, Kill, Idle
<1>4. ASSUME NEW p \in Procs, DbInitCheck(p) PROVE LoggedInv'
  <2>1. PICK pw \in Passwords, pc \in {"dbUpdate", "dbInsert"} :
          Become(p, [cgi[p] EXCEPT !.pw = pw, !.pc = pc])
    BY <1>4 DEF DbInitCheck
  <2>2. cgi[p].op # "delete"
    BY <1>0, <1>4 DEF DbInitCheck, LoggedOK
  <2> DEFINE r == [cgi[p] EXCEPT !.pw = pw, !.pc = pc]
  <2>3. r.pc = pc /\ r.op = cgi[p].op
    BY <1>0, OpFields
  <2> HIDE DEF r
  <2>4. Become(p, r)
    BY <2>1 DEF r
  <2> QED
    BY <1>0, <2>2, <2>3, <2>4, LoggedBecome
<1>5. ASSUME NEW p \in Procs, LoginVerify(p) PROVE LoggedInv'
  <2>1. CASE \E n, u, s : Become(p, [Idle EXCEPT !.pc = "loginInsert", !.name = n,
                                          !.uid = u, !.sid = s])
    <3>1. PICK n, u, s : Become(p, [Idle EXCEPT !.pc = "loginInsert", !.name = n,
                                          !.uid = u, !.sid = s])
      BY <2>1
    <3> DEFINE r == [Idle EXCEPT !.pc = "loginInsert", !.name = n, !.uid = u, !.sid = s]
    <3>2. r.pc = "loginInsert" /\ r.op = ""
      BY DEF Idle
    <3> HIDE DEF r
    <3>3. Become(p, r)
      BY <3>1 DEF r
    <3> QED
      BY <1>0, <3>2, <3>3, LoggedBecome
  <2> QED
    BY <1>2, <1>5, <2>1 DEF LoginVerify
<1>6. ASSUME NEW p \in Procs, GateSession(p) PROVE LoggedInv'
  <2>1. CASE \E pc \in {"escape", "policy"} : \E s, u, n, role :
               Become(p, [Idle EXCEPT !.pc = pc, !.sid = s, !.uid = u, !.name = n, !.role = role])
    <3>0. PICK pc \in {"escape", "policy"} : \E s, u, n, role :
               Become(p, [Idle EXCEPT !.pc = pc, !.sid = s, !.uid = u, !.name = n, !.role = role])
      BY <2>1
    <3>1. PICK s, u, n, role :
               Become(p, [Idle EXCEPT !.pc = pc, !.sid = s, !.uid = u, !.name = n, !.role = role])
      BY <3>0
    <3> DEFINE r == [Idle EXCEPT !.pc = pc, !.sid = s, !.uid = u, !.name = n, !.role = role]
    <3>2. r.pc = pc /\ r.op = ""
      BY DEF Idle
    <3> HIDE DEF r
    <3>3. Become(p, r)
      BY <3>1 DEF r
    <3> QED
      BY <1>0, <3>2, <3>3, LoggedBecome
  <2> QED
    BY <1>2, <1>6, <2>1 DEF GateSession
<1>7. ASSUME NEW p \in Procs, CreateInsert(p) \/ ToggleSelect(p) \/ ChangeName(p) PROVE LoggedInv'
  <2>1. CASE \E t : Become(p, [cgi[p] EXCEPT !.pc = "createAudit", !.op = "create", !.tgt = t])
    <3>1. PICK t : Become(p, [cgi[p] EXCEPT !.pc = "createAudit", !.op = "create", !.tgt = t])
      BY <2>1
    <3> DEFINE r == [cgi[p] EXCEPT !.pc = "createAudit", !.op = "create", !.tgt = t]
    <3>2. r.pc = "createAudit" /\ r.op = "create"
      BY <1>0, OpFields
    <3> HIDE DEF r
    <3>3. Become(p, r)
      BY <3>1 DEF r
    <3> QED
      BY <1>0, <3>2, <3>3, LoggedBecome
  <2>2. CASE \E t, en : Become(p, [cgi[p] EXCEPT !.pc = "togUpdate", !.op = "toggle",
                                                 !.tgt = t, !.en = en])
    <3>1. PICK t, en : Become(p, [cgi[p] EXCEPT !.pc = "togUpdate", !.op = "toggle",
                                                !.tgt = t, !.en = en])
      BY <2>2
    <3> DEFINE r == [cgi[p] EXCEPT !.pc = "togUpdate", !.op = "toggle", !.tgt = t, !.en = en]
    <3>2. r.pc = "togUpdate" /\ r.op = "toggle"
      BY <1>0, OpFields
    <3> HIDE DEF r
    <3>3. Become(p, r)
      BY <3>1 DEF r
    <3> QED
      BY <1>0, <3>2, <3>3, LoggedBecome
  <2>3. CASE \E t, n : Become(p, [cgi[p] EXCEPT !.pc = "chLogin", !.op = "change",
                                                !.tgt = t, !.name = n])
    <3>1. PICK t, n : Become(p, [cgi[p] EXCEPT !.pc = "chLogin", !.op = "change",
                                               !.tgt = t, !.name = n])
      BY <2>3
    <3> DEFINE r == [cgi[p] EXCEPT !.pc = "chLogin", !.op = "change", !.tgt = t, !.name = n]
    <3>2. r.pc = "chLogin" /\ r.op = "change"
      BY <1>0, OpFields
    <3> HIDE DEF r
    <3>3. Become(p, r)
      BY <3>1 DEF r
    <3> QED
      BY <1>0, <3>2, <3>3, LoggedBecome
  <2> QED
    BY <1>2, <1>7, <2>1, <2>2, <2>3 DEF CreateInsert, ToggleSelect, ChangeName
<1>8. ASSUME NEW p \in Procs, DeleteSelect(p) PROVE LoggedInv'
  <2>1. CASE \E t \in Present : Become(p, [cgi[p] EXCEPT !.pc = "delAudit", !.op = "delete",
                                                         !.tgt = t])
    <3>1. PICK t \in Present : Become(p, [cgi[p] EXCEPT !.pc = "delAudit", !.op = "delete",
                                                        !.tgt = t])
      BY <2>1
    <3> DEFINE r == [cgi[p] EXCEPT !.pc = "delAudit", !.op = "delete", !.tgt = t]
    <3>2. r.pc = "delAudit" /\ r.op = "delete" /\ r.tgt = t
      BY <1>0, OpFields
    <3> HIDE DEF r
    <3>3. cgi'[p] = r /\ \A q \in Procs \ {p} : cgi'[q] = cgi[q]
      BY <3>1 DEF TypeOK, Become, r
    <3>4. t <= seq /\ seq' = seq
      BY <1>8, BoundAssumption DEF DeleteSelect, RowsInv, TableOK, Present, TypeOK, Uid
    <3>5. LoggedOK(cgi[p])'
      BY <3>2, <3>3, <3>4 DEF LoggedOK
    <3> QED
      BY <1>0, <3>3, <3>5, LoggedOne
  <2>2. DeleteOrder("select") = "delAudit"
    BY DEF DeleteOrder
  <2> QED
    BY <1>2, <1>8, <2>1, <2>2 DEF DeleteSelect
<1>9. ASSUME NEW p \in Procs, DeleteUser(p) PROVE LoggedInv'
  <2>1. CASE cgi[p].tgt \in Present /\ Goto(p, "reply")
    <3>1. /\ cgi'[p].pc = "reply" /\ cgi'[p].logged = cgi[p].logged
          /\ \A q \in Procs \ {p} : cgi'[q] = cgi[q]
      BY <1>0, <2>1, OpFields DEF TypeOK, Goto, Become
    <3>2. cgi[p].logged
      BY <1>0, <1>9, <2>1 DEF DeleteUser, LoggedOK
    <3>3. LoggedOK(cgi[p])'
      BY <3>1, <3>2 DEF LoggedOK
    <3> QED
      BY <1>0, <3>1, <3>3, LoggedOne
  <2>2. DeleteOrder("delete") = "reply"
    BY DEF DeleteOrder
  <2> QED
    BY <1>2, <1>9, <2>1, <2>2 DEF DeleteUser
<1>10. ASSUME NEW p \in Procs, PasswdUpdate(p) PROVE LoggedInv'
  <2>1. CASE \E t, pw : SetPassword(p, t, pw, NoSid,
                          [cgi[p] EXCEPT !.pc = "pwKick", !.op = "passwd", !.tgt = t])
    <3>1. PICK t, pw : SetPassword(p, t, pw, NoSid,
                         [cgi[p] EXCEPT !.pc = "pwKick", !.op = "passwd", !.tgt = t])
      BY <2>1
    <3> DEFINE r == [cgi[p] EXCEPT !.pc = "pwKick", !.op = "passwd", !.tgt = t]
    <3>2. r.pc = "pwKick" /\ r.op = "passwd"
      BY <1>0, OpFields
    <3> HIDE DEF r
    <3>3. SetPassword(p, t, pw, NoSid, r)
      BY <3>1 DEF r
    <3> QED
      BY <1>0, <3>2, <3>3, LoggedPassword
  <2> QED
    BY <1>2, <1>10, <2>1 DEF PasswdUpdate
<1>11. ASSUME NEW p \in Procs, ChangeUpdate(p) PROVE LoggedInv'
  <2>0. cgi[p].pc = "chUpdate" /\ cgi[p].op # "delete"
    BY <1>0, <1>11 DEF ChangeUpdate, LoggedOK
  <2>1. CASE SetPassword(p, cgi[p].uid, cgi[p].pw, cgi[p].sid, [cgi[p] EXCEPT !.pc = "chKick"])
    <3> DEFINE r == [cgi[p] EXCEPT !.pc = "chKick"]
    <3>2. r.pc = "chKick" /\ r.op # "delete"
      BY <1>0, <2>0, OpFields
    <3> HIDE DEF r
    <3>3. SetPassword(p, cgi[p].uid, cgi[p].pw, cgi[p].sid, r)
      BY <2>1 DEF r
    <3> QED
      BY <1>0, <3>2, <3>3, LoggedPassword
  <2>2. CASE Goto(p, "chKick")
    BY <1>0, <2>0, <2>2, LoggedGoto
  <2> QED
    BY <1>11, <2>1, <2>2 DEF ChangeUpdate
<1>12. ASSUME NEW p \in Procs, ChangeLogin(p) PROVE LoggedInv'
  <2>1. CASE \E new : Become(p, [cgi[p] EXCEPT !.pc = "chHash", !.pw = new])
    <3>1. PICK new : Become(p, [cgi[p] EXCEPT !.pc = "chHash", !.pw = new])
      BY <2>1
    <3> DEFINE r == [cgi[p] EXCEPT !.pc = "chHash", !.pw = new]
    <3>2. r.pc = "chHash" /\ r.op = cgi[p].op
      BY <1>0, OpFields
    <3> HIDE DEF r
    <3>3. Become(p, r) /\ cgi[p].op # "delete"
      BY <1>0, <1>12, <3>1 DEF r, ChangeLogin, LoggedOK
    <3> QED
      BY <1>0, <3>2, <3>3, LoggedBecome
  <2> QED
    BY <1>2, <1>12, <2>1 DEF ChangeLogin
<1>13. ASSUME NEW p \in Procs, Audit(p) PROVE LoggedInv'
  <2> DEFINE b == auth_audit_log(cgi[p].uid, cgi[p].tgt)
             pc == IF cgi[p].pc = "delAudit" THEN DeleteOrder("delAudit") ELSE "reply"
             r == [cgi[p] EXCEPT !.logged = b, !.pc = pc]
  <2>1. pc = IF cgi[p].pc = "delAudit" THEN "delete" ELSE "reply"
    BY DEF DeleteOrder
  <2>2. Become(p, r) /\ seq' = seq /\ users' = users
    BY <1>13 DEF Audit
  <2>3. r.pc = pc /\ r.op = cgi[p].op /\ r.tgt = cgi[p].tgt /\ r.logged = b
    BY <1>0, OpFields
  <2>4. cgi[p].pc = "delAudit" /\ cgi[p].tgt \in Present => b
    <3>1. cgi[p].pc = "delAudit" => cgi[p].uid = 1 /\ seq > 0
      BY DEF RowsInv, RequestOK, RootSteps
    <3>2. seq > 0 => 1 \in Present
      BY BoundAssumption DEF RowsInv, TableOK, Present, TypeOK, Uid
    <3> QED
      BY <3>1, <3>2 DEF auth_audit_log
  <2> HIDE DEF r, b, pc
  <2>5. cgi'[p] = r /\ (\A q \in Procs \ {p} : cgi'[q] = cgi[q]) /\ Present' = Present
    BY <2>2 DEF TypeOK, Become, Present
  <2>6. CASE cgi[p].pc = "delAudit"
    <3>1. LoggedOK(cgi[p])'
      BY <1>0, <2>1, <2>2, <2>3, <2>4, <2>5, <2>6 DEF LoggedOK
    <3> QED
      BY <1>0, <2>5, <3>1, LoggedOne
  <2>7. CASE cgi[p].pc # "delAudit"
    <3>1. cgi[p].op # "delete" /\ r.pc = "reply"
      BY <1>0, <1>13, <2>1, <2>3, <2>7 DEF Audit, AuditSteps, LoggedOK
    <3> QED
      BY <1>0, <2>2, <2>3, <3>1, LoggedBecome
  <2> QED
    BY <2>6, <2>7
<1>14. CASE SetClock \/ UNCHANGED vars
  BY <1>14 DEF SetClock, vars, LoggedInv, LoggedOK, Present
<1> QED
  BY <1>1, <1>3, <1>4, <1>5, <1>6, <1>7, <1>8, <1>9, <1>10, <1>11, <1>12, <1>13, <1>14 DEF Next

(* users_delete reports success only for a deletion whose audit row was      *)
(* accepted, whatever other requests do between its statements and wherever  *)
(* a request is cut off.                                                     *)
THEOREM DeletionsLogged == Spec => []DeleteLogged
<1>1. Init => LoggedInv
  <2>1. Idle.pc = "idle" /\ Idle.op = ""
    BY DEF Idle
  <2> QED
    BY <2>1 DEF Init, LoggedInv, LoggedOK
<1>2. TypeOK /\ RowsInv /\ LoggedInv /\ [Next]_vars => LoggedInv'
  <2>1. TypeOK /\ [Next]_vars => seq' \in 0..MaxUid
    BY TypeStep DEF TypeOK
  <2> QED
    BY <2>1, LoggedStep
<1>3. LoggedInv => DeleteLogged
  BY DEF LoggedInv, LoggedOK, DeleteLogged
<1> QED
  BY <1>1, <1>2, <1>3, TypeInit, TypeStep, AuthInit, AuthStep, PTL DEF Spec

=============================================================================
