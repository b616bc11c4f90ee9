------------------------------ MODULE WebAuth ------------------------------
(***************************************************************************)
(* The account and session database of the web administration interface    *)
(* (src/src/auth.c, gate.c, users.c) and the CGI programs that use it.      *)
(*                                                                         *)
(* Every HTTP request is a process of its own.  The processes share one     *)
(* SQLite database and use no transaction: each SQL statement commits by    *)
(* itself.  One action below is therefore one SQL statement together with   *)
(* the local computation up to the next statement, and the requests          *)
(* interleave between statements.                                           *)
(*                                                                         *)
(* Left out: the columns no code path decides on (created_at, updated_at,   *)
(* last_login_at, client_ip, detail) and the contents of audit_log, which   *)
(* the program only ever writes; what is kept of an audit row is whether    *)
(* SQLite accepted it (field logged of the request).                        *)
(***************************************************************************)
EXTENDS Naturals, FiniteSets

CONSTANTS
    Procs,          \* request processes that may run at the same time
    Sids,           \* session ids the random generator can issue
    Names,          \* user names that may be typed into a form
    RootName,       \* the name db_init gives the root account
    Strong,         \* passwords auth_password_policy_ok accepts
    Weak,           \* passwords it refuses
    NoPw, NoSid, NoName,    \* null values
    MaxUid,         \* bound on users.id
    MaxNow,         \* bound on the clock
    SessionExpire,  \* SESSION_EXPIRE
    PasswordExpire, \* PASSWORD_EXPIRE_DAYS, in clock units
    KillAllowed     \* may a request process die between two statements?

ASSUME BoundAssumption ==
    /\ MaxUid \in Nat \ {0}
    /\ MaxNow \in Nat \ {0}
    /\ SessionExpire \in Nat \ {0}
    /\ PasswordExpire \in Nat \ {0}
    /\ KillAllowed \in BOOLEAN

ASSUME NullAssumption ==
    /\ RootName \in Names
    /\ NoName \notin Names
    /\ NoPw \notin Strong \cup Weak
    /\ NoSid \notin Sids
    /\ Strong \cap Weak = {}

VARIABLES
    users,      \* table users: id -> row, role "none" where there is no row
    seq,        \* sqlite_sequence: the largest users.id ever given out
    sessions,   \* table sessions: sid -> row, user 0 where there is no row
    issued,     \* session ids issued so far (a random id is never issued twice)
    now,        \* time(NULL)
    cgi         \* the request processes

vars == <<users, seq, sessions, issued, now, cgi>>

Uid == 1..MaxUid
Passwords == Strong \cup Weak

UserRow ==
    [ name    : Names \cup {NoName},
      role    : {"none", "root", "admin"},
      pw      : Passwords \cup {NoPw},
      changed : Nat,
      enabled : BOOLEAN,
      by      : 0..MaxUid ]

NoUser == [name |-> NoName, role |-> "none", pw |-> NoPw, changed |-> 0,
           enabled |-> FALSE, by |-> 0]

(* mark is history: is the session's password still the user's, was the      *)
(* session in the table when the password was replaced, or was it inserted   *)
(* later by a login that had been checked against the old one.               *)
SessionRow == [user : 0..MaxUid, expires : Nat,
               mark : {"current", "present", "late"}]

NoSession == [user |-> 0, expires |-> 0, mark |-> "current"]

(* Where a request process stands: the statement it executes next.         *)
Steps == {"idle",
          "policy", "authed", "escape",
          "createAudit", "delAudit", "delete", "togUpdate", "togAudit",
          "pwKick", "pwAudit",
          "chLogin", "chHash", "chUpdate", "chKick", "chAudit",
          "loginInsert", "dbUpdate", "dbInsert",
          "reply", "close"}

(* The locals of a request: the SessionInfo the gate filled in (sid, uid,   *)
(* name, role), the parameters and what earlier statements returned.        *)
(* logged and old are history: was the audit row accepted, and has the      *)
(* password this login was checked against been replaced since.             *)
Request ==
    [ pc     : Steps,
      op     : {"", "create", "delete", "toggle", "passwd", "change"},
      sid    : Sids \cup {NoSid},
      uid    : 0..MaxUid,
      name   : Names \cup {NoName},
      role   : {"none", "root", "admin"},
      tgt    : 0..MaxUid,
      pw     : Passwords \cup {NoPw},
      en     : BOOLEAN,
      logged : BOOLEAN,
      old    : BOOLEAN ]

Idle == [pc |-> "idle", op |-> "", sid |-> NoSid, uid |-> 0, name |-> NoName,
         role |-> "none", tgt |-> 0, pw |-> NoPw, en |-> FALSE,
         logged |-> FALSE, old |-> FALSE]

Init ==
    /\ users = [u \in Uid |-> NoUser]
    /\ seq = 0
    /\ sessions = [s \in Sids |-> NoSession]
    /\ issued = {}
    /\ now = 1
    /\ cgi = [p \in Procs |-> Idle]

-----------------------------------------------------------------------------
(* What the SQL statements read.                                           *)

Present == {u \in Uid : users[u].role # "none"}

NameTaken(n) == \E u \in Present : users[u].name = n

(* SELECT ... FROM sessions JOIN users ... AND expires_at > now, enabled    *)
auth_session_verify(s) ==
    /\ sessions[s].user \in Present
    /\ sessions[s].expires > now
    /\ users[sessions[s].user].enabled

(* A stored hash matches the password it was made from and no other.        *)
auth_verify_password(pw, stored) == pw = stored

(* The users the credentials match: at most one, names are UNIQUE.          *)
auth_user_login(n, pw) ==
    {u \in Present : /\ users[u].name = n
                     /\ users[u].enabled
                     /\ auth_verify_password(pw, users[u].pw)}

(* Mutant: the legacy value 0 is not told apart from a timestamp.            *)
must_change_by_age_only(u) ==
    u \in Present /\ now >= users[u].changed + PasswordExpire

(* No row: the query finds nothing and the caller is not stopped.           *)
auth_user_must_change_password(u) ==
    /\ u \in Present
    /\ \/ users[u].changed = 0
       \/ now >= users[u].changed + PasswordExpire

auth_password_policy_ok(pw) == pw \in Strong

(* Mutant: any logged-in user passes.                                       *)
gate_require_any_role(p) == cgi[p].role # "none"

(* The management CGIs ask for "root"                                       *)
gate_require_role(p) == cgi[p].role = "root"

(* The CSRF token of a session is abstracted to the session itself.         *)
gate_require_csrf(p, token) == token = cgi[p].sid

(* Both foreign keys of audit_log must hold or the row is dropped silently. *)
auth_audit_log(operator, target) == operator \in Present /\ target \in Present

-----------------------------------------------------------------------------
(* What the SQL statements write.                                          *)

(* The request p goes on with the locals r, or only to the statement pc.     *)
Become(p, r) == cgi' = [cgi EXCEPT ![p] = r]

Goto(p, pc) == Become(p, [cgi[p] EXCEPT !.pc = pc])

(* DELETE FROM sessions for the sids of S                                   *)
DeleteSessions(S) ==
    sessions' = [s \in Sids |-> IF s \in S THEN NoSession ELSE sessions[s]]

SessionsOf(u) == {s \in Sids : sessions[s].user = u}

(* Mutant: the foreign key of sessions declared with no delete action       *)
NoCascade(t) == {}

(* The sessions ON DELETE CASCADE removes with user t                       *)
Cascade(t) == SessionsOf(t)

(* Mutant: without AUTOINCREMENT SQLite gives out the largest id plus one.  *)
InsertUserReusingIds(row) ==
    LET id == 1 + Cardinality({i \in Uid : \E u \in Present : i <= u})
    IN  /\ seq' = seq
        /\ users' = [users EXCEPT ![id] = row]

(* INSERT INTO users; the id is AUTOINCREMENT.                              *)
InsertUser(row) ==
    /\ seq' = seq + 1
    /\ users' = [users EXCEPT ![seq + 1] = row]

(* UPDATE users SET password_hash, password_changed_at WHERE id = t; the      *)
(* request continues as next.  The history variables note the sessions and   *)
(* the logins in flight that were authenticated with the password that is    *)
(* replaced now; keep is the session of the request that makes the change.   *)
SetPassword(p, t, pw, keep, next) ==
    /\ users' = [users EXCEPT ![t].pw = pw, ![t].changed = now]
    /\ sessions' = [s \in Sids |-> IF /\ sessions[s].user = t
                                      /\ s # keep
                                      /\ sessions[s].mark = "current"
                                   THEN [sessions[s] EXCEPT !.mark = "present"]
                                   ELSE sessions[s]]
    /\ cgi' = [q \in Procs |->
                 IF q = p THEN next
                 ELSE IF cgi[q].pc = "loginInsert" /\ cgi[q].uid = t
                      THEN [cgi[q] EXCEPT !.old = TRUE]
                      ELSE cgi[q]]

-----------------------------------------------------------------------------
(* db_init: the installer's tool, run from a shell.                         *)

DbInitCheck(p) ==
    /\ cgi[p].pc = "idle"
    /\ \E pw \in Passwords :
         Become(p, [cgi[p] EXCEPT
                      !.pw = pw,
                      !.pc = IF \E u \in Present : users[u].role = "root"
                             THEN "dbUpdate" ELSE "dbInsert"])
    /\ UNCHANGED <<users, seq, sessions, issued, now>>

(* A re-run replaces the root password whatever its strength, restarts the  *)
(* timer and leaves the sessions alone (so no mark is set).                  *)
DbInitUpdate(p) ==
    /\ cgi[p].pc = "dbUpdate"
    /\ users' = [u \in Uid |->
                   IF users[u].role = "root"
                   THEN [users[u] EXCEPT !.pw = cgi[p].pw, !.changed = now]
                   ELSE users[u]]
    /\ Goto(p, "close")
    /\ UNCHANGED <<seq, sessions, issued, now>>

DbInitInsert(p) ==
    /\ cgi[p].pc = "dbInsert"
    /\ IF NameTaken(RootName)
       THEN UNCHANGED <<users, seq>>
       ELSE /\ seq < MaxUid
            /\ InsertUser([name |-> RootName, role |-> "root", pw |-> cgi[p].pw,
                           changed |-> 0, enabled |-> TRUE, by |-> 0])
    /\ Goto(p, "close")
    /\ UNCHANGED <<sessions, issued, now>>

-----------------------------------------------------------------------------
(* login.cgi (POST) and logout.cgi                                          *)

(* The SELECT of auth_user_login; on success the session id is drawn.        *)
LoginVerify(p) ==
    /\ cgi[p].pc = "idle"
    /\ \E n \in Names, pw \in Passwords :
         IF auth_user_login(n, pw) = {}
         THEN Goto(p, "close") /\ UNCHANGED issued
         ELSE \E s \in Sids \ issued, u \in auth_user_login(n, pw) :
                /\ issued' = issued \cup {s}
                /\ Become(p, [Idle EXCEPT !.pc = "loginInsert", !.name = n,
                                          !.uid = u, !.sid = s])
    /\ UNCHANGED <<users, seq, sessions, now>>

(* The user may be gone: the foreign key then refuses the row.              *)
auth_session_create(p) ==
    /\ cgi[p].pc = "loginInsert"
    /\ sessions' = IF cgi[p].uid \in Present
                   THEN [sessions EXCEPT ![cgi[p].sid] =
                           [user |-> cgi[p].uid,
                            expires |-> now + SessionExpire,
                            mark |-> IF cgi[p].old THEN "late" ELSE "current"]]
                   ELSE sessions
    /\ Goto(p, "close")
    /\ UNCHANGED <<users, seq, issued, now>>

Logout(p) ==
    /\ cgi[p].pc = "idle"
    /\ \E s \in Sids : DeleteSessions({s})
    /\ Goto(p, "close")
    /\ UNCHANGED <<users, seq, issued, now>>

-----------------------------------------------------------------------------
(* The request gate: session, then forced change, then role and CSRF.       *)

GateSession(p) ==
    /\ cgi[p].pc = "idle"
    /\ \E s \in Sids, skipPolicy \in BOOLEAN :
         LET u == sessions[s].user IN
         IF auth_session_verify(s)
         THEN Become(p, [Idle EXCEPT
                           !.pc = IF skipPolicy THEN "escape" ELSE "policy",
                           !.sid = s, !.uid = u, !.name = users[u].name,
                           !.role = users[u].role])
         ELSE Goto(p, "close")
    /\ UNCHANGED <<users, seq, sessions, issued, now>>

GatePolicy(p) ==
    /\ cgi[p].pc = "policy"
    /\ Goto(p, IF auth_user_must_change_password(cgi[p].uid)
               THEN "close" ELSE "authed")
    /\ UNCHANGED <<users, seq, sessions, issued, now>>

(* Pages, the user list, and requests refused for role, CSRF or parameters. *)
ServeOrRefuse(p) ==
    /\ cgi[p].pc \in {"authed", "escape"}
    /\ Goto(p, "close")
    /\ UNCHANGED <<users, seq, sessions, issued, now>>

(* The guard of the four management CGIs                                    *)
RootRequest(p) ==
    /\ cgi[p].pc = "authed"
    /\ gate_require_role(p)
    /\ \E token \in Sids : gate_require_csrf(p, token)

-----------------------------------------------------------------------------
(* users_create                                                             *)

CreateInsert(p) ==
    /\ RootRequest(p)
    /\ \E n \in Names, pw \in Passwords :
         /\ auth_password_policy_ok(pw)
         /\ IF NameTaken(n)
            THEN Goto(p, "close") /\ UNCHANGED <<users, seq>>
            ELSE /\ seq < MaxUid
                 /\ InsertUser([name |-> n, role |-> "admin", pw |-> pw,
                                changed |-> now, enabled |-> TRUE,
                                by |-> cgi[p].uid])
                 /\ Become(p, [cgi[p] EXCEPT !.pc = "createAudit",
                                             !.op = "create", !.tgt = seq + 1])
    /\ UNCHANGED <<sessions, issued, now>>

(* Mutant: the audit row is written after the user has been deleted.        *)
DeleteThenAudit(step) ==
    CASE step = "select" -> "delete" [] step = "delete" -> "delAudit"
      [] OTHER -> "reply"

(* The order of the statements of users_delete after its checks              *)
DeleteOrder(step) ==
    CASE step = "select" -> "delAudit" [] step = "delAudit" -> "delete"
      [] OTHER -> "reply"

(* users_delete: look the target up, write the audit row, delete.           *)
DeleteSelect(p) ==
    /\ RootRequest(p)
    /\ \E t \in Uid :
         IF t # cgi[p].uid /\ t \in Present /\ users[t].role # "root"
         THEN Become(p, [cgi[p] EXCEPT !.pc = DeleteOrder("select"),
                                       !.op = "delete", !.tgt = t])
         ELSE Goto(p, "close")
    /\ UNCHANGED <<users, seq, sessions, issued, now>>

(* DELETE FROM users: sessions cascade, created_by of another row blocks.   *)
DeleteUser(p) ==
    /\ cgi[p].pc = "delete"
    /\ LET t == cgi[p].tgt IN
       IF t \in Present /\ \A u \in Present : users[u].by # t
       THEN /\ users' = [users EXCEPT ![t] = NoUser]
            /\ DeleteSessions(Cascade(t))
            /\ Goto(p, DeleteOrder("delete"))
       ELSE Goto(p, "close") /\ UNCHANGED <<users, sessions>>
    /\ UNCHANGED <<seq, issued, now>>

(* Mutant: users_toggle without its first check, self-toggle refused; the    *)
(* last-root count made with the target included.                            *)
ToggleAllowedLoose(p, t, en) ==
    /\ t \in Present
    /\ (~en /\ users[t].role = "root")
         => \E u \in Present : users[u].role = "root" /\ users[u].enabled

(* The checks of users_toggle: not oneself, the target exists, disabling a   *)
(* root leaves another enabled root.  The count is a statement of its own    *)
(* in the code; no request adds or disables a root, so it is read here.      *)
ToggleAllowed(p, t, en) ==
    /\ t # cgi[p].uid
    /\ t \in Present
    /\ (~en /\ users[t].role = "root")
         => \E u \in Present \ {t} : users[u].role = "root" /\ users[u].enabled

ToggleSelect(p) ==
    /\ RootRequest(p)
    /\ \E t \in Uid, en \in BOOLEAN :
         IF ToggleAllowed(p, t, en)
         THEN Become(p, [cgi[p] EXCEPT !.pc = "togUpdate", !.op = "toggle",
                                       !.tgt = t, !.en = en])
         ELSE Goto(p, "close")
    /\ UNCHANGED <<users, seq, sessions, issued, now>>

ToggleUpdate(p) ==
    /\ cgi[p].pc = "togUpdate"
    /\ IF cgi[p].tgt \in Present
       THEN /\ users' = [users EXCEPT ![cgi[p].tgt].enabled = cgi[p].en]
            /\ Goto(p, "togAudit")
       ELSE Goto(p, "close") /\ UNCHANGED users
    /\ UNCHANGED <<seq, sessions, issued, now>>

(* Mutant: the operator's id is passed where the target's is meant          *)
KickOperator(p) == SessionsOf(cgi[p].uid)

(* auth_kick_user_sessions(target, NULL)                                    *)
KickTarget(p) == SessionsOf(cgi[p].tgt)

(* users_passwd: root sets a user's password, then the sessions are kicked. *)
PasswdUpdate(p) ==
    /\ RootRequest(p)
    /\ \E t \in Uid, pw \in Passwords :
         /\ auth_password_policy_ok(pw)
         /\ IF t \in Present
            THEN SetPassword(p, t, pw, NoSid,
                   [cgi[p] EXCEPT !.pc = "pwKick", !.op = "passwd", !.tgt = t])
            ELSE Goto(p, "close") /\ UNCHANGED <<users, sessions>>
    /\ UNCHANGED <<seq, issued, now>>

PasswdKick(p) ==
    /\ cgi[p].pc = "pwKick"
    /\ DeleteSessions(KickTarget(p))
    /\ Goto(p, "pwAudit")
    /\ UNCHANGED <<users, seq, issued, now>>

-----------------------------------------------------------------------------
(* users_change_password, from user_change_pass.cgi                         *)

ChangeName(p) ==
    /\ cgi[p].pc = "escape"
    /\ \E token \in Sids : gate_require_csrf(p, token)
    /\ IF cgi[p].uid \in Present
       THEN Become(p, [cgi[p] EXCEPT !.pc = "chLogin", !.op = "change",
                                     !.tgt = cgi[p].uid,
                                     !.name = users[cgi[p].uid].name])
       ELSE Goto(p, "close")
    /\ UNCHANGED <<users, seq, sessions, issued, now>>

(* The current password is checked by name, the policy on the new one.      *)
ChangeLogin(p) ==
    /\ cgi[p].pc = "chLogin"
    /\ \E old \in Passwords, new \in Passwords :
         IF /\ auth_user_login(cgi[p].name, old) # {}
            /\ auth_password_policy_ok(new)
         THEN Become(p, [cgi[p] EXCEPT !.pc = "chHash", !.pw = new])
         ELSE Goto(p, "close")
    /\ UNCHANGED <<users, seq, sessions, issued, now>>

(* A missing row reads as an empty hash, which no password matches.         *)
ChangeHash(p) ==
    /\ cgi[p].pc = "chHash"
    /\ Goto(p, IF cgi[p].uid \in Present /\ users[cgi[p].uid].pw = cgi[p].pw
               THEN "close" ELSE "chUpdate")
    /\ UNCHANGED <<users, seq, sessions, issued, now>>

(* An UPDATE that matches no row succeeds too.                              *)
ChangeUpdate(p) ==
    /\ cgi[p].pc = "chUpdate"
    /\ IF cgi[p].uid \in Present
       THEN SetPassword(p, cgi[p].uid, cgi[p].pw, cgi[p].sid,
                        [cgi[p] EXCEPT !.pc = "chKick"])
       ELSE Goto(p, "chKick") /\ UNCHANGED <<users, sessions>>
    /\ UNCHANGED <<seq, issued, now>>

ChangeKick(p) ==
    /\ cgi[p].pc = "chKick"
    /\ DeleteSessions(SessionsOf(cgi[p].uid) \ {cgi[p].sid})
    /\ Goto(p, "chAudit")
    /\ UNCHANGED <<users, seq, issued, now>>

-----------------------------------------------------------------------------
(* The audit row of each operation, and the end of every request.           *)

AuditSteps == {"createAudit", "delAudit", "togAudit", "pwAudit", "chAudit"}

Audit(p) ==
    /\ cgi[p].pc \in AuditSteps
    /\ Become(p, [cgi[p] EXCEPT
                    !.logged = auth_audit_log(cgi[p].uid, cgi[p].tgt),
                    !.pc = IF cgi[p].pc = "delAudit"
                           THEN DeleteOrder("delAudit") ELSE "reply"])
    /\ UNCHANGED <<users, seq, sessions, issued, now>>

(* auth_cleanup deletes the expired sessions at the end of every request.   *)
auth_cleanup(p) ==
    /\ cgi[p].pc \in {"reply", "close"}
    /\ DeleteSessions({s \in Sids : sessions[s].expires < now})
    /\ Become(p, Idle)
    /\ UNCHANGED <<users, seq, issued, now>>

(* The web server ends a request whose client has gone; power may fail.     *)
Kill(p) ==
    /\ KillAllowed
    /\ cgi[p].pc # "idle"
    /\ Become(p, Idle)
    /\ UNCHANGED <<users, seq, sessions, issued, now>>

(* The clock is disciplined by the timing daemon: it may move either way.   *)
SetClock ==
    /\ now' \in (1..MaxNow) \ {now}
    /\ UNCHANGED <<users, seq, sessions, issued, cgi>>

Next ==
    \/ \E p \in Procs :
         \/ DbInitCheck(p) \/ DbInitUpdate(p) \/ DbInitInsert(p)
         \/ LoginVerify(p) \/ auth_session_create(p) \/ Logout(p)
         \/ GateSession(p) \/ GatePolicy(p) \/ ServeOrRefuse(p)
         \/ CreateInsert(p) \/ DeleteSelect(p) \/ DeleteUser(p)
         \/ ToggleSelect(p) \/ ToggleUpdate(p)
         \/ PasswdUpdate(p) \/ PasswdKick(p)
         \/ ChangeName(p) \/ ChangeLogin(p) \/ ChangeHash(p)
         \/ ChangeUpdate(p) \/ ChangeKick(p)
         \/ Audit(p) \/ auth_cleanup(p) \/ Kill(p)
    \/ SetClock

Spec == Init /\ [][Next]_vars

-----------------------------------------------------------------------------
(* Properties                                                               *)

TypeOK ==
    /\ users \in [Uid -> UserRow]
    /\ seq \in 0..MaxUid
    /\ sessions \in [Sids -> SessionRow]
    /\ issued \in SUBSET Sids
    /\ now \in 1..MaxNow
    /\ cgi \in [Procs -> Request]

(* From the moment db_init has created the root account there is, between    *)
(* any two statements of any requests, exactly one root, and it is enabled:  *)
(* neither users_delete nor users_toggle can lock the device's owner out.    *)
RootAlive ==
    seq > 0 => \E r \in Present :
                 /\ users[r].enabled
                 /\ \A u \in Present : users[u].role = "root" <=> u = r

(* The steps at which a request is past the root gate of a management CGI    *)
RootSteps == {"createAudit", "delAudit", "delete", "togUpdate", "togAudit",
              "pwKick", "pwAudit"}

(* A request that is carrying out a management operation acts for an account *)
(* that is, at that very moment and not only when the gate looked, an        *)
(* existing, enabled root: the gate's answer cannot go stale.                *)
ManagedByRoot ==
    \A p \in Procs :
       cgi[p].pc \in RootSteps =>
          /\ cgi[p].uid \in Present
          /\ users[cgi[p].uid].role = "root"
          /\ users[cgi[p].uid].enabled

(* ADR-0002, decision 5: a request of an account whose password was never    *)
(* set by its owner (changed = 0) gets past the gate for nothing but the      *)
(* change itself, and no later step of another request makes an account of   *)
(* a request under way such an account.                                      *)
FreshPasswordForced ==
    \A p \in Procs :
       cgi[p].pc \in RootSteps \cup {"authed"} /\ cgi[p].uid \in Present =>
          users[cgi[p].uid].changed # 0

(* Every session row belongs to an existing user: a login that verified its  *)
(* password before the account was deleted leaves no session behind.         *)
SessionsOwned ==
    \A s \in Sids : sessions[s].user # 0 => sessions[s].user \in Present

(* A user id that a request remembers between two statements, or that a      *)
(* session row holds, never comes to denote another account than the one it  *)
(* was read for, although the account may be deleted and its name and the    *)
(* id range be used again in between (ids are AUTOINCREMENT).                *)
IdentityStable ==
    \A p \in Procs :
       cgi[p].name # NoName /\ cgi[p].uid \in Present =>
          users[cgi[p].uid].name = cgi[p].name

(* created_by references users with no delete action, so a user that created *)
(* others could never be deleted (and users_delete would have logged a       *)
(* deletion that did not happen).  No admin ever is such a creator.          *)
AdminsDeletable ==
    \A t \in Present : users[t].role = "admin" =>
       \A u \in Present : users[u].by # t

(* users_delete writes its audit row first: a deletion that is reported as   *)
(* successful has been recorded, whatever ran in between.                    *)
DeleteLogged ==
    \A p \in Procs :
       cgi[p].pc = "reply" /\ cgi[p].op = "delete" => cgi[p].logged

(* Is some request about to kick session s?                                  *)
KickPending(s) ==
    \E p \in Procs :
       \/ cgi[p].pc = "pwKick" /\ sessions[s].user = cgi[p].tgt
       \/ cgi[p].pc = "chKick" /\ sessions[s].user = cgi[p].uid /\ s # cgi[p].sid

(* ADR-0002: a session that was open when its user's password was replaced,  *)
(* other than the one that replaced it, is gone once the replacing requests  *)
(* are through; two changes of one user that cross do not save each other's   *)
(* sessions.                                                                 *)
OpenSessionsKicked ==
    \A s \in Sids : sessions[s].mark = "present" => KickPending(s)

-----------------------------------------------------------------------------
(* The inductive invariant behind RootAlive, ManagedByRoot, SessionsOwned,   *)
(* IdentityStable, AdminsDeletable and FreshPasswordForced.                  *)

(* The root account is row 1 for good; ids above seq were never given out;   *)
(* only row 1 creates users.                                                 *)
TableOK ==
    /\ \A u \in Uid : users[u].role = "root" => u = 1
    /\ seq > 0 => /\ users[1].role = "root"
                  /\ users[1].enabled
                  /\ users[1].name = RootName
    /\ \A u \in Uid : u > seq => users[u].role = "none"
    /\ \A u \in Uid : users[u].by \in {0, 1}

(* What a request r has read from the users table earlier still holds.       *)
RequestOK(r) ==
    /\ r.role = "root" => r.uid = 1 /\ seq > 0
    /\ r.pc \in RootSteps => r.role = "root"
    /\ r.pc \in {"delAudit", "delete", "togUpdate"} => r.tgt # 1
    /\ r.uid <= seq
    /\ r.name # NoName /\ r.uid \in Present => users[r.uid].name = r.name
    /\ r.pc \in RootSteps \cup {"authed"} /\ r.uid \in Present =>
         users[r.uid].changed # 0

RowsInv ==
    /\ TableOK
    /\ \A p \in Procs : RequestOK(cgi[p])
    /\ SessionsOwned

(* Everything the accounts and the requests rely on, as one formula: the     *)
(* types, what holds of the users table, of what a request has read from it, *)
(* and of the sessions                                                       *)
AuthInv == TypeOK /\ RowsInv

=============================================================================
