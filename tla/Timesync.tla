------------------------------ MODULE Timesync ------------------------------
(***************************************************************************)
(* The receiver mode of timesync.cgi: handle_setmode, timesync_set_mode    *)
(* and timesync_mode_save, as requests that first go through auth_init     *)
(* (AuthSchema).  The receiver cannot be asked for its mode, so the page   *)
(* shows a file that is written after the command was sent, through one    *)
(* temporary file for all requests.                                        *)
(*                                                                         *)
(* Files are inodes: fopen(tmp, "w") truncates the inode of that name,     *)
(* whoever has it open or has renamed it meanwhile, and what is written    *)
(* reaches it with fclose.  The text of a mode is written over another one *)
(* of about its length: the file then reads as the last one written.       *)
(***************************************************************************)
EXTENDS AuthSchema

CONSTANTS
    Modes,       \* receiver modes
    NoMode,      \* an empty file
    Situations,  \* [age, kinds, requests, overlap, faults]: what a behaviour may meet
    MaxKills

ASSUME ModesAssumption == Modes # {} /\ NoMode \notin Modes

VARIABLES
    sit,                 \* the situation
    req,                 \* the request: setmode and its mode, or login
    ram, flash,          \* the receiver's mode, and the one it starts with
    path, tmp,           \* inodes of ut986_mode and ut986_mode.tmp, 0: none
    content, fd,         \* text of an inode; the inode p has open
    kills,
    sent,                \* history: modes of which the whole command was sent
    last                 \* history: how the last change of the mode ended

fileVars == <<path, tmp, content, fd>>
modeVars == <<sit, req, ram, flash, fileVars, kills, sent, last>>
requestVars == <<dbVars, pc, modeVars>>

Inodes == 1 .. Cardinality(Procs) + 2

ModeInit ==
    /\ sit \in Situations
    /\ SchemaInit(sit.age)
    /\ req = [p \in Procs |-> [kind |-> "login"]]
    /\ ram \in Modes /\ flash = ram
    /\ path \in {0, 1} /\ tmp = 0
    /\ content = [i \in Inodes |-> IF i = path THEN ram ELSE NoMode]
    /\ fd = [p \in Procs |-> 0]
    /\ kills = 0
    /\ sent = {ram}
    /\ last = IF path = 0 THEN "unsaved" ELSE "saved"

Running == {p \in Procs : pc[p] \notin {"idle", "done"}}
Setting == {p \in Running : req[p].kind = "setmode"}

(* A request arrives: its process opens the database. *)
Arrive(p) ==
    /\ pc[p] = "idle"
    /\ Cardinality({q \in Procs : pc[q] # "idle"}) < sit.requests
    /\ \E kind \in sit.kinds, m \in Modes :
         /\ kind = "setmode" /\ ~ sit.overlap => Setting = {}
         /\ kind # "setmode" => m = ram
         /\ req' = [req EXCEPT ![p] = IF kind = "setmode" THEN [kind |-> kind, mode |-> m]
                                      ELSE [kind |-> kind]]
    /\ Goto(p, "create")
    /\ UNCHANGED <<dbVars, sit, ram, flash, fileVars, kills, sent, last>>

Migrate(p) ==
    /\ SchemaStep(p)
    /\ UNCHANGED modeVars

(* A login: auth_session_create. *)
Login(p) ==
    /\ pc[p] = "ready" /\ req[p].kind = "login"
    /\ Insert(p, "sessions", p)
    /\ Goto(p, "close")
    /\ UNCHANGED <<writer, tx, table, need, orphans, modeVars>>

-----------------------------------------------------------------------------
(* timesync_set_mode: $CFGGNSS and $CFGSAVE in one write. *)
SendAll(p) ==
    /\ ram' = req[p].mode /\ flash' = req[p].mode
    /\ sent' = sent \union {req[p].mode}
    /\ last' = "unsaved"
    /\ Goto(p, "audit")

(* The device does not open or takes no byte, or not all of them: the mode  *)
(* may have changed without having been stored in the receiver.             *)
SendPart(p, next) ==
    /\ "serial" \in sit.faults
    /\ ram' \in {ram, req[p].mode}
    /\ last' = IF ram' = ram THEN last ELSE "unsaved"
    /\ Goto(p, next)
    /\ UNCHANGED <<flash, sent>>

(* Mutant: only a write of no byte at all is an error.                      *)
SendAnyway(p) ==
    /\ pc[p] = "ready" /\ req[p].kind = "setmode"
    /\ SendAll(p) \/ SendPart(p, "close") \/ SendPart(p, "audit")
    /\ UNCHANGED <<dbVars, sit, req, fileVars, kills>>

Send(p) ==
    /\ pc[p] = "ready" /\ req[p].kind = "setmode"
    /\ SendAll(p) \/ SendPart(p, "close")
    /\ UNCHANGED <<dbVars, sit, req, fileVars, kills>>

(* auth_audit_log *)
Audit(p) ==
    /\ pc[p] = "audit"
    /\ Insert(p, "audit_log", p)
    /\ Goto(p, "tmp_open")
    /\ UNCHANGED <<writer, tx, table, need, orphans, modeVars>>

Unused == Inodes \ ({path, tmp} \union {fd[p] : p \in Procs})
Reuse == CHOOSE i \in Unused : TRUE

(* timesync_mode_save: fopen *)
OpenTmp(p) ==
    /\ pc[p] = "tmp_open"
    /\ \/ LET i == IF tmp = 0 THEN Reuse ELSE tmp
          IN /\ tmp' = i
             /\ content' = [content EXCEPT ![i] = NoMode]
             /\ fd' = [fd EXCEPT ![p] = i]
             /\ Goto(p, "tmp_write")
       \/ /\ "disk" \in sit.faults
          /\ Goto(p, "close")
          /\ UNCHANGED <<tmp, content, fd>>
    /\ UNCHANGED <<dbVars, sit, req, ram, flash, path, kills, sent, last>>

(* fprintf and fclose, which may find the disk full *)
WriteTmp(p) ==
    /\ pc[p] = "tmp_write"
    /\ \/ content' = [content EXCEPT ![fd[p]] = req[p].mode] /\ Goto(p, "tmp_rename")
       \/ "disk" \in sit.faults /\ Goto(p, "close") /\ UNCHANGED content
    /\ fd' = [fd EXCEPT ![p] = 0]
    /\ UNCHANGED <<dbVars, sit, req, ram, flash, path, tmp, kills, sent, last>>

(* rename: another request may have taken the temporary file away. *)
RenameTmp(p) ==
    /\ pc[p] = "tmp_rename"
    /\ IF tmp # 0 THEN path' = tmp /\ tmp' = 0 /\ last' = "saved"
                  ELSE UNCHANGED <<path, tmp, last>>
    /\ Goto(p, "close")
    /\ UNCHANGED <<dbVars, sit, req, ram, flash, content, fd, kills, sent>>

(* auth_cleanup: the sessions that have expired go. *)
Close(p) ==
    /\ pc[p] = "close"
    /\ \E expired \in SUBSET Old : Delete(expired)
    /\ Goto(p, "done")
    /\ UNCHANGED <<writer, tx, table, need, orphans, modeVars>>

-----------------------------------------------------------------------------
(* The web server or the kernel ends the process of a request. *)
Kill(p) ==
    /\ "kill" \in sit.faults /\ kills < MaxKills
    /\ p \in Running
    /\ kills' = kills + 1
    /\ Leave(p)
    /\ fd' = [fd EXCEPT ![p] = 0]
    /\ Goto(p, "done")
    /\ UNCHANGED <<db, ver, table, need, orphans, accepted,
                   sit, req, ram, flash, path, tmp, content, sent, last>>

(* The receiver starts anew with the mode it stored. *)
ReceiverReset ==
    /\ ram # flash
    /\ ram' = flash
    /\ last' = "unsaved"
    /\ UNCHANGED <<dbVars, pc, sit, req, flash, fileVars, kills, sent>>

ModeNext ==
    \/ \E p \in Procs :
         \/ Arrive(p) \/ Migrate(p) \/ Login(p)
         \/ Send(p) \/ Audit(p) \/ OpenTmp(p) \/ WriteTmp(p) \/ RenameTmp(p) \/ Close(p)
         \/ Kill(p)
    \/ ReceiverReset

RequestSpec == ModeInit /\ [][ModeNext]_requestVars

-----------------------------------------------------------------------------
(* Properties *)

(* timesync_mode_last: what the page shows. *)
timesync_mode_last == IF path = 0 THEN NoMode ELSE content[path]

(* ModeShown: the page shows a mode the receiver was really sent.  When no  *)
(* two requests set the mode at a time, the file is whole whatever is       *)
(* killed or fails, and once a request has saved its mode the page shows    *)
(* the receiver's.  Requests that overlap may leave the mode of the other   *)
(* one, but a file all the same, unless one of them fails or is killed      *)
(* (handle_setmode, timesync_mode_save).                                    *)
ModeShown ==
    /\ timesync_mode_last \in sent \union {NoMode}
    /\ ~ sit.overlap =>
         /\ path # 0 => timesync_mode_last # NoMode
         /\ Setting = {} /\ last = "saved" => timesync_mode_last = ram /\ ram = flash
    /\ Setting = {} /\ sit.faults = {} /\ path # 0 => timesync_mode_last # NoMode
=============================================================================
