------------------------------- MODULE NtpAcl -------------------------------
(***************************************************************************)
(* The rules that say which NTP clients chronyd answers: requests of        *)
(* ntpmon.cgi?action=acl_op (ntpmon.cgi.c, ntpmon.c) run the root helper    *)
(* chrony_acl_apply.sh, which keeps /etc/chrony/acl-web.conf and the ACL of *)
(* the running chronyd in step; ntp_serve of pps_tod_watchdog.sh closes and *)
(* re-opens the same ACL.                                                   *)
(*                                                                         *)
(* An action is one command of the helper or of the watchdog.  The file is  *)
(* a set of rules: the order of its lines matters only to the rule that a   *)
(* remove without an action matches first and to the 64 the CGI reads, and  *)
(* both are left open.  Validation of the CIDR and the audit row are left   *)
(* out; gate and CSRF check are WebAuth's.                                  *)
(***************************************************************************)
EXTENDS Naturals, FiniteSets

CONSTANTS
    Procs,      \* requests, each with its helper
    Cidrs,      \* the CIDR texts
    Clients,
    Members,    \* Members[c]: the clients of subnet c
    MaxRules,   \* NTPMON_MAX_RULES
    Scenarios   \* sets of faults, see FaultNames: one is picked at the start

FaultNames ==
    { "overlap",   \* several requests at a time
      "kill",      \* request or helper dies between two commands
      "command",   \* chronyc or systemctl fails
      "chronyd",   \* chronyd crashes, systemd starts it again
      "watchdog" } \* pps_tod_watchdog.sh closes and re-opens the ACL

ASSUME AclAssumption ==
    /\ Members \in [Cidrs -> SUBSET Clients]
    /\ MaxRules \in Nat
    /\ Scenarios \subseteq SUBSET FaultNames

Action == {"allow", "deny"}
Rule == [action : Action, cidr : Cidrs]
Allow(c) == [action |-> "allow", cidr |-> c]

VARIABLES
    file,      \* the rules of acl-web.conf
    tmp,       \* acl-web.conf.tmp, which all helpers share
    acl,       \* the rules chronyd has in force
    up,        \* is chronyd running?
    req,       \* the requests
    dog,       \* the watchdog: what it believes, and the subnets it allows next
               \* wait: the rules whose add ends while it sleeps, see ServeOff
    faults,    \* what may go wrong in this behaviour
    promised,  \* history: the rules as the answers of the requests have them
    doubt      \* history: rules whose last request failed or was cut short

vars == <<file, tmp, acl, up, req, dog, faults, promised, doubt>>

Init ==
    /\ \E c \in Cidrs : file = {Allow(c)}
    /\ tmp = [there |-> FALSE, rules |-> {}]
    /\ acl = file
    /\ up = TRUE
    /\ req = [p \in Procs |-> [pc |-> "idle", rules |-> {}]]
    /\ dog = [state |-> "unknown", pc |-> "idle", todo |-> {}, wait |-> {}]
    /\ faults \in Scenarios
    /\ promised = file
    /\ doubt = {}

-----------------------------------------------------------------------------
Idle(p) == req[p].pc = "idle"
Quiet == \A p \in Procs : Idle(p)

(* The rules between chronyc and mv                                          *)
Adding == {"append", "move_add"}
BeingAdded ==
    {r \in Rule : \E p \in Procs : req[p].pc \in Adding /\ r \in req[p].rules}

Goto(p, pc) == req' = [req EXCEPT ![p].pc = pc]

Leave(p) == req' = [req EXCEPT ![p] = [pc |-> "idle", rules |-> {}]]

(* The helper dies, or is killed, with its work half done.                   *)
Abandon(p) ==
    /\ Leave(p)
    /\ doubt' = doubt \cup req[p].rules
    /\ UNCHANGED promised

(* handle_acl_op: what ntpmon_acl_load returns of the file                   *)
Loaded(rules) ==
    /\ rules \subseteq file
    /\ rules = file \/ Cardinality(rules) = MaxRules

(* A request gets past the checks of handle_acl_op.  A remove without an     *)
(* action has taken that of a rule it found.                                 *)
Request(p, kind, rule) ==
    /\ Idle(p)
    /\ "overlap" \in faults \/ Quiet
    /\ \E rules \in SUBSET file :
         Loaded(rules) /\ (kind = "add" <=> rule \notin rules)
    /\ req' = [req EXCEPT ![p] = [pc |-> kind, rules |-> {rule}]]
    /\ UNCHANGED <<file, tmp, acl, up, dog, faults, promised, doubt>>

(* helper, add: the rule is not in the file, and chronyc takes it            *)
Add(p) ==
    /\ req[p].pc = "add"
    /\ IF up /\ req[p].rules \cap file = {}
       THEN \/ /\ acl' = acl \cup req[p].rules
               /\ Goto(p, "append")
            \/ /\ "command" \in faults
               /\ Leave(p)
               /\ UNCHANGED acl
       ELSE Leave(p) /\ UNCHANGED acl
    /\ UNCHANGED <<file, tmp, up, dog, faults, promised, doubt>>

(* { cat acl-web.conf; echo rule; } > acl-web.conf.tmp                        *)
Append(p) ==
    /\ req[p].pc = "append"
    /\ tmp' = [there |-> TRUE, rules |-> file \cup req[p].rules]
    /\ Goto(p, "move_add")
    /\ UNCHANGED <<file, acl, up, dog, faults, promised, doubt>>

(* Mutant: every rule of the subnet goes, whatever its action.               *)
WithoutSubnet(rules) == {r \in file : \A s \in rules : r.cidr # s.cidr}

(* grep -vxF                                                                 *)
Without(rules) == file \ rules

(* helper, remove: the line is in the file, and all others are copied        *)
Remove(p) ==
    /\ req[p].pc = "remove"
    /\ IF req[p].rules \subseteq file
       THEN /\ tmp' = [there |-> TRUE, rules |-> Without(req[p].rules)]
            /\ Goto(p, "move_remove")
       ELSE Leave(p) /\ UNCHANGED tmp
    /\ UNCHANGED <<file, acl, up, dog, faults, promised, doubt>>

(* mv acl-web.conf.tmp acl-web.conf; it fails if another helper was faster.  *)
(* With it an add is done and answered.                                      *)
Move(p) ==
    /\ req[p].pc \in {"move_add", "move_remove"}
    /\ IF tmp.there
       THEN /\ file' = tmp.rules
            /\ tmp' = [there |-> FALSE, rules |-> {}]
            /\ IF req[p].pc = "move_add"
               THEN /\ Leave(p)
                    /\ promised' = promised \cup req[p].rules
                    /\ doubt' = doubt \ req[p].rules
               ELSE /\ Goto(p, "restart")
                    /\ UNCHANGED <<promised, doubt>>
       ELSE Abandon(p) /\ UNCHANGED <<file, tmp>>
    /\ UNCHANGED <<acl, up, dog, faults>>

(* Mutant: chronyd is told to reload, and goes on with the old rules.        *)
NoRestart(p) ==
    /\ req[p].pc = "restart"
    /\ Leave(p)
    /\ promised' = promised \ req[p].rules
    /\ doubt' = doubt \ req[p].rules
    /\ UNCHANGED <<acl, up, file, tmp, dog, faults>>

(* systemctl restart chrony: chronyd reads the file.  With it a remove is    *)
(* done and answered.                                                        *)
Restart(p) ==
    /\ req[p].pc = "restart"
    /\ \/ /\ up' = TRUE
          /\ acl' = file
          /\ Leave(p)
          /\ promised' = promised \ req[p].rules
          /\ doubt' = doubt \ req[p].rules
       \/ /\ "command" \in faults
          /\ up' = FALSE
          /\ acl' = {}
          /\ Abandon(p)
    /\ UNCHANGED <<file, tmp, dog, faults>>

Kill(p) ==
    /\ "kill" \in faults
    /\ ~Idle(p)
    /\ Abandon(p)
    /\ UNCHANGED <<file, tmp, acl, up, dog, faults>>

-----------------------------------------------------------------------------
(* chronyd crashes and is started again, or is started by hand.              *)
ChronydStarts ==
    /\ "chronyd" \in faults \/ ~up
    /\ up' = TRUE
    /\ acl' = file
    /\ UNCHANGED <<file, tmp, req, dog, faults, promised, doubt>>

(* ntp_serve off: chronyc deny all discards every rule.  The watchdog then    *)
(* sleeps a second, in which an add that has called chronyc gets its file in  *)
(* place or fails.                                                           *)
ServeOff ==
    /\ "watchdog" \in faults
    /\ dog.pc = "idle"
    /\ up
    /\ acl' = {}
    /\ dog' = [dog EXCEPT !.state = "off",
                          !.wait = BeingAdded]
    /\ UNCHANGED <<file, tmp, up, req, faults, promised, doubt>>

(* Mutant: awk stops at the first rule.                                      *)
FirstSubnet == {c \in Cidrs : \E r \in file : r = (CHOOSE s \in file : TRUE)
                                            /\ r = Allow(c)}

(* awk '$1 == "allow" {print $2}' acl-web.conf                                *)
AllowSubnets == {c \in Cidrs : Allow(c) \in file}

(* Mutant: the file is read in the same second.                              *)
ServeReadAtOnce ==
    /\ "watchdog" \in faults
    /\ dog.pc = "idle"
    /\ dog.state # "on"
    /\ dog' = [dog EXCEPT !.pc = "allow", !.todo = AllowSubnets,
                          !.wait = {}]
    /\ UNCHANGED <<file, tmp, acl, up, req, faults, promised, doubt>>

(* ntp_serve on: first the file is read ...                                  *)
ServeRead ==
    /\ "watchdog" \in faults
    /\ dog.pc = "idle"
    /\ dog.state # "on"
    /\ dog.wait \cap BeingAdded = {}
    /\ dog' = [dog EXCEPT !.pc = "allow", !.todo = AllowSubnets,
                          !.wait = {}]
    /\ UNCHANGED <<file, tmp, acl, up, req, faults, promised, doubt>>

(* ... then chronyc allows each of its subnets; if one fails, the watchdog   *)
(* will try again.                                                           *)
ServeOn ==
    /\ dog.pc = "allow"
    /\ \E done \in SUBSET dog.todo :
         /\ IF up THEN done = dog.todo \/ "command" \in faults ELSE done = {}
         /\ acl' = acl \cup {Allow(c) : c \in done}
         /\ dog' = [dog EXCEPT !.pc = "idle", !.todo = {}, !.state =
                      IF done = dog.todo THEN "on" ELSE dog.state]
    /\ UNCHANGED <<file, tmp, up, req, faults, promised, doubt>>

Next ==
    \/ \E p \in Procs :
         \/ \E kind \in {"add", "remove"}, rule \in Rule : Request(p, kind, rule)
         \/ Add(p) \/ Append(p) \/ Remove(p) \/ Move(p) \/ Restart(p) \/ Kill(p)
    \/ ChronydStarts \/ ServeOff \/ ServeRead \/ ServeOn

Spec == Init /\ [][Next]_vars

-----------------------------------------------------------------------------
(* What chronyd makes of its rules                                           *)

(* The rules for client x: those of the smallest subnets it is in            *)
Nearest(rules, x) ==
    LET mine == {r \in rules : x \in Members[r.cidr]}
    IN  {r \in mine : \A s \in mine : ~(Members[s.cidr] \subseteq Members[r.cidr])
                                      \/ Members[s.cidr] = Members[r.cidr]}

(* Longest prefix first, and deny before allow; no rule, no service           *)
Denied(rules) ==
    {x \in Clients : \E r \in Nearest(rules, x) : r.action = "deny"}

Served(rules) ==
    {x \in Clients : Nearest(rules, x) # {}} \ Denied(rules)

-----------------------------------------------------------------------------
(* Properties                                                                *)

TypeOK ==
    /\ file \in SUBSET Rule
    /\ tmp \in [there : BOOLEAN, rules : SUBSET Rule]
    /\ acl \in SUBSET Rule
    /\ up \in BOOLEAN
    /\ req \in [Procs -> [pc : {"idle", "add", "append", "move_add", "remove",
                                "move_remove", "restart"},
                          rules : SUBSET Rule]]
    /\ dog \in [state : {"unknown", "on", "off"}, pc : {"idle", "allow"},
                todo : SUBSET Cidrs, wait : SUBSET Rule]
    /\ faults \in Scenarios
    /\ promised \in SUBSET Rule
    /\ doubt \in SUBSET Rule

(* The rules nothing can be said of: work on them was cut short, or goes on    *)
(* and has got past its first command.                                       *)
Begun(p) == req[p].pc \notin {"idle", "add", "remove"}
Open == {r \in Rule : r \in doubt \/ \E p \in Procs : Begun(p) /\ r \in req[p].rules}

Serial == "overlap" \notin faults

(* chrony_acl_apply.sh:53, "added, effective at once, persistent": a rule whose *)
(* add was answered with success is in the file until it is removed.          *)
AnsweredIsPersistent == promised \ Open \subseteq file

(* It holds, and so does the converse, for requests one after the other,       *)
(* wherever helpers are killed and commands fail: what was answered is what    *)
(* a restart of chronyd will find.                                           *)
Persisted ==
    Serial => AnsweredIsPersistent /\ file \subseteq promised \cup Open

(* The same of the rules in force, while nothing but these requests touches    *)
(* chronyd: chronyd and the file never drift apart.                           *)
InForce ==
    Serial /\ up /\ faults \cap {"chronyd", "watchdog"} = {} =>
       /\ promised \ Open \subseteq acl
       /\ acl \subseteq promised \cup Open

(* A watchdog that closes and re-opens chronyd at any moment, between the      *)
(* commands of a request too, brings every allowed subnet back: none that was  *)
(* added meanwhile is forgotten.                                             *)
AllowsRestored ==
    Serial /\ up /\ "chronyd" \notin faults /\ dog.state # "off" =>
       \A r \in promised \ Open : r.action = "allow" => r \in acl

(* docs/ntp-monitor.md, 2.2: a deny inside, or beside, an allow of the same    *)
(* subnet takes effect: nobody whom a rule of the file denies is served.       *)
DeniedNotServed ==
    Quiet /\ up => Served(acl) \cap Denied(file) = {}

-----------------------------------------------------------------------------
(* Why they hold: the parts of the inductive invariant                       *)

(* One request at a time; tmp is the file it will put in place.              *)
SerialInv ==
    Serial =>
       /\ \A p, q \in Procs : Idle(p) \/ Idle(q) \/ p = q
       /\ \A p \in Procs :
            /\ req[p].pc = "move_add" =>
                  tmp.there /\ tmp.rules = file \cup req[p].rules
            /\ req[p].pc = "move_remove" =>
                  tmp.there /\ tmp.rules = file \ req[p].rules
            /\ req[p].pc = "restart" => req[p].rules \cap file = {}

(* Without another party, a rule being added is already in force.            *)
ForceInv ==
    Serial /\ faults \cap {"chronyd", "watchdog"} = {} =>
       /\ dog.pc = "idle"
       /\ \A p \in Procs : req[p].pc \in Adding => up /\ req[p].rules \subseteq acl
       /\ InForce

(* A rule being added is in force unless the watchdog has closed since, and    *)
(* what the watchdog is about to allow makes up for all that is not.          *)
DogInv ==
    Serial /\ "chronyd" \notin faults =>
       /\ dog.wait # {} => dog.state = "off" /\ dog.pc = "idle"
       /\ \A p \in Procs : req[p].pc \in Adding =>
             up /\ req[p].rules \subseteq acl \cup dog.wait
       /\ up /\ dog.pc = "allow" =>
             \A c \in Cidrs : Allow(c) \in promised \ Open =>
                Allow(c) \in acl \/ c \in dog.todo
       /\ AllowsRestored

RulesInv == SerialInv /\ Persisted /\ ForceInv /\ DogInv

(* The inductive invariant                                                   *)
AclInv == TypeOK /\ RulesInv

=============================================================================
