---------------------------- MODULE NtpAclProofs ----------------------------
(***************************************************************************)
(* Proofs about NtpAcl, for any number of requests, subnets and clients.    *)
(***************************************************************************)
EXTENDS NtpAcl, TLAPS

(* Types of the requests                                                     *)
PcType == {"idle", "add", "append", "move_add", "remove", "move_remove", "restart"}
ReqType == [pc : PcType, rules : SUBSET Rule]

(* Setting the pc of a request, or the whole of it, keeps the type of req.    *)
LEMMA GotoType ==
  ASSUME NEW p \in Procs, NEW pc \in PcType, req \in [Procs -> ReqType], Goto(p, pc)
  PROVE  req' \in [Procs -> ReqType]
  BY DEF Goto, ReqType

LEMMA LeaveType ==
  ASSUME NEW p \in Procs, req \in [Procs -> ReqType], Leave(p)
  PROVE  req' \in [Procs -> ReqType]
  BY DEF Leave, ReqType, PcType

(* A temporary file with a set of rules, or none, has the type of tmp.       *)
TmpType == [there : BOOLEAN, rules : SUBSET Rule]

LEMMA TmpWritten ==
  ASSUME NEW R \in SUBSET Rule, NEW b \in BOOLEAN
  PROVE  [there |-> b, rules |-> R] \in TmpType
  BY DEF TmpType

(* Every action keeps the types.                                             *)
LEMMA TypeStep == TypeOK /\ [Next]_vars => TypeOK'
<1> SUFFICES ASSUME TypeOK, [Next]_vars PROVE TypeOK'
  OBVIOUS
<1>0. req \in [Procs -> ReqType]
  BY DEF TypeOK, ReqType, PcType
<1>1. ASSUME NEW p \in Procs, NEW kind \in {"add", "remove"}, NEW rule \in Rule,
             Request(p, kind, rule)
      PROVE  TypeOK'
  BY <1>1 DEF Request, TypeOK
<1>2. ASSUME NEW p \in Procs, Add(p) PROVE TypeOK'
  <2>1. req' \in [Procs -> ReqType]
    BY <1>0, <1>2, GotoType, LeaveType DEF Add, PcType
  <2>2. acl' \in SUBSET Rule
    BY <1>2 DEF Add, TypeOK
  <2> QED
    BY <1>2, <2>1, <2>2 DEF Add, TypeOK, ReqType, PcType
<1>3. ASSUME NEW p \in Procs, Append(p) PROVE TypeOK'
  <2>1. req' \in [Procs -> ReqType]
    BY <1>0, <1>3, GotoType DEF Append, PcType
  <2>2. tmp' \in [there : BOOLEAN, rules : SUBSET Rule]
    BY <1>3 DEF Append, TypeOK
  <2> QED
    BY <1>3, <2>1, <2>2 DEF Append, TypeOK, ReqType, PcType
<1>4. ASSUME NEW p \in Procs, Remove(p) PROVE TypeOK'
  <2>1. req' \in [Procs -> ReqType]
    BY <1>0, <1>4, GotoType, LeaveType DEF Remove, PcType
  <2>2. tmp' \in TmpType
    <3>1. file \ req[p].rules \in SUBSET Rule
      BY DEF TypeOK
    <3>2. [there |-> TRUE, rules |-> file \ req[p].rules] \in TmpType
      BY <3>1, TmpWritten
    <3>3. \/ tmp' = [there |-> TRUE, rules |-> file \ req[p].rules]
          \/ tmp' = tmp
      BY <1>4 DEF Remove, Without
    <3> QED
      BY <3>2, <3>3, Zenon DEF TypeOK, TmpType
  <2> QED
    BY <1>4, <2>1, <2>2 DEF Remove, TypeOK, ReqType, PcType, TmpType
<1>5. ASSUME NEW p \in Procs, Move(p) PROVE TypeOK'
  <2>1. req' \in [Procs -> ReqType]
    BY <1>0, <1>5, GotoType, LeaveType DEF Move, Abandon, PcType
  <2>2. /\ tmp' \in TmpType
        /\ file' \in SUBSET Rule
        /\ promised' \in SUBSET Rule
        /\ doubt' \in SUBSET Rule
    <3>1. /\ tmp.rules \in SUBSET Rule
          /\ req[p].rules \in SUBSET Rule
      BY <1>0 DEF TypeOK, ReqType
    <3>2. \/ /\ file' = tmp.rules
             /\ tmp' = [there |-> FALSE, rules |-> {}]
          \/ UNCHANGED <<file, tmp>>
      BY <1>5 DEF Move
    <3>3. /\ promised' \in {promised, promised \cup req[p].rules}
          /\ doubt' \in {doubt, doubt \cup req[p].rules, doubt \ req[p].rules}
      BY <1>5 DEF Move, Abandon
    <3>4. [there |-> FALSE, rules |-> {}] \in TmpType
      BY TmpWritten
    <3>5. tmp' \in TmpType /\ file' \in SUBSET Rule
      BY <3>1, <3>2, <3>4, Zenon DEF TypeOK, TmpType
    <3>6. promised' \in SUBSET Rule /\ doubt' \in SUBSET Rule
      BY <3>1, <3>3 DEF TypeOK
    <3> QED
      BY <3>5, <3>6
  <2> QED
    BY <1>5, <2>1, <2>2 DEF Move, TypeOK, ReqType, PcType, TmpType
<1>6. ASSUME NEW p \in Procs, Restart(p) PROVE TypeOK'
  <2>1. req' \in [Procs -> ReqType]
    BY <1>0, <1>6, LeaveType DEF Restart, Abandon
  <2>2. /\ up' \in BOOLEAN
        /\ acl' \in SUBSET Rule
        /\ promised' \in SUBSET Rule
        /\ doubt' \in SUBSET Rule
    BY <1>6 DEF Restart, Abandon, TypeOK
  <2> QED
    BY <1>6, <2>1, <2>2 DEF Restart, TypeOK, ReqType, PcType
<1>7. ASSUME NEW p \in Procs, Kill(p) PROVE TypeOK'
  <2>1. req' \in [Procs -> ReqType]
    BY <1>0, <1>7, LeaveType DEF Kill, Abandon
  <2> QED
    BY <1>7, <2>1 DEF Kill, Abandon, TypeOK, ReqType, PcType
<1>8. CASE ChronydStarts
  BY <1>8 DEF ChronydStarts, TypeOK
<1>9. CASE ServeOff
  BY <1>9 DEF ServeOff, BeingAdded, TypeOK
<1>10. CASE ServeRead
  BY <1>10 DEF ServeRead, AllowSubnets, TypeOK
<1>11. CASE ServeOn
  <2>1. PICK done \in SUBSET dog.todo :
          /\ acl' = acl \cup {Allow(c) : c \in done}
          /\ dog' = [dog EXCEPT !.pc = "idle", !.todo = {}, !.state =
                       IF done = dog.todo THEN "on" ELSE dog.state]
    BY <1>11 DEF ServeOn
  <2>2. acl' \in SUBSET Rule
    BY <2>1 DEF Allow, Rule, Action, TypeOK
  <2>3. dog' \in [state : {"unknown", "on", "off"}, pc : {"idle", "allow"},
                  todo : SUBSET Cidrs, wait : SUBSET Rule]
    BY <2>1 DEF TypeOK
  <2> QED
    BY <1>11, <2>2, <2>3 DEF ServeOn, TypeOK
<1>12. CASE UNCHANGED vars
  BY <1>12 DEF vars, TypeOK
<1> QED
  BY <1>1, <1>2, <1>3, <1>4, <1>5, <1>6, <1>7, <1>8, <1>9, <1>10, <1>11, <1>12
  DEF Next

(* Every variable keeps its type.                                            *)
THEOREM AclTypes == Spec => []TypeOK
<1>1. Init => TypeOK
  BY DEF Init, TypeOK, Rule, Action, Allow
<1> QED
  BY <1>1, TypeStep, PTL DEF Spec

-----------------------------------------------------------------------------
(* The frame: what one request at a time means                               *)

(* No request but that of p is at work.                                      *)
Alone(p) == \A q \in Procs : q = p \/ Idle(q)

(* The rules that request p has begun to work on                             *)
BegunBy(p) == IF Begun(p) THEN req[p].rules ELSE {}

(* A step of the request of p                                                *)
StepOf(p) ==
    \/ \E kind \in {"add", "remove"}, rule \in Rule : Request(p, kind, rule)
    \/ Add(p) \/ Append(p) \/ Remove(p) \/ Move(p) \/ Restart(p) \/ Kill(p)

LEMMA NextSplit ==
  [Next]_vars => \/ \E p \in Procs : StepOf(p)
                 \/ ChronydStarts \/ ServeOff \/ ServeRead \/ ServeOn
                 \/ UNCHANGED vars
  BY DEF Next, StepOf

(* The faults of a behaviour are picked once.                                *)
LEMMA FaultsFixed == [Next]_vars => faults' = faults
  BY DEF Next, vars, Request, Add, Append, Remove, Move, Restart, Kill,
     ChronydStarts, ServeOff, ServeRead, ServeOn

(* A step of p leaves the other requests alone.                              *)
LEMMA OthersKept ==
  ASSUME TypeOK, NEW p \in Procs, StepOf(p)
  PROVE  \A q \in Procs : q # p => req'[q] = req[q]
  BY DEF StepOf, Request, Add, Append, Remove, Move, Restart, Kill, Abandon,
     Leave, Goto, TypeOK

(* In a serial behaviour a request that takes a step is the only one at work, *)
(* before and after it.                                                      *)
LEMMA StepAlone ==
  ASSUME TypeOK, SerialInv, Serial, NEW p \in Procs, StepOf(p)
  PROVE  Alone(p) /\ Alone(p)'
<1>1. Quiet \/ ~Idle(p)
  BY DEF StepOf, Request, Add, Append, Remove, Move, Restart, Kill, Idle, Serial
<1>2. Alone(p)
  BY <1>1 DEF SerialInv, Alone, Quiet
<1> QED
  BY <1>2, OthersKept DEF Alone, Idle

(* Then the open rules are those in doubt and those of that request.         *)
LEMMA OpenAlone ==
  ASSUME TypeOK, NEW p \in Procs, Alone(p)
  PROVE  Open = doubt \cup BegunBy(p)
<1>1. \A q \in Procs : Begun(q) => q = p
  BY DEF Alone, Begun, Idle
<1>2. doubt \in SUBSET Rule /\ req[p].rules \in SUBSET Rule
  BY DEF TypeOK
<1> QED
  BY <1>1, <1>2 DEF Open, BegunBy

LEMMA OpenAloneNext ==
  ASSUME TypeOK', NEW p \in Procs, Alone(p)'
  PROVE  Open' = doubt' \cup BegunBy(p)'
<1>1. \A q \in Procs : Begun(q)' => q = p
  BY DEF Alone, Begun, Idle
<1>2. doubt' \in SUBSET Rule /\ req'[p].rules \in SUBSET Rule
  BY DEF TypeOK
<1> QED
  BY <1>1, <1>2 DEF Open, BegunBy, Begun

(* Steps of chronyd and of the watchdog keep requests, files and history.    *)
LEMMA OtherSteps ==
  ASSUME ChronydStarts \/ ServeOff \/ ServeRead \/ ServeOn \/ UNCHANGED vars
  PROVE  UNCHANGED <<file, tmp, req, faults, promised, doubt>>
  BY DEF ChronydStarts, ServeOff, ServeRead, ServeOn, vars

-----------------------------------------------------------------------------
(* Requests one after the other                                              *)

LEMMA SerialStep ==
  TypeOK /\ TypeOK' /\ SerialInv /\ [Next]_vars => SerialInv'
<1> SUFFICES ASSUME TypeOK, TypeOK', SerialInv, [Next]_vars, Serial
             PROVE  SerialInv'
  BY FaultsFixed DEF SerialInv, Serial
<1>1. ASSUME NEW p \in Procs, StepOf(p) PROVE SerialInv'
  <2>1. Alone(p) /\ Alone(p)'
    BY <1>1, StepAlone
  <2>2. \A q, r \in Procs : Idle(q)' \/ Idle(r)' \/ q = r
    BY <2>1 DEF Alone
  <2>3. req[p].rules \in SUBSET Rule /\ DOMAIN req = Procs
    BY DEF TypeOK
  <2>4. /\ req'[p].pc = "move_add" =>
              tmp'.there /\ tmp'.rules = file' \cup req'[p].rules
        /\ req'[p].pc = "move_remove" =>
              tmp'.there /\ tmp'.rules = file' \ req'[p].rules
        /\ req'[p].pc = "restart" => req'[p].rules \cap file' = {}
    <3> USE DEF Goto, Leave, Abandon, TypeOK
    <3>1. ASSUME NEW kind \in {"add", "remove"}, NEW rule \in Rule,
                 Request(p, kind, rule)
          PROVE  req'[p].pc \in {"add", "remove"}
      BY <3>1 DEF Request
    <3>2. CASE Add(p)
      BY <3>2 DEF Add
    <3>3. CASE Append(p)
      BY <3>3 DEF Append
    <3>4. CASE Remove(p)
      BY <3>4 DEF Remove, Without
    <3>5. CASE Move(p)
      BY <3>5 DEF Move, SerialInv
    <3>6. CASE Restart(p)
      BY <3>6 DEF Restart
    <3>7. CASE Kill(p)
      BY <3>7 DEF Kill
    <3> QED
      BY <1>1, <3>1, <3>2, <3>3, <3>4, <3>5, <3>6, <3>7 DEF StepOf
  <2> QED
    BY <2>1, <2>2, <2>4 DEF SerialInv, Alone, Idle
<1>2. CASE ChronydStarts \/ ServeOff \/ ServeRead \/ ServeOn \/ UNCHANGED vars
  BY <1>2, OtherSteps DEF SerialInv, Serial, Idle
<1> QED
  BY <1>1, <1>2, NextSplit

LEMMA PersistedStep ==
  TypeOK /\ TypeOK' /\ SerialInv /\ Persisted /\ [Next]_vars => Persisted'
<1> SUFFICES ASSUME TypeOK, TypeOK', SerialInv, Persisted, [Next]_vars, Serial
             PROVE  Persisted'
  BY FaultsFixed DEF Persisted, Serial
<1>1. ASSUME NEW p \in Procs, StepOf(p) PROVE Persisted'
  <2>1. Alone(p) /\ Alone(p)'
    BY <1>1, StepAlone
  <2>2. /\ Open = doubt \cup BegunBy(p)
        /\ Open' = doubt' \cup BegunBy(p)'
    BY <2>1, OpenAlone, OpenAloneNext
  <2>3. /\ promised \ Open \subseteq file
        /\ file \subseteq promised \cup Open
    BY DEF Persisted, AnsweredIsPersistent
  <2>4. /\ promised' \ (doubt' \cup BegunBy(p)') \subseteq file'
        /\ file' \subseteq promised' \cup (doubt' \cup BegunBy(p)')
    <3> USE <2>2, <2>3 DEF Goto, Leave, Abandon, BegunBy, Begun, TypeOK
    <3>1. ASSUME NEW kind \in {"add", "remove"}, NEW rule \in Rule,
                 Request(p, kind, rule)
          PROVE  /\ promised' \ (doubt' \cup BegunBy(p)') \subseteq file'
                 /\ file' \subseteq promised' \cup (doubt' \cup BegunBy(p)')
      BY <3>1 DEF Request, Idle
    <3>2. CASE Add(p)
      BY <3>2 DEF Add
    <3>3. CASE Append(p)
      BY <3>3 DEF Append
    <3>4. CASE Remove(p)
      BY <3>4 DEF Remove
    <3>5. CASE Move(p)
      BY <3>5 DEF Move, SerialInv
    <3>6. CASE Restart(p)
      BY <3>6 DEF Restart, SerialInv
    <3>7. CASE Kill(p)
      BY <3>7 DEF Kill, Idle
    <3> QED
      BY <1>1, <3>1, <3>2, <3>3, <3>4, <3>5, <3>6, <3>7 DEF StepOf
  <2> QED
    BY <2>2, <2>4 DEF Persisted, AnsweredIsPersistent
<1>2. CASE ChronydStarts \/ ServeOff \/ ServeRead \/ ServeOn \/ UNCHANGED vars
  <2>1. UNCHANGED <<file, promised, faults>> /\ Open' = Open
    BY <1>2, OtherSteps DEF Open, Begun
  <2> QED
    BY <2>1 DEF Persisted, AnsweredIsPersistent, Serial
<1> QED
  BY <1>1, <1>2, NextSplit

-----------------------------------------------------------------------------
(* The file and the rules in force                                           *)

LEMMA ForceStep ==
  TypeOK /\ TypeOK' /\ SerialInv /\ Persisted /\ Persisted' /\ ForceInv /\ [Next]_vars
     => ForceInv'
<1> SUFFICES ASSUME TypeOK, TypeOK', SerialInv, Persisted, Persisted', ForceInv,
                    [Next]_vars, Serial, faults \cap {"chronyd", "watchdog"} = {}
             PROVE  ForceInv'
  BY FaultsFixed DEF ForceInv, Serial
<1>0. Serial' /\ faults' = faults
  BY FaultsFixed DEF Serial
<1>1. ASSUME NEW p \in Procs, StepOf(p) PROVE ForceInv'
  <2>1. Alone(p) /\ Alone(p)'
    BY <1>1, StepAlone
  <2>2. /\ Open = doubt \cup BegunBy(p)
        /\ Open' = doubt' \cup BegunBy(p)'
    BY <2>1, OpenAlone, OpenAloneNext
  <2>3. /\ up => promised \ Open \subseteq acl /\ acl \subseteq promised \cup Open
        /\ req[p].pc \in Adding => up /\ req[p].rules \subseteq acl
    BY DEF ForceInv, InForce
  <2>4. promised' \ Open' \subseteq file' /\ file' \subseteq promised' \cup Open'
    BY <1>0 DEF Persisted, AnsweredIsPersistent
  <2> DEFINE Goal == /\ up' => /\ promised' \ Open' \subseteq acl'
                               /\ acl' \subseteq promised' \cup Open'
                     /\ req'[p].pc \in Adding => up' /\ req'[p].rules \subseteq acl'
  <2>5. Goal
    <3> USE <2>2, <2>3 DEF Goto, Leave, Abandon, BegunBy, Begun, TypeOK, Adding
    <3>1. ASSUME NEW kind \in {"add", "remove"}, NEW rule \in Rule,
                 Request(p, kind, rule)
          PROVE  Goal
      BY <3>1 DEF Request, Idle
    <3>2. CASE Add(p)
      BY <3>2 DEF Add
    <3>3. CASE Append(p)
      BY <3>3 DEF Append
    <3>4. CASE Remove(p)
      BY <3>4 DEF Remove
    <3>5. CASE Move(p)
      BY <3>5 DEF Move, SerialInv
    <3>6. CASE Restart(p)
      BY <3>6, <2>4 DEF Restart
    <3>7. CASE Kill(p)
      BY <3>7 DEF Kill, Idle
    <3> QED
      BY <1>1, <3>1, <3>2, <3>3, <3>4, <3>5, <3>6, <3>7 DEF StepOf
  <2>6. dog' = dog
    BY <1>1 DEF StepOf, Request, Add, Append, Remove, Move, Restart, Kill
  <2>7. \A q \in Procs : req'[q].pc \in Adding => q = p
    BY <2>1 DEF Alone, Idle, Adding
  <2>8. InForce'
    BY <2>5 DEF InForce
  <2> QED
    BY <2>5, <2>6, <2>7, <2>8 DEF ForceInv
<1>2. CASE ChronydStarts
  <2>1. UNCHANGED <<file, req, promised, dog>> /\ Open' = Open /\ up' /\ ~up /\ acl' = file
    BY <1>2, OtherSteps DEF ChronydStarts, Open, Begun
  <2>2. InForce'
    BY <1>0, <2>1 DEF InForce, Persisted, AnsweredIsPersistent
  <2> QED
    BY <2>1, <2>2 DEF ForceInv
<1>3. CASE UNCHANGED vars
  <2>1. UNCHANGED vars /\ Open' = Open
    BY <1>3 DEF Open, Begun, vars
  <2>2. InForce'
    BY <2>1 DEF ForceInv, InForce, vars
  <2> QED
    BY <2>1, <2>2 DEF ForceInv, vars
<1>4. ~ServeOff /\ ~ServeRead /\ ~ServeOn
  BY DEF ServeOff, ServeRead, ServeOn, ForceInv
<1> QED
  BY <1>1, <1>2, <1>3, <1>4, NextSplit

-----------------------------------------------------------------------------
(* The watchdog closing and re-opening                                       *)

(* The parts of AllowsRestored and DogInv about the rules in force           *)
AllowKept == \A r \in promised \ Open : r.action = "allow" => r \in acl

LEMMA RuleForm == \A r \in Rule : r.action = "allow" => r = Allow(r.cidr) /\ r.cidr \in Cidrs
  BY DEF Rule, Action, Allow

LEMMA AllowForm == \A c \in Cidrs : Allow(c) \in Rule /\ Allow(c).action = "allow"
  BY DEF Rule, Action, Allow

LEMMA DogStep ==
  TypeOK /\ TypeOK' /\ SerialInv /\ Persisted /\ Persisted' /\ DogInv /\ [Next]_vars
     => DogInv'
<1> SUFFICES ASSUME TypeOK, TypeOK', SerialInv, Persisted, Persisted', DogInv,
                    [Next]_vars, Serial, "chronyd" \notin faults
             PROVE  DogInv'
  BY FaultsFixed DEF DogInv, Serial
<1>0. Serial' /\ faults' = faults
  BY FaultsFixed DEF Serial
<1>a. /\ dog.wait # {} => dog.state = "off" /\ dog.pc = "idle"
      /\ \A q \in Procs : req[q].pc \in Adding =>
            up /\ req[q].rules \subseteq acl \cup dog.wait
      /\ up /\ dog.pc = "allow" =>
            \A c \in Cidrs : Allow(c) \in promised \ Open =>
               Allow(c) \in acl \/ c \in dog.todo
      /\ up /\ dog.state # "off" => AllowKept
  BY DEF DogInv, AllowsRestored, AllowKept
<1>b. promised \in SUBSET Rule /\ promised \ Open \subseteq file
  BY DEF Persisted, AnsweredIsPersistent, TypeOK
<1>c. promised' \in SUBSET Rule /\ promised' \ Open' \subseteq file'
  BY <1>0 DEF Persisted, AnsweredIsPersistent, TypeOK
<1> DEFINE Goal ==
      /\ dog'.wait # {} => dog'.state = "off" /\ dog'.pc = "idle"
      /\ \A q \in Procs : req'[q].pc \in Adding =>
            up' /\ req'[q].rules \subseteq acl' \cup dog'.wait
      /\ up' /\ dog'.pc = "allow" =>
            \A c \in Cidrs : Allow(c) \in promised' \ Open' =>
               Allow(c) \in acl' \/ c \in dog'.todo
      /\ up' /\ dog'.state # "off" =>
            \A r \in promised' \ Open' : r.action = "allow" => r \in acl'
<1>d. SUFFICES Goal
  BY <1>d DEF DogInv, AllowsRestored
<1>1. ASSUME NEW p \in Procs, StepOf(p) PROVE Goal
  <2>1. Alone(p) /\ Alone(p)'
    BY <1>1, StepAlone
  <2>2. /\ Open = doubt \cup BegunBy(p)
        /\ Open' = doubt' \cup BegunBy(p)'
    BY <2>1, OpenAlone, OpenAloneNext
  <2>3. dog' = dog
    BY <1>1 DEF StepOf, Request, Add, Append, Remove, Move, Restart, Kill
  (* Chronyd has read the file, or lost no rule that the history gained.     *)
  <2>4. \/ up' /\ acl' = file' /\ req'[p].pc = "idle"
        \/ ~up' /\ req'[p].pc = "idle"
        \/ /\ up' = up
           /\ acl \subseteq acl'
           /\ promised' \ Open' \subseteq
                (promised \ Open) \cup (IF req[p].pc = "move_add" THEN req[p].rules ELSE {})
           /\ req'[p].pc \in Adding =>
                 \/ up /\ req'[p].rules \subseteq acl'
                 \/ req[p].pc \in Adding /\ req'[p].rules = req[p].rules
    <3> USE <2>2 DEF Goto, Leave, Abandon, BegunBy, Begun, TypeOK, Adding
    <3> DEFINE G == 
          \/ up' /\ acl' = file' /\ req'[p].pc = "idle"
          \/ ~up' /\ req'[p].pc = "idle"
          \/ /\ up' = up
             /\ acl \subseteq acl'
             /\ promised' \ Open' \subseteq
                  (promised \ Open) \cup (IF req[p].pc = "move_add" THEN req[p].rules ELSE {})
             /\ req'[p].pc \in Adding =>
                   \/ up /\ req'[p].rules \subseteq acl'
                   \/ req[p].pc \in Adding /\ req'[p].rules = req[p].rules
    <3>1. ASSUME NEW kind \in {"add", "remove"}, NEW rule \in Rule,
                 Request(p, kind, rule)
          PROVE  G
      BY <3>1 DEF Request, Idle
    <3>2. CASE Add(p)
      BY <3>2 DEF Add
    <3>3. CASE Append(p)
      BY <3>3 DEF Append
    <3>4. CASE Remove(p)
      BY <3>4 DEF Remove
    <3>5. CASE Move(p)
      BY <3>5 DEF Move, SerialInv
    <3>6. CASE Restart(p)
      BY <3>6 DEF Restart
    <3>7. CASE Kill(p)
      BY <3>7 DEF Kill, Idle
    <3> QED
      BY <1>1, <3>1, <3>2, <3>3, <3>4, <3>5, <3>6, <3>7 DEF StepOf
  <2>5. \A q \in Procs : req'[q].pc \in Adding => q = p
    BY <2>1 DEF Alone, Idle, Adding
  <2>6. CASE up' /\ acl' = file' /\ req'[p].pc = "idle"
    BY <1>a, <1>c, <2>3, <2>5, <2>6, AllowForm DEF Adding
  <2>7. CASE ~up' /\ req'[p].pc = "idle"
    BY <1>a, <2>3, <2>5, <2>7 DEF Adding
  <2>8. CASE /\ up' = up
             /\ acl \subseteq acl'
             /\ promised' \ Open' \subseteq
                  (promised \ Open) \cup (IF req[p].pc = "move_add" THEN req[p].rules ELSE {})
             /\ req'[p].pc \in Adding =>
                   \/ up /\ req'[p].rules \subseteq acl'
                   \/ req[p].pc \in Adding /\ req'[p].rules = req[p].rules
    <3>1. \A q \in Procs : req'[q].pc \in Adding =>
            up' /\ req'[q].rules \subseteq acl' \cup dog'.wait
      BY <1>a, <2>3, <2>5, <2>8
    <3>2. ASSUME up', dog.wait = {}
          PROVE  promised' \ Open' \subseteq (promised \ Open) \cup acl'
      BY <1>a, <2>8, <3>2 DEF Adding
    <3>3. ASSUME up', dog'.pc = "allow"
          PROVE  \A c \in Cidrs : Allow(c) \in promised' \ Open' =>
                    Allow(c) \in acl' \/ c \in dog'.todo
      BY <1>a, <2>3, <2>8, <3>2, <3>3
    <3>4. ASSUME up', dog'.state # "off"
          PROVE  \A r \in promised' \ Open' : r.action = "allow" => r \in acl'
      BY <1>a, <2>3, <2>8, <3>2, <3>4 DEF AllowKept
    <3> QED
      BY <1>a, <2>3, <3>1, <3>3, <3>4
  <2> QED
    BY <2>4, <2>6, <2>7, <2>8
<1>2. CASE ChronydStarts
  <2>1. UNCHANGED <<req, dog>> /\ up' /\ ~up /\ acl' = file'
    BY <1>2 DEF ChronydStarts
  <2> QED
    BY <1>a, <1>c, <2>1, AllowForm
<1>3. ASSUME ServeOff \/ ServeRead \/ ServeOn \/ UNCHANGED vars
      PROVE  /\ UNCHANGED <<req, promised, up>>
             /\ Open' = Open
  BY <1>3, OtherSteps DEF ServeOff, ServeRead, ServeOn, Open, Begun, vars
<1>4. CASE ServeOff
  <2>1. dog'.state = "off" /\ dog'.pc = "idle" /\ dog'.wait = BeingAdded
    BY <1>4 DEF ServeOff, TypeOK
  <2>2. \A q \in Procs : req[q].pc \in Adding => req[q].rules \subseteq BeingAdded
    BY DEF BeingAdded, TypeOK
  <2> QED
    BY <1>a, <1>3, <1>4, <2>1, <2>2
<1>5. CASE ServeRead
  <2>1. /\ dog'.state = dog.state /\ dog'.wait = {} /\ acl' = acl
        /\ dog'.todo = AllowSubnets
        /\ dog.wait \cap BeingAdded = {}
    BY <1>5 DEF ServeRead, TypeOK
  <2>2. \A q \in Procs : req[q].pc \in Adding => req[q].rules \subseteq BeingAdded
    BY DEF BeingAdded, TypeOK
  <2>3. \A c \in Cidrs : Allow(c) \in promised \ Open => c \in AllowSubnets
    BY <1>b DEF AllowSubnets
  <2>4. \A q \in Procs : req[q].pc \in Adding => up /\ req[q].rules \subseteq acl
    BY <1>a, <2>1, <2>2
  <2> QED
    BY <1>a, <1>3, <1>5, <2>1, <2>3, <2>4 DEF AllowKept
<1>6. CASE ServeOn
  <2>1. PICK done \in SUBSET dog.todo :
          /\ acl' = acl \cup {Allow(c) : c \in done}
          /\ dog' = [dog EXCEPT !.pc = "idle", !.todo = {}, !.state =
                       IF done = dog.todo THEN "on" ELSE dog.state]
    BY <1>6 DEF ServeOn
  <2>2. dog.pc = "allow" /\ dog.wait = {}
    BY <1>6, <1>a DEF ServeOn
  <2>3. dog'.pc = "idle" /\ dog'.wait = dog.wait
    BY <2>1 DEF TypeOK
  <2>4. acl \subseteq acl'
    BY <2>1
  <2>5. ASSUME up, dog'.state # "off" 
        PROVE  \A r \in promised \ Open : r.action = "allow" => r \in acl'
    <3>1. CASE done = dog.todo
      <4>1. \A c \in Cidrs : Allow(c) \in promised \ Open => Allow(c) \in acl'
        BY <1>a, <2>1, <2>2, <2>5, <3>1
      <4> QED
        BY <1>b, <4>1, RuleForm
    <3>2. CASE done # dog.todo
      <4>1. dog'.state = dog.state
        BY <2>1, <3>2 DEF TypeOK
      <4> QED
        BY <1>a, <2>4, <2>5, <4>1 DEF AllowKept
    <3> QED
      BY <3>1, <3>2
  <2> QED
    BY <1>a, <1>3, <1>6, <2>2, <2>3, <2>4, <2>5
<1>7. CASE UNCHANGED vars
  BY <1>a, <1>3, <1>7 DEF vars, AllowKept
<1> QED
  BY <1>1, <1>2, <1>4, <1>5, <1>6, <1>7, NextSplit

-----------------------------------------------------------------------------
(* What the requests and the watchdog guarantee                              *)

LEMMA AclStarts == Init => RulesInv
<1> SUFFICES ASSUME Init PROVE RulesInv
  OBVIOUS
<1>1. Open = {} /\ promised = file /\ acl = file
  BY DEF Init, Open, Begun
<1>2. \A p \in Procs : req[p].pc = "idle"
  BY DEF Init
<1>3. dog.pc = "idle" /\ dog.wait = {}
  BY DEF Init
<1>4. SerialInv
  BY <1>2 DEF SerialInv, Idle
<1>5. Persisted
  BY <1>1 DEF Persisted, AnsweredIsPersistent
<1>6. InForce /\ AllowsRestored
  BY <1>1 DEF InForce, AllowsRestored
<1> QED
  BY <1>2, <1>3, <1>4, <1>5, <1>6 DEF RulesInv, ForceInv, DogInv, Adding

(* The inductive invariant of file, chronyd, helper and watchdog: SerialInv,  *)
(* Persisted, ForceInv and DogInv hold together in every behaviour.           *)
LEMMA RulesInvariant == Spec => []RulesInv
<1>1. TypeOK /\ TypeOK' /\ RulesInv /\ [Next]_vars => RulesInv'
  BY SerialStep, PersistedStep, ForceStep, DogStep DEF RulesInv
<1> QED
  BY <1>1, AclStarts, AclTypes, PTL DEF Spec

(* With the types, the inductive invariant of chrony_acl_apply.sh, chronyd and *)
(* the watchdog holds in every behaviour.                                      *)
THEOREM AclInvariant == Spec => []AclInv
  BY AclTypes, RulesInvariant, PTL DEF AclInv

(* What ntpmon.cgi answered is what acl-web.conf holds, for requests one after *)
(* the other, wherever the helper is killed and whichever command fails.      *)
THEOREM AnswersPersist == Spec => []Persisted
  BY RulesInvariant, PTL DEF RulesInv

(* And it is what chronyd has in force, while only the requests touch it.     *)
THEOREM AnswersInForce == Spec => []InForce
<1>1. RulesInv => InForce
  BY DEF RulesInv, ForceInv, InForce
<1> QED
  BY <1>1, RulesInvariant, PTL

(* ntp_serve off and on, at any moment, gives every allowed subnet back.      *)
THEOREM AllowsComeBack == Spec => []AllowsRestored
<1>1. RulesInv => AllowsRestored
  BY DEF RulesInv, DogInv, AllowsRestored
<1> QED
  BY <1>1, RulesInvariant, PTL

=============================================================================
