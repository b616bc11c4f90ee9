---------------------------- MODULE PpsWatchdog ----------------------------
(***************************************************************************)
(* pps_tod_watchdog.sh: the shell loop that watches the timing daemon       *)
(* pps_tod, restarts it when it has produced no good sample for a while,    *)
(* and stops chronyd from answering NTP clients while the clock is not      *)
(* vouched for.                                                             *)
(*                                                                         *)
(* One pass of the loop is one action and `sleep 1` is another.  The times  *)
(* are those of `date +%s`; the several calls of date in one pass are taken *)
(* to read the same second.  What is_good finds in the daemon's status file *)
(* is an input, as are the exit codes of systemctl and chronyc.  Logging,   *)
(* prune_log and the alert interval are left out, and NTP_GUARD is 1.       *)
(***************************************************************************)
EXTENDS Integers, FiniteSets

CONSTANTS
    GoodWindow,   \* GOOD_WINDOW
    Cooldown,     \* RESTART_COOLDOWN
    MaxRestarts,  \* MAX_RESTARTS
    Hour,         \* 3600
    ObserveGrace, \* OBSERVE_GRACE
    StartGrace,   \* START_GRACE
    Retry,        \* 10, the retry throttle of ntp_serve
    MaxSleep,     \* longest time from one pass to the next
    MaxNow,       \* bound on the clock
    MaxSteps,     \* bound on the number of clock steps
    Scenarios     \* sets of faults, see FaultNames: one is picked at the start

FaultNames ==
    { "clock",    \* the wall clock is stepped
      "chronyc",  \* chronyc fails
      "chronyd",  \* chronyd is restarted, by systemd or by an ACL change
      "script" }  \* the script itself is restarted

ASSUME ThresholdAssumption ==
    /\ GoodWindow \in Nat /\ Cooldown \in Nat \ {0} /\ MaxRestarts \in Nat
    /\ Hour \in Nat /\ ObserveGrace \in Nat /\ StartGrace \in Nat
    /\ Retry \in Nat /\ MaxSleep \in Nat \ {0} /\ MaxNow \in Nat \ {0}
    /\ MaxSteps \in Nat /\ Scenarios \subseteq SUBSET FaultNames

(* pps_tod_watchdog.conf: 30 s without a good sample, 10 s retry             *)
ASSUME RetryAssumption == Retry <= GoodWindow /\ Retry <= ObserveGrace

VARIABLES
    now,           \* date +%s
    phase,         \* "pass" or "sleep"
    start_epoch, mode, bad_since, last_action, observe_until,
    strikes,       \* times of the restarts, the script's own list
    ntp_state, last_ntp_try,
    serving,       \* chronyd: does it answer clients?
    faults,        \* what may go wrong in this behaviour
    steps,         \* number of clock steps so far
    restarts,      \* history: times of all restarts of this script run
    badRun,        \* history: bad passes in a row in mode OK, up to a cap
    goodSince,     \* history: first pass of the current run of good ones
    passSince,     \* history: has a pass run since chronyd was last restarted?
    reasserted     \* history: has chronyc denied all in DEGRADED, since it was
                   \* entered and since chronyd was last restarted?

script == <<start_epoch, mode, bad_since, last_action, observe_until, strikes>>
chrony == <<ntp_state, last_ntp_try, serving>>
history == <<restarts, badRun, goodSince, passSince, reasserted>>
env == <<faults, steps>>
watchdogVars == <<now, phase, script, chrony, history, env>>

ClockSteps == "clock" \in faults
ChronycFails == "chronyc" \in faults
ChronydStops == "chronyd" \in faults
ScriptDies == "script" \in faults

WatchdogInit ==
    /\ now = 1
    /\ phase = "pass"
    /\ start_epoch = 1
    /\ mode = "OK"
    /\ bad_since = 0
    /\ last_action = 0
    /\ observe_until = 0
    /\ strikes = {}
    /\ ntp_state = "unknown"
    /\ last_ntp_try = 0
    /\ serving = TRUE
    /\ faults \in Scenarios
    /\ steps = 0
    /\ restarts = {}
    /\ badRun = 0
    /\ goodSince = 0
    /\ passSince = FALSE
    /\ reasserted = FALSE

-----------------------------------------------------------------------------
(* Mutant: the time of the attempt is taken before the throttle is applied.  *)
ntp_serve_starved(want) ==
    IF ntp_state = want
    THEN UNCHANGED chrony
    ELSE /\ last_ntp_try' = now
         /\ IF now - last_ntp_try < Retry
            THEN UNCHANGED <<ntp_state, serving>>
            ELSE ntp_state' = want /\ serving' = (want = "on")

(* Mutant: the throttle is as long as two windows.                           *)
ntp_serve_slow(want) ==
    IF ntp_state = want \/ now - last_ntp_try < 2 * GoodWindow
    THEN UNCHANGED chrony
    ELSE /\ last_ntp_try' = now
         /\ ntp_state' = want
         /\ serving' = (want = "on")

(* ntp_serve on|off: chronyc deny all, or an allow for every allowed subnet   *)
(* of the ACL file.  A chronyc that fails half way may have allowed some.     *)
ntp_serve(want) ==
    IF ntp_state = want \/ now - last_ntp_try < Retry
    THEN UNCHANGED chrony
    ELSE /\ last_ntp_try' = now
         /\ \/ /\ ntp_state' = want
               /\ serving' = (want = "on")
            \/ /\ ChronycFails
               /\ UNCHANGED ntp_state
               /\ serving' \in IF want = "on" THEN {serving, TRUE} ELSE {serving}

(* Mutant: the deny is not repeated.                                         *)
ntp_serve_off_once(ok) == ntp_serve("off")

(* The DEGRADED branch: ntp_serve off force, which ignores the throttle and   *)
(* what the script believes, then ntp_serve off again if that failed          *)
ntp_serve_force(ok) ==
    IF ok
    THEN /\ ntp_state' = "off"
         /\ serving' = FALSE
         /\ UNCHANGED last_ntp_try
    ELSE ntp_serve("off")

(* A pass begins after the first START_GRACE seconds and ends in sleep 1.     *)
Pass ==
    /\ phase = "pass"
    /\ now - start_epoch >= StartGrace
    /\ phase' = "sleep"
    /\ passSince' = TRUE
    /\ UNCHANGED <<now, start_epoch, env>>

GracePass ==
    /\ phase = "pass"
    /\ now - start_epoch < StartGrace
    /\ phase' = "sleep"
    /\ UNCHANGED <<now, script, chrony, history, env>>

(* is_good                                                                   *)
GoodPass ==
    /\ Pass
    /\ mode' = "OK"
    /\ bad_since' = 0
    /\ observe_until' = 0
    /\ ntp_serve("on")
    /\ badRun' = 0
    /\ goodSince' = IF goodSince = 0 THEN now ELSE goodSince
    /\ reasserted' = FALSE
    /\ UNCHANGED <<last_action, strikes, restarts>>

-----------------------------------------------------------------------------
(* No good sample, mode OK                                                   *)

(* Mutant: the outage begins anew with every bad pass.                       *)
BadSinceNow == now

(* The outage begins with the first bad pass.                                *)
BadSince == IF bad_since = 0 THEN now ELSE bad_since

(* Mutant: only the window is asked for.                                     *)
DueAnyTime == now - BadSince >= GoodWindow

(* Bad for a whole window, and the last restart is past its cooldown         *)
Due ==
    /\ now - BadSince >= GoodWindow
    /\ now - last_action >= Cooldown

(* Mutant: the list is trimmed to the current window, not the last hour.     *)
FreshInWindow == {s \in strikes : now - s < GoodWindow}

(* The restarts within the last hour                                         *)
Fresh == {s \in strikes : now - s < Hour}

BadPass == Pass /\ mode = "OK" /\ bad_since' = BadSince /\ goodSince' = 0

BadWait ==
    /\ BadPass
    /\ ~Due
    /\ badRun' = IF badRun > GoodWindow + Cooldown THEN badRun ELSE badRun + 1
    /\ UNCHANGED <<mode, last_action, observe_until, strikes, chrony, restarts,
                   reasserted>>

(* MAX_RESTARTS within the hour: give up                                     *)
BadQuota ==
    /\ BadPass
    /\ Due
    /\ Cardinality(Fresh) >= MaxRestarts
    /\ strikes' = Fresh
    /\ mode' = "DEGRADED"
    /\ ntp_serve("off")
    /\ badRun' = 0
    /\ UNCHANGED <<last_action, observe_until, restarts, reasserted>>

(* systemctl restart pps_tod; if that fails, DEGRADED at once                *)
BadRestart ==
    /\ BadPass
    /\ Due
    /\ Cardinality(Fresh) < MaxRestarts
    /\ strikes' = Fresh \cup {now}
    /\ last_action' = now
    /\ observe_until' = now + ObserveGrace
    /\ mode' \in {"RECOVERING", "DEGRADED"}
    /\ ntp_serve("off")
    /\ restarts' = restarts \cup {now}
    /\ badRun' = 0
    /\ UNCHANGED reasserted

-----------------------------------------------------------------------------
(* No good sample after a restart                                            *)

RecoverPass ==
    /\ Pass
    /\ mode = "RECOVERING"
    /\ IF now >= observe_until
       THEN mode' = "DEGRADED" /\ ntp_serve("off")
       ELSE UNCHANGED <<mode, chrony>>
    /\ goodSince' = 0
    /\ UNCHANGED <<bad_since, last_action, observe_until, strikes, restarts,
                   badRun, reasserted>>

DegradedPass ==
    /\ Pass
    /\ mode = "DEGRADED"
    /\ \E ok \in {TRUE, ~ChronycFails} :
         ntp_serve_force(ok) /\ reasserted' = (reasserted \/ ok)
    /\ goodSince' = 0
    /\ UNCHANGED <<mode, bad_since, last_action, observe_until, strikes,
                   restarts, badRun>>

-----------------------------------------------------------------------------
(* sleep 1, and the time the commands of the pass took                       *)
Sleep ==
    /\ phase = "sleep"
    /\ \E d \in 1..MaxSleep : now + d <= MaxNow /\ now' = now + d
    /\ phase' = "pass"
    /\ UNCHANGED <<script, chrony, history, env>>

(* The daemon or chrony steps the clock.                                     *)
StepWallClock ==
    /\ ClockSteps
    /\ steps < MaxSteps
    /\ steps' = steps + 1
    /\ now' \in 1..MaxNow
    /\ UNCHANGED <<phase, script, chrony, history, faults>>

(* chronyd starts again with the ACL of its configuration files.             *)
ChronydComesBack ==
    /\ ChronydStops
    /\ serving' = TRUE
    /\ passSince' = FALSE
    /\ reasserted' = FALSE
    /\ UNCHANGED <<now, phase, script, ntp_state, last_ntp_try, restarts,
                   badRun, goodSince, env>>

(* systemd starts the script again (Restart=always): nothing is remembered.   *)
ScriptRestart ==
    /\ ScriptDies
    /\ phase' = "pass"
    /\ start_epoch' = now
    /\ mode' = "OK"
    /\ bad_since' = 0
    /\ last_action' = 0
    /\ observe_until' = 0
    /\ strikes' = {}
    /\ ntp_state' = "unknown"
    /\ last_ntp_try' = 0
    /\ restarts' = {}
    /\ badRun' = 0
    /\ goodSince' = 0
    /\ reasserted' = FALSE
    /\ UNCHANGED <<now, serving, passSince, env>>

WatchdogNext ==
    \/ GracePass \/ GoodPass \/ BadWait \/ BadQuota \/ BadRestart
    \/ RecoverPass \/ DegradedPass \/ Sleep
    \/ StepWallClock \/ ChronydComesBack \/ ScriptRestart

WatchdogSpec == WatchdogInit /\ [][WatchdogNext]_watchdogVars

-----------------------------------------------------------------------------
(* Properties                                                                *)

TypeOK ==
    /\ now \in 1..MaxNow
    /\ phase \in {"pass", "sleep"}
    /\ start_epoch \in 1..MaxNow
    /\ mode \in {"OK", "RECOVERING", "DEGRADED"}
    /\ bad_since \in 0..MaxNow
    /\ last_action \in 0..MaxNow
    /\ observe_until \in Nat
    /\ strikes \in SUBSET (1..MaxNow)
    /\ ntp_state \in {"unknown", "on", "off"}
    /\ last_ntp_try \in 0..MaxNow
    /\ serving \in BOOLEAN
    /\ faults \in Scenarios
    /\ steps \in 0..MaxSteps
    /\ restarts \in SUBSET (1..MaxNow)
    /\ badRun \in Nat
    /\ goodSince \in 0..MaxNow
    /\ passSince \in BOOLEAN
    /\ reasserted \in BOOLEAN

(* The restarts that fall into the hour that begins at t                     *)
InHour(t) == {s \in restarts : t <= s /\ s < t + Hour}

(* "max restarts per rolling hour": while the clock is not stepped, in no hour, *)
(* wherever it begins, does one run of the script restart the daemon more than  *)
(* MAX_RESTARTS times, although the list it counts is trimmed as it goes.      *)
RestartBound ==
    ~ClockSteps => \A t \in 1..MaxNow : Cardinality(InHour(t)) <= MaxRestarts

(* While the clock is not stepped, two restarts are at least RESTART_COOLDOWN  *)
(* apart.                                                                    *)
RestartSpacing ==
    ~ClockSteps => \A s, t \in restarts : s < t => t - s >= Cooldown

(* chronyc works, only the script closes and opens chronyd                   *)
Undisturbed == ~ClockSteps /\ ~ChronycFails /\ ~ChronydStops

(* While the daemon is being restarted or has been given up, chronyd does not *)
(* answer, at the latest after the next pass of the loop: undisturbed, neither *)
(* the 10 s throttle of ntp_serve nor what the script believes of chronyd,     *)
(* which it forgets when it is restarted, ever suppresses the deny that is due. *)
DenyNeverSuppressed ==
    Undisturbed => (mode # "OK" /\ passSince => ~serving)

(* With chronyd restarting and chronyc failing at any time: after the first    *)
(* pass in DEGRADED whose deny succeeds chronyd is closed again and stays so.  *)
DegradedCloses == mode = "DEGRADED" /\ reasserted => ~serving

(* Undisturbed, after good samples for as long as the throttle chronyd        *)
(* answers again.                                                            *)
ServingResumes ==
    /\ Undisturbed
    /\ phase = "sleep" /\ goodSince # 0 /\ now - goodSince >= Retry
    => serving

(* The watchdog does not sleep through an outage, while the clock is not      *)
(* stepped: after as many bad passes as the longer of window and cooldown has  *)
(* seconds it has acted.                                                     *)
StarvationNoticed ==
    ~ClockSteps =>
       badRun <= IF GoodWindow > Cooldown THEN GoodWindow ELSE Cooldown

-----------------------------------------------------------------------------
(* Why they hold: the parts of the inductive invariant                       *)

(* While the clock is not stepped: the list of strikes misses only restarts   *)
(* that are an hour old, and no restart is later than last_action.           *)
QuotaInv ==
    ~ClockSteps =>
       /\ strikes \subseteq restarts
       /\ last_action <= now
       /\ \A s \in restarts : s <= last_action
       /\ \A s \in restarts \ strikes : now - s >= Hour
       /\ RestartBound
       /\ RestartSpacing

(* While the clock is not stepped: each bad pass took at least a second, and   *)
(* the last restart came before the outage.                                  *)
OutageInv ==
    ~ClockSteps =>
       /\ badRun > 0 => /\ mode = "OK"
                        /\ bad_since # 0
                        /\ badRun <= now - bad_since
                                        + (IF phase = "sleep" THEN 1 ELSE 0)
       /\ mode = "OK" /\ bad_since # 0 => last_action <= bad_since
       /\ last_action <= now /\ bad_since <= now
       /\ StarvationNoticed

(* While chronyc works and only the script opens and closes chronyd: what the *)
(* script believes is so, and no attempt was made since the outage or the     *)
(* run of good passes began, so the throttle has run out when it matters.     *)
ServeInv ==
    Undisturbed =>
       /\ ntp_state = "off" => ~serving
       /\ ntp_state = "on" => serving
       /\ mode # "OK" => ntp_state = "off"
       /\ last_ntp_try <= now /\ bad_since <= now /\ goodSince <= now
       /\ mode = "OK" /\ bad_since # 0 => last_ntp_try <= bad_since
       /\ goodSince # 0 => now - start_epoch >= StartGrace
       /\ goodSince # 0 /\ ntp_state # "on" => last_ntp_try <= goodSince
       /\ ServingResumes

(* Whatever fails: a deny in DEGRADED lasts until chronyd or DEGRADED ends.   *)
CloseInv == reasserted => mode = "DEGRADED" /\ ~serving

DutyInv == QuotaInv /\ OutageInv /\ ServeInv /\ CloseInv

(* The inductive invariant                                                   *)
WatchdogInv == TypeOK /\ DutyInv

=============================================================================
