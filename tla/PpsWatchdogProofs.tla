------------------------- MODULE PpsWatchdogProofs -------------------------
(***************************************************************************)
(* Proofs about PpsWatchdog, for every setting of the thresholds.           *)
(***************************************************************************)
EXTENDS PpsWatchdog, FiniteSetTheorems, TLAPS

-----------------------------------------------------------------------------
(* Type correctness, the times and modes apart from the flags               *)

TypeTimes ==
    /\ now \in 1..MaxNow
    /\ phase \in {"pass", "sleep"}
    /\ start_epoch \in 1..MaxNow
    /\ mode \in {"OK", "RECOVERING", "DEGRADED"}
    /\ bad_since \in 0..MaxNow
    /\ last_action \in 0..MaxNow
    /\ observe_until \in Nat
    /\ strikes \in SUBSET (1..MaxNow)
    /\ ntp_state \in {"unknown", "on", "off"}
    /\ last_ntp_try \in 0..MaxNow
    /\ restarts \in SUBSET (1..MaxNow)
    /\ badRun \in Nat
    /\ goodSince \in 0..MaxNow
    /\ steps \in 0..MaxSteps

TypeFlags ==
    /\ faults \in Scenarios
    /\ serving \in BOOLEAN
    /\ passSince \in BOOLEAN
    /\ reasserted \in BOOLEAN

(* ntp_serve keeps the types of the variables it may set.                    *)
LEMMA ServeTimes ==
  ASSUME TypeTimes, NEW want \in {"on", "off"}, ntp_serve(want)
  PROVE  /\ ntp_state' \in {"unknown", "on", "off"}
         /\ last_ntp_try' \in 0..MaxNow
<1>1. \/ ntp_state' = ntp_state /\ last_ntp_try' = last_ntp_try
      \/ last_ntp_try' = now /\ ntp_state' \in {want, ntp_state}
  BY Zenon DEF ntp_serve, chrony
<1> QED
  BY <1>1 DEF TypeTimes

(* The same for its flag                                                     *)
LEMMA ServeFlag ==
  ASSUME TypeFlags, NEW want, ntp_serve(want)
  PROVE  serving' \in BOOLEAN
  BY Zenon DEF ntp_serve, TypeFlags, chrony

(* Fresh is a part of the list of strikes, hence a finite set of times.       *)
LEMMA FreshType ==
  ASSUME TypeTimes
  PROVE  Fresh \in SUBSET (1..MaxNow) /\ Fresh \subseteq strikes
  BY DEF Fresh, TypeTimes

(* One step per action: the times and modes                                  *)
LEMMA TimesStep == TypeTimes /\ [WatchdogNext]_watchdogVars => TypeTimes'
<1> SUFFICES ASSUME TypeTimes, [WatchdogNext]_watchdogVars PROVE TypeTimes'
  OBVIOUS
<1> USE ThresholdAssumption
<1>1. CASE GracePass
  BY <1>1 DEF GracePass, script, chrony, history, env, TypeTimes
<1>2. CASE GoodPass
  BY <1>2, ServeTimes DEF GoodPass, Pass, env, TypeTimes
<1>3. CASE BadWait
  BY <1>3 DEF BadWait, BadPass, BadSince, Pass, chrony, env, TypeTimes
<1>4. CASE BadQuota
  BY <1>4, ServeTimes, FreshType DEF BadQuota, BadPass, BadSince, Pass, env, TypeTimes
<1>5. CASE BadRestart
  BY <1>5, ServeTimes, FreshType DEF BadRestart, BadPass, BadSince, Pass, env, TypeTimes
<1>6. CASE RecoverPass
  BY <1>6, ServeTimes DEF RecoverPass, Pass, chrony, env, TypeTimes
<1>7. CASE DegradedPass
  BY <1>7, ServeTimes DEF DegradedPass, ntp_serve_force, Pass, env, TypeTimes
<1>8. CASE Sleep
  BY <1>8 DEF Sleep, script, chrony, history, env, TypeTimes
<1>9. CASE StepWallClock
  BY <1>9 DEF StepWallClock, script, chrony, history, env, TypeTimes
<1>10. CASE ChronydComesBack
  BY <1>10 DEF ChronydComesBack, script, env, TypeTimes
<1>11. CASE ScriptRestart
  BY <1>11 DEF ScriptRestart, env, TypeTimes
<1>12. CASE UNCHANGED watchdogVars
  BY <1>12 DEF watchdogVars, TypeTimes, script, chrony, history, env
<1> QED
  BY <1>1, <1>2, <1>3, <1>4, <1>5, <1>6, <1>7, <1>8, <1>9, <1>10, <1>11, <1>12 DEF WatchdogNext

(* One step per action: the flags                                            *)
LEMMA FlagsStep == TypeFlags /\ [WatchdogNext]_watchdogVars => TypeFlags'
<1> SUFFICES ASSUME TypeFlags, [WatchdogNext]_watchdogVars PROVE TypeFlags'
  OBVIOUS
<1>1. CASE GracePass
  BY <1>1 DEF GracePass, script, chrony, history, env, TypeFlags
<1>2. CASE GoodPass
  BY <1>2, ServeFlag DEF GoodPass, Pass, env, TypeFlags
<1>3. CASE BadWait
  BY <1>3 DEF BadWait, BadPass, BadSince, Pass, chrony, env, TypeFlags
<1>4. CASE BadQuota
  BY <1>4, ServeFlag DEF BadQuota, BadPass, BadSince, Pass, env, TypeFlags
<1>5. CASE BadRestart
  BY <1>5, ServeFlag DEF BadRestart, BadPass, BadSince, Pass, env, TypeFlags
<1>6. CASE RecoverPass
  BY <1>6, ServeFlag DEF RecoverPass, Pass, chrony, env, TypeFlags
<1>7. CASE DegradedPass
  BY <1>7, ServeFlag DEF DegradedPass, ntp_serve_force, Pass, env, TypeFlags
<1>8. CASE Sleep
  BY <1>8 DEF Sleep, script, chrony, history, env, TypeFlags
<1>9. CASE StepWallClock
  BY <1>9 DEF StepWallClock, script, chrony, history, env, TypeFlags
<1>10. CASE ChronydComesBack
  BY <1>10 DEF ChronydComesBack, script, env, TypeFlags
<1>11. CASE ScriptRestart
  BY <1>11 DEF ScriptRestart, env, TypeFlags
<1>12. CASE UNCHANGED watchdogVars
  BY <1>12 DEF watchdogVars, TypeFlags, script, chrony, history, env
<1> QED
  BY <1>1, <1>2, <1>3, <1>4, <1>5, <1>6, <1>7, <1>8, <1>9, <1>10, <1>11, <1>12 DEF WatchdogNext

(* The faults of a behaviour are picked once.                                *)
LEMMA FaultsFixed == [WatchdogNext]_watchdogVars => faults' = faults
  BY DEF WatchdogNext, watchdogVars, env, GracePass, GoodPass, BadWait, BadQuota, BadRestart,
     BadPass, RecoverPass, DegradedPass, Pass, Sleep, StepWallClock, ChronydComesBack,
     ScriptRestart

(* The two halves make up the type invariant.                                *)
LEMMA TypeParts == TypeOK <=> TypeTimes /\ TypeFlags
  BY DEF TypeOK, TypeTimes, TypeFlags

(* Every variable of the watchdog keeps its type.                            *)
THEOREM WatchdogTypes == WatchdogSpec => []TypeOK
<1>1. WatchdogInit => TypeTimes
  BY ThresholdAssumption DEF WatchdogInit, TypeTimes
<1>2. WatchdogInit => TypeFlags
  BY Zenon DEF WatchdogInit, TypeFlags
<1> QED
  BY <1>1, <1>2, TimesStep, FlagsStep, TypeParts, PTL DEF WatchdogSpec

-----------------------------------------------------------------------------
(* The restart quota                                                         *)

(* Sets of times are finite.                                                 *)
LEMMA TimesFinite ==
  ASSUME NEW S \in SUBSET (1..MaxNow)
  PROVE  IsFiniteSet(S) /\ Cardinality(S) \in Nat
<1>1. IsFiniteSet(1..MaxNow)
  BY ThresholdAssumption, FS_Interval
<1>2. IsFiniteSet(S)
  BY <1>1, FS_Subset
<1> QED
  BY <1>2, FS_CardinalityType

(* The restarts of an hour that the present restart falls into are all fresh, *)
(* so the list the script counts has missed none of them.                    *)
LEMMA HourIsFresh ==
  ASSUME TypeTimes, QuotaInv, ~ClockSteps, NEW t \in 1..MaxNow, now < t + Hour
  PROVE  InHour(t) \subseteq Fresh
<1> SUFFICES ASSUME NEW s \in restarts, t <= s
             PROVE  s \in Fresh
  BY DEF InHour
<1>1. s \in 1..MaxNow /\ now \in 1..MaxNow /\ Hour \in Nat /\ MaxNow \in Nat
  BY ThresholdAssumption DEF TypeTimes
<1>2. now - s < Hour
  BY <1>1
<1>3. s \in strikes
  BY <1>1, <1>2 DEF QuotaInv
<1> QED
  BY <1>2, <1>3 DEF Fresh

(* A restart that the script allows keeps every hour within the quota.       *)
LEMMA RestartKeepsBound ==
  ASSUME TypeTimes, QuotaInv, ~ClockSteps, Cardinality(Fresh) < MaxRestarts,
         restarts' = restarts \cup {now}, NEW t \in 1..MaxNow
  PROVE  Cardinality(InHour(t)') <= MaxRestarts
<1>0. /\ restarts \in SUBSET (1..MaxNow) /\ now \in 1..MaxNow
      /\ MaxRestarts \in Nat /\ Hour \in Nat /\ MaxNow \in Nat
  BY ThresholdAssumption DEF TypeTimes
<1>1. InHour(t) \in SUBSET (1..MaxNow) /\ Fresh \in SUBSET (1..MaxNow)
  BY <1>0, FreshType DEF InHour
<1>2. /\ IsFiniteSet(InHour(t)) /\ Cardinality(InHour(t)) \in Nat
      /\ IsFiniteSet(Fresh) /\ Cardinality(Fresh) \in Nat
  BY <1>1, TimesFinite
<1>3. CASE t <= now /\ now < t + Hour
  <2>1. InHour(t)' = InHour(t) \cup {now}
    BY <1>0, <1>3 DEF InHour
  <2>2. Cardinality(InHour(t)) <= Cardinality(Fresh)
    BY <1>2, <1>3, HourIsFresh, FS_Subset
  <2>3. Cardinality(InHour(t) \cup {now}) <= Cardinality(InHour(t)) + 1
    BY <1>2, FS_AddElement
  <2>4. Cardinality(InHour(t) \cup {now}) \in Nat
    BY <1>0, <1>1, TimesFinite
  <2> QED
    BY <1>0, <1>2, <2>1, <2>2, <2>3, <2>4
<1>4. CASE ~(t <= now /\ now < t + Hour)
  <2>1. InHour(t)' = InHour(t)
    BY <1>0, <1>4 DEF InHour
  <2> QED
    BY <2>1 DEF QuotaInv, RestartBound
<1> QED
  BY <1>3, <1>4

(* What is an age old stays at least as old as time goes on.                 *)
LEMMA Older ==
  ASSUME NEW a \in Int, NEW b \in Int, NEW c \in Int, NEW h \in Int,
         a - c >= h, b >= a
  PROVE  b - c >= h
  OBVIOUS

(* The quota part of the invariant is inductive.                             *)
LEMMA QuotaStep == TypeTimes /\ QuotaInv /\ [WatchdogNext]_watchdogVars => QuotaInv'
<1> SUFFICES ASSUME TypeTimes, QuotaInv, [WatchdogNext]_watchdogVars, ~ClockSteps, ~ClockSteps'
             PROVE  QuotaInv'
  BY FaultsFixed DEF QuotaInv, ClockSteps
<1>0. /\ restarts \in SUBSET (1..MaxNow) /\ now \in 1..MaxNow
      /\ strikes \in SUBSET (1..MaxNow) /\ last_action \in 0..MaxNow
      /\ Cooldown \in Nat \ {0} /\ Hour \in Nat /\ MaxNow \in Nat
      /\ TypeTimes'
  BY ThresholdAssumption, TimesStep DEF TypeTimes
<1>1. ASSUME UNCHANGED <<strikes, restarts, last_action>>, now' >= now
      PROVE  QuotaInv'
  <2>1. now' \in 1..MaxNow
    BY <1>0 DEF TypeTimes
  <2>2. ASSUME NEW s \in restarts \ strikes PROVE now' - s >= Hour
    <3>1. now - s >= Hour
      BY DEF QuotaInv
    <3>2. s \in 1..MaxNow
      BY <1>0
    <3>3. now \in Int /\ now' \in Int /\ s \in Int /\ Hour \in Int
      BY <1>0, <2>1, <3>2
    <3>4. now' >= now
      BY <1>1
    <3> QED
      BY <3>1, <3>3, <3>4, Older
  <2>3. last_action <= now'
    BY <1>0, <1>1, <2>1 DEF QuotaInv
  <2> QED
    BY <1>1, <2>2, <2>3 DEF QuotaInv, RestartBound, RestartSpacing, InHour
<1>2. CASE BadQuota
  <2>1. strikes' = Fresh /\ UNCHANGED <<now, restarts, last_action>>
    BY <1>2 DEF BadQuota, BadPass, Pass
  <2>2. \A s \in restarts \ Fresh : now - s >= Hour
    BY <1>0 DEF QuotaInv, Fresh
  <2> QED
    BY <2>1, <2>2, FreshType DEF QuotaInv, RestartBound, RestartSpacing, InHour
<1>3. CASE BadRestart
  <2>1. /\ strikes' = Fresh \cup {now} /\ restarts' = restarts \cup {now}
        /\ last_action' = now /\ now' = now /\ now - last_action >= Cooldown
        /\ Cardinality(Fresh) < MaxRestarts
    BY <1>3 DEF BadRestart, BadPass, Pass, Due
  <2>2. strikes' \subseteq restarts'
    BY <2>1, FreshType DEF QuotaInv
  <2>3. \A s \in restarts' : s <= last_action'
    BY <1>0, <2>1 DEF QuotaInv
  <2>4. \A s \in restarts' \ strikes' : now' - s >= Hour
    BY <1>0, <2>1 DEF QuotaInv, Fresh
  <2>5. RestartBound'
    BY <2>1, RestartKeepsBound DEF RestartBound
  <2>6. RestartSpacing'
    <3> SUFFICES ASSUME NEW s \in restarts', NEW u \in restarts', s < u
                 PROVE  u - s >= Cooldown
      BY DEF RestartSpacing
    <3>1. CASE u \in restarts /\ s \in restarts
      BY <3>1 DEF QuotaInv, RestartSpacing
    <3>2. CASE u = now /\ s \in restarts
      <4>1. s <= last_action
        BY <3>2 DEF QuotaInv
      <4> QED
        BY <4>1, <3>2, <1>0, <2>1
    <3>3. CASE s = now
      <4>1. u \in restarts => u <= last_action
        BY DEF QuotaInv
      <4>2. u \in restarts => u \in 1..MaxNow
        BY <1>0
      <4> QED
        BY <4>1, <4>2, <3>3, <1>0, <2>1
    <3> QED
      BY <2>1, <3>1, <3>2, <3>3
  <2>7. last_action' <= now'
    BY <1>0, <2>1
  <2> QED
    BY <2>2, <2>3, <2>4, <2>5, <2>6, <2>7 DEF QuotaInv
<1>4. CASE ScriptRestart
  <2>1. restarts' = {} /\ strikes' = {} /\ last_action' = 0 /\ now' = now
    BY <1>4 DEF ScriptRestart
  <2>2. \A t \in 1..MaxNow : InHour(t)' = {}
    BY <2>1 DEF InHour
  <2>3. RestartBound'
    BY <2>2, FS_EmptySet, ThresholdAssumption DEF RestartBound
  <2> QED
    BY <1>0, <2>1, <2>3 DEF QuotaInv, RestartSpacing
<1>5. CASE Sleep
  <2>1. now' >= now
    BY <1>5, <1>0, ThresholdAssumption DEF Sleep
  <2> QED
    BY <1>5, <2>1, <1>1 DEF Sleep, script, history
<1>6. CASE GracePass \/ GoodPass \/ BadWait \/ RecoverPass \/ DegradedPass
           \/ ChronydComesBack \/ UNCHANGED watchdogVars
  <2>1. UNCHANGED <<strikes, restarts, last_action, now>>
    BY <1>6 DEF GracePass, GoodPass, BadWait, BadPass, RecoverPass, DegradedPass,
       Pass, ChronydComesBack, watchdogVars, script, history
  <2> QED
    BY <2>1, <1>0, <1>1
<1>7. ~StepWallClock
  BY DEF StepWallClock
<1> QED
  BY <1>2, <1>3, <1>4, <1>5, <1>6, <1>7 DEF WatchdogNext

-----------------------------------------------------------------------------
(* Outages                                                                   *)

(* The outage part of the invariant is inductive.                            *)
LEMMA OutageStep == TypeTimes /\ OutageInv /\ [WatchdogNext]_watchdogVars => OutageInv'
<1> SUFFICES ASSUME TypeTimes, OutageInv, [WatchdogNext]_watchdogVars, ~ClockSteps, ~ClockSteps'
             PROVE  OutageInv'
  BY FaultsFixed DEF OutageInv, ClockSteps
<1> USE ThresholdAssumption
<1>1. CASE GracePass \/ UNCHANGED watchdogVars
  BY <1>1 DEF GracePass, watchdogVars, script, history, OutageInv, StarvationNoticed,
     TypeTimes
<1>2. CASE GoodPass
  BY <1>2 DEF GoodPass, Pass, OutageInv, StarvationNoticed, TypeTimes
<1>3. CASE BadWait
  BY <1>3 DEF BadWait, BadPass, BadSince, Due, Pass, OutageInv,
     StarvationNoticed, TypeTimes
<1>4. CASE BadQuota
  BY <1>4 DEF BadQuota, BadPass, BadSince, Pass, OutageInv, StarvationNoticed,
     TypeTimes
<1>5. CASE BadRestart
  BY <1>5 DEF BadRestart, BadPass, BadSince, Pass, OutageInv, StarvationNoticed,
     TypeTimes
<1>6. CASE RecoverPass
  BY <1>6 DEF RecoverPass, Pass, OutageInv, StarvationNoticed, TypeTimes
<1>7. CASE DegradedPass
  BY <1>7 DEF DegradedPass, Pass, OutageInv, StarvationNoticed, TypeTimes
<1>8. CASE Sleep
  BY <1>8 DEF Sleep, script, history, OutageInv, StarvationNoticed, TypeTimes
<1>9. CASE ChronydComesBack
  BY <1>9 DEF ChronydComesBack, script, OutageInv, StarvationNoticed, TypeTimes
<1>10. CASE ScriptRestart
  BY <1>10 DEF ScriptRestart, OutageInv, StarvationNoticed, TypeTimes
<1>11. ~StepWallClock
  BY DEF StepWallClock
<1> QED
  BY <1>1, <1>2, <1>3, <1>4, <1>5, <1>6, <1>7, <1>8, <1>9, <1>10, <1>11 DEF WatchdogNext

-----------------------------------------------------------------------------
(* Serving                                                                   *)

(* What ntp_serve does when chronyc works                                    *)
LEMMA ServeEffect ==
  ASSUME NEW want, ~ChronycFails, ntp_serve(want)
  PROVE  \/ /\ ntp_state = want \/ now - last_ntp_try < Retry
            /\ UNCHANGED <<ntp_state, last_ntp_try, serving>>
         \/ /\ last_ntp_try' = now
            /\ ntp_state' = want
            /\ serving' <=> want = "on"
  BY Zenon DEF ntp_serve, chrony

(* The serving part of the invariant is inductive.                           *)
LEMMA ServeStep == TypeTimes /\ ServeInv /\ [WatchdogNext]_watchdogVars => ServeInv'
<1> SUFFICES ASSUME TypeTimes, ServeInv, [WatchdogNext]_watchdogVars,
                    Undisturbed, Undisturbed'
             PROVE  ServeInv'
  BY FaultsFixed DEF ServeInv, Undisturbed, ClockSteps, ChronycFails, ChronydStops
<1>0. ~ClockSteps /\ ~ChronycFails /\ ~ChronydStops
  BY DEF Undisturbed
<1> USE ThresholdAssumption, RetryAssumption
<1>1. CASE GracePass \/ UNCHANGED watchdogVars
  BY <1>1 DEF GracePass, watchdogVars, script, chrony, history, ServeInv,
     ServingResumes, TypeTimes
<1>2. CASE GoodPass
  BY <1>2, <1>0, ServeEffect DEF GoodPass, Pass, ServeInv, ServingResumes, TypeTimes
<1>3. CASE BadWait
  BY <1>3 DEF BadWait, BadPass, BadSince, Pass, chrony, ServeInv,
     ServingResumes, TypeTimes
<1>4. CASE BadQuota
  BY <1>4, <1>0, ServeEffect DEF BadQuota, BadPass, BadSince, Due, Pass, ServeInv,
     ServingResumes, TypeTimes
<1>5. CASE BadRestart
  BY <1>5, <1>0, ServeEffect DEF BadRestart, BadPass, BadSince, Due, Pass, ServeInv,
     ServingResumes, TypeTimes
<1>6. CASE RecoverPass
  BY <1>6, <1>0, ServeEffect DEF RecoverPass, Pass, chrony, ServeInv, ServingResumes,
     TypeTimes
<1>7. CASE DegradedPass
  <2>1. mode = "DEGRADED" /\ ntp_serve_force(TRUE)
    BY <1>0, <1>7 DEF DegradedPass
  <2>2. /\ ntp_state' = "off" /\ ~serving' /\ last_ntp_try' = last_ntp_try
    BY <2>1 DEF ntp_serve_force
  <2> QED
    BY <1>7, <2>1, <2>2 DEF DegradedPass, Pass, ServeInv, ServingResumes, TypeTimes
<1>8. CASE Sleep
  BY <1>8 DEF Sleep, script, chrony, history, ServeInv, ServingResumes, TypeTimes
<1>9. ~ChronydComesBack
  BY <1>0 DEF ChronydComesBack
<1>10. CASE ScriptRestart
  BY <1>10 DEF ScriptRestart, ServeInv, ServingResumes, TypeTimes
<1>11. ~StepWallClock
  BY <1>0 DEF StepWallClock
<1> QED
  BY <1>1, <1>2, <1>3, <1>4, <1>5, <1>6, <1>7, <1>8, <1>9, <1>10, <1>11 DEF WatchdogNext

(* ntp_serve off never opens chronyd.                                        *)
LEMMA OffCloses ==
  ASSUME ntp_serve("off")
  PROVE  ~serving => ~serving'
  BY Zenon DEF ntp_serve, chrony

(* The closing part of the invariant is inductive, whatever fails.           *)
LEMMA CloseStep == CloseInv /\ [WatchdogNext]_watchdogVars => CloseInv'
<1> SUFFICES ASSUME CloseInv, [WatchdogNext]_watchdogVars PROVE CloseInv'
  OBVIOUS
<1>1. CASE GracePass \/ Sleep \/ StepWallClock \/ UNCHANGED watchdogVars
  BY <1>1 DEF GracePass, Sleep, StepWallClock, watchdogVars, script, chrony, history, CloseInv
<1>2. CASE GoodPass \/ ChronydComesBack \/ ScriptRestart
  BY <1>2 DEF GoodPass, ChronydComesBack, ScriptRestart, CloseInv
<1>3. CASE BadWait \/ BadQuota \/ BadRestart
  BY <1>3 DEF BadWait, BadQuota, BadRestart, BadPass, CloseInv
<1>4. CASE RecoverPass
  BY <1>4 DEF RecoverPass, CloseInv
<1>5. CASE DegradedPass
  <2>1. PICK ok \in {TRUE, ~ChronycFails} :
          ntp_serve_force(ok) /\ reasserted' = (reasserted \/ ok)
    BY <1>5 DEF DegradedPass
  <2>2. mode' = "DEGRADED"
    BY <1>5 DEF DegradedPass
  <2>3. CASE ok
    BY <2>1, <2>2, <2>3 DEF ntp_serve_force, CloseInv
  <2>4. CASE ~ok
    <3>1. ntp_serve("off") /\ (reasserted' => reasserted)
      BY <2>1, <2>4 DEF ntp_serve_force
    <3> QED
      BY <2>2, <3>1, OffCloses DEF CloseInv
  <2> QED
    BY <2>3, <2>4
<1> QED
  BY <1>1, <1>2, <1>3, <1>4, <1>5 DEF WatchdogNext

-----------------------------------------------------------------------------
(* The theorems                                                              *)

(* The four parts hold initially.                                            *)
LEMMA InvInit == WatchdogInit => DutyInv
<1> SUFFICES ASSUME WatchdogInit PROVE DutyInv
  OBVIOUS
<1>1. \A t \in 1..MaxNow : InHour(t) = {}
  BY DEF WatchdogInit, InHour
<1>2. RestartBound
  BY <1>1, FS_EmptySet, ThresholdAssumption DEF RestartBound
<1>3. QuotaInv
  BY <1>2 DEF WatchdogInit, QuotaInv, RestartSpacing
<1>4. OutageInv
  BY ThresholdAssumption DEF WatchdogInit, OutageInv, StarvationNoticed
<1>5. ServeInv
  BY DEF WatchdogInit, ServeInv, ServingResumes
<1>6. CloseInv
  BY DEF WatchdogInit, CloseInv
<1> QED
  BY <1>3, <1>4, <1>5, <1>6 DEF DutyInv

(* The inductive invariant holds in every reachable state.                   *)
LEMMA DutyInvariant == WatchdogSpec => []DutyInv
<1>1. WatchdogInit => TypeTimes
  BY ThresholdAssumption DEF WatchdogInit, TypeTimes
<1>2. TypeTimes /\ DutyInv /\ [WatchdogNext]_watchdogVars => TypeTimes' /\ DutyInv'
  BY TimesStep, QuotaStep, OutageStep, ServeStep, CloseStep DEF DutyInv
<1> QED
  BY <1>1, <1>2, InvInit, PTL DEF WatchdogSpec

(* Types, restart quota, outages, serving and closing: the inductive invariant *)
(* of pps_tod_watchdog.sh holds in every behaviour.                            *)
THEOREM WatchdogInvariant == WatchdogSpec => []WatchdogInv
  BY WatchdogTypes, DutyInvariant, PTL DEF WatchdogInv

(* While the wall clock is not stepped, no hour, wherever it begins, holds    *)
(* more than MAX_RESTARTS restarts of the daemon by one run of the script.    *)
THEOREM RestartQuota == WatchdogSpec => []RestartBound
<1>1. DutyInv => RestartBound
  BY DEF DutyInv, QuotaInv, RestartBound
<1> QED
  BY <1>1, DutyInvariant, PTL

(* While the wall clock is not stepped, two restarts are a cooldown apart.    *)
THEOREM RestartsSpaced == WatchdogSpec => []RestartSpacing
<1>1. DutyInv => RestartSpacing
  BY DEF DutyInv, QuotaInv, RestartSpacing
<1> QED
  BY <1>1, DutyInvariant, PTL

(* While the wall clock is not stepped, an outage is acted upon within the     *)
(* longer of window and cooldown.                                            *)
THEOREM OutageNoticed == WatchdogSpec => []StarvationNoticed
<1>1. DutyInv => StarvationNoticed
  BY DEF DutyInv, OutageInv, StarvationNoticed
<1> QED
  BY <1>1, DutyInvariant, PTL

(* With a clock that is not stepped, a chronyc that works and nobody else      *)
(* restarting chronyd, the board answers no client while mode is not OK.      *)
THEOREM UnvouchedNotServed == WatchdogSpec => []DenyNeverSuppressed
<1>1. DutyInv => DenyNeverSuppressed
  BY DEF DutyInv, ServeInv, DenyNeverSuppressed
<1> QED
  BY <1>1, DutyInvariant, PTL

(* Under the same conditions good samples bring the service back within the   *)
(* retry time.                                                               *)
THEOREM ServiceResumes == WatchdogSpec => []ServingResumes
<1>1. DutyInv => ServingResumes
  BY DEF DutyInv, ServeInv, ServingResumes
<1> QED
  BY <1>1, DutyInvariant, PTL

(* Whatever fails and however the clock is stepped: after a deny in DEGRADED   *)
(* has succeeded the board stays silent until chronyd or DEGRADED ends.       *)
THEOREM DegradedStaysClosed == WatchdogSpec => []DegradedCloses
<1>1. DutyInv => DegradedCloses
  BY DEF DutyInv, CloseInv, DegradedCloses
<1> QED
  BY <1>1, DutyInvariant, PTL

=============================================================================
