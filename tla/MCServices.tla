----------------------------- MODULE MCServices -----------------------------
(* An instance for TLC of the modules that share nothing with the others: a   *)
(* behaviour is one of requests that set the receiver's mode, of the          *)
(* statistics, of the log viewer, or of the watchdog, whose hour is a few     *)
(* ticks long.                                                                *)
EXTENDS Timesync, NtpStats, LogView, PpsWatchdog, TLC

VARIABLE part

vars == <<part, requestVars, statsVars, logVars, watchdogVars>>

Init ==
    /\ ModeInit /\ StatsInit /\ LogInit /\ WatchdogInit
    /\ ram = CHOOSE m \in Modes : TRUE               \* modes are alike
    /\ \/ part = "requests" /\ (sit.age = "first" => path = 0)
       \/ /\ part \in {"stats", "log", "watchdog"}
          /\ sit = (CHOOSE s \in Situations : s.age = "today") /\ path = 0
    /\ part = "stats" \/ run = CHOOSE s \in Samples : TRUE
    /\ part = "log" \/ log = CHOOSE l \in Logs : TRUE
    /\ part = "watchdog" \/ faults = {}

Next ==
    \/ /\ part = "requests" /\ ModeNext
       /\ UNCHANGED <<part, statsVars, logVars, watchdogVars>>
    \/ /\ part = "stats" /\ StatsNext
       /\ UNCHANGED <<part, requestVars, logVars, watchdogVars>>
    \/ /\ part = "log" /\ LogNext
       /\ UNCHANGED <<part, requestVars, statsVars, watchdogVars>>
    \/ /\ part = "watchdog" /\ WatchdogNext
       /\ UNCHANGED <<part, requestVars, statsVars, logVars>>

Spec == Init /\ [][Next]_vars

-----------------------------------------------------------------------------
(* Requests are alike. *)
Alike == Permutations(Procs)

Case(age, kinds, count, overlap, may) ==
    [age |-> age, kinds |-> kinds, requests |-> count, overlap |-> overlap, faults |-> may]

MCSituations ==
    { Case("none", {"login"}, 2, FALSE, {"kill"}),
      Case("first", {"login"}, 3, FALSE, {"kill"}),
      Case("first", {"login", "setmode"}, 2, FALSE, {"kill"}),
      Case("today", {"setmode"}, 3, FALSE, {"serial", "disk", "kill"}),
      Case("today", {"setmode"}, 3, TRUE, {"kill"}),
      Case("today", {"setmode"}, 3, TRUE, {}) }

Week(samples, count, may) == [samples |-> samples, requests |-> count, faults |-> may]

MCSamples ==
    { Week(8, 0, {"kill", "disk"}),               \* the file is trimmed after 7 rows
      Week(8, 0, {"chronyc"}),
      Week(5, 0, {"off", "late"}),
      Week(3, 2, {"restart"}), Week(4, 1, {"restart", "off"}),
      Week(3, 2, {"iptables"}), Week(3, 1, {"chronyc", "restart"}),
      Week(3, 1, {"clock", "off"}) }

MCLogs == { [lines |-> 4, lengths |-> {0, 2}], [lines |-> 3, lengths |-> {1, 5}] }
============================================================================
