----------------------------- MODULE NicTraffic -----------------------------
(***************************************************************************)
(* What the per-port NTP monitor promises of the traffic it publishes      *)
(* (src/ntp_nic_monitor.c): a log of how many packets of each kind a port  *)
(* had at each time, from which a snapshot shows the last Size times.  The *)
(* monitor keeps no such log: it has rings of Size counters that it        *)
(* addresses modulo Size and clears as time advances.  NicMonitor shows    *)
(* that its minute rings and its second ring each implement this module.   *)
(*                                                                         *)
(* Times are minutes for the one and seconds for the other.  The times     *)
(* come from the wall clock, which may be set back: a packet counted       *)
(* before the newest time makes the log start anew ("clock jump: clear     *)
(* everything").                                                           *)
(***************************************************************************)
EXTENDS Integers

CONSTANTS
    Nics,     \* the ports
    Kinds,    \* what is counted of a port
    Size,     \* how many times a snapshot reaches back
    Last      \* the last time of the model

VARIABLES
    log,      \* log[n][k][t]: packets of kind k of port n at time t
    newest,   \* newest[n]: the newest time anything of port n was counted
    shown     \* shown[n][k]: the snapshot, a count for each of the last Size times

vars == <<log, newest, shown>>

Times == 0 .. Last
EmptyLog == [k \in Kinds |-> [t \in Times |-> 0]]

Init ==
    /\ log = [n \in Nics |-> EmptyLog]
    /\ newest \in [Nics -> Times]
    /\ shown = [n \in Nics |-> [k \in Kinds |-> <<>>]]

(* What the log still holds when something is counted at time t. *)
Kept(n, t) == IF t < newest[n] THEN EmptyLog ELSE log[n]

(* Packets of port n are counted at time t: no other time changes. *)
Count(n, t) ==
    /\ log' = [log EXCEPT ![n] =
                 [k \in Kinds |-> [Kept(n, t)[k] EXCEPT ![t] = log'[n][k][t]]]]
    /\ \A k \in Kinds : log'[n][k][t] >= Kept(n, t)[k][t]
    /\ newest' = [newest EXCEPT ![n] = t]
    /\ UNCHANGED shown

(* The count shown for time t. *)
Entry(n, k, t) ==
    IF t <= newest[n] /\ newest[n] - t < Size THEN log[n][k][t] ELSE 0

(* A snapshot taken at time t shows the Size times that end with t. *)
Publish(t) ==
    /\ shown' = [n \in Nics |-> [k \in Kinds |->
                   [u \in (t - Size + 1) .. t |-> Entry(n, k, u)]]]
    /\ UNCHANGED <<log, newest>>

(* The snapshot is cut short: nothing is shown until the next one. *)
Spoil ==
    /\ shown' = [n \in Nics |-> [k \in Kinds |-> <<>>]]
    /\ UNCHANGED <<log, newest>>

(* The monitor starts again with nothing counted: the last snapshot stays. *)
Restart ==
    /\ log' = [n \in Nics |-> EmptyLog]
    /\ newest' \in [Nics -> Times]
    /\ UNCHANGED shown

Next ==
    \/ \E n \in Nics, t \in Times : Count(n, t)
    \/ \E t \in (Size - 1) .. Last : Publish(t)
    \/ Spoil
    \/ Restart

Spec == Init /\ [][Next]_vars
=============================================================================
