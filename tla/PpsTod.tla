------------------------------- MODULE PpsTod -------------------------------
(***************************************************************************)
(* The timing daemon pps_tod.c: the serial thread reads the second from an  *)
(* NMEA sentence (TOD), the gpio thread time-stamps the edge that starts a  *)
(* second (PPS), names its second and hands the pair to chronyd in shared   *)
(* memory, and steps the clock when it is far off.                          *)
(*                                                                         *)
(* Time is counted in ticks, Q to a second.  now is CLOCK_MONOTONIC; true   *)
(* time is Boot seconds ahead of it, and CLOCK_REALTIME is err ticks ahead  *)
(* of true time.  Edges come with the true second.  The serial thread is    *)
(* cut where it locks, unlocks or may be overtaken on a plain variable, the *)
(* gpio thread at its lock sections.  Log, summary and satellite counts are *)
(* left out, and of status_update all but its time.                         *)
(***************************************************************************)
EXTENDS Integers, Sequences, FiniteSets

CONSTANTS
    Q,            \* ticks of a second
    Boot,         \* true time at monotonic zero, in seconds
    Start, MaxNow,\* monotonic time of the start and of the end of a behaviour
    FreshFor,     \* 3 s: an anchor or a measurement is fresh
    NudgeGap,     \* 10 s: between two clock writes
    Window,       \* 3600 s: the quota's hour
    ResetMax,     \* -X
    StrikeMax,    \* -M
    PendingMax,   \* edges kept for the next sentence
    Lag,          \* how long a late thread may be held up
    Offsets,      \* the errors of a wrong clock, in ticks
    Scenarios     \* sets of circumstances, one is picked at the start

Circumstances ==
    { "bad_clock",      \* the clock is wrong at the start
      "date",           \* somebody sets it wrong
      "chrony",         \* chronyd follows the samples
      "jitter",         \* sentences arrive at varying points of their second
      "twin",           \* more than one sentence in a second
      "lost_sentence",  \* sentences are lost or carry no fix or no date
      "lost_edge",
      "jump",           \* the receiver reports a wrong second
      "late",           \* the gpio thread is held up
      "late_serial",    \* the serial thread is, with a sentence in hand
      "realtime",       \* edges are stamped with CLOCK_REALTIME
      "ntp" }           \* -A ntp

Abs(x) == IF x < 0 THEN -x ELSE x

ASSUME TodAssumption ==
    /\ {Q, Boot, Start, MaxNow, FreshFor, NudgeGap, Window, Lag} \subseteq Nat
    /\ {ResetMax, StrikeMax, PendingMax} \subseteq Nat
    /\ 0 < ResetMax /\ 0 < StrikeMax      \* main raises both to one
    /\ Q > 1 /\ Q % 2 = 0
    /\ 0 < Window /\ 3 * Q <= FreshFor /\ FreshFor <= Start
    /\ FreshFor + Lag <= NudgeGap /\ Lag < Q
    /\ Start <= MaxNow /\ Boot * Q > MaxNow + Q
    /\ Offsets \subseteq {x \in Int : Abs(x) >= 2 * Q}
    /\ Scenarios \subseteq SUBSET Circumstances

VARIABLES
    now, err, faults,
    phase,        \* the point of a second at which sentences arrive
    said,         \* the second whose sentence has arrived
    events,       \* edges the gpio thread has not read
    mutex,        \* who holds pair_mutex
    anchor,       \* anchor_valid, anchor_S, anchor_mono, anchor_seq, anchor_prev_S
    edge_count, pending,
    strike, strike_sign,
    last_off,     \* last_off_us, last_off_mono
    last_nudge, quota,   \* quota: forced_window_mono, forced_resets, reset_capped
    sample,       \* the sample in shared memory, if chronyd has not taken it
    last_status,
    g,            \* the gpio thread: where it is, what it has read,
                  \* since: when it was woken or began to wait
    s,            \* the serial thread: its sentence and since when it has it,
                  \* its edge, and strike as it read it
    steps         \* history: the times of the clock writes

reference == <<phase, said, faults>>
pairing == <<anchor, edge_count, pending>>
gate == <<strike, strike_sign, last_off, sample>>
stepping == <<last_nudge, quota, steps>>

vars == <<now, err, reference, events, mutex, pairing, gate, stepping,
          last_status, g, s>>

TrueTime == Boot * Q + now
TrueSecond == TrueTime \div Q

Init ==
    /\ faults \in Scenarios
    /\ now = Start
    /\ err \in IF "bad_clock" \in faults THEN Offsets
               ELSE {x \in (-Q)..Q : 2 * Abs(x) < Q}
    /\ phase \in 1..(Q - 1)
    /\ said = TrueSecond
    /\ events = <<>>
    /\ mutex = "free"
    /\ anchor = [valid |-> FALSE, S |-> 0, mono |-> 0, seq |-> 0, prev |-> 0]
    /\ edge_count = 0 /\ pending = <<>>
    /\ strike = 0 /\ strike_sign = 0
    /\ last_off = [off |-> 0, mono |-> 0]
    /\ last_nudge = Start - NudgeGap
    /\ quota = [window |-> 0, resets |-> 0, capped |-> FALSE]
    /\ sample = {}
    /\ last_status = 0
    /\ g = [pc |-> "check", fresh |-> FALSE, seq |-> 0, S |-> 0, since |-> Start]
    /\ s = [pc |-> "idle", S |-> 0, since |-> Start, e |-> {}, strike |-> 0]
    /\ steps = {}

-----------------------------------------------------------------------------
(* Clocks and edges                                                          *)

(* An edge as the kernel stamps it; mono is the truth about it.               *)
Edge(t) == [mono |-> t, ts |-> IF "realtime" \in faults THEN Boot * Q + t + err ELSE t]

(* edge_realtime                                                             *)
edge_realtime(e) == IF "realtime" \in faults THEN e.ts ELSE e.ts + Boot * Q + err

shm_write(S, e) == sample' = {[S |-> S, edge |-> e.mono]}

(* emit_sample(S, e): the gate, and the sample for chronyd.  n is the value of *)
(* strike that is counted on.                                                *)
emit_sample(S, e, n) ==
    LET off == S * Q - edge_realtime(e)
        sign == IF off > 0 THEN 1 ELSE -1
    IN  /\ last_off' = [off |-> off, mono |-> now]
        /\ IF 2 * Abs(off) > Q
           THEN /\ strike' = (IF strike_sign \in {0, sign} THEN n ELSE 0) + 1
                /\ strike_sign' = sign
                /\ UNCHANGED sample
           ELSE /\ strike' = 0
                /\ strike_sign' = 0
                /\ shm_write(S, e)

-----------------------------------------------------------------------------
(* The serial thread                                                         *)

(* The pending edge that a sentence handled now names, if there is one        *)
Paired ==
    LET near == {k \in 1..Len(pending) : pending[k].ts <= now /\ now - pending[k].ts <= Q}
        last == {k \in near : \A j \in near : pending[j].ts <= pending[k].ts}
    IN  {pending[k] : k \in {k \in last : \A j \in last : k <= j}}

(* Mutant: off by one                                                        *)
SequelSame(S) == IF anchor.prev # 0 /\ S = anchor.prev THEN anchor.seq + 1 ELSE 1

(* anchor_seq counts the seconds that followed each other.                   *)
Sequel(S) == IF anchor.prev # 0 /\ S = anchor.prev + 1 THEN anchor.seq + 1 ELSE 1

(* What parse_line makes of the sentences with a fix and a date: the second    *)
(* they are sent in, or a wrong one.                                          *)
Jump == 5
parse_line == {TrueSecond} \cup (IF "jump" \in faults THEN {TrueSecond + Jump} ELSE {})

(* A sentence with second S is read; the thread may be held up with it.       *)
Arrive(S) ==
    /\ s.pc = "idle"
    /\ "jitter" \in faults \/ now % Q = phase
    /\ now % Q # 0
    /\ said # TrueSecond \/ "twin" \in faults
    /\ said' = TrueSecond
    /\ s' = [s EXCEPT !.pc = "lock", !.S = S, !.since = now]
    /\ UNCHANGED <<now, err, phase, faults, events, mutex, pairing, gate, stepping,
                   last_status, g>>

(* Lock, anchor, take the pending edges ...                                  *)
Sentence ==
    /\ s.pc = "lock" /\ mutex = "free"
    /\ mutex' = "serial"
    /\ anchor' = [valid |-> TRUE, S |-> s.S, mono |-> now, seq |-> Sequel(s.S),
                  prev |-> s.S]
    /\ pending' = <<>>
    /\ s' = [s EXCEPT !.pc = "emit", !.e = Paired, !.strike = strike]
    /\ UNCHANGED <<now, err, reference, events, edge_count, gate, stepping,
                   last_status, g>>

(* ... emit the sample, count edges anew and unlock.                         *)
SentenceDone ==
    /\ s.pc = "emit"
    /\ \/ \E e \in s.e : emit_sample(anchor.S, e, s.strike)
       \/ s.e = {} /\ UNCHANGED gate
    /\ edge_count' = 0
    /\ mutex' = "free"
    /\ s' = [s EXCEPT !.pc = "idle", !.S = 0, !.e = {}, !.strike = 0]
    /\ UNCHANGED <<now, err, reference, events, anchor, pending, stepping,
                   last_status, g>>

-----------------------------------------------------------------------------
(* The gpio thread                                                           *)

Fresh == anchor.valid /\ now - anchor.mono < FreshFor

(* The coarse fallback reads the anchor under the mutex ...                   *)
CheckAnchor ==
    /\ g.pc = "check" /\ mutex = "free"
    /\ g' = [g EXCEPT !.pc = "decide", !.fresh = Fresh, !.seq = anchor.seq]
    /\ UNCHANGED <<now, err, reference, events, mutex, pairing, gate, stepping,
                   last_status, s>>

(* Mutant: no pause after a step.                                            *)
DueAgain ==
    /\ g.fresh /\ g.seq >= 3
    /\ now - last_off.mono < FreshFor
    /\ Abs(last_off.off) > Q \/ strike >= StrikeMax

(* ... is due if the reference looks sane and the clock does not, ...         *)
Due ==
    /\ g.fresh /\ g.seq >= 3
    /\ now - last_off.mono < FreshFor
    /\ Abs(last_off.off) > Q \/ strike >= StrikeMax
    /\ now - last_nudge > NudgeGap

(* Mutant: the window is never left.                                         *)
NewWindowAlways == now - quota.window >= 0

(* ... which the quota must allow.                                           *)
NewWindow == now - quota.window >= Window
Spent == IF NewWindow THEN 0 ELSE quota.resets

(* Mutant: one too many.                                                     *)
ExhaustedLate == Spent > ResetMax

Exhausted == Spent >= ResetMax

Decide ==
    /\ g.pc = "decide"
    /\ IF Due
       THEN /\ last_nudge' = now
            /\ quota' = [window |-> IF NewWindow THEN now ELSE quota.window,
                         resets |-> Spent,
                         capped |-> Exhausted \/ (~NewWindow /\ quota.capped)]
            /\ g' = [g EXCEPT !.pc = IF Exhausted THEN "status" ELSE "step"]
       ELSE /\ g' = [g EXCEPT !.pc = "status"]
            /\ UNCHANGED <<last_nudge, quota>>
    /\ UNCHANGED <<now, err, reference, events, mutex, pairing, gate, steps,
                   last_status, s>>

(* Mutant: the second of the next edge.                                      *)
StepSecondNext ==
    /\ g.pc = "step" /\ mutex = "free"
    /\ g' = [g EXCEPT !.pc = "write", !.S = anchor.S + 1]
    /\ UNCHANGED <<now, err, reference, events, mutex, pairing, gate, stepping,
                   last_status, s>>

(* Then the second is read under the mutex,                                  *)
StepSecond ==
    /\ g.pc = "step" /\ mutex = "free"
    /\ g' = [g EXCEPT !.pc = "write", !.S = anchor.S]
    /\ UNCHANGED <<now, err, reference, events, mutex, pairing, gate, stepping,
                   last_status, s>>

(* and the clock is set to it; see SetDate for the sample.                    *)
WriteClock ==
    /\ g.pc = "write"
    /\ err' = g.S * Q - TrueTime
    /\ quota' = [quota EXCEPT !.resets = @ + 1]
    /\ strike' = 0
    /\ steps' = steps \cup {now}
    /\ sample' = {}
    /\ g' = [g EXCEPT !.pc = "status"]
    /\ UNCHANGED <<now, reference, events, mutex, pairing, strike_sign, last_off,
                   last_nudge, last_status, s>>

(* Mutant: a slower status                                                   *)
StatusDueSlow == now - last_status >= 3 * Q

(* status_update, once a second                                              *)
StatusDue == now - last_status >= Q

Status ==
    /\ g.pc = "status"
    /\ IF StatusDue THEN mutex = "free" /\ last_status' = now
       ELSE UNCHANGED last_status
    /\ g' = [g EXCEPT !.pc = "poll", !.since = now]
    /\ UNCHANGED <<now, err, reference, events, mutex, pairing, gate, stepping, s>>

(* The second of an edge: the nearest one of the clock, unless the sentences  *)
(* and the edges since disagree by more than one.                            *)
Nearest(t) == (t + Q \div 2) \div Q
Chain == anchor.S + 1 + edge_count

(* Mutant: the sentences and the edges alone name the second.                 *)
EdgeSecondChain(t) == Chain

EdgeSecond(t) == IF Abs(Nearest(t) - Chain) <= 1 THEN Nearest(t) ELSE Chain

(* Since when the gpio thread has had something to do                      *)
WorkSince ==
    IF g.pc # "poll" THEN g.since
    ELSE IF events # <<>> /\ Head(events).mono < g.since + Q THEN Head(events).mono
    ELSE g.since + Q

(* poll returns with an edge                                                 *)
TakeEdge ==
    /\ g.pc = "poll" /\ events # <<>> /\ mutex = "free"
    /\ events' = Tail(events)
    /\ g' = [g EXCEPT !.pc = "check", !.since = WorkSince]
    /\ UNCHANGED <<now, err, reference, anchor, stepping, last_status, s>>

EdgeTod ==
    /\ TakeEdge
    /\ "ntp" \notin faults
    /\ LET e == Head(events)
       IN  IF Fresh
           THEN /\ emit_sample(EdgeSecond(edge_realtime(e)), e, strike)
                /\ edge_count' = edge_count + 1
                /\ UNCHANGED pending
           ELSE /\ pending' = IF Len(pending) < PendingMax THEN Append(pending, e)
                              ELSE pending
                /\ UNCHANGED <<edge_count, gate>>
    /\ UNCHANGED mutex

(* -A ntp: the clock names the second, and an edge in the middle of one is    *)
(* dropped by a continue, with the mutex held.                               *)
EdgeNtp ==
    /\ TakeEdge
    /\ "ntp" \in faults
    /\ LET e == Head(events)
           rt == edge_realtime(e)
           frac == rt % Q
       IN  IF 10 * frac > 4 * Q /\ 10 * frac < 6 * Q
           THEN mutex' = "gpio" /\ UNCHANGED gate
           ELSE /\ emit_sample((rt \div Q) + (IF 2 * frac > Q THEN 1 ELSE 0), e, strike)
                /\ UNCHANGED mutex
    /\ UNCHANGED <<edge_count, pending>>

(* poll returns after a second without one                                    *)
PollTimeout ==
    /\ g.pc = "poll" /\ events = <<>>
    /\ now - g.since >= Q
    /\ g' = [g EXCEPT !.pc = "check", !.since = WorkSince]
    /\ UNCHANGED <<now, err, reference, events, mutex, pairing, gate, stepping,
                   last_status, s>>

-----------------------------------------------------------------------------
(* Time and the world                                                        *)

(* The gpio thread has something to do.                                      *)
GpioWorks == g.pc # "poll" \/ events # <<>> \/ now - g.since >= Q

(* Threads that are not stuck run at once, or are held up for less than Lag:   *)
(* late ones, and the gpio thread by a late serial thread with the mutex.     *)
Stuck == mutex = "gpio" /\ g.pc = "check"

Scheduled ==
    /\ GpioWorks => \/ Stuck
                    \/ ("late" \in faults \/ mutex = "serial") /\ now - WorkSince < Lag
    /\ s.pc # "idle" => \/ Stuck
                        \/ "late_serial" \in faults /\ now - s.since < Lag

(* The last moment for the sentence of this second                           *)
SentenceDue == now % Q = IF "jitter" \in faults THEN Q - 1 ELSE phase

Tick ==
    /\ now < MaxNow
    /\ Scheduled
    /\ SentenceDue => said = TrueSecond \/ "lost_sentence" \in faults \/ Stuck
    /\ now' = now + 1
    /\ IF (now + 1) % Q # 0 THEN UNCHANGED events
       ELSE \/ events' = Append(events, Edge(now + 1))
            \/ "lost_edge" \in faults /\ UNCHANGED events
    /\ UNCHANGED <<err, reference, mutex, pairing, gate, stepping, last_status, g, s>>

(* chronyd makes the clock agree with a sample, and knows of the changes it    *)
(* has made since.                                                           *)
Discipline ==
    /\ "chrony" \in faults
    /\ \E x \in sample : err' = x.S * Q - (Boot * Q + x.edge)
    /\ sample' = {}
    /\ UNCHANGED <<now, reference, events, mutex, pairing, strike, strike_sign,
                   last_off, stepping, last_status, g, s>>

(* The clock is set wrong; chronyd has no use for a sample from before.       *)
SetDate ==
    /\ "date" \in faults
    /\ Abs(err) <= Q
    /\ err' \in Offsets
    /\ sample' = {}
    /\ UNCHANGED <<now, reference, events, mutex, pairing, strike, strike_sign,
                   last_off, stepping, last_status, g, s>>

Next ==
    \/ \E S \in parse_line : Arrive(S)
    \/ Sentence \/ SentenceDone
    \/ CheckAnchor \/ Decide \/ StepSecond \/ WriteClock \/ Status
    \/ EdgeTod \/ EdgeNtp \/ PollTimeout
    \/ Tick \/ Discipline \/ SetDate

Spec == Init /\ [][Next]_vars

-----------------------------------------------------------------------------
(* Properties                                                                *)

EdgeType == [mono : Nat, ts : Int]

TypeOK ==
    /\ now \in Start..MaxNow
    /\ err \in Int
    /\ faults \in Scenarios
    /\ phase \in 1..(Q - 1)
    /\ said \in Nat
    /\ events \in Seq(EdgeType)
    /\ mutex \in {"free", "serial", "gpio"}
    /\ anchor \in [valid : BOOLEAN, S : Nat, mono : Nat, seq : Nat, prev : Nat]
    /\ edge_count \in Nat
    /\ pending \in Seq(EdgeType) /\ Len(pending) <= PendingMax
    /\ strike \in Nat
    /\ strike_sign \in {-1, 0, 1}
    /\ last_off \in [off : Int, mono : Nat]
    /\ last_nudge \in Int
    /\ quota \in [window : Nat, resets : 0..ResetMax, capped : BOOLEAN]
    /\ sample \in SUBSET [S : Int, edge : Nat]
    /\ last_status \in Nat
    /\ g \in [pc : {"check", "decide", "step", "write", "status", "poll"},
              fresh : BOOLEAN, seq : Nat, S : Nat, since : Nat]
    /\ s \in [pc : {"idle", "lock", "emit"}, S : Nat, since : Nat,
              e : SUBSET EdgeType, strike : Nat]
    /\ steps \in SUBSET (Start..MaxNow)

(* docs/requirements-summary-2026-09-17.md:274: the whole second of the board *)
(* agrees with that of the TOD source, i.e. a sample names the second that    *)
(* its edge began.                                                           *)
SecondsAgree ==
    \A x \in sample : x.S * Q = Boot * Q + x.edge

(* A clock that is right to half a second stays so: whichever thread is held   *)
(* up (the serial thread with a sentence in hand, too), however sentences are  *)
(* delayed, doubled or lost, or edges are lost, the daemon never steps it and  *)
(* names every edge right.  (Not if edges are lost together with sentences, or *)
(* while the serial thread is held up: two seconds without either, and the     *)
(* first edge is misnamed; or the edge after the sentence's is paired with it, *)
(* no other follows, and the clock is set back.)                               *)
HealthyKept ==
    /\ faults \cap {"bad_clock", "date", "jump", "ntp"} = {}
    /\ "lost_edge" \in faults => faults \cap {"lost_sentence", "late_serial"} = {}
    => steps = {} /\ SecondsAgree

(* A clock at least two seconds off, with edges and sentences to be had, is    *)
(* stepped in the fifth second at the latest.                                 *)
BadClockStepped ==
    /\ faults \subseteq {"bad_clock", "realtime", "jitter", "chrony"}
    /\ "bad_clock" \in faults
    /\ now > Start + 5 * Q
    => steps # {}

(* A clock write never puts the clock ahead of a truthful receiver, and puts   *)
(* it less than the life of an anchor and a second behind, and what the two    *)
(* threads were held up.                                                      *)
StepLands ==
    [][g.pc = "write" /\ g'.pc # "write" /\ "jump" \notin faults =>
         err' <= 0 /\ err' > -(FreshFor + Q + 2 * Lag)]_vars

(* A clock write answers a measurement of the clock it changes: no second      *)
(* write on the measurement that caused the first.                            *)
MeasuredAnew ==
    [][g.pc = "decide" /\ g'.pc = "step" =>
         \A t \in steps : t < last_off.mono]_vars

(* The header of pps_tod.c: one write in NudgeGap, ResetMax in an hour.  The   *)
(* hour does not roll, so that two quotas may fall into sixty minutes.         *)
StepQuota ==
    \A t \in steps :
       /\ \A u \in steps : u > t => u - t + Lag > NudgeGap
       /\ Cardinality({u \in steps : t <= u /\ u < t + Window}) <= 2 * ResetMax

(* pps_tod.c:76: the status file the watchdog reads is written every second,   *)
(* so its age never reaches three.                                            *)
StatusFresh == now >= Start + 3 * Q => now - last_status < 3 * Q

-----------------------------------------------------------------------------
(* Why the stepping properties hold: the parts of the inductive invariant     *)

(* Nothing is dated in the future.                                           *)
PastInv ==
    /\ g.since <= now /\ anchor.mono <= now /\ s.since <= now
    /\ last_nudge <= now /\ quota.window <= now
    /\ \A t \in steps : t <= now

(* Edges queue up in order, and while the gpio thread works only later ones do. *)
QueueInv ==
    \A i \in 1..Len(events) :
       /\ events[i].mono <= now
       /\ g.pc # "poll" => g.since <= events[i].mono
       /\ \A j \in 1..i : events[j].mono <= events[i].mono

(* Neither thread, unless it is stuck, has been held up for more than Lag, and  *)
(* nobody unlocks the mutex for the other.                                    *)
LagInv ==
    /\ GpioWorks /\ ~Stuck => now <= WorkSince + Lag
    /\ s.pc # "idle" => Stuck \/ now <= s.since + Lag
    /\ s.pc = "emit" <=> mutex = "serial"
    /\ mutex = "gpio" => Stuck

(* A thread about to write the clock has decided to at last_nudge, after a     *)
(* pause and with a part of the quota left.                                   *)
Stepping == g.pc \in {"step", "write"}

PaceInv ==
    /\ \A t \in steps : t <= last_nudge + Lag
    /\ Stepping =>
         /\ g.since <= last_nudge /\ quota.window <= last_nudge
         /\ quota.resets < ResetMax
         /\ \A t \in steps : last_nudge - t + Lag > NudgeGap

(* The writes of this window, and those of the one before it, within the quota *)
Between(t, u) == {v \in steps : t <= v /\ v < u}

QuotaInv ==
    /\ Cardinality(Between(quota.window, MaxNow + 1)) <= quota.resets
    /\ \A t \in steps : quota.window < t + Window =>
         Cardinality(Between(t, quota.window)) <= ResetMax

(* A sentence, the anchor and the second about to be written, against the truth *)
SecondInv ==
    "jump" \notin faults =>
       /\ s.pc = "lock" => /\ s.S * Q <= Boot * Q + s.since
                           /\ Boot * Q + s.since < s.S * Q + Q
       /\ anchor.valid => /\ anchor.S * Q <= Boot * Q + anchor.mono
                          /\ Boot * Q + anchor.mono < anchor.S * Q + Q + Lag
       /\ (g.pc = "decide" /\ g.fresh) \/ Stepping =>
             anchor.valid /\ g.since < anchor.mono + FreshFor
       /\ g.pc = "write" => /\ g.S * Q <= TrueTime
                            /\ Boot * Q + g.since < g.S * Q + Q + Lag + FreshFor

ClockInv ==
    PastInv /\ QueueInv /\ LagInv /\ PaceInv /\ QuotaInv /\ SecondInv /\ StepQuota

(* The inductive invariant                                                   *)
StepInv == TypeOK /\ ClockInv

=============================================================================
