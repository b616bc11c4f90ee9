---------------------------- MODULE PpsTodProofs ----------------------------
(***************************************************************************)
(* Proofs about PpsTod, for every length of second, window and pause.       *)
(***************************************************************************)
EXTENDS PpsTod, FiniteSetTheorems, SequenceTheorems, TLAPS

-----------------------------------------------------------------------------
(* Arithmetic with a second of Q ticks                                       *)

(* The constants are numbers.                                                *)
LEMMA Constants ==
  /\ Q \in Nat /\ Q > 1 /\ Boot \in Nat /\ Start \in Nat /\ MaxNow \in Nat
  /\ FreshFor \in Nat /\ NudgeGap \in Nat /\ Window \in Nat /\ Lag \in Nat
  /\ ResetMax \in Nat /\ StrikeMax \in Nat /\ PendingMax \in Nat
  /\ 0 < FreshFor /\ 0 < Window /\ FreshFor <= Start
  /\ FreshFor + Lag <= NudgeGap /\ Lag < Q
  /\ Boot * Q \in Nat
<1>1. Q \in Nat /\ Boot \in Nat
  BY TodAssumption
<1>2. Boot * Q \in Nat
  BY <1>1
<1> QED
  BY <1>2, TodAssumption

(* A number is a number of whole seconds and less than one more.             *)
LEMMA Division ==
  ASSUME NEW a \in Int
  PROVE  /\ a \div Q \in Int
         /\ (a \div Q) * Q <= a
         /\ a < (a \div Q) * Q + Q
         /\ a >= 0 => a \div Q \in Nat
<1>1. Q \in Int /\ Q > 0
  BY Constants
<1>2. a \div Q \in Int
  BY <1>1
<1>3. (a \div Q) * Q <= a
  BY <1>1
<1>4. a < (a \div Q) * Q + Q
  BY <1>1
<1>5. a >= 0 => a \div Q \in Nat
  BY <1>1
<1> QED
  BY <1>2, <1>3, <1>4, <1>5

-----------------------------------------------------------------------------
(* Type correctness: numbers and clocks, and the records                     *)

TypeNumbers ==
    /\ now \in Start..MaxNow
    /\ err \in Int
    /\ phase \in 1..(Q - 1)
    /\ said \in Nat
    /\ edge_count \in Nat
    /\ strike \in Nat
    /\ strike_sign \in {-1, 0, 1}
    /\ last_off \in [off : Int, mono : Nat]
    /\ last_nudge \in Int
    /\ sample \in SUBSET [S : Int, edge : Nat]
    /\ last_status \in Nat
    /\ steps \in SUBSET (Start..MaxNow)

TypeRecords ==
    /\ faults \in Scenarios
    /\ events \in Seq(EdgeType)
    /\ mutex \in {"free", "serial", "gpio"}
    /\ anchor \in [valid : BOOLEAN, S : Nat, mono : Nat, seq : Nat, prev : Nat]
    /\ pending \in Seq(EdgeType) /\ Len(pending) <= PendingMax
    /\ quota \in [window : Nat, resets : 0..ResetMax, capped : BOOLEAN]
    /\ g \in [pc : {"check", "decide", "step", "write", "status", "poll"},
              fresh : BOOLEAN, seq : Nat, S : Nat, since : Nat]
    /\ s \in [pc : {"idle", "lock", "emit"}, S : Nat, since : Nat,
              e : SUBSET EdgeType, strike : Nat]

LEMMA TypeParts == TypeOK <=> TypeNumbers /\ TypeRecords
  BY DEF TypeOK, TypeNumbers, TypeRecords

(* The true time and its second                                              *)
LEMMA TruthType ==
  ASSUME TypeNumbers
  PROVE  TrueTime \in Nat /\ TrueSecond \in Nat /\ now \in Nat
<1>1. now \in Nat /\ TrueTime \in Nat
  BY Constants DEF TypeNumbers, TrueTime
<1> QED
  BY <1>1, Division DEF TrueSecond

(* An edge has a time, in either clock.                                      *)
LEMMA EdgeTypes ==
  ASSUME TypeNumbers, NEW e \in EdgeType
  PROVE  edge_realtime(e) \in Int /\ e.mono \in Nat
  BY Constants DEF TypeNumbers, EdgeType, edge_realtime

(* The first of the waiting edges, and the others                            *)
LEMMA HeadTypes ==
  ASSUME NEW q \in Seq(EdgeType), q # <<>>
  PROVE  Head(q) \in EdgeType /\ Head(q).mono \in Nat /\ Tail(q) \in Seq(EdgeType)
<1>1. Head(q) \in EdgeType /\ Tail(q) \in Seq(EdgeType)
  OBVIOUS
<1> QED
  BY <1>1 DEF EdgeType

(* Every waiting edge has a time.                                            *)
LEMMA EventTypes ==
  ASSUME NEW q \in Seq(EdgeType), NEW i \in 1..Len(q)
  PROVE  q[i].mono \in Nat
<1>1. q[i] \in EdgeType
  OBVIOUS
<1> QED
  BY <1>1 DEF EdgeType

(* The queue of edges is never longer than PendingMax.                       *)
LEMMA AppendTypes ==
  ASSUME NEW q \in Seq(EdgeType), NEW e \in EdgeType
  PROVE  Append(q, e) \in Seq(EdgeType) /\ Len(Append(q, e)) = Len(q) + 1 /\ Len(q) \in Nat
  OBVIOUS

(* emit_sample keeps the types of the gate.                                  *)
LEMMA EmitTypes ==
  ASSUME TypeNumbers, NEW S \in Int, NEW e \in EdgeType, NEW n \in Nat,
         emit_sample(S, e, n)
  PROVE  /\ strike' \in Nat
         /\ strike_sign' \in {-1, 0, 1}
         /\ last_off' \in [off : Int, mono : Nat]
         /\ sample' \in SUBSET [S : Int, edge : Nat]
<1> DEFINE off == S * Q - edge_realtime(e)
           sign == IF off > 0 THEN 1 ELSE -1
<1>1. off \in Int
  BY EdgeTypes, Constants
<1>2. /\ last_off' = [off |-> off, mono |-> now]
      /\ \/ /\ strike' = (IF strike_sign \in {0, sign} THEN n ELSE 0) + 1
            /\ strike_sign' = sign
            /\ UNCHANGED sample
         \/ /\ strike' = 0 /\ strike_sign' = 0
            /\ sample' = {[S |-> S, edge |-> e.mono]}
  BY Zenon DEF emit_sample, shm_write
<1> HIDE DEF off
<1>3. now \in Nat
  BY TruthType
<1>4. last_off' \in [off : Int, mono : Nat]
  BY <1>1, <1>2, <1>3
<1>5. strike' \in Nat /\ strike_sign' \in {-1, 0, 1}
  BY <1>2
<1>6. sample' \in SUBSET [S : Int, edge : Nat]
  BY <1>2, EdgeTypes DEF TypeNumbers
<1> QED
  BY <1>4, <1>5, <1>6

(* The second of an edge is a number.                                        *)
LEMMA SecondType ==
  ASSUME TypeOK, NEW t \in Int
  PROVE  EdgeSecond(t) \in Int
<1>1. Q \div 2 \in Int
  BY Constants
<1>2. Nearest(t) \in Int
  BY <1>1, Division DEF Nearest
<1>3. anchor.S \in Nat /\ edge_count \in Nat
  BY TypeParts DEF TypeNumbers, TypeRecords
<1>4. Chain \in Int
  BY <1>3 DEF Chain
<1> QED
  BY <1>2, <1>4 DEF EdgeSecond

(* One step per action: the numbers                                          *)
LEMMA NumbersStep == TypeOK /\ [Next]_vars => TypeNumbers'
<1> SUFFICES ASSUME TypeOK, [Next]_vars PROVE TypeNumbers'
  OBVIOUS
<1>a. TypeNumbers /\ TypeRecords
  BY TypeParts
<1>b. TrueTime \in Nat /\ TrueSecond \in Nat /\ now \in Nat
  BY <1>a, TruthType
<1>0. ASSUME NEW S \in parse_line, Arrive(S) PROVE TypeNumbers'
  BY <1>0, <1>a, <1>b DEF Arrive, pairing, gate, stepping, TypeNumbers
<1>1. CASE Sentence
  BY <1>1, <1>a DEF Sentence, reference, gate, stepping, TypeNumbers
<1>2. CASE SentenceDone
  <2>1. CASE \E e \in s.e : emit_sample(anchor.S, e, s.strike)
    <3>1. PICK e \in s.e : emit_sample(anchor.S, e, s.strike)
      BY <2>1
    <3>2. e \in EdgeType /\ anchor.S \in Int /\ s.strike \in Nat
      BY <1>a DEF TypeRecords
    <3> QED
      BY <1>2, <1>a, <3>1, <3>2, EmitTypes DEF SentenceDone, reference, stepping, TypeNumbers
  <2>2. CASE UNCHANGED gate
    BY <1>2, <1>a, <2>2 DEF SentenceDone, reference, stepping, gate, TypeNumbers
  <2> QED
    BY <1>2, <2>1, <2>2 DEF SentenceDone
<1>3. CASE CheckAnchor
  BY <1>3, <1>a DEF CheckAnchor, reference, pairing, gate, stepping, TypeNumbers
<1>4. CASE Decide
  BY <1>4, <1>a, <1>b DEF Decide, reference, pairing, gate, TypeNumbers
<1>5. CASE StepSecond
  BY <1>5, <1>a DEF StepSecond, reference, pairing, gate, stepping, TypeNumbers
<1>6. CASE WriteClock
  <2>1. g.S * Q - TrueTime \in Int
    <3>1. g.S \in Int /\ Q \in Int
      BY <1>a, Constants DEF TypeRecords
    <3>2. \A a, b, c \in Int : a * b - c \in Int
      OBVIOUS
    <3> QED
      BY <1>b, <3>1, <3>2
  <2> QED
    BY <1>6, <1>a, <2>1 DEF WriteClock, reference, pairing, TypeNumbers
<1>7. CASE Status
  BY <1>7, <1>a, <1>b DEF Status, reference, pairing, gate, stepping, TypeNumbers
<1>8. CASE EdgeTod
  <2> DEFINE e == Head(events)
  <2>1. e \in EdgeType
    BY <1>8, <1>a, HeadTypes DEF EdgeTod, TakeEdge, TypeRecords
  <2>2. EdgeSecond(edge_realtime(e)) \in Int
    BY <1>a, <2>1, EdgeTypes, SecondType
  <2>3. CASE Fresh
    <3>1. emit_sample(EdgeSecond(edge_realtime(e)), e, strike) /\ edge_count' = edge_count + 1
      BY <1>8, <2>3 DEF EdgeTod
    <3>2. strike \in Nat
      BY <1>a DEF TypeNumbers
    <3>3. UNCHANGED <<now, err, reference, stepping, last_status>>
      BY <1>8 DEF EdgeTod, TakeEdge
    <3> HIDE DEF e
    <3> QED
      BY <1>a, <2>1, <2>2, <3>1, <3>2, <3>3, EmitTypes DEF reference, stepping, TypeNumbers
  <2>4. CASE ~Fresh
    BY <1>8, <1>a, <2>4 DEF EdgeTod, TakeEdge, reference, stepping, gate, TypeNumbers
  <2> QED
    BY <2>3, <2>4
<1>9. CASE EdgeNtp
  <2> DEFINE e == Head(events)
             S == (edge_realtime(e) \div Q)
                    + (IF 2 * (edge_realtime(e) % Q) > Q THEN 1 ELSE 0)
  <2>1. e \in EdgeType
    BY <1>9, <1>a, HeadTypes DEF EdgeNtp, TakeEdge, TypeRecords
  <2>2. S \in Int
    BY <1>a, <2>1, EdgeTypes, Division
  <2>3. CASE UNCHANGED gate
    BY <1>9, <1>a, <2>3 DEF EdgeNtp, TakeEdge, reference, stepping, gate, TypeNumbers
  <2>4. CASE emit_sample(S, e, strike)
    <3>1. strike \in Nat
      BY <1>a DEF TypeNumbers
    <3> HIDE DEF e, S
    <3> QED
      BY <1>9, <1>a, <2>1, <2>2, <2>4, <3>1, EmitTypes
      DEF EdgeNtp, TakeEdge, reference, stepping, TypeNumbers
  <2> QED
    BY <1>9, <2>3, <2>4 DEF EdgeNtp
<1>10. CASE PollTimeout
  BY <1>10, <1>a DEF PollTimeout, reference, pairing, gate, stepping, TypeNumbers
<1>11. CASE Tick
  BY <1>11, <1>a, Constants DEF Tick, reference, pairing, gate, stepping, TypeNumbers
<1>12. CASE Discipline
  <2>1. PICK x \in sample : err' = x.S * Q - (Boot * Q + x.edge)
    BY <1>12 DEF Discipline
  <2>2. err' \in Int
    BY <1>a, <2>1, Constants DEF TypeNumbers
  <2> QED
    BY <1>12, <1>a, <2>2 DEF Discipline, reference, pairing, stepping, TypeNumbers
<1>13. CASE SetDate
  <2>1. err' \in Int
    BY <1>13, TodAssumption DEF SetDate
  <2> QED
    BY <1>13, <1>a, <2>1 DEF SetDate, reference, pairing, stepping, TypeNumbers
<1>14. CASE UNCHANGED vars
  BY <1>14, <1>a DEF vars, reference, pairing, gate, stepping, TypeNumbers
<1> QED
  BY <1>0, <1>1, <1>2, <1>3, <1>4, <1>5, <1>6, <1>7, <1>8, <1>9, <1>10, <1>11, <1>12,
     <1>13, <1>14 DEF Next

(* A thread about to write the clock has a part of the quota left: with this   *)
(* the types are inductive.                                                   *)
RoomInv == Stepping => quota.resets < ResetMax

(* One step per action: the records                                          *)
LEMMA RecordsStep == TypeOK /\ RoomInv /\ [Next]_vars => TypeRecords'
<1> SUFFICES ASSUME TypeOK, RoomInv, [Next]_vars PROVE TypeRecords'
  OBVIOUS
<1>a. TypeNumbers /\ TypeRecords
  BY TypeParts
<1>b. TrueTime \in Nat /\ TrueSecond \in Nat /\ now \in Nat
  BY <1>a, TruthType
<1>0. ASSUME NEW S \in parse_line, Arrive(S) PROVE TypeRecords'
  <2>1. S \in Nat
    BY <1>b DEF parse_line, Jump
  <2>2. s' = [s EXCEPT !.pc = "lock", !.S = S, !.since = now]
    BY <1>0 DEF Arrive
  <2>3. s' \in [pc : {"idle", "lock", "emit"}, S : Nat, since : Nat,
                e : SUBSET EdgeType, strike : Nat]
    BY <1>a, <1>b, <2>1, <2>2 DEF TypeRecords
  <2> QED
    BY <1>0, <1>a, <2>3 DEF Arrive, pairing, stepping, TypeRecords
<1>1. CASE Sentence
  <2>1. s.S \in Nat /\ strike \in Nat
    BY <1>a DEF TypeRecords, TypeNumbers
  <2>2. Sequel(s.S) \in Nat
    BY <1>a DEF Sequel, TypeRecords
  <2>3. Paired \in SUBSET EdgeType
    BY <1>a DEF Paired, TypeRecords
  <2>4. s' = [s EXCEPT !.pc = "emit", !.e = Paired, !.strike = strike]
    BY <1>1 DEF Sentence
  <2>5. s' \in [pc : {"idle", "lock", "emit"}, S : Nat, since : Nat,
                e : SUBSET EdgeType, strike : Nat]
    BY <1>a, <2>1, <2>3, <2>4 DEF TypeRecords
  <2>6. anchor' \in [valid : BOOLEAN, S : Nat, mono : Nat, seq : Nat, prev : Nat]
    BY <1>1, <1>b, <2>1, <2>2 DEF Sentence
  <2> QED
    BY <1>1, <1>a, <2>5, <2>6, Constants DEF Sentence, reference, stepping, TypeRecords
<1>2. CASE SentenceDone
  BY <1>2, <1>a DEF SentenceDone, reference, stepping, TypeRecords
<1>3. CASE CheckAnchor
  <2>1. Fresh \in BOOLEAN
    BY <1>a DEF Fresh, TypeRecords
  <2> QED
    BY <1>3, <1>a, <2>1 DEF CheckAnchor, reference, pairing, stepping, TypeRecords
<1>4. CASE Decide
  <2>1. Spent \in 0..ResetMax
    BY <1>a, Constants DEF Spent, TypeRecords
  <2>2. quota' \in [window : Nat, resets : 0..ResetMax, capped : BOOLEAN]
    <3>1. CASE Due
      <4>1. quota' = [window |-> IF NewWindow THEN now ELSE quota.window,
                      resets |-> Spent,
                      capped |-> Exhausted \/ (~NewWindow /\ quota.capped)]
        BY <1>4, <3>1 DEF Decide
      <4> QED
        BY <4>1, <2>1, <1>a, <1>b DEF TypeRecords
    <3>2. CASE ~Due
      BY <1>4, <1>a, <3>2 DEF Decide, TypeRecords
    <3> QED
      BY <3>1, <3>2
  <2>3. g' \in {[g EXCEPT !.pc = "status"], [g EXCEPT !.pc = "step"]}
    BY <1>4 DEF Decide
  <2> QED
    BY <1>4, <1>a, <2>2, <2>3 DEF Decide, reference, pairing, TypeRecords
<1>5. CASE StepSecond
  BY <1>5, <1>a DEF StepSecond, reference, pairing, stepping, TypeRecords
<1>6. CASE WriteClock
  <2>1. quota.resets + 1 \in 0..ResetMax
    <3>1. quota.resets < ResetMax
      BY <1>6 DEF WriteClock, RoomInv, Stepping
    <3>2. quota.resets \in 0..ResetMax
      BY <1>a DEF TypeRecords
    <3> QED
      BY <3>1, <3>2, Constants
  <2> QED
    BY <1>6, <1>a, <2>1 DEF WriteClock, reference, pairing, TypeRecords
<1>7. CASE Status
  BY <1>7, <1>a, <1>b DEF Status, reference, pairing, stepping, TypeRecords
<1>c. WorkSince \in Nat
  <2>1. events # <<>> => Head(events).mono \in Nat
    BY <1>a, HeadTypes DEF TypeRecords
  <2>2. g.since \in Nat
    BY <1>a DEF TypeRecords
  <2> QED
    BY <2>1, <2>2, Constants DEF WorkSince
<1>d. ASSUME TakeEdge
      PROVE  /\ events' \in Seq(EdgeType)
             /\ g' \in [pc : {"check", "decide", "step", "write", "status", "poll"},
                        fresh : BOOLEAN, seq : Nat, S : Nat, since : Nat]
             /\ UNCHANGED <<faults, anchor, quota, s>>
  <2>1. events' \in Seq(EdgeType)
    BY <1>d, <1>a, HeadTypes DEF TakeEdge, TypeRecords
  <2>2. g' = [g EXCEPT !.pc = "check", !.since = WorkSince]
    BY <1>d DEF TakeEdge
  <2>3. g' \in [pc : {"check", "decide", "step", "write", "status", "poll"},
                fresh : BOOLEAN, seq : Nat, S : Nat, since : Nat]
    BY <1>a, <1>c, <2>2 DEF TypeRecords
  <2> QED
    BY <1>d, <2>1, <2>3 DEF TakeEdge, reference, stepping
<1>8. CASE EdgeTod
  <2>1. TakeEdge /\ UNCHANGED mutex
    BY <1>8 DEF EdgeTod
  <2>2. Head(events) \in EdgeType
    BY <1>a, <2>1, HeadTypes DEF TakeEdge, TypeRecords
  <2>3. pending' = pending \/ (Len(pending) < PendingMax /\ pending' = Append(pending, Head(events)))
    BY <1>8 DEF EdgeTod
  <2>4. pending' \in Seq(EdgeType) /\ Len(pending') <= PendingMax
    <3>1. pending \in Seq(EdgeType) /\ Len(pending) <= PendingMax
      BY <1>a DEF TypeRecords
    <3> QED
      BY <2>2, <2>3, <3>1, AppendTypes, Constants
  <2> QED
    BY <1>a, <1>d, <2>1, <2>4 DEF TypeRecords
<1>9. CASE EdgeNtp
  <2>1. TakeEdge /\ UNCHANGED pending /\ mutex' \in {"gpio", mutex}
    BY <1>9 DEF EdgeNtp
  <2> QED
    BY <1>a, <1>d, <2>1 DEF TypeRecords
<1>10. CASE PollTimeout
  BY <1>10, <1>a, <1>c DEF PollTimeout, reference, pairing, stepping, TypeRecords
<1>11. CASE Tick
  <2>1. Edge(now + 1) \in EdgeType
    BY <1>a, <1>b, Constants DEF Edge, EdgeType, TypeNumbers
  <2>2. events' \in Seq(EdgeType)
    <3>1. events' \in {events, Append(events, Edge(now + 1))}
      BY <1>11 DEF Tick
    <3>2. events \in Seq(EdgeType)
      BY <1>a DEF TypeRecords
    <3> QED
      BY <2>1, <3>1, <3>2, AppendTypes
  <2> QED
    BY <1>11, <1>a, <2>2 DEF Tick, reference, pairing, stepping, TypeRecords
<1>12. CASE Discipline
  BY <1>12, <1>a DEF Discipline, reference, pairing, stepping, TypeRecords
<1>13. CASE SetDate
  BY <1>13, <1>a DEF SetDate, reference, pairing, stepping, TypeRecords
<1>14. CASE UNCHANGED vars
  BY <1>14, <1>a DEF vars, reference, pairing, gate, stepping, TypeRecords
<1> QED
  BY <1>0, <1>1, <1>2, <1>3, <1>4, <1>5, <1>6, <1>7, <1>8, <1>9, <1>10, <1>11, <1>12,
     <1>13, <1>14 DEF Next

(* A decision to step leaves room in the quota; nothing else touches either.  *)
LEMMA RoomStep == TypeOK /\ RoomInv /\ [Next]_vars => RoomInv'
<1> SUFFICES ASSUME TypeOK, RoomInv, [Next]_vars PROVE RoomInv'
  OBVIOUS
<1> USE DEF RoomInv, Stepping
<1>0. ASSUME NEW S \in parse_line, Arrive(S) PROVE RoomInv'
  BY <1>0 DEF Arrive, stepping
<1>1. CASE Sentence
  BY <1>1 DEF Sentence, stepping
<1>2. CASE SentenceDone
  BY <1>2 DEF SentenceDone, stepping
<1>3. CASE CheckAnchor
  BY <1>3 DEF CheckAnchor, TypeOK
<1>4. CASE Decide
  <2>1. g'.pc \in {"status", "step"} /\ (g'.pc = "step" => Due /\ ~Exhausted)
    BY <1>4 DEF Decide, TypeOK
  <2>2. Due => quota'.resets = Spent
    BY <1>4 DEF Decide
  <2>3. ~Exhausted => Spent < ResetMax
    BY Constants DEF Exhausted, Spent, TypeOK
  <2> QED
    BY <2>1, <2>2, <2>3
<1>5. CASE StepSecond
  BY <1>5 DEF StepSecond, stepping
<1>6. CASE WriteClock
  BY <1>6 DEF WriteClock, TypeOK
<1>7. CASE Status
  BY <1>7 DEF Status, TypeOK
<1>8. CASE EdgeTod
  BY <1>8 DEF EdgeTod, TakeEdge, TypeOK
<1>9. CASE EdgeNtp
  BY <1>9 DEF EdgeNtp, TakeEdge, TypeOK
<1>10. CASE PollTimeout
  BY <1>10 DEF PollTimeout, TypeOK
<1>11. CASE Tick
  BY <1>11 DEF Tick, stepping
<1>12. CASE Discipline
  BY <1>12 DEF Discipline, stepping
<1>13. CASE SetDate
  BY <1>13 DEF SetDate, stepping
<1>14. CASE UNCHANGED vars
  BY <1>14 DEF vars, stepping
<1> QED
  BY <1>0, <1>1, <1>2, <1>3, <1>4, <1>5, <1>6, <1>7, <1>8, <1>9, <1>10, <1>11, <1>12,
     <1>13, <1>14 DEF Next

(* A state to start in has the types.                                        *)
LEMMA InitTypes == Init => TypeOK /\ RoomInv
<1> SUFFICES ASSUME Init PROVE TypeOK /\ RoomInv
  OBVIOUS
<1>1. Start <= MaxNow /\ err \in Int
  BY TodAssumption DEF Init, Abs
<1>2. TypeNumbers
  <2>1. now \in Start..MaxNow /\ Boot * Q + now \in Nat
    BY <1>1, Constants DEF Init
  <2>2. said \in Nat
    BY <2>1, Division DEF Init, TrueSecond, TrueTime
  <2> QED
    BY <1>1, <2>1, <2>2, Constants DEF Init, TypeNumbers
<1>3. TypeRecords
  BY Constants DEF Init, TypeRecords
<1>4. RoomInv
  BY DEF Init, RoomInv, Stepping
<1> QED
  BY <1>2, <1>3, <1>4, TypeParts

(* Every variable of the daemon keeps its type, the queue of edges its length *)
(* and the quota its bound.                                                  *)
THEOREM TodTypes == Spec => []TypeOK
<1>1. TypeOK /\ RoomInv /\ [Next]_vars => TypeOK' /\ RoomInv'
  BY NumbersStep, RecordsStep, RoomStep, TypeParts DEF TypeOK, TypeNumbers, TypeRecords
<1> QED
  BY <1>1, InitTypes, PTL DEF Spec

-----------------------------------------------------------------------------
(* The parts of ClockInv                                                      *)

(* The steps that leave alone all that ClockInv speaks of but the anchor, and    *)
(* those of the gpio thread up to the clock write                             *)
LEMMA SentenceFrame ==
  ASSUME TypeOK, Sentence
  PROVE  /\ UNCHANGED <<now, faults, events, g, last_nudge, quota, steps>>
         /\ s.pc = "lock" /\ s'.pc = "emit" /\ s'.since = s.since
         /\ mutex = "free" /\ mutex' = "serial"
  BY DEF Sentence, reference, stepping, TypeOK

LEMMA QuietFrame ==
  ASSUME TypeOK, SentenceDone \/ Discipline \/ SetDate \/ UNCHANGED vars
  PROVE  /\ UNCHANGED <<now, faults, events, g, last_nudge, quota, steps, anchor>>
         /\ s'.since = s.since /\ (s' = s \/ s'.pc = "idle")
  BY DEF SentenceDone, Discipline, SetDate, vars, reference, pairing, stepping, TypeOK

(* A sentence arrives: nothing but s and said changes.                        *)
LEMMA ArriveFrame ==
  ASSUME TypeOK, NEW S \in parse_line, Arrive(S)
  PROVE  /\ UNCHANGED <<now, faults, events, g, last_nudge, quota, steps, anchor, mutex>>
         /\ s.pc = "idle" /\ s'.pc = "lock" /\ s'.S = S /\ s'.since = now
  BY DEF Arrive, pairing, stepping, TypeOK

(* The queue of edges: its head comes first, and its tail is in order too.    *)
LEMMA QueueFacts ==
  ASSUME TypeRecords, QueueInv, events # <<>>
  PROVE  /\ Head(events).mono \in Nat
         /\ Head(events).mono <= now
         /\ Len(Tail(events)) = Len(events) - 1 /\ Len(events) \in Nat
         /\ \A i \in 1..Len(Tail(events)) :
              /\ i + 1 \in 1..Len(events)
              /\ Tail(events)[i] = events[i + 1]
              /\ Head(events).mono <= events[i + 1].mono
<1>1. events \in Seq(EdgeType) /\ Len(events) \in Nat /\ Len(events) > 0
  BY DEF TypeRecords
<1>2. Head(events) = events[1] /\ 1 \in 1..Len(events)
  BY <1>1
<1>3. Len(Tail(events)) = Len(events) - 1
  BY <1>1
<1>4. ASSUME NEW i \in 1..Len(Tail(events))
      PROVE  i + 1 \in 1..Len(events) /\ Tail(events)[i] = events[i + 1] /\ 1 \in 1..(i + 1)
  BY <1>1, <1>3
<1>5. Head(events).mono \in Nat
  BY <1>1, HeadTypes
<1> QED
  BY <1>1, <1>2, <1>3, <1>4, <1>5 DEF QueueInv

(* A thread that poll lets go has had something to do since some time ago.    *)
LEMMA WorkSincePast ==
  ASSUME TypeOK, QueueInv, EdgeTod \/ EdgeNtp \/ PollTimeout
  PROVE  /\ WorkSince \in Nat /\ WorkSince <= now
         /\ events # <<>> => WorkSince <= Head(events).mono
         /\ g.pc = "poll" /\ GpioWorks
<1>1. TypeRecords /\ now \in Nat
  BY TypeParts, TruthType
<1>2. g.pc = "poll" /\ g.since \in Nat
  BY <1>1 DEF EdgeTod, EdgeNtp, PollTimeout, TakeEdge, TypeRecords
<1>3. CASE events # <<>>
  BY <1>1, <1>2, <1>3, QueueFacts, Constants DEF WorkSince, GpioWorks
<1>4. CASE events = <<>>
  <2>1. now - g.since >= Q
    BY <1>4 DEF EdgeTod, EdgeNtp, PollTimeout, TakeEdge
  <2> QED
    BY <1>1, <1>2, <1>4, <2>1, Constants DEF WorkSince, GpioWorks
<1> QED
  BY <1>3, <1>4

(* The times are never ahead of now.                                         *)
LEMMA PastStep == TypeOK /\ PastInv /\ QueueInv /\ [Next]_vars => PastInv'
<1> SUFFICES ASSUME TypeOK, PastInv, QueueInv, [Next]_vars PROVE PastInv'
  OBVIOUS
<1>a. now \in Nat /\ TypeRecords /\ TypeNumbers
  BY TypeParts, TruthType
<1>0. ASSUME NEW S \in parse_line, Arrive(S) PROVE PastInv'
  BY <1>0, <1>a, ArriveFrame DEF PastInv
<1>1. CASE Sentence
  BY <1>1, <1>a, SentenceFrame DEF Sentence, PastInv
<1>2. CASE SentenceDone \/ Discipline \/ SetDate \/ UNCHANGED vars
  BY <1>2, QuietFrame DEF PastInv
<1>3. CASE CheckAnchor
  BY <1>3, <1>a DEF CheckAnchor, pairing, stepping, PastInv, TypeRecords
<1>4. CASE Decide
  <2>1. g'.since = g.since
    BY <1>4, <1>a DEF Decide, TypeRecords
  <2>2. last_nudge' \in {now, last_nudge} /\ quota'.window \in {now, quota.window}
    BY <1>4, <1>a DEF Decide, TypeRecords
  <2>3. UNCHANGED <<now, anchor, steps, s>>
    BY <1>4 DEF Decide, pairing
  <2> QED
    BY <1>a, <2>1, <2>2, <2>3 DEF PastInv
<1>5. CASE StepSecond
  BY <1>5, <1>a DEF StepSecond, pairing, stepping, PastInv, TypeRecords
<1>6. CASE WriteClock
  BY <1>6, <1>a DEF WriteClock, pairing, PastInv, TypeRecords
<1>7. CASE Status
  BY <1>7, <1>a DEF Status, pairing, stepping, PastInv, TypeRecords
<1>8. CASE EdgeTod \/ EdgeNtp \/ PollTimeout
  <2>1. UNCHANGED <<now, anchor, last_nudge, quota, steps, s>> /\ g'.since = WorkSince
    BY <1>8, <1>a DEF EdgeTod, EdgeNtp, PollTimeout, TakeEdge, pairing, stepping, TypeRecords
  <2>2. WorkSince <= now
    BY <1>8, <1>a, WorkSincePast
  <2> QED
    BY <2>1, <2>2 DEF PastInv
<1>11. CASE Tick
  <2>1. now' = now + 1 /\ UNCHANGED <<g, anchor, last_nudge, quota, steps, s>>
    BY <1>11 DEF Tick, pairing, stepping
  <2>2. /\ g.since \in Nat /\ anchor.mono \in Nat /\ last_nudge \in Int
        /\ quota.window \in Nat /\ s.since \in Nat /\ \A t \in steps : t \in Nat
    BY <1>a, Constants DEF TypeRecords, TypeNumbers
  <2> QED
    BY <1>a, <2>1, <2>2 DEF PastInv
<1> QED
  BY <1>0, <1>1, <1>2, <1>3, <1>4, <1>5, <1>6, <1>7, <1>8, <1>11 DEF Next

(* Edges come in order, and when the gpio thread goes on it is since the edge   *)
(* it has taken or earlier.                                                  *)
LEMMA QueueStep == TypeOK /\ PastInv /\ QueueInv /\ [Next]_vars => QueueInv'
<1> SUFFICES ASSUME TypeOK, PastInv, QueueInv, [Next]_vars PROVE QueueInv'
  OBVIOUS
<1>a. now \in Nat /\ TypeRecords
  BY TypeParts, TruthType
<1>0. ASSUME NEW S \in parse_line, Arrive(S) PROVE QueueInv'
  BY <1>0, ArriveFrame DEF QueueInv
<1>1. CASE Sentence
  BY <1>1, SentenceFrame DEF QueueInv
<1>2. CASE SentenceDone \/ Discipline \/ SetDate \/ UNCHANGED vars
  BY <1>2, QuietFrame DEF QueueInv
<1>3. CASE CheckAnchor \/ Decide \/ StepSecond \/ WriteClock
  <2>1. g.pc # "poll" /\ g'.since = g.since /\ UNCHANGED <<now, events>>
    BY <1>3, <1>a DEF CheckAnchor, Decide, StepSecond, WriteClock, TypeRecords
  <2> QED
    BY <2>1 DEF QueueInv
<1>7. CASE Status
  <2>1. g'.pc = "poll" /\ UNCHANGED <<now, events>>
    BY <1>7, <1>a DEF Status, TypeRecords
  <2> QED
    BY <2>1 DEF QueueInv
<1>8. CASE EdgeTod \/ EdgeNtp
  <2>1. events # <<>> /\ events' = Tail(events) /\ g'.since = WorkSince /\ UNCHANGED now
    BY <1>8, <1>a DEF EdgeTod, EdgeNtp, TakeEdge, TypeRecords
  <2>2. WorkSince \in Nat /\ WorkSince <= Head(events).mono
    BY <1>8, <2>1, WorkSincePast
  <2> SUFFICES ASSUME NEW i \in 1..Len(Tail(events))
               PROVE  /\ Tail(events)[i].mono <= now
                      /\ WorkSince <= Tail(events)[i].mono
                      /\ \A j \in 1..i : Tail(events)[j].mono <= Tail(events)[i].mono
    BY <2>1 DEF QueueInv
  <2>3. /\ i + 1 \in 1..Len(events) /\ Tail(events)[i] = events[i + 1]
        /\ Head(events).mono \in Nat /\ Head(events).mono <= events[i + 1].mono
    BY <1>a, <2>1, QueueFacts
  <2>4. events[i + 1].mono <= now /\ events[i + 1].mono \in Nat
    <3>1. events[i + 1].mono \in Nat
      BY <1>a, <2>3, EventTypes DEF TypeRecords
    <3> QED
      BY <2>3, <3>1 DEF QueueInv
  <2>5. ASSUME NEW j \in 1..i PROVE Tail(events)[j].mono <= Tail(events)[i].mono
    <3>1. j \in 1..Len(Tail(events)) /\ j + 1 \in 1..(i + 1)
      BY <1>a, <2>1, QueueFacts
    <3>2. Tail(events)[j] = events[j + 1]
      BY <1>a, <2>1, <3>1, QueueFacts
    <3> QED
      BY <2>3, <3>1, <3>2 DEF QueueInv
  <2> QED
    BY <2>2, <2>3, <2>4, <2>5
<1>10. CASE PollTimeout
  <2>1. events' = <<>>
    BY <1>10 DEF PollTimeout
  <2> QED
    BY <2>1 DEF QueueInv
<1>11. CASE Tick
  <2>1. now' = now + 1 /\ g' = g /\ events' \in {events, Append(events, Edge(now + 1))}
    BY <1>11 DEF Tick
  <2>2. events \in Seq(EdgeType) /\ Len(events) \in Nat /\ g.since \in Nat /\ g.since <= now
    BY <1>a DEF TypeRecords, PastInv
  <2>3. \A i \in 1..Len(events) : events[i].mono \in Nat
    BY <2>2, EventTypes
  <2>4. CASE events' = events
    BY <1>a, <2>1, <2>2, <2>3, <2>4 DEF QueueInv
  <2>5. CASE events' = Append(events, Edge(now + 1))
    <3>1. Edge(now + 1).mono = now + 1
      BY DEF Edge
    <3> DEFINE e == Edge(now + 1)
    <3>2. /\ Len(events') = Len(events) + 1
          /\ events'[Len(events) + 1] = e
          /\ \A i \in 1..Len(events) : events'[i] = events[i]
      BY <2>2, <2>5
    <3> HIDE DEF e
    <3>3. e.mono = now + 1
      BY <3>1 DEF e
    <3> SUFFICES ASSUME NEW i \in 1..(Len(events) + 1)
                 PROVE  /\ events'[i].mono <= now + 1
                        /\ g.pc # "poll" => g.since <= events'[i].mono
                        /\ \A j \in 1..i : events'[j].mono <= events'[i].mono
      BY <2>1, <3>2 DEF QueueInv
    <3>4. CASE i = Len(events) + 1
      <4>1. events'[i] = e
        BY <3>2, <3>4
      <4>2. ASSUME NEW j \in 1..i PROVE events'[j].mono <= now + 1
        <5>1. CASE j = i
          BY <1>a, <3>3, <4>1, <5>1
        <5>2. CASE j # i
          <6>1. j \in 1..Len(events)
            BY <2>2, <3>4, <5>2
          <6> QED
            BY <1>a, <2>3, <3>2, <6>1 DEF QueueInv
        <5> QED
          BY <5>1, <5>2
      <4> QED
        BY <1>a, <2>2, <3>3, <4>1, <4>2
    <3>5. CASE i # Len(events) + 1
      <4>1. i \in 1..Len(events) /\ \A j \in 1..i : j \in 1..Len(events)
        BY <2>2, <3>5
      <4>2. events[i].mono <= now + 1
        BY <1>a, <2>3, <4>1 DEF QueueInv
      <4> QED
        BY <3>2, <4>1, <4>2 DEF QueueInv
    <3> QED
      BY <3>4, <3>5
  <2> QED
    BY <2>1, <2>4, <2>5
<1> QED
  BY <1>0, <1>1, <1>2, <1>3, <1>7, <1>8, <1>10, <1>11 DEF Next

(* A tick that finds the gpio thread at work found it at work in time, and one *)
(* that gives it work gives it work from that moment.                        *)
LEMMA LagTick ==
  ASSUME TypeOK, PastInv, QueueInv, Tick, GpioWorks', ~Stuck
  PROVE  now + 1 <= WorkSince' + Lag
<1>1. now \in Nat /\ TypeRecords
  BY TypeParts, TruthType
<1>2. now' = now + 1 /\ g' = g /\ events' \in {events, Append(events, Edge(now + 1))}
  BY DEF Tick
<1>3. events \in Seq(EdgeType) /\ g.since \in Nat
  BY <1>1 DEF TypeRecords
<1>4. GpioWorks => now - WorkSince < Lag
  BY DEF Tick, Scheduled
<1>5. Edge(now + 1).mono = now + 1
  BY DEF Edge
<1>6. CASE events # <<>>
  <2>1. events' # <<>> /\ Head(events') = Head(events)
    BY <1>2, <1>3, <1>6
  <2>2. WorkSince' = WorkSince /\ GpioWorks
    BY <1>2, <1>6, <2>1 DEF WorkSince, GpioWorks
  <2>3. WorkSince \in Nat
    BY <1>3, <1>6, HeadTypes, Constants DEF WorkSince
  <2> QED
    BY <1>1, <1>4, <2>2, <2>3, Constants
<1>7. CASE events = <<>>
  <2>1. events' = <<>> \/ (events' # <<>> /\ Head(events').mono = now + 1)
    <3>1. Append(events, Edge(now + 1)) = <<Edge(now + 1)>>
      BY <1>7
    <3> QED
      BY <1>2, <1>5, <1>7, <3>1
  <2>2. CASE g.pc # "poll"
    <3>1. WorkSince' = g.since /\ WorkSince = g.since /\ GpioWorks
      BY <1>2, <2>2 DEF WorkSince, GpioWorks
    <3> QED
      BY <1>1, <1>3, <1>4, <3>1, Constants
  <2>3. CASE g.pc = "poll"
    <3>1. WorkSince = g.since + Q /\ WorkSince' \in {now + 1, g.since + Q}
      BY <1>2, <1>7, <2>1, <2>3 DEF WorkSince
    <3>2. now - g.since >= Q => now - (g.since + Q) < Lag
      BY <1>4, <3>1 DEF GpioWorks
    <3>3. now \in Int /\ g.since \in Int /\ Q \in Int /\ Lag \in Nat
      BY <1>1, <1>3, Constants
    <3>4. now + 1 <= g.since + Q + Lag
      BY <3>2, <3>3
    <3>5. CASE WorkSince' = now + 1
      BY <3>3, <3>5
    <3>6. CASE WorkSince' = g.since + Q
      BY <3>3, <3>4, <3>6
    <3> QED
      BY <3>1, <3>5, <3>6
  <2> QED
    BY <2>2, <2>3
<1> QED
  BY <1>6, <1>7

(* Neither thread is held up for longer than Lag.                             *)
LEMMA LagStep == TypeOK /\ PastInv /\ QueueInv /\ LagInv /\ [Next]_vars => LagInv'
<1> SUFFICES ASSUME TypeOK, PastInv, QueueInv, LagInv, [Next]_vars PROVE LagInv'
  OBVIOUS
<1>a. now \in Nat /\ TypeRecords
  BY TypeParts, TruthType
<1>0. ASSUME NEW S \in parse_line, Arrive(S) PROVE LagInv'
  <2>1. now <= now + Lag
    BY <1>a, Constants
  <2> QED
    BY <1>0, <2>1, ArriveFrame DEF LagInv, GpioWorks, WorkSince, Stuck
<1>1. CASE Sentence
  BY <1>1, SentenceFrame DEF LagInv, GpioWorks, WorkSince, Stuck
<1>2. CASE SentenceDone
  <2>1. mutex = "serial" /\ mutex' = "free" /\ s'.pc = "idle"
    BY <1>2, <1>a DEF SentenceDone, LagInv, TypeRecords
  <2> QED
    BY <1>2, <2>1, QuietFrame DEF LagInv, GpioWorks, WorkSince, Stuck
<1>3. CASE Discipline \/ SetDate \/ UNCHANGED vars
  <2>1. UNCHANGED <<mutex, s>>
    BY <1>3 DEF Discipline, SetDate, vars
  <2> QED
    BY <1>3, <2>1, QuietFrame DEF LagInv, GpioWorks, WorkSince, Stuck
<1>4. CASE CheckAnchor \/ Decide \/ StepSecond \/ WriteClock
  <2>1. /\ g.pc # "poll" /\ g'.pc # "poll" /\ g'.since = g.since
        /\ UNCHANGED <<now, events, mutex, s>>
        /\ ~Stuck
    BY <1>4, <1>a DEF CheckAnchor, Decide, StepSecond, WriteClock, Stuck, TypeRecords
  <2>2. now <= g.since + Lag
    BY <2>1 DEF LagInv, GpioWorks, WorkSince
  <2> QED
    BY <2>1, <2>2 DEF LagInv, GpioWorks, WorkSince
<1>7. CASE Status
  <2>1. /\ g.pc = "status" /\ g'.pc = "poll" /\ g'.since = now
        /\ UNCHANGED <<now, events, mutex, s>>
    BY <1>7, <1>a DEF Status, TypeRecords
  <2>2. now <= g.since + Lag /\ g.since \in Nat
    BY <1>a, <2>1 DEF LagInv, GpioWorks, WorkSince, Stuck, TypeRecords
  <2>5. ~Stuck /\ ~Stuck' /\ mutex # "gpio"
    BY <2>1 DEF Stuck, LagInv
  <2>3. CASE events = <<>>
    <3>1. ~GpioWorks'
      BY <1>a, <2>1, <2>3, Constants DEF GpioWorks
    <3> QED
      BY <2>1, <2>5, <3>1 DEF LagInv
  <2>4. CASE events # <<>>
    <3>1. Head(events).mono \in Nat /\ Head(events).mono <= now
      BY <1>a, <2>4, QueueFacts
    <3>2. g.since <= Head(events).mono
      <4>1. events \in Seq(EdgeType)
        BY <1>a DEF TypeRecords
      <4>2. Head(events) = events[1] /\ 1 \in 1..Len(events)
        BY <2>4, <4>1
      <4> QED
        BY <2>1, <4>2 DEF QueueInv
    <3>3. WorkSince' = Head(events).mono
      BY <1>a, <2>1, <2>4, <3>1, Constants DEF WorkSince
    <3> QED
      BY <1>a, <2>1, <2>2, <2>5, <3>1, <3>2, <3>3, Constants DEF LagInv
  <2> QED
    BY <2>3, <2>4
<1>8. CASE EdgeTod \/ EdgeNtp \/ PollTimeout
  <2>1. g'.pc = "check" /\ g'.since = WorkSince /\ UNCHANGED <<now, s>>
    BY <1>8, <1>a DEF EdgeTod, EdgeNtp, PollTimeout, TakeEdge, TypeRecords
  <2>2. now <= WorkSince + Lag
    BY <1>8, WorkSincePast DEF LagInv, Stuck
  <2>3. mutex' = mutex \/ (mutex = "free" /\ mutex' = "gpio")
    BY <1>8 DEF EdgeTod, EdgeNtp, PollTimeout, TakeEdge
  <2>4. WorkSince' = WorkSince
    BY <2>1 DEF WorkSince
  <2>5. ~Stuck
    BY <1>8, WorkSincePast DEF Stuck
  <2> QED
    BY <2>1, <2>2, <2>3, <2>4, <2>5 DEF LagInv, Stuck
<1>11. CASE Tick
  <2>1. now' = now + 1 /\ UNCHANGED <<mutex, s, g>>
    BY <1>11 DEF Tick
  <2>2. Stuck' = Stuck
    BY <2>1 DEF Stuck
  <2>3. s.pc # "idle" => Stuck \/ now' <= s.since + Lag
    <3>1. s.since \in Nat
      BY <1>a DEF TypeRecords
    <3> QED
      BY <1>11, <1>a, <2>1, <3>1, Constants DEF Tick, Scheduled
  <2> QED
    BY <1>11, <2>1, <2>2, <2>3, LagTick DEF LagInv
<1> QED
  BY <1>0, <1>1, <1>2, <1>3, <1>4, <1>7, <1>8, <1>11 DEF Next

(* The steps of the gpio thread that neither decide nor write                *)
LEMMA LoopFrame ==
  ASSUME TypeOK, CheckAnchor \/ Status \/ EdgeTod \/ EdgeNtp \/ PollTimeout
  PROVE  UNCHANGED <<now, faults, last_nudge, quota, steps, anchor, s>> /\ ~Stepping'
  BY DEF CheckAnchor, Status, EdgeTod, EdgeNtp, PollTimeout, TakeEdge, reference, pairing,
         stepping, Stepping, TypeOK

LEMMA StepSecondFrame ==
  ASSUME TypeOK, StepSecond
  PROVE  /\ UNCHANGED <<now, faults, last_nudge, quota, steps, anchor, s>>
         /\ g.pc = "step" /\ g'.pc = "write" /\ g'.since = g.since /\ g'.S = anchor.S
  BY DEF StepSecond, reference, pairing, stepping, TypeOK

LEMMA TickFrame ==
  ASSUME Tick
  PROVE  UNCHANGED <<faults, last_nudge, quota, steps, anchor, g, s>> /\ now' = now + 1
  BY DEF Tick, reference, pairing, stepping

LEMMA WriteFrame ==
  ASSUME TypeOK, WriteClock
  PROVE  /\ UNCHANGED <<now, faults, last_nudge, anchor, s>>
         /\ g.pc = "write" /\ g'.pc = "status" /\ Stepping /\ ~Stepping'
         /\ steps' = steps \cup {now}
         /\ quota'.window = quota.window /\ quota'.resets = quota.resets + 1
  BY DEF WriteClock, reference, pairing, Stepping, TypeOK

(* A decision: that no step is due, or that one is and falls into this window  *)
(* or a new one                                                              *)
LEMMA DecideFrame ==
  ASSUME TypeOK, Decide
  PROVE  /\ UNCHANGED <<now, faults, steps, anchor, s>>
         /\ g.pc = "decide" /\ g'.since = g.since
         /\ \/ /\ ~Stepping' /\ g'.pc = "status" /\ UNCHANGED <<last_nudge, quota>>
            \/ /\ Due /\ last_nudge' = now
               /\ Stepping' => g'.pc = "step" /\ quota'.resets < ResetMax
               /\ \/ ~NewWindow /\ quota'.window = quota.window /\ quota'.resets = quota.resets
                  \/ NewWindow /\ quota'.window = now /\ quota'.resets = 0
<1>1. /\ UNCHANGED <<now, faults, steps, anchor, s>>
      /\ g.pc = "decide" /\ g'.since = g.since /\ g'.pc \in {"status", "step"}
  BY DEF Decide, reference, pairing, TypeOK
<1>2. CASE ~Due
  BY <1>1, <1>2 DEF Decide, Stepping, TypeOK
<1>3. CASE Due
  <2>1. /\ last_nudge' = now
        /\ quota'.window = (IF NewWindow THEN now ELSE quota.window)
        /\ quota'.resets = Spent
        /\ g'.pc = (IF Exhausted THEN "status" ELSE "step")
    BY <1>3 DEF Decide, TypeOK
  <2>2. ~Exhausted => Spent < ResetMax
    BY Constants DEF Exhausted, Spent, TypeOK
  <2> QED
    BY <1>1, <1>3, <2>1, <2>2 DEF Spent, Stepping
<1> QED
  BY <1>2, <1>3

(* When a step is due, the last one lies back longer than a measurement lasts. *)
LEMMA DueLater ==
  ASSUME TypeOK, PastInv, PaceInv, Due, NEW t \in steps
  PROVE  /\ t \in Nat /\ now - t + Lag > NudgeGap
         /\ t < now /\ t < last_off.mono
<1>1. t \in Nat /\ last_nudge \in Int /\ now \in Nat /\ last_off.mono \in Nat
  BY Constants DEF TypeOK
<1>2. t <= last_nudge + Lag /\ now - last_nudge > NudgeGap /\ now - last_off.mono < FreshFor
  BY DEF PaceInv, Due
<1>3. Lag \in Nat /\ NudgeGap \in Nat /\ FreshFor \in Nat /\ FreshFor + Lag <= NudgeGap
  BY Constants
<1> QED
  BY <1>1, <1>2, <1>3

(* The pause between two writes, and the room in the quota for the next        *)
LEMMA PaceStep ==
  TypeOK /\ PastInv /\ LagInv /\ PaceInv /\ [Next]_vars => PaceInv'
<1> SUFFICES ASSUME TypeOK, PastInv, LagInv, PaceInv, [Next]_vars PROVE PaceInv'
  OBVIOUS
<1>a. /\ now \in Nat /\ last_nudge \in Int /\ Lag \in Nat /\ NudgeGap \in Nat
      /\ g.since \in Nat /\ quota.window \in Nat /\ \A t \in steps : t \in Nat
  BY Constants DEF TypeOK
<1>0. ASSUME NEW S \in parse_line, Arrive(S) PROVE PaceInv'
  BY <1>0, ArriveFrame DEF PaceInv, Stepping
<1>1. CASE Sentence
  BY <1>1, SentenceFrame DEF PaceInv, Stepping
<1>2. CASE SentenceDone \/ Discipline \/ SetDate \/ UNCHANGED vars
  BY <1>2, QuietFrame DEF PaceInv, Stepping
<1>3. CASE CheckAnchor \/ Status \/ EdgeTod \/ EdgeNtp \/ PollTimeout
  BY <1>3, LoopFrame DEF PaceInv
<1>4. CASE Decide
  <2>1. CASE ~Stepping' /\ UNCHANGED <<last_nudge, quota>>
    BY <1>4, <2>1, DecideFrame DEF PaceInv
  <2>2. CASE Due /\ last_nudge' = now
    <3>1. \A t \in steps : t <= now + Lag /\ now - t + Lag > NudgeGap
      BY <1>a, <2>2, DueLater
    <3>2. g.since <= now /\ quota.window <= now
      BY DEF PastInv
    <3>3. UNCHANGED <<now, steps>> /\ g'.since = g.since
      BY <1>4, DecideFrame
    <3>4. Stepping' => quota'.resets < ResetMax
      BY <1>4, DecideFrame DEF PaceInv, Stepping
    <3>5. quota'.window <= now
      BY <1>4, <1>a, <3>2, DecideFrame
    <3> QED
      BY <2>2, <3>1, <3>2, <3>3, <3>4, <3>5 DEF PaceInv
  <2> QED
    BY <1>4, <2>1, <2>2, DecideFrame
<1>5. CASE StepSecond
  BY <1>5, StepSecondFrame DEF PaceInv, Stepping
<1>6. CASE WriteClock
  <2>1. now <= g.since + Lag /\ g.since <= last_nudge
    BY <1>6, WriteFrame DEF LagInv, GpioWorks, Stuck, WorkSince, PaceInv
  <2>2. now <= last_nudge + Lag
    BY <1>a, <2>1
  <2> QED
    BY <1>6, <2>2, WriteFrame DEF PaceInv
<1>11. CASE Tick
  BY <1>11, TickFrame DEF PaceInv, Stepping
<1> QED
  BY <1>0, <1>1, <1>2, <1>3, <1>4, <1>5, <1>6, <1>11 DEF Next

(* Sets of writes: they are finite, smaller ones count for less, and two       *)
(* together for no more than their sum.                                       *)
LEMMA FiniteSteps ==
  ASSUME NEW A \in SUBSET (Start..MaxNow)
  PROVE  IsFiniteSet(A) /\ Cardinality(A) \in Nat
<1>1. IsFiniteSet(Start..MaxNow)
  BY Constants, FS_Interval
<1>2. IsFiniteSet(A)
  BY <1>1, FS_Subset
<1> QED
  BY <1>2, FS_CardinalityType

LEMMA FewerSteps ==
  ASSUME NEW A \in SUBSET (Start..MaxNow), NEW B \in SUBSET A
  PROVE  Cardinality(B) <= Cardinality(A)
<1>1. IsFiniteSet(A)
  BY FiniteSteps
<1> QED
  BY <1>1, FS_Subset

LEMMA StepsTogether ==
  ASSUME NEW A \in SUBSET (Start..MaxNow), NEW B \in SUBSET (Start..MaxNow),
         NEW C \in SUBSET (A \cup B)
  PROVE  Cardinality(C) <= Cardinality(A) + Cardinality(B)
<1>1. IsFiniteSet(A) /\ IsFiniteSet(B) /\ Cardinality(A) \in Nat /\ Cardinality(B) \in Nat
  BY FiniteSteps
<1>2. /\ IsFiniteSet(A \cup B) /\ IsFiniteSet(A \cap B)
      /\ Cardinality(A \cup B) = Cardinality(A) + Cardinality(B) - Cardinality(A \cap B)
  BY <1>1, FS_Union, FS_Intersection
<1>3. Cardinality(A \cap B) \in Nat /\ Cardinality(A \cup B) \in Nat
  BY <1>2, FS_CardinalityType
<1>4. Cardinality(C) <= Cardinality(A \cup B)
  BY <1>2, FS_Subset
<1>5. Cardinality(C) \in Nat
  BY <1>2, FS_Subset, FS_CardinalityType
<1> QED
  BY <1>1, <1>2, <1>3, <1>4, <1>5

(* A window holds no more writes than were counted, and the one before it no   *)
(* more than the quota.                                                       *)
LEMMA QuotaStep ==
  TypeOK /\ PastInv /\ PaceInv /\ QuotaInv /\ [Next]_vars => QuotaInv'
<1> SUFFICES ASSUME TypeOK, PastInv, PaceInv, QuotaInv, [Next]_vars PROVE QuotaInv'
  OBVIOUS
<1>a. /\ now \in Nat /\ now <= MaxNow /\ MaxNow \in Nat /\ Window \in Nat
      /\ quota.window \in Nat /\ quota.resets \in Nat /\ quota.resets <= ResetMax
      /\ \A t \in steps : t \in Nat /\ t <= MaxNow
  BY Constants DEF TypeOK
<1>b. UNCHANGED <<steps, quota>> => QuotaInv'
  BY DEF QuotaInv, Between
<1>0. ASSUME NEW S \in parse_line, Arrive(S) PROVE QuotaInv'
  BY <1>0, <1>b, ArriveFrame
<1>1. CASE Sentence
  BY <1>1, <1>b, SentenceFrame
<1>2. CASE SentenceDone \/ Discipline \/ SetDate \/ UNCHANGED vars
  BY <1>2, <1>b, QuietFrame
<1>3. CASE CheckAnchor \/ Status \/ EdgeTod \/ EdgeNtp \/ PollTimeout
  BY <1>3, <1>b, LoopFrame
<1>4. CASE Decide
  <2>1. steps' = steps
    BY <1>4, DecideFrame
  <2>2. CASE quota'.window = quota.window /\ quota'.resets = quota.resets
    BY <2>1, <2>2 DEF QuotaInv, Between
  <2>3. CASE Due /\ NewWindow /\ quota'.window = now /\ quota'.resets = 0
    <3>1. Between(now, MaxNow + 1) = {}
      BY <1>a, <2>3, DueLater DEF Between
    <3>2. Cardinality(Between(now, MaxNow + 1)) = 0
      BY <3>1, FS_EmptySet
    <3>3. ASSUME NEW t \in steps, now < t + Window
          PROVE  Cardinality(Between(t, now)) <= ResetMax
      <4>1. quota.window <= t
        BY <1>a, <2>3, <3>3 DEF NewWindow
      <4>2. Between(t, now) \subseteq Between(quota.window, MaxNow + 1)
        BY <1>a, <4>1 DEF Between
      <4>3. Cardinality(Between(t, now)) <= Cardinality(Between(quota.window, MaxNow + 1))
        BY <4>2, FewerSteps DEF Between, TypeOK
      <4>4. /\ Cardinality(Between(t, now)) \in Nat
            /\ Cardinality(Between(quota.window, MaxNow + 1)) \in Nat
        BY FiniteSteps DEF Between, TypeOK
      <4> QED
        BY <1>a, <4>3, <4>4, Constants DEF QuotaInv
    <3> QED
      BY <2>1, <2>3, <3>2, <3>3 DEF QuotaInv, Between
  <2> QED
    BY <1>4, <2>2, <2>3, DecideFrame
<1>5. CASE StepSecond
  BY <1>5, <1>b, StepSecondFrame
<1>6. CASE WriteClock
  <2>1. /\ steps' = steps \cup {now} /\ quota'.window = quota.window
        /\ quota'.resets = quota.resets + 1
    BY <1>6, WriteFrame
  <2>2. quota.window <= now
    BY DEF PastInv
  <2> DEFINE B == Between(quota.window, MaxNow + 1)
  <2>3. Between(quota.window, MaxNow + 1)' = B \cup {now}
    BY <1>a, <2>1, <2>2 DEF Between
  <2>4. Cardinality(B \cup {now}) <= Cardinality(B) + 1
    <3>1. IsFiniteSet(B) /\ Cardinality(B) \in Nat
      BY FiniteSteps DEF Between, TypeOK
    <3> HIDE DEF B
    <3> QED
      BY <3>1, FS_AddElement
  <2>5. Cardinality(B) \in Nat /\ Cardinality(B) <= quota.resets
    BY FiniteSteps DEF Between, QuotaInv, TypeOK
  <2>6. ASSUME NEW t \in steps \cup {now}
        PROVE  {v \in steps \cup {now} : t <= v /\ v < quota.window}
                 = {v \in steps : t <= v /\ v < quota.window}
    BY <1>a, <2>2
  <2>7. {v \in steps : now <= v /\ v < quota.window} = {}
    BY <1>a, <2>2
  <2>8. ASSUME NEW t \in steps', quota.window < t + Window
        PROVE  Cardinality({v \in steps' : t <= v /\ v < quota.window}) <= ResetMax
    <3>1. CASE t \in steps
      BY <2>1, <2>6, <2>8, <3>1 DEF QuotaInv, Between
    <3>2. CASE t = now
      <4>1. {v \in steps' : t <= v /\ v < quota.window} = {}
        BY <2>1, <2>6, <2>7, <3>2
      <4> QED
        BY <4>1, FS_EmptySet, Constants
    <3> QED
      BY <2>1, <3>1, <3>2
  <2>9. Cardinality(B \cup {now}) <= quota.resets + 1
    <3>1. IsFiniteSet(B \cup {now})
      BY FiniteSteps, FS_AddElement DEF Between, TypeOK
    <3>2. Cardinality(B \cup {now}) \in Nat
      BY <3>1, FS_CardinalityType
    <3> HIDE DEF B
    <3> QED
      BY <1>a, <2>4, <2>5, <3>2
  <2> HIDE DEF B
  <2> QED
    BY <2>1, <2>3, <2>8, <2>9 DEF QuotaInv, Between
<1>11. CASE Tick
  BY <1>11, <1>b, TickFrame
<1> QED
  BY <1>0, <1>1, <1>2, <1>3, <1>4, <1>5, <1>6, <1>11 DEF Next

(* A new write keeps its distance, and falls into the window of the last ones  *)
(* or out of reach of the earlier.                                            *)
LEMMA StepQuotaStep ==
  /\ TypeOK /\ PastInv /\ PaceInv /\ StepQuota /\ [Next]_vars
  /\ TypeOK' /\ PastInv' /\ QuotaInv'
  => StepQuota'
<1> SUFFICES ASSUME TypeOK, PastInv, PaceInv, StepQuota, [Next]_vars,
                    TypeOK', PastInv', QuotaInv'
             PROVE  StepQuota'
  OBVIOUS
<1>a. TypeNumbers /\ TypeRecords
  BY TypeParts
<1>b. steps' = steps => StepQuota'
  BY DEF StepQuota
<1>0. ASSUME NEW S \in parse_line, Arrive(S) PROVE StepQuota'
  BY <1>0, <1>b, ArriveFrame
<1>1. CASE Sentence
  BY <1>1, <1>b, SentenceFrame
<1>2. CASE SentenceDone \/ Discipline \/ SetDate \/ UNCHANGED vars
  BY <1>2, <1>b, QuietFrame
<1>3. CASE CheckAnchor \/ Status \/ EdgeTod \/ EdgeNtp \/ PollTimeout
  BY <1>3, <1>b, LoopFrame
<1>4. CASE Decide
  BY <1>4, <1>b, DecideFrame
<1>5. CASE StepSecond
  BY <1>5, <1>b, StepSecondFrame
<1>6. CASE WriteClock
  <2>1. steps' = steps \cup {now} /\ quota'.window = quota.window /\ now' = now /\ Stepping
    BY <1>6, WriteFrame
  <2>2. /\ now \in Nat /\ last_nudge \in Int /\ Lag \in Nat /\ NudgeGap \in Nat
        /\ Window \in Nat /\ ResetMax \in Nat /\ MaxNow \in Nat /\ now <= MaxNow
        /\ quota.window \in Nat /\ quota.window <= now /\ last_nudge <= now
        /\ \A t \in steps : t \in Nat /\ t <= now
    <3>1. /\ now \in Nat /\ now <= MaxNow /\ last_nudge \in Int /\ quota.window \in Nat
          /\ \A t \in steps : t \in Nat
      BY <1>a, Constants DEF TypeNumbers, TypeRecords
    <3>2. quota.window <= now /\ last_nudge <= now /\ \A t \in steps : t <= now
      BY DEF PastInv
    <3> QED
      BY <3>1, <3>2, Constants
  <2>r. quota'.resets \in Nat /\ quota'.resets <= ResetMax
    BY <2>2 DEF TypeOK
  <2>3. ASSUME NEW t \in steps', NEW u \in steps', u > t PROVE u - t + Lag > NudgeGap
    <3>1. CASE u \in steps
      <4>1. t \in steps
        BY <2>1, <2>2, <2>3, <3>1
      <4> QED
        BY <2>3, <3>1, <4>1 DEF StepQuota
    <3>2. CASE u = now
      <4>1. t \in steps
        BY <2>1, <2>2, <2>3, <3>2
      <4>2. last_nudge - t + Lag > NudgeGap
        BY <2>1, <4>1 DEF PaceInv
      <4> QED
        BY <2>2, <3>2, <4>1, <4>2
    <3> QED
      BY <2>1, <3>1, <3>2
  <2>4. ASSUME NEW t \in steps'
        PROVE  Cardinality({u \in steps' : t <= u /\ u < t + Window}) <= 2 * ResetMax
    <3> DEFINE C == {u \in steps' : t <= u /\ u < t + Window}
               L == {u \in steps' : t <= u /\ u < quota.window}
               R == {u \in steps' : quota.window <= u /\ u < MaxNow + 1}
    <3>1. t \in Nat
      BY <2>1, <2>2
    <3>2. Cardinality(R) \in Nat /\ Cardinality(L) \in Nat /\ Cardinality(C) \in Nat
      <4>1. steps' \subseteq Start..MaxNow
        BY DEF TypeOK
      <4>2. {C, L, R} \subseteq SUBSET (Start..MaxNow)
        BY <4>1
      <4> HIDE DEF C, L, R
      <4> QED
        BY <4>2, FiniteSteps
    <3>3. Cardinality(R) <= ResetMax
      <4>1. Cardinality(R) <= quota'.resets
        BY <2>1 DEF QuotaInv, Between
      <4> HIDE DEF R
      <4> QED
        BY <2>2, <2>r, <3>2, <4>1
    <3>4. CASE quota.window >= t + Window
      <4>1. t \in steps
        BY <2>1, <2>2, <3>4, Constants
      <4>2. ~ (now < t + Window)
        BY <2>2, <3>1, <3>4
      <4>3. C = {u \in steps : t <= u /\ u < t + Window}
        BY <2>1, <4>2
      <4> QED
        BY <4>1, <4>3 DEF StepQuota
    <3>5. CASE quota.window < t + Window
      <4>1. Cardinality(L) <= ResetMax
        BY <2>1, <3>5 DEF QuotaInv, Between
      <4>2. C \subseteq L \cup R
        <5> SUFFICES ASSUME NEW u \in C PROVE u \in L \cup R
          OBVIOUS
        <5>1. u \in steps' /\ t <= u
          OBVIOUS
        <5>2. u \in Nat /\ u < MaxNow + 1
          BY <2>1, <2>2, <5>1
        <5> QED
          BY <2>2, <5>1, <5>2
      <4>3. Cardinality(C) <= Cardinality(L) + Cardinality(R)
        <5>1. L \in SUBSET (Start..MaxNow) /\ R \in SUBSET (Start..MaxNow)
          BY DEF TypeOK
        <5> HIDE DEF C, L, R
        <5> QED
          BY <4>2, <5>1, StepsTogether
      <4> HIDE DEF C, L, R
      <4>4. Cardinality(C) <= 2 * ResetMax
        BY <2>2, <3>2, <3>3, <4>1, <4>3
      <4> QED
        BY <4>4 DEF C
    <3> QED
      BY <2>2, <3>1, <3>4, <3>5
  <2> QED
    BY <2>3, <2>4 DEF StepQuota
<1>11. CASE Tick
  BY <1>11, <1>b, TickFrame
<1> QED
  BY <1>0, <1>1, <1>2, <1>3, <1>4, <1>5, <1>6, <1>11 DEF Next

(* What the numbers of SecondInv are                                         *)
LEMMA SecondTypes ==
  ASSUME TypeOK
  PROVE  /\ now \in Nat /\ Boot * Q \in Nat /\ TrueTime = Boot * Q + now
         /\ Q \in Nat /\ FreshFor \in Nat /\ FreshFor > 0 /\ Lag \in Nat
         /\ anchor.mono \in Nat /\ g.since \in Nat
         /\ s.since \in Nat
         /\ anchor.S * Q \in Int /\ g.S * Q \in Int /\ s.S * Q \in Int
<1>1. /\ now \in Nat /\ anchor.mono \in Nat /\ g.since \in Nat /\ s.since \in Nat
      /\ anchor.S \in Nat /\ g.S \in Nat /\ s.S \in Nat
  BY Constants DEF TypeOK
<1>2. anchor.S * Q \in Int /\ g.S * Q \in Int /\ s.S * Q \in Int
  BY <1>1, Constants
<1> QED
  BY <1>1, <1>2, Constants DEF TrueTime

(* A truthful receiver names the second of its sentence, and until it is the   *)
(* anchor no more than Lag, until the clock is written not much more than      *)
(* FreshFor passes.                                                           *)
LEMMA SecondStep ==
  TypeOK /\ PastInv /\ LagInv /\ SecondInv /\ [Next]_vars => SecondInv'
<1> SUFFICES ASSUME TypeOK, PastInv, LagInv, SecondInv, [Next]_vars, "jump" \notin faults'
             PROVE  SecondInv'
  BY DEF SecondInv
<1> USE DEF Stepping
<1>a. /\ now \in Nat /\ Boot * Q \in Nat /\ TrueTime = Boot * Q + now
      /\ Q \in Nat /\ FreshFor \in Nat /\ FreshFor > 0
      /\ anchor.mono \in Nat /\ g.since \in Nat /\ s.since \in Nat /\ Lag \in Nat
      /\ anchor.S * Q \in Int /\ g.S * Q \in Int /\ s.S * Q \in Int
  BY SecondTypes
<1>b. g.since <= now /\ anchor.mono <= now /\ s.since <= now
  BY DEF PastInv
<1>c. TrueTime' = Boot * Q + now'
  BY DEF TrueTime
<1>0. ASSUME NEW S \in parse_line, Arrive(S) PROVE SecondInv'
  <2>1. S = TrueSecond /\ UNCHANGED <<now, faults, g, anchor>>
    BY <1>0, ArriveFrame DEF parse_line
  <2>2. s'.S = S /\ s'.since = now
    BY <1>0, ArriveFrame
  <2>3. S * Q <= Boot * Q + now /\ Boot * Q + now < S * Q + Q /\ S * Q \in Int
    <3>1. TrueTime \in Int
      BY <1>a
    <3>2. TrueSecond * Q <= TrueTime /\ TrueTime < TrueSecond * Q + Q /\ TrueSecond \in Int
      BY <3>1, Division DEF TrueSecond
    <3>3. TrueSecond * Q \in Int
      BY <1>a, <3>2
    <3> QED
      BY <1>a, <2>1, <3>2, <3>3
  <2> QED
    BY <1>a, <1>c, <2>1, <2>2, <2>3 DEF SecondInv
<1>1. CASE Sentence
  <2>1. UNCHANGED <<now, faults, g>> /\ s.pc = "lock" /\ s'.pc = "emit"
    BY <1>1, SentenceFrame
  <2>2. anchor'.S = s.S /\ anchor'.mono = now /\ anchor'.valid = TRUE
    BY <1>1 DEF Sentence
  <2>3. now <= s.since + Lag
    BY <1>1, SentenceFrame DEF LagInv, Stuck
  <2>4. s.S * Q <= Boot * Q + s.since /\ Boot * Q + s.since < s.S * Q + Q
    BY <2>1 DEF SecondInv
  <2>5. s.S * Q <= Boot * Q + now /\ Boot * Q + now < s.S * Q + Q + Lag
    BY <1>a, <1>b, <2>3, <2>4
  <2>6. g.since < now + FreshFor
    BY <1>a, <1>b
  <2> QED
    BY <1>a, <1>c, <2>1, <2>2, <2>5, <2>6 DEF SecondInv
<1>2. CASE SentenceDone \/ Discipline \/ SetDate \/ UNCHANGED vars
  <2>1. UNCHANGED <<now, faults, g, anchor>> /\ (s' = s \/ s'.pc = "idle")
    BY <1>2, QuietFrame
  <2> QED
    BY <1>a, <1>c, <2>1 DEF SecondInv
<1>3. CASE CheckAnchor
  <2>1. UNCHANGED <<now, faults, anchor, s>>
    BY <1>3, LoopFrame
  <2>2. g'.pc = "decide" /\ g'.fresh = Fresh /\ g'.since = g.since
    BY <1>3 DEF CheckAnchor, TypeOK
  <2>3. Fresh => anchor.valid /\ g.since < anchor.mono + FreshFor
    BY <1>a, <1>b DEF Fresh
  <2> QED
    BY <2>1, <2>2, <2>3 DEF SecondInv
<1>4. CASE Decide
  <2>1. UNCHANGED <<now, faults, anchor, s>> /\ g.pc = "decide" /\ g'.since = g.since
    BY <1>4, DecideFrame
  <2>2. g'.pc = "status" \/ (g'.pc = "step" /\ g.fresh)
    BY <1>4 DEF Decide, Due, TypeOK
  <2> QED
    BY <2>1, <2>2 DEF SecondInv
<1>5. CASE StepSecond
  <2>1. /\ UNCHANGED <<now, faults, anchor, s>>
        /\ g.pc = "step" /\ g'.pc = "write" /\ g'.since = g.since /\ g'.S = anchor.S
    BY <1>5, StepSecondFrame
  <2>2. /\ anchor.S * Q <= Boot * Q + anchor.mono
        /\ Boot * Q + anchor.mono < anchor.S * Q + Q + Lag
        /\ anchor.valid /\ g.since < anchor.mono + FreshFor
    BY <2>1 DEF SecondInv
  <2>3. /\ anchor.S * Q <= Boot * Q + now
        /\ Boot * Q + g.since < anchor.S * Q + Q + Lag + FreshFor
    BY <1>a, <1>b, <2>2
  <2> QED
    BY <1>c, <2>1, <2>2, <2>3 DEF SecondInv
<1>6. CASE WriteClock
  BY <1>6, WriteFrame DEF SecondInv
<1>7. CASE Status \/ EdgeTod \/ EdgeNtp \/ PollTimeout
  <2>1. UNCHANGED <<now, faults, anchor, s>> /\ ~Stepping'
    BY <1>7, LoopFrame
  <2>2. g'.pc # "decide"
    BY <1>7 DEF Status, EdgeTod, EdgeNtp, PollTimeout, TakeEdge, TypeOK
  <2> QED
    BY <2>1, <2>2 DEF SecondInv
<1>11. CASE Tick
  <2>1. UNCHANGED <<faults, anchor, g, s>> /\ now' = now + 1
    BY <1>11, TickFrame
  <2>2. g.S * Q <= TrueTime => g.S * Q <= TrueTime'
    BY <1>a, <1>c, <2>1
  <2> QED
    BY <2>1, <2>2 DEF SecondInv
<1> QED
  BY <1>0, <1>1, <1>2, <1>3, <1>4, <1>5, <1>6, <1>7, <1>11 DEF Next

-----------------------------------------------------------------------------
(* The theorems                                                              *)

(* The daemon starts with an empty queue, no step and no anchor.             *)
LEMMA InitSteps == Init => ClockInv
<1> SUFFICES ASSUME Init PROVE ClockInv
  OBVIOUS
<1>1. PastInv
  BY Constants DEF Init, PastInv
<1>2. QueueInv
  BY DEF Init, QueueInv
<1>3. LagInv
  BY Constants DEF Init, LagInv, WorkSince
<1>4. PaceInv
  BY DEF Init, PaceInv, Stepping
<1>5. QuotaInv
  <2>1. Between(quota.window, MaxNow + 1) = {}
    BY DEF Init, Between
  <2>2. Cardinality(Between(quota.window, MaxNow + 1)) = 0
    BY <2>1, FS_EmptySet
  <2>3. quota.resets = 0 /\ steps = {}
    BY DEF Init
  <2> QED
    BY <2>2, <2>3 DEF QuotaInv
<1>6. SecondInv
  BY DEF Init, SecondInv, Stepping
<1>7. StepQuota
  BY DEF Init, StepQuota
<1> QED
  BY <1>1, <1>2, <1>3, <1>4, <1>5, <1>6, <1>7 DEF ClockInv

(* Every step keeps the types and ClockInv.                                    *)
LEMMA StepStep ==
  TypeOK /\ RoomInv /\ ClockInv /\ [Next]_vars => TypeOK' /\ RoomInv' /\ ClockInv'
<1> SUFFICES ASSUME TypeOK, RoomInv, ClockInv, [Next]_vars
             PROVE  TypeOK' /\ RoomInv' /\ ClockInv'
  OBVIOUS
<1>1. TypeOK' /\ RoomInv'
  BY NumbersStep, RecordsStep, RoomStep, TypeParts DEF TypeOK, TypeNumbers, TypeRecords
<1>2. PastInv' /\ QueueInv' /\ LagInv' /\ PaceInv' /\ QuotaInv' /\ SecondInv'
  BY PastStep, QueueStep, LagStep, PaceStep, QuotaStep, SecondStep DEF ClockInv
<1>3. StepQuota'
  BY <1>1, <1>2, StepQuotaStep DEF ClockInv
<1> QED
  BY <1>1, <1>2, <1>3 DEF ClockInv

(* What ClockInv says of the queue, the delays, the pace, the windows and the   *)
(* second to be written holds throughout.                                     *)
LEMMA ClockInvariant == Spec => []ClockInv
  BY InitTypes, InitSteps, StepStep, PTL DEF Spec

(* With the types, the inductive invariant of the daemon's clock steps holds   *)
(* in every behaviour of pps_tod.c.                                            *)
THEOREM StepInvariant == Spec => []StepInv
  BY TodTypes, ClockInvariant, PTL DEF StepInv

(* Two clock writes are further apart than the pause less the delay of a       *)
(* thread, and no hour from one of them on holds more than two quotas.         *)
THEOREM StepsWithinQuota == Spec => []StepQuota
<1>1. ClockInv => StepQuota
  BY DEF ClockInv
<1> QED
  BY <1>1, ClockInvariant, PTL

(* A decision to step is never made on the measurement that caused the last    *)
(* step: it was taken after every write.                                      *)
THEOREM StepsMeasuredAnew == Spec => MeasuredAnew
<1>1. TypeOK /\ ClockInv /\ [Next]_vars =>
        [g.pc = "decide" /\ g'.pc = "step" => \A t \in steps : t < last_off.mono]_vars
  <2> SUFFICES ASSUME TypeOK, ClockInv, Next, g.pc = "decide", g'.pc = "step",
                      NEW t \in steps
               PROVE  t < last_off.mono
    OBVIOUS
  <2>1. Decide
    BY QuietFrame, ArriveFrame, SentenceFrame, TickFrame DEF Next, CheckAnchor, StepSecond, WriteClock,
       Status, EdgeTod, EdgeNtp, PollTimeout, TakeEdge
  <2>2. Due
    BY <2>1, DecideFrame DEF Stepping
  <2> QED
    BY <2>2, DueLater DEF ClockInv
<1> QED
  BY <1>1, TodTypes, ClockInvariant, PTL DEF Spec, MeasuredAnew

(* A write under a truthful receiver leaves the clock not ahead, and behind by *)
(* less than the life of an anchor, a second and the delays of both threads.   *)
THEOREM StepsLand == Spec => StepLands
<1>1. TypeOK /\ ClockInv /\ [Next]_vars =>
        [g.pc = "write" /\ g'.pc # "write" /\ "jump" \notin faults =>
           err' <= 0 /\ err' > -(FreshFor + Q + 2 * Lag)]_vars
  <2> SUFFICES ASSUME TypeOK, ClockInv, Next, g.pc = "write", g'.pc # "write",
                      "jump" \notin faults
               PROVE  err' <= 0 /\ err' > -(FreshFor + Q + 2 * Lag)
    OBVIOUS
  <2>1. WriteClock
    BY QuietFrame, ArriveFrame, SentenceFrame, TickFrame DEF Next, CheckAnchor, Decide, StepSecond,
       Status, EdgeTod, EdgeNtp, PollTimeout, TakeEdge
  <2>2. err' = g.S * Q - TrueTime
    BY <2>1 DEF WriteClock
  <2>3. g.S * Q <= TrueTime /\ Boot * Q + g.since < g.S * Q + Q + Lag + FreshFor
    BY DEF ClockInv, SecondInv
  <2>4. now <= g.since + Lag
    BY DEF ClockInv, LagInv, GpioWorks, Stuck, WorkSince
  <2> QED
    BY <2>2, <2>3, <2>4, SecondTypes
<1> QED
  BY <1>1, TodTypes, ClockInvariant, PTL DEF Spec, StepLands

-----------------------------------------------------------------------------
(* The age of the status file                                                *)

(* A poll begins less than a second after a status update and lasts for one    *)
(* at most, and the loop is back at the next update within Lag.                *)
StatusInv ==
    /\ g.pc = "poll" => g.since < last_status + Q
    /\ g.pc # "poll" => g.since = Start \/ g.since < last_status + 2 * Q

LEMMA StatusStep == TypeOK /\ QueueInv /\ StatusInv /\ [Next]_vars => StatusInv'
<1> SUFFICES ASSUME TypeOK, QueueInv, StatusInv, [Next]_vars PROVE StatusInv'
  OBVIOUS
<1>a. now \in Nat /\ last_status \in Nat /\ g.since \in Nat /\ Q \in Nat /\ Q > 1
  BY TruthType, TypeParts, Constants DEF TypeOK
<1>1. CASE \/ \E S \in parse_line : Arrive(S)
           \/ Sentence \/ SentenceDone \/ Discipline \/ SetDate \/ Tick \/ UNCHANGED vars
  BY <1>1 DEF Arrive, Sentence, SentenceDone, Discipline, SetDate, Tick, vars, StatusInv
<1>2. CASE CheckAnchor \/ Decide \/ StepSecond \/ WriteClock
  <2>1. /\ g.pc # "poll" /\ g'.pc # "poll" /\ g'.since = g.since
        /\ last_status' = last_status
    BY <1>2 DEF CheckAnchor, Decide, StepSecond, WriteClock, TypeOK
  <2> QED
    BY <2>1 DEF StatusInv
<1>3. CASE Status
  <2>1. g'.pc = "poll" /\ g'.since = now
    BY <1>3 DEF Status, TypeOK
  <2>2. last_status' = now \/ (last_status' = last_status /\ ~(now - last_status >= Q))
    BY <1>3 DEF Status, StatusDue
  <2> QED
    BY <1>a, <2>1, <2>2 DEF StatusInv
<1>4. CASE EdgeTod \/ EdgeNtp \/ PollTimeout
  <2>1. /\ g.pc = "poll" /\ g'.pc = "check" /\ g'.since = WorkSince
        /\ last_status' = last_status
    BY <1>4 DEF EdgeTod, EdgeNtp, PollTimeout, TakeEdge, TypeOK
  <2>2. WorkSince <= g.since + Q /\ WorkSince \in Nat
    BY <1>4, <1>a, <2>1, WorkSincePast DEF WorkSince
  <2> QED
    BY <1>a, <2>1, <2>2 DEF StatusInv
<1> QED
  BY <1>1, <1>2, <1>3, <1>4 DEF Next

(* As long as the gpio thread has not locked itself out (-A ntp, an edge in     *)
(* the middle of a second of the clock), the status file is never three        *)
(* seconds old, whatever the threads, the edges and the sentences do.           *)
THEOREM StatusStaysFresh == Spec => [](mutex # "gpio" => StatusFresh)
<1>1. Init => StatusInv
  BY DEF Init, StatusInv
<1>2. TypeOK /\ ClockInv /\ StatusInv /\ [Next]_vars => StatusInv'
  BY StatusStep DEF ClockInv
<1>3. TypeOK /\ ClockInv /\ StatusInv => (mutex # "gpio" => StatusFresh)
  <2> SUFFICES ASSUME TypeOK, ClockInv, StatusInv, mutex # "gpio", now >= Start + 3 * Q
               PROVE  now - last_status < 3 * Q
    BY DEF StatusFresh
  <2>1. /\ now \in Nat /\ last_status \in Nat /\ g.since \in Nat /\ Q \in Nat /\ Q > 1
        /\ Lag \in Nat /\ Lag < Q /\ Start \in Nat
    BY TruthType, TypeParts, Constants DEF TypeOK
  <2>2. GpioWorks => now <= WorkSince + Lag
    BY DEF ClockInv, LagInv, Stuck
  <2>3. CASE g.pc # "poll"
    <3>1. now <= g.since + Lag
      BY <2>2, <2>3 DEF GpioWorks, WorkSince
    <3> QED
      BY <2>1, <2>3, <3>1 DEF StatusInv
  <2>4. CASE g.pc = "poll"
    <3>1. now <= g.since + Q + Lag
      <4>1. ~GpioWorks => now - g.since < Q
        BY <2>1 DEF GpioWorks
      <4>2. events # <<>> => Head(events).mono \in Nat
        BY TypeParts, HeadTypes DEF TypeRecords
      <4>3. WorkSince <= g.since + Q /\ WorkSince \in Nat
        BY <2>1, <2>4, <4>2 DEF WorkSince
      <4> QED
        BY <2>1, <2>2, <4>1, <4>3
    <3> QED
      BY <2>1, <2>4, <3>1 DEF StatusInv
  <2> QED
    BY <2>3, <2>4
<1> QED
  BY <1>1, <1>2, <1>3, TodTypes, ClockInvariant, PTL DEF Spec

-----------------------------------------------------------------------------
(* A healthy clock                                                           *)

Healthy ==
    /\ faults \cap {"bad_clock", "date", "jump", "ntp"} = {}
    /\ "lost_edge" \in faults => faults \cap {"lost_sentence", "late_serial"} = {}

(* The edge e began second k, and its stamp is right to half a second.         *)
EdgeWith(realtime, e, k) ==
    /\ e.mono + Boot * Q = k * Q
    /\ IF realtime THEN 2 * Abs(e.ts - k * Q) < Q ELSE e.ts = e.mono

EdgeOf(e, k) == EdgeWith("realtime" \in faults, e, k)

(* The clock is right to half a second and was never stepped.                  *)
KeptInv ==
    /\ 2 * Abs(err) < Q
    /\ steps = {} /\ ~Stepping
    /\ SecondsAgree

(* The second of the edge that is read next                                  *)
NextEdge == IF events = <<>> THEN TrueSecond + 1 ELSE TrueSecond

(* One edge waits at most, that of this second; the edges kept for a sentence   *)
(* have been read, and the one a sentence has taken began its second or the     *)
(* next one.                                                                  *)
EdgesInv ==
    /\ Len(events) <= 1
    /\ \A i \in 1..Len(events) : EdgeOf(events[i], TrueSecond)
    /\ \A i \in 1..Len(pending) : \E k \in Nat : EdgeOf(pending[i], k) /\ k < NextEdge
    /\ s.pc = "emit" => \A e \in s.e : EdgeOf(e, anchor.S) \/ EdgeOf(e, anchor.S + 1)
    /\ mutex # "gpio"

(* A sentence is handled at once, if the serial thread is not late; the anchor  *)
(* is of an earlier one.                                                      *)
SerialInv ==
    /\ s.pc # "idle" /\ "late_serial" \notin faults => s.since = now
    /\ s.pc = "lock" => anchor.S <= s.S /\ s.S * Q < Boot * Q + s.since
    /\ anchor.prev = anchor.S
    /\ IF anchor.valid THEN anchor.seq >= 1 ELSE anchor.S = 0

(* Edges are kept for a sentence while there is no fresh anchor; the gpio       *)
(* thread knows that, and, if no edge is lost, has not waited since.           *)
WaitingInv ==
    /\ pending # <<>> =>
         /\ ~Fresh
         /\ g.pc = "decide" => ~g.fresh
         /\ "lost_edge" \notin faults /\ g.pc # "poll" =>
              Boot * Q + g.since <= (NextEdge - 1) * Q
    /\ "lost_edge" \notin faults /\ g.pc = "poll" =>
         (NextEdge - 1) * Q <= Boot * Q + g.since

(* A late sentence is paired with the edge after its second, and the clock      *)
(* seems to be off, until the next edge is read.  By then less than three       *)
(* seconds have followed each other.                                          *)
Sound == Abs(last_off.off) <= Q /\ strike = 0
Misled == ~Sound \/ (s.pc = "emit" /\ \E e \in s.e : ~EdgeOf(e, anchor.S))

MisledInv ==
    Misled =>
       /\ "lost_edge" \notin faults
       /\ anchor.valid /\ anchor.seq <= anchor.S + 3 - NextEdge
       /\ (NextEdge - 1) * Q <= Boot * Q + anchor.mono
       /\ g.pc # "poll" => Boot * Q + g.since <= (NextEdge - 1) * Q
       /\ g.pc = "decide" /\ g.fresh => g.seq <= 2

(* While no edge is lost, a fresh anchor and the edges counted since name the   *)
(* next edge or one beside it.                                                *)
CountInv ==
    "lost_edge" \notin faults =>
       /\ s.pc = "emit" => NextEdge \in {anchor.S, anchor.S + 1, anchor.S + 2}
       /\ s.pc # "emit" /\ Fresh => Chain \in {NextEdge - 1, NextEdge, NextEdge + 1}

(* If edges are lost, no sentence is: the anchor is of this second or the last, *)
(* and no more edges were counted than have come since.                        *)
SaidInv ==
    "lost_edge" \in faults =>
       /\ said \in {TrueSecond - 1, TrueSecond}
       /\ now % Q > (IF "jitter" \in faults THEN Q - 1 ELSE phase) => said = TrueSecond
       /\ s.pc = "lock" => s.S = TrueSecond /\ said = TrueSecond
       /\ anchor.valid => IF s.pc = "lock" THEN anchor.S \in {TrueSecond - 1, TrueSecond}
                          ELSE anchor.S = said
       /\ s.pc # "emit" /\ anchor.valid => Chain <= NextEdge + 1

HealthyParts ==
    /\ KeptInv /\ EdgesInv /\ SerialInv /\ WaitingInv /\ MisledInv
    /\ CountInv /\ SaidInv

HealthyInv == Healthy => HealthyParts

(* A number in a second is of that second.                                   *)
LEMMA SecondUnique ==
  ASSUME NEW a \in Int, NEW k \in Int, k * Q <= a, a < k * Q + Q
  PROVE  a \div Q = k
<1>1. Q \in Nat /\ Q > 1
  BY Constants
<1> DEFINE d == a \div Q
<1>2. d \in Int /\ d * Q <= a /\ a < d * Q + Q
  BY Division
<1> HIDE DEF d
<1>3. ASSUME NEW x \in Int, NEW y \in Int, x + 1 <= y PROVE x * Q + Q <= y * Q
  BY <1>1, <1>3, Z3
<1>4. k * Q \in Int /\ d * Q \in Int
  BY <1>1, <1>2
<1>5. ~(k + 1 <= d)
  BY <1>1, <1>2, <1>3, <1>4
<1>6. ~(d + 1 <= k)
  BY <1>1, <1>2, <1>3, <1>4
<1>7. d = k
  BY <1>2, <1>5, <1>6
<1> QED
  BY <1>7 DEF d

(* The true second at monotonic time n                                       *)
SecondAt(n) == (Boot * Q + n) \div Q

LEMMA Seconds ==
  ASSUME NEW n \in Nat
  PROVE  /\ SecondAt(n) \in Nat /\ SecondAt(n) * Q \in Nat
         /\ n % Q \in 0..(Q - 1)
         /\ Boot * Q + n = SecondAt(n) * Q + (n % Q)
<1>1. Q \in Nat /\ Q > 1 /\ Boot \in Nat /\ Boot * Q \in Nat
  BY Constants
<1> DEFINE m == n \div Q
           r == n % Q
<1>2. m \in Nat /\ r \in 0..(Q - 1) /\ n = m * Q + r
  <2>1. m \in Nat
    BY Division
  <2>2. r \in 0..(Q - 1)
    BY <1>1
  <2>3. n = m * Q + r
    BY <1>1
  <2> QED
    BY <2>1, <2>2, <2>3
<1> HIDE DEF m, r
<1>3. (Boot + m) * Q = Boot * Q + m * Q /\ m * Q \in Nat
  BY <1>1, <1>2, Z3
<1>4. Boot + m \in Nat /\ (Boot + m) * Q \in Nat
  BY <1>1, <1>2, <1>3
<1>5. (Boot * Q + n) \div Q = Boot + m
  BY <1>1, <1>2, <1>3, <1>4, SecondUnique
<1>6. SecondAt(n) = Boot + m
  BY <1>5 DEF SecondAt
<1> QED
  BY <1>1, <1>2, <1>3, <1>4, <1>6 DEF r

(* A tick stays in the second or begins the next one.                         *)
LEMMA NextSecond ==
  ASSUME NEW n \in Nat
  PROVE  /\ (n + 1) % Q # 0 => SecondAt(n + 1) = SecondAt(n) /\ (n + 1) % Q = (n % Q) + 1
         /\ (n + 1) % Q = 0 => /\ SecondAt(n + 1) = SecondAt(n) + 1
                               /\ SecondAt(n + 1) * Q = Boot * Q + n + 1
                               /\ n % Q = Q - 1
<1>1. Q \in Nat /\ Q > 1 /\ Boot * Q \in Nat
  BY Constants
<1> DEFINE T == SecondAt(n)
           U == SecondAt(n + 1)
           r == n % Q
           r1 == (n + 1) % Q
<1>2. /\ T \in Nat /\ T * Q \in Nat /\ r \in 0..(Q - 1) /\ Boot * Q + n = T * Q + r
      /\ U \in Nat /\ U * Q \in Nat /\ r1 \in 0..(Q - 1) /\ Boot * Q + n + 1 = U * Q + r1
  <2>1. T \in Nat /\ T * Q \in Nat /\ r \in 0..(Q - 1) /\ Boot * Q + n = T * Q + r
    BY Seconds
  <2>2. n + 1 \in Nat /\ Boot * Q + n + 1 = Boot * Q + (n + 1)
    BY <1>1
  <2>3. U \in Nat /\ U * Q \in Nat /\ r1 \in 0..(Q - 1) /\ Boot * Q + (n + 1) = U * Q + r1
    BY <2>2, Seconds
  <2> QED
    BY <2>1, <2>2, <2>3
<1> HIDE DEF T, U, r, r1
<1>3. (T + 1) * Q = T * Q + Q
  BY <1>1, <1>2, Z3
<1>5. CASE r < Q - 1
  <2>1. U = T
    <3>1. Boot * Q + n + 1 \in Int /\ T * Q <= Boot * Q + n + 1
          /\ Boot * Q + n + 1 < T * Q + Q /\ T \in Int
      BY <1>1, <1>2, <1>5
    <3>2. (Boot * Q + n + 1) \div Q = T
      BY <3>1, SecondUnique
    <3>3. U = (Boot * Q + (n + 1)) \div Q /\ Boot * Q + (n + 1) = Boot * Q + n + 1
      BY <1>1 DEF U, SecondAt
    <3> QED
      BY <3>2, <3>3
  <2>2. r1 = r + 1
    BY <1>1, <1>2, <2>1
  <2> QED
    BY <1>1, <1>2, <2>1, <2>2 DEF T, U, r, r1
<1>6. CASE r = Q - 1
  <2>1. U = T + 1
    <3>1. Boot * Q + n + 1 \in Int /\ (T + 1) * Q <= Boot * Q + n + 1
          /\ Boot * Q + n + 1 < (T + 1) * Q + Q /\ T + 1 \in Int
      BY <1>1, <1>2, <1>3, <1>6
    <3>2. (Boot * Q + n + 1) \div Q = T + 1
      BY <3>1, SecondUnique
    <3>3. U = (Boot * Q + (n + 1)) \div Q /\ Boot * Q + (n + 1) = Boot * Q + n + 1
      BY <1>1 DEF U, SecondAt
    <3> QED
      BY <3>2, <3>3
  <2>2. U * Q = Boot * Q + n + 1 /\ r1 = 0
    BY <1>1, <1>2, <1>3, <1>6, <2>1
  <2> QED
    BY <1>6, <2>1, <2>2 DEF T, U, r, r1
<1> QED
  BY <1>1, <1>2, <1>5, <1>6

(* The clock of a healthy daemon reads an edge's second to half a second.      *)
LEMMA HealthyReads ==
  ASSUME TypeOK, 2 * Abs(err) < Q, NEW e \in EdgeType, NEW k \in Int, EdgeOf(e, k)
  PROVE  /\ edge_realtime(e) \in Int /\ k * Q \in Int
         /\ 2 * Abs(k * Q - edge_realtime(e)) < Q
         /\ Boot * Q + e.mono = k * Q
<1>1. /\ Boot * Q \in Nat /\ Q \in Nat /\ Q > 1 /\ err \in Int
      /\ e.mono \in Nat /\ e.ts \in Int /\ k * Q \in Int
  BY Constants DEF TypeOK, EdgeType
<1>2. edge_realtime(e) \in Int
  BY <1>1 DEF edge_realtime
<1>3. e.mono + Boot * Q = k * Q
  BY DEF EdgeOf, EdgeWith
<1>4. CASE "realtime" \in faults
  <2>1. edge_realtime(e) = e.ts /\ 2 * Abs(e.ts - k * Q) < Q
    BY <1>4 DEF edge_realtime, EdgeOf, EdgeWith
  <2> QED
    BY <1>1, <1>2, <1>3, <2>1 DEF Abs
<1>5. CASE "realtime" \notin faults
  <2>1. edge_realtime(e) = e.mono + Boot * Q + err
    BY <1>5 DEF edge_realtime, EdgeOf, EdgeWith
  <2>2. edge_realtime(e) = k * Q + err
    BY <1>1, <1>3, <2>1
  <2> QED
    BY <1>1, <1>2, <1>3, <2>2 DEF Abs
<1> QED
  BY <1>4, <1>5

(* A sample of an edge named right passes the gate and is right.               *)
LEMMA HealthyEmit ==
  ASSUME TypeOK, 2 * Abs(err) < Q, NEW e \in EdgeType, NEW k \in Int, NEW n,
         EdgeOf(e, k), emit_sample(k, e, n)
  PROVE  /\ strike' = 0 /\ Abs(last_off'.off) <= Q
         /\ \A x \in sample' : x.S * Q = Boot * Q + x.edge
<1> DEFINE off == k * Q - edge_realtime(e)
<1>1. off \in Int /\ 2 * Abs(off) < Q /\ Boot * Q + e.mono = k * Q
  BY HealthyReads
<1>2. /\ last_off' = [off |-> off, mono |-> now]
      /\ ~(2 * Abs(off) > Q) => strike' = 0 /\ sample' = {[S |-> k, edge |-> e.mono]}
  BY Zenon DEF emit_sample, shm_write
<1> HIDE DEF off
<1>3. Q \in Nat
  BY Constants
<1>4. last_off'.off = off /\ strike' = 0 /\ sample' = {[S |-> k, edge |-> e.mono]}
  BY <1>1, <1>2, <1>3 DEF Abs
<1> QED
  BY <1>1, <1>3, <1>4 DEF Abs

(* The nearest second of the clock is the edge's own.                         *)
LEMMA NearestRight ==
  ASSUME TypeOK, 2 * Abs(err) < Q, NEW e \in EdgeType, NEW k \in Int, EdgeOf(e, k)
  PROVE  Nearest(edge_realtime(e)) = k
<1> DEFINE t == edge_realtime(e)
           h == Q \div 2
<1>1. t \in Int /\ k * Q \in Int /\ 2 * Abs(k * Q - t) < Q
  BY HealthyReads
<1>2. h \in Int /\ 2 * h = Q /\ Q \in Nat
  BY TodAssumption
<1> HIDE DEF t, h
<1>3. k * Q <= t + h /\ t + h < k * Q + Q /\ t + h \in Int
  BY <1>1, <1>2 DEF Abs
<1>4. (t + h) \div Q = k
  BY <1>3, SecondUnique
<1> QED
  BY <1>4 DEF Nearest, t, h

(* The numbers, and where in its second now is                                *)
LEMMA TruthFacts ==
  ASSUME TypeOK
  PROVE  /\ now \in Nat /\ TrueSecond = SecondAt(now) /\ TrueTime = Boot * Q + now
         /\ TrueSecond \in Nat /\ TrueSecond * Q \in Nat
         /\ TrueSecond * Q <= Boot * Q + now /\ Boot * Q + now < TrueSecond * Q + Q
         /\ Boot * Q + now = TrueSecond * Q + (now % Q) /\ now % Q \in 0..(Q - 1)
         /\ Q \in Nat /\ Q > 1 /\ Boot * Q \in Nat /\ Lag \in Nat /\ Lag < Q
         /\ events \in Seq(EdgeType) /\ pending \in Seq(EdgeType)
         /\ anchor.S \in Nat /\ edge_count \in Nat /\ said \in Nat /\ g.since \in Nat
         /\ err \in Int /\ anchor.mono \in Nat /\ FreshFor \in Nat
<1>1. now \in Nat /\ TypeNumbers /\ TypeRecords
  BY TypeParts, TruthType
<1>2. Q \in Nat /\ Q > 1 /\ Boot * Q \in Nat /\ Lag \in Nat /\ Lag < Q /\ FreshFor \in Nat
  BY Constants
<1>3. TrueSecond = SecondAt(now) /\ TrueTime = Boot * Q + now
  BY DEF TrueSecond, TrueTime, SecondAt
<1>4. /\ SecondAt(now) \in Nat /\ SecondAt(now) * Q \in Nat /\ now % Q \in 0..(Q - 1)
      /\ Boot * Q + now = SecondAt(now) * Q + (now % Q)
  BY <1>1, Seconds
<1>5. SecondAt(now) * Q <= Boot * Q + now /\ Boot * Q + now < SecondAt(now) * Q + Q
  BY <1>1, <1>2, <1>4
<1>6. /\ events \in Seq(EdgeType) /\ pending \in Seq(EdgeType)
      /\ anchor.S \in Nat /\ edge_count \in Nat /\ said \in Nat /\ g.since \in Nat
      /\ err \in Int /\ anchor.mono \in Nat
  BY <1>1 DEF TypeNumbers, TypeRecords
<1> QED
  BY <1>1, <1>2, <1>3, <1>4, <1>5, <1>6

(* All that is known of a healthy daemon                                     *)
HealthyState ==
    TypeOK /\ ClockInv /\ Healthy /\ HealthyParts

(* The same numbers                                                          *)
LEMMA HealthyFacts ==
  ASSUME HealthyState
  PROVE  /\ now \in Nat /\ TrueSecond = SecondAt(now) /\ TrueTime = Boot * Q + now
         /\ TrueSecond \in Nat /\ TrueSecond * Q \in Nat
         /\ TrueSecond * Q <= Boot * Q + now /\ Boot * Q + now < TrueSecond * Q + Q
         /\ Boot * Q + now = TrueSecond * Q + (now % Q) /\ now % Q \in 0..(Q - 1)
         /\ Q \in Nat /\ Q > 1 /\ Boot * Q \in Nat /\ Lag \in Nat /\ Lag < Q
         /\ events \in Seq(EdgeType) /\ pending \in Seq(EdgeType)
         /\ anchor.S \in Nat /\ edge_count \in Nat /\ said \in Nat /\ g.since \in Nat
         /\ err \in Int /\ anchor.mono \in Nat /\ FreshFor \in Nat
         /\ KeptInv /\ EdgesInv /\ SerialInv /\ WaitingInv /\ MisledInv
         /\ CountInv /\ SaidInv
         /\ anchor.seq \in Nat /\ s.S \in Nat /\ s.since \in Nat /\ 3 * Q <= FreshFor
         /\ NextEdge \in {TrueSecond, TrueSecond + 1}
<1>1. TypeOK
  BY DEF HealthyState
<1>2. 3 * Q <= FreshFor
  BY TodAssumption
<1>3. anchor.seq \in Nat /\ s.S \in Nat /\ s.since \in Nat
  BY <1>1 DEF TypeOK
<1> QED
  BY <1>1, <1>2, <1>3, TruthFacts DEF HealthyState, HealthyParts, NextEdge

(* A sequence of one edge                                                     *)
LEMMA OneOfSeq ==
  ASSUME NEW q \in Seq(EdgeType), q # <<>>, Len(q) <= 1
  PROVE  Len(q) = 1 /\ Head(q) = q[1] /\ Tail(q) = <<>>
<1>1. Len(q) \in Nat \ {0}
  BY EmptySeq
<1>2. Len(q) = 1
  BY <1>1
<1>3. Tail(q) \in Seq(EdgeType) /\ Len(Tail(q)) = 0 /\ Head(q) = q[1]
  BY <1>2, HeadTailProperties
<1>4. Tail(q) = <<>>
  BY <1>3, EmptySeq
<1> QED
  BY <1>2, <1>3, <1>4

(* The edge that is read next, if it has come                                *)
LEMMA WaitingEdge ==
  ASSUME HealthyState, events # <<>>
  PROVE  /\ Head(events) \in EdgeType /\ EdgeOf(Head(events), TrueSecond)
         /\ Tail(events) = <<>> /\ Len(events) = 1 /\ Head(events).mono \in Nat
         /\ g.pc # "poll" => g.since <= Head(events).mono
<1>1. events \in Seq(EdgeType) /\ Len(events) <= 1
  BY HealthyFacts DEF EdgesInv
<1>2. Len(events) = 1 /\ Head(events) = events[1] /\ Tail(events) = <<>>
  BY <1>1, OneOfSeq
<1>3. Head(events) \in EdgeType
  BY <1>1, HeadTypes
<1>4. EdgeOf(Head(events), TrueSecond)
  BY <1>2, HealthyFacts DEF EdgesInv
<1>5. g.pc # "poll" => g.since <= Head(events).mono
  BY <1>2 DEF HealthyState, ClockInv, QueueInv
<1> QED
  BY <1>1, <1>2, <1>3, <1>4, <1>5, HeadTypes

(* It is read before the next one comes.                                      *)
LEMMA EdgeInTime ==
  ASSUME HealthyState, Tick, (now + 1) % Q = 0
  PROVE  events = <<>>
<1> SUFFICES ASSUME events # <<>> PROVE FALSE
  OBVIOUS
<1>1. /\ now \in Nat /\ Q \in Nat /\ Q > 1 /\ Lag \in Nat /\ Lag < Q /\ Boot * Q \in Nat
      /\ g.since \in Nat /\ TrueSecond * Q \in Nat
      /\ Boot * Q + now = TrueSecond * Q + (now % Q)
  BY HealthyFacts
<1>2. now % Q = Q - 1
  BY <1>1, NextSecond
<1>3. Head(events).mono \in Nat /\ (g.pc # "poll" => g.since <= Head(events).mono)
  BY WaitingEdge
<1>4. Head(events).mono + Boot * Q = TrueSecond * Q
  BY WaitingEdge DEF EdgeOf, EdgeWith
<1>5. WorkSince <= Head(events).mono /\ WorkSince \in Nat
  BY <1>1, <1>3 DEF WorkSince
<1>6. GpioWorks /\ ~Stuck
  BY HealthyFacts DEF GpioWorks, Stuck, EdgesInv
<1>7. now - WorkSince < Lag
  BY <1>6 DEF Tick, Scheduled
<1>8. now = Head(events).mono + (Q - 1)
  <2> DEFINE B == Boot * Q
             T == TrueSecond * Q
  <2>1. B \in Nat /\ T \in Nat /\ B + now = T + (Q - 1) /\ Head(events).mono + B = T
    BY <1>1, <1>2, <1>4
  <2> HIDE DEF B, T
  <2> QED
    BY <1>1, <1>3, <2>1
<1>9. ASSUME NEW n \in Nat, NEW h \in Nat, NEW w \in Nat, w <= h, n = h + (Q - 1), n - w < Lag
      PROVE  FALSE
  BY <1>9, Constants
<1> QED
  BY <1>1, <1>3, <1>5, <1>7, <1>8, <1>9

(* Products with a second                                                    *)
LEMMA Products ==
  ASSUME NEW x \in Int, NEW y \in Int
  PROVE  /\ x * Q \in Int /\ (x + 1) * Q = x * Q + Q /\ (x - 1) * Q = x * Q - Q
         /\ x + 1 <= y => x * Q + Q <= y * Q
         /\ x <= y => x * Q <= y * Q
         /\ x * Q < y * Q + Q => x <= y
         /\ x * Q < y * Q => x + 1 <= y
<1>1. Q \in Nat /\ Q > 1
  BY Constants
<1>2. x * Q \in Int /\ y * Q \in Int /\ (x + 1) * Q = x * Q + Q /\ (x - 1) * Q = x * Q - Q
  BY <1>1, Z3
<1>3. ASSUME NEW a \in Int, NEW b \in Int, a + 1 <= b PROVE a * Q + Q <= b * Q
  BY <1>1, <1>3, Z3
<1>4. x + 1 <= y => x * Q + Q <= y * Q
  BY <1>3
<1>5. y + 1 <= x => y * Q + Q <= x * Q
  BY <1>3
<1>6. x = y => x * Q = y * Q
  OBVIOUS
<1> QED
  BY <1>1, <1>2, <1>4, <1>5, <1>6

(* The gpio thread names the edge it reads right.                             *)
LEMMA EdgeNamed ==
  ASSUME HealthyState, TakeEdge, Fresh
  PROVE  EdgeSecond(edge_realtime(Head(events))) = TrueSecond
<1>1. events # <<>> /\ s.pc # "emit" /\ anchor.valid
  BY DEF TakeEdge, HealthyState, ClockInv, LagInv, Fresh
<1>2. NextEdge = TrueSecond
  BY <1>1 DEF NextEdge
<1>3. /\ TrueSecond \in Nat /\ anchor.S \in Nat /\ edge_count \in Nat /\ said \in Nat
      /\ CountInv /\ SaidInv
  BY HealthyFacts
<1>4. Chain \in Nat /\ Chain = anchor.S + 1 + edge_count
  BY <1>3 DEF Chain
<1>5. Abs(TrueSecond - Chain) <= 1
  <2>1. CASE "lost_edge" \notin faults
    <3>1. Chain \in {TrueSecond - 1, TrueSecond, TrueSecond + 1}
      BY <1>1, <1>2, <1>3, <2>1 DEF CountInv
    <3> QED
      BY <1>3, <3>1 DEF Abs
  <2>2. CASE "lost_edge" \in faults
    <3>1. anchor.S \in {TrueSecond - 1, TrueSecond} /\ Chain <= TrueSecond + 1
      BY <1>1, <1>2, <1>3, <2>2 DEF SaidInv
    <3> QED
      BY <1>3, <1>4, <3>1 DEF Abs
  <2> QED
    BY <2>1, <2>2
<1>6. Nearest(edge_realtime(Head(events))) = TrueSecond
  BY <1>1, <1>3, HealthyFacts, WaitingEdge, NearestRight DEF HealthyState, KeptInv
<1> QED
  BY <1>5, <1>6 DEF EdgeSecond

(* A stamp of the other clock is far ahead of any monotonic time.              *)
LEMMA RealtimeAhead ==
  ASSUME NEW n \in Nat, n <= MaxNow, NEW k \in Nat, NEW m \in Nat, NEW ts \in Int,
         m + Boot * Q = k * Q, 2 * Abs(ts - k * Q) < Q
  PROVE  ts > n
<1> DEFINE B == Boot * Q
           K == k * Q
<1>1. Q \in Nat /\ Q > 1 /\ B \in Nat /\ MaxNow \in Nat
  BY Constants
<1>2. B > MaxNow + Q /\ K \in Int
  BY TodAssumption
<1>3. m + B = K /\ 2 * Abs(ts - K) < Q
  OBVIOUS
<1> HIDE DEF B, K
<1> QED
  BY <1>1, <1>2, <1>3 DEF Abs

(* When a sentence is handled, its second has begun, and less than Lag of the   *)
(* next one has passed.                                                       *)
LEMMA HandledIn ==
  ASSUME HealthyState, Sentence
  PROVE  /\ s.S * Q < Boot * Q + now /\ Boot * Q + now < s.S * Q + Q + Lag
         /\ s.S * Q \in Nat
         /\ TrueSecond \in {s.S, s.S + 1}
         /\ anchor.S <= s.S
         /\ "late_serial" \notin faults => TrueSecond = s.S
<1>1. /\ now \in Nat /\ s.since \in Nat /\ s.S \in Nat /\ Q \in Nat /\ Lag \in Nat /\ Lag < Q
      /\ Boot * Q \in Nat /\ TrueSecond \in Nat /\ SerialInv
      /\ TrueSecond * Q <= Boot * Q + now /\ Boot * Q + now < TrueSecond * Q + Q
  BY HealthyFacts
<1>2. s.pc = "lock" /\ mutex = "free"
  BY DEF Sentence
<1>3. now <= s.since + Lag /\ s.since <= now
  BY <1>2 DEF HealthyState, ClockInv, LagInv, PastInv, Stuck
<1>4. Boot * Q + s.since < s.S * Q + Q
  BY <1>2 DEF HealthyState, Healthy, ClockInv, SecondInv
<1>5. s.S * Q < Boot * Q + s.since /\ anchor.S <= s.S
  BY <1>1, <1>2 DEF SerialInv
<1>6. "late_serial" \notin faults => s.since = now
  BY <1>1, <1>2 DEF SerialInv
<1>7. /\ s.S * Q \in Nat /\ TrueSecond * Q \in Int /\ (s.S + 1) * Q = s.S * Q + Q
      /\ s.S * Q < TrueSecond * Q + Q => s.S <= TrueSecond
      /\ TrueSecond * Q < (s.S + 1) * Q + Q => TrueSecond <= s.S + 1
      /\ TrueSecond * Q < s.S * Q + Q => TrueSecond <= s.S
  <2>1. s.S * Q \in Nat
    BY <1>1
  <2> QED
    BY <1>1, <2>1, Products
<1> DEFINE B == Boot * Q
           D == s.S * Q
           T == TrueSecond * Q
<1>8. D < B + now /\ B + now < D + Q + Lag
  <2> HIDE DEF B, D, T
  <2> QED
    BY <1>1, <1>3, <1>4, <1>5, <1>7 DEF B, D
<1>9. s.S <= TrueSecond /\ TrueSecond <= s.S + 1
  <2>1. B \in Nat /\ D \in Nat /\ T \in Int /\ T <= B + now /\ B + now < T + Q
    BY <1>1, <1>7
  <2>2. D < T + Q /\ T < D + Q + Q
    <3> HIDE DEF B, D, T
    <3> QED
      BY <1>1, <1>8, <2>1
  <2> QED
    BY <1>7, <2>2
<1>10. "late_serial" \notin faults => TrueSecond <= s.S
  BY <1>1, <1>4, <1>6, <1>7
<1> QED
  BY <1>1, <1>5, <1>7, <1>8, <1>9, <1>10

(* A pending edge that a sentence takes began the second of the sentence, or    *)
(* the next one, if the serial thread was late.                                *)
LEMMA PairedRight ==
  ASSUME HealthyState, Sentence, NEW e \in Paired
  PROVE  /\ e \in EdgeType /\ pending # <<>>
         /\ EdgeOf(e, s.S) \/ EdgeOf(e, s.S + 1)
         /\ ~EdgeOf(e, s.S) =>
              /\ "late_serial" \in faults /\ TrueSecond = s.S + 1 /\ NextEdge = s.S + 2
<1>1. /\ now \in Nat /\ now <= MaxNow /\ pending \in Seq(EdgeType) /\ s.S \in Nat
      /\ Q \in Nat /\ Lag \in Nat /\ Lag < Q /\ Boot * Q \in Nat /\ TrueSecond \in Nat
      /\ NextEdge \in {TrueSecond, TrueSecond + 1} /\ EdgesInv
  <2>1. now \in Start..MaxNow /\ {Start, MaxNow} \subseteq Nat
    BY TodAssumption DEF HealthyState, TypeOK
  <2>2. now <= MaxNow
    BY <2>1
  <2> QED
    BY <2>2, HealthyFacts
<1>2. PICK i \in 1..Len(pending) : e = pending[i] /\ e.ts <= now /\ now - e.ts <= Q
  BY DEF Paired
<1>3. PICK k \in Nat : EdgeOf(e, k) /\ k < NextEdge
  BY <1>1, <1>2 DEF EdgesInv
<1>4. e \in EdgeType /\ e.mono \in Nat /\ e.ts \in Int /\ pending # <<>>
  <2>1. e \in EdgeType /\ pending # <<>>
    BY <1>1, <1>2, ElementOfSeq
  <2> QED
    BY <2>1 DEF EdgeType
<1>5. e.mono + Boot * Q = k * Q
  BY <1>3 DEF EdgeOf, EdgeWith
<1>6. "realtime" \notin faults
  <2> SUFFICES ASSUME "realtime" \in faults PROVE FALSE
    OBVIOUS
  <2>1. 2 * Abs(e.ts - k * Q) < Q
    BY <1>3 DEF EdgeOf, EdgeWith
  <2>2. e.ts > now
    BY <1>1, <1>4, <1>5, <2>1, RealtimeAhead
  <2> QED
    BY <1>1, <1>2, <1>4, <2>2
<1>7. e.ts = e.mono
  BY <1>3, <1>6 DEF EdgeOf, EdgeWith
<1>8. k = s.S \/ k = s.S + 1
  <2>1. /\ s.S * Q < Boot * Q + now /\ Boot * Q + now < s.S * Q + Q + Lag /\ s.S * Q \in Nat
    BY HandledIn
  <2>2. /\ k * Q \in Int /\ (s.S + 1) * Q = s.S * Q + Q
        /\ k * Q < (s.S + 1) * Q + Q => k <= s.S + 1
        /\ s.S * Q < k * Q + Q => s.S <= k
    BY <1>1, Products
  <2> DEFINE B == Boot * Q
             D == s.S * Q
             K == k * Q
  <2>3. K < D + Q + Q /\ D < K + Q
    <3>1. /\ B \in Nat /\ D \in Nat /\ K \in Int /\ e.mono + B = K
          /\ D < B + now /\ B + now < D + Q + Lag
      BY <1>1, <1>5, <2>1, <2>2
    <3> HIDE DEF B, D, K
    <3> QED
      BY <1>1, <1>2, <1>4, <1>7, <3>1
  <2> HIDE DEF B, D, K
  <2>4. k <= s.S + 1 /\ s.S <= k /\ s.S \in Nat /\ k \in Nat
    <3>1. (s.S + 1) * Q = D + Q
      BY <2>2 DEF D
    <3> QED
      BY <1>1, <2>2, <2>3, <3>1 DEF K, D
  <2> QED
    BY <2>4
<1>9. k = s.S + 1 => /\ TrueSecond = s.S + 1 /\ NextEdge = s.S + 2
                     /\ "late_serial" \in faults
  <2>1. /\ TrueSecond \in {s.S, s.S + 1}
        /\ "late_serial" \notin faults => TrueSecond = s.S
    BY HandledIn
  <2>2. /\ s.S \in Nat /\ k < NextEdge /\ NextEdge \in {TrueSecond, TrueSecond + 1}
        /\ TrueSecond \in Nat
    BY <1>1, <1>3
  <2>3. CASE TrueSecond = s.S
    BY <2>2, <2>3
  <2>4. CASE TrueSecond = s.S + 1
    BY <2>1, <2>2, <2>4
  <2> QED
    BY <2>1, <2>3, <2>4
<1> QED
  BY <1>3, <1>4, <1>8, <1>9

(* The steps that touch neither the edges, the anchor nor the second           *)
LEMMA StillStep ==
  ASSUME HealthyState,
         UNCHANGED <<now, faults, phase, said, events, mutex, anchor, edge_count, pending, s>>
  PROVE  /\ EdgesInv' /\ SerialInv' /\ CountInv' /\ SaidInv'
         /\ NextEdge' = NextEdge /\ (Fresh' <=> Fresh)
<1>1. TrueSecond' = TrueSecond /\ NextEdge' = NextEdge /\ Chain' = Chain /\ (Fresh' <=> Fresh)
  BY DEF TrueSecond, TrueTime, NextEdge, Chain, Fresh
<1>2. EdgesInv /\ SerialInv /\ CountInv /\ SaidInv
  BY HealthyFacts
<1>3. EdgesInv'
  BY <1>1, <1>2 DEF EdgesInv, EdgeOf
<1>4. SerialInv'
  BY <1>2 DEF SerialInv
<1>5. CountInv'
  BY <1>1, <1>2 DEF CountInv
<1>6. SaidInv'
  BY <1>1, <1>2 DEF SaidInv
<1> QED
  BY <1>1, <1>3, <1>4, <1>5, <1>6

(* The steps that touch neither the clock, the samples, nor where the gpio      *)
(* thread is                                                                  *)
LEMMA KeptStill ==
  ASSUME KeptInv, UNCHANGED <<err, steps, sample>>, ~Stepping'
  PROVE  KeptInv'
  BY DEF KeptInv, SecondsAgree

LEMMA MisledStill ==
  ASSUME UNCHANGED <<faults, anchor, last_off, strike, s>>
  PROVE  Misled' <=> Misled
  BY DEF Misled, Sound, EdgeOf

(* A step of the gpio thread that reads no edge                               *)
LEMMA LoopKept ==
  ASSUME HealthyState,
         UNCHANGED <<now, faults, phase, said, events, mutex, anchor, edge_count, pending, s,
                     err, last_off, strike, steps, sample>>,
         ~Stepping',
         pending # <<>> /\ g'.pc = "decide" => ~g'.fresh,
         Misled /\ g'.pc = "decide" /\ g'.fresh => g'.seq <= 2,
         "lost_edge" \notin faults /\ (pending # <<>> \/ Misled) /\ g'.pc # "poll" =>
           Boot * Q + g'.since <= (NextEdge - 1) * Q,
         "lost_edge" \notin faults /\ g'.pc = "poll" =>
           (NextEdge - 1) * Q <= Boot * Q + g'.since
  PROVE  HealthyParts'
<1>1. EdgesInv' /\ SerialInv' /\ CountInv' /\ SaidInv' /\ NextEdge' = NextEdge /\ (Fresh' <=> Fresh)
  BY StillStep
<1>2. KeptInv'
  BY HealthyFacts, KeptStill
<1>3. WaitingInv /\ MisledInv
  BY HealthyFacts
<1>4. WaitingInv'
  BY <1>1, <1>3 DEF WaitingInv
<1>5. Misled' <=> Misled
  BY MisledStill
<1>6. MisledInv'
  BY <1>1, <1>3, <1>5 DEF MisledInv
<1> QED
  BY <1>1, <1>2, <1>4, <1>6 DEF HealthyParts

(* The anchor is looked at: it is not fresh, or, if the clock seems to be off,   *)
(* of the first or second sentence in a row.                                   *)
LEMMA CheckKept ==
  ASSUME HealthyState, CheckAnchor
  PROVE  HealthyParts'
<1>1. /\ UNCHANGED <<now, faults, phase, said, events, mutex, anchor, edge_count, pending, s,
                     err, last_off, strike, steps, sample>>
      /\ g.pc = "check" /\ mutex = "free"
      /\ g'.pc = "decide" /\ g'.since = g.since /\ g'.fresh = Fresh /\ g'.seq = anchor.seq
  BY DEF CheckAnchor, reference, pairing, gate, stepping, HealthyState, TypeOK
<1>2. WaitingInv /\ MisledInv
  BY HealthyFacts
<1>3. ASSUME Misled PROVE anchor.seq <= 2
  <2>1. /\ anchor.seq <= anchor.S + 3 - NextEdge
        /\ Boot * Q + g.since <= (NextEdge - 1) * Q /\ anchor.valid
    BY <1>1, <1>2, <1>3 DEF MisledInv
  <2>2. now <= g.since + Lag
    BY <1>1 DEF HealthyState, ClockInv, LagInv, GpioWorks, WorkSince, Stuck
  <2>3. anchor.S * Q <= Boot * Q + anchor.mono /\ anchor.mono <= now
    BY <2>1 DEF HealthyState, Healthy, ClockInv, SecondInv, PastInv
  <2>4. /\ now \in Nat /\ g.since \in Nat /\ anchor.mono \in Nat /\ Boot * Q \in Nat
        /\ Q \in Nat /\ Lag \in Nat /\ Lag < Q
        /\ anchor.S \in Nat /\ anchor.seq \in Nat /\ NextEdge \in Nat
    <3>1. NextEdge \in {TrueSecond, TrueSecond + 1} /\ TrueSecond \in Nat
      BY HealthyFacts
    <3>2. NextEdge \in Nat
      BY <3>1
    <3> QED
      BY <3>2, HealthyFacts
  <2>5. /\ anchor.S * Q \in Int /\ (NextEdge - 1) * Q \in Int
        /\ anchor.S * Q < (NextEdge - 1) * Q + Q => anchor.S <= NextEdge - 1
    BY <2>4, Products
  <2> DEFINE B == Boot * Q
             A == anchor.S * Q
             N == (NextEdge - 1) * Q
  <2>6. A < N + Q
    <3>1. A \in Int /\ N \in Int /\ B \in Nat /\ B + g.since <= N /\ A <= B + anchor.mono
      BY <2>1, <2>3, <2>4, <2>5
    <3> HIDE DEF A, N, B
    <3> QED
      BY <2>2, <2>3, <2>4, <3>1
  <2> QED
    BY <2>1, <2>4, <2>5, <2>6
<1>4. pending # <<>> => ~g'.fresh
  BY <1>1, <1>2 DEF WaitingInv
<1>5. "lost_edge" \notin faults /\ (pending # <<>> \/ Misled) =>
        Boot * Q + g'.since <= (NextEdge - 1) * Q
  BY <1>1, <1>2 DEF WaitingInv, MisledInv
<1> QED
  BY <1>1, <1>3, <1>4, <1>5, LoopKept DEF Stepping

(* A step is never due.                                                      *)
LEMMA DecideKept ==
  ASSUME HealthyState, Decide
  PROVE  HealthyParts'
<1>1. WaitingInv /\ MisledInv /\ TypeOK
  BY HealthyFacts DEF HealthyState
<1>2. g.pc = "decide"
  BY DEF Decide
<1>3. ~Due
  <2>1. CASE Sound
    <3>1. /\ Q \in Nat /\ StrikeMax \in Nat /\ 0 < StrikeMax /\ last_off.off \in Int
          /\ Abs(last_off.off) <= Q /\ strike = 0
      BY <1>1, <2>1, TodAssumption DEF Sound, TypeOK
    <3> QED
      BY <3>1 DEF Due, Abs
  <2>2. CASE ~Sound
    <3>1. g.fresh => g.seq <= 2
      BY <1>1, <1>2, <2>2 DEF Misled, MisledInv
    <3>2. g.seq \in Nat
      BY <1>1 DEF TypeOK
    <3> QED
      BY <3>1, <3>2 DEF Due
  <2> QED
    BY <2>1, <2>2
<1>4. /\ UNCHANGED <<now, faults, phase, said, events, mutex, anchor, edge_count, pending, s,
                     err, last_off, strike, steps, sample>>
      /\ g'.pc = "status" /\ g'.since = g.since
  BY <1>1, <1>3 DEF Decide, reference, pairing, gate, TypeOK
<1>5. "lost_edge" \notin faults /\ (pending # <<>> \/ Misled) =>
        Boot * Q + g'.since <= (NextEdge - 1) * Q
  BY <1>1, <1>2, <1>4 DEF WaitingInv, MisledInv
<1> QED
  BY <1>4, <1>5, LoopKept DEF Stepping

(* The loop goes back to poll.                                               *)
LEMMA StatusKept ==
  ASSUME HealthyState, Status
  PROVE  HealthyParts'
<1>1. /\ UNCHANGED <<now, faults, phase, said, events, mutex, anchor, edge_count, pending, s,
                     err, last_off, strike, steps, sample>>
      /\ g'.pc = "poll" /\ g'.since = now
  BY DEF Status, reference, pairing, gate, stepping, HealthyState, TypeOK
<1>2. (NextEdge - 1) * Q <= Boot * Q + now
  <2>1. /\ NextEdge \in {TrueSecond, TrueSecond + 1} /\ TrueSecond \in Nat /\ now \in Nat
        /\ TrueSecond * Q <= Boot * Q + now /\ Boot * Q \in Nat /\ TrueSecond * Q \in Nat
    BY HealthyFacts
  <2> DEFINE x == NextEdge - 1
  <2>2. x \in Int /\ x <= TrueSecond
    BY <2>1
  <2> HIDE DEF x
  <2>5. TrueSecond \in Int
    BY <2>1
  <2>3. x * Q \in Int /\ x * Q <= TrueSecond * Q
    BY <2>2, <2>5, Products
  <2>4. x * Q <= Boot * Q + now
    <3> DEFINE X == x * Q
               T == TrueSecond * Q
               B == Boot * Q
    <3>1. X \in Int /\ X <= T /\ T \in Nat /\ B \in Nat /\ T <= B + now
      BY <2>1, <2>3
    <3> HIDE DEF X, T, B
    <3>2. X <= B + now
      BY <2>1, <3>1
    <3> QED
      BY <3>2 DEF X, B
  <2> QED
    BY <2>4 DEF x
<1> QED
  BY <1>1, <1>2, LoopKept DEF Stepping

(* poll gives up only if an edge was lost.                                    *)
LEMMA TimeoutKept ==
  ASSUME HealthyState, PollTimeout
  PROVE  HealthyParts'
<1>1. /\ UNCHANGED <<now, faults, phase, said, events, mutex, anchor, edge_count, pending, s,
                     err, last_off, strike, steps, sample>>
      /\ g.pc = "poll" /\ g'.pc = "check" /\ events = <<>> /\ now - g.since >= Q
  BY DEF PollTimeout, reference, pairing, gate, stepping, HealthyState, TypeOK
<1>2. "lost_edge" \in faults
  <2> SUFFICES ASSUME "lost_edge" \notin faults PROVE FALSE
    OBVIOUS
  <2>1. NextEdge = TrueSecond + 1
    BY <1>1 DEF NextEdge
  <2>2. /\ now \in Nat /\ g.since \in Nat /\ Q \in Nat /\ Boot * Q \in Nat /\ WaitingInv
        /\ TrueSecond \in Nat /\ TrueSecond * Q \in Nat /\ Boot * Q + now < TrueSecond * Q + Q
    BY HealthyFacts
  <2>3. NextEdge - 1 = TrueSecond
    BY <2>1, <2>2
  <2>4. TrueSecond * Q <= Boot * Q + g.since
    BY <1>1, <2>2, <2>3 DEF WaitingInv
  <2> QED
    BY <1>1, <2>2, <2>4
<1>3. ~Misled
  BY <1>2, HealthyFacts DEF MisledInv
<1> QED
  BY <1>1, <1>2, <1>3, LoopKept DEF Stepping

(* chronyd sets the clock by a sample.                                        *)
LEMMA DisciplineKept ==
  ASSUME HealthyState, Discipline
  PROVE  HealthyParts'
<1>1. /\ UNCHANGED <<now, faults, phase, said, events, mutex, anchor, edge_count, pending, s,
                     last_off, strike, steps, g>>
      /\ sample' = {}
  BY DEF Discipline, reference, pairing, stepping
<1>2. KeptInv /\ WaitingInv /\ MisledInv
  BY HealthyFacts
<1>3. err' = 0
  <2>1. PICK x \in sample : err' = x.S * Q - (Boot * Q + x.edge)
    BY DEF Discipline
  <2>2. x.S * Q = Boot * Q + x.edge
    BY <1>2 DEF KeptInv, SecondsAgree
  <2>3. Boot * Q \in Nat /\ x.edge \in Nat
    BY Constants DEF HealthyState, TypeOK
  <2> DEFINE y == Boot * Q + x.edge
  <2>4. y \in Nat /\ err' = y - y
    BY <2>1, <2>2, <2>3
  <2> HIDE DEF y
  <2> QED
    BY <2>4
<1>4. KeptInv'
  BY <1>1, <1>2, <1>3, Constants DEF KeptInv, SecondsAgree, Stepping, Abs
<1>5. EdgesInv' /\ SerialInv' /\ CountInv' /\ SaidInv' /\ NextEdge' = NextEdge /\ (Fresh' <=> Fresh)
  BY <1>1, StillStep
<1>6. Misled' <=> Misled
  BY <1>1, MisledStill
<1>7. WaitingInv' /\ MisledInv'
  BY <1>1, <1>2, <1>5, <1>6 DEF WaitingInv, MisledInv
<1> QED
  BY <1>4, <1>5, <1>7 DEF HealthyParts

(* A sample of an edge named right keeps the clock, and is sound.              *)
LEMMA KeptEmit ==
  ASSUME HealthyState, NEW e \in EdgeType, NEW k \in Int, NEW n, EdgeOf(e, k),
         emit_sample(k, e, n), UNCHANGED <<err, steps>>, ~Stepping'
  PROVE  KeptInv' /\ Sound'
<1>1. TypeOK /\ 2 * Abs(err) < Q /\ steps = {}
  BY HealthyFacts DEF HealthyState, KeptInv
<1>2. /\ strike' = 0 /\ Abs(last_off'.off) <= Q
      /\ \A x \in sample' : x.S * Q = Boot * Q + x.edge
  BY <1>1, HealthyEmit
<1> QED
  BY <1>1, <1>2 DEF KeptInv, SecondsAgree, Sound

(* One of an edge that is a second late is kept from chronyd.                  *)
LEMMA KeptGated ==
  ASSUME HealthyState, NEW e \in EdgeType, NEW k \in Nat, NEW n, EdgeOf(e, k + 1),
         emit_sample(k, e, n), UNCHANGED <<err, steps>>, ~Stepping'
  PROVE  KeptInv'
<1>1. TypeOK /\ KeptInv /\ 2 * Abs(err) < Q
  BY HealthyFacts DEF HealthyState, KeptInv
<1> DEFINE t == edge_realtime(e)
           K == k * Q
           off == K - t
<1>2. t \in Int /\ (k + 1) * Q \in Int /\ 2 * Abs((k + 1) * Q - t) < Q
  BY <1>1, HealthyReads
<1>3. (k + 1) * Q = K + Q /\ K \in Int /\ Q \in Nat
  BY Products, Constants
<1>4. 2 * Abs(K + Q - t) < Q
  BY <1>2, <1>3
<1>5. 2 * Abs(off) > Q
  <2> HIDE DEF t, K
  <2> QED
    BY <1>2, <1>3, <1>4 DEF Abs
<1>6. sample' = sample
  BY <1>5 DEF emit_sample
<1> QED
  BY <1>1, <1>6, KeptStill

(* The gpio thread reads an edge.                                            *)
LEMMA EdgeKept ==
  ASSUME HealthyState, EdgeTod
  PROVE  HealthyParts'
<1>1. /\ TakeEdge /\ events # <<>> /\ mutex = "free" /\ mutex' = mutex
      /\ events' = Tail(events) /\ g.pc = "poll" /\ g'.pc = "check" /\ g'.since = WorkSince
      /\ UNCHANGED <<now, err, phase, said, faults, anchor, steps, s>>
  BY DEF EdgeTod, TakeEdge, reference, stepping, HealthyState, TypeOK
<1>2. s.pc # "emit" /\ ~Stepping'
  BY <1>1 DEF HealthyState, ClockInv, LagInv, Stepping
<1>3. /\ Head(events) \in EdgeType /\ EdgeOf(Head(events), TrueSecond) /\ events' = <<>>
      /\ Head(events).mono \in Nat
  BY <1>1, WaitingEdge
<1>4. /\ TrueSecond \in Nat /\ anchor.S \in Nat /\ edge_count \in Nat
      /\ pending \in Seq(EdgeType) /\ EdgesInv /\ SerialInv /\ WaitingInv /\ MisledInv
      /\ KeptInv /\ CountInv /\ SaidInv
  BY HealthyFacts
<1>5. /\ TrueSecond' = TrueSecond /\ (Fresh' <=> Fresh)
      /\ NextEdge = TrueSecond /\ NextEdge' = TrueSecond + 1
  BY <1>1, <1>3 DEF TrueSecond, TrueTime, NextEdge, Fresh
<1>6. /\ Fresh => /\ emit_sample(TrueSecond, Head(events), strike)
                  /\ edge_count' = edge_count + 1 /\ pending' = pending
      /\ ~Fresh => /\ pending' \in {pending, Append(pending, Head(events))}
                   /\ edge_count' = edge_count /\ UNCHANGED gate
  BY <1>1, EdgeNamed DEF EdgeTod
<1>a. /\ Chain \in Nat /\ Chain' \in {Chain, Chain + 1}
      /\ Fresh => Chain' = Chain + 1
  <2>1. edge_count' \in {edge_count, edge_count + 1} /\ (Fresh => edge_count' = edge_count + 1)
    BY <1>6, Zenon
  <2>2. Chain = anchor.S + 1 + edge_count /\ Chain' = anchor.S + 1 + edge_count'
    BY <1>1 DEF Chain
  <2> QED
    BY <1>4, <2>1, <2>2
<1>7. KeptInv' /\ (Fresh => Sound')
  <2>1. CASE Fresh
    BY <1>1, <1>2, <1>3, <1>4, <1>6, <2>1, KeptEmit
  <2>2. CASE ~Fresh
    BY <1>1, <1>2, <1>4, <1>6, <2>2, KeptStill DEF gate
  <2> QED
    BY <2>1, <2>2
<1>8. EdgesInv'
  <2>1. ASSUME NEW i \in 1..Len(pending')
        PROVE  \E k \in Nat : EdgeOf(pending'[i], k) /\ k < NextEdge'
    <3>1. \A j \in 1..Len(pending) : \E k \in Nat : EdgeOf(pending[j], k) /\ k < NextEdge'
      BY <1>4, <1>5 DEF EdgesInv
    <3>2. EdgeOf(Head(events), TrueSecond) /\ TrueSecond < NextEdge'
      BY <1>3, <1>4, <1>5
    <3>3. CASE pending' = pending
      BY <2>1, <3>1, <3>3
    <3>4. CASE pending' = Append(pending, Head(events))
      <4>1. \/ i \in 1..Len(pending) /\ pending'[i] = pending[i]
            \/ pending'[i] = Head(events)
        BY <1>3, <1>4, <2>1, <3>4, AppendProperties
      <4> QED
        BY <1>4, <3>1, <3>2, <4>1
    <3> QED
      BY <1>6, <3>3, <3>4
  <2>2. \A i \in 1..Len(pending') : \E k \in Nat : EdgeOf(pending[i], k)' /\ k < NextEdge'
    BY <1>1, <2>1 DEF EdgeOf
  <2>3. \A i \in 1..Len(events') : EdgeOf(events[i], TrueSecond)'
    BY <1>3
  <2> QED
    BY <1>1, <1>2, <1>4, <1>3, <2>2, <2>3 DEF EdgesInv
<1>9. SerialInv'
  BY <1>1, <1>4 DEF SerialInv
<1>10. WaitingInv'
  <2>1. pending' # <<>> => ~Fresh'
    BY <1>4, <1>5, <1>6 DEF WaitingInv
  <2>2. Boot * Q + g'.since <= (NextEdge' - 1) * Q
    <3>1. WorkSince <= Head(events).mono /\ WorkSince \in Nat
      BY <1>1, WorkSincePast DEF HealthyState, ClockInv
    <3>2. Head(events).mono + Boot * Q = TrueSecond * Q
      BY <1>3 DEF EdgeOf, EdgeWith
    <3>3. NextEdge' - 1 = TrueSecond
      BY <1>4, <1>5
    <3> QED
      BY <1>1, <1>3, <3>1, <3>2, <3>3, Constants
  <2> QED
    BY <1>1, <2>1, <2>2 DEF WaitingInv
<1>11. MisledInv'
  <2>1. CASE Fresh
    <3>1. ~Misled'
      BY <1>1, <1>2, <1>7, <2>1 DEF Misled
    <3> QED
      BY <3>1 DEF MisledInv
  <2>2. CASE ~Fresh
    <3>1. Misled' <=> Misled
      BY <1>1, <1>6, <2>2, MisledStill DEF gate
    <3>2. ~Misled
      <4> SUFFICES ASSUME Misled PROVE FALSE
        OBVIOUS
      <4>1. anchor.valid /\ (TrueSecond - 1) * Q <= Boot * Q + anchor.mono
        BY <1>4, <1>5 DEF MisledInv
      <4>2. /\ now \in Nat /\ anchor.mono \in Nat /\ Q \in Nat /\ Boot * Q \in Nat
            /\ TrueSecond * Q \in Nat /\ Boot * Q + now < TrueSecond * Q + Q
            /\ 3 * Q <= FreshFor /\ FreshFor \in Nat /\ Q > 1
        BY HealthyFacts
      <4>3. (TrueSecond - 1) * Q = TrueSecond * Q - Q
        BY <1>4, Products
      <4>4. now - anchor.mono < FreshFor
        BY <4>1, <4>2, <4>3
      <4> QED
        BY <2>2, <4>1, <4>4 DEF Fresh
    <3> QED
      BY <3>1, <3>2 DEF MisledInv
  <2> QED
    BY <2>1, <2>2
<1>12. CountInv'
  BY <1>1, <1>2, <1>4, <1>5, <1>a DEF CountInv
<1>13. SaidInv'
  BY <1>1, <1>2, <1>4, <1>5, <1>a DEF SaidInv
<1> QED
  BY <1>7, <1>8, <1>9, <1>10, <1>11, <1>12, <1>13 DEF HealthyParts

(* A tick: what it does to the second and to the next edge                    *)
LEMMA TickSeconds ==
  ASSUME HealthyState, Tick
  PROVE  /\ now' = now + 1 /\ TrueSecond' = SecondAt(now + 1)
         /\ TrueSecond' \in {TrueSecond, TrueSecond + 1}
         /\ (now + 1) % Q # 0 => /\ TrueSecond' = TrueSecond /\ events' = events
                                 /\ (now + 1) % Q = (now % Q) + 1
         /\ (now + 1) % Q = 0 => /\ TrueSecond' = TrueSecond + 1 /\ events = <<>>
                                 /\ TrueSecond' * Q = Boot * Q + now + 1
                                 /\ now % Q = Q - 1
                                 /\ \/ events' = <<Edge(now + 1)>>
                                    \/ "lost_edge" \in faults /\ events' = <<>>
         /\ UNCHANGED <<err, phase, said, faults, mutex, anchor, edge_count, pending, last_off,
                        strike, steps, sample, g, s>>
<1>1. now \in Nat /\ TrueSecond = SecondAt(now) /\ TrueSecond \in Nat
  BY HealthyFacts
<1>2. now' = now + 1
  BY DEF Tick
<1>3. TrueSecond' = SecondAt(now + 1)
  BY <1>2 DEF TrueSecond, TrueTime, SecondAt
<1>4. UNCHANGED <<err, phase, said, faults, mutex, anchor, edge_count, pending, last_off,
                  strike, steps, sample, g, s>>
  BY DEF Tick, reference, pairing, gate, stepping
<1>5. CASE (now + 1) % Q # 0
  <2>1. events' = events
    BY <1>5 DEF Tick
  <2> QED
    BY <1>1, <1>2, <1>3, <1>4, <1>5, <2>1, NextSecond
<1>6. CASE (now + 1) % Q = 0
  <2>1. events = <<>>
    BY <1>6, EdgeInTime
  <2>2. events' = Append(events, Edge(now + 1)) \/ ("lost_edge" \in faults /\ events' = events)
    BY <1>6 DEF Tick
  <2>3. Append(<<>>, Edge(now + 1)) = <<Edge(now + 1)>>
    OBVIOUS
  <2>4. /\ TrueSecond' = TrueSecond + 1 /\ TrueSecond' * Q = Boot * Q + now + 1
        /\ now % Q = Q - 1
    BY <1>1, <1>3, <1>6, NextSecond
  <2> QED
    BY <1>2, <1>3, <1>4, <1>6, <2>1, <2>2, <2>3, <2>4
<1> QED
  BY <1>5, <1>6

(* The edge of a tick begins the second of the tick.                           *)
LEMMA NewEdge ==
  ASSUME HealthyState, Tick, (now + 1) % Q = 0
  PROVE  EdgeOf(Edge(now + 1), TrueSecond')
<1>1. TrueSecond' * Q = Boot * Q + now + 1
  BY TickSeconds
<1>2. now \in Nat /\ Boot * Q \in Nat /\ err \in Int /\ Q \in Nat
  BY HealthyFacts
<1>3. 2 * Abs(err) < Q
  BY HealthyFacts DEF KeptInv
<1> DEFINE B == Boot * Q
           e == Edge(now + 1)
<1>4. e.mono = now + 1 /\ e.ts = IF "realtime" \in faults THEN B + (now + 1) + err ELSE now + 1
  BY DEF Edge
<1>5. e.mono + B = B + now + 1 /\ (B + (now + 1) + err) - (B + now + 1) = err
  BY <1>2, <1>4
<1> HIDE DEF e
<1> QED
  BY <1>1, <1>3, <1>4, <1>5 DEF EdgeOf, EdgeWith, e

(* Time passes.                                                              *)
LEMMA TickKept ==
  ASSUME HealthyState, Tick
  PROVE  HealthyParts'
<1>1. /\ now' = now + 1 /\ TrueSecond' \in {TrueSecond, TrueSecond + 1}
      /\ UNCHANGED <<err, phase, said, faults, mutex, anchor, edge_count, pending, last_off,
                     strike, steps, sample, g, s>>
  BY TickSeconds
<1>2. /\ TrueSecond \in Nat /\ anchor.S \in Nat /\ edge_count \in Nat /\ now \in Nat
      /\ said \in Nat /\ Q \in Nat /\ Q > 1 /\ now % Q \in 0..(Q - 1)
      /\ anchor.mono \in Nat /\ FreshFor \in Nat
      /\ EdgesInv /\ SerialInv /\ WaitingInv /\ MisledInv /\ KeptInv /\ CountInv /\ SaidInv
  BY HealthyFacts
<1>3. KeptInv'
  BY <1>1, <1>2, KeptStill DEF KeptInv, Stepping
<1>4. EdgesInv'
  <2>1. CASE (now + 1) % Q # 0
    <3>1. events' = events /\ TrueSecond' = TrueSecond
      BY <2>1, TickSeconds
    <3> QED
      BY <1>1, <1>2, <3>1 DEF EdgesInv, EdgeOf, NextEdge
  <2>2. CASE (now + 1) % Q = 0
    <3>1. events' \in {<<>>, <<Edge(now + 1)>>}
      BY <2>2, TickSeconds
    <3>2. EdgeOf(Edge(now + 1), TrueSecond')
      BY <2>2, NewEdge
    <3>3. /\ Len(events') <= 1
          /\ \A i \in 1..Len(events') : events'[i] = Edge(now + 1)
      <4>1. CASE events' = <<>>
        BY <4>1
      <4> DEFINE x == Edge(now + 1)
      <4>2. CASE events' = <<x>>
        <5> HIDE DEF x
        <5>1. Len(events') = 1 /\ events'[1] = x
          BY <4>2
        <5>2. \A i \in 1..1 : i = 1
          OBVIOUS
        <5> QED
          BY <5>1, <5>2 DEF x
      <4> QED
        BY <3>1, <4>1, <4>2
    <3>4. \A i \in 1..Len(events') : EdgeOf(events'[i], TrueSecond')
      BY <3>2, <3>3
    <3>5. NextEdge = TrueSecond + 1 /\ TrueSecond' = TrueSecond + 1 /\ TrueSecond' <= NextEdge'
      BY <1>2, <2>2, TickSeconds DEF NextEdge
    <3>6. NextEdge <= NextEdge' /\ NextEdge \in Nat /\ NextEdge' \in Nat
      BY <1>2, <3>5 DEF NextEdge
    <3>7. \A i \in 1..Len(pending) : \E k \in Nat : EdgeOf(pending[i], k) /\ k < NextEdge'
      BY <1>2, <3>6 DEF EdgesInv
    <3>8. \A i \in 1..Len(pending') : \E k \in Nat : EdgeOf(pending[i], k)' /\ k < NextEdge'
      BY <1>1, <3>7 DEF EdgeOf
    <3>9. \A i \in 1..Len(events') : EdgeOf(events[i], TrueSecond)'
      BY <1>1, <3>4 DEF EdgeOf
    <3>10. s'.pc = "emit" => \A e \in s'.e : EdgeOf(e, anchor.S)' \/ EdgeOf(e, anchor.S + 1)'
      BY <1>1, <1>2 DEF EdgesInv, EdgeOf
    <3> QED
      BY <1>1, <1>2, <3>3, <3>8, <3>9, <3>10 DEF EdgesInv
  <2> QED
    BY <2>1, <2>2
<1>5. /\ Chain' = Chain /\ Chain \in Nat /\ (Fresh' => Fresh)
      /\ NextEdge \in Nat /\ NextEdge' \in Nat /\ NextEdge <= NextEdge'
      /\ "lost_edge" \notin faults => NextEdge' = NextEdge
  <2>1. Chain' = Chain /\ Chain \in Nat
    BY <1>1, <1>2 DEF Chain
  <2>2. Fresh' => Fresh
    BY <1>1, <1>2 DEF Fresh
  <2>3. CASE (now + 1) % Q # 0
    <3>1. events' = events /\ TrueSecond' = TrueSecond
      BY <2>3, TickSeconds
    <3> QED
      BY <1>2, <2>1, <2>2, <3>1 DEF NextEdge
  <2>4. CASE (now + 1) % Q = 0
    <3>1. /\ events = <<>> /\ TrueSecond' = TrueSecond + 1
          /\ events' = <<Edge(now + 1)>> \/ ("lost_edge" \in faults /\ events' = <<>>)
      BY <2>4, TickSeconds
    <3>2. <<Edge(now + 1)>> # <<>>
      OBVIOUS
    <3>3. NextEdge = TrueSecond + 1 /\ NextEdge' = IF events' = <<>> THEN TrueSecond + 2
                                                   ELSE TrueSecond + 1
      BY <1>2, <3>1 DEF NextEdge
    <3>4. NextEdge' \in {TrueSecond + 1, TrueSecond + 2}
          /\ ("lost_edge" \notin faults => NextEdge' = TrueSecond + 1)
      BY <3>1, <3>2, <3>3
    <3> QED
      BY <1>2, <2>1, <2>2, <3>3, <3>4
  <2> QED
    BY <2>3, <2>4
<1>6. CountInv'
  BY <1>1, <1>2, <1>5 DEF CountInv
<1>8. ~Stuck
  BY <1>2 DEF EdgesInv, Stuck
<1>9. s.pc # "idle" => "late_serial" \in faults
  BY <1>8 DEF Tick, Scheduled
<1>10. SerialInv'
  BY <1>1, <1>2, <1>9 DEF SerialInv
<1>11. WaitingInv'
  BY <1>1, <1>2, <1>5 DEF WaitingInv
<1>12. MisledInv'
  <2>1. Misled' <=> Misled
    BY <1>1, MisledStill
  <2> QED
    BY <1>1, <1>2, <1>5, <2>1 DEF MisledInv
<1>7. SaidInv'
  <2> SUFFICES ASSUME "lost_edge" \in faults PROVE SaidInv'
    BY <1>1 DEF SaidInv
  <2>0. "lost_sentence" \notin faults /\ s.pc = "idle"
    BY <1>9 DEF HealthyState, Healthy
  <2> DEFINE lim == IF "jitter" \in faults THEN Q - 1 ELSE phase
  <2>1. lim \in 1..(Q - 1)
    BY <1>2 DEF HealthyState, TypeOK
  <2>2. now % Q = lim => said = TrueSecond
    <3>1. SentenceDue <=> now % Q = lim
      BY DEF SentenceDue
    <3> QED
      BY <1>8, <2>0, <3>1 DEF Tick
  <2>3. now % Q > lim => said = TrueSecond
    BY <1>2 DEF SaidInv
  <2> HIDE DEF lim
  <2>4. now % Q >= lim => said = TrueSecond
    BY <1>2, <2>1, <2>2, <2>3
  <2>5. /\ said \in {TrueSecond' - 1, TrueSecond'}
        /\ (now + 1) % Q > lim => said = TrueSecond'
    <3>1. CASE (now + 1) % Q # 0
      <4>1. TrueSecond' = TrueSecond /\ (now + 1) % Q = (now % Q) + 1
        BY <3>1, TickSeconds
      <4>2. said \in {TrueSecond - 1, TrueSecond}
        BY <1>2 DEF SaidInv
      <4>3. (now + 1) % Q > lim => now % Q >= lim
        BY <1>2, <2>1, <4>1
      <4> QED
        BY <2>4, <4>1, <4>2, <4>3
    <3>2. CASE (now + 1) % Q = 0
      <4>1. TrueSecond' = TrueSecond + 1 /\ now % Q = Q - 1
        BY <3>2, TickSeconds
      <4>2. said = TrueSecond
        BY <1>2, <2>1, <2>4, <4>1
      <4> QED
        BY <1>2, <2>1, <3>2, <4>1, <4>2
    <3> QED
      BY <3>1, <3>2
  <2>6. anchor.valid => Chain' <= NextEdge' + 1
    <3>1. anchor.valid => Chain <= NextEdge + 1
      BY <1>2, <2>0 DEF SaidInv
    <3>2. Chain' = Chain /\ Chain \in Nat
      BY <1>5
    <3>3. NextEdge \in Nat /\ NextEdge' \in Nat /\ NextEdge <= NextEdge'
      BY <1>5
    <3>4. \A a, b, c \in Nat : a <= b + 1 /\ b <= c => a <= c + 1
      OBVIOUS
    <3> QED
      BY <3>1, <3>2, <3>3, <3>4, Zenon
  <2>7. anchor.valid => anchor.S = said
    BY <1>2, <2>0 DEF SaidInv
  <2> QED
    BY <1>1, <2>0, <2>5, <2>6, <2>7 DEF SaidInv, lim
<1> QED
  BY <1>3, <1>4, <1>6, <1>7, <1>10, <1>11, <1>12 DEF HealthyParts

(* A sentence arrives.                                                       *)
LEMMA ArriveKept ==
  ASSUME HealthyState, NEW S \in parse_line, Arrive(S)
  PROVE  HealthyParts'
<1>1. /\ S = TrueSecond /\ now % Q # 0 /\ said' = TrueSecond /\ s.pc = "idle"
      /\ s'.pc = "lock" /\ s'.S = S /\ s'.since = now
      /\ UNCHANGED <<now, err, phase, faults, events, mutex, anchor, edge_count, pending,
                     last_off, strike, steps, sample, g>>
  BY DEF Arrive, parse_line, pairing, gate, stepping, HealthyState, Healthy, TypeOK
<1>2. /\ TrueSecond \in Nat /\ TrueSecond' = TrueSecond /\ NextEdge' = NextEdge
      /\ Chain' = Chain /\ (Fresh' <=> Fresh)
      /\ EdgesInv /\ SerialInv /\ WaitingInv /\ MisledInv /\ KeptInv /\ CountInv /\ SaidInv
  BY <1>1, HealthyFacts DEF TrueSecond, TrueTime, NextEdge, Chain, Fresh
<1>3. KeptInv'
  BY <1>1, <1>2, KeptStill DEF KeptInv, Stepping
<1>4. EdgesInv'
  BY <1>1, <1>2 DEF EdgesInv, EdgeOf
<1>5. SerialInv'
  <2>1. /\ now \in Nat /\ anchor.S \in Nat /\ anchor.mono \in Nat /\ Boot * Q \in Nat /\ Q \in Nat
        /\ TrueSecond * Q \in Nat /\ Boot * Q + now = TrueSecond * Q + (now % Q)
        /\ now % Q \in 0..(Q - 1) /\ Boot * Q + now < TrueSecond * Q + Q
    BY HealthyFacts
  <2>2. TrueSecond * Q < Boot * Q + now
    BY <1>1, <2>1
  <2>3. anchor.S <= TrueSecond
    <3>1. CASE anchor.valid
      <4>1. anchor.S * Q <= Boot * Q + anchor.mono /\ anchor.mono <= now
        BY <3>1 DEF HealthyState, Healthy, ClockInv, SecondInv, PastInv
      <4>2. anchor.S * Q \in Int /\ (anchor.S * Q < TrueSecond * Q + Q => anchor.S <= TrueSecond)
        BY <1>2, <2>1, Products
      <4> QED
        BY <2>1, <4>1, <4>2
    <3>2. CASE ~anchor.valid
      BY <1>2, <3>2 DEF SerialInv
    <3> QED
      BY <3>1, <3>2
  <2> QED
    BY <1>1, <1>2, <2>2, <2>3 DEF SerialInv
<1>6. WaitingInv'
  BY <1>1, <1>2 DEF WaitingInv
<1>7. MisledInv'
  <2>1. Misled' => Misled
    BY <1>1 DEF Misled, Sound
  <2> QED
    BY <1>1, <1>2, <2>1 DEF MisledInv
<1>8. CountInv'
  BY <1>1, <1>2 DEF CountInv
<1>9. SaidInv'
  BY <1>1, <1>2 DEF SaidInv
<1> QED
  BY <1>3, <1>4, <1>5, <1>6, <1>7, <1>8, <1>9 DEF HealthyParts

(* It is handled.                                                            *)
LEMMA SentenceKept ==
  ASSUME HealthyState, Sentence
  PROVE  HealthyParts'
<1>1. /\ mutex' = "serial" /\ pending' = <<>> /\ s.pc = "lock" /\ mutex = "free"
      /\ anchor'.S = s.S /\ anchor'.prev = s.S /\ anchor'.valid = TRUE /\ anchor'.mono = now
      /\ anchor'.seq = Sequel(s.S)
      /\ s'.pc = "emit" /\ s'.e = Paired /\ s'.S = s.S /\ s'.since = s.since
      /\ UNCHANGED <<now, err, phase, said, faults, events, g, edge_count, last_off, strike,
                     steps, sample>>
  BY DEF Sentence, reference, gate, stepping, HealthyState, TypeOK
<1>2. /\ TrueSecond \in Nat /\ TrueSecond' = TrueSecond /\ NextEdge' = NextEdge
      /\ NextEdge \in {TrueSecond, TrueSecond + 1}
      /\ EdgesInv /\ SerialInv /\ WaitingInv /\ MisledInv /\ KeptInv /\ CountInv /\ SaidInv
      /\ s.S \in Nat /\ anchor.S \in Nat /\ anchor.seq \in Nat /\ now \in Nat
      /\ anchor.mono \in Nat /\ Boot * Q \in Nat /\ Q \in Nat /\ Lag \in Nat /\ Lag < Q
      /\ 3 * Q <= FreshFor /\ FreshFor \in Nat
  BY <1>1, HealthyFacts DEF TrueSecond, TrueTime, NextEdge
<1>3. /\ s.S * Q < Boot * Q + now /\ Boot * Q + now < s.S * Q + Q + Lag /\ s.S * Q \in Nat
      /\ TrueSecond \in {s.S, s.S + 1} /\ anchor.S <= s.S
      /\ "late_serial" \notin faults => TrueSecond = s.S
  BY HandledIn
<1>4. KeptInv'
  BY <1>1, <1>2, KeptStill DEF KeptInv, Stepping
<1>5. EdgesInv'
  <2>1. \A e \in Paired : EdgeOf(e, s.S) \/ EdgeOf(e, s.S + 1)
    BY PairedRight
  <2>2. Len(<<>>) = 0
    OBVIOUS
  <2> QED
    BY <1>1, <1>2, <2>1, <2>2 DEF EdgesInv, EdgeOf
<1>6. Sequel(s.S) >= 1 /\ (anchor.prev = anchor.S /\ s.S # anchor.S + 1 => Sequel(s.S) = 1)
      /\ Sequel(s.S) \in Nat /\ (s.S = anchor.S + 1 => Sequel(s.S) <= anchor.seq + 1)
  <2>1. anchor.seq + 1 >= 1 /\ anchor.seq + 1 \in Nat
    BY <1>2
  <2>2. Sequel(s.S) \in {1, anchor.seq + 1}
    BY DEF Sequel
  <2> QED
    BY <1>2, <2>1, <2>2 DEF Sequel
<1>7. SerialInv'
  BY <1>1, <1>2, <1>6 DEF SerialInv
<1>8. WaitingInv'
  BY <1>1, <1>2 DEF WaitingInv
<1>9. MisledInv'
  <2> SUFFICES ASSUME Misled'
               PROVE  /\ "lost_edge" \notin faults
                      /\ Sequel(s.S) <= s.S + 3 - NextEdge
                      /\ (NextEdge - 1) * Q <= Boot * Q + now
                      /\ g.pc # "poll" => Boot * Q + g.since <= (NextEdge - 1) * Q
                      /\ g.pc = "decide" /\ g.fresh => g.seq <= 2
    BY <1>1, <1>2 DEF MisledInv
  <2>1. CASE Misled
    <3>1. /\ "lost_edge" \notin faults
          /\ anchor.valid /\ anchor.seq <= anchor.S + 3 - NextEdge
          /\ (NextEdge - 1) * Q <= Boot * Q + anchor.mono
          /\ g.pc # "poll" => Boot * Q + g.since <= (NextEdge - 1) * Q
          /\ g.pc = "decide" /\ g.fresh => g.seq <= 2
      BY <1>2, <2>1 DEF MisledInv
    <3>2. anchor.mono <= now
      BY DEF HealthyState, ClockInv, PastInv
    <3>3. (NextEdge - 1) * Q <= Boot * Q + now
      <4>1. (NextEdge - 1) * Q \in Int
        BY <1>2, Products
      <4> QED
        BY <1>2, <3>1, <3>2, <4>1
    <3>4. anchor.seq >= 1 /\ anchor.prev = anchor.S
      BY <1>2, <3>1 DEF SerialInv
    <3>5. Sequel(s.S) <= s.S + 3 - NextEdge
      <4>1. CASE s.S = anchor.S + 1
        BY <1>2, <1>6, <3>1, <4>1
      <4>2. CASE s.S # anchor.S + 1
        BY <1>2, <1>3, <1>6, <3>1, <3>4, <4>2
      <4> QED
        BY <4>1, <4>2
    <3> QED
      BY <3>1, <3>3, <3>5
  <2>2. CASE ~Misled
    <3>1. PICK e \in Paired : ~EdgeOf(e, s.S)
      BY <1>1, <2>2 DEF Misled, Sound, EdgeOf
    <3>2. /\ pending # <<>> /\ "late_serial" \in faults
          /\ TrueSecond = s.S + 1 /\ NextEdge = s.S + 2
      BY <3>1, PairedRight
    <3>3. "lost_edge" \notin faults
      BY <3>2 DEF HealthyState, Healthy
    <3>4. /\ ~Fresh /\ (g.pc = "decide" => ~g.fresh)
          /\ g.pc # "poll" => Boot * Q + g.since <= (NextEdge - 1) * Q
      BY <1>2, <3>2, <3>3 DEF WaitingInv
    <3>5. (NextEdge - 1) * Q <= Boot * Q + now
      <4>1. NextEdge - 1 = TrueSecond
        BY <1>2, <3>2
      <4> QED
        BY <4>1, HealthyFacts
    <3>6. s.S # anchor.S + 1 \/ ~anchor.valid
      <4> SUFFICES ASSUME anchor.valid, s.S = anchor.S + 1 PROVE FALSE
        OBVIOUS
      <4>1. now - anchor.mono >= FreshFor
        BY <1>2, <3>4 DEF Fresh
      <4>2. anchor.S * Q <= Boot * Q + anchor.mono
        BY DEF HealthyState, Healthy, ClockInv, SecondInv
      <4>3. s.S * Q = anchor.S * Q + Q /\ anchor.S * Q \in Int
        BY <1>2, Products
      <4> DEFINE A == anchor.S * Q
                 D == s.S * Q
                 B == Boot * Q
      <4>4. /\ A \in Int /\ D = A + Q /\ B \in Nat /\ A <= B + anchor.mono
            /\ B + now < D + Q + Lag
        BY <1>2, <1>3, <4>2, <4>3
      <4> HIDE DEF A, D, B
      <4> QED
        BY <1>2, <4>1, <4>4
    <3>7. Sequel(s.S) = 1
      <4>1. CASE anchor.valid
        BY <1>2, <1>6, <3>6, <4>1 DEF SerialInv
      <4>2. CASE ~anchor.valid
        BY <1>2, <4>2 DEF SerialInv, Sequel
      <4> QED
        BY <4>1, <4>2
    <3>8. Sequel(s.S) <= s.S + 3 - NextEdge
      BY <1>2, <3>2, <3>7
    <3> QED
      BY <3>3, <3>4, <3>5, <3>8
  <2> QED
    BY <2>1, <2>2
<1>10. CountInv'
  <2>1. CASE TrueSecond = s.S
    <3>1. NextEdge \in {s.S, s.S + 1}
      BY <1>2, <2>1
    <3> QED
      BY <1>1, <1>2, <3>1 DEF CountInv
  <2>2. CASE TrueSecond = s.S + 1
    <3>1. NextEdge = s.S + 1 \/ NextEdge = s.S + 2
      BY <1>2, <2>2
    <3> QED
      BY <1>1, <1>2, <3>1 DEF CountInv
  <2> QED
    BY <1>3, <2>1, <2>2
<1>11. SaidInv'
  BY <1>1, <1>2 DEF SaidInv
<1> QED
  BY <1>4, <1>5, <1>7, <1>8, <1>9, <1>10, <1>11 DEF HealthyParts

(* The serial thread is done with it.                                         *)
LEMMA SentenceDoneKept ==
  ASSUME HealthyState, SentenceDone
  PROVE  HealthyParts'
<1>1. /\ s.pc = "emit" /\ edge_count' = 0 /\ mutex' = "free" /\ s'.pc = "idle"
      /\ UNCHANGED <<now, err, phase, said, faults, events, anchor, pending, g, steps>>
  BY DEF SentenceDone, reference, stepping, HealthyState, TypeOK
<1>2. /\ TrueSecond \in Nat /\ anchor.S \in Nat /\ said \in Nat
      /\ TrueSecond' = TrueSecond /\ NextEdge' = NextEdge /\ (Fresh' <=> Fresh)
      /\ NextEdge \in {TrueSecond, TrueSecond + 1}
      /\ EdgesInv /\ SerialInv /\ WaitingInv /\ MisledInv /\ KeptInv /\ CountInv /\ SaidInv
  BY <1>1, HealthyFacts DEF TrueSecond, TrueTime, NextEdge, Fresh
<1>3. Chain' = anchor.S + 1
  BY <1>1, <1>2 DEF Chain
<1>4. ~Stepping'
  BY <1>1, <1>2 DEF KeptInv, Stepping
<1>5. KeptInv' /\ (Misled' => Misled)
  <2>1. CASE \E e \in s.e : emit_sample(anchor.S, e, s.strike)
    <3>1. PICK e \in s.e : emit_sample(anchor.S, e, s.strike)
      BY <2>1
    <3>2. e \in EdgeType /\ (EdgeOf(e, anchor.S) \/ EdgeOf(e, anchor.S + 1))
      BY <1>1, <1>2 DEF EdgesInv, HealthyState, TypeOK
    <3>3. CASE EdgeOf(e, anchor.S)
      <4>1. KeptInv' /\ Sound'
        BY <1>1, <1>2, <1>4, <3>1, <3>2, <3>3, KeptEmit
      <4> QED
        BY <1>1, <4>1 DEF Misled
    <3>4. CASE ~EdgeOf(e, anchor.S)
      <4>1. KeptInv'
        BY <1>1, <1>2, <1>4, <3>1, <3>2, <3>4, KeptGated
      <4>2. Misled
        BY <1>1, <3>4 DEF Misled
      <4> QED
        BY <4>1, <4>2
    <3> QED
      BY <3>3, <3>4
  <2>2. CASE UNCHANGED gate
    BY <1>1, <1>2, <1>4, <2>2, KeptStill DEF gate, Misled, Sound
  <2> QED
    BY <2>1, <2>2 DEF SentenceDone
<1>6. EdgesInv'
  BY <1>1, <1>2 DEF EdgesInv, EdgeOf
<1>7. SerialInv' /\ WaitingInv'
  BY <1>1, <1>2 DEF SerialInv, WaitingInv
<1>8. MisledInv'
  BY <1>1, <1>2, <1>5 DEF MisledInv
<1>9. CountInv'
  BY <1>1, <1>2, <1>3 DEF CountInv
<1>10. SaidInv'
  BY <1>1, <1>2, <1>3 DEF SaidInv
<1> QED
  BY <1>5, <1>6, <1>7, <1>8, <1>9, <1>10 DEF HealthyParts

(* Every step of a healthy daemon                                            *)
LEMMA HealthyStep ==
  ASSUME HealthyState, [Next]_vars
  PROVE  HealthyParts'
<1>0. faults \cap {"bad_clock", "date", "jump", "ntp"} = {} /\ ~Stepping
  BY HealthyFacts DEF HealthyState, Healthy, KeptInv
<1>1. CASE \E S \in parse_line : Arrive(S)
  BY <1>1, ArriveKept
<1>2. CASE Sentence \/ SentenceDone
  BY <1>2, SentenceKept, SentenceDoneKept
<1>3. CASE EdgeTod \/ PollTimeout
  BY <1>3, EdgeKept, TimeoutKept
<1>4. CASE Tick \/ Discipline
  BY <1>4, TickKept, DisciplineKept
<1>5. CASE CheckAnchor \/ Decide \/ Status
  BY <1>5, CheckKept, DecideKept, StatusKept
<1>6. CASE UNCHANGED vars
  <2>1. UNCHANGED <<now, faults, phase, said, events, mutex, anchor, edge_count, pending, s,
                    err, last_off, strike, steps, sample, g>>
    BY <1>6 DEF vars, reference, pairing, gate, stepping
  <2>2. WaitingInv /\ MisledInv
    BY HealthyFacts
  <2>3. ~Stepping'
    BY <1>0, <2>1 DEF Stepping
  <2> QED
    BY <2>1, <2>2, <2>3, LoopKept DEF WaitingInv, MisledInv
<1>7. CASE StepSecond \/ WriteClock \/ EdgeNtp \/ SetDate
  BY <1>0, <1>7 DEF StepSecond, WriteClock, EdgeNtp, SetDate, Stepping
<1> QED
  BY <1>1, <1>2, <1>3, <1>4, <1>5, <1>6, <1>7 DEF Next

(* A clock that is right to half a second is never stepped, and every sample    *)
(* names the second its edge began, for any length of the second, any delays    *)
(* of the threads below a second, also with a sentence in hand, and edges or    *)
(* sentences lost at will.                                                    *)
THEOREM HealthyClockKept == Spec => []HealthyKept
<1>1. Init => HealthyInv
  <2> SUFFICES ASSUME Init, Healthy PROVE HealthyParts
    BY DEF HealthyInv
  <2>0. TypeOK /\ ClockInv
    BY InitTypes, InitSteps
  <2>1. KeptInv
    <3>1. 2 * Abs(err) < Q
      BY DEF Init, Healthy
    <3> QED
      BY <3>1, Constants DEF Init, KeptInv, SecondsAgree, Stepping, Abs
  <2>2. EdgesInv /\ CountInv
    BY DEF Init, EdgesInv, CountInv, Fresh
  <2>3. SaidInv
    <3>1. TrueSecond \in Nat /\ said = TrueSecond /\ anchor.valid = FALSE /\ s.pc = "idle"
      BY <2>0, TypeParts, TruthType DEF Init
    <3> QED
      BY <3>1 DEF SaidInv
  <2>4. SerialInv /\ WaitingInv
    BY DEF Init, SerialInv, WaitingInv
  <2>5. MisledInv
    <3>1. Sound /\ s.pc = "idle"
      BY Constants DEF Init, Sound, Abs
    <3> QED
      BY <3>1 DEF MisledInv, Misled
  <2> QED
    BY <2>1, <2>2, <2>3, <2>4, <2>5 DEF HealthyParts
<1>2. TypeOK /\ ClockInv /\ HealthyInv /\ [Next]_vars => HealthyInv'
  <2> SUFFICES ASSUME TypeOK, ClockInv, HealthyInv, [Next]_vars, Healthy'
               PROVE  HealthyParts'
    BY DEF HealthyInv
  <2>1. faults' = faults
    BY ArriveFrame, SentenceFrame, QuietFrame, LoopFrame, DecideFrame, StepSecondFrame,
       WriteFrame, TickFrame DEF Next
  <2>2. HealthyState
    BY <2>1 DEF HealthyState, HealthyInv, Healthy
  <2> QED
    BY <2>2, HealthyStep
<1>3. HealthyInv => HealthyKept
  BY DEF HealthyInv, HealthyParts, HealthyKept, Healthy, KeptInv
<1> QED
  BY <1>1, <1>2, <1>3, TodTypes, ClockInvariant, PTL DEF Spec

-----------------------------------------------------------------------------
(* A bad clock                                                               *)

(* The clock is wrong, edges and sentences come every second, and nothing has   *)
(* been done about it yet.                                                     *)
Wrong ==
    /\ faults \subseteq {"bad_clock", "realtime", "jitter", "chrony"}
    /\ "bad_clock" \in faults
    /\ steps = {}

(* The edge e began second k, and its stamp has the error of the clock.         *)
EdgeAt(e, k) ==
    /\ e.mono + Boot * Q = k * Q
    /\ e.ts = IF "realtime" \in faults THEN Boot * Q + e.mono + err ELSE e.mono

FirstSecond == SecondAt(Start)

(* Nobody changes the clock, and the pause and the quota are not in the way.     *)
OffInv ==
    /\ Abs(err) >= 2 * Q
    /\ sample = {} /\ quota.resets = 0 /\ mutex # "gpio"
    /\ ~Stepping => last_nudge = Start - NudgeGap

(* An edge is read the moment it comes; the ones kept for the first sentence,    *)
(* and the one that is paired with a sentence, are of its second.               *)
PunctualInv ==
    /\ Len(events) <= 1
    /\ events # <<>> => /\ g.pc = "poll" /\ s.pc = "idle" /\ now % Q = 0
                        /\ said = TrueSecond - 1
    /\ \A i \in 1..Len(events) : EdgeAt(events[i], TrueSecond)
    /\ \A i \in 1..Len(pending) : EdgeAt(pending[i], TrueSecond)
    /\ pending # <<>> => said # TrueSecond \/ s.pc = "lock"
    /\ s.pc = "lock" => said = TrueSecond /\ s.S = TrueSecond /\ now % Q # 0
    /\ s.pc = "emit" => said = TrueSecond /\ \A e \in s.e : EdgeAt(e, TrueSecond)

(* The second of the last sentence that was handled                          *)
Handled == IF s.pc = "lock" THEN said - 1 ELSE said

(* A sentence comes in every second after the first, and anchor_seq counts them. *)
AnchorInv ==
    /\ FirstSecond <= Handled /\ said \in {TrueSecond - 1, TrueSecond}
    /\ now % Q > (IF "jitter" \in faults THEN Q - 1 ELSE phase) => said = TrueSecond
    /\ Handled = FirstSecond => ~anchor.valid /\ anchor.prev = 0 /\ s.pc # "emit"
    /\ Handled > FirstSecond =>
         /\ anchor.valid /\ anchor.S = Handled /\ anchor.prev = Handled
         /\ anchor.seq = Handled - FirstSecond
         /\ Handled * Q < Boot * Q + anchor.mono
         /\ s.pc = "idle" /\ (events # <<>> \/ said = TrueSecond) => edge_count = 0

(* The edge of the fourth second after the first is measured, and leads to a     *)
(* step before time passes.                                                    *)
Measured == last_off.mono = now /\ Abs(last_off.off) > Q

DeadlineInv ==
    /\ TrueSecond <= FirstSecond + 4
    /\ TrueSecond = FirstSecond + 4 =>
         /\ now % Q = 0 /\ said = FirstSecond + 3 /\ s.pc = "idle"
         /\ \/ events # <<>>
            \/ g.pc = "check" /\ Measured
            \/ g.pc = "decide" /\ Measured /\ g.fresh /\ g.seq >= 3
            \/ Stepping

BadInv == Wrong => OffInv /\ PunctualInv /\ AnchorInv /\ DeadlineInv

(* A wrong clock reads an edge wrong by its error.                             *)
LEMMA WrongReads ==
  ASSUME TypeOK, NEW e \in EdgeType, NEW k \in Int, EdgeAt(e, k)
  PROVE  edge_realtime(e) = k * Q + err /\ k * Q \in Int /\ err \in Int
<1>1. /\ Boot * Q \in Nat /\ Q \in Nat /\ err \in Int /\ e.mono \in Nat /\ k * Q \in Int
  BY Constants DEF TypeOK, EdgeType
<1> DEFINE B == Boot * Q
           K == k * Q
<1>2. B \in Nat /\ K \in Int /\ e.mono + B = K
  BY <1>1 DEF EdgeAt
<1>3. edge_realtime(e) \in {B + e.mono + err, e.mono + B + err}
  BY DEF edge_realtime, EdgeAt
<1> HIDE DEF B, K
<1>4. edge_realtime(e) = K + err
  BY <1>1, <1>2, <1>3
<1> QED
  BY <1>1, <1>4 DEF K

(* A sample of it does not pass the gate, and the measurement is far off.       *)
LEMMA WrongEmit ==
  ASSUME TypeOK, Abs(err) >= 2 * Q, NEW e \in EdgeType, NEW k \in Int, NEW n,
         EdgeAt(e, k), emit_sample(k, e, n)
  PROVE  sample' = sample /\ last_off'.mono = now /\ Abs(last_off'.off) > Q
<1> DEFINE off == k * Q - edge_realtime(e)
<1>1. edge_realtime(e) = k * Q + err /\ k * Q \in Int /\ err \in Int
  BY WrongReads
<1>2. off = -err
  BY <1>1
<1>3. /\ last_off' = [off |-> off, mono |-> now]
      /\ 2 * Abs(off) > Q => sample' = sample
  BY Zenon DEF emit_sample
<1> HIDE DEF off
<1>4. Q \in Nat /\ Q > 1
  BY Constants
<1>5. 2 * Abs(off) > Q /\ Abs(off) > Q
  BY <1>1, <1>2, <1>4 DEF Abs
<1> QED
  BY <1>3, <1>5

(* The nearest second of the clock is at least two seconds away, ...            *)
LEMMA NearestWrong ==
  ASSUME TypeOK, Abs(err) >= 2 * Q, NEW e \in EdgeType, NEW k \in Int, EdgeAt(e, k)
  PROVE  Nearest(edge_realtime(e)) \in Int /\ Abs(Nearest(edge_realtime(e)) - k) > 1
<1> DEFINE t == edge_realtime(e)
           h == Q \div 2
           K == k * Q
           d == (t + h) \div Q
<1>1. t = K + err /\ K \in Int /\ err \in Int
  BY WrongReads
<1>2. h \in Nat /\ h < Q /\ Q \in Nat /\ Q > 1
  BY TodAssumption
<1>3. t + h \in Int
  BY <1>1, <1>2
<1>4. d \in Int /\ d * Q <= t + h /\ t + h < d * Q + Q
  BY <1>3, Division
<1>5. d * Q \in Int
  BY <1>2, <1>4
<1>6. ASSUME NEW x \in Int, NEW y \in Int, x <= y PROVE x * Q <= y * Q
  BY <1>2, <1>6, Z3
<1>7. (k + 1) * Q = K + Q /\ (k - 1) * Q = K - Q
  BY <1>2, Z3
<1>a. d <= k + 1 => d * Q <= (k + 1) * Q
  BY <1>4, <1>6
<1>b. k - 1 <= d => (k - 1) * Q <= d * Q
  BY <1>4, <1>6
<1> HIDE DEF t, h, K, d
<1>8. CASE err >= 2 * Q
  <2>1. ~(d <= k + 1)
    BY <1>1, <1>2, <1>3, <1>4, <1>5, <1>7, <1>8, <1>a
  <2> QED
    BY <1>4, <2>1 DEF Abs, Nearest, d, t, h
<1>9. CASE err <= -(2 * Q)
  <2>1. ~(k - 1 <= d)
    BY <1>1, <1>2, <1>3, <1>4, <1>5, <1>7, <1>9, <1>b
  <2> QED
    BY <1>4, <2>1 DEF Abs, Nearest, d, t, h
<1> QED
  BY <1>1, <1>2, <1>8, <1>9 DEF Abs

(* ... so that the sentences and the edges name the second.                     *)
LEMMA ChainNames ==
  ASSUME TypeOK, Abs(err) >= 2 * Q, NEW e \in EdgeType, EdgeAt(e, Chain), Chain \in Int
  PROVE  EdgeSecond(edge_realtime(e)) = Chain
<1>1. Abs(Nearest(edge_realtime(e)) - Chain) > 1 /\ Nearest(edge_realtime(e)) \in Int
  BY NearestWrong
<1> QED
  BY <1>1 DEF EdgeSecond, Abs

WrongState ==
    TypeOK /\ ClockInv /\ Wrong /\ OffInv /\ PunctualInv /\ AnchorInv /\ DeadlineInv

(* The first second, and the edge that waits                                  *)
LEMMA WrongFacts ==
  ASSUME WrongState
  PROVE  /\ TypeOK /\ FirstSecond \in Nat
         /\ faults \cap {"late", "late_serial", "ntp", "jump", "date", "twin", "lost_edge", "lost_sentence"} = {}
         /\ steps = {}
         /\ events # <<>> => /\ Head(events) \in EdgeType /\ Tail(events) = <<>>
                             /\ EdgeAt(Head(events), TrueSecond)
<1>1. TypeOK /\ events \in Seq(EdgeType) /\ Len(events) <= 1
  BY DEF WrongState, TypeOK, PunctualInv
<1>2. FirstSecond \in Nat
  BY Seconds, Constants DEF FirstSecond
<1>3. /\ faults \cap {"late", "late_serial", "ntp", "jump", "date", "twin", "lost_edge", "lost_sentence"} = {}
      /\ steps = {}
  BY DEF WrongState, Wrong
<1>4. ASSUME events # <<>>
      PROVE  /\ Head(events) \in EdgeType /\ Tail(events) = <<>>
             /\ EdgeAt(Head(events), TrueSecond)
  <2>1. Len(events) = 1 /\ Head(events) = events[1] /\ Tail(events) = <<>>
    BY <1>1, <1>4, OneOfSeq
  <2> QED
    BY <1>1, <1>4, <2>1, HeadTypes DEF WrongState, PunctualInv
<1> QED
  BY <1>1, <1>2, <1>3, <1>4

(* The steps that touch neither the edges, the anchor nor the second           *)
LEMMA WrongStill ==
  ASSUME WrongState, events = <<>> \/ g' = g,
         UNCHANGED <<now, err, faults, phase, said, events, anchor, edge_count, pending, s>>
  PROVE  PunctualInv' /\ AnchorInv' /\ TrueSecond' = TrueSecond
<1>1. TrueSecond' = TrueSecond
  BY DEF TrueSecond, TrueTime
<1>2. PunctualInv'
  BY <1>1 DEF WrongState, PunctualInv, EdgeAt
<1>3. AnchorInv'
  BY <1>1 DEF WrongState, AnchorInv, FirstSecond, Handled
<1> QED
  BY <1>1, <1>2, <1>3

(* At the deadline the anchor is fresh and three sentences old.                 *)
LEMMA AtDeadline ==
  ASSUME WrongState, TrueSecond = FirstSecond + 4
  PROVE  Fresh /\ anchor.seq = 3 /\ now > Start
<1>1. /\ now \in Nat /\ TrueSecond * Q \in Nat /\ Q \in Nat /\ Q > 1 /\ Boot * Q \in Nat
      /\ Boot * Q + now = TrueSecond * Q + (now % Q) /\ TrueSecond = SecondAt(now)
      /\ anchor.mono \in Nat /\ FreshFor \in Nat /\ FirstSecond \in Nat
      /\ Start \in Nat /\ Q <= FreshFor /\ Start <= now
  <2>1. TypeOK /\ FirstSecond \in Nat
    BY WrongFacts
  <2>2. /\ now \in Nat /\ TrueSecond * Q \in Nat /\ Q \in Nat /\ Q > 1 /\ Boot * Q \in Nat
        /\ Boot * Q + now = TrueSecond * Q + (now % Q) /\ TrueSecond = SecondAt(now)
        /\ anchor.mono \in Nat /\ FreshFor \in Nat
    BY <2>1, TruthFacts
  <2>3. Start \in Nat /\ Q <= FreshFor
    BY TodAssumption
  <2>4. Start <= now
    BY <2>1, Constants DEF TypeOK
  <2> QED
    BY <2>1, <2>2, <2>3, <2>4
<1>2. now % Q = 0 /\ said = FirstSecond + 3 /\ Handled = said
  BY DEF WrongState, DeadlineInv, Handled
<1>3. anchor.valid /\ anchor.seq = 3 /\ said * Q < Boot * Q + anchor.mono
  <2>1. said > FirstSecond
    BY <1>1, <1>2
  <2>2. anchor.valid /\ anchor.seq = said - FirstSecond /\ said * Q < Boot * Q + anchor.mono
    BY <1>2, <2>1 DEF WrongState, AnchorInv
  <2> QED
    BY <1>1, <1>2, <2>2
<1>4. TrueSecond * Q = said * Q + Q /\ said * Q \in Nat
  <2>1. TrueSecond = said + 1 /\ said \in Nat
    BY <1>1, <1>2
  <2> QED
    BY <1>1, <2>1, Z3
<1> DEFINE B == Boot * Q
           T == TrueSecond * Q
           U == said * Q
<1>5. B \in Nat /\ T \in Nat /\ U \in Nat /\ B + now = T /\ T = U + Q /\ U < B + anchor.mono
  BY <1>1, <1>2, <1>3, <1>4
<1> HIDE DEF B, T, U
<1>6. now - anchor.mono < FreshFor
  BY <1>1, <1>5
<1>7. now # Start
  <2>1. SecondAt(now) # SecondAt(Start)
    BY <1>1 DEF FirstSecond
  <2> QED
    BY <2>1, Zenon
<1> QED
  BY <1>1, <1>3, <1>6, <1>7 DEF Fresh

(* The loop of the gpio thread, up to the clock write                          *)
LEMMA WrongLoop ==
  ASSUME WrongState, CheckAnchor \/ Decide \/ StepSecond \/ Status \/ PollTimeout
  PROVE  OffInv' /\ PunctualInv' /\ AnchorInv' /\ DeadlineInv'
<1>0. TypeOK /\ OffInv /\ now \in Nat /\ DeadlineInv
  BY TruthFacts DEF WrongState
<1>1. /\ UNCHANGED <<now, err, faults, phase, said, events, anchor, edge_count, pending, s,
                     last_off, sample, mutex>>
      /\ g.pc # "poll" \/ events = <<>>
  BY DEF CheckAnchor, Decide, StepSecond, Status, PollTimeout, reference, pairing, gate
<1>2. events = <<>>
  BY <1>1 DEF WrongState, PunctualInv
<1>3. PunctualInv' /\ AnchorInv' /\ TrueSecond' = TrueSecond
  BY <1>1, <1>2, WrongStill
<1>4. Measured' <=> Measured
  BY <1>1 DEF Measured
<1>5. CASE CheckAnchor
  <2>1. /\ g.pc = "check" /\ g'.pc = "decide" /\ g'.fresh = Fresh /\ g'.seq = anchor.seq
        /\ UNCHANGED <<quota, last_nudge>>
    BY <1>0, <1>5 DEF CheckAnchor, stepping, TypeOK
  <2>2. TrueSecond = FirstSecond + 4 => Measured /\ Fresh /\ anchor.seq = 3
    BY <1>0, <1>2, <2>1, AtDeadline DEF DeadlineInv, Stepping
  <2>3. DeadlineInv'
    BY <1>0, <1>1, <1>3, <1>4, <2>1, <2>2 DEF DeadlineInv, FirstSecond
  <2>4. OffInv'
    BY <1>0, <1>1, <2>1 DEF OffInv, Stepping
  <2> QED
    BY <1>3, <2>3, <2>4
<1>6. CASE Decide
  <2>1. g.pc = "decide" /\ ~Stepping
    BY <1>6 DEF Decide, Stepping
  <2>2. last_nudge = Start - NudgeGap /\ quota.resets = 0
    BY <1>0, <2>1 DEF OffInv
  <2>3. Spent = 0 /\ ~Exhausted
    BY <2>2, TodAssumption DEF Spent, Exhausted
  <2>4. CASE Due
    <3>1. g'.pc = "step" /\ quota'.resets = 0
      BY <1>0, <1>6, <2>3, <2>4 DEF Decide, TypeOK
    <3>2. OffInv'
      BY <1>0, <1>1, <3>1 DEF OffInv, Stepping
    <3>3. DeadlineInv'
      BY <1>0, <1>1, <1>3, <3>1 DEF DeadlineInv, FirstSecond, Stepping
    <3> QED
      BY <1>3, <3>2, <3>3
  <2>5. CASE ~Due
    <3>1. g'.pc = "status" /\ UNCHANGED <<last_nudge, quota>>
      BY <1>0, <1>6, <2>5 DEF Decide, TypeOK
    <3>2. OffInv'
      BY <1>0, <1>1, <2>2, <3>1 DEF OffInv
    <3>3. TrueSecond # FirstSecond + 4
      <4> SUFFICES ASSUME TrueSecond = FirstSecond + 4 PROVE Due
        BY <2>5
      <4>1. Measured /\ g.fresh /\ g.seq >= 3
        BY <1>0, <1>2, <2>1 DEF DeadlineInv, Stepping
      <4>2. now > Start /\ Start \in Nat /\ NudgeGap \in Nat /\ FreshFor \in Nat /\ 0 < FreshFor
        BY AtDeadline, Constants
      <4>3. now - last_off.mono < FreshFor
        BY <1>0, <4>1, <4>2 DEF Measured
      <4>4. now - last_nudge > NudgeGap
        BY <1>0, <2>2, <4>2
      <4> QED
        BY <4>1, <4>3, <4>4 DEF Due, Measured
    <3>4. DeadlineInv'
      BY <1>0, <1>3, <3>3 DEF DeadlineInv, FirstSecond
    <3> QED
      BY <1>3, <3>2, <3>4
  <2> QED
    BY <2>4, <2>5
<1>7. CASE StepSecond
  <2>1. g'.pc = "write" /\ UNCHANGED <<last_nudge, quota>>
    BY <1>0, <1>7 DEF StepSecond, stepping, TypeOK
  <2>2. OffInv' /\ DeadlineInv'
    BY <1>0, <1>1, <1>3, <2>1 DEF OffInv, DeadlineInv, FirstSecond, Stepping
  <2> QED
    BY <1>3, <2>2
<1>8. CASE Status \/ PollTimeout
  <2>1. g.pc \in {"status", "poll"} /\ g'.pc \in {"poll", "check"} /\ UNCHANGED <<last_nudge, quota>>
    BY <1>0, <1>8 DEF Status, PollTimeout, stepping, TypeOK
  <2>2. OffInv'
    BY <1>0, <1>1, <2>1 DEF OffInv, Stepping
  <2>3. TrueSecond # FirstSecond + 4
    BY <1>0, <1>2, <2>1 DEF DeadlineInv, Stepping
  <2>4. DeadlineInv'
    BY <1>0, <1>3, <2>3 DEF DeadlineInv, FirstSecond
  <2> QED
    BY <1>3, <2>2, <2>4
<1> QED
  BY <1>5, <1>6, <1>7, <1>8

(* The gpio thread reads an edge: before the first sentence it is kept, later   *)
(* it is measured.                                                             *)
LEMMA WrongEdge ==
  ASSUME WrongState, EdgeTod
  PROVE  OffInv' /\ PunctualInv' /\ AnchorInv' /\ DeadlineInv'
<1>1. /\ TakeEdge /\ events # <<>> /\ mutex' = mutex
      /\ events' = Tail(events) /\ g.pc = "poll" /\ g'.pc = "check"
      /\ UNCHANGED <<now, err, phase, said, faults, anchor, last_nudge, quota, s>>
  BY DEF EdgeTod, TakeEdge, reference, stepping, WrongState, TypeOK
<1>2. /\ TypeOK /\ Head(events) \in EdgeType /\ EdgeAt(Head(events), TrueSecond)
      /\ events' = <<>> /\ ~Stepping /\ ~Stepping' /\ FirstSecond \in Nat
  BY <1>1, WrongFacts DEF Stepping
<1>3. s.pc = "idle" /\ now % Q = 0 /\ said = TrueSecond - 1
  BY <1>1 DEF WrongState, PunctualInv
<1>4. /\ TrueSecond \in Nat /\ TrueSecond' = TrueSecond /\ said \in Nat
      /\ pending \in Seq(EdgeType) /\ now \in Nat /\ anchor.S \in Nat /\ edge_count \in Nat
  BY <1>1, <1>2, TruthFacts DEF TrueSecond, TrueTime
<1>5. OffInv /\ AnchorInv /\ DeadlineInv /\ PunctualInv
  BY DEF WrongState
<1>a. Handled = said
  BY <1>3 DEF Handled
<1>6. AnchorInv'
  <2>1. Handled' = Handled
    BY <1>1 DEF Handled
  <2> QED
    BY <1>1, <1>2, <1>3, <1>4, <1>5, <1>a, <2>1 DEF AnchorInv, FirstSecond
<1>7. CASE said = FirstSecond
  <2>1. ~Fresh /\ TrueSecond # FirstSecond + 4
    BY <1>2, <1>3, <1>4, <1>5, <1>7, <1>a DEF AnchorInv, Fresh
  <2>2. UNCHANGED gate /\ pending' \in {pending, Append(pending, Head(events))}
    BY <2>1 DEF EdgeTod
  <2>3. ASSUME NEW i \in 1..Len(pending') PROVE EdgeAt(pending'[i], TrueSecond)
    <3>1. CASE pending' = pending
      BY <1>5, <2>3, <3>1 DEF PunctualInv
    <3>2. CASE pending' = Append(pending, Head(events))
      <4>1. \/ i \in 1..Len(pending) /\ pending'[i] = pending[i]
            \/ pending'[i] = Head(events)
        BY <1>2, <1>4, <2>3, <3>2, AppendProperties
      <4> QED
        BY <1>2, <1>5, <4>1 DEF PunctualInv
    <3> QED
      BY <2>2, <3>1, <3>2
  <2>4. PunctualInv'
    <3>1. \A i \in 1..Len(pending') : EdgeAt(pending[i], TrueSecond)'
      BY <1>1, <1>4, <2>3 DEF EdgeAt
    <3>2. said' # TrueSecond'
      <4>1. said # TrueSecond
        BY <1>3, <1>4
      <4> QED
        BY <1>1, <1>4, <4>1
    <3>3. Len(events') = 0 /\ s'.pc = "idle"
      BY <1>1, <1>2, <1>3
    <3> QED
      BY <1>2, <3>1, <3>2, <3>3 DEF PunctualInv
  <2>5. OffInv'
    BY <1>1, <1>2, <1>5, <2>2 DEF OffInv, gate
  <2>6. DeadlineInv'
    BY <1>4, <1>5, <2>1 DEF DeadlineInv, FirstSecond
  <2> QED
    BY <1>6, <2>4, <2>5, <2>6
<1>8. CASE said > FirstSecond
  <2>1. /\ anchor.valid /\ anchor.S = said /\ edge_count = 0
        /\ said * Q < Boot * Q + anchor.mono
    BY <1>1, <1>3, <1>5, <1>8, <1>a DEF AnchorInv
  <2>2. Fresh
    <3>1. /\ TrueSecond * Q \in Nat /\ Q \in Nat /\ Q > 1 /\ Boot * Q \in Nat
          /\ Boot * Q + now = TrueSecond * Q + (now % Q)
          /\ anchor.mono \in Nat /\ FreshFor \in Nat /\ Q <= FreshFor
      <4>1. Q <= FreshFor
        BY TodAssumption
      <4> QED
        BY <1>2, <4>1, TruthFacts
    <3>2. TrueSecond * Q = said * Q + Q /\ said * Q \in Nat
      <4>1. TrueSecond = said + 1
        BY <1>3, <1>4
      <4> QED
        BY <1>4, <3>1, <4>1, Z3
    <3> DEFINE B == Boot * Q
               T == TrueSecond * Q
               U == said * Q
    <3>3. B \in Nat /\ T \in Nat /\ U \in Nat /\ B + now = T /\ T = U + Q /\ U < B + anchor.mono
      BY <1>3, <2>1, <3>1, <3>2
    <3> HIDE DEF B, T, U
    <3>4. now - anchor.mono < FreshFor
      BY <1>4, <3>1, <3>3
    <3> QED
      BY <2>1, <3>4 DEF Fresh
  <2>3. Chain = TrueSecond
    BY <1>3, <1>4, <2>1 DEF Chain
  <2>4. EdgeSecond(edge_realtime(Head(events))) = TrueSecond
    BY <1>2, <1>4, <1>5, <2>3, ChainNames DEF OffInv
  <2>5. emit_sample(TrueSecond, Head(events), strike) /\ pending' = pending
    BY <2>2, <2>4 DEF EdgeTod
  <2>6. sample' = sample /\ last_off'.mono = now /\ Abs(last_off'.off) > Q
    BY <1>2, <1>4, <1>5, <2>5, WrongEmit DEF OffInv
  <2>7. OffInv'
    BY <1>1, <1>2, <1>5, <2>6 DEF OffInv
  <2>8. PunctualInv'
    BY <1>1, <1>2, <1>3, <1>4, <1>5, <2>5 DEF PunctualInv, EdgeAt
  <2>9. DeadlineInv'
    BY <1>1, <1>3, <1>4, <1>5, <2>6 DEF DeadlineInv, FirstSecond, Measured
  <2> QED
    BY <1>6, <2>7, <2>8, <2>9
<1> QED
  BY <1>2, <1>4, <1>5, <1>7, <1>8, <1>a DEF AnchorInv

(* A sentence arrives.                                                       *)
LEMMA WrongArrive ==
  ASSUME WrongState, NEW S \in parse_line, Arrive(S)
  PROVE  OffInv' /\ PunctualInv' /\ AnchorInv' /\ DeadlineInv'
<1>1. /\ now % Q # 0 /\ said # TrueSecond /\ said' = TrueSecond /\ s.pc = "idle"
      /\ s'.pc = "lock" /\ s'.S = S /\ s'.e = s.e
      /\ UNCHANGED <<now, err, phase, faults, events, g, last_nudge, quota, sample,
                     mutex, anchor, pending, edge_count>>
  BY WrongFacts DEF Arrive, gate, stepping, pairing, TypeOK
<1>2. S = TrueSecond /\ FirstSecond \in Nat /\ TypeOK
  BY WrongFacts DEF parse_line
<1>3. TrueSecond \in Nat /\ TrueSecond' = TrueSecond /\ said \in Nat
  BY <1>1, <1>2, TruthFacts DEF TrueSecond, TrueTime
<1>4. OffInv /\ AnchorInv /\ DeadlineInv /\ PunctualInv
  BY DEF WrongState
<1>5. Handled = said /\ Handled' = TrueSecond - 1 /\ said = TrueSecond - 1
  BY <1>1, <1>4 DEF AnchorInv, Handled
<1>6. events = <<>> /\ TrueSecond # FirstSecond + 4
  BY <1>1, <1>4 DEF PunctualInv, DeadlineInv
<1>7. OffInv'
  BY <1>1, <1>4 DEF OffInv, Stepping
<1>8. PunctualInv'
  BY <1>1, <1>2, <1>3, <1>4, <1>6 DEF PunctualInv, EdgeAt
<1>9. AnchorInv'
  BY <1>1, <1>3, <1>4, <1>5 DEF AnchorInv, FirstSecond
<1>10. DeadlineInv'
  BY <1>3, <1>4, <1>6 DEF DeadlineInv, FirstSecond
<1> QED
  BY <1>7, <1>8, <1>9, <1>10

(* It is handled.                                                            *)
LEMMA WrongSentence ==
  ASSUME WrongState, Sentence
  PROVE  OffInv' /\ PunctualInv' /\ AnchorInv' /\ DeadlineInv'
<1>1. /\ s.pc = "lock" /\ said' = said /\ mutex' = "serial"
      /\ pending' = <<>> /\ s'.pc = "emit" /\ s'.e = Paired
      /\ anchor'.valid = TRUE /\ anchor'.S = s.S /\ anchor'.mono = now
      /\ anchor'.seq = Sequel(s.S) /\ anchor'.prev = s.S
      /\ UNCHANGED <<now, err, phase, faults, events, g, last_nudge, quota, sample>>
  BY WrongFacts DEF Sentence, gate, stepping, reference, TypeOK
<1>2. FirstSecond \in Nat /\ TypeOK
  BY WrongFacts
<1>3. /\ TrueSecond \in Nat /\ TrueSecond' = TrueSecond /\ said \in Nat /\ now \in Nat
      /\ Boot * Q + now = TrueSecond * Q + (now % Q) /\ now % Q \in 0..(Q - 1)
      /\ TrueSecond * Q \in Nat /\ Boot * Q \in Nat /\ Q \in Nat
  BY <1>1, <1>2, TruthFacts DEF TrueSecond, TrueTime
<1>4. OffInv /\ AnchorInv /\ DeadlineInv /\ PunctualInv
  BY DEF WrongState
<1>5. said = TrueSecond /\ s.S = TrueSecond /\ now % Q # 0
  BY <1>1, <1>4 DEF PunctualInv
<1>a. Handled = TrueSecond - 1 /\ FirstSecond <= Handled /\ Handled' = TrueSecond
  BY <1>1, <1>4, <1>5 DEF AnchorInv, Handled
<1>6. events = <<>> /\ TrueSecond # FirstSecond + 4
  BY <1>1, <1>4 DEF PunctualInv, DeadlineInv
<1>7. OffInv'
  BY <1>1, <1>4 DEF OffInv, Stepping
<1>8. PunctualInv'
  <2>1. \A e \in Paired : EdgeAt(e, TrueSecond)
    BY <1>4 DEF PunctualInv, Paired
  <2> QED
    BY <1>1, <1>3, <1>5, <1>6, <2>1 DEF PunctualInv, EdgeAt
<1>9. TrueSecond * Q < Boot * Q + now
  <2> DEFINE r == now % Q
             T == TrueSecond * Q
             B == Boot * Q
  <2>1. r \in 0..(Q - 1) /\ r # 0 /\ T \in Nat /\ B \in Nat /\ B + now = T + r
    BY <1>3, <1>5
  <2> HIDE DEF r, T, B
  <2>2. T < B + now
    BY <1>3, <2>1
  <2> QED
    BY <2>2 DEF T, B
<1>10. Sequel(s.S) = TrueSecond - FirstSecond
  <2>1. CASE Handled = FirstSecond
    <3>1. anchor.prev = 0
      BY <1>4, <2>1 DEF AnchorInv
    <3> QED
      BY <1>2, <1>3, <1>a, <2>1, <3>1 DEF Sequel
  <2>2. CASE Handled > FirstSecond
    <3>1. anchor.prev = TrueSecond - 1 /\ anchor.seq = TrueSecond - 1 - FirstSecond
      BY <1>4, <1>a, <2>2 DEF AnchorInv
    <3>2. anchor.prev # 0
      BY <1>2, <1>3, <1>a, <2>2, <3>1
    <3> QED
      BY <1>2, <1>3, <1>5, <3>1, <3>2 DEF Sequel
  <2> QED
    BY <1>2, <1>3, <1>a, <2>1, <2>2
<1>11. AnchorInv'
  <2>1. TrueSecond > FirstSecond
    BY <1>2, <1>3, <1>a
  <2> QED
    BY <1>1, <1>2, <1>3, <1>5, <1>9, <1>10, <1>a, <2>1 DEF AnchorInv, FirstSecond
<1>12. DeadlineInv'
  BY <1>3, <1>4, <1>6 DEF DeadlineInv, FirstSecond
<1> QED
  BY <1>7, <1>8, <1>11, <1>12

(* The serial thread is done with it.                                         *)
LEMMA WrongSentenceDone ==
  ASSUME WrongState, SentenceDone
  PROVE  OffInv' /\ PunctualInv' /\ AnchorInv' /\ DeadlineInv'
<1>1. /\ s.pc = "emit" /\ edge_count' = 0 /\ mutex' = "free" /\ s'.pc = "idle"
      /\ UNCHANGED <<now, err, phase, said, faults, events, anchor, pending, g, last_nudge, quota>>
  BY DEF SentenceDone, reference, stepping
<1>2. OffInv /\ AnchorInv /\ DeadlineInv /\ PunctualInv /\ TypeOK /\ FirstSecond \in Nat
  BY WrongFacts DEF WrongState
<1>3. TrueSecond' = TrueSecond /\ TrueSecond \in Nat /\ said \in Nat
  BY <1>1, <1>2, TruthFacts DEF TrueSecond, TrueTime
<1>a. Handled = said /\ Handled' = said
  BY <1>1 DEF Handled
<1>4. /\ said = TrueSecond /\ said > FirstSecond /\ anchor.S = said /\ events = <<>>
      /\ TrueSecond # FirstSecond + 4
  <2>1. said = TrueSecond /\ events = <<>> /\ TrueSecond # FirstSecond + 4
    BY <1>1, <1>2 DEF PunctualInv, DeadlineInv
  <2>2. said # FirstSecond /\ FirstSecond <= said
    BY <1>1, <1>2, <1>a DEF AnchorInv
  <2>3. said > FirstSecond
    BY <1>2, <1>3, <2>2
  <2> QED
    BY <1>2, <1>a, <2>1, <2>3 DEF AnchorInv
<1>5. sample' = sample
  <2>1. CASE \E e \in s.e : emit_sample(anchor.S, e, s.strike)
    <3>1. PICK e \in s.e : emit_sample(anchor.S, e, s.strike)
      BY <2>1
    <3>2. e \in EdgeType /\ EdgeAt(e, TrueSecond)
      BY <1>1, <1>2 DEF PunctualInv, TypeOK
    <3> QED
      BY <1>2, <1>3, <1>4, <3>1, <3>2, WrongEmit DEF OffInv
  <2>2. CASE UNCHANGED gate
    BY <2>2 DEF gate
  <2> QED
    BY <2>1, <2>2 DEF SentenceDone
<1>6. OffInv'
  BY <1>1, <1>2, <1>5 DEF OffInv, Stepping
<1>7. PunctualInv'
  BY <1>1, <1>2, <1>3, <1>4 DEF PunctualInv, EdgeAt
<1>8. AnchorInv'
  BY <1>1, <1>2, <1>3, <1>4, <1>a DEF AnchorInv, FirstSecond
<1>9. DeadlineInv'
  BY <1>2, <1>3, <1>4 DEF DeadlineInv, FirstSecond
<1> QED
  BY <1>6, <1>7, <1>8, <1>9

(* Time passes, once both threads have done their work.                        *)
LEMMA WrongTick ==
  ASSUME WrongState, Tick
  PROVE  OffInv' /\ PunctualInv' /\ AnchorInv' /\ DeadlineInv'
<1>1. /\ now' = now + 1
      /\ UNCHANGED <<err, phase, said, faults, mutex, anchor, edge_count, pending, last_nudge,
                     quota, sample, g, s>>
  BY DEF Tick, reference, pairing, gate, stepping
<1>2. OffInv /\ AnchorInv /\ DeadlineInv /\ PunctualInv /\ TypeOK /\ FirstSecond \in Nat
  BY WrongFacts DEF WrongState
<1>3. /\ TrueSecond \in Nat /\ said \in Nat /\ now \in Nat /\ Q \in Nat /\ Q > 1
      /\ now % Q \in 0..(Q - 1) /\ TrueSecond = SecondAt(now)
  BY <1>2, TruthFacts
<1>4. TrueSecond' = SecondAt(now + 1)
  BY <1>1 DEF TrueSecond, TrueTime, SecondAt
<1>5. g.pc = "poll" /\ events = <<>> /\ s.pc = "idle"
  <2>1. ~Stuck /\ "late" \notin faults /\ "late_serial" \notin faults
    BY <1>2, WrongFacts DEF Stuck, OffInv
  <2>2. s.pc = "idle"
    BY <2>1 DEF Tick, Scheduled
  <2>3. mutex # "serial"
    BY <2>2 DEF WrongState, ClockInv, LagInv
  <2> QED
    BY <2>1, <2>2, <2>3 DEF Tick, Scheduled, GpioWorks
<1>a. Handled = said /\ Handled' = said /\ s'.pc = "idle"
  BY <1>1, <1>5 DEF Handled
<1>6. TrueSecond <= FirstSecond + 3
  <2>1. TrueSecond # FirstSecond + 4
    BY <1>2, <1>5 DEF DeadlineInv, Stepping
  <2> QED
    BY <1>2, <1>3, <2>1 DEF DeadlineInv
<1>7. OffInv'
  BY <1>1, <1>2 DEF OffInv, Stepping
<1> DEFINE lim == IF "jitter" \in faults THEN Q - 1 ELSE phase
<1>8. lim \in 1..(Q - 1)
  BY <1>2, <1>3 DEF TypeOK
<1>9. now % Q >= lim => said = TrueSecond
  <2>1. now % Q = lim => said = TrueSecond
    <3>1. SentenceDue <=> now % Q = lim
      BY DEF SentenceDue
    <3>2. ~Stuck /\ "lost_sentence" \notin faults
      BY <1>2, WrongFacts DEF Stuck, OffInv
    <3> QED
      BY <3>1, <3>2 DEF Tick
  <2>2. now % Q > lim => said = TrueSecond
    BY <1>2 DEF AnchorInv
  <2> HIDE DEF lim
  <2> QED
    BY <1>3, <1>8, <2>1, <2>2
<1>10. CASE (now + 1) % Q # 0
  <2>1. TrueSecond' = TrueSecond /\ (now + 1) % Q = (now % Q) + 1 /\ events' = events
    BY <1>3, <1>4, <1>10, NextSecond DEF Tick
  <2>2. PunctualInv'
    BY <1>1, <1>2, <1>5, <2>1 DEF PunctualInv, EdgeAt
  <2>3. (now + 1) % Q > lim => said = TrueSecond
    <3> HIDE DEF lim
    <3> QED
      BY <1>3, <1>8, <1>9, <2>1
  <2>4. AnchorInv'
    BY <1>1, <1>2, <1>5, <1>a, <2>1, <2>3 DEF AnchorInv, FirstSecond
  <2>5. DeadlineInv'
    <3>1. TrueSecond <= FirstSecond + 4 /\ TrueSecond # FirstSecond + 4
      BY <1>2, <1>3, <1>6
    <3> QED
      BY <2>1, <3>1 DEF DeadlineInv, FirstSecond
  <2> QED
    BY <1>7, <2>2, <2>4, <2>5
<1>11. CASE (now + 1) % Q = 0
  <2>1. /\ TrueSecond' = TrueSecond + 1 /\ TrueSecond' * Q = Boot * Q + now + 1
        /\ now % Q = Q - 1
    BY <1>3, <1>4, <1>11, NextSecond
  <2>2. said = TrueSecond
    <3> HIDE DEF lim
    <3> QED
      BY <1>3, <1>8, <1>9, <2>1
  <2> DEFINE e == Edge(now + 1)
  <2>3. events' = <<e>>
    <3>1. events' = Append(events, e)
      BY <1>11, WrongFacts DEF Tick
    <3> HIDE DEF e
    <3> QED
      BY <1>5, <3>1
  <2>4. EdgeAt(e, TrueSecond')
    <3>1. /\ e.mono = now + 1
          /\ e.ts = IF "realtime" \in faults THEN Boot * Q + (now + 1) + err ELSE now + 1
      BY DEF Edge
    <3>2. Boot * Q \in Nat
      BY Constants
    <3> DEFINE B == Boot * Q
    <3>3. B \in Nat /\ TrueSecond' * Q = B + now + 1
      BY <2>1, <3>2
    <3> HIDE DEF e, B
    <3>4. e.mono + B = TrueSecond' * Q
      BY <1>3, <3>1, <3>3
    <3> QED
      BY <3>1, <3>4 DEF EdgeAt, B
  <2> HIDE DEF e
  <2>5. Len(events') = 1 /\ events' # <<>> /\ \A i \in 1..Len(events') : events'[i] = e
    BY <2>3
  <2>6. pending' = <<>> /\ Len(pending') = 0
    BY <1>1, <1>2, <1>5, <2>2 DEF PunctualInv
  <2>7. said = TrueSecond' - 1
    BY <1>3, <2>1, <2>2
  <2>8. \A i \in 1..Len(events') : EdgeAt(events'[i], TrueSecond')
    BY <2>4, <2>5
  <2>9. PunctualInv'
    BY <1>1, <1>5, <1>11, <2>5, <2>6, <2>7, <2>8 DEF PunctualInv, EdgeAt
  <2>10. AnchorInv'
    <3>1. ~(now' % Q > lim)
      BY <1>1, <1>3, <1>8, <1>11
    <3>2. said > FirstSecond /\ s.pc = "idle" => edge_count = 0
      BY <1>2, <1>a, <2>2 DEF AnchorInv
    <3> QED
      BY <1>1, <1>2, <1>a, <2>7, <3>1, <3>2 DEF AnchorInv, FirstSecond
  <2>11. DeadlineInv'
    <3>1. TrueSecond' <= FirstSecond + 4
      BY <1>2, <1>3, <1>6, <2>1
    <3>2. TrueSecond' = FirstSecond + 4 => said = FirstSecond + 3
      BY <1>2, <1>3, <2>1, <2>2
    <3> QED
      BY <1>1, <1>5, <1>11, <2>5, <3>1, <3>2 DEF DeadlineInv, FirstSecond
  <2> QED
    BY <1>7, <2>9, <2>10, <2>11
<1> QED
  BY <1>10, <1>11

(* Every step that does not write the clock                                   *)
LEMMA WrongStep ==
  ASSUME WrongState, [Next]_vars, Wrong'
  PROVE  OffInv' /\ PunctualInv' /\ AnchorInv' /\ DeadlineInv'
<1>1. CASE Sentence \/ \E S \in parse_line : Arrive(S)
  BY <1>1, WrongSentence, WrongArrive
<1>2. CASE SentenceDone
  BY <1>2, WrongSentenceDone
<1>3. CASE EdgeTod
  BY <1>3, WrongEdge
<1>4. CASE Tick
  BY <1>4, WrongTick
<1>5. CASE CheckAnchor \/ Decide \/ StepSecond \/ Status \/ PollTimeout
  BY <1>5, WrongLoop
<1>6. CASE UNCHANGED vars
  <2>1. UNCHANGED <<now, err, faults, phase, said, events, anchor, edge_count, pending, s, g,
                    sample, quota, mutex, last_nudge, last_off>>
    BY <1>6 DEF vars, reference, pairing, gate, stepping
  <2>2. PunctualInv' /\ AnchorInv' /\ TrueSecond' = TrueSecond
    BY <2>1, WrongStill
  <2>3. OffInv'
    BY <2>1 DEF WrongState, OffInv, Stepping
  <2>4. DeadlineInv'
    BY <2>1, <2>2 DEF WrongState, DeadlineInv, FirstSecond, Measured, Stepping
  <2> QED
    BY <2>2, <2>3, <2>4
<1>7. CASE WriteClock
  BY <1>7 DEF WriteClock, Wrong
<1>8. CASE EdgeNtp \/ SetDate
  BY <1>8, WrongFacts DEF EdgeNtp, SetDate
<1>9. CASE Discipline
  BY <1>9 DEF Discipline, WrongState, OffInv
<1> QED
  BY <1>1, <1>2, <1>3, <1>4, <1>5, <1>6, <1>7, <1>8, <1>9 DEF Next

(* Steps are not undone.                                                      *)
LEMMA StepsStay ==
  ASSUME TypeOK, [Next]_vars
  PROVE  faults' = faults /\ steps \subseteq steps'
<1>1. faults' = faults
  BY ArriveFrame, SentenceFrame, QuietFrame, LoopFrame, DecideFrame, StepSecondFrame, WriteFrame, TickFrame
     DEF Next
<1>2. steps \subseteq steps'
  BY DEF Next, Arrive, Sentence, SentenceDone, CheckAnchor, Decide, StepSecond, WriteClock, Status,
     EdgeTod, EdgeNtp, TakeEdge, PollTimeout, Tick, Discipline, SetDate, stepping, vars
<1> QED
  BY <1>1, <1>2

(* A clock at least two seconds off is stepped in the fifth second after the     *)
(* start, for every error, every point of the second at which the sentences      *)
(* arrive, jittering or not, and with either clock for the stamps of the edges.  *)
THEOREM BadClockIsStepped == Spec => []BadClockStepped
<1>1. Init => BadInv
  <2> SUFFICES ASSUME Init, Wrong PROVE OffInv /\ PunctualInv /\ AnchorInv /\ DeadlineInv
    BY DEF BadInv
  <2>1. TypeOK
    BY InitTypes
  <2>2. TrueSecond = FirstSecond /\ TrueSecond \in Nat /\ said = TrueSecond
    BY <2>1, TruthFacts DEF Init, FirstSecond
  <2>3. OffInv
    <3>1. Abs(err) >= 2 * Q
      BY TodAssumption DEF Init, Wrong
    <3> QED
      BY <3>1 DEF Init, OffInv
  <2>4. PunctualInv
    BY DEF Init, PunctualInv
  <2>5. AnchorInv
    BY <2>2 DEF Init, AnchorInv, Handled
  <2>6. DeadlineInv
    BY <2>2 DEF DeadlineInv
  <2> QED
    BY <2>3, <2>4, <2>5, <2>6
<1>2. TypeOK /\ ClockInv /\ BadInv /\ [Next]_vars => BadInv'
  <2> SUFFICES ASSUME TypeOK, ClockInv, BadInv, [Next]_vars, Wrong'
               PROVE  OffInv' /\ PunctualInv' /\ AnchorInv' /\ DeadlineInv'
    BY DEF BadInv
  <2>1. faults' = faults /\ steps \subseteq steps'
    BY StepsStay
  <2>2. WrongState
    BY <2>1 DEF WrongState, BadInv, Wrong
  <2> QED
    BY <2>2, WrongStep
<1>3. TypeOK /\ BadInv => BadClockStepped
  <2> SUFFICES ASSUME TypeOK, Wrong, now > Start + 5 * Q, DeadlineInv PROVE FALSE
    BY DEF BadInv, BadClockStepped, Wrong
  <2>1. /\ TrueSecond \in Nat /\ now \in Nat /\ Q \in Nat /\ Q > 1 /\ Boot * Q \in Nat
        /\ TrueSecond * Q \in Nat /\ Boot * Q + now < TrueSecond * Q + Q
    BY TruthFacts
  <2>2. Start \in Nat
    BY Constants
  <2>3. /\ FirstSecond \in Nat /\ FirstSecond * Q \in Nat /\ Start % Q \in 0..(Q - 1)
        /\ Boot * Q + Start = FirstSecond * Q + (Start % Q)
    BY <2>2, Seconds DEF FirstSecond
  <2>4. TrueSecond <= FirstSecond + 4
    BY DEF DeadlineInv
  <2>5. TrueSecond * Q <= (FirstSecond + 4) * Q
    BY <2>1, <2>3, <2>4, Z3
  <2>6. (FirstSecond + 4) * Q = FirstSecond * Q + 4 * Q
    BY <2>1, <2>3, Z3
  <2> DEFINE B == Boot * Q
             T == TrueSecond * Q
             F == FirstSecond * Q
             r == Start % Q
  <2>7. /\ B \in Nat /\ T \in Nat /\ F \in Nat /\ r \in 0..(Q - 1)
        /\ B + now < T + Q /\ B + Start = F + r /\ T <= F + 4 * Q
    BY <2>1, <2>3, <2>5, <2>6
  <2> HIDE DEF B, T, F, r
  <2> QED
    BY <2>1, <2>2, <2>7
<1> QED
  BY <1>1, <1>2, <1>3, TodTypes, ClockInvariant, PTL DEF Spec

=============================================================================
