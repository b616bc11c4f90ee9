----------------------------- MODULE NicMonitor -----------------------------
(***************************************************************************)
(* The per-port NTP monitor, ntp_nic_monitor.c, as ntp-nic-monitor.service *)
(* runs it: one process that captures NTP requests from a packet socket,   *)
(* reads the responses from counters of iptables rules, and rewrites the   *)
(* snapshot ntp_nic.json that the monitoring page shows.                   *)
(*                                                                         *)
(* Everything is addressed by the wall clock, which the timing daemon and  *)
(* the operator set in both directions while the monitor runs: time(NULL)  *)
(* is read anew for every packet, for the loop, for every counter and for  *)
(* the snapshot.  "up" is real time.  A step of the process takes no time; *)
(* Tick says how long the process may stay where it is.                    *)
(*                                                                         *)
(* Left out are the layout of the JSON, the sums over windows that          *)
(* write_json derives from the minute rings (bucket_sum, with the masks of *)
(* the rings), and the width of the counters (2^32 packets a minute).      *)
(***************************************************************************)
EXTENDS Integers, FiniteSets, Functions

CONSTANTS
    Nics,        \* the ports (-n) that exist
    Ips,         \* client addresses
    Slots,       \* CLIENT_SLOTS
    Hash,        \* Hash[<<n, ip>>]: where the probing for a client starts
    Minute,      \* 60
    Buckets,     \* BUCKETS
    SSec,        \* SSEC
    Ttl,         \* CLIENT_TTL
    ExpireEvery, \* 60
    Top,         \* TOP_CLIENTS
    Interval,    \* -i
    Timeout,     \* of poll()
    RestartSec,  \* of the unit
    Lag,         \* longest time for a packet, and for a turn after the last one
    First, Last, \* the wall clock stays within First .. Last
    MaxFaults,   \* how often something may go wrong
    Scenarios    \* what happens around the monitor: one is picked at the start

NoRule == -1

FaultNames ==
    { "clock",     \* the wall clock is set
      "kill",      \* the process dies and systemd starts it again
      "iptables",  \* a command of iptables fails
      "counters",  \* an operator zeroes or flushes the rules
      "disk" }     \* the snapshot is not written, or not to its end

(* ips: the clients that send; kinds: whether their packets are NTP client  *)
(* requests; packets, answers: how many of them, and of the responses;      *)
(* noise: how many packets capture_drain may skip before the next snapshot; *)
(* rule: what the counting rules of the ports have at the start; until: how *)
(* long the behaviour goes on.                                              *)
Scenario == [faults : SUBSET FaultNames, ips : SUBSET Ips, kinds : SUBSET {0, 1},
             packets : Nat, answers : Nat, noise : Nat,
             rule : {NoRule} \union Nat, until : Nat]

ASSUME NicAssumption ==
    /\ {Slots, Minute, Buckets, SSec} \subseteq Nat \ {0}
    /\ Hash \in [Nics \X Ips -> 0 .. Slots - 1]
    /\ {Ttl, ExpireEvery, Top, Interval, Timeout, RestartSec, Lag} \subseteq Nat
    /\ {First, Last, MaxFaults} \subseteq Nat
    /\ First >= SSec /\ First >= Buckets * Minute /\ First <= Last
    /\ 0 < Interval /\ Interval <= First   \* main raises it to one; 1970 is long ago
    /\ Scenarios \subseteq Scenario

VARIABLES
    now, up,                \* wall clock and real time
    pc, wait,               \* where the process is, and since how long
    todo,                   \* the ports the present pass has still to do
    loopNow,                \* now of the main loop
    last_write, last_expire,
    req, valid, rsp,        \* NicStat: totals of each port
    ipt_rule, ipt_last,     \* NicStat: baseline and previous reading
    bucket, bucket_min,     \* NicStat: minute rings, their newest minute
    sreq, sreq_min,         \* NicStat: second ring, its newest second (0: none)
    clients,                \* g_clients: Free, or what is known of a client
    json,                   \* ntp_nic.json
    rule,                   \* the counter of each port's rule, NoRule if absent
    sc, nfaults,            \* the scenario, and how often something went wrong
    mlog, slog,             \* history: packets by minute and by second, see NicTraffic
    seen, counted, gone,    \* history: of each client, last packet, packets, expired ones
    refused,                \* history: clients whose last packet found the table full
    peak, back,             \* history: highest time of the clock, seconds set back
    written, drained,       \* history: real time of the last whole snapshot, or
                            \* Never, and the packets read since then
    sent, base              \* history: responses sent, those before the baseline

clockVars == <<now, up, peak, back>>
loopVars == <<pc, wait, todo, loopNow, last_write, last_expire>>
reqVars == <<req, valid, sreq, sreq_min, clients, slog, seen, counted, gone, refused>>
ringVars == <<bucket, bucket_min, mlog>>
rspVars == <<rsp, ipt_rule, ipt_last, base>>
outVars == <<json, written, drained>>
envVars == <<rule, sent, sc, nfaults>>
vars == <<clockVars, loopVars, reqVars, ringVars, rspVars, outVars, envVars>>

Kinds == {"req", "valid", "rsp"}
Client == Nics \X Ips
Never == -1
Free == [used |-> FALSE]
Entry(c, r, v, t) == [used |-> TRUE, client |-> c, req |-> r, valid |-> v, last |-> t]
NoLog(K, T) == [n \in Nics |-> [k \in K |-> [t \in 0 .. T |-> 0]]]
NoRing(size) == [i \in 0 .. size - 1 |-> 0]
LastMinute == Last \div Minute

(* No snapshot to show: none was written yet, or the file is cut short. *)
NoJson == [st |-> "none", ts |-> 0, total |-> 0, rows |-> [n \in Nics |-> {}],
           totals |-> [n \in Nics |-> <<0, 0, 0>>],
           minutes |-> [n \in Nics |-> [k \in Kinds |-> <<>>]],
           seconds |-> [n \in Nics |-> [k \in {"req"} |-> <<>>]]]
TornJson == [NoJson EXCEPT !.st = "torn"]

May(fault) == fault \in sc.faults /\ nfaults < MaxFaults

Minutes == INSTANCE NicTraffic WITH
    Size <- Buckets, Last <- LastMinute,
    log <- mlog, newest <- bucket_min, shown <- json.minutes
Seconds == INSTANCE NicTraffic WITH
    Kinds <- {"req"}, Size <- SSec,
    log <- slog, newest <- sreq_min, shown <- json.seconds

Init ==
    /\ now = First /\ up = 0 /\ peak = First /\ back = 0
    /\ sc \in Scenarios /\ nfaults = 0
    /\ pc = "down" /\ wait = 0 /\ todo = {} /\ loopNow = 0
    /\ last_write = 0 /\ last_expire = 0
    /\ req = [n \in Nics |-> 0] /\ valid = req /\ rsp = req
    /\ ipt_rule = req /\ ipt_last = req
    /\ bucket = [n \in Nics |-> [k \in Kinds |-> NoRing(Buckets)]]
    /\ bucket_min = [n \in Nics |-> First \div Minute]
    /\ sreq = [n \in Nics |-> NoRing(SSec)]
    /\ sreq_min = req
    /\ clients = [s \in 0 .. Slots - 1 |-> Free]
    /\ json = NoJson
    /\ rule = [n \in Nics |-> sc.rule]
    /\ mlog = NoLog(Kinds, LastMinute) /\ slog = NoLog({"req"}, Last)
    /\ seen = [c \in Client |-> 0] /\ counted = seen /\ gone = seen /\ refused = {}
    /\ written = Never /\ drained = 0
    /\ sent = req /\ base = req

-----------------------------------------------------------------------------
(* The rings *)

(* Mutant: a clock that was set back is no jump.                            *)
AdvanceForward(ring, newest, t, size) ==
    LET d == t - newest
        n == IF d > size THEN size ELSE d
    IN [i \in 0 .. size - 1 |->
          IF \E k \in 1 .. n : (newest + k) % size = i THEN 0 ELSE ring[i]]

(* Mutant: the slot of the new time is not cleared.                         *)
AdvanceShort(ring, newest, t, size) ==
    LET d == t - newest
        n == IF d < 0 \/ d > size THEN size ELSE d
    IN [i \in 0 .. size - 1 |->
          IF \E k \in 1 .. n - 1 : (newest + k) % size = i THEN 0 ELSE ring[i]]

(* bucket_advance, sec_advance: the slots of the skipped times are cleared, *)
(* all slots when the clock has jumped.                                     *)
Advance(ring, newest, t, size) ==
    LET d == t - newest
        n == IF d < 0 \/ d > size THEN size ELSE d
    IN [i \in 0 .. size - 1 |->
          IF \E k \in 1 .. n : (newest + k) % size = i THEN 0 ELSE ring[i]]

(* A ring brought forward to time t, and by more there. *)
CountAt(ring, newest, t, size, by) ==
    [Advance(ring, newest, t, size) EXCEPT ![t % size] = @ + by]

(* sec_advance: before the first packet there is nothing to clear. *)
SecCountAt(ring, newest, t) ==
    IF newest <= 0 THEN [ring EXCEPT ![t % SSec] = @ + 1]
    ELSE CountAt(ring, newest, t, SSec, 1)

(* The slot of time t, or 0 when the slot belongs to another time (the mask *)
(* of write_json, and of bucket_sum).                                       *)
Masked(ring, newest, t, size) ==
    IF t <= newest /\ newest - t < size THEN ring[t % size] ELSE 0

View(ring, newest, t, size) ==
    [u \in (t - size + 1) .. t |-> Masked(ring, newest, u, size)]

(* history: what is counted at a time before the newest one starts anew *)
LogAt(log, newest, t, by) ==
    LET kept == IF t < newest THEN [k \in DOMAIN log |-> [u \in DOMAIN log[k] |-> 0]]
                ELSE log
    IN [k \in DOMAIN log |-> [kept[k] EXCEPT ![t] = @ + by[k]]]

(* bucket_advance and the increments: by[k] more of every kind in minute m. *)
CountMinute(n, m, by) ==
    /\ bucket' = [bucket EXCEPT ![n] = [k \in Kinds |->
                    CountAt(bucket[n][k], bucket_min[n], m, Buckets, by[k])]]
    /\ bucket_min' = [bucket_min EXCEPT ![n] = m]
    /\ mlog' = [mlog EXCEPT ![n] = LogAt(mlog[n], bucket_min[n], m, by)]

-----------------------------------------------------------------------------
(* Clients *)

(* client_get: the first slot on the client's way that is free or its own. *)
Way(c) == [i \in 0 .. Slots - 1 |-> (Hash[c] + i) % Slots]
Takes(c, s) == IF clients[s].used THEN clients[s].client = c ELSE TRUE
Found(c) == {i \in 0 .. Slots - 1 : Takes(c, Way(c)[i])}
client_get(c) == Way(c)[CHOOSE i \in Found(c) : \A j \in Found(c) : i <= j]

(* Entered(c, s, v): c's entry once its packet is counted in slot s *)
Entered(c, s, v) ==
    LET old == clients[s] IN
    IF old.used THEN Entry(c, old.req + 1, old.valid + v, now)
    ELSE Entry(c, 1, v, now)

CountClient(c, v) ==
    IF Found(c) = {}
    THEN /\ refused' = refused \union {c}
         /\ UNCHANGED <<clients, seen, counted>>
    ELSE /\ clients' = [clients EXCEPT ![client_get(c)] = Entered(c, client_get(c), v)]
         /\ refused' = refused \ {c}
         /\ seen' = [seen EXCEPT ![c] = now]
         /\ counted' = [counted EXCEPT ![c] = @ + 1]

(* Mutant: one second early.                                                *)
ExpiredEarly(s, t) == IF clients[s].used THEN t - clients[s].last >= Ttl ELSE FALSE

(* clients_expire *)
Expired(s, t) == IF clients[s].used THEN t - clients[s].last > Ttl ELSE FALSE

EntriesOf(c) == {s \in 0 .. Slots - 1 : IF clients[s].used THEN clients[s].client = c ELSE FALSE}
Requests(S) == SumFunction([s \in S |-> clients[s].req])

clients_expire(t) ==
    /\ clients' = [s \in 0 .. Slots - 1 |-> IF Expired(s, t) THEN Free ELSE clients[s]]
    /\ gone' = [c \in Client |-> gone[c] + Requests({s \in EntriesOf(c) : Expired(s, t)})]

-----------------------------------------------------------------------------
(* The process *)

(* capture_drain reads a packet, and then the next one, until none is left: *)
(* packets that keep coming keep the process there.                         *)
Drain ==
    /\ pc \in {"poll", "drain"}
    /\ pc' = "drain" /\ wait' = 0
    /\ drained' = drained + 1
    /\ UNCHANGED <<todo, loopNow, last_write, last_expire, json, written>>

(* account: a request of client ip arrived at port n; v is 1 when it is an  *)
(* NTP client request (mode 3).                                             *)
Capture(n, ip, v) ==
    /\ Drain /\ ip \in sc.ips /\ v \in sc.kinds
    /\ req[n] < sc.packets
    /\ req' = [req EXCEPT ![n] = @ + 1]
    /\ valid' = [valid EXCEPT ![n] = @ + v]
    /\ CountMinute(n, now \div Minute,
                   [k \in Kinds |-> IF k = "req" THEN 1 ELSE IF k = "valid" THEN v ELSE 0])
    /\ sreq' = [sreq EXCEPT ![n] = SecCountAt(@, sreq_min[n], now)]
    /\ sreq_min' = [sreq_min EXCEPT ![n] = now]
    /\ slog' = [slog EXCEPT ![n] = LogAt(@, sreq_min[n], now, [k \in {"req"} |-> 1])]
    /\ CountClient(<<n, ip>>, v)
    /\ UNCHANGED <<clockVars, gone, rspVars, envVars>>

(* The packet is none of these: it is skipped. *)
Skip ==
    /\ Drain /\ drained < sc.noise
    /\ UNCHANGED <<clockVars, reqVars, ringVars, rspVars, envVars>>

(* Mutant: one second late.                                                 *)
WriteDueLate == now - last_write > Interval

WriteDue == now - last_write >= Interval

(* The loop after poll() and the last packet: the snapshot is due, or not    *)
(* yet.                                                                     *)
LoopTop ==
    /\ pc \in {"poll", "drain"}
    /\ loopNow' = now
    /\ wait' = 0
    /\ IF WriteDue
       THEN last_write' = now /\ pc' = "rsp" /\ todo' = Nics
       ELSE pc' = "expire" /\ UNCHANGED <<last_write, todo>>
    /\ UNCHANGED <<clockVars, last_expire, reqVars, ringVars, rspVars, outVars, envVars>>

(* Mutant: the first reading counts as traffic of this minute.              *)
DeltaFromZero(n) == IF rule[n] >= ipt_last[n] THEN rule[n] - ipt_last[n] ELSE 0

(* The responses since the previous reading; the first reading only says    *)
(* where the counter is.                                                    *)
Delta(n) ==
    IF ipt_last[n] # 0 /\ rule[n] >= ipt_last[n] THEN rule[n] - ipt_last[n] ELSE 0

(* poll_responses for port n, whose counter is read. *)
PollNic(n) ==
    /\ pc = "rsp" /\ n \in todo /\ rule[n] # NoRule
    /\ todo' = todo \ {n}
    /\ IF Delta(n) > 0
       THEN CountMinute(n, now \div Minute,
                        [k \in Kinds |-> IF k = "rsp" THEN Delta(n) ELSE 0])
       ELSE UNCHANGED ringVars
    /\ ipt_last' = [ipt_last EXCEPT ![n] = rule[n]]
    /\ rsp' = IF rule[n] >= ipt_rule[n] THEN [rsp EXCEPT ![n] = rule[n] - ipt_rule[n]] ELSE rsp
    /\ UNCHANGED <<clockVars, pc, wait, loopNow, last_write, last_expire, reqVars,
                   ipt_rule, base, outVars, envVars>>

(* poll_responses for a port whose counter cannot be read. *)
SkipNic(n) ==
    /\ pc = "rsp" /\ n \in todo
    /\ \/ rule[n] = NoRule /\ UNCHANGED nfaults
       \/ May("iptables") /\ nfaults' = nfaults + 1
    /\ todo' = todo \ {n}
    /\ UNCHANGED <<clockVars, pc, wait, loopNow, last_write, last_expire, reqVars,
                   ringVars, rspVars, outVars, rule, sent, sc>>

(* The rows of port n: at most Top of its clients, none with fewer requests *)
(* than one left out.                                                       *)
Rows(n) ==
    LET all == {s \in 0 .. Slots - 1 : IF clients[s].used THEN clients[s].client[1] = n ELSE FALSE}
        size == IF Cardinality(all) < Top THEN Cardinality(all) ELSE Top
        tops == {S \in SUBSET all : /\ Cardinality(S) = size
                                    /\ \A s \in S, r \in all \ S :
                                         clients[s].req >= clients[r].req}
    IN {clients[s] : s \in CHOOSE S \in tops : TRUE}

(* write_json, renamed over the old snapshot. *)
WriteJson ==
    /\ pc = "rsp" /\ todo = {}
    /\ pc' = "expire"
    /\ json' = [st |-> "whole", ts |-> now,
                total |-> Cardinality({s \in 0 .. Slots - 1 : clients[s].used}),
                rows |-> [n \in Nics |-> Rows(n)],
                totals |-> [n \in Nics |-> <<req[n], valid[n], rsp[n]>>],
                minutes |-> [n \in Nics |-> [k \in Kinds |->
                               View(bucket[n][k], bucket_min[n], now \div Minute, Buckets)]],
                seconds |-> [n \in Nics |-> [k \in {"req"} |->
                               View(sreq[n], sreq_min[n], now, SSec)]]]
    /\ written' = up /\ drained' = 0
    /\ UNCHANGED <<clockVars, wait, todo, loopNow, last_write, last_expire, reqVars,
                   ringVars, rspVars, envVars>>

(* write_json on a full disk: the temporary file cannot be opened or be     *)
(* renamed, and the old snapshot stays; or fprintf and fclose fail, which   *)
(* nobody looks at, and what there is of the file replaces the snapshot.    *)
WriteFails ==
    /\ pc = "rsp" /\ todo = {} /\ May("disk")
    /\ pc' = "expire"
    /\ json' \in {json, TornJson}
    /\ nfaults' = nfaults + 1
    /\ UNCHANGED <<clockVars, wait, todo, loopNow, last_write, last_expire, reqVars,
                   ringVars, rspVars, written, drained, rule, sent, sc>>

(* The end of the loop: clients expire by the time read at its top. *)
LoopEnd ==
    /\ pc = "expire"
    /\ pc' = "poll" /\ wait' = 0
    /\ IF loopNow - last_expire >= ExpireEvery
       THEN last_expire' = loopNow /\ clients_expire(loopNow)
       ELSE UNCHANGED <<last_expire, clients, gone>>
    /\ UNCHANGED <<clockVars, todo, loopNow, last_write, req, valid, sreq, sreq_min, slog,
                   seen, counted, refused, ringVars, rspVars, outVars, envVars>>

(* main up to ipt_setup: all state is new. *)
Start ==
    /\ pc = "down"
    /\ pc' = "setup" /\ wait' = 0 /\ todo' = Nics /\ loopNow' = 0
    /\ last_write' = 0 /\ last_expire' = 0
    /\ req' = [n \in Nics |-> 0] /\ valid' = req' /\ rsp' = req'
    /\ ipt_rule' = req' /\ ipt_last' = req'
    /\ bucket' = [n \in Nics |-> [k \in Kinds |-> NoRing(Buckets)]]
    /\ bucket_min' = [n \in Nics |-> now \div Minute]
    /\ sreq' = [n \in Nics |-> NoRing(SSec)]
    /\ sreq_min' = req'
    /\ clients' = [s \in 0 .. Slots - 1 |-> Free]
    /\ mlog' = NoLog(Kinds, LastMinute) /\ slog' = NoLog({"req"}, Last)
    /\ seen' = [c \in Client |-> 0] /\ counted' = seen' /\ gone' = seen' /\ refused' = {}
    /\ base' = sent
    /\ UNCHANGED <<clockVars, outVars, envVars>>

(* ipt_setup for port n: -C, and -I when that says the rule is absent.  A   *)
(* -C that fails for another reason puts a second rule before the first,    *)
(* and a -I that fails leaves the port without one.                         *)
SetupNic(n) ==
    /\ pc = "setup" /\ n \in todo
    /\ todo' = IF todo = {n} THEN Nics ELSE todo \ {n}
    /\ pc' = IF todo = {n} THEN "base" ELSE pc
    /\ \/ rule' = [rule EXCEPT ![n] = IF @ = NoRule THEN 0 ELSE @] /\ UNCHANGED nfaults
       \/ /\ May("iptables") /\ nfaults' = nfaults + 1
          /\ rule' = [rule EXCEPT ![n] = IF @ = NoRule THEN NoRule ELSE 0]
    /\ UNCHANGED <<clockVars, wait, loopNow, last_write, last_expire, reqVars, ringVars,
                   rspVars, outVars, sent, sc>>

(* ipt_baseline for port n: 0 when the counter cannot be read. *)
BaselineNic(n) ==
    /\ pc = "base" /\ n \in todo
    /\ todo' = todo \ {n}
    /\ pc' = IF todo = {n} THEN "poll" ELSE pc
    /\ wait' = IF todo = {n} THEN 0 ELSE wait
    /\ \/ /\ ipt_rule' = [ipt_rule EXCEPT ![n] = IF rule[n] = NoRule THEN 0 ELSE rule[n]]
          /\ UNCHANGED nfaults
       \/ /\ May("iptables") /\ nfaults' = nfaults + 1
          /\ ipt_rule' = [ipt_rule EXCEPT ![n] = 0]
    /\ base' = [base EXCEPT ![n] = IF ipt_rule'[n] = rule[n] \/ rule[n] = NoRule
                                   THEN sent[n] ELSE sent[n] - rule[n]]
    /\ UNCHANGED <<clockVars, loopNow, last_write, last_expire, reqVars, ringVars,
                   rsp, ipt_last, outVars, rule, sent, sc>>

Die ==
    /\ pc # "down" /\ May("kill")
    /\ pc' = "down" /\ wait' = 0
    /\ nfaults' = nfaults + 1
    /\ UNCHANGED <<clockVars, todo, loopNow, last_write, last_expire, reqVars, ringVars,
                   rspVars, outVars, rule, sent, sc>>

-----------------------------------------------------------------------------
(* Around the process *)

(* chronyd answers a request at port n: the first rule counts it. *)
Answer(n) ==
    /\ sent[n] < sc.answers
    /\ sent' = [sent EXCEPT ![n] = @ + 1]
    /\ rule' = [rule EXCEPT ![n] = IF @ = NoRule THEN @ ELSE @ + 1]
    /\ UNCHANGED <<clockVars, loopVars, reqVars, ringVars, rspVars, outVars, sc, nfaults>>

(* iptables -Z and -F by hand *)
Counters(n) ==
    /\ May("counters") /\ rule[n] # NoRule
    /\ \E c \in {NoRule, 0} : rule' = [rule EXCEPT ![n] = c]
    /\ nfaults' = nfaults + 1
    /\ UNCHANGED <<clockVars, loopVars, reqVars, ringVars, rspVars, outVars, sent, sc>>

(* How long the process stays where it is: poll() returns after Timeout,   *)
(* systemd starts the process again after RestartSec, and a packet, the    *)
(* rest of the loop and the start-up are done within Lag.                  *)
Patience == IF pc = "poll" THEN Timeout ELSE IF pc = "down" THEN RestartSec ELSE Lag

Tick ==
    /\ up < sc.until /\ now < Last /\ wait < Patience
    /\ up' = up + 1 /\ now' = now + 1 /\ wait' = wait + 1
    /\ peak' = IF now' > peak THEN now' ELSE peak
    /\ UNCHANGED <<back, pc, todo, loopNow, last_write, last_expire, reqVars, ringVars,
                   rspVars, outVars, envVars>>

(* pps_tod or the operator sets the clock. *)
SetClock(t) ==
    /\ May("clock") /\ t # now
    /\ now' = t
    /\ nfaults' = nfaults + 1
    /\ peak' = IF t > peak THEN t ELSE peak
    /\ back' = IF t < now THEN back + now - t ELSE back
    /\ UNCHANGED <<up, loopVars, reqVars, ringVars, rspVars, outVars, rule, sent, sc>>

Next ==
    \/ \E n \in Nics, ip \in Ips, v \in {0, 1} : Capture(n, ip, v)
    \/ Skip
    \/ LoopTop
    \/ \E n \in Nics : PollNic(n) \/ SkipNic(n)
    \/ WriteJson
    \/ WriteFails
    \/ LoopEnd
    \/ Start
    \/ \E n \in Nics : SetupNic(n) \/ BaselineNic(n)
    \/ Die
    \/ \E n \in Nics : Answer(n) \/ Counters(n)
    \/ Tick
    \/ \E t \in First .. Last : SetClock(t)

Spec == Init /\ [][Next]_vars

-----------------------------------------------------------------------------
(* Properties *)

TypeOK ==
    /\ now \in First .. Last /\ up \in Nat
    /\ pc \in {"down", "setup", "base", "poll", "drain", "rsp", "expire"}
    /\ todo \subseteq Nics
    /\ bucket \in [Nics -> [Kinds -> [0 .. Buckets - 1 -> Nat]]]
    /\ bucket_min \in [Nics -> (First \div Minute) .. LastMinute]
    /\ sreq \in [Nics -> [0 .. SSec - 1 -> Nat]]
    /\ sreq_min \in [Nics -> {0} \union First .. Last]
    /\ mlog \in [Nics -> [Kinds -> [0 .. LastMinute -> Nat]]]
    /\ slog \in [Nics -> [{"req"} -> [0 .. Last -> Nat]]]
    /\ rule \in [Nics -> Nat \union {NoRule}]
    /\ ipt_last \in [Nics -> Nat]

(* Ring of size slots holds what the log has for the size times up to the   *)
(* newest one, and the log has nothing after it.                            *)
Holds(ring, log, newest, size) ==
    /\ \A t \in DOMAIN log : t <= newest /\ newest - t < size => ring[t % size] = log[t]
    /\ \A t \in DOMAIN log : t > newest => log[t] = 0

(* RingInv: every slot of the minute rings and of the second ring holds the *)
(* packets of exactly one time, the one the masks of write_json and of      *)
(* bucket_sum take it for, however the clock has jumped (bucket_advance,    *)
(* sec_advance).                                                            *)
RingInv ==
    /\ TypeOK
    /\ \A n \in Nics, k \in Kinds :
         Holds(bucket[n][k], mlog[n][k], bucket_min[n], Buckets)
    /\ \A n \in Nics :
         IF sreq_min[n] = 0
         THEN sreq[n] = NoRing(SSec) /\ slog[n]["req"] = [t \in 0 .. Last |-> 0]
         ELSE Holds(sreq[n], slog[n]["req"], sreq_min[n], SSec)

(* RingsImplement: what the snapshot shows of the minutes and of the        *)
(* seconds is what a log of all packets since the start, or since a packet  *)
(* that came before an earlier one by the clock, would show, or nothing     *)
(* when the file is cut short.                                              *)
RingsImplement == Minutes!Spec /\ Seconds!Spec

(* SnapshotFresh: the last whole snapshot is no older than the interval, a  *)
(* turn of the loop, the seconds the clock was ever set back, and what the  *)
(* packets read since then have taken, for capture_drain reads them all     *)
(* before it looks at the time (main: now - last_write >= interval, which   *)
(* may have been one second short a turn ago).  A snapshot that failed or   *)
(* was cut short costs one more interval and turn, a death of the process   *)
(* one more start.                                                          *)
Turn == Timeout + Lag
Setback ==
    LET death == IF "kill" \in sc.faults THEN RestartSec + Turn + Lag ELSE 0
        failure == IF "disk" \in sc.faults THEN Interval - 1 + Turn ELSE 0
    IN IF death > failure THEN death ELSE failure
SnapshotFresh ==
    written # Never =>
      up - written <= Interval - 1 + Turn + Lag + back + drained * Lag + nfaults * Setback

(* ClientsListed: a client whose last packet the clock has not been more    *)
(* than Ttl past is in the table with the time of that packet, unless that  *)
(* packet found the table full; and its entries, which may be several since *)
(* clients_expire leaves no tombstones, hold every packet that has not      *)
(* expired, so that none is counted for another client.                     *)
ClientKept(c) ==
    seen[c] # 0 /\ c \notin refused /\ peak - seen[c] <= Ttl
      => \E s \in EntriesOf(c) : clients[s].last = seen[c]
ClientsListed ==
    pc # "down" =>
    \A c \in Client :
        /\ ClientKept(c)
        /\ Requests(EntriesOf(c)) + gone[c] = counted[c]

(* ResponsesTrue: neither the total nor the window of responses exceeds     *)
(* what chronyd sent since the baseline, whether the counters outlive the   *)
(* monitor, are zeroed or vanish; and while nobody touches them every       *)
(* response is in the total or still to be read (poll_responses).           *)
Reading == pc \in {"poll", "drain", "rsp", "expire"}
TotalTrue(n) ==
    /\ rsp[n] <= sent[n] - base[n]
    /\ ipt_last[n] # 0 /\ sc.faults \intersect {"counters", "iptables"} = {}
         => rsp[n] + (rule[n] - ipt_last[n]) = sent[n] - base[n]
ResponsesTrue ==
    Reading =>
    \A n \in Nics :
        /\ TotalTrue(n)
        /\ SumFunction(bucket[n]["rsp"]) <= sent[n] - base[n]
=============================================================================
