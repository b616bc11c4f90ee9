------------------------------ MODULE NtpStats ------------------------------
(***************************************************************************)
(* The NTP statistics: ntp_stats_sample.sh, started by a timer every       *)
(* minute, appends a row of counters to ntp_stats.csv and trims the file;  *)
(* ntpmon_stats_json loads the last rows into a ring and computes the      *)
(* requests per minute and per interface from their differences.           *)
(*                                                                         *)
(* One interface, one request counter of chronyd (hits) and one rule of    *)
(* iptables (rules: the first of the rules that match counts).  Both start *)
(* over: chronyd restarts, rules are flushed, and a rule whose check fails *)
(* is inserted once more.  A row also keeps what is only known to the      *)
(* model: the requests there had been when each counter was read.          *)
(*                                                                         *)
(* A full disk may take a part of a row.  It stays at the end of the file, *)
(* without a newline, and the next row is written on its line.  The part   *)
(* has fewer than ten numbers, so that it is not read as a row itself.     *)
(***************************************************************************)
EXTENDS Integers, Sequences

CONSTANTS
    KEEP, MaxRows,       \* rows the script keeps, rows the page loads
    Period, Late,        \* of the timer, and how late a row's time may be
    Window, Windows,     \* eth_delta windows: the one for "1m", and all
    Gap, PerMinute,      \* longest gap between rows in the series, one minute
    Mixed,               \* numbers that two rows on one line may be read as
    Samples              \* [samples, requests, faults]: what a behaviour may meet

ASSUME RowsAssumption == KEEP \in Nat /\ MaxRows \in 1 .. KEEP /\ Mixed \subseteq Nat

(* AccuracySec and the run time of the script against the 90 s window. *)
ASSUME WindowAssumption ==
    /\ {Period, Late, Window, Gap, PerMinute} \subseteq Nat
    /\ Window \in Windows /\ Windows \subseteq Nat
    /\ Period + Late =< Window /\ Window < 2 * Period - Late
    /\ 0 < Late /\ Late < Period

VARIABLES
    run,                 \* what this behaviour may meet
    step, k,             \* where the script is, and in which activation
    hits, rules,         \* counters: of chronyd, of the rules of the interface
    clock,               \* how far the wall clock has been stepped
    row,                 \* the row under construction
    csv, tmpcsv,         \* the lines of the file and of ntp_stats.csv.tmp
    cut,                 \* whether the file ends with a part of a row
    requests,            \* history: number of requests
    hitsEra, ruleEra,    \* history: number of restarts of each counter
    appended             \* history: all lines

counterVars == <<hits, rules, requests, hitsEra, ruleEra>>
statsVars == <<run, step, k, clock, row, csv, tmpcsv, cut, appended, counterVars>>

NoRow == [k |-> 0]

StatsInit ==
    /\ run \in Samples
    /\ step = "idle" /\ k = 0
    /\ hits = 0 /\ rules = << >> /\ clock = 0
    /\ row = NoRow /\ csv = << >> /\ tmpcsv = << >> /\ cut = FALSE
    /\ requests = 0 /\ hitsEra = 0 /\ ruleEra = 0
    /\ appended = << >>

Fault(f) == f \in run.faults

-----------------------------------------------------------------------------
(* The script *)

(* The timer elapses.  Activations while the board is off are lost. *)
Activate ==
    /\ step = "idle" /\ k < run.samples
    /\ k' = k + 1
    /\ step' = "check" \/ (Fault("off") /\ step' = "idle")
    /\ row' = [k |-> k + 1]
    /\ UNCHANGED <<run, clock, csv, tmpcsv, cut, appended, counterVars>>

(* iptables -C || iptables -I.  Without -w both fail when another iptables  *)
(* holds the lock: an existing rule is then inserted anew, or none at all.  *)
CheckRule ==
    /\ step = "check"
    /\ \/ Len(rules) > 0 /\ UNCHANGED <<rules, ruleEra>>
       \/ /\ Len(rules) = 0 \/ Fault("iptables")
          /\ rules' = <<0>> \o rules /\ ruleEra' = ruleEra + 1
       \/ Fault("iptables") /\ UNCHANGED <<rules, ruleEra>>
    /\ step' = "chronyc"
    /\ UNCHANGED <<run, k, clock, row, csv, tmpcsv, cut, appended, hits, requests, hitsEra>>

(* chronyc -c serverstats.  When chronyd does not answer, chronyc prints    *)
(* nothing, which reads as zeros, or a message, which spoils the row.       *)
ReadHits ==
    LET With(n, era, text) == [k |-> k, hits |-> n, heard |-> requests,
                               hitsEra |-> era, text |-> text]
    IN /\ step = "chronyc"
       /\ \/ row' = With(hits, hitsEra, FALSE)
          \/ Fault("chronyc") /\ row' \in {With(0, -1, FALSE), With(0, -1, TRUE)}
       /\ step' = "list"
       /\ UNCHANGED <<run, k, clock, csv, tmpcsv, cut, appended, counterVars>>

(* iptables -nvx -L INPUT: the first rule of the interface, or 0. *)
ReadEth ==
    LET With(n, era) == [eth |-> n, seen |-> requests, ruleEra |-> era, k |-> k,
                         hits |-> row.hits, heard |-> row.heard,
                         hitsEra |-> row.hitsEra, text |-> row.text]
    IN /\ step = "list"
       /\ \/ Len(rules) > 0 /\ row' = With(rules[1], ruleEra)
          \/ (Len(rules) = 0 \/ Fault("iptables")) /\ row' = With(0, -1)
       /\ step' = "append"
       /\ UNCHANGED <<run, k, clock, csv, tmpcsv, cut, appended, counterVars>>

(* Two rows on one line: parse_row takes the first ten numbers, which are   *)
(* of one and of the other.                                                 *)
TwoRows(n, text) == [t |-> n, r |-> [eth |-> n, seen |-> requests, ruleEra |-> -1, k |-> 0,
                                     hits |-> n, heard |-> requests, hitsEra |-> -1,
                                     text |-> text]]

Write(line) ==
    csv' = Append(csv, line) /\ appended' = Append(appended, line) /\ cut' = FALSE

(* echo "$(date +%s),$SS$counts" >> "$CSV", of which a full disk may take   *)
(* nothing or a part.                                                       *)
Append1 ==
    /\ step = "append"
    /\ \/ \E late \in IF Fault("late") THEN 0 .. Late ELSE {0} :
            ~ cut /\ Write([t |-> clock + k * Period + late, r |-> row])
       \/ \E n \in Mixed, text \in {FALSE, row.text} : cut /\ Write(TwoRows(n, text))
       \/ Fault("disk") /\ cut' \in {cut, TRUE} /\ UNCHANGED <<csv, appended>>
    /\ step' = "trim" /\ row' = NoRow
    /\ UNCHANGED <<run, k, clock, tmpcsv, counterVars>>

(* tail counts a part of a row as a line, wc does not. *)
Last == IF cut THEN KEEP - 1 ELSE KEEP

(* Mutant: the last KEEP rows are kept in the file itself.                  *)
TrimInPlace ==
    /\ step = "trim"
    /\ IF Len(csv) > 2 * KEEP
       THEN /\ csv' = << >>
            /\ tmpcsv' = SubSeq(csv, Len(csv) - Last + 1, Len(csv))
            /\ step' = "mv"
       ELSE step' = "idle" /\ UNCHANGED <<csv, tmpcsv>>
    /\ UNCHANGED <<run, k, clock, row, cut, appended, counterVars>>

(* tail -n "$KEEP" "$CSV" > "$CSV.tmp", which may stop half-way. *)
Trim ==
    /\ step = "trim"
    /\ IF Len(csv) > 2 * KEEP
       THEN \/ /\ tmpcsv' = SubSeq(csv, Len(csv) - Last + 1, Len(csv))
               /\ step' = "mv"
            \/ /\ Fault("disk")
               /\ \E n \in 0 .. Last - 1 :
                    tmpcsv' = SubSeq(csv, Len(csv) - Last + 1, Len(csv) - Last + n)
               /\ step' = "idle"
       ELSE step' = "idle" /\ UNCHANGED tmpcsv
    /\ UNCHANGED <<run, k, clock, row, csv, cut, appended, counterVars>>

(* && mv "$CSV.tmp" "$CSV" *)
Move ==
    /\ step = "mv"
    /\ csv' = tmpcsv /\ tmpcsv' = << >>
    /\ step' = "idle"
    /\ UNCHANGED <<run, k, clock, row, cut, appended, counterVars>>

KillSampler ==
    /\ Fault("kill") /\ step # "idle"
    /\ step' = "idle" /\ row' = NoRow
    /\ UNCHANGED <<run, k, clock, csv, tmpcsv, cut, appended, counterVars>>

-----------------------------------------------------------------------------
(* What it samples *)

Request ==
    /\ requests < run.requests
    /\ requests' = requests + 1
    /\ hits' = hits + 1
    /\ rules' = IF Len(rules) > 0 THEN [rules EXCEPT ![1] = @ + 1] ELSE rules
    /\ UNCHANGED <<run, step, k, clock, row, csv, tmpcsv, cut, appended, hitsEra, ruleEra>>

ChronydRestart ==
    /\ Fault("restart") /\ hits > 0
    /\ hits' = 0 /\ hitsEra' = hitsEra + 1
    /\ UNCHANGED <<run, step, k, clock, row, csv, tmpcsv, cut, appended, rules, requests, ruleEra>>

FlushRules ==
    /\ Fault("restart") /\ Len(rules) > 0
    /\ rules' = << >> /\ ruleEra' = ruleEra + 1
    /\ UNCHANGED <<run, step, k, clock, row, csv, tmpcsv, cut, appended, hits, requests, hitsEra>>

StepClock ==
    /\ Fault("clock") /\ clock = 0
    /\ clock' \in {- Period, Period}
    /\ UNCHANGED <<run, step, k, row, csv, tmpcsv, cut, appended, counterVars>>

StatsNext ==
    \/ Activate \/ CheckRule \/ ReadHits \/ ReadEth \/ Append1 \/ Trim \/ Move
    \/ KillSampler
    \/ Request \/ ChronydRestart \/ FlushRules \/ StepClock

StatsSpec == StatsInit /\ [][StatsNext]_statsVars

-----------------------------------------------------------------------------
(* ntpmon_stats_json *)

(* The ring of rows: a row that parses overwrites the oldest one when all   *)
(* are taken.                                                               *)
NoRows == [rows |-> [i \in 0 .. MaxRows - 1 |-> NoRow], nrows |-> 0, head |-> 0]
parse_row(r) == ~ r.r.text
LoadRow(ring, r) ==
    IF parse_row(r)
    THEN [rows |-> [ring.rows EXCEPT ![(ring.head + ring.nrows) % MaxRows] = r],
          nrows |-> IF ring.nrows < MaxRows THEN ring.nrows + 1 ELSE ring.nrows,
          head |-> IF ring.nrows < MaxRows THEN ring.head ELSE (ring.head + 1) % MaxRows]
    ELSE ring
LoadRows[n \in 0 .. Len(csv)] == IF n = 0 THEN NoRows ELSE LoadRow(LoadRows[n - 1], csv[n])
Loaded == LoadRows[Len(csv)]
Row(ring, j) == ring.rows[(ring.head + j) % MaxRows]

(* series: requests per minute since the row before, -1 where there are none *)
PerMinuteOf(before, r) ==
    LET d == r.r.hits - before.r.hits
        dt == r.t - before.t
    IN IF d >= 0 /\ dt > 0 /\ dt =< Gap THEN (d * PerMinute) \div dt ELSE -1

(* Mutant: the row that ends the search is taken as the base.               *)
BaseOutside(ring, window) ==
    LET last == Row(ring, ring.nrows - 1)
        Outside(j) == last.t - Row(ring, j).t > window
    IN CHOOSE j \in 0 .. ring.nrows - 1 :
         /\ \A i \in j + 1 .. ring.nrows - 1 : ~ Outside(i)
         /\ j = 0 \/ Outside(j)

(* eth_delta: back from the last row to the first one outside of the window *)
Base(ring, window) ==
    LET last == Row(ring, ring.nrows - 1)
        Outside(j) == last.t - Row(ring, j).t > window
    IN CHOOSE j \in 0 .. ring.nrows - 1 :
         /\ \A i \in j .. ring.nrows - 1 : ~ Outside(i)
         /\ j > 0 => Outside(j - 1)

(* Mutant: a counter that started over is not taken care of.                *)
DeltaSigned(ring, window) ==
    Row(ring, ring.nrows - 1).r.eth - Row(ring, Base(ring, window)).r.eth

eth_delta(ring, window) ==
    LET v == Row(ring, ring.nrows - 1).r.eth - Row(ring, Base(ring, window)).r.eth
    IN IF v < 0 THEN 0 ELSE v

-----------------------------------------------------------------------------
(* Properties *)

(* RowsKept: whenever the page is loaded, it shows the latest lines that    *)
(* make sense, in order and without a gap, and all those among the last     *)
(* KEEP as far as there is room: neither the trimming of the file nor its   *)
(* end half-way costs a line that is still shown (ntp_stats_sample.sh,      *)
(* ntpmon_stats_json).  which[j] is the line shown at j.                    *)
RowsKept ==
    LET ring == Loaded
        sensible == {i \in 1 .. Len(appended) : parse_row(appended[i])}
        shown == 0 .. ring.nrows - 1
    IN /\ ring.nrows =< MaxRows
       /\ \E which \in [shown -> sensible] :
            LET Shown(i) == \E j \in shown : which[j] = i
            IN /\ \A j \in shown : Row(ring, j) = appended[which[j]]
               /\ \A j, l \in shown : j < l => which[j] < which[l]
               /\ \A j \in shown, i \in sensible : which[j] < i => Shown(i)
               /\ ring.nrows < MaxRows =>
                    \A i \in sensible : Len(appended) - i < Last => Shown(i)

(* A line with one row on it, as opposed to TwoRows. *)
OneRow(line) == line.r.k # 0

(* RatesTrue: no number on the page counts a request that was not there.    *)
(* Between two rows that were really read the difference is at most the     *)
(* requests of that time, through restarts of chronyd, flushed and stacked  *)
(* rules and steps of the clock, and exactly those when no counter started  *)
(* over (ntpmon_stats_json, eth_delta).                                     *)
RatesTrue ==
    LET ring == Loaded
        last == Row(ring, ring.nrows - 1)
    IN ring.nrows > 0 =>
         /\ \A i \in 1 .. ring.nrows - 1 :
              LET a == Row(ring, i - 1)
                  b == Row(ring, i)
                  m == PerMinuteOf(a, b)
                  all == (b.r.heard - a.r.heard) * PerMinute
              IN a.r.hitsEra # -1 /\ OneRow(b) /\ m # -1 =>
                   /\ m >= 0 /\ m * (b.t - a.t) =< all
                   /\ a.r.hitsEra = b.r.hitsEra => all < (m + 1) * (b.t - a.t)
         /\ \A w \in Windows :
              LET base == Row(ring, Base(ring, w))
                  delta == eth_delta(ring, w)
              IN base.r.ruleEra # -1 /\ OneRow(last) =>
                   /\ delta >= 0 /\ delta =< last.r.seen - base.r.seen
                   /\ base.r.ruleEra = last.r.ruleEra => delta = last.r.seen - base.r.seen

(* MinuteCovered: with a clock that was not stepped, the "1m" number spans  *)
(* exactly the interval since the previous activation of the timer, however *)
(* late the two rows are; when that one left no row it spans none           *)
(* (g_eth_win).  A line of two rows has no time to speak of.                *)
MinuteCovered ==
    LET ring == Loaded
        prev == Row(ring, ring.nrows - 2)
        last == Row(ring, ring.nrows - 1)
    IN ring.nrows > 1 /\ clock = 0 /\ (\A j \in 0 .. ring.nrows - 1 : OneRow(Row(ring, j))) =>
         Base(ring, Window) = IF last.r.k = prev.r.k + 1 THEN ring.nrows - 2
                                                         ELSE ring.nrows - 1
=============================================================================
