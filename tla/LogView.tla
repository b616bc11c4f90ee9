------------------------------ MODULE LogView ------------------------------
(***************************************************************************)
(* handle_tail of log.cgi.c: the last lines of a log that its writer goes  *)
(* on appending to.  The size is taken first, then at most TailWindow      *)
(* bytes are read from where the window starts; what the window begins     *)
(* with is dropped up to a newline, and the last lines that match are kept *)
(* in a ring of as many slots as lines are wanted.                         *)
(*                                                                         *)
(* A line is where it begins, its length and where in it the searched word *)
(* ends (0: it does not occur); a line ends with a newline of one byte,    *)
(* except the last one while its writer is in the middle of it.  Rotation  *)
(* renames the file or replaces it, which a reader that has it open does   *)
(* not notice.                                                             *)
(***************************************************************************)
EXTENDS Integers, Sequences, FiniteSets

CONSTANTS
    TailWindow,      \* TAIL_WINDOW
    MaxLines,        \* MAX_LINES
    Logs             \* [lines, lengths]: how the log may grow

ASSUME TailAssumption == TailWindow \in Nat \ {0} /\ MaxLines \in Nat \ {0}
ASSUME LogsAssumption == \A l \in Logs : l.lengths \subseteq Nat

VARIABLES
    log,             \* how the log of this behaviour grows
    file,            \* the lines of the log
    reader,          \* where the request is: idle, seek, read, done
    asked,           \* [want, grep]
    size, start,     \* what fstat said, and where the window starts
    window           \* the lines of the window, as read

logVars == <<log, file, reader, asked, size, start, window>>

LogInit ==
    /\ log \in Logs
    /\ file = << >>
    /\ reader = "idle"
    /\ asked = [want |-> 1, grep |-> FALSE]
    /\ size = 0 /\ start = 0
    /\ window = << >>

End(l) == l.from + l.len + (IF l.ended THEN 1 ELSE 0)
Bytes == IF file = << >> THEN 0 ELSE End(file[Len(file)])
Whole == \A i \in 1 .. Len(file) : file[i].ended

-----------------------------------------------------------------------------
(* The writer appends a line in one write or in two; what comes after the   *)
(* window was read is of no concern.                                        *)
AppendLine ==
    /\ reader # "done"
    /\ Whole /\ Len(file) < log.lines
    /\ \E len \in log.lengths, ended \in BOOLEAN :
         \E at \in {0, len} :
           /\ ended \/ len > 0
           /\ file' = Append(file, [from |-> Bytes, len |-> len, at |-> at, ended |-> ended])
    /\ UNCHANGED <<log, reader, asked, size, start, window>>

EndLine ==
    /\ reader # "done"
    /\ ~ Whole
    /\ \E more \in {0, 1} :
         LET l == file[Len(file)]
         IN \E at \in {l.at} \union (IF l.at = 0 THEN {l.len + more} ELSE {}) :
              file' = [file EXCEPT ![Len(file)] =
                         [from |-> l.from, len |-> l.len + more, at |-> at, ended |-> TRUE]]
    /\ UNCHANGED <<log, reader, asked, size, start, window>>

(* handle_tail: the parameters, open, fstat *)
Stat ==
    /\ reader = "idle"
    /\ \E lines \in 0 .. MaxLines + 1, grep \in BOOLEAN :
         asked' = [want |-> IF lines < 1 THEN 1 ELSE IF lines > MaxLines THEN MaxLines ELSE lines,
                   grep |-> grep]
    /\ size' = Bytes
    /\ start' = IF Bytes > TailWindow THEN Bytes - TailWindow ELSE 0
    /\ reader' = "read"
    /\ UNCHANGED <<log, file, window>>

windowed == size > TailWindow

(* What is read of line i, which begins in the window. *)
Visible(i) ==
    LET l == file[i]
        room == start + TailWindow - l.from
    IN IF l.len =< room THEN [no |-> i, len |-> l.len, at |-> l.at]
       ELSE [no |-> i, len |-> room, at |-> IF l.at > room THEN 0 ELSE l.at]

(* Lines the window does not show: of those before it, and of the one that  *)
(* reaches into it, everything up to the newline is dropped.                *)
Dropped == IF windowed THEN {i \in 1 .. Len(file) : file[i].from =< start} ELSE {}

(* Mutant: the line that reaches into the window is taken for a whole one.  *)
ReadTorn ==
    /\ reader = "read"
    /\ LET dropped == {i \in 1 .. Len(file) : file[i].from + file[i].len < start}
           shown == {i \in (1 .. Len(file)) \ dropped : file[i].from < start + TailWindow}
       IN window' = [n \in 1 .. Cardinality(shown) |->
            LET i == n + Cardinality(dropped)
            IN IF file[i].from < start
               THEN [no |-> i, len |-> file[i].from + file[i].len - start, at |-> 0]
               ELSE Visible(i)]
    /\ reader' = "done"
    /\ UNCHANGED <<log, file, asked, size, start>>

(* lseek, read until the window is full or the file ends, and the split *)
Read ==
    /\ reader = "read"
    /\ LET shown == {i \in (1 .. Len(file)) \ Dropped : file[i].from < start + TailWindow}
       IN window' = [n \in 1 .. Cardinality(shown) |-> Visible(n + Cardinality(Dropped))]
    /\ reader' = "done"
    /\ UNCHANGED <<log, file, asked, size, start>>

LogNext == AppendLine \/ EndLine \/ Stat \/ Read

LogSpec == LogInit /\ [][LogNext]_logVars

-----------------------------------------------------------------------------
(* The ring of the lines to return, the number that matched, and the answer *)
Matches(l) == asked.grep => l.at > 0
NoLines == [keep |-> [i \in 0 .. asked.want - 1 |-> << >>], ring |-> 0, nkeep |-> 0, matched |-> 0]
KeepLine(r, l) ==
    IF Matches(l)
    THEN [keep |-> [r.keep EXCEPT ![r.ring] = l],
          ring |-> (r.ring + 1) % asked.want,
          nkeep |-> IF r.nkeep < asked.want THEN r.nkeep + 1 ELSE r.nkeep,
          matched |-> r.matched + 1]
    ELSE r
KeepLines[n \in 0 .. Len(window)] == IF n = 0 THEN NoLines ELSE KeepLine(KeepLines[n - 1], window[n])
Kept == KeepLines[Len(window)]
Returned ==
    LET base == IF Kept.nkeep = asked.want THEN Kept.ring ELSE 0
    IN [i \in 1 .. Kept.nkeep |-> Kept.keep[(base + i - 1) % asked.want]]

-----------------------------------------------------------------------------
(* Properties *)

(* TailTrue: the answer is the last lines of the window that match, as many *)
(* as were wanted and in their order; which[i] is the i-th of them.  Every  *)
(* line that was complete when the size was taken and begins inside the     *)
(* window is in it, whole; the log growing under the reader tears no line   *)
(* but the last one (handle_tail).                                          *)
TailTrue ==
    reader = "done" =>
      LET match == {j \in 1 .. Len(window) : Matches(window[j])}
          shown == 1 .. Len(Returned)
          last == Len(window)
      IN /\ Len(Returned) =< asked.want
         /\ \E which \in [shown -> match] :
              LET Shown(j) == \E i \in shown : which[i] = j
              IN /\ \A i \in shown : Returned[i] = window[which[i]]
                 /\ \A i, l \in shown : i < l => which[i] < which[l]
                 /\ \A i \in shown, j \in match : which[i] < j => Shown(j)
                 /\ Len(Returned) < asked.want => \A j \in match : Shown(j)
         /\ Kept.matched = Cardinality(match)
         /\ \A j \in 1 .. last - 1 :
              LET l == file[window[j].no]
              IN /\ window[j + 1].no = window[j].no + 1
                 /\ l.len = window[j].len /\ l.at = window[j].at /\ l.ended
         /\ \A i \in 1 .. Len(file) :
              /\ End(file[i]) =< size
              /\ windowed => file[i].from > start
              => \E j \in 1 .. last : window[j].no = i /\ window[j].len = file[i].len
=============================================================================
