----------------------------- MODULE PagesProofs -----------------------------
(***************************************************************************)
(* Of the page of NTP statistics (NtpStats): that it shows the latest rows *)
(* (RowsKept), that no number on it counts a request that was not there    *)
(* (RatesTrue) and that its "1m" spans one activation of the timer         *)
(* (MinuteCovered), for any sizes of file and ring, any windows and every  *)
(* mix of faults.  Of the log viewer (LogView): that it returns the last   *)
(* lines, whole (TailTrue), for any window, number of lines and log.       *)
(***************************************************************************)
EXTENDS NtpStats, LogView, SequenceTheorems, FiniteSetTheorems, WellFoundedInduction, TLAPS

-----------------------------------------------------------------------------
(* Natural numbers *)

(* LEMMA Smallest: a set of numbers has a smallest one. *)
LEMMA Smallest ==
    ASSUME NEW T \in SUBSET Nat, T # {}
    PROVE  \E x \in T : \A y \in T : x =< y
  <1>1. PICK x \in T : \A y \in T : ~ (<<y, x>> \in OpToRel(<, Nat))
    BY NatLessThanWellFounded, WFMin
  <1>2. \A y \in T : ~ (y < x)
    BY <1>1 DEF OpToRel
  <1> QED  BY <1>2

(* LEMMA Upwards: what holds of 0 and is passed on holds of every number. *)
LEMMA Upwards ==
    ASSUME NEW S, 0 \in S, \A n \in Nat : n \in S => n + 1 \in S
    PROVE  Nat \subseteq S
  <1> SUFFICES ASSUME Nat \ S # {} PROVE FALSE
    OBVIOUS
  <1>1. PICK x \in Nat \ S : \A y \in Nat \ S : x =< y
    BY Smallest
  <1>2. x - 1 \in Nat /\ x - 1 \in S
    BY <1>1
  <1> QED  BY <1>1, <1>2

(* LEMMA Quotient: what division leaves out. *)
LEMMA Quotient ==
    ASSUME NEW x \in Nat, NEW s \in Nat \ {0}
    PROVE  /\ x \div s \in Nat
           /\ (x \div s) * s =< x
           /\ x < (x \div s + 1) * s
  BY Z3

(* LEMMA Wraps: the slots after slot h of a ring of m. *)
LEMMA Wraps ==
    ASSUME NEW m \in Nat \ {0}, NEW h \in 0 .. m - 1, NEW j \in 0 .. m
    PROVE  (h + j) % m = IF h + j < m THEN h + j ELSE h + j - m
  <1>1. CASE h + j < m
    BY <1>1, Z3
  <1>2. CASE h + j >= m
    BY <1>2, Z3
  <1> QED  BY <1>1, <1>2

-----------------------------------------------------------------------------
(* Rings *)

(* A ring of cap slots that keeps the latest elements of s that are good: its *)
(* element j, and where it comes from, the idx[j]-th of the n read so far.    *)
Slot(ring, cap, j) == ring.rows[(ring.head + j) % cap]
RingOf(ring, cap, s, good, n, idx) ==
    /\ ring.nrows \in 0 .. cap /\ ring.head \in 0 .. cap - 1
    /\ ring.nrows < cap => ring.head = 0
    /\ ring.rows = [i \in 0 .. cap - 1 |-> ring.rows[i]]
    /\ idx \in [0 .. ring.nrows - 1 -> 1 .. n]
    /\ \A j \in 0 .. ring.nrows - 1 : Slot(ring, cap, j) = s[idx[j]] /\ idx[j] \in good
    /\ \A j, l \in 0 .. ring.nrows - 1 : j < l => idx[j] < idx[l]
    /\ \A i \in 1 .. n : /\ i \in good
                         /\ ring.nrows < cap \/ (\E j \in 0 .. ring.nrows - 1 : idx[j] < i)
                         => \E j \in 0 .. ring.nrows - 1 : idx[j] = i

(* LEMMA RingSkips: an element that is not good changes nothing. *)
LEMMA RingSkips ==
    ASSUME NEW ring, NEW cap \in Nat \ {0}, NEW s, NEW good, NEW n \in Nat, NEW idx,
           RingOf(ring, cap, s, good, n, idx), n + 1 \notin good
    PROVE  RingOf(ring, cap, s, good, n + 1, idx)
  <1>1. ring.nrows \in Nat
    BY DEF RingOf
  <1>2. idx \in [0 .. ring.nrows - 1 -> 1 .. n + 1]
    BY <1>1 DEF RingOf
  <1>3. \A i \in 1 .. n + 1 : i \in good => i \in 1 .. n
    OBVIOUS
  <1> QED  BY <1>2, <1>3 DEF RingOf

(* LEMMA RingFills: the next element takes a slot that was free. *)
LEMMA RingFills ==
    ASSUME NEW ring, NEW cap \in Nat \ {0}, NEW s, NEW good, NEW n \in Nat, NEW idx,
           RingOf(ring, cap, s, good, n, idx), n + 1 \in good, ring.nrows < cap,
           NEW next,
           /\ next.rows = [ring.rows EXCEPT ![ring.nrows] = s[n + 1]]
           /\ next.nrows = ring.nrows + 1 /\ next.head = 0
    PROVE  \E new : RingOf(next, cap, s, good, n + 1, new)
  <1> DEFINE m == ring.nrows
             new == [j \in 0 .. m |-> IF j = m THEN n + 1 ELSE idx[j]]
  <1>1. /\ m \in Nat /\ cap \in Nat \ {0} /\ m < cap /\ ring.head = 0
        /\ ring.rows = [i \in 0 .. cap - 1 |-> ring.rows[i]]
        /\ idx \in [0 .. m - 1 -> 1 .. n]
    BY DEF RingOf
  <1>14. m = ring.nrows
    OBVIOUS
  <1> HIDE DEF m
  <1>0. ASSUME NEW j \in 0 .. m PROVE (0 + j) % cap = j
    <2>1. cap \in Nat \ {0} /\ 0 \in 0 .. cap - 1 /\ j \in 0 .. cap /\ 0 + j < cap
      BY <1>1
    <2>2. (0 + j) % cap = IF 0 + j < cap THEN 0 + j ELSE 0 + j - cap
      BY <2>1, Wraps, Zenon
    <2> QED  BY <2>1, <2>2
  <1>3. /\ next.rows = [ring.rows EXCEPT ![m] = s[n + 1]]
        /\ next.nrows = m + 1 /\ next.head = 0
    BY <1>1, <1>14
  <1>4. ASSUME NEW j \in 0 .. m PROVE Slot(next, cap, j) = next.rows[j]
    BY <1>0, <1>3 DEF Slot
  <1>5. ASSUME NEW j \in 0 .. m - 1 PROVE Slot(ring, cap, j) = ring.rows[j]
    <2>1. j \in 0 .. m
      BY <1>1
    <2> QED  BY <1>0, <1>1, <2>1 DEF Slot
  <1>6. new \in [0 .. m -> 1 .. n + 1]
    BY <1>1
  <1>7. new[m] = n + 1 /\ \A j \in 0 .. m - 1 : new[j] = idx[j] /\ idx[j] \in 1 .. n
    <2>1. m \in 0 .. m /\ \A j \in 0 .. m - 1 : j \in 0 .. m /\ j # m
      BY <1>1
    <2>2. \A j \in 0 .. m - 1 : idx[j] \in 1 .. n
      BY <1>1
    <2> QED  BY <2>1, <2>2
  <1> HIDE DEF new
  <1>8. ASSUME NEW j \in 0 .. m PROVE Slot(next, cap, j) = s[new[j]] /\ new[j] \in good
    <2>1. CASE j = m
      <3>1. next.rows[m] = s[n + 1]
        <4>1. m \in 0 .. cap - 1
          BY <1>1
        <4>2. m \in DOMAIN ring.rows
          BY <1>1, <4>1
        <4> QED  BY <1>3, <4>2
      <3> QED  BY <1>4, <1>7, <2>1, <3>1
    <2>2. CASE j \in 0 .. m - 1
      <3>1. next.rows[j] = ring.rows[j]
        BY <1>1, <1>3, <2>2
      <3>2. Slot(ring, cap, j) = s[idx[j]] /\ idx[j] \in good
        BY <1>14, <2>2 DEF RingOf
      <3> QED  BY <1>4, <1>5, <1>7, <2>2, <3>1, <3>2
    <2> QED  BY <1>1, <2>1, <2>2
  <1>9. ASSUME NEW j \in 0 .. m, NEW l \in 0 .. m, j < l PROVE new[j] < new[l]
    <2>1. \A a, b \in 0 .. m - 1 : a < b => idx[a] < idx[b]
      BY <1>14 DEF RingOf
    <2>2. j \in 0 .. m - 1
      BY <1>1, <1>9
    <2>3. CASE l = m
      BY <1>7, <2>2, <2>3
    <2>4. CASE l \in 0 .. m - 1
      BY <1>7, <1>9, <2>1, <2>2, <2>4
    <2> QED  BY <1>1, <2>3, <2>4
  <1>10. ASSUME NEW i \in 1 .. n + 1, i \in good PROVE \E j \in 0 .. m : new[j] = i
    <2>1. CASE i = n + 1
      BY <1>1, <1>7, <2>1
    <2>2. CASE i \in 1 .. n
      <3>1. PICK j \in 0 .. m - 1 : idx[j] = i
        BY <1>1, <1>10, <1>14, <2>2 DEF RingOf
      <3>2. j \in 0 .. m /\ new[j] = i
        BY <1>1, <1>7, <3>1
      <3> QED  BY <3>2
    <2> QED  BY <2>1, <2>2
  <1>11. next.rows = [i \in 0 .. cap - 1 |-> next.rows[i]]
    BY <1>1, <1>3
  <1>12. 0 .. next.nrows - 1 = 0 .. m /\ next.nrows \in 0 .. cap /\ next.head \in 0 .. cap - 1
    BY <1>1, <1>3
  <1>13. RingOf(next, cap, s, good, n + 1, new)
    BY <1>3, <1>6, <1>8, <1>9, <1>10, <1>11, <1>12 DEF RingOf
  <1> QED  BY <1>13

(* LEMMA RingTurns: in a full ring the next element takes the oldest one's slot. *)
LEMMA RingTurns ==
    ASSUME NEW ring, NEW cap \in Nat \ {0}, NEW s, NEW good, NEW n \in Nat, NEW idx,
           RingOf(ring, cap, s, good, n, idx), n + 1 \in good, ~(ring.nrows < cap),
           NEW next,
           /\ next.rows = [ring.rows EXCEPT ![ring.head] = s[n + 1]]
           /\ next.nrows = ring.nrows /\ next.head = (ring.head + 1) % cap
    PROVE  \E new : RingOf(next, cap, s, good, n + 1, new)
  <1> DEFINE m == cap
             h == ring.head
             new == [j \in 0 .. m - 1 |-> IF j = m - 1 THEN n + 1 ELSE idx[j + 1]]
  <1>1. /\ m \in Nat \ {0} /\ ring.nrows = m /\ h \in 0 .. m - 1
        /\ ring.rows = [i \in 0 .. m - 1 |-> ring.rows[i]]
        /\ idx \in [0 .. m - 1 -> 1 .. n]
    <2>1. cap \in Nat \ {0} /\ ring.nrows \in 0 .. cap
      BY DEF RingOf
    <2>2. ring.nrows = cap
      BY <2>1
    <2> QED  BY <2>1, <2>2 DEF RingOf
  <1> HIDE DEF m, h
  <1>0. ASSUME NEW x \in 0 .. m - 1, NEW j \in 0 .. m
        PROVE  (x + j) % m = IF x + j < m THEN x + j ELSE x + j - m
    <2>1. m \in Nat \ {0}
      BY <1>1
    <2> QED  BY <2>1, Wraps, Zenon
  <1>2. (h + m) % m = h /\ (h + 1) % m = IF h = m - 1 THEN 0 ELSE h + 1
    <2>1. (h + m) % m = IF h + m < m THEN h + m ELSE h + m - m
      <3>1. m \in 0 .. m
        BY <1>1
      <3> QED  BY <1>0, <1>1, <3>1, Zenon
    <2>2. (h + 1) % m = IF h + 1 < m THEN h + 1 ELSE h + 1 - m
      <3>1. 1 \in 0 .. m
        BY <1>1
      <3> QED  BY <1>0, <1>1, <3>1, Zenon
    <2> HIDE DEF new
    <2>3. h + m - m = h /\ ~(h + m < m)
      BY <1>1
    <2>4. h + 1 < m <=> h # m - 1
      BY <1>1
    <2>5. h = m - 1 => h + 1 - m = 0
      BY <1>1
    <2> QED  BY <2>1, <2>2, <2>3, <2>4, <2>5, Zenon
  <1>3. /\ next.rows = [ring.rows EXCEPT ![h] = s[n + 1]]
        /\ next.nrows = m /\ next.head = (h + 1) % m
    BY <1>1 DEF m, h
  <1>4. ASSUME NEW j \in 0 .. m - 1
        PROVE  /\ Slot(next, cap, j) = next.rows[IF h + 1 + j < m THEN h + 1 + j ELSE h + 1 + j - m]
               /\ Slot(ring, cap, j) = ring.rows[IF h + j < m THEN h + j ELSE h + j - m]
    <2>1. (h + j) % m = IF h + j < m THEN h + j ELSE h + j - m
      <3>1. j \in 0 .. m
        BY <1>1
      <3> QED  BY <1>0, <1>1, <3>1, Zenon
    <2>2. next.head \in 0 .. m - 1
      BY <1>1, <1>2, <1>3
    <2>3. (next.head + j) % m = IF next.head + j < m THEN next.head + j ELSE next.head + j - m
      <3>1. j \in 0 .. m
        BY <1>1
      <3> QED  BY <1>0, <2>2, <3>1, Zenon
    <2>4. (next.head + j) % m = IF h + 1 + j < m THEN h + 1 + j ELSE h + 1 + j - m
      <3>1. next.head = IF h = m - 1 THEN 0 ELSE h + 1
        BY <1>2, <1>3
      <3>2. CASE h = m - 1
        <4>1. next.head + j = j /\ j < m /\ ~(h + 1 + j < m) /\ h + 1 + j - m = j
          BY <1>1, <3>1, <3>2
        <4> QED  BY <2>3, <4>1
      <3>3. CASE h # m - 1
        <4> DEFINE q == (next.head + j) % m
        <4>1. q = IF next.head + j < m THEN next.head + j ELSE next.head + j - m
          BY <2>3
        <4>2. next.head = h + 1
          BY <3>1, <3>3
        <4> HIDE DEF q
        <4>3. q = IF h + 1 + j < m THEN h + 1 + j ELSE h + 1 + j - m
          BY <1>1, <4>1, <4>2
        <4> QED  BY <4>3 DEF q
      <3> QED  BY <3>2, <3>3
    <2>5. /\ Slot(next, cap, j) = next.rows[(next.head + j) % m]
          /\ Slot(ring, cap, j) = ring.rows[(h + j) % m]
      BY Zenon DEF Slot, m, h
    <2> QED  BY <2>1, <2>4, <2>5, Zenon
  <1>6. new \in [0 .. m - 1 -> 1 .. n + 1]
    BY <1>1
  <1>7. new[m - 1] = n + 1 /\ \A j \in 0 .. m - 2 : new[j] = idx[j + 1] /\ idx[j + 1] \in 1 .. n
    BY <1>1
  <1> HIDE DEF new
  <1>8. ASSUME NEW j \in 0 .. m - 1 PROVE Slot(next, cap, j) = s[new[j]] /\ new[j] \in good
    <2>1. CASE j = m - 1
      <3>1. next.rows[h] = s[n + 1]
        BY <1>1, <1>3
      <3>2. Slot(next, cap, j) = next.rows[h]
        <4> DEFINE w == IF h + 1 + j < m THEN h + 1 + j ELSE h + 1 + j - m
        <4>1. Slot(next, cap, j) = next.rows[w]
          BY <1>4
        <4>2. w = h
          BY <1>1, <2>1
        <4> QED  BY <4>1, <4>2
      <3> QED  BY <1>7, <2>1, <3>1, <3>2
    <2>2. CASE j \in 0 .. m - 2
      <3> DEFINE w == IF h + 1 + j < m THEN h + 1 + j ELSE h + 1 + j - m
      <3>1. Slot(next, cap, j) = next.rows[w] /\ j + 1 \in 0 .. m - 1
        BY <1>1, <1>4, <2>2
      <3>2. Slot(ring, cap, j + 1) = ring.rows[w]
        <4>1. w = IF h + (j + 1) < m THEN h + (j + 1) ELSE h + (j + 1) - m
          BY <1>1
        <4> HIDE DEF w
        <4> QED  BY <1>4, <3>1, <4>1
      <3>3. w \in 0 .. m - 1 /\ w # h
        BY <1>1, <2>2
      <3> HIDE DEF w
      <3>4. next.rows[w] = ring.rows[w]
        BY <1>1, <1>3, <3>3
      <3>5. Slot(ring, cap, j + 1) = s[idx[j + 1]] /\ idx[j + 1] \in good
        BY <1>1, <3>1 DEF RingOf
      <3> QED  BY <1>7, <2>2, <3>1, <3>2, <3>4, <3>5
    <2> QED  BY <1>1, <2>1, <2>2
  <1>9. ASSUME NEW j \in 0 .. m - 1, NEW l \in 0 .. m - 1, j < l PROVE new[j] < new[l]
    <2>1. \A a, b \in 0 .. m - 1 : a < b => idx[a] < idx[b]
      BY <1>1 DEF RingOf
    <2>2. j \in 0 .. m - 2 /\ j + 1 \in 0 .. m - 1
      BY <1>1, <1>9
    <2>3. CASE l = m - 1
      BY <1>7, <2>2, <2>3
    <2>4. CASE l \in 0 .. m - 2
      <3>1. l + 1 \in 0 .. m - 1 /\ j + 1 < l + 1
        BY <1>1, <1>9, <2>4
      <3>2. idx[j + 1] < idx[l + 1]
        BY <2>1, <2>2, <3>1
      <3> QED  BY <1>7, <2>2, <2>4, <3>2
    <2> QED  BY <1>1, <2>3, <2>4
  <1>10. ASSUME NEW i \in 1 .. n + 1, i \in good, NEW l \in 0 .. m - 1, new[l] < i
         PROVE  \E j \in 0 .. m - 1 : new[j] = i
    <2>1. CASE i = n + 1
      BY <1>1, <1>7, <2>1
    <2>2. CASE i \in 1 .. n
      <3>1. l \in 0 .. m - 2 /\ l + 1 \in 0 .. m - 1
        <4>1. l # m - 1
          BY <1>7, <1>10, <2>2
        <4> QED  BY <1>1, <4>1
      <3>2. idx[l + 1] < i
        BY <1>7, <1>10, <3>1
      <3>3. PICK j \in 0 .. m - 1 : idx[j] = i
        BY <1>1, <1>10, <2>2, <3>1, <3>2 DEF RingOf
      <3>4. j # 0
        <4>1. \A a, b \in 0 .. m - 1 : a < b => idx[a] < idx[b]
          BY <1>1 DEF RingOf
        <4>2. 0 \in 0 .. m - 1 /\ 0 < l + 1
          BY <1>1, <3>1
        <4>3. idx[0] < idx[l + 1]
          BY <3>1, <4>1, <4>2
        <4>4. idx[0] \in Nat /\ idx[l + 1] \in Nat /\ idx[j] \in Nat
          BY <1>1, <3>1, <4>2
        <4> QED  BY <3>2, <3>3, <4>3, <4>4
      <3>5. j - 1 \in 0 .. m - 2 /\ (j - 1) + 1 = j
        BY <1>1, <3>4
      <3>6. new[j - 1] = i
        BY <1>7, <3>3, <3>5
      <3> QED  BY <1>1, <3>5, <3>6
    <2> QED  BY <2>1, <2>2
  <1>11. next.rows = [i \in 0 .. m - 1 |-> next.rows[i]]
    BY <1>1, <1>3
  <1>12. next.head \in 0 .. m - 1
    BY <1>1, <1>2, <1>3
  <1>13. RingOf(next, cap, s, good, n + 1, new)
    BY <1>1, <1>3, <1>6, <1>8, <1>9, <1>10, <1>11, <1>12 DEF RingOf, m
  <1> QED  BY <1>13

-----------------------------------------------------------------------------
(* The ring that ntpmon_stats_json loads *)

(* The recursion behind LoadRows, over the first rows of s. *)
LoadsTo(f, s, N) ==
    f = [n \in 0 .. N |-> IF n = 0 THEN NoRows ELSE LoadRow(f[n - 1], s[n])]

(* LEMMA LoadExists: the loop comes to its end. *)
LEMMA LoadExists ==
    ASSUME NEW s, NEW N \in Nat
    PROVE  \E f : LoadsTo(f, s, N)
  <1> DEFINE S == {n \in Nat : \E f : LoadsTo(f, s, n)}
  <1>1. 0 \in S
    <2>1. LoadsTo([n \in 0 .. 0 |-> NoRows], s, 0)
      BY DEF LoadsTo
    <2> QED  BY <2>1
  <1>2. ASSUME NEW n \in Nat, n \in S PROVE n + 1 \in S
    <2>1. PICK f : LoadsTo(f, s, n)
      BY <1>2
    <2> DEFINE g == [i \in 0 .. n + 1 |-> IF i = n + 1 THEN LoadRow(f[n], s[n + 1]) ELSE f[i]]
    <2>2. \A i \in 0 .. n : g[i] = f[i]
      OBVIOUS
    <2>3. g[n + 1] = LoadRow(f[n], s[n + 1]) /\ g = [i \in 0 .. n + 1 |-> g[i]]
      OBVIOUS
    <2> HIDE DEF g
    <2>4. \A i \in 0 .. n + 1 : g[i] = IF i = 0 THEN NoRows ELSE LoadRow(g[i - 1], s[i])
      <3> TAKE i \in 0 .. n + 1
      <3>1. CASE i = n + 1
        <4>1. g[n] = f[n] /\ i - 1 = n /\ i # 0
          BY <2>2, <3>1
        <4> QED  BY <2>3, <3>1, <4>1
      <3>2. ASSUME i # n + 1 PROVE i \in 0 .. n
        BY <3>2
      <3>3. ASSUME NEW k0 \in 0 .. n
            PROVE  f[k0] = IF k0 = 0 THEN NoRows ELSE LoadRow(f[k0 - 1], s[k0])
        BY <2>1, Zenon DEF LoadsTo
      <3>4. CASE i = 0
        <4>1. i \in 0 .. n
          BY <3>4
        <4>2. g[i] = f[i] /\ f[i] = NoRows
          BY <2>2, <3>3, <3>4, <4>1
        <4> QED  BY <3>4, <4>2
      <3>5. CASE i # n + 1 /\ i # 0
        <4>1. i \in 0 .. n /\ i - 1 \in 0 .. n
          BY <3>5
        <4>2. g[i] = f[i] /\ g[i - 1] = f[i - 1]
          BY <2>2, <4>1
        <4>3. f[i] = LoadRow(f[i - 1], s[i])
          BY <3>3, <3>5, <4>1
        <4> QED  BY <3>5, <4>2, <4>3
      <3> QED  BY <3>1, <3>4, <3>5
    <2>5. LoadsTo(g, s, n + 1)
      BY <2>3, <2>4, Zenon DEF LoadsTo
    <2> QED  BY <2>5
  <1> HIDE DEF S
  <1>3. Nat \subseteq S
    BY <1>1, <1>2, Upwards
  <1> QED  BY <1>3 DEF S

Sensible(s) == {i \in Nat : parse_row(s[i])}

(* LEMMA RingLoads: after every row the ring holds the latest rows that parse. *)
LEMMA RingLoads ==
    ASSUME NEW s, NEW N \in Nat, NEW f, LoadsTo(f, s, N)
    PROVE  \E idx : RingOf(f[N], MaxRows, s, Sensible(s), N, idx)
  <1>0. MaxRows \in Nat \ {0}
    BY RowsAssumption
  <1>1. ASSUME NEW i \in 0 .. N
        PROVE  f[i] = IF i = 0 THEN NoRows ELSE LoadRow(f[i - 1], s[i])
    BY Zenon DEF LoadsTo
  <1> DEFINE S == {n \in Nat : n =< N => \E idx : RingOf(f[n], MaxRows, s, Sensible(s), n, idx)}
  <1>2. 0 \in S
    <2>1. f[0] = NoRows
      BY <1>1
    <2>2. NoRows.nrows = 0 /\ NoRows.head = 0 /\ NoRows.rows = [i \in 0 .. MaxRows - 1 |-> NoRow]
      BY DEF NoRows
    <2> DEFINE none == [j \in 0 .. 0 - 1 |-> 1]
    <2>3. RingOf(NoRows, MaxRows, s, Sensible(s), 0, none)
      BY <1>0, <2>2 DEF RingOf
    <2> HIDE DEF none
    <2> QED  BY <2>1, <2>3
  <1>3. ASSUME NEW n \in Nat, n \in S PROVE n + 1 \in S
    <2> SUFFICES ASSUME n + 1 =< N
                 PROVE  \E idx : RingOf(f[n + 1], MaxRows, s, Sensible(s), n + 1, idx)
      OBVIOUS
    <2>1. PICK idx : RingOf(f[n], MaxRows, s, Sensible(s), n, idx)
      BY <1>3
    <2>2. f[n + 1] = LoadRow(f[n], s[n + 1])
      <3>1. n + 1 \in 0 .. N /\ n + 1 # 0 /\ (n + 1) - 1 = n
        OBVIOUS
      <3> QED  BY <1>1, <3>1
    <2> DEFINE old == f[n]
               new == f[n + 1]
               good == Sensible(s)
    <2>0. n + 1 \in good <=> parse_row(s[n + 1])
      BY DEF Sensible
    <2> HIDE DEF old, new, good
    <2>3. RingOf(old, MaxRows, s, good, n, idx) /\ new = LoadRow(old, s[n + 1])
      BY <2>1, <2>2 DEF old, new, good
    <2>4. /\ old.nrows \in 0 .. MaxRows /\ old.head \in 0 .. MaxRows - 1
          /\ old.nrows < MaxRows => old.head = 0
      BY <2>3 DEF RingOf
    <2>5. (old.head + old.nrows) % MaxRows = IF old.head + old.nrows < MaxRows
            THEN old.head + old.nrows ELSE old.head + old.nrows - MaxRows
      BY <1>0, <2>4, Wraps
    <2>6. CASE n + 1 \notin good
      <3>1. new = old
        BY <2>0, <2>3, <2>6 DEF LoadRow
      <3> QED  BY <1>0, <2>3, <2>6, <3>1, RingSkips DEF new, good
    <2>7. CASE n + 1 \in good /\ old.nrows < MaxRows
      <3>1. (old.head + old.nrows) % MaxRows = old.nrows
        BY <1>0, <2>4, <2>5, <2>7
      <3>2. /\ new.rows = [old.rows EXCEPT ![old.nrows] = s[n + 1]]
            /\ new.nrows = old.nrows + 1 /\ new.head = 0
        BY <2>0, <2>3, <2>4, <2>7, <3>1 DEF LoadRow
      <3> QED  BY <1>0, <2>3, <2>7, <3>2, RingFills DEF new, good
    <2>8. CASE n + 1 \in good /\ ~(old.nrows < MaxRows)
      <3>1. (old.head + old.nrows) % MaxRows = old.head
        BY <1>0, <2>4, <2>5, <2>8
      <3>2. /\ new.rows = [old.rows EXCEPT ![old.head] = s[n + 1]]
            /\ new.nrows = old.nrows /\ new.head = (old.head + 1) % MaxRows
        BY <2>0, <2>3, <2>8, <3>1 DEF LoadRow
      <3> QED  BY <1>0, <2>3, <2>8, <3>2, RingTurns DEF new, good
    <2> QED  BY <2>6, <2>7, <2>8
  <1> HIDE DEF S
  <1>4. Nat \subseteq S
    BY <1>2, <1>3, Upwards
  <1> QED  BY <1>4 DEF S

(* LEMMA LoadedRows: what the page has in its ring. *)
LEMMA LoadedRows ==
    ASSUME Len(csv) \in Nat
    PROVE  \E idx : RingOf(Loaded, MaxRows, csv, Sensible(csv), Len(csv), idx)
  <1>1. \E f : LoadsTo(f, csv, Len(csv))
    BY LoadExists
  <1>2. LoadsTo(LoadRows, csv, Len(csv))
    BY <1>1 DEF LoadsTo, LoadRows
  <1> QED  BY <1>2, RingLoads DEF Loaded

-----------------------------------------------------------------------------
(* The inductive invariant of the sampler *)

Started == [k : Nat, hits : Nat, heard : Nat, hitsEra : Int, text : BOOLEAN]
Sampled == [eth : Nat, seen : Nat, ruleEra : Int, k : Nat, hits : Nat, heard : Nat,
            hitsEra : Int, text : BOOLEAN]
Stored == [t : Int, r : Sampled]

StatsType ==
    /\ {k, hits, requests, hitsEra, ruleEra} \subseteq Nat /\ clock \in Int /\ cut \in BOOLEAN
    /\ rules \in Seq(Nat)
    /\ csv \in Seq(Stored) /\ tmpcsv \in Seq(Stored) /\ appended \in Seq(Stored)
    /\ step = "list" => row \in Started /\ row.k = k
    /\ step = "append" => row \in Sampled /\ row.k = k

(* A file holds the end of what was ever appended, n lines if there are. *)
IsEnd(s, a, n) ==
    /\ Len(s) =< Len(a)
    /\ Len(s) >= n \/ Len(s) = Len(a)
    /\ \A i \in 1 .. Len(s) : s[i] = a[Len(a) - Len(s) + i]

FileInv ==
    /\ IsEnd(csv, appended, Last)
    /\ step = "mv" => IsEnd(tmpcsv, appended, Last)

(* What has been counted since row x was read: of q requests, h by this       *)
(* chronyd, the e-th, and top by this rule, the e-th, if there is one.        *)
HeardSince(x, h, q, e) ==
    x.hitsEra # -1 =>
      /\ x.hitsEra =< e /\ x.heard =< q
      /\ IF x.hitsEra = e THEN h - x.hits = q - x.heard ELSE h =< q - x.heard
SeenSince(x, there, top, q, e) ==
    x.ruleEra # -1 =>
      /\ x.ruleEra =< e /\ x.seen =< q
      /\ IF x.ruleEra = e THEN there /\ top - x.eth = q - x.seen ELSE top =< q - x.seen
RuleTop == IF Len(rules) > 0 THEN rules[1] ELSE 0
HitsSince(x) == HeardSince(x, hits, requests, hitsEra)
EthSince(x) == SeenSince(x, Len(rules) > 0, RuleTop, requests, ruleEra)

(* What two rows say of the time between them. *)
HitsPair(a, b) ==
    a.hitsEra # -1 /\ b.k # 0 =>
      /\ a.hitsEra = b.hitsEra => b.hits - a.hits = b.heard - a.heard
      /\ b.hits >= a.hits => b.hits - a.hits =< b.heard - a.heard
EthPair(a, b) ==
    a.ruleEra # -1 /\ b.k # 0 =>
      /\ a.seen =< b.seen
      /\ a.ruleEra = b.ruleEra => b.eth - a.eth = b.seen - a.seen
      /\ b.eth >= a.eth => b.eth - a.eth =< b.seen - a.seen

HitsInv ==
    /\ \A i \in 1 .. Len(appended) : HitsSince(appended[i].r)
    /\ \A i, j \in 1 .. Len(appended) : i < j => HitsPair(appended[i].r, appended[j].r)
    /\ step \in {"list", "append"} =>
         HitsSince(row) /\ \A i \in 1 .. Len(appended) : HitsPair(appended[i].r, row)

EthInv ==
    /\ \A i \in 1 .. Len(appended) : EthSince(appended[i].r)
    /\ \A i, j \in 1 .. Len(appended) : i < j => EthPair(appended[i].r, appended[j].r)
    /\ step = "append" =>
         EthSince(row) /\ \A i \in 1 .. Len(appended) : EthPair(appended[i].r, row)

(* A row belongs to an activation, and has its time while the clock is left  *)
(* alone; a line of two rows does not.                                        *)
Sampling == step \in {"check", "chronyc", "list", "append"}
TimeInv ==
    /\ \A i \in 1 .. Len(appended) : appended[i].r.k =< k /\ (Sampling => appended[i].r.k < k)
    /\ \A i, j \in 1 .. Len(appended) :
         i < j /\ OneRow(appended[j]) => appended[i].r.k < appended[j].r.k
    /\ clock = 0 => \A i \in 1 .. Len(appended) :
                      OneRow(appended[i]) =>
                        \E late \in 0 .. Late : appended[i].t = appended[i].r.k * Period + late

(* LEMMA SizesKnown: what is assumed of the constants. *)
LEMMA SizesKnown ==
    /\ KEEP \in Nat \ {0} /\ MaxRows \in Nat \ {0} /\ MaxRows =< KEEP
    /\ Period \in Nat \ {0} /\ Late \in Nat /\ Window \in Nat /\ Gap \in Nat /\ PerMinute \in Nat
    /\ Windows \subseteq Nat /\ Window \in Windows /\ Mixed \subseteq Nat
    /\ Period + Late =< Window /\ Window < 2 * Period - Late
  BY RowsAssumption, WindowAssumption

(* LEMMA LastKnown: how many lines tail keeps. *)
LEMMA LastKnown ==
    ASSUME cut \in BOOLEAN
    PROVE  Last \in Nat /\ Last =< KEEP /\ KEEP =< Last + 1 /\ (~ cut => Last = KEEP)
  BY SizesKnown DEF Last

(* LEMMA TwoRowsShape: a line of two rows is read as a row of no activation. *)
LEMMA TwoRowsShape ==
    ASSUME StatsType, NEW n \in Mixed, NEW text \in BOOLEAN
    PROVE  /\ TwoRows(n, text) \in Stored
           /\ TwoRows(n, text).r.k = 0 /\ TwoRows(n, text).r.hitsEra = -1
           /\ TwoRows(n, text).r.ruleEra = -1
  <1>1. n \in Nat /\ n \in Int /\ requests \in Nat
    BY SizesKnown DEF StatsType
  <1>2. TwoRows(n, text).r \in Sampled
    BY <1>1 DEF TwoRows, Sampled
  <1> QED  BY <1>1, <1>2 DEF TwoRows, Stored

(* LEMMA AppendForms: what echo may do. *)
LEMMA AppendForms ==
    ASSUME StatsType, Append1
    PROVE  \/ ~ cut /\ \E late \in 0 .. Late : Write([t |-> clock + k * Period + late, r |-> row])
           \/ cut /\ \E n \in Mixed, text \in BOOLEAN : Write(TwoRows(n, text))
           \/ cut' \in {cut, TRUE} /\ UNCHANGED <<csv, appended>>
  <1>1. row.text \in BOOLEAN
    BY DEF Append1, StatsType, Sampled
  <1>2. ASSUME NEW late \in IF Fault("late") THEN 0 .. Late ELSE {0}, ~ cut,
               Write([t |-> clock + k * Period + late, r |-> row])
        PROVE  ~ cut /\ \E l \in 0 .. Late : Write([t |-> clock + k * Period + l, r |-> row])
    <2>1. late \in 0 .. Late
      BY SizesKnown
    <2> QED  BY <1>2, <2>1
  <1>3. ASSUME NEW n \in Mixed, NEW text \in {FALSE, row.text}, cut, Write(TwoRows(n, text))
        PROVE  cut /\ \E m \in Mixed, b \in BOOLEAN : Write(TwoRows(m, b))
    BY <1>1, <1>3
  <1>4. \/ \E late \in IF Fault("late") THEN 0 .. Late ELSE {0} :
             ~ cut /\ Write([t |-> clock + k * Period + late, r |-> row])
        \/ \E n \in Mixed, text \in {FALSE, row.text} : cut /\ Write(TwoRows(n, text))
        \/ cut' \in {cut, TRUE} /\ UNCHANGED <<csv, appended>>
    BY DEF Append1
  <1> QED  BY <1>2, <1>3, <1>4

(* LEMMA TypeStep: every step keeps the types. *)
LEMMA TypeStep ==
    ASSUME StatsType, [StatsNext]_statsVars
    PROVE  StatsType'
  <1>0. /\ k \in Nat /\ hits \in Nat /\ requests \in Nat /\ hitsEra \in Nat /\ ruleEra \in Nat
        /\ cut \in BOOLEAN
        /\ clock \in Int /\ rules \in Seq(Nat)
        /\ csv \in Seq(Stored) /\ tmpcsv \in Seq(Stored) /\ appended \in Seq(Stored)
    BY DEF StatsType
  <1>1. CASE Activate
    BY <1>0, <1>1 DEF Activate, counterVars, StatsType
  <1>2. CASE CheckRule
    <2>1. rules' \in Seq(Nat) /\ ruleEra' \in Nat
      <3>1. <<0>> \in Seq(Nat)
        OBVIOUS
      <3>2. <<0>> \o rules \in Seq(Nat)
        BY <1>0, <3>1, ConcatProperties
      <3>3. rules' = rules \/ rules' = <<0>> \o rules
        BY <1>2 DEF CheckRule
      <3>4. rules' \in Seq(Nat)
        BY <1>0, <3>2, <3>3, Zenon
      <3>5. ruleEra' = ruleEra \/ ruleEra' = ruleEra + 1
        BY <1>2 DEF CheckRule
      <3> QED  BY <1>0, <3>4, <3>5
    <2> QED  BY <1>0, <1>2, <2>1 DEF CheckRule, StatsType
  <1>3. CASE ReadHits
    <2>1. /\ step' = "list" /\ row' \in Started /\ row'.k = k
          /\ UNCHANGED <<run, k, clock, csv, tmpcsv, cut, appended, counterVars>>
      <3>1. \E n \in Nat, era \in Int, text \in BOOLEAN :
              row' = [k |-> k, hits |-> n, heard |-> requests, hitsEra |-> era, text |-> text]
        <4>1. \/ row' = [k |-> k, hits |-> hits, heard |-> requests, hitsEra |-> hitsEra, text |-> FALSE]
              \/ row' = [k |-> k, hits |-> 0, heard |-> requests, hitsEra |-> -1, text |-> FALSE]
              \/ row' = [k |-> k, hits |-> 0, heard |-> requests, hitsEra |-> -1, text |-> TRUE]
          BY <1>3 DEF ReadHits
        <4>2. hits \in Nat /\ 0 \in Nat /\ hitsEra \in Int /\ -1 \in Int
              /\ TRUE \in BOOLEAN /\ FALSE \in BOOLEAN
          BY <1>0
        <4> QED  BY <4>1, <4>2, Zenon
      <3>2. step' = "list" /\ UNCHANGED <<run, k, clock, csv, tmpcsv, cut, appended, counterVars>>
        BY <1>3 DEF ReadHits
      <3> QED  BY <1>0, <3>1, <3>2 DEF Started
    <2> QED  BY <1>0, <2>1 DEF counterVars, StatsType
  <1>4. CASE ReadEth
    <2>1. row \in Started
      BY <1>4 DEF ReadEth, StatsType
    <2>2. Len(rules) > 0 => rules[1] \in Nat
      BY <1>0
    <2>3. /\ step' = "append" /\ row' \in Sampled /\ row'.k = k
          /\ UNCHANGED <<run, k, clock, csv, tmpcsv, cut, appended, counterVars>>
      BY <1>0, <1>4, <2>1, <2>2 DEF ReadEth, Started, Sampled
    <2> QED  BY <1>0, <2>3 DEF counterVars, StatsType
  <1>5. CASE Append1
    <2>1. row \in Sampled /\ row.text \in BOOLEAN
      BY <1>5 DEF Append1, StatsType, Sampled
    <2>2. \A late \in 0 .. Late : [t |-> clock + k * Period + late, r |-> row] \in Stored
      <3> TAKE late \in 0 .. Late
      <3>1. k * Period \in Nat
        BY <1>0, SizesKnown
      <3>2. clock + k * Period + late \in Int
        BY <1>0, <3>1
      <3> QED  BY <2>1, <3>2 DEF Stored
    <2>3. (\E line \in Stored : Write(line)) \/ (cut' \in BOOLEAN /\ UNCHANGED <<csv, appended>>)
      <3>1. CASE \E late \in 0 .. Late : Write([t |-> clock + k * Period + late, r |-> row])
        BY <2>2, <3>1
      <3>2. CASE \E n \in Mixed, text \in BOOLEAN : Write(TwoRows(n, text))
        BY <3>2, TwoRowsShape
      <3>3. CASE cut' \in {cut, TRUE} /\ UNCHANGED <<csv, appended>>
        BY <1>0, <3>3
      <3> QED  BY <1>5, <2>1, <3>1, <3>2, <3>3, AppendForms
    <2>4. csv' \in Seq(Stored) /\ appended' \in Seq(Stored) /\ cut' \in BOOLEAN
      <3>1. ASSUME NEW line \in Stored, Write(line)
            PROVE  csv' \in Seq(Stored) /\ appended' \in Seq(Stored) /\ cut' \in BOOLEAN
        <4>1. Append(csv, line) \in Seq(Stored) /\ Append(appended, line) \in Seq(Stored)
          BY <1>0
        <4> QED  BY <3>1, <4>1 DEF Write
      <3>2. CASE cut' \in BOOLEAN /\ UNCHANGED <<csv, appended>>
        BY <1>0, <3>2
      <3> QED  BY <2>3, <3>1, <3>2
    <2>5. step' = "trim" /\ UNCHANGED <<run, k, clock, tmpcsv, counterVars>>
      BY <1>5 DEF Append1
    <2> QED  BY <1>0, <2>4, <2>5 DEF counterVars, StatsType
  <1>6. CASE Trim
    <2>1. step' \in {"mv", "idle"} /\ UNCHANGED <<run, k, clock, row, csv, cut, appended, counterVars>>
      BY <1>6 DEF Trim
    <2>2. tmpcsv' \in Seq(Stored)
      <3>1. CASE Len(csv) > 2 * KEEP
        <4>0. Last \in Nat /\ Last =< KEEP
          BY <1>0, LastKnown
        <4>1. PICK m \in 0 .. Last : tmpcsv' = SubSeq(csv, Len(csv) - Last + 1, Len(csv) - Last + m)
          <5>1. Last \in 0 .. Last /\ Len(csv) = Len(csv) - Last + Last
            BY <1>0, <4>0
          <5>2. 0 .. Last - 1 \subseteq 0 .. Last
            BY <4>0
          <5>3. \/ tmpcsv' = SubSeq(csv, Len(csv) - Last + 1, Len(csv))
                \/ \E n \in 0 .. Last - 1 :
                     tmpcsv' = SubSeq(csv, Len(csv) - Last + 1, Len(csv) - Last + n)
            BY <1>6, <3>1 DEF Trim
          <5> QED  BY <5>1, <5>2, <5>3
        <4>2. \A i \in Len(csv) - Last + 1 .. Len(csv) - Last + m : i \in 1 .. Len(csv)
          BY <1>0, <3>1, <4>0, SizesKnown
        <4>3. \A i \in Len(csv) - Last + 1 .. Len(csv) - Last + m : csv[i] \in Stored
          BY <1>0, <4>2
        <4> QED  BY <1>0, <4>0, <4>1, <4>3, SizesKnown
      <3>2. CASE ~(Len(csv) > 2 * KEEP)
        BY <1>0, <1>6, <3>2 DEF Trim
      <3> QED  BY <3>1, <3>2
    <2> QED  BY <1>0, <2>1, <2>2 DEF counterVars, StatsType
  <1>7. CASE Move
    BY <1>0, <1>7 DEF Move, counterVars, StatsType
  <1>8. CASE KillSampler
    BY <1>0, <1>8 DEF KillSampler, counterVars, StatsType
  <1>9. CASE Request
    <2>1. rules' \in Seq(Nat) /\ requests' \in Nat /\ hits' \in Nat
      BY <1>0, <1>9 DEF Request
    <2>2. UNCHANGED <<step, k, clock, row, csv, tmpcsv, cut, appended, hitsEra, ruleEra>>
      BY <1>9 DEF Request
    <2> QED  BY <1>0, <2>1, <2>2 DEF StatsType
  <1>10. CASE ChronydRestart
    BY <1>0, <1>10 DEF ChronydRestart, StatsType
  <1>11. CASE FlushRules
    BY <1>0, <1>11 DEF FlushRules, StatsType
  <1>12. CASE StepClock
    <2>1. clock' \in Int
      BY <1>12, SizesKnown DEF StepClock
    <2> QED  BY <1>0, <1>12, <2>1 DEF StepClock, counterVars, StatsType
  <1>13. CASE UNCHANGED statsVars
    BY <1>13 DEF statsVars, counterVars, StatsType
  <1> QED  BY <1>1, <1>2, <1>3, <1>4, <1>5, <1>6, <1>7, <1>8, <1>9, <1>10, <1>11, <1>12, <1>13
              DEF StatsNext

(* A sequence with one more element. *)
OneMore(s, t, x) ==
    /\ Len(s) \in Nat /\ Len(t) = Len(s) + 1 /\ t[Len(s) + 1] = x
    /\ \A i \in 1 .. Len(s) : t[i] = s[i]

(* LEMMA RowAppended: what echo adds to the file. *)
LEMMA RowAppended ==
    ASSUME StatsType, Append1
    PROVE  \/ \E new :
                /\ \/ /\ new.r = row
                      /\ \E late \in 0 .. Late : new.t = clock + k * Period + late
                   \/ new.r.k = 0 /\ new.r.hitsEra = -1 /\ new.r.ruleEra = -1
                /\ OneMore(csv, csv', new) /\ OneMore(appended, appended', new)
                /\ ~ cut'
           \/ UNCHANGED <<csv, appended>> /\ (cut => cut') /\ cut' \in BOOLEAN
  <1>1. csv \in Seq(Stored) /\ appended \in Seq(Stored) /\ cut \in BOOLEAN
    BY DEF StatsType
  <1>2. ASSUME NEW line, Write(line)
        PROVE  OneMore(csv, csv', line) /\ OneMore(appended, appended', line) /\ ~ cut'
    BY <1>1, <1>2 DEF Write, OneMore
  <1>3. CASE \E late \in 0 .. Late : Write([t |-> clock + k * Period + late, r |-> row])
    <2>1. PICK late \in 0 .. Late : Write([t |-> clock + k * Period + late, r |-> row])
      BY <1>3
    <2> DEFINE new == [t |-> clock + k * Period + late, r |-> row]
    <2>2. new.r = row /\ new.t = clock + k * Period + late /\ Write(new)
      BY <2>1
    <2> HIDE DEF new
    <2> QED  BY <1>2, <2>2
  <1>4. CASE \E n \in Mixed, text \in BOOLEAN : Write(TwoRows(n, text))
    <2>1. PICK n \in Mixed, text \in BOOLEAN : Write(TwoRows(n, text))
      BY <1>4
    <2> DEFINE new == TwoRows(n, text)
    <2>2. Write(new) /\ new.r.k = 0 /\ new.r.hitsEra = -1 /\ new.r.ruleEra = -1
      BY <2>1, TwoRowsShape
    <2> HIDE DEF new
    <2> QED  BY <1>2, <2>2
  <1>5. CASE cut' \in {cut, TRUE} /\ UNCHANGED <<csv, appended>>
    BY <1>1, <1>5
  <1> QED  BY <1>3, <1>4, <1>5, AppendForms

(* LEMMA StoredRows: a row of a file is a complete row. *)
LEMMA StoredRows ==
    ASSUME NEW s \in Seq(Stored)
    PROVE  /\ Len(s) \in Nat
           /\ \A i \in 1 .. Len(s) : s[i] \in Stored /\ s[i].r \in Sampled /\ s[i].t \in Int
  <1>1. \A i \in 1 .. Len(s) : s[i] \in Stored
    OBVIOUS
  <1>2. \A x \in Stored : x.r \in Sampled /\ x.t \in Int
    BY DEF Stored
  <1> QED  BY <1>1, <1>2

(* LEMMA EndGrows: a row that is appended to both. *)
LEMMA EndGrows ==
    ASSUME NEW s, NEW a, NEW t, NEW b, NEW x, NEW n \in Nat, NEW m \in Nat, m =< n + 1,
           IsEnd(s, a, n), OneMore(s, t, x), OneMore(a, b, x)
    PROVE  IsEnd(t, b, m)
  <1>1. Len(s) \in Nat /\ Len(a) \in Nat /\ Len(t) = Len(s) + 1 /\ Len(b) = Len(a) + 1
        /\ Len(s) =< Len(a)
    BY DEF OneMore, IsEnd
  <1>2. Len(t) =< Len(b) /\ (Len(t) >= m \/ Len(t) = Len(b))
    BY <1>1 DEF IsEnd
  <1>3. ASSUME NEW i \in 1 .. Len(t) PROVE t[i] = b[Len(b) - Len(t) + i]
    <2>1. CASE i = Len(s) + 1
      <3>1. Len(b) - Len(t) + i = Len(a) + 1
        BY <1>1, <2>1
      <3> QED  BY <2>1, <3>1 DEF OneMore
    <2>2. CASE i \in 1 .. Len(s)
      <3>1. Len(b) - Len(t) + i = Len(a) - Len(s) + i /\ Len(a) - Len(s) + i \in 1 .. Len(a)
        BY <1>1, <2>2
      <3>2. t[i] = s[i] /\ b[Len(a) - Len(s) + i] = a[Len(a) - Len(s) + i]
        BY <2>2, <3>1 DEF OneMore
      <3>3. s[i] = a[Len(a) - Len(s) + i]
        BY <2>2 DEF IsEnd
      <3> QED  BY <3>1, <3>2, <3>3
    <2> QED  BY <1>1, <2>1, <2>2
  <1> QED  BY <1>2, <1>3 DEF IsEnd

(* LEMMA EndOfEnd: tail -n KEEP. *)
LEMMA EndOfEnd ==
    ASSUME NEW s \in Seq(Stored), NEW a \in Seq(Stored), NEW n \in Nat, n =< KEEP,
           IsEnd(s, a, n), Len(s) > 2 * KEEP
    PROVE  IsEnd(SubSeq(s, Len(s) - n + 1, Len(s)), a, n)
  <1> DEFINE t == SubSeq(s, Len(s) - n + 1, Len(s))
  <1>1. Len(s) \in Nat /\ Len(a) \in Nat /\ Len(s) =< Len(a) /\ KEEP \in Nat \ {0}
    BY SizesKnown DEF IsEnd
  <1>2. Len(t) = n
    BY <1>1
  <1>3. ASSUME NEW i \in 1 .. n PROVE t[i] = s[Len(s) - n + i]
    BY <1>1
  <1> HIDE DEF t
  <1>4. ASSUME NEW i \in 1 .. n PROVE t[i] = a[Len(a) - n + i]
    <2>1. Len(s) - n + i \in 1 .. Len(s)
      BY <1>1
    <2>2. s[Len(s) - n + i] = a[Len(a) - Len(s) + (Len(s) - n + i)]
      BY <2>1 DEF IsEnd
    <2>3. Len(a) - Len(s) + (Len(s) - n + i) = Len(a) - n + i
      BY <1>1
    <2> QED  BY <1>3, <2>2, <2>3
  <1>5. IsEnd(t, a, n)
    BY <1>1, <1>2, <1>4 DEF IsEnd
  <1> QED  BY <1>5 DEF t

(* LEMMA FileStep: no step costs a row that should be kept. *)
LEMMA FileStep ==
    ASSUME StatsType, FileInv, [StatsNext]_statsVars
    PROVE  FileInv'
  <1>1. CASE Append1
    <2>0. Last \in Nat /\ Last =< KEEP /\ KEEP =< Last + 1 /\ KEEP \in Nat
      BY LastKnown, SizesKnown DEF StatsType
    <2>3. step' # "mv"
      BY <1>1 DEF Append1
    <2>1. CASE \E new : OneMore(csv, csv', new) /\ OneMore(appended, appended', new) /\ ~ cut'
      <3>1. Last' = KEEP
        BY <2>1 DEF Last
      <3>2. IsEnd(csv', appended', KEEP)
        <4>1. PICK new : OneMore(csv, csv', new) /\ OneMore(appended, appended', new)
          BY <2>1
        <4>2. IsEnd(csv, appended, Last)
          BY DEF FileInv
        <4> QED  BY <2>0, <4>1, <4>2, EndGrows
      <3> QED  BY <2>3, <3>1, <3>2 DEF IsEnd, FileInv
    <2>2. CASE UNCHANGED <<csv, appended>> /\ (cut => cut')
      <3>1. Last' \in {Last, Last - 1}
        BY <2>2, SizesKnown DEF Last
      <3>2. IsEnd(csv, appended, Last) /\ Len(csv) \in Nat /\ Len(appended) \in Nat
        <4>1. csv \in Seq(Stored) /\ appended \in Seq(Stored)
          BY DEF StatsType
        <4> QED  BY <4>1 DEF FileInv
      <3>3. IsEnd(csv, appended, Last')
        BY <2>0, <3>1, <3>2 DEF IsEnd
      <3> QED  BY <2>2, <2>3, <3>3 DEF IsEnd, FileInv
    <2>4. \/ \E new : OneMore(csv, csv', new) /\ OneMore(appended, appended', new) /\ ~ cut'
          \/ UNCHANGED <<csv, appended>> /\ (cut => cut')
      BY <1>1, RowAppended
    <2> QED  BY <2>1, <2>2, <2>4
  <1>2. CASE Trim
    <2>1. UNCHANGED <<csv, cut, appended, Last>>
      BY <1>2 DEF Trim, Last
    <2>2. ASSUME step' = "mv" PROVE IsEnd(tmpcsv, appended, Last)'
      <3>1. Len(csv) > 2 * KEEP /\ tmpcsv' = SubSeq(csv, Len(csv) - Last + 1, Len(csv))
        BY <1>2, <2>2 DEF Trim
      <3>2. csv \in Seq(Stored) /\ appended \in Seq(Stored) /\ IsEnd(csv, appended, Last)
           /\ Last \in Nat /\ Last =< KEEP
        BY LastKnown DEF StatsType, FileInv
      <3>3. IsEnd(tmpcsv', appended, Last)
        BY <3>1, <3>2, EndOfEnd
      <3> QED  BY <2>1, <3>3
    <2>3. IsEnd(csv, appended, Last)'
      BY <2>1 DEF FileInv
    <2> QED  BY <2>2, <2>3 DEF FileInv
  <1>3. CASE Move
    BY <1>3 DEF Move, FileInv, Last
  <1>4. CASE KillSampler
    BY <1>4 DEF KillSampler, FileInv, Last
  <1>5. CASE Activate \/ CheckRule \/ ReadHits \/ ReadEth
    <2>1. UNCHANGED <<csv, appended, Last>> /\ step' # "mv"
      BY <1>5 DEF Activate, CheckRule, ReadHits, ReadEth, Last
    <2> QED  BY <2>1 DEF FileInv
  <1>6. CASE Request \/ ChronydRestart \/ FlushRules \/ StepClock \/ UNCHANGED statsVars
    <2>1. UNCHANGED <<csv, tmpcsv, appended, step, Last>>
      BY <1>6 DEF Request, ChronydRestart, FlushRules, StepClock, statsVars, Last
    <2> QED  BY <2>1 DEF FileInv
  <1> QED  BY <1>1, <1>2, <1>3, <1>4, <1>5, <1>6 DEF StatsNext

(* LEMMA TimeStep: rows belong to activations, in order. *)
LEMMA TimeStep ==
    ASSUME StatsType, TimeInv, [StatsNext]_statsVars
    PROVE  TimeInv'
  <1>0. /\ k \in Nat /\ clock \in Int /\ appended \in Seq(Stored) /\ Len(appended) \in Nat
        /\ \A i \in 1 .. Len(appended) : appended[i].r.k \in Nat
    <2>1. k \in Nat /\ clock \in Int /\ appended \in Seq(Stored)
      BY DEF StatsType
    <2>2. ASSUME NEW i \in 1 .. Len(appended) PROVE appended[i].r.k \in Nat
      BY <2>1, StoredRows DEF Sampled
    <2> QED  BY <2>1, <2>2
  <1>1. CASE Append1
    <2>2. row.k = k /\ step' = "trim" /\ Sampling /\ UNCHANGED <<k, clock>>
      BY <1>1 DEF Append1, StatsType, Sampling
    <2>3. ~Sampling'
      BY <2>2 DEF Sampling
    <2>4. CASE UNCHANGED appended
      BY <2>2, <2>3, <2>4 DEF TimeInv
    <2>5. CASE \E new : /\ OneMore(appended, appended', new)
                        /\ \/ /\ new.r = row
                              /\ \E late \in 0 .. Late : new.t = clock + k * Period + late
                           \/ new.r.k = 0
      <3>1. PICK new : /\ OneMore(appended, appended', new)
                       /\ \/ /\ new.r = row
                             /\ \E late \in 0 .. Late : new.t = clock + k * Period + late
                          \/ new.r.k = 0
        BY <2>5
      <3>2. ASSUME NEW i \in 1 .. Len(appended')
            PROVE  \/ i = Len(appended) + 1 /\ appended'[i] = new
                   \/ i \in 1 .. Len(appended) /\ appended'[i] = appended[i]
        BY <1>0, <3>1 DEF OneMore
      <3>3. new.r.k =< k /\ (new.r.k # 0 => new.r = row /\ new.r.k = k)
        BY <1>0, <2>2, <3>1
      <3>4. ASSUME NEW i \in 1 .. Len(appended') PROVE appended'[i].r.k =< k'
        BY <1>0, <2>2, <3>2, <3>3 DEF TimeInv
      <3>5. ASSUME NEW i \in 1 .. Len(appended'), NEW j \in 1 .. Len(appended'), i < j,
                   OneRow(appended'[j])
            PROVE  appended'[i].r.k < appended'[j].r.k
        <4>1. i \in 1 .. Len(appended) /\ appended'[i] = appended[i]
          BY <1>0, <3>2, <3>5
        <4>2. CASE j = Len(appended) + 1 /\ appended'[j] = new
          BY <2>2, <3>3, <3>5, <4>1, <4>2 DEF TimeInv, OneRow
        <4>3. CASE j \in 1 .. Len(appended) /\ appended'[j] = appended[j]
          BY <3>5, <4>1, <4>3 DEF TimeInv
        <4> QED  BY <3>2, <4>2, <4>3
      <3>6. ASSUME clock' = 0, NEW i \in 1 .. Len(appended'), OneRow(appended'[i])
            PROVE  \E late \in 0 .. Late : appended'[i].t = appended'[i].r.k * Period + late
        <4>1. CASE i = Len(appended) + 1 /\ appended'[i] = new
          <5>1. new.r = row /\ new.r.k = k
            BY <3>3, <3>6, <4>1 DEF OneRow
          <5>2. PICK late \in 0 .. Late : new.t = clock + k * Period + late
            BY <3>1, <3>6, <4>1 DEF OneRow
          <5>3. k * Period \in Nat /\ late \in Int /\ clock = 0
            BY <1>0, <2>2, <3>6, SizesKnown
          <5>4. new.t = k * Period + late
            BY <5>2, <5>3
          <5> QED  BY <4>1, <5>1, <5>4
        <4>2. CASE i \in 1 .. Len(appended) /\ appended'[i] = appended[i]
          BY <2>2, <3>6, <4>2 DEF TimeInv
        <4> QED  BY <3>2, <4>1, <4>2
      <3>7. \A i, j \in 1 .. Len(appended') :
              i < j /\ OneRow(appended'[j]) => appended'[i].r.k < appended'[j].r.k
        BY <3>5
      <3>8. clock' = 0 => \A i \in 1 .. Len(appended') :
                            OneRow(appended'[i]) =>
                              \E late \in 0 .. Late :
                                appended'[i].t = appended'[i].r.k * Period + late
        BY <3>6
      <3> QED  BY <2>3, <3>4, <3>7, <3>8 DEF TimeInv, OneRow
    <2> QED  BY <1>1, <2>4, <2>5, RowAppended
  <1>2. CASE Activate
    <2>1. k' = k + 1 /\ UNCHANGED <<appended, clock>>
      BY <1>2 DEF Activate
    <2>2. \A i \in 1 .. Len(appended) : appended[i].r.k =< k' /\ appended[i].r.k < k'
      BY <1>0, <2>1 DEF TimeInv
    <2> QED  BY <2>1, <2>2 DEF TimeInv
  <1>3. CASE StepClock
    <2>1. clock' # 0 /\ UNCHANGED <<appended, k, step>>
      BY <1>3, SizesKnown DEF StepClock
    <2> QED  BY <2>1 DEF TimeInv, Sampling
  <1>4. CASE CheckRule \/ ReadHits \/ ReadEth
    <2>1. Sampling /\ UNCHANGED <<appended, k, clock>>
      BY <1>4 DEF CheckRule, ReadHits, ReadEth, Sampling
    <2> QED  BY <2>1 DEF TimeInv
  <1>5. CASE Trim \/ Move \/ KillSampler
    <2>1. ~Sampling' /\ UNCHANGED <<appended, k, clock>>
      BY <1>5 DEF Trim, Move, KillSampler, Sampling
    <2> QED  BY <2>1 DEF TimeInv
  <1>6. CASE Request \/ ChronydRestart \/ FlushRules \/ UNCHANGED statsVars
    <2>1. UNCHANGED <<appended, k, clock, step>>
      BY <1>6 DEF Request, ChronydRestart, FlushRules, statsVars
    <2> QED  BY <2>1 DEF TimeInv, Sampling
  <1> QED  BY <1>1, <1>2, <1>3, <1>4, <1>5, <1>6 DEF StatsNext

(* LEMMA HeardMore: one request more, a new counter, and a row read now. *)
LEMMA HeardMore ==
    ASSUME NEW x, x.hits \in Nat, x.heard \in Nat, x.hitsEra \in Int,
           NEW h \in Nat, NEW q \in Nat, NEW e \in Nat, HeardSince(x, h, q, e)
    PROVE  /\ HeardSince(x, h + 1, q + 1, e) /\ HeardSince(x, 0, q, e + 1)
           /\ \A y : y.hits = h /\ y.heard = q /\ y.hitsEra = e => HitsPair(x, y)
           /\ \A y : y.hits = 0 /\ y.heard = q /\ y.hitsEra = -1 => HitsPair(x, y)
  <1>1. HeardSince(x, h + 1, q + 1, e)
    BY DEF HeardSince
  <1>2. HeardSince(x, 0, q, e + 1)
    BY DEF HeardSince
  <1>3. ASSUME NEW y, y.hits = h, y.heard = q, y.hitsEra = e PROVE HitsPair(x, y)
    BY <1>3 DEF HeardSince, HitsPair
  <1>4. ASSUME NEW y, y.hits = 0, y.heard = q, y.hitsEra = -1 PROVE HitsPair(x, y)
    BY <1>4 DEF HeardSince, HitsPair
  <1> QED  BY <1>1, <1>2, <1>3, <1>4

(* LEMMA HitsStill: the steps that leave the counter of chronyd alone. *)
LEMMA HitsStill ==
    ASSUME HitsInv, UNCHANGED <<appended, hits, requests, hitsEra>>,
           step' \in {"list", "append"} =>
             /\ step \in {"list", "append"}
             /\ row'.hits = row.hits /\ row'.heard = row.heard /\ row'.hitsEra = row.hitsEra
             /\ row'.k = row.k
    PROVE  HitsInv'
  <1>1. ASSUME NEW i \in 1 .. Len(appended) PROVE HitsSince(appended[i].r)'
    BY DEF HitsInv, HitsSince, HeardSince
  <1>2. ASSUME NEW i \in 1 .. Len(appended), NEW j \in 1 .. Len(appended), i < j
        PROVE  HitsPair(appended[i].r, appended[j].r)'
    BY <1>2 DEF HitsInv, HitsPair
  <1>3. ASSUME step' \in {"list", "append"}
        PROVE  HitsSince(row)' /\ \A i \in 1 .. Len(appended) : HitsPair(appended[i].r, row)'
    <2>1. HitsSince(row) /\ \A i \in 1 .. Len(appended) : HitsPair(appended[i].r, row)
      BY <1>3 DEF HitsInv
    <2>2. /\ row'.hits = row.hits /\ row'.heard = row.heard /\ row'.hitsEra = row.hitsEra
          /\ row'.k = row.k
      BY <1>3
    <2>3. HitsSince(row)'
      BY <2>1, <2>2 DEF HitsSince, HeardSince
    <2>4. ASSUME NEW i \in 1 .. Len(appended) PROVE HitsPair(appended[i].r, row)'
      BY <2>1, <2>2 DEF HitsPair
    <2> QED  BY <2>3, <2>4
  <1> QED  BY <1>1, <1>2, <1>3 DEF HitsInv

(* LEMMA HitsRead: chronyc reads what has been counted since every row. *)
LEMMA HitsRead ==
    ASSUME StatsType, HitsInv, ReadHits
    PROVE  HitsInv'
  <1>1. appended \in Seq(Stored) /\ hits \in Nat /\ requests \in Nat /\ hitsEra \in Nat
        /\ UNCHANGED <<appended, hits, requests, hitsEra>>
    BY DEF StatsType, ReadHits, counterVars
  <1>2. /\ row'.heard = requests
        /\ \/ row'.hits = hits /\ row'.hitsEra = hitsEra
           \/ row'.hits = 0 /\ row'.hitsEra = -1
    <2>1. \/ row' = [k |-> k, hits |-> hits, heard |-> requests, hitsEra |-> hitsEra, text |-> FALSE]
          \/ row' = [k |-> k, hits |-> 0, heard |-> requests, hitsEra |-> -1, text |-> FALSE]
          \/ row' = [k |-> k, hits |-> 0, heard |-> requests, hitsEra |-> -1, text |-> TRUE]
      BY DEF ReadHits
    <2> QED  BY <2>1
  <1>3. ASSUME NEW i \in 1 .. Len(appended) PROVE HitsSince(appended[i].r)'
    BY <1>1 DEF HitsInv, HitsSince, HeardSince
  <1>4. ASSUME NEW i \in 1 .. Len(appended), NEW j \in 1 .. Len(appended), i < j
        PROVE  HitsPair(appended[i].r, appended[j].r)'
    BY <1>1, <1>4 DEF HitsInv, HitsPair
  <1>5. HitsSince(row)'
    BY <1>1, <1>2 DEF HitsSince, HeardSince
  <1>6. ASSUME NEW i \in 1 .. Len(appended) PROVE HitsPair(appended[i].r, row)'
    <2>1. HitsSince(appended[i].r)
      BY DEF HitsInv
    <2>2. /\ appended[i].r.hits \in Nat /\ appended[i].r.heard \in Nat
          /\ appended[i].r.hitsEra \in Int
      BY <1>1, StoredRows DEF Sampled
    <2>3. appended'[i] = appended[i]
      BY <1>1
    <2>4. HitsPair(appended[i].r, row')
      BY <1>1, <1>2, <2>1, <2>2, HeardMore DEF HitsSince
    <2> QED  BY <2>3, <2>4 DEF HitsPair
  <1> QED  BY <1>1, <1>3, <1>4, <1>5, <1>6 DEF HitsInv

(* LEMMA HitsAppended: the new row is the one that was compared. *)
LEMMA HitsAppended ==
    ASSUME StatsType, HitsInv, Append1
    PROVE  HitsInv'
  <1>2. step = "append" /\ step' = "trim" /\ UNCHANGED <<hits, requests, hitsEra>>
    BY DEF Append1, counterVars
  <1>3. CASE UNCHANGED appended
    <2>1. ASSUME NEW i \in 1 .. Len(appended) PROVE HitsSince(appended[i].r)'
      BY <1>2, <1>3 DEF HitsInv, HitsSince, HeardSince
    <2>2. ASSUME NEW i \in 1 .. Len(appended), NEW j \in 1 .. Len(appended), i < j
          PROVE  HitsPair(appended[i].r, appended[j].r)'
      BY <1>3, <2>2 DEF HitsInv, HitsPair
    <2> QED  BY <1>2, <1>3, <2>1, <2>2 DEF HitsInv
  <1>4. CASE \E new : /\ OneMore(appended, appended', new)
                      /\ new.r = row \/ (new.r.k = 0 /\ new.r.hitsEra = -1)
    <2>1. PICK new : /\ OneMore(appended, appended', new)
                     /\ new.r = row \/ (new.r.k = 0 /\ new.r.hitsEra = -1)
      BY <1>4
    <2>2. ASSUME NEW i \in 1 .. Len(appended')
          PROVE  \/ i = Len(appended) + 1 /\ appended'[i] = new
                 \/ i \in 1 .. Len(appended) /\ appended'[i] = appended[i]
      BY <2>1 DEF OneMore
    <2>3. ASSUME NEW i \in 1 .. Len(appended') PROVE HitsSince(appended[i].r)'
      <3>1. CASE appended'[i] = new
        BY <1>2, <2>1, <3>1 DEF HitsInv, HitsSince, HeardSince
      <3>2. CASE i \in 1 .. Len(appended) /\ appended'[i] = appended[i]
        BY <1>2, <3>2 DEF HitsInv, HitsSince, HeardSince
      <3> QED  BY <2>2, <3>1, <3>2
    <2>4. ASSUME NEW i \in 1 .. Len(appended'), NEW j \in 1 .. Len(appended'), i < j
          PROVE  HitsPair(appended[i].r, appended[j].r)'
      <3>1. i \in 1 .. Len(appended) /\ appended'[i] = appended[i]
        BY <2>1, <2>2, <2>4 DEF OneMore
      <3>2. CASE appended'[j] = new
        BY <1>2, <2>1, <3>1, <3>2 DEF HitsInv, HitsPair
      <3>3. CASE j \in 1 .. Len(appended) /\ appended'[j] = appended[j]
        BY <2>4, <3>1, <3>3 DEF HitsInv, HitsPair
      <3> QED  BY <2>2, <3>2, <3>3
    <2> QED  BY <1>2, <2>3, <2>4 DEF HitsInv
  <1> QED  BY <1>3, <1>4, RowAppended

(* LEMMA HitsMove: one request more, or a new counter. *)
LEMMA HitsMove ==
    ASSUME StatsType, HitsInv, Request \/ ChronydRestart
    PROVE  HitsInv'
  <1>1. /\ appended \in Seq(Stored) /\ hits \in Nat /\ requests \in Nat /\ hitsEra \in Nat
        /\ UNCHANGED <<appended, step, row>>
        /\ \/ hits' = hits + 1 /\ requests' = requests + 1 /\ hitsEra' = hitsEra
           \/ hits' = 0 /\ requests' = requests /\ hitsEra' = hitsEra + 1
    BY DEF StatsType, Request, ChronydRestart
  <1>2. ASSUME NEW i \in 1 .. Len(appended) PROVE HitsSince(appended[i].r)'
    <2>1. HitsSince(appended[i].r)
      BY DEF HitsInv
    <2>2. /\ appended[i].r.hits \in Nat /\ appended[i].r.heard \in Nat
          /\ appended[i].r.hitsEra \in Int
      BY <1>1, StoredRows DEF Sampled
    <2>3. appended'[i] = appended[i]
      BY <1>1
    <2>4. /\ HeardSince(appended[i].r, hits + 1, requests + 1, hitsEra)
          /\ HeardSince(appended[i].r, 0, requests, hitsEra + 1)
      BY <1>1, <2>1, <2>2, HeardMore DEF HitsSince
    <2>5. HeardSince(appended[i].r, hits', requests', hitsEra')
      BY <1>1, <2>4, Zenon
    <2> QED  BY <2>3, <2>5 DEF HitsSince, HeardSince
  <1>3. ASSUME step \in {"list", "append"} PROVE HitsSince(row)'
    <2>1. HitsSince(row)
      BY <1>3 DEF HitsInv
    <2>2. row.hits \in Nat /\ row.heard \in Nat /\ row.hitsEra \in Int
      BY <1>3 DEF StatsType, Started, Sampled
    <2>4. /\ HeardSince(row, hits + 1, requests + 1, hitsEra)
          /\ HeardSince(row, 0, requests, hitsEra + 1)
      BY <1>1, <2>1, <2>2, HeardMore DEF HitsSince
    <2>5. HeardSince(row, hits', requests', hitsEra')
      BY <1>1, <2>4, Zenon
    <2> QED  BY <1>1, <2>5 DEF HitsSince, HeardSince
  <1> QED  BY <1>1, <1>2, <1>3 DEF HitsInv, HitsPair

(* LEMMA HitsStep: every step. *)
LEMMA HitsStep ==
    ASSUME StatsType, HitsInv, [StatsNext]_statsVars
    PROVE  HitsInv'
  <1>1. CASE ReadHits
    BY <1>1, HitsRead
  <1>2. CASE Append1
    BY <1>2, HitsAppended
  <1>3. CASE Request \/ ChronydRestart
    BY <1>3, HitsMove
  <1>4. CASE ReadEth
    <2>1. /\ step = "list" /\ row'.k = k /\ row.k = k
          /\ row'.hits = row.hits /\ row'.heard = row.heard /\ row'.hitsEra = row.hitsEra
          /\ UNCHANGED <<appended, hits, requests, hitsEra>>
      BY <1>4 DEF ReadEth, counterVars, StatsType
    <2> QED  BY <2>1, HitsStill
  <1>5. CASE Activate \/ CheckRule \/ Trim \/ Move \/ KillSampler
    <2>1. step' \notin {"list", "append"} /\ UNCHANGED <<appended, hits, requests, hitsEra>>
      BY <1>5 DEF Activate, CheckRule, Trim, Move, KillSampler, counterVars
    <2> QED  BY <2>1, HitsStill
  <1>6. CASE FlushRules \/ StepClock \/ UNCHANGED statsVars
    <2>1. UNCHANGED <<step, row, appended, hits, requests, hitsEra>>
      BY <1>6 DEF FlushRules, StepClock, statsVars, counterVars
    <2> QED  BY <2>1, HitsStill
  <1> QED  BY <1>1, <1>2, <1>3, <1>4, <1>5, <1>6 DEF StatsNext

(* LEMMA SeenMore: one packet more, a new rule, and a row read now. *)
LEMMA SeenMore ==
    ASSUME NEW x, x.eth \in Nat, x.seen \in Nat, x.ruleEra \in Int,
           NEW there \in BOOLEAN, NEW top \in Nat, ~there => top = 0,
           NEW q \in Nat, NEW e \in Nat, SeenSince(x, there, top, q, e)
    PROVE  /\ there => SeenSince(x, TRUE, top + 1, q + 1, e)
           /\ ~there => SeenSince(x, FALSE, 0, q + 1, e)
           /\ SeenSince(x, TRUE, 0, q, e + 1) /\ SeenSince(x, FALSE, 0, q, e + 1)
           /\ \A y : y.eth = top /\ y.seen = q /\ y.ruleEra = e => EthPair(x, y)
           /\ \A y : y.eth = 0 /\ y.seen = q /\ y.ruleEra = -1 => EthPair(x, y)
  <1>1. there => SeenSince(x, TRUE, top + 1, q + 1, e)
    BY DEF SeenSince
  <1>2. ~there => SeenSince(x, FALSE, 0, q + 1, e)
    BY DEF SeenSince
  <1>3. SeenSince(x, TRUE, 0, q, e + 1) /\ SeenSince(x, FALSE, 0, q, e + 1)
    BY DEF SeenSince
  <1>4. ASSUME NEW y, y.eth = top, y.seen = q, y.ruleEra = e PROVE EthPair(x, y)
    BY <1>4 DEF SeenSince, EthPair
  <1>5. ASSUME NEW y, y.eth = 0, y.seen = q, y.ruleEra = -1 PROVE EthPair(x, y)
    BY <1>5 DEF SeenSince, EthPair
  <1> QED  BY <1>1, <1>2, <1>3, <1>4, <1>5

(* LEMMA RuleState: the counter of the first rule. *)
LEMMA RuleState ==
    ASSUME StatsType
    PROVE  /\ RuleTop \in Nat /\ (Len(rules) > 0) \in BOOLEAN
           /\ ~(Len(rules) > 0) => RuleTop = 0
           /\ requests \in Nat /\ ruleEra \in Nat
           /\ appended \in Seq(Stored)
           /\ \A i \in 1 .. Len(appended) : /\ appended[i].r.eth \in Nat
                                            /\ appended[i].r.seen \in Nat
                                            /\ appended[i].r.ruleEra \in Int
  <1>1. rules \in Seq(Nat) /\ requests \in Nat /\ ruleEra \in Nat /\ appended \in Seq(Stored)
    BY DEF StatsType
  <1>2. RuleTop \in Nat /\ (~(Len(rules) > 0) => RuleTop = 0)
    BY <1>1 DEF RuleTop
  <1>3. \A i \in 1 .. Len(appended) : /\ appended[i].r.eth \in Nat
                                      /\ appended[i].r.seen \in Nat
                                      /\ appended[i].r.ruleEra \in Int
    BY <1>1, StoredRows DEF Sampled
  <1> QED  BY <1>1, <1>2, <1>3

(* LEMMA EthStill: the steps that leave the rules alone. *)
LEMMA EthStill ==
    ASSUME EthInv, UNCHANGED <<appended, rules, requests, ruleEra>>,
           step' = "append" => step = "append" /\ row' = row
    PROVE  EthInv'
  <1>1. UNCHANGED RuleTop
    BY DEF RuleTop
  <1>2. ASSUME NEW i \in 1 .. Len(appended) PROVE EthSince(appended[i].r)'
    BY <1>1 DEF EthInv, EthSince, SeenSince
  <1>3. ASSUME NEW i \in 1 .. Len(appended), NEW j \in 1 .. Len(appended), i < j
        PROVE  EthPair(appended[i].r, appended[j].r)'
    BY <1>3 DEF EthInv, EthPair
  <1>4. ASSUME step' = "append"
        PROVE  EthSince(row)' /\ \A i \in 1 .. Len(appended) : EthPair(appended[i].r, row)'
    <2>1. EthSince(row) /\ \A i \in 1 .. Len(appended) : EthPair(appended[i].r, row)
      BY <1>4 DEF EthInv
    <2>2. EthSince(row)'
      BY <1>1, <1>4, <2>1 DEF EthSince, SeenSince
    <2>3. ASSUME NEW i \in 1 .. Len(appended) PROVE EthPair(appended[i].r, row)'
      BY <1>4, <2>1 DEF EthPair
    <2> QED  BY <2>2, <2>3
  <1> QED  BY <1>2, <1>3, <1>4 DEF EthInv

(* LEMMA EthRead: the list gives what the rule counted since every row. *)
LEMMA EthRead ==
    ASSUME StatsType, EthInv, ReadEth
    PROVE  EthInv'
  <1>1. UNCHANGED <<appended, rules, requests, ruleEra>> /\ UNCHANGED RuleTop
    BY DEF ReadEth, counterVars, RuleTop
  <1>2. /\ row'.seen = requests
        /\ \/ Len(rules) > 0 /\ row'.eth = RuleTop /\ row'.ruleEra = ruleEra
           \/ row'.eth = 0 /\ row'.ruleEra = -1
    BY DEF ReadEth, RuleTop
  <1>3. ASSUME NEW i \in 1 .. Len(appended) PROVE EthSince(appended[i].r)'
    BY <1>1 DEF EthInv, EthSince, SeenSince
  <1>4. ASSUME NEW i \in 1 .. Len(appended), NEW j \in 1 .. Len(appended), i < j
        PROVE  EthPair(appended[i].r, appended[j].r)'
    BY <1>1, <1>4 DEF EthInv, EthPair
  <1>5. EthSince(row)'
    BY <1>1, <1>2, RuleState DEF EthSince, SeenSince
  <1>6. ASSUME NEW i \in 1 .. Len(appended) PROVE EthPair(appended[i].r, row)'
    <2>1. SeenSince(appended[i].r, Len(rules) > 0, RuleTop, requests, ruleEra)
      BY DEF EthInv, EthSince
    <2>2. EthPair(appended[i].r, row')
      BY <1>2, <2>1, RuleState, SeenMore
    <2>3. appended'[i] = appended[i]
      BY <1>1
    <2> QED  BY <2>2, <2>3 DEF EthPair
  <1> QED  BY <1>1, <1>3, <1>4, <1>5, <1>6 DEF EthInv

(* LEMMA EthAppended: the new row is the one that was compared. *)
LEMMA EthAppended ==
    ASSUME StatsType, EthInv, Append1
    PROVE  EthInv'
  <1>2. step = "append" /\ step' = "trim" /\ UNCHANGED <<rules, requests, ruleEra, RuleTop>>
    BY DEF Append1, counterVars, RuleTop
  <1>3. CASE UNCHANGED appended
    <2>1. ASSUME NEW i \in 1 .. Len(appended) PROVE EthSince(appended[i].r)'
      BY <1>2, <1>3 DEF EthInv, EthSince, SeenSince
    <2>2. ASSUME NEW i \in 1 .. Len(appended), NEW j \in 1 .. Len(appended), i < j
          PROVE  EthPair(appended[i].r, appended[j].r)'
      BY <1>3, <2>2 DEF EthInv, EthPair
    <2> QED  BY <1>2, <1>3, <2>1, <2>2 DEF EthInv
  <1>4. CASE \E new : /\ OneMore(appended, appended', new)
                      /\ new.r = row \/ (new.r.k = 0 /\ new.r.ruleEra = -1)
    <2>1. PICK new : /\ OneMore(appended, appended', new)
                     /\ new.r = row \/ (new.r.k = 0 /\ new.r.ruleEra = -1)
      BY <1>4
    <2>2. ASSUME NEW i \in 1 .. Len(appended')
          PROVE  \/ i = Len(appended) + 1 /\ appended'[i] = new
                 \/ i \in 1 .. Len(appended) /\ appended'[i] = appended[i]
      BY <2>1 DEF OneMore
    <2>3. ASSUME NEW i \in 1 .. Len(appended') PROVE EthSince(appended[i].r)'
      <3>1. CASE appended'[i] = new
        BY <1>2, <2>1, <3>1 DEF EthInv, EthSince, SeenSince
      <3>2. CASE i \in 1 .. Len(appended) /\ appended'[i] = appended[i]
        BY <1>2, <3>2 DEF EthInv, EthSince, SeenSince
      <3> QED  BY <2>2, <3>1, <3>2
    <2>4. ASSUME NEW i \in 1 .. Len(appended'), NEW j \in 1 .. Len(appended'), i < j
          PROVE  EthPair(appended[i].r, appended[j].r)'
      <3>1. i \in 1 .. Len(appended) /\ appended'[i] = appended[i]
        BY <2>1, <2>2, <2>4 DEF OneMore
      <3>2. CASE appended'[j] = new
        BY <1>2, <2>1, <3>1, <3>2 DEF EthInv, EthPair
      <3>3. CASE j \in 1 .. Len(appended) /\ appended'[j] = appended[j]
        BY <2>4, <3>1, <3>3 DEF EthInv, EthPair
      <3> QED  BY <2>2, <3>2, <3>3
    <2> QED  BY <1>2, <2>3, <2>4 DEF EthInv
  <1> QED  BY <1>3, <1>4, RowAppended

(* LEMMA EthMove: one packet more, a rule inserted, the rules flushed. *)
LEMMA EthMove ==
    ASSUME StatsType, EthInv, UNCHANGED <<appended, step, row>> \/ step' # "append",
           UNCHANGED appended,
           \/ /\ Len(rules) > 0 /\ Len(rules') > 0 /\ RuleTop' = RuleTop + 1
              /\ requests' = requests + 1 /\ ruleEra' = ruleEra
           \/ /\ ~(Len(rules) > 0) /\ ~(Len(rules') > 0) /\ RuleTop' = 0
              /\ requests' = requests + 1 /\ ruleEra' = ruleEra
           \/ /\ RuleTop' = 0 /\ requests' = requests /\ ruleEra' = ruleEra + 1
    PROVE  EthInv'
  <1>1. ASSUME NEW x, x.eth \in Nat, x.seen \in Nat, x.ruleEra \in Int, EthSince(x)
        PROVE  SeenSince(x, Len(rules') > 0, RuleTop', requests', ruleEra')
    <2>1. SeenSince(x, Len(rules) > 0, RuleTop, requests, ruleEra)
      BY <1>1 DEF EthSince
    <2>2. /\ Len(rules) > 0 => SeenSince(x, TRUE, RuleTop + 1, requests + 1, ruleEra)
          /\ ~(Len(rules) > 0) => SeenSince(x, FALSE, 0, requests + 1, ruleEra)
          /\ SeenSince(x, TRUE, 0, requests, ruleEra + 1)
          /\ SeenSince(x, FALSE, 0, requests, ruleEra + 1)
      BY <1>1, <2>1, RuleState, SeenMore
    <2>3. (Len(rules') > 0) \in BOOLEAN
      OBVIOUS
    <2>4. CASE Len(rules') > 0
      <3>1. SeenSince(x, TRUE, RuleTop', requests', ruleEra')
        BY <2>2, <2>4
      <3> QED  BY <2>4, <3>1 DEF SeenSince
    <2>5. CASE ~(Len(rules') > 0)
      <3>1. SeenSince(x, FALSE, RuleTop', requests', ruleEra')
        BY <2>2, <2>5
      <3> QED  BY <2>5, <3>1 DEF SeenSince
    <2> QED  BY <2>4, <2>5
  <1>2. ASSUME NEW i \in 1 .. Len(appended) PROVE EthSince(appended[i].r)'
    <2>1. SeenSince(appended[i].r, Len(rules') > 0, RuleTop', requests', ruleEra')
      BY <1>1, RuleState DEF EthInv
    <2>2. appended'[i] = appended[i]
      OBVIOUS
    <2> QED  BY <2>1, <2>2 DEF EthSince, SeenSince
  <1>3. ASSUME NEW i \in 1 .. Len(appended), NEW j \in 1 .. Len(appended), i < j
        PROVE  EthPair(appended[i].r, appended[j].r)'
    BY <1>3 DEF EthInv, EthPair
  <1>4. ASSUME step' = "append"
        PROVE  EthSince(row)' /\ \A i \in 1 .. Len(appended) : EthPair(appended[i].r, row)'
    <2>1. step = "append" /\ row' = row
      BY <1>4
    <2>2. row.eth \in Nat /\ row.seen \in Nat /\ row.ruleEra \in Int
      BY <2>1 DEF StatsType, Sampled
    <2>3. SeenSince(row, Len(rules') > 0, RuleTop', requests', ruleEra')
      BY <1>1, <2>1, <2>2 DEF EthInv
    <2>4. EthSince(row)'
      BY <2>1, <2>3 DEF EthSince, SeenSince
    <2>5. ASSUME NEW i \in 1 .. Len(appended) PROVE EthPair(appended[i].r, row)'
      BY <2>1 DEF EthInv, EthPair
    <2> QED  BY <2>4, <2>5
  <1> QED  BY <1>2, <1>3, <1>4 DEF EthInv

(* LEMMA EthStep: every step. *)
LEMMA EthStep ==
    ASSUME StatsType, EthInv, [StatsNext]_statsVars
    PROVE  EthInv'
  <1>0. rules \in Seq(Nat)
    BY DEF StatsType
  <1>1. CASE ReadEth
    BY <1>1, EthRead
  <1>2. CASE Append1
    BY <1>2, EthAppended
  <1>3. CASE CheckRule
    <2>1. step' # "append" /\ UNCHANGED <<appended, requests>>
      BY <1>3 DEF CheckRule
    <2>2. CASE UNCHANGED <<rules, ruleEra>>
      BY <2>1, <2>2, EthStill
    <2>3. CASE rules' = <<0>> \o rules /\ ruleEra' = ruleEra + 1
      <3>1. <<0>> \in Seq(Nat) /\ Len(<<0>>) = 1 /\ <<0>>[1] = 0
        OBVIOUS
      <3>2. Len(<<0>> \o rules) = 1 + Len(rules) /\ (<<0>> \o rules)[1] = 0
        <4>1. 1 \in 1 .. 1 + Len(rules)
          BY <1>0
        <4> QED  BY <1>0, <3>1, <4>1, ConcatProperties
      <3>3. Len(rules') > 0 /\ rules'[1] = 0
        <4>1. Len(rules') = 1 + Len(rules) /\ rules'[1] = 0
          BY <2>3, <3>2, Zenon
        <4> QED  BY <1>0, <4>1
      <3>4. RuleTop' = 0
        BY <3>3 DEF RuleTop
      <3> QED  BY <2>1, <2>3, <3>4, EthMove
    <2> QED  BY <1>3, <2>2, <2>3 DEF CheckRule
  <1>4. CASE Request
    <2>1. UNCHANGED <<appended, step, row>> /\ requests' = requests + 1 /\ ruleEra' = ruleEra
      BY <1>4 DEF Request
    <2>2. CASE Len(rules) > 0
      <3>1. rules' = [rules EXCEPT ![1] = @ + 1]
        BY <1>4, <2>2 DEF Request
      <3>2. Len(rules') > 0 /\ rules'[1] = rules[1] + 1
        BY <1>0, <2>2, <3>1
      <3>3. RuleTop' = RuleTop + 1
        BY <2>2, <3>2 DEF RuleTop
      <3> QED  BY <2>1, <2>2, <3>2, <3>3, EthMove
    <2>3. CASE ~(Len(rules) > 0)
      <3>1. rules' = rules
        BY <1>4, <2>3 DEF Request
      <3>2. RuleTop' = 0 /\ ~(Len(rules') > 0)
        BY <2>3, <3>1 DEF RuleTop
      <3> QED  BY <2>1, <2>3, <3>2, EthMove
    <2> QED  BY <2>2, <2>3
  <1>5. CASE FlushRules
    <2>1. /\ UNCHANGED <<appended, step, row, requests>> /\ ruleEra' = ruleEra + 1
          /\ rules' = << >>
      BY <1>5 DEF FlushRules
    <2>2. RuleTop' = 0
      BY <2>1 DEF RuleTop
    <2> QED  BY <2>1, <2>2, EthMove
  <1>6. CASE Activate \/ ReadHits \/ Trim \/ Move \/ KillSampler
    <2>1. step' # "append" /\ UNCHANGED <<appended, rules, requests, ruleEra>>
      BY <1>6 DEF Activate, ReadHits, Trim, Move, KillSampler, counterVars
    <2> QED  BY <2>1, EthStill
  <1>7. CASE ChronydRestart \/ StepClock \/ UNCHANGED statsVars
    <2>1. UNCHANGED <<step, row, appended, rules, requests, ruleEra>>
      BY <1>7 DEF ChronydRestart, StepClock, statsVars, counterVars
    <2> QED  BY <2>1, EthStill
  <1> QED  BY <1>1, <1>2, <1>3, <1>4, <1>5, <1>6, <1>7 DEF StatsNext

-----------------------------------------------------------------------------
(* The page *)

(* Which of all rows the ring shows: the row at j is the which[j]-th. *)
Placed(ring, which) ==
    LET Shown(i) == \E j \in 0 .. ring.nrows - 1 : which[j] = i
    IN /\ ring.nrows \in 0 .. MaxRows
       /\ which \in [0 .. ring.nrows - 1 -> 1 .. Len(appended)]
       /\ \A j \in 0 .. ring.nrows - 1 :
            Row(ring, j) = appended[which[j]] /\ parse_row(appended[which[j]])
       /\ \A j, l \in 0 .. ring.nrows - 1 : j < l => which[j] < which[l]
       /\ \A j \in 0 .. ring.nrows - 1, i \in 1 .. Len(appended) :
            parse_row(appended[i]) /\ which[j] < i => Shown(i)
       /\ ring.nrows < MaxRows =>
            \A i \in 1 .. Len(appended) :
              parse_row(appended[i]) /\ Len(appended) - i < Last => Shown(i)

(* LEMMA RowsPlaced: the ring of the file's rows is one of all rows. *)
LEMMA RowsPlaced ==
    ASSUME StatsType, FileInv
    PROVE  \E which : Placed(Loaded, which)
  <1>1. csv \in Seq(Stored) /\ Len(csv) \in Nat /\ Len(appended) \in Nat
        /\ IsEnd(csv, appended, Last) /\ Last \in Nat
    <2>1. csv \in Seq(Stored) /\ appended \in Seq(Stored)
      BY DEF StatsType
    <2>2. Last \in Nat
      BY LastKnown DEF StatsType
    <2> QED  BY <2>1, <2>2, StoredRows DEF FileInv
  <1>2. PICK idx : RingOf(Loaded, MaxRows, csv, Sensible(csv), Len(csv), idx)
    BY <1>1, LoadedRows
  <1> DEFINE ring == Loaded
             off == Len(appended) - Len(csv)
             which == [j \in 0 .. ring.nrows - 1 |-> off + idx[j]]
  <1> HIDE DEF ring
  <1>3. /\ RingOf(ring, MaxRows, csv, Sensible(csv), Len(csv), idx) /\ ring.nrows \in 0 .. MaxRows /\ ring.nrows \in Nat
        /\ idx \in [0 .. ring.nrows - 1 -> 1 .. Len(csv)]
    BY <1>2, SizesKnown DEF ring, RingOf
  <1>0. \A j : Row(ring, j) = Slot(ring, MaxRows, j)
    BY DEF Row, Slot
  <1>4. off \in Nat /\ off + Len(csv) = Len(appended)
        /\ (Len(csv) >= Last \/ off = 0)
    BY <1>1, SizesKnown DEF IsEnd
  <1>5. \A i \in 1 .. Len(csv) : csv[i] = appended[off + i] /\ off + i \in 1 .. Len(appended)
    BY <1>1, <1>4 DEF IsEnd
  <1>6. \A i \in 1 .. Len(appended) : i > off => i - off \in 1 .. Len(csv) /\ appended[i] = csv[i - off]
    <2> TAKE i \in 1 .. Len(appended)
    <2> HAVE i > off
    <2>1. i - off \in 1 .. Len(csv) /\ off + (i - off) = i
      BY <1>1, <1>4
    <2> QED  BY <1>5, <2>1
  <1> HIDE DEF off
  <1>7. ASSUME NEW j \in 0 .. ring.nrows - 1
        PROVE  which[j] = off + idx[j] /\ idx[j] \in 1 .. Len(csv)
    BY <1>3
  <1>8. which \in [0 .. ring.nrows - 1 -> 1 .. Len(appended)]
    BY <1>3, <1>5
  <1> HIDE DEF which
  <1>9. ASSUME NEW j \in 0 .. ring.nrows - 1
        PROVE  Row(ring, j) = appended[which[j]] /\ parse_row(appended[which[j]])
    <2>1. Row(ring, j) = csv[idx[j]] /\ parse_row(csv[idx[j]])
      BY <1>0, <1>3 DEF RingOf, Sensible
    <2>2. csv[idx[j]] = appended[which[j]]
      BY <1>5, <1>7
    <2> QED  BY <2>1, <2>2
  <1>10. ASSUME NEW j \in 0 .. ring.nrows - 1, NEW l \in 0 .. ring.nrows - 1, j < l
         PROVE  which[j] < which[l]
    <2>1. idx[j] < idx[l]
      BY <1>3, <1>10 DEF RingOf
    <2> QED  BY <1>4, <1>7, <2>1
  <1>11. ASSUME NEW i \in 1 .. Len(appended), parse_row(appended[i]), i > off,
                ring.nrows < MaxRows \/ \E j \in 0 .. ring.nrows - 1 : which[j] < i
         PROVE  \E j \in 0 .. ring.nrows - 1 : which[j] = i
    <2>1. i - off \in 1 .. Len(csv) /\ parse_row(csv[i - off])
      BY <1>6, <1>11
    <2>2. ring.nrows < MaxRows \/ \E j \in 0 .. ring.nrows - 1 : idx[j] < i - off
      <3>1. ASSUME NEW j \in 0 .. ring.nrows - 1, which[j] < i PROVE idx[j] < i - off
        BY <1>4, <1>7, <3>1
      <3> QED  BY <1>11, <3>1
    <2>3. PICK j \in 0 .. ring.nrows - 1 : idx[j] = i - off
      BY <1>3, <2>1, <2>2 DEF RingOf, Sensible
    <2>4. which[j] = i
      BY <1>4, <1>7, <2>3
    <2> QED  BY <2>4
  <1>12. ASSUME NEW j \in 0 .. ring.nrows - 1, NEW i \in 1 .. Len(appended),
                parse_row(appended[i]), which[j] < i
         PROVE  \E l \in 0 .. ring.nrows - 1 : which[l] = i
    <2>1. i > off
      BY <1>4, <1>7, <1>12
    <2> QED  BY <1>11, <1>12, <2>1
  <1>13. ASSUME ring.nrows < MaxRows, NEW i \in 1 .. Len(appended),
                parse_row(appended[i]), Len(appended) - i < Last
         PROVE  \E l \in 0 .. ring.nrows - 1 : which[l] = i
    <2>1. i > off
      BY <1>1, <1>4, <1>13, SizesKnown
    <2> QED  BY <1>11, <1>13, <2>1
  <1>14. Placed(ring, which)
    BY <1>3, <1>8, <1>9, <1>10, <1>12, <1>13 DEF Placed
  <1> QED  BY <1>14 DEF ring

(* LEMMA RateBound: rounding down invents no request, and loses less than one *)
(* a minute.                                                                  *)
LEMMA RateBound ==
    ASSUME NEW d \in Nat, NEW e \in Nat, d =< e, NEW p \in Nat, NEW dt \in Nat \ {0}
    PROVE  /\ (d * p) \div dt \in Nat
           /\ ((d * p) \div dt) * dt =< e * p
           /\ d = e => e * p < ((d * p) \div dt + 1) * dt
  <1>1. d * p \in Nat /\ e * p \in Nat /\ d * p =< e * p
    BY Z3
  <1> DEFINE x == d * p
             y == e * p
             m == x \div dt
  <1>2. d = e => x = y
    OBVIOUS
  <1> HIDE DEF x, y
  <1>3. x \in Nat /\ y \in Nat /\ x =< y
    BY <1>1 DEF x, y
  <1>4. m \in Nat /\ m * dt =< x /\ x < (m + 1) * dt
    BY <1>3, Quotient
  <1> HIDE DEF m
  <1>5. m * dt \in Nat /\ (m + 1) * dt \in Nat
    BY <1>4, Z3
  <1> DEFINE u == m * dt
             v == (m + 1) * dt
  <1> HIDE DEF u, v
  <1>6. u \in Nat /\ v \in Nat /\ u =< x /\ x < v
    BY <1>4, <1>5 DEF u, v
  <1>7. u =< y /\ (d = e => y < v)
    BY <1>2, <1>3, <1>6
  <1> QED  BY <1>4, <1>7 DEF u, v, m, x, y

(* LEMMA PairRate: two neighbouring rows of the series. *)
LEMMA PairRate ==
    ASSUME NEW a \in Stored, NEW b \in Stored, HitsPair(a.r, b.r), a.r.hitsEra # -1,
           OneRow(b), PerMinuteOf(a, b) # -1
    PROVE  LET m == PerMinuteOf(a, b)
               all == (b.r.heard - a.r.heard) * PerMinute
           IN /\ m >= 0 /\ m * (b.t - a.t) =< all
              /\ a.r.hitsEra = b.r.hitsEra => all < (m + 1) * (b.t - a.t)
  <1> DEFINE d == b.r.hits - a.r.hits
             e == b.r.heard - a.r.heard
             dt == b.t - a.t
  <1>1. d >= 0 /\ dt > 0 /\ PerMinuteOf(a, b) = (d * PerMinute) \div dt
    BY DEF PerMinuteOf
  <1>2. /\ a.r \in Sampled /\ b.r \in Sampled /\ a.t \in Int /\ b.t \in Int
    BY DEF Stored
  <1>3. /\ a.r.hits \in Nat /\ b.r.hits \in Nat /\ a.r.heard \in Nat /\ b.r.heard \in Nat
    BY <1>2 DEF Sampled
  <1>4. d \in Nat /\ dt \in Nat \ {0} /\ e \in Nat /\ d =< e
        /\ (a.r.hitsEra = b.r.hitsEra => d = e)
    BY <1>1, <1>2, <1>3 DEF HitsPair, OneRow
  <1> HIDE DEF d, e, dt
  <1>5. /\ (d * PerMinute) \div dt \in Nat
        /\ ((d * PerMinute) \div dt) * dt =< e * PerMinute
        /\ d = e => e * PerMinute < ((d * PerMinute) \div dt + 1) * dt
    BY <1>4, SizesKnown, RateBound
  <1> DEFINE m == PerMinuteOf(a, b)
  <1>6. /\ m \in Nat
        /\ m * dt =< e * PerMinute
        /\ d = e => e * PerMinute < (m + 1) * dt
    BY <1>1, <1>5, Zenon
  <1> HIDE DEF m
  <1>7. m >= 0
    BY <1>6
  <1> QED  BY <1>4, <1>6, <1>7, Zenon DEF m, d, e, dt

(* LEMMA BaseFound: eth_delta has a row to start from. *)
LEMMA BaseFound ==
    ASSUME NEW ring, ring.nrows \in Nat \ {0}, NEW w \in Nat,
           Row(ring, ring.nrows - 1).t \in Int
    PROVE  LET Outside(j) == Row(ring, ring.nrows - 1).t - Row(ring, j).t > w
               base == Base(ring, w)
           IN /\ base \in 0 .. ring.nrows - 1
              /\ \A i \in base .. ring.nrows - 1 : ~ Outside(i)
              /\ base > 0 => Outside(base - 1)
  <1> DEFINE n == ring.nrows
             Outside(j) == Row(ring, ring.nrows - 1).t - Row(ring, j).t > w
             T == {j \in 0 .. n - 1 : \A i \in j .. n - 1 : ~ Outside(i)}
             Starts(j) == /\ j \in 0 .. n - 1
                          /\ \A i \in j .. n - 1 : ~ Outside(i)
                          /\ j > 0 => Outside(j - 1)
  <1>1. ~ Outside(n - 1)
    OBVIOUS
  <1>2. n - 1 \in T
    <2>1. n - 1 \in 0 .. n - 1 /\ \A i \in n - 1 .. n - 1 : i = n - 1
      OBVIOUS
    <2> HIDE DEF Outside
    <2> QED  BY <1>1, <2>1
  <1>3. T \in SUBSET Nat
    OBVIOUS
  <1>4. \A j : j \in T <=> j \in 0 .. n - 1 /\ \A i \in j .. n - 1 : ~ Outside(i)
    OBVIOUS
  <1>5. \A j : Starts(j) <=> /\ j \in 0 .. n - 1
                             /\ \A i \in j .. n - 1 : ~ Outside(i)
                             /\ j > 0 => Outside(j - 1)
    OBVIOUS
  <1>6. Base(ring, w) = CHOOSE j \in 0 .. n - 1 : /\ \A i \in j .. n - 1 : ~ Outside(i)
                                                  /\ j > 0 => Outside(j - 1)
    BY DEF Base
  <1>7. n \in Nat \ {0}
    OBVIOUS
  <1> HIDE DEF T, Starts, Outside, n
  <1>8. PICK j \in T : \A l \in T : j =< l
    BY <1>2, <1>3, Smallest
  <1>9. Starts(j)
    <2>1. ASSUME j > 0 PROVE Outside(j - 1)
      <3> SUFFICES ASSUME ~ Outside(j - 1) PROVE FALSE
        OBVIOUS
      <3>1. j \in 0 .. n - 1 /\ j - 1 \in 0 .. n - 1
        BY <1>4, <1>7, <1>8, <2>1
      <3>2. ASSUME NEW i \in j - 1 .. n - 1 PROVE ~ Outside(i)
        <4>1. i = j - 1 \/ i \in j .. n - 1
          BY <1>7, <3>1
        <4> QED  BY <1>4, <1>8, <4>1
      <3>3. j - 1 \in T
        BY <1>4, <3>1, <3>2
      <3> QED  BY <1>8, <3>1, <3>3
    <2> QED  BY <1>4, <1>5, <1>8, <2>1
  <1>10. /\ Base(ring, w) \in 0 .. n - 1
         /\ \A i \in Base(ring, w) .. n - 1 : ~ Outside(i)
         /\ Base(ring, w) > 0 => Outside(Base(ring, w) - 1)
    <2>1. \E b \in 0 .. n - 1 : /\ \A i \in b .. n - 1 : ~ Outside(i)
                                /\ b > 0 => Outside(b - 1)
      BY <1>5, <1>9
    <2> QED  BY <1>6, <2>1
  <1> QED  BY <1>10 DEF Outside, n

(* LEMMA RowsShown: the rows of the ring are rows that were appended, and     *)
(* neighbours in the ring came one after the other.                           *)
LEMMA RowsShown ==
    ASSUME StatsType, NEW ring, NEW which, Placed(ring, which)
    PROVE  /\ ring.nrows \in Nat
           /\ \A j \in 0 .. ring.nrows - 1 :
                /\ Row(ring, j) \in Stored /\ which[j] \in 1 .. Len(appended)
                /\ Row(ring, j) = appended[which[j]]
           /\ \A j, l \in 0 .. ring.nrows - 1 : j < l => which[j] < which[l]
  <1>1. appended \in Seq(Stored) /\ ring.nrows \in Nat
    BY SizesKnown DEF StatsType, Placed
  <1>2. ASSUME NEW j \in 0 .. ring.nrows - 1
        PROVE  /\ Row(ring, j) \in Stored /\ which[j] \in 1 .. Len(appended)
               /\ Row(ring, j) = appended[which[j]]
    <2>1. which[j] \in 1 .. Len(appended) /\ Row(ring, j) = appended[which[j]]
      BY DEF Placed
    <2> QED  BY <1>1, <2>1, StoredRows
  <1> QED  BY <1>1, <1>2 DEF Placed

(* The inductive invariant. *)
StatsInv == StatsType /\ FileInv /\ HitsInv /\ EthInv /\ TimeInv

(* LEMMA StatsAlways: it holds. *)
LEMMA StatsAlways == StatsSpec => []StatsInv
  <1>1. StatsInit => StatsInv
    <2> SUFFICES ASSUME StatsInit PROVE StatsInv
      OBVIOUS
    <2>1. StatsType
      <3>1. << >> \in Seq(Stored) /\ << >> \in Seq(Nat)
        OBVIOUS
      <3>2. /\ k \in Nat /\ hits \in Nat /\ requests \in Nat /\ hitsEra \in Nat /\ ruleEra \in Nat
            /\ clock \in Int
        BY DEF StatsInit
      <3>3. cut \in BOOLEAN
        BY Zenon DEF StatsInit
      <3> QED  BY <3>1, <3>2, <3>3 DEF StatsInit, StatsType
    <2>2. FileInv /\ HitsInv /\ EthInv /\ TimeInv
      BY DEF StatsInit, FileInv, IsEnd, HitsInv, EthInv, TimeInv
    <2> QED  BY <2>1, <2>2 DEF StatsInv
  <1>2. StatsInv /\ [StatsNext]_statsVars => StatsInv'
    <2> SUFFICES ASSUME StatsInv, [StatsNext]_statsVars PROVE StatsInv'
      OBVIOUS
    <2> QED  BY TypeStep, FileStep, HitsStep, EthStep, TimeStep DEF StatsInv
  <1> QED  BY <1>1, <1>2, PTL DEF StatsSpec

(* THEOREM LatestRowsKept: the page shows the latest rows that make sense, in *)
(* order and without a gap, and all those among the last KEEP for which there *)
(* is room, for every size of file and ring and wherever the script is killed *)
(* or the disk is full (ntp_stats_sample.sh, ntpmon_stats_json).              *)
THEOREM LatestRowsKept == StatsSpec => []RowsKept
  <1>1. StatsInv => RowsKept
    <2> SUFFICES ASSUME StatsInv PROVE RowsKept
      OBVIOUS
    <2> DEFINE ring == Loaded
               shown == 0 .. ring.nrows - 1
               sensible == {i \in 1 .. Len(appended) : parse_row(appended[i])}
    <2>1. PICK which : Placed(Loaded, which)
      BY RowsPlaced DEF StatsInv
    <2>2. ring.nrows =< MaxRows
      BY <2>1, SizesKnown DEF Placed
    <2>3. which \in [shown -> sensible]
      BY <2>1 DEF Placed
    <2>4. \A j \in shown : Row(ring, j) = appended[which[j]]
      BY <2>1 DEF Placed
    <2>5. \A j, l \in shown : j < l => which[j] < which[l]
      BY <2>1 DEF Placed
    <2>6. \A j \in shown, i \in sensible : which[j] < i => \E l \in shown : which[l] = i
      BY <2>1 DEF Placed
    <2>7. ring.nrows < MaxRows =>
            \A i \in sensible : Len(appended) - i < Last => \E l \in shown : which[l] = i
      BY <2>1 DEF Placed
    <2> QED  BY <2>2, <2>3, <2>4, <2>5, <2>6, <2>7 DEF RowsKept
  <1> QED  BY <1>1, StatsAlways, PTL

(* LEMMA SeriesTrue: the series of requests per minute. *)
LEMMA SeriesTrue ==
    ASSUME StatsInv, NEW ring, NEW which, Placed(ring, which), NEW i \in 1 .. ring.nrows - 1
    PROVE  LET a == Row(ring, i - 1)
               b == Row(ring, i)
               m == PerMinuteOf(a, b)
               all == (b.r.heard - a.r.heard) * PerMinute
           IN a.r.hitsEra # -1 /\ OneRow(b) /\ m # -1 =>
                /\ m >= 0 /\ m * (b.t - a.t) =< all
                /\ a.r.hitsEra = b.r.hitsEra => all < (m + 1) * (b.t - a.t)
  <1>1. /\ ring.nrows \in Nat
        /\ \A j \in 0 .. ring.nrows - 1 :
             /\ Row(ring, j) \in Stored /\ which[j] \in 1 .. Len(appended)
             /\ Row(ring, j) = appended[which[j]]
        /\ \A j, l \in 0 .. ring.nrows - 1 : j < l => which[j] < which[l]
    BY RowsShown DEF StatsInv
  <1>2. i - 1 \in 0 .. ring.nrows - 1 /\ i \in 0 .. ring.nrows - 1 /\ i - 1 < i
    BY <1>1
  <1>3. Row(ring, i - 1) \in Stored /\ Row(ring, i) \in Stored
    BY <1>1, <1>2
  <1>4. HitsPair(Row(ring, i - 1).r, Row(ring, i).r)
    <2>1. which[i - 1] < which[i]
      BY <1>1, <1>2
    <2>2. HitsPair(appended[which[i - 1]].r, appended[which[i]].r)
      BY <1>1, <1>2, <2>1 DEF StatsInv, HitsInv
    <2> QED  BY <1>1, <1>2, <2>2
  <1> QED  BY <1>3, <1>4, PairRate

(* LEMMA WindowsTrue: the requests of an interface in the last w seconds. *)
LEMMA WindowsTrue ==
    ASSUME StatsInv, NEW ring, NEW which, Placed(ring, which), ring.nrows > 0, NEW w \in Windows
    PROVE  LET last == Row(ring, ring.nrows - 1)
               base == Row(ring, Base(ring, w))
               delta == eth_delta(ring, w)
           IN base.r.ruleEra # -1 /\ OneRow(last) =>
                /\ delta >= 0 /\ delta =< last.r.seen - base.r.seen
                /\ base.r.ruleEra = last.r.ruleEra => delta = last.r.seen - base.r.seen
  <1>1. /\ ring.nrows \in Nat
        /\ \A j \in 0 .. ring.nrows - 1 :
             /\ Row(ring, j) \in Stored /\ which[j] \in 1 .. Len(appended)
             /\ Row(ring, j) = appended[which[j]]
        /\ \A j, l \in 0 .. ring.nrows - 1 : j < l => which[j] < which[l]
    BY RowsShown DEF StatsInv
  <1> DEFINE z == ring.nrows - 1
             b == Base(ring, w)
  <1>2. z \in 0 .. ring.nrows - 1 /\ w \in Nat /\ ring.nrows \in Nat \ {0}
    BY <1>1, SizesKnown
  <1>3. Row(ring, z).t \in Int
    BY <1>1, <1>2 DEF Stored
  <1>4. b \in 0 .. ring.nrows - 1
    BY <1>2, <1>3, BaseFound
  <1>5. b = z \/ b < z
    BY <1>1, <1>4
  <1>6. eth_delta(ring, w) = IF Row(ring, z).r.eth - Row(ring, b).r.eth < 0 THEN 0
                             ELSE Row(ring, z).r.eth - Row(ring, b).r.eth
    BY DEF eth_delta
  <1> HIDE DEF z, b
  <1>7. /\ Row(ring, z).r.eth \in Nat /\ Row(ring, b).r.eth \in Nat
        /\ Row(ring, z).r.seen \in Nat /\ Row(ring, b).r.seen \in Nat
    BY <1>1, <1>2, <1>4 DEF Stored, Sampled
  <1>8. EthPair(Row(ring, b).r, Row(ring, z).r)
    <2>1. CASE b = z
      BY <1>7, <2>1 DEF EthPair
    <2>2. CASE b < z
      <3>1. which[b] < which[z]
        BY <1>1, <1>2, <1>4, <2>2
      <3>2. EthPair(appended[which[b]].r, appended[which[z]].r)
        BY <1>1, <1>2, <1>4, <3>1 DEF StatsInv, EthInv
      <3> QED  BY <1>1, <1>2, <1>4, <3>2
    <2> QED  BY <1>5, <2>1, <2>2
  <1> DEFINE last == Row(ring, z)
             base == Row(ring, b)
             delta == eth_delta(ring, w)
  <1>9. base.r.ruleEra # -1 /\ OneRow(last) =>
          /\ delta >= 0 /\ delta =< last.r.seen - base.r.seen
          /\ base.r.ruleEra = last.r.ruleEra => delta = last.r.seen - base.r.seen
    <2> HIDE DEF last, base, delta
    <2>1. EthPair(base.r, last.r) /\ {last.r.eth, base.r.eth, last.r.seen, base.r.seen} \subseteq Nat
      BY <1>7, <1>8 DEF last, base
    <2>2. delta = IF last.r.eth - base.r.eth < 0 THEN 0 ELSE last.r.eth - base.r.eth
      BY <1>6 DEF last, base, delta
    <2> QED  BY <2>1, <2>2 DEF EthPair, OneRow
  <1> QED  BY <1>9 DEF z, b

(* THEOREM RatesNeverInvented: no number on the page counts a request that    *)
(* was not there, and none is missed between rows of the same counter, for    *)
(* every window and series, through restarts of chronyd, flushed and stacked  *)
(* rules, rows that could not be read and steps of the clock                  *)
(* (ntpmon_stats_json, eth_delta).                                            *)
THEOREM RatesNeverInvented == StatsSpec => []RatesTrue
  <1>1. StatsInv => RatesTrue
    <2> SUFFICES ASSUME StatsInv PROVE RatesTrue
      OBVIOUS
    <2> DEFINE ring == Loaded
    <2>1. PICK which : Placed(ring, which)
      BY RowsPlaced DEF StatsInv
    <2> HIDE DEF ring
    <2>2. ASSUME NEW i \in 1 .. ring.nrows - 1
          PROVE  LET a == Row(ring, i - 1)
                     b == Row(ring, i)
                     m == PerMinuteOf(a, b)
                     all == (b.r.heard - a.r.heard) * PerMinute
                 IN a.r.hitsEra # -1 /\ OneRow(b) /\ m # -1 =>
                      /\ m >= 0 /\ m * (b.t - a.t) =< all
                      /\ a.r.hitsEra = b.r.hitsEra => all < (m + 1) * (b.t - a.t)
      BY <2>1, SeriesTrue
    <2>3. ASSUME ring.nrows > 0, NEW w \in Windows
          PROVE  LET last == Row(ring, ring.nrows - 1)
                     base == Row(ring, Base(ring, w))
                     delta == eth_delta(ring, w)
                 IN base.r.ruleEra # -1 /\ OneRow(last) =>
                      /\ delta >= 0 /\ delta =< last.r.seen - base.r.seen
                      /\ base.r.ruleEra = last.r.ruleEra => delta = last.r.seen - base.r.seen
      BY <2>1, <2>3, WindowsTrue
    <2> QED  BY <2>2, <2>3, Zenon DEF RatesTrue, ring
  <1> QED  BY <1>1, StatsAlways, PTL

(* LEMMA Spaced: activations that are apart. *)
LEMMA Spaced ==
    ASSUME NEW a \in Nat, NEW b \in Nat, NEW p \in Nat
    PROVE  /\ a * p \in Nat /\ b * p \in Nat
           /\ b = a + 1 => b * p = a * p + p
           /\ b >= a + 2 => b * p >= a * p + 2 * p
  <1>1. a * p \in Nat /\ b * p \in Nat
    BY Z3
  <1>2. b = a + 1 => b * p = a * p + p
    BY Z3
  <1>3. ASSUME b >= a + 2 PROVE b * p >= a * p + 2 * p
    <2>1. (b - a - 2) * p >= 0
      BY <1>3, Z3
    <2>2. b * p = a * p + 2 * p + (b - a - 2) * p
      BY Z3
    <2> DEFINE x == b * p
               y == a * p
               z == (b - a - 2) * p
    <2>3. z \in Int
      OBVIOUS
    <2> HIDE DEF x, y, z
    <2>4. x \in Nat /\ y \in Nat /\ z >= 0 /\ x = y + 2 * p + z
      BY <1>1, <2>1, <2>2 DEF x, y, z
    <2>5. x >= y + 2 * p
      BY <2>3, <2>4
    <2> QED  BY <2>5 DEF x, y
  <1> QED  BY <1>1, <1>2, <1>3

(* THEOREM LastMinuteCovered: the "1m" number spans exactly one activation of *)
(* the timer, for every period and lateness that WindowAssumption admits,     *)
(* while the clock is not stepped (g_eth_win).                                *)
THEOREM LastMinuteCovered == StatsSpec => []MinuteCovered
  <1>1. StatsInv => MinuteCovered
    <2> SUFFICES ASSUME StatsInv, Loaded.nrows > 1, clock = 0,
                        \A j \in 0 .. Loaded.nrows - 1 : OneRow(Row(Loaded, j))
                 PROVE  Base(Loaded, Window) =
                          IF Row(Loaded, Loaded.nrows - 1).r.k = Row(Loaded, Loaded.nrows - 2).r.k + 1
                          THEN Loaded.nrows - 2 ELSE Loaded.nrows - 1
      BY DEF MinuteCovered
    <2> DEFINE ring == Loaded
               n == ring.nrows
               K(j) == Row(ring, j).r.k
               T(j) == Row(ring, j).t
               Outside(j) == T(n - 1) - T(j) > Window
               base == Base(ring, Window)
    <2>1. PICK which : Placed(ring, which)
      BY RowsPlaced DEF StatsInv
    <2> HIDE DEF ring
    <2>2. /\ n \in Nat
          /\ \A j \in 0 .. n - 1 : /\ Row(ring, j) \in Stored /\ which[j] \in 1 .. Len(appended)
                                   /\ Row(ring, j) = appended[which[j]]
          /\ \A j, l \in 0 .. n - 1 : j < l => which[j] < which[l]
      BY <2>1, RowsShown DEF StatsInv
    <2>3. n > 1 /\ \A j \in 0 .. n - 1 : OneRow(Row(ring, j))
      BY DEF ring
    <2>4. ASSUME NEW j \in 0 .. n - 1
          PROVE  K(j) \in Nat /\ \E late \in 0 .. Late : T(j) = K(j) * Period + late
      <3>1. Row(ring, j).r \in Sampled
        BY <2>2 DEF Stored
      <3>2. \E late \in 0 .. Late : T(j) = K(j) * Period + late
        BY <2>2, <2>3 DEF StatsInv, TimeInv
      <3> QED  BY <3>1, <3>2 DEF Sampled
    <2>5. ASSUME NEW j \in 0 .. n - 1, NEW l \in 0 .. n - 1, j < l PROVE K(j) < K(l)
      BY <2>2, <2>3, <2>5 DEF StatsInv, TimeInv
    <2>6. /\ base \in 0 .. n - 1
          /\ \A i \in base .. n - 1 : ~ Outside(i)
          /\ base > 0 => Outside(base - 1)
      <3>1. T(n - 1) \in Int
        <4>1. n - 1 \in 0 .. n - 1
          BY <2>2, <2>3
        <4> QED  BY <2>2, <4>1 DEF Stored
      <3>2. ring.nrows \in Nat \ {0} /\ Window \in Nat
        BY <2>2, <2>3, SizesKnown
      <3> QED  BY <3>1, <3>2, BaseFound, Zenon
    <2> HIDE DEF K, T, n, base
    <2>7. ASSUME NEW j \in 0 .. n - 1, K(n - 1) >= K(j) + 2 PROVE Outside(j)
      <3>1. n - 1 \in 0 .. n - 1
        BY <2>2, <2>3
      <3>2. PICK la \in 0 .. Late : T(n - 1) = K(n - 1) * Period + la
        BY <2>4, <3>1
      <3>3. PICK lb \in 0 .. Late : T(j) = K(j) * Period + lb
        BY <2>4
      <3> DEFINE x == K(n - 1) * Period
                 y == K(j) * Period
      <3>4. x \in Nat /\ y \in Nat /\ x >= y + 2 * Period
        BY <2>4, <2>7, <3>1, Spaced, SizesKnown
      <3> HIDE DEF x, y
      <3>5. T(n - 1) = x + la /\ T(j) = y + lb
        BY <3>2, <3>3 DEF x, y
      <3>6. x + la - (y + lb) > Window
        BY <3>4, SizesKnown
      <3>7. T(n - 1) - T(j) = x + la - (y + lb)
        BY <3>4, <3>5
      <3> QED  BY <3>6, <3>7, Zenon
    <2>8. ASSUME NEW j \in 0 .. n - 1, K(n - 1) = K(j) + 1 PROVE ~ Outside(j)
      <3>1. n - 1 \in 0 .. n - 1
        BY <2>2, <2>3
      <3>2. PICK la \in 0 .. Late : T(n - 1) = K(n - 1) * Period + la
        BY <2>4, <3>1
      <3>3. PICK lb \in 0 .. Late : T(j) = K(j) * Period + lb
        BY <2>4
      <3> DEFINE x == K(n - 1) * Period
                 y == K(j) * Period
      <3>4. x \in Nat /\ y \in Nat /\ x = y + Period
        BY <2>4, <2>8, <3>1, Spaced, SizesKnown
      <3> HIDE DEF x, y
      <3>5. T(n - 1) = x + la /\ T(j) = y + lb
        BY <3>2, <3>3 DEF x, y
      <3>6. ~(x + la - (y + lb) > Window)
        BY <3>4, SizesKnown
      <3>7. T(n - 1) - T(j) = x + la - (y + lb)
        BY <3>4, <3>5
      <3> QED  BY <3>6, <3>7, Zenon
    <2> HIDE DEF Outside
    <2>9. /\ n - 1 \in 0 .. n - 1 /\ n - 2 \in 0 .. n - 1 /\ n - 2 < n - 1
          /\ K(n - 1) \in Nat /\ K(n - 2) \in Nat /\ K(n - 2) < K(n - 1)
      BY <2>2, <2>3, <2>4, <2>5
    <2>10. CASE K(n - 1) = K(n - 2) + 1
      <3>1. ~ Outside(n - 2)
        BY <2>8, <2>9, <2>10
      <3>2. ASSUME base < n - 2 PROVE FALSE
        <4>1. K(base) < K(n - 2) /\ K(base) \in Nat
          BY <2>4, <2>5, <2>6, <2>9, <3>2
        <4>2. Outside(base)
          BY <2>6, <2>7, <2>9, <2>10, <4>1
        <4>3. base \in base .. n - 1
          BY <2>2, <2>6
        <4> QED  BY <2>6, <4>2, <4>3
      <3>3. base # n - 1
        <4>1. ASSUME base = n - 1 PROVE base > 0 /\ base - 1 = n - 2
          BY <2>2, <2>3, <4>1
        <4> QED  BY <2>6, <3>1, <4>1
      <3>4. base = n - 2
        BY <2>2, <2>6, <3>2, <3>3
      <3> QED  BY <2>10, <3>4 DEF base, n, K, ring
    <2>11. CASE K(n - 1) # K(n - 2) + 1
      <3>1. K(n - 1) >= K(n - 2) + 2
        BY <2>9, <2>11
      <3>2. ASSUME base < n - 1 PROVE FALSE
        <4>1. K(base) =< K(n - 2) /\ K(base) \in Nat
          <5>1. CASE base = n - 2
            BY <2>9, <5>1
          <5>2. CASE base < n - 2
            BY <2>4, <2>5, <2>6, <2>9, <5>2
          <5> QED  BY <2>2, <2>6, <3>2, <5>1, <5>2
        <4>2. Outside(base)
          BY <2>6, <2>7, <2>9, <3>1, <4>1
        <4>3. base \in base .. n - 1
          BY <2>2, <2>6
        <4> QED  BY <2>6, <4>2, <4>3
      <3>3. base = n - 1
        BY <2>2, <2>6, <3>2
      <3> QED  BY <2>11, <3>3 DEF base, n, K, ring
    <2> QED  BY <2>10, <2>11
  <1> QED  BY <1>1, StatsAlways, PTL

-----------------------------------------------------------------------------
(* The log viewer: the file and the window *)

LogLine == [from : Nat, len : Nat, at : Nat, ended : BOOLEAN]

LogType ==
    /\ log \in Logs /\ file \in Seq(LogLine)
    /\ reader \in {"idle", "read", "done"}
    /\ asked \in [want : 1 .. MaxLines, grep : BOOLEAN]
    /\ size \in Nat /\ start \in Nat

(* Every line begins where the one before it ends, and takes a byte at least. *)
Tiled(f) ==
    /\ \A i \in 1 .. Len(f) - 1 : f[i].ended /\ f[i + 1].from = End(f[i])
    /\ \A i \in 1 .. Len(f) : f[i].ended \/ f[i].len > 0

Framed == reader # "idle" => start = IF size > TailWindow THEN size - TailWindow ELSE 0

(* The window is what Read left there, as nobody writes after that. *)
InWindow == {i \in (1 .. Len(file)) \ Dropped : file[i].from < start + TailWindow}
Windowed ==
    reader = "done" =>
      window = [n \in 1 .. Cardinality(InWindow) |-> Visible(n + Cardinality(Dropped))]

LogInv == LogType /\ Tiled(file) /\ Framed /\ Windowed

(* LEMMA TiledGrows: a line is appended where the file ends. *)
LEMMA TiledGrows ==
    ASSUME NEW f \in Seq(LogLine), Tiled(f), \A i \in 1 .. Len(f) : f[i].ended,
           NEW l \in LogLine, l.from = IF f = << >> THEN 0 ELSE End(f[Len(f)]),
           l.ended \/ l.len > 0
    PROVE  Append(f, l) \in Seq(LogLine) /\ Tiled(Append(f, l))
  <1> DEFINE g == Append(f, l)
             n == Len(f)
  <1>1. /\ g \in Seq(LogLine) /\ n \in Nat /\ Len(g) = n + 1
        /\ g[n + 1] = l /\ \A i \in 1 .. n : g[i] = f[i]
    OBVIOUS
  <1> HIDE DEF g
  <1>2. ASSUME NEW i \in 1 .. n PROVE g[i].ended /\ g[i + 1].from = End(g[i])
    <2>1. CASE i = n
      <3>1. f # << >>
        BY <1>1
      <3>2. g[i + 1].from = End(f[i])
        BY <1>1, <2>1, <3>1
      <3> QED  BY <1>1, <3>2
    <2>2. CASE i # n
      <3>1. i \in 1 .. n - 1 /\ i + 1 \in 1 .. n
        BY <1>1, <2>2
      <3>2. f[i].ended /\ f[i + 1].from = End(f[i])
        BY <3>1 DEF Tiled
      <3> QED  BY <1>1, <3>1, <3>2
    <2> QED  BY <2>1, <2>2
  <1>3. ASSUME NEW i \in 1 .. n + 1 PROVE g[i].ended \/ g[i].len > 0
    <2>1. CASE i = n + 1
      BY <1>1, <2>1
    <2>2. CASE i # n + 1
      <3>1. i \in 1 .. n
        BY <1>1, <2>2
      <3> QED  BY <1>1, <3>1
    <2> QED  BY <2>1, <2>2
  <1>4. 1 .. Len(g) - 1 = 1 .. n
    BY <1>1
  <1>5. Tiled(g)
    BY <1>1, <1>2, <1>3, <1>4 DEF Tiled
  <1> QED  BY <1>1, <1>5 DEF g

(* LEMMA TiledEnds: the last line comes to its end. *)
LEMMA TiledEnds ==
    ASSUME NEW f \in Seq(LogLine), f # << >>, Tiled(f),
           NEW l \in LogLine, l.from = f[Len(f)].from, l.ended
    PROVE  [f EXCEPT ![Len(f)] = l] \in Seq(LogLine) /\ Tiled([f EXCEPT ![Len(f)] = l])
  <1> DEFINE n == Len(f)
             g == [f EXCEPT ![n] = l]
  <1>1. n \in Nat /\ n \in 1 .. n
    OBVIOUS
  <1>2. /\ g \in Seq(LogLine) /\ Len(g) = n
        /\ g[n] = l /\ \A i \in 1 .. n : i # n => g[i] = f[i]
    BY <1>1
  <1> HIDE DEF g
  <1>3. ASSUME NEW i \in 1 .. n - 1 PROVE g[i].ended /\ g[i + 1].from = End(g[i])
    <2>1. i \in 1 .. n /\ i # n /\ i + 1 \in 1 .. n
      BY <1>1
    <2>2. f[i].ended /\ f[i + 1].from = End(f[i]) /\ g[i] = f[i]
      BY <1>2, <2>1 DEF Tiled
    <2>3. g[i + 1].from = f[i + 1].from
      <3>1. CASE i + 1 = n
        BY <1>2, <3>1
      <3>2. CASE i + 1 # n
        BY <1>2, <2>1, <3>2
      <3> QED  BY <3>1, <3>2
    <2> QED  BY <2>2, <2>3
  <1>4. ASSUME NEW i \in 1 .. n PROVE g[i].ended \/ g[i].len > 0
    <2>1. CASE i = n
      BY <1>2, <2>1
    <2>2. CASE i # n
      BY <1>2, <2>2 DEF Tiled
    <2> QED  BY <2>1, <2>2
  <1>5. Tiled(g)
    BY <1>2, <1>3, <1>4 DEF Tiled
  <1> QED  BY <1>2, <1>5 DEF g

(* LEMMA LogAlways: the invariant of the log viewer holds. *)
LEMMA LogAlways == LogSpec => []LogInv
  <1>0. MaxLines \in Nat \ {0} /\ TailWindow \in Nat \ {0}
    BY TailAssumption
  <1>1. LogInit => LogInv
    <2> SUFFICES ASSUME LogInit PROVE LogInv
      OBVIOUS
    <2>1. LogType
      BY <1>0 DEF LogInit, LogType
    <2>2. Tiled(file) /\ Framed /\ Windowed
      BY DEF LogInit, Tiled, Framed, Windowed
    <2> QED  BY <2>1, <2>2 DEF LogInv
  <1>2. LogInv /\ [LogNext]_logVars => LogInv'
    <2> SUFFICES ASSUME LogInv, [LogNext]_logVars PROVE LogInv'
      OBVIOUS
    <2>0. LogType /\ Tiled(file) /\ Framed /\ Windowed
      BY DEF LogInv
    <2>b. Bytes \in Nat
      <3>1. CASE file = << >>
        BY <3>1 DEF Bytes
      <3>2. CASE file # << >>
        <4>1. file[Len(file)] \in LogLine
          BY <2>0, <3>2 DEF LogType
        <4> QED  BY <3>2, <4>1 DEF Bytes, End, LogLine
      <3> QED  BY <3>1, <3>2
    <2>1. CASE AppendLine
      <3>1. PICK len \in log.lengths, ended \in BOOLEAN : \E at \in {0, len} :
              /\ ended \/ len > 0
              /\ file' = Append(file, [from |-> Bytes, len |-> len, at |-> at, ended |-> ended])
        BY <2>1 DEF AppendLine
      <3>2. PICK at \in {0, len} :
              /\ ended \/ len > 0
              /\ file' = Append(file, [from |-> Bytes, len |-> len, at |-> at, ended |-> ended])
        BY <3>1
      <3>3. len \in Nat /\ at \in Nat
        BY <2>0, LogsAssumption DEF LogType
      <3> DEFINE l == [from |-> Bytes, len |-> len, at |-> at, ended |-> ended]
      <3>4. l \in LogLine /\ l.from = Bytes /\ (l.ended \/ l.len > 0)
        BY <2>b, <3>2, <3>3 DEF LogLine
      <3>5. file' = Append(file, l)
        BY <3>2
      <3> HIDE DEF l
      <3>6. file \in Seq(LogLine) /\ \A i \in 1 .. Len(file) : file[i].ended
        BY <2>0, <2>1 DEF LogType, AppendLine, Whole
      <3>7. Append(file, l) \in Seq(LogLine) /\ Tiled(Append(file, l))
        BY <2>0, <3>4, <3>6, TiledGrows DEF Bytes
      <3>8. file' \in Seq(LogLine) /\ Tiled(file')
        BY <3>5, <3>7
      <3>9. reader # "done" /\ UNCHANGED <<log, reader, asked, size, start, window>>
        BY <2>1 DEF AppendLine
      <3> QED  BY <2>0, <3>8, <3>9 DEF LogInv, LogType, Framed, Windowed
    <2>2. CASE EndLine
      <3>1. file \in Seq(LogLine) /\ file # << >> /\ file[Len(file)] \in LogLine
        <4>1. file \in Seq(LogLine) /\ file # << >>
          BY <2>0, <2>2 DEF LogType, EndLine, Whole
        <4> QED  BY <4>1
      <3> DEFINE o == file[Len(file)]
      <3>2. PICK more \in {0, 1} :
              \E at \in {o.at} \union (IF o.at = 0 THEN {o.len + more} ELSE {}) :
                file' = [file EXCEPT ![Len(file)] =
                           [from |-> o.from, len |-> o.len + more, at |-> at, ended |-> TRUE]]
        BY <2>2 DEF EndLine
      <3>3. PICK at \in {o.at} \union (IF o.at = 0 THEN {o.len + more} ELSE {}) :
                file' = [file EXCEPT ![Len(file)] =
                           [from |-> o.from, len |-> o.len + more, at |-> at, ended |-> TRUE]]
        BY <3>2
      <3> DEFINE l == [from |-> o.from, len |-> o.len + more, at |-> at, ended |-> TRUE]
      <3>4. l \in LogLine /\ l.from = o.from /\ l.ended
        BY <3>1 DEF LogLine
      <3>5. file' = [file EXCEPT ![Len(file)] = l]
        BY <3>3
      <3> HIDE DEF l
      <3>6. file' \in Seq(LogLine) /\ Tiled(file')
        <4>1. /\ [file EXCEPT ![Len(file)] = l] \in Seq(LogLine)
              /\ Tiled([file EXCEPT ![Len(file)] = l])
          BY <2>0, <3>1, <3>4, TiledEnds
        <4> QED  BY <3>5, <4>1
      <3>7. reader # "done" /\ UNCHANGED <<log, reader, asked, size, start, window>>
        BY <2>2 DEF EndLine
      <3> QED  BY <2>0, <3>6, <3>7 DEF LogInv, LogType, Framed, Windowed
    <2>3. CASE Stat
      <3>1. PICK lines \in 0 .. MaxLines + 1, grep \in BOOLEAN :
              asked' = [want |-> IF lines < 1 THEN 1 ELSE IF lines > MaxLines THEN MaxLines ELSE lines,
                        grep |-> grep]
        BY <2>3 DEF Stat
      <3>2. asked' \in [want : 1 .. MaxLines, grep : BOOLEAN]
        BY <1>0, <3>1
      <3>3. /\ size' = Bytes
            /\ start' = IF Bytes > TailWindow THEN Bytes - TailWindow ELSE 0
            /\ reader' = "read" /\ UNCHANGED <<log, file, window>>
        BY <2>3 DEF Stat
      <3>4. size' \in Nat /\ start' \in Nat
        BY <1>0, <2>b, <3>3
      <3>5. LogType' /\ Framed' /\ Windowed'
        BY <2>0, <3>2, <3>3, <3>4 DEF LogType, Framed, Windowed
      <3>6. Tiled(file')
        BY <2>0, <3>3
      <3> QED  BY <3>5, <3>6 DEF LogInv
    <2>4. CASE Read
      <3>1. /\ reader = "read" /\ reader' = "done"
            /\ UNCHANGED <<log, file, asked, size, start>>
            /\ window' = [n \in 1 .. Cardinality(InWindow) |-> Visible(n + Cardinality(Dropped))]
        BY <2>4 DEF Read, InWindow
      <3>2. LogType' /\ Framed'
        BY <2>0, <3>1 DEF LogType, Framed
      <3>3. InWindow' = InWindow /\ Dropped' = Dropped
        BY <3>1 DEF InWindow, Dropped, windowed
      <3>4. \A i : Visible(i)' = Visible(i)
        BY <3>1 DEF Visible
      <3>5. Windowed'
        BY <3>1, <3>3, <3>4 DEF Windowed
      <3>6. Tiled(file')
        BY <2>0, <3>1
      <3> QED  BY <3>2, <3>5, <3>6 DEF LogInv
    <2>5. CASE UNCHANGED logVars
      <3>1. LogType' /\ Framed'
        BY <2>0, <2>5 DEF LogType, Framed, logVars
      <3>2. InWindow' = InWindow /\ Dropped' = Dropped
        BY <2>5 DEF InWindow, Dropped, windowed, logVars
      <3>3. \A i : Visible(i)' = Visible(i)
        BY <2>5 DEF Visible, logVars
      <3>4. Windowed'
        BY <2>0, <2>5, <3>2, <3>3 DEF Windowed, logVars
      <3>5. Tiled(file')
        BY <2>0, <2>5 DEF logVars
      <3> QED  BY <3>1, <3>4, <3>5 DEF LogInv
    <2> QED  BY <2>1, <2>2, <2>3, <2>4, <2>5 DEF LogNext
  <1> QED  BY <1>1, <1>2, PTL DEF LogSpec

(* LEMMA LineTakes: where a line ends. *)
LEMMA LineTakes ==
    ASSUME NEW l \in LogLine
    PROVE  /\ l.from \in Nat /\ l.len \in Nat /\ End(l) \in Nat
           /\ l.from + l.len =< End(l) /\ l.from =< End(l)
           /\ l.ended => End(l) = l.from + l.len + 1
           /\ l.ended \/ l.len > 0 => l.from < End(l)
  <1>1. l.from \in Nat /\ l.len \in Nat /\ l.ended \in BOOLEAN
    BY DEF LogLine
  <1>2. CASE l.ended
    BY <1>1, <1>2 DEF End
  <1>3. CASE ~ l.ended
    <2>1. End(l) = l.from + l.len
      BY <1>1, <1>3 DEF End
    <2> QED  BY <1>1, <1>3, <2>1
  <1> QED  BY <1>2, <1>3

(* LEMMA Rising: later lines begin later. *)
LEMMA Rising ==
    ASSUME NEW f \in Seq(LogLine), Tiled(f),
           NEW i \in 1 .. Len(f), NEW j \in 1 .. Len(f), i =< j
    PROVE  f[i].from =< f[j].from
  <1> DEFINE S == {n \in Nat : i + n =< Len(f) => f[i].from =< f[i + n].from}
  <1>0. \A x \in 1 .. Len(f) : f[x] \in LogLine
    OBVIOUS
  <1>1. 0 \in S
    BY <1>0 DEF LogLine
  <1>2. ASSUME NEW n \in Nat, n \in S PROVE n + 1 \in S
    <2> SUFFICES ASSUME i + (n + 1) =< Len(f) PROVE f[i].from =< f[i + (n + 1)].from
      OBVIOUS
    <2>1. i + n \in 1 .. Len(f) - 1 /\ i + n \in 1 .. Len(f) /\ i + (n + 1) = (i + n) + 1
      OBVIOUS
    <2>2. f[i].from =< f[i + n].from
      BY <1>2, <2>1
    <2>3. f[(i + n) + 1].from = End(f[i + n])
      BY <2>1 DEF Tiled
    <2>4. f[i] \in LogLine /\ f[i + n] \in LogLine
      BY <1>0, <2>1
    <2>5. f[i + n].from =< End(f[i + n]) /\ End(f[i + n]) \in Nat
      BY <2>4, LineTakes
    <2>6. f[i].from \in Nat /\ f[i + n].from \in Nat
      BY <2>4 DEF LogLine
    <2> QED  BY <2>1, <2>2, <2>3, <2>5, <2>6
  <1> HIDE DEF S
  <1>3. j - i \in S
    <2>1. Nat \subseteq S
      BY <1>1, <1>2, Upwards
    <2>2. j - i \in Nat
      OBVIOUS
    <2> QED  BY <2>1, <2>2
  <1>4. i + (j - i) = j
    OBVIOUS
  <1> QED  BY <1>3, <1>4 DEF S

(* LEMMA Segment: a set of positions without a gap is counted by its last. *)
LEMMA Segment ==
    ASSUME NEW N \in Nat, NEW D \in SUBSET (1 .. N), \A j \in D : \A i \in 1 .. j : i \in D
    PROVE  \E d \in 0 .. N : D = 1 .. d /\ Cardinality(D) = d
  <1> DEFINE T == {x \in Nat : x + 1 \notin D}
  <1>1. N \in T
    OBVIOUS
  <1>2. PICK d \in T : \A y \in T : d =< y
    BY <1>1, Smallest
  <1>3. d \in 0 .. N
    BY <1>1, <1>2
  <1>4. ASSUME NEW i \in 1 .. d PROVE i \in D
    <2>1. i - 1 \in Nat /\ ~ (d =< i - 1)
      BY <1>3
    <2>2. i - 1 \notin T
      BY <1>2, <2>1
    <2> QED  BY <2>1, <2>2
  <1>5. ASSUME NEW i \in D PROVE i \in 1 .. d
    <2>1. ASSUME i > d PROVE FALSE
      <3>1. d + 1 \in 1 .. i
        BY <1>3, <2>1
      <3> QED  BY <1>2, <3>1
    <2> QED  BY <1>3, <2>1
  <1>6. D = 1 .. d
    BY <1>4, <1>5
  <1>7. Cardinality(1 .. d) = d
    <2>1. Cardinality(1 .. d) = IF 1 > d THEN 0 ELSE d - 1 + 1
      BY <1>3, FS_Interval
    <2> QED  BY <1>3, <2>1
  <1> QED  BY <1>3, <1>6, <1>7

(* LEMMA WindowShape: the window shows the lines from d + 1 to e. *)
LEMMA WindowShape ==
    ASSUME LogInv, reader = "done"
    PROVE  \E d, e \in 0 .. Len(file) :
             /\ d =< e /\ Dropped = 1 .. d /\ InWindow = d + 1 .. e
             /\ window = [n \in 1 .. e - d |-> Visible(n + d)]
  <1>0. /\ file \in Seq(LogLine) /\ Tiled(file) /\ Len(file) \in Nat
        /\ TailWindow \in Nat \ {0} /\ start \in Nat
        /\ window = [n \in 1 .. Cardinality(InWindow) |-> Visible(n + Cardinality(Dropped))]
    BY TailAssumption DEF LogInv, LogType, Windowed
  <1>1. \A i \in 1 .. Len(file) : file[i].from \in Nat
    <2>1. \A i \in 1 .. Len(file) : file[i] \in LogLine
      BY <1>0
    <2> QED  BY <2>1, LineTakes
  <1> DEFINE Front == {i \in 1 .. Len(file) : file[i].from < start + TailWindow}
  <1>2. ASSUME NEW j \in 1 .. Len(file), NEW i \in 1 .. j
        PROVE  i \in 1 .. Len(file) /\ file[i].from =< file[j].from
    <2>1. i \in 1 .. Len(file) /\ i =< j
      BY <1>0
    <2> QED  BY <1>0, <2>1, Rising
  <1>3. PICK d \in 0 .. Len(file) : Dropped = 1 .. d /\ Cardinality(Dropped) = d
    <2>1. Dropped \subseteq 1 .. Len(file)
      BY DEF Dropped
    <2>2. ASSUME NEW j \in Dropped, NEW i \in 1 .. j PROVE i \in Dropped
      <3>1. windowed /\ j \in 1 .. Len(file) /\ file[j].from =< start
        BY DEF Dropped
      <3>2. i \in 1 .. Len(file) /\ file[i].from =< file[j].from
        BY <1>2, <3>1
      <3>3. file[i].from =< start
        BY <1>0, <1>1, <3>1, <3>2
      <3> QED  BY <3>1, <3>2, <3>3 DEF Dropped
    <2> QED  BY <1>0, <2>1, <2>2, Segment
  <1>4. PICK e \in 0 .. Len(file) : Front = 1 .. e
    <2>1. ASSUME NEW j \in Front, NEW i \in 1 .. j PROVE i \in Front
      <3>1. i \in 1 .. Len(file) /\ file[i].from =< file[j].from
        BY <1>2
      <3> QED  BY <1>0, <1>1, <3>1
    <2> HIDE DEF Front
    <2>2. Front \subseteq 1 .. Len(file)
      BY DEF Front
    <2> QED  BY <1>0, <2>1, <2>2, Segment
  <1>5. Dropped \subseteq Front
    BY <1>0, <1>1 DEF Dropped
  <1>6. InWindow = Front \ Dropped
    BY DEF InWindow
  <1> HIDE DEF Front
  <1>7. d =< e
    <2>1. ASSUME d > e PROVE FALSE
      <3>1. d \in 1 .. d /\ d \notin 1 .. e
        BY <2>1
      <3> QED  BY <1>3, <1>4, <1>5, <3>1
    <2> QED  BY <2>1
  <1>8. InWindow = d + 1 .. e
    BY <1>3, <1>4, <1>6
  <1>9. Cardinality(d + 1 .. e) = e - d
    <2>1. Cardinality(d + 1 .. e) = IF d + 1 > e THEN 0 ELSE e - (d + 1) + 1
      <3>1. d + 1 \in Int /\ e \in Int
        OBVIOUS
      <3> QED  BY <3>1, FS_Interval
    <2> QED  BY <1>7, <2>1
  <1>10. window = [n \in 1 .. e - d |-> Visible(n + d)]
    BY <1>0, <1>3, <1>8, <1>9
  <1> QED  BY <1>3, <1>7, <1>8, <1>10

(* LEMMA LinesWhole: what the answer is made from. *)
LEMMA LinesWhole ==
    ASSUME LogInv, reader = "done"
    PROVE  /\ \E len \in Nat : window = [n \in 1 .. len |-> window[n]] /\ Len(window) = len
           /\ \A j \in 1 .. Len(window) - 1 :
                LET l == file[window[j].no]
                IN /\ window[j + 1].no = window[j].no + 1
                   /\ l.len = window[j].len /\ l.at = window[j].at /\ l.ended
           /\ \A i \in 1 .. Len(file) :
                /\ End(file[i]) =< size
                /\ windowed => file[i].from > start
                => \E j \in 1 .. Len(window) : window[j].no = i /\ window[j].len = file[i].len
  <1>0. /\ file \in Seq(LogLine) /\ Tiled(file) /\ Len(file) \in Nat /\ Framed
        /\ TailWindow \in Nat \ {0} /\ start \in Nat /\ size \in Nat
        /\ \A i \in 1 .. Len(file) : file[i] \in LogLine
    BY TailAssumption DEF LogInv, LogType
  <1>1. PICK d \in 0 .. Len(file), e \in 0 .. Len(file) :
          /\ d =< e /\ Dropped = 1 .. d /\ InWindow = d + 1 .. e
          /\ window = [n \in 1 .. e - d |-> Visible(n + d)]
    BY WindowShape
  <1>2. e - d \in Nat /\ Len(window) = e - d
    BY <1>1
  <1>3. \A j \in 1 .. e - d : window[j] = Visible(j + d) /\ j + d \in 1 .. Len(file)
    BY <1>0, <1>1
  <1>4. \A i : Visible(i).no = i
    BY DEF Visible
  <1>5. ASSUME NEW i \in 1 .. Len(file), file[i].from + file[i].len =< start + TailWindow
        PROVE  Visible(i) = [no |-> i, len |-> file[i].len, at |-> file[i].at]
    <2>1. file[i].from \in Nat /\ file[i].len \in Nat
      BY <1>0 DEF LogLine
    <2> DEFINE room == start + TailWindow - file[i].from
    <2>2. file[i].len =< room
      BY <1>0, <1>5, <2>1
    <2> HIDE DEF room
    <2>3. Visible(i) = IF file[i].len =< room
                       THEN [no |-> i, len |-> file[i].len, at |-> file[i].at]
                       ELSE [no |-> i, len |-> room, at |-> IF file[i].at > room THEN 0 ELSE file[i].at]
      BY DEF Visible, room
    <2> QED  BY <2>2, <2>3
  <1>6. ASSUME NEW j \in 1 .. (e - d) - 1
        PROVE  /\ window[j + 1].no = window[j].no + 1
               /\ file[window[j].no].len = window[j].len
               /\ file[window[j].no].at = window[j].at
               /\ file[window[j].no].ended
    <2> DEFINE i == j + d
    <2>1. /\ j \in 1 .. e - d /\ j + 1 \in 1 .. e - d /\ i \in 1 .. Len(file) - 1
          /\ i \in 1 .. Len(file) /\ i + 1 \in d + 1 .. e /\ (j + 1) + d = i + 1
      BY <1>0, <1>1
    <2>2. window[j] = Visible(i) /\ window[j + 1] = Visible(i + 1)
      <3>1. window[j] = Visible(i) /\ window[j + 1] = Visible((j + 1) + d)
        BY <1>3, <2>1
      <3>2. (j + 1) + d = i + 1
        BY <2>1
      <3> HIDE DEF i
      <3> QED  BY <3>1, <3>2
    <2> HIDE DEF i
    <2>3. file[i].ended /\ file[i + 1].from = End(file[i])
      BY <1>0, <2>1 DEF Tiled
    <2>4. file[i + 1].from < start + TailWindow
      BY <1>1, <2>1 DEF InWindow
    <2>5. file[i].from + file[i].len =< start + TailWindow
      <3>1. file[i].from \in Nat /\ file[i].len \in Nat
        BY <1>0, <2>1 DEF LogLine
      <3> QED  BY <1>0, <2>3, <2>4, <3>1 DEF End
    <2>6. Visible(i) = [no |-> i, len |-> file[i].len, at |-> file[i].at]
      BY <1>5, <2>1, <2>5
    <2> QED  BY <1>4, <2>2, <2>3, <2>6
  <1>7. ASSUME NEW i \in 1 .. Len(file), End(file[i]) =< size, windowed => file[i].from > start
        PROVE  \E j \in 1 .. e - d : window[j].no = i /\ window[j].len = file[i].len
    <2>1. /\ file[i].from \in Nat /\ file[i].len \in Nat
          /\ file[i].ended \/ file[i].len > 0
      BY <1>0 DEF LogLine, Tiled
    <2>2. size =< start + TailWindow
      BY <1>0, <1>7 DEF Framed
    <2>3. file[i].from < End(file[i]) /\ file[i].from + file[i].len =< End(file[i]) /\ End(file[i]) \in Nat
      BY <1>0, <2>1, LineTakes
    <2>4. file[i].from < start + TailWindow /\ file[i].from + file[i].len =< start + TailWindow
      BY <1>0, <1>7, <2>1, <2>2, <2>3
    <2>5. i \notin Dropped
      BY <1>0, <1>7, <2>1 DEF Dropped
    <2>6. i \in d + 1 .. e
      BY <1>1, <2>4, <2>5 DEF InWindow
    <2>7. i - d \in 1 .. e - d /\ (i - d) + d = i
      BY <2>6
    <2>8. window[i - d] = Visible(i)
      BY <1>3, <2>7
    <2>9. Visible(i) = [no |-> i, len |-> file[i].len, at |-> file[i].at]
      BY <1>5, <2>4
    <2>10. window[i - d].no = i /\ window[i - d].len = file[i].len
      BY <2>8, <2>9
    <2> QED  BY <2>7, <2>10
  <1>8. window = [n \in 1 .. e - d |-> window[n]]
    BY <1>1
  <1> QED  BY <1>2, <1>6, <1>7, <1>8

-----------------------------------------------------------------------------
(* The log viewer: the ring of lines to return *)

(* The recursion behind KeepLines, over the first lines of s. *)
KeepsTo(f, s, N) ==
    f = [n \in 0 .. N |-> IF n = 0 THEN NoLines ELSE KeepLine(f[n - 1], s[n])]

(* LEMMA KeepExists: the loop comes to its end. *)
LEMMA KeepExists ==
    ASSUME NEW s, NEW N \in Nat
    PROVE  \E f : KeepsTo(f, s, N)
  <1> DEFINE S == {n \in Nat : \E f : KeepsTo(f, s, n)}
  <1>1. 0 \in S
    <2>1. KeepsTo([n \in 0 .. 0 |-> NoLines], s, 0)
      BY DEF KeepsTo
    <2> QED  BY <2>1
  <1>2. ASSUME NEW n \in Nat, n \in S PROVE n + 1 \in S
    <2>1. PICK f : KeepsTo(f, s, n)
      BY <1>2
    <2> DEFINE g == [i \in 0 .. n + 1 |-> IF i = n + 1 THEN KeepLine(f[n], s[n + 1]) ELSE f[i]]
    <2>2. \A i \in 0 .. n : g[i] = f[i]
      OBVIOUS
    <2>3. g[n + 1] = KeepLine(f[n], s[n + 1]) /\ g = [i \in 0 .. n + 1 |-> g[i]]
      OBVIOUS
    <2> HIDE DEF g
    <2>4. \A i \in 0 .. n + 1 : g[i] = IF i = 0 THEN NoLines ELSE KeepLine(g[i - 1], s[i])
      <3> TAKE i \in 0 .. n + 1
      <3>1. CASE i = n + 1
        <4>1. g[n] = f[n] /\ i - 1 = n /\ i # 0
          BY <2>2, <3>1
        <4> QED  BY <2>3, <3>1, <4>1
      <3>2. ASSUME i # n + 1 PROVE i \in 0 .. n
        BY <3>2
      <3>3. ASSUME NEW k0 \in 0 .. n
            PROVE  f[k0] = IF k0 = 0 THEN NoLines ELSE KeepLine(f[k0 - 1], s[k0])
        BY <2>1, Zenon DEF KeepsTo
      <3>4. CASE i = 0
        <4>1. i \in 0 .. n
          BY <3>4
        <4>2. g[i] = f[i] /\ f[i] = NoLines
          BY <2>2, <3>3, <3>4, <4>1
        <4> QED  BY <3>4, <4>2
      <3>5. CASE i # n + 1 /\ i # 0
        <4>1. i \in 0 .. n /\ i - 1 \in 0 .. n
          BY <3>5
        <4>2. g[i] = f[i] /\ g[i - 1] = f[i - 1]
          BY <2>2, <4>1
        <4>3. f[i] = KeepLine(f[i - 1], s[i])
          BY <3>3, <3>5, <4>1
        <4> QED  BY <3>5, <4>2, <4>3
      <3> QED  BY <3>1, <3>4, <3>5
    <2>5. KeepsTo(g, s, n + 1)
      BY <2>3, <2>4, Zenon DEF KeepsTo
    <2> QED  BY <2>5
  <1> HIDE DEF S
  <1>3. Nat \subseteq S
    BY <1>1, <1>2, Upwards
  <1> QED  BY <1>3 DEF S

Matching(s) == {i \in Nat : Matches(s[i])}

(* The ring of the code as one of rows: until it is full it starts at 0.      *)
AsRing(r) == [rows |-> r.keep, nrows |-> r.nkeep,
              head |-> IF r.nkeep = asked.want THEN r.ring ELSE 0]

(* The ring after n lines of s, and how many of them match. *)
KeptOf(r, s, n, idx) ==
    /\ RingOf(AsRing(r), asked.want, s, Matching(s), n, idx)
    /\ r.ring \in 0 .. asked.want - 1
    /\ r.nkeep < asked.want => r.ring = r.nkeep
    /\ r.matched = Cardinality(Matching(s) \intersect (1 .. n))

(* LEMMA MatchCounted: a line more that matches, or does not. *)
LEMMA MatchCounted ==
    ASSUME NEW G, NEW n \in Nat
    PROVE  /\ Cardinality(G \intersect (1 .. n)) \in Nat
           /\ Cardinality(G \intersect (1 .. n + 1)) =
                IF n + 1 \in G THEN Cardinality(G \intersect (1 .. n)) + 1
                               ELSE Cardinality(G \intersect (1 .. n))
  <1> DEFINE C == G \intersect (1 .. n)
  <1>1. IsFiniteSet(1 .. n)
    BY FS_Interval
  <1>2. C \subseteq 1 .. n /\ n + 1 \notin C
    OBVIOUS
  <1>3. IsFiniteSet(C)
    BY <1>1, <1>2, FS_Subset
  <1>4. Cardinality(C) \in Nat
    BY <1>3, FS_CardinalityType
  <1>5. Cardinality(C \union {n + 1}) = Cardinality(C) + 1
    BY <1>2, <1>3, FS_AddElement
  <1>6. n + 1 \in G => G \intersect (1 .. n + 1) = C \union {n + 1}
    OBVIOUS
  <1>7. n + 1 \notin G => G \intersect (1 .. n + 1) = C
    OBVIOUS
  <1> HIDE DEF C
  <1>8. /\ Cardinality(C) \in Nat
        /\ Cardinality(G \intersect (1 .. n + 1)) =
                IF n + 1 \in G THEN Cardinality(C) + 1 ELSE Cardinality(C)
    BY <1>4, <1>5, <1>6, <1>7
  <1> QED  BY <1>8 DEF C

(* LEMMA KeepStep: one turn of the loop over the lines of the window. *)
LEMMA KeepStep ==
    ASSUME asked.want \in Nat \ {0}, NEW old, NEW s, NEW n \in Nat, NEW idx, KeptOf(old, s, n, idx)
    PROVE  \E new : KeptOf(KeepLine(old, s[n + 1]), s, n + 1, new)
  <1> DEFINE want == asked.want
             next == KeepLine(old, s[n + 1])
             good == Matching(s)
             a == AsRing(old)
             b == AsRing(next)
  <1>0. n + 1 \in good <=> Matches(s[n + 1])
    BY DEF Matching
  <1>1. /\ RingOf(a, want, s, good, n, idx) /\ old.ring \in 0 .. want - 1 /\ want \in Nat \ {0}
        /\ old.nkeep < want => old.ring = old.nkeep
        /\ old.matched = Cardinality(good \intersect (1 .. n))
    BY DEF KeptOf
  <1>2. /\ a.rows = old.keep /\ a.nrows = old.nkeep
        /\ a.head = IF old.nkeep = want THEN old.ring ELSE 0
        /\ b.rows = next.keep /\ b.nrows = next.nkeep
        /\ b.head = IF next.nkeep = want THEN next.ring ELSE 0
    BY DEF AsRing
  <1>3. old.nkeep \in 0 .. want
    BY <1>1, <1>2 DEF RingOf
  <1> HIDE DEF want, good, a
  <1>4. (old.ring + 1) % want = IF old.ring + 1 < want THEN old.ring + 1 ELSE old.ring + 1 - want
    <2>1. want \in Nat \ {0} /\ old.ring \in 0 .. want - 1 /\ 1 \in 0 .. want
      BY <1>1
    <2> QED  BY <2>1, Wraps, Zenon
  <1>5. CASE n + 1 \notin good
    <2>1. next = old
      BY <1>0, <1>5 DEF KeepLine
    <2>2. RingOf(a, want, s, good, n + 1, idx)
      BY <1>1, <1>5, RingSkips
    <2>3. old.matched = Cardinality(good \intersect (1 .. n + 1))
      BY <1>1, <1>5, MatchCounted
    <2>4. KeptOf(old, s, n + 1, idx)
      BY <1>1, <2>2, <2>3 DEF KeptOf, want, good, a
    <2> HIDE DEF next
    <2>5. KeptOf(next, s, n + 1, idx)
      BY <2>1, <2>4
    <2> QED  BY <2>5 DEF next
  <1>6. CASE n + 1 \in good
    <2>1. /\ next.keep = [old.keep EXCEPT ![old.ring] = s[n + 1]]
          /\ next.ring = (old.ring + 1) % want
          /\ next.nkeep = IF old.nkeep < want THEN old.nkeep + 1 ELSE old.nkeep
          /\ next.matched = old.matched + 1
      BY <1>0, <1>6 DEF KeepLine, want
    <2> HIDE DEF next, b
    <2>2. next.matched = Cardinality(good \intersect (1 .. n + 1))
      BY <1>1, <1>6, <2>1, MatchCounted
    <2>3. CASE old.nkeep < want
      <3>1. /\ next.nkeep = old.nkeep + 1 /\ next.ring \in 0 .. want - 1
            /\ next.nkeep < want => next.ring = next.nkeep
            /\ next.nkeep = want => next.ring = 0
        BY <1>1, <1>3, <1>4, <2>1, <2>3
      <3>2. /\ b.rows = [a.rows EXCEPT ![a.nrows] = s[n + 1]]
            /\ b.nrows = a.nrows + 1 /\ b.head = 0
        BY <1>1, <1>2, <2>1, <2>3, <3>1
      <3>3. a.nrows < want
        BY <1>2, <2>3
      <3>4. \E new : RingOf(b, want, s, good, n + 1, new)
        BY <1>1, <1>6, <3>2, <3>3, RingFills
      <3> QED  BY <2>2, <3>1, <3>4 DEF KeptOf, want, good, b, next
    <2>4. CASE ~(old.nkeep < want)
      <3>1. old.nkeep = want /\ next.nkeep = want
        BY <1>1, <1>3, <2>1, <2>4
      <3>2. next.ring \in 0 .. want - 1 /\ ~(next.nkeep < want)
        BY <1>1, <1>4, <2>1, <3>1
      <3>3. /\ b.rows = [a.rows EXCEPT ![a.head] = s[n + 1]]
            /\ b.nrows = a.nrows /\ b.head = (a.head + 1) % want
        BY <1>2, <2>1, <3>1
      <3>4. ~(a.nrows < want)
        BY <1>2, <2>4
      <3>5. \E new : RingOf(b, want, s, good, n + 1, new)
        BY <1>1, <1>6, <3>3, <3>4, RingTurns
      <3> QED  BY <2>2, <3>2, <3>5 DEF KeptOf, want, good, b, next
    <2> QED  BY <2>3, <2>4
  <1> QED  BY <1>5, <1>6

(* LEMMA KeepAll: after every line the ring holds the latest that match. *)
LEMMA KeepAll ==
    ASSUME asked.want \in Nat \ {0}, NEW s, NEW N \in Nat, NEW f, KeepsTo(f, s, N)
    PROVE  \E idx : KeptOf(f[N], s, N, idx)
  <1>1. ASSUME NEW i \in 0 .. N
        PROVE  f[i] = IF i = 0 THEN NoLines ELSE KeepLine(f[i - 1], s[i])
    BY Zenon DEF KeepsTo
  <1> DEFINE S == {n \in Nat : n =< N => \E idx : KeptOf(f[n], s, n, idx)}
  <1>2. 0 \in S
    <2>1. f[0] = NoLines
      BY <1>1
    <2>2. /\ NoLines.nkeep = 0 /\ NoLines.ring = 0 /\ NoLines.matched = 0
          /\ NoLines.keep = [i \in 0 .. asked.want - 1 |-> << >>]
      BY DEF NoLines
    <2> DEFINE none == [j \in 0 .. 0 - 1 |-> 1]
               a == AsRing(NoLines)
    <2>3. a.nrows = 0 /\ a.head = 0 /\ a.rows = [i \in 0 .. asked.want - 1 |-> << >>]
      BY <2>2 DEF AsRing
    <2> HIDE DEF a
    <2>4. RingOf(a, asked.want, s, Matching(s), 0, none)
      BY <2>3 DEF RingOf
    <2>5. Cardinality(Matching(s) \intersect (1 .. 0)) = 0
      <3>1. Matching(s) \intersect (1 .. 0) = {}
        OBVIOUS
      <3> QED  BY <3>1, FS_EmptySet
    <2> HIDE DEF none
    <2>6. KeptOf(NoLines, s, 0, none)
      BY <2>2, <2>4, <2>5 DEF KeptOf, a
    <2> QED  BY <2>1, <2>6
  <1>3. ASSUME NEW n \in Nat, n \in S PROVE n + 1 \in S
    <2> SUFFICES ASSUME n + 1 =< N PROVE \E idx : KeptOf(f[n + 1], s, n + 1, idx)
      OBVIOUS
    <2>1. PICK idx : KeptOf(f[n], s, n, idx)
      BY <1>3
    <2>2. f[n + 1] = KeepLine(f[n], s[n + 1])
      <3>1. n + 1 \in 0 .. N /\ n + 1 # 0 /\ (n + 1) - 1 = n
        OBVIOUS
      <3> QED  BY <1>1, <3>1
    <2> QED  BY <2>1, <2>2, KeepStep
  <1> HIDE DEF S
  <1>4. Nat \subseteq S
    BY <1>2, <1>3, Upwards
  <1> QED  BY <1>4 DEF S

(* THEOREM TailWhole: the answer to a request for the end of a log is the     *)
(* last lines that match, whole and in order, for every window, number of     *)
(* lines and way the log grows under the reader (handle_tail).                *)
THEOREM TailWhole == LogSpec => []TailTrue
  <1>1. LogInv => TailTrue
    <2> SUFFICES ASSUME LogInv, reader = "done" PROVE TailTrue
      BY DEF TailTrue
    <2>0. PICK last \in Nat : window = [n \in 1 .. last |-> window[n]] /\ Len(window) = last
      BY LinesWhole
    <2>1. asked.want \in Nat \ {0}
      BY TailAssumption DEF LogInv, LogType
    <2>2. PICK idx : KeptOf(Kept, window, last, idx)
      <3>1. \E f : KeepsTo(f, window, last)
        BY KeepExists
      <3>2. KeepsTo(KeepLines, window, last)
        BY <2>0, <3>1 DEF KeepsTo, KeepLines
      <3> QED  BY <2>0, <2>1, <3>2, KeepAll DEF Kept
    <2> DEFINE match == {j \in 1 .. Len(window) : Matches(window[j])}
               shown == 1 .. Len(Returned)
               want == asked.want
               a == AsRing(Kept)
               m == Kept.nkeep
               which == [i \in shown |-> idx[i - 1]]
    <2>3. /\ RingOf(a, want, window, Matching(window), last, idx)
          /\ Kept.matched = Cardinality(Matching(window) \intersect (1 .. last))
      BY <2>2 DEF KeptOf
    <2>4. a.rows = Kept.keep /\ a.nrows = m /\ a.head = IF m = want THEN Kept.ring ELSE 0
      BY DEF AsRing
    <2>5. Returned = [i \in 1 .. m |-> Kept.keep[(a.head + i - 1) % want]]
      BY <2>4 DEF Returned
    <2>6. Matching(window) \intersect (1 .. last) = match
      BY <2>0 DEF Matching
    <2> HIDE DEF a, m, match, want
    <2>7. m \in Nat /\ m =< want /\ want \in Nat \ {0} /\ a.head \in Nat
      BY <2>1, <2>3, <2>4 DEF RingOf, want
    <2>8. Len(Returned) = m /\ shown = 1 .. m
      BY <2>5, <2>7
    <2> HIDE DEF shown
    <2>9. ASSUME NEW i \in 1 .. m PROVE Returned[i] = Slot(a, want, i - 1)
      <3>1. a.head + i - 1 = a.head + (i - 1)
        BY <2>7
      <3>2. Returned[i] = Kept.keep[(a.head + (i - 1)) % want]
        BY <2>5, <3>1
      <3> QED  BY <2>4, <3>2 DEF Slot
    <2>10. /\ idx \in [0 .. m - 1 -> 1 .. last]
           /\ \A j \in 0 .. m - 1 : Slot(a, want, j) = window[idx[j]] /\ idx[j] \in match
           /\ \A j, l \in 0 .. m - 1 : j < l => idx[j] < idx[l]
           /\ \A i \in match : m < want \/ (\E j \in 0 .. m - 1 : idx[j] < i)
                               => \E j \in 0 .. m - 1 : idx[j] = i
      <3>1. idx \in [0 .. m - 1 -> 1 .. last]
        BY <2>3, <2>4 DEF RingOf
      <3>2. ASSUME NEW j \in 0 .. m - 1 PROVE Slot(a, want, j) = window[idx[j]] /\ idx[j] \in match
        BY <2>3, <2>4, <2>6, <3>1 DEF RingOf
      <3>3. \A j, l \in 0 .. m - 1 : j < l => idx[j] < idx[l]
        BY <2>3, <2>4 DEF RingOf
      <3>4. ASSUME NEW i \in match, m < want \/ (\E j \in 0 .. m - 1 : idx[j] < i)
            PROVE  \E j \in 0 .. m - 1 : idx[j] = i
        BY <2>3, <2>4, <2>6, <3>4 DEF RingOf
      <3> QED  BY <3>1, <3>2, <3>3, <3>4
    <2>11. \A i \in shown : which[i] = idx[i - 1] /\ i - 1 \in 0 .. m - 1 /\ i \in 1 .. m
      BY <2>7, <2>8
    <2>12. \A j \in 0 .. m - 1 : j + 1 \in shown /\ which[j + 1] = idx[j]
      BY <2>7, <2>8
    <2>13. which \in [shown -> match]
      BY <2>10, <2>11
    <2> HIDE DEF which
    <2>14. \A i \in shown : Returned[i] = window[which[i]]
      BY <2>9, <2>10, <2>11
    <2>15. ASSUME NEW i \in shown, NEW l \in shown, i < l PROVE which[i] < which[l]
      <3>1. i - 1 < l - 1
        BY <2>11, <2>15
      <3> QED  BY <2>10, <2>11, <3>1
    <2>16. ASSUME NEW j \in match, m < want \/ \E i \in shown : which[i] < j
           PROVE  \E i \in shown : which[i] = j
      <3>1. m < want \/ \E x \in 0 .. m - 1 : idx[x] < j
        BY <2>11, <2>16
      <3>2. PICK x \in 0 .. m - 1 : idx[x] = j
        BY <2>10, <3>1
      <3> QED  BY <2>12, <3>2
    <2>17. /\ \A j \in 1 .. Len(window) - 1 :
                LET l == file[window[j].no]
                IN /\ window[j + 1].no = window[j].no + 1
                   /\ l.len = window[j].len /\ l.at = window[j].at /\ l.ended
           /\ \A i \in 1 .. Len(file) :
                /\ End(file[i]) =< size
                /\ windowed => file[i].from > start
                => \E j \in 1 .. Len(window) : window[j].no = i /\ window[j].len = file[i].len
      BY LinesWhole
    <2>18. Len(Returned) =< want /\ Kept.matched = Cardinality(match)
      BY <2>3, <2>6, <2>7, <2>8
    <2>19. \E w \in [shown -> match] :
              LET Shown(j) == \E i \in shown : w[i] = j
              IN /\ \A i \in shown : Returned[i] = window[w[i]]
                 /\ \A i, l \in shown : i < l => w[i] < w[l]
                 /\ \A i \in shown, j \in match : w[i] < j => Shown(j)
                 /\ Len(Returned) < want => \A j \in match : Shown(j)
      BY <2>8, <2>13, <2>14, <2>15, <2>16
    <2> QED  BY <2>17, <2>18, <2>19, Zenon DEF TailTrue, match, shown, want
  <1> QED  BY <1>1, LogAlways, PTL
=============================================================================
