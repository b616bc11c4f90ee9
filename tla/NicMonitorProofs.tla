-------------------------- MODULE NicMonitorProofs --------------------------
(***************************************************************************)
(* That the rings of the per-port monitor hold what they are taken for     *)
(* (RingInv), and that with their masks they implement the traffic log of  *)
(* NicTraffic, for every size of the rings, every number of ports and      *)
(* every way the wall clock may jump.                                      *)
(***************************************************************************)
EXTENDS NicMonitor, FiniteSetTheorems, WellFoundedInduction, TLAPS

-----------------------------------------------------------------------------
(* Arithmetic *)

(* LEMMA DivMod: quotient and remainder, as the provers need them. *)
LEMMA DivMod ==
    ASSUME NEW x \in Nat, NEW s \in Nat \ {0}
    PROVE  /\ x \div s \in Nat
           /\ x % s \in 0 .. s - 1
           /\ x = s * (x \div s) + (x % s)
  BY Z3

(* LEMMA ModInjective: less than s apart, two times have different slots. *)
LEMMA ModInjective ==
    ASSUME NEW s \in Nat \ {0}, NEW x \in Nat, NEW y \in Nat,
           x <= y, y - x < s, x % s = y % s
    PROVE  x = y
  <1> DEFINE p == x \div s
             q == y \div s
  <1>1. /\ p \in Nat /\ q \in Nat
        /\ x = s * p + (x % s)
        /\ y = s * q + (x % s)
    BY DivMod
  <1> HIDE DEF p, q
  <1> DEFINE r == x % s
  <1>1a. r \in Int /\ x = s * p + r /\ y = s * q + r
    BY <1>1, DivMod
  <1> HIDE DEF r
  <1>2. y - x = s * (q - p)
    BY <1>1, <1>1a, Z3
  <1>3. CASE q - p >= 1
    <2>1. s * (q - p) >= s
      BY <1>1, <1>3, Z3
    <2> QED  BY <2>1, <1>2
  <1>4. CASE q - p <= 0 - 1
    <2>1. s * (q - p) <= 0 - s
      BY <1>1, <1>4, Z3
    <2> QED  BY <2>1, <1>2
  <1>5. CASE q = p
    BY <1>1, <1>5
  <1> QED  BY <1>1, <1>3, <1>4, <1>5

(* LEMMA ModOf: the remainder is the one that fits. *)
LEMMA ModOf ==
    ASSUME NEW s \in Nat \ {0}, NEW q \in Nat, NEW r \in 0 .. s - 1
    PROVE  (s * q + r) % s = r
  <1> DEFINE x == s * q + r
             p == x \div s
             m == x % s
  <1>0. x \in Nat
    BY Z3
  <1>1. p \in Nat /\ m \in 0 .. s - 1 /\ x = s * p + m
    BY <1>0, DivMod
  <1>1a. x = s * q + r
    OBVIOUS
  <1> HIDE DEF x, p, m
  <1>2. s * (q - p) = m - r
    BY <1>1, <1>1a, Z3
  <1>3. CASE q - p >= 1
    <2>1. s * (q - p) >= s
      BY <1>1, <1>3, Z3
    <2> QED  BY <2>1, <1>2, <1>1
  <1>4. CASE q - p <= 0 - 1
    <2>1. s * (q - p) <= 0 - s
      BY <1>1, <1>4, Z3
    <2> QED  BY <2>1, <1>2, <1>1
  <1>5. CASE q = p
    <2>1. s * (q - p) = 0
      BY <1>1, <1>5, Z3
    <2>2. m = r
      BY <2>1, <1>2, <1>1
    <2> QED  BY <2>2 DEF m, x
  <1> QED  BY <1>1, <1>3, <1>4, <1>5

(* LEMMA Covering: size steps from any time reach every slot. *)
LEMMA Covering ==
    ASSUME NEW s \in Nat \ {0}, NEW x \in Nat, NEW i \in 0 .. s - 1
    PROVE  \E k \in 1 .. s : (x + k) % s = i
  <1> DEFINE q == x \div s
             r == x % s
  <1>1. q \in Nat /\ r \in 0 .. s - 1 /\ x = s * q + r
    BY DivMod
  <1> HIDE DEF q, r
  <1>2. CASE i > r
    <2>1. x + (i - r) = s * q + i
      BY <1>1, Z3
    <2>2. i - r \in 1 .. s
      BY <1>1, <1>2
    <2>3. (x + (i - r)) % s = i
      BY <2>1, <1>1, ModOf
    <2> QED  BY <2>2, <2>3
  <1>3. CASE i <= r
    <2>1. x + (i - r + s) = s * (q + 1) + i
      BY <1>1, Z3
    <2>2. i - r + s \in 1 .. s
      BY <1>1, <1>3
    <2>3. (x + (i - r + s)) % s = i
      BY <2>1, <1>1, ModOf
    <2> QED  BY <2>2, <2>3
  <1> QED  BY <1>1, <1>2, <1>3

(* LEMMA DivMonotone: a later second is in no earlier minute. *)
LEMMA DivMonotone ==
    ASSUME NEW s \in Nat \ {0}, NEW x \in Nat, NEW y \in Nat, x <= y
    PROVE  x \div s <= y \div s
  <1> DEFINE p == x \div s
             q == y \div s
             a == x % s
             b == y % s
  <1>1. /\ p \in Nat /\ q \in Nat
        /\ a \in 0 .. s - 1 /\ b \in 0 .. s - 1
        /\ x = s * p + a
        /\ y = s * q + b
    BY DivMod
  <1> SUFFICES p <= q
    OBVIOUS
  <1> HIDE DEF p, q, a, b
  <1>2. y - x = s * (q - p) + (b - a)
    BY <1>1, Z3
  <1>3. CASE q - p <= 0 - 1
    <2>1. s * (q - p) <= 0 - s
      BY <1>1, <1>3, Z3
    <2> QED  BY <2>1, <1>2, <1>1
  <1> QED  BY <1>1, <1>3

-----------------------------------------------------------------------------
(* One ring *)

Ring(size) == [0 .. size - 1 -> Nat]
Log(L) == [0 .. L -> Nat]
Kept(log, newest, t) == IF t < newest THEN [u \in DOMAIN log |-> 0] ELSE log

(* LEMMA AdvanceType: advancing a ring gives a ring. *)
LEMMA AdvanceType ==
    ASSUME NEW size \in Nat \ {0}, NEW ring \in Ring(size), NEW newest, NEW t
    PROVE  Advance(ring, newest, t, size) \in Ring(size)
  BY DEF Advance, Ring

(* LEMMA ClearsAll: after a jump nothing is left in the ring. *)
LEMMA ClearsAll ==
    ASSUME NEW size \in Nat \ {0}, NEW ring \in Ring(size), NEW newest \in Nat, NEW t \in Nat,
           t < newest \/ t - newest > size, NEW i \in 0 .. size - 1
    PROVE  Advance(ring, newest, t, size)[i] = 0
  <1>1. \E k \in 1 .. size : (newest + k) % size = i
    BY Covering
  <1>2. (IF t - newest < 0 \/ t - newest > size THEN size ELSE t - newest) = size
    OBVIOUS
  <1> QED  BY <1>1, <1>2 DEF Advance

(* LEMMA AdvanceHolds: bringing the ring forward to t keeps what the log    *)
(* keeps: stale slots are cleared and no slot still in use is.              *)
LEMMA AdvanceHolds ==
    ASSUME NEW size \in Nat \ {0}, NEW L \in Nat, NEW ring \in Ring(size), NEW log \in Log(L),
           NEW newest \in 0 .. L, NEW t \in 0 .. L,
           Holds(ring, log, newest, size)
    PROVE  Holds(Advance(ring, newest, t, size), Kept(log, newest, t), t, size)
  <1> DEFINE new == Advance(ring, newest, t, size)
             kept == Kept(log, newest, t)
  <1>0. DOMAIN log = 0 .. L /\ DOMAIN kept = 0 .. L
    BY DEF Log, Kept
  <1>1. ASSUME NEW u \in 0 .. L, u <= t, t - u < size
        PROVE  new[u % size] = kept[u]
    <2>0. u % size \in 0 .. size - 1
      BY DivMod
    <2>1. CASE t < newest
      BY <2>0, <2>1, <1>0, ClearsAll DEF Kept
    <2>2. CASE t >= newest /\ u > newest
      <3>1. kept[u] = 0
        BY <2>2, <1>0 DEF Holds, Kept
      <3>2. CASE t - newest > size
        BY <2>0, <3>1, <3>2, ClearsAll
      <3>3. CASE t - newest <= size
        <4>1. u - newest \in 1 .. (t - newest)
          BY <2>2, <1>1
        <4>2. newest + (u - newest) = u
          OBVIOUS
        <4>3. \E k \in 1 .. (t - newest) : (newest + k) % size = u % size
          BY <4>1, <4>2
        <4>4. (IF t - newest < 0 \/ t - newest > size THEN size ELSE t - newest) = t - newest
          BY <2>2, <3>3
        <4> QED  BY <2>0, <3>1, <4>3, <4>4 DEF Advance
      <3> QED  BY <3>2, <3>3
    <2>3. CASE t >= newest /\ u <= newest
      <3>1. newest - u < size /\ t - newest < size
        BY <2>3, <1>1
      <3>2. ring[u % size] = log[u] /\ kept[u] = log[u]
        BY <2>3, <3>1, <1>0 DEF Holds, Kept
      <3>3. ASSUME NEW k \in 1 .. (t - newest), (newest + k) % size = u % size
            PROVE  FALSE
        <4>1. u <= newest + k /\ (newest + k) - u < size /\ newest + k \in Nat /\ u \in Nat
          BY <2>3, <1>1
        <4>2. u = newest + k
          BY <4>1, <3>3, ModInjective
        <4> QED  BY <4>2, <2>3
      <3>4. (IF t - newest < 0 \/ t - newest > size THEN size ELSE t - newest) = t - newest
        BY <2>3, <3>1
      <3> QED  BY <2>0, <3>2, <3>3, <3>4 DEF Advance
    <2> QED  BY <2>1, <2>2, <2>3
  <1>2. ASSUME NEW u \in 0 .. L, u > t
        PROVE  kept[u] = 0
    BY <1>2, <1>0 DEF Holds, Kept
  <1> HIDE DEF new, kept
  <1>3. Holds(new, kept, t, size)
    BY <1>0, <1>1, <1>2 DEF Holds
  <1> QED  BY <1>3 DEF new, kept

(* LEMMA AddHolds: more in the newest slot is more at the newest time. *)
LEMMA AddHolds ==
    ASSUME NEW size \in Nat \ {0}, NEW L \in Nat, NEW ring \in Ring(size), NEW log \in Log(L),
           NEW t \in 0 .. L, NEW by \in Nat,
           Holds(ring, log, t, size)
    PROVE  Holds([ring EXCEPT ![t % size] = @ + by], [log EXCEPT ![t] = @ + by], t, size)
  <1> DEFINE new == [ring EXCEPT ![t % size] = @ + by]
             more == [log EXCEPT ![t] = @ + by]
  <1>a. t \in Nat
    OBVIOUS
  <1>b. t % size \in 0 .. size - 1
    BY <1>a, DivMod
  <1>0. DOMAIN log = 0 .. L /\ DOMAIN more = 0 .. L /\ t % size \in 0 .. size - 1
        /\ DOMAIN ring = 0 .. size - 1
    BY <1>b DEF Log, Ring
  <1>1. ASSUME NEW u \in 0 .. L, u <= t, t - u < size
        PROVE  new[u % size] = more[u]
    <2>. u \in Nat /\ t \in Nat
      OBVIOUS
    <2>a. u % size \in 0 .. size - 1
      BY DivMod
    <2>b. ring[u % size] = log[u]
      BY <1>0, <1>1 DEF Holds
    <2>0. u % size \in 0 .. size - 1 /\ ring[u % size] = log[u]
      BY <2>a, <2>b
    <2>1. CASE u = t
      BY <2>0, <2>1, <1>0
    <2>2. CASE u # t
      <3>1. u % size # t % size
        BY <2>2, <1>1, ModInjective
      <3> QED  BY <3>1, <2>0, <2>2, <1>0
    <2> QED  BY <2>1, <2>2
  <1>2. ASSUME NEW u \in 0 .. L, u > t
        PROVE  more[u] = 0
    BY <1>2, <1>0 DEF Holds
  <1> HIDE DEF new, more
  <1>3. Holds(new, more, t, size)
    BY <1>0, <1>1, <1>2 DEF Holds
  <1> QED  BY <1>3 DEF new, more

(* LEMMA CountHolds: both together, as account and poll_responses do them. *)
LEMMA CountHolds ==
    ASSUME NEW size \in Nat \ {0}, NEW L \in Nat, NEW ring \in Ring(size), NEW log \in Log(L),
           NEW newest \in 0 .. L, NEW t \in 0 .. L, NEW by \in Nat,
           Holds(ring, log, newest, size)
    PROVE  /\ Holds(CountAt(ring, newest, t, size, by),
                    [Kept(log, newest, t) EXCEPT ![t] = @ + by], t, size)
           /\ CountAt(ring, newest, t, size, by) \in Ring(size)
           /\ [Kept(log, newest, t) EXCEPT ![t] = @ + by] \in Log(L)
  <1> DEFINE new == Advance(ring, newest, t, size)
             kept == Kept(log, newest, t)
  <1>1. Holds(new, kept, t, size)
    BY AdvanceHolds
  <1>2. new \in Ring(size)
    BY AdvanceType
  <1>3. kept \in Log(L)
    BY DEF Kept, Log
  <1>4. CountAt(ring, newest, t, size, by) = [new EXCEPT ![t % size] = @ + by]
    BY DEF CountAt
  <1>5. t % size \in 0 .. size - 1
    <2>1. t \in Nat
      OBVIOUS
    <2> QED  BY <2>1, DivMod
  <1> HIDE DEF new, kept
  <1>6. [new EXCEPT ![t % size] = @ + by] \in Ring(size) /\ [kept EXCEPT ![t] = @ + by] \in Log(L)
    <2>1. ASSUME NEW i \in 0 .. size - 1  PROVE [new EXCEPT ![i] = @ + by] \in Ring(size)
      BY <1>2 DEF Ring
    <2>2. [kept EXCEPT ![t] = @ + by] \in Log(L)
      BY <1>3 DEF Log
    <2> QED  BY <2>1, <2>2, <1>5
  <1>7. Holds([new EXCEPT ![t % size] = @ + by], [kept EXCEPT ![t] = @ + by], t, size)
    BY <1>1, <1>2, <1>3, AddHolds
  <1> QED  BY <1>4, <1>6, <1>7 DEF kept

(* LEMMA EmptyHolds: an empty ring holds an empty log. *)
LEMMA EmptyHolds ==
    ASSUME NEW size \in Nat \ {0}, NEW L \in Nat, NEW t \in Nat
    PROVE  Holds(NoRing(size), [u \in 0 .. L |-> 0], t, size)
  <1>1. \A u \in 0 .. L : u % size \in 0 .. size - 1
    BY DivMod
  <1> QED  BY <1>1 DEF Holds, NoRing

Shown(log, newest, t, size) ==
    [u \in (t - size + 1) .. t |->
       IF u <= newest /\ newest - u < size THEN log[u] ELSE 0]

(* LEMMA ViewShows: through the mask a ring shows the log. *)
LEMMA ViewShows ==
    ASSUME NEW size \in Nat \ {0}, NEW L \in Nat, NEW ring, NEW log \in Log(L),
           NEW newest \in 0 .. L, NEW t \in (size - 1) .. L,
           Holds(ring, log, newest, size)
    PROVE  View(ring, newest, t, size) = Shown(log, newest, t, size)
  <1>1. ASSUME NEW u \in (t - size + 1) .. t
        PROVE  Masked(ring, newest, u, size)
                 = IF u <= newest /\ newest - u < size THEN log[u] ELSE 0
    <2>1. u \in DOMAIN log
      BY DEF Log
    <2> QED  BY <2>1 DEF Holds, Masked
  <1> QED  BY <1>1 DEF View, Shown

-----------------------------------------------------------------------------
(* The rings of all ports *)

(* LEMMA Sizes: what the assumptions on the constants say of the clock.     *)
LEMMA Sizes ==
    /\ Buckets \in Nat \ {0} /\ SSec \in Nat \ {0} /\ Minute \in Nat \ {0}
    /\ First \in Nat /\ Last \in Nat /\ First <= Last /\ First >= SSec
    /\ LastMinute \in Nat /\ First \div Minute \in Nat /\ First \div Minute >= Buckets
    /\ \A t \in First .. Last : t \div Minute \in (First \div Minute) .. LastMinute
  <1>1. /\ Buckets \in Nat \ {0} /\ SSec \in Nat \ {0} /\ Minute \in Nat \ {0}
        /\ First \in Nat /\ Last \in Nat /\ First <= Last /\ First >= SSec
        /\ First >= Buckets * Minute
    BY NicAssumption
  <1> DEFINE p == First \div Minute
             a == First % Minute
  <1>2. p \in Nat /\ a \in 0 .. Minute - 1 /\ First = Minute * p + a
    BY <1>1, DivMod
  <1>3. p >= Buckets
    <2> HIDE DEF p, a
    <2>1. CASE p - Buckets <= 0 - 1
      <3>1. Minute * (p - Buckets) <= 0 - Minute
        BY <1>1, <1>2, <2>1, Z3
      <3>2. Minute * (p - Buckets) = Minute * p - Buckets * Minute
        BY <1>1, <1>2, Z3
      <3>3. First < Buckets * Minute
        BY <1>1, <1>2, <3>1, <3>2, Z3
      <3> QED  BY <3>3, <1>1, Z3
    <2> QED  BY <1>1, <1>2, <2>1
  <1>4. LastMinute \in Nat
    BY <1>1, DivMod DEF LastMinute
  <1>5. ASSUME NEW t \in First .. Last
        PROVE  t \div Minute \in (First \div Minute) .. LastMinute
    <2>1. t \in Nat /\ First <= t /\ t <= Last
      BY <1>1
    <2>2. First \div Minute <= t \div Minute /\ t \div Minute <= Last \div Minute
      BY <1>1, <2>1, DivMonotone
    <2>3. t \div Minute \in Nat
      BY <1>1, <2>1, DivMod
    <2> QED  BY <2>2, <2>3, <1>2, <1>4 DEF LastMinute
  <1> QED  BY <1>1, <1>2, <1>3, <1>4, <1>5

MinuteRings ==
    /\ bucket \in [Nics -> [Kinds -> [0 .. Buckets - 1 -> Nat]]]
    /\ bucket_min \in [Nics -> (First \div Minute) .. LastMinute]
    /\ mlog \in [Nics -> [Kinds -> [0 .. LastMinute -> Nat]]]
    /\ \A n \in Nics, k \in Kinds :
         Holds(bucket[n][k], mlog[n][k], bucket_min[n], Buckets)

SecondRing(n) ==
    IF sreq_min[n] = 0
    THEN sreq[n] = NoRing(SSec) /\ slog[n]["req"] = [t \in 0 .. Last |-> 0]
    ELSE Holds(sreq[n], slog[n]["req"], sreq_min[n], SSec)

SecondRings ==
    /\ sreq \in [Nics -> [0 .. SSec - 1 -> Nat]]
    /\ sreq_min \in [Nics -> {0} \union First .. Last]
    /\ slog \in [Nics -> [{"req"} -> [0 .. Last -> Nat]]]
    /\ \A n \in Nics : SecondRing(n)

Other ==
    /\ now \in First .. Last /\ up \in Nat
    /\ pc \in {"down", "setup", "base", "poll", "drain", "rsp", "expire"}
    /\ todo \subseteq Nics
    /\ rule \in [Nics -> Nat \union {NoRule}]
    /\ ipt_last \in [Nics -> Nat]

(* LEMMA Parts: the invariant in the parts the steps disturb. *)
LEMMA Parts == RingInv <=> MinuteRings /\ SecondRings /\ Other
  BY DEF RingInv, TypeOK, MinuteRings, SecondRings, SecondRing, Other

(* LEMMA PartsNext: and in the next state. *)
LEMMA PartsNext == RingInv' <=> MinuteRings' /\ SecondRings' /\ Other'
  BY DEF RingInv, TypeOK, MinuteRings, SecondRings, SecondRing, Other

(* LEMMA MinuteStep: counting in a minute keeps the minute rings. *)
LEMMA MinuteStep ==
    ASSUME MinuteRings, NEW n \in Nics, NEW m \in (First \div Minute) .. LastMinute,
           NEW by \in [Kinds -> Nat], CountMinute(n, m, by)
    PROVE  MinuteRings'
  <1> DEFINE b(k) == CountAt(bucket[n][k], bucket_min[n], m, Buckets, by[k])
             l(k) == [Kept(mlog[n][k], bucket_min[n], m) EXCEPT ![m] = @ + by[k]]
  <1>0. m \in 0 .. LastMinute /\ bucket_min[n] \in 0 .. LastMinute
    BY Sizes DEF MinuteRings
  <1>1. ASSUME NEW k \in Kinds
        PROVE  Holds(b(k), l(k), m, Buckets) /\ b(k) \in Ring(Buckets) /\ l(k) \in Log(LastMinute)
    <2>1. /\ bucket[n][k] \in Ring(Buckets) /\ mlog[n][k] \in Log(LastMinute)
          /\ by[k] \in Nat
          /\ Holds(bucket[n][k], mlog[n][k], bucket_min[n], Buckets)
      BY DEF MinuteRings, Ring, Log
    <2> QED  BY <2>1, <1>0, Sizes, CountHolds
  <1>2. LogAt(mlog[n], bucket_min[n], m, by) = [k \in Kinds |-> l(k)]
    <2>1. DOMAIN mlog[n] = Kinds
      BY DEF MinuteRings
    <2> QED  BY <2>1 DEF LogAt, Kept
  <1>3. /\ bucket' = [bucket EXCEPT ![n] = [k \in Kinds |-> b(k)]]
        /\ bucket_min' = [bucket_min EXCEPT ![n] = m]
        /\ mlog' = [mlog EXCEPT ![n] = [k \in Kinds |-> l(k)]]
    BY <1>2 DEF CountMinute
  <1> HIDE DEF b, l
  <1>4. /\ bucket' \in [Nics -> [Kinds -> [0 .. Buckets - 1 -> Nat]]]
        /\ mlog' \in [Nics -> [Kinds -> [0 .. LastMinute -> Nat]]]
        /\ bucket_min' \in [Nics -> (First \div Minute) .. LastMinute]
    BY <1>1, <1>3 DEF MinuteRings, Ring, Log
  <1>5. ASSUME NEW p \in Nics, NEW k \in Kinds
        PROVE  Holds(bucket'[p][k], mlog'[p][k], bucket_min'[p], Buckets)
    <2>1. CASE p = n
      <3>1. bucket'[p][k] = b(k) /\ mlog'[p][k] = l(k) /\ bucket_min'[p] = m
        BY <1>3, <2>1 DEF MinuteRings
      <3> QED  BY <3>1, <1>1
    <2>2. CASE p # n
      <3>1. bucket'[p][k] = bucket[p][k] /\ mlog'[p][k] = mlog[p][k] /\ bucket_min'[p] = bucket_min[p]
        BY <1>3, <2>2 DEF MinuteRings
      <3> QED  BY <3>1 DEF MinuteRings
    <2> QED  BY <2>1, <2>2
  <1> QED  BY <1>4, <1>5 DEF MinuteRings

CountSecond(n) ==
    /\ sreq' = [sreq EXCEPT ![n] = SecCountAt(@, sreq_min[n], now)]
    /\ sreq_min' = [sreq_min EXCEPT ![n] = now]
    /\ slog' = [slog EXCEPT ![n] = LogAt(@, sreq_min[n], now, [k \in {"req"} |-> 1])]

(* LEMMA SecondStep: counting in a second keeps the second rings. *)
LEMMA SecondStep ==
    ASSUME SecondRings, NEW n \in Nics, now \in First .. Last, CountSecond(n)
    PROVE  SecondRings'
  <1> DEFINE b == SecCountAt(sreq[n], sreq_min[n], now)
             l == [Kept(slog[n]["req"], sreq_min[n], now) EXCEPT ![now] = @ + 1]
  <1>0. /\ now \in 0 .. Last /\ sreq_min[n] \in 0 .. Last /\ now # 0 /\ now \in Nat
        /\ sreq[n] \in Ring(SSec) /\ slog[n]["req"] \in Log(Last)
        /\ SSec \in Nat \ {0} /\ Last \in Nat
    <2>1. /\ SSec \in Nat \ {0} /\ Last \in Nat /\ First \in Nat /\ First >= SSec
      BY Sizes
    <2>2. now \in 0 .. Last /\ now # 0 /\ now \in Nat
      BY <2>1
    <2>3. sreq_min[n] \in {0} \union First .. Last
      BY DEF SecondRings
    <2>4. sreq_min[n] \in 0 .. Last
      BY <2>1, <2>3
    <2>5. sreq[n] \in Ring(SSec)
      BY DEF SecondRings, Ring
    <2>6. slog[n]["req"] \in Log(Last)
      BY DEF SecondRings, Log
    <2> QED  BY <2>1, <2>2, <2>4, <2>5, <2>6
  <1>1. Holds(b, l, now, SSec) /\ b \in Ring(SSec) /\ l \in Log(Last)
    <2>1. CASE sreq_min[n] = 0
      <3>1. sreq[n] = NoRing(SSec) /\ slog[n]["req"] = [t \in 0 .. Last |-> 0]
        BY <2>1 DEF SecondRings, SecondRing
      <3>2. Holds(sreq[n], slog[n]["req"], now, SSec)
        BY <3>1, <1>0, EmptyHolds
      <3>3. Kept(slog[n]["req"], sreq_min[n], now) = slog[n]["req"]
        BY <2>1, <1>0 DEF Kept
      <3>4. b = [sreq[n] EXCEPT ![now % SSec] = @ + 1]
        BY <2>1 DEF SecCountAt
      <3>5. now % SSec \in 0 .. SSec - 1
        BY <1>0, DivMod
      <3>6. ASSUME NEW i \in 0 .. SSec - 1 PROVE [sreq[n] EXCEPT ![i] = @ + 1] \in Ring(SSec)
        BY <1>0 DEF Ring
      <3>7. [slog[n]["req"] EXCEPT ![now] = @ + 1] \in Log(Last)
        <4>1. ASSUME NEW f \in Log(Last), NEW t \in 0 .. Last
              PROVE  [f EXCEPT ![t] = @ + 1] \in Log(Last)
          BY DEF Log
        <4> QED  BY <4>1, <1>0
      <3>8. Holds([sreq[n] EXCEPT ![now % SSec] = @ + 1],
                  [slog[n]["req"] EXCEPT ![now] = @ + 1], now, SSec)
        BY <3>2, <1>0, AddHolds
      <3> QED  BY <3>3, <3>4, <3>5, <3>6, <3>7, <3>8
    <2>2. CASE sreq_min[n] # 0
      <3>1. Holds(sreq[n], slog[n]["req"], sreq_min[n], SSec)
        BY <2>2 DEF SecondRings, SecondRing
      <3>2. b = CountAt(sreq[n], sreq_min[n], now, SSec, 1)
        BY <2>2, <1>0 DEF SecCountAt
      <3> QED  BY <3>1, <3>2, <1>0, CountHolds
    <2> QED  BY <2>1, <2>2
  <1>2. LogAt(slog[n], sreq_min[n], now, [k \in {"req"} |-> 1]) = [k \in {"req"} |-> l]
    <2>1. DOMAIN slog[n] = {"req"}
      BY DEF SecondRings
    <2> QED  BY <2>1 DEF LogAt, Kept
  <1>3. /\ sreq' = [sreq EXCEPT ![n] = b]
        /\ sreq_min' = [sreq_min EXCEPT ![n] = now]
        /\ slog' = [slog EXCEPT ![n] = [k \in {"req"} |-> l]]
    BY <1>2 DEF CountSecond
  <1> HIDE DEF b, l
  <1>4. /\ sreq' \in [Nics -> [0 .. SSec - 1 -> Nat]]
        /\ sreq_min' \in [Nics -> {0} \union First .. Last]
        /\ slog' \in [Nics -> [{"req"} -> [0 .. Last -> Nat]]]
    BY <1>1, <1>3 DEF SecondRings, Ring, Log
  <1>5. ASSUME NEW p \in Nics
        PROVE  SecondRing(p)'
    <2>1. CASE p = n
      <3>1. sreq'[p] = b /\ slog'[p]["req"] = l /\ sreq_min'[p] = now
        BY <1>3, <2>1 DEF SecondRings
      <3> QED  BY <3>1, <1>0, <1>1 DEF SecondRing
    <2>2. CASE p # n
      <3>1. sreq'[p] = sreq[p] /\ slog'[p] = slog[p] /\ sreq_min'[p] = sreq_min[p]
        BY <1>3, <2>2 DEF SecondRings
      <3>2. SecondRing(p)
        BY DEF SecondRings
      <3> QED  BY <3>1, <3>2 DEF SecondRing
    <2> QED  BY <2>1, <2>2
  <1> QED  BY <1>4, <1>5 DEF SecondRings

(* LEMMA FreshRings: rings and logs as a start makes them. *)
LEMMA FreshRings ==
    ASSUME NEW t \in First .. Last
    PROVE  /\ \A n \in Nics, k \in Kinds :
                Holds([p \in Nics |-> [j \in Kinds |-> NoRing(Buckets)]][n][k],
                      NoLog(Kinds, LastMinute)[n][k], t \div Minute, Buckets)
           /\ [n \in Nics |-> t \div Minute] \in [Nics -> (First \div Minute) .. LastMinute]
           /\ [p \in Nics |-> [j \in Kinds |-> NoRing(Buckets)]]
                \in [Nics -> [Kinds -> [0 .. Buckets - 1 -> Nat]]]
           /\ NoLog(Kinds, LastMinute) \in [Nics -> [Kinds -> [0 .. LastMinute -> Nat]]]
           /\ [n \in Nics |-> NoRing(SSec)] \in [Nics -> [0 .. SSec - 1 -> Nat]]
           /\ NoLog({"req"}, Last) \in [Nics -> [{"req"} -> [0 .. Last -> Nat]]]
           /\ \A n \in Nics : NoLog({"req"}, Last)[n]["req"] = [u \in 0 .. Last |-> 0]
  <1>1. t \div Minute \in Nat /\ t \div Minute \in (First \div Minute) .. LastMinute
    BY Sizes
  <1>2. Holds(NoRing(Buckets), [u \in 0 .. LastMinute |-> 0], t \div Minute, Buckets)
    BY <1>1, Sizes, EmptyHolds
  <1>3. \A n \in Nics, k \in Kinds :
           Holds([p \in Nics |-> [j \in Kinds |-> NoRing(Buckets)]][n][k],
                 NoLog(Kinds, LastMinute)[n][k], t \div Minute, Buckets)
    BY <1>2 DEF NoLog
  <1> QED  BY <1>1, <1>3 DEF NoLog, NoRing

-----------------------------------------------------------------------------
(* The invariant *)

secVars == <<sreq, sreq_min, slog>>

(* LEMMA MinuteIdle, SecondIdle: steps that count nothing. *)
LEMMA MinuteIdle == MinuteRings /\ UNCHANGED ringVars => MinuteRings'
  BY DEF MinuteRings, ringVars

LEMMA SecondIdle == SecondRings /\ UNCHANGED secVars => SecondRings'
  <1> SUFFICES ASSUME SecondRings, UNCHANGED secVars
               PROVE  SecondRings'
    OBVIOUS
  <1>1. sreq' = sreq /\ sreq_min' = sreq_min /\ slog' = slog
    BY DEF secVars
  <1>2. ASSUME NEW n \in Nics PROVE SecondRing(n)'
    <2>1. SecondRing(n)
      BY DEF SecondRings
    <2> QED  BY <1>1, <2>1 DEF SecondRing
  <1> QED  BY <1>1, <1>2 DEF SecondRings

(* A step that counts nothing and publishes nothing. *)
Idle == UNCHANGED <<ringVars, secVars, json>>

(* LEMMA IdleSteps: most steps leave rings and snapshot alone. *)
LEMMA IdleSteps ==
    ASSUME \/ LoopTop \/ Skip \/ LoopEnd \/ Die \/ Tick
           \/ \E n \in Nics : SkipNic(n) \/ SetupNic(n) \/ BaselineNic(n) \/ Answer(n) \/ Counters(n)
           \/ \E t \in First .. Last : SetClock(t)
           \/ UNCHANGED vars
    PROVE  Idle
  <1> USE DEF Idle, ringVars, secVars, reqVars, outVars, vars
  <1>1. CASE LoopTop    BY <1>1 DEF LoopTop
  <1>2. CASE Skip       BY <1>2 DEF Skip, Drain
  <1>3. CASE LoopEnd    BY <1>3 DEF LoopEnd
  <1>4. CASE Die        BY <1>4 DEF Die
  <1>5. CASE Tick       BY <1>5 DEF Tick
  <1>6. CASE \E n \in Nics : SkipNic(n)     BY <1>6 DEF SkipNic
  <1>7. CASE \E n \in Nics : SetupNic(n)    BY <1>7 DEF SetupNic
  <1>8. CASE \E n \in Nics : BaselineNic(n) BY <1>8 DEF BaselineNic
  <1>9. CASE \E n \in Nics : Answer(n)      BY <1>9 DEF Answer
  <1>10. CASE \E n \in Nics : Counters(n)   BY <1>10 DEF Counters
  <1>11. CASE \E t \in First .. Last : SetClock(t) BY <1>11 DEF SetClock
  <1>12. CASE UNCHANGED vars BY <1>12
  <1> QED  BY <1>1, <1>2, <1>3, <1>4, <1>5, <1>6, <1>7, <1>8, <1>9, <1>10, <1>11, <1>12

(* LEMMA CaptureCounts: what a packet counts, in a form for the lemmas.      *)
Packet(v) == [k \in Kinds |-> IF k = "req" THEN 1 ELSE IF k = "valid" THEN v ELSE 0]
Responses(d) == [k \in Kinds |-> IF k = "rsp" THEN d ELSE 0]

LEMMA CaptureCounts ==
    ASSUME NEW n \in Nics, NEW ip \in Ips, NEW v \in {0, 1}, Capture(n, ip, v)
    PROVE  /\ CountMinute(n, now \div Minute, Packet(v)) /\ Packet(v) \in [Kinds -> Nat]
           /\ CountSecond(n)
           /\ UNCHANGED <<now, up, todo, rule, ipt_last, json>> /\ pc' = "drain"
  BY DEF Capture, Drain, Packet, CountSecond, clockVars, rspVars, envVars

(* LEMMA PollCounts: what a reading of the counter counts. *)
LEMMA PollCounts ==
    ASSUME Other, NEW n \in Nics, PollNic(n)
    PROVE  /\ \/ /\ CountMinute(n, now \div Minute, Responses(Delta(n)))
                 /\ Responses(Delta(n)) \in [Kinds -> Nat]
              \/ UNCHANGED ringVars
           /\ UNCHANGED secVars
           /\ UNCHANGED <<now, up, pc, rule, json>>
           /\ todo' \subseteq Nics /\ ipt_last' \in [Nics -> Nat]
  <1>1. rule[n] \in Nat /\ ipt_last[n] \in Nat
    BY DEF PollNic, Other
  <1>2. Delta(n) \in Nat
    BY <1>1 DEF Delta
  <1>3. Responses(Delta(n)) \in [Kinds -> Nat]
    BY <1>2 DEF Responses
  <1>4. \/ CountMinute(n, now \div Minute, Responses(Delta(n)))
        \/ UNCHANGED ringVars
    BY DEF PollNic, Responses
  <1>5. UNCHANGED secVars /\ UNCHANGED <<now, up, pc, rule, json>>
    BY DEF PollNic, secVars, reqVars, clockVars, envVars, outVars
  <1>6. todo' \subseteq Nics /\ ipt_last' \in [Nics -> Nat]
    BY <1>1 DEF PollNic, Other
  <1> QED  BY <1>3, <1>4, <1>5, <1>6

(* LEMMA OtherNext: the plain types. *)
LEMMA OtherNext ==
    ASSUME Other, [Next]_vars
    PROVE  Other'
  <1> USE DEF Other
  <1>1. ASSUME NEW n \in Nics, NEW ip \in Ips, NEW v \in {0, 1}, Capture(n, ip, v)
        PROVE  Other'
    BY <1>1, CaptureCounts
  <1>2. CASE LoopTop
    BY <1>2 DEF LoopTop, clockVars, rspVars, envVars
  <1>3. ASSUME NEW n \in Nics, PollNic(n)
        PROVE  Other'
    BY <1>3, PollCounts
  <1>4. ASSUME NEW n \in Nics, SkipNic(n)
        PROVE  Other'
    BY <1>4 DEF SkipNic, clockVars, rspVars
  <1>5. CASE WriteJson
    BY <1>5 DEF WriteJson, clockVars, rspVars, envVars
  <1>6. CASE WriteFails \/ Skip
    BY <1>6 DEF WriteFails, Skip, Drain, clockVars, rspVars, envVars
  <1>7. CASE LoopEnd
    BY <1>7 DEF LoopEnd, clockVars, rspVars, envVars
  <1>8. CASE Start
    BY <1>8 DEF Start, clockVars, envVars
  <1>9. ASSUME NEW n \in Nics, SetupNic(n)
        PROVE  Other'
    BY <1>9 DEF SetupNic, clockVars, rspVars, NoRule
  <1>10. ASSUME NEW n \in Nics, BaselineNic(n)
         PROVE  Other'
    BY <1>10 DEF BaselineNic, clockVars
  <1>11. CASE Die
    BY <1>11 DEF Die, clockVars, rspVars
  <1>12. ASSUME NEW n \in Nics, Answer(n)
         PROVE  Other'
    BY <1>12 DEF Answer, clockVars, loopVars, rspVars, NoRule
  <1>13. ASSUME NEW n \in Nics, Counters(n)
         PROVE  Other'
    BY <1>13 DEF Counters, clockVars, loopVars, rspVars, NoRule
  <1>14. CASE Tick
    BY <1>14, Sizes DEF Tick, rspVars, envVars
  <1>15. ASSUME NEW t \in First .. Last, SetClock(t)
         PROVE  Other'
    BY <1>15 DEF SetClock, loopVars, rspVars
  <1>16. CASE UNCHANGED vars
    BY <1>16 DEF vars, clockVars, loopVars, rspVars, envVars
  <1> QED  BY <1>1, <1>2, <1>3, <1>4, <1>5, <1>6, <1>7, <1>8, <1>9, <1>10, <1>11, <1>12,
              <1>13, <1>14, <1>15, <1>16 DEF Next

(* LEMMA StartRings: a start makes the rings anew. *)
LEMMA StartRings ==
    ASSUME Other, Start
    PROVE  MinuteRings' /\ SecondRings'
  <1>1. now \in First .. Last
    BY DEF Other
  <1>2. /\ bucket' = [n \in Nics |-> [k \in Kinds |-> NoRing(Buckets)]]
        /\ bucket_min' = [n \in Nics |-> now \div Minute]
        /\ mlog' = NoLog(Kinds, LastMinute)
        /\ sreq' = [n \in Nics |-> NoRing(SSec)]
        /\ sreq_min' = [n \in Nics |-> 0]
        /\ slog' = NoLog({"req"}, Last)
    BY DEF Start
  <1>3. MinuteRings'
    BY <1>1, <1>2, FreshRings DEF MinuteRings
  <1>4. SecondRings'
    BY <1>1, <1>2, FreshRings DEF SecondRings, SecondRing
  <1> QED  BY <1>3, <1>4

(* LEMMA RingNext: every step keeps the invariant. *)
LEMMA RingNext ==
    ASSUME RingInv, [Next]_vars
    PROVE  RingInv'
  <1>0. MinuteRings /\ SecondRings /\ Other
    BY Parts
  <1>a. Other'
    BY <1>0, OtherNext
  <1>e. RingInv' <=> MinuteRings' /\ SecondRings' /\ Other'
    BY DEF RingInv, TypeOK, MinuteRings, SecondRings, SecondRing, Other
  <1> SUFFICES MinuteRings' /\ SecondRings'
    BY <1>a, <1>e
  <1>b. \A t \in First .. Last : t \div Minute \in (First \div Minute) .. LastMinute
    BY Sizes
  <1>c. now \in First .. Last
    BY <1>0 DEF Other
  <1>1. ASSUME NEW n \in Nics, NEW ip \in Ips, NEW v \in {0, 1}, Capture(n, ip, v)
        PROVE  MinuteRings' /\ SecondRings'
    BY <1>0, <1>1, <1>b, <1>c, CaptureCounts, MinuteStep, SecondStep
  <1>2. ASSUME NEW n \in Nics, PollNic(n)
        PROVE  MinuteRings' /\ SecondRings'
    <2>1. SecondRings'
      BY <1>0, <1>2, PollCounts, SecondIdle
    <2>2. CASE UNCHANGED ringVars
      BY <1>0, <2>1, <2>2, MinuteIdle
    <2>3. CASE CountMinute(n, now \div Minute, Responses(Delta(n)))
               /\ Responses(Delta(n)) \in [Kinds -> Nat]
      BY <1>0, <1>b, <1>c, <2>1, <2>3, MinuteStep
    <2> QED  BY <1>0, <1>2, <2>2, <2>3, PollCounts
  <1>3. CASE Start
    BY <1>0, <1>3, StartRings
  <1>4. CASE WriteJson \/ WriteFails
    <2>1. UNCHANGED ringVars /\ UNCHANGED secVars
      BY <1>4 DEF WriteJson, WriteFails, reqVars, secVars
    <2> QED  BY <1>0, <2>1, MinuteIdle, SecondIdle
  <1>5. CASE Idle
    <2>1. UNCHANGED ringVars /\ UNCHANGED secVars
      BY <1>5 DEF Idle
    <2> QED  BY <1>0, <2>1, MinuteIdle, SecondIdle
  <1> QED  BY <1>1, <1>2, <1>3, <1>4, <1>5, IdleSteps DEF Next

(* LEMMA RingStart: the invariant holds at the start. *)
LEMMA RingStart == Init => RingInv
  <1> SUFFICES ASSUME Init PROVE RingInv
    OBVIOUS
  <1>1. First \in First .. Last
    BY Sizes
  <1>2. MinuteRings
    BY <1>1, FreshRings DEF MinuteRings, Init
  <1>3. sreq_min = [n \in Nics |-> 0]
    BY DEF Init
  <1>4. SecondRings
    BY <1>1, <1>3, FreshRings DEF SecondRings, SecondRing, Init
  <1>5. sc.rule \in Nat \union {NoRule}
    BY NicAssumption DEF Init, Scenario
  <1>6. Other
    BY <1>1, <1>5 DEF Other, Init
  <1> QED  BY <1>2, <1>4, <1>6, Parts

(* THEOREM RingInvariant: every slot of every ring holds the packets of the *)
(* one time the masks take it for, for all ring sizes and clock jumps       *)
(* (bucket_advance, sec_advance, bucket_sum).                               *)
THEOREM RingInvariant == Spec => []RingInv
  <1>1. Init => RingInv
    BY RingStart
  <1>2. RingInv /\ [Next]_vars => RingInv'
    BY RingNext
  <1> QED  BY <1>1, <1>2, PTL DEF Spec

-----------------------------------------------------------------------------
(* The refinement *)

(* LEMMA IdleStutters: a step that touches neither rings nor snapshot is a  *)
(* stuttering step of both logs.                                            *)
LEMMA IdleStutters ==
    ASSUME UNCHANGED <<ringVars, secVars, json>>
    PROVE  UNCHANGED Minutes!vars /\ UNCHANGED Seconds!vars
  BY DEF ringVars, secVars, Minutes!vars, Seconds!vars

(* LEMMA MinuteCounts: counting in a ring is counting in the log. *)
LEMMA MinuteCounts ==
    ASSUME MinuteRings, NEW n \in Nics, NEW m \in (First \div Minute) .. LastMinute,
           NEW by \in [Kinds -> Nat], CountMinute(n, m, by), UNCHANGED json
    PROVE  Minutes!Next
  <1>0. m \in 0 .. LastMinute /\ m \in Minutes!Times
    BY Sizes DEF Minutes!Times
  <1> DEFINE old(k) == Minutes!Kept(n, m)[k]
             l(k) == [old(k) EXCEPT ![m] = @ + by[k]]
  <1>1. ASSUME NEW k \in Kinds
        PROVE  /\ old(k) \in [0 .. LastMinute -> Nat]
               /\ old(k) = Kept(mlog[n][k], bucket_min[n], m)
    <2>1. mlog[n][k] \in [0 .. LastMinute -> Nat]
      BY DEF MinuteRings
    <2>2. CASE m < bucket_min[n]
      BY <2>1, <2>2 DEF Minutes!Kept, Minutes!EmptyLog, Minutes!Times, Kept
    <2>3. CASE ~ (m < bucket_min[n])
      BY <2>1, <2>3 DEF Minutes!Kept, Kept
    <2> QED  BY <2>2, <2>3
  <1>2. LogAt(mlog[n], bucket_min[n], m, by) = [k \in Kinds |-> l(k)]
    <2>1. DOMAIN mlog[n] = Kinds
      BY DEF MinuteRings
    <2> QED  BY <2>1, <1>1 DEF LogAt, Kept
  <1>3. /\ mlog' = [mlog EXCEPT ![n] = [k \in Kinds |-> l(k)]]
        /\ bucket_min' = [bucket_min EXCEPT ![n] = m]
    BY <1>2 DEF CountMinute
  <1> HIDE DEF old
  <1>4. ASSUME NEW k \in Kinds
        PROVE  /\ mlog'[n][k][m] = old(k)[m] + by[k]
               /\ mlog'[n][k][m] >= old(k)[m]
               /\ l(k) = [old(k) EXCEPT ![m] = mlog'[n][k][m]]
    <2>1. mlog'[n][k] = l(k)
      BY <1>3 DEF MinuteRings
    <2>2. old(k)[m] \in Nat /\ by[k] \in Nat /\ m \in DOMAIN old(k)
      BY <1>0, <1>1
    <2>3. l(k)[m] = old(k)[m] + by[k]
      BY <2>2
    <2>4. mlog'[n][k][m] = old(k)[m] + by[k]
      BY <2>1, <2>3
    <2>5. mlog'[n][k][m] >= old(k)[m]
      BY <2>2, <2>4
    <2>6. l(k) = [old(k) EXCEPT ![m] = mlog'[n][k][m]]
      BY <2>4, Zenon
    <2> QED  BY <2>4, <2>5, <2>6
  <1> HIDE DEF l
  <1>5. mlog' = [mlog EXCEPT ![n] = [k \in Kinds |-> [old(k) EXCEPT ![m] = mlog'[n][k][m]]]]
    BY <1>3, <1>4
  <1>6. Minutes!Count(n, m)
    BY <1>3, <1>4, <1>5 DEF Minutes!Count, old
  <1> QED  BY <1>0, <1>6 DEF Minutes!Next

(* LEMMA SecondCounts: the same for the seconds. *)
LEMMA SecondCounts ==
    ASSUME SecondRings, NEW n \in Nics, now \in First .. Last, CountSecond(n), UNCHANGED json
    PROVE  Seconds!Next
  <1>0. now \in 0 .. Last /\ now \in Seconds!Times
    BY Sizes DEF Seconds!Times
  <1> DEFINE old == Seconds!Kept(n, now)["req"]
             l == [old EXCEPT ![now] = @ + 1]
  <1>1. /\ old \in [0 .. Last -> Nat]
        /\ old = Kept(slog[n]["req"], sreq_min[n], now)
    BY DEF SecondRings, Seconds!Kept, Seconds!EmptyLog, Seconds!Times, Kept
  <1>2. LogAt(slog[n], sreq_min[n], now, [k \in {"req"} |-> 1]) = [k \in {"req"} |-> l]
    <2>1. DOMAIN slog[n] = {"req"}
      BY DEF SecondRings
    <2> QED  BY <2>1, <1>1 DEF LogAt, Kept
  <1>3. /\ slog' = [slog EXCEPT ![n] = [k \in {"req"} |-> l]]
        /\ sreq_min' = [sreq_min EXCEPT ![n] = now]
    BY <1>2 DEF CountSecond
  <1> HIDE DEF old
  <1>4. /\ slog'[n]["req"][now] >= old[now]
        /\ l = [old EXCEPT ![now] = slog'[n]["req"][now]]
    <2>1. slog'[n]["req"] = l
      BY <1>3 DEF SecondRings
    <2>2. old[now] \in Nat
      BY <1>0, <1>1
    <2> QED  BY <2>1, <2>2, <1>0, <1>1
  <1> HIDE DEF l
  <1>5. slog' = [slog EXCEPT ![n] = [k \in {"req"} |->
                    [Seconds!Kept(n, now)[k] EXCEPT ![now] = slog'[n][k][now]]]]
    <2>1. [k \in {"req"} |-> l]
            = [k \in {"req"} |-> [Seconds!Kept(n, now)[k] EXCEPT ![now] = slog'[n][k][now]]]
      BY <1>4 DEF old
    <2> QED  BY <1>3, <2>1
  <1>6. Seconds!Count(n, now)
    BY <1>3, <1>4, <1>5 DEF Seconds!Count, old
  <1> QED  BY <1>0, <1>6 DEF Seconds!Next

(* LEMMA JsonShows: what write_json writes is what the logs show. *)
LEMMA JsonShows ==
    ASSUME RingInv, WriteJson
    PROVE  Minutes!Next /\ Seconds!Next
  <1>0. MinuteRings /\ SecondRings /\ Other
    BY Parts
  <1> DEFINE m == now \div Minute
  <1>1. /\ now \in First .. Last /\ m \in (First \div Minute) .. LastMinute
        /\ m \in (Buckets - 1) .. LastMinute /\ now \in (SSec - 1) .. Last
    <2>1. now \in First .. Last
      BY <1>0 DEF Other
    <2>2. m \in (First \div Minute) .. LastMinute
      BY <2>1, Sizes
    <2> QED  BY <2>1, <2>2, Sizes
  <1>2. /\ json'.minutes = [n \in Nics |-> [k \in Kinds |->
                              View(bucket[n][k], bucket_min[n], m, Buckets)]]
        /\ json'.seconds = [n \in Nics |-> [k \in {"req"} |->
                              View(sreq[n], sreq_min[n], now, SSec)]]
        /\ UNCHANGED ringVars /\ UNCHANGED secVars
    BY DEF WriteJson, reqVars, secVars
  <1> HIDE DEF m
  <1>3. ASSUME NEW n \in Nics, NEW k \in Kinds
        PROVE  View(bucket[n][k], bucket_min[n], m, Buckets)
                 = [u \in (m - Buckets + 1) .. m |-> Minutes!Entry(n, k, u)]
    <2>1. /\ mlog[n][k] \in Log(LastMinute) /\ bucket_min[n] \in 0 .. LastMinute
          /\ Holds(bucket[n][k], mlog[n][k], bucket_min[n], Buckets)
      <3>1. bucket_min[n] \in (First \div Minute) .. LastMinute
        BY <1>0 DEF MinuteRings
      <3>2. bucket_min[n] \in 0 .. LastMinute
        BY <3>1, Sizes
      <3>3. mlog[n][k] \in Log(LastMinute)
        BY <1>0 DEF MinuteRings, Log
      <3>4. Holds(bucket[n][k], mlog[n][k], bucket_min[n], Buckets)
        BY <1>0 DEF MinuteRings
      <3> QED  BY <3>2, <3>3, <3>4
    <2>2. View(bucket[n][k], bucket_min[n], m, Buckets)
            = Shown(mlog[n][k], bucket_min[n], m, Buckets)
      <3>1. Buckets \in Nat \ {0} /\ LastMinute \in Nat
        BY Sizes
      <3> QED  BY <2>1, <1>1, <3>1, ViewShows
    <2> QED  BY <2>2 DEF Minutes!Entry, Shown
  <1>4. ASSUME NEW n \in Nics
        PROVE  View(sreq[n], sreq_min[n], now, SSec)
                 = [u \in (now - SSec + 1) .. now |-> Seconds!Entry(n, "req", u)]
    <2>1. CASE sreq_min[n] = 0
      <3>1. ASSUME NEW u \in (now - SSec + 1) .. now
            PROVE  Masked(sreq[n], sreq_min[n], u, SSec) = Seconds!Entry(n, "req", u)
        <4>1. ~ (u <= sreq_min[n])
          BY <2>1, <1>1, Sizes
        <4> QED  BY <4>1 DEF Masked, Seconds!Entry
      <3> QED  BY <3>1 DEF View
    <2>2. CASE sreq_min[n] # 0
      <3>1. /\ slog[n]["req"] \in Log(Last) /\ sreq_min[n] \in 0 .. Last
            /\ Holds(sreq[n], slog[n]["req"], sreq_min[n], SSec)
        <4>1. sreq_min[n] \in First .. Last
          BY <1>0, <2>2 DEF SecondRings
        <4>2. Holds(sreq[n], slog[n]["req"], sreq_min[n], SSec)
          BY <1>0, <2>2 DEF SecondRings, SecondRing
        <4>3. slog[n]["req"] \in Log(Last)
          BY <1>0 DEF SecondRings, Log
        <4> QED  BY <4>1, <4>2, <4>3, Sizes
      <3>2. View(sreq[n], sreq_min[n], now, SSec)
              = Shown(slog[n]["req"], sreq_min[n], now, SSec)
        <4>1. SSec \in Nat \ {0} /\ Last \in Nat
          BY Sizes
        <4> QED  BY <3>1, <1>1, <4>1, ViewShows
      <3> QED  BY <3>2 DEF Seconds!Entry, Shown
    <2> QED  BY <2>1, <2>2
  <1>5. Minutes!Publish(m)
    BY <1>2, <1>3 DEF Minutes!Publish, ringVars
  <1>6. Seconds!Publish(now)
    <2>1. json'.seconds = [n \in Nics |-> [k \in {"req"} |->
                             [u \in (now - SSec + 1) .. now |-> Seconds!Entry(n, k, u)]]]
      BY <1>2, <1>4
    <2> QED  BY <1>2, <2>1 DEF Seconds!Publish, secVars
  <1> QED  BY <1>1, <1>5, <1>6 DEF Minutes!Next, Seconds!Next

(* LEMMA TornSpoils: a file that is cut short shows nothing. *)
LEMMA TornSpoils ==
    ASSUME WriteFails
    PROVE  [Minutes!Next]_(Minutes!vars) /\ [Seconds!Next]_(Seconds!vars)
  <1>1. UNCHANGED ringVars /\ UNCHANGED secVars /\ json' \in {json, TornJson}
    BY DEF WriteFails, reqVars, secVars
  <1>2. CASE json' = json
    BY <1>1, <1>2 DEF ringVars, secVars, Minutes!vars, Seconds!vars
  <1>3. CASE json' = TornJson
    <2>1. /\ json'.minutes = [n \in Nics |-> [k \in Kinds |-> <<>>]]
          /\ json'.seconds = [n \in Nics |-> [k \in {"req"} |-> <<>>]]
      BY <1>3 DEF TornJson, NoJson
    <2>2. Minutes!Spoil /\ Seconds!Spoil
      BY <1>1, <2>1 DEF ringVars, secVars, Minutes!Spoil, Seconds!Spoil
    <2> QED  BY <2>2 DEF Minutes!Next, Seconds!Next
  <1> QED  BY <1>1, <1>2, <1>3

(* LEMMA StartRestarts: a start of the process starts both logs anew. *)
LEMMA StartRestarts ==
    ASSUME Other, Start
    PROVE  Minutes!Next /\ Seconds!Next
  <1>1. now \div Minute \in 0 .. LastMinute
    BY Sizes DEF Other
  <1>2. Minutes!Restart
    BY <1>1 DEF Start, outVars, Minutes!Restart, Minutes!EmptyLog, Minutes!Times, NoLog
  <1>3. Seconds!Restart
    <2>1. 0 \in 0 .. Last
      BY Sizes
    <2> QED  BY <2>1 DEF Start, outVars, Seconds!Restart, Seconds!EmptyLog, Seconds!Times, NoLog
  <1> QED  BY <1>2, <1>3 DEF Minutes!Next, Seconds!Next

(* LEMMA StepImplements: every step of the monitor is a step of both logs   *)
(* or leaves them as they are.                                              *)
LEMMA StepImplements ==
    ASSUME RingInv, [Next]_vars
    PROVE  [Minutes!Next]_(Minutes!vars) /\ [Seconds!Next]_(Seconds!vars)
  <1>0. MinuteRings /\ SecondRings /\ Other
    BY Parts
  <1>a. now \in First .. Last /\ now \div Minute \in (First \div Minute) .. LastMinute
    BY <1>0, Sizes DEF Other
  <1>1. ASSUME NEW n \in Nics, NEW ip \in Ips, NEW v \in {0, 1}, Capture(n, ip, v)
        PROVE  Minutes!Next /\ Seconds!Next
    BY <1>0, <1>1, <1>a, CaptureCounts, MinuteCounts, SecondCounts
  <1>2. ASSUME NEW n \in Nics, PollNic(n)
        PROVE  [Minutes!Next]_(Minutes!vars) /\ UNCHANGED Seconds!vars
    <2>1. UNCHANGED secVars /\ UNCHANGED json
      BY <1>0, <1>2, PollCounts
    <2>2. UNCHANGED Seconds!vars
      BY <2>1 DEF secVars, Seconds!vars
    <2>3. CASE UNCHANGED ringVars
      BY <2>1, <2>2, <2>3 DEF ringVars, Minutes!vars
    <2>4. CASE CountMinute(n, now \div Minute, Responses(Delta(n)))
               /\ Responses(Delta(n)) \in [Kinds -> Nat]
      BY <1>0, <1>a, <2>1, <2>2, <2>4, MinuteCounts
    <2> QED  BY <1>0, <1>2, <2>3, <2>4, PollCounts
  <1>3. CASE Start
    BY <1>0, <1>3, StartRestarts
  <1>4. CASE WriteJson
    BY <1>4, JsonShows
  <1>5. CASE Idle
    BY <1>5, IdleStutters DEF Idle
  <1>6. CASE WriteFails
    BY <1>6, TornSpoils
  <1> QED  BY <1>1, <1>2, <1>3, <1>4, <1>5, <1>6, IdleSteps DEF Next

(* LEMMA InitImplements: at the start both logs are empty. *)
LEMMA InitImplements == Init => Minutes!Init /\ Seconds!Init
  <1> SUFFICES ASSUME Init PROVE Minutes!Init /\ Seconds!Init
    OBVIOUS
  <1>1. First \div Minute \in 0 .. LastMinute /\ 0 \in 0 .. Last
    BY Sizes
  <1>2. Minutes!Init
    BY <1>1 DEF Init, NoJson, Minutes!Init, Minutes!EmptyLog, Minutes!Times, NoLog
  <1>3. Seconds!Init
    BY <1>1 DEF Init, NoJson, Seconds!Init, Seconds!EmptyLog, Seconds!Times, NoLog
  <1> QED  BY <1>2, <1>3

(* THEOREM TrafficLog: the monitor implements NicTraffic twice.  What the   *)
(* snapshot shows of the minutes and of the seconds is what a log of all    *)
(* packets would show, or nothing when the file is cut short, for all ring  *)
(* sizes, ports and clock jumps (account, poll_responses, write_json).      *)
THEOREM TrafficLog == Spec => RingsImplement
  <1>1. Init => Minutes!Init /\ Seconds!Init
    BY InitImplements
  <1>2. RingInv /\ [Next]_vars => [Minutes!Next]_(Minutes!vars) /\ [Seconds!Next]_(Seconds!vars)
    BY StepImplements
  <1>3. Spec => []RingInv
    BY RingInvariant
  <1> QED  BY <1>1, <1>2, <1>3, PTL DEF Spec, RingsImplement, Minutes!Spec, Seconds!Spec

-----------------------------------------------------------------------------
(* The pace of the snapshots *)

(* How much of a turn may have passed before the process began to wait where *)
(* it is, and what the faults so far and the packets have cost.             *)
Past ==
    CASE pc = "rsp"  -> Turn
      [] pc = "poll" -> Lag
      [] pc = "drain" -> Timeout
      [] pc = "down" -> Turn + Lag - Setback
      [] OTHER       -> 0
Debt == drained * Lag + nfaults * Setback

(* The snapshot's age by where the process is, and by the wall clock: what   *)
(* LoopTop compares with the interval is the age but for the time the clock  *)
(* was set back.                                                             *)
AgeInv ==
    written # Never =>
      /\ up - written <= Interval - 1 + Past + wait + back + Debt
      /\ pc = "down" => "kill" \in sc.faults
      /\ pc \in {"poll", "drain", "expire"} /\ last_write # 0 => up - written <= now - last_write + back + Debt
      /\ pc = "rsp" => up - written <= Interval - 1 + Turn + (now - last_write) + back + Debt

WaitInv ==
    /\ {wait, last_write, back, nfaults, drained} \subseteq Nat
    /\ written \in Nat \union {Never}
    /\ sc \in Scenarios
    /\ wait <= Patience
    /\ pc = "rsp" => last_write + wait <= now + back
    /\ pc \in {"setup", "base"} => last_write = 0

(* LEMMA Costs: what a fault costs, and that the scenario stays. *)
LEMMA Costs ==
    /\ Turn \in Nat /\ Lag \in Nat /\ Timeout \in Nat /\ RestartSec \in Nat
    /\ Turn = Timeout + Lag
    /\ Interval \in Nat /\ Interval >= 1 /\ Interval <= First
    /\ Setback \in Nat
    /\ "kill" \in sc.faults => RestartSec + Turn + Lag <= Setback
    /\ "disk" \in sc.faults => Interval - 1 + Turn <= Setback
  <1>1. /\ Lag \in Nat /\ Timeout \in Nat /\ RestartSec \in Nat /\ Interval \in Nat
        /\ Interval >= 1 /\ Interval <= First
    BY NicAssumption
  <1>2. Turn \in Nat /\ Turn = Timeout + Lag
    BY <1>1 DEF Turn
  <1> QED  BY <1>1, <1>2 DEF Setback

(* LEMMA DebtGrows: a step costs nothing, or one fault, or one packet. *)
LEMMA DebtGrows ==
    ASSUME WaitInv, sc' = sc, nfaults' \in {nfaults, nfaults + 1},
           drained' \in {drained, drained + 1}
    PROVE  /\ Setback' = Setback
           /\ Debt \in Nat /\ Debt' \in Nat /\ Debt <= Debt'
           /\ nfaults' = nfaults /\ drained' = drained => Debt' = Debt
           /\ nfaults' = nfaults + 1 /\ drained' = drained => Debt' = Debt + Setback
           /\ nfaults' = nfaults /\ drained' = drained + 1 => Debt' = Debt + Lag
  <1>1. nfaults \in Nat /\ drained \in Nat
    BY DEF WaitInv
  <1>2. Setback \in Nat /\ Setback' = Setback /\ Lag \in Nat
    BY Costs DEF Setback
  <1>3. ASSUME NEW f \in Nat, NEW s \in Nat
        PROVE  f * s \in Nat /\ (f + 1) * s \in Nat /\ (f + 1) * s = f * s + s
    BY Z3
  <1> DEFINE a == drained * Lag
             b == nfaults * Setback
             a2 == drained' * Lag
             b2 == nfaults' * Setback
  <1>4. Debt = a + b /\ Debt' = a2 + b2
    BY <1>2 DEF Debt
  <1>5. /\ a \in Nat /\ b \in Nat /\ a2 \in Nat /\ b2 \in Nat
        /\ nfaults' = nfaults => b2 = b
        /\ nfaults' = nfaults + 1 => b2 = b + Setback
        /\ drained' = drained => a2 = a
        /\ drained' = drained + 1 => a2 = a + Lag
    BY <1>1, <1>2, <1>3
  <1> HIDE DEF a, b, a2, b2
  <1>6. Debt \in Nat /\ Debt' \in Nat /\ Debt <= Debt'
    BY <1>2, <1>4, <1>5
  <1>7. nfaults' = nfaults /\ drained' = drained => Debt' = Debt
    BY <1>4, <1>5
  <1>8. nfaults' = nfaults + 1 /\ drained' = drained => Debt' = Debt + Setback
    BY <1>2, <1>4, <1>5
  <1>9. nfaults' = nfaults /\ drained' = drained + 1 => Debt' = Debt + Lag
    BY <1>2, <1>4, <1>5
  <1> QED  BY <1>2, <1>6, <1>7, <1>8, <1>9

(* LEMMA PaceNumbers: the numbers AgeInv is about. *)
LEMMA PaceNumbers ==
    ASSUME Other, WaitInv
    PROVE  /\ now \in Nat /\ now >= First /\ up \in Nat /\ wait \in Nat /\ last_write \in Nat
           /\ back \in Nat /\ written \in Int /\ First \in Nat /\ nfaults \in Nat
           /\ Debt \in Nat /\ Past \in Int
  <1>1. /\ now \in Nat /\ now >= First /\ up \in Nat /\ First \in Nat
    BY Sizes DEF Other
  <1>2. /\ wait \in Nat /\ last_write \in Nat /\ back \in Nat /\ written \in Int
        /\ nfaults \in Nat /\ drained \in Nat
    BY DEF WaitInv, Never
  <1>3. Debt \in Nat
    <2>1. ASSUME NEW f \in Nat, NEW s \in Nat PROVE f * s \in Nat
      BY Z3
    <2>2. drained * Lag \in Nat /\ nfaults * Setback \in Nat
      BY <1>2, <2>1, Costs
    <2> QED  BY <2>2 DEF Debt
  <1>4. Past \in Int
    BY Costs DEF Past
  <1> QED  BY <1>1, <1>2, <1>3, <1>4

(* LEMMA QuietPace: the steps that leave clocks and snapshot alone. *)
LEMMA QuietPace ==
    ASSUME Other, WaitInv, AgeInv,
           UNCHANGED <<now, up, back, wait, last_write, written, drained, sc>>,
           nfaults' \in {nfaults, nfaults + 1},
           pc' = pc \/ (pc = "setup" /\ pc' = "base")
    PROVE  WaitInv' /\ AgeInv'
  <1>1. /\ Setback' = Setback /\ Debt \in Nat /\ Debt' \in Nat /\ Debt <= Debt'
    BY DebtGrows
  <1>2. Past' = Past /\ Patience' = Patience
    BY <1>1 DEF Past, Patience
  <1>3. WaitInv'
    BY <1>2, PaceNumbers DEF WaitInv
  <1>4. AgeInv'
    BY <1>1, <1>2, PaceNumbers, Costs DEF AgeInv
  <1> QED  BY <1>3, <1>4

(* LEMMA LoopPace: the turns of the loop. *)
LEMMA LoopPace ==
    ASSUME Other, WaitInv, AgeInv, LoopTop \/ LoopEnd
    PROVE  WaitInv' /\ AgeInv'
  <1>0. /\ now \in Nat /\ now >= First /\ up \in Nat /\ wait \in Nat /\ last_write \in Nat
        /\ back \in Nat /\ written \in Int /\ Debt \in Nat /\ First \in Nat
    BY PaceNumbers
  <1>1. /\ UNCHANGED <<now, up, back, written, drained, sc, nfaults>> /\ wait' = 0
    BY DEF LoopTop, LoopEnd, clockVars, outVars, envVars
  <1>2. Debt' = Debt /\ Setback' = Setback
    BY <1>1, DebtGrows
  <1>3. Patience' \in Nat /\ Interval \in Nat /\ Interval >= 1 /\ Interval <= First
    BY Costs DEF Patience, WaitInv
  <1>4. Turn \in Nat /\ Lag \in Nat /\ Timeout \in Nat /\ Turn = Timeout + Lag
    BY Costs
  <1>a. ASSUME LoopTop PROVE wait + Past <= Turn /\ Past \in Nat
    BY <1>0, <1>4, <1>a DEF LoopTop, WaitInv, Patience, Past
  <1>5. CASE LoopTop /\ WriteDue
    <2>1. pc \in {"poll", "drain"} /\ pc' = "rsp" /\ last_write' = now
      BY <1>5 DEF LoopTop
    <2>2. WaitInv'
      BY <1>0, <1>1, <1>3, <2>1 DEF WaitInv
    <2>3. wait + Past <= Turn /\ Past \in Nat /\ Past' = Turn
      BY <1>2, <1>5, <1>a, <2>1 DEF Past
    <2>4. AgeInv'
      BY <1>0, <1>1, <1>2, <1>3, <1>4, <2>1, <2>3 DEF AgeInv
    <2> QED  BY <2>2, <2>4
  <1>6. CASE LoopTop /\ ~WriteDue
    <2>1. pc \in {"poll", "drain"} /\ pc' = "expire" /\ last_write' = last_write
      BY <1>6 DEF LoopTop
    <2>2. WaitInv'
      BY <1>0, <1>1, <1>3, <2>1 DEF WaitInv
    <2>3. last_write # 0 /\ now - last_write <= Interval - 1
      BY <1>0, <1>3, <1>6 DEF WriteDue
    <2>4. Past' = 0
      BY <2>1 DEF Past
    <2>5. AgeInv'
      BY <1>0, <1>1, <1>2, <1>3, <2>1, <2>3, <2>4 DEF AgeInv
    <2> QED  BY <2>2, <2>5
  <1>7. CASE LoopEnd
    <2>1. pc = "expire" /\ pc' = "poll" /\ last_write' = last_write
      BY <1>7 DEF LoopEnd
    <2>2. WaitInv'
      BY <1>0, <1>1, <1>3, <2>1 DEF WaitInv
    <2>3. wait <= Lag /\ Past = 0 /\ Past' = Lag
      BY <2>1 DEF WaitInv, Patience, Past
    <2>4. AgeInv'
      BY <1>0, <1>1, <1>2, <1>3, <1>4, <2>1, <2>3 DEF AgeInv
    <2> QED  BY <2>2, <2>4
  <1> QED  BY <1>5, <1>6, <1>7

(* LEMMA DrainPace: a packet costs no more than its Lag. *)
LEMMA DrainPace ==
    ASSUME Other, WaitInv, AgeInv, Drain, UNCHANGED <<clockVars, envVars>>
    PROVE  WaitInv' /\ AgeInv'
  <1>0. /\ now \in Nat /\ up \in Nat /\ wait \in Nat /\ last_write \in Nat
        /\ back \in Nat /\ written \in Int /\ Debt \in Nat /\ drained \in Nat
    BY PaceNumbers DEF WaitInv
  <1>1. /\ UNCHANGED <<now, up, back, written, sc, nfaults, last_write>> /\ wait' = 0
        /\ pc \in {"poll", "drain"} /\ pc' = "drain" /\ drained' = drained + 1
    BY DEF Drain, clockVars, envVars
  <1>2. Debt' = Debt + Lag /\ Setback' = Setback
    BY <1>1, DebtGrows
  <1>3. Patience' \in Nat /\ Interval \in Nat /\ Interval >= 1
    BY Costs DEF Patience
  <1>4. Turn \in Nat /\ Lag \in Nat /\ Timeout \in Nat /\ Turn = Timeout + Lag
    BY Costs
  <1>5. wait + Past <= Timeout + Lag /\ Past \in Nat /\ Past' = Timeout
    BY <1>0, <1>1, <1>4 DEF WaitInv, Patience, Past
  <1>6. WaitInv'
    BY <1>0, <1>1, <1>3 DEF WaitInv
  <1>7. AgeInv'
    BY <1>0, <1>1, <1>2, <1>3, <1>4, <1>5 DEF AgeInv
  <1> QED  BY <1>6, <1>7

(* LEMMA WritePace: a snapshot, written or not. *)
LEMMA WritePace ==
    ASSUME Other, WaitInv, AgeInv, WriteJson \/ WriteFails
    PROVE  WaitInv' /\ AgeInv'
  <1>0. /\ now \in Nat /\ up \in Nat /\ wait \in Nat /\ last_write \in Nat
        /\ back \in Nat /\ written \in Int /\ Debt \in Nat
    BY PaceNumbers
  <1>1. /\ UNCHANGED <<now, up, back, wait, last_write, sc>>
        /\ pc = "rsp" /\ pc' = "expire" /\ nfaults' \in {nfaults, nfaults + 1}
        /\ drained' \in {0, drained} /\ nfaults \in Nat /\ drained \in Nat
    BY DEF WriteJson, WriteFails, clockVars, envVars, WaitInv
  <1>2. Setback' = Setback /\ Debt' \in Nat
    <2>1. Setback' = Setback /\ Setback \in Nat /\ Lag \in Nat
      BY <1>1, Costs DEF Setback
    <2>2. ASSUME NEW f \in Nat, NEW c \in Nat PROVE f * c \in Nat
      BY Z3
    <2>3. nfaults' \in Nat /\ drained' \in Nat
      BY <1>1
    <2>4. drained' * Lag \in Nat /\ nfaults' * Setback \in Nat
      BY <2>1, <2>2, <2>3
    <2> QED  BY <2>1, <2>4 DEF Debt
  <1>3. /\ Past = Turn /\ Past' = 0 /\ wait <= Patience' /\ last_write + wait <= now + back
    BY <1>1 DEF WaitInv, Patience, Past
  <1>4. Turn \in Nat /\ Interval \in Nat /\ Interval >= 1 /\ Setback \in Nat
    BY Costs
  <1>5. written' \in Nat \union {Never}
    <2>1. written' \in {up, written} /\ written \in Nat \union {Never}
      BY DEF WriteJson, WriteFails, WaitInv
    <2> QED  BY <1>0, <2>1
  <1>6. WaitInv'
    BY <1>0, <1>1, <1>3, <1>5 DEF WaitInv
  <1>7. CASE WriteJson
    <2>1. written' = up
      BY <1>7 DEF WriteJson
    <2>2. /\ up - up <= Interval - 1 + 0 + wait + back + Debt'
          /\ up - up <= now - last_write + back + Debt'
      <3>1. \A d \in Nat : /\ up - up <= Interval - 1 + 0 + wait + back + d
                           /\ up - up <= now - last_write + back + d
        BY <1>0, <1>3, <1>4
      <3> QED  BY <1>2, <3>1, Zenon
    <2>3. AgeInv'
      BY <1>1, <1>3, <2>1, <2>2 DEF AgeInv
    <2> QED  BY <1>6, <2>3
  <1>8. CASE WriteFails
    <2>1. UNCHANGED <<written, drained>> /\ nfaults' = nfaults + 1 /\ "disk" \in sc.faults
      BY <1>8 DEF WriteFails, May
    <2>2. Debt' = Debt + Setback /\ Interval - 1 + Turn <= Setback
      BY <1>1, <2>1, DebtGrows, Costs
    <2>3. written # Never => /\ up - written <= Interval - 1 + Turn + wait + back + Debt
                         /\ up - written <= Interval - 1 + Turn + (now - last_write) + back + Debt
      BY <1>1, <1>3 DEF AgeInv
    <2>4. written # Never => /\ up - written <= Interval - 1 + 0 + wait + back + Debt'
                         /\ up - written <= now - last_write + back + Debt'
      <3>1. \A d, e, c \in Nat :
               /\ e = d + c /\ Interval - 1 + Turn <= c
               /\ up - written <= Interval - 1 + Turn + wait + back + d
               /\ up - written <= Interval - 1 + Turn + (now - last_write) + back + d
               => /\ up - written <= Interval - 1 + 0 + wait + back + e
                  /\ up - written <= now - last_write + back + e
        BY <1>0, <1>3, <1>4
      <3> QED  BY <1>0, <1>2, <1>4, <2>2, <2>3, <3>1, Zenon
    <2>5. AgeInv'
      BY <1>1, <1>3, <2>1, <2>4 DEF AgeInv
    <2> QED  BY <1>6, <2>5
  <1> QED  BY <1>7, <1>8

(* LEMMA DeathPace: the process dies, and starts again. *)
LEMMA DeathPace ==
    ASSUME Other, WaitInv, AgeInv, Die \/ Start \/ \E n \in Nics : BaselineNic(n)
    PROVE  WaitInv' /\ AgeInv'
  <1>0. /\ now \in Nat /\ up \in Nat /\ wait \in Nat /\ last_write \in Nat
        /\ back \in Nat /\ written \in Int /\ Debt \in Nat /\ nfaults \in Nat /\ Past \in Int
    BY PaceNumbers
  <1>1. /\ UNCHANGED <<now, up, back, written, drained, sc>>
        /\ nfaults' \in {nfaults, nfaults + 1}
    BY DEF Die, Start, BaselineNic, clockVars, outVars, envVars
  <1>2. Setback' = Setback /\ Debt' \in Nat /\ Debt <= Debt'
    BY <1>1, DebtGrows
  <1>3. /\ Turn \in Nat /\ Lag \in Nat /\ Timeout \in Nat /\ RestartSec \in Nat
        /\ Turn = Timeout + Lag /\ Interval \in Nat /\ Interval >= 1 /\ Setback \in Nat
        /\ Patience \in Nat
    BY Costs DEF Patience
  <1>4. CASE Die
    <2>1. pc # "down" /\ pc' = "down" /\ wait' = 0 /\ nfaults' = nfaults + 1 /\ "kill" \in sc.faults
          /\ last_write' = last_write
      BY <1>4 DEF Die, May
    <2>2. Debt' = Debt + Setback /\ Past' = Turn + Lag - Setback /\ Patience' \in Nat
      BY <1>1, <1>2, <1>3, <2>1, DebtGrows DEF Past, Patience
    <2>3. Past + wait <= Turn + Lag
      <3>1. wait <= Patience
        BY DEF WaitInv
      <3> QED  BY <1>0, <1>3, <2>1, <3>1 DEF Patience, Past
    <2>4. WaitInv'
      BY <1>0, <1>1, <2>1, <2>2 DEF WaitInv
    <2>5. AgeInv'
      BY <1>0, <1>1, <1>3, <2>1, <2>2, <2>3 DEF AgeInv
    <2> QED  BY <2>4, <2>5
  <1>5. CASE Start
    <2>1. pc = "down" /\ pc' = "setup" /\ wait' = 0 /\ last_write' = 0 /\ nfaults' = nfaults
      BY <1>5 DEF Start, envVars
    <2>2. /\ Debt' = Debt /\ Past = Turn + Lag - Setback /\ Past' = 0 /\ Patience' \in Nat
          /\ wait <= RestartSec
      BY <1>1, <1>3, <2>1, DebtGrows DEF Past, Patience, WaitInv
    <2>3. WaitInv'
      BY <1>0, <1>1, <2>1, <2>2 DEF WaitInv
    <2>4. "kill" \in sc.faults => RestartSec + Turn + Lag <= Setback
      BY Costs
    <2>5. AgeInv'
      BY <1>0, <1>1, <1>3, <2>1, <2>2, <2>4 DEF AgeInv
    <2> QED  BY <2>3, <2>5
  <1>6. CASE \E n \in Nics : BaselineNic(n)
    <2>1. PICK n \in Nics : BaselineNic(n)
      BY <1>6
    <2>2. pc = "base" /\ last_write' = last_write
      BY <2>1 DEF BaselineNic
    <2>3. last_write = 0 /\ wait <= Lag /\ Past = 0
      BY <2>2 DEF WaitInv, Patience, Past
    <2>4. CASE pc' = "poll"
      <3>1. wait' = 0 /\ Past' = Lag /\ Patience' \in Nat
        BY <1>3, <2>1, <2>2, <2>4 DEF BaselineNic, Past, Patience
      <3>2. WaitInv'
        BY <1>0, <1>1, <2>2, <2>4, <3>1 DEF WaitInv
      <3>3. written # Never => up - written <= Interval - 1 + 0 + wait + back + Debt
        BY <2>3 DEF AgeInv
      <3>4. written # Never => up - written <= Interval - 1 + Lag + 0 + back + Debt'
        <4>1. \A d, e \in Nat : d <= e /\ up - written <= Interval - 1 + 0 + wait + back + d
                                 => up - written <= Interval - 1 + Lag + 0 + back + e
          BY <1>0, <1>3, <2>3
        <4> QED  BY <1>0, <1>2, <3>3, <4>1, Zenon
      <3>5. AgeInv'
        BY <1>1, <2>2, <2>3, <2>4, <3>1, <3>4 DEF AgeInv
      <3> QED  BY <3>2, <3>5
    <2>5. CASE pc' # "poll"
      <3>1. pc' = pc /\ wait' = wait
        BY <2>1, <2>5 DEF BaselineNic
      <3> QED  BY <1>1, <2>2, <3>1, QuietPace
    <2> QED  BY <2>4, <2>5
  <1> QED  BY <1>4, <1>5, <1>6

(* LEMMA ClockPace: time passes, or the clock is set. *)
LEMMA ClockPace ==
    ASSUME Other, WaitInv, AgeInv, Tick \/ \E t \in First .. Last : SetClock(t)
    PROVE  WaitInv' /\ AgeInv'
  <1>0. /\ now \in Nat /\ up \in Nat /\ wait \in Nat /\ last_write \in Nat
        /\ back \in Nat /\ written \in Int /\ Debt \in Nat /\ nfaults \in Nat /\ Past \in Int
        /\ First \in Nat /\ Last \in Nat
    BY PaceNumbers, Sizes
  <1>1. /\ UNCHANGED <<pc, last_write, written, drained, sc>>
        /\ nfaults' \in {nfaults, nfaults + 1}
    BY DEF Tick, SetClock, loopVars, outVars, envVars
  <1>2. Setback' = Setback /\ Debt' \in Nat /\ Debt <= Debt'
    BY <1>1, DebtGrows
  <1>3. Past' = Past /\ Patience' = Patience /\ Interval \in Nat
    BY <1>1, <1>2, Costs DEF Past, Patience
  <1>4. CASE Tick
    <2>1. up' = up + 1 /\ now' = now + 1 /\ wait' = wait + 1 /\ wait < Patience /\ back' = back
      BY <1>4 DEF Tick
    <2>2. Patience \in Nat
      BY Costs DEF Patience
    <2>3. WaitInv'
      BY <1>0, <1>1, <1>3, <2>1, <2>2 DEF WaitInv
    <2>4. written # Never => /\ up' - written <= Interval - 1 + Past + wait' + back' + Debt'
                             /\ pc \in {"poll", "drain", "expire"} /\ last_write # 0 =>
                              up' - written <= now' - last_write + back' + Debt'
                             /\ pc = "rsp" =>
                              up' - written <= Interval - 1 + Turn + (now' - last_write) + back' + Debt'
      <3>1. \A d, e \in Nat :
               d <= e => /\ up - written <= Interval - 1 + Past + wait + back + d
                              => up' - written <= Interval - 1 + Past + wait' + back' + e
                         /\ up - written <= now - last_write + back + d
                              => up' - written <= now' - last_write + back' + e
                         /\ up - written <= Interval - 1 + Turn + (now - last_write) + back + d
                              => up' - written <= Interval - 1 + Turn + (now' - last_write) + back' + e
        <4>1. Turn \in Nat
          BY Costs
        <4> QED  BY <1>0, <1>3, <2>1, <4>1
      <3> QED  BY <1>0, <1>2, <3>1, Zenon DEF AgeInv
    <2>5. AgeInv'
      <3>1. written # Never /\ pc = "down" => "kill" \in sc.faults
        BY DEF AgeInv
      <3>2. Turn' = Turn /\ Never' = Never
        BY DEF Turn, Never
      <3> SUFFICES ASSUME written # Never
                   PROVE  /\ up' - written <= Interval - 1 + Past + wait' + back' + Debt'
                          /\ pc = "down" => "kill" \in sc.faults
                          /\ pc \in {"poll", "drain", "expire"} /\ last_write # 0 =>
                               up' - written <= now' - last_write + back' + Debt'
                          /\ pc = "rsp" =>
                               up' - written <= Interval - 1 + Turn + (now' - last_write) + back' + Debt'
        BY <1>1, <1>3, <3>2 DEF AgeInv
      <3> QED  BY <2>4, <3>1, Zenon
    <2> QED  BY <2>3, <2>5
  <1>5. ASSUME NEW t \in First .. Last, SetClock(t) PROVE WaitInv' /\ AgeInv'
    <2>1. /\ now' = t /\ up' = up /\ wait' = wait
          /\ back' = IF t < now THEN back + now - t ELSE back
      BY <1>5 DEF SetClock, loopVars
    <2>2. back' \in Nat /\ back <= back' /\ now + back <= now' + back' /\ now' \in Nat
      BY <1>0, <2>1
    <2>3. WaitInv'
      BY <1>0, <1>1, <1>3, <2>1, <2>2 DEF WaitInv
    <2>4. written # Never => /\ up' - written <= Interval - 1 + Past + wait' + back' + Debt'
                             /\ pc \in {"poll", "drain", "expire"} /\ last_write # 0 =>
                              up' - written <= now' - last_write + back' + Debt'
                             /\ pc = "rsp" =>
                              up' - written <= Interval - 1 + Turn + (now' - last_write) + back' + Debt'
      <3>1. \A d, e, b, n \in Nat :
               d <= e /\ back <= b /\ now + back <= n + b =>
                 /\ up - written <= Interval - 1 + Past + wait + back + d
                      => up' - written <= Interval - 1 + Past + wait' + b + e
                 /\ up - written <= now - last_write + back + d
                      => up' - written <= n - last_write + b + e
                 /\ up - written <= Interval - 1 + Turn + (now - last_write) + back + d
                      => up' - written <= Interval - 1 + Turn + (n - last_write) + b + e
        <4>1. Turn \in Nat
          BY Costs
        <4> QED  BY <1>0, <1>3, <2>1, <4>1
      <3> QED  BY <1>0, <1>2, <2>2, <3>1, Zenon DEF AgeInv
    <2>5. AgeInv'
      <3>1. written # Never /\ pc = "down" => "kill" \in sc.faults
        BY DEF AgeInv
      <3>2. Turn' = Turn /\ Never' = Never
        BY DEF Turn, Never
      <3> SUFFICES ASSUME written # Never
                   PROVE  /\ up' - written <= Interval - 1 + Past + wait' + back' + Debt'
                          /\ pc = "down" => "kill" \in sc.faults
                          /\ pc \in {"poll", "drain", "expire"} /\ last_write # 0 =>
                               up' - written <= now' - last_write + back' + Debt'
                          /\ pc = "rsp" =>
                               up' - written <= Interval - 1 + Turn + (now' - last_write) + back' + Debt'
        BY <1>1, <1>3, <3>2 DEF AgeInv
      <3> QED  BY <2>4, <3>1, Zenon
    <2> QED  BY <2>3, <2>5
  <1> QED  BY <1>4, <1>5

(* LEMMA PaceStep: every step keeps the pace. *)
LEMMA PaceStep ==
    ASSUME Other, WaitInv, AgeInv, [Next]_vars
    PROVE  WaitInv' /\ AgeInv'
  <1>1. CASE LoopTop \/ LoopEnd
    BY <1>1, LoopPace
  <1>2. CASE WriteJson \/ WriteFails
    BY <1>2, WritePace
  <1>3. CASE Die \/ Start \/ \E n \in Nics : BaselineNic(n)
    BY <1>3, DeathPace
  <1>4. CASE Tick \/ \E t \in First .. Last : SetClock(t)
    BY <1>4, ClockPace
  <1> DEFINE Still ==
        /\ UNCHANGED <<now, up, back, wait, last_write, written, drained, sc>>
        /\ nfaults' \in {nfaults, nfaults + 1}
        /\ pc' = pc \/ (pc = "setup" /\ pc' = "base")
  <1>5. CASE Skip \/ \E n \in Nics, ip \in Ips, v \in {0, 1} : Capture(n, ip, v)
    BY <1>5, DrainPace DEF Skip, Capture
  <1>6. ASSUME NEW n \in Nics, PollNic(n) PROVE Still
    BY <1>6 DEF PollNic, clockVars, outVars, envVars
  <1>7. ASSUME NEW n \in Nics, SkipNic(n) PROVE Still
    BY <1>7 DEF SkipNic, clockVars, outVars
  <1>8. ASSUME NEW n \in Nics, SetupNic(n) PROVE Still
    BY <1>8 DEF SetupNic, clockVars, outVars
  <1>9. ASSUME NEW n \in Nics, Answer(n) \/ Counters(n) PROVE Still
    BY <1>9 DEF Answer, Counters, clockVars, loopVars, outVars
  <1>10. CASE UNCHANGED vars
    BY <1>10, QuietPace DEF vars, clockVars, loopVars, outVars, envVars
  <1>11. Still => WaitInv' /\ AgeInv'
    BY QuietPace
  <1> HIDE DEF Still
  <1> QED  BY <1>1, <1>2, <1>3, <1>4, <1>5, <1>6, <1>7, <1>8, <1>9, <1>10, <1>11 DEF Next

(* THEOREM SnapshotStaysFresh: the last whole snapshot is no older than the  *)
(* interval and two turns of the loop, however often the clock is set, the   *)
(* disk is full or the process dies and however many packets come, but for   *)
(* what each of these costs (main, capture_drain, write_json).               *)
THEOREM SnapshotStaysFresh == Spec => []SnapshotFresh
  <1>1. Init => WaitInv /\ AgeInv
    BY Costs DEF Init, WaitInv, AgeInv, Patience, Never
  <1>2. RingInv /\ WaitInv /\ AgeInv /\ [Next]_vars => WaitInv' /\ AgeInv'
    BY Parts, PaceStep
  <1>3. RingInv /\ WaitInv /\ AgeInv => SnapshotFresh
    <2> SUFFICES ASSUME Other, WaitInv, AgeInv, written # Never
                 PROVE  up - written <= Interval - 1 + Turn + Lag + back + Debt
      <3> DEFINE x == drained * Lag
                 y == nfaults * Setback
                 z == Interval - 1 + Turn + Lag + back
      <3>1. ASSUME Other, WaitInv PROVE x \in Nat /\ y \in Nat /\ z \in Int
        <4>1. ASSUME NEW f \in Nat, NEW c \in Nat PROVE f * c \in Nat
          BY Z3
        <4>2. drained \in Nat /\ nfaults \in Nat /\ back \in Nat
          BY <3>1 DEF WaitInv
        <4> QED  BY <4>1, <4>2, Costs
      <3>2. Debt = x + y
        BY DEF Debt
      <3>3. SnapshotFresh <=> (written # Never => up - written <= z + x + y)
        BY DEF SnapshotFresh
      <3> HIDE DEF x, y
      <3>4. ASSUME Other, WaitInv PROVE z + x + y = z + Debt
        BY <3>1, <3>2, <3>4
      <3> QED  BY <3>3, <3>4, Parts
    <2>0. /\ up \in Nat /\ wait \in Nat /\ back \in Nat /\ written \in Int /\ Debt \in Nat
          /\ Past \in Int
      BY PaceNumbers
    <2>1. /\ Turn \in Nat /\ Lag \in Nat /\ Timeout \in Nat /\ RestartSec \in Nat
          /\ Turn = Timeout + Lag /\ Interval \in Nat /\ Setback \in Nat
          /\ "kill" \in sc.faults => RestartSec + Turn + Lag <= Setback
      BY Costs
    <2>2. up - written <= Interval - 1 + Past + wait + back + Debt
      BY DEF AgeInv
    <2>3. pc = "down" => "kill" \in sc.faults
      BY DEF AgeInv
    <2>4. Past + wait <= Turn + Lag
      <3>1. wait <= Patience
        BY DEF WaitInv
      <3> QED  BY <2>0, <2>1, <2>3, <3>1 DEF Patience, Past
    <2> QED  BY <2>0, <2>1, <2>2, <2>4
  <1> QED  BY <1>1, <1>2, <1>3, RingInvariant, PTL DEF Spec

-----------------------------------------------------------------------------
(* Sums, by a least counterexample in place of an induction *)

(* The fold behind SumFunction: what it makes of every part of S. *)
Pick(s) == CHOOSE x \in s : TRUE
FoldOf(i, f, S) ==
    i = [s \in SUBSET S |-> IF s = {} THEN 0 ELSE f[Pick(s)] + i[s \ {Pick(s)}]]

(* What a sum of f is, whatever the order in which it is formed. *)
SumOf(i, f, S) ==
    /\ i \in [SUBSET S -> Nat] /\ i[{}] = 0
    /\ \A s \in SUBSET S : \A x \in s : i[s] = f[x] + i[s \ {x}]

(* LEMMA SumTakes: one number is taken out of a sum. *)
LEMMA SumTakes ==
    ASSUME NEW S, NEW f, NEW i, SumOf(i, f, S), NEW s \in SUBSET S, NEW x \in s
    PROVE  i[s] = f[x] + i[s \ {x}]
  BY Zenon DEF SumOf

(* LEMMA Smallest: a set of numbers has a smallest one. *)
LEMMA Smallest ==
    ASSUME NEW S \in SUBSET Nat, S # {}
    PROVE  \E i \in S : \A j \in S : i <= j
  <1> DEFINE R == {p \in Nat \X Nat : p[1] < p[2]}
  <1>1. IsWellFoundedOn(R, Nat)
    BY NatLessThanWellFounded, Zenon DEF OpToRel
  <1>2. \A x, y \in Nat : y < x => <<y, x>> \in R
    OBVIOUS
  <1> HIDE DEF R
  <1>3. \E i \in S : \A j \in S : ~ (<<j, i>> \in R)
    BY <1>1, WFMin
  <1>4. PICK i \in S : \A j \in S : ~ (<<j, i>> \in R)
    BY <1>3
  <1>5. ASSUME NEW j \in S PROVE i <= j
    <2>1. i \in Nat /\ j \in Nat
      OBVIOUS
    <2>2. ~(j < i)
      BY <1>2, <1>4, <2>1
    <2> QED  BY <2>1, <2>2
  <1> QED  BY <1>5

(* LEMMA FirstWrong: among the parts of a finite set that have some property  *)
(* there is one none of whose parts has it.                                   *)
LEMMA FirstWrong ==
    ASSUME NEW S, IsFiniteSet(S), NEW B \in SUBSET SUBSET S, B # {}
    PROVE  \E s \in B : \A t \in SUBSET s : t # s => t \notin B
  <1>1. IsWellFoundedOn(StrictSubsetOrdering(S), SUBSET S)
    BY FS_StrictSubsetOrderingWellFounded, FS_FiniteSubsetsOfFinite
  <1>2. PICK s \in B : \A t \in B : ~ (<<t, s>> \in StrictSubsetOrdering(S))
    BY <1>1, WFMin
  <1>3. ASSUME NEW t \in SUBSET s, t # s, t \in B PROVE FALSE
    BY <1>2, <1>3 DEF StrictSubsetOrdering
  <1> QED  BY <1>3

(* LEMMA FoldExists: the recursion of the fold has a solution. *)
LEMMA FoldExists ==
    ASSUME NEW S, IsFiniteSet(S), NEW f
    PROVE  \E i : FoldOf(i, f, S)
  <1> DEFINE Small(n) == {s \in SUBSET S : Cardinality(s) <= n}
             Solves(g, n) == g = [s \in Small(n) |->
                               IF s = {} THEN 0 ELSE f[Pick(s)] + g[s \ {Pick(s)}]]
             Bad == {n \in Nat : ~ \E g : Solves(g, n)}
  <1>0. ASSUME NEW s \in SUBSET S
        PROVE  /\ IsFiniteSet(s) /\ Cardinality(s) \in Nat /\ Cardinality(s) <= Cardinality(S)
               /\ Cardinality(s) = 0 <=> s = {}
               /\ s # {} => Pick(s) \in s
               /\ s # {} => Cardinality(s \ {Pick(s)}) = Cardinality(s) - 1
    <2>1. IsFiniteSet(s) /\ Cardinality(s) <= Cardinality(S)
      BY FS_Subset
    <2>2. s # {} => Pick(s) \in s
      BY DEF Pick
    <2> QED  BY <2>1, <2>2, FS_CardinalityType, FS_EmptySet, FS_RemoveElement
  <1>1. ASSUME NEW n \in Nat, NEW s
        PROVE  s \in Small(n) <=> s \in SUBSET S /\ Cardinality(s) <= n
    OBVIOUS
  <1>2. ASSUME NEW n \in Nat PROVE n \in Bad <=> ~ \E g : Solves(g, n)
    OBVIOUS
  <1>3. Bad \in SUBSET Nat
    OBVIOUS
  <1> HIDE DEF Bad, Small
  <1>4. Bad = {}
    <2> SUFFICES ASSUME Bad # {} PROVE FALSE
      OBVIOUS
    <2>1. PICK n \in Bad : \A m \in Bad : n <= m
      BY <1>3, Smallest
    <2>2. n \in Nat /\ ~ \E g : Solves(g, n)
      BY <1>2, <1>3
    <2> HIDE DEF Solves
    <2>3. CASE n = 0
      <3> DEFINE g == [s \in Small(0) |-> 0]
      <3>1. ASSUME NEW s \in Small(0) PROVE s = {}
        <4>1. s \in SUBSET S /\ Cardinality(s) <= 0
          BY <1>1
        <4>2. Cardinality(s) \in Nat /\ (Cardinality(s) = 0 <=> s = {})
          BY <1>0, <4>1
        <4> QED  BY <4>1, <4>2
      <3>2. Solves(g, 0)
        BY <3>1 DEF Solves
      <3> QED  BY <2>2, <2>3, <3>2
    <2>4. CASE n # 0
      <3>1. n - 1 \in Nat /\ n - 1 \notin Bad
        BY <2>1, <2>2, <2>4
      <3>2. PICK h : Solves(h, n - 1)
        BY <1>2, <3>1
      <3> DEFINE g == [s \in Small(n) |-> IF s = {} THEN 0 ELSE f[Pick(s)] + h[s \ {Pick(s)}]]
      <3>3. ASSUME NEW s \in Small(n - 1) PROVE s \in Small(n) /\ g[s] = h[s]
        <4>1. s \in SUBSET S /\ Cardinality(s) <= n - 1
          BY <1>1, <3>1
        <4>2. s \in Small(n)
          <5>1. Cardinality(s) \in Nat
            BY <1>0, <4>1
          <5>2. Cardinality(s) <= n
            BY <2>2, <4>1, <5>1
          <5> QED  BY <1>1, <2>2, <4>1, <5>2
        <4>3. h[s] = IF s = {} THEN 0 ELSE f[Pick(s)] + h[s \ {Pick(s)}]
          BY <3>2 DEF Solves
        <4> QED  BY <4>2, <4>3
      <3>4. ASSUME NEW s \in Small(n), s # {} PROVE g[s \ {Pick(s)}] = h[s \ {Pick(s)}]
        <4>1. s \in SUBSET S /\ Cardinality(s) <= n
          BY <1>1, <2>2
        <4>2. Cardinality(s \ {Pick(s)}) <= n - 1 /\ s \ {Pick(s)} \in SUBSET S
          BY <1>0, <2>2, <3>4, <4>1
        <4>3. s \ {Pick(s)} \in Small(n - 1)
          BY <1>1, <3>1, <4>2
        <4> QED  BY <3>3, <4>3
      <3>5. Solves(g, n)
        BY <3>4 DEF Solves
      <3> QED  BY <2>2, <3>5
    <2> QED  BY <2>3, <2>4
  <1> DEFINE c == Cardinality(S)
  <1>5. c \in Nat /\ Small(c) = SUBSET S
    BY <1>0, <1>1, FS_CardinalityType
  <1>6. PICK g : Solves(g, c)
    BY <1>2, <1>4, <1>5
  <1>7. FoldOf(g, f, S)
    BY <1>5, <1>6 DEF FoldOf
  <1> QED  BY <1>7

(* LEMMA FoldSums: the fold is a sum, in whatever order. *)
LEMMA FoldSums ==
    ASSUME NEW S, IsFiniteSet(S), NEW f, \A x \in S : f[x] \in Nat,
           NEW i, FoldOf(i, f, S)
    PROVE  SumOf(i, f, S)
  <1>0. ASSUME NEW s \in SUBSET S, s # {}
        PROVE  /\ Pick(s) \in s /\ f[Pick(s)] \in Nat /\ s \ {Pick(s)} \in SUBSET S
               /\ i[s] = f[Pick(s)] + i[s \ {Pick(s)}]
    <2>1. Pick(s) \in s
      BY <1>0 DEF Pick
    <2> QED  BY <1>0, <2>1 DEF FoldOf
  <1>1. i[{}] = 0 /\ DOMAIN i = SUBSET S /\ i = [s \in SUBSET S |-> i[s]]
    BY DEF FoldOf
  <1>2. \A s \in SUBSET S : i[s] \in Nat
    <2> DEFINE B == {s \in SUBSET S : i[s] \notin Nat}
    <2> SUFFICES ASSUME B # {} PROVE FALSE
      OBVIOUS
    <2>1. B \in SUBSET SUBSET S
      OBVIOUS
    <2>a. ASSUME NEW s PROVE s \in B <=> s \in SUBSET S /\ i[s] \notin Nat
      OBVIOUS
    <2> HIDE DEF B
    <2>2. PICK s \in B : \A t \in SUBSET s : t # s => t \notin B
      BY <2>1, FirstWrong
    <2>3. s \in SUBSET S /\ i[s] \notin Nat /\ s # {}
      <3>1. s \in SUBSET S /\ i[s] \notin Nat
        BY <2>a
      <3>2. i[{}] \in Nat
        BY <1>1
      <3> QED  BY <3>1, <3>2
    <2>4. i[s \ {Pick(s)}] \in Nat
      <3>1. s \ {Pick(s)} \in SUBSET s /\ s \ {Pick(s)} # s /\ s \ {Pick(s)} \in SUBSET S
        BY <1>0, <2>3
      <3> QED  BY <2>2, <2>a, <3>1
    <2> QED  BY <1>0, <2>3, <2>4
  <1>3. \A s \in SUBSET S : \A x \in s : i[s] = f[x] + i[s \ {x}]
    <2> DEFINE B == {s \in SUBSET S : \E x \in s : i[s] # f[x] + i[s \ {x}]}
    <2> SUFFICES ASSUME B # {} PROVE FALSE
      OBVIOUS
    <2>1. B \in SUBSET SUBSET S
      OBVIOUS
    <2>a. ASSUME NEW s PROVE s \in B <=> s \in SUBSET S /\ \E x \in s : i[s] # f[x] + i[s \ {x}]
      OBVIOUS
    <2> HIDE DEF B
    <2>2. PICK s \in B : \A t \in SUBSET s : t # s => t \notin B
      BY <2>1, FirstWrong
    <2>3. s \in SUBSET S
      BY <2>1
    <2>4. PICK x \in s : i[s] # f[x] + i[s \ {x}]
      BY <2>a
    <2>5. ASSUME NEW t \in SUBSET s, t # s, NEW y \in t PROVE i[t] = f[y] + i[t \ {y}]
      <3>1. t \notin B /\ t \in SUBSET S
        BY <2>2, <2>3, <2>5
      <3> QED  BY <2>a, <3>1
    <2> DEFINE y == Pick(s)
    <2>6. y \in s /\ i[s] = f[y] + i[s \ {y}]
      BY <1>0, <2>3, <2>4
    <2> HIDE DEF y
    <2>7. y # x
      BY <2>4, <2>6
    <2>8. i[s \ {y}] = f[x] + i[(s \ {y}) \ {x}] /\ i[s \ {x}] = f[y] + i[(s \ {x}) \ {y}]
      BY <2>5, <2>6, <2>7
    <2>9. (s \ {y}) \ {x} = (s \ {x}) \ {y}
      OBVIOUS
    <2>10. f[x] \in Nat /\ f[y] \in Nat /\ i[(s \ {x}) \ {y}] \in Nat
      BY <1>2, <2>3, <2>4, <2>6
    <2> DEFINE r == i[(s \ {x}) \ {y}]
    <2>11. i[s] = f[y] + (f[x] + r) /\ f[x] + i[s \ {x}] = f[x] + (f[y] + r) /\ r \in Nat
      BY <2>6, <2>8, <2>9, <2>10
    <2> HIDE DEF r
    <2>12. f[y] + (f[x] + r) = f[x] + (f[y] + r)
      BY <2>10, <2>11
    <2> QED  BY <2>4, <2>11, <2>12
  <1> QED  BY <1>1, <1>2, <1>3 DEF SumOf

(* LEMMA SumsCompare: a sum of smaller numbers is not larger. *)
LEMMA SumsCompare ==
    ASSUME NEW S, NEW T, NEW U, IsFiniteSet(U), U \subseteq S, U \subseteq T, NEW f, NEW g, NEW i, NEW j,
           SumOf(i, f, S), SumOf(j, g, T),
           \A x \in U : f[x] \in Nat /\ g[x] \in Nat /\ f[x] <= g[x]
    PROVE  i[U] <= j[U]
  <1> DEFINE B == {s \in SUBSET U : ~(i[s] <= j[s])}
  <1> SUFFICES ASSUME B # {} PROVE FALSE
    BY DEF SumOf
  <1>1. B \in SUBSET SUBSET U
    OBVIOUS
  <1>a. ASSUME NEW s PROVE s \in B <=> s \in SUBSET U /\ ~(i[s] <= j[s])
    OBVIOUS
  <1> HIDE DEF B
  <1>2. PICK s \in B : \A t \in SUBSET s : t # s => t \notin B
    BY <1>1, FirstWrong
  <1>3. s \in SUBSET U /\ ~(i[s] <= j[s])
    BY <1>a
  <1>4. s # {}
    <2>1. i[{}] = 0 /\ j[{}] = 0
      BY DEF SumOf
    <2> QED  BY <1>3, <2>1
  <1>5. PICK x \in s : TRUE
    BY <1>4
  <1>6. i[s \ {x}] <= j[s \ {x}]
    <2>1. s \ {x} \notin B /\ s \ {x} \in SUBSET U
      BY <1>2, <1>3
    <2> QED  BY <1>a, <2>1
  <1>7. /\ i[s] = f[x] + i[s \ {x}] /\ j[s] = g[x] + j[s \ {x}]
        /\ i[s \ {x}] \in Nat /\ j[s \ {x}] \in Nat
    <2>1. s \in SUBSET S /\ s \in SUBSET T /\ s \ {x} \in SUBSET S /\ s \ {x} \in SUBSET T
      BY <1>3
    <2>2. i[s] = f[x] + i[s \ {x}] /\ i[s \ {x}] \in Nat
      BY <2>1 DEF SumOf
    <2>3. j[s] = g[x] + j[s \ {x}] /\ j[s \ {x}] \in Nat
      BY <2>1 DEF SumOf
    <2> QED  BY <2>2, <2>3
  <1>8. f[x] \in Nat /\ g[x] \in Nat /\ f[x] <= g[x]
    BY <1>3
  <1> QED  BY <1>3, <1>6, <1>7, <1>8

(* LEMMA SumFound: SumFunction is a sum. *)
LEMMA SumFound ==
    ASSUME NEW S, IsFiniteSet(S), NEW f \in [S -> Nat]
    PROVE  \E i : SumOf(i, f, S) /\ SumFunction(f) = i[S]
  <1> DEFINE i == CHOOSE i : FoldOf(i, f, S)
  <1>1. FoldOf(i, f, S)
    BY FoldExists
  <1>2. SumOf(i, f, S)
    <2> HIDE DEF i
    <2> QED  BY <1>1, FoldSums
  <1>3. DOMAIN f = S
    OBVIOUS
  <1>4. SumFunction(f) = (CHOOSE j : FoldOf(j, f, DOMAIN f))[DOMAIN f]
    BY DEF SumFunction, SumFunctionOnSet, FoldFunctionOnSet, MapThenFoldSet, FoldOf, Pick
  <1>5. SumFunction(f) = i[S]
    BY <1>3, <1>4, Zenon
  <1> HIDE DEF i
  <1> QED  BY <1>2, <1>5

(* LEMMA SumNumber: the sum of numbers is a number. *)
LEMMA SumNumber ==
    ASSUME NEW S, IsFiniteSet(S), NEW f \in [S -> Nat]
    PROVE  SumFunction(f) \in Nat
  <1>1. PICK i : SumOf(i, f, S) /\ SumFunction(f) = i[S]
    BY SumFound
  <1> QED  BY <1>1 DEF SumOf

(* LEMMA SumMonotone: a sum over more and larger numbers is larger. *)
LEMMA SumMonotone ==
    ASSUME NEW S, IsFiniteSet(S), NEW f \in [S -> Nat], NEW g \in [S -> Nat],
           \A x \in S : f[x] <= g[x]
    PROVE  /\ SumFunction(f) \in Nat
           /\ SumFunction(f) <= SumFunction(g)
  <1>1. PICK i : SumOf(i, f, S) /\ SumFunction(f) = i[S]
    BY SumFound
  <1>2. PICK j : SumOf(j, g, S) /\ SumFunction(g) = j[S]
    BY SumFound
  <1>3. i[S] <= j[S]
    BY <1>1, <1>2, SumsCompare
  <1>4. i[S] \in Nat
    BY <1>1 DEF SumOf
  <1> QED  BY <1>1, <1>2, <1>3, <1>4

(* LEMMA SumEmpty: nothing has been added up. *)
LEMMA SumEmpty ==
    ASSUME NEW f \in [{} -> Nat]
    PROVE  SumFunction(f) = 0
  <1>1. PICK i : SumOf(i, f, {}) /\ SumFunction(f) = i[{}]
    BY SumFound, FS_EmptySet
  <1> QED  BY <1>1 DEF SumOf

(* LEMMA SumPart: the sum over a part of the numbers. *)
LEMMA SumPart ==
    ASSUME NEW S, IsFiniteSet(S), NEW f \in [S -> Nat], NEW i, SumOf(i, f, S), NEW T \in SUBSET S
    PROVE  SumFunction([y \in T |-> f[y]]) = i[T]
  <1> DEFINE g == [y \in T |-> f[y]]
  <1>1. g \in [T -> Nat] /\ T \subseteq S /\ T \subseteq T /\ IsFiniteSet(T)
    BY FS_Subset
  <1>2. \A y \in T : g[y] \in Nat /\ f[y] \in Nat /\ g[y] <= f[y] /\ f[y] <= g[y]
    OBVIOUS
  <1> HIDE DEF g
  <1>3. PICK j : SumOf(j, g, T) /\ SumFunction(g) = j[T]
    BY <1>1, SumFound
  <1>4. i[T] <= j[T]
    BY <1>1, <1>2, <1>3, SumsCompare
  <1>5. j[T] <= i[T]
    BY <1>1, <1>2, <1>3, SumsCompare
  <1>6. i[T] \in Nat /\ j[T] \in Nat
    BY <1>3 DEF SumOf
  <1>7. SumFunction(g) = i[T]
    BY <1>3, <1>4, <1>5, <1>6
  <1> QED  BY <1>7 DEF g

(* LEMMA SumWithout: one number of a sum, and the others. *)
LEMMA SumWithout ==
    ASSUME NEW S, IsFiniteSet(S), NEW f \in [S -> Nat], NEW x \in S
    PROVE  /\ SumFunction(f) = f[x] + SumFunction([y \in S \ {x} |-> f[y]])
           /\ SumFunction([y \in S \ {x} |-> f[y]]) \in Nat
  <1>1. PICK i : SumOf(i, f, S) /\ SumFunction(f) = i[S]
    BY SumFound
  <1>2. i[S] = f[x] + i[S \ {x}] /\ i[S \ {x}] \in Nat
    <2>1. S \in SUBSET S /\ S \ {x} \in SUBSET S
      OBVIOUS
    <2>2. i[S] = f[x] + i[S \ {x}]
      BY <1>1, <2>1, SumTakes
    <2>3. i[S \ {x}] \in Nat
      BY <1>1, <2>1 DEF SumOf
    <2> QED  BY <2>2, <2>3
  <1>3. SumFunction([y \in S \ {x} |-> f[y]]) = i[S \ {x}]
    BY <1>1, SumPart
  <1> QED  BY <1>1, <1>2, <1>3

(* LEMMA SumSplit: a sum in two parts. *)
LEMMA SumSplit ==
    ASSUME NEW S, IsFiniteSet(S), NEW f \in [S -> Nat], NEW T \in SUBSET S
    PROVE  /\ SumFunction(f) = SumFunction([y \in T |-> f[y]]) + SumFunction([y \in S \ T |-> f[y]])
           /\ SumFunction([y \in T |-> f[y]]) \in Nat
           /\ SumFunction([y \in S \ T |-> f[y]]) \in Nat
  <1>1. PICK i : SumOf(i, f, S) /\ SumFunction(f) = i[S]
    BY SumFound
  <1>2. i[S] = i[T] + i[S \ T]
    <2> DEFINE B == {s \in SUBSET S : i[S] # i[s] + i[S \ s]}
    <2> SUFFICES ASSUME B # {} PROVE FALSE
      OBVIOUS
    <2>1. B \in SUBSET SUBSET S
      OBVIOUS
    <2>2. ASSUME NEW s PROVE s \in B <=> s \in SUBSET S /\ i[S] # i[s] + i[S \ s]
      OBVIOUS
    <2> HIDE DEF B
    <2>3. PICK s \in B : \A t \in SUBSET s : t # s => t \notin B
      BY <2>1, FirstWrong
    <2>4. s \in SUBSET S /\ i[S] # i[s] + i[S \ s] /\ i[S] \in Nat
      BY <1>1, <2>2 DEF SumOf
    <2>5. s # {}
      <3>1. i[{}] = 0 /\ S \ {} = S
        BY <1>1 DEF SumOf
      <3> SUFFICES ASSUME s = {} PROVE FALSE
        OBVIOUS
      <3>2. i[s] + i[S \ s] = 0 + i[S]
        BY <3>1
      <3> QED  BY <2>4, <3>2
    <2>6. PICK x \in s : TRUE
      BY <2>5
    <2> DEFINE t == s \ {x}
    <2>7. t \in SUBSET s /\ t # s /\ t \in SUBSET S /\ S \ t \in SUBSET S /\ x \in S \ t
          /\ (S \ t) \ {x} = S \ s /\ S \ s \in SUBSET S /\ f[x] \in Nat
      BY <2>4
    <2>8. i[s] = f[x] + i[t]
      BY <1>1, <2>4, SumTakes
    <2> HIDE DEF t
    <2>9. i[S] = i[t] + i[S \ t]
      BY <2>2, <2>3, <2>7
    <2>10. i[S \ t] = f[x] + i[S \ s]
      <3>1. i[S \ t] = f[x] + i[(S \ t) \ {x}]
        BY <1>1, <2>7, SumTakes
      <3> QED  BY <2>7, <3>1, Zenon
    <2>11. i[t] \in Nat /\ i[S \ s] \in Nat
      BY <1>1, <2>7 DEF SumOf
    <2> QED  BY <2>4, <2>7, <2>8, <2>9, <2>10, <2>11
  <1>3. i[T] \in Nat /\ i[S \ T] \in Nat /\ S \ T \in SUBSET S
    BY <1>1 DEF SumOf
  <1>4. SumFunction([y \in T |-> f[y]]) = i[T]
    BY <1>1, SumPart
  <1>5. SumFunction([y \in S \ T |-> f[y]]) = i[S \ T]
    BY <1>1, <1>3, SumPart
  <1> QED  BY <1>1, <1>2, <1>3, <1>4, <1>5

(* LEMMA SumZero: nothing but zeros. *)
LEMMA SumZero ==
    ASSUME NEW S, IsFiniteSet(S)
    PROVE  SumFunction([x \in S |-> 0]) = 0
  <1> DEFINE f == [x \in S |-> 0]
  <1>1. f \in [S -> Nat]
    OBVIOUS
  <1>2. PICK i : SumOf(i, f, S) /\ SumFunction(f) = i[S]
    BY <1>1, SumFound
  <1> DEFINE z == [s \in SUBSET S |-> 0]
  <1>3. SumOf(z, f, S)
    BY DEF SumOf
  <1>4. S \subseteq S /\ \A x \in S : f[x] \in Nat /\ f[x] <= f[x]
    OBVIOUS
  <1>5. z[S] = 0 /\ i[S] \in Nat
    BY <1>2 DEF SumOf
  <1> HIDE DEF f, z
  <1>6. i[S] <= z[S]
    BY <1>2, <1>3, <1>4, SumsCompare
  <1>7. SumFunction(f) = 0
    BY <1>2, <1>5, <1>6
  <1> QED  BY <1>7 DEF f

-----------------------------------------------------------------------------
(* The responses *)

(* Nobody touches the counters of the rules.                                 *)
Untouched == sc.faults \intersect {"counters", "iptables"} = {}

(* The rule of port n has been set up, and its counter read by ipt_baseline.  *)
SetUp(n) == pc \in {"base", "poll", "drain", "rsp", "expire"} \/ (pc = "setup" /\ n \notin todo)
Based(n) == Reading \/ (pc = "base" /\ n \notin todo)

(* What the counter has more than at the baseline has been sent since, and is *)
(* all of it unless somebody touches it.                                      *)
CounterInv ==
    \A n \in Nics :
      /\ SetUp(n) /\ Untouched => rule[n] # NoRule
      /\ pc \in {"setup", "base"} => rsp[n] = 0 /\ ipt_last[n] = 0
      /\ Based(n) =>
           /\ base[n] <= sent[n] /\ rsp[n] <= sent[n] - base[n]
           /\ rule[n] # NoRule => rule[n] - ipt_rule[n] <= sent[n] - base[n]
           /\ Untouched => /\ rule[n] - ipt_rule[n] = sent[n] - base[n]
                           /\ ipt_last[n] # 0 => rsp[n] = ipt_last[n] - ipt_rule[n]

CounterTypes ==
    /\ rule \in [Nics -> Nat \union {NoRule}] /\ ipt_rule \in [Nics -> Nat]
    /\ ipt_last \in [Nics -> Nat] /\ rsp \in [Nics -> Nat]
    /\ sent \in [Nics -> Nat] /\ base \in [Nics -> Int]

(* LEMMA CounterStill: the steps that leave the counters alone. *)
LEMMA CounterStill ==
    ASSUME CounterTypes, CounterInv,
           UNCHANGED <<rule, ipt_rule, ipt_last, rsp, sent, base, sc>>,
           \/ pc' = pc /\ todo' = todo
           \/ Reading /\ Reading'
           \/ pc' = "down"
    PROVE  CounterTypes' /\ CounterInv'
  <1>1. CounterTypes'
    BY DEF CounterTypes
  <1>2. ASSUME NEW n \in Nics
        PROVE  /\ SetUp(n)' => SetUp(n)
               /\ Based(n)' => Based(n)
               /\ pc' \in {"setup", "base"} => pc \in {"setup", "base"}
    BY DEF SetUp, Based, Reading
  <1>3. Untouched' = Untouched
    BY DEF Untouched
  <1>4. CounterInv'
    BY <1>2, <1>3 DEF CounterInv
  <1> QED  BY <1>1, <1>4

(* LEMMA CounterRead: poll_responses reads a counter, or does not. *)
LEMMA CounterRead ==
    ASSUME CounterTypes, CounterInv, NEW n \in Nics, PollNic(n) \/ SkipNic(n)
    PROVE  CounterTypes' /\ CounterInv'
  <1>1. CASE SkipNic(n)
    BY <1>1, CounterStill DEF SkipNic, rspVars, Reading
  <1>2. CASE PollNic(n)
    <2>1. /\ pc = "rsp" /\ pc' = pc /\ rule[n] # NoRule
          /\ UNCHANGED <<rule, ipt_rule, sent, base, sc>>
          /\ ipt_last' = [ipt_last EXCEPT ![n] = rule[n]]
          /\ rsp' = IF rule[n] >= ipt_rule[n] THEN [rsp EXCEPT ![n] = rule[n] - ipt_rule[n]] ELSE rsp
      BY <1>2 DEF PollNic, envVars
    <2>2. rule[n] \in Nat /\ ipt_rule[n] \in Nat /\ rsp[n] \in Nat
      BY <2>1 DEF CounterTypes
    <2>3. CounterTypes'
      BY <2>1, <2>2 DEF CounterTypes
    <2>4. ASSUME NEW p \in Nics
          PROVE  /\ SetUp(p) /\ Based(p) /\ pc' \notin {"setup", "base"}
                 /\ sent[p] \in Nat /\ base[p] \in Int
      BY <2>1 DEF SetUp, Based, Reading, CounterTypes
    <2>5. Untouched' = Untouched
      BY <2>1 DEF Untouched
    <2>6. ASSUME NEW p \in Nics, p # n
          PROVE  rsp'[p] = rsp[p] /\ ipt_last'[p] = ipt_last[p]
      BY <2>1, <2>6 DEF CounterTypes
    <2>7. /\ ipt_last'[n] = rule[n]
          /\ rsp'[n] = IF rule[n] >= ipt_rule[n] THEN rule[n] - ipt_rule[n] ELSE rsp[n]
      BY <2>1 DEF CounterTypes
    <2>8. /\ base[n] <= sent[n] /\ rsp[n] <= sent[n] - base[n]
          /\ rule[n] - ipt_rule[n] <= sent[n] - base[n]
          /\ Untouched => rule[n] - ipt_rule[n] = sent[n] - base[n]
      BY <2>1, <2>4 DEF CounterInv
    <2>9. /\ rsp'[n] <= sent[n] - base[n]
          /\ Untouched => rsp'[n] = ipt_last'[n] - ipt_rule[n]
      BY <2>2, <2>4, <2>7, <2>8
    <2>10. CounterInv'
      BY <2>1, <2>4, <2>5, <2>6, <2>8, <2>9 DEF CounterInv
    <2> QED  BY <2>3, <2>10
  <1> QED  BY <1>1, <1>2

(* LEMMA CounterStart: the process starts. *)
LEMMA CounterStart ==
    ASSUME CounterTypes, CounterInv, Start
    PROVE  CounterTypes' /\ CounterInv'
  <1>1. /\ pc' = "setup" /\ todo' = Nics /\ UNCHANGED <<rule, sent, sc>> /\ base' = sent
        /\ rsp' = [n \in Nics |-> 0] /\ ipt_rule' = rsp' /\ ipt_last' = rsp'
    BY DEF Start, envVars
  <1>2. CounterTypes'
    BY <1>1 DEF CounterTypes
  <1>3. CounterInv'
    BY <1>1 DEF CounterInv, SetUp, Based, Reading
  <1> QED  BY <1>2, <1>3

(* LEMMA CounterSetup: ipt_setup sees to a rule. *)
LEMMA CounterSetup ==
    ASSUME CounterTypes, CounterInv, NEW n \in Nics, SetupNic(n), todo \subseteq Nics
    PROVE  CounterTypes' /\ CounterInv'
  <1>1. /\ pc = "setup" /\ UNCHANGED <<ipt_rule, ipt_last, rsp, sent, base, sc>>
        /\ \/ pc' = "setup" /\ todo' = todo \ {n}
           \/ pc' = "base" /\ todo = {n} /\ todo' = Nics
    BY DEF SetupNic, rspVars
  <1>2. \E c \in {rule[n], 0, NoRule} :
           rule' = [rule EXCEPT ![n] = c] /\ (Untouched => c # NoRule)
    <2>1. CASE rule' = [rule EXCEPT ![n] = IF @ = NoRule THEN 0 ELSE @]
      <3>1. CASE rule[n] = NoRule
        <4>1. rule' = [rule EXCEPT ![n] = 0] /\ 0 # NoRule
          BY <2>1, <3>1 DEF NoRule
        <4> QED  BY <4>1
      <3>2. CASE rule[n] # NoRule
        BY <2>1, <3>2
      <3> QED  BY <3>1, <3>2
    <2>2. CASE May("iptables") /\ rule' = [rule EXCEPT ![n] = IF @ = NoRule THEN NoRule ELSE 0]
      BY <2>2 DEF May, Untouched
    <2> QED  BY <2>1, <2>2 DEF SetupNic
  <1>3. PICK c \in {rule[n], 0, NoRule} :
           rule' = [rule EXCEPT ![n] = c] /\ (Untouched => c # NoRule)
    BY <1>2
  <1>4. /\ rule' \in [Nics -> Nat \union {NoRule}] /\ rule'[n] = c
        /\ \A p \in Nics : p # n => rule'[p] = rule[p]
    BY <1>3 DEF CounterTypes
  <1>5. CounterTypes'
    BY <1>1, <1>4 DEF CounterTypes
  <1>6. Untouched' = Untouched
    BY <1>1 DEF Untouched
  <1>7. ASSUME NEW p \in Nics
        PROVE  /\ ~Based(p)' /\ rsp[p] = 0 /\ ipt_last[p] = 0
               /\ SetUp(p)' => p = n \/ SetUp(p)
    BY <1>1 DEF SetUp, Based, Reading, CounterInv
  <1>8. CounterInv'
    BY <1>1, <1>3, <1>4, <1>6, <1>7 DEF CounterInv
  <1> QED  BY <1>5, <1>8

(* LEMMA CounterBaseline: ipt_baseline takes down where a counter is, or 0.   *)
LEMMA CounterBaseline ==
    ASSUME CounterTypes, CounterInv, NEW n \in Nics, BaselineNic(n), todo \subseteq Nics
    PROVE  CounterTypes' /\ CounterInv'
  <1>1. /\ pc = "base" /\ n \in todo /\ UNCHANGED <<ipt_last, rsp, sent, rule, sc>>
        /\ \/ pc' = "base" /\ todo' = todo \ {n}
           \/ pc' = "poll" /\ todo = {n}
        /\ base' = [base EXCEPT ![n] = IF ipt_rule'[n] = rule[n] \/ rule[n] = NoRule
                                       THEN sent[n] ELSE sent[n] - rule[n]]
    BY DEF BaselineNic
  <1>2. \E c \in Nat : /\ ipt_rule' = [ipt_rule EXCEPT ![n] = c]
                       /\ c = rule[n] \/ c = 0
                       /\ Untouched => c = rule[n]
    <2>1. rule[n] \in Nat \union {NoRule} /\ (Untouched => rule[n] # NoRule)
      BY <1>1 DEF CounterTypes, CounterInv, SetUp
    <2>2. CASE ipt_rule' = [ipt_rule EXCEPT ![n] = IF rule[n] = NoRule THEN 0 ELSE rule[n]]
      <3>1. CASE rule[n] = NoRule
        BY <2>1, <2>2, <3>1
      <3>2. CASE rule[n] # NoRule
        BY <2>1, <2>2, <3>2
      <3> QED  BY <3>1, <3>2
    <2>3. CASE May("iptables") /\ ipt_rule' = [ipt_rule EXCEPT ![n] = 0]
      BY <2>3 DEF May, Untouched
    <2> QED  BY <2>2, <2>3 DEF BaselineNic
  <1>3. PICK c \in Nat : /\ ipt_rule' = [ipt_rule EXCEPT ![n] = c]
                         /\ c = rule[n] \/ c = 0
                         /\ Untouched => c = rule[n]
    BY <1>2
  <1>4. /\ ipt_rule' \in [Nics -> Nat] /\ ipt_rule'[n] = c
        /\ \A p \in Nics : p # n => ipt_rule'[p] = ipt_rule[p]
    BY <1>3 DEF CounterTypes
  <1>5. rule[n] \in Nat \union {NoRule} /\ sent[n] \in Nat
    BY DEF CounterTypes
  <1>6. /\ base' \in [Nics -> Int]
        /\ base'[n] = IF c = rule[n] \/ rule[n] = NoRule THEN sent[n] ELSE sent[n] - rule[n]
        /\ \A p \in Nics : p # n => base'[p] = base[p]
    <2>1. (IF c = rule[n] \/ rule[n] = NoRule THEN sent[n] ELSE sent[n] - rule[n]) \in Int
      BY <1>5 DEF NoRule
    <2> QED  BY <1>1, <1>4, <2>1 DEF CounterTypes
  <1>7. CounterTypes'
    BY <1>1, <1>4, <1>6 DEF CounterTypes
  <1>8. Untouched' = Untouched
    BY <1>1 DEF Untouched
  <1>9. rsp[n] = 0 /\ ipt_last[n] = 0
    BY <1>1 DEF CounterInv
  <1>10. /\ base'[n] <= sent[n] /\ 0 <= sent[n] - base'[n]
         /\ rule[n] # NoRule => rule[n] - c <= sent[n] - base'[n]
         /\ Untouched => rule[n] - c = sent[n] - base'[n]
    <2>1. Untouched => rule[n] # NoRule
      BY <1>1 DEF CounterInv, SetUp
    <2> QED  BY <1>3, <1>5, <1>6, <2>1 DEF NoRule
  <1>11. ASSUME NEW p \in Nics
         PROVE  /\ SetUp(p)
                /\ Based(p)' => p = n \/ Based(p)
                /\ pc' \in {"setup", "base"} => rsp[p] = 0 /\ ipt_last[p] = 0
    BY <1>1 DEF SetUp, Based, Reading, CounterInv
  <1>12. CounterInv'
    BY <1>1, <1>4, <1>6, <1>8, <1>9, <1>10, <1>11 DEF CounterInv
  <1> QED  BY <1>7, <1>12

(* LEMMA CounterMoves: a response, or somebody's hand on the rules. *)
LEMMA CounterMoves ==
    ASSUME CounterTypes, CounterInv, NEW n \in Nics, Answer(n) \/ Counters(n)
    PROVE  CounterTypes' /\ CounterInv'
  <1>1. UNCHANGED <<pc, todo, ipt_rule, ipt_last, rsp, base, sc>>
    BY DEF Answer, Counters, loopVars, rspVars
  <1>2. Untouched' = Untouched /\ \A p \in Nics : (SetUp(p)' <=> SetUp(p)) /\ (Based(p)' <=> Based(p))
    BY <1>1 DEF Untouched, SetUp, Based, Reading
  <1>3. /\ rule[n] \in Nat \union {NoRule} /\ sent[n] \in Nat /\ base[n] \in Int
        /\ ipt_rule[n] \in Nat /\ rsp[n] \in Nat /\ ipt_last[n] \in Nat
    BY DEF CounterTypes
  <1>4. CASE Answer(n)
    <2>1. /\ sent' = [sent EXCEPT ![n] = @ + 1]
          /\ rule' = [rule EXCEPT ![n] = IF @ = NoRule THEN @ ELSE @ + 1]
      BY <1>4 DEF Answer
    <2>2. /\ sent' \in [Nics -> Nat] /\ sent'[n] = sent[n] + 1
          /\ rule' \in [Nics -> Nat \union {NoRule}]
          /\ rule'[n] = IF rule[n] = NoRule THEN rule[n] ELSE rule[n] + 1
          /\ \A p \in Nics : p # n => rule'[p] = rule[p] /\ sent'[p] = sent[p]
      BY <1>3, <2>1 DEF CounterTypes, NoRule
    <2>3. CounterTypes'
      BY <1>1, <2>2 DEF CounterTypes
    <2>4. rule'[n] = NoRule <=> rule[n] = NoRule
      BY <1>3, <2>2 DEF NoRule
    <2>5. Based(n) =>
            /\ base[n] <= sent'[n] /\ rsp[n] <= sent'[n] - base[n]
            /\ rule'[n] # NoRule => rule'[n] - ipt_rule[n] <= sent'[n] - base[n]
            /\ Untouched => rule'[n] - ipt_rule[n] = sent'[n] - base[n]
      <3> SUFFICES ASSUME Based(n)
                   PROVE  /\ base[n] <= sent'[n] /\ rsp[n] <= sent'[n] - base[n]
                          /\ rule'[n] # NoRule => rule'[n] - ipt_rule[n] <= sent'[n] - base[n]
                          /\ Untouched => rule'[n] - ipt_rule[n] = sent'[n] - base[n]
        OBVIOUS
      <3>1. /\ base[n] <= sent[n] /\ rsp[n] <= sent[n] - base[n]
            /\ rule[n] # NoRule => rule[n] - ipt_rule[n] <= sent[n] - base[n]
            /\ Untouched => rule[n] - ipt_rule[n] = sent[n] - base[n]
        BY DEF CounterInv
      <3>2. Untouched => rule[n] # NoRule
        <4>1. SetUp(n)
          BY DEF Based, SetUp, Reading
        <4> QED  BY <4>1 DEF CounterInv
      <3> QED  BY <1>3, <2>2, <3>1, <3>2
    <2>6. CounterInv'
      BY <1>1, <1>2, <2>2, <2>4, <2>5 DEF CounterInv
    <2> QED  BY <2>3, <2>6
  <1>5. CASE Counters(n)
    <2>1. /\ ~Untouched /\ sent' = sent
          /\ \E c \in {NoRule, 0} : rule' = [rule EXCEPT ![n] = c]
      BY <1>5 DEF Counters, May, Untouched
    <2>2. /\ rule' \in [Nics -> Nat \union {NoRule}] /\ rule'[n] \in {NoRule, 0}
          /\ \A p \in Nics : p # n => rule'[p] = rule[p]
      BY <2>1 DEF CounterTypes
    <2>3. CounterTypes'
      BY <1>1, <2>1, <2>2 DEF CounterTypes
    <2>4. Based(n) /\ rule'[n] # NoRule => rule'[n] - ipt_rule[n] <= sent[n] - base[n]
      <3>1. Based(n) => base[n] <= sent[n]
        BY DEF CounterInv
      <3> QED  BY <1>3, <2>2, <3>1
    <2>5. CounterInv'
      BY <1>1, <1>2, <2>1, <2>2, <2>4 DEF CounterInv
    <2> QED  BY <2>3, <2>5
  <1> QED  BY <1>4, <1>5

(* LEMMA CounterStep: every step. *)
LEMMA CounterStep ==
    ASSUME Other, CounterTypes, CounterInv, [Next]_vars
    PROVE  CounterTypes' /\ CounterInv'
  <1>0. todo \subseteq Nics
    BY DEF Other
  <1>1. ASSUME NEW n \in Nics, PollNic(n) \/ SkipNic(n) PROVE CounterTypes' /\ CounterInv'
    BY <1>1, CounterRead
  <1>2. CASE Start
    BY <1>2, CounterStart
  <1>3. ASSUME NEW n \in Nics, SetupNic(n) PROVE CounterTypes' /\ CounterInv'
    BY <1>0, <1>3, CounterSetup
  <1>4. ASSUME NEW n \in Nics, BaselineNic(n) PROVE CounterTypes' /\ CounterInv'
    BY <1>0, <1>4, CounterBaseline
  <1>5. ASSUME NEW n \in Nics, Answer(n) \/ Counters(n) PROVE CounterTypes' /\ CounterInv'
    BY <1>5, CounterMoves
  <1>6. ASSUME NEW n \in Nics, NEW ip \in Ips, NEW v \in {0, 1}, Capture(n, ip, v)
        PROVE  CounterTypes' /\ CounterInv'
    BY <1>6, CounterStill DEF Capture, Drain, rspVars, envVars, Reading
  <1>7. CASE LoopTop \/ Skip
    BY <1>7, CounterStill DEF LoopTop, Skip, Drain, rspVars, envVars, Reading
  <1>8. CASE WriteJson \/ WriteFails
    BY <1>8, CounterStill DEF WriteJson, WriteFails, rspVars, envVars, Reading
  <1>9. CASE LoopEnd
    BY <1>9, CounterStill DEF LoopEnd, rspVars, envVars, Reading
  <1>10. CASE Die
    BY <1>10, CounterStill DEF Die, rspVars
  <1>11. CASE Tick
    BY <1>11, CounterStill DEF Tick, rspVars, envVars
  <1>12. ASSUME NEW t \in First .. Last, SetClock(t) PROVE CounterTypes' /\ CounterInv'
    BY <1>12, CounterStill DEF SetClock, loopVars, rspVars
  <1>13. CASE UNCHANGED vars
    BY <1>13, CounterStill DEF vars, loopVars, rspVars, envVars
  <1> QED  BY <1>1, <1>2, <1>3, <1>4, <1>5, <1>6, <1>7, <1>8, <1>9, <1>10, <1>11, <1>12, <1>13
              DEF Next

(* LEMMA CounterInit: the counters when the machine starts. *)
LEMMA CounterInit == Init => CounterTypes /\ CounterInv
  <1> SUFFICES ASSUME Init PROVE CounterTypes /\ CounterInv
    OBVIOUS
  <1>1. sc.rule \in Nat \union {NoRule}
    BY NicAssumption DEF Init, Scenario
  <1>2. CounterTypes
    BY <1>1 DEF Init, CounterTypes
  <1>3. CounterInv
    BY DEF Init, CounterInv, SetUp, Based, Reading
  <1> QED  BY <1>2, <1>3

(* LEMMA TotalsHold: the total never exceeds what was sent since the          *)
(* baseline, and is exact up to what is still to be read when nobody touches  *)
(* the rules and no command fails.                                            *)
LEMMA TotalsHold ==
    ASSUME CounterTypes, CounterInv, Reading, NEW n \in Nics
    PROVE  TotalTrue(n)
  <1>1. Based(n) /\ SetUp(n)
    BY DEF Based, SetUp, Reading
  <1>2. /\ sent[n] \in Nat /\ base[n] \in Int /\ ipt_rule[n] \in Nat /\ rsp[n] \in Nat
        /\ ipt_last[n] \in Nat /\ rule[n] \in Nat \union {NoRule}
    BY DEF CounterTypes
  <1>3. /\ rsp[n] <= sent[n] - base[n]
        /\ Untouched => /\ rule[n] # NoRule
                        /\ rule[n] - ipt_rule[n] = sent[n] - base[n]
                        /\ ipt_last[n] # 0 => rsp[n] = ipt_last[n] - ipt_rule[n]
    BY <1>1 DEF CounterInv
  <1> QED  BY <1>2, <1>3 DEF TotalTrue, Untouched

-----------------------------------------------------------------------------
(* The window of responses *)

Window(n) == SumFunction(bucket[n]["rsp"])

(* What the window has, and what the next reading would add to it, has been   *)
(* sent since the baseline.                                                   *)
WindowInv ==
    \A n \in Nics :
      /\ pc \in {"setup", "base"} => Window(n) = 0
      /\ Based(n) =>
           /\ Window(n) <= sent[n] - base[n]
           /\ rule[n] # NoRule /\ ipt_last[n] # 0 =>
                Window(n) + (rule[n] - ipt_last[n]) <= sent[n] - base[n]

(* LEMMA RingGrows: counting in a ring adds no more than was counted. *)
LEMMA RingGrows ==
    ASSUME NEW size \in Nat \ {0}, NEW ring \in Ring(size), NEW newest, NEW t \in Nat, NEW by \in Nat
    PROVE  SumFunction(CountAt(ring, newest, t, size, by)) <= SumFunction(ring) + by
  <1> DEFINE S == 0 .. size - 1
             x == t % size
             a == Advance(ring, newest, t, size)
             g == [a EXCEPT ![x] = @ + by]
             R == S \ {x}
  <1>1. IsFiniteSet(S) /\ x \in S
    <2>1. 0 \in Int /\ size - 1 \in Int
      OBVIOUS
    <2>2. IsFiniteSet(0 .. size - 1)
      BY <2>1, FS_Interval
    <2>3. t % size \in 0 .. size - 1
      BY DivMod
    <2> QED  BY <2>2, <2>3
  <1>2. a \in [S -> Nat] /\ ring \in [S -> Nat]
    BY AdvanceType DEF Ring
  <1>3. \A i \in S : a[i] <= ring[i]
    BY <1>2 DEF Advance
  <1> HIDE DEF a, x, S
  <1>4. SumFunction(a) \in Nat /\ SumFunction(a) <= SumFunction(ring)
    BY <1>1, <1>2, <1>3, SumMonotone
  <1>5. SumFunction(ring) \in Nat
    BY <1>1, <1>2, SumNumber
  <1>6. g \in [S -> Nat] /\ g[x] = a[x] + by /\ a[x] \in Nat /\ \A y \in R : g[y] = a[y]
    BY <1>1, <1>2
  <1> HIDE DEF g
  <1>7. [y \in R |-> g[y]] = [y \in R |-> a[y]]
    <2> HIDE DEF R
    <2> QED  BY <1>6
  <1>8. /\ SumFunction(a) = a[x] + SumFunction([y \in R |-> a[y]])
        /\ SumFunction([y \in R |-> a[y]]) \in Nat
    BY <1>1, <1>2, SumWithout
  <1>9. SumFunction(g) = g[x] + SumFunction([y \in R |-> g[y]])
    BY <1>1, <1>6, SumWithout
  <1> DEFINE r == SumFunction([y \in R |-> a[y]])
  <1>10. SumFunction(g) = (a[x] + by) + r /\ SumFunction(a) = a[x] + r /\ r \in Nat
    BY <1>6, <1>7, <1>8, <1>9
  <1> HIDE DEF r
  <1>11. SumFunction(g) <= SumFunction(ring) + by
    BY <1>4, <1>5, <1>6, <1>10
  <1> QED  BY <1>11 DEF CountAt, g, a, x

(* LEMMA RingSum: a ring of minutes has a sum. *)
LEMMA RingSum ==
    ASSUME NEW f \in [0 .. Buckets - 1 -> Nat]
    PROVE  SumFunction(f) \in Nat
  <1>1. 0 \in Int /\ Buckets - 1 \in Int
    BY Sizes
  <1>2. IsFiniteSet(0 .. Buckets - 1)
    BY <1>1, FS_Interval
  <1> QED  BY <1>2, SumNumber

(* LEMMA WindowNumbers: the windows are numbers, and stay so. *)
LEMMA WindowNumbers ==
    ASSUME MinuteRings, MinuteRings', NEW n \in Nics
    PROVE  Window(n) \in Nat /\ Window(n)' \in Nat
  <1>1. bucket[n]["rsp"] \in [0 .. Buckets - 1 -> Nat]
    BY DEF MinuteRings, Kinds
  <1>2. bucket'[n]["rsp"] \in [0 .. Buckets - 1 -> Nat]
    BY DEF MinuteRings, Kinds
  <1> QED  BY <1>1, <1>2, RingSum DEF Window

(* LEMMA WindowCounts: what is counted in a minute enters one window. *)
LEMMA WindowCounts ==
    ASSUME MinuteRings, Other, NEW n \in Nics, NEW by \in [Kinds -> Nat],
           CountMinute(n, now \div Minute, by)
    PROVE  /\ Window(n)' <= Window(n) + by["rsp"]
           /\ \A p \in Nics : p # n => Window(p)' = Window(p)
  <1> DEFINE m == now \div Minute
  <1>1. m \in Nat /\ Buckets \in Nat \ {0}
    <2>1. now \in First .. Last
      BY DEF Other
    <2>2. /\ \A t \in First .. Last : t \div Minute \in (First \div Minute) .. LastMinute
          /\ First \div Minute \in Nat /\ LastMinute \in Nat /\ Buckets \in Nat \ {0}
      BY Sizes
    <2>3. m \in (First \div Minute) .. LastMinute
      BY <2>1, <2>2
    <2> QED  BY <2>2, <2>3
  <1>2. /\ bucket[n]["rsp"] \in Ring(Buckets) /\ by["rsp"] \in Nat
        /\ bucket \in [Nics -> [Kinds -> [0 .. Buckets - 1 -> Nat]]]
    BY DEF MinuteRings, Ring, Kinds
  <1>3. bucket' = [bucket EXCEPT ![n] = [k \in Kinds |->
                     CountAt(bucket[n][k], bucket_min[n], m, Buckets, by[k])]]
    BY DEF CountMinute
  <1>4. bucket'[n]["rsp"] = CountAt(bucket[n]["rsp"], bucket_min[n], m, Buckets, by["rsp"])
    BY <1>2, <1>3 DEF Kinds
  <1>5. \A p \in Nics : p # n => bucket'[p] = bucket[p]
    BY <1>2, <1>3
  <1> HIDE DEF m
  <1>6. SumFunction(bucket'[n]["rsp"]) <= SumFunction(bucket[n]["rsp"]) + by["rsp"]
    BY <1>1, <1>2, <1>4, RingGrows
  <1> QED  BY <1>5, <1>6 DEF Window

(* LEMMA WindowStill: the steps that leave window and counters alone. *)
LEMMA WindowStill ==
    ASSUME WindowInv, UNCHANGED <<bucket, rule, ipt_last, sent, base>>,
           \/ pc' = pc /\ todo' = todo
           \/ Reading /\ Reading'
           \/ pc' = "down"
    PROVE  WindowInv'
  <1>1. ASSUME NEW n \in Nics
        PROVE  /\ Based(n)' => Based(n)
               /\ pc' \in {"setup", "base"} => pc \in {"setup", "base"}
               /\ Window(n)' = Window(n)
    BY DEF Based, Reading, Window
  <1> QED  BY <1>1 DEF WindowInv

(* LEMMA WindowCapture: a packet may clear old minutes, and adds nothing.     *)
LEMMA WindowCapture ==
    ASSUME MinuteRings, MinuteRings', Other, CounterTypes, WindowInv,
           NEW n \in Nics, NEW ip \in Ips, NEW v \in {0, 1}, Capture(n, ip, v)
    PROVE  WindowInv'
  <1>1. /\ UNCHANGED <<todo, rule, ipt_last, sent, base>>
        /\ pc \in {"poll", "drain"} /\ pc' = "drain"
    BY DEF Capture, Drain, rspVars, envVars
  <1>2. CountMinute(n, now \div Minute, Packet(v)) /\ Packet(v) \in [Kinds -> Nat]
    BY CaptureCounts
  <1>3. Packet(v)["rsp"] = 0
    BY DEF Packet, Kinds
  <1>4. ASSUME NEW p \in Nics PROVE Window(p)' <= Window(p)
    <2>1. Window(p) \in Nat /\ Window(p)' \in Nat
      BY WindowNumbers
    <2>2. Window(n)' <= Window(n) + 0 /\ (p # n => Window(p)' = Window(p))
      BY <1>2, <1>3, WindowCounts
    <2> QED  BY <2>1, <2>2
  <1>5. ASSUME NEW p \in Nics
        PROVE  /\ Based(p)' => Based(p)
               /\ pc' \notin {"setup", "base"}
               /\ Window(p) \in Nat /\ Window(p)' \in Nat
               /\ sent[p] \in Nat /\ base[p] \in Int /\ ipt_last[p] \in Nat
               /\ rule[p] \in Nat \union {NoRule}
    BY <1>1, WindowNumbers DEF Based, Reading, CounterTypes
  <1>6. ASSUME NEW p \in Nics, Based(p)
        PROVE  /\ Window(p)' <= sent[p] - base[p]
               /\ rule[p] # NoRule /\ ipt_last[p] # 0 =>
                    Window(p)' + (rule[p] - ipt_last[p]) <= sent[p] - base[p]
    <2>1. /\ Window(p) <= sent[p] - base[p]
          /\ rule[p] # NoRule /\ ipt_last[p] # 0 =>
               Window(p) + (rule[p] - ipt_last[p]) <= sent[p] - base[p]
      BY <1>6 DEF WindowInv
    <2>2. \A w, u \in Nat : w <= u =>
            /\ u <= sent[p] - base[p] => w <= sent[p] - base[p]
            /\ rule[p] # NoRule /\ u + (rule[p] - ipt_last[p]) <= sent[p] - base[p] =>
                 w + (rule[p] - ipt_last[p]) <= sent[p] - base[p]
      BY <1>5
    <2> QED  BY <1>4, <1>5, <2>1, <2>2, Zenon
  <1> QED  BY <1>1, <1>5, <1>6 DEF WindowInv

(* LEMMA WindowPoll: a reading moves what was still to be read into the       *)
(* window.                                                                    *)
LEMMA WindowPoll ==
    ASSUME MinuteRings, MinuteRings', Other, CounterTypes, WindowInv, NEW n \in Nics, PollNic(n)
    PROVE  WindowInv'
  <1>1. /\ UNCHANGED <<pc, rule, sent, base>> /\ pc = "rsp" /\ rule[n] # NoRule
        /\ ipt_last' = [ipt_last EXCEPT ![n] = rule[n]]
    BY DEF PollNic, envVars
  <1>2. ASSUME NEW p \in Nics
        PROVE  /\ Based(p) /\ pc' \notin {"setup", "base"}
               /\ Window(p) \in Nat /\ Window(p)' \in Nat
               /\ sent[p] \in Nat /\ base[p] \in Int /\ ipt_last[p] \in Nat
               /\ rule[p] \in Nat \union {NoRule}
    BY <1>1, WindowNumbers DEF Based, Reading, CounterTypes
  <1>3. rule[n] \in Nat /\ Delta(n) \in Nat
    BY <1>1, <1>2 DEF Delta
  <1>4. /\ Window(n)' <= Window(n) + Delta(n)
        /\ \A p \in Nics : p # n => Window(p)' = Window(p)
    <2>1. CASE UNCHANGED ringVars
      <3>1. \A p \in Nics : Window(p)' = Window(p)
        BY <2>1 DEF ringVars, Window
      <3>2. \A w \in Nat : w <= w + Delta(n)
        BY <1>3
      <3> QED  BY <1>2, <3>1, <3>2
    <2>2. CASE CountMinute(n, now \div Minute, Responses(Delta(n)))
      <3>1. Responses(Delta(n)) \in [Kinds -> Nat] /\ Responses(Delta(n))["rsp"] = Delta(n)
        BY <1>3 DEF Responses, Kinds
      <3> QED  BY <2>2, <3>1, WindowCounts
    <2> QED  BY <2>1, <2>2, PollCounts
  <1>5. /\ Window(n) <= sent[n] - base[n]
        /\ ipt_last[n] # 0 => Window(n) + (rule[n] - ipt_last[n]) <= sent[n] - base[n]
    BY <1>1, <1>2 DEF WindowInv
  <1>6. Window(n) + Delta(n) <= sent[n] - base[n]
    BY <1>2, <1>3, <1>5 DEF Delta
  <1>7. Window(n)' <= sent[n] - base[n]
    <2>1. \A w, u \in Nat : w <= u + Delta(n) /\ u + Delta(n) <= sent[n] - base[n] =>
                              w <= sent[n] - base[n]
      BY <1>2, <1>3
    <2> QED  BY <1>2, <1>4, <1>6, <2>1, Zenon
  <1>8. /\ ipt_last'[n] = rule[n] /\ \A p \in Nics : p # n => ipt_last'[p] = ipt_last[p]
        /\ \A w \in Nat : w + (rule[n] - rule[n]) = w
    BY <1>1, <1>3 DEF CounterTypes
  <1>9. ASSUME NEW p \in Nics
        PROVE  /\ Window(p)' <= sent[p] - base[p]
               /\ rule[p] # NoRule /\ ipt_last'[p] # 0 =>
                    Window(p)' + (rule[p] - ipt_last'[p]) <= sent[p] - base[p]
    <2>1. CASE p = n
      BY <1>2, <1>7, <1>8, <2>1, Zenon
    <2>2. CASE p # n
      BY <1>2, <1>4, <1>8, <2>2 DEF WindowInv
    <2> QED  BY <2>1, <2>2
  <1> QED  BY <1>1, <1>2, <1>9 DEF WindowInv

(* LEMMA WindowStart: a new process has an empty window. *)
LEMMA WindowStart == Start => WindowInv'
  <1> SUFFICES ASSUME Start PROVE WindowInv'
    OBVIOUS
  <1>1. /\ pc' = "setup" /\ todo' = Nics
        /\ bucket' = [n \in Nics |-> [k \in Kinds |-> NoRing(Buckets)]]
    BY DEF Start
  <1>2. SumFunction(NoRing(Buckets)) = 0
    <2>1. 0 \in Int /\ Buckets - 1 \in Int
      BY Sizes
    <2>2. IsFiniteSet(0 .. Buckets - 1)
      BY <2>1, FS_Interval
    <2> QED  BY <2>2, SumZero DEF NoRing
  <1>3. ASSUME NEW n \in Nics PROVE Window(n)' = 0 /\ ~Based(n)'
    <2>1. bucket'[n]["rsp"] = NoRing(Buckets)
      BY <1>1 DEF Kinds
    <2> QED  BY <1>1, <1>2, <2>1 DEF Window, Based, Reading
  <1> QED  BY <1>3 DEF WindowInv

(* LEMMA WindowBefore: the steps before the counters are read. *)
LEMMA WindowBefore ==
    ASSUME CounterTypes, CounterInv, CounterTypes', CounterInv', WindowInv, todo \subseteq Nics,
           NEW n \in Nics, SetupNic(n) \/ BaselineNic(n)
    PROVE  WindowInv'
  <1>1. /\ pc \in {"setup", "base"} /\ UNCHANGED <<bucket, ipt_last>>
    BY DEF SetupNic, BaselineNic, ringVars, rspVars
  <1>2. ASSUME NEW p \in Nics
        PROVE  /\ Window(p)' = 0 /\ ipt_last'[p] = 0
               /\ Based(p)' => base'[p] <= sent'[p]
               /\ sent'[p] \in Nat /\ base'[p] \in Int
    BY <1>1 DEF Window, WindowInv, CounterInv, CounterTypes
  <1>3. ASSUME NEW p \in Nics, Based(p)' PROVE 0 <= sent'[p] - base'[p]
    BY <1>2, <1>3
  <1> QED  BY <1>2, <1>3 DEF WindowInv

(* LEMMA WindowMoves: a response, or somebody's hand on the rules. *)
LEMMA WindowMoves ==
    ASSUME MinuteRings, MinuteRings', CounterTypes, CounterTypes', WindowInv,
           NEW n \in Nics, Answer(n) \/ Counters(n)
    PROVE  WindowInv'
  <1>1. UNCHANGED <<pc, todo, bucket, ipt_last, base>>
    BY DEF Answer, Counters, loopVars, ringVars, rspVars
  <1>2. ASSUME NEW p \in Nics
        PROVE  /\ Window(p)' = Window(p) /\ Window(p) \in Nat /\ (Based(p)' <=> Based(p))
               /\ sent[p] \in Nat /\ sent'[p] \in Nat /\ base[p] \in Int /\ ipt_last[p] \in Nat
               /\ rule[p] \in Nat \union {NoRule} /\ rule'[p] \in Nat \union {NoRule}
    BY <1>1, WindowNumbers DEF Window, Based, Reading, CounterTypes
  <1>3. ASSUME NEW p \in Nics
        PROVE  \/ /\ sent'[p] = sent[p] + 1
                  /\ rule'[p] # NoRule => rule[p] # NoRule /\ rule'[p] = rule[p] + 1
               \/ sent'[p] = sent[p] /\ rule'[p] = rule[p]
               \/ sent'[p] = sent[p] /\ rule'[p] \in {NoRule, 0}
    <2>1. CASE Answer(n)
      <3>1. /\ sent' = [sent EXCEPT ![n] = @ + 1]
            /\ rule' = [rule EXCEPT ![n] = IF @ = NoRule THEN @ ELSE @ + 1]
        BY <2>1 DEF Answer
      <3> QED  BY <3>1 DEF CounterTypes
    <2>2. CASE Counters(n)
      BY <2>2 DEF Counters, CounterTypes
    <2> QED  BY <2>1, <2>2
  <1>4. ASSUME NEW p \in Nics, Based(p)
        PROVE  /\ Window(p) <= sent'[p] - base[p]
               /\ rule'[p] # NoRule /\ ipt_last[p] # 0 =>
                    Window(p) + (rule'[p] - ipt_last[p]) <= sent'[p] - base[p]
    <2>1. /\ Window(p) <= sent[p] - base[p]
          /\ rule[p] # NoRule /\ ipt_last[p] # 0 =>
               Window(p) + (rule[p] - ipt_last[p]) <= sent[p] - base[p]
      BY <1>4 DEF WindowInv
    <2> QED  BY <1>2, <1>3, <2>1
  <1> QED  BY <1>1, <1>2, <1>4 DEF WindowInv

(* LEMMA WindowStep: every step. *)
LEMMA WindowStep ==
    ASSUME RingInv, RingInv', CounterTypes, CounterInv, CounterTypes', CounterInv', WindowInv,
           [Next]_vars
    PROVE  WindowInv'
  <1>0. MinuteRings /\ MinuteRings' /\ Other /\ todo \subseteq Nics
    BY Parts, PartsNext DEF Other
  <1>1. ASSUME NEW n \in Nics, PollNic(n) PROVE WindowInv'
    BY <1>0, <1>1, WindowPoll
  <1>2. ASSUME NEW n \in Nics, SkipNic(n) PROVE WindowInv'
    BY <1>2, WindowStill DEF SkipNic, ringVars, rspVars, Reading
  <1>3. CASE Start
    BY <1>3, WindowStart
  <1>4. ASSUME NEW n \in Nics, SetupNic(n) \/ BaselineNic(n) PROVE WindowInv'
    BY <1>0, <1>4, WindowBefore
  <1>5. ASSUME NEW n \in Nics, Answer(n) \/ Counters(n) PROVE WindowInv'
    BY <1>0, <1>5, WindowMoves
  <1>6. ASSUME NEW n \in Nics, NEW ip \in Ips, NEW v \in {0, 1}, Capture(n, ip, v)
        PROVE  WindowInv'
    BY <1>0, <1>6, WindowCapture
  <1>7. CASE LoopTop \/ Skip
    BY <1>7, WindowStill DEF LoopTop, Skip, Drain, ringVars, rspVars, envVars, Reading
  <1>8. CASE WriteJson \/ WriteFails
    BY <1>8, WindowStill DEF WriteJson, WriteFails, ringVars, rspVars, envVars, Reading
  <1>9. CASE LoopEnd
    BY <1>9, WindowStill DEF LoopEnd, ringVars, rspVars, envVars, Reading
  <1>10. CASE Die
    BY <1>10, WindowStill DEF Die, ringVars, rspVars
  <1>11. CASE Tick
    BY <1>11, WindowStill DEF Tick, ringVars, rspVars, envVars
  <1>12. ASSUME NEW t \in First .. Last, SetClock(t) PROVE WindowInv'
    BY <1>12, WindowStill DEF SetClock, loopVars, ringVars, rspVars
  <1>13. CASE UNCHANGED vars
    BY <1>13, WindowStill DEF vars, loopVars, ringVars, rspVars, envVars
  <1> QED  BY <1>1, <1>2, <1>3, <1>4, <1>5, <1>6, <1>7, <1>8, <1>9, <1>10, <1>11, <1>12, <1>13
              DEF Next

(* THEOREM ResponsesNeverInvented: neither the total nor the window of        *)
(* responses of a port exceeds what was sent since its baseline, whatever     *)
(* happens to the rules, the clock and the process and whichever command of   *)
(* iptables fails; and when nobody touches the rules the total is exact up to *)
(* what is still to be read (ipt_baseline, poll_responses, bucket_advance).   *)
THEOREM ResponsesNeverInvented == Spec => []ResponsesTrue
  <1>1. Init => WindowInv
    BY DEF Init, WindowInv, Based, Reading
  <1>2. /\ RingInv /\ RingInv' /\ CounterTypes /\ CounterInv /\ CounterTypes' /\ CounterInv'
        /\ WindowInv /\ [Next]_vars
        => WindowInv'
    BY WindowStep
  <1>3. RingInv /\ CounterTypes /\ CounterInv /\ [Next]_vars => CounterTypes' /\ CounterInv'
    BY Parts, CounterStep
  <1>4. CounterTypes /\ CounterInv /\ WindowInv => ResponsesTrue
    <2> SUFFICES ASSUME CounterTypes, CounterInv, WindowInv, Reading, NEW n \in Nics
                 PROVE  TotalTrue(n) /\ Window(n) <= sent[n] - base[n]
      BY DEF ResponsesTrue, Window
    <2>1. Based(n)
      BY DEF Based
    <2> QED  BY <2>1, TotalsHold DEF WindowInv
  <1> QED  BY <1>1, <1>2, <1>3, <1>4, CounterInit, RingInvariant, PTL DEF Spec

-----------------------------------------------------------------------------
(* The clients *)

KnownClient == [used : {TRUE}, client : Client, req : Nat, valid : Nat, last : Nat]

ClientInv ==
    /\ {peak, loopNow} \subseteq Nat /\ now <= peak /\ loopNow <= peak
    /\ clients \in [0 .. Slots - 1 -> {Free} \union KnownClient]
    /\ seen \in [Client -> Nat]
    /\ \A c \in Client : ClientKept(c)

(* LEMMA GetsOwnSlot: client_get finds a slot that is free or the client's.   *)
LEMMA GetsOwnSlot ==
    ASSUME NEW c \in Client, Found(c) # {}
    PROVE  client_get(c) \in 0 .. Slots - 1 /\ Takes(c, client_get(c))
  <1>1. Slots \in Nat \ {0} /\ Hash[c] \in 0 .. Slots - 1
    BY NicAssumption DEF Client
  <1>2. Found(c) \in SUBSET Nat
    BY <1>1 DEF Found
  <1>3. \E i \in Found(c) : \A j \in Found(c) : i <= j
    BY <1>2, Smallest
  <1> DEFINE i == CHOOSE i \in Found(c) : \A j \in Found(c) : i <= j
  <1>4. i \in Found(c)
    BY <1>3
  <1>5. client_get(c) = Way(c)[i]
    BY DEF client_get
  <1> HIDE DEF i
  <1>6. i \in 0 .. Slots - 1 /\ Takes(c, Way(c)[i])
    BY <1>4 DEF Found
  <1>7. (Hash[c] + i) % Slots \in 0 .. Slots - 1
    <2>1. Hash[c] + i \in Nat
      BY <1>1, <1>6
    <2> QED  BY <1>1, <2>1, DivMod
  <1>8. Way(c)[i] = (Hash[c] + i) % Slots
    BY <1>6 DEF Way
  <1> QED  BY <1>5, <1>6, <1>7, <1>8


(* LEMMA EntriesHold: what makes a slot an entry of a client. *)
LEMMA EntriesHold ==
    ASSUME NEW c, NEW s
    PROVE  s \in EntriesOf(c) <=>
             /\ s \in 0 .. Slots - 1 /\ clients[s].used
             /\ clients[s].client = c
  BY DEF EntriesOf

(* LEMMA ClientsStill: the steps that leave the table alone. *)
LEMMA ClientsStill ==
    ASSUME ClientInv, UNCHANGED <<clients, seen, refused>>,
           peak' \in Nat, peak <= peak', now' <= peak', now \in Nat,
           loopNow' \in {0, loopNow, now}
    PROVE  ClientInv'
  <1>1. peak \in Nat /\ loopNow \in Nat /\ now <= peak /\ loopNow <= peak
    BY DEF ClientInv
  <1>2. loopNow' \in Nat /\ loopNow' <= peak'
    BY <1>1
  <1>3. ASSUME NEW c \in Client PROVE ClientKept(c)'
    <2>1. ClientKept(c) /\ seen[c] \in Nat
      BY DEF ClientInv
    <2>2. peak' - seen[c] <= Ttl => peak - seen[c] <= Ttl
      <3>1. Ttl \in Nat
        BY NicAssumption
      <3> QED  BY <1>1, <2>1, <3>1
    <2> QED  BY <2>1, <2>2 DEF ClientKept, EntriesOf
  <1> QED  BY <1>2, <1>3 DEF ClientInv

(* LEMMA CaptureKeeps: a packet is entered, and displaces nobody. *)
LEMMA CaptureKeeps ==
    ASSUME Other, ClientInv, NEW n \in Nics, NEW ip \in Ips, NEW v \in {0, 1}, Capture(n, ip, v)
    PROVE  ClientInv'
  <1> DEFINE c == <<n, ip>>
             s0 == client_get(c)
  <1>1. c \in Client /\ CountClient(c, v) /\ UNCHANGED <<now, peak, loopNow>>
    BY DEF Client, Capture, Drain, clockVars
  <1> HIDE DEF c
  <1>2. /\ peak \in Nat /\ loopNow \in Nat /\ now <= peak /\ loopNow <= peak /\ now \in Nat
        /\ clients \in [0 .. Slots - 1 -> {Free} \union KnownClient] /\ seen \in [Client -> Nat]
        /\ \A d \in Client : ClientKept(d)
    <2>1. now \in Nat
      BY Sizes DEF Other
    <2> QED  BY <2>1 DEF ClientInv
  <1>3. CASE Found(c) = {}
    <2>1. refused' = refused \union {c} /\ UNCHANGED <<clients, seen>>
      BY <1>1, <1>3 DEF CountClient
    <2>2. ASSUME NEW d \in Client PROVE ClientKept(d)'
      BY <1>1, <1>2, <2>1 DEF ClientKept, EntriesOf
    <2> QED  BY <1>1, <1>2, <2>1, <2>2 DEF ClientInv
  <1>4. CASE Found(c) # {}
    <2>1. s0 \in 0 .. Slots - 1 /\ Takes(c, s0)
      BY <1>1, <1>4, GetsOwnSlot
    <2>2. /\ clients' = [clients EXCEPT ![s0] = Entered(c, s0, v)]
          /\ refused' = refused \ {c} /\ seen' = [seen EXCEPT ![c] = now]
      BY <1>1, <1>4 DEF CountClient
    <2> HIDE DEF s0
    <2>3. /\ Entered(c, s0, v) \in KnownClient /\ Entered(c, s0, v).used = TRUE
          /\ Entered(c, s0, v).client = c /\ Entered(c, s0, v).last = now
      <3>1. clients[s0] \in {Free} \union KnownClient
        BY <1>2, <2>1
      <3>2. \E r, w \in Nat : Entered(c, s0, v) = Entry(c, r, w, now)
        <4>1. CASE clients[s0] = Free
          <5>1. Entered(c, s0, v) = Entry(c, 1, v, now)
            BY <4>1 DEF Entered, Free
          <5> QED  BY <5>1
        <4>2. CASE clients[s0] \in KnownClient
          <5>1. /\ Entered(c, s0, v) = Entry(c, clients[s0].req + 1, clients[s0].valid + v, now)
                /\ clients[s0].req \in Nat /\ clients[s0].valid \in Nat
            BY <4>2 DEF Entered, KnownClient
          <5>2. clients[s0].req + 1 \in Nat /\ clients[s0].valid + v \in Nat
            BY <5>1
          <5> QED  BY <5>1, <5>2
        <4> QED  BY <3>1, <4>1, <4>2
      <3>3. PICK r \in Nat, w \in Nat : Entered(c, s0, v) = Entry(c, r, w, now)
        BY <3>2
      <3> QED  BY <1>1, <1>2, <3>3 DEF Entry, KnownClient
    <2>4. /\ clients' \in [0 .. Slots - 1 -> {Free} \union KnownClient]
          /\ clients'[s0] = Entered(c, s0, v)
          /\ \A s \in 0 .. Slots - 1 : s # s0 => clients'[s] = clients[s]
      BY <1>2, <2>1, <2>2, <2>3
    <2>5. seen' \in [Client -> Nat] /\ seen'[c] = now /\ \A d \in Client : d # c => seen'[d] = seen[d]
      BY <1>1, <1>2, <2>2
    <2>6. ClientKept(c)'
      <3>1. s0 \in EntriesOf(c)'
        BY <2>1, <2>3, <2>4 DEF EntriesOf
      <3>2. clients'[s0].last = seen'[c]
        BY <2>3, <2>4, <2>5
      <3> QED  BY <3>1, <3>2 DEF ClientKept
    <2>7. ASSUME NEW d \in Client, d # c PROVE ClientKept(d)'
      <3> SUFFICES ASSUME seen'[d] # 0, d \notin refused', peak' - seen'[d] <= Ttl
                   PROVE  \E s \in EntriesOf(d)' : clients'[s].last = seen'[d]
        BY DEF ClientKept
      <3>1. seen[d] # 0 /\ d \notin refused /\ peak - seen[d] <= Ttl /\ seen'[d] = seen[d]
        BY <1>1, <2>2, <2>5, <2>7
      <3>2. PICK s \in EntriesOf(d) : clients[s].last = seen[d]
        BY <1>2, <3>1 DEF ClientKept
      <3>3. s \in 0 .. Slots - 1 /\ clients[s].used /\ clients[s].client = d
        BY EntriesHold
      <3>4. s # s0
        BY <2>1, <2>7, <3>3 DEF Takes
      <3>5. clients'[s] = clients[s]
        BY <2>4, <3>3, <3>4
      <3>6. s \in EntriesOf(d)'
        BY <3>3, <3>5 DEF EntriesOf
      <3> QED  BY <3>1, <3>2, <3>5, <3>6
    <2> QED  BY <1>1, <1>2, <2>4, <2>5, <2>6, <2>7 DEF ClientInv
  <1> QED  BY <1>3, <1>4

(* LEMMA ExpiryKeeps: clients_expire removes nobody heard of within Ttl. *)
LEMMA ExpiryKeeps ==
    ASSUME ClientInv, clients_expire(loopNow), UNCHANGED <<now, peak, loopNow, seen, refused>>
    PROVE  ClientInv'
  <1>1. /\ peak \in Nat /\ loopNow \in Nat /\ loopNow <= peak /\ Ttl \in Nat
        /\ clients \in [0 .. Slots - 1 -> {Free} \union KnownClient] /\ seen \in [Client -> Nat]
    BY NicAssumption DEF ClientInv
  <1>2. clients' = [s \in 0 .. Slots - 1 |-> IF Expired(s, loopNow) THEN Free ELSE clients[s]]
    BY DEF clients_expire
  <1>3. clients' \in [0 .. Slots - 1 -> {Free} \union KnownClient]
    BY <1>1, <1>2
  <1>4. ASSUME NEW c \in Client PROVE ClientKept(c)'
    <2> SUFFICES ASSUME seen[c] # 0, c \notin refused, peak - seen[c] <= Ttl
                 PROVE  \E s \in EntriesOf(c)' : clients'[s].last = seen[c]
      BY DEF ClientKept
    <2>1. PICK s \in EntriesOf(c) : clients[s].last = seen[c]
      BY DEF ClientInv, ClientKept
    <2>2. s \in 0 .. Slots - 1 /\ clients[s].used /\ clients[s].client = c
      BY EntriesHold
    <2>3. ~Expired(s, loopNow)
      <3>1. seen[c] \in Nat
        BY <1>1
      <3>2. ~(loopNow - seen[c] > Ttl)
        BY <1>1, <3>1
      <3> QED  BY <2>1, <2>2, <3>2 DEF Expired
    <2>4. clients'[s] = clients[s]
      BY <1>2, <2>2, <2>3
    <2>5. s \in EntriesOf(c)'
      BY <2>2, <2>4 DEF EntriesOf
    <2> QED  BY <2>1, <2>4, <2>5
  <1> QED  BY <1>1, <1>3, <1>4 DEF ClientInv

(* LEMMA ClientsStep: every step. *)
LEMMA ClientsStep ==
    ASSUME Other, ClientInv, [Next]_vars
    PROVE  ClientInv'
  <1>0. peak \in Nat /\ now \in Nat /\ now <= peak /\ First \in Nat /\ Last \in Nat
    BY Sizes DEF ClientInv, Other
  <1>1. ASSUME NEW n \in Nics, NEW ip \in Ips, NEW v \in {0, 1}, Capture(n, ip, v)
        PROVE  ClientInv'
    BY <1>1, CaptureKeeps
  <1>2. CASE LoopEnd
    <2>1. UNCHANGED <<now, peak, loopNow, seen, refused>>
      BY <1>2 DEF LoopEnd, clockVars
    <2>2. CASE clients_expire(loopNow)
      BY <2>1, <2>2, ExpiryKeeps
    <2>3. CASE UNCHANGED clients
      BY <1>0, <2>1, <2>3, ClientsStill
    <2> QED  BY <1>2, <2>2, <2>3 DEF LoopEnd
  <1>3. CASE Start
    <2>1. /\ clients' = [s \in 0 .. Slots - 1 |-> Free] /\ loopNow' = 0
          /\ seen' = [c \in Client |-> 0] /\ UNCHANGED <<now, peak>>
      BY <1>3 DEF Start, clockVars
    <2>2. ASSUME NEW c \in Client PROVE ClientKept(c)'
      BY <2>1 DEF ClientKept
    <2> QED  BY <1>0, <2>1, <2>2 DEF ClientInv
  <1>4. CASE LoopTop
    <2>1. UNCHANGED <<now, peak, clients, seen, refused>> /\ loopNow' = now
      BY <1>4 DEF LoopTop, clockVars, reqVars
    <2> QED  BY <1>0, <2>1, ClientsStill
  <1>5. CASE Tick \/ \E t \in First .. Last : SetClock(t)
    <2>1. UNCHANGED <<clients, seen, refused, loopNow>>
      BY <1>5 DEF Tick, SetClock, loopVars, reqVars
    <2>2. now' \in Nat /\ peak' = IF now' > peak THEN now' ELSE peak
      BY <1>0, <1>5 DEF Tick, SetClock
    <2>3. peak' \in Nat /\ peak <= peak' /\ now' <= peak'
      BY <1>0, <2>2
    <2> QED  BY <1>0, <2>1, <2>3, ClientsStill
  <1> DEFINE Still == UNCHANGED <<now, peak, loopNow, clients, seen, refused>>
  <1>6. ASSUME NEW n \in Nics, PollNic(n) \/ SkipNic(n) PROVE Still
    BY <1>6 DEF PollNic, SkipNic, clockVars, reqVars
  <1>7. CASE WriteJson \/ WriteFails \/ Skip
    <2>1. Still
      BY <1>7 DEF WriteJson, WriteFails, Skip, Drain, clockVars, reqVars
    <2> QED  BY <1>0, <2>1, ClientsStill
  <1>8. ASSUME NEW n \in Nics, SetupNic(n) \/ BaselineNic(n) PROVE Still
    BY <1>8 DEF SetupNic, BaselineNic, clockVars, reqVars
  <1>9. ASSUME NEW n \in Nics, Answer(n) \/ Counters(n) PROVE Still
    BY <1>9 DEF Answer, Counters, clockVars, loopVars, reqVars
  <1>10. CASE Die \/ UNCHANGED vars
    <2>1. Still
      BY <1>10 DEF Die, vars, clockVars, loopVars, reqVars
    <2> QED  BY <1>0, <2>1, ClientsStill
  <1>11. Still => ClientInv'
    BY <1>0, ClientsStill
  <1> HIDE DEF Still
  <1> QED  BY <1>1, <1>2, <1>3, <1>4, <1>5, <1>6, <1>7, <1>8, <1>9, <1>10, <1>11 DEF Next

(* The requests that the entries of client c in a table hold. *)
Table == [0 .. Slots - 1 -> {Free} \union KnownClient]
OfClient(t, c) == {s \in 0 .. Slots - 1 : IF t[s].used THEN t[s].client = c ELSE FALSE}
Held(t, c) == SumFunction([s \in OfClient(t, c) |-> t[s].req])

CountInv ==
    /\ gone \in [Client -> Nat] /\ counted \in [Client -> Nat]
    /\ \A c \in Client : Held(clients, c) + gone[c] = counted[c]

(* LEMMA EntryNumbers: what is added up are finitely many numbers. *)
LEMMA EntryNumbers ==
    ASSUME NEW t \in Table, NEW c
    PROVE  /\ IsFiniteSet(OfClient(t, c))
           /\ [s \in OfClient(t, c) |-> t[s].req] \in [OfClient(t, c) -> Nat]
           /\ Held(t, c) \in Nat
  <1>1. IsFiniteSet(0 .. Slots - 1)
    <2>1. 0 \in Int /\ Slots - 1 \in Int
      BY NicAssumption
    <2> QED  BY <2>1, FS_Interval
  <1>2. OfClient(t, c) \in SUBSET (0 .. Slots - 1)
    BY DEF OfClient
  <1>3. IsFiniteSet(OfClient(t, c))
    BY <1>1, <1>2, FS_Subset
  <1>4. ASSUME NEW s \in OfClient(t, c) PROVE t[s].req \in Nat
    <2>1. t[s] \in {Free} \union KnownClient /\ t[s].used
      BY DEF OfClient, Table
    <2>2. t[s] \in KnownClient
      BY <2>1 DEF Free
    <2> QED  BY <2>2 DEF KnownClient
  <1>5. [s \in OfClient(t, c) |-> t[s].req] \in [OfClient(t, c) -> Nat]
    BY <1>4
  <1> QED  BY <1>3, <1>5, SumNumber DEF Held

(* LEMMA HeldElsewhere: what happens to the slots of others does not matter. *)
LEMMA HeldElsewhere ==
    ASSUME NEW t, NEW u, NEW c, OfClient(u, c) = OfClient(t, c),
           \A s \in OfClient(t, c) : u[s] = t[s]
    PROVE  Held(u, c) = Held(t, c)
  <1>1. [s \in OfClient(u, c) |-> u[s].req] = [s \in OfClient(t, c) |-> t[s].req]
    OBVIOUS
  <1> QED  BY <1>1 DEF Held

(* LEMMA HeldOneMore: a request entered in a slot that is free or the         *)
(* client's is one more of this client and of no other.                       *)
LEMMA HeldOneMore ==
    ASSUME NEW t \in Table, NEW u \in Table, NEW c, NEW s \in 0 .. Slots - 1,
           u[s].used, u[s].client = c,
           \A r \in 0 .. Slots - 1 : r # s => u[r] = t[r],
           IF t[s].used THEN t[s].client = c /\ u[s].req = t[s].req + 1 ELSE u[s].req = 1
    PROVE  /\ Held(u, c) = Held(t, c) + 1
           /\ \A d : d # c => Held(u, d) = Held(t, d)
  <1>1. ASSUME NEW d, d # c PROVE Held(u, d) = Held(t, d)
    <2>1. s \notin OfClient(t, d) /\ s \notin OfClient(u, d)
      BY <1>1 DEF OfClient
    <2>2. \A r \in 0 .. Slots - 1 : r # s => (r \in OfClient(u, d) <=> r \in OfClient(t, d))
      BY DEF OfClient
    <2>3. OfClient(u, d) \subseteq 0 .. Slots - 1 /\ OfClient(t, d) \subseteq 0 .. Slots - 1
      BY DEF OfClient
    <2>4. OfClient(u, d) = OfClient(t, d)
      BY <2>1, <2>2, <2>3
    <2>5. \A r \in OfClient(t, d) : u[r] = t[r]
      BY <2>1, <2>3
    <2> QED  BY <2>4, <2>5, HeldElsewhere
  <1> DEFINE A == OfClient(t, c)
             B == OfClient(u, c)
             f == [r \in A |-> t[r].req]
             g == [r \in B |-> u[r].req]
  <1>2. s \in B /\ B \ {s} = A \ {s}
    BY DEF OfClient
  <1>3. IsFiniteSet(A) /\ f \in [A -> Nat] /\ Held(t, c) = SumFunction(f)
    BY EntryNumbers DEF Held
  <1>4. IsFiniteSet(B) /\ g \in [B -> Nat] /\ Held(u, c) = SumFunction(g)
    BY EntryNumbers DEF Held
  <1>5. [r \in A \ {s} |-> f[r]] = [r \in B \ {s} |-> g[r]]
    <2>1. \A r \in A \ {s} : f[r] = t[r].req
      OBVIOUS
    <2>2. \A r \in B \ {s} : g[r] = u[r].req
      OBVIOUS
    <2>3. \A r \in A \ {s} : u[r] = t[r]
      BY DEF OfClient
    <2> QED  BY <1>2, <2>1, <2>2, <2>3
  <1>6. g[s] = u[s].req
    BY <1>2
  <1>7. s \in A => f[s] = t[s].req
    OBVIOUS
  <1>8. s \in A <=> t[s].used
    BY DEF OfClient
  <1>9. Held(t, c) \in Nat
    BY EntryNumbers
  <1> HIDE DEF A, B, f, g
  <1> DEFINE rest == SumFunction([r \in B \ {s} |-> g[r]])
  <1>10. SumFunction(g) = g[s] + rest /\ rest \in Nat
    BY <1>2, <1>4, SumWithout
  <1>11. Held(u, c) = Held(t, c) + 1
    <2>1. CASE s \in A
      <3>1. SumFunction(f) = f[s] + SumFunction([r \in A \ {s} |-> f[r]])
        <4>1. IsFiniteSet(A) /\ f \in [A -> Nat]
          BY <1>3
        <4> QED  BY <2>1, <4>1, SumWithout, Zenon
      <3>2. SumFunction(f) = f[s] + rest
        BY <1>5, <3>1
      <3>3. g[s] = f[s] + 1 /\ f[s] \in Nat
        BY <1>3, <1>6, <1>7, <1>8, <2>1
      <3> HIDE DEF rest
      <3> QED  BY <1>3, <1>4, <1>10, <3>2, <3>3
    <2>2. CASE s \notin A
      <3>1. [r \in A \ {s} |-> f[r]] = f
        <4>1. A \ {s} = A
          BY <2>2
        <4> QED  BY <1>3, <4>1
      <3>2. SumFunction(f) = rest
        BY <1>5, <3>1
      <3>3. g[s] = 1
        BY <1>6, <1>8, <2>2
      <3> HIDE DEF rest
      <3> QED  BY <1>3, <1>4, <1>10, <3>2, <3>3
    <2> QED  BY <2>1, <2>2
  <1> QED  BY <1>1, <1>11

(* LEMMA HeldExpires: what is no longer held is what the expired entries had. *)
LEMMA HeldExpires ==
    ASSUME NEW t \in Table, NEW u \in Table, NEW c, NEW E,
           \A s \in 0 .. Slots - 1 : u[s] = IF s \in E THEN Free ELSE t[s]
    PROVE  LET lost == SumFunction([s \in {s \in OfClient(t, c) : s \in E} |-> t[s].req])
           IN  lost \in Nat /\ Held(t, c) = lost + Held(u, c)
  <1> DEFINE A == OfClient(t, c)
             T == {s \in A : s \in E}
             f == [s \in A |-> t[s].req]
  <1>1. IsFiniteSet(A) /\ f \in [A -> Nat] /\ Held(t, c) = SumFunction(f)
    BY EntryNumbers DEF Held
  <1>2. T \in SUBSET A
    OBVIOUS
  <1>3. OfClient(u, c) = A \ T
    <2>1. \A s \in 0 .. Slots - 1 : s \in E => ~u[s].used
      BY DEF Free
    <2>2. \A s \in 0 .. Slots - 1 : s \in OfClient(u, c) <=> s \in A /\ s \notin E
      BY <2>1 DEF OfClient
    <2>3. OfClient(u, c) \subseteq 0 .. Slots - 1 /\ A \subseteq 0 .. Slots - 1
      BY DEF OfClient
    <2> HIDE DEF A
    <2> QED  BY <2>2, <2>3
  <1>4. [s \in T |-> f[s]] = [s \in T |-> t[s].req]
    OBVIOUS
  <1>5. [s \in A \ T |-> f[s]] = [s \in OfClient(u, c) |-> u[s].req]
    <2>1. \A s \in A \ T : f[s] = t[s].req
      OBVIOUS
    <2>2. \A s \in A \ T : u[s] = t[s]
      BY DEF OfClient
    <2> HIDE DEF A, T, f
    <2> QED  BY <1>3, <2>1, <2>2
  <1> HIDE DEF A, f, T
  <1>6. /\ SumFunction(f) = SumFunction([y \in T |-> f[y]]) + SumFunction([y \in A \ T |-> f[y]])
        /\ SumFunction([y \in T |-> f[y]]) \in Nat
    BY <1>1, <1>2, SumSplit
  <1>7. /\ SumFunction([s \in T |-> t[s].req]) \in Nat
        /\ Held(t, c) = SumFunction([s \in T |-> t[s].req]) + Held(u, c)
    BY <1>1, <1>4, <1>5, <1>6 DEF Held
  <1> QED  BY <1>7 DEF T, A

(* LEMMA HeldNone: an empty table holds nothing. *)
LEMMA HeldNone ==
    ASSUME NEW c
    PROVE  Held([s \in 0 .. Slots - 1 |-> Free], c) = 0
  <1> DEFINE t == [s \in 0 .. Slots - 1 |-> Free]
  <1>1. OfClient(t, c) = {}
    BY DEF OfClient, Free
  <1>2. [s \in OfClient(t, c) |-> t[s].req] \in [{} -> Nat]
    BY <1>1
  <1> HIDE DEF t
  <1>3. Held(t, c) = 0
    BY <1>2, SumEmpty DEF Held
  <1> QED  BY <1>3 DEF t

(* LEMMA CountsStep: a packet is counted for its client, and leaves the count *)
(* only with an entry that expires.                                           *)
LEMMA CountsStep ==
    ASSUME ClientInv, ClientInv', CountInv, [Next]_vars
    PROVE  CountInv'
  <1>0. clients \in Table /\ clients' \in Table
    BY DEF ClientInv, Table
  <1>1. ASSUME NEW n \in Nics, NEW ip \in Ips, NEW v \in {0, 1}, Capture(n, ip, v)
        PROVE  CountInv'
    <2> DEFINE c == <<n, ip>>
               s0 == client_get(c)
    <2>1. c \in Client /\ CountClient(c, v) /\ UNCHANGED gone
      BY <1>1 DEF Client, Capture
    <2> HIDE DEF c
    <2>2. CASE Found(c) = {}
      <3>1. UNCHANGED <<clients, counted, gone>>
        BY <2>1, <2>2 DEF CountClient
      <3> QED  BY <3>1 DEF CountInv
    <2>3. CASE Found(c) # {}
      <3>1. s0 \in 0 .. Slots - 1 /\ Takes(c, s0)
        BY <2>1, <2>3, GetsOwnSlot
      <3>2. /\ clients' = [clients EXCEPT ![s0] = Entered(c, s0, v)]
            /\ counted' = [counted EXCEPT ![c] = @ + 1]
        BY <2>1, <2>3 DEF CountClient
      <3> HIDE DEF s0
      <3>3. /\ clients'[s0] = Entered(c, s0, v)
            /\ \A r \in 0 .. Slots - 1 : r # s0 => clients'[r] = clients[r]
        BY <1>0, <3>1, <3>2 DEF Table
      <3>4. /\ clients'[s0].used /\ clients'[s0].client = c
            /\ IF clients[s0].used
               THEN clients[s0].client = c /\ clients'[s0].req = clients[s0].req + 1
               ELSE clients'[s0].req = 1
        BY <3>1, <3>3 DEF Entered, Entry, Takes
      <3>5. /\ Held(clients', c) = Held(clients, c) + 1
            /\ \A d \in Client : d # c => Held(clients', d) = Held(clients, d)
        BY <1>0, <3>1, <3>3, <3>4, HeldOneMore
      <3>6. \A d \in Client : Held(clients, d) \in Nat
        BY <1>0, EntryNumbers
      <3>7. /\ counted' \in [Client -> Nat] /\ counted'[c] = counted[c] + 1
            /\ \A d \in Client : d # c => counted'[d] = counted[d]
        BY <2>1, <3>2 DEF CountInv
      <3>8. ASSUME NEW d \in Client PROVE Held(clients', d) + gone'[d] = counted'[d]
        <4>1. Held(clients, d) + gone[d] = counted[d] /\ gone[d] \in Nat /\ gone'[d] = gone[d]
          BY <2>1 DEF CountInv
        <4>2. CASE d = c
          <5>1. Held(clients', d) = Held(clients, d) + 1 /\ counted'[d] = counted[d] + 1
            BY <3>5, <3>7, <4>2
          <5> QED  BY <3>6, <4>1, <5>1
        <4>3. CASE d # c
          BY <3>5, <3>7, <4>1, <4>3
        <4> QED  BY <4>2, <4>3
      <3> QED  BY <2>1, <3>7, <3>8 DEF CountInv
    <2> QED  BY <2>2, <2>3
  <1>2. CASE LoopEnd
    <2>1. UNCHANGED counted
      BY <1>2 DEF LoopEnd
    <2>2. CASE clients_expire(loopNow)
      <3> DEFINE E == {s \in 0 .. Slots - 1 : Expired(s, loopNow)}
                 Lost(c) == SumFunction([s \in {s \in OfClient(clients, c) : s \in E} |-> clients[s].req])
      <3>1. \A s \in 0 .. Slots - 1 : clients'[s] = IF s \in E THEN Free ELSE clients[s]
        BY <2>2 DEF clients_expire
      <3>2. ASSUME NEW c \in Client PROVE gone'[c] = gone[c] + Lost(c)
        <4>1. gone'[c] = gone[c] + Requests({s \in EntriesOf(c) : Expired(s, loopNow)})
          BY <2>2 DEF clients_expire
        <4>2. {s \in EntriesOf(c) : Expired(s, loopNow)} = {s \in OfClient(clients, c) : s \in E}
          BY DEF EntriesOf, OfClient
        <4> QED  BY <4>1, <4>2 DEF Requests
      <3>3. DOMAIN gone' = Client /\ gone' = [c \in Client |-> gone'[c]]
        BY <2>2 DEF clients_expire
      <3> HIDE DEF E
      <3>4. ASSUME NEW c \in Client
            PROVE  Lost(c) \in Nat /\ Held(clients, c) = Lost(c) + Held(clients', c)
        BY <1>0, <3>1, HeldExpires
      <3> HIDE DEF Lost
      <3>5. ASSUME NEW c \in Client
            PROVE  gone'[c] \in Nat /\ Held(clients', c) + gone'[c] = counted'[c]
        <4>1. Held(clients, c) + gone[c] = counted[c] /\ gone[c] \in Nat /\ counted'[c] = counted[c]
          BY <2>1 DEF CountInv
        <4>2. Held(clients', c) \in Nat
          BY <1>0, EntryNumbers
        <4> QED  BY <3>2, <3>4, <4>1, <4>2
      <3>6. gone' \in [Client -> Nat]
        BY <3>3, <3>5
      <3> QED  BY <2>1, <3>5, <3>6 DEF CountInv
    <2>3. CASE UNCHANGED <<clients, gone>>
      BY <2>1, <2>3 DEF CountInv
    <2> QED  BY <1>2, <2>2, <2>3 DEF LoopEnd
  <1>3. CASE Start
    <2>1. /\ clients' = [s \in 0 .. Slots - 1 |-> Free]
          /\ counted' = [c \in Client |-> 0] /\ gone' = [c \in Client |-> 0]
      BY <1>3 DEF Start
    <2>2. ASSUME NEW c \in Client PROVE Held(clients', c) + gone'[c] = counted'[c]
      <3>1. Held(clients', c) = 0 /\ gone'[c] = 0 /\ counted'[c] = 0
        BY <2>1, HeldNone
      <3> QED  BY <3>1
    <2> QED  BY <2>1, <2>2 DEF CountInv
  <1> DEFINE Still == UNCHANGED <<clients, counted, gone>>
  <1>4. Still => CountInv'
    BY DEF CountInv
  <1>5. LoopTop \/ Tick \/ (\E t \in First .. Last : SetClock(t)) \/ UNCHANGED vars => Still
    BY DEF LoopTop, Tick, SetClock, vars, reqVars
  <1>6. WriteJson \/ WriteFails \/ Skip \/ Die => Still
    BY DEF WriteJson, WriteFails, Skip, Die, reqVars
  <1>7. ASSUME NEW n \in Nics, PollNic(n) \/ SkipNic(n) PROVE Still
    BY <1>7 DEF PollNic, SkipNic, reqVars
  <1>8. ASSUME NEW n \in Nics, SetupNic(n) \/ BaselineNic(n) PROVE Still
    BY <1>8 DEF SetupNic, BaselineNic, reqVars
  <1>9. ASSUME NEW n \in Nics, Answer(n) \/ Counters(n) PROVE Still
    BY <1>9 DEF Answer, Counters, reqVars
  <1> HIDE DEF Still
  <1> QED  BY <1>1, <1>2, <1>3, <1>4, <1>5, <1>6, <1>7, <1>8, <1>9 DEF Next

(* THEOREM ClientsAccounted: a client heard of within Ttl is in the table     *)
(* with the time of its last packet, unless that packet found the table full; *)
(* and its entries and what has expired hold every packet counted for it and  *)
(* none of another client, for every hash, every size of the table and every  *)
(* setting of the clock (client_get, account, clients_expire).                *)
THEOREM ClientsAccounted == Spec => []ClientsListed
  <1>1. Init => ClientInv /\ CountInv
    <2> SUFFICES ASSUME Init PROVE ClientInv /\ CountInv
      OBVIOUS
    <2>1. /\ now = First /\ peak = First /\ loopNow = 0 /\ First \in Nat
          /\ clients = [s \in 0 .. Slots - 1 |-> Free] /\ seen = [c \in Client |-> 0]
          /\ counted = [c \in Client |-> 0] /\ gone = [c \in Client |-> 0]
      BY Sizes DEF Init
    <2>2. \A c \in Client : ClientKept(c)
      BY <2>1 DEF ClientKept
    <2>3. ASSUME NEW c \in Client PROVE Held(clients, c) + gone[c] = counted[c]
      <3>1. Held(clients, c) = 0 /\ gone[c] = 0 /\ counted[c] = 0
        BY <2>1, HeldNone
      <3> QED  BY <3>1
    <2>4. ClientInv
      BY <2>1, <2>2 DEF ClientInv
    <2>5. CountInv
      BY <2>1, <2>3 DEF CountInv
    <2> QED  BY <2>4, <2>5
  <1>2. RingInv /\ ClientInv /\ [Next]_vars => ClientInv'
    BY Parts, ClientsStep
  <1>3. ClientInv /\ ClientInv' /\ CountInv /\ [Next]_vars => CountInv'
    BY CountsStep
  <1>4. ClientInv /\ CountInv => ClientsListed
    <2> SUFFICES ASSUME ClientInv, CountInv, NEW c \in Client
                 PROVE  ClientKept(c) /\ Requests(EntriesOf(c)) + gone[c] = counted[c]
      BY DEF ClientsListed
    <2>1. Requests(EntriesOf(c)) = Held(clients, c)
      BY DEF Requests, EntriesOf, Held, OfClient
    <2> QED  BY <2>1 DEF ClientInv, CountInv
  <1> QED  BY <1>1, <1>2, <1>3, <1>4, RingInvariant, PTL DEF Spec
=============================================================================
