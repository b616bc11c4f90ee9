------------------------- MODULE EthRollbackProofs -------------------------
(***************************************************************************)
(* What the rollback of eth0 guarantees, for any number of requests, timers, *)
(* ports, forms, changes and power failures (EthRollback); before it, that   *)
(* the conversions between a dotted mask and a prefix lose no bit, for       *)
(* octets of every width (NetParams: valid_mask, nmcli_mask_to_prefix,       *)
(* prefix_to_mask).                                                          *)
(***************************************************************************)
EXTENDS EthRollback, FiniteSetTheorems, TLAPS

-----------------------------------------------------------------------------
(* Natural numbers *)

(* LEMMA LeastElement: a set of naturals with an element has a least one. *)
LEMMA LeastElement ==
    ASSUME NEW T \in SUBSET Nat, T # {}
    PROVE  \E x \in T : \A y \in T : x =< y
  <1>1. PICK x \in T : \A y \in T : ~ (<<y, x>> \in OpToRel(<, Nat))
    BY NatLessThanWellFounded, WFMin
  <1>2. \A y \in T : ~ (y < x)
    BY <1>1 DEF OpToRel
  <1> QED  BY <1>2

(* LEMMA Induction: over a set, which the provers can be given. *)
LEMMA Induction ==
    ASSUME NEW S, 0 \in S, \A n \in Nat : n \in S => n + 1 \in S
    PROVE  Nat \subseteq S
  <1> SUFFICES ASSUME Nat \ S # {} PROVE FALSE
    OBVIOUS
  <1>1. PICK x \in Nat \ S : \A y \in Nat \ S : x =< y
    BY LeastElement
  <1>2. x - 1 \in Nat /\ x - 1 \in S
    BY <1>1
  <1> QED  BY <1>1, <1>2

(* LEMMA Division: quotient and remainder. *)
LEMMA Division ==
    ASSUME NEW x \in Nat, NEW s \in Nat \ {0}
    PROVE  /\ x \div s \in Nat
           /\ x % s \in 0 .. s - 1
           /\ x = s * (x \div s) + (x % s)
  BY Z3

(* LEMMA DivisionUnique: there are no others. *)
LEMMA DivisionUnique ==
    ASSUME NEW s \in Nat \ {0}, NEW q \in Nat, NEW r \in 0 .. s - 1,
           NEW x, x = s * q + r
    PROVE  x \div s = q /\ x % s = r
  <1> DEFINE p == x \div s
             m == x % s
  <1>0. x \in Nat
    BY Z3
  <1>1. p \in Nat /\ m \in 0 .. s - 1 /\ s * q + r = s * p + m
    BY <1>0, Division
  <1> HIDE DEF p, m
  <1>2. s * (q - p) = m - r
    BY <1>1, Z3
  <1>3. CASE q - p >= 1
    <2>1. s * (q - p) >= s
      BY <1>1, <1>3, Z3
    <2> QED  BY <2>1, <1>1, <1>2
  <1>4. CASE q - p =< 0 - 1
    <2>1. s * (q - p) =< 0 - s
      BY <1>1, <1>4, Z3
    <2> QED  BY <2>1, <1>1, <1>2
  <1>5. CASE q = p
    BY <1>1, <1>5 DEF p, m
  <1> QED  BY <1>1, <1>3, <1>4, <1>5

(* LEMMA PowerType: powers of two are positive. *)
LEMMA PowerType ==
    ASSUME NEW n \in Nat
    PROVE  2 ^ n \in Nat \ {0}
  <1>1. IsFiniteSet(1 .. n) /\ Cardinality(1 .. n) = n
    BY FS_Interval
  <1>2. IsFiniteSet(SUBSET (1 .. n)) /\ Cardinality(SUBSET (1 .. n)) = 2 ^ n
    BY <1>1, FS_SUBSET
  <1>3. Cardinality(SUBSET (1 .. n)) # 0
    BY <1>2, FS_EmptySet
  <1> QED  BY <1>2, <1>3, FS_CardinalityType

(* LEMMA PowerSum: from the number of subsets of a set of a + b elements. *)
LEMMA PowerSum ==
    ASSUME NEW a \in Nat, NEW b \in Nat
    PROVE  2 ^ (a + b) = 2 ^ a * 2 ^ b
  <1> DEFINE A == 1 .. a
             B == a + 1 .. a + b
             C == 1 .. a + b
             P == (SUBSET A) \X (SUBSET B)
             f == [w \in P |-> w[1] \union w[2]]
  <1>1. /\ IsFiniteSet(A) /\ Cardinality(A) = a
        /\ IsFiniteSet(B) /\ Cardinality(B) = b
        /\ IsFiniteSet(C) /\ Cardinality(C) = a + b
    <2>1. IsFiniteSet(A) /\ Cardinality(A) = a
      BY FS_Interval
    <2>2. a + 1 \in Int /\ a + b \in Int
      OBVIOUS
    <2>3. /\ IsFiniteSet(B)
          /\ Cardinality(B) = IF a + 1 > a + b THEN 0 ELSE (a + b) - (a + 1) + 1
      BY <2>2, FS_Interval
    <2>4. IsFiniteSet(C) /\ Cardinality(C) = IF 1 > a + b THEN 0 ELSE (a + b) - 1 + 1
      BY <2>2, FS_Interval
    <2> HIDE DEF A, B, C
    <2>5. Cardinality(B) = b /\ Cardinality(C) = a + b
      BY <2>3, <2>4
    <2> QED  BY <2>1, <2>3, <2>4, <2>5
  <1>2. A \union B = C /\ A \intersect B = {}
    OBVIOUS
  <1> HIDE DEF A, B, C
  <1>3. f \in [P -> SUBSET C]
    BY <1>2
  <1>4. ASSUME NEW v \in P, NEW w \in P, f[v] = f[w] PROVE v = w
    <2>1. v[1] \union v[2] = w[1] \union w[2]
      BY <1>4
    <2>2. /\ v[1] \subseteq A /\ w[1] \subseteq A /\ v[2] \subseteq B /\ w[2] \subseteq B
          /\ v = <<v[1], v[2]>> /\ w = <<w[1], w[2]>>
      OBVIOUS
    <2>3. v[1] = w[1]
      BY <1>2, <2>1, <2>2
    <2>4. v[2] = w[2]
      BY <1>2, <2>1, <2>2
    <2> QED  BY <2>2, <2>3, <2>4
  <1>5. ASSUME NEW X \in SUBSET C PROVE \E w \in P : f[w] = X
    <2>1. <<X \intersect A, X \intersect B>> \in P
      OBVIOUS
    <2>2. f[<<X \intersect A, X \intersect B>>] = X
      BY <1>2, <2>1
    <2> QED  BY <2>1, <2>2
  <1> HIDE DEF f, P
  <1>6. f \in Bijection(P, SUBSET C)
    BY <1>3, <1>4, <1>5 DEF Bijection, Injection, IsInjective, Surjection
  <1>7. /\ IsFiniteSet(SUBSET A) /\ Cardinality(SUBSET A) = 2 ^ a
        /\ IsFiniteSet(SUBSET B) /\ Cardinality(SUBSET B) = 2 ^ b
        /\ Cardinality(SUBSET C) = 2 ^ (a + b)
    BY <1>1, FS_SUBSET
  <1>8. IsFiniteSet(P) /\ Cardinality(P) = 2 ^ a * 2 ^ b
    <2> DEFINE U == SUBSET A
               V == SUBSET B
    <2> HIDE DEF U, V
    <2>1. /\ IsFiniteSet(U) /\ Cardinality(U) = 2 ^ a
          /\ IsFiniteSet(V) /\ Cardinality(V) = 2 ^ b
      BY <1>7 DEF U, V
    <2>2. IsFiniteSet(U \X V) /\ Cardinality(U \X V) = Cardinality(U) * Cardinality(V)
      BY <2>1, FS_Product, Zenon
    <2>3. P = U \X V
      BY DEF P, U, V
    <2> QED  BY <2>1, <2>2, <2>3, Zenon
  <1>9. ExistsBijection(P, SUBSET C)
    BY <1>6 DEF ExistsBijection
  <1> QED  BY <1>7, <1>8, <1>9, FS_Bijection

(* LEMMA PowerStep: doubling. *)
LEMMA PowerStep ==
    ASSUME NEW n \in Nat
    PROVE  2 ^ (n + 1) = 2 * 2 ^ n
  <1>1. 2 ^ 1 = 2
    OBVIOUS
  <1>2. 2 ^ (n + 1) = 2 ^ n * 2
    BY <1>1, PowerSum
  <1> QED  BY <1>2, PowerType

(* LEMMA PowerOrder: a larger exponent is no smaller power. *)
LEMMA PowerOrder ==
    ASSUME NEW a \in Nat, NEW b \in Nat, a =< b
    PROVE  /\ 2 ^ a =< 2 ^ b
           /\ 2 ^ b = 2 ^ a * 2 ^ (b - a)
  <1> DEFINE d == b - a
             x == 2 ^ a
             y == 2 ^ d
  <1>1. d \in Nat /\ a + d = b
    OBVIOUS
  <1>2. 2 ^ b = x * y
    BY <1>1, PowerSum
  <1>3. x \in Nat \ {0} /\ y \in Nat \ {0}
    BY <1>1, PowerType
  <1> HIDE DEF x, y
  <1>4. x =< x * y
    BY <1>3, Z3
  <1> QED  BY <1>2, <1>4 DEF x, y

-----------------------------------------------------------------------------
(* Bits *)

(* LEMMA BitStep: a number without its last bits, and with one more. *)
LEMMA BitStep ==
    ASSUME NEW m \in Nat, NEW i \in Nat
    PROVE  /\ m \div 2 ^ i \in Nat
           /\ Bit(m, i) \in {0, 1}
           /\ m \div 2 ^ i = 2 * (m \div 2 ^ (i + 1)) + Bit(m, i)
  <1> DEFINE s == 2 ^ i
             q == m \div s
             r == m % s
             h == q \div 2
             b == q % 2
  <1>1. s \in Nat \ {0} /\ 2 ^ (i + 1) = 2 * s
    BY PowerType, PowerStep
  <1>2. q \in Nat /\ r \in 0 .. s - 1 /\ m = s * q + r
    BY <1>1, Division
  <1>3. h \in Nat /\ b \in 0 .. 1 /\ q = 2 * h + b
    <2> HIDE DEF q
    <2> QED  BY <1>2
  <1>4. b = Bit(m, i)
    BY DEF Bit
  <1> DEFINE rest == s * b + r
  <1> HIDE DEF s, q, r, h, b
  <1>5. rest \in 0 .. 2 * s - 1
    BY <1>1, <1>2, <1>3, Z3
  <1>6. m = (2 * s) * h + rest
    BY <1>1, <1>2, <1>3, Z3
  <1>7. 2 * s \in Nat \ {0}
    BY <1>1
  <1> HIDE DEF rest
  <1>8. m \div (2 * s) = h
    BY <1>3, <1>5, <1>6, <1>7, DivisionUnique
  <1>9. m \div 2 ^ i = q
    BY DEF q, s
  <1> QED  BY <1>1, <1>2, <1>3, <1>4, <1>8, <1>9

(* LEMMA LeadingOnes: a number of w bits whose first n bits are 1 and whose   *)
(* others are 0.                                                              *)
LEMMA LeadingOnes ==
    ASSUME NEW w \in Nat, NEW n \in 0 .. w, NEW v \in 0 .. 2 ^ w - 1,
           \A i \in 1 .. n : Bit(v, w - i) = 1,
           \A i \in n + 1 .. w : Bit(v, w - i) = 0
    PROVE  v = 2 ^ w - 2 ^ (w - n)
  <1> DEFINE top(k) == v \div 2 ^ (w - k)
             ones == {k \in Nat : k =< n => top(k) = 2 ^ k - 1}
             zeros == {k \in Nat : n + k =< w => top(n + k) = (2 ^ n - 1) * 2 ^ k}
  <1>0. 2 ^ w \in Nat \ {0} /\ v \in Nat /\ n \in Nat /\ n =< w
    BY PowerType
  <1>1. ASSUME NEW k \in Nat, k < w
        PROVE  /\ top(k) \in Nat
               /\ top(k + 1) = 2 * top(k) + Bit(v, w - (k + 1))
    <2> DEFINE i == w - (k + 1)
    <2>1. i \in Nat /\ i + 1 = w - k
      BY <1>1
    <2>2. v \div 2 ^ i = 2 * (v \div 2 ^ (i + 1)) + Bit(v, i)
      BY <1>0, <2>1, BitStep
    <2>3. v \div 2 ^ (i + 1) \in Nat
      BY <1>0, <2>1, BitStep
    <2> QED  BY <2>1, <2>2, <2>3
  <1>2. 0 \in ones
    <2>1. v \div 2 ^ w = 0
      <3> DEFINE s == 2 ^ w
      <3>1. s \in Nat \ {0} /\ v \in 0 .. s - 1 /\ v = s * 0 + v /\ 0 \in Nat
        BY <1>0
      <3> HIDE DEF s
      <3>2. v \div s = 0
        BY <3>1, DivisionUnique
      <3> QED  BY <3>2 DEF s
    <2>2. 2 ^ 0 = 1 /\ w - 0 = w
      OBVIOUS
    <2> QED  BY <2>1, <2>2
  <1>3. ASSUME NEW k \in Nat, k \in ones PROVE k + 1 \in ones
    <2> SUFFICES ASSUME k + 1 =< n PROVE top(k + 1) = 2 ^ (k + 1) - 1
      OBVIOUS
    <2>1. k < w /\ k =< n /\ k + 1 \in 1 .. n
      BY <1>0
    <2>2. top(k) = 2 ^ k - 1 /\ Bit(v, w - (k + 1)) = 1
      BY <1>3, <2>1
    <2>3. 2 ^ (k + 1) = 2 * 2 ^ k /\ 2 ^ k \in Nat
      BY PowerStep, PowerType
    <2>4. top(k + 1) = 2 * top(k) + Bit(v, w - (k + 1))
      BY <1>1, <2>1
    <2> HIDE DEF top
    <2> QED  BY <2>2, <2>3, <2>4
  <1>4. Nat \subseteq ones
    <2> HIDE DEF ones
    <2> QED  BY <1>2, <1>3, Induction
  <1>5. top(n) = 2 ^ n - 1 /\ 2 ^ n \in Nat \ {0}
    BY <1>0, <1>4, PowerType
  <1>6. 0 \in zeros
    <2>1. 2 ^ 0 = 1 /\ n + 0 = n
      OBVIOUS
    <2> HIDE DEF top
    <2> QED  BY <1>5, <2>1
  <1>7. ASSUME NEW k \in Nat, k \in zeros PROVE k + 1 \in zeros
    <2> SUFFICES ASSUME n + (k + 1) =< w
                 PROVE  top(n + (k + 1)) = (2 ^ n - 1) * 2 ^ (k + 1)
      OBVIOUS
    <2>1. n + k \in Nat /\ n + k < w /\ n + (k + 1) = (n + k) + 1
      BY <1>0
    <2>2. Bit(v, w - ((n + k) + 1)) = 0
      <3>1. (n + k) + 1 \in n + 1 .. w
        BY <1>0, <2>1
      <3> QED  BY <3>1, Zenon
    <2>3. top(n + k) = (2 ^ n - 1) * 2 ^ k
      BY <1>7, <2>1
    <2>4. top(n + (k + 1)) = 2 * top(n + k)
      <3> HIDE DEF top
      <3>1. /\ top(n + k) \in Nat
            /\ top((n + k) + 1) = 2 * top(n + k) + Bit(v, w - ((n + k) + 1))
        BY <1>1, <2>1
      <3> QED  BY <2>1, <2>2, <3>1
    <2>5. 2 ^ (k + 1) = 2 * 2 ^ k /\ 2 ^ k \in Nat
      BY PowerStep, PowerType
    <2> DEFINE x == 2 ^ n - 1
               y == 2 ^ k
    <2>6. x \in Nat /\ y \in Nat
      BY <1>5, <2>5
    <2> HIDE DEF x, y
    <2>7. 2 * (x * y) = x * (2 * y)
      BY <2>6, Z3
    <2> HIDE DEF top
    <2> QED  BY <2>3, <2>4, <2>5, <2>7 DEF x, y
  <1>8. Nat \subseteq zeros
    <2> HIDE DEF zeros
    <2> QED  BY <1>6, <1>7, Induction
  <1> DEFINE l == w - n
  <1>9. l \in Nat /\ n + l = w /\ l \in zeros
    <2>1. l \in Nat /\ n + l = w
      BY <1>0
    <2> HIDE DEF zeros, l
    <2> QED  BY <1>8, <2>1
  <1>10. top(w) = (2 ^ n - 1) * 2 ^ l
    BY <1>9
  <1>11. top(w) = v
    <2>1. 2 ^ (w - w) = 1
      BY <1>0
    <2> QED  BY <1>0, <2>1
  <1> DEFINE x == 2 ^ n
             y == 2 ^ l
  <1>12. 2 ^ w = x * y /\ x \in Nat /\ y \in Nat
    BY <1>0, <1>9, PowerSum, PowerType
  <1> HIDE DEF x, y, l, top
  <1>13. v = (x - 1) * y
    BY <1>10, <1>11 DEF x, y
  <1>14. v = x * y - y
    BY <1>12, <1>13, Z3
  <1> QED  BY <1>12, <1>14 DEF y, l

(* LEMMA Associative: for the provers, which lose it in long products. *)
LEMMA Associative ==
    ASSUME NEW a \in Nat, NEW b \in Nat, NEW c \in Nat
    PROVE  (a * b) * c = a * (b * c) /\ a * b \in Nat /\ a * (b * c) \in Nat
  BY Z3

(* LEMMA Positive: a product of positive numbers is positive. *)
LEMMA Positive ==
    ASSUME NEW a \in Nat \ {0}, NEW b \in Nat \ {0}
    PROVE  a * b \in Nat \ {0}
  <1>1. a >= 1 /\ b >= 1 /\ a \in Int /\ b \in Int
    OBVIOUS
  <1>2. a * b >= 1
    BY <1>1, Z3
  <1> QED  BY <1>2

(* LEMMA OneLess: one factor less by one. *)
LEMMA OneLess ==
    ASSUME NEW a \in Nat, NEW b \in Nat
    PROVE  a * (b + 1) - a = a * b
  BY Z3

(* LEMMA BothLess: a product with one factor less by one. *)
LEMMA BothLess ==
    ASSUME NEW a \in Int, NEW b \in Int
    PROVE  (a - 1) * b = a * b - b /\ a * (b - 1) = a * b - a /\ a * b \in Int
  BY Z3

(* LEMMA MaskBits: the bits of such a number. *)
LEMMA MaskBits ==
    ASSUME NEW w \in Nat, NEW n \in 0 .. w, NEW i \in 0 .. w - 1,
           NEW v, v = 2 ^ w - 2 ^ (w - n)
    PROVE  Bit(v, i) = IF i < w - n THEN 0 ELSE 1
  <1> DEFINE s == 2 ^ i
  <1>0. s \in Nat \ {0} /\ i \in Nat /\ w - n \in Nat
    BY PowerType
  <1>1. CASE i < w - n
    <2> DEFINE d == (w - n) - (i + 1)
               y == 2 ^ d
               x == 2 ^ n
               u == x - 1
               h == y * u
    <2>1. d \in Nat /\ i + 1 =< w - n /\ w - n =< w /\ w - (w - n) = n
      BY <1>0, <1>1
    <2>2. x \in Nat \ {0} /\ y \in Nat \ {0}
      BY <2>1, PowerType
    <2>3. 2 ^ (w - n) = 2 ^ (i + 1) * y /\ 2 ^ (i + 1) = 2 * s
      BY <1>0, <2>1, PowerOrder, PowerStep
    <2>4. 2 ^ w = 2 ^ (w - n) * x
      BY <1>0, <2>1, PowerOrder
    <2> HIDE DEF s, x, y
    <2>5. v = ((2 * s) * y) * x - (2 * s) * y
      BY <2>3, <2>4
    <2>6. v = s * (2 * h) + 0 /\ h \in Nat
      <3> DEFINE c == (2 * s) * y
      <3>1. c \in Nat /\ u \in Nat /\ x = u + 1
        BY <1>0, <2>2, Z3
      <3>2. v = c * x - c
        BY <2>5
      <3> HIDE DEF c, u
      <3>3. v = c * u
        BY <3>1, <3>2, OneLess
      <3> DEFINE a == 2 * s
      <3>4. (a * y) * u = a * h /\ h \in Nat
        <4>1. a \in Nat
          BY <1>0
        <4> HIDE DEF a
        <4> QED  BY <2>2, <3>1, <4>1, Associative
      <3> HIDE DEF h
      <3>5. (2 * s) * h = s * (2 * h) /\ s * (2 * h) \in Nat
        BY <1>0, <3>4, Z3
      <3> QED  BY <3>3, <3>4, <3>5 DEF c
    <2> HIDE DEF h
    <2>7. 2 * h \in Nat /\ 0 \in 0 .. s - 1
      BY <1>0, <2>6
    <2>8. v \div s = 2 * h
      BY <1>0, <2>6, <2>7, DivisionUnique
    <2>9. (2 * h) % 2 = 0
      BY <2>6
    <2> QED  BY <1>1, <2>8, <2>9 DEF Bit, s
  <1>2. CASE ~ (i < w - n)
    <2> DEFINE d == w - i
               y == 2 ^ d
               t == 2 ^ (w - n)
               r == s - t
               q == y - 1
    <2>1. d \in Nat /\ i =< w /\ w - n =< i /\ d = (d - 1) + 1 /\ d - 1 \in Nat
      BY <1>0, <1>2
    <2>2. 2 ^ w = s * y /\ t =< s /\ t \in Nat \ {0} /\ y \in Nat \ {0}
      BY <1>0, <2>1, PowerOrder, PowerType
    <2>3. y = 2 * 2 ^ (d - 1) /\ 2 ^ (d - 1) \in Nat \ {0}
      BY <2>1, PowerStep, PowerType
    <2> HIDE DEF s, y, t
    <2>4. v = s * q + r
      <3>1. v = s * y - t
        BY <2>2 DEF t
      <3>2. s * (y - 1) = s * y - s /\ s * y \in Int
        BY <1>0, <2>2, Z3
      <3> QED  BY <1>0, <2>2, <3>1, <3>2
    <2>5. q \in Nat /\ r \in 0 .. s - 1
      BY <1>0, <2>2
    <2>6. q % 2 = 1
      <3> DEFINE z == 2 ^ (d - 1)
      <3>1. z \in Nat \ {0} /\ y = 2 * z
        BY <2>3
      <3> HIDE DEF z
      <3>2. q = 2 * (z - 1) + 1 /\ z - 1 \in Nat
        BY <3>1
      <3> QED  BY <3>2
    <2> HIDE DEF q, r
    <2>7. v \div s = q
      BY <1>0, <2>4, <2>5, DivisionUnique
    <2> QED  BY <1>2, <2>6, <2>7 DEF Bit, s
  <1> QED  BY <1>1, <1>2

-----------------------------------------------------------------------------
(* Octets *)

(* LEMMA Horner: one more octet. *)
LEMMA Horner ==
    ASSUME NEW b \in Nat \ {0}, NEW c \in Nat \ {0}, NEW x \in 0 .. c - 1, NEW d \in 0 .. b - 1
    PROVE  x * b + d \in 0 .. c * b - 1
  <1>1. x * b \in Nat /\ x + 1 =< c
    BY Z3
  <1>2. (x + 1) * b =< c * b /\ (x + 1) * b = x * b + b /\ c * b \in Nat
    BY <1>1, Z3
  <1> QED  BY <1>1, <1>2

(* LEMMA Bases: the weights of the octets. *)
LEMMA Bases ==
    ASSUME NEW b, b = 2 ^ OctetBits
    PROVE  /\ b \in Nat \ {0} /\ b * b \in Nat \ {0} /\ (b * b) * b \in Nat \ {0}
           /\ 2 ^ (Width - 1 * OctetBits) = (b * b) * b
           /\ 2 ^ (Width - 2 * OctetBits) = b * b
           /\ 2 ^ (Width - 3 * OctetBits) = b
           /\ 2 ^ (Width - 4 * OctetBits) = 1
           /\ 2 ^ Width = ((b * b) * b) * b
           /\ Width \in Nat
  <1>0. OctetBits \in Nat /\ b \in Nat \ {0}
    BY OctetAssumption, PowerType
  <1>1. b * b \in Nat \ {0} /\ (b * b) * b \in Nat \ {0}
    <2>1. b * b \in Nat \ {0}
      BY <1>0, Positive
    <2> QED  BY <1>0, <2>1, Positive
  <1>2. /\ Width \in Nat
        /\ Width - 1 * OctetBits = (OctetBits + OctetBits) + OctetBits
        /\ Width - 2 * OctetBits = OctetBits + OctetBits
        /\ Width - 3 * OctetBits = OctetBits
        /\ Width - 4 * OctetBits = 0
        /\ Width = ((OctetBits + OctetBits) + OctetBits) + OctetBits
    BY <1>0 DEF Width
  <1>3. 2 ^ (OctetBits + OctetBits) = b * b
    BY <1>0, PowerSum
  <1>4. 2 ^ ((OctetBits + OctetBits) + OctetBits) = (b * b) * b
    <2>1. OctetBits + OctetBits \in Nat
      BY <1>0
    <2> QED  BY <1>0, <1>3, <2>1, PowerSum
  <1>5. 2 ^ (((OctetBits + OctetBits) + OctetBits) + OctetBits) = ((b * b) * b) * b
    <2>1. (OctetBits + OctetBits) + OctetBits \in Nat
      BY <1>0
    <2> QED  BY <1>0, <1>4, <2>1, PowerSum
  <1>6. 2 ^ 0 = 1
    OBVIOUS
  <1> QED  BY <1>0, <1>1, <1>2, <1>3, <1>4, <1>5, <1>6

(* LEMMA ValueRange: the number of a dotted text has Width bits. *)
LEMMA ValueRange ==
    ASSUME NEW s, valid_ipv4(s)
    PROVE  Value(s) \in 0 .. 2 ^ Width - 1
  <1> DEFINE b == 2 ^ OctetBits
             v(i) == IF i =< Len(s) THEN s[i] ELSE 0
  <1>0. /\ b \in Nat \ {0} /\ b * b \in Nat \ {0} /\ (b * b) * b \in Nat \ {0}
        /\ 2 ^ Width = ((b * b) * b) * b
    BY Bases
  <1>1. v(1) \in 0 .. b - 1 /\ v(2) \in 0 .. b - 1 /\ v(3) \in 0 .. b - 1 /\ v(4) \in 0 .. b - 1
    <2>1. \A i \in 1 .. 4 : v(i) \in Octet
      <3>1. Len(s) \in 2 .. 4 /\ \A i \in 1 .. Len(s) : s[i] \in Octet
        BY DEF valid_ipv4
      <3>2. 0 \in Octet
        BY <1>0 DEF Octet
      <3> QED  BY <3>1, <3>2
    <2> HIDE DEF v
    <2> QED  BY <2>1 DEF Octet
  <1>2. Value(s) = ((v(1) * b + v(2)) * b + v(3)) * b + v(4)
    BY DEF Value
  <1> DEFINE x2 == v(1) * b + v(2)
             x3 == x2 * b + v(3)
  <1> HIDE DEF b, v
  <1>3. x2 \in 0 .. b * b - 1
    BY <1>0, <1>1, Horner
  <1> HIDE DEF x2
  <1>4. x3 \in 0 .. (b * b) * b - 1
    <2> DEFINE c == b * b
    <2>1. c \in Nat \ {0} /\ x2 \in 0 .. c - 1
      BY <1>0, <1>3
    <2> HIDE DEF c
    <2>2. x2 * b + v(3) \in 0 .. c * b - 1
      BY <1>0, <1>1, <2>1, Horner
    <2> QED  BY <2>2 DEF c
  <1> HIDE DEF x3
  <1>5. x3 * b + v(4) \in 0 .. ((b * b) * b) * b - 1
    <2> DEFINE c == (b * b) * b
    <2>1. c \in Nat \ {0} /\ x3 \in 0 .. c - 1
      BY <1>0, <1>4
    <2> HIDE DEF c
    <2>2. x3 * b + v(4) \in 0 .. c * b - 1
      BY <1>0, <1>1, <2>1, Horner
    <2> QED  BY <2>2 DEF c
  <1> QED  BY <1>0, <1>2, <1>5 DEF x2, x3

(* LEMMA DivDiv: dividing twice. *)
LEMMA DivDiv ==
    ASSUME NEW m \in Nat, NEW a \in Nat \ {0}, NEW b \in Nat \ {0}
    PROVE  m \div (a * b) = (m \div a) \div b
  <1> DEFINE q == m \div a
             r == m % a
             h == q \div b
             s == q % b
             rest == s * a + r
  <1>1. q \in Nat /\ r \in 0 .. a - 1 /\ m = a * q + r
    BY Division
  <1> HIDE DEF q, r
  <1>2. h \in Nat /\ s \in 0 .. b - 1 /\ q = b * h + s
    BY <1>1, Division
  <1> HIDE DEF h, s
  <1>3. rest \in 0 .. b * a - 1
    BY <1>1, <1>2, Horner
  <1>4. a * b \in Nat \ {0} /\ b * a = a * b
    <2>1. b * a = a * b
      BY Z3
    <2> QED  BY <2>1, Positive
  <1>5. m = (a * b) * h + rest
    <2>1. a * (b * h + s) = a * (b * h) + s * a /\ (a * b) * h = a * (b * h)
      BY <1>2, Z3
    <2>2. a * (b * h) \in Int /\ s * a \in Int
      BY <1>2, Z3
    <2> QED  BY <1>1, <1>2, <2>1, <2>2
  <1> HIDE DEF rest
  <1>6. m \div (a * b) = h
    <2> DEFINE t == a * b
    <2>1. t \in Nat \ {0} /\ rest \in 0 .. t - 1 /\ m = t * h + rest
      BY <1>3, <1>4, <1>5
    <2> HIDE DEF t
    <2>2. m \div t = h
      BY <1>2, <2>1, DivisionUnique
    <2> QED  BY <2>2 DEF t
  <1> QED  BY <1>6 DEF h, q

(* LEMMA Digits: a number from its octets. *)
LEMMA Digits ==
    ASSUME NEW b \in Nat \ {0}, NEW m \in 0 .. ((b * b) * b) * b - 1
    PROVE  ((((m \div ((b * b) * b)) % b) * b + ((m \div (b * b)) % b)) * b
              + ((m \div b) % b)) * b + (m % b) = m
  <1> DEFINE q1 == m \div b
             q2 == q1 \div b
             q3 == q2 \div b
             q4 == q3 \div b
             r1 == m % b
             r2 == q1 % b
             r3 == q2 % b
             r4 == q3 % b
  <1>0. b * b \in Nat \ {0} /\ (b * b) * b \in Nat \ {0} /\ ((b * b) * b) * b \in Nat \ {0}
        /\ m \in Nat
    <2>1. b * b \in Nat \ {0}
      BY Positive
    <2>2. (b * b) * b \in Nat \ {0}
      BY <2>1, Positive
    <2>3. ((b * b) * b) * b \in Nat \ {0}
      BY <2>2, Positive
    <2> QED  BY <2>1, <2>2, <2>3
  <1>1. m \div (b * b) = q2 /\ m \div ((b * b) * b) = q3 /\ m \div (((b * b) * b) * b) = q4
    <2>1. m \div (b * b) = q2
      BY <1>0, DivDiv
    <2>2. m \div ((b * b) * b) = q3
      <3> DEFINE c == b * b
      <3> HIDE DEF c, q2
      <3>1. c \in Nat \ {0} /\ m \div c = q2
        BY <1>0, <2>1 DEF c
      <3>2. m \div (c * b) = q2 \div b
        BY <1>0, <3>1, DivDiv
      <3> QED  BY <3>2 DEF c
    <2>3. m \div (((b * b) * b) * b) = q4
      <3> DEFINE c == (b * b) * b
      <3> HIDE DEF c, q3
      <3>1. c \in Nat \ {0} /\ m \div c = q3
        BY <1>0, <2>2 DEF c
      <3>2. m \div (c * b) = q3 \div b
        BY <1>0, <3>1, DivDiv
      <3> QED  BY <3>2 DEF c
    <2> QED  BY <2>1, <2>2, <2>3
  <1>2. q4 = 0
    <2> DEFINE t == ((b * b) * b) * b
    <2>1. t \in Nat \ {0} /\ m \in 0 .. t - 1 /\ m = t * 0 + m
      BY <1>0
    <2> HIDE DEF t
    <2>2. m \div t = 0
      BY <2>1, DivisionUnique
    <2> QED  BY <1>1, <2>2 DEF t
  <1>3. q1 \in Nat /\ r1 \in Nat /\ m = b * q1 + r1
    BY <1>0, Division
  <1> HIDE DEF q1
  <1>4. q2 \in Nat /\ r2 \in Nat /\ q1 = b * q2 + r2
    <2>1. q1 \div b \in Nat /\ q1 % b \in 0 .. b - 1
      BY <1>3, Division
    <2>2. q1 = b * (q1 \div b) + (q1 % b)
      BY <1>3, Division
    <2> QED  BY <2>1, <2>2
  <1> HIDE DEF q2
  <1>5. q3 \in Nat /\ r3 \in Nat /\ q2 = b * q3 + r3
    <2>1. q2 \div b \in Nat /\ q2 % b \in 0 .. b - 1
      BY <1>4, Division
    <2>2. q2 = b * (q2 \div b) + (q2 % b)
      BY <1>4, Division
    <2> QED  BY <2>1, <2>2
  <1> HIDE DEF q3
  <1>6. r4 \in Nat /\ q3 = r4
    <2>1. q4 \in Nat /\ r4 \in 0 .. b - 1 /\ q3 = b * q4 + r4
      BY <1>5, Division
    <2> HIDE DEF q4, r4
    <2> QED  BY <1>2, <2>1
  <1> HIDE DEF r1, r2, r3, r4
  <1>7. r4 * b + r3 = q2
    <2>1. q3 * b = b * q3 /\ b * q3 \in Int
      BY <1>5, Z3
    <2> QED  BY <1>5, <1>6, <2>1
  <1>8. q2 * b + r2 = q1
    <2>1. q2 * b = b * q2 /\ b * q2 \in Int
      BY <1>4, Z3
    <2> QED  BY <1>4, <2>1
  <1>9. q1 * b + r1 = m
    <2>1. q1 * b = b * q1 /\ b * q1 \in Int
      BY <1>3, Z3
    <2> QED  BY <1>3, <2>1
  <1>10. ((r4 * b + r3) * b + r2) * b + r1 = m
    BY <1>7, <1>8, <1>9
  <1> QED  BY <1>1, <1>10 DEF q1, r1, r2, r3, r4

(* LEMMA PrefixNumber: shifting all ones to the left. *)
LEMMA PrefixNumber ==
    ASSUME NEW w \in Nat, NEW n \in 0 .. w,
           NEW m, m = IF n = 0 THEN 0 ELSE ((2 ^ w - 1) * 2 ^ (w - n)) % 2 ^ w
    PROVE  m = 2 ^ w - 2 ^ (w - n) /\ m \in 0 .. 2 ^ w - 1
  <1> DEFINE s == 2 ^ w
             t == 2 ^ (w - n)
  <1>0. s \in Nat \ {0} /\ t \in Nat \ {0} /\ t =< s /\ w - n \in Nat
    <2> DEFINE d == w - n
    <2>1. d \in Nat /\ d =< w
      OBVIOUS
    <2> HIDE DEF d
    <2>2. 2 ^ d =< 2 ^ w
      BY <2>1, PowerOrder
    <2>3. 2 ^ d \in Nat \ {0} /\ 2 ^ w \in Nat \ {0}
      BY <2>1, PowerType
    <2> QED  BY <2>1, <2>2, <2>3 DEF d
  <1>1. CASE n = 0
    <2>1. w - n = w /\ m = 0
      BY <1>1
    <2> QED  BY <1>0, <2>1
  <1>2. CASE n # 0
    <2> DEFINE x == (s - 1) * t
    <2>1. m = x % s
      BY <1>2
    <2> HIDE DEF s, t
    <2>2. x = s * (t - 1) + (s - t) /\ t - 1 \in Nat /\ s - t \in 0 .. s - 1
      <3>1. (s - 1) * t = s * t - t /\ s * (t - 1) = s * t - s /\ s * t \in Int
        BY <1>0, BothLess
      <3>2. t - 1 \in Nat /\ s - t \in 0 .. s - 1
        BY <1>0
      <3> QED  BY <1>0, <3>1, <3>2
    <2> HIDE DEF x
    <2>3. x % s = s - t
      <3> DEFINE q == t - 1
                 r == s - t
      <3>1. x = s * q + r /\ q \in Nat /\ r \in 0 .. s - 1 /\ s \in Nat \ {0}
        BY <1>0, <2>2
      <3> HIDE DEF q, r
      <3>2. x % s = r
        BY <3>1, DivisionUnique
      <3> QED  BY <3>2 DEF r
    <2> QED  BY <2>1, <2>2, <2>3 DEF s, t
  <1> QED  BY <1>1, <1>2

-----------------------------------------------------------------------------
(* Masks *)

(* A mask with n leading ones, as a number *)
Ones(n) == 2 ^ Width - 2 ^ (Width - n)

(* THEOREM MaskNumber: a mask that valid_mask accepts is the number its       *)
(* prefix stands for: nmcli_mask_to_prefix, which counts the leading ones     *)
(* only, loses nothing of it.                                                 *)
THEOREM MaskNumber ==
    ASSUME NEW s, valid_mask(s)
    PROVE  /\ nmcli_mask_to_prefix(s) \in 0 .. Width
           /\ Value(s) = Ones(nmcli_mask_to_prefix(s))
  <1> DEFINE v == Value(s)
             counted(k) == /\ \A i \in 1 .. k : Bit(v, Width - i) = 1
                           /\ k < Width => Bit(v, Width - k - 1) = 0
             n == nmcli_mask_to_prefix(s)
  <1>0. Width \in Nat /\ v \in 0 .. 2 ^ Width - 1 /\ v \in Nat
    <2>1. Width \in Nat /\ 2 ^ Width \in Nat
      BY Bases, PowerType
    <2> QED  BY <2>1, ValueRange DEF valid_mask
  <1> HIDE DEF v
  <1>1. \E k \in 0 .. Width : counted(k)
    <2> DEFINE T == {k \in 0 .. Width : k < Width => Bit(v, Width - k - 1) = 0}
    <2>1. T \in SUBSET Nat /\ Width \in T
      BY <1>0
    <2>2. PICK k \in T : \A j \in T : k =< j
      BY <2>1, LeastElement
    <2>3. ASSUME NEW i \in 1 .. k PROVE Bit(v, Width - i) = 1
      <3>1. i - 1 \in 0 .. Width /\ i - 1 \notin T /\ i - 1 < Width
        BY <1>0, <2>1, <2>2
      <3>2. Bit(v, Width - (i - 1) - 1) # 0
        BY <3>1
      <3>3. Width - (i - 1) - 1 = Width - i /\ Width - i \in Nat
        BY <1>0, <3>1
      <3> QED  BY <1>0, <3>2, <3>3, BitStep
    <2> QED  BY <2>2, <2>3
  <1>2. n = CHOOSE k \in 0 .. Width : counted(k)
    BY DEF nmcli_mask_to_prefix, v
  <1> HIDE DEF n
  <1>3. n \in 0 .. Width /\ counted(n)
    BY <1>1, <1>2
  <1>4. ASSUME NEW i \in n + 1 .. Width PROVE Bit(v, Width - i) = 0
    <2>1. n < Width /\ n \in Nat
      BY <1>0, <1>3
    <2> DEFINE j == Width - n - 1
    <2>2. Bit(v, j) = 0 /\ j \in 0 .. Width - 1
      BY <1>0, <1>3, <2>1
    <2>3. Width - i = j \/ (Width - i < j /\ Width - i \in 0 .. Width - 1)
      BY <1>0, <2>1
    <2> HIDE DEF j
    <2> QED  BY <2>2, <2>3 DEF valid_mask, v
  <1>5. v = 2 ^ Width - 2 ^ (Width - n)
    BY <1>0, <1>3, <1>4, LeadingOnes
  <1> QED  BY <1>3, <1>5 DEF Ones, v, n

(* THEOREM PrefixReturns: the mask prefix_to_mask writes into a snapshot is   *)
(* the number its prefix stands for, and nmcli_mask_to_prefix reads the same  *)
(* prefix out of it, for every prefix and octets of every width.              *)
THEOREM PrefixReturns ==
    ASSUME NEW n \in 0 .. Width
    PROVE  /\ Value(prefix_to_mask(n)) = Ones(n)
           /\ nmcli_mask_to_prefix(prefix_to_mask(n)) = n
  <1> DEFINE b == 2 ^ OctetBits
             m == IF n = 0 THEN 0 ELSE ((2 ^ Width - 1) * 2 ^ (Width - n)) % 2 ^ Width
             s == prefix_to_mask(n)
  <1>0. /\ b \in Nat \ {0} /\ 2 ^ Width = ((b * b) * b) * b /\ Width \in Nat
        /\ 2 ^ (Width - 1 * OctetBits) = (b * b) * b
        /\ 2 ^ (Width - 2 * OctetBits) = b * b
        /\ 2 ^ (Width - 3 * OctetBits) = b
        /\ 2 ^ (Width - 4 * OctetBits) = 1
    BY Bases
  <1>1. m = Ones(n) /\ m \in 0 .. 2 ^ Width - 1
    BY <1>0, PrefixNumber DEF Ones
  <1>2. s = [i \in 1 .. 4 |-> (m \div 2 ^ (Width - i * OctetBits)) % b]
    BY DEF prefix_to_mask
  <1> HIDE DEF m, s, b
  <1>3. /\ s[1] = (m \div ((b * b) * b)) % b
        /\ s[2] = (m \div (b * b)) % b
        /\ s[3] = (m \div b) % b
        /\ s[4] = (m \div 1) % b
        /\ Len(s) = 4
    <2>1. s[1] = (m \div 2 ^ (Width - 1 * OctetBits)) % b
      BY <1>2
    <2>2. s[2] = (m \div 2 ^ (Width - 2 * OctetBits)) % b
      BY <1>2
    <2>3. s[3] = (m \div 2 ^ (Width - 3 * OctetBits)) % b
      BY <1>2
    <2>4. s[4] = (m \div 2 ^ (Width - 4 * OctetBits)) % b
      BY <1>2
    <2>5. Len(s) = 4
      <3>1. DOMAIN s = 1 .. 4 /\ 4 \in Nat
        BY <1>2
      <3>2. s \in Seq({s[i] : i \in 1 .. 4})
        <4>1. s = [i \in 1 .. 4 |-> s[i]]
          BY <1>2
        <4> QED  BY <3>1, <4>1
      <3> QED  BY <3>1, <3>2
    <2> QED  BY <1>0, <2>1, <2>2, <2>3, <2>4, <2>5
  <1>4. m \div 1 = m
    <2>1. m \in Nat
      BY <1>0, <1>1
    <2> QED  BY <2>1
  <1>5. Value(s) = ((s[1] * b + s[2]) * b + s[3]) * b + s[4]
    BY <1>3 DEF Value, b
  <1>6. Value(s) = m
    <2>1. m \in 0 .. ((b * b) * b) * b - 1
      BY <1>0, <1>1
    <2>2. b \in Nat \ {0}
      BY <1>0
    <2>3. ((((m \div ((b * b) * b)) % b) * b + ((m \div (b * b)) % b)) * b
             + ((m \div b) % b)) * b + (m % b) = m
      BY <2>1, <2>2, Digits
    <2>4. s[4] = m % b
      BY <1>3, <1>4
    <2> QED  BY <1>3, <1>5, <2>3, <2>4, Zenon
  <1> DEFINE v == Value(s)
             counted(k) == /\ \A i \in 1 .. k : Bit(v, Width - i) = 1
                           /\ k < Width => Bit(v, Width - k - 1) = 0
  <1>7. \A i \in 0 .. Width - 1 : Bit(v, i) = IF i < Width - n THEN 0 ELSE 1
    <2>1. v = 2 ^ Width - 2 ^ (Width - n)
      BY <1>1, <1>6 DEF Ones
    <2> HIDE DEF v
    <2> QED  BY <1>0, <2>1, MaskBits
  <1> HIDE DEF v
  <1>8. counted(n)
    <2>1. \A i \in 1 .. n : Bit(v, Width - i) = 1
      <3> TAKE i \in 1 .. n
      <3> DEFINE j == Width - i
      <3>1. j \in 0 .. Width - 1 /\ ~ (j < Width - n)
        BY <1>0
      <3> HIDE DEF j
      <3>2. Bit(v, j) = 1
        BY <1>7, <3>1
      <3> QED  BY <3>2 DEF j
    <2>2. n < Width => Bit(v, Width - n - 1) = 0
      <3> HAVE n < Width
      <3> DEFINE j == Width - n - 1
      <3>1. j \in 0 .. Width - 1 /\ j < Width - n
        BY <1>0
      <3> HIDE DEF j
      <3>2. Bit(v, j) = 0
        BY <1>7, <3>1
      <3> QED  BY <3>2 DEF j
    <2> QED  BY <2>1, <2>2
  <1>9. ASSUME NEW k \in 0 .. Width, counted(k) PROVE k = n
    <2>1. CASE k < n
      <3> DEFINE j == Width - k - 1
      <3>1. j \in 0 .. Width - 1 /\ ~ (j < Width - n) /\ k < Width
        BY <1>0, <2>1
      <3>2. Bit(v, j) = 0
        BY <1>9, <3>1
      <3> HIDE DEF j
      <3>3. Bit(v, j) = 1
        BY <1>7, <3>1
      <3> QED  BY <3>2, <3>3
    <2>2. CASE k > n
      <3> DEFINE j == Width - (n + 1)
      <3>1. j \in 0 .. Width - 1 /\ j < Width - n /\ n + 1 \in 1 .. k
        BY <1>0, <2>2
      <3>2. Bit(v, j) = 1
        BY <1>9, <3>1
      <3> HIDE DEF j
      <3>3. Bit(v, j) = 0
        BY <1>7, <3>1
      <3> QED  BY <3>2, <3>3
    <2> QED  BY <1>0, <2>1, <2>2
  <1>10. nmcli_mask_to_prefix(s) = CHOOSE k \in 0 .. Width : counted(k)
    BY DEF nmcli_mask_to_prefix, v
  <1> HIDE DEF counted
  <1>11. nmcli_mask_to_prefix(s) = n
    BY <1>8, <1>9, <1>10
  <1> QED  BY <1>1, <1>6, <1>11 DEF s

-----------------------------------------------------------------------------
(* Types *)

OldAddr(p) == Cidr(req[p].old.ip, req[p].old.mask)

(* A snapshot, converted back, is an address NetworkManager has had.         *)
Snapshots == \A p \in Procs : OldAddr(p) \in Addrs \cup {NoAddr}

(* The changes of eth0 that are yet to be put on record                      *)
Unwritten == {q \in Procs : /\ req[q].pc \in SetSteps \ {"timer"}
                            /\ req[q].nic = Eth0}
Counted == stamp + Cardinality(Unwritten) =< MaxChanges

Filled ==
    \A p \in Procs : /\ InSet(p) => req[p].cfg \in Valid
                     /\ req[p].pc \in {"open", "write", "timer"} => req[p].nic = Eth0

Eth0Has == profile[Eth0].addr \in Addrs

(* What is in effect on eth0 depends on the cable.                           *)
Wired == IF link[Eth0] THEN eff[Eth0].addr \in Addrs
                       ELSE eff[Eth0].addr = NoAddr

TypeInv == TypeOK /\ Snapshots /\ Counted /\ Filled /\ Eth0Has /\ Wired

-----------------------------------------------------------------------------
(* Changes made one after the other *)

Before == {"modify", "clear", "drop", "open", "write"}

OneByOne == faults \cap {"overlap", "crash_in_set", "no_write"} = {}

Alone ==
    \A p \in Procs : InSet(p) =>
       /\ \A q \in Procs : InSet(q) => q = p
       /\ \A d \in Dogs : dog[d].pc = "off"

(* Until a change is on record no login is about to confirm anything.        *)
NotYet ==
    \A p \in Procs : req[p].pc \in Before =>
       /\ \A q \in Procs : req[q].pc # "rename"
       /\ IF req[p].pc = "write" THEN file.st = "empty" /\ p \in file.open
                                 ELSE file.st # "full" \/ file.confirmed

(* What a rollback goes back to has been used for a login.                   *)
OldVouched ==
    /\ file.st = "full" => file.old.addr \in vouched \cup {NoAddr}
    /\ \A p \in Procs :
         /\ req[p].pc \in Before /\ req[p].nic = Eth0 =>
               OldAddr(p) \in vouched \cup {NoAddr}
         /\ req[p].pc = "rename" => /\ req[p].rec.st = "full"
                                    /\ req[p].rec.old.addr \in vouched \cup {NoAddr}

Changing(p, steps) == req[p].nic = Eth0 /\ req[p].pc \in steps

(* The profile and what is in effect differ only while a change is made, or   *)
(* after a restored profile.                                                 *)
Together ==
    \/ \E p \in Procs : Changing(p, {"clear", "drop"})
    \/ profile[Eth0].addr \in vouched
    \/ link[Eth0] => eff[Eth0].addr = profile[Eth0].addr

(* Whatever happens next, eth0 has an address somebody has logged in to.     *)
Secure == /\ profile[Eth0].addr \in vouched
          /\ link[Eth0] => eff[Eth0].addr \in vouched

Recorded == file.st = "full" /\ ~file.confirmed /\ sshAt < file.id

Kept ==
    \/ \E p \in Procs : Changing(p, Before \ {"modify"})
    \/ Secure
    \/ Recorded

SecureAt ==
    /\ (\E p \in Procs : req[p].pc = "rename") => Secure
    /\ (\E d \in Dogs : dog[d].pc \in {"keep", "rm"}) => Secure
    /\ (\E d \in Dogs : dog[d].pc = "up") => profile[Eth0].addr \in vouched

Order == Alone /\ NotYet /\ OldVouched /\ Together /\ Kept /\ SecureAt

OrderInv == sshAt =< stamp /\ (OneByOne => Order)

-----------------------------------------------------------------------------
(* Nothing fails *)

LinkUp == \A n \in Nics : link[n]

OldKnown ==
    /\ file.st = "full" => file.old.addr # NoAddr
    /\ \A p \in Procs :
         /\ req[p].pc \in Before /\ req[p].nic = Eth0 => OldAddr(p) # NoAddr
         /\ req[p].pc = "rename" => req[p].rec.old.addr # NoAddr

(* A change that is not settled has a timer, or a watchdog at work.          *)
Pending ==
    \/ \E p \in Procs : Changing(p, SetSteps \ {"modify"})
    \/ Secure
    \/ \E d \in Dogs : dog[d].pc # "off"

Clean == LinkUp /\ OldKnown /\ Pending

CleanInv == faults = {} => Clean

-----------------------------------------------------------------------------
(* The gateway *)

(* A gateway in the profile of a connected port is in effect, except while    *)
(* the profile is changed.                                                   *)
GatewaysActive ==
    \A n \in Nics : link[n] /\ profile[n].gw =>
       \/ eff[n].gw
       \/ \E p \in Procs : req[p].nic = n /\ req[p].pc \in {"clear", "drop"}
       \/ n = Eth0 /\ \E d \in Dogs : dog[d].pc = "up"

(* What clear_gateway_others has done so far                                 *)
Swept ==
    \A p \in Procs :
       /\ req[p].pc \in {"open", "write", "timer"} => req[p].todo = {}
       /\ req[p].pc \in SetSteps \ {"modify"} /\ req[p].cfg.gateway # None =>
            \A n \in Nics \ {req[p].nic} :
               profile[n].gw => n \in req[p].todo \cup req[p].dark

Gateway == Alone /\ GatewaysActive /\ Swept

GatewayInv == faults \cap {"overlap", "nm_error"} = {} => Gateway

-----------------------------------------------------------------------------
(* Addresses *)

(* LEMMA AddrFacts: an address NetworkManager has accepted was typed, mask    *)
(* and all, and is not the empty one.                                         *)
LEMMA AddrFacts ==
    ASSUME NEW a \in Addrs
    PROVE  /\ a.prefix \in 0 .. Width
           /\ a = [ip |-> a.ip, prefix |-> a.prefix]
           /\ <<a.ip, Ones(a.prefix)>> \in Typed
           /\ a # NoAddr
  <1>1. PICK f \in Valid : a = Cidr(f.ip, f.mask)
    BY DEF Addrs
  <1>2. f \in Forms /\ valid_mask(f.mask)
    BY DEF Valid, nmcli_validate_params
  <1>3. a.prefix \in 0 .. Width /\ Value(f.mask) = Ones(a.prefix)
    BY <1>1, <1>2, MaskNumber DEF Cidr
  <1>4. f.ip # None
    BY RollbackAssumption
  <1> QED  BY <1>1, <1>2, <1>3, <1>4 DEF Cidr, Typed, NoAddr

(* LEMMA RoundTrip: the record has the address the snapshot was taken of.     *)
LEMMA RoundTrip ==
    ASSUME NEW a \in Addrs
    PROVE  Cidr(a.ip, prefix_to_mask(a.prefix)) = a
  BY AddrFacts, PrefixReturns DEF Cidr

(* LEMMA SnapshotFacts: so for a port without an address.                     *)
LEMMA SnapshotFacts ==
    ASSUME NEW n \in Nics, eff \in [Nics -> Config]
    PROVE  /\ nmcli_get_config(n) \in NicConfig
           /\ Cidr(nmcli_get_config(n).ip, nmcli_get_config(n).mask) = eff[n].addr
  <1>0. eff[n].addr \in Addrs \cup {NoAddr} /\ eff[n].gw \in BOOLEAN
    BY DEF Config
  <1>1. CASE eff[n].addr = NoAddr
    <2>1. eff[n].addr.ip = None
      BY <1>1 DEF NoAddr, Cidr
    <2> QED  BY <1>0, <1>1, <2>1 DEF nmcli_get_config, NicConfig, NoAddr
  <1>2. CASE eff[n].addr # NoAddr
    <2>1. eff[n].addr \in Addrs
      BY <1>0, <1>2
    <2>2. nmcli_get_config(n) = [ip |-> eff[n].addr.ip, gw |-> eff[n].gw,
                                 mask |-> prefix_to_mask(eff[n].addr.prefix)]
      BY <1>2 DEF nmcli_get_config
    <2> QED  BY <1>0, <2>1, <2>2, RoundTrip DEF NicConfig
  <1> QED  BY <1>1, <1>2

(* LEMMA ActivatedFacts: bringing a port up.                                  *)
LEMMA ActivatedFacts ==
    ASSUME NEW n \in Nics, NEW prof \in [Nics -> Config], NEW lnk
    PROVE  /\ Activated(n, prof, lnk) \in Config
           /\ lnk[n] => Activated(n, prof, lnk) = prof[n]
           /\ ~lnk[n] => Activated(n, prof, lnk).addr = NoAddr
  BY DEF Activated, NoConfig, Config

-----------------------------------------------------------------------------
(* Processes *)

(* LEMMA IdleFacts: what starts empty. *)
LEMMA IdleFacts ==
    /\ Idle \in Request
    /\ Idle.pc = "idle"
    /\ Idle.rec = NoFile
    /\ Idle.nic = Eth0 /\ Idle.todo = {} /\ Idle.port = Eth0 /\ Idle.dark = {}
    /\ Cidr(Idle.old.ip, Idle.old.mask) = NoAddr
    /\ NoFile \in RollbackFile
    /\ Asleep \in Dog
  BY RollbackAssumption
     DEF Idle, Request, NoNicConfig, NicConfig, NoFile, RollbackFile, NoConfig, Config,
         NoAddr, Asleep, Dog, NoForm

(* LEMMA GotoFacts: a request that goes on. *)
LEMMA GotoFacts ==
    ASSUME TypeOK, NEW p \in Procs, NEW c \in SetSteps, Goto(p, c)
    PROVE  /\ req' \in [Procs -> Request]
           /\ dog' = dog
           /\ \A q \in Procs : q # p => req'[q] = req[q]
           /\ req'[p].pc = c
           /\ req'[p].nic = req[p].nic
           /\ req'[p].cfg = req[p].cfg
           /\ req'[p].old = req[p].old
           /\ req'[p].rec = req[p].rec
           /\ req'[p].todo = req[p].todo
           /\ req'[p].dark = req[p].dark
  BY DEF TypeOK, Goto, Request

(* LEMMA WithoutFacts: a request or timer nothing waits for any more. *)
LEMMA WithoutFacts ==
    ASSUME TypeOK, NEW x
    PROVE  /\ Without(dog, x) \in [Dogs -> Dog]
           /\ \A d \in Dogs : Without(dog, x)[d].pc = dog[d].pc
  BY DEF TypeOK, Without, Dog

(* LEMMA FinishFacts: a request that ends. *)
LEMMA FinishFacts ==
    ASSUME TypeOK, NEW p \in Procs, Finish(p)
    PROVE  /\ req' \in [Procs -> Request]
           /\ dog' \in [Dogs -> Dog]
           /\ \A d \in Dogs : dog'[d].pc = dog[d].pc
           /\ \A q \in Procs : q # p => req'[q] = req[q]
           /\ req'[p] = Idle
  BY IdleFacts, WithoutFacts DEF TypeOK, Finish

(* LEMMA DogGotoFacts: a watchdog that goes on. *)
LEMMA DogGotoFacts ==
    ASSUME TypeOK, NEW d \in Dogs, NEW c,
           c \in {"off", "armed", "read", "keep", "restore", "up", "rm"}, DogGoto(d, c)
    PROVE  /\ dog' \in [Dogs -> Dog]
           /\ \A e \in Dogs : e # d => dog'[e] = dog[e]
           /\ dog'[d].pc = c
  BY DEF TypeOK, DogGoto, Dog

-----------------------------------------------------------------------------
(* Every step keeps the types *)

(* LEMMA CountFacts: a step that puts no change on record and begins none.    *)
LEMMA CountFacts ==
    ASSUME TypeInv, stamp' = stamp, Unwritten' \subseteq Unwritten
    PROVE  Counted'
  <1>1. IsFiniteSet(Unwritten) /\ stamp \in Nat /\ MaxChanges \in Nat
    BY RollbackAssumption, FS_Subset DEF Unwritten, TypeInv, TypeOK
  <1>2. /\ IsFiniteSet(Unwritten') /\ Cardinality(Unwritten') =< Cardinality(Unwritten)
    BY <1>1, FS_Subset
  <1>3. Cardinality(Unwritten) \in Nat /\ Cardinality(Unwritten') \in Nat
    BY <1>1, <1>2, FS_CardinalityType
  <1>4. Counted
    BY DEF TypeInv
  <1> QED  BY <1>1, <1>2, <1>3, <1>4 DEF Counted

(* LEMMA SameReq: for steps of other processes. *)
LEMMA SameReq ==
    ASSUME TypeInv, req' = req, stamp' = stamp
    PROVE  Snapshots' /\ Counted' /\ Filled'
  <1>1. Unwritten' = Unwritten
    BY DEF Unwritten
  <1>2. Counted'
    BY <1>1, CountFacts
  <1> QED  BY <1>2 DEF TypeInv, Snapshots, OldAddr, Filled, InSet

(* LEMMA OneReq: for a step of p that does not take a new form. *)
LEMMA OneReq ==
    ASSUME TypeInv, NEW p \in Procs, stamp' = stamp,
           \A q \in Procs : q # p => req'[q] = req[q],
           \/ /\ req[p].pc \in SetSteps \ {"timer"}
              /\ req'[p].nic = req[p].nic
              /\ req'[p].cfg = req[p].cfg
              /\ req'[p].old = req[p].old
              /\ req'[p].pc \in {"open", "write", "timer"} => req[p].nic = Eth0
           \/ /\ OldAddr(p)' = NoAddr
              /\ req'[p].pc \in {"idle", "rename"}
    PROVE  Snapshots' /\ Counted' /\ Filled'
  <1>1. Unwritten' \subseteq Unwritten
    BY DEF Unwritten, SetSteps
  <1>2. Counted'
    BY <1>1, CountFacts
  <1>3. \A q \in Procs \ {p} : OldAddr(q)' = OldAddr(q)
    BY DEF OldAddr
  <1>4. OldAddr(p)' \in Addrs \cup {NoAddr}
    BY DEF OldAddr, TypeInv, Snapshots
  <1>5. Snapshots'
    BY <1>3, <1>4 DEF TypeInv, Snapshots
  <1>6. Filled'
    BY DEF TypeInv, Filled, InSet, SetSteps
  <1> QED  BY <1>2, <1>5, <1>6

(* LEMMA SameEth0: for steps that leave the ports alone. *)
LEMMA SameEth0 ==
    ASSUME TypeInv, profile' = profile, eff' = eff, link' = link
    PROVE  Eth0Has' /\ Wired'
  BY DEF TypeInv, Eth0Has, Wired

(* LEMMA SameWorld: for steps that change only processes and the file.        *)
LEMMA SameWorld ==
    ASSUME TypeInv, UNCHANGED <<profile, eff, link, world>>,
           file' \in RollbackFile, req' \in [Procs -> Request], dog' \in [Dogs -> Dog]
    PROVE  TypeOK'
  BY DEF TypeInv, TypeOK, world

(* LEMMA StartFacts: what SetStart does. *)
LEMMA StartFacts ==
    ASSUME TypeInv, NEW p \in Procs, SetStart(p)
    PROVE  /\ req' \in [Procs -> Request]
           /\ \A q \in Procs : q # p => req'[q] = req[q]
           /\ req'[p].pc = "modify"
           /\ req'[p].nic \in Nics
           /\ req'[p].cfg \in Valid
           /\ OldAddr(p)' \in Addrs \cup {NoAddr}
           /\ req'[p].nic = Eth0 =>
                /\ OldAddr(p)' = eff[Eth0].addr
                /\ stamp + Cardinality({q \in Procs : InSet(q) /\ req[q].nic = Eth0})
                     < MaxChanges
  <1>1. PICK n \in Nics, c \in Valid :
         /\ n = Eth0 =>
              stamp + Cardinality({q \in Procs : InSet(q) /\ req[q].nic = Eth0})
                < MaxChanges
         /\ req' = [req EXCEPT ![p] =
                      [Idle EXCEPT !.pc = "modify", !.nic = n, !.cfg = c,
                                   !.old = IF n = Eth0 THEN nmcli_get_config(n)
                                          ELSE NoNicConfig]]
    BY DEF SetStart
  <1>0. TypeOK
    BY DEF TypeInv
  <1> DEFINE o == IF n = Eth0 THEN nmcli_get_config(n) ELSE NoNicConfig
             r == [Idle EXCEPT !.pc = "modify", !.nic = n, !.cfg = c, !.old = o]
  <1>2. /\ o \in NicConfig /\ Cidr(o.ip, o.mask) \in Addrs \cup {NoAddr}
        /\ n = Eth0 => Cidr(o.ip, o.mask) = eff[Eth0].addr
    <2>1. CASE n = Eth0
      BY <1>0, <2>1, SnapshotFacts DEF TypeOK, Config
    <2>2. CASE n # Eth0
      BY <2>2 DEF NoNicConfig, NicConfig, NoAddr
    <2> QED  BY <2>1, <2>2
  <1> HIDE DEF o
  <1>3. r \in Request /\ r.pc = "modify" /\ r.nic = n /\ r.cfg = c /\ r.old = o
    BY <1>2, IdleFacts DEF Idle, Request, SetSteps
  <1>4. req' = [req EXCEPT ![p] = r]
    BY <1>1 DEF o
  <1> HIDE DEF r
  <1>5. /\ req' \in [Procs -> Request]
        /\ \A q \in Procs : q # p => req'[q] = req[q]
        /\ req'[p] = r
    BY <1>0, <1>3, <1>4 DEF TypeOK
  <1>6. OldAddr(p)' = Cidr(o.ip, o.mask)
    BY <1>3, <1>5 DEF OldAddr
  <1> QED  BY <1>1, <1>2, <1>3, <1>5, <1>6

(* LEMMA TypeSetStart: the bound on changes is kept. *)
LEMMA TypeSetStart ==
    ASSUME TypeInv, NEW p \in Procs, SetStart(p)
    PROVE  TypeInv'
  <1>0. TypeOK /\ UNCHANGED <<profile, eff, link, file, dog, world>>
    BY DEF SetStart, TypeInv
  <1>6. TypeOK'
    BY <1>0, StartFacts, SameWorld DEF TypeOK
  <1>7. Snapshots'
    <2>1. \A q \in Procs \ {p} : OldAddr(q)' = OldAddr(q)
      BY StartFacts DEF OldAddr
    <2> QED  BY <2>1, StartFacts DEF TypeInv, Snapshots
  <1>8. Filled'
    BY StartFacts DEF TypeInv, Filled, InSet, SetSteps
  <1>9. Counted'
    <2>1. CASE req'[p].nic = Eth0
      <3> DEFINE S == {q \in Procs : InSet(q) /\ req[q].nic = Eth0}
      <3>1. IsFiniteSet(S) /\ IsFiniteSet(S \cup {p})
        BY RollbackAssumption, FS_Subset, FS_AddElement
      <3>2. Unwritten' \subseteq S \cup {p}
        BY StartFacts DEF Unwritten, InSet
      <3>3. Cardinality(S \cup {p}) =< Cardinality(S) + 1
        <4>1. Cardinality(S) \in Nat
          BY <3>1, FS_CardinalityType
        <4>2. CASE p \in S
          <5>1. S \cup {p} = S
            BY <4>2
          <5>2. Cardinality(S \cup {p}) = Cardinality(S)
            BY <5>1, Zenon
          <5> HIDE DEF S
          <5> QED  BY <4>1, <5>2
        <4>3. CASE p \notin S
          <5> HIDE DEF S
          <5> QED  BY <3>1, <4>1, <4>3, FS_AddElement
        <4> QED  BY <4>2, <4>3
      <3>4. Cardinality(Unwritten') =< Cardinality(S \cup {p}) /\ IsFiniteSet(Unwritten')
        BY <3>1, <3>2, FS_Subset
      <3>5. /\ Cardinality(S) \in Nat /\ Cardinality(S \cup {p}) \in Nat
            /\ Cardinality(Unwritten') \in Nat
        BY <3>1, <3>4, FS_CardinalityType
      <3>6. stamp + Cardinality(S) < MaxChanges /\ stamp \in Nat /\ stamp' = stamp
        BY <1>0, <2>1, StartFacts DEF TypeOK, world
      <3> HIDE DEF S
      <3> QED  BY <3>3, <3>4, <3>5, <3>6, RollbackAssumption DEF Counted
    <2>2. CASE req'[p].nic # Eth0
      <3>1. Unwritten' \subseteq Unwritten
        BY <2>2, StartFacts DEF Unwritten
      <3> QED  BY <1>0, <3>1, CountFacts DEF world
    <2> QED  BY <2>1, <2>2
  <1> QED  BY <1>0, <1>6, <1>7, <1>8, <1>9, SameEth0 DEF TypeInv

(* LEMMA AcceptedAddr: what NetworkManager accepts. *)
LEMMA AcceptedAddr ==
    ASSUME NEW f \in Valid, nmcli_accepts(f)
    PROVE  Cidr(f.ip, f.mask) \in Addrs
  BY DEF Addrs

(* LEMMA ModifyFacts: what SetModify does. *)
LEMMA ModifyFacts ==
    ASSUME TypeInv, NEW p \in Procs, SetModify(p)
    PROVE  /\ profile' \in [Nics -> Config]
           /\ \A n \in Nics \ {req[p].nic} : profile'[n] = profile[n]
           /\ req' \in [Procs -> Request] /\ dog' \in [Dogs -> Dog]
           /\ \A d \in Dogs : dog'[d].pc = dog[d].pc
           /\ \A q \in Procs : q # p => req'[q] = req[q]
           /\ \/ /\ profile'[req[p].nic].addr \in Addrs
                 /\ profile'[req[p].nic].gw = (req[p].cfg.gateway # None)
                 /\ req'[p].pc = "clear"
                 /\ req'[p].nic = req[p].nic
                 /\ req'[p].cfg = req[p].cfg
                 /\ req'[p].old = req[p].old
                 /\ req[p].cfg.gateway # None => req'[p].todo = Nics \ {req[p].nic}
              \/ profile' = profile /\ req'[p] = Idle
  <1>0. TypeOK /\ req[p].pc = "modify" /\ req[p].cfg \in Valid /\ req[p].nic \in Nics
    BY DEF TypeInv, TypeOK, Filled, InSet, SetSteps, SetModify, Request
  <1>1. CASE nmcli_accepts(req[p].cfg)
             /\ profile' = [profile EXCEPT ![req[p].nic] =
                           [addr |-> Cidr(req[p].cfg.ip, req[p].cfg.mask),
                            gw |-> req[p].cfg.gateway # None]]
             /\ req' = [req EXCEPT ![p].pc = "clear",
                                   ![p].todo = IF req[p].cfg.gateway # None
                                               THEN other_ports(req[p].nic) ELSE {}]
             /\ UNCHANGED dog
    <2> DEFINE n == req[p].nic
               t == IF req[p].cfg.gateway # None THEN Nics \ {req[p].nic} ELSE {}
               a == Cidr(req[p].cfg.ip, req[p].cfg.mask)
               g == req[p].cfg.gateway # None
    <2>1. a \in Addrs /\ g \in BOOLEAN /\ t \in SUBSET Nics
      BY <1>0, <1>1, AcceptedAddr
    <2>2. /\ profile' = [profile EXCEPT ![n] = [addr |-> a, gw |-> g]]
          /\ req' = [req EXCEPT ![p].pc = "clear", ![p].todo = t]
      BY <1>1 DEF other_ports
    <2>3. n \in Nics /\ profile \in [Nics -> Config] /\ req \in [Procs -> Request]
      BY <1>0 DEF TypeOK
    <2> HIDE DEF n, a, g, t
    <2>4. [addr |-> a, gw |-> g] \in Config
      BY <2>1 DEF Config
    <2>5. /\ profile' \in [Nics -> Config]
          /\ \A k \in Nics \ {n} : profile'[k] = profile[k]
          /\ profile'[n] = [addr |-> a, gw |-> g]
      BY <2>2, <2>3, <2>4
    <2>6. profile'[n].addr = a /\ profile'[n].gw = g
      BY <2>5
    <2>7. /\ req' \in [Procs -> Request]
          /\ \A q \in Procs : q # p => req'[q] = req[q]
          /\ req'[p].pc = "clear"
          /\ req'[p].nic = req[p].nic
          /\ req'[p].cfg = req[p].cfg
          /\ req'[p].old = req[p].old
          /\ req'[p].todo = t
      BY <2>1, <2>2, <2>3 DEF Request, SetSteps
    <2>8. dog' \in [Dogs -> Dog] /\ \A d \in Dogs : dog'[d].pc = dog[d].pc
      BY <1>0, <1>1 DEF TypeOK
    <2> QED  BY <2>1, <2>5, <2>6, <2>7, <2>8 DEF n, g, t
  <1>2. CASE Finish(p) /\ UNCHANGED profile
    BY <1>0, <1>2, FinishFacts DEF TypeOK
  <1> QED  BY <1>1, <1>2 DEF SetModify

(* LEMMA TypeSetModify: SetModify keeps the types. *)
LEMMA TypeSetModify ==
    ASSUME TypeInv, NEW p \in Procs, SetModify(p)
    PROVE  TypeInv'
  <1>0. TypeOK /\ req[p].pc = "modify" /\ UNCHANGED <<eff, link, file, world>>
    BY DEF TypeInv, SetModify
  <1>1. TypeOK'
    BY <1>0, ModifyFacts DEF TypeOK, world
  <1>2. Eth0Has' /\ Wired'
    <2>1. profile'[Eth0].addr \in Addrs
      BY ModifyFacts, RollbackAssumption DEF TypeInv, Eth0Has
    <2> QED  BY <1>0, <2>1 DEF TypeInv, Eth0Has, Wired
  <1>3. stamp' = stamp
    BY <1>0 DEF world
  <1>4. Snapshots' /\ Counted' /\ Filled'
    <2>1. \/ /\ req[p].pc \in SetSteps \ {"timer"}
             /\ req'[p].nic = req[p].nic
             /\ req'[p].cfg = req[p].cfg
             /\ req'[p].old = req[p].old
             /\ req'[p].pc \in {"open", "write", "timer"} => req[p].nic = Eth0
          \/ /\ OldAddr(p)' = NoAddr
             /\ req'[p].pc \in {"idle", "rename"}
      BY <1>0, ModifyFacts, IdleFacts DEF SetSteps, OldAddr
    <2> QED  BY <1>3, <2>1, ModifyFacts, OneReq
  <1> QED  BY <1>1, <1>2, <1>4 DEF TypeInv

(* LEMMA ShowFacts: what SetShow does. *)
LEMMA ShowFacts ==
    ASSUME TypeInv, NEW p \in Procs, SetShow(p)
    PROVE  /\ req' \in [Procs -> Request]
           /\ \A q \in Procs : q # p => req'[q] = req[q]
           /\ req'[p].pc \in {"clear", "drop"}
           /\ req'[p].nic = req[p].nic
           /\ req'[p].cfg = req[p].cfg
           /\ req'[p].old = req[p].old
           /\ req[p].dark \subseteq req'[p].dark
           /\ \A n \in Nics : n \notin req'[p].todo =>
                \/ n \notin req[p].todo
                \/ "nm_error" \in faults
                \/ ~eff[n].gw /\ (link[n] \/ n \in req'[p].dark)
  <1>0. /\ req \in [Procs -> Request] /\ req[p].todo \in SUBSET Nics
        /\ req[p].dark \in SUBSET Nics
    BY DEF TypeInv, TypeOK, Request
  <1>1. PICK n \in req[p].todo :
         \/ /\ nmcli_get_config(n).gw
            /\ req' = [req EXCEPT ![p].pc = "drop", ![p].port = n]
         \/ /\ ~nmcli_get_config(n).gw \/ nmcli_run_fails
            /\ req' = [req EXCEPT ![p].todo = @ \ {n},
                                  ![p].dark = @ \cup {m \in {n} : ~link[m]}]
    BY DEF SetShow
  <1>2. n \in Nics /\ req[p].pc = "clear"
    BY <1>0 DEF SetShow
  <1>3. CASE req' = [req EXCEPT ![p].pc = "drop", ![p].port = n]
    BY <1>0, <1>2, <1>3 DEF Request, SetSteps
  <1>4. CASE /\ ~nmcli_get_config(n).gw \/ nmcli_run_fails
             /\ req' = [req EXCEPT ![p].todo = @ \ {n},
                                   ![p].dark = @ \cup {m \in {n} : ~link[m]}]
    <2> DEFINE t == req[p].todo \ {n}
               k == req[p].dark \cup {m \in {n} : ~link[m]}
    <2>1. t \in SUBSET Nics /\ k \in SUBSET Nics /\ req[p].dark \subseteq k
      BY <1>0, <1>2
    <2>2. ~link[n] => n \in k
      OBVIOUS
    <2>3. \A m \in Nics : m \notin t => m \notin req[p].todo \/ m = n
      OBVIOUS
    <2>4. req' = [req EXCEPT ![p].todo = t, ![p].dark = k]
      BY <1>0, <1>4
    <2> HIDE DEF t, k
    <2>5. /\ req' \in [Procs -> Request]
          /\ \A q \in Procs : q # p => req'[q] = req[q]
          /\ req'[p].pc = req[p].pc /\ req'[p].nic = req[p].nic
          /\ req'[p].cfg = req[p].cfg /\ req'[p].old = req[p].old
          /\ req'[p].todo = t /\ req'[p].dark = k
      BY <1>0, <2>1, <2>4 DEF Request
    <2>6. ~eff[n].gw \/ "nm_error" \in faults
      BY <1>4 DEF nmcli_get_config, nmcli_run_fails
    <2> QED  BY <1>2, <2>1, <2>2, <2>3, <2>5, <2>6
  <1> QED  BY <1>1, <1>3, <1>4

(* LEMMA DropFacts: what SetDrop does. *)
LEMMA DropFacts ==
    ASSUME TypeInv, NEW p \in Procs, SetDrop(p)
    PROVE  /\ profile' \in [Nics -> Config]
           /\ \A n \in Nics : /\ profile'[n].addr = profile[n].addr
                              /\ profile'[n].gw => profile[n].gw
           /\ req' \in [Procs -> Request]
           /\ \A q \in Procs : q # p => req'[q] = req[q]
           /\ req'[p].pc = "clear"
           /\ req'[p].nic = req[p].nic
           /\ req'[p].cfg = req[p].cfg
           /\ req'[p].old = req[p].old
           /\ req'[p].dark = req[p].dark
           /\ \A n \in Nics : n \notin req'[p].todo =>
                n \notin req[p].todo \/ "nm_error" \in faults \/ ~profile'[n].gw
  <1>0. /\ req \in [Procs -> Request] /\ profile \in [Nics -> Config]
        /\ req[p].todo \in SUBSET Nics /\ req[p].port \in Nics
    BY DEF TypeInv, TypeOK, Request
  <1> DEFINE n == req[p].port
             t == req[p].todo \ {n}
  <1>1. t \in SUBSET Nics /\ \A m \in Nics : m \notin t => m \notin req[p].todo \/ m = n
    BY <1>0
  <1>2. n \in Nics /\ req' = [req EXCEPT ![p].pc = "clear", ![p].todo = t]
    BY <1>0 DEF SetDrop
  <1>3. \/ profile' = [profile EXCEPT ![n].gw = FALSE]
        \/ "nm_error" \in faults /\ profile' = profile
    BY DEF SetDrop, nmcli_run_fails
  <1> HIDE DEF n, t
  <1>4. /\ req' \in [Procs -> Request]
        /\ \A q \in Procs : q # p => req'[q] = req[q]
        /\ req'[p].pc = "clear" /\ req'[p].nic = req[p].nic
        /\ req'[p].cfg = req[p].cfg /\ req'[p].old = req[p].old
        /\ req'[p].todo = t /\ req'[p].dark = req[p].dark
    BY <1>0, <1>1, <1>2 DEF Request, SetSteps
  <1>5. /\ profile' \in [Nics -> Config]
        /\ \A m \in Nics : /\ profile'[m].addr = profile[m].addr
                           /\ profile'[m].gw => profile[m].gw
        /\ ~profile'[n].gw \/ "nm_error" \in faults
    <2>1. CASE profile' = [profile EXCEPT ![n].gw = FALSE]
      BY <1>0, <1>2, <2>1 DEF Config
    <2>2. CASE "nm_error" \in faults /\ profile' = profile
      BY <1>0, <2>2
    <2> QED  BY <1>3, <2>1, <2>2
  <1> QED  BY <1>1, <1>4, <1>5

(* LEMMA SweepFacts: what the two steps of clear_gateway_others do.           *)
LEMMA SweepFacts ==
    ASSUME TypeInv, NEW p \in Procs, SetShow(p) \/ SetDrop(p)
    PROVE  /\ req[p].pc \in {"clear", "drop"}
           /\ profile' \in [Nics -> Config]
           /\ \A n \in Nics : /\ profile'[n].addr = profile[n].addr
                              /\ profile'[n].gw => profile[n].gw
           /\ req' \in [Procs -> Request]
           /\ dog' = dog
           /\ \A q \in Procs : q # p => req'[q] = req[q]
           /\ req'[p].pc \in {"clear", "drop"}
           /\ req'[p].nic = req[p].nic
           /\ req'[p].cfg = req[p].cfg
           /\ req'[p].old = req[p].old
           /\ UNCHANGED <<eff, link, file, world>>
  <1>1. CASE SetShow(p)
    <2>1. profile' = profile /\ profile \in [Nics -> Config]
      BY <1>1 DEF SetShow, TypeInv, TypeOK
    <2> QED  BY <1>1, <2>1, ShowFacts DEF SetShow
  <1>2. CASE SetDrop(p)
    BY <1>2, DropFacts DEF SetDrop
  <1> QED  BY <1>1, <1>2

(* LEMMA TypeSweep: they keep the types. *)
LEMMA TypeSweep ==
    ASSUME TypeInv, NEW p \in Procs, SetShow(p) \/ SetDrop(p)
    PROVE  TypeInv'
  <1>0. TypeOK /\ UNCHANGED <<eff, link, file, world>>
    BY SweepFacts DEF TypeInv
  <1>1. TypeOK'
    BY <1>0, SweepFacts DEF TypeOK, world
  <1>2. Eth0Has' /\ Wired'
    BY <1>0, SweepFacts, RollbackAssumption DEF TypeInv, Eth0Has, Wired
  <1>3. Snapshots' /\ Counted' /\ Filled'
    BY <1>0, SweepFacts, OneReq DEF SetSteps, world
  <1> QED  BY <1>1, <1>2, <1>3 DEF TypeInv

(* LEMMA UpFacts: what SetUp does. *)
LEMMA UpFacts ==
    ASSUME TypeInv, NEW p \in Procs, SetUp(p)
    PROVE  /\ eff' \in [Nics -> Config]
           /\ \A n \in Nics \ {req[p].nic} : eff'[n] = eff[n]
           /\ link[req[p].nic] => eff'[req[p].nic] = profile[req[p].nic]
           /\ ~link[req[p].nic] => eff'[req[p].nic].addr = NoAddr
           /\ req' \in [Procs -> Request] /\ dog' \in [Dogs -> Dog]
           /\ \A d \in Dogs : dog'[d].pc = dog[d].pc
           /\ \A q \in Procs : q # p => req'[q] = req[q]
           /\ \/ /\ req[p].nic = Eth0
                 /\ req'[p].pc = "open"
                 /\ req'[p].nic = req[p].nic
                 /\ req'[p].cfg = req[p].cfg
                 /\ req'[p].old = req[p].old
                 /\ req'[p].todo = {} /\ req[p].todo = {}
                 /\ req'[p].dark = req[p].dark
              \/ req[p].nic # Eth0 /\ req'[p] = Idle
  <1>0. TypeOK /\ req[p].nic \in Nics /\ profile \in [Nics -> Config] /\ eff \in [Nics -> Config]
    BY DEF TypeInv, TypeOK, Request
  <1> DEFINE n == req[p].nic
             e == Activated(n, profile, link)
  <1>1. eff' = [eff EXCEPT ![n] = e]
    BY DEF SetUp
  <1>2. e \in Config /\ (link[n] => e = profile[n]) /\ (~link[n] => e.addr = NoAddr)
    BY <1>0, ActivatedFacts
  <1>3. CASE req[p].nic = Eth0 /\ Goto(p, "open")
    <2>1. /\ req' \in [Procs -> Request]
          /\ dog' = dog
          /\ \A q \in Procs : q # p => req'[q] = req[q]
          /\ req'[p].pc = "open"
          /\ req'[p].nic = req[p].nic
          /\ req'[p].cfg = req[p].cfg
          /\ req'[p].old = req[p].old
          /\ req'[p].todo = req[p].todo /\ req[p].todo = {}
          /\ req'[p].dark = req[p].dark
      BY <1>0, <1>3, GotoFacts DEF SetSteps, SetUp
    <2>2. dog' \in [Dogs -> Dog]
      BY <1>0, <2>1 DEF TypeOK
    <2> HIDE DEF e
    <2> QED  BY <1>0, <1>1, <1>2, <1>3, <2>1, <2>2
  <1>4. CASE req[p].nic # Eth0 /\ Finish(p)
    <2>1. /\ req' \in [Procs -> Request]
          /\ dog' \in [Dogs -> Dog]
          /\ \A d \in Dogs : dog'[d].pc = dog[d].pc
          /\ \A q \in Procs : q # p => req'[q] = req[q]
          /\ req'[p] = Idle
      BY <1>0, <1>4, FinishFacts
    <2> HIDE DEF e
    <2> QED  BY <1>0, <1>1, <1>2, <1>4, <2>1
  <1> QED  BY <1>3, <1>4 DEF SetUp

(* LEMMA TypeSetUp: SetUp keeps the types. *)
LEMMA TypeSetUp ==
    ASSUME TypeInv, NEW p \in Procs, SetUp(p)
    PROVE  TypeInv'
  <1>0. TypeOK /\ req[p].pc = "clear" /\ UNCHANGED <<profile, link, file, world>>
    BY DEF TypeInv, SetUp
  <1>1. TypeOK'
    BY <1>0, UpFacts DEF TypeOK, world
  <1>2. Eth0Has' /\ Wired'
    BY <1>0, UpFacts, RollbackAssumption DEF TypeInv, Eth0Has, Wired
  <1>3. stamp' = stamp
    BY <1>0 DEF world
  <1>4. Snapshots' /\ Counted' /\ Filled'
    <2>1. \/ /\ req[p].pc \in SetSteps \ {"timer"}
             /\ req'[p].nic = req[p].nic
             /\ req'[p].cfg = req[p].cfg
             /\ req'[p].old = req[p].old
             /\ req'[p].pc \in {"open", "write", "timer"} => req[p].nic = Eth0
          \/ /\ OldAddr(p)' = NoAddr
             /\ req'[p].pc \in {"idle", "rename"}
      BY <1>0, UpFacts, IdleFacts DEF SetSteps, OldAddr
    <2> QED  BY <1>3, <2>1, UpFacts, OneReq
  <1> QED  BY <1>1, <1>2, <1>4 DEF TypeInv

(* LEMMA OpenFacts: what ArmOpen does. *)
LEMMA OpenFacts ==
    ASSUME TypeInv, NEW p \in Procs, ArmOpen(p)
    PROVE  /\ file' \in RollbackFile
           /\ req' \in [Procs -> Request] /\ dog' \in [Dogs -> Dog]
           /\ \A d \in Dogs : dog'[d].pc = dog[d].pc
           /\ \A q \in Procs : q # p => req'[q] = req[q]
           /\ \/ /\ file'.st = "empty" /\ p \in file'.open
                 /\ req'[p].pc = "write"
                 /\ req'[p].nic = req[p].nic
                 /\ req'[p].cfg = req[p].cfg
                 /\ req'[p].old = req[p].old
                 /\ req'[p].todo = req[p].todo
                 /\ req'[p].dark = req[p].dark
              \/ "no_write" \in faults /\ file' = file /\ req'[p] = Idle
  <1>0. TypeOK /\ file \in RollbackFile /\ file.open \subseteq Procs
    BY DEF TypeInv, TypeOK, RollbackFile
  <1>1. CASE /\ file' = [NoFile EXCEPT !.st = "empty", !.open = file.open \cup {p}]
             /\ Goto(p, "write")
    <2>1. /\ req' \in [Procs -> Request]
          /\ dog' = dog
          /\ \A q \in Procs : q # p => req'[q] = req[q]
          /\ req'[p].pc = "write"
          /\ req'[p].nic = req[p].nic
          /\ req'[p].cfg = req[p].cfg
          /\ req'[p].old = req[p].old
          /\ req'[p].todo = req[p].todo
          /\ req'[p].dark = req[p].dark
      BY <1>0, <1>1, GotoFacts DEF SetSteps
    <2>2. dog' \in [Dogs -> Dog]
      BY <1>0, <2>1 DEF TypeOK
    <2>3. file' \in RollbackFile /\ file'.st = "empty" /\ p \in file'.open
      <3> DEFINE o == file.open \cup {p}
      <3>1. o \in SUBSET Procs /\ p \in o
        BY <1>0
      <3> HIDE DEF o
      <3>2. file' = [NoFile EXCEPT !.st = "empty", !.open = o]
        BY <1>1 DEF o
      <3> QED  BY <3>1, <3>2, IdleFacts DEF NoFile, RollbackFile
    <2> QED  BY <2>1, <2>2, <2>3
  <1>2. CASE "no_write" \in faults /\ Finish(p) /\ UNCHANGED file
    BY <1>0, <1>2, FinishFacts
  <1> QED  BY <1>1, <1>2 DEF ArmOpen

(* LEMMA TypeArmOpen: ArmOpen keeps the types. *)
LEMMA TypeArmOpen ==
    ASSUME TypeInv, NEW p \in Procs, ArmOpen(p)
    PROVE  TypeInv'
  <1>0. TypeOK /\ req[p].pc = "open" /\ UNCHANGED <<profile, eff, link, world>>
    BY DEF TypeInv, ArmOpen
  <1>1. TypeOK'
    BY <1>0, OpenFacts, SameWorld
  <1>2. Eth0Has' /\ Wired'
    BY <1>0, SameEth0
  <1>3. stamp' = stamp /\ req[p].nic = Eth0
    BY <1>0 DEF world, TypeInv, Filled
  <1>4. Snapshots' /\ Counted' /\ Filled'
    <2>1. \/ /\ req[p].pc \in SetSteps \ {"timer"}
             /\ req'[p].nic = req[p].nic
             /\ req'[p].cfg = req[p].cfg
             /\ req'[p].old = req[p].old
             /\ req'[p].pc \in {"open", "write", "timer"} => req[p].nic = Eth0
          \/ /\ OldAddr(p)' = NoAddr
             /\ req'[p].pc \in {"idle", "rename"}
      BY <1>0, <1>3, OpenFacts, IdleFacts DEF SetSteps, OldAddr
    <2> QED  BY <1>3, <2>1, OpenFacts, OneReq
  <1> QED  BY <1>1, <1>2, <1>4 DEF TypeInv

(* LEMMA WriteFacts: what ArmWrite does; the bound on changes is kept.        *)
LEMMA WriteFacts ==
    ASSUME TypeInv, NEW p \in Procs, ArmWrite(p)
    PROVE  /\ stamp \in Nat /\ stamp' = stamp + 1 /\ stamp' \in 0 .. MaxChanges
           /\ Counted'
           /\ file' \in RollbackFile
           /\ req[p].nic = Eth0
           /\ req' \in [Procs -> Request] /\ dog' = dog
           /\ \A q \in Procs : q # p => req'[q] = req[q]
           /\ req'[p].pc = "timer"
           /\ req'[p].nic = req[p].nic
           /\ req'[p].cfg = req[p].cfg
           /\ req'[p].old = req[p].old
           /\ req'[p].todo = req[p].todo
           /\ req'[p].dark = req[p].dark
           /\ p \in file.open => /\ file'.st = "full" /\ ~file'.confirmed
                                 /\ file'.id = stamp + 1
                                 /\ file'.old.addr = OldAddr(p)
           /\ p \notin file.open => file' = file
  <1>0. TypeOK /\ file \in RollbackFile /\ file.open \subseteq Procs /\ req[p].pc = "write"
        /\ stamp \in Nat /\ stamp' = stamp + 1 /\ req[p].old.gw \in BOOLEAN
        /\ OldAddr(p) \in Addrs \cup {NoAddr} /\ req[p].nic = Eth0 /\ MaxChanges \in Nat
    BY RollbackAssumption
       DEF TypeInv, TypeOK, RollbackFile, ArmWrite, Request, NicConfig, Snapshots, Filled
  <1>1. /\ req' \in [Procs -> Request]
        /\ dog' = dog
        /\ \A q \in Procs : q # p => req'[q] = req[q]
        /\ req'[p].pc = "timer"
        /\ req'[p].nic = req[p].nic
        /\ req'[p].cfg = req[p].cfg
        /\ req'[p].old = req[p].old
        /\ req'[p].todo = req[p].todo
        /\ req'[p].dark = req[p].dark
    <2>1. Goto(p, "timer")
      BY DEF ArmWrite
    <2> QED  BY <1>0, <2>1, GotoFacts DEF SetSteps
  <1>2. Counted' /\ stamp' \in 0 .. MaxChanges
    <2>1. Unwritten' = Unwritten \ {p} /\ p \in Unwritten
      BY <1>0, <1>1 DEF Unwritten, SetSteps
    <2>2. IsFiniteSet(Unwritten)
      BY RollbackAssumption, FS_Subset DEF Unwritten
    <2>3. /\ Cardinality(Unwritten') = Cardinality(Unwritten) - 1 /\ IsFiniteSet(Unwritten')
      BY <2>1, <2>2, FS_RemoveElement
    <2>4. Cardinality(Unwritten) \in Nat /\ Cardinality(Unwritten') \in Nat
      BY <2>2, <2>3, FS_CardinalityType
    <2>5. stamp + Cardinality(Unwritten) =< MaxChanges
      BY DEF TypeInv, Counted
    <2> QED  BY <1>0, <2>3, <2>4, <2>5 DEF Counted
  <1>3. CASE p \in file.open
    <2> DEFINE a == OldAddr(p)
               g == req[p].old.gw
               i == stamp + 1
               o == file.open \ {p}
    <2>1. file' = [st |-> "full", id |-> i, old |-> [addr |-> a, gw |-> g],
                   confirmed |-> FALSE, open |-> o]
      BY <1>3 DEF ArmWrite, OldAddr
    <2>2. i \in 0 .. MaxChanges /\ a \in Addrs \cup {NoAddr} /\ g \in BOOLEAN /\ o \in SUBSET Procs
      BY <1>0, <1>2
    <2> HIDE DEF a, g, i, o
    <2>3. [addr |-> a, gw |-> g] \in Config
      BY <2>2 DEF Config
    <2>4. /\ file' \in RollbackFile /\ file'.st = "full" /\ file'.confirmed = FALSE
          /\ file'.id = i /\ file'.old.addr = a
      BY <2>1, <2>2, <2>3 DEF RollbackFile
    <2> QED  BY <1>0, <1>1, <1>2, <1>3, <2>4 DEF a, i
  <1>4. CASE p \notin file.open
    <2>1. file' = file
      BY <1>4 DEF ArmWrite
    <2> QED  BY <1>0, <1>1, <1>2, <1>4, <2>1
  <1> QED  BY <1>3, <1>4

(* LEMMA TypeArmWrite: ArmWrite keeps the types. *)
LEMMA TypeArmWrite ==
    ASSUME TypeInv, NEW p \in Procs, ArmWrite(p)
    PROVE  TypeInv'
  <1>0. /\ TypeOK /\ req[p].pc = "write"
        /\ UNCHANGED <<profile, eff, link, sshAt, crashes, faults, vouched>>
    BY DEF TypeInv, ArmWrite
  <1>1. TypeOK'
    BY <1>0, WriteFacts DEF TypeOK
  <1>2. Eth0Has' /\ Wired'
    BY <1>0, SameEth0
  <1>3. Snapshots'
    BY WriteFacts DEF TypeInv, Snapshots, OldAddr
  <1>4. Filled'
    BY <1>0, WriteFacts DEF TypeInv, Filled, InSet, SetSteps
  <1> QED  BY <1>1, <1>2, <1>3, <1>4, WriteFacts DEF TypeInv

(* LEMMA TimerFacts: what ArmTimer does. *)
LEMMA TimerFacts ==
    ASSUME TypeInv, NEW p \in Procs, ArmTimer(p)
    PROVE  /\ req' \in [Procs -> Request] /\ dog' \in [Dogs -> Dog]
           /\ \A q \in Procs : q # p => req'[q] = req[q]
           /\ req'[p] = Idle
           /\ \A d \in Dogs : dog'[d].pc \in {dog[d].pc, "armed"}
           /\ (\E d \in Dogs : dog'[d].pc = "armed") \/ "no_timer" \in faults
  <1>0. TypeOK /\ req \in [Procs -> Request] /\ dog \in [Dogs -> Dog]
    BY DEF TypeInv, TypeOK
  <1>1. ASSUME NEW d \in Dogs \ {BootDog}, req' = [req EXCEPT ![p] = Idle],
               dog' = [Without(dog, p) EXCEPT ![d] =
                         [pc |-> "armed",
                          wait |-> {q \in Procs \ {p} : Busy(q)}
                                     \cup {e \in Dogs : dog[e].pc = "armed"}]]
        PROVE  /\ req' \in [Procs -> Request] /\ dog' \in [Dogs -> Dog]
               /\ \A q \in Procs : q # p => req'[q] = req[q]
               /\ req'[p] = Idle
               /\ \A e \in Dogs : dog'[e].pc \in {dog[e].pc, "armed"}
               /\ \E e \in Dogs : dog'[e].pc = "armed"
    <2> DEFINE w == {q \in Procs \ {p} : Busy(q)} \cup {e \in Dogs : dog[e].pc = "armed"}
               r == [pc |-> "armed", wait |-> w]
               D == Without(dog, p)
    <2>1. w \in SUBSET (Procs \cup Dogs)
      OBVIOUS
    <2> HIDE DEF w
    <2>2. r \in Dog /\ r.pc = "armed"
      BY <2>1 DEF Dog
    <2>3. D \in [Dogs -> Dog] /\ \A e \in Dogs : D[e].pc = dog[e].pc
      BY <1>0, WithoutFacts
    <2>4. dog' = [D EXCEPT ![d] = r]
      BY <1>1 DEF w
    <2> HIDE DEF r, D
    <2>5. /\ dog' \in [Dogs -> Dog] /\ dog'[d] = r
          /\ \A e \in Dogs : e # d => dog'[e] = D[e]
      BY <2>2, <2>3, <2>4
    <2>6. \A e \in Dogs : dog'[e].pc \in {dog[e].pc, "armed"}
      BY <2>2, <2>3, <2>5
    <2> QED  BY <1>0, <1>1, <2>2, <2>5, <2>6, IdleFacts
  <1>2. CASE "no_timer" \in faults /\ Finish(p)
    BY <1>0, <1>2, FinishFacts
  <1> QED  BY <1>1, <1>2 DEF ArmTimer

(* LEMMA TypeArmTimer: ArmTimer keeps the types. *)
LEMMA TypeArmTimer ==
    ASSUME TypeInv, NEW p \in Procs, ArmTimer(p)
    PROVE  TypeInv'
  <1>0. TypeOK /\ UNCHANGED <<profile, eff, link, file, world>>
    BY DEF TypeInv, ArmTimer
  <1>1. TypeOK'
    BY <1>0, TimerFacts, SameWorld DEF TypeOK
  <1>2. Eth0Has' /\ Wired' /\ stamp' = stamp
    BY <1>0, SameEth0 DEF world
  <1>3. OldAddr(p)' = NoAddr /\ req'[p].pc = "idle"
    BY TimerFacts, IdleFacts DEF OldAddr
  <1>4. Snapshots' /\ Counted' /\ Filled'
    BY <1>2, <1>3, TimerFacts, OneReq
  <1> QED  BY <1>1, <1>2, <1>4 DEF TypeInv

(* LEMMA VouchFacts: a login vouches for the address it came through.         *)
LEMMA VouchFacts ==
    ASSUME TypeInv, \E n \in LoginPorts : Vouch(n)
    PROVE  /\ vouched \subseteq vouched'
           /\ vouched' \in SUBSET Addrs
           /\ LoginPorts = {Eth0} => link[Eth0] /\ vouched' = vouched \cup {eff[Eth0].addr}
  <1>1. PICK n \in LoginPorts : Vouch(n)
    OBVIOUS
  <1>2. eff[Eth0].addr \in Addrs \cup {NoAddr} /\ vouched \in SUBSET Addrs
    BY RollbackAssumption DEF TypeInv, TypeOK, Config
  <1>3. CASE n = Eth0
    BY <1>1, <1>2, <1>3 DEF Vouch
  <1>4. CASE n # Eth0
    BY <1>1, <1>2, <1>4 DEF Vouch
  <1> QED  BY <1>3, <1>4

(* LEMMA ReadFacts: what LoginRead does. *)
LEMMA ReadFacts ==
    ASSUME TypeInv, NEW p \in Procs, LoginRead(p)
    PROVE  /\ req' \in [Procs -> Request]
           /\ \A q \in Procs : q # p => req'[q] = req[q]
           /\ \/ /\ file.st = "full" /\ ~file.confirmed
                 /\ req'[p].pc = "rename" /\ req'[p].rec = file
                 /\ OldAddr(p)' = NoAddr
              \/ req' = req
  <1>0. req \in [Procs -> Request] /\ file \in RollbackFile
    BY DEF TypeInv, TypeOK
  <1>1. CASE /\ file.st = "full" /\ ~file.confirmed
             /\ req' = [req EXCEPT ![p] = [Idle EXCEPT !.pc = "rename", !.rec = file]]
    <2> DEFINE r == [Idle EXCEPT !.pc = "rename", !.rec = file]
    <2>1. r \in Request /\ r.pc = "rename" /\ r.rec = file /\ r.old = Idle.old
      BY <1>0, IdleFacts DEF Idle, Request
    <2>2. req' = [req EXCEPT ![p] = r]
      BY <1>1
    <2> HIDE DEF r
    <2>3. /\ req' \in [Procs -> Request] /\ req'[p] = r
          /\ \A q \in Procs : q # p => req'[q] = req[q]
      BY <1>0, <2>1, <2>2
    <2>4. OldAddr(p)' = NoAddr
      BY <2>1, <2>3, IdleFacts DEF OldAddr
    <2> QED  BY <1>1, <2>1, <2>3, <2>4
  <1>2. CASE UNCHANGED req
    BY <1>0, <1>2
  <1> QED  BY <1>1, <1>2 DEF LoginRead

(* LEMMA TypeLoginRead: LoginRead keeps the types. *)
LEMMA TypeLoginRead ==
    ASSUME TypeInv, NEW p \in Procs, LoginRead(p)
    PROVE  TypeInv'
  <1>0. /\ TypeOK /\ UNCHANGED <<profile, eff, link, file, dog, faults, stamp, sshAt, crashes>>
        /\ \E n \in LoginPorts : Vouch(n)
    BY DEF TypeInv, LoginRead
  <1>1. TypeOK'
    BY <1>0, VouchFacts, ReadFacts DEF TypeOK
  <1>2. Eth0Has' /\ Wired'
    BY <1>0, SameEth0
  <1>3. Snapshots' /\ Counted' /\ Filled'
    <2>1. CASE req' = req
      BY <1>0, <2>1, SameReq
    <2>2. CASE req'[p].pc = "rename" /\ OldAddr(p)' = NoAddr
      BY <1>0, <2>2, ReadFacts, OneReq
    <2> QED  BY <2>1, <2>2, ReadFacts
  <1> QED  BY <1>1, <1>2, <1>3 DEF TypeInv

(* LEMMA RenameFacts: what LoginRename does. *)
LEMMA RenameFacts ==
    ASSUME TypeInv, NEW p \in Procs, LoginRename(p)
    PROVE  /\ file' \in RollbackFile
           /\ file'.confirmed
           /\ file'.st = req[p].rec.st
           /\ file'.old = req[p].rec.old
           /\ req' \in [Procs -> Request] /\ dog' \in [Dogs -> Dog]
           /\ \A d \in Dogs : dog'[d].pc = dog[d].pc
           /\ \A q \in Procs : q # p => req'[q] = req[q]
           /\ req'[p] = Idle
  <1>0. TypeOK /\ req[p].rec \in RollbackFile /\ Finish(p)
    BY DEF TypeInv, TypeOK, Request, LoginRename
  <1>1. \A b \in BOOLEAN : \A f \in RollbackFile :
          LET g == [f EXCEPT !.confirmed = b, !.open = {}]
          IN g \in RollbackFile /\ g.confirmed = b /\ g.st = f.st /\ g.old = f.old
    BY DEF RollbackFile
  <1>2. file' = [req[p].rec EXCEPT !.confirmed = TRUE, !.open = {}]
    BY DEF LoginRename
  <1>3. file' \in RollbackFile /\ file'.confirmed /\ file'.st = req[p].rec.st /\ file'.old = req[p].rec.old
    BY <1>0, <1>1, <1>2, Zenon
  <1> QED  BY <1>0, <1>3, FinishFacts

(* LEMMA TypeLoginRename: LoginRename keeps the types. *)
LEMMA TypeLoginRename ==
    ASSUME TypeInv, NEW p \in Procs, LoginRename(p)
    PROVE  TypeInv'
  <1>0. TypeOK /\ UNCHANGED <<profile, eff, link, world>>
    BY DEF TypeInv, LoginRename
  <1>1. TypeOK'
    BY <1>0, RenameFacts, SameWorld
  <1>2. Eth0Has' /\ Wired' /\ stamp' = stamp
    BY <1>0, SameEth0 DEF world
  <1>3. OldAddr(p)' = NoAddr /\ req'[p].pc = "idle"
    BY RenameFacts, IdleFacts DEF OldAddr
  <1>4. Snapshots' /\ Counted' /\ Filled'
    BY <1>2, <1>3, RenameFacts, OneReq
  <1> QED  BY <1>1, <1>2, <1>4 DEF TypeInv

(* LEMMA TypeSshLogin: SshLogin keeps the types. *)
LEMMA TypeSshLogin ==
    ASSUME TypeInv, SshLogin
    PROVE  TypeInv'
  <1>0. /\ TypeOK /\ UNCHANGED <<profile, eff, link, file, req, dog, faults, stamp, crashes>>
        /\ \E n \in LoginPorts : Vouch(n)
        /\ sshAt' \in {stamp, sshAt}
    BY DEF TypeInv, SshLogin
  <1>1. TypeOK'
    BY <1>0, VouchFacts DEF TypeOK
  <1>2. Eth0Has' /\ Wired'
    BY <1>0, SameEth0
  <1>3. Snapshots' /\ Counted' /\ Filled'
    BY <1>0, SameReq
  <1> QED  BY <1>1, <1>2, <1>3 DEF TypeInv

(* LEMMA FireFacts: what DogFire does. *)
LEMMA FireFacts ==
    ASSUME TypeInv, NEW d \in Dogs, DogFire(d)
    PROVE  /\ dog' \in [Dogs -> Dog]
           /\ \A e \in Dogs : e # d => dog'[e].pc = dog[e].pc
           /\ dog'[d].pc = "read"
  <1> DEFINE D == Without(dog, d)
  <1>1. D \in [Dogs -> Dog] /\ \A e \in Dogs : D[e].pc = dog[e].pc
    BY WithoutFacts DEF TypeInv
  <1>2. dog' = [D EXCEPT ![d].pc = "read"]
    BY DEF DogFire
  <1> HIDE DEF D
  <1> QED  BY <1>1, <1>2 DEF Dog

(* LEMMA TypeDog: a step of the watchdog that leaves the profiles alone.      *)
LEMMA TypeDog ==
    ASSUME TypeInv, dog' \in [Dogs -> Dog], file' \in RollbackFile,
           UNCHANGED <<profile, eff, link, req, world>>
    PROVE  TypeInv'
  <1>1. TypeOK'
    BY SameWorld DEF TypeInv, TypeOK
  <1>2. Eth0Has' /\ Wired'
    BY SameEth0
  <1>3. Snapshots' /\ Counted' /\ Filled'
    BY SameReq DEF world
  <1> QED  BY <1>1, <1>2, <1>3 DEF TypeInv

(* LEMMA DecisionFacts: what DogRead does. *)
LEMMA DecisionFacts ==
    ASSUME TypeInv, NEW d \in Dogs, DogRead(d)
    PROVE  /\ dog' \in [Dogs -> Dog]
           /\ \A e \in Dogs : e # d => dog'[e] = dog[e]
           /\ dog'[d].pc \in {"off", "keep", "restore"}
           /\ dog'[d].pc = "off" => file.st # "full"
           /\ dog'[d].pc = "keep" => file.confirmed \/ sshAt >= file.id
  <1>1. TypeOK /\ DogGoto(d, Decision(d)) /\ Decision(d) \in {"off", "keep", "restore"}
    BY DEF TypeInv, DogRead, Decision
  <1>2. /\ dog' \in [Dogs -> Dog]
        /\ \A e \in Dogs : e # d => dog'[e] = dog[e]
        /\ dog'[d].pc = Decision(d)
    BY <1>1, DogGotoFacts
  <1> QED  BY <1>1, <1>2 DEF Decision

(* LEMMA RemoveFacts: what rm -f does. *)
LEMMA RemoveFacts ==
    ASSUME TypeInv, NEW d \in Dogs, Remove(d)
    PROVE  /\ dog' \in [Dogs -> Dog]
           /\ \A e \in Dogs : e # d => dog'[e] = dog[e]
           /\ dog'[d].pc = "off"
           /\ file' = NoFile /\ file' \in RollbackFile /\ file'.st = "none"
           /\ UNCHANGED <<profile, eff, link, req, world>>
  <1>1. TypeOK /\ DogGoto(d, "off") /\ file' = NoFile /\ UNCHANGED <<profile, eff, link, req, world>>
    BY DEF TypeInv, Remove
  <1>2. file' \in RollbackFile /\ file'.st = "none"
    BY <1>1, IdleFacts DEF NoFile
  <1> QED  BY <1>1, <1>2, DogGotoFacts

(* LEMMA RestoreFacts: what DogRestore does. *)
LEMMA RestoreFacts ==
    ASSUME TypeInv, NEW d \in Dogs, DogRestore(d)
    PROVE  /\ profile' \in [Nics -> Config]
           /\ \A n \in Nics \ {Eth0} : profile'[n] = profile[n]
           /\ dog' \in [Dogs -> Dog]
           /\ \A e \in Dogs : e # d => dog'[e] = dog[e]
           /\ \/ /\ file.st = "full" /\ file.old.addr # NoAddr
                 /\ profile'[Eth0] = file.old
                 /\ dog'[d].pc = "up" \/ ("nm_error" \in faults /\ dog'[d].pc = "off")
              \/ /\ file.st # "full" \/ file.old.addr = NoAddr \/ "nm_error" \in faults
                 /\ profile' = profile
                 /\ dog'[d].pc = "off"
  <1>0. /\ TypeOK /\ profile \in [Nics -> Config] /\ file.old \in Config /\ Eth0 \in Nics
    BY RollbackAssumption DEF TypeInv, TypeOK, RollbackFile
  <1>1. CASE /\ file.st = "full"
             /\ file.old.addr # NoAddr
             /\ profile' = [profile EXCEPT ![Eth0] = file.old]
             /\ DogGoto(d, "up") \/ ("nm_error" \in faults /\ DogGoto(d, "off"))
    <2>1. /\ dog' \in [Dogs -> Dog]
          /\ \A e \in Dogs : e # d => dog'[e] = dog[e]
          /\ dog'[d].pc = "up" \/ ("nm_error" \in faults /\ dog'[d].pc = "off")
      BY <1>0, <1>1, DogGotoFacts
    <2>2. /\ profile' \in [Nics -> Config]
          /\ \A n \in Nics \ {Eth0} : profile'[n] = profile[n]
          /\ profile'[Eth0] = file.old
      BY <1>0, <1>1
    <2> QED  BY <1>1, <2>1, <2>2
  <1>2. CASE /\ file.st # "full" \/ file.old.addr = NoAddr \/ "nm_error" \in faults
             /\ DogGoto(d, "off")
             /\ UNCHANGED profile
    BY <1>0, <1>2, DogGotoFacts
  <1> QED  BY <1>1, <1>2 DEF DogRestore

(* LEMMA TypeDogRestore: DogRestore keeps the types. *)
LEMMA TypeDogRestore ==
    ASSUME TypeInv, NEW d \in Dogs, DogRestore(d)
    PROVE  TypeInv'
  <1>0. TypeOK /\ UNCHANGED <<eff, link, file, req, world>> /\ stamp' = stamp
    BY DEF TypeInv, DogRestore, world
  <1>1. TypeOK'
    BY <1>0, RestoreFacts DEF TypeOK, world
  <1>2. Eth0Has' /\ Wired'
    <2>1. file.old.addr \in Addrs \cup {NoAddr}
      BY <1>0 DEF TypeOK, RollbackFile, Config
    <2>2. profile'[Eth0].addr \in Addrs
      BY <2>1, RestoreFacts DEF TypeInv, Eth0Has
    <2> QED  BY <1>0, <2>2 DEF TypeInv, Eth0Has, Wired
  <1>3. Snapshots' /\ Counted' /\ Filled'
    BY <1>0, SameReq
  <1> QED  BY <1>1, <1>2, <1>3 DEF TypeInv

(* LEMMA DogUpFacts: what DogUp does. *)
LEMMA DogUpFacts ==
    ASSUME TypeInv, NEW d \in Dogs, DogUp(d)
    PROVE  /\ eff' \in [Nics -> Config]
           /\ \A n \in Nics \ {Eth0} : eff'[n] = eff[n]
           /\ link[Eth0] => eff'[Eth0] = profile[Eth0]
           /\ ~link[Eth0] => eff'[Eth0].addr = NoAddr
           /\ dog' \in [Dogs -> Dog]
           /\ \A e \in Dogs : e # d => dog'[e] = dog[e]
           /\ dog'[d].pc = "rm"
  <1>0. /\ TypeOK /\ profile \in [Nics -> Config] /\ eff \in [Nics -> Config] /\ Eth0 \in Nics
        /\ DogGoto(d, "rm")
    BY RollbackAssumption DEF TypeInv, TypeOK, DogUp
  <1> DEFINE e == Activated(Eth0, profile, link)
  <1>1. e \in Config /\ (link[Eth0] => e = profile[Eth0]) /\ (~link[Eth0] => e.addr = NoAddr)
    BY <1>0, ActivatedFacts
  <1>2. eff' = [eff EXCEPT ![Eth0] = e]
    BY DEF DogUp
  <1> HIDE DEF e
  <1> QED  BY <1>0, <1>1, <1>2, DogGotoFacts

(* LEMMA TypeDogUp: DogUp keeps the types. *)
LEMMA TypeDogUp ==
    ASSUME TypeInv, NEW d \in Dogs, DogUp(d)
    PROVE  TypeInv'
  <1>0. TypeOK /\ UNCHANGED <<profile, link, file, req, world>> /\ stamp' = stamp
    BY DEF TypeInv, DogUp, world
  <1>1. TypeOK'
    BY <1>0, DogUpFacts DEF TypeOK, world
  <1>2. Eth0Has' /\ Wired'
    BY <1>0, DogUpFacts DEF TypeInv, Eth0Has, Wired
  <1>3. Snapshots' /\ Counted' /\ Filled'
    BY <1>0, SameReq
  <1> QED  BY <1>1, <1>2, <1>3 DEF TypeInv

(* LEMMA CrashFacts: what a power failure leaves. *)
LEMMA CrashFacts ==
    ASSUME TypeInv, Crash
    PROVE  /\ req' \in [Procs -> Request]
           /\ \A p \in Procs : req'[p] = Idle
           /\ dog' \in [Dogs -> Dog]
           /\ \A d \in Dogs : dog'[d].pc = IF d = BootDog THEN "read" ELSE "off"
           /\ eff' \in [Nics -> Config]
           /\ \A n \in Nics : /\ link[n] => eff'[n] = profile[n]
                              /\ ~link[n] => eff'[n].addr = NoAddr
           /\ file' \in RollbackFile
           /\ file'.st = file.st /\ file'.id = file.id /\ file'.old = file.old
           /\ file'.confirmed = file.confirmed
           /\ crashes' \in 0 .. MaxCrashes
  <1>0. TypeOK /\ profile \in [Nics -> Config] /\ file \in RollbackFile
    BY DEF TypeInv, TypeOK
  <1>1. req' \in [Procs -> Request] /\ \A p \in Procs : req'[p] = Idle
    BY IdleFacts DEF Crash
  <1>2. /\ dog' \in [Dogs -> Dog]
        /\ \A d \in Dogs : dog'[d].pc = IF d = BootDog THEN "read" ELSE "off"
    <2> DEFINE r == [Asleep EXCEPT !.pc = "read"]
    <2>1. r \in Dog /\ r.pc = "read" /\ Asleep.pc = "off" /\ Asleep \in Dog
      BY IdleFacts DEF Asleep, Dog
    <2>2. dog' = [d \in Dogs |-> IF d = BootDog THEN r ELSE Asleep]
      BY DEF Crash
    <2> HIDE DEF r
    <2> QED  BY <2>1, <2>2
  <1>3. /\ eff' \in [Nics -> Config]
        /\ \A n \in Nics : /\ link[n] => eff'[n] = profile[n]
                           /\ ~link[n] => eff'[n].addr = NoAddr
    <2>1. eff' = [n \in Nics |-> Activated(n, profile, link)]
      BY DEF Crash
    <2> QED  BY <1>0, <2>1, ActivatedFacts
  <1>4. /\ file' \in RollbackFile
        /\ file'.st = file.st /\ file'.id = file.id /\ file'.old = file.old
        /\ file'.confirmed = file.confirmed
    <2>1. file' = [file EXCEPT !.open = {}]
      BY DEF Crash
    <2> QED  BY <1>0, <2>1 DEF RollbackFile
  <1>5. crashes' \in 0 .. MaxCrashes
    BY <1>0, RollbackAssumption DEF TypeOK, Crash
  <1> QED  BY <1>1, <1>2, <1>3, <1>4, <1>5

(* LEMMA TypeCrash: Crash keeps the types. *)
LEMMA TypeCrash ==
    ASSUME TypeInv, Crash
    PROVE  TypeInv'
  <1>0. TypeOK /\ UNCHANGED <<profile, link, faults, stamp, sshAt, vouched>>
    BY DEF TypeInv, Crash
  <1>1. TypeOK'
    BY <1>0, CrashFacts DEF TypeOK
  <1>2. Eth0Has' /\ Wired'
    BY <1>0, CrashFacts, RollbackAssumption DEF TypeInv, Eth0Has, Wired
  <1>3. Snapshots' /\ Filled'
    BY CrashFacts, IdleFacts DEF Snapshots, OldAddr, Filled, InSet, SetSteps
  <1>4. Counted'
    <2>1. Unwritten' \subseteq Unwritten
      BY CrashFacts, IdleFacts DEF Unwritten, SetSteps
    <2> QED  BY <1>0, <2>1, CountFacts
  <1> QED  BY <1>1, <1>2, <1>3, <1>4 DEF TypeInv

(* LEMMA CableFacts: what pulling or plugging in a cable does. *)
LEMMA CableFacts ==
    ASSUME TypeInv, NEW n \in Nics, Cable(n)
    PROVE  /\ "unplug" \in faults
           /\ link' \in [Nics -> BOOLEAN]
           /\ \A k \in Nics \ {n} : link'[k] = link[k] /\ eff'[k] = eff[k]
           /\ eff' \in [Nics -> Config]
           /\ link'[n] => eff'[n] = profile[n]
           /\ ~link'[n] => eff'[n].addr = NoAddr
  <1>0. TypeOK /\ profile \in [Nics -> Config] /\ eff \in [Nics -> Config] /\ link \in [Nics -> BOOLEAN]
    BY DEF TypeInv, TypeOK
  <1>1. link' \in [Nics -> BOOLEAN] /\ \A k \in Nics \ {n} : link'[k] = link[k]
    BY <1>0 DEF Cable
  <1> DEFINE e == Activated(n, profile, link')
  <1>2. e \in Config /\ (link'[n] => e = profile[n]) /\ (~link'[n] => e.addr = NoAddr)
    BY <1>0, ActivatedFacts
  <1>3. eff' = [eff EXCEPT ![n] = e]
    BY DEF Cable
  <1> HIDE DEF e
  <1>4. /\ eff' \in [Nics -> Config] /\ eff'[n] = e
        /\ \A k \in Nics \ {n} : eff'[k] = eff[k]
    BY <1>0, <1>2, <1>3
  <1> QED  BY <1>1, <1>2, <1>4 DEF Cable

(* LEMMA TypeCable: Cable keeps the types. *)
LEMMA TypeCable ==
    ASSUME TypeInv, NEW n \in Nics, Cable(n)
    PROVE  TypeInv'
  <1>0. TypeOK /\ UNCHANGED <<profile, file, req, dog, world>> /\ stamp' = stamp
    BY DEF TypeInv, Cable, world
  <1>1. TypeOK'
    BY <1>0, CableFacts DEF TypeOK, world
  <1>2. Eth0Has' /\ Wired'
    BY <1>0, CableFacts, RollbackAssumption DEF TypeInv, Eth0Has, Wired
  <1>3. Snapshots' /\ Counted' /\ Filled'
    BY <1>0, SameReq
  <1> QED  BY <1>1, <1>2, <1>3 DEF TypeInv

(* LEMMA TypeInit: the delivered configuration. *)
LEMMA TypeInit ==
    ASSUME Init PROVE TypeInv
  <1> DEFINE a == Cidr(Delivered.ip, Delivered.mask)
  <1>1. a \in Addrs
    BY RollbackAssumption, AcceptedAddr
  <1>2. profile = [n \in Nics |-> IF n = Eth0 THEN [addr |-> a, gw |-> TRUE] ELSE NoConfig]
        /\ eff = profile /\ vouched = {a}
    BY DEF Init
  <1> HIDE DEF a
  <1>3. \A b \in BOOLEAN : [addr |-> a, gw |-> b] \in Config
    BY <1>1 DEF Config
  <1>4. NoConfig \in Config
    BY DEF Config, NoConfig
  <1>5. profile \in [Nics -> Config] /\ profile[Eth0] = [addr |-> a, gw |-> TRUE]
    <2>1. [addr |-> a, gw |-> TRUE] \in Config
      BY <1>3, Zenon
    <2> QED  BY <1>2, <1>4, <2>1, RollbackAssumption
  <1>6. profile[Eth0].addr = a
    BY <1>5
  <1>7. /\ link = [n \in Nics |-> TRUE] /\ file = NoFile
        /\ req = [p \in Procs |-> Idle] /\ dog = [d \in Dogs |-> Asleep]
        /\ stamp = 0 /\ sshAt = 0 /\ crashes = 0 /\ faults \in Scenarios
    BY DEF Init
  <1>8. TypeOK
    <2>1. link \in [Nics -> BOOLEAN]
      BY <1>7, Zenon
    <2>2. profile \in [Nics -> Config] /\ eff \in [Nics -> Config] /\ vouched \in SUBSET Addrs
      BY <1>1, <1>2, <1>5
    <2>3. file \in RollbackFile /\ req \in [Procs -> Request] /\ dog \in [Dogs -> Dog]
      BY <1>7, IdleFacts
    <2>4. 0 \in 0 .. MaxChanges /\ 0 \in 0 .. MaxCrashes
      BY RollbackAssumption
    <2> QED  BY <1>7, <2>1, <2>2, <2>3, <2>4 DEF TypeOK
  <1>9. Snapshots /\ Filled
    BY <1>7, IdleFacts DEF Snapshots, OldAddr, Filled, InSet, SetSteps
  <1>10. Counted
    <2>1. Unwritten = {}
      BY <1>7, IdleFacts DEF Unwritten, SetSteps
    <2>2. Cardinality(Unwritten) = 0
      BY <2>1, FS_EmptySet
    <2> QED  BY <1>7, <2>2, RollbackAssumption DEF Counted
  <1>11. Eth0Has /\ Wired
    <2>1. link[Eth0]
      BY <1>7, RollbackAssumption
    <2> QED  BY <1>1, <1>2, <1>6, <2>1 DEF Eth0Has, Wired
  <1> QED  BY <1>8, <1>9, <1>10, <1>11 DEF TypeInv

(* LEMMA TypeNext: every step keeps the types. *)
LEMMA TypeNext ==
    ASSUME TypeInv, [Next]_vars PROVE TypeInv'
  <1>1. ASSUME NEW p \in Procs, SetStart(p) \/ SetStep(p) \/ LoginRead(p) \/ LoginRename(p)
        PROVE  TypeInv'
    BY <1>1, TypeSetStart, TypeSetModify, TypeSweep, TypeSetUp, TypeArmOpen,
       TypeArmWrite, TypeArmTimer, TypeLoginRead, TypeLoginRename DEF SetStep
  <1>2. ASSUME NEW d \in Dogs, DogStep(d) PROVE TypeInv'
    <2>0. file \in RollbackFile
      BY DEF TypeInv, TypeOK
    <2>1. CASE DogFire(d)
      BY <2>0, <2>1, FireFacts, TypeDog DEF DogFire
    <2>2. CASE DogRead(d)
      BY <2>0, <2>2, DecisionFacts, TypeDog DEF DogRead
    <2>3. CASE DogKeep(d) \/ DogRm(d)
      BY <2>3, RemoveFacts, TypeDog DEF DogKeep, DogRm
    <2> QED  BY <1>2, <2>1, <2>2, <2>3, TypeDogRestore, TypeDogUp DEF DogStep
  <1>3. CASE SshLogin
    BY <1>3, TypeSshLogin
  <1>4. CASE Crash
    BY <1>4, TypeCrash
  <1>5. ASSUME NEW n \in Nics, Cable(n) PROVE TypeInv'
    BY <1>5, TypeCable
  <1>6. CASE UNCHANGED vars
    <2>1. UNCHANGED <<profile, eff, link, file, req, dog, world>>
      BY <1>6 DEF vars
    <2> QED  BY <2>1, TypeDog DEF TypeInv, TypeOK
  <1> QED  BY <1>1, <1>2, <1>3, <1>4, <1>5, <1>6 DEF Next

(* THEOREM TypesHold: what is in effect, saved, recorded and kept in memory   *)
(* by the requests is always an address NetworkManager accepts, or none.      *)
THEOREM TypesHold == Spec => []TypeInv
  BY TypeInit, TypeNext, PTL DEF Spec

(* THEOREM Eth0AlwaysAddressed: whatever races for rollback.json, fails or is *)
(* cut short, the profile of eth0 has an address and exactly a mask that was  *)
(* typed.                                                                     *)
THEOREM Eth0AlwaysAddressed == Spec => []Eth0Addressed
  <1>1. TypeInv => Eth0Addressed
    <2> SUFFICES ASSUME TypeInv PROVE Eth0Addressed
      OBVIOUS
    <2>1. <<profile[Eth0].addr.ip, Ones(profile[Eth0].addr.prefix)>> \in Typed
      BY AddrFacts DEF TypeInv, Eth0Has
    <2> QED  BY <2>1 DEF TypeInv, Eth0Addressed, Ones
  <1> QED  BY <1>1, TypesHold, PTL

-----------------------------------------------------------------------------
(* Changes made one after the other *)

(* LEMMA OrderSetStart: SetStart keeps Order. *)
LEMMA OrderSetStart ==
    ASSUME TypeInv, OneByOne, Order, NEW p \in Procs, SetStart(p)
    PROVE  Order'
  <1>0. /\ \A q \in Procs : req[q].pc = "idle"
        /\ \A d \in Dogs : dog[d].pc = "off"
        /\ file.st = "none" \/ file.confirmed
        /\ UNCHANGED <<profile, eff, link, file, dog, world>>
        /\ vouched' = vouched /\ sshAt' = sshAt
    BY DEF SetStart, OneByOne, Busy, world
  <1>1. Secure /\ Secure'
    BY <1>0 DEF Order, Kept, Recorded, Changing, Before, Secure
  <1>2. Alone' /\ NotYet'
    <2>1. /\ \A q \in Procs \ {p} : req'[q].pc = "idle"
          /\ req'[p].pc = "modify"
          /\ \A d \in Dogs : dog'[d].pc = "off"
          /\ file'.st # "full" \/ file'.confirmed
      BY <1>0, StartFacts
    <2>2. Alone'
      BY <2>1 DEF Alone, InSet, SetSteps
    <2> QED  BY <2>1, <2>2 DEF NotYet, Before
  <1>3. OldVouched'
    <2>1. \A q \in Procs \ {p} : req'[q].pc = "idle"
      BY <1>0, StartFacts
    <2>2. req'[p].nic = Eth0 => OldAddr(p)' \in vouched \cup {NoAddr}
      BY <1>1, StartFacts DEF Secure, TypeInv, Wired
    <2>3. file.st = "full" => file.old.addr \in vouched \cup {NoAddr}
      BY DEF Order, OldVouched
    <2> QED  BY <1>0, <2>1, <2>2, <2>3, StartFacts DEF OldVouched, Before
  <1>4. Together' /\ Kept'
    BY <1>1 DEF Together, Kept, Secure
  <1>5. SecureAt'
    BY <1>0, <1>1 DEF SecureAt, Secure
  <1> QED  BY <1>2, <1>3, <1>4, <1>5 DEF Order

(* LEMMA Setting: what a process that is setting a port knows.                *)
LEMMA Setting ==
    ASSUME TypeInv, Order, NEW p \in Procs, InSet(p)
    PROVE  /\ \A q \in Procs \ {p} : req[q].pc \in {"idle", "rename"}
           /\ \A d \in Dogs : dog[d].pc = "off"
           /\ req[p].pc \in Before => /\ \A q \in Procs \ {p} : req[q].pc = "idle"
                                      /\ req[p].pc # "write" => file.st # "full" \/ file.confirmed
                                      /\ req[p].nic = Eth0 => OldAddr(p) \in vouched \cup {NoAddr}
           /\ file.st = "full" => file.old.addr \in vouched \cup {NoAddr}
  <1>1. \A q \in Procs : req[q].pc \in SetSteps \cup {"idle", "rename"}
    BY DEF TypeInv, TypeOK, Request
  <1>2. /\ \A q \in Procs \ {p} : ~InSet(q)
        /\ \A d \in Dogs : dog[d].pc = "off"
    BY DEF Order, Alone
  <1>3. \A q \in Procs \ {p} : req[q].pc \in {"idle", "rename"}
    BY <1>1, <1>2 DEF InSet
  <1> QED  BY <1>2, <1>3 DEF Order, NotYet, OldVouched

(* LEMMA OrderSetModify: SetModify keeps Order. *)
LEMMA OrderSetModify ==
    ASSUME TypeInv, OneByOne, Order, NEW p \in Procs, SetModify(p)
    PROVE  Order'
  <1>0. /\ req[p].pc = "modify" /\ req[p].pc \in Before /\ InSet(p)
        /\ UNCHANGED <<eff, link, file, world>>
        /\ vouched' = vouched /\ sshAt' = sshAt
    BY DEF SetModify, Before, InSet, SetSteps, world
  <1>1. /\ \A q \in Procs \ {p} : req'[q].pc = "idle"
        /\ \A d \in Dogs : dog'[d].pc = "off"
        /\ file.st # "full" \/ file.confirmed
    BY <1>0, Setting, ModifyFacts
  <1>2. Secure
    BY <1>0, <1>1, Setting DEF Order, Kept, Recorded, Changing, Before
  <1>3. \/ req'[p].pc \in {"clear", "drop"} /\ req'[p].nic = req[p].nic /\ OldAddr(p)' = OldAddr(p)
        \/ req'[p].pc = "idle" /\ profile' = profile
    BY ModifyFacts, IdleFacts DEF OldAddr
  <1>4. Alone' /\ NotYet'
    BY <1>0, <1>1, <1>3 DEF Alone, InSet, SetSteps, NotYet, Before
  <1>5. OldVouched'
    BY <1>0, <1>1, <1>3, Setting DEF OldVouched, Before
  <1>6. (req'[p].pc \in {"clear", "drop"} /\ req'[p].nic = Eth0) \/ profile'[Eth0] = profile[Eth0]
    BY <1>3, ModifyFacts, RollbackAssumption
  <1>7. Together' /\ Kept'
    BY <1>0, <1>2, <1>6 DEF Together, Kept, Secure, Changing, Before
  <1>8. SecureAt'
    BY <1>1, <1>3 DEF SecureAt
  <1> QED  BY <1>4, <1>5, <1>7, <1>8 DEF Order

(* LEMMA OrderSweep: clear_gateway_others keeps Order. *)
LEMMA OrderSweep ==
    ASSUME TypeInv, OneByOne, Order, NEW p \in Procs, SetShow(p) \/ SetDrop(p)
    PROVE  Order'
  <1>0. /\ req[p].pc \in Before \ {"modify", "write"} /\ InSet(p)
        /\ UNCHANGED <<eff, link, file, world>>
        /\ vouched' = vouched /\ sshAt' = sshAt
    BY SweepFacts DEF Before, InSet, SetSteps, world
  <1>1. /\ dog' = dog
        /\ \A q \in Procs : q # p => req'[q] = req[q]
        /\ req'[p].pc \in {"clear", "drop"}
        /\ req'[p].nic = req[p].nic
        /\ OldAddr(p)' = OldAddr(p)
    BY SweepFacts DEF OldAddr
  <1>2. /\ \A q \in Procs \ {p} : req'[q].pc = "idle"
        /\ \A d \in Dogs : dog'[d].pc = "off"
        /\ file.st # "full" \/ file.confirmed
        /\ profile'[Eth0].addr = profile[Eth0].addr
    BY <1>0, <1>1, Setting, SweepFacts, RollbackAssumption
  <1>3. Alone' /\ NotYet'
    BY <1>0, <1>1, <1>2 DEF Alone, InSet, SetSteps, NotYet, Before
  <1>4. OldVouched'
    BY <1>0, <1>1, <1>2, Setting DEF OldVouched, Before
  <1>5. req[p].nic = Eth0 \/ (Secure /\ Secure')
    BY <1>0, <1>2, Setting DEF Order, Kept, Recorded, Changing, Before, Secure
  <1>6. Together' /\ Kept'
    BY <1>1, <1>5 DEF Together, Kept, Changing, Before, Secure
  <1>7. SecureAt'
    BY <1>1, <1>2 DEF SecureAt
  <1> QED  BY <1>3, <1>4, <1>6, <1>7 DEF Order

(* LEMMA OrderSetUp: SetUp keeps Order. *)
LEMMA OrderSetUp ==
    ASSUME TypeInv, OneByOne, Order, NEW p \in Procs, SetUp(p)
    PROVE  Order'
  <1>0. /\ req[p].pc = "clear" /\ req[p].pc \in Before /\ InSet(p)
        /\ UNCHANGED <<profile, link, file, world>>
        /\ vouched' = vouched /\ sshAt' = sshAt
    BY DEF SetUp, Before, InSet, SetSteps, world
  <1>1. /\ \A q \in Procs \ {p} : req'[q].pc = "idle"
        /\ \A d \in Dogs : dog'[d].pc = "off"
        /\ file.st # "full" \/ file.confirmed
    BY <1>0, Setting, UpFacts
  <1>2. \/ req'[p].pc = "open" /\ req'[p].nic = Eth0 /\ req[p].nic = Eth0 /\ OldAddr(p)' = OldAddr(p)
        \/ req'[p].pc = "idle" /\ req[p].nic # Eth0 /\ eff'[Eth0] = eff[Eth0]
    BY UpFacts, IdleFacts, RollbackAssumption DEF OldAddr
  <1>3. Alone' /\ NotYet'
    BY <1>0, <1>1, <1>2 DEF Alone, InSet, SetSteps, NotYet, Before
  <1>4. OldVouched'
    BY <1>0, <1>1, <1>2, Setting DEF OldVouched, Before
  <1>5. CASE req[p].nic = Eth0
    <2>1. Together'
      BY <1>0, <1>5, UpFacts DEF Together
    <2>2. Kept'
      BY <1>2, <1>5 DEF Kept, Changing, Before
    <2>3. SecureAt'
      BY <1>1, <1>2 DEF SecureAt
    <2> QED  BY <1>3, <1>4, <2>1, <2>2, <2>3 DEF Order
  <1>6. CASE req[p].nic # Eth0
    <2>1. Secure
      BY <1>0, <1>1, <1>6, Setting DEF Order, Kept, Recorded, Changing, Before
    <2>2. Secure'
      BY <1>0, <1>2, <1>6, <2>1 DEF Secure
    <2>3. Together' /\ Kept' /\ SecureAt'
      BY <2>2 DEF Together, Kept, SecureAt, Secure
    <2> QED  BY <1>3, <1>4, <2>3 DEF Order
  <1> QED  BY <1>5, <1>6

(* LEMMA OrderArmOpen: ArmOpen keeps Order. *)
LEMMA OrderArmOpen ==
    ASSUME TypeInv, OneByOne, Order, NEW p \in Procs, ArmOpen(p)
    PROVE  Order'
  <1>0. /\ req[p].pc = "open" /\ req[p].pc \in Before /\ InSet(p) /\ req[p].nic = Eth0
        /\ UNCHANGED <<profile, eff, link, world>>
        /\ vouched' = vouched /\ sshAt' = sshAt
    BY DEF ArmOpen, Before, InSet, SetSteps, world, TypeInv, Filled
  <1>1. /\ file'.st = "empty" /\ p \in file'.open
        /\ req'[p].pc = "write" /\ req'[p].nic = Eth0 /\ OldAddr(p)' = OldAddr(p)
    BY <1>0, OpenFacts DEF OneByOne, OldAddr
  <1>2. /\ \A q \in Procs \ {p} : req'[q].pc = "idle"
        /\ \A d \in Dogs : dog'[d].pc = "off"
    BY <1>0, Setting, OpenFacts
  <1>3. Alone' /\ NotYet'
    BY <1>0, <1>1, <1>2 DEF Alone, InSet, SetSteps, NotYet, Before
  <1>4. OldVouched'
    BY <1>0, <1>1, <1>2, Setting DEF OldVouched, Before
  <1>5. Together'
    <2>1. \A q \in Procs : ~Changing(q, {"clear", "drop"})
      BY <1>0, Setting DEF Changing
    <2> QED  BY <1>0, <2>1 DEF Order, Together
  <1>6. Kept'
    BY <1>1 DEF Kept, Changing, Before
  <1>7. SecureAt'
    BY <1>1, <1>2 DEF SecureAt
  <1> QED  BY <1>3, <1>4, <1>5, <1>6, <1>7 DEF Order

(* LEMMA OrderArmWrite: ArmWrite keeps Order. *)
LEMMA OrderArmWrite ==
    ASSUME TypeInv, OneByOne, Order, sshAt =< stamp, NEW p \in Procs, ArmWrite(p)
    PROVE  Order'
  <1>0. /\ req[p].pc = "write" /\ req[p].pc \in Before /\ InSet(p) /\ req[p].nic = Eth0
        /\ UNCHANGED <<profile, eff, link, faults>> /\ sshAt \in Nat
        /\ vouched' = vouched /\ sshAt' = sshAt
    BY DEF ArmWrite, Before, InSet, SetSteps, TypeInv, Filled, TypeOK
  <1>1. p \in file.open
    BY <1>0 DEF Order, NotYet
  <1>2. /\ file'.st = "full" /\ ~file'.confirmed /\ sshAt' < file'.id
        /\ file'.old.addr = OldAddr(p)
    BY <1>0, <1>1, WriteFacts
  <1>3. /\ \A q \in Procs \ {p} : req'[q].pc = "idle"
        /\ req'[p].pc = "timer"
        /\ \A d \in Dogs : dog'[d].pc = "off"
    BY <1>0, Setting, WriteFacts
  <1>4. Alone' /\ NotYet'
    BY <1>3 DEF Alone, InSet, SetSteps, NotYet, Before
  <1>5. OldVouched'
    BY <1>0, <1>2, <1>3, Setting DEF OldVouched, Before
  <1>6. Together'
    <2>1. \A q \in Procs : ~Changing(q, {"clear", "drop"})
      BY <1>0, Setting DEF Changing
    <2> QED  BY <1>0, <2>1 DEF Order, Together
  <1>7. Kept'
    BY <1>2 DEF Kept, Recorded
  <1>8. SecureAt'
    BY <1>3 DEF SecureAt
  <1> QED  BY <1>4, <1>5, <1>6, <1>7, <1>8 DEF Order

(* LEMMA OrderArmTimer: ArmTimer keeps Order. *)
LEMMA OrderArmTimer ==
    ASSUME TypeInv, OneByOne, Order, NEW p \in Procs, ArmTimer(p)
    PROVE  Order'
  <1>0. /\ req[p].pc = "timer" /\ InSet(p)
        /\ UNCHANGED <<profile, eff, link, file, world>>
        /\ vouched' = vouched /\ sshAt' = sshAt
    BY DEF ArmTimer, InSet, SetSteps, world
  <1>1. /\ \A q \in Procs \ {p} : req'[q] = req[q] /\ req[q].pc \in {"idle", "rename"}
        /\ req'[p].pc = "idle"
        /\ \A d \in Dogs : dog'[d].pc \in {"off", "armed"}
    BY <1>0, Setting, TimerFacts, IdleFacts
  <1>2. Alone' /\ NotYet'
    BY <1>1 DEF Alone, InSet, SetSteps, NotYet, Before
  <1>3. OldVouched'
    BY <1>0, <1>1 DEF Order, OldVouched, Before
  <1>4. Together' /\ Kept'
    <2>1. \A q \in Procs : ~Changing(q, {"clear", "drop"}) /\ ~Changing(q, Before \ {"modify"})
      BY <1>0, <1>1 DEF Changing, Before
    <2> QED  BY <1>0, <2>1 DEF Order, Together, Kept, Secure, Recorded
  <1>5. SecureAt'
    BY <1>0, <1>1 DEF Order, SecureAt, Secure
  <1> QED  BY <1>2, <1>3, <1>4, <1>5 DEF Order

(* LEMMA LoginSecures: a login vouches for the address in effect, and when no *)
(* change is being made the profile has it too or goes back to another one.   *)
LEMMA LoginSecures ==
    ASSUME TypeInv, Order, LoginPorts = {Eth0}, UNCHANGED <<profile, eff, link>>,
           \E n \in LoginPorts : Vouch(n)
    PROVE  /\ Secure => Secure'
           /\ (\A p \in Procs : ~Changing(p, {"clear", "drop"})) => Secure'
           /\ profile[Eth0].addr \in vouched => profile'[Eth0].addr \in vouched'
           /\ vouched \subseteq vouched'
  <1>1. link[Eth0] /\ vouched' = vouched \cup {eff[Eth0].addr}
    BY VouchFacts
  <1> QED  BY <1>1 DEF Order, Together, Secure

(* LEMMA OrderSame: a login that finds nothing to confirm. *)
LEMMA OrderSame ==
    ASSUME TypeInv, Order, LoginPorts = {Eth0},
           UNCHANGED <<profile, eff, link, file, req, dog>>,
           \E n \in LoginPorts : Vouch(n)
    PROVE  Order'
  <1>1. Alone' /\ NotYet'
    BY DEF Order, Alone, InSet, NotYet
  <1>2. OldVouched'
    BY LoginSecures DEF Order, OldVouched, OldAddr
  <1>3. Together' /\ Kept'
    BY LoginSecures DEF Order, Together, Kept, Secure, Changing, Before
  <1>4. SecureAt'
    BY LoginSecures DEF Order, SecureAt
  <1> QED  BY <1>1, <1>2, <1>3, <1>4 DEF Order

(* LEMMA OrderLoginRead: LoginRead keeps Order. *)
LEMMA OrderLoginRead ==
    ASSUME TypeInv, OneByOne, Order, LoginPorts = {Eth0}, NEW p \in Procs, LoginRead(p)
    PROVE  Order'
  <1>0. /\ UNCHANGED <<profile, eff, link, file, dog>>
        /\ \E n \in LoginPorts : Vouch(n)
        /\ req[p].pc = "idle"
    BY DEF LoginRead, Busy
  <1>1. CASE req' = req
    BY <1>0, <1>1, OrderSame
  <1>2. CASE /\ file.st = "full" /\ ~file.confirmed
             /\ req'[p].pc = "rename" /\ req'[p].rec = file
    <2>1. \A q \in Procs : req[q].pc \notin Before
      BY <1>2 DEF Order, NotYet
    <2>2. /\ \A q \in Procs \ {p} : req'[q] = req[q]
          /\ \A q \in Procs : req'[q].pc \notin Before
      BY <1>2, <2>1, ReadFacts DEF Before
    <2>3. Secure'
      BY <1>0, <2>1, LoginSecures DEF Changing, Before
    <2>4. Alone' /\ NotYet'
      BY <1>0, <1>2, <2>2 DEF Order, Alone, InSet, SetSteps, NotYet
    <2>5. OldVouched'
      BY <1>0, <1>2, <2>2, LoginSecures DEF Order, OldVouched
    <2>6. Together' /\ Kept' /\ SecureAt'
      BY <2>3 DEF Together, Kept, SecureAt, Secure
    <2> QED  BY <2>4, <2>5, <2>6 DEF Order
  <1> QED  BY <1>1, <1>2, ReadFacts

(* LEMMA OrderLoginRename: LoginRename keeps Order. *)
LEMMA OrderLoginRename ==
    ASSUME TypeInv, OneByOne, Order, NEW p \in Procs, LoginRename(p)
    PROVE  Order'
  <1>0. /\ req[p].pc = "rename"
        /\ UNCHANGED <<profile, eff, link, world>> /\ vouched' = vouched
    BY DEF LoginRename, world
  <1>1. Secure /\ Secure'
    BY <1>0 DEF Order, SecureAt, Secure
  <1>2. /\ \A q \in Procs \ {p} : req'[q] = req[q]
        /\ req'[p].pc = "idle"
        /\ \A q \in Procs : req'[q].pc \notin Before
    BY <1>0, RenameFacts, IdleFacts DEF Order, NotYet, Before
  <1>3. Alone' /\ NotYet'
    BY <1>0, <1>2, RenameFacts DEF Order, Alone, InSet, SetSteps, NotYet
  <1>4. OldVouched'
    BY <1>0, <1>2, RenameFacts DEF Order, OldVouched
  <1>5. Together' /\ Kept' /\ SecureAt'
    BY <1>1 DEF Together, Kept, SecureAt, Secure
  <1> QED  BY <1>3, <1>4, <1>5 DEF Order

(* LEMMA OrderDog: a step of a watchdog runs while no port is being set.      *)
LEMMA OrderDog ==
    ASSUME TypeInv, Order, NEW d \in Dogs, dog[d].pc # "off", req' = req, vouched' = vouched,
           file' = file \/ file'.st = "none"
    PROVE  /\ \A p \in Procs : req[p].pc \in {"idle", "rename"}
           /\ Alone' /\ NotYet' /\ OldVouched'
           /\ \A p \in Procs, S \in {{"clear", "drop"}, Before \ {"modify"}} : ~Changing(p, S)
  <1>1. \A p \in Procs : req[p].pc \in SetSteps \cup {"idle", "rename"}
    BY DEF TypeInv, TypeOK, Request
  <1>2. \A p \in Procs : req[p].pc \in {"idle", "rename"}
    BY <1>1 DEF Order, Alone, InSet
  <1>3. Alone' /\ NotYet'
    BY <1>2 DEF Alone, InSet, SetSteps, NotYet, Before
  <1>4. OldVouched'
    BY <1>2 DEF Order, OldVouched, Before
  <1>5. \A p \in Procs, S \in {{"clear", "drop"}, Before \ {"modify"}} : ~Changing(p, S)
    BY <1>2 DEF Changing, Before
  <1> QED  BY <1>2, <1>3, <1>4, <1>5

(* LEMMA OrderDogFire: DogFire keeps Order. *)
LEMMA OrderDogFire ==
    ASSUME TypeInv, OneByOne, Order, NEW d \in Dogs, DogFire(d)
    PROVE  Order'
  <1>0. dog[d].pc = "armed" /\ UNCHANGED <<profile, eff, link, file, req, world>>
        /\ vouched' = vouched /\ sshAt' = sshAt
    BY DEF DogFire, world
  <1>1. Alone' /\ NotYet' /\ OldVouched'
    BY <1>0, OrderDog
  <1>2. Together' /\ Kept'
    BY <1>0 DEF Order, Together, Kept, Changing, Secure, Recorded
  <1>3. SecureAt'
    BY <1>0, FireFacts DEF Order, SecureAt, Secure
  <1> QED  BY <1>1, <1>2, <1>3 DEF Order

(* LEMMA OrderDogRead: DogRead keeps Order. *)
LEMMA OrderDogRead ==
    ASSUME TypeInv, OneByOne, Order, NEW d \in Dogs, DogRead(d)
    PROVE  Order'
  <1>0. dog[d].pc = "read" /\ UNCHANGED <<profile, eff, link, file, req, world>>
        /\ vouched' = vouched /\ sshAt' = sshAt /\ sshAt \in Nat /\ file.id \in Nat
    BY DEF DogRead, world, TypeInv, TypeOK, RollbackFile
  <1>1. Alone' /\ NotYet' /\ OldVouched'
    BY <1>0, OrderDog
  <1>2. Together' /\ Kept'
    BY <1>0 DEF Order, Together, Kept, Changing, Secure, Recorded
  <1>3. dog'[d].pc = "keep" => Secure
    <2>1. \A p \in Procs : ~Changing(p, Before \ {"modify"})
      BY <1>0, OrderDog
    <2>2. Secure \/ Recorded
      BY <2>1 DEF Order, Kept
    <2> QED  BY <1>0, <2>2, DecisionFacts DEF Recorded
  <1>4. SecureAt'
    BY <1>0, <1>3, DecisionFacts DEF Order, SecureAt, Secure
  <1> QED  BY <1>1, <1>2, <1>4 DEF Order

(* LEMMA OrderRemove: the two steps that remove the file. *)
LEMMA OrderRemove ==
    ASSUME TypeInv, OneByOne, Order, NEW d \in Dogs, DogKeep(d) \/ DogRm(d)
    PROVE  Order'
  <1>0. dog[d].pc \in {"keep", "rm"} /\ Remove(d)
    BY DEF DogKeep, DogRm
  <1>1. UNCHANGED <<profile, eff, link, req>> /\ vouched' = vouched /\ file'.st = "none"
    BY <1>0, RemoveFacts DEF world
  <1>2. Alone' /\ NotYet' /\ OldVouched'
    BY <1>0, <1>1, OrderDog
  <1>3. Secure'
    BY <1>0, <1>1 DEF Order, SecureAt, Secure
  <1>4. Together' /\ Kept' /\ SecureAt'
    BY <1>3 DEF Together, Kept, SecureAt, Secure
  <1> QED  BY <1>2, <1>4 DEF Order

(* LEMMA OrderDogRestore: DogRestore keeps Order. *)
LEMMA OrderDogRestore ==
    ASSUME TypeInv, OneByOne, Order, NEW d \in Dogs, DogRestore(d)
    PROVE  Order'
  <1>0. dog[d].pc = "restore" /\ UNCHANGED <<eff, link, file, req, world>>
        /\ vouched' = vouched /\ sshAt' = sshAt
    BY DEF DogRestore, world
  <1>1. Alone' /\ NotYet' /\ OldVouched'
    BY <1>0, OrderDog
  <1>2. \/ profile'[Eth0].addr \in vouched
        \/ profile' = profile /\ dog'[d].pc = "off"
    BY RestoreFacts DEF Order, OldVouched
  <1>3. Secure => Secure'
    BY <1>0, <1>2 DEF Secure
  <1>4. Together'
    BY <1>0, <1>2 DEF Order, Together, Changing
  <1>5. Kept'
    BY <1>0, <1>3 DEF Order, Kept, Changing, Recorded
  <1>6. SecureAt'
    BY <1>0, <1>2, <1>3, RestoreFacts DEF Order, SecureAt
  <1> QED  BY <1>1, <1>4, <1>5, <1>6 DEF Order

(* LEMMA OrderDogUp: DogUp keeps Order. *)
LEMMA OrderDogUp ==
    ASSUME TypeInv, OneByOne, Order, NEW d \in Dogs, DogUp(d)
    PROVE  Order'
  <1>0. dog[d].pc = "up" /\ UNCHANGED <<profile, link, file, req, world>>
        /\ vouched' = vouched
    BY DEF DogUp, world
  <1>1. Alone' /\ NotYet' /\ OldVouched'
    BY <1>0, OrderDog
  <1>2. profile[Eth0].addr \in vouched
    BY <1>0 DEF Order, SecureAt
  <1>3. Secure'
    BY <1>0, <1>2, DogUpFacts DEF Secure
  <1>4. Together' /\ Kept' /\ SecureAt'
    BY <1>3 DEF Together, Kept, SecureAt, Secure
  <1> QED  BY <1>1, <1>4 DEF Order

(* LEMMA OrderCrash: Crash keeps Order. *)
LEMMA OrderCrash ==
    ASSUME TypeInv, OneByOne, Order, Crash
    PROVE  Order'
  <1>0. /\ UNCHANGED <<profile, link, vouched, sshAt>>
        /\ \A p \in Procs : ~InSet(p)
    BY DEF Crash, OneByOne
  <1>1. \A p \in Procs : req'[p].pc = "idle"
    BY CrashFacts, IdleFacts
  <1>2. Alone' /\ NotYet'
    BY <1>1 DEF Alone, InSet, SetSteps, NotYet, Before
  <1>3. OldVouched'
    BY <1>0, <1>1, CrashFacts DEF Order, OldVouched, Before
  <1>4. Secure \/ Recorded
    BY <1>0 DEF Order, Kept, Changing, InSet, SetSteps, Before
  <1>5. Secure => Secure'
    BY <1>0, CrashFacts, RollbackAssumption DEF Secure
  <1>6. Together'
    BY <1>0, CrashFacts, RollbackAssumption DEF Together
  <1>7. Kept'
    BY <1>0, <1>4, <1>5, CrashFacts DEF Kept, Recorded
  <1>8. SecureAt'
    BY <1>1, CrashFacts DEF SecureAt
  <1> QED  BY <1>2, <1>3, <1>6, <1>7, <1>8 DEF Order

(* LEMMA OrderCable: Cable keeps Order. *)
LEMMA OrderCable ==
    ASSUME TypeInv, OneByOne, Order, NEW n \in Nics, Cable(n)
    PROVE  Order'
  <1>0. UNCHANGED <<profile, file, req, dog, vouched, sshAt>>
    BY DEF Cable, world
  <1>1. Alone' /\ NotYet' /\ OldVouched'
    BY <1>0 DEF Order, Alone, InSet, NotYet, OldVouched, OldAddr
  <1>2. \/ link'[Eth0] = link[Eth0] /\ eff'[Eth0] = eff[Eth0]
        \/ link'[Eth0] => eff'[Eth0] = profile[Eth0]
    BY CableFacts, RollbackAssumption
  <1>3. Secure => Secure'
    BY <1>0, <1>2 DEF Secure
  <1>4. Together'
    BY <1>0, <1>2 DEF Order, Together, Changing
  <1>5. Kept'
    BY <1>0, <1>3 DEF Order, Kept, Changing, Recorded
  <1>6. SecureAt'
    BY <1>0, <1>3 DEF Order, SecureAt
  <1> QED  BY <1>1, <1>4, <1>5, <1>6 DEF Order

(* LEMMA FaultsStay: what may go wrong is chosen at the start. *)
LEMMA FaultsStay ==
    ASSUME [Next]_vars PROVE faults' = faults
  BY DEF Next, SetStart, SetStep, SetModify, SetShow, SetDrop, SetUp, ArmOpen, ArmWrite,
         ArmTimer, LoginRead, LoginRename, DogStep, DogFire, DogRead, DogKeep, DogRestore,
         DogUp, DogRm, Remove, SshLogin, Crash, Cable, vars, world

(* LEMMA SshOrder: an SSH login is not later than now. *)
LEMMA SshOrder ==
    ASSUME TypeInv, sshAt =< stamp, [Next]_vars
    PROVE  sshAt' =< stamp' /\ faults' = faults
  <1>0. stamp \in Nat /\ sshAt \in Nat
    BY DEF TypeInv, TypeOK
  <1>1. ASSUME NEW p \in Procs, SetStart(p) \/ SetStep(p) \/ LoginRead(p) \/ LoginRename(p)
        PROVE  sshAt' = sshAt /\ stamp' \in {stamp, stamp + 1} /\ faults' = faults
    BY <1>1 DEF SetStart, SetStep, SetModify, SetShow, SetDrop, SetUp, ArmOpen, ArmWrite, ArmTimer,
                LoginRead, LoginRename, world
  <1>2. ASSUME NEW d \in Dogs, DogStep(d)
        PROVE  sshAt' = sshAt /\ stamp' = stamp /\ faults' = faults
    BY <1>2 DEF DogStep, DogFire, DogRead, DogKeep, DogRestore, DogUp, DogRm, Remove, world
  <1>3. CASE SshLogin
    BY <1>0, <1>3 DEF SshLogin
  <1>4. CASE Crash
    BY <1>0, <1>4 DEF Crash
  <1>5. ASSUME NEW n \in Nics, Cable(n)
        PROVE  sshAt' = sshAt /\ stamp' = stamp /\ faults' = faults
    BY <1>5 DEF Cable, world
  <1>6. CASE UNCHANGED vars
    BY <1>0, <1>6 DEF vars, world
  <1> QED  BY <1>0, <1>1, <1>2, <1>3, <1>4, <1>5, <1>6 DEF Next

(* LEMMA OrderNext: every step keeps what holds when changes are made one     *)
(* after the other.                                                           *)
LEMMA OrderNext ==
    ASSUME TypeInv, OneByOne, Order, sshAt =< stamp, LoginPorts = {Eth0}, [Next]_vars
    PROVE  Order'
  <1>1. ASSUME NEW p \in Procs, SetStart(p) \/ SetStep(p) \/ LoginRead(p) \/ LoginRename(p)
        PROVE  Order'
    BY <1>1, OrderSetStart, OrderSetModify, OrderSweep, OrderSetUp, OrderArmOpen,
       OrderArmWrite, OrderArmTimer, OrderLoginRead, OrderLoginRename DEF SetStep
  <1>2. ASSUME NEW d \in Dogs, DogStep(d) PROVE Order'
    BY <1>2, OrderDogFire, OrderDogRead, OrderRemove, OrderDogRestore, OrderDogUp DEF DogStep
  <1>3. CASE SshLogin
    BY <1>3, OrderSame DEF SshLogin
  <1>4. CASE Crash
    BY <1>4, OrderCrash
  <1>5. ASSUME NEW n \in Nics, Cable(n) PROVE Order'
    BY <1>5, OrderCable
  <1>6. CASE UNCHANGED vars
    <2>1. UNCHANGED <<profile, eff, link, file, req, dog, vouched, sshAt>>
      BY <1>6 DEF vars, world
    <2>2. Alone' /\ NotYet' /\ OldVouched'
      BY <2>1 DEF Order, Alone, InSet, NotYet, OldVouched, OldAddr
    <2>3. Together' /\ Kept' /\ SecureAt'
      BY <2>1 DEF Order, Together, Kept, SecureAt, Changing, Secure, Recorded
    <2> QED  BY <2>2, <2>3 DEF Order
  <1> QED  BY <1>1, <1>2, <1>3, <1>4, <1>5, <1>6 DEF Next

(* LEMMA OrderInit: it holds of the delivered configuration. *)
LEMMA OrderInit ==
    ASSUME Init PROVE OrderInv
  <1> DEFINE a == Cidr(Delivered.ip, Delivered.mask)
  <1>1. /\ profile = [n \in Nics |-> IF n = Eth0 THEN [addr |-> a, gw |-> TRUE] ELSE NoConfig]
        /\ eff = profile /\ vouched = {a}
        /\ file = NoFile /\ req = [p \in Procs |-> Idle] /\ dog = [d \in Dogs |-> Asleep]
        /\ stamp = 0 /\ sshAt = 0
    BY DEF Init
  <1> HIDE DEF a
  <1>2. profile[Eth0].addr = a
    BY <1>1, RollbackAssumption
  <1>3. Secure
    BY <1>1, <1>2 DEF Secure
  <1>4. /\ \A p \in Procs : req[p].pc = "idle"
        /\ \A d \in Dogs : dog[d].pc = "off"
        /\ file.st = "none"
    BY <1>1, IdleFacts DEF Asleep, NoFile
  <1>5. Alone /\ NotYet /\ OldVouched
    BY <1>4 DEF Alone, InSet, SetSteps, NotYet, OldVouched, Before
  <1>6. Together /\ Kept /\ SecureAt
    BY <1>3 DEF Together, Kept, SecureAt, Secure
  <1> QED  BY <1>1, <1>5, <1>6 DEF OrderInv, Order

(* THEOREM OrderHolds: the invariant behind OnRecord.  Users log in through   *)
(* eth0: a login through another port confirms a change nobody has tried.     *)
THEOREM OrderHolds ==
    ASSUME LoginPorts = {Eth0}
    PROVE  Spec => [](TypeInv /\ OrderInv)
  <1>1. ASSUME TypeInv, OrderInv, [Next]_vars PROVE OrderInv'
    <2>1. sshAt =< stamp /\ sshAt' =< stamp' /\ faults' = faults
      BY <1>1, SshOrder DEF OrderInv
    <2>2. CASE OneByOne
      BY <1>1, <2>1, <2>2, OrderNext DEF OrderInv
    <2>3. CASE ~OneByOne
      BY <2>1, <2>3 DEF OrderInv, OneByOne
    <2> QED  BY <2>2, <2>3
  <1> QED  BY <1>1, TypeInit, OrderInit, TypeNext, PTL DEF Spec

(* THEOREM UnconfirmedOnRecord: a change of eth0 that nobody has confirmed    *)
(* and that could not be taken back is still on record in rollback.json.      *)
THEOREM UnconfirmedOnRecord ==
    ASSUME LoginPorts = {Eth0}
    PROVE  Spec => []OnRecord
  <1>1. ASSUME TypeInv, OrderInv PROVE OnRecord
    <2> SUFFICES ASSUME OneByOne, Quiet, link[Eth0], eff[Eth0].addr \notin vouched
                 PROVE  file.st = "full" /\ ~file.confirmed
      BY DEF OnRecord, OneByOne
    <2>1. \A p \in Procs : ~Changing(p, Before \ {"modify"})
      BY DEF Quiet, Busy, Changing, Before
    <2> QED  BY <1>1, <2>1 DEF OrderInv, Order, Kept, Secure, Recorded
  <1> QED  BY <1>1, OrderHolds, PTL

-----------------------------------------------------------------------------
(* Nothing fails *)

SomeSet == \E p \in Procs : InSet(p)

(* LEMMA PendingSetting: a port is being set. *)
LEMMA PendingSetting ==
    TypeInv /\ Order /\ SomeSet => Pending
  <1> SUFFICES ASSUME TypeInv, Order, NEW p \in Procs, InSet(p)
               PROVE  Pending
    BY DEF SomeSet
  <1>1. CASE Changing(p, SetSteps \ {"modify"})
    BY <1>1 DEF Pending
  <1>2. CASE ~Changing(p, SetSteps \ {"modify"})
    <2>1. req[p].pc \in Before /\ req[p].pc # "write"
      BY <1>2 DEF Changing, InSet, SetSteps, Before, TypeInv, Filled
    <2>2. ~Recorded
      BY <2>1 DEF Order, NotYet, Recorded
    <2>3. Secure \/ \E q \in Procs : Changing(q, Before \ {"modify"})
      BY <2>2 DEF Order, Kept
    <2> QED  BY <2>3 DEF Pending, Changing, Before, SetSteps
  <1> QED  BY <1>1, <1>2

(* LEMMA PendingNext: so after a step. *)
LEMMA PendingNext ==
    ASSUME TypeInv', Order', NEW p \in Procs, InSet(p)'
    PROVE  Pending'
  <1>1. (TypeInv /\ Order /\ SomeSet => Pending)'
    BY PendingSetting, PTL
  <1> QED  BY <1>1 DEF SomeSet

(* LEMMA Unset: no port is being set, no watchdog is at work. *)
LEMMA Unset ==
    ASSUME Order, Pending, NEW p \in Procs, InSet(p), ~Changing(p, SetSteps \ {"modify"})
    PROVE  Secure
  <1>1. /\ \A q \in Procs : InSet(q) => q = p
        /\ \A d \in Dogs : dog[d].pc = "off"
    BY DEF Order, Alone
  <1>2. \A q \in Procs : ~Changing(q, SetSteps \ {"modify"})
    BY <1>1 DEF Changing, InSet
  <1> QED  BY <1>1, <1>2 DEF Pending

(* LEMMA CleanSetStart: SetStart keeps Clean. *)
LEMMA CleanSetStart ==
    ASSUME TypeInv, faults = {}, Order, Clean, Order', TypeInv', NEW p \in Procs, SetStart(p)
    PROVE  Clean'
  <1>0. /\ \A q \in Procs : req[q].pc = "idle"
        /\ UNCHANGED <<profile, eff, link, file, dog>>
    BY DEF SetStart, Busy
  <1>1. /\ \A q \in Procs \ {p} : req'[q].pc = "idle"
        /\ req'[p].pc = "modify"
    BY <1>0, StartFacts
  <1>2. LinkUp'
    BY <1>0 DEF Clean, LinkUp
  <1>3. OldKnown'
    <2>1. req'[p].nic = Eth0 => OldAddr(p)' # NoAddr
      BY StartFacts, AddrFacts, RollbackAssumption DEF Clean, LinkUp, TypeInv, Wired
    <2> QED  BY <1>0, <1>1, <2>1 DEF Clean, OldKnown, Before
  <1>4. Pending'
    BY <1>1, PendingNext DEF InSet, SetSteps
  <1> QED  BY <1>2, <1>3, <1>4 DEF Clean

(* LEMMA CleanSetModify: SetModify keeps Clean. *)
LEMMA CleanSetModify ==
    ASSUME TypeInv, faults = {}, Order, Clean, Order', TypeInv', NEW p \in Procs, SetModify(p)
    PROVE  Clean'
  <1>0. /\ req[p].pc = "modify" /\ req[p].pc \in Before /\ InSet(p)
        /\ UNCHANGED <<eff, link, file, vouched>>
    BY DEF SetModify, Before, InSet, SetSteps, world
  <1>1. /\ \A q \in Procs \ {p} : req[q].pc = "idle" /\ req'[q].pc = "idle"
        /\ \A d \in Dogs : dog[d].pc = "off" /\ dog'[d].pc = "off"
    BY <1>0, Setting, ModifyFacts
  <1>2. LinkUp'
    BY <1>0 DEF Clean, LinkUp
  <1>3. CASE profile' = profile /\ req'[p] = Idle
    <2>1. req'[p].pc = "idle"
      BY <1>3, IdleFacts
    <2>2. OldKnown'
      BY <1>0, <1>1, <2>1 DEF Clean, OldKnown, Before
    <2>3. Secure /\ Secure'
      <3>1. ~Changing(p, SetSteps \ {"modify"})
        BY <1>0 DEF Changing
      <3>2. Secure
        BY <1>0, <3>1, Unset DEF Clean
      <3> QED  BY <1>0, <1>3, <3>2 DEF Secure
    <2>4. Pending'
      BY <2>3 DEF Pending
    <2> QED  BY <1>2, <2>2, <2>4 DEF Clean
  <1>4. CASE /\ req'[p].pc = "clear"
             /\ req'[p].nic = req[p].nic
             /\ req'[p].cfg = req[p].cfg
             /\ req'[p].old = req[p].old
    <2>1. OldKnown'
      BY <1>0, <1>1, <1>4 DEF Clean, OldKnown, OldAddr, Before
    <2>2. Pending'
      BY <1>4, PendingNext DEF InSet, SetSteps
    <2> QED  BY <1>2, <2>1, <2>2 DEF Clean
  <1> QED  BY <1>3, <1>4, ModifyFacts

(* LEMMA CleanSweep: clear_gateway_others keeps Clean. *)
LEMMA CleanSweep ==
    ASSUME TypeInv, faults = {}, Order, Clean, Order', TypeInv', NEW p \in Procs,
           SetShow(p) \/ SetDrop(p)
    PROVE  Clean'
  <1>0. /\ req[p].pc \in Before /\ InSet(p)
        /\ UNCHANGED <<eff, link, file, vouched>>
    BY SweepFacts DEF Before, InSet, SetSteps, world
  <1>1. /\ \A q \in Procs : q # p => req'[q] = req[q]
        /\ req'[p].pc \in {"clear", "drop"}
        /\ req'[p].nic = req[p].nic
        /\ OldAddr(p)' = OldAddr(p)
    BY SweepFacts DEF OldAddr
  <1>2. \A q \in Procs \ {p} : req[q].pc = "idle" /\ req'[q].pc = "idle"
    BY <1>0, <1>1, Setting
  <1>3. LinkUp'
    BY <1>0 DEF Clean, LinkUp
  <1>4. OldKnown'
    BY <1>0, <1>1, <1>2 DEF Clean, OldKnown, Before
  <1>5. Pending'
    BY <1>1, PendingNext DEF InSet, SetSteps
  <1> QED  BY <1>3, <1>4, <1>5 DEF Clean

(* LEMMA CleanSetUp: SetUp keeps Clean. *)
LEMMA CleanSetUp ==
    ASSUME TypeInv, faults = {}, Order, Clean, Order', TypeInv', NEW p \in Procs, SetUp(p)
    PROVE  Clean'
  <1>0. /\ req[p].pc = "clear" /\ req[p].pc \in Before /\ InSet(p) /\ req[p].nic \in Nics
        /\ UNCHANGED <<profile, link, file, vouched, faults>>
    BY DEF SetUp, Before, InSet, SetSteps, world, TypeInv, TypeOK, Request
  <1>1. /\ \A q \in Procs \ {p} : req[q].pc = "idle" /\ req'[q].pc = "idle"
        /\ \A d \in Dogs : dog[d].pc = "off" /\ dog'[d].pc = "off"
    BY <1>0, Setting, UpFacts
  <1>2. LinkUp'
    BY <1>0 DEF Clean, LinkUp
  <1>3. CASE /\ req'[p].pc = "open"
             /\ req'[p].nic = req[p].nic
             /\ req'[p].cfg = req[p].cfg
             /\ req'[p].old = req[p].old
    <2>1. OldKnown'
      BY <1>0, <1>1, <1>3 DEF Clean, OldKnown, OldAddr, Before
    <2>2. Pending'
      BY <1>3, PendingNext DEF InSet, SetSteps
    <2> QED  BY <1>2, <2>1, <2>2 DEF Clean
  <1>4. CASE req[p].nic # Eth0 /\ req'[p] = Idle
    <2>1. req'[p].pc = "idle" /\ eff'[Eth0] = eff[Eth0]
      BY <1>4, IdleFacts, UpFacts, RollbackAssumption
    <2>2. OldKnown'
      BY <1>0, <1>1, <2>1 DEF Clean, OldKnown, Before
    <2>3. Secure'
      <3>1. ~Changing(p, SetSteps \ {"modify"})
        BY <1>4 DEF Changing
      <3>2. Secure
        BY <1>0, <3>1, Unset DEF Clean
      <3> QED  BY <1>0, <2>1, <3>2 DEF Secure
    <2>4. Pending'
      BY <2>3 DEF Pending
    <2> QED  BY <1>2, <2>2, <2>4 DEF Clean
  <1> QED  BY <1>3, <1>4, UpFacts

(* LEMMA CleanArm: the steps of arm_rollback that leave the profiles alone.   *)
LEMMA CleanArm ==
    ASSUME TypeInv, Order, Clean, Order', TypeInv', NEW p \in Procs,
           req[p].pc \in {"open", "write"}, req'[p].pc \in {"write", "timer"},
           req'[p].nic = req[p].nic, req'[p].cfg = req[p].cfg, req'[p].old = req[p].old,
           \A q \in Procs : q # p => req'[q] = req[q],
           \A d \in Dogs : dog'[d].pc = dog[d].pc,
           UNCHANGED <<profile, eff, link, faults>>,
           \/ file'.st = "empty"
           \/ file'.st = "full" /\ file'.old.addr = OldAddr(p)
    PROVE  Clean'
  <1>0. InSet(p) /\ req[p].pc \in Before /\ req[p].nic = Eth0 /\ OldAddr(p)' = OldAddr(p)
    BY DEF InSet, SetSteps, Before, TypeInv, Filled, OldAddr
  <1>1. /\ \A q \in Procs \ {p} : req[q].pc = "idle" /\ req'[q].pc = "idle"
        /\ \A d \in Dogs : dog[d].pc = "off" /\ dog'[d].pc = "off"
    BY <1>0, Setting
  <1>2. LinkUp'
    BY DEF Clean, LinkUp
  <1>3. OldKnown'
    BY <1>0, <1>1 DEF Clean, OldKnown, Before
  <1>4. Pending'
    BY PendingNext DEF InSet, SetSteps
  <1> QED  BY <1>2, <1>3, <1>4 DEF Clean

(* LEMMA CleanArmOpen: ArmOpen keeps Clean. *)
LEMMA CleanArmOpen ==
    ASSUME TypeInv, faults = {}, Order, Clean, Order', TypeInv', NEW p \in Procs, ArmOpen(p)
    PROVE  Clean'
  <1>1. req[p].pc = "open" /\ UNCHANGED <<profile, eff, link, faults>>
    BY DEF ArmOpen, world
  <1> QED  BY <1>1, OpenFacts, CleanArm

(* LEMMA CleanArmWrite: ArmWrite keeps Clean. *)
LEMMA CleanArmWrite ==
    ASSUME TypeInv, faults = {}, Order, Clean, Order', TypeInv', NEW p \in Procs, ArmWrite(p)
    PROVE  Clean'
  <1>1. req[p].pc = "write" /\ UNCHANGED <<profile, eff, link, faults>>
    BY DEF ArmWrite
  <1>2. p \in file.open
    BY <1>1 DEF Order, NotYet, Before
  <1> QED  BY <1>1, <1>2, WriteFacts, CleanArm

(* LEMMA CleanArmTimer: ArmTimer keeps Clean. *)
LEMMA CleanArmTimer ==
    ASSUME TypeInv, faults = {}, Order, Clean, NEW p \in Procs, ArmTimer(p)
    PROVE  Clean'
  <1>0. /\ req[p].pc = "timer" /\ InSet(p)
        /\ UNCHANGED <<profile, eff, link, file, vouched, faults>>
    BY DEF ArmTimer, InSet, SetSteps, world
  <1>1. /\ \A q \in Procs \ {p} : req'[q] = req[q] /\ req[q].pc \in {"idle", "rename"}
        /\ req'[p].pc = "idle"
        /\ \A d \in Dogs : dog[d].pc = "off"
    BY <1>0, Setting, TimerFacts, IdleFacts
  <1>2. LinkUp'
    BY <1>0 DEF Clean, LinkUp
  <1>3. OldKnown'
    BY <1>0, <1>1 DEF Clean, OldKnown, Before
  <1>4. Pending'
    BY TimerFacts DEF Pending
  <1> QED  BY <1>2, <1>3, <1>4 DEF Clean

(* LEMMA CleanLogin: a login, by SSH or through the page. *)
LEMMA CleanLogin ==
    ASSUME TypeInv, Order, Clean, LoginPorts = {Eth0},
           UNCHANGED <<profile, eff, link, file, dog, faults>>,
           \E n \in LoginPorts : Vouch(n),
           \/ req' = req
           \/ \E p \in Procs : /\ \A q \in Procs : q # p => req'[q] = req[q]
                               /\ req[p].pc = "idle" /\ req'[p].pc = "rename"
                               /\ req'[p].rec = file /\ file.st = "full"
    PROVE  Clean'
  <1>1. LinkUp'
    BY DEF Clean, LinkUp
  <1>2. OldKnown'
    BY DEF Clean, OldKnown, OldAddr, Before
  <1>3. Pending'
    <2>1. CASE \E p \in Procs : Changing(p, {"clear", "drop"})
      BY <2>1 DEF Pending, Changing, SetSteps
    <2>2. CASE \A p \in Procs : ~Changing(p, {"clear", "drop"})
      BY <2>2, LoginSecures DEF Pending
    <2> QED  BY <2>1, <2>2
  <1> QED  BY <1>1, <1>2, <1>3 DEF Clean

(* LEMMA CleanLoginRename: LoginRename keeps Clean. *)
LEMMA CleanLoginRename ==
    ASSUME TypeInv, faults = {}, Order, Clean, NEW p \in Procs, LoginRename(p)
    PROVE  Clean'
  <1>0. /\ req[p].pc = "rename"
        /\ UNCHANGED <<profile, eff, link, vouched, faults>>
    BY DEF LoginRename, world
  <1>1. req'[p].pc = "idle"
    BY RenameFacts, IdleFacts
  <1>2. LinkUp'
    BY <1>0 DEF Clean, LinkUp
  <1>3. OldKnown'
    BY <1>0, <1>1, RenameFacts DEF Clean, OldKnown, OldAddr, Before
  <1>4. Pending'
    BY <1>0 DEF Order, SecureAt, Pending, Secure
  <1> QED  BY <1>2, <1>3, <1>4 DEF Clean

(* LEMMA CleanDog: what a step of a watchdog leaves to show. *)
LEMMA CleanDog ==
    ASSUME TypeInv, Order, Clean, NEW d \in Dogs, dog[d].pc # "off",
           UNCHANGED <<link, req, vouched, faults>>,
           file' = file \/ file'.st = "none"
    PROVE  LinkUp' /\ OldKnown' /\ (Secure \/ Recorded)
  <1>1. /\ \A p \in Procs : req[p].pc \in {"idle", "rename"}
        /\ \A p \in Procs : ~Changing(p, Before \ {"modify"})
    BY OrderDog
  <1>2. LinkUp'
    BY DEF Clean, LinkUp
  <1>3. OldKnown'
    BY <1>1 DEF Clean, OldKnown, Before
  <1> QED  BY <1>1, <1>2, <1>3 DEF Order, Kept

(* LEMMA CleanDogStep: every step of a watchdog. *)
LEMMA CleanDogStep ==
    ASSUME TypeInv, faults = {}, Order, Clean, NEW d \in Dogs, DogStep(d)
    PROVE  Clean'
  <1>1. CASE DogFire(d)
    <2>0. dog[d].pc = "armed" /\ UNCHANGED <<profile, eff, link, file, req, vouched, faults>>
      BY <1>1 DEF DogFire, world
    <2>1. LinkUp' /\ OldKnown'
      BY <2>0, CleanDog
    <2>2. Pending'
      BY <1>1, FireFacts DEF Pending
    <2> QED  BY <2>1, <2>2 DEF Clean
  <1>2. CASE DogRead(d)
    <2>0. dog[d].pc = "read" /\ UNCHANGED <<profile, eff, link, file, req, vouched, faults>>
      BY <1>2 DEF DogRead, world
    <2>1. LinkUp' /\ OldKnown' /\ (Secure \/ Recorded)
      BY <2>0, CleanDog
    <2>2. Pending'
      <3>1. CASE dog'[d].pc # "off"
        BY <3>1 DEF Pending
      <3>2. CASE dog'[d].pc = "off"
        <4>1. Secure
          BY <1>2, <2>1, <3>2, DecisionFacts DEF Recorded
        <4> QED  BY <2>0, <4>1 DEF Pending, Secure
      <3> QED  BY <3>1, <3>2
    <2> QED  BY <2>1, <2>2 DEF Clean
  <1>3. CASE DogKeep(d) \/ DogRm(d)
    <2>0. /\ dog[d].pc \in {"keep", "rm"} /\ Remove(d)
      BY <1>3 DEF DogKeep, DogRm
    <2>1. UNCHANGED <<profile, eff, link, req, vouched, faults>> /\ file'.st = "none"
      BY <2>0, RemoveFacts DEF world
    <2>2. LinkUp' /\ OldKnown'
      BY <2>0, <2>1, CleanDog
    <2>3. Pending'
      BY <2>0, <2>1 DEF Order, SecureAt, Pending, Secure
    <2> QED  BY <2>2, <2>3 DEF Clean
  <1>4. CASE DogRestore(d)
    <2>0. dog[d].pc = "restore" /\ UNCHANGED <<eff, link, file, req, vouched, faults>>
      BY <1>4 DEF DogRestore, world
    <2>1. LinkUp' /\ OldKnown' /\ (Secure \/ Recorded)
      BY <2>0, CleanDog
    <2>2. \/ dog'[d].pc = "up"
          \/ profile' = profile /\ dog'[d].pc = "off" /\ file.st # "full"
      BY <1>4, RestoreFacts DEF Clean, OldKnown
    <2>3. Pending'
      BY <2>0, <2>1, <2>2 DEF Pending, Secure, Recorded
    <2> QED  BY <2>1, <2>3 DEF Clean
  <1>5. CASE DogUp(d)
    <2>0. dog[d].pc = "up" /\ UNCHANGED <<profile, link, file, req, vouched, faults>>
      BY <1>5 DEF DogUp, world
    <2>1. LinkUp' /\ OldKnown'
      BY <2>0, CleanDog
    <2>2. Pending'
      BY <1>5, DogUpFacts DEF Pending
    <2>3. eff'[Eth0] = profile'[Eth0]
      BY <1>5, <2>0, DogUpFacts, RollbackAssumption DEF Clean, LinkUp
    <2> QED  BY <2>1, <2>2 DEF Clean
  <1> QED  BY <1>1, <1>2, <1>3, <1>4, <1>5 DEF DogStep

(* LEMMA CleanCrash: Crash keeps Clean. *)
LEMMA CleanCrash ==
    ASSUME TypeInv, faults = {}, Order, Clean, Crash
    PROVE  Clean'
  <1>0. UNCHANGED <<profile, link, faults>>
    BY DEF Crash
  <1>1. \A p \in Procs : req'[p].pc = "idle"
    BY CrashFacts, IdleFacts
  <1>2. LinkUp'
    BY <1>0 DEF Clean, LinkUp
  <1>3. OldKnown'
    BY <1>1, CrashFacts DEF Clean, OldKnown, Before
  <1>4. Pending'
    BY CrashFacts, RollbackAssumption DEF Pending
  <1> QED  BY <1>2, <1>3, <1>4 DEF Clean

(* LEMMA CleanNext: every step. *)
LEMMA CleanNext ==
    ASSUME TypeInv, faults = {}, Order, Clean, Order', TypeInv', LoginPorts = {Eth0}, [Next]_vars
    PROVE  Clean'
  <1>1. ASSUME NEW p \in Procs, SetStart(p) \/ SetStep(p) \/ LoginRead(p) \/ LoginRename(p)
        PROVE  Clean'
    <2>1. CASE LoginRead(p)
      <3>1. /\ UNCHANGED <<profile, eff, link, file, dog, faults>>
            /\ \E n \in LoginPorts : Vouch(n)
            /\ req[p].pc = "idle"
        BY <2>1 DEF LoginRead, Busy
      <3> QED  BY <2>1, <3>1, ReadFacts, CleanLogin
    <2> QED  BY <1>1, <2>1, CleanSetStart, CleanSetModify, CleanSweep, CleanSetUp,
                CleanArmOpen, CleanArmWrite, CleanArmTimer, CleanLoginRename DEF SetStep
  <1>2. ASSUME NEW d \in Dogs, DogStep(d) PROVE Clean'
    BY <1>2, CleanDogStep
  <1>3. CASE SshLogin
    BY <1>3, CleanLogin DEF SshLogin
  <1>4. CASE Crash
    BY <1>4, CleanCrash
  <1>5. ASSUME NEW n \in Nics, Cable(n) PROVE FALSE
    BY <1>5 DEF Cable
  <1>6. CASE UNCHANGED vars
    <2>1. UNCHANGED <<profile, eff, link, file, req, dog, vouched, faults>>
      BY <1>6 DEF vars, world
    <2>2. LinkUp' /\ OldKnown' /\ Pending'
      BY <2>1 DEF Clean, LinkUp, OldKnown, OldAddr, Pending, Changing, Secure
    <2> QED  BY <2>2 DEF Clean
  <1> QED  BY <1>1, <1>2, <1>3, <1>4, <1>5, <1>6 DEF Next

(* LEMMA CleanInit: it holds of the delivered configuration. *)
LEMMA CleanInit ==
    ASSUME Init PROVE CleanInv
  <1> DEFINE a == Cidr(Delivered.ip, Delivered.mask)
  <1>1. /\ profile = [n \in Nics |-> IF n = Eth0 THEN [addr |-> a, gw |-> TRUE] ELSE NoConfig]
        /\ eff = profile /\ vouched = {a} /\ link = [n \in Nics |-> TRUE]
        /\ file = NoFile /\ req = [p \in Procs |-> Idle] /\ dog = [d \in Dogs |-> Asleep]
    BY DEF Init
  <1> HIDE DEF a
  <1>2. profile[Eth0].addr = a
    BY <1>1, RollbackAssumption
  <1>3. Secure
    BY <1>1, <1>2 DEF Secure
  <1>4. /\ \A p \in Procs : req[p].pc = "idle"
        /\ file.st = "none"
    BY <1>1, IdleFacts DEF NoFile
  <1>5. LinkUp
    BY <1>1 DEF LinkUp
  <1>6. OldKnown
    BY <1>4 DEF OldKnown, Before
  <1>7. Pending
    BY <1>3 DEF Pending
  <1> QED  BY <1>5, <1>6, <1>7 DEF CleanInv, Clean

(* THEOREM CleanHolds: the invariant behind the next theorem.                 *)
THEOREM CleanHolds ==
    ASSUME LoginPorts = {Eth0}
    PROVE  Spec => [](TypeInv /\ OrderInv /\ CleanInv)
  <1>1. ASSUME TypeInv, OrderInv, TypeInv', OrderInv', CleanInv, [Next]_vars PROVE CleanInv'
    <2>1. faults' = faults
      BY <1>1, SshOrder DEF OrderInv
    <2>2. CASE faults = {}
      BY <1>1, <2>1, <2>2, CleanNext DEF OrderInv, CleanInv, OneByOne
    <2> QED  BY <2>1, <2>2 DEF CleanInv
  <1> QED  BY <1>1, CleanInit, OrderHolds, PTL DEF Spec

(* THEOREM SettlesVouched: when nothing fails, changes are made one after the *)
(* other and none is cut short, an address of eth0 nobody has reached is      *)
(* never left behind.                                                         *)
THEOREM SettlesVouched ==
    ASSUME LoginPorts = {Eth0}
    PROVE  Spec => []SettledWithoutFaults
  <1>1. ASSUME CleanInv PROVE SettledWithoutFaults
    <2> SUFFICES ASSUME faults = {}, Quiet, link[Eth0] PROVE eff[Eth0].addr \in vouched
      BY DEF SettledWithoutFaults, SettledVouched
    <2>1. \A p \in Procs : ~Changing(p, SetSteps \ {"modify"})
      BY DEF Quiet, Busy, Changing, SetSteps
    <2>2. Secure
      BY <1>1, <2>1 DEF Quiet, CleanInv, Clean, Pending
    <2> QED  BY <2>2 DEF Secure
  <1> QED  BY <1>1, CleanHolds, PTL

-----------------------------------------------------------------------------
(* The gateway moves *)

(* LEMMA OneSets: while a port is being set nothing else is.                  *)
LEMMA OneSets ==
    ASSUME Alone, NEW p \in Procs, InSet(p)
    PROVE  /\ \A q \in Procs \ {p} : ~InSet(q)
           /\ \A d \in Dogs : dog[d].pc = "off"
  BY DEF Alone

(* LEMMA AloneSet: a step of a request that sets a port. *)
LEMMA AloneSet ==
    ASSUME Alone, NEW p \in Procs, InSet(p),
           \A q \in Procs : q # p => req'[q] = req[q],
           \/ \A d \in Dogs : dog'[d].pc = dog[d].pc
           \/ req'[p].pc = "idle"
    PROVE  Alone'
  <1>1. \A q \in Procs \ {p} : ~InSet(q)'
    BY OneSets DEF InSet
  <1>2. \/ \A d \in Dogs : dog'[d].pc = "off"
        \/ ~InSet(p)'
    BY OneSets DEF InSet, SetSteps
  <1> QED  BY <1>1, <1>2 DEF Alone

(* LEMMA AloneDog: a watchdog at work, and no port is being set. *)
LEMMA AloneDog ==
    ASSUME TypeInv, Alone, NEW d \in Dogs, dog[d].pc # "off", req' = req
    PROVE  /\ Alone'
           /\ \A p \in Procs : req[p].pc \in {"idle", "rename"}
           /\ Swept'
  <1>1. \A p \in Procs : ~InSet(p) /\ ~InSet(p)'
    BY DEF Alone, InSet
  <1>2. \A p \in Procs : req[p].pc \in {"idle", "rename"}
    BY <1>1 DEF InSet, TypeInv, TypeOK, Request
  <1>3. Swept'
    BY <1>2 DEF Swept, SetSteps
  <1> QED  BY <1>1, <1>2, <1>3 DEF Alone

(* LEMMA SweptSet: a step that does not sweep, of a request that sets a port. *)
LEMMA SweptSet ==
    ASSUME Gateway, NEW p \in Procs, InSet(p),
           \A q \in Procs : q # p => req'[q] = req[q],
           \/ /\ profile' = profile
              /\ req[p].pc \in SetSteps \ {"modify"}
              /\ req'[p].nic = req[p].nic
              /\ req'[p].cfg = req[p].cfg
              /\ req'[p].todo = {} /\ req[p].todo = {}
              /\ req'[p].dark = req[p].dark
           \/ req'[p].pc \in {"idle", "modify"}
    PROVE  Swept'
  <1>1. \A q \in Procs \ {p} : ~InSet(q)'
    BY OneSets DEF Gateway, InSet
  <1>2. ASSUME NEW q \in Procs, q # p
        PROVE  req'[q].pc \notin SetSteps
    BY <1>1, <1>2 DEF InSet
  <1>3. /\ req'[p].pc \in {"open", "write", "timer"} => req'[p].todo = {}
        /\ req'[p].pc \in SetSteps \ {"modify"} /\ req'[p].cfg.gateway # None =>
             \A n \in Nics \ {req'[p].nic} :
               profile'[n].gw => n \in req'[p].todo \cup req'[p].dark
    BY DEF Gateway, Swept, SetSteps
  <1> QED  BY <1>2, <1>3 DEF Swept, SetSteps

(* LEMMA GatewaySetStart: SetStart keeps Gateway. *)
LEMMA GatewaySetStart ==
    ASSUME TypeInv, "overlap" \notin faults, Gateway, NEW p \in Procs, SetStart(p)
    PROVE  Gateway'
  <1>1. /\ \A q \in Procs : req[q].pc = "idle"
        /\ \A d \in Dogs : dog[d].pc = "off"
        /\ UNCHANGED <<profile, eff, link, dog>>
    BY DEF SetStart, Busy
  <1>2. /\ \A q \in Procs \ {p} : req'[q].pc = "idle"
        /\ req'[p].pc = "modify"
    BY <1>1, StartFacts
  <1>3. Alone'
    BY <1>1, <1>2 DEF Alone, InSet, SetSteps
  <1>4. GatewaysActive'
    BY <1>1 DEF Gateway, GatewaysActive
  <1>5. Swept'
    BY <1>2 DEF Swept, SetSteps
  <1> QED  BY <1>3, <1>4, <1>5 DEF Gateway

(* LEMMA GatewaySetModify: SetModify keeps Gateway. *)
LEMMA GatewaySetModify ==
    ASSUME TypeInv, Gateway, NEW p \in Procs, SetModify(p)
    PROVE  Gateway'
  <1>0. req[p].pc = "modify" /\ InSet(p) /\ UNCHANGED <<eff, link>>
    BY DEF SetModify, InSet, SetSteps
  <1>1. Alone'
    BY <1>0, ModifyFacts, AloneSet DEF Gateway
  <1>2. /\ \A q \in Procs \ {p} : req[q].pc \notin SetSteps /\ req'[q] = req[q]
        /\ \A d \in Dogs : dog[d].pc = "off"
    BY <1>0, ModifyFacts, OneSets DEF Gateway, InSet
  <1>3. CASE profile' = profile /\ req'[p] = Idle
    <2>1. GatewaysActive'
      BY <1>0, <1>2, <1>3 DEF Gateway, GatewaysActive
    <2>2. Swept'
      BY <1>0, <1>3, ModifyFacts, IdleFacts, SweptSet
    <2> QED  BY <1>1, <2>1, <2>2 DEF Gateway
  <1>4. CASE /\ req'[p].pc = "clear"
             /\ req'[p].nic = req[p].nic
             /\ req'[p].cfg = req[p].cfg
             /\ req[p].cfg.gateway # None => req'[p].todo = Nics \ {req[p].nic}
    <2>1. GatewaysActive'
      <3>1. ASSUME NEW n \in Nics, link'[n], profile'[n].gw
            PROVE  \/ eff'[n].gw
                   \/ \E q \in Procs : req'[q].nic = n /\ req'[q].pc \in {"clear", "drop"}
        <4>1. CASE n = req[p].nic
          BY <1>4, <4>1
        <4>2. CASE n # req[p].nic
          BY <1>0, <1>2, <3>1, <4>2, ModifyFacts DEF Gateway, GatewaysActive, SetSteps
        <4> QED  BY <4>1, <4>2
      <3> QED  BY <3>1 DEF GatewaysActive
    <2>2. Swept'
      <3>1. \A q \in Procs \ {p} : req'[q].pc \notin SetSteps
        BY <1>2
      <3> QED  BY <1>4, <3>1 DEF Swept, SetSteps
    <2> QED  BY <1>1, <2>1, <2>2 DEF Gateway
  <1> QED  BY <1>3, <1>4, ModifyFacts

(* LEMMA GatewaySweep: clear_gateway_others keeps Gateway, because a gateway  *)
(* in the profile of a port with a cable is in effect.                        *)
LEMMA GatewaySweep ==
    ASSUME TypeInv, "nm_error" \notin faults, Gateway, NEW p \in Procs,
           SetShow(p) \/ SetDrop(p)
    PROVE  Gateway'
  <1>0. /\ req[p].pc \in {"clear", "drop"} /\ InSet(p) /\ UNCHANGED <<eff, link>> /\ dog' = dog
        /\ \A q \in Procs : q # p => req'[q] = req[q]
        /\ req'[p].pc \in {"clear", "drop"}
        /\ req'[p].nic = req[p].nic /\ req'[p].cfg = req[p].cfg
        /\ \A n \in Nics : profile'[n].gw => profile[n].gw
    BY SweepFacts DEF InSet, SetSteps
  <1>1. Alone'
    BY <1>0, AloneSet DEF Gateway
  <1>2. /\ \A q \in Procs \ {p} : req[q].pc \notin SetSteps
        /\ \A d \in Dogs : dog[d].pc = "off"
    BY <1>0, OneSets DEF Gateway, InSet
  <1>3. GatewaysActive'
    BY <1>0 DEF Gateway, GatewaysActive
  <1>4. ASSUME req[p].cfg.gateway # None, NEW n \in Nics \ {req[p].nic}, profile'[n].gw
        PROVE  n \in req'[p].todo \cup req'[p].dark
    <2>1. profile[n].gw /\ n \in req[p].todo \cup req[p].dark
      BY <1>0, <1>4 DEF Gateway, Swept, SetSteps
    <2>2. link[n] => eff[n].gw
      BY <1>2, <2>1 DEF Gateway, GatewaysActive, SetSteps
    <2>3. CASE SetShow(p)
      BY <2>1, <2>2, <2>3, ShowFacts
    <2>4. CASE SetDrop(p)
      BY <1>4, <2>1, <2>4, DropFacts
    <2> QED  BY <2>3, <2>4
  <1>5. Swept'
    BY <1>0, <1>2, <1>4 DEF Swept, SetSteps
  <1> QED  BY <1>1, <1>3, <1>5 DEF Gateway

(* LEMMA GatewaySetUp: SetUp keeps Gateway. *)
LEMMA GatewaySetUp ==
    ASSUME TypeInv, Gateway, NEW p \in Procs, SetUp(p)
    PROVE  Gateway'
  <1>0. /\ req[p].pc = "clear" /\ InSet(p) /\ req[p].nic \in Nics
        /\ UNCHANGED <<profile, link>>
    BY DEF SetUp, InSet, SetSteps, TypeInv, TypeOK, Request
  <1>1. Alone'
    BY <1>0, UpFacts, AloneSet DEF Gateway
  <1>2. /\ \A q \in Procs \ {p} : req[q].pc \notin SetSteps
        /\ \A d \in Dogs : dog[d].pc = "off"
    BY <1>0, OneSets DEF Gateway, InSet
  <1>3. GatewaysActive'
    <2>1. ASSUME NEW n \in Nics, link[n], profile[n].gw PROVE eff'[n].gw
      <3>1. CASE n = req[p].nic
        BY <2>1, <3>1, UpFacts
      <3>2. CASE n # req[p].nic
        BY <1>2, <2>1, <3>2, UpFacts DEF Gateway, GatewaysActive, SetSteps
      <3> QED  BY <3>1, <3>2
    <2> QED  BY <1>0, <2>1 DEF GatewaysActive
  <1>4. Swept'
    BY <1>0, UpFacts, IdleFacts, SweptSet DEF SetSteps
  <1> QED  BY <1>1, <1>3, <1>4 DEF Gateway

(* LEMMA GatewayArm: arm_rollback keeps Gateway. *)
LEMMA GatewayArm ==
    ASSUME TypeInv, Gateway, NEW p \in Procs, ArmOpen(p) \/ ArmWrite(p) \/ ArmTimer(p)
    PROVE  Gateway'
  <1>0. /\ req[p].pc \in {"open", "write", "timer"} /\ InSet(p)
        /\ UNCHANGED <<profile, eff, link>>
    BY DEF ArmOpen, ArmWrite, ArmTimer, InSet, SetSteps
  <1>1. req[p].todo = {}
    BY <1>0 DEF Gateway, Swept
  <1>2. /\ \A q \in Procs : q # p => req'[q] = req[q]
        /\ \/ \A d \in Dogs : dog'[d].pc = dog[d].pc
           \/ req'[p].pc = "idle"
        /\ \/ /\ req'[p].nic = req[p].nic
              /\ req'[p].cfg = req[p].cfg
              /\ req'[p].todo = {}
              /\ req'[p].dark = req[p].dark
              /\ req'[p].pc \in SetSteps \ {"modify"}
           \/ req'[p].pc = "idle"
    BY <1>1, OpenFacts, WriteFacts, TimerFacts, IdleFacts DEF SetSteps
  <1>3. Alone'
    BY <1>0, <1>2, AloneSet DEF Gateway
  <1>4. Swept'
    BY <1>0, <1>1, <1>2, SweptSet DEF SetSteps
  <1>5. GatewaysActive'
    <2>1. ASSUME NEW n \in Nics, link[n], profile[n].gw PROVE eff[n].gw
      <3>1. /\ \A q \in Procs : req[q].pc \notin {"clear", "drop"}
            /\ \A d \in Dogs : dog[d].pc = "off"
        BY <1>0, OneSets DEF Gateway, InSet, SetSteps
      <3> QED  BY <2>1, <3>1 DEF Gateway, GatewaysActive
    <2> QED  BY <1>0, <2>1 DEF GatewaysActive
  <1> QED  BY <1>3, <1>4, <1>5 DEF Gateway

(* LEMMA GatewayLogin: logins keep Gateway. *)
LEMMA GatewayLogin ==
    ASSUME TypeInv, Gateway, NEW p \in Procs, LoginRead(p) \/ LoginRename(p)
    PROVE  Gateway'
  <1>0. UNCHANGED <<profile, eff, link>> /\ req[p].pc \in {"idle", "rename"}
    BY DEF LoginRead, LoginRename, Busy
  <1>1. /\ \A q \in Procs : q # p => req'[q] = req[q]
        /\ req'[p].pc \in {"idle", "rename"}
        /\ \A d \in Dogs : dog'[d].pc = dog[d].pc
    BY <1>0, ReadFacts, RenameFacts, IdleFacts DEF LoginRead
  <1>2. Alone'
    BY <1>0, <1>1 DEF Gateway, Alone, InSet, SetSteps
  <1>3. GatewaysActive'
    BY <1>0, <1>1 DEF Gateway, GatewaysActive
  <1>4. Swept'
    BY <1>0, <1>1 DEF Gateway, Swept, SetSteps
  <1> QED  BY <1>2, <1>3, <1>4 DEF Gateway

(* LEMMA GatewayDog: every step of a watchdog keeps Gateway. *)
LEMMA GatewayDog ==
    ASSUME TypeInv, "nm_error" \notin faults, Gateway, NEW d \in Dogs, DogStep(d)
    PROVE  Gateway'
  <1>0. dog[d].pc # "off" /\ req' = req /\ link' = link
    BY DEF DogStep, DogFire, DogRead, DogKeep, DogRestore, DogUp, DogRm, Remove
  <1>1. Alone' /\ Swept'
    BY <1>0, AloneDog DEF Gateway
  <1>2. GatewaysActive'
    <2>1. CASE DogFire(d) \/ DogRead(d) \/ DogKeep(d) \/ DogRm(d)
      <3>1. /\ dog[d].pc # "up" /\ UNCHANGED <<profile, eff>>
            /\ \A e \in Dogs : e # d => dog'[e].pc = dog[e].pc
        BY <2>1, FireFacts, DecisionFacts, RemoveFacts
           DEF DogFire, DogRead, DogKeep, DogRm
      <3> QED  BY <1>0, <3>1 DEF Gateway, GatewaysActive
    <2>2. CASE DogRestore(d)
      <3>1. /\ dog[d].pc = "restore" /\ eff' = eff
            /\ \A n \in Nics \ {Eth0} : profile'[n] = profile[n]
            /\ \A e \in Dogs : e # d => dog'[e] = dog[e]
            /\ profile' = profile \/ dog'[d].pc = "up"
        BY <2>2, RestoreFacts DEF DogRestore
      <3> QED  BY <1>0, <3>1 DEF Gateway, GatewaysActive
    <2>3. CASE DogUp(d)
      <3>1. /\ profile' = profile
            /\ \A n \in Nics \ {Eth0} : eff'[n] = eff[n]
            /\ link[Eth0] => eff'[Eth0] = profile[Eth0]
        BY <2>3, DogUpFacts DEF DogUp
      <3> QED  BY <1>0, <3>1 DEF Gateway, GatewaysActive
    <2> QED  BY <2>1, <2>2, <2>3 DEF DogStep
  <1> QED  BY <1>1, <1>2 DEF Gateway

(* LEMMA GatewayNext: every step. *)
LEMMA GatewayNext ==
    ASSUME TypeInv, faults \cap {"overlap", "nm_error"} = {}, Gateway, [Next]_vars
    PROVE  Gateway'
  <1>0. "overlap" \notin faults /\ "nm_error" \notin faults
    OBVIOUS
  <1>1. ASSUME NEW p \in Procs, SetStart(p) \/ SetStep(p) \/ LoginRead(p) \/ LoginRename(p)
        PROVE  Gateway'
    BY <1>0, <1>1, GatewaySetStart, GatewaySetModify, GatewaySweep, GatewaySetUp,
       GatewayArm, GatewayLogin DEF SetStep
  <1>2. ASSUME NEW d \in Dogs, DogStep(d) PROVE Gateway'
    BY <1>0, <1>2, GatewayDog
  <1>3. CASE UNCHANGED <<profile, eff, link, req, dog>>
    BY <1>3 DEF Gateway, Alone, InSet, GatewaysActive, Swept
  <1>4. CASE Crash
    <2>1. \A p \in Procs : req'[p].pc = "idle"
      BY <1>4, CrashFacts, IdleFacts
    <2>2. Alone' /\ Swept'
      BY <2>1 DEF Alone, InSet, SetSteps, Swept
    <2>3. GatewaysActive'
      BY <1>4, CrashFacts DEF Crash, GatewaysActive
    <2> QED  BY <2>2, <2>3 DEF Gateway
  <1>5. ASSUME NEW n \in Nics, Cable(n) PROVE Gateway'
    <2>1. UNCHANGED <<profile, req, dog>>
      BY <1>5 DEF Cable
    <2>2. Alone' /\ Swept'
      BY <2>1 DEF Gateway, Alone, InSet, Swept
    <2>3. GatewaysActive'
      BY <1>5, <2>1, CableFacts DEF Gateway, GatewaysActive
    <2> QED  BY <2>2, <2>3 DEF Gateway
  <1> QED  BY <1>1, <1>2, <1>3, <1>4, <1>5 DEF Next, SshLogin, vars

(* LEMMA GatewayInit: in the delivered configuration. *)
LEMMA GatewayInit ==
    ASSUME Init PROVE GatewayInv
  <1>1. eff = profile /\ \A p \in Procs : req[p].pc = "idle"
    BY IdleFacts DEF Init
  <1> QED  BY <1>1 DEF GatewayInv, Gateway, Alone, InSet, SetSteps, GatewaysActive, Swept

(* THEOREM GatewayTakenOver: clear_gateway_others, which looks at the         *)
(* configuration in effect, leaves another profile with a gateway only if the *)
(* port had no cable when it was looked at; whatever the ports users log in   *)
(* through, cables, power failures in the middle of a change, a rollback.json *)
(* that cannot be written and timers that cannot be started.                  *)
THEOREM GatewayTakenOver == Spec => []GatewayMoved
  <1>1. ASSUME TypeInv, GatewayInv, [Next]_vars PROVE GatewayInv'
    <2>1. faults' = faults
      BY <1>1, FaultsStay
    <2> QED  BY <1>1, <2>1, GatewayNext DEF GatewayInv
  <1>2. ASSUME GatewayInv PROVE GatewayMoved
    <2> SUFFICES ASSUME Gateway, NEW p \in Procs, Cleared(p), req[p].cfg.gateway # None,
                        NEW n \in Nics \ {req[p].nic}, profile[n].gw
                 PROVE  n \in req[p].dark
      BY <1>2 DEF GatewayMoved, GatewayInv
    <2>1. req[p].todo = {} /\ req[p].pc \in SetSteps \ {"modify"}
      BY DEF Gateway, Swept, Cleared, SetSteps
    <2> QED  BY <2>1 DEF Gateway, Swept
  <1>3. Spec => [](TypeInv /\ GatewayInv)
    BY <1>1, TypeInit, TypeNext, GatewayInit, PTL DEF Spec
  <1> QED  BY <1>2, <1>3, PTL
=============================================================================
