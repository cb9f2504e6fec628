-------------------------------- MODULE Wrap --------------------------------
(***************************************************************************)
(* Arithmetic modulo W: what is needed of counters that wrap.              *)
(***************************************************************************)
EXTENDS Integers, TLAPS

\* The only multiple of W between -W and W is 0.
LEMMA SmallMultiple ==
  ASSUME NEW W \in Nat \ {0}, NEW x \in Int, x * W < W, -W < x * W
  PROVE  x = 0
<1>1. CASE x >= 1
  <2>1. PICK y \in Nat : x = y + 1
    BY <1>1
  <2>2. x * W = y * W + W
    BY <2>1
  <2>3. y * W >= 0
    OBVIOUS
  <2>4. QED BY <2>2, <2>3
<1>2. CASE x <= -1
  <2>1. PICK y \in Nat : x = -1 - y
    BY <1>2
  <2>2. x * W = -W - (y * W)
    BY <2>1
  <2>3. y * W >= 0
    OBVIOUS
  <2>4. QED BY <2>2, <2>3
<1>3. QED BY <1>1, <1>2

\* Division with remainder.
LEMMA DivMod ==
  ASSUME NEW W \in Nat \ {0}, NEW a \in Int
  PROVE  /\ a % W \in 0..(W - 1)
         /\ a \div W \in Int
         /\ a = W * (a \div W) + (a % W)
OBVIOUS

\* The remainder is unique.
LEMMA ModIs ==
  ASSUME NEW W \in Nat \ {0}, NEW q \in Int, NEW r \in 0..(W - 1)
  PROVE  (q * W + r) % W = r
<1> DEFINE a == q * W + r
           d == a \div W
<1>1. a \in Int
  OBVIOUS
<1>2. a % W \in 0..(W - 1) /\ d \in Int /\ a = W * d + (a % W)
  BY <1>1, DivMod
<1>3. (q - d) * W = (a % W) - r
  <2>1. (q - d) * W = q * W - d * W
    BY <1>2
  <2>2. QED BY <1>2, <2>1
<1>4. q - d = 0
  BY <1>2, <1>3, SmallMultiple
<1>5. QED BY <1>2, <1>3, <1>4

\* What is below W is its own remainder.
LEMMA ModSmall ==
  ASSUME NEW W \in Nat \ {0}, NEW r \in 0..(W - 1)
  PROVE  r % W = r
<1>1. 0 * W + r = r
  OBVIOUS
<1>2. (0 * W + r) % W = r
  BY ModIs
<1>3. QED BY <1>1, <1>2

\* Multiples of W do not matter.
LEMMA ModPlusMultiple ==
  ASSUME NEW W \in Nat \ {0}, NEW a \in Int, NEW m \in Int
  PROVE  (a + m * W) % W = a % W
<1> DEFINE q == a \div W
           r == a % W
<1>1. r \in 0..(W - 1) /\ q \in Int /\ a = W * q + r
  BY DivMod
<1>2. a + m * W = (q + m) * W + r
  <2>1. (q + m) * W = q * W + m * W
    BY <1>1
  <2>2. QED BY <1>1, <2>1
<1>3. q + m \in Int
  BY <1>1
<1>4. ((q + m) * W + r) % W = r
  BY <1>1, <1>3, ModIs
<1>5. QED BY <1>2, <1>4

\* A counter that wraps and is then advanced is where it would be had it wrapped
\* afterwards.
LEMMA ModThenAdd ==
  ASSUME NEW W \in Nat \ {0}, NEW a \in Int, NEW k \in Int
  PROVE  ((a % W) + k) % W = (a + k) % W
<1> DEFINE q == a \div W
           r == a % W
<1>1. r \in Int /\ q \in Int /\ a = W * q + r
  BY DivMod
<1>2. a + k = (r + k) + q * W
  BY <1>1
<1>3. r + k \in Int
  BY <1>1
<1>4. ((r + k) + q * W) % W = (r + k) % W
  BY <1>1, <1>3, ModPlusMultiple
<1>5. QED BY <1>2, <1>4

\* The distance of two counters that have wrapped is their distance.
LEMMA ModDistance ==
  ASSUME NEW W \in Nat \ {0}, NEW a \in Int, NEW b \in Int, b - a \in 0..(W - 1)
  PROVE  ((b % W) - (a % W)) % W = b - a
<1> DEFINE p == a \div W
           q == b \div W
           r == a % W
           s == b % W
<1>1. r \in Int /\ p \in Int /\ a = W * p + r
  BY DivMod
<1>2. s \in Int /\ q \in Int /\ b = W * q + s
  BY DivMod
<1>3. b - a = (s - r) + (q - p) * W
  <2>1. (q - p) * W = q * W - p * W
    BY <1>1, <1>2
  <2>2. QED BY <1>1, <1>2, <2>1
<1>4. s - r \in Int /\ q - p \in Int
  BY <1>1, <1>2
<1>5. ((s - r) + (q - p) * W) % W = (s - r) % W
  BY <1>4, ModPlusMultiple
<1>6. (b - a) % W = b - a
  BY ModSmall
<1>7. QED BY <1>3, <1>5, <1>6

\* Two counters less than W apart are equal when their remainders are.
LEMMA ModInjective ==
  ASSUME NEW W \in Nat \ {0}, NEW a \in Int, NEW b \in Int,
         b - a \in 0..(W - 1), a % W = b % W
  PROVE  a = b
<1>1. a % W \in Int
  BY DivMod
<1>2. (b % W) - (a % W) = 0
  BY <1>1
<1>3. 0 % W = 0
  BY ModSmall
<1>4. b - a = 0
  BY <1>2, <1>3, ModDistance
<1>5. QED BY <1>4

\* A remainder of 0 means a multiple.
LEMMA ModZero ==
  ASSUME NEW P \in Nat \ {0}, NEW W \in Nat, W % P = 0
  PROVE  \E K \in Nat : W = K * P
<1>1. \A V \in Nat : \E q, r \in Int : V = q * P + r /\ r = V % P
  <2> TAKE V \in Nat
  <2> WITNESS V \div P \in Int, V % P \in Int
  <2> QED BY DivMod
<1>2. PICK q, r \in Int : W = q * P + r /\ r = W % P
  BY <1>1
<1>3. W = q * P
  BY <1>2
<1>4. q \in Nat
  <2>1. ASSUME q <= -1 PROVE FALSE
    <3>1. PICK y \in Nat : q = -1 - y
      BY <2>1
    <3>2. q * P = -P - (y * P) /\ y * P >= 0
      BY <3>1
    <3>3. QED BY <3>2, <1>3
  <2>2. QED BY <2>1
<1>5. QED BY <1>3, <1>4

\* Multiplication associates.
LEMMA TimesAssociates ==
  ASSUME NEW q \in Int, NEW K \in Int, NEW P \in Int
  PROVE  (q * K) * P = q * (K * P)
OBVIOUS

\* Wrapping at a multiple of P does not change the remainder by P.
LEMMA ModMultiple ==
  ASSUME NEW P \in Nat \ {0}, NEW K \in Nat, NEW W \in Nat \ {0}, W = K * P, NEW a \in Int
  PROVE  (a % W) % P = a % P
<1>1. \A V \in Nat \ {0} : \E q, r \in Int : a = q * V + r /\ r = a % V
  <2> TAKE V \in Nat \ {0}
  <2> WITNESS a \div V \in Int, a % V \in Int
  <2> QED BY DivMod
<1>2. PICK q, r \in Int : a = q * W + r /\ r = a % W
  BY <1>1
<1>3. a = r + (q * K) * P /\ q * K \in Int
  BY <1>2, TimesAssociates
<1>4. (r + (q * K) * P) % P = r % P
  BY <1>3, ModPlusMultiple
<1>5. QED BY <1>2, <1>3, <1>4
=============================================================================
