----------------------------- MODULE RingArith -----------------------------
(***************************************************************************)
(* Facts about x % n that a ring of n slots rests on.  n is a variable     *)
(* here, so the arithmetic is not linear and is taken in small steps.      *)
(***************************************************************************)
EXTENDS Integers, TLAPS

\* A remainder by n is a slot of a ring of n slots, and a slot is its own
\* remainder (the indices of cbuf.c, all taken modulo bufsize).
LEMMA ModRange ==
    ASSUME NEW n \in Nat \ {0}, NEW x \in Int
    PROVE  x % n \in 0 .. n - 1 /\ (x \in 0 .. n - 1 => x % n = x)
  OBVIOUS

\* Division with remainder.
LEMMA ModDiv ==
    ASSUME NEW n \in Nat \ {0}, NEW x \in Int
    PROVE  /\ x \div n \in Int /\ x % n \in 0 .. n - 1
           /\ x = (x \div n) * n + (x % n)
  OBVIOUS

\* Multiples of n that are not equal are at least n apart.
LEMMA Multiples ==
    ASSUME NEW n \in Nat \ {0}, NEW p \in Int, NEW q \in Int, p < q
    PROVE  p * n \in Int /\ q * n \in Int /\ q * n - p * n >= n
<1>1. PICK d \in Nat : q = p + 1 + d
  <2>1. q - p - 1 \in Nat
    OBVIOUS
  <2> QED
    BY <2>1
<1>2. q * n = p * n + n + d * n
  BY <1>1
<1>3. d * n \in Nat /\ p * n \in Int
  BY <1>1
<1> QED
  BY <1>2, <1>3

\* Quotient and remainder are unique.
LEMMA ModUnique ==
    ASSUME NEW n \in Nat \ {0}, NEW p \in Int, NEW q \in Int,
           NEW r \in 0 .. n - 1, NEW s \in 0 .. n - 1,
           p * n + r = q * n + s
    PROVE  p = q /\ r = s
<1>1. p * n \in Int /\ q * n \in Int
  OBVIOUS
<1>2. ~(p < q)
  BY <1>1, Multiples
<1>3. ~(q < p)
  BY <1>1, Multiples
<1>4. p = q
  BY <1>2, <1>3
<1> QED
  BY <1>1, <1>4

\* The slot after x's slot, as the code steps its indices.
LEMMA ModSucc ==
    ASSUME NEW n \in Nat \ {0}, NEW x \in Int
    PROVE  (x + 1) % n = IF x % n = n - 1 THEN 0 ELSE (x % n) + 1
<1> DEFINE p == x \div n
           r == x % n
           q == (x + 1) \div n
           s == (x + 1) % n
<1>1. /\ p \in Int /\ q \in Int /\ r \in 0 .. n - 1 /\ s \in 0 .. n - 1
      /\ x = p * n + r /\ x + 1 = q * n + s
  BY ModDiv, x + 1 \in Int
<1>2. p * n \in Int /\ q * n \in Int
  BY <1>1
<1> HIDE DEF p, q, r, s
<1>3. CASE r = n - 1
  <2>1. (p + 1) * n = p * n + n
    BY <1>1
  <2>2. (p + 1) * n + 0 = q * n + s
    BY <2>1, <1>1, <1>2, <1>3
  <2>3. s = 0
    BY <2>2, ModUnique, <1>1
  <2> QED
    BY <2>3, <1>3 DEF r, s
<1>4. CASE r # n - 1
  <2>1. r + 1 \in 0 .. n - 1
    BY <1>1, <1>4
  <2>2. p * n + (r + 1) = q * n + s
    BY <1>1, <1>2
  <2>3. s = r + 1
    BY <2>1, <2>2, ModUnique, <1>1
  <2> QED
    BY <2>3, <1>4, <1>1 DEF r, s
<1> QED
  BY <1>3, <1>4

\* Going round the ring once leads back to the same slot.
LEMMA ModRound ==
    ASSUME NEW n \in Nat \ {0}, NEW x \in Int
    PROVE  (x + n) % n = x % n
<1> DEFINE p == x \div n
           r == x % n
           q == (x + n) \div n
           s == (x + n) % n
<1>1. /\ p \in Int /\ q \in Int /\ r \in 0 .. n - 1 /\ s \in 0 .. n - 1
      /\ x = p * n + r /\ x + n = q * n + s
  BY ModDiv, x + n \in Int
<1>2. p * n \in Int /\ q * n \in Int
  BY <1>1
<1> HIDE DEF p, q, r, s
<1>3. (p + 1) * n = p * n + n
  BY <1>1
<1>4. (p + 1) * n + r = q * n + s
  BY <1>1, <1>2, <1>3
<1>5. r = s
  BY <1>4, ModUnique, <1>1
<1> QED
  BY <1>5 DEF r, s

\* Two numbers that share a slot are a whole round apart: within one round
\* no item overwrites another.
LEMMA ModApart ==
    ASSUME NEW n \in Nat \ {0}, NEW x \in Int, NEW y \in Int,
           x % n = y % n, x < y
    PROVE  y - x >= n
<1> DEFINE p == x \div n
           q == y \div n
           r == x % n
<1>1. /\ p \in Int /\ q \in Int /\ r \in Int
      /\ x = p * n + r /\ y = q * n + r
  BY ModDiv
<1> HIDE DEF p, q, r
<1>2. p * n \in Int /\ q * n \in Int
  BY <1>1
<1>3. ~(q <= p)
  <2>1. q = p \/ q < p \/ p < q
    BY <1>1
  <2> QED
    BY <2>1, <1>1, <1>2, Multiples
<1>4. q * n - p * n >= n
  BY <1>1, <1>3, Multiples
<1> QED
  BY <1>1, <1>2, <1>4

\* A number below n is known from the remainder of its sum with another.
LEMMA ModTells ==
    ASSUME NEW n \in Nat \ {0}, NEW x \in Nat, x < n, NEW y \in Nat, y < n, NEW r \in Int,
           (x + r) % n = (y + r) % n
    PROVE  x = y
<1> DEFINE p == (x + r) \div n
           q == (y + r) \div n
           s == (x + r) % n
<1>1. /\ p \in Int /\ q \in Int /\ s \in 0 .. n - 1
      /\ x + r = p * n + s /\ y + r = q * n + s
  BY ModDiv, x + r \in Int, y + r \in Int
<1>2. p * n \in Int /\ q * n \in Int
  BY <1>1
<1> HIDE DEF p, q, s
<1>3. PICK d \in Int : d = p - q
  BY <1>1
<1>4. p * n = q * n + d * n /\ d * n \in Int
  BY <1>1, <1>3
<1>5. x = y + d * n
  BY <1>1, <1>2, <1>4
<1>6. ~(p < q) /\ ~(q < p)
  BY <1>1, <1>2, <1>4, <1>5, Multiples
<1> QED
  BY <1>1, <1>2, <1>6
=============================================================================
