-------------------------- MODULE ArithmeticLemmas --------------------------
(***************************************************************************)
(* Arithmetic the proofs share: the code indexes its buffers and rings     *)
(* modulo their size, and searches its tables from the first entry on.     *)
(***************************************************************************)
EXTENDS Integers, FiniteSetsExt, WellFoundedInduction, TLAPS

\* Sequence numbers below SeqMod are not changed by the 32-bit wrap-around.
LEMMA ModSmall ==
  ASSUME NEW a \in Nat, NEW m \in Nat, a < m
  PROVE  a % m = a
  OBVIOUS

\* A number modulo a buffer size is an index of that buffer, as in
\* sequence_number % INORDER_BUFFER_SIZE.
LEMMA ModRange ==
  ASSUME NEW a \in Nat, NEW m \in Nat \ {0}
  PROVE  a % m \in 0 .. m - 1
  OBVIOUS

\* Multiples of a buffer size are at least that size apart.
LEMMA ProductGap ==
  ASSUME NEW m \in Nat, NEW p \in Nat, NEW q \in Nat, p < q
  PROVE  m * p + m <= m * q
  <1> DEFINE d == q - p - 1
  <1>1. d \in Nat /\ q = p + 1 + d
    OBVIOUS
  <1> HIDE DEF d
  <1>2. m * q = m * p + m + m * d
    BY <1>1
  <1>3. m * d \in Nat /\ m * p \in Nat
    BY <1>1
  <1> QED BY <1>2, <1>3

\* Two numbers less than a buffer size apart have different slots, unless
\* they are the same.
LEMMA ModInjective ==
  ASSUME NEW m \in Nat \ {0}, NEW a \in Nat, NEW b \in Nat,
         a % m = b % m, a - b < m, b - a < m
  PROVE  a = b
  <1> DEFINE p == a \div m
             q == b \div m
             r == a % m
  <1>1. a = m * p + r /\ b = m * q + r
    OBVIOUS
  <1>2. p \in Nat /\ q \in Nat /\ r \in Nat /\ m * p \in Nat /\ m * q \in Nat
    OBVIOUS
  <1> HIDE DEF p, q, r
  <1>3. ~(p < q)
    BY <1>1, <1>2, ProductGap
  <1>4. ~(q < p)
    BY <1>1, <1>2, ProductGap
  <1>5. p = q
    BY <1>2, <1>3, <1>4
  <1> QED BY <1>1, <1>5

\* Min, which LoopRounds uses for the round where the loop of
\* inorder.hook_ingress stops, is the least element of a set of naturals.
LEMMA MinProperties ==
  ASSUME NEW T \in SUBSET Nat, T # {}
  PROVE  Min(T) \in T /\ \A y \in T : Min(T) <= y
  <1> DEFINE R == {ss \in Nat \X Nat : ss[1] < ss[2]}
  <1>0. R = OpToRel(<, Nat)
    BY Zenon DEF OpToRel
  <1>a. IsWellFoundedOn(R, Nat)
    BY <1>0, NatLessThanWellFounded, Zenon
  <1>1. PICK x \in T : \A y \in T : ~(<<y, x>> \in R)
    BY <1>a, WFMin, Zenon
  <1>2. ASSUME NEW y \in T, y < x PROVE FALSE
    <2>1. <<y, x>> \in Nat \X Nat
      OBVIOUS
    <2>2. <<y, x>>[1] < <<y, x>>[2]
      BY <1>2
    <2> QED BY <1>1, <2>1, <2>2, Zenon
  <1>3. \A y \in T : x <= y
    BY <1>2
  <1> QED BY <1>3 DEF Min

\* Quotient and remainder are the only ones.
LEMMA DivModUnique ==
  ASSUME NEW m \in Nat \ {0}, NEW a \in Int, NEW q \in Int, NEW r \in 0 .. m - 1,
         a = m * q + r
  PROVE  q = a \div m /\ r = a % m
  <1> DEFINE p == a \div m
             s == a % m
  <1>1. a = m * p + s /\ p \in Int /\ s \in 0 .. m - 1
    OBVIOUS
  <1> HIDE DEF p, s
  <1>2. \A x, y \in Int : x < y => m * x + m <= m * y
    <2> TAKE x, y \in Int
    <2> HAVE x < y
    <2>1. y - x - 1 \in Nat
      OBVIOUS
    <2>2. m * (y - x - 1) \in Nat
      BY <2>1
    <2>3. m * y = m * x + m + m * (y - x - 1)
      OBVIOUS
    <2>4. m * x \in Int /\ m * y \in Int
      OBVIOUS
    <2> QED BY <2>2, <2>3, <2>4
  <1>3. m * p \in Int /\ m * q \in Int
    BY <1>1
  <1>4. ~(p < q)
    BY <1>1, <1>2, <1>3
  <1>5. ~(q < p)
    BY <1>1, <1>2, <1>3
  <1>6. p = q
    BY <1>1, <1>4, <1>5
  <1> QED BY <1>1, <1>3, <1>6 DEF p, s

\* A number is its quotient times the divisor and its remainder.
LEMMA DivModFacts ==
  ASSUME NEW m \in Nat \ {0}, NEW a \in Int
  PROVE  /\ a \div m \in Int /\ a % m \in 0 .. m - 1
         /\ m * (a \div m) \in Int
         /\ a = m * (a \div m) + (a % m)
         /\ a \in Nat => a \div m \in Nat /\ m * (a \div m) \in Nat
  OBVIOUS

\* The remainder may be taken before or after adding, as the code does when it
\* advances an index of a ring.
LEMMA ModAdd ==
  ASSUME NEW m \in Nat \ {0}, NEW a \in Int, NEW b \in Int
  PROVE  ((a % m) + b) % m = (a + b) % m
  <1> DEFINE p == a \div m
             s == a % m
             q == (s + b) \div m
             r == (s + b) % m
  <1>1. a = m * p + s /\ p \in Int /\ s \in Int /\ m * p \in Int
    BY DivModFacts
  <1> HIDE DEF p, s
  <1>2. s + b = m * q + r /\ q \in Int /\ r \in 0 .. m - 1 /\ m * q \in Int
    BY <1>1, DivModFacts
  <1> HIDE DEF q, r
  <1>3. a + b = m * (p + q) + r
    BY <1>1, <1>2
  <1>4. p + q \in Int /\ a + b \in Int
    BY <1>1, <1>2
  <1>5. r = (a + b) % m
    BY <1>2, <1>3, <1>4, DivModUnique, Zenon
  <1> QED BY <1>5 DEF r, s

\* Adding the divisor does not change a remainder.
LEMMA ModPlus ==
  ASSUME NEW m \in Nat \ {0}, NEW a \in Int
  PROVE  (a + m) % m = a % m
  <1> DEFINE p == a \div m
             s == a % m
  <1>1. a = m * p + s /\ p \in Int /\ s \in 0 .. m - 1 /\ m * p \in Int
    BY DivModFacts
  <1> HIDE DEF p, s
  <1>2. a + m = m * (p + 1) + s
    BY <1>1
  <1>3. s = (a + m) % m
    BY <1>1, <1>2, DivModUnique
  <1> QED BY <1>3 DEF s

\* The distance of two positions of a ring from their remainders.
LEMMA ModDistance ==
  ASSUME NEW m \in Nat \ {0}, NEW a \in Int, NEW b \in Int
  PROVE  ((a % m) + m - (b % m)) % m = (a - b) % m
  <1> DEFINE p == a \div m
             s == a % m
             q == b \div m
             t == b % m
             e == (a - b) \div m
             r == (a - b) % m
  <1>1. a = m * p + s /\ p \in Int /\ s \in Int /\ m * p \in Int
    BY DivModFacts
  <1>2. b = m * q + t /\ q \in Int /\ t \in Int /\ m * q \in Int
    BY DivModFacts
  <1>3. a - b = m * e + r /\ e \in Int /\ r \in 0 .. m - 1 /\ m * e \in Int
    BY DivModFacts
  <1> HIDE DEF p, q, s, t, e, r
  <1>4. s + m - t = m * (e - p + q + 1) + r
    <2>1. m * (e - p + q + 1) = m * e - m * p + m * q + m
      BY <1>1, <1>2, <1>3
    <2> QED BY <1>1, <1>2, <1>3, <2>1
  <1>5. e - p + q + 1 \in Int /\ s + m - t \in Int
    BY <1>1, <1>2, <1>3
  <1>6. r = (s + m - t) % m
    BY <1>3, <1>4, <1>5, DivModUnique, Zenon
  <1> QED BY <1>6 DEF r, s, t

\* A small number and its remainder; a negative one lies one turn back.
LEMMA ModNear ==
  ASSUME NEW m \in Nat \ {0}, NEW x \in Int, -m <= x, x < m
  PROVE  x % m = IF x >= 0 THEN x ELSE x + m
  <1>1. CASE x >= 0
    BY <1>1, ModSmall
  <1>2. CASE x < 0
    <2>1. x = m * (-1) + (x + m) /\ x + m \in 0 .. m - 1 /\ -1 \in Int
      BY <1>2
    <2>2. x + m = x % m
      BY <2>1, DivModUnique, Zenon
    <2> QED BY <1>2, <2>2
  <1> QED BY <1>1, <1>2

\* What a carry adds to the quotient.
LEMMA DivAdd ==
  ASSUME NEW m \in Nat \ {0}, NEW a \in Int, NEW b \in Int
  PROVE  (a + b) \div m = a \div m + ((a % m) + b) \div m
  <1> DEFINE p == a \div m
             s == a % m
             q == (s + b) \div m
             r == (s + b) % m
  <1>1. a = m * p + s /\ p \in Int /\ s \in Int /\ m * p \in Int
    BY DivModFacts
  <1> HIDE DEF p, s
  <1>2. s + b = m * q + r /\ q \in Int /\ r \in 0 .. m - 1 /\ m * q \in Int
    BY <1>1, DivModFacts
  <1> HIDE DEF q, r
  <1>3. a + b = m * (p + q) + r
    BY <1>1, <1>2
  <1>4. p + q = (a + b) \div m
    BY <1>1, <1>2, <1>3, DivModUnique
  <1> QED BY <1>4 DEF q, s, p

\* The quotient does not decrease.
LEMMA DivMonotone ==
  ASSUME NEW m \in Nat \ {0}, NEW a \in Int, NEW b \in Int, a <= b
  PROVE  a \div m <= b \div m
  <1> DEFINE p == a \div m
             q == b \div m
  <1>1. /\ a = m * p + (a % m) /\ p \in Int /\ a % m \in 0 .. m - 1 /\ m * p \in Int
        /\ b = m * q + (b % m) /\ q \in Int /\ b % m \in 0 .. m - 1 /\ m * q \in Int
    BY DivModFacts
  <1> HIDE DEF p, q
  <1>2. ASSUME q < p PROVE FALSE
    <2>1. p - q - 1 \in Nat
      BY <1>1, <1>2
    <2>2. m * (p - q - 1) \in Nat
      BY <2>1
    <2>3. m * p = m * q + m + m * (p - q - 1)
      BY <1>1
    <2> QED BY <1>1, <2>2, <2>3
  <1>3. p <= q
    BY <1>1, <1>2
  <1> QED BY <1>3 DEF p, q

\* A ring of w parts of s slots: part (a \div s) % w and slot a % s of it are
\* slot a of the ring.
LEMMA RingSlot ==
  ASSUME NEW w \in Nat \ {0}, NEW s \in Nat \ {0}, NEW a \in Int
  PROVE  ((a \div s) % w) * s + (a % s) = a % (w * s)
  <1> DEFINE d == a \div s
             r == a % s
             e == d \div w
             t == d % w
  <1>1. a = s * d + r /\ d \in Int /\ r \in 0 .. s - 1
    BY DivModFacts
  <1> HIDE DEF d, r
  <1>2. d = w * e + t /\ e \in Int /\ t \in 0 .. w - 1
    BY <1>1, DivModFacts
  <1> HIDE DEF e, t
  <1>3. w * s \in Nat \ {0}
    OBVIOUS
  <1>4. t * s \in Nat /\ t * s + s <= w * s
    <2>1. w - t - 1 \in Nat /\ t \in Nat
      BY <1>2
    <2>2. (w - t - 1) * s \in Nat /\ t * s \in Nat
      BY <2>1
    <2>3. w * s = t * s + s + (w - t - 1) * s
      BY <2>1
    <2> QED BY <2>2, <2>3, <1>3
  <1>5. t * s + r \in 0 .. (w * s) - 1
    BY <1>1, <1>3, <1>4
  <1>6. a = (w * s) * e + (t * s + r)
    <2>1. s * d = s * (w * e) + s * t
      BY <1>2
    <2>2. s * (w * e) = (w * s) * e /\ s * t = t * s
      BY <1>2
    <2>3. s * (w * e) \in Int /\ s * t \in Int
      BY <1>2
    <2> QED BY <1>1, <2>1, <2>2, <2>3
  <1>7. t * s + r = a % (w * s)
    BY <1>2, <1>3, <1>5, <1>6, DivModUnique
  <1> QED BY <1>7 DEF d, r, t

(***************************************************************************)
(* Induction and recursion, by the least counterexample.                   *)
(***************************************************************************)

\* Induction up to N: a set that has 0 and, with a number, the next one.
LEMMA SetInduction ==
  ASSUME NEW N \in Nat, NEW T, 0 \in T, \A k \in 0 .. N - 1 : k \in T => k + 1 \in T
  PROVE  \A k \in 0 .. N : k \in T
  <1> DEFINE D == {k \in 0 .. N : k \notin T}
  <1> SUFFICES ASSUME D # {} PROVE FALSE
    OBVIOUS
  <1>1. D \in SUBSET Nat
    OBVIOUS
  <1>2. PICK m : m \in D /\ \A y \in D : m <= y
    BY <1>1, MinProperties
  <1>3. m \in 0 .. N /\ m \notin T /\ m # 0
    BY <1>2
  <1>4. m - 1 \in 0 .. N - 1 /\ m - 1 \in 0 .. N /\ ~(m <= m - 1) /\ (m - 1) + 1 = m
    BY <1>3
  <1>5. m - 1 \in T
    BY <1>2, <1>4
  <1> QED BY <1>3, <1>4, <1>5

\* The values of a loop that starts at a and applies F in each of N rounds.
Iterates(f, F, a, N) == \A k \in 0 .. N : f[k] = IF k = 0 THEN a ELSE F[f[k - 1]]

\* A function can be applied N times over: the recursion of a loop that runs
\* the same body F in every round is well defined.
LEMMA IterateExists ==
  ASSUME NEW S, NEW F \in [S -> S], NEW a \in S, NEW N \in Nat
  PROVE  \E f \in [0 .. N -> S] : Iterates(f, F, a, N)
  <1> DEFINE Upto(m, f) == \A k \in 0 .. m : f[k] = IF k = 0 THEN a ELSE F[f[k - 1]]
             T == {m \in 0 .. N : \E f \in [0 .. m -> S] : Upto(m, f)}
  <1>1. 0 \in T
    <2>1. PICK g : g = [k \in 0 .. 0 |-> a]
      OBVIOUS
    <2>2. g \in [0 .. 0 -> S] /\ Upto(0, g) /\ 0 \in 0 .. N
      BY <2>1
    <2> QED BY <2>2
  <1>2. ASSUME NEW m \in 0 .. N - 1, m \in T PROVE m + 1 \in T
    <2>1. PICK f \in [0 .. m -> S] : Upto(m, f)
      BY <1>2
    <2>2. m \in Nat /\ m + 1 \in 0 .. N /\ m \in 0 .. m
      OBVIOUS
    <2>3. PICK g : g = [k \in 0 .. m + 1 |-> IF k = m + 1 THEN F[f[m]] ELSE f[k]]
      OBVIOUS
    <2>4. g \in [0 .. m + 1 -> S]
      BY <2>2, <2>3
    <2>5. Upto(m + 1, g)
      <3> SUFFICES ASSUME NEW k \in 0 .. m + 1
                   PROVE  g[k] = IF k = 0 THEN a ELSE F[g[k - 1]]
        OBVIOUS
      <3>1. CASE k = m + 1
        <4>1. k # 0 /\ k - 1 = m /\ m # m + 1 /\ m \in 0 .. m + 1
          BY <2>2, <3>1
        <4> QED BY <2>3, <3>1, <4>1
      <3>2. CASE k # m + 1
        <4>1. k \in 0 .. m /\ (k # 0 => k - 1 \in 0 .. m /\ k - 1 \in 0 .. m + 1 /\ k - 1 # m + 1)
          BY <2>2, <3>2
        <4>2. f[k] = IF k = 0 THEN a ELSE F[f[k - 1]]
          BY <2>1, <4>1
        <4> QED BY <2>3, <3>2, <4>1, <4>2
      <3> QED BY <3>1, <3>2
    <2> QED BY <2>2, <2>4, <2>5
  <1> HIDE DEF T
  <1>3. \A k \in 0 .. N : k \in T
    BY <1>1, <1>2, SetInduction
  <1>4. N \in T
    BY <1>3
  <1> QED BY <1>4 DEF T, Iterates
=============================================================================
