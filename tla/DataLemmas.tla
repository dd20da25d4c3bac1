--------------------------- MODULE DataLemmas ---------------------------
(***************************************************************************)
(* Facts about data that the proofs of several modules rest on: induction  *)
(* and recursion over the natural numbers, in a form without operator      *)
(* parameters, and the arithmetic of remainders.  Ring buffers have        *)
(* indices that are words that run on and wrap around: m is the size of    *)
(* the buffer, a multiple wd of it the number of words.                    *)
(***************************************************************************)
EXTENDS Integers, Loops, SequenceTheorems, WellFoundedInduction, TLAPS

-------------------------------------------------------------------------
(* Induction and recursion.                                              *)

\* A set of natural numbers has a least element.
LEMMA LeastNat ==
  ASSUME NEW T \in SUBSET Nat, T # {}
  PROVE  \E x \in T : \A y \in T : x <= y
<1>1. IsWellFoundedOn(OpToRel(<, Nat), Nat)
  BY NatLessThanWellFounded
<1>2. PICK x \in T : \A y \in T : ~ (<<y, x>> \in OpToRel(<, Nat))
  BY <1>1, WFMin
<1>3. \A y \in T : ~ (y < x)
  BY <1>2 DEF OpToRel
<1>. QED  BY <1>3

\* Induction, the predicate given as the set of numbers that have it.
LEMMA Induction ==
  ASSUME NEW S, 0 \in S, \A n \in Nat : n \in S => n + 1 \in S
  PROVE  Nat \subseteq S
<1>. SUFFICES ASSUME Nat \ S # {}
              PROVE  FALSE
  OBVIOUS
<1>1. PICK x \in Nat \ S : \A y \in Nat \ S : x <= y
  BY LeastNat
<1>2. x - 1 \in Nat /\ x - 1 \in S
  BY <1>1
<1>. QED  BY <1>1, <1>2

LEMMA StrongInduction ==
  ASSUME NEW S, \A n \in Nat : (\A i \in 0 .. n - 1 : i \in S) => n \in S
  PROVE  Nat \subseteq S
<1>. SUFFICES ASSUME Nat \ S # {}
              PROVE  FALSE
  OBVIOUS
<1>1. PICK x \in Nat \ S : \A y \in Nat \ S : x <= y
  BY LeastNat
<1>2. \A i \in 0 .. x - 1 : i \in S
  BY <1>1
<1>. QED  BY <1>1, <1>2

\* A sequence of states that starts at x and goes by step.
HasRun(S, x, step) ==
  \E g \in [Nat -> S] : g[0] = x /\ \A i \in Nat : g[i + 1] = step[g[i]]

LEMMA Recursion ==
  ASSUME NEW S, NEW x \in S, NEW step \in [S -> S]
  PROVE  HasRun(S, x, step)
<1>. DEFINE Runs(n) == {p \in [0 .. n -> S] :
                          p[0] = x /\ \A i \in 0 .. n - 1 : p[i + 1] = step[p[i]]}
            End(n)  == (CHOOSE p \in Runs(n) : TRUE)[n]
<1>1. \A n \in Nat : Runs(n) # {}
  <2>. DEFINE R == {n \in Nat : Runs(n) # {}}
  <2>1. 0 \in R
    <3>1. [i \in 0 .. 0 |-> x] \in Runs(0)
      OBVIOUS
    <3>. QED  BY <3>1
  <2>2. ASSUME NEW n \in Nat, n \in R
        PROVE  n + 1 \in R
    <3>1. PICK p : p \in Runs(n)
      BY <2>2
    <3>2. p[n] \in S /\ step[p[n]] \in S
      BY <3>1
    <3>. DEFINE q == [i \in 0 .. n + 1 |-> IF i = n + 1 THEN step[p[n]] ELSE p[i]]
    <3>3. q \in [0 .. n + 1 -> S]
      BY <3>1, <3>2
    <3>4. ASSUME NEW i \in 0 .. (n + 1) - 1
          PROVE  q[i + 1] = step[q[i]]
      BY <3>1
    <3>5. q \in Runs(n + 1)
      BY <3>1, <3>3, <3>4
    <3>. HIDE DEF Runs, q
    <3>. QED  BY <3>5
  <2>. HIDE DEF R
  <2>3. Nat \subseteq R
    BY <2>1, <2>2, Induction
  <2>. QED  BY <2>3 DEF R
<1>2. \A n \in Nat : \A p, q \in Runs(n) : p = q
  <2>. SUFFICES ASSUME NEW n \in Nat, NEW p \in Runs(n), NEW q \in Runs(n)
                PROVE  p = q
    OBVIOUS
  <2>. DEFINE R == {i \in Nat : i <= n => p[i] = q[i]}
  <2>1. 0 \in R
    OBVIOUS
  <2>2. ASSUME NEW i \in Nat, i \in R
        PROVE  i + 1 \in R
    BY <2>2
  <2>. HIDE DEF R
  <2>3. Nat \subseteq R
    BY <2>1, <2>2, Induction
  <2>4. \A i \in 0 .. n : p[i] = q[i]
    BY <2>3 DEF R
  <2>. QED  BY <2>4
<1>3. ASSUME NEW n \in Nat, NEW p \in Runs(n)
      PROVE  End(n) = p[n] /\ p[n] \in S
  <2>1. (CHOOSE r \in Runs(n) : TRUE) \in Runs(n)
    BY Zenon
  <2>2. (CHOOSE r \in Runs(n) : TRUE) = p
    <3>. HIDE DEF Runs
    <3>. QED  BY <1>2, <2>1
  <2>3. p[n] \in S
    OBVIOUS
  <2>. QED  BY <2>2, <2>3
<1>4. ASSUME NEW n \in Nat
      PROVE  End(n + 1) = step[End(n)]
  <2>1. PICK p : p \in Runs(n + 1)
    BY <1>1
  <2>. DEFINE q == [i \in 0 .. n |-> p[i]]
  <2>2. q \in Runs(n)
    BY <2>1
  <2>3. End(n + 1) = p[n + 1] /\ End(n) = q[n]
    <3>. HIDE DEF End, Runs
    <3>. QED  BY <1>3, <2>1, <2>2
  <2>4. p[n + 1] = step[p[n]] /\ q[n] = p[n]
    BY <2>1
  <2>. QED  BY <2>3, <2>4
<1>5. End(0) = x
  <2>1. PICK p : p \in Runs(0)
    BY <1>1
  <2>2. End(0) = p[0]
    BY <1>3, <2>1
  <2>. QED  BY <2>1, <2>2
<1>6. \A n \in Nat : End(n) \in S
  <2>. HIDE DEF End, Runs
  <2>. QED  BY <1>1, <1>3
<1>. HIDE DEF End
<1>7. [n \in Nat |-> End(n)] \in [Nat -> S]
  BY <1>6
<1>8. [n \in Nat |-> End(n)][0] = x
  BY <1>5
<1>9. ASSUME NEW n \in Nat
      PROVE  [k \in Nat |-> End(k)][n + 1] = step[[k \in Nat |-> End(k)][n]]
  BY <1>4
<1>. QED  BY <1>7, <1>8, <1>9 DEF HasRun

\* A loop whose round depends on how many came before.
HasIndexedRun(S, x, step) ==
  \E g \in [Nat -> S] : g[0] = x /\ \A i \in Nat : g[i + 1] = step[<<i, g[i]>>]

LEMMA IndexedRecursion ==
  ASSUME NEW S, NEW x \in S, NEW step \in [Nat \X S -> S]
  PROVE  HasIndexedRun(S, x, step)
<1>. DEFINE P == Nat \X S
            next == [e \in P |-> <<e[1] + 1, step[e]>>]
<1>1. next \in [P -> P] /\ <<0, x>> \in P
  OBVIOUS
<1>2. PICK h \in [Nat -> P] : h[0] = <<0, x>> /\ \A i \in Nat : h[i + 1] = next[h[i]]
  <2>. HIDE DEF next, P
  <2>1. HasRun(P, <<0, x>>, next)
    BY <1>1, Recursion
  <2>. QED  BY <2>1 DEF HasRun
<1>. DEFINE R == {i \in Nat : h[i][1] = i}
<1>3. 0 \in R
  BY <1>2
<1>4. \A i \in Nat : i \in R => i + 1 \in R
  <2>. SUFFICES ASSUME NEW i \in Nat, h[i][1] = i
                PROVE  h[i + 1][1] = i + 1
    OBVIOUS
  <2>1. h[i] \in P /\ h[i + 1] = <<h[i][1] + 1, step[h[i]]>>
    BY <1>2
  <2>. QED  BY <2>1
<1>. HIDE DEF R
<1>5. \A i \in Nat : h[i][1] = i
  <2>1. Nat \subseteq R
    BY <1>3, <1>4, Induction
  <2>. QED  BY <2>1 DEF R
<1>. DEFINE g == [i \in Nat |-> h[i][2]]
<1>6. g \in [Nat -> S] /\ g[0] = x
  BY <1>2
<1>7. ASSUME NEW i \in Nat
      PROVE  g[i + 1] = step[<<i, g[i]>>]
  <2>1. h[i] \in P /\ h[i + 1] = <<h[i][1] + 1, step[h[i]]>>
    BY <1>2
  <2>2. h[i] = <<i, g[i]>>
    BY <1>5, <2>1
  <2>3. g[i + 1] = h[i + 1][2]
    OBVIOUS
  <2>. QED  BY <2>1, <2>2, <2>3
<1>. HIDE DEF g
<1>. QED  BY <1>6, <1>7 DEF HasIndexedRun

LEMMA PowerIsNat ==
  ASSUME NEW b \in Nat, NEW n \in Nat
  PROVE  /\ Power(b, n) \in Nat
         /\ Power(b, 0) = 1
         /\ Power(b, n + 1) = b * Power(b, n)
<1>. DEFINE N    == Nat
            one  == 1
            step == [x \in N |-> b * x]
            p    == CHOOSE p : p = [i \in Nat |-> IF i = 0 THEN 1 ELSE b * p[i - 1]]
<1>1. one \in N /\ step \in [N -> N]
  OBVIOUS
<1>2. PICK g \in [Nat -> Nat] : g[0] = 1 /\ \A i \in Nat : g[i + 1] = step[g[i]]
  <2>1. \E g \in [Nat -> N] : g[0] = one /\ \A i \in Nat : g[i + 1] = step[g[i]]
    <3>. HIDE DEF N, one, step
    <3>. QED  BY <1>1, Recursion DEF HasRun
  <2>. QED  BY <2>1
<1>3. g = [i \in Nat |-> IF i = 0 THEN 1 ELSE b * g[i - 1]]
  <2>1. ASSUME NEW i \in Nat, i # 0
        PROVE  g[i] = b * g[i - 1]
    <3>1. i - 1 \in Nat /\ (i - 1) + 1 = i
      BY <2>1
    <3>. QED  BY <1>2, <3>1
  <2>. QED  BY <1>2, <2>1
<1>4. p = [i \in Nat |-> IF i = 0 THEN 1 ELSE b * p[i - 1]]
  BY <1>3, Zenon
<1>5. \A i \in Nat : Power(b, i) = p[i]
  BY DEF Power, Rounds
<1>. HIDE DEF p
<1>6. p[0] = 1 /\ \A i \in Nat : p[i + 1] = b * p[i]
  BY <1>4
<1>. DEFINE R == {i \in Nat : p[i] \in Nat}
<1>7. Nat \subseteq R
  <2>1. 0 \in R
    BY <1>6
  <2>2. ASSUME NEW i \in Nat, i \in R
        PROVE  i + 1 \in R
    BY <1>6, <2>2
  <2>. HIDE DEF R
  <2>. QED  BY <2>1, <2>2, Induction
<1>. QED  BY <1>5, <1>6, <1>7

\* Powers grow.
LEMMA PowerGrows ==
  ASSUME NEW b \in Nat, b >= 2, NEW n \in Nat, NEW k \in Nat
  PROVE  /\ Power(b, n) >= n + 1
         /\ n <= k => Power(b, n) <= Power(b, k)
<1>1. \A i \in Nat : /\ Power(b, i) \in Nat
                     /\ Power(b, i + 1) = b * Power(b, i)
                     /\ Power(b, i) >= 1 => Power(b, i + 1) >= Power(b, i) + 1
  <2>1. ASSUME NEW p \in Nat, p >= 1
        PROVE  b * p >= p + 1
    <3>1. PICK c \in Nat : b = c + 2
      <4>1. b - 2 \in Nat /\ b = (b - 2) + 2
        OBVIOUS
      <4>. QED  BY <4>1
    <3>2. (c + 2) * p = c * p + 2 * p /\ c * p \in Nat
      OBVIOUS
    <3>. QED  BY <2>1, <3>1, <3>2
  <2>. QED  BY <2>1, PowerIsNat
<1>2. Power(b, 0) = 1
  BY PowerIsNat
<1>. HIDE DEF Power
<1>. DEFINE R == {i \in Nat : Power(b, i) >= i + 1}
            T == {j \in Nat : Power(b, n) <= Power(b, n + j)}
<1>3. Nat \subseteq R
  <2>1. 0 \in R
    BY <1>2
  <2>2. ASSUME NEW i \in Nat, i \in R
        PROVE  i + 1 \in R
    <3>1. Power(b, i) >= i + 1 /\ Power(b, i) \in Nat /\ Power(b, i + 1) \in Nat
      BY <1>1, <2>2
    <3>2. Power(b, i) >= 1
      BY <3>1
    <3>3. Power(b, i + 1) >= Power(b, i) + 1
      BY <1>1, <3>2
    <3>4. Power(b, i + 1) >= (i + 1) + 1
      BY <3>1, <3>3
    <3>. QED  BY <3>4
  <2>. HIDE DEF R
  <2>. QED  BY <2>1, <2>2, Induction
<1>4. Nat \subseteq T
  <2>1. 0 \in T
    BY <1>1
  <2>2. ASSUME NEW j \in Nat, j \in T
        PROVE  j + 1 \in T
    <3>1. PICK k1 \in Nat : k1 = n + j
      OBVIOUS
    <3>2. n + (j + 1) = k1 + 1
      BY <3>1
    <3>3. Power(b, k1 + 1) >= Power(b, k1) + 1 /\ Power(b, k1) \in Nat
          /\ Power(b, n) \in Nat /\ Power(b, k1 + 1) \in Nat
      <4>1. Power(b, k1) >= 1
        <5>1. k1 \in R
          BY <1>3
        <5>2. Power(b, k1) >= k1 + 1 /\ Power(b, k1) \in Nat
          BY <1>1, <5>1 DEF R
        <5>. QED  BY <5>2
      <4>. QED  BY <1>1, <4>1
    <3>4. Power(b, n) <= Power(b, k1)
      BY <2>2, <3>1
    <3>5. Power(b, n) <= Power(b, n + (j + 1))
      BY <3>2, <3>3, <3>4
    <3>. QED  BY <3>5
  <2>. HIDE DEF T
  <2>. QED  BY <2>1, <2>2, Induction
<1>5. ASSUME n <= k
      PROVE  Power(b, n) <= Power(b, k)
  <2>1. k - n \in Nat /\ n + (k - n) = k
    BY <1>5
  <2>. QED  BY <1>4, <2>1 DEF T
<1>. QED  BY <1>3, <1>5 DEF R

-------------------------------------------------------------------------
(* Quotients and remainders.                                             *)

LEMMA ModFacts ==
  ASSUME NEW m \in Nat \ {0}, NEW a \in Int
  PROVE  /\ a % m \in 0 .. m - 1
         /\ 0 <= a /\ a < m => a % m = a
         /\ -m <= a /\ a < 0 => a % m = a + m
         /\ m <= a /\ a - m < m => a % m = a - m
OBVIOUS

LEMMA DivMod ==
  ASSUME NEW m \in Nat \ {0}, NEW a \in Int
  PROVE  /\ a \div m \in Int /\ a % m \in 0 .. m - 1
         /\ a = m * (a \div m) + (a % m)
OBVIOUS

LEMMA Multiples ==
  ASSUME NEW m \in Nat \ {0}, NEW k \in Int
  PROVE  /\ m * k \in Int
         /\ k >= 1 => m * k >= m
         /\ k <= -1 => m * k <= -m
         /\ k = 0 => m * k = 0
<1>1. m * k \in Int
  OBVIOUS
<1>2. ASSUME k >= 1
      PROVE  m * k >= m
  <2>1. PICK j \in Nat : k = j + 1
    <3>1. k - 1 \in Nat /\ k = (k - 1) + 1
      BY <1>2
    <3>. QED  BY <3>1
  <2>2. m * (j + 1) = m * j + m
    OBVIOUS
  <2>3. m * j >= 0
    OBVIOUS
  <2>. QED  BY <2>1, <2>2, <2>3
<1>3. ASSUME k <= -1
      PROVE  m * k <= -m
  <2>1. PICK j \in Nat : k = -j - 1
    <3>1. -k - 1 \in Nat /\ k = -(-k - 1) - 1
      BY <1>3
    <3>. QED  BY <3>1
  <2>2. m * (-j - 1) = -(m * j) - m
    OBVIOUS
  <2>3. m * j >= 0
    OBVIOUS
  <2>. QED  BY <2>1, <2>2, <2>3
<1>4. k = 0 => m * k = 0
  OBVIOUS
<1>. QED  BY <1>1, <1>2, <1>3, <1>4

\* The quotient is the only one that leaves a remainder.
LEMMA DivUnique ==
  ASSUME NEW m \in Nat \ {0}, NEW k \in Int, NEW r \in 0 .. m - 1
  PROVE  (m * k + r) \div m = k
<1>. PICK a \in Int : a = m * k + r
  OBVIOUS
<1>1. PICK j \in Int : j = a \div m /\ a - m * j \in 0 .. m - 1
  BY DivMod
<1>2. m * (k - j) = m * k - m * j /\ m * k \in Int /\ m * j \in Int
  OBVIOUS
<1>3. k - j \in Int /\ (k - j >= 1 \/ k - j <= -1 \/ k - j = 0)
  OBVIOUS
<1>4. /\ k - j >= 1 => m * k - m * j >= m
      /\ k - j <= -1 => m * k - m * j <= -m
  BY <1>2, <1>3, Multiples
<1>. QED  BY <1>1, <1>2, <1>3, <1>4

LEMMA DivDiv ==
  ASSUME NEW m \in Nat \ {0}, NEW n \in Nat \ {0}, NEW a \in Nat
  PROVE  (a \div m) \div n = a \div (m * n)
<1>1. PICK q \in Int, r \in 0 .. m - 1 : q = a \div m /\ a = m * q + r
  BY DivMod
<1>2. PICK p \in Int, t \in 0 .. n - 1 : p = q \div n /\ q = n * p + t
  BY DivMod
<1>3. /\ m * (n * p + t) = (m * n) * p + m * t
      /\ m * n \in Nat /\ m * t \in Nat /\ (m * n) * p \in Int
  OBVIOUS
<1>4. m * t + r \in 0 .. m * n - 1
  <2>1. m * (n - 1 - t) = m * n - m - m * t
    OBVIOUS
  <2>2. n - 1 - t \in Nat
    OBVIOUS
  <2>3. m * (n - 1 - t) >= 0
    BY <2>2
  <2>. QED  BY <1>3, <2>1, <2>3
<1>5. m * n \in Nat \ {0}
  BY <1>3, <1>4
<1>6. a = (m * n) * p + (m * t + r)
  <2>. PICK mq \in Int, mnp \in Int, mt \in Int :
         mq = m * q /\ mnp = (m * n) * p /\ mt = m * t
    BY <1>3
  <2>1. mq = mnp + mt
    BY <1>2, <1>3
  <2>2. a = mq + r
    BY <1>1
  <2>. QED  BY <2>1, <2>2
<1>. PICK d \in Nat \ {0}, e \in 0 .. m * n - 1 : d = m * n /\ e = m * t + r
  BY <1>4, <1>5
<1>7. (d * p + e) \div d = p
  BY DivUnique
<1>. QED  BY <1>1, <1>2, <1>6, <1>7

\* Numbers with the same remainder are equal or at least m apart.
LEMMA SameRemainder ==
  ASSUME NEW m \in Nat \ {0}, NEW a \in Int, NEW b \in Int, a % m = b % m
  PROVE  a = b \/ a - b >= m \/ b - a >= m
<1>1. /\ a = m * (a \div m) + (a % m) /\ b = m * (b \div m) + (b % m)
      /\ a \div m \in Int /\ b \div m \in Int
  BY DivMod
<1>2. PICK k \in Int, j \in Int : k = a \div m /\ j = b \div m
  BY <1>1
<1>3. m * (k - j) = m * k - m * j
  OBVIOUS
<1>4. a - b = m * (k - j)
  BY <1>1, <1>2, <1>3
<1>5. k - j \in Int /\ (k - j >= 1 \/ k - j <= -1 \/ k - j = 0)
  OBVIOUS
<1>. QED  BY <1>4, <1>5, Multiples

LEMMA AddMultiple ==
  ASSUME NEW m \in Nat \ {0}, NEW a \in Int, NEW b \in Int, b % m = 0
  PROVE  (a + b) % m = a % m
<1>1. /\ a = m * (a \div m) + (a % m) /\ b = m * (b \div m)
      /\ a \div m \in Int /\ b \div m \in Int /\ a % m \in 0 .. m - 1
      /\ a + b = m * ((a + b) \div m) + ((a + b) % m)
      /\ (a + b) \div m \in Int /\ (a + b) % m \in 0 .. m - 1
  BY DivMod
<1>2. PICK k \in Int, j \in Int, i \in Int :
        k = a \div m /\ j = b \div m /\ i = (a + b) \div m
  BY <1>1
<1>3. m * (i - k - j) = m * i - m * k - m * j
  OBVIOUS
<1>4. (a % m) - ((a + b) % m) = m * (i - k - j)
  BY <1>1, <1>2, <1>3
<1>5. i - k - j \in Int /\ (i - k - j >= 1 \/ i - k - j <= -1 \/ i - k - j = 0)
  OBVIOUS
<1>. QED  BY <1>1, <1>4, <1>5, Multiples

\* A chunk that starts at a and ends before the end of the buffer.
LEMMA ChunkCell ==
  ASSUME NEW m \in Nat \ {0}, NEW a \in Int, NEW j \in Nat, (a % m) + j < m
  PROVE  (a + j) % m = (a % m) + j
<1>1. /\ a = m * (a \div m) + (a % m) /\ a \div m \in Int /\ a % m \in 0 .. m - 1
      /\ a + j = m * ((a + j) \div m) + ((a + j) % m)
      /\ (a + j) \div m \in Int /\ (a + j) % m \in 0 .. m - 1
  BY DivMod
<1>2. PICK k \in Int, i \in Int : k = a \div m /\ i = (a + j) \div m
  BY <1>1
<1>3. m * (i - k) = m * i - m * k
  OBVIOUS
<1>4. (a % m) + j - ((a + j) % m) = m * (i - k)
  BY <1>1, <1>2, <1>3
<1>5. i - k \in Int /\ (i - k >= 1 \/ i - k <= -1 \/ i - k = 0)
  OBVIOUS
<1>. QED  BY <1>1, <1>4, <1>5, Multiples

\* The cell of an index does not depend on where the index has wrapped.
LEMMA WrapKeepsCell ==
  ASSUME NEW m \in Nat \ {0}, NEW wd \in Nat \ {0}, wd % m = 0,
         NEW x \in Nat, x < 2 * wd
  PROVE  (x % wd) % m = x % m
<1>1. ASSUME x < wd
      PROVE  x % wd = x
  BY <1>1, ModFacts
<1>2. ASSUME x >= wd
      PROVE  (x % wd) % m = x % m
  <2>1. PICK y \in Int : y = x - wd
    OBVIOUS
  <2>2. x = y + wd /\ wd \in Int
    BY <2>1
  <2>3. x % wd = x - wd
    <3>1. \A a \in Int : wd <= a /\ a - wd < wd => a % wd = a - wd
      BY ModFacts
    <3>2. x \in Int /\ wd <= x /\ x - wd < wd
      BY <1>2
    <3>. QED  BY <3>1, <3>2
  <2>4. (y + wd) % m = y % m
    BY <2>2, AddMultiple
  <2>. QED  BY <2>1, <2>2, <2>3, <2>4
<1>. QED  BY <1>1, <1>2

LEMMA DivideByOne ==
  ASSUME NEW v \in Int
  PROVE  v \div 1 = v
OBVIOUS

LEMMA QuotientIsNat ==
  ASSUME NEW m \in Nat \ {0}, NEW a \in Nat
  PROVE  a \div m \in Nat
<1>1. PICK q \in Int : q = a \div m /\ a - m * q \in 0 .. m - 1 /\ m * q \in Int
  BY DivMod
<1>2. q <= -1 => m * q <= -m
  BY Multiples
<1>. QED  BY <1>1, <1>2

LEMMA MultipleOf ==
  ASSUME NEW p \in Nat \ {0}, NEW q \in Int
  PROVE  p * q \in Int /\ (p * q) % p = 0
<1>. PICK a \in Int : a = p * q
  OBVIOUS
<1>1. a \div p = q
  <2>1. 0 \in 0 .. p - 1 /\ p * q + 0 = a
    OBVIOUS
  <2>. QED  BY <2>1, DivUnique
<1>2. a = p * (a \div p) + (a % p) /\ a % p \in 0 .. p - 1
  BY DivMod
<1>. QED  BY <1>1, <1>2

LEMMA RemainderIsLess ==
  ASSUME NEW p \in Nat \ {0}, NEW a \in Nat
  PROVE  a % p <= a
<1>1. a \in Int /\ 0 <= a
  OBVIOUS
<1>2. a % p \in 0 .. p - 1 /\ (a < p => a % p = a)
  BY <1>1, ModFacts
<1>. QED  BY <1>2

LEMMA OffsetInRange ==
  ASSUME NEW t \in Nat, NEW l \in Nat, NEW a \in t .. t + l - 1
  PROVE  a - t + 1 \in 1 .. l /\ t + (a - t + 1) - 1 = a
OBVIOUS

\* A function from 1 .. k is a sequence of length k.
LEMMA FunctionIsSeq ==
  ASSUME NEW S, NEW k \in Nat, NEW s \in [1 .. k -> S]
  PROVE  s \in Seq(S) /\ Len(s) = k
<1>1. s \in Seq(S)
  BY SeqDef
<1>2. Len(s) \in Nat /\ DOMAIN s = 1 .. Len(s)
  BY <1>1, LenProperties
<1>3. \A i \in Nat : i >= 1 => (i <= Len(s) <=> i <= k)
  <2>1. 1 .. Len(s) = 1 .. k
    BY <1>2
  <2>. QED  BY <1>2, <2>1
<1>4. CASE Len(s) = 0 \/ k = 0
  BY <1>2, <1>3, <1>4
<1>5. CASE Len(s) >= 1 /\ k >= 1
  BY <1>2, <1>3, <1>5
<1>. QED  BY <1>1, <1>2, <1>4, <1>5

=========================================================================
