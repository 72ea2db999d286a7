------------------------------ MODULE NatLemmas ------------------------------
(***************************************************************************)
(* Least elements and induction, stated about sets of natural numbers so   *)
(* that they can be cited with any set, iteration, and division.           *)
(***************************************************************************)
EXTENDS FiniteSetTheorems, TLAPS

(* A set of natural numbers with an element has a least one.               *)
LEMMA NatMin ==
  ASSUME NEW S \in SUBSET Nat, S # {}
  PROVE  \E n \in S : \A m \in S : n <= m
<1> DEFINE R == OpToRel(<, Nat)
<1>1. \A x, y \in Nat : <<x, y>> \in R <=> x < y
  BY DEF OpToRel
<1>2. IsWellFoundedOn(R, Nat)
  BY NatLessThanWellFounded
<1> HIDE DEF R
<1>3. \E x \in S : \A y \in S : ~(<<y, x>> \in R)
  BY <1>2, WFMin
<1>4. PICK x \in S : \A y \in S : ~(<<y, x>> \in R)
  BY <1>3
<1>5. \A y \in S : x \in Nat /\ y \in Nat /\ ~(y < x)
  BY <1>1, <1>4
<1>6. \A y \in S : x <= y
  BY <1>5
<1> QED
  BY <1>6

(* A set with 0 and with the successor of each of its elements is Nat.     *)
LEMMA NatSetInduction ==
  ASSUME NEW S, 0 \in S, \A n \in Nat : n \in S => n + 1 \in S
  PROVE  Nat \subseteq S
<1> SUFFICES ASSUME Nat \ S # {} PROVE FALSE
  OBVIOUS
<1>1. PICK n \in Nat \ S : \A m \in Nat \ S : n <= m
  <2>1. Nat \ S \in SUBSET Nat
    OBVIOUS
  <2> QED
    BY <2>1, NatMin
<1>2. n # 0 /\ n - 1 \in Nat /\ ~(n <= n - 1)
  BY <1>1
<1>3. n - 1 \in S
  BY <1>1, <1>2
<1>4. (n - 1) + 1 \in S
  BY <1>2, <1>3
<1> QED
  BY <1>1, <1>4

(* A bounded set of natural numbers with an element has a greatest one.    *)
LEMMA NatMax ==
  ASSUME NEW S \in SUBSET Nat, S # {}, NEW b \in Nat, \A n \in S : n <= b
  PROVE  \E n \in S : \A m \in S : m <= n
<1> DEFINE D == {b - n : n \in S}
<1>1. D \in SUBSET Nat /\ D # {}
  <2>1. \A n \in S : b - n \in Nat
    OBVIOUS
  <2> QED
    BY <2>1
<1>2. PICK d \in D : \A e \in D : d <= e
  <2> HIDE DEF D
  <2> QED
    BY <1>1, NatMin
<1>3. PICK n \in S : d = b - n
  BY <1>2
<1>4. \A m \in S : b - n <= b - m /\ m \in Nat /\ n \in Nat
  BY <1>2, <1>3
<1>5. \A m \in S : m <= n
  BY <1>4
<1> QED
  BY <1>5

-----------------------------------------------------------------------------
(* Iteration.  What a recursive function over 0 .. N computes, from a      *)
(* first value and a step function F, which takes the number of the step   *)
(* and the value before it.                                                *)

IsIteration(g, S, a, N, F) ==
  /\ g \in [0 .. N -> S]
  /\ g[0] = a
  /\ \A k \in 1 .. N : g[k] = F[<<k, g[k - 1]>>]

(* There is such a function.                                               *)
LEMMA IterateExists ==
  ASSUME NEW S, NEW a \in S, NEW N \in Nat, NEW F \in [(1 .. N) \X S -> S]
  PROVE  \E g : IsIteration(g, S, a, N, F)
<1> DEFINE Upto(n, g) == /\ g \in [0 .. n -> S]
                         /\ g[0] = a
                         /\ \A k \in 1 .. n : g[k] = F[<<k, g[k - 1]>>]
           D == {n \in Nat : n <= N => \E g : Upto(n, g)}
<1>1. 0 \in D
  <2>1. Upto(0, [k \in 0 .. 0 |-> a])
    OBVIOUS
  <2> QED
    BY <2>1
<1>2. ASSUME NEW n \in Nat, n \in D PROVE n + 1 \in D
  <2>1. SUFFICES ASSUME n + 1 <= N PROVE \E h : Upto(n + 1, h)
    OBVIOUS
  <2>2. PICK g : Upto(n, g)
    BY <1>2, <2>1
  <2>3. n \in 0 .. n /\ n + 1 \in 1 .. N /\ g[n] \in S
    BY <2>1, <2>2
  <2>4. F[<<n + 1, g[n]>>] \in S
    BY <2>3
  <2> DEFINE h == [k \in 0 .. (n + 1) |-> IF k = n + 1 THEN F[<<n + 1, g[n]>>] ELSE g[k]]
  <2>5. \A k \in 0 .. n : k \in 0 .. (n + 1) /\ k # n + 1 /\ h[k] = g[k]
    OBVIOUS
  <2>6. n + 1 \in 0 .. (n + 1) /\ h[n + 1] = F[<<n + 1, g[n]>>]
    OBVIOUS
  <2>7. h \in [0 .. (n + 1) -> S]
    BY <2>2, <2>4
  <2> HIDE DEF h
  <2>8. h[0] = a
    BY <2>2, <2>5
  <2>9. ASSUME NEW k \in 1 .. (n + 1) PROVE h[k] = F[<<k, h[k - 1]>>]
    <3>1. CASE k = n + 1
      <4>1. k - 1 = n /\ h[n] = g[n]
        BY <2>3, <2>5, <3>1
      <4> QED
        BY <2>6, <3>1, <4>1
    <3>2. CASE k # n + 1
      <4>1. k \in 1 .. n /\ k - 1 \in 0 .. n /\ k \in 0 .. n
        BY <3>2
      <4> QED
        BY <2>2, <2>5, <4>1
    <3> QED
      BY <3>1, <3>2
  <2> QED
    BY <2>7, <2>8, <2>9
<1>3. Nat \subseteq D
  <2> HIDE DEF D
  <2> QED
    BY <1>1, <1>2, NatSetInduction
<1>4. PICK g : Upto(N, g)
  <2>1. N \in D /\ N <= N
    <3> HIDE DEF D
    <3> QED
      BY <1>3
  <2> HIDE DEF Upto
  <2> QED
    BY <2>1
<1> QED
  BY <1>4 DEF IsIteration

(* A function that starts in S and whose steps stay in S is in S.          *)
LEMMA IterateTyped ==
  ASSUME NEW S, NEW N \in Nat, NEW g, g = [k \in 0 .. N |-> g[k]], g[0] \in S,
         \A k \in 1 .. N : g[k - 1] \in S => g[k] \in S
  PROVE  g \in [0 .. N -> S]
<1> DEFINE D == {n \in Nat : n <= N => g[n] \in S}
<1>1. 0 \in D
  OBVIOUS
<1>2. ASSUME NEW n \in Nat, n \in D PROVE n + 1 \in D
  <2>1. SUFFICES ASSUME n + 1 <= N PROVE g[n + 1] \in S
    OBVIOUS
  <2>2. n + 1 \in 1 .. N /\ (n + 1) - 1 = n /\ g[n] \in S
    BY <1>2, <2>1
  <2> QED
    BY <2>2
<1>3. Nat \subseteq D
  <2> HIDE DEF D
  <2> QED
    BY <1>1, <1>2, NatSetInduction
<1>4. \A k \in 0 .. N : g[k] \in S
  BY <1>3
<1> QED
  BY <1>4

-----------------------------------------------------------------------------
(* Division.                                                               *)

(* Division with remainder.                                                *)
LEMMA DivMod ==
  ASSUME NEW n \in Nat, NEW d \in Nat \ {0}
  PROVE  /\ n \div d \in Nat /\ n % d \in 0 .. (d - 1)
         /\ n = (n \div d) * d + (n % d)
OBVIOUS

(* A larger multiple is larger by one factor at least.                     *)
LEMMA MultiplesApart ==
  ASSUME NEW d \in Nat \ {0}, NEW p \in Nat, NEW q \in Nat, p < q
  PROVE  p * d + d <= q * d
<1>1. PICK k \in Nat : q = (p + 1) + k
  <2>1. q - (p + 1) \in Nat /\ q = (p + 1) + (q - (p + 1))
    OBVIOUS
  <2> QED
    BY <2>1
<1>2. q * d = p * d + d + k * d
  BY <1>1
<1>3. k * d \in Nat /\ p * d \in Nat
  OBVIOUS
<1> QED
  BY <1>2, <1>3

(* Division with remainder has one result.                                 *)
LEMMA DivModUnique ==
  ASSUME NEW d \in Nat \ {0}, NEW q \in Nat, NEW c \in 0 .. (d - 1)
  PROVE  (q * d + c) \div d = q /\ (q * d + c) % d = c
<1>1. PICK n \in Nat : n = q * d + c
  <2>1. q * d \in Nat
    OBVIOUS
  <2> QED
    BY <2>1
<1>2. PICK p \in Nat : p = n \div d
  BY DivMod
<1>3. PICK r \in 0 .. (d - 1) : r = n % d
  BY DivMod
<1>4. p * d + r = q * d + c
  BY <1>1, <1>2, <1>3, DivMod
<1>5. p * d \in Nat /\ q * d \in Nat
  OBVIOUS
<1>6. ~(p < q)
  <2>1. ASSUME p < q PROVE FALSE
    <3>1. p * d + d <= q * d
      BY <2>1, MultiplesApart
    <3> QED
      BY <1>4, <1>5, <3>1
  <2> QED
    BY <2>1
<1>7. ~(q < p)
  <2>1. ASSUME q < p PROVE FALSE
    <3>1. q * d + d <= p * d
      BY <2>1, MultiplesApart
    <3> QED
      BY <1>4, <1>5, <3>1
  <2> QED
    BY <2>1
<1>8. p = q
  BY <1>6, <1>7
<1>9. r = c
  BY <1>4, <1>5, <1>8
<1> QED
  BY <1>1, <1>2, <1>3, <1>8, <1>9

(* Two numbers less than d apart with the same remainder are the same.     *)
LEMMA ModApart ==
  ASSUME NEW d \in Nat \ {0}, NEW a \in Nat, NEW b \in Nat, a <= b, b < a + d, a % d = b % d
  PROVE  a = b
<1>1. PICK p \in Nat, q \in Nat, r \in Nat : p = a \div d /\ q = b \div d /\ r = a % d
  <2>1. a \div d \in Nat /\ b \div d \in Nat
    BY DivMod
  <2>2. a % d \in Nat
    BY DivMod
  <2> QED
    BY <2>1, <2>2, Zenon
<1>2. a = p * d + r /\ b = q * d + r
  <2>1. a = (a \div d) * d + (a % d) /\ b = (b \div d) * d + (b % d)
    BY DivMod
  <2> QED
    BY <1>1, <2>1, Zenon
<1>3. PICK u \in Nat, v \in Nat : u = p * d /\ v = q * d
  <2>1. p * d \in Nat /\ q * d \in Nat
    OBVIOUS
  <2> QED
    BY <2>1
<1>4. u <= v /\ v < u + d
  BY <1>2, <1>3
<1>5. ~(p < q)
  <2>1. ASSUME p < q PROVE FALSE
    <3>1. p * d + d <= q * d
      BY <2>1, MultiplesApart
    <3> QED
      BY <1>3, <1>4, <3>1
  <2> QED
    BY <2>1
<1>6. ~(q < p)
  <2>1. ASSUME q < p PROVE FALSE
    <3>1. q * d + d <= p * d
      BY <2>1, MultiplesApart
    <3> QED
      BY <1>3, <1>4, <3>1
  <2> QED
    BY <2>1
<1>7. p = q
  BY <1>5, <1>6
<1> QED
  BY <1>2, <1>7

(* A remainder may be taken before an addition.                            *)
LEMMA ModAdd ==
  ASSUME NEW d \in Nat \ {0}, NEW a \in Nat, NEW b \in Nat
  PROVE  ((a % d) + b) % d = (a + b) % d
<1>1. PICK p \in Nat, r \in 0 .. (d - 1) : p = a \div d /\ r = a % d
  BY DivMod
<1>2. a = p * d + r
  <2>1. a = (a \div d) * d + (a % d)
    BY DivMod
  <2> QED
    BY <1>1, <2>1, Zenon
<1>3. PICK q \in Nat, s \in 0 .. (d - 1) : q = (r + b) \div d /\ s = (r + b) % d
  <2>1. PICK n \in Nat : n = r + b
    OBVIOUS
  <2>2. n \div d \in Nat /\ n % d \in 0 .. (d - 1)
    BY DivMod
  <2> QED
    BY <2>1, <2>2, Zenon
<1>4. r + b = q * d + s
  <2>1. r + b \in Nat
    OBVIOUS
  <2> QED
    BY <1>3, <2>1, DivMod
<1>5. a + b = (p + q) * d + s
  <2>1. (p + q) * d = p * d + q * d
    OBVIOUS
  <2>2. PICK u \in Nat, v \in Nat : u = p * d /\ v = q * d
    <3>1. p * d \in Nat /\ q * d \in Nat
      OBVIOUS
    <3> QED
      BY <3>1
  <2>3. a = u + r /\ r + b = v + s
    BY <1>2, <1>4, <2>2
  <2>4. a + b = (u + v) + s
    BY <2>3
  <2> QED
    BY <2>1, <2>2, <2>4
<1>6. ((p + q) * d + s) % d = s
  <2>1. p + q \in Nat
    OBVIOUS
  <2> QED
    BY <2>1, DivModUnique
<1> QED
  BY <1>1, <1>3, <1>5, <1>6
=============================================================================
