---------------------------- MODULE NumbersProofs ----------------------------
(***************************************************************************)
(* Bignum, Int63 and decimal texts, for every base and radix that fit the  *)
(* words and for numbers and texts of every length: no word wraps, every   *)
(* call answers the integer that it should, no buffer is overrun, and the  *)
(* digits that are shown are those that were written.                      *)
(*                                                                         *)
(* The loops over limbs come first.  Such a loop keeps the value: the      *)
(* limbs it has made, with what is left of the operands above them, are    *)
(* the integer that is wanted (Valued).  Then texts: the number written so *)
(* far is that of the limbs and the chunk, or of what a loop over the      *)
(* limbs has left with the digits shown below it (Kept); its size bounds   *)
(* the limbs and the digits (Sized).                                       *)
(***************************************************************************)
EXTENDS Limbs, Decimal, SequenceTheorems, WellFoundedInduction, TLAPS


-----------------------------------------------------------------------------
\* Induction and recursion over the naturals, as facts about sets and functions.
LEMMA LeastOf ==
  ASSUME NEW S \in SUBSET Nat, S # {}
  PROVE  \E m \in S : \A k \in S : m <= k
<1> DEFINE below == {ss \in Nat \X Nat : ss[1] < ss[2]}
<1>1. IsWellFoundedOn(below, Nat)
  BY NatLessThanWellFounded DEF OpToRel
<1>2. \A k, n \in Nat : <<k, n>> \in below <=> k < n
  OBVIOUS
<1> HIDE DEF below
<1>3. PICK m \in S : \A k \in S : ~ (<<k, m>> \in below)
  BY <1>1, WFMin
<1>4. ASSUME NEW k \in S PROVE m <= k
  <2>1. ~(k < m)
    BY <1>2, <1>3
  <2> QED
    BY <2>1
<1> QED
  BY <1>4

LEMMA Induct ==
  ASSUME NEW S, 0 \in S, \A m \in Nat : m \in S => m + 1 \in S
  PROVE  Nat \subseteq S
<1> DEFINE T == {m \in Nat : m \notin S}
<1>1. SUFFICES ASSUME T # {} PROVE FALSE
  OBVIOUS
<1>2. PICK d \in T : \A e \in T : d <= e
  <2>1. T \in SUBSET Nat
    OBVIOUS
  <2> HIDE DEF T
  <2> QED
    BY <1>1, <2>1, LeastOf
<1>3. d \in Nat /\ d # 0 /\ d - 1 \in Nat /\ ~(d <= d - 1)
  OBVIOUS
<1>4. d - 1 \notin T
  BY <1>2, <1>3
<1> QED
  BY <1>3, <1>4

Follows(f, V, first, n, next) ==
  /\ f \in [0 .. n -> V] /\ f[0] = first
  /\ \A k \in 1 .. n : f[k] = next[<<k - 1, f[k - 1]>>]

\* A value for every step gives a function of the steps.
LEMMA Steps ==
  ASSUME NEW V, NEW first \in V, NEW n \in Nat, NEW next \in [(0 .. n - 1) \X V -> V]
  PROVE  \E f : Follows(f, V, first, n, next)
<1> DEFINE Good(m, f) == Follows(f, V, first, m, next)
           S == {m \in Nat : m <= n => \E f : Good(m, f)}
<1>1. 0 \in S
  <2>1. Good(0, [k \in 0 .. 0 |-> first])
    BY DEF Follows
  <2> QED
    BY <2>1
<1>2. ASSUME NEW m \in Nat, m \in S PROVE m + 1 \in S
  <2> SUFFICES ASSUME m + 1 <= n PROVE \E f : Good(m + 1, f)
    OBVIOUS
  <2>1. PICK f : Good(m, f)
    BY <1>2
  <2> DEFINE v == next[<<m, f[m]>>]
             g == [k \in 0 .. m + 1 |-> IF k = m + 1 THEN v ELSE f[k]]
  <2>2. v \in V
    <3>1. m \in 0 .. n - 1 /\ f[m] \in V
      BY <2>1 DEF Follows
    <3> QED
      BY <3>1
  <2> HIDE DEF v
  <2>3. g \in [0 .. m + 1 -> V] /\ g[0] = first
    BY <2>1, <2>2 DEF Follows
  <2>4. \A k \in 1 .. m + 1 : g[k] = next[<<k - 1, g[k - 1]>>]
    <3> SUFFICES ASSUME NEW k \in 1 .. m + 1 PROVE g[k] = next[<<k - 1, g[k - 1]>>]
      OBVIOUS
    <3>1. CASE k = m + 1
      <4>1. g[k] = v /\ g[k - 1] = f[m] /\ k - 1 = m
        BY <3>1
      <4> QED
        BY <4>1 DEF v
    <3>2. CASE k # m + 1
      <4>1. k \in 1 .. m /\ g[k] = f[k] /\ g[k - 1] = f[k - 1]
        BY <3>2
      <4> QED
        BY <4>1, <2>1 DEF Follows
    <3> QED
      BY <3>1, <3>2
  <2> QED
    BY <2>3, <2>4 DEF Follows
<1>3. Nat \subseteq S
  <2> HIDE DEF S
  <2> QED
    BY <1>1, <1>2, Induct
<1>4. PICK f : Good(n, f)
  <2>1. n \in S
    <3> HIDE DEF S
    <3> QED
      BY <1>3
  <2> HIDE DEF Good
  <2> QED
    BY <2>1
<1> QED
  BY <1>4

LEMMA GreatestOf ==
  ASSUME NEW n \in Nat, NEW S \in SUBSET (0 .. n), S # {}
  PROVE  \E m \in S : \A k \in S : k <= m
<1> DEFINE T == {n - k : k \in S}
<1>1. T \in SUBSET Nat /\ T # {}
  <2>1. \A k \in S : n - k \in Nat
    OBVIOUS
  <2> QED
    BY <2>1
<1>2. PICK d \in T : \A e \in T : d <= e
  <2> HIDE DEF T
  <2> QED
    BY <1>1, LeastOf
<1>3. PICK m \in S : d = n - m
  OBVIOUS
<1>4. ASSUME NEW k \in S PROVE k <= m
  <2>1. d <= n - k
    BY <1>2
  <2> QED
    BY <1>3, <2>1
<1> QED
  BY <1>4

LEMMA Downward ==
  ASSUME NEW lo \in Int, NEW hi \in Int, lo <= hi, NEW S, hi \in S,
         \A k \in lo .. hi - 1 : k + 1 \in S => k \in S
  PROVE  \A k \in lo .. hi : k \in S
<1> DEFINE T == {m \in Nat : m <= hi - lo => hi - m \in S}
<1>1. 0 \in T
  OBVIOUS
<1>2. ASSUME NEW m \in Nat, m \in T PROVE m + 1 \in T
  <2> SUFFICES ASSUME m + 1 <= hi - lo PROVE hi - (m + 1) \in S
    OBVIOUS
  <2>1. hi - (m + 1) \in lo .. hi - 1 /\ hi - (m + 1) + 1 = hi - m /\ hi - m \in S
    BY <1>2
  <2> QED
    BY <2>1
<1>3. Nat \subseteq T
  <2> HIDE DEF T
  <2> QED
    BY <1>1, <1>2, Induct
<1> SUFFICES ASSUME NEW k \in lo .. hi PROVE k \in S
  OBVIOUS
<1>4. hi - k \in Nat /\ hi - k <= hi - lo /\ hi - (hi - k) = k
  OBVIOUS
<1> QED
  BY <1>3, <1>4

-----------------------------------------------------------------------------
\* The number whose limbs are those of s from a to b, the low one first, with
\* the number z above them.
Horner(base, s, a, b, z) ==
  LET from[k \in a .. b + 1] == IF k > b THEN z ELSE s[k] + base * from[k + 1]
  IN  IF a > b THEN z ELSE from[a]

Climbs(base, f, s, a, b, z) ==
  f[0] = z /\ \A m \in 1 .. b + 1 - a : f[m] = s[b + 1 - m] + base * f[m - 1]

LEMMA HornerValue ==
  ASSUME NEW base \in Nat, NEW a \in Int, NEW b \in Int, a <= b + 1, NEW s, NEW z \in Int,
         NEW f, Climbs(base, f, s, a, b, z)
  PROVE  Horner(base, s, a, b, z) = f[b + 1 - a]
<1>1. CASE a > b
  <2>1. b + 1 - a = 0
    BY <1>1
  <2> QED
    BY <1>1, <2>1 DEF Horner, Climbs
<1>2. CASE a <= b
  <2> DEFINE E(c) == [k \in a .. b + 1 |-> IF k > b THEN z ELSE s[k] + base * c[k + 1]]
             c == CHOOSE g : g = E(g)
  <2>1. \E g : g = E(g)
    <3> DEFINE g == [k \in a .. b + 1 |-> f[b + 1 - k]]
    <3>1. ASSUME NEW k \in a .. b + 1
          PROVE  g[k] = IF k > b THEN z ELSE s[k] + base * g[k + 1]
      <4>1. CASE k > b
        <5>1. b + 1 - k = 0
          BY <4>1
        <5> QED
          BY <4>1, <5>1 DEF Climbs
      <4>2. CASE ~(k > b)
        <5>1. /\ b + 1 - k \in 1 .. b + 1 - a /\ k + 1 \in a .. b + 1
              /\ b + 1 - (b + 1 - k) = k /\ b + 1 - k - 1 = b + 1 - (k + 1)
          BY <4>2
        <5>2. f[b + 1 - k] = s[k] + base * f[b + 1 - (k + 1)]
          BY <5>1 DEF Climbs
        <5> QED
          BY <4>2, <5>1, <5>2
      <4> QED
        BY <4>1, <4>2
    <3>2. g = E(g)
      BY <3>1
    <3> QED
      BY <3>2
  <2>2. c = E(c)
    BY <2>1
  <2>3. Horner(base, s, a, b, z) = c[a]
    <3>1. ~(a > b)
      BY <1>2
    <3> QED
      BY <3>1 DEF Horner
  <2> HIDE DEF c
  <2>4. \A k \in a .. b + 1 : c[k] = IF k > b THEN z ELSE s[k] + base * c[k + 1]
    BY <2>2
  <2> DEFINE S == {m \in Nat : m <= b + 1 - a => c[b + 1 - m] = f[m]}
  <2>5. 0 \in S
    <3>1. b + 1 \in a .. b + 1 /\ b + 1 > b /\ b + 1 - 0 = b + 1
      BY <1>2
    <3> QED
      BY <2>4, <3>1 DEF Climbs
  <2>6. ASSUME NEW m \in Nat, m \in S PROVE m + 1 \in S
    <3> SUFFICES ASSUME m + 1 <= b + 1 - a PROVE c[b + 1 - (m + 1)] = f[m + 1]
      OBVIOUS
    <3> DEFINE k == b + 1 - (m + 1)
    <3>1. k \in a .. b + 1 /\ ~(k > b) /\ k + 1 = b + 1 - m
          /\ m + 1 \in 1 .. b + 1 - a /\ m + 1 - 1 = m
      OBVIOUS
    <3>2. c[k] = s[k] + base * c[b + 1 - m]
      BY <2>4, <3>1
    <3>3. f[m + 1] = s[k] + base * f[m]
      BY <3>1 DEF Climbs
    <3>4. c[b + 1 - m] = f[m]
      BY <2>6
    <3> QED
      BY <3>2, <3>3, <3>4
  <2>7. Nat \subseteq S
    <3> HIDE DEF S
    <3> QED
      BY <2>5, <2>6, Induct
  <2>8. c[b + 1 - (b + 1 - a)] = f[b + 1 - a]
    BY <2>7, <1>2
  <2> QED
    BY <2>3, <2>8
<1> QED
  BY <1>1, <1>2

Integral(s, a, b) == \A k \in a .. b : s[k] \in Int
Digits(base, s, a, b) == \A k \in a .. b : s[k] \in 0 .. base - 1

\* What a number with one more limb is.
LEMMA HornerStep ==
  ASSUME NEW base \in Nat, NEW a \in Int, NEW b \in Int, NEW s, NEW z \in Int, Integral(s, a, b)
  PROVE  /\ Horner(base, s, a, b, z) \in Int
         /\ a > b => Horner(base, s, a, b, z) = z
         /\ a <= b => Horner(base, s, a, b, z) = s[a] + base * Horner(base, s, a + 1, b, z)
<1>1. CASE a > b
  BY <1>1 DEF Horner
<1>2. CASE a <= b
  <2> DEFINE n == b + 1 - a
             next == [p \in (0 .. n - 1) \X Int |-> s[b - p[1]] + base * p[2]]
  <2>1. n \in Nat /\ n >= 1
    BY <1>2
  <2>2. next \in [(0 .. n - 1) \X Int -> Int]
    <3> SUFFICES ASSUME NEW p \in (0 .. n - 1) \X Int PROVE s[b - p[1]] + base * p[2] \in Int
      OBVIOUS
    <3>1. p[1] \in 0 .. n - 1 /\ p[2] \in Int
      OBVIOUS
    <3>2. b - p[1] \in a .. b
      BY <3>1
    <3>3. s[b - p[1]] \in Int
      BY <3>2 DEF Integral
    <3> HIDE DEF n
    <3> QED
      BY <3>1, <3>3
  <2>3. PICK f : Follows(f, Int, z, n, next)
    <3> HIDE DEF n, next
    <3>1. n \in Nat
      BY <2>1
    <3> QED
      BY <2>2, <3>1, Steps, Zenon
  <2>4. /\ f \in [0 .. n -> Int] /\ f[0] = z
         /\ \A k \in 1 .. n : f[k] = next[<<k - 1, f[k - 1]>>]
    <3> HIDE DEF n, next
    <3> QED
      BY <2>3 DEF Follows
  <2>5. ASSUME NEW k \in 1 .. n PROVE f[k] = s[b + 1 - k] + base * f[k - 1]
    <3>1. k - 1 \in 0 .. n - 1 /\ k - 1 \in 0 .. n /\ b - (k - 1) = b + 1 - k
      BY <2>1
    <3>2. k - 1 \in 0 .. n - 1 /\ f[k - 1] \in Int /\ b - (k - 1) = b + 1 - k
      <4> HIDE DEF n
      <4> QED
        BY <3>1, <2>4
    <3>3. <<k - 1, f[k - 1]>> \in (0 .. n - 1) \X Int
      BY <3>2
    <3>4. next[<<k - 1, f[k - 1]>>] = s[b - (k - 1)] + base * f[k - 1]
      BY <3>3
    <3> HIDE DEF next
    <3> QED
      BY <2>4, <3>2, <3>4
  <2> HIDE DEF next
  <2>6. Horner(base, s, a, b, z) = f[n]
    <3>1. a <= b + 1 /\ Climbs(base, f, s, a, b, z)
      BY <1>2, <2>4, <2>5 DEF Climbs
    <3>2. Horner(base, s, a, b, z) = f[b + 1 - a]
      <4> HIDE DEF n
      <4> QED
        BY <3>1, HornerValue
    <3> QED
      BY <3>2
  <2>7. Horner(base, s, a + 1, b, z) = f[n - 1]
    <3>1. a + 1 \in Int /\ a + 1 <= b + 1 /\ b + 1 - (a + 1) = n - 1
      BY <1>2
    <3>2. \A m \in 1 .. n - 1 : f[m] = s[b + 1 - m] + base * f[m - 1]
      BY <2>5, <2>1
    <3>3. \A m \in 1 .. b + 1 - (a + 1) : f[m] = s[b + 1 - m] + base * f[m - 1]
      BY <3>1, <3>2
    <3> DEFINE c == a + 1
    <3>4. c \in Int /\ c <= b + 1 /\ Climbs(base, f, s, c, b, z)
      BY <2>4, <3>1, <3>3 DEF Climbs
    <3>5. Horner(base, s, c, b, z) = f[b + 1 - c]
      <4> HIDE DEF n, c
      <4> QED
        BY <3>4, HornerValue
    <3> QED
      BY <3>1, <3>5
  <2>8. f[n] = s[a] + base * f[n - 1] /\ f[n] \in Int
    <3>1. n \in 1 .. n /\ b + 1 - n = a /\ n \in 0 .. n
      BY <2>1
    <3> QED
      BY <2>4, <2>5, <3>1
  <2> HIDE DEF n
  <2> QED
    BY <1>2, <2>6, <2>7, <2>8
<1> QED
  BY <1>1, <1>2

\* A number in two parts.
LEMMA HornerSplit ==
  ASSUME NEW base \in Nat, NEW a \in Int, NEW b \in Int, NEW c \in Int, a <= b + 1, b <= c,
         NEW s, NEW z \in Int,
         Integral(s, a, c)
  PROVE  Horner(base, s, a, c, z) = Horner(base, s, a, b, Horner(base, s, b + 1, c, z))
<1> DEFINE w == Horner(base, s, b + 1, c, z)
           S == {k \in a .. b + 1 : Horner(base, s, k, c, z) = Horner(base, s, k, b, w)}
<1>1. w \in Int
  <2>1. b + 1 \in Int /\ Integral(s, b + 1, c)
    BY DEF Integral
  <2> QED
    BY <2>1, HornerStep
<1>2. ASSUME NEW k \in a .. b + 1 PROVE k \in Int /\ Integral(s, k, c) /\ Integral(s, k, b)
  BY DEF Integral
<1>3. b + 1 \in S
  <2>1. b + 1 \in a .. b + 1 /\ b + 1 \in Int /\ b + 1 > b
    OBVIOUS
  <2>2. Horner(base, s, b + 1, b, w) = w
    <3> HIDE DEF w
    <3> QED
      BY <1>1, <1>2, <2>1, HornerStep
  <2> QED
    BY <2>1, <2>2
<1>4. ASSUME NEW k \in a .. b + 1 - 1, k + 1 \in S PROVE k \in S
  <2>1. k \in a .. b + 1 /\ k + 1 \in a .. b + 1 /\ k <= b /\ k <= c
    OBVIOUS
  <2>2. Horner(base, s, k + 1, c, z) = Horner(base, s, k + 1, b, w)
    BY <1>4
  <2> HIDE DEF w
  <2>3. Horner(base, s, k, c, z) = s[k] + base * Horner(base, s, k + 1, c, z)
    BY <1>2, <2>1, HornerStep
  <2>4. Horner(base, s, k, b, w) = s[k] + base * Horner(base, s, k + 1, b, w)
    BY <1>1, <1>2, <2>1, HornerStep
  <2> QED
    BY <2>1, <2>2, <2>3, <2>4
<1>5. \A k \in a .. b + 1 : k \in S
  <2>1. b + 1 \in Int /\ a <= b + 1
    OBVIOUS
  <2> HIDE DEF S
  <2> QED
    BY <1>3, <1>4, <2>1, Downward
<1>6. a \in S
  BY <1>5
<1> QED
  BY <1>6

\* The top limb joins what is above it.
LEMMA HornerLast ==
  ASSUME NEW base \in Nat, NEW a \in Int, NEW b \in Int, a <= b + 1, NEW s, NEW z \in Int,
         Integral(s, a, b + 1)
  PROVE  Horner(base, s, a, b + 1, z) = Horner(base, s, a, b, s[b + 1] + base * z)
<1> DEFINE c == b + 1
<1>1. c \in Int /\ c = b + 1 /\ b <= c /\ c <= c /\ c + 1 > c /\ c + 1 \in Int
  OBVIOUS
<1>2. Integral(s, a, c) /\ Integral(s, c, c) /\ Integral(s, c + 1, c)
  BY DEF Integral
<1>3. Horner(base, s, a, c, z) = Horner(base, s, a, b, Horner(base, s, b + 1, c, z))
  BY <1>1, <1>2, HornerSplit
<1>4. Horner(base, s, c, c, z) = s[c] + base * Horner(base, s, c + 1, c, z)
  BY <1>1, <1>2, HornerStep
<1>5. Horner(base, s, c + 1, c, z) = z
  BY <1>1, <1>2, HornerStep
<1> QED
  BY <1>3, <1>4, <1>5

\* Only the limbs from a to b matter.
LEMMA HornerSame ==
  ASSUME NEW base \in Nat, NEW a \in Int, NEW b \in Int, NEW s, NEW t, NEW z \in Int,
         Integral(s, a, b), \A k \in a .. b : s[k] = t[k]
  PROVE  Horner(base, s, a, b, z) = Horner(base, t, a, b, z)
<1> DEFINE S == {k \in a .. b + 1 : Horner(base, s, k, b, z) = Horner(base, t, k, b, z)}
<1>1. ASSUME NEW k \in Int, a <= k PROVE Integral(s, k, b) /\ Integral(t, k, b)
  BY <1>1 DEF Integral
<1>2. CASE a > b
  BY <1>1, <1>2, HornerStep
<1>3. CASE a <= b
  <2>1. b + 1 \in S
    <3>1. b + 1 \in a .. b + 1 /\ b + 1 \in Int /\ a <= b + 1 /\ b + 1 > b
      BY <1>3
    <3> QED
      BY <1>1, <3>1, HornerStep
  <2>2. ASSUME NEW k \in a .. b + 1 - 1, k + 1 \in S PROVE k \in S
    <3>1. k \in a .. b + 1 /\ k \in a .. b /\ a <= k /\ k <= b /\ k \in Int
      OBVIOUS
    <3>2. Horner(base, s, k, b, z) = s[k] + base * Horner(base, s, k + 1, b, z)
      BY <1>1, <3>1, HornerStep
    <3>3. Horner(base, t, k, b, z) = t[k] + base * Horner(base, t, k + 1, b, z)
      BY <1>1, <3>1, HornerStep
    <3> QED
      BY <2>2, <3>1, <3>2, <3>3
  <2>3. \A k \in a .. b + 1 : k \in S
    <3>1. b + 1 \in Int /\ a <= b + 1
      BY <1>3
    <3> HIDE DEF S
    <3> QED
      BY <2>1, <2>2, <3>1, Downward
  <2>4. a \in S
    BY <1>3, <2>3
  <2> QED
    BY <2>4
<1> QED
  BY <1>2, <1>3

\* Limbs cannot lift a number from below zero, nor push it below.
LEMMA HornerSign ==
  ASSUME NEW base \in Nat, NEW a \in Int, NEW b \in Int, NEW s, NEW z \in Int,
         base >= 1, Digits(base, s, a, b)
  PROVE  /\ Horner(base, s, a, b, z) \in Int
         /\ z >= 0 => Horner(base, s, a, b, z) >= 0
         /\ z < 0 => Horner(base, s, a, b, z) < 0
<1>1. ASSUME NEW k \in Int, a <= k PROVE Integral(s, k, b)
  BY <1>1 DEF Integral, Digits
<1> DEFINE H(k) == Horner(base, s, k, b, z)
           S == {k \in a .. b + 1 : (z >= 0 => H(k) >= 0) /\ (z < 0 => H(k) < 0)}
<1>2. CASE a > b
  BY <1>1, <1>2, HornerStep
<1>3. CASE a <= b
  <2>1. b + 1 \in S
    <3>1. b + 1 \in a .. b + 1 /\ b + 1 \in Int /\ a <= b + 1 /\ b + 1 > b
      BY <1>3
    <3>2. H(b + 1) = z
      BY <1>1, <3>1, HornerStep
    <3> QED
      BY <3>1, <3>2
  <2>2. ASSUME NEW k \in a .. b + 1 - 1, k + 1 \in S PROVE k \in S
    <3>1. k \in a .. b + 1 /\ k \in a .. b /\ a <= k /\ k <= b /\ k \in Int
          /\ k + 1 \in Int /\ a <= k + 1
      OBVIOUS
    <3>2. H(k) = s[k] + base * H(k + 1) /\ H(k) \in Int
      BY <1>1, <3>1, HornerStep
    <3>3. H(k + 1) \in Int
      BY <1>1, <3>1, HornerStep
    <3>4. s[k] \in Int /\ s[k] >= 0 /\ s[k] < base
      BY <3>1 DEF Digits
    <3>5. (z >= 0 => H(k + 1) >= 0) /\ (z < 0 => H(k + 1) < 0)
      BY <2>2
    <3> HIDE DEF H
    <3>6. H(k + 1) >= 0 => base * H(k + 1) >= 0
      BY <3>3
    <3>7. H(k + 1) < 0 => base * H(k + 1) <= -base
      BY <3>3
    <3>8. base * H(k + 1) \in Int
      BY <3>3
    <3> QED
      BY <3>1, <3>2, <3>4, <3>5, <3>6, <3>7, <3>8
  <2>3. \A k \in a .. b + 1 : k \in S
    <3>1. b + 1 \in Int /\ a <= b + 1
      BY <1>3
    <3> HIDE DEF S
    <3> QED
      BY <2>1, <2>2, <3>1, Downward
  <2>4. a \in S
    BY <1>3, <2>3
  <2>5. H(a) \in Int
    BY <1>1, HornerStep
  <2> QED
    BY <2>4, <2>5
<1> QED
  BY <1>2, <1>3

\* Blank limbs are worth nothing.
LEMMA HornerZero ==
  ASSUME NEW base \in Nat, NEW a \in Int, NEW b \in Int, NEW s, \A k \in a .. b : s[k] = 0
  PROVE  Horner(base, s, a, b, 0) = 0
<1>1. ASSUME NEW k \in Int, a <= k PROVE Integral(s, k, b)
  BY <1>1 DEF Integral
<1> DEFINE S == {k \in a .. b + 1 : Horner(base, s, k, b, 0) = 0}
<1>2. CASE a > b
  BY <1>1, <1>2, HornerStep
<1>3. CASE a <= b
  <2>1. b + 1 \in S
    <3>1. b + 1 \in a .. b + 1 /\ b + 1 \in Int /\ a <= b + 1 /\ b + 1 > b
      BY <1>3
    <3> QED
      BY <1>1, <3>1, HornerStep
  <2>2. ASSUME NEW k \in a .. b + 1 - 1, k + 1 \in S PROVE k \in S
    <3>1. k \in a .. b + 1 /\ k \in a .. b /\ a <= k /\ k <= b /\ k \in Int
      OBVIOUS
    <3>2. Horner(base, s, k, b, 0) = s[k] + base * Horner(base, s, k + 1, b, 0)
      BY <1>1, <3>1, HornerStep
    <3> QED
      BY <2>2, <3>1, <3>2
  <2>3. \A k \in a .. b + 1 : k \in S
    <3>1. b + 1 \in Int /\ a <= b + 1
      BY <1>3
    <3> HIDE DEF S
    <3> QED
      BY <2>1, <2>2, <3>1, Downward
  <2>4. a \in S
    BY <1>3, <2>3
  <2> QED
    BY <2>4
<1> QED
  BY <1>2, <1>3

\* A limb that is not there reads as zero.
LEMMA AtLimb ==
  ASSUME NEW s \in Seq(Limb), NEW k \in Nat
  PROVE  At(s, k) \in Limb
BY BaseAssumption DEF At, Limb

-----------------------------------------------------------------------------
Suffix(s, k) == Horner(Base, s, k, Len(s), 0)

LEMMA LimbsIntegral ==
  ASSUME NEW s \in Seq(Limb), NEW a \in Int, NEW b \in Int, a >= 1, b <= Len(s)
  PROVE  /\ Integral(s, a, b) /\ Digits(Base, s, a, b)
         /\ \A k \in a .. b : s[k] \in Limb
<1>1. \A k \in 1 .. Len(s) : s[k] \in Limb
  OBVIOUS
<1>2. Len(s) \in Nat
  OBVIOUS
<1>3. \A k \in a .. b : k \in 1 .. Len(s)
  BY <1>2
<1>4. \A k \in a .. b : s[k] \in Limb
  BY <1>1, <1>3
<1>5. \A n \in Limb : n \in Int
  BY BaseAssumption DEF Limb
<1> QED
  BY <1>4, <1>5 DEF Integral, Digits, Limb

\* What the limbs of s are worth from the one after k on.
LEMMA SuffixStep ==
  ASSUME NEW s \in Seq(Limb), NEW k \in Nat
  PROVE  /\ Suffix(s, k + 1) \in Nat /\ Suffix(s, k + 2) \in Nat
         /\ Suffix(s, k + 1) = At(s, k) + Base * Suffix(s, k + 2)
         /\ k >= Len(s) => Suffix(s, k + 1) = 0 /\ Suffix(s, k + 2) = 0
<1>1. Len(s) \in Nat /\ k + 1 \in Int /\ k + 2 \in Int /\ k + 1 >= 1 /\ k + 2 >= 1
      /\ Len(s) <= Len(s) /\ Len(s) \in Int /\ k + 1 + 1 = k + 2
  OBVIOUS
<1>2. /\ Integral(s, k + 1, Len(s)) /\ Digits(Base, s, k + 1, Len(s))
      /\ Integral(s, k + 2, Len(s)) /\ Digits(Base, s, k + 2, Len(s))
  BY <1>1, LimbsIntegral
<1>3. 0 \in Int /\ 0 >= 0
  OBVIOUS
<1>4. Suffix(s, k + 1) \in Int /\ Suffix(s, k + 1) >= 0
  BY <1>1, <1>2, <1>3, BaseAssumption, HornerSign DEF Suffix
<1>5. Suffix(s, k + 2) \in Int /\ Suffix(s, k + 2) >= 0
  BY <1>1, <1>2, <1>3, BaseAssumption, HornerSign DEF Suffix
<1>6. CASE k >= Len(s)
  <2>1. k + 1 > Len(s) /\ k + 2 > Len(s)
    BY <1>1, <1>6
  <2>2. Suffix(s, k + 1) = 0 /\ Suffix(s, k + 2) = 0
    BY <1>1, <1>2, <1>3, <2>1, BaseAssumption, HornerStep DEF Suffix
  <2>3. At(s, k) = 0
    BY <1>1, <1>6 DEF At
  <2> QED
    BY <1>4, <1>5, <2>2, <2>3, BaseAssumption
<1>7. CASE k < Len(s)
  <2>1. k + 1 <= Len(s)
    BY <1>1, <1>7
  <2>2. Suffix(s, k + 1) = s[k + 1] + Base * Horner(Base, s, k + 1 + 1, Len(s), 0)
    BY <1>1, <1>2, <1>3, <2>1, BaseAssumption, HornerStep DEF Suffix
  <2>3. Suffix(s, k + 1) = s[k + 1] + Base * Suffix(s, k + 2)
    BY <1>1, <2>2 DEF Suffix
  <2>4. At(s, k) = s[k + 1]
    BY <1>7 DEF At
  <2> QED
    BY <1>1, <1>4, <1>5, <1>7, <2>3, <2>4
<1> QED
  BY <1>1, <1>6, <1>7

LEMMA MagnitudeIs ==
  ASSUME NEW s \in Seq(Limb)
  PROVE  Magnitude(s) = Suffix(s, 1) /\ Magnitude(s) \in Nat
<1>1. Len(s) \in Nat
  OBVIOUS
<1>2. ASSUME Len(s) >= 1 PROVE Magnitude(s) = Suffix(s, 1)
  <2>1. ~(1 > Len(s))
    BY <1>1, <1>2
  <2> QED
    BY <2>1 DEF Magnitude, Suffix, Horner
<1>3. ASSUME Len(s) = 0 PROVE Magnitude(s) = Suffix(s, 1)
  <2> DEFINE E(c) == [k \in 1 .. Len(s) + 1 |-> IF k > Len(s) THEN 0 ELSE s[k] + Base * c[k + 1]]
             c == CHOOSE g : g = E(g)
  <2>1. \E g : g = E(g)
    <3> DEFINE g == [k \in 1 .. Len(s) + 1 |-> 0]
    <3>1. \A k \in 1 .. Len(s) + 1 : k > Len(s)
      BY <1>3
    <3>2. g = E(g)
      BY <3>1
    <3> QED
      BY <3>2
  <2>2. c = E(c)
    BY <2>1
  <2>3. Magnitude(s) = c[1]
    BY DEF Magnitude
  <2> HIDE DEF c
  <2>4. c[1] = 0
    BY <1>3, <2>2
  <2>5. Suffix(s, 1) = 0
    BY <1>3 DEF Suffix, Horner
  <2> QED
    BY <2>3, <2>4, <2>5
<1>4. Magnitude(s) = Suffix(s, 1)
  BY <1>1, <1>2, <1>3
<1>5. 0 \in Nat /\ 0 + 1 = 1
  OBVIOUS
<1>6. Suffix(s, 0 + 1) \in Nat
  BY <1>5, SuffixStep
<1> QED
  BY <1>4, <1>5, <1>6

-----------------------------------------------------------------------------
\* bignum_cmp_abs, bignum_compare and bignum_make.
Trimmed(s) == s = << >> \/ s[Len(s)] # 0

LEMMA Lifts ==
  ASSUME NEW s \in Seq(Limb), NEW t \in Seq(Limb), NEW n \in Nat,
         Suffix(s, n + 1) > Suffix(t, n + 1)
  PROVE  Magnitude(s) > Magnitude(t)
<1> DEFINE S == {k \in 1 .. n + 1 : Suffix(s, k) > Suffix(t, k)}
<1>1. n + 1 \in S
  OBVIOUS
<1>2. ASSUME NEW k \in 1 .. n + 1 - 1, k + 1 \in S PROVE k \in S
  <2> DEFINE m == k - 1
  <2>1. m \in Nat /\ m + 1 = k /\ m + 2 = k + 1 /\ k \in 1 .. n + 1
    OBVIOUS
  <2>2. Suffix(s, k + 1) > Suffix(t, k + 1)
    BY <1>2
  <2> HIDE DEF m
  <2>3. /\ Suffix(s, m + 1) = At(s, m) + Base * Suffix(s, m + 2) /\ Suffix(s, m + 2) \in Nat
        /\ Suffix(t, m + 1) = At(t, m) + Base * Suffix(t, m + 2) /\ Suffix(t, m + 2) \in Nat
    BY <2>1, SuffixStep
  <2>4. At(s, m) \in Limb /\ At(t, m) \in Limb
    BY <2>1, AtLimb
  <2> DEFINE p == Suffix(s, m + 2)
             q == Suffix(t, m + 2)
  <2>5. p \in Nat /\ q \in Nat /\ p >= q + 1
    BY <2>1, <2>2, <2>3
  <2> HIDE DEF p, q
  <2>6. Base \in Nat /\ Base * p >= Base * (q + 1) /\ Base * p \in Nat /\ Base * q \in Nat
        /\ Base * (q + 1) = Base * q + Base
    BY <2>5, BaseAssumption
  <2>7. At(s, m) + Base * p > At(t, m) + Base * q
    BY <2>4, <2>6 DEF Limb
  <2>8. Suffix(s, m + 1) > Suffix(t, m + 1)
    BY <2>3, <2>7 DEF p, q
  <2> QED
    BY <2>1, <2>8
<1>3. \A k \in 1 .. n + 1 : k \in S
  <2> DEFINE h == n + 1
             l == 1
  <2>1. l \in Int /\ h \in Int /\ l <= h /\ h \in S
    BY <1>1
  <2>2. \A k \in l .. h - 1 : k + 1 \in S => k \in S
    BY <1>2
  <2>3. \A k \in l .. h : k \in S
    <3> HIDE DEF S, l, h
    <3> QED
      BY <2>1, <2>2, Downward
  <2> QED
    BY <2>3
<1>4. 1 \in S
  BY <1>3
<1> QED
  BY <1>4, MagnitudeIs

LEMMA Longer ==
  ASSUME NEW s \in Seq(Limb), NEW t \in Seq(Limb), Trimmed(s), Len(s) > Len(t)
  PROVE  Magnitude(s) > Magnitude(t)
<1> DEFINE n == Len(s) - 1
<1>1. n \in Nat /\ n + 1 = Len(s) /\ n >= Len(t) /\ n < Len(s) /\ n + 1 >= 1 /\ Len(s) >= 1
  OBVIOUS
<1>2. s[n + 1] \in Limb /\ s[n + 1] # 0
  BY <1>1 DEF Trimmed
<1>3. At(s, n) >= 1 /\ At(s, n) \in Nat
  BY <1>1, <1>2 DEF At, Limb
<1> HIDE DEF n
<1>4. /\ Suffix(s, n + 1) = At(s, n) + Base * Suffix(s, n + 2) /\ Suffix(s, n + 2) \in Nat
      /\ Suffix(t, n + 1) = 0
  BY <1>1, SuffixStep
<1>5. Base * Suffix(s, n + 2) >= 0 /\ Base * Suffix(s, n + 2) \in Nat
  BY <1>4, BaseAssumption
<1>6. Suffix(s, n + 1) > Suffix(t, n + 1)
  BY <1>3, <1>4, <1>5
<1> QED
  BY <1>1, <1>6, Lifts

LEMMA Apart ==
  ASSUME NEW s \in Seq(Limb), NEW t \in Seq(Limb), Len(s) = Len(t), NEW k \in 1 .. Len(s),
         s[k] > t[k], \A m \in k + 1 .. Len(s) : s[m] = t[m]
  PROVE  Magnitude(s) > Magnitude(t)
<1> DEFINE n == k - 1
<1>1. n \in Nat /\ n + 1 = k /\ n < Len(s) /\ n < Len(t) /\ n + 2 = k + 1 /\ n + 2 \in Int
      /\ n + 2 >= 1 /\ Len(s) \in Int /\ Len(s) <= Len(s)
  OBVIOUS
<1>2. At(s, n) = s[k] /\ At(t, n) = t[k] /\ s[k] \in Limb /\ t[k] \in Limb
  BY <1>1 DEF At
<1> HIDE DEF n
<1>3. Suffix(s, n + 2) = Suffix(t, n + 2)
  <2>1. Integral(s, n + 2, Len(s))
    BY <1>1, LimbsIntegral
  <2>2. \A m \in n + 2 .. Len(s) : s[m] = t[m]
    BY <1>1
  <2>3. Horner(Base, s, n + 2, Len(s), 0) = Horner(Base, t, n + 2, Len(s), 0)
    BY <1>1, <2>1, <2>2, BaseAssumption, HornerSame
  <2> QED
    BY <2>3 DEF Suffix
<1>4. /\ Suffix(s, n + 1) = At(s, n) + Base * Suffix(s, n + 2) /\ Suffix(s, n + 2) \in Nat
      /\ Suffix(t, n + 1) = At(t, n) + Base * Suffix(t, n + 2) /\ Suffix(t, n + 2) \in Nat
  BY <1>1, SuffixStep
<1> DEFINE p == Suffix(s, n + 2)
<1>5. p \in Nat /\ Suffix(s, n + 1) = s[k] + Base * p /\ Suffix(t, n + 1) = t[k] + Base * p
  BY <1>2, <1>3, <1>4
<1> HIDE DEF p
<1>6. Base * p \in Nat
  BY <1>5, BaseAssumption
<1>7. Suffix(s, n + 1) > Suffix(t, n + 1)
  BY <1>2, <1>5, <1>6 DEF Limb
<1> QED
  BY <1>1, <1>7, Lifts

\* Which number is larger, and which has more limbs.
LEMMA CmpAbsRight ==
  ASSUME NEW s \in Seq(Limb), NEW t \in Seq(Limb), Trimmed(s), Trimmed(t)
  PROVE  \/ CmpAbs(s, t) = 0 /\ Magnitude(s) = Magnitude(t)
         \/ CmpAbs(s, t) = 1 /\ Magnitude(s) > Magnitude(t) /\ Len(t) <= Len(s)
         \/ CmpAbs(s, t) = -1 /\ Magnitude(t) > Magnitude(s) /\ Len(s) <= Len(t)
<1>1. Len(s) \in Nat /\ Len(t) \in Nat
  OBVIOUS
<1>2. CASE Len(s) > Len(t)
  <2>1. CmpAbs(s, t) = 1
    BY <1>1, <1>2 DEF CmpAbs
  <2> QED
    BY <1>1, <1>2, <2>1, Longer
<1>3. CASE Len(s) < Len(t)
  <2>1. CmpAbs(s, t) = -1
    BY <1>1, <1>3 DEF CmpAbs
  <2>2. Len(t) > Len(s)
    BY <1>1, <1>3
  <2> QED
    BY <1>1, <1>3, <2>1, <2>2, Longer
<1>4. CASE Len(s) = Len(t)
  <2> DEFINE apart == {k \in DOMAIN s : s[k] # t[k]}
             top == CHOOSE k \in apart : \A m \in apart : m <= k
  <2>1. CmpAbs(s, t) = IF apart = {} THEN 0 ELSE IF s[top] < t[top] THEN -1 ELSE 1
    BY <1>4 DEF CmpAbs
  <2>2. DOMAIN s = 1 .. Len(s) /\ apart \in SUBSET (0 .. Len(s)) /\ apart \in SUBSET (1 .. Len(s))
    BY <1>1
  <2>3. CASE apart = {}
    <3>1. s = t
      <4>1. \A k \in 1 .. Len(s) : s[k] = t[k]
        BY <2>2, <2>3
      <4> QED
        BY <1>4, <4>1
    <3> QED
      BY <2>1, <2>3, <3>1
  <2>4. CASE apart # {}
    <3>1. \E k \in apart : \A m \in apart : m <= k
      <4> HIDE DEF apart
      <4> QED
        BY <1>1, <2>2, <2>4, GreatestOf
    <3>2. top \in apart /\ \A m \in apart : m <= top
      <4> HIDE DEF apart
      <4> QED
        BY <3>1
    <3> HIDE DEF top
    <3>3. top \in 1 .. Len(s) /\ s[top] # t[top]
      BY <3>2
    <3>4. \A m \in top + 1 .. Len(s) : s[m] = t[m]
      <4> SUFFICES ASSUME NEW m \in top + 1 .. Len(s) PROVE s[m] = t[m]
        OBVIOUS
      <4>1. m \in 1 .. Len(s) /\ ~(m <= top)
        BY <1>1, <3>3
      <4>2. m \notin apart
        BY <3>2, <4>1
      <4> QED
        BY <2>2, <4>1, <4>2
    <3>5. s[top] \in Limb /\ t[top] \in Limb
      BY <1>4, <3>3
    <3>6. CASE s[top] < t[top]
      <4>1. CmpAbs(s, t) = -1
        BY <2>1, <2>4, <3>6
      <4>2. t[top] > s[top] /\ top \in 1 .. Len(t) /\ \A m \in top + 1 .. Len(t) : t[m] = s[m]
        BY <1>4, <3>3, <3>4, <3>5, <3>6 DEF Limb
      <4>3. Magnitude(t) > Magnitude(s)
        BY <1>4, <4>2, Apart
      <4> QED
        BY <1>1, <1>4, <4>1, <4>3
    <3>7. CASE ~(s[top] < t[top])
      <4>1. CmpAbs(s, t) = 1
        BY <2>1, <2>4, <3>7
      <4>2. s[top] > t[top]
        BY <3>3, <3>5, <3>7, BaseAssumption DEF Limb
      <4>3. Magnitude(s) > Magnitude(t)
        BY <1>4, <3>3, <3>4, <4>2, Apart
      <4> QED
        BY <1>1, <1>4, <4>1, <4>3
    <3> QED
      BY <3>6, <3>7
  <2> QED
    BY <2>3, <2>4
<1> QED
  BY <1>1, <1>2, <1>3, <1>4

Signed(negative, v) == IF negative THEN -v ELSE v
IsNumber(a) ==
  /\ a.limbs \in Seq(Limb) /\ a.negative \in BOOLEAN
  /\ Trimmed(a.limbs) /\ (a.negative => a.limbs # << >>)

LEMMA NumberIs ==
  ASSUME NEW a \in Numbers
  PROVE  IsNumber(a)
<1>1. a.limbs \in Seq(Limb) /\ a.negative \in BOOLEAN /\ Trimmed(a.limbs)
  BY DEF Numbers, Big, Trimmed
<1>2. ASSUME a.negative, a.limbs = << >> PROVE FALSE
  <2>1. a \in [negative : BOOLEAN, limbs : UNION {[1 .. n -> Limb] : n \in 0 .. MaxLimbs}]
    BY DEF Numbers
  <2>2. a = [negative |-> a.negative, limbs |-> a.limbs]
    BY <2>1
  <2>3. a.negative = TRUE
    BY <1>1, <1>2
  <2>4. a = Big(TRUE, << >>)
    BY <1>2, <2>2, <2>3 DEF Big
  <2> QED
    BY <2>4 DEF Numbers
<1> QED
  BY <1>1, <1>2 DEF IsNumber

\* A number has a magnitude, which is zero only if there are no limbs.
LEMMA MagnitudeOf ==
  ASSUME NEW a, IsNumber(a)
  PROVE  /\ Magnitude(a.limbs) \in Nat /\ IntOf(a) = Signed(a.negative, Magnitude(a.limbs))
         /\ IntOf(a) \in Int
         /\ a.limbs = << >> <=> Magnitude(a.limbs) = 0
         /\ a.negative => Magnitude(a.limbs) > 0
<1>1. a.limbs \in Seq(Limb) /\ Trimmed(a.limbs)
  BY DEF IsNumber
<1>2. Magnitude(a.limbs) \in Nat
  BY <1>1, MagnitudeIs
<1>3. << >> \in Seq(Limb) /\ Len(<< >>) = 0
  BY EmptySeq
<1>4. Magnitude(<< >>) = 0
  <2>1. Suffix(<< >>, 1) = 0
    BY <1>3 DEF Suffix, Horner
  <2> QED
    BY <1>3, <2>1, MagnitudeIs
<1>5. a.limbs # << >> => Magnitude(a.limbs) > 0
  <2> SUFFICES ASSUME a.limbs # << >> PROVE Magnitude(a.limbs) > 0
    OBVIOUS
  <2> DEFINE e == << >>
  <2>1. e \in Seq(Limb) /\ Len(e) = 0 /\ Magnitude(e) = 0
    BY <1>3, <1>4
  <2>2. Len(a.limbs) > 0
    BY <1>1
  <2> HIDE DEF e
  <2> QED
    BY <1>1, <2>1, <2>2, Longer
<1> QED
  BY <1>2, <1>4, <1>5 DEF IsNumber, IntOf, Signed

\* The limbs that bignum_make keeps are a number, and the same one.
LEMMA MakeRight ==
  ASSUME NEW negative \in BOOLEAN, NEW s \in Seq(Limb)
  PROVE  /\ IsNumber(Make(negative, s))
         /\ IntOf(Make(negative, s)) = Signed(negative, Magnitude(s))
         /\ Magnitude(Make(negative, s).limbs) = Magnitude(s)
         /\ Len(Make(negative, s).limbs) <= Len(s)
<1> DEFINE top(k) == /\ \A m \in k + 1 .. Len(s) : s[m] = 0
                     /\ k = 0 \/ s[k] # 0
           n == CHOOSE k \in 0 .. Len(s) : top(k)
           t == SubSeq(s, 1, n)
           a == Make(negative, s)
<1>1. Len(s) \in Nat
  OBVIOUS
<1>2. \E k \in 0 .. Len(s) : top(k)
  <2> DEFINE T == {k \in 0 .. Len(s) : \A m \in k + 1 .. Len(s) : s[m] = 0}
  <2>1. T \in SUBSET Nat /\ Len(s) \in T
    BY <1>1
  <2>2. PICK k \in T : \A m \in T : k <= m
    <3> HIDE DEF T
    <3> QED
      BY <2>1, LeastOf
  <2>3. ASSUME k # 0, s[k] = 0 PROVE FALSE
    <3>1. k - 1 \in 0 .. Len(s) /\ ~(k <= k - 1)
      BY <1>1, <2>3
    <3>2. \A m \in k - 1 + 1 .. Len(s) : s[m] = 0
      <4> SUFFICES ASSUME NEW m \in k .. Len(s) PROVE s[m] = 0
        BY <1>1
      <4>1. m = k \/ m \in k + 1 .. Len(s)
        BY <1>1
      <4> QED
        BY <2>3, <4>1
    <3>3. k - 1 \in T
      BY <3>1, <3>2
    <3> QED
      BY <2>2, <3>1, <3>3
  <2> QED
    BY <2>3
<1>3. n \in 0 .. Len(s) /\ top(n)
  <2> HIDE DEF top
  <2> QED
    BY <1>2
<1>4. a = [negative |-> (negative /\ n # 0), limbs |-> t]
  BY DEF Make, Big
<1> HIDE DEF n
<1>5. t \in Seq(Limb) /\ Len(t) = n /\ \A k \in 1 .. n : t[k] = s[k]
  <2>1. \A k \in 1 .. n : k \in 1 .. Len(s)
    BY <1>1, <1>3
  <2> QED
    BY <1>1, <1>3, <2>1, SubSeqProperties
<1>6. Magnitude(t) = Magnitude(s)
  <2>1. /\ 1 \in Int /\ n \in Int /\ Len(s) \in Int /\ 1 <= n + 1 /\ n <= Len(s) /\ 0 \in Int
        /\ n + 1 \in Int
    BY <1>1, <1>3
  <2>2. Integral(s, 1, Len(s)) /\ Integral(s, 1, n)
    BY <2>1, LimbsIntegral
  <2>3. Horner(Base, s, 1, Len(s), 0) = Horner(Base, s, 1, n, Horner(Base, s, n + 1, Len(s), 0))
    BY <2>1, <2>2, BaseAssumption, HornerSplit
  <2>4. Horner(Base, s, n + 1, Len(s), 0) = 0
    BY <1>3, <2>1, BaseAssumption, HornerZero
  <2>5. Horner(Base, s, 1, n, 0) = Horner(Base, t, 1, n, 0)
    <3> HIDE DEF t
    <3> QED
      BY <1>5, <2>1, <2>2, BaseAssumption, HornerSame
  <2>6. Suffix(s, 1) = Suffix(t, 1)
    BY <1>5, <2>3, <2>4, <2>5 DEF Suffix
  <2> QED
    BY <1>5, <2>6, MagnitudeIs
<1>7. IsNumber(a)
  <2>1. a.limbs = t /\ a.negative = (negative /\ n # 0)
    <3> HIDE DEF a, t
    <3> QED
      BY <1>4
  <2>2. t = << >> <=> n = 0
    BY <1>3, <1>5
  <2>3. Trimmed(t)
    BY <1>3, <1>5, <2>2 DEF Trimmed
  <2> HIDE DEF t, a
  <2> QED
    BY <1>5, <2>1, <2>2, <2>3 DEF IsNumber
<1>8. IntOf(a) = Signed(negative, Magnitude(s))
  <2>1. a.limbs = t /\ a.negative = (negative /\ n # 0) /\ (n = 0 => t = << >>)
    BY <1>4, <1>5
  <2> HIDE DEF a, t
  <2>2. IntOf(a) = Signed(a.negative, Magnitude(t)) /\ (t = << >> <=> Magnitude(t) = 0)
    BY <1>7, <2>1, MagnitudeOf
  <2>3. CASE n = 0
    BY <1>6, <2>1, <2>2, <2>3 DEF Signed
  <2>4. CASE n # 0
    BY <1>6, <2>1, <2>2, <2>4 DEF Signed
  <2> QED
    BY <2>3, <2>4
<1>9. Magnitude(a.limbs) = Magnitude(s) /\ Len(a.limbs) <= Len(s)
  <2>1. a.limbs = t
    <3> HIDE DEF a, t
    <3> QED
      BY <1>4
  <2>2. n <= Len(s)
    BY <1>1, <1>3
  <2> HIDE DEF a, t
  <2> QED
    BY <1>5, <1>6, <2>1, <2>2
<1> QED
  BY <1>7, <1>8, <1>9

LEMMA NegateRight ==
  ASSUME NEW a, IsNumber(a)
  PROVE  IsNumber(Negate(a)) /\ IntOf(Negate(a)) = -IntOf(a)
<1>1. a.negative \in BOOLEAN /\ a.limbs \in Seq(Limb)
  BY DEF IsNumber
<1>2. (~a.negative) \in BOOLEAN
  OBVIOUS
<1>3. IsNumber(Make(~a.negative, a.limbs)) /\ IntOf(Make(~a.negative, a.limbs)) = Signed(~a.negative, Magnitude(a.limbs))
  BY <1>1, <1>2, MakeRight
<1>4. Magnitude(a.limbs) \in Nat /\ IntOf(a) = Signed(a.negative, Magnitude(a.limbs))
  BY MagnitudeOf
<1> QED
  BY <1>1, <1>3, <1>4 DEF Negate, Signed

LEMMA CompareRight ==
  ASSUME NEW a, NEW b, IsNumber(a), IsNumber(b)
  PROVE  /\ Compare(a, b) = 1 <=> IntOf(a) > IntOf(b)
         /\ Compare(a, b) = 0 <=> IntOf(a) = IntOf(b)
<1> DEFINE p == Magnitude(a.limbs)
           q == Magnitude(b.limbs)
           c == CmpAbs(a.limbs, b.limbs)
<1>1. /\ p \in Nat /\ IntOf(a) = Signed(a.negative, p) /\ (a.negative => p > 0)
      /\ q \in Nat /\ IntOf(b) = Signed(b.negative, q) /\ (b.negative => q > 0)
  BY MagnitudeOf
<1>2. (c = 0 /\ p = q) \/ (c = 1 /\ p > q) \/ (c = -1 /\ q > p)
  BY CmpAbsRight DEF IsNumber
<1>3. a.negative \in BOOLEAN /\ b.negative \in BOOLEAN
  BY DEF IsNumber
<1>4. CASE ~a.negative /\ ~b.negative
  <2>1. Compare(a, b) = c
    BY <1>4 DEF Compare
  <2> HIDE DEF p, q, c
  <2> QED
    BY <1>1, <1>2, <1>4, <2>1 DEF Signed
<1>5. CASE a.negative /\ b.negative
  <2>1. Compare(a, b) = -c
    BY <1>5 DEF Compare
  <2> HIDE DEF p, q, c
  <2> QED
    BY <1>1, <1>2, <1>5, <2>1 DEF Signed
<1>6. CASE a.negative /\ ~b.negative
  <2>1. Compare(a, b) = -1
    BY <1>6 DEF Compare
  <2> HIDE DEF p, q, c
  <2> QED
    BY <1>1, <1>6, <2>1 DEF Signed
<1>7. CASE ~a.negative /\ b.negative
  <2>1. Compare(a, b) = 1
    BY <1>7 DEF Compare
  <2> HIDE DEF p, q, c
  <2> QED
    BY <1>1, <1>7, <2>1 DEF Signed
<1> QED
  BY <1>3, <1>4, <1>5, <1>6, <1>7

\* bignum_from_nat divides until nothing is left, and leaves nothing out.
LEMMA OfNaturalRight ==
  ASSUME NEW n \in Nat
  PROVE  OfNatural(n) \in Seq(Limb) /\ Magnitude(OfNatural(n)) = n
<1> DEFINE E(g) == [k \in 0 .. n |-> IF k = 0 THEN n ELSE g[k - 1] \div Base]
           rest == CHOOSE g : g = E(g)
           room == CHOOSE k \in 0 .. n : rest[k] = 0 /\ \A m \in 0 .. k - 1 : rest[m] # 0
           d == [k \in 1 .. room |-> rest[k - 1] % Base]
<1>1. Base \in Nat /\ Base >= 2
  BY BaseAssumption
<1>2. OfNatural(n) = d
  BY DEF OfNatural
<1>3. \E g : g = E(g)
  <2> DEFINE next == [p \in (0 .. n - 1) \X Nat |-> p[2] \div Base]
  <2>1. next \in [(0 .. n - 1) \X Nat -> Nat]
    <3>1. \A m \in Nat : m \div Base \in Nat
      BY <1>1
    <3> QED
      BY <3>1
  <2>2. PICK f : Follows(f, Nat, n, n, next)
    <3> HIDE DEF next
    <3> QED
      BY <2>1, Steps, Zenon
  <2>3. f \in [0 .. n -> Nat] /\ f[0] = n
    BY <2>2 DEF Follows
  <2>4. ASSUME NEW k \in 1 .. n PROVE f[k] = f[k - 1] \div Base
    <3>1. f[k] = next[<<k - 1, f[k - 1]>>]
      <4> HIDE DEF next
      <4> QED
        BY <2>2 DEF Follows
    <3>2. <<k - 1, f[k - 1]>> \in (0 .. n - 1) \X Nat
      BY <2>3
    <3> QED
      BY <3>1, <3>2
  <2>5. \A k \in 0 .. n : f[k] = IF k = 0 THEN n ELSE f[k - 1] \div Base
    <3> SUFFICES ASSUME NEW k \in 0 .. n PROVE f[k] = IF k = 0 THEN n ELSE f[k - 1] \div Base
      OBVIOUS
    <3>1. k = 0 \/ k \in 1 .. n
      OBVIOUS
    <3> HIDE DEF next
    <3> QED
      BY <2>3, <2>4, <3>1
  <2>6. f = E(f)
    <3> HIDE DEF next
    <3> QED
      BY <2>3, <2>5
  <2> QED
    BY <2>6
<1>4. rest = E(rest)
  <2> HIDE DEF E
  <2> QED
    BY <1>3
<1> HIDE DEF rest
<1>5. rest[0] = n /\ \A k \in 0 .. n - 1 : rest[k + 1] = rest[k] \div Base
  <2>1. rest[0] = n
    BY <1>4
  <2>2. ASSUME NEW k \in 0 .. n - 1 PROVE rest[k + 1] = rest[k] \div Base
    <3>1. k + 1 \in 0 .. n /\ k + 1 # 0 /\ k + 1 - 1 = k
      OBVIOUS
    <3> QED
      BY <1>4, <3>1
  <2> QED
    BY <2>1, <2>2
<1> HIDE DEF E
<1>6. \A k \in 0 .. n : rest[k] \in Nat /\ rest[k] <= n - k
  <2> DEFINE S == {k \in Nat : k <= n => rest[k] \in Nat /\ rest[k] <= n - k}
  <2>1. 0 \in S
    BY <1>5
  <2>2. ASSUME NEW k \in Nat, k \in S PROVE k + 1 \in S
    <3> SUFFICES ASSUME k + 1 <= n PROVE rest[k + 1] \in Nat /\ rest[k + 1] <= n - (k + 1)
      OBVIOUS
    <3> DEFINE r == rest[k]
    <3>1. r \in Nat /\ r <= n - k /\ rest[k + 1] = r \div Base
      BY <1>5, <2>2
    <3> HIDE DEF r
    <3>2. r \div Base \in Nat /\ (r = 0 => r \div Base = 0)
      BY <1>1, <3>1
    <3>3. r >= 1 => r \div Base < r
      <4> DEFINE u == r \div Base
                 v == r % Base
      <4>1. u \in Nat /\ v \in Nat /\ r = Base * u + v
        BY <1>1, <3>1
      <4> HIDE DEF u, v
      <4>2. Base * u >= 2 * u /\ Base * u \in Nat
        BY <1>1, <4>1
      <4>3. r >= 1 => u < r
        BY <3>1, <4>1, <4>2
      <4> QED
        BY <4>3 DEF u
    <3> QED
      BY <3>1, <3>2, <3>3
  <2>3. Nat \subseteq S
    <3> HIDE DEF S
    <3> QED
      BY <2>1, <2>2, Induct
  <2> QED
    BY <2>3
<1>7. room \in 0 .. n /\ rest[room] = 0 /\ \A m \in 0 .. room - 1 : rest[m] # 0
  <2> DEFINE T == {k \in 0 .. n : rest[k] = 0}
  <2>1. T \in SUBSET Nat /\ n \in T
    <3>1. n \in 0 .. n /\ rest[n] \in Nat /\ rest[n] <= n - n
      BY <1>6
    <3> QED
      BY <3>1
  <2>2. PICK k \in T : \A m \in T : k <= m
    <3> HIDE DEF T
    <3> QED
      BY <2>1, LeastOf
  <2>3. \A m \in 0 .. k - 1 : rest[m] # 0
    <3> SUFFICES ASSUME NEW m \in 0 .. k - 1, rest[m] = 0 PROVE FALSE
      OBVIOUS
    <3>1. m \in T /\ ~(k <= m)
      OBVIOUS
    <3> QED
      BY <2>2, <3>1
  <2>4. \E l \in 0 .. n : rest[l] = 0 /\ \A m \in 0 .. l - 1 : rest[m] # 0
    BY <2>3
  <2> QED
    BY <2>4
<1> HIDE DEF room
<1>8. d \in Seq(Limb) /\ Len(d) = room /\ \A k \in 1 .. room : d[k] = rest[k - 1] % Base
  <2>1. \A k \in 1 .. room : k - 1 \in 0 .. n
    BY <1>7
  <2>2. \A k \in 1 .. room : rest[k - 1] % Base \in Limb
    BY <1>1, <1>6, <2>1 DEF Limb
  <2> QED
    BY <1>7, <2>2
<1> HIDE DEF d
<1> DEFINE S == {k \in 0 .. room : Suffix(d, k + 1) = rest[k]}
<1>9. room \in S
  <2>1. room \in Nat /\ room >= Len(d) /\ room \in 0 .. room
    BY <1>7, <1>8
  <2>2. Suffix(d, room + 1) = 0
    BY <1>8, <2>1, SuffixStep
  <2> QED
    BY <1>7, <2>1, <2>2
<1>10. ASSUME NEW k \in 0 .. room - 1, k + 1 \in S PROVE k \in S
  <2>1. k \in Nat /\ k \in 0 .. n /\ k + 1 + 1 = k + 2 /\ k < room /\ k \in 0 .. room
        /\ k \in 0 .. n - 1 /\ k + 1 \in 1 .. room /\ k + 1 - 1 = k
    BY <1>7
  <2>2. Suffix(d, k + 2) = rest[k + 1]
    BY <1>10, <2>1
  <2>3. Suffix(d, k + 1) = At(d, k) + Base * Suffix(d, k + 2)
    BY <1>8, <2>1, SuffixStep
  <2>4. At(d, k) = rest[k] % Base
    BY <1>8, <2>1 DEF At
  <2>5. rest[k] \in Nat /\ rest[k + 1] = rest[k] \div Base
    BY <1>5, <1>6, <2>1
  <2> DEFINE r == rest[k]
  <2>6. Suffix(d, k + 1) = (r % Base) + Base * (r \div Base) /\ r \in Nat
    BY <2>2, <2>3, <2>4, <2>5
  <2> HIDE DEF r
  <2>7. r = Base * (r \div Base) + (r % Base) /\ r \div Base \in Nat /\ r % Base \in Nat
    BY <1>1, <2>6
  <2>8. Base * (r \div Base) \in Nat
    BY <1>1, <2>7
  <2>9. Suffix(d, k + 1) = r
    BY <2>6, <2>7, <2>8
  <2> QED
    BY <2>1, <2>9 DEF r
<1>11. \A k \in 0 .. room : k \in S
  <2>1. room \in Int /\ 0 \in Int /\ 0 <= room
    BY <1>7
  <2> HIDE DEF S
  <2> QED
    BY <1>9, <1>10, <2>1, Downward
<1>12. Suffix(d, 1) = n
  <2>1. 0 \in S /\ 0 + 1 = 1
    BY <1>7, <1>11
  <2> QED
    BY <1>5, <2>1
<1> QED
  BY <1>2, <1>8, <1>12, MagnitudeIs

LEMMA OfIntRight ==
  ASSUME NEW n \in Int
  PROVE  IsNumber(OfInt(n)) /\ IntOf(OfInt(n)) = n
<1>1. CASE n < 0
  <2> DEFINE m == -n
  <2>1. m \in Nat /\ n = -m
    BY <1>1
  <2>2. OfInt(n) = Make(TRUE, OfNatural(m))
    BY <1>1 DEF OfInt
  <2> HIDE DEF m
  <2> QED
    BY <2>1, <2>2, OfNaturalRight, MakeRight DEF Signed
<1>2. CASE ~(n < 0)
  <2>1. n \in Nat /\ OfInt(n) = Make(FALSE, OfNatural(n))
    BY <1>2 DEF OfInt
  <2> QED
    BY <2>1, OfNaturalRight, MakeRight DEF Signed
<1> QED
  BY <1>1, <1>2

\* bignum_to_nat refuses what is larger than its bound above the low limb.
LEMMA ToNatRight ==
  ASSUME NEW a, IsNumber(a)
  PROVE  IF a.negative \/ Suffix(a.limbs, 2) > NatMax THEN ToNat(a) = -1
         ELSE ToNat(a) = Magnitude(a.limbs)
<1> DEFINE room == Len(a.limbs)
           s == a.limbs
           E(g) == [k \in 0 .. room |->
                      IF k = 0 THEN 0
                      ELSE IF g[k - 1] = -1 \/ g[k - 1] > NatMax THEN -1
                      ELSE g[k - 1] * Base + s[room - k + 1]]
           read == CHOOSE g : g = E(g)
           \* What the k high limbs are worth.
           t(k) == Suffix(s, room - k + 1)
           f == [k \in 0 .. room |-> IF k >= 1 /\ t(k - 1) > NatMax THEN -1 ELSE t(k)]
<1>1. Base \in Nat /\ Base >= 2 /\ NatMax \in Nat
  BY BaseAssumption, BoundsAssumption
<1>2. s \in Seq(Limb) /\ room \in Nat /\ \A k \in 1 .. room : s[k] \in Limb
  <2>1. s \in Seq(Limb)
    BY DEF IsNumber
  <2> QED
    BY <2>1
<1>3. ToNat(a) = IF a.negative THEN -1 ELSE read[room]
  BY DEF ToNat
<1> HIDE DEF s, room
<1>4. t(0) = 0 /\ \A k \in 0 .. room : t(k) \in Nat
  <2>1. room \in Nat /\ Suffix(s, room + 1) = 0
    BY <1>2, SuffixStep DEF s, room
  <2>2. ASSUME NEW k \in 0 .. room PROVE t(k) \in Nat
    <3>1. room - k \in Nat
      BY <1>2
    <3> QED
      BY <1>2, <3>1, SuffixStep
  <2> QED
    BY <2>1, <2>2
<1>5. ASSUME NEW k \in 1 .. room
      PROVE  t(k) = t(k - 1) * Base + s[room - k + 1] /\ t(k - 1) <= t(k)
  <2> DEFINE m == room - k
  <2>1. m \in Nat /\ m + 1 = room - k + 1 /\ m + 2 = room - (k - 1) + 1 /\ m < room
        /\ m + 1 \in 1 .. room
    BY <1>2
  <2>2. /\ Suffix(s, m + 1) = At(s, m) + Base * Suffix(s, m + 2)
        /\ Suffix(s, m + 2) \in Nat
    BY <1>2, <2>1, SuffixStep
  <2>3. At(s, m) = s[m + 1] /\ s[m + 1] \in Nat
    <3>1. m < Len(s)
      BY <2>1 DEF room, s
    <3>2. At(s, m) = s[m + 1]
      BY <3>1 DEF At
    <3>3. s[m + 1] \in Limb
      <4> HIDE DEF m
      <4> QED
        BY <1>2, <2>1
    <3> QED
      BY <1>1, <3>2, <3>3 DEF Limb
  <2> DEFINE p == Suffix(s, m + 2)
  <2>4. t(k) = Suffix(s, m + 1) /\ t(k - 1) = p
    BY <2>1
  <2>5. p \in Nat /\ Suffix(s, m + 1) = s[m + 1] + Base * p
    BY <2>2, <2>3
  <2> HIDE DEF p, t
  <2>6. Base * p = p * Base /\ Base * p \in Nat /\ p <= Base * p
    BY <1>1, <2>5
  <2> HIDE DEF m
  <2>7. t(k) = t(k - 1) * Base + s[m + 1] /\ t(k - 1) <= t(k)
    BY <2>3, <2>4, <2>5, <2>6
  <2> QED
    BY <2>1, <2>7
<1> HIDE DEF t
<1>6. f = E(f)
  <2>1. ASSUME NEW k \in 0 .. room
        PROVE f[k] = IF k = 0 THEN 0
                     ELSE IF f[k - 1] = -1 \/ f[k - 1] > NatMax THEN -1
                     ELSE f[k - 1] * Base + s[room - k + 1]
    <3>1. CASE k = 0
      <4>1. f[k] = t(0)
        BY <1>2, <3>1
      <4> QED
        BY <1>4, <3>1, <4>1
    <3>2. CASE k # 0
      <4>1. k \in 1 .. room /\ k - 1 \in 0 .. room /\ k >= 1
        BY <1>2, <3>2
      <4>2. t(k) = t(k - 1) * Base + s[room - k + 1] /\ t(k - 1) \in Nat /\ t(k) \in Nat
        BY <1>4, <1>5, <4>1
      <4>3. f[k] = IF t(k - 1) > NatMax THEN -1 ELSE t(k)
        BY <4>1
      <4>4. f[k - 1] = IF k - 1 >= 1 /\ t(k - 1 - 1) > NatMax THEN -1 ELSE t(k - 1)
        BY <4>1
      <4>5. k - 1 >= 1 => t(k - 1 - 1) <= t(k - 1) /\ t(k - 1 - 1) \in Nat
        <5> SUFFICES ASSUME k - 1 >= 1 PROVE t(k - 1 - 1) <= t(k - 1) /\ t(k - 1 - 1) \in Nat
          OBVIOUS
        <5>1. k - 1 \in 1 .. room /\ k - 1 - 1 \in 0 .. room
          BY <1>2, <4>1
        <5> QED
          BY <1>4, <1>5, <5>1
      <4> HIDE DEF f
      <4>6. CASE t(k - 1) > NatMax
        <5>1. f[k] = -1
          BY <4>3, <4>6
        <5>2. f[k - 1] = -1 \/ f[k - 1] > NatMax
          BY <4>4, <4>6
        <5> QED
          BY <3>2, <5>1, <5>2
      <4>7. CASE ~(t(k - 1) > NatMax)
        <5>1. f[k] = t(k)
          BY <4>3, <4>7
        <5>2. f[k - 1] = t(k - 1)
          BY <1>1, <4>2, <4>4, <4>5, <4>7
        <5>3. ~(f[k - 1] = -1 \/ f[k - 1] > NatMax)
          BY <1>1, <4>2, <4>7, <5>2
        <5> QED
          BY <3>2, <4>2, <5>1, <5>2, <5>3
      <4> QED
        BY <4>6, <4>7
    <3> QED
      BY <3>1, <3>2
  <2> QED
    BY <2>1
<1>7. read = E(read)
  <2>1. \E g : g = E(g)
    <3> HIDE DEF E, f
    <3> QED
      BY <1>6
  <2> HIDE DEF E
  <2> QED
    BY <2>1
<1> HIDE DEF read
<1>8. \A k \in 0 .. room : read[k] = f[k]
  <2> DEFINE S == {k \in Nat : k <= room => read[k] = f[k]}
  <2>1. 0 \in S
    <3>1. 0 \in 0 .. room
      BY <1>2
    <3>2. read[0] = 0
      BY <1>7, <3>1
    <3>3. f[0] = 0
      BY <1>4, <3>1
    <3> HIDE DEF f
    <3> QED
      BY <3>2, <3>3
  <2>2. ASSUME NEW k \in Nat, k \in S PROVE k + 1 \in S
    <3> SUFFICES ASSUME k + 1 <= room PROVE read[k + 1] = f[k + 1]
      OBVIOUS
    <3>1. k + 1 \in 0 .. room /\ k + 1 # 0 /\ k + 1 - 1 = k
      BY <1>2
    <3>2. read[k] = f[k]
      BY <1>2, <2>2
    <3> HIDE DEF f
    <3> DEFINE l == k + 1
    <3>3. l \in 0 .. room /\ l # 0 /\ l - 1 = k
      BY <3>1
    <3> HIDE DEF l
    <3>4. read[l] = IF read[l - 1] = -1 \/ read[l - 1] > NatMax THEN -1
                    ELSE read[l - 1] * Base + s[room - l + 1]
      BY <1>7, <3>3
    <3>5. f[l] = IF f[l - 1] = -1 \/ f[l - 1] > NatMax THEN -1
                 ELSE f[l - 1] * Base + s[room - l + 1]
      BY <1>6, <3>3
    <3>6. read[l] = f[l]
      <4> HIDE DEF E
      <4> QED
        BY <3>2, <3>3, <3>4, <3>5
    <3> QED
      BY <3>6 DEF l
  <2>3. Nat \subseteq S
    <3> HIDE DEF S
    <3> QED
      BY <2>1, <2>2, Induct
  <2> HIDE DEF f
  <2> QED
    BY <1>2, <2>3
<1>9. read[room] = IF room >= 1 /\ t(room - 1) > NatMax THEN -1 ELSE t(room)
  <2>1. room \in 0 .. room
    BY <1>2
  <2> QED
    BY <1>8, <2>1
<1>10. t(room) = Magnitude(s)
  <2>1. room - room + 1 = 1
    BY <1>2
  <2> QED
    BY <1>2, <2>1, MagnitudeIs DEF t
<1>11. room >= 1 => t(room - 1) = Suffix(s, 2)
  <2>1. room >= 1 => room - (room - 1) + 1 = 2
    BY <1>2
  <2> QED
    BY <2>1 DEF t
<1>12. room = 0 => ~(Suffix(s, 2) > NatMax)
  <2> SUFFICES ASSUME room = 0 PROVE Suffix(s, 2) = 0
    BY <1>1
  <2>1. 0 \in Nat /\ 0 >= Len(s) /\ 0 + 2 = 2
    BY DEF room, s
  <2>2. Suffix(s, 0 + 2) = 0
    BY <1>2, <2>1, SuffixStep
  <2> QED
    BY <2>1, <2>2
<1>13. Suffix(a.limbs, 2) = Suffix(s, 2) /\ Magnitude(a.limbs) = Magnitude(s)
  BY DEF s
<1>14. room = 0 \/ room >= 1
  BY <1>2
<1> QED
  BY <1>3, <1>9, <1>10, <1>11, <1>12, <1>13, <1>14

-----------------------------------------------------------------------------
\* Int63: bignum_to_int and int63_wrap_sum.
LEMMA IsInt63Right ==
  ASSUME NEW a, IsNumber(a)
  PROVE  IsInt63(a) <=> IntOf(a) \in Int63Range
<1> DEFINE p == Magnitude(a.limbs)
           l == Magnitude(Low)
           h == Magnitude(High)
<1>1. /\ Low \in Seq(Limb) /\ High \in Seq(Limb) /\ Trimmed(Low) /\ Trimmed(High)
      /\ l = h + 1
  BY BoundsAssumption, Int63Assumption DEF Trimmed, Limb
<1>2. l \in Nat /\ h \in Nat
  BY <1>1, MagnitudeIs
<1>3. p \in Nat /\ IntOf(a) = Signed(a.negative, p) /\ (a.negative => p > 0)
  BY MagnitudeOf
<1>4. a.limbs \in Seq(Limb) /\ Trimmed(a.limbs) /\ a.negative \in BOOLEAN
  BY DEF IsNumber
<1>5. CASE a.negative
  <2> DEFINE c == CmpAbs(a.limbs, Low)
  <2>1. (c = 0 /\ p = l) \/ (c = 1 /\ p > l) \/ (c = -1 /\ l > p)
    BY <1>1, <1>4, CmpAbsRight
  <2>2. IsInt63(a) <=> c <= 0
    BY <1>5 DEF IsInt63
  <2>3. IntOf(a) \in Int63Range <=> -p \in -l .. h
    BY <1>3, <1>5 DEF Int63Range, Signed
  <2> HIDE DEF c, p, l, h
  <2>4. -p \in -l .. h <=> p <= l
    BY <1>2, <1>3, <1>5
  <2>5. c <= 0 <=> p <= l
    BY <1>2, <1>3, <2>1
  <2> QED
    BY <2>2, <2>3, <2>4, <2>5
<1>6. CASE ~a.negative
  <2> DEFINE c == CmpAbs(a.limbs, High)
  <2>1. (c = 0 /\ p = h) \/ (c = 1 /\ p > h) \/ (c = -1 /\ h > p)
    BY <1>1, <1>4, CmpAbsRight
  <2>2. IsInt63(a) <=> c <= 0
    BY <1>6 DEF IsInt63
  <2>3. IntOf(a) \in Int63Range <=> p \in -l .. h
    BY <1>3, <1>6 DEF Int63Range, Signed
  <2> HIDE DEF c, p, l, h
  <2> QED
    BY <1>2, <1>3, <1>6, <2>1, <2>2, <2>3
<1> QED
  BY <1>4, <1>5, <1>6

LEMMA WrapRight ==
  ASSUME NEW raw \in Int, -2 * Magnitude(Low) <= raw, raw < 2 * Magnitude(Low)
  PROVE  /\ WrapSum(raw) = ((raw + Magnitude(Low)) % (2 * Magnitude(Low))) - Magnitude(Low)
         /\ WrapSum(raw) \in Int
<1> DEFINE l == Magnitude(Low)
           h == Magnitude(High)
<1>1. l = h + 1 /\ h \in Nat /\ l \in Nat
  <2>1. Low \in Seq(Limb) /\ High \in Seq(Limb) /\ l = h + 1
    BY BoundsAssumption, Int63Assumption DEF Limb
  <2> QED
    BY <2>1, MagnitudeIs
<1>2. WrapSum(raw) = IF raw > h THEN raw - 2 * l ELSE IF raw < -l THEN raw + 2 * l ELSE raw
  BY DEF WrapSum
<1>3. -2 * l <= raw /\ raw < 2 * l
  OBVIOUS
<1> HIDE DEF l, h
<1> DEFINE n == 2 * l
           r == raw + l
<1>4. n \in Nat /\ n > 0 /\ r \in Int /\ -n <= r + l /\ r < n + l
  BY <1>1, <1>3
<1>5. ASSUME NEW q \in Int, NEW m \in 0 .. n - 1, r = n * q + m PROVE r % n = m
  <2> HIDE DEF n, r
  <2> QED
    BY <1>4, <1>5
<1>6. CASE raw > h
  <2>1. r = n * 1 + (r - n) /\ r - n \in 0 .. n - 1
    BY <1>1, <1>3, <1>6
  <2>2. r % n = r - n
    <3> HIDE DEF n, r
    <3> QED
      BY <1>5, <2>1
  <2> QED
    BY <1>1, <1>2, <1>6, <2>2 DEF l
<1>7. CASE raw < -l
  <2>1. r = n * (-1) + (r + n) /\ r + n \in 0 .. n - 1 /\ ~(raw > h)
    BY <1>1, <1>3, <1>7
  <2>2. r % n = r + n
    <3> HIDE DEF n, r
    <3> QED
      BY <1>5, <2>1
  <2> QED
    BY <1>1, <1>2, <1>7, <2>1, <2>2 DEF l
<1>8. CASE ~(raw > h) /\ ~(raw < -l)
  <2>1. r = n * 0 + r /\ r \in 0 .. n - 1
    BY <1>1, <1>3, <1>8
  <2>2. r % n = r
    <3> HIDE DEF n, r
    <3> QED
      BY <1>5, <2>1
  <2> QED
    BY <1>1, <1>2, <1>8, <2>2 DEF l
<1> QED
  BY <1>6, <1>7, <1>8

LEMMA SmallNumbers ==
  /\ IsNumber(Zero) /\ IntOf(Zero) = 0 /\ IsNumber(One) /\ IntOf(One) = 1
<1>1. IsNumber(Zero)
  BY EmptySeq DEF Zero, Big, IsNumber, Trimmed
<1>2. IntOf(Zero) = 0
  BY <1>1, MagnitudeOf DEF Zero, Big, Signed
<1> DEFINE s == <<1>>
<1>3. s \in Seq(Limb) /\ Len(s) = 1 /\ s[1] = 1
  BY BaseAssumption DEF Limb
<1>4. Magnitude(s) = 1
  <2>1. At(s, 0) = 1
    BY <1>3 DEF At
  <2>2. 0 \in Nat /\ 0 + 1 = 1 /\ 0 + 2 = 2 /\ 1 \in Nat /\ 1 + 1 = 2
    OBVIOUS
  <2> HIDE DEF s
  <2>3. Suffix(s, 0 + 1) = At(s, 0) + Base * Suffix(s, 0 + 2)
    BY <1>3, <2>2, SuffixStep
  <2>4. Suffix(s, 1 + 1) = 0
    <3>1. 1 >= Len(s)
      BY <1>3
    <3> QED
      BY <1>3, <2>2, <3>1, SuffixStep
  <2>5. Suffix(s, 1) = 1
    BY <2>1, <2>2, <2>3, <2>4, BaseAssumption
  <2> QED
    BY <1>3, <2>5, MagnitudeIs
<1>5. One.limbs = s /\ One.negative = FALSE
  BY DEF One, Big
<1> HIDE DEF s
<1>6. IsNumber(One)
  <2>1. Trimmed(s)
    BY <1>3 DEF Trimmed
  <2>2. One.limbs \in Seq(Limb) /\ Trimmed(One.limbs) /\ One.negative \in BOOLEAN /\ ~One.negative
    BY <1>3, <1>5, <2>1
  <2> QED
    BY <2>2 DEF IsNumber
<1>7. IntOf(One) = 1
  BY <1>4, <1>5 DEF IntOf
<1> QED
  BY <1>1, <1>2, <1>6, <1>7

\* What each loop keeps: how long its buffer is, and where in it it is.
Shape ==
  /\ op = "add" => Len(out) = Longest(x, y) + 1 /\ i < Len(out)
  /\ op = "sub" => Len(out) = Len(x) /\ i <= Len(out) /\ carry \in {0, 1}
  /\ op = "mul" => Len(out) = Len(x) + Len(y) /\ i <= Len(x) /\ j <= Len(y)
Inv == TypeOK /\ Shape

\* A digit times a digit, a digit and a carry: less than the square.
LEMMA ProductFits ==
  ASSUME NEW a \in Limb, NEW b \in Limb, NEW c \in Limb, NEW d \in Limb
  PROVE  c + a * b + d \in 0 .. Base * Base - 1
<1>1. Base \in Nat /\ Base >= 2
  BY BaseAssumption
<1>2. a * b >= 0 /\ a * b <= (Base - 1) * (Base - 1)
  <2>1. a * b <= a * (Base - 1)
    BY <1>1 DEF Limb
  <2>2. a * (Base - 1) <= (Base - 1) * (Base - 1)
    BY <1>1 DEF Limb
  <2>3. a * b >= 0
    BY <1>1 DEF Limb
  <2>4. a * b \in Int /\ a * (Base - 1) \in Int /\ (Base - 1) * (Base - 1) \in Int
    BY <1>1 DEF Limb
  <2> QED
    BY <2>1, <2>2, <2>3, <2>4
<1>3. (Base - 1) * (Base - 1) = Base * Base - 2 * Base + 1
  BY <1>1
<1>4. a * b \in Int /\ Base * Base \in Int
  BY <1>1 DEF Limb
<1> QED
  BY <1>1, <1>2, <1>3, <1>4 DEF Limb

\* What is less than the square is a word, and two digits.
LEMMA TwoDigits ==
  ASSUME NEW n \in 0 .. Base * Base - 1
  PROVE  /\ n \in 0 .. Word - 1 /\ U32(n) = n
         /\ n % Base \in Limb /\ n \div Base \in Limb
<1>1. Base \in Nat /\ Base >= 2 /\ Word \in Nat /\ Base * Base <= Word /\ Base * Base \in Nat
  BY BaseAssumption, WordAssumption
<1>2. n \in 0 .. Word - 1
  BY <1>1
<1>3. U32(n) = n
  BY <1>1, <1>2 DEF U32
<1>4. n % Base \in Limb
  BY <1>1 DEF Limb
<1>5. n \div Base \in Limb
  <2>1. n \div Base \in Int /\ n \div Base >= 0 /\ n = Base * (n \div Base) + (n % Base)
    BY <1>1
  <2>2. n % Base >= 0 /\ n % Base \in Int
    BY <1>1
  <2>3. SUFFICES ASSUME n \div Base >= Base PROVE FALSE
    BY <1>1, <2>1 DEF Limb
  <2>4. Base * (n \div Base) >= Base * Base
    BY <1>1, <2>1, <2>3
  <2> QED
    BY <1>1, <2>1, <2>2, <2>4
<1> QED
  BY <1>2, <1>3, <1>4, <1>5

\* A loop starts with a blank buffer.
LEMMA StartRun ==
  ASSUME NEW negative \in BOOLEAN, NEW p \in Seq(Limb), NEW q \in Seq(Limb), NEW room \in Nat,
         NEW name \in {"add", "sub", "mul"}, Run(name, negative, p, q, room),
         \/ name = "add" /\ room = Longest(p, q) + 1
         \/ name = "sub" /\ room = Len(p)
         \/ name = "mul" /\ room = Len(p) + Len(q)
  PROVE  Inv'
<1>1. 0 \in Limb
  BY BaseAssumption DEF Limb
<1>2. Blank(room) \in Seq(Limb) /\ Len(Blank(room)) = room
  BY <1>1 DEF Blank
<1>3. Len(p) \in Nat /\ Len(q) \in Nat /\ Longest(p, q) \in Nat
  BY DEF Longest
<1>4. /\ op' = name /\ neg' = negative /\ x' = p /\ y' = q /\ out' = Blank(room)
      /\ i' = 0 /\ j' = 0 /\ carry' = 0
  BY DEF Run
<1>5. TypeOK'
  BY <1>1, <1>2, <1>4 DEF TypeOK
<1>6. Shape'
  BY <1>2, <1>3, <1>4 DEF Shape, Longest
<1> QED
  BY <1>5, <1>6 DEF Inv

\* A call that answers runs no loop.
LEMMA AnswerKeeps ==
  ASSUME NEW a, Answer(a)
  PROVE  Inv'
<1>1. << >> \in Seq(Limb) /\ 0 \in Limb
  BY EmptySeq, BaseAssumption DEF Limb
<1>2. TypeOK'
  BY <1>1 DEF Answer, TypeOK
<1>3. Shape'
  BY DEF Answer, Shape
<1> QED
  BY <1>2, <1>3 DEF Inv

LEMMA NumberLimbs ==
  ASSUME NEW a \in Numbers
  PROVE  a.limbs \in Seq(Limb) /\ a.negative \in BOOLEAN /\ Len(a.limbs) \in Nat
<1>1. a.limbs \in Seq(Limb) /\ a.negative \in BOOLEAN
  BY DEF Numbers, Big
<1> QED
  BY <1>1, LenProperties

\* bignum_negate trims nothing off a number.
LEMMA NegateLimbs ==
  ASSUME NEW a \in Numbers
  PROVE  Negate(a).limbs \in Seq(Limb) /\ Negate(a).negative \in BOOLEAN
<1>1. a.limbs \in Seq(Limb) /\ a.negative \in BOOLEAN
  BY NumberLimbs
<1> DEFINE top(k) == /\ \A m \in k + 1 .. Len(a.limbs) : a.limbs[m] = 0
                     /\ k = 0 \/ a.limbs[k] # 0
           n == CHOOSE k \in 0 .. Len(a.limbs) : top(k)
<1>2. a.limbs = << >> \/ a.limbs[Len(a.limbs)] # 0
  BY DEF Numbers, Big
<1>3. top(Len(a.limbs))
  BY <1>1, <1>2
<1>4. n \in 0 .. Len(a.limbs)
  BY <1>1, <1>3
<1>5. SubSeq(a.limbs, 1, n) \in Seq(Limb)
  <2>1. Len(a.limbs) \in Nat
    BY <1>1
  <2>2. \A k \in 1 .. n : k \in 1 .. Len(a.limbs)
    BY <1>4, <2>1
  <2> HIDE DEF n
  <2> QED
    BY <1>1, <1>4, <2>1, <2>2, SubSeqProperties
<1>6. Negate(a) = Big(~a.negative /\ n # 0, SubSeq(a.limbs, 1, n))
  BY DEF Negate, Make
<1> QED
  BY <1>1, <1>5, <1>6 DEF Big

\* bignum_add starts the right loop.
LEMMA AddRuns ==
  ASSUME NEW a, NEW b, a.limbs \in Seq(Limb), b.limbs \in Seq(Limb),
         a.negative \in BOOLEAN, b.negative \in BOOLEAN, AddNumbers(a, b)
  PROVE  Inv'
<1>1. CASE a.negative = b.negative
  <2>1. Longest(a.limbs, b.limbs) + 1 \in Nat
    BY DEF Longest
  <2> QED
    BY <1>1, <2>1, StartRun DEF AddNumbers
<1>2. CASE a.negative # b.negative
  <2>1. CmpAbs(a.limbs, b.limbs) \in {-1, 0, 1}
    BY DEF CmpAbs
  <2>2. Len(a.limbs) \in Nat /\ Len(b.limbs) \in Nat
    OBVIOUS
  <2>3. CASE CmpAbs(a.limbs, b.limbs) = 0
    BY <1>2, <2>3, AnswerKeeps DEF AddNumbers
  <2>4. CASE CmpAbs(a.limbs, b.limbs) = 1
    <3>1. Run("sub", a.negative, a.limbs, b.limbs, Len(a.limbs))
      BY <1>2, <2>4 DEF AddNumbers
    <3> QED
      BY <2>2, <3>1, StartRun
  <2>5. CASE CmpAbs(a.limbs, b.limbs) = -1
    <3>1. Run("sub", ~a.negative, b.limbs, a.limbs, Len(b.limbs))
      BY <1>2, <2>5 DEF AddNumbers
    <3> QED
      BY <2>2, <3>1, StartRun
  <2> QED
    BY <2>1, <2>3, <2>4, <2>5
<1> QED
  BY <1>1, <1>2

\* What a step of a loop computes is a word, and two digits.
LEMMA SumFits ==
  ASSUME Inv, op = "add"
  PROVE  Sum \in 0 .. Base * Base - 1
<1>1. At(x, i) \in Limb /\ At(y, i) \in Limb /\ carry \in Limb
  BY AtLimb DEF Inv, TypeOK
<1>2. Base \in Nat /\ Base >= 2
  BY BaseAssumption
<1>3. 1 \in Limb /\ 0 \in Limb
  BY <1>2 DEF Limb
<1>4. At(x, i) * 1 = At(x, i)
  BY <1>1, <1>2 DEF Limb
<1>5. Sum >= 0 /\ Sum \in Int /\ Sum <= 3 * (Base - 1)
  BY <1>1, <1>2 DEF Sum, Limb
<1>6. 3 * (Base - 1) <= Base * Base - 1
  <2>1. CASE Base = 2
    BY <2>1
  <2>2. CASE Base >= 3
    <3>1. 3 * Base <= Base * Base
      BY <1>2, <2>2
    <3> QED
      BY <1>2, <3>1
  <2> QED
    BY <1>2, <2>1, <2>2
<1> QED
  BY <1>2, <1>5, <1>6

LEMMA DifferenceFits ==
  ASSUME Inv, op = "sub"
  PROVE  Difference \in 0 .. Base * Base - 1
<1>1. At(x, i) \in Limb /\ At(y, i) \in Limb /\ carry \in {0, 1}
  BY AtLimb DEF Inv, TypeOK, Shape
<1>2. Base \in Nat /\ Base >= 2
  BY BaseAssumption
<1>3. Difference \in Int /\ Difference >= 0 /\ Difference <= 2 * Base - 1
  BY <1>1, <1>2 DEF Difference, Limb
<1>4. 2 * Base <= Base * Base
  BY <1>2
<1> QED
  BY <1>2, <1>3, <1>4

LEMMA ProductOfLimbs ==
  ASSUME Inv, op = "mul", i < Len(x), j < Len(y)
  PROVE  Product \in 0 .. Base * Base - 1
<1>1. /\ x \in Seq(Limb) /\ y \in Seq(Limb) /\ out \in Seq(Limb) /\ carry \in Limb
      /\ i \in Nat /\ j \in Nat /\ Len(out) = Len(x) + Len(y)
  BY DEF Inv, TypeOK, Shape
<1>2. x[i + 1] \in Limb /\ y[j + 1] \in Limb /\ out[i + j + 1] \in Limb
  BY <1>1
<1> QED
  BY <1>1, <1>2, ProductFits DEF Product

\* A digit goes into the buffer.
LEMMA PutLimb ==
  ASSUME NEW s \in Seq(Limb), NEW k, NEW d \in Limb
  PROVE  [s EXCEPT ![k] = d] \in Seq(Limb) /\ Len([s EXCEPT ![k] = d]) = Len(s)
<1>1. s \in [1 .. Len(s) -> Limb] /\ Len(s) \in Nat
  OBVIOUS
<1>2. [s EXCEPT ![k] = d] \in [1 .. Len(s) -> Limb]
  BY <1>1
<1> QED
  BY <1>1, <1>2, SeqDef, LenProperties

LEMMA BeginKeeps ==
  ASSUME NEW a \in Numbers, NEW b \in Numbers,
         BeginAdd(a, b) \/ BeginSub(a, b) \/ BeginMul(a, b) \/ Int63Sum(a, b)
           \/ BeginSucc(a) \/ ThroughNat(a) \/ ThroughInt63(a)
  PROVE  Inv'
<1>1. /\ a.limbs \in Seq(Limb) /\ a.negative \in BOOLEAN
      /\ b.limbs \in Seq(Limb) /\ b.negative \in BOOLEAN
  BY NumberLimbs
<1>2. CASE BeginAdd(a, b)
  BY <1>1, <1>2, AddRuns DEF BeginAdd
<1>3. CASE BeginSub(a, b)
  <2>1. Negate(b).limbs \in Seq(Limb) /\ Negate(b).negative \in BOOLEAN
    BY NegateLimbs
  <2>2. CASE Compare(a, b) = 1
    BY <1>1, <1>3, <2>1, <2>2, AddRuns DEF BeginSub
  <2>3. CASE Compare(a, b) # 1
    BY <1>3, <2>3, AnswerKeeps DEF BeginSub
  <2> QED
    BY <2>2, <2>3
<1>4. CASE BeginMul(a, b)
  <2>1. Len(a.limbs) + Len(b.limbs) \in Nat
    <3>1. Len(a.limbs) \in Nat /\ Len(b.limbs) \in Nat
      BY NumberLimbs
    <3>2. \A m, n \in Nat : m + n \in Nat
      OBVIOUS
    <3> QED
      BY <3>1, <3>2, Zenon
  <2> QED
    BY <1>1, <1>4, <2>1, StartRun DEF BeginMul
<1>5. CASE Int63Sum(a, b)
  BY <1>5, AnswerKeeps DEF Int63Sum
<1>6. CASE BeginSucc(a)
  <2>1. One.limbs \in Seq(Limb) /\ One.negative \in BOOLEAN
    BY BaseAssumption DEF One, Big, Limb
  <2>2. CASE Compare(a, Make(FALSE, High)) = 0
    BY <1>6, <2>2, AnswerKeeps DEF BeginSucc
  <2>3. CASE Compare(a, Make(FALSE, High)) # 0
    BY <1>1, <1>6, <2>1, <2>3, AddRuns DEF BeginSucc
  <2> QED
    BY <2>2, <2>3
<1>7. CASE ThroughNat(a)
  BY <1>7, AnswerKeeps DEF ThroughNat
<1>8. CASE ThroughInt63(a)
  BY <1>8, AnswerKeeps DEF ThroughInt63
<1> QED
  BY <1>2, <1>3, <1>4, <1>5, <1>6, <1>7, <1>8

LEMMA StepKeeps ==
  ASSUME Inv, AddStep \/ SubStep \/ MulStep \/ MulRow
  PROVE  Inv'
<1>1. TypeOK /\ Shape
  BY DEF Inv
<1>2. CASE AddStep
  <2>1. U32(Sum) % Base \in Limb /\ U32(Sum) \div Base \in Limb
    BY <1>2, SumFits, TwoDigits DEF AddStep
  <2>2. out' \in Seq(Limb) /\ Len(out') = Len(out)
    BY <1>1, <1>2, <2>1, PutLimb DEF AddStep, TypeOK
  <2>3. TypeOK'
    BY <1>1, <1>2, <2>1, <2>2 DEF TypeOK, AddStep, Going
  <2>4. Shape'
    BY <1>1, <1>2, <2>2 DEF TypeOK, Shape, AddStep, Going, Longest
  <2> QED
    BY <2>3, <2>4 DEF Inv
<1>3. CASE SubStep
  <2>1. U32(Difference) % Base \in Limb
    BY <1>3, DifferenceFits, TwoDigits DEF SubStep
  <2>2. out' \in Seq(Limb) /\ Len(out') = Len(out)
    BY <1>1, <1>3, <2>1, PutLimb DEF SubStep, TypeOK
  <2>3. carry' \in {0, 1} /\ carry' \in Limb
    BY <1>3, BaseAssumption DEF SubStep, Limb
  <2> QED
    BY <1>1, <1>3, <2>2, <2>3 DEF Inv, TypeOK, Shape, SubStep, Going
<1>4. CASE MulStep
  <2>1. U32(Product) % Base \in Limb /\ U32(Product) \div Base \in Limb
    BY <1>4, ProductOfLimbs, TwoDigits DEF MulStep
  <2>2. out' \in Seq(Limb) /\ Len(out') = Len(out)
    BY <1>1, <1>4, <2>1, PutLimb DEF MulStep, TypeOK
  <2>3. TypeOK'
    BY <1>1, <1>4, <2>1, <2>2 DEF TypeOK, MulStep, Going
  <2>4. Shape'
    <3>1. Len(x) \in Nat /\ Len(y) \in Nat
      BY <1>1, LenProperties DEF TypeOK
    <3> QED
      BY <1>1, <1>4, <2>2, <3>1 DEF TypeOK, Shape, MulStep, Going
  <2> QED
    BY <2>3, <2>4 DEF Inv
<1>5. CASE MulRow
  <2>1. out' \in Seq(Limb) /\ Len(out') = Len(out)
    BY <1>1, <1>5, PutLimb DEF MulRow, TypeOK
  <2>2. 0 \in Limb
    BY BaseAssumption DEF Limb
  <2> QED
    BY <1>1, <1>5, <2>1, <2>2 DEF Inv, TypeOK, Shape, MulRow, Going
<1> QED
  BY <1>2, <1>3, <1>4, <1>5

-----------------------------------------------------------------------------
(***************************************************************************)
(* What a loop still has to make of the operands, and that with the limbs  *)
(* made below it this is the magnitude of the wanted integer.              *)
(***************************************************************************)
Left ==
  CASE op = "add" -> Suffix(x, i + 1) + Suffix(y, i + 1) + carry
    [] op = "sub" -> Suffix(x, i + 1) - Suffix(y, i + 1) - carry
    [] op = "mul" ->
         Horner(Base, out, i + 1, i + j, Suffix(out, i + j + 1) + carry + At(x, i) * Suffix(y, j + 1))
           + Base * (Suffix(x, i + 2) * Suffix(y, 1))

Valued ==
  /\ op \in {"add", "sub", "mul"} => wanted = Signed(neg, Horner(Base, out, 1, i, Left))
  /\ op = "sub" => Len(y) <= Len(x) /\ Horner(Base, out, 1, i, Left) >= 0
  /\ op = "mul" => /\ \A k \in i + Len(y) + 1 .. Len(out) : out[k] = 0
                   /\ i = Len(x) => j = 0 /\ carry = 0

LEMMA NothingMade ==
  ASSUME NEW s, NEW z \in Int
  PROVE  Horner(Base, s, 1, 0, z) = z
<1>1. Integral(s, 1, 0) /\ 1 \in Int /\ 0 \in Int /\ 1 > 0
  BY DEF Integral
<1> QED
  BY <1>1, BaseAssumption, HornerStep

LEMMA FirstSuffix ==
  ASSUME NEW s \in Seq(Limb)
  PROVE  /\ Suffix(s, 0 + 1) = Magnitude(s) /\ Suffix(s, 1) = Magnitude(s)
         /\ Magnitude(s) \in Nat /\ At(s, 0) \in Nat /\ Suffix(s, 0 + 2) \in Nat
         /\ Magnitude(s) = At(s, 0) + Base * Suffix(s, 0 + 2)
<1>1. 0 \in Nat /\ 0 + 1 = 1
  OBVIOUS
<1>2. At(s, 0) \in Limb
  BY <1>1, AtLimb
<1>3. Magnitude(s) = Suffix(s, 1) /\ Magnitude(s) \in Nat
  BY MagnitudeIs
<1>4. Suffix(s, 0 + 1) = At(s, 0) + Base * Suffix(s, 0 + 2) /\ Suffix(s, 0 + 2) \in Nat
  BY <1>1, SuffixStep
<1> QED
  BY <1>1, <1>2, <1>3, <1>4 DEF Limb

LEMMA StartAdd ==
  ASSUME NEW negative \in BOOLEAN, NEW p \in Seq(Limb), NEW q \in Seq(Limb), NEW room,
         Run("add", negative, p, q, room),
         wanted' = Signed(negative, Magnitude(p) + Magnitude(q))
  PROVE  Valued'
<1>1. /\ op' = "add" /\ neg' = negative /\ x' = p /\ y' = q /\ i' = 0 /\ carry' = 0
  BY DEF Run
<1>2. Left' = Magnitude(p) + Magnitude(q) /\ Left' \in Int
  BY <1>1, FirstSuffix DEF Left
<1>3. Horner(Base, out', 1, 0, Left') = Left'
  BY <1>2, NothingMade
<1> QED
  BY <1>1, <1>2, <1>3 DEF Valued

LEMMA StartSub ==
  ASSUME NEW negative \in BOOLEAN, NEW p \in Seq(Limb), NEW q \in Seq(Limb), NEW room,
         Run("sub", negative, p, q, room), Len(q) <= Len(p), Magnitude(p) > Magnitude(q),
         wanted' = Signed(negative, Magnitude(p) - Magnitude(q))
  PROVE  Valued'
<1>1. /\ op' = "sub" /\ neg' = negative /\ x' = p /\ y' = q /\ i' = 0 /\ carry' = 0
  BY DEF Run
<1>2. Left' = Magnitude(p) - Magnitude(q) /\ Left' \in Int /\ Left' >= 0
  BY <1>1, FirstSuffix DEF Left
<1>3. Horner(Base, out', 1, 0, Left') = Left'
  BY <1>2, NothingMade
<1> QED
  BY <1>1, <1>2, <1>3 DEF Valued

LEMMA StartMul ==
  ASSUME NEW negative \in BOOLEAN, NEW p \in Seq(Limb), NEW q \in Seq(Limb),
         Run("mul", negative, p, q, Len(p) + Len(q)),
         wanted' = Signed(negative, Magnitude(p) * Magnitude(q))
  PROVE  Valued'
<1> DEFINE n == Len(p) + Len(q)
           s == Blank(n)
           u == Magnitude(p)
           v == Magnitude(q)
           w == Suffix(p, 0 + 2)
           a == At(p, 0)
<1>1. /\ op' = "mul" /\ neg' = negative /\ x' = p /\ y' = q /\ i' = 0 /\ j' = 0 /\ carry' = 0
      /\ out' = s
  BY DEF Run
<1>2. Len(p) \in Nat /\ Len(q) \in Nat /\ n \in Nat
  OBVIOUS
<1>3. Len(s) = n /\ \A k \in 1 .. n : s[k] = 0
  BY <1>2 DEF Blank
<1>4. Suffix(s, 1) = 0
  <2>1. 1 \in Int /\ n \in Int
    BY <1>2
  <2> HIDE DEF s, n
  <2> QED
    BY <1>3, <2>1, BaseAssumption, HornerZero DEF Suffix
<1>5. u \in Nat /\ v \in Nat /\ w \in Nat /\ a \in Nat /\ u = a + Base * w
      /\ Suffix(q, 0 + 1) = v /\ Suffix(q, 1) = v /\ Base \in Nat
  BY FirstSuffix, BaseAssumption
<1>6. Left' = Horner(Base, s, 1, 0, a * v) + Base * (w * v)
  <2>1. 0 + 0 = 0 /\ 0 + 1 = 1 /\ 0 + 0 + 1 = 1
    OBVIOUS
  <2> HIDE DEF s, v
  <2>2. Left' = Horner(Base, s, 0 + 1, 0 + 0, Suffix(s, 0 + 0 + 1) + 0 + a * v) + Base * (w * v)
    BY <1>1, <1>5 DEF Left
  <2>3. a * v \in Nat
    BY <1>5
  <2>4. Suffix(s, 0 + 0 + 1) + 0 + a * v = a * v
    BY <1>4, <2>1, <2>3
  <2> QED
    BY <2>1, <2>2, <2>4
<1> HIDE DEF s, u, v, w, a
<1>7. Horner(Base, s, 1, 0, a * v) = a * v /\ a * v \in Nat
  <2>1. a * v \in Nat
    BY <1>5
  <2> QED
    BY <2>1, NothingMade
<1>8. a * v + Base * (w * v) = u * v /\ u * v \in Int
  BY <1>5
<1>9. Left' = u * v /\ Left' \in Int
  BY <1>6, <1>7, <1>8
<1>10. Horner(Base, out', 1, 0, Left') = Left'
  BY <1>9, NothingMade
<1>11. \A k \in 0 + Len(q) + 1 .. Len(s) : s[k] = 0
  BY <1>2, <1>3
<1>12. 0 = Len(p) => 0 = 0 /\ 0 = 0
  OBVIOUS
<1> QED
  BY <1>1, <1>9, <1>10, <1>11 DEF Valued, u, v

LEMMA AnswerRight ==
  ASSUME NEW a, Answer(a), IntOf(a) = wanted'
  PROVE  Valued' /\ Exact'
<1>1. op' = "answered" /\ result' = a
  BY DEF Answer
<1> QED
  BY <1>1 DEF Valued, Exact

LEMMA AddRight ==
  ASSUME NEW a, NEW b, IsNumber(a), IsNumber(b), AddNumbers(a, b),
         wanted' = IntOf(a) + IntOf(b)
  PROVE  Valued' /\ Exact'
<1> DEFINE p == Magnitude(a.limbs)
           q == Magnitude(b.limbs)
           c == CmpAbs(a.limbs, b.limbs)
<1>1. /\ p \in Nat /\ IntOf(a) = Signed(a.negative, p)
      /\ q \in Nat /\ IntOf(b) = Signed(b.negative, q)
  BY MagnitudeOf
<1>2. /\ a.negative \in BOOLEAN /\ b.negative \in BOOLEAN /\ (~a.negative) \in BOOLEAN
      /\ a.limbs \in Seq(Limb) /\ b.limbs \in Seq(Limb)
      /\ Trimmed(a.limbs) /\ Trimmed(b.limbs)
  BY DEF IsNumber
<1>3. CASE a.negative = b.negative
  <2>1. Run("add", a.negative, a.limbs, b.limbs, Longest(a.limbs, b.limbs) + 1)
    BY <1>3 DEF AddNumbers
  <2>2. wanted' = Signed(a.negative, p + q)
    BY <1>1, <1>3 DEF Signed
  <2>3. Valued'
    BY <1>2, <2>1, <2>2, StartAdd
  <2> QED
    BY <2>1, <2>3 DEF Run, Exact
<1>4. CASE a.negative # b.negative
  <2>1. \/ c = 0 /\ p = q
        \/ c = 1 /\ p > q /\ Len(b.limbs) <= Len(a.limbs)
        \/ c = -1 /\ q > p /\ Len(a.limbs) <= Len(b.limbs)
    BY <1>2, CmpAbsRight
  <2>2. CASE c = 0 /\ p = q
    <3>1. Answer(Zero)
      BY <1>4, <2>2 DEF AddNumbers
    <3>2. wanted' = 0
      <4> HIDE DEF p, q, c
      <4> QED
        BY <1>1, <1>2, <1>4, <2>2 DEF Signed
    <3> QED
      BY <3>1, <3>2, SmallNumbers, AnswerRight
  <2>3. CASE c = 1 /\ p > q /\ Len(b.limbs) <= Len(a.limbs)
    <3>1. Run("sub", a.negative, a.limbs, b.limbs, Len(a.limbs))
      BY <1>4, <2>3 DEF AddNumbers
    <3>2. wanted' = Signed(a.negative, p - q)
      <4> HIDE DEF p, q, c
      <4> QED
        BY <1>1, <1>2, <1>4 DEF Signed
    <3>3. Valued'
      BY <1>2, <2>3, <3>1, <3>2, StartSub
    <3> QED
      BY <3>1, <3>3 DEF Run, Exact
  <2>4. CASE c = -1 /\ q > p /\ Len(a.limbs) <= Len(b.limbs)
    <3>1. Run("sub", ~a.negative, b.limbs, a.limbs, Len(b.limbs))
      BY <1>4, <2>4 DEF AddNumbers
    <3>2. wanted' = Signed(~a.negative, q - p)
      <4> HIDE DEF p, q, c
      <4> QED
        BY <1>1, <1>2, <1>4 DEF Signed
    <3>3. Valued'
      BY <1>2, <2>4, <3>1, <3>2, StartSub
    <3> QED
      BY <3>1, <3>3 DEF Run, Exact
  <2> QED
    BY <2>1, <2>2, <2>3, <2>4
<1> QED
  BY <1>3, <1>4

\* Every call begins with what it should answer in its loop.
LEMMA BeginRight ==
  ASSUME NEW a \in Numbers, NEW b \in Numbers,
         BeginAdd(a, b) \/ BeginSub(a, b) \/ BeginMul(a, b) \/ Int63Sum(a, b)
           \/ BeginSucc(a) \/ ThroughNat(a) \/ ThroughInt63(a)
  PROVE  Valued' /\ Exact'
<1> DEFINE p == Magnitude(a.limbs)
           q == Magnitude(b.limbs)
           l == Magnitude(Low)
           h == Magnitude(High)
<1>1. IsNumber(a) /\ IsNumber(b)
  BY NumberIs
<1>2. /\ p \in Nat /\ IntOf(a) = Signed(a.negative, p) /\ IntOf(a) \in Int
      /\ (a.negative => p > 0)
      /\ q \in Nat /\ IntOf(b) = Signed(b.negative, q) /\ IntOf(b) \in Int
  BY <1>1, MagnitudeOf
<1>3. /\ a.negative \in BOOLEAN /\ b.negative \in BOOLEAN
      /\ a.limbs \in Seq(Limb) /\ b.limbs \in Seq(Limb)
  BY <1>1 DEF IsNumber
<1>4. Low \in Seq(Limb) /\ High \in Seq(Limb) /\ l = h + 1 /\ l \in Nat /\ h \in Nat
  <2>1. Low \in Seq(Limb) /\ High \in Seq(Limb) /\ l = h + 1
    BY BoundsAssumption, Int63Assumption DEF Limb
  <2> QED
    BY <2>1, MagnitudeIs
<1>5. IntOf(Zero) = 0
  BY SmallNumbers
<1>6. CASE BeginAdd(a, b)
  BY <1>1, <1>6, AddRight DEF BeginAdd
<1>7. CASE BeginSub(a, b)
  <2>1. Compare(a, b) = 1 <=> IntOf(a) > IntOf(b)
    BY <1>1, CompareRight
  <2>2. CASE Compare(a, b) = 1
    <3>1. IsNumber(Negate(b)) /\ IntOf(Negate(b)) = -IntOf(b)
      BY <1>1, NegateRight
    <3>2. AddNumbers(a, Negate(b)) /\ wanted' = IntOf(a) - IntOf(b)
      BY <1>7, <2>1, <2>2 DEF BeginSub
    <3>3. wanted' = IntOf(a) + IntOf(Negate(b))
      BY <1>2, <3>1, <3>2
    <3> QED
      BY <1>1, <3>1, <3>2, <3>3, AddRight
  <2>3. CASE Compare(a, b) # 1
    <3>1. Answer(Zero) /\ wanted' = 0
      BY <1>7, <2>1, <2>3 DEF BeginSub
    <3> QED
      BY <1>5, <3>1, AnswerRight
  <2> QED
    BY <2>2, <2>3
<1>8. CASE BeginMul(a, b)
  <2> DEFINE negative == (a.negative # b.negative)
  <2>1. Run("mul", negative, a.limbs, b.limbs, Len(a.limbs) + Len(b.limbs))
        /\ wanted' = IntOf(a) * IntOf(b)
    BY <1>8 DEF BeginMul
  <2>2. wanted' = Signed(negative, p * q)
    <3> HIDE DEF p, q
    <3>1. p * q \in Int /\ (-p) * q = -(p * q) /\ p * (-q) = -(p * q) /\ (-p) * (-q) = p * q
      BY <1>2
    <3>2. wanted' = Signed(a.negative, p) * Signed(b.negative, q)
      BY <1>2, <2>1
    <3>3. CASE a.negative
      <4>1. CASE b.negative
        <5>1. ~negative
          BY <1>3, <3>3, <4>1
        <5> HIDE DEF negative
        <5> QED
          BY <3>1, <3>2, <3>3, <4>1, <5>1 DEF Signed
      <4>2. CASE ~b.negative
        <5>1. negative
          BY <1>3, <3>3, <4>2
        <5> HIDE DEF negative
        <5> QED
          BY <3>1, <3>2, <3>3, <4>2, <5>1 DEF Signed
      <4> QED
        BY <4>1, <4>2
    <3>4. CASE ~a.negative
      <4>1. CASE b.negative
        <5>1. negative
          BY <1>3, <3>4, <4>1
        <5> HIDE DEF negative
        <5> QED
          BY <3>1, <3>2, <3>4, <4>1, <5>1 DEF Signed
      <4>2. CASE ~b.negative
        <5>1. ~negative
          BY <1>3, <3>4, <4>2
        <5> HIDE DEF negative
        <5> QED
          BY <3>1, <3>2, <3>4, <4>2, <5>1 DEF Signed
      <4> QED
        BY <4>1, <4>2
    <3> QED
      BY <3>3, <3>4
  <2>3. negative \in BOOLEAN
    OBVIOUS
  <2>4. op' = "mul"
    BY <2>1 DEF Run
  <2> HIDE DEF negative
  <2>5. Valued'
    BY <1>3, <2>1, <2>2, <2>3, StartMul
  <2> QED
    BY <2>4, <2>5 DEF Exact
<1>9. CASE Int63Sum(a, b)
  <2>1. IntOf(a) \in Int63Range /\ IntOf(b) \in Int63Range
    BY <1>1, <1>9, IsInt63Right DEF Int63Sum
  <2>2. PICK raw \in {IntOf(a) + IntOf(b), IntOf(a) - IntOf(b)} :
          /\ Answer(OfInt(WrapSum(raw)))
          /\ wanted' = ((raw + l) % (2 * l)) - l
    BY <1>9 DEF Int63Sum
  <2>3. raw \in Int /\ -2 * l <= raw /\ raw < 2 * l
    <3>1. IntOf(a) \in -l .. h /\ IntOf(b) \in -l .. h
      BY <2>1 DEF Int63Range
    <3> HIDE DEF l, h
    <3> QED
      BY <1>4, <2>2, <3>1
  <2>4. WrapSum(raw) = wanted' /\ WrapSum(raw) \in Int
    BY <2>2, <2>3, WrapRight
  <2>5. IntOf(OfInt(WrapSum(raw))) = wanted'
    BY <2>4, OfIntRight
  <2> QED
    BY <2>2, <2>5, AnswerRight
<1>10. CASE BeginSucc(a)
  <2> DEFINE top == Make(FALSE, High)
  <2>1. IsNumber(top) /\ IntOf(top) = h
    BY <1>4, MakeRight DEF Signed
  <2>2. IntOf(Make(TRUE, Low)) = -l
    BY <1>4, MakeRight DEF Signed
  <2>3. Compare(a, top) = 0 <=> IntOf(a) = h
    <3> HIDE DEF top
    <3> QED
      BY <1>1, <2>1, CompareRight
  <2>4. CASE Compare(a, top) = 0
    <3>1. Answer(Make(TRUE, Low)) /\ wanted' = -l
      BY <1>10, <2>3, <2>4 DEF BeginSucc
    <3> QED
      BY <2>2, <3>1, AnswerRight
  <2>5. CASE Compare(a, top) # 0
    <3>1. AddNumbers(a, One) /\ wanted' = IntOf(a) + 1
      BY <1>10, <2>3, <2>5 DEF BeginSucc
    <3> QED
      BY <1>1, <3>1, SmallNumbers, AddRight
  <2> QED
    BY <2>4, <2>5
<1>11. CASE ThroughNat(a)
  <2> DEFINE m == Suffix(a.limbs, 2)
             d == At(a.limbs, 0)
  <2>1. IF a.negative \/ m > NatMax THEN ToNat(a) = -1 ELSE ToNat(a) = p
    BY <1>1, ToNatRight
  <2>2. /\ Answer(IF ToNat(a) = -1 THEN Zero ELSE OfInt(ToNat(a)))
        /\ wanted' = IF IntOf(a) \in 0 .. (NatMax + 1) * Base - 1 THEN IntOf(a) ELSE 0
    BY <1>11 DEF ThroughNat
  <2>3. p = d + Base * m /\ m \in Nat /\ d \in Limb
    <3>1. 0 + 2 = 2 /\ 0 \in Nat
      OBVIOUS
    <3> QED
      BY <1>3, <3>1, FirstSuffix, AtLimb
  <2> HIDE DEF m, d, p
  <2>4. Base \in Nat /\ Base >= 2 /\ NatMax \in Nat /\ d \in Nat /\ d < Base
    BY <2>3, BaseAssumption, BoundsAssumption DEF Limb
  <2>5. m > NatMax => p >= (NatMax + 1) * Base
    <3> SUFFICES ASSUME m >= NatMax + 1 PROVE p >= (NatMax + 1) * Base
      BY <2>3, <2>4
    <3>1. Base * m >= Base * (NatMax + 1) /\ Base * m \in Nat /\ Base * (NatMax + 1) \in Nat
      BY <2>3, <2>4
    <3>2. Base * (NatMax + 1) = (NatMax + 1) * Base
      BY <2>4
    <3> QED
      BY <2>3, <2>4, <3>1, <3>2
  <2>6. ~(m > NatMax) => p <= (NatMax + 1) * Base - 1
    <3> SUFFICES ASSUME m <= NatMax PROVE p <= (NatMax + 1) * Base - 1
      BY <2>3, <2>4
    <3>1. Base * m <= Base * NatMax /\ Base * m \in Nat /\ Base * NatMax \in Nat
      BY <2>3, <2>4
    <3>2. (NatMax + 1) * Base = Base * NatMax + Base
      BY <2>4
    <3> QED
      BY <2>3, <2>4, <3>1, <3>2
  <2> DEFINE bound == (NatMax + 1) * Base
  <2>7. bound \in Nat
    BY <2>4
  <2>8. CASE a.negative \/ m > NatMax
    <3>1. Answer(Zero)
      BY <2>1, <2>2, <2>8
    <3>2. ~(IntOf(a) \in 0 .. bound - 1)
      <4> HIDE DEF bound
      <4>1. CASE a.negative
        BY <1>2, <2>7, <4>1 DEF Signed
      <4>2. CASE ~a.negative /\ m > NatMax
        <5>1. p >= bound
          BY <2>5, <4>2 DEF bound
        <5> QED
          BY <1>2, <2>7, <4>2, <5>1 DEF Signed
      <4> QED
        BY <2>8, <4>1, <4>2
    <3>3. wanted' = 0
      BY <2>2, <3>2
    <3> QED
      BY <1>5, <3>1, <3>3, AnswerRight
  <2>9. CASE ~(a.negative \/ m > NatMax)
    <3>1. Answer(OfInt(p))
      BY <1>2, <2>1, <2>2, <2>9
    <3>2. IntOf(a) = p /\ IntOf(a) \in 0 .. bound - 1
      <4>1. IntOf(a) = p
        BY <1>2, <2>9 DEF Signed
      <4> QED
        BY <1>2, <2>6, <2>7, <2>9, <4>1
    <3>3. wanted' = p
      BY <2>2, <3>2
    <3>4. IntOf(OfInt(p)) = p
      BY <1>2, OfIntRight
    <3> QED
      BY <3>1, <3>3, <3>4, AnswerRight
  <2> QED
    BY <2>8, <2>9
<1>12. CASE ThroughInt63(a)
  <2>1. IsInt63(a) <=> IntOf(a) \in Int63Range
    BY <1>1, IsInt63Right
  <2>2. /\ Answer(IF IsInt63(a) THEN OfInt(IntOf(a)) ELSE Zero)
        /\ wanted' = IF IntOf(a) \in Int63Range THEN IntOf(a) ELSE 0
    BY <1>12 DEF ThroughInt63
  <2>3. CASE IntOf(a) \in Int63Range
    <3>1. Answer(OfInt(IntOf(a))) /\ wanted' = IntOf(a)
      BY <2>1, <2>2, <2>3
    <3> QED
      BY <1>2, <3>1, OfIntRight, AnswerRight
  <2>4. CASE ~(IntOf(a) \in Int63Range)
    <3>1. Answer(Zero) /\ wanted' = 0
      BY <2>1, <2>2, <2>4
    <3> QED
      BY <1>5, <3>1, AnswerRight
  <2> QED
    BY <2>3, <2>4
<1> QED
  BY <1>6, <1>7, <1>8, <1>9, <1>10, <1>11, <1>12

Put(s, k, d) == [s EXCEPT ![k + 1] = d]

\* A digit that is split off what is left goes on top of the limbs made.
LEMMA Advance ==
  ASSUME NEW s \in Seq(Limb), NEW k \in Nat, k < Len(s), NEW d \in Limb, NEW z \in Int,
         NEW a \in Int, 1 <= a, a <= k + 1, NEW t, t = Put(s, k, d)
  PROVE  /\ t \in Seq(Limb) /\ Len(t) = Len(s) /\ t[k + 1] = d
         /\ \A m \in 1 .. Len(s) : m # k + 1 => t[m] = s[m]
         /\ Horner(Base, s, a, k, d + Base * z) = Horner(Base, t, a, k + 1, z)
<1>1. t \in Seq(Limb) /\ Len(t) = Len(s)
  BY PutLimb DEF Put
<1>2. k + 1 \in 1 .. Len(s) /\ DOMAIN s = 1 .. Len(s) /\ Len(s) \in Nat
  OBVIOUS
<1>3. t[k + 1] = d /\ \A m \in 1 .. Len(s) : m # k + 1 => t[m] = s[m]
  BY <1>2 DEF Put
<1>4. /\ k \in Int /\ k + 1 \in Int /\ a <= k + 1 /\ k + 1 <= Len(t) /\ k <= Len(s) /\ a >= 1
  BY <1>1, <1>2
<1>5. Integral(t, a, k + 1) /\ Integral(s, a, k)
  BY <1>1, <1>4, LimbsIntegral
<1>6. d + Base * z \in Int
  BY BaseAssumption DEF Limb
<1>7. Horner(Base, t, a, k + 1, z) = Horner(Base, t, a, k, d + Base * z)
  BY <1>3, <1>4, <1>5, BaseAssumption, HornerLast
<1>8. \A m \in a .. k : s[m] = t[m]
  <2> SUFFICES ASSUME NEW m \in a .. k PROVE s[m] = t[m]
    OBVIOUS
  <2>1. m \in 1 .. Len(s) /\ m # k + 1
    BY <1>2
  <2> QED
    BY <1>3, <2>1
<1>9. Horner(Base, s, a, k, d + Base * z) = Horner(Base, t, a, k, d + Base * z)
  BY <1>4, <1>5, <1>6, <1>8, BaseAssumption, HornerSame
<1> QED
  BY <1>1, <1>3, <1>7, <1>9

\* The same for a row, which starts at a cell of its own.
LEMMA AdvanceRow ==
  ASSUME NEW s \in Seq(Limb), NEW k \in Nat, k < Len(s), NEW d \in Limb, NEW z \in Int,
         NEW n \in Nat, n <= k, NEW t, t = Put(s, k, d)
  PROVE  /\ t \in Seq(Limb) /\ Len(t) = Len(s) /\ t[k + 1] = d
         /\ \A m \in 1 .. Len(s) : m # k + 1 => t[m] = s[m]
         /\ Horner(Base, s, n + 1, k, d + Base * z) = Horner(Base, t, n + 1, k + 1, z)
<1> DEFINE from == n + 1
<1>1. from \in Int /\ 1 <= from /\ from <= k + 1
  OBVIOUS
<1> HIDE DEF from
<1>2. /\ t \in Seq(Limb) /\ Len(t) = Len(s) /\ t[k + 1] = d
      /\ \A m \in 1 .. Len(s) : m # k + 1 => t[m] = s[m]
      /\ Horner(Base, s, from, k, d + Base * z) = Horner(Base, t, from, k + 1, z)
  BY <1>1, Advance
<1> QED
  BY <1>2 DEF from

\* A number is its low digit and the rest.
LEMMA Splits ==
  ASSUME NEW n \in 0 .. Base * Base - 1
  PROVE  n = (U32(n) % Base) + Base * (U32(n) \div Base)
<1>1. Base \in Nat /\ Base >= 2 /\ Base * Base \in Nat
  BY BaseAssumption
<1>2. U32(n) = n
  BY TwoDigits
<1>3. n \in Nat
  BY <1>1
<1>4. n = Base * (n \div Base) + (n % Base) /\ n \div Base \in Int /\ n % Base \in Int
  BY <1>1, <1>3
<1>5. Base * (n \div Base) \in Int
  BY <1>1, <1>4
<1> QED
  BY <1>2, <1>4, <1>5

LEMMA AddStepRight ==
  ASSUME Inv, Valued, AddStep
  PROVE  Valued'
<1>1. /\ op = "add" /\ i \in Nat /\ x \in Seq(Limb) /\ y \in Seq(Limb) /\ out \in Seq(Limb)
      /\ carry \in Limb /\ i < Len(out)
  BY DEF AddStep, Inv, TypeOK, Shape
<1> DEFINE d == U32(Sum) % Base
           c == U32(Sum) \div Base
           u == Suffix(x, i + 2)
           v == Suffix(y, i + 2)
           z == u + v + c
           t == [out EXCEPT ![i + 1] = d]
<1>2. Sum \in 0 .. Base * Base - 1 /\ d \in Limb /\ c \in Limb /\ Sum = d + Base * c
  BY <1>1, SumFits, TwoDigits, Splits
<1>3. /\ op' = "add" /\ x' = x /\ y' = y /\ neg' = neg /\ wanted' = wanted
      /\ out' = t /\ carry' = c /\ i' = i + 1
  BY DEF AddStep, Going
<1> HIDE DEF d, c
<1>4. /\ Suffix(x, i + 1) = At(x, i) + Base * u /\ u \in Nat
      /\ Suffix(y, i + 1) = At(y, i) + Base * v /\ v \in Nat
      /\ At(x, i) \in Limb /\ At(y, i) \in Limb
  BY <1>1, SuffixStep, AtLimb
<1> HIDE DEF u, v
<1>5. Base \in Nat /\ \A n \in Limb : n \in Nat
  BY BaseAssumption DEF Limb
<1>6. z \in Int
  BY <1>2, <1>4, <1>5
<1>7. Left = d + Base * z
  <2>1. Left = (At(x, i) + Base * u) + (At(y, i) + Base * v) + carry
    BY <1>1, <1>4 DEF Left
  <2>2. Sum = At(x, i) + At(y, i) + carry
    BY DEF Sum
  <2>3. Base * z = Base * u + Base * v + Base * c
    BY <1>2, <1>4, <1>5
  <2> DEFINE bu == Base * u
             bv == Base * v
             bc == Base * c
             bz == Base * z
  <2>4. bu \in Nat /\ bv \in Nat /\ bc \in Nat
    BY <1>2, <1>4, <1>5
  <2>5. At(x, i) \in Nat /\ At(y, i) \in Nat /\ carry \in Nat /\ d \in Nat
    BY <1>1, <1>2, <1>4, <1>5
  <2>6. Left = (At(x, i) + bu) + (At(y, i) + bv) + carry /\ bz = bu + bv + bc /\ Sum = d + bc
    BY <1>2, <2>1, <2>3
  <2> HIDE DEF bu, bv, bc, bz
  <2>7. Left = d + bz
    BY <2>2, <2>4, <2>5, <2>6
  <2> QED
    BY <2>7 DEF bz
<1>8. Left' = z
  <2>1. Left' = Suffix(x, i + 1 + 1) + Suffix(y, i + 1 + 1) + c
    BY <1>3 DEF Left
  <2>2. i + 1 + 1 = i + 2
    BY <1>1
  <2> QED
    BY <2>1, <2>2 DEF u, v
<1> HIDE DEF z
<1>9. Horner(Base, out, 1, i, d + Base * z) = Horner(Base, t, 1, i + 1, z)
  <2>1. 1 \in Int /\ 1 <= 1 /\ 1 <= i + 1
    BY <1>1
  <2>2. t = Put(out, i, d)
    BY DEF Put
  <2> HIDE DEF t
  <2> QED
    BY <1>1, <1>2, <1>6, <2>1, <2>2, Advance
<1>10. wanted = Signed(neg, Horner(Base, out, 1, i, Left))
  BY <1>1 DEF Valued
<1>11. wanted' = Signed(neg', Horner(Base, out', 1, i', Left'))
  <2> HIDE DEF t
  <2> QED
    BY <1>3, <1>7, <1>8, <1>9, <1>10
<1> QED
  BY <1>3, <1>11 DEF Valued

LEMMA AddDoneRight ==
  ASSUME Inv, Valued, AddDone
  PROVE  Valued' /\ Exact'
<1>1. /\ op = "add" /\ i \in Nat /\ x \in Seq(Limb) /\ y \in Seq(Limb) /\ out \in Seq(Limb)
      /\ carry \in Limb /\ i < Len(out) /\ neg \in BOOLEAN /\ Len(out) = Longest(x, y) + 1
      /\ i + 1 = Len(out)
  BY DEF AddDone, Inv, TypeOK, Shape
<1> DEFINE t == [out EXCEPT ![i + 1] = carry]
<1>2. Len(x) <= i /\ Len(y) <= i
  BY <1>1 DEF Longest
<1>3. Suffix(x, i + 1) = 0 /\ Suffix(y, i + 1) = 0
  BY <1>1, <1>2, SuffixStep
<1>4. Left = carry /\ carry + Base * 0 = carry
  <2>1. carry \in Nat /\ Base \in Nat
    BY <1>1, BaseAssumption DEF Limb
  <2> QED
    BY <1>1, <1>3, <2>1 DEF Left
<1>5. t \in Seq(Limb) /\ Len(t) = Len(out) /\ Horner(Base, out, 1, i, carry + Base * 0) = Horner(Base, t, 1, i + 1, 0)
  <2> DEFINE z == 0
  <2>1. 1 \in Int /\ 1 <= 1 /\ 1 <= i + 1 /\ z \in Int
    BY <1>1
  <2>2. t = Put(out, i, carry)
    BY DEF Put
  <2> HIDE DEF t, z
  <2>3. t \in Seq(Limb) /\ Len(t) = Len(out) /\ Horner(Base, out, 1, i, carry + Base * z) = Horner(Base, t, 1, i + 1, z)
    BY <1>1, <2>1, <2>2, Advance
  <2> QED
    BY <2>3 DEF z
<1>6. Answer(Make(neg, t)) /\ wanted' = wanted
  BY DEF AddDone
<1> HIDE DEF t
<1>7. Horner(Base, t, 1, i + 1, 0) = Magnitude(t)
  BY <1>1, <1>5, MagnitudeIs DEF Suffix
<1>8. wanted = Signed(neg, Magnitude(t))
  BY <1>1, <1>4, <1>5, <1>7 DEF Valued
<1>9. IntOf(Make(neg, t)) = wanted'
  BY <1>1, <1>5, <1>6, <1>8, MakeRight
<1> QED
  BY <1>6, <1>9, AnswerRight

LEMMA SubStepRight ==
  ASSUME Inv, Valued, SubStep
  PROVE  Valued'
<1>1. /\ op = "sub" /\ i \in Nat /\ x \in Seq(Limb) /\ y \in Seq(Limb) /\ out \in Seq(Limb)
      /\ carry \in {0, 1} /\ i < Len(out)
  BY DEF SubStep, Inv, TypeOK, Shape
<1> DEFINE d == U32(Difference) % Base
           c == IF At(x, i) < At(y, i) + carry THEN 1 ELSE 0
           u == Suffix(x, i + 2)
           v == Suffix(y, i + 2)
           z == u - v - c
           t == [out EXCEPT ![i + 1] = d]
<1>2. Difference \in 0 .. Base * Base - 1 /\ d \in Limb
  BY <1>1, DifferenceFits, TwoDigits
<1>3. /\ op' = "sub" /\ x' = x /\ y' = y /\ neg' = neg /\ wanted' = wanted
      /\ out' = t /\ carry' = c /\ i' = i + 1
  BY DEF SubStep, Going
<1>4. /\ Suffix(x, i + 1) = At(x, i) + Base * u /\ u \in Nat
      /\ Suffix(y, i + 1) = At(y, i) + Base * v /\ v \in Nat
      /\ At(x, i) \in Limb /\ At(y, i) \in Limb
  BY <1>1, SuffixStep, AtLimb
<1> HIDE DEF u, v
<1>5. Base \in Nat /\ Base >= 2 /\ \A n \in Limb : n \in Nat /\ n < Base
  BY BaseAssumption DEF Limb
\* The digit, and the base that was borrowed for it.
<1>6. c \in {0, 1}
  OBVIOUS
<1>7. At(x, i) - At(y, i) - carry = d - Base * c
  <2>1. Difference = d + Base * (U32(Difference) \div Base)
    BY <1>2, Splits
  <2> DEFINE e == U32(Difference) \div Base
  <2>2. e \in Limb /\ Difference = d + Base * e
    BY <1>2, <2>1, TwoDigits
  <2>3. Difference = Base + At(x, i) - At(y, i) - carry
    BY DEF Difference
  <2> HIDE DEF d, e
  <2>4. d \in Nat /\ d < Base /\ e \in Nat
    BY <1>2, <1>5, <2>2
  <2>5. At(x, i) \in Nat /\ At(x, i) < Base /\ At(y, i) \in Nat /\ At(y, i) < Base
    BY <1>4, <1>5
  <2>6. CASE At(x, i) < At(y, i) + carry
    <3>1. Difference < Base /\ c = 1
      BY <1>1, <1>5, <2>3, <2>5, <2>6
    <3>2. e = 0
      <4>1. e >= 1 => Base * e >= Base /\ Base * e \in Nat
        BY <1>5, <2>4
      <4> QED
        BY <1>5, <2>2, <2>4, <3>1, <4>1
    <3>3. Difference = d
      BY <1>5, <2>2, <2>4, <3>2
    <3>4. Base * c = Base
      BY <1>5, <3>1
    <3> DEFINE bc == Base * c
    <3>5. bc = Base * c
      OBVIOUS
    <3> HIDE DEF c, bc
    <3>6. At(x, i) - At(y, i) - carry = d - bc
      BY <1>1, <1>5, <2>3, <2>4, <2>5, <3>3, <3>4, <3>5
    <3> QED
      BY <3>6 DEF bc
  <2>7. CASE ~(At(x, i) < At(y, i) + carry)
    <3>1. Difference >= Base /\ Difference < 2 * Base /\ c = 0
      BY <1>1, <1>5, <2>3, <2>5, <2>7
    <3>2. e = 1
      <4>1. e >= 2 => Base * e >= 2 * Base /\ Base * e \in Nat
        BY <1>5, <2>4
      <4>2. e = 0 => Base * e = 0
        BY <1>5
      <4> QED
        BY <1>5, <2>2, <2>4, <3>1, <4>1, <4>2
    <3>3. Difference = d + Base
      BY <1>5, <2>2, <2>4, <3>2
    <3>4. Base * c = 0
      BY <1>5, <3>1
    <3> DEFINE bc == Base * c
    <3>5. bc = Base * c
      OBVIOUS
    <3> HIDE DEF c, bc
    <3>6. At(x, i) - At(y, i) - carry = d - bc
      BY <1>1, <1>5, <2>3, <2>4, <2>5, <3>3, <3>4, <3>5
    <3> QED
      BY <3>6 DEF bc
  <2> QED
    BY <2>6, <2>7
<1> HIDE DEF d, c
<1>8. z \in Int
  BY <1>4, <1>6
<1>9. Left = d + Base * z
  <2>1. Left = (At(x, i) + Base * u) - (At(y, i) + Base * v) - carry
    BY <1>1, <1>4 DEF Left
  <2>2. Base * z = Base * u - Base * v - Base * c
    BY <1>4, <1>5, <1>6
  <2> DEFINE bu == Base * u
             bv == Base * v
             bc == Base * c
             bz == Base * z
  <2>3. bu \in Nat /\ bv \in Nat /\ bc \in Nat
    BY <1>4, <1>5, <1>6
  <2>4. At(x, i) \in Nat /\ At(y, i) \in Nat /\ d \in Nat /\ carry \in Nat
    BY <1>1, <1>2, <1>4, <1>5
  <2>5. /\ Left = (At(x, i) + bu) - (At(y, i) + bv) - carry /\ bz = bu - bv - bc
        /\ At(x, i) - At(y, i) - carry = d - bc
    BY <1>7, <2>1, <2>2
  <2> HIDE DEF bu, bv, bc, bz
  <2>6. Left = d + bz
    BY <2>3, <2>4, <2>5
  <2> QED
    BY <2>6 DEF bz
<1>10. Left' = z
  <2>1. Left' = Suffix(x, i + 1 + 1) - Suffix(y, i + 1 + 1) - c
    BY <1>3 DEF Left
  <2>2. i + 1 + 1 = i + 2
    BY <1>1
  <2> QED
    BY <2>1, <2>2 DEF u, v
<1> HIDE DEF z
<1>11. Horner(Base, out, 1, i, d + Base * z) = Horner(Base, t, 1, i + 1, z)
  <2>1. 1 \in Int /\ 1 <= 1 /\ 1 <= i + 1
    BY <1>1
  <2>2. t = Put(out, i, d)
    BY DEF Put
  <2> HIDE DEF t
  <2> QED
    BY <1>1, <1>2, <1>8, <2>1, <2>2, Advance
<1>12. /\ wanted = Signed(neg, Horner(Base, out, 1, i, Left)) /\ Len(y) <= Len(x)
       /\ Horner(Base, out, 1, i, Left) >= 0
  BY <1>1 DEF Valued
<1>13. Horner(Base, out, 1, i, Left) = Horner(Base, out', 1, i', Left')
  <2> HIDE DEF t
  <2> QED
    BY <1>3, <1>9, <1>10, <1>11
<1> QED
  BY <1>3, <1>12, <1>13 DEF Valued

LEMMA SubDoneRight ==
  ASSUME Inv, Valued, SubDone
  PROVE  Valued' /\ Exact'
<1>1. /\ op = "sub" /\ i \in Nat /\ x \in Seq(Limb) /\ y \in Seq(Limb) /\ out \in Seq(Limb)
      /\ carry \in {0, 1} /\ i = Len(out) /\ neg \in BOOLEAN /\ Len(out) = Len(x)
  BY DEF SubDone, Inv, TypeOK, Shape
<1>2. /\ wanted = Signed(neg, Horner(Base, out, 1, i, Left)) /\ Len(y) <= Len(x)
      /\ Horner(Base, out, 1, i, Left) >= 0
  BY <1>1 DEF Valued
<1>3. Suffix(x, i + 1) = 0 /\ Suffix(y, i + 1) = 0
  <2>1. i >= Len(x) /\ i >= Len(y)
    BY <1>1, <1>2
  <2> QED
    BY <1>1, <2>1, SuffixStep
<1>4. Left = 0 - carry
  BY <1>1, <1>3 DEF Left
\* A borrow that is left over would make the difference negative.
<1>5. carry = 0
  <2> SUFFICES ASSUME carry = 1 PROVE FALSE
    BY <1>1
  <2>1. Left = -1
    BY <1>4
  <2>2. Digits(Base, out, 1, i)
    <3>1. \A k \in 1 .. i : out[k] \in Limb
      BY <1>1
    <3> QED
      BY <3>1 DEF Digits, Limb
  <2>3. Horner(Base, out, 1, i, -1) < 0 /\ Horner(Base, out, 1, i, -1) \in Int
    <3>1. 1 \in Int /\ i \in Int /\ -1 \in Int /\ -1 < 0
      BY <1>1
    <3> DEFINE z == -1
    <3>2. z \in Int /\ z < 0
      OBVIOUS
    <3> HIDE DEF z
    <3>3. Horner(Base, out, 1, i, z) < 0 /\ Horner(Base, out, 1, i, z) \in Int
      BY <2>2, <3>1, <3>2, BaseAssumption, HornerSign
    <3> QED
      BY <3>3 DEF z
  <2> QED
    BY <1>2, <2>1, <2>3
<1>6. Left = 0
  BY <1>4, <1>5
<1>7. Horner(Base, out, 1, i, Left) = Magnitude(out)
  BY <1>1, <1>6, MagnitudeIs DEF Suffix
<1>8. Answer(Make(neg, out)) /\ wanted' = wanted
  BY DEF SubDone
<1>9. IntOf(Make(neg, out)) = wanted'
  BY <1>1, <1>2, <1>7, <1>8, MakeRight
<1> QED
  BY <1>8, <1>9, AnswerRight

LEMMA MulStepRight ==
  ASSUME Inv, Valued, MulStep
  PROVE  Valued'
<1>1. /\ op = "mul" /\ i \in Nat /\ j \in Nat /\ x \in Seq(Limb) /\ y \in Seq(Limb)
      /\ out \in Seq(Limb) /\ carry \in Limb /\ i < Len(x) /\ j < Len(y)
      /\ Len(out) = Len(x) + Len(y) /\ Len(x) \in Nat /\ Len(y) \in Nat
  BY LenProperties DEF MulStep, Inv, TypeOK, Shape
<1> DEFINE d == U32(Product) % Base
           c == U32(Product) \div Base
           k == i + j
           a == At(x, i)
           u == Suffix(out, k + 2)
           v == Suffix(y, j + 2)
           z == u + c + a * v
           t == [out EXCEPT ![i + j + 1] = d]
           above == Base * (Suffix(x, i + 2) * Suffix(y, 1))
<1>2. Product \in 0 .. Base * Base - 1 /\ d \in Limb /\ c \in Limb /\ Product = d + Base * c
  BY <1>1, ProductOfLimbs, TwoDigits, Splits
<1>3. /\ op' = "mul" /\ x' = x /\ y' = y /\ neg' = neg /\ wanted' = wanted
      /\ out' = t /\ carry' = c /\ i' = i /\ j' = j + 1
  BY DEF MulStep, Going
<1> HIDE DEF d, c
<1>4. k \in Nat /\ k < Len(out) /\ k + 1 = i + j + 1 /\ i + 1 \in Int /\ 1 <= i + 1 /\ i + 1 <= k + 1
  BY <1>1
<1>5. /\ Suffix(out, k + 1) = At(out, k) + Base * u /\ u \in Nat
      /\ Suffix(y, j + 1) = At(y, j) + Base * v /\ v \in Nat
      /\ a \in Limb /\ At(y, j) \in Limb /\ At(out, k) \in Limb
  BY <1>1, <1>4, SuffixStep, AtLimb
<1>6. Base \in Nat /\ \A n \in Limb : n \in Nat
  BY BaseAssumption DEF Limb
<1>7. Product = At(out, k) + a * At(y, j) + carry
  <2>1. a = x[i + 1] /\ At(y, j) = y[j + 1] /\ At(out, k) = out[i + j + 1]
    BY <1>1, <1>4 DEF At
  <2> HIDE DEF a, k
  <2> QED
    BY <2>1 DEF Product
<1>8. t = Put(out, k, d)
  BY <1>4 DEF Put
<1> HIDE DEF u, v, a, t
<1>9. z \in Int
  <2>1. a * v \in Nat
    BY <1>5, <1>6
  <2> QED
    BY <1>2, <1>5, <1>6, <2>1
<1>10. Suffix(out, k + 1) + carry + a * Suffix(y, j + 1) = d + Base * z
  <2> DEFINE b == At(y, j)
             av == a * v
             ab == a * b
             e == At(out, k)
  <2>1. a \in Nat /\ b \in Nat /\ e \in Nat /\ carry \in Nat /\ d \in Nat /\ c \in Nat
    BY <1>1, <1>2, <1>5, <1>6
  <2>2. Suffix(out, k + 1) = e + Base * u /\ Suffix(y, j + 1) = b + Base * v
        /\ e + ab + carry = d + Base * c /\ u \in Nat /\ v \in Nat
    BY <1>2, <1>5, <1>7
  <2> HIDE DEF b, e
  <2>3. a * Suffix(y, j + 1) = ab + Base * av /\ av \in Nat /\ ab \in Nat
    <3>1. a * (b + Base * v) = a * b + Base * (a * v) /\ a * v \in Nat /\ a * b \in Nat
      BY <1>6, <2>1, <2>2
    <3> QED
      BY <2>2, <3>1
  <2> HIDE DEF av, ab
  <2>4. Base * z = Base * u + Base * c + Base * av
    <3>1. z = u + c + av
      BY DEF av
    <3> HIDE DEF z
    <3> QED
      BY <1>6, <2>1, <2>2, <2>3, <3>1
  <2> DEFINE bu == Base * u
             bc == Base * c
             bav == Base * av
             bz == Base * z
  <2>5. bu \in Nat /\ bc \in Nat /\ bav \in Nat
    BY <1>6, <2>1, <2>2, <2>3
  <2>6. /\ Suffix(out, k + 1) = e + bu /\ a * Suffix(y, j + 1) = ab + bav
        /\ e + ab + carry = d + bc /\ bz = bu + bc + bav
    BY <2>2, <2>3, <2>4
  <2> HIDE DEF bu, bc, bav, bz
  <2>7. Suffix(out, k + 1) + carry + a * Suffix(y, j + 1) = d + bz
    BY <2>1, <2>3, <2>5, <2>6
  <2> QED
    BY <2>7 DEF bz
<1>11. /\ t \in Seq(Limb) /\ Len(t) = Len(out)
       /\ \A m \in 1 .. Len(out) : m # k + 1 => t[m] = out[m]
       /\ Horner(Base, out, i + 1, k, d + Base * z) = Horner(Base, t, i + 1, k + 1, z)
  <2>1. /\ out \in Seq(Limb) /\ k \in Nat /\ k < Len(out) /\ d \in Limb /\ z \in Int
        /\ i \in Nat /\ i <= k /\ t = Put(out, k, d)
    BY <1>1, <1>2, <1>4, <1>8, <1>9
  <2> HIDE DEF z, k
  <2> QED
    BY <2>1, AdvanceRow
<1>12. Suffix(t, k + 2) = u
  <2>1. /\ k + 2 \in Int /\ Len(out) \in Int /\ k + 2 >= 1 /\ Len(out) <= Len(out) /\ 0 \in Int
    BY <1>1, <1>4
  <2>2. Integral(out, k + 2, Len(out))
    BY <1>1, <2>1, LimbsIntegral
  <2>3. \A m \in k + 2 .. Len(out) : out[m] = t[m]
    <3> SUFFICES ASSUME NEW m \in k + 2 .. Len(out) PROVE out[m] = t[m]
      OBVIOUS
    <3>1. m \in 1 .. Len(out) /\ m # k + 1
      BY <1>1, <1>4
    <3> QED
      BY <1>11, <3>1
  <2> HIDE DEF k
  <2>4. Horner(Base, out, k + 2, Len(out), 0) = Horner(Base, t, k + 2, Len(out), 0)
    BY <2>1, <2>2, <2>3, BaseAssumption, HornerSame
  <2> QED
    BY <1>11, <2>4 DEF Suffix, u
<1>13. Left' = Horner(Base, t, i + 1, k + 1, z) + above
  <2>1. Left' = Horner(Base, t, i + 1, i + (j + 1), Suffix(t, i + (j + 1) + 1) + c + At(x, i) * Suffix(y, j + 1 + 1))
                  + Base * (Suffix(x, i + 2) * Suffix(y, 1))
    BY <1>3 DEF Left
  <2>2. i + (j + 1) = k + 1 /\ i + (j + 1) + 1 = k + 2 /\ j + 1 + 1 = j + 2
    BY <1>1
  <2>3. Left' = Horner(Base, t, i + 1, k + 1, Suffix(t, k + 2) + c + At(x, i) * Suffix(y, j + 2)) + above
    BY <2>1, <2>2
  <2> QED
    BY <1>12, <2>3 DEF v, a
<1>14. Left = Horner(Base, out, i + 1, k, d + Base * z) + above
  <2>1. Left = Horner(Base, out, i + 1, k, Suffix(out, i + j + 1) + carry + At(x, i) * Suffix(y, j + 1)) + above
    BY <1>1 DEF Left
  <2>2. Suffix(out, i + j + 1) = Suffix(out, k + 1)
    BY <1>4
  <2>3. Suffix(out, i + j + 1) + carry + At(x, i) * Suffix(y, j + 1) = d + Base * z
    BY <1>10, <2>2 DEF a
  <2> HIDE DEF k, z, above
  <2> QED
    BY <2>1, <2>3
<1>15. Left' = Left /\ Left \in Int
  <2>1. Left' = Left
    BY <1>11, <1>13, <1>14
  <2>2. Horner(Base, t, i + 1, k + 1, z) \in Int
    <3>1. i + 1 \in Int /\ k + 1 \in Int /\ i + 1 >= 1 /\ k + 1 <= Len(t)
      BY <1>1, <1>4, <1>11
    <3>2. Integral(t, i + 1, k + 1)
      BY <1>11, <3>1, LimbsIntegral
    <3> HIDE DEF k, z
    <3> QED
      BY <1>9, <3>1, <3>2, BaseAssumption, HornerStep
  <2>3. above \in Int
    <3>1. Suffix(x, i + 2) \in Nat /\ Suffix(y, 1) \in Nat
      BY <1>1, SuffixStep, FirstSuffix
    <3>2. Suffix(x, i + 2) * Suffix(y, 1) \in Nat
      BY <3>1
    <3> QED
      BY <1>6, <3>2
  <2> HIDE DEF above
  <2> QED
    BY <1>13, <2>1, <2>2, <2>3
<1> HIDE DEF above, z
<1>16. Horner(Base, out, 1, i, Left) = Horner(Base, t, 1, i, Left)
  <2>1. 1 \in Int /\ i \in Int /\ 1 >= 1 /\ i <= Len(out)
    BY <1>1
  <2>2. Integral(out, 1, i)
    BY <1>1, <2>1, LimbsIntegral
  <2>3. \A m \in 1 .. i : out[m] = t[m]
    <3> SUFFICES ASSUME NEW m \in 1 .. i PROVE out[m] = t[m]
      OBVIOUS
    <3>1. m \in 1 .. Len(out) /\ m # k + 1
      BY <1>1
    <3> QED
      BY <1>11, <3>1
  <2> QED
    BY <1>15, <2>1, <2>2, <2>3, BaseAssumption, HornerSame
<1>17. /\ wanted = Signed(neg, Horner(Base, out, 1, i, Left))
       /\ \A m \in i + Len(y) + 1 .. Len(out) : out[m] = 0
  BY <1>1 DEF Valued
<1>18. wanted' = Signed(neg', Horner(Base, out', 1, i', Left'))
  BY <1>3, <1>15, <1>16, <1>17
<1>19. \A m \in i' + Len(y') + 1 .. Len(out') : out'[m] = 0
  <2> SUFFICES ASSUME NEW m \in i + Len(y) + 1 .. Len(out) PROVE t[m] = 0
    BY <1>3, <1>11
  <2>1. m \in 1 .. Len(out) /\ m # k + 1
    BY <1>1
  <2> QED
    BY <1>11, <1>17, <2>1
<1>20. ~(i' = Len(x'))
  BY <1>1, <1>3
<1> QED
  BY <1>3, <1>18, <1>19, <1>20 DEF Valued

LEMMA MulRowRight ==
  ASSUME Inv, Valued, MulRow
  PROVE  Valued'
<1>1. /\ op = "mul" /\ i \in Nat /\ j = Len(y) /\ x \in Seq(Limb) /\ y \in Seq(Limb)
      /\ out \in Seq(Limb) /\ carry \in Limb /\ i < Len(x)
      /\ Len(out) = Len(x) + Len(y) /\ Len(x) \in Nat /\ Len(y) \in Nat
  BY LenProperties DEF MulRow, Inv, TypeOK, Shape
<1>2. /\ wanted = Signed(neg, Horner(Base, out, 1, i, Left))
      /\ \A m \in i + Len(y) + 1 .. Len(out) : out[m] = 0
  BY <1>1 DEF Valued
<1> DEFINE k == i + Len(y)
           t == [out EXCEPT ![i + Len(y) + 1] = carry]
           u == Suffix(x, i + 2)
           v == Suffix(y, 1)
           a == At(x, i + 1)
           w == Suffix(x, i + 3)
           rest == Suffix(t, i + 2)
           z == rest + u * v
<1>3. /\ op' = "mul" /\ x' = x /\ y' = y /\ neg' = neg /\ wanted' = wanted
      /\ out' = t /\ carry' = 0 /\ i' = i + 1 /\ j' = 0
  BY DEF MulRow, Going
<1>4. k \in Nat /\ k < Len(out) /\ k + 1 = i + Len(y) + 1 /\ i + 1 \in Int /\ 1 <= i + 1 /\ i + 1 <= k + 1
      /\ k + 1 \in Int /\ i + 1 \in Nat /\ i + 1 + 1 = i + 2 /\ i + 1 + 2 = i + 3
  BY <1>1
<1>5. Base \in Nat /\ \A n \in Limb : n \in Nat
  BY BaseAssumption DEF Limb
<1>6. t = Put(out, k, carry)
  BY <1>4 DEF Put
<1> HIDE DEF t
<1>7. /\ t \in Seq(Limb) /\ Len(t) = Len(out) /\ t[k + 1] = carry
      /\ \A m \in 1 .. Len(out) : m # k + 1 => t[m] = out[m]
      /\ Horner(Base, out, i + 1, k, carry) = Horner(Base, t, i + 1, k + 1, 0)
  <2> DEFINE zero == 0
  <2>1. zero \in Int /\ carry + Base * zero = carry
    BY <1>1, <1>5
  <2>2. /\ out \in Seq(Limb) /\ k \in Nat /\ k < Len(out) /\ carry \in Limb
        /\ i \in Nat /\ i <= k /\ t = Put(out, k, carry)
    BY <1>1, <1>4, <1>6
  <2> HIDE DEF zero, k
  <2>3. /\ t \in Seq(Limb) /\ Len(t) = Len(out) /\ t[k + 1] = carry
        /\ \A m \in 1 .. Len(out) : m # k + 1 => t[m] = out[m]
        /\ Horner(Base, out, i + 1, k, carry + Base * zero) = Horner(Base, t, i + 1, k + 1, zero)
    BY <2>1, <2>2, AdvanceRow
  <2> QED
    BY <2>1, <2>3 DEF zero
\* All limbs above the row are blank.
<1>8. Suffix(t, i + 1) = Horner(Base, t, i + 1, k + 1, 0)
  <2>1. /\ Len(t) \in Int /\ i + 1 <= k + 1 + 1 /\ k + 1 <= Len(t) /\ 0 \in Int /\ i + 1 >= 1
        /\ Len(t) <= Len(t) /\ k + 1 + 1 \in Int
    BY <1>1, <1>4, <1>7
  <2>2. Integral(t, i + 1, Len(t))
    BY <1>4, <1>7, <2>1, LimbsIntegral
  <2>3. \A m \in k + 1 + 1 .. Len(t) : t[m] = 0
    <3> SUFFICES ASSUME NEW m \in k + 1 + 1 .. Len(t) PROVE t[m] = 0
      OBVIOUS
    <3>1. m \in 1 .. Len(out) /\ m # k + 1 /\ m \in i + Len(y) + 1 .. Len(out)
      BY <1>1, <1>4, <1>7
    <3> QED
      BY <1>2, <1>7, <3>1
  <2> HIDE DEF k
  <2>4. Horner(Base, t, k + 1 + 1, Len(t), 0) = 0
    BY <2>1, <2>3, BaseAssumption, HornerZero
  <2>5. Horner(Base, t, i + 1, Len(t), 0) = Horner(Base, t, i + 1, k + 1, Horner(Base, t, k + 1 + 1, Len(t), 0))
    BY <1>4, <2>1, <2>2, BaseAssumption, HornerSplit
  <2> QED
    BY <2>4, <2>5 DEF Suffix
<1>9. Left = Suffix(t, i + 1) + Base * (u * v)
  <2>1. Left = Horner(Base, out, i + 1, i + Len(y), Suffix(out, i + Len(y) + 1) + carry + At(x, i) * Suffix(y, Len(y) + 1))
                 + Base * (u * v)
    BY <1>1 DEF Left
  <2>2. Suffix(out, i + Len(y) + 1) = 0
    <3>1. i + Len(y) + 1 \in Int /\ Len(out) \in Int
      BY <1>1
    <3> QED
      BY <1>2, <3>1, BaseAssumption, HornerZero DEF Suffix
  <2>3. Suffix(y, Len(y) + 1) = 0
    <3>1. Len(y) \in Nat /\ Len(y) >= Len(y)
      BY <1>1
    <3> QED
      BY <1>1, <3>1, SuffixStep
  <2>4. At(x, i) \in Nat /\ carry \in Nat
    BY <1>1, <1>5, AtLimb
  <2>5. Suffix(out, i + Len(y) + 1) + carry + At(x, i) * Suffix(y, Len(y) + 1) = carry
    BY <2>2, <2>3, <2>4
  <2> HIDE DEF u, v
  <2>6. Left = Horner(Base, out, i + 1, k, carry) + Base * (u * v)
    BY <2>1, <2>5
  <2> QED
    BY <1>7, <1>8, <2>6
<1>10. /\ Suffix(t, i + 1) = At(t, i) + Base * rest /\ rest \in Nat /\ At(t, i) \in Limb
       /\ u = a + Base * w /\ w \in Nat /\ u \in Nat /\ a \in Limb /\ v \in Nat
  BY <1>1, <1>4, <1>7, SuffixStep, AtLimb, FirstSuffix
<1>11. At(t, i) = t[i + 1]
  BY <1>1, <1>7 DEF At
<1> HIDE DEF u, v, a, w, rest
<1>12. Left = t[i + 1] + Base * z /\ z \in Int
  <2>1. u * v \in Nat
    BY <1>10
  <2>2. Base * (rest + u * v) = Base * rest + Base * (u * v)
    BY <1>5, <1>10, <2>1
  <2> DEFINE p == Base * rest
             q == Base * (u * v)
             bz == Base * z
  <2>3. p \in Nat /\ q \in Nat /\ At(t, i) \in Nat
    BY <1>5, <1>10, <2>1
  <2>4. Left = (At(t, i) + p) + q /\ bz = p + q
    BY <1>9, <1>10, <2>2
  <2>5. z \in Int
    BY <1>10, <2>1
  <2> HIDE DEF p, q, bz
  <2>6. Left = At(t, i) + bz
    BY <2>3, <2>4
  <2> HIDE DEF z
  <2> QED
    BY <1>11, <2>5, <2>6 DEF bz
<1>13. Left' = z
  <2>1. Left' = Horner(Base, t, i + 1 + 1, i + 1 + 0, Suffix(t, i + 1 + 0 + 1) + 0 + At(x, i + 1) * Suffix(y, 0 + 1))
                  + Base * (Suffix(x, i + 1 + 2) * Suffix(y, 1))
    BY <1>3 DEF Left
  <2>2. i + 1 + 0 = i + 1 /\ i + 1 + 0 + 1 = i + 2 /\ 0 + 1 = 1
    BY <1>1
  <2>3. Left' = Horner(Base, t, i + 2, i + 1, rest + 0 + a * v) + Base * (w * v)
    BY <1>4, <2>1, <2>2 DEF rest, a, v, w
  <2>4. a * v \in Nat /\ w * v \in Nat /\ a \in Nat
    BY <1>5, <1>10
  <2>5. Horner(Base, t, i + 2, i + 1, rest + 0 + a * v) = rest + 0 + a * v
    <3>1. i + 2 \in Int /\ i + 1 \in Int /\ i + 2 > i + 1 /\ Integral(t, i + 2, i + 1)
      BY <1>1 DEF Integral
    <3> DEFINE s == rest + 0 + a * v
    <3>2. s \in Int
      BY <1>10, <2>4
    <3> HIDE DEF s
    <3>3. Horner(Base, t, i + 2, i + 1, s) = s
      BY <3>1, <3>2, BaseAssumption, HornerStep
    <3> QED
      BY <3>3 DEF s
  <2>6. u * v = a * v + Base * (w * v)
    <3>1. (a + Base * w) * v = a * v + Base * (w * v)
      BY <1>5, <1>10, <2>4
    <3> QED
      BY <1>10, <3>1
  <2> DEFINE av == a * v
             bwv == Base * (w * v)
  <2>7. av \in Nat /\ bwv \in Nat /\ u * v = av + bwv /\ Left' = rest + 0 + av + bwv
    BY <1>5, <2>3, <2>4, <2>5, <2>6
  <2> HIDE DEF av, bwv
  <2> QED
    BY <1>10, <2>7
<1> HIDE DEF z
<1>14. Horner(Base, out, 1, i, Left) = Horner(Base, t, 1, i + 1, z)
  <2>1. 1 \in Int /\ i \in Int /\ 1 >= 1 /\ i <= Len(out) /\ 1 <= i + 1 /\ i + 1 <= Len(t)
    BY <1>1, <1>7
  <2>2. Integral(out, 1, i) /\ Integral(t, 1, i + 1)
    BY <1>1, <1>4, <1>7, <2>1, LimbsIntegral
  <2>3. \A m \in 1 .. i : out[m] = t[m]
    <3> SUFFICES ASSUME NEW m \in 1 .. i PROVE out[m] = t[m]
      OBVIOUS
    <3>1. m \in 1 .. Len(out) /\ m # k + 1
      BY <1>1
    <3> QED
      BY <1>7, <3>1
  <2>4. Left \in Int
    <3>1. t[i + 1] \in Nat
      BY <1>5, <1>10, <1>11
    <3>2. Base * z \in Int
      BY <1>5, <1>12
    <3> QED
      BY <1>12, <3>1, <3>2
  <2>5. Horner(Base, out, 1, i, Left) = Horner(Base, t, 1, i, Left)
    BY <2>1, <2>2, <2>3, <2>4, BaseAssumption, HornerSame
  <2>6. Horner(Base, t, 1, i + 1, z) = Horner(Base, t, 1, i, t[i + 1] + Base * z)
    BY <1>12, <2>1, <2>2, BaseAssumption, HornerLast
  <2> QED
    BY <1>12, <2>5, <2>6
<1>15. wanted' = Signed(neg', Horner(Base, out', 1, i', Left'))
  BY <1>2, <1>3, <1>13, <1>14
<1>16. \A m \in i' + Len(y') + 1 .. Len(out') : out'[m] = 0
  <2> SUFFICES ASSUME NEW m \in i + 1 + Len(y) + 1 .. Len(out) PROVE t[m] = 0
    BY <1>3, <1>7
  <2>1. m \in 1 .. Len(out) /\ m # k + 1 /\ m \in i + Len(y) + 1 .. Len(out)
    BY <1>1
  <2> QED
    BY <1>2, <1>7, <2>1
<1> QED
  BY <1>3, <1>15, <1>16 DEF Valued

LEMMA MulDoneRight ==
  ASSUME Inv, Valued, MulDone
  PROVE  Valued' /\ Exact'
<1>1. /\ op = "mul" /\ i \in Nat /\ x \in Seq(Limb) /\ y \in Seq(Limb) /\ out \in Seq(Limb)
      /\ i = Len(x) /\ neg \in BOOLEAN /\ Len(out) = Len(x) + Len(y)
      /\ Len(x) \in Nat /\ Len(y) \in Nat
  BY LenProperties DEF MulDone, Inv, TypeOK, Shape
<1>2. wanted = Signed(neg, Horner(Base, out, 1, i, Left)) /\ j = 0 /\ carry = 0
  BY <1>1 DEF Valued
<1>3. Suffix(x, i + 2) = 0 /\ At(x, i) = 0
  <2>1. i >= Len(x)
    BY <1>1
  <2>2. At(x, i) = 0
    BY <1>1, <2>1 DEF At
  <2> QED
    BY <1>1, <2>1, <2>2, SuffixStep
<1>4. Suffix(y, 1) \in Nat /\ Suffix(out, i + 1) \in Nat /\ Suffix(y, 0 + 1) \in Nat
  BY <1>1, FirstSuffix, SuffixStep
<1>5. Left = Suffix(out, i + 1)
  <2>1. Left = Horner(Base, out, i + 1, i + 0, Suffix(out, i + 0 + 1) + 0 + 0 * Suffix(y, 0 + 1)) + Base * (0 * Suffix(y, 1))
    BY <1>1, <1>2, <1>3 DEF Left
  <2>2. i + 0 = i /\ i + 0 + 1 = i + 1 /\ 0 * Suffix(y, 0 + 1) = 0 /\ 0 * Suffix(y, 1) = 0
    BY <1>1, <1>4
  <2>3. Suffix(out, i + 1) + 0 + 0 = Suffix(out, i + 1) /\ Base * 0 = 0
    BY <1>4, BaseAssumption
  <2>4. Left = Horner(Base, out, i + 1, i, Suffix(out, i + 1)) + 0
    BY <2>1, <2>2, <2>3
  <2>5. Horner(Base, out, i + 1, i, Suffix(out, i + 1)) = Suffix(out, i + 1)
    <3>1. i + 1 \in Int /\ i \in Int /\ i + 1 > i /\ Integral(out, i + 1, i)
      BY <1>1 DEF Integral
    <3>2. Suffix(out, i + 1) \in Int
      BY <1>4
    <3> QED
      BY <3>1, <3>2, BaseAssumption, HornerStep
  <2> QED
    BY <1>4, <2>4, <2>5
<1>6. Horner(Base, out, 1, i, Left) = Magnitude(out)
  <2>1. /\ 1 \in Int /\ i \in Int /\ Len(out) \in Int /\ 1 <= i + 1 /\ i <= Len(out) /\ 0 \in Int
        /\ 1 >= 1 /\ Len(out) <= Len(out)
    BY <1>1
  <2>2. Integral(out, 1, Len(out))
    BY <1>1, <2>1, LimbsIntegral
  <2>3. Horner(Base, out, 1, Len(out), 0) = Horner(Base, out, 1, i, Horner(Base, out, i + 1, Len(out), 0))
    BY <2>1, <2>2, BaseAssumption, HornerSplit
  <2> QED
    BY <1>1, <1>5, <2>3, MagnitudeIs DEF Suffix
<1>7. Answer(Make(neg, out)) /\ wanted' = wanted
  BY DEF MulDone
<1>8. IntOf(Make(neg, out)) = wanted'
  BY <1>1, <1>2, <1>6, <1>7, MakeRight
<1> QED
  BY <1>7, <1>8, AnswerRight

LEMMA Invariance == Spec => []Inv
<1>1. Init => Inv
  <2>1. << >> \in Seq(Limb) /\ 0 \in Limb
    BY EmptySeq, BaseAssumption DEF Limb
  <2>2. Init => TypeOK
    <3> SUFFICES ASSUME Init PROVE TypeOK
      OBVIOUS
    <3>1. op = "start" /\ neg = FALSE /\ x = << >> /\ y = << >> /\ out = << >>
          /\ i = 0 /\ j = 0 /\ carry = 0
      BY DEF Init
    <3> QED
      BY <2>1, <3>1 DEF TypeOK
  <2>3. Init => Shape
    BY DEF Init, Shape
  <2> QED
    BY <2>2, <2>3 DEF Inv
<1>2. Inv /\ [Next]_vars => Inv'
  <2> SUFFICES ASSUME Inv, [Next]_vars PROVE Inv'
    OBVIOUS
  <2>1. CASE \E a, b \in Numbers : BeginAdd(a, b) \/ BeginSub(a, b) \/ BeginMul(a, b) \/ Int63Sum(a, b)
    BY <2>1, BeginKeeps
  <2>2. CASE \E a \in Numbers : BeginSucc(a) \/ ThroughNat(a) \/ ThroughInt63(a)
    BY <2>2, BeginKeeps
  <2>3. CASE AddStep \/ SubStep \/ MulStep \/ MulRow
    BY <2>3, StepKeeps
  <2>4. CASE AddDone \/ SubDone \/ MulDone
    BY <2>4, AnswerKeeps DEF AddDone, SubDone, MulDone
  <2>5. CASE UNCHANGED vars
    BY <2>5 DEF vars, loop, Inv, TypeOK, Shape, Longest
  <2> QED
    BY <2>1, <2>2, <2>3, <2>4, <2>5 DEF Next
<1> QED
  BY <1>1, <1>2, PTL DEF Spec

\* Every limb that the loops of bignum_add, bignum_sub and bignum_mul write is
\* below 2^15, and so is every carry.
THEOREM Typing == Spec => []TypeOK
<1>1. Inv => TypeOK
  BY DEF Inv
<1> QED
  BY <1>1, Invariance, PTL

\* No U32 that they compute wraps, above or below.
THEOREM WordsNeverWrap == Spec => []NoWrap
<1>1. Inv => NoWrap
  <2> SUFFICES ASSUME Inv PROVE NoWrap
    OBVIOUS
  <2>1. op = "add" => Sum \in 0 .. Word - 1
    BY SumFits, TwoDigits
  <2>2. op = "sub" => Difference \in 0 .. Word - 1
    BY DifferenceFits, TwoDigits
  <2>3. op = "mul" /\ i < Len(x) /\ j < Len(y) => Product \in 0 .. Word - 1
    BY ProductOfLimbs, TwoDigits
  <2> QED
    BY <2>1, <2>2, <2>3 DEF NoWrap
<1> QED
  BY <1>1, Invariance, PTL

\* What a call starts, makes and answers is the integer that is wanted.
LEMMA StepRight ==
  ASSUME Inv, Valued, Exact, [Next]_vars
  PROVE  Valued' /\ Exact'
<1>1. CASE \E a, b \in Numbers : BeginAdd(a, b) \/ BeginSub(a, b) \/ BeginMul(a, b) \/ Int63Sum(a, b)
  <2> PICK a \in Numbers, b \in Numbers :
             BeginAdd(a, b) \/ BeginSub(a, b) \/ BeginMul(a, b) \/ Int63Sum(a, b)
    BY <1>1
  <2> QED
    BY BeginRight
<1>2. CASE \E a \in Numbers : BeginSucc(a) \/ ThroughNat(a) \/ ThroughInt63(a)
  <2> PICK a \in Numbers : BeginSucc(a) \/ ThroughNat(a) \/ ThroughInt63(a)
    BY <1>2
  <2> QED
    BY BeginRight
<1>3. CASE AddStep \/ SubStep \/ MulStep \/ MulRow
  <2>1. Valued'
    BY <1>3, AddStepRight, SubStepRight, MulStepRight, MulRowRight
  <2>2. op' # "answered"
    BY <1>3 DEF AddStep, SubStep, MulStep, MulRow, Going
  <2> QED
    BY <2>1, <2>2 DEF Exact
<1>4. CASE AddDone \/ SubDone \/ MulDone
  BY <1>4, AddDoneRight, SubDoneRight, MulDoneRight
<1>5. CASE UNCHANGED vars
  <2>1. UNCHANGED <<op, x, y, neg, out, i, j, carry, result, wanted>>
    BY <1>5 DEF vars, loop
  <2>2. Left' = Left
    BY <2>1 DEF Left
  <2> QED
    BY <2>1, <2>2 DEF Valued, Exact
<1> QED
  BY <1>1, <1>2, <1>3, <1>4, <1>5 DEF Next

\* bignum_add, bignum_sub, bignum_mul, bignum_succ_int63, the narrowings to a
\* Nat and to an Int63 and the sums of two Int63 answer the integer they
\* should, for every base and for numbers of every length: none of the carries
\* and borrows is lost, and what wraps at 2^63 is the same modulo 2^63.
THEOREM AlwaysExact == Spec => []Exact
<1>1. Init => Valued /\ Exact
  BY DEF Init, Valued, Exact
<1>2. Inv /\ Valued /\ Exact /\ [Next]_vars => Valued' /\ Exact'
  BY StepRight
<1> QED
  BY <1>1, <1>2, Invariance, PTL DEF Spec

-----------------------------------------------------------------------------
\* The chunk that is read is below its power, and so is the carry of the loop
\* that adds it; a remainder is below the radix.
Bounds ==
  /\ phase \notin {"start", "refused"} => text \in Seq(Digit)
  /\ phase \in {"start", "refused", "read"} =>
       count \in 0 .. Chunk - 1 /\ factor = Power[count] /\ value < factor
  /\ phase = "last" => count \in 0 .. Chunk - 1
  /\ Flushing => 1 <= factor /\ factor <= Power[Chunk] /\ held < factor
  /\ phase = "show" => held < Radix
TextInv == TextTypeOK /\ Bounds

LEMMA TextConstants ==
  /\ Radix \in Nat /\ Radix >= 2 /\ Base \in Nat /\ Base >= 2 /\ Word \in Nat
  /\ Chunk \in Nat /\ Chunk >= 1 /\ Power[Chunk] \in Nat /\ Radix <= Power[Chunk]
  /\ Base * Power[Chunk] <= Word /\ Power[Chunk] <= Base * Base /\ Power[Chunk] <= Word
<1>1. Radix \in Nat /\ Radix >= 2 /\ Base \in Nat /\ Base >= 2 /\ Chunk \in Nat /\ Chunk >= 1
  BY RadixAssumption, BaseAssumption
<1>2. 0 \in 0 .. Chunk /\ 1 \in 1 .. Chunk /\ 1 \in 0 .. Chunk /\ Chunk \in 0 .. Chunk
  BY <1>1
<1>3. Power[1] = Power[0] * Radix /\ Power[0] = 1 /\ Power[1] <= Power[Chunk] /\ Power[Chunk] \in Nat
  BY <1>2, PowerAssumption
<1>4. Radix <= Power[Chunk]
  BY <1>1, <1>3
<1>5. Power[Chunk] <= Base * Power[Chunk]
  BY <1>1, <1>3
<1> QED
  BY <1>1, <1>3, <1>4, <1>5, WordAssumption, ChunkAssumption

\* A digit of a mixed base: n below p * q has a quotient by p below q.
LEMMA Quotient ==
  ASSUME NEW p \in Nat, p >= 1, NEW q \in Nat, NEW n \in Nat, n < p * q
  PROVE  n % p \in 0 .. p - 1 /\ n \div p \in 0 .. q - 1
<1>1. n % p \in 0 .. p - 1
  OBVIOUS
<1>2. n \div p \in Int /\ n \div p >= 0 /\ n = p * (n \div p) + (n % p)
  OBVIOUS
<1>3. SUFFICES ASSUME n \div p >= q PROVE FALSE
  BY <1>1, <1>2
<1>4. p * (n \div p) >= p * q
  BY <1>2, <1>3
<1> QED
  BY <1>1, <1>2, <1>4

\* A limb times a power and a carry below it.
LEMMA TimesBelow ==
  ASSUME NEW p \in Nat, p >= 1, NEW l \in 0 .. p - 1, NEW f \in Nat, NEW c \in Nat, c < f
  PROVE  l * f + c \in Nat /\ l * f + c < p * f
<1>1. l * f \in Nat /\ p * f \in Nat /\ (p - 1) * f = p * f - f
  OBVIOUS
<1>2. l * f <= (p - 1) * f
  OBVIOUS
<1> QED
  BY <1>1, <1>2

LEMMA WordIsItself ==
  ASSUME NEW n \in Nat, n < Word
  PROVE  U32(n) = n
BY TextConstants DEF U32

LEMMA CurFits ==
  ASSUME TextInv, Flushing, at < Len(limbs)
  PROVE  /\ Cur \in Nat /\ Cur < Word
         /\ U32(Cur) % Base \in Limb /\ U32(Cur) \div Base \in Nat /\ U32(Cur) \div Base < factor
<1>1. /\ limbs[at + 1] \in 0 .. Base - 1 /\ factor \in Nat /\ held \in Nat
      /\ held < factor /\ factor <= Power[Chunk]
  <2>1. /\ factor \in Nat /\ held \in Nat /\ held < factor /\ factor <= Power[Chunk]
        /\ limbs \in Seq(Limb) /\ at \in 0 .. Len(limbs)
    BY DEF TextInv, TextTypeOK, Bounds
  <2>2. at + 1 \in 1 .. Len(limbs)
    BY <2>1, LenProperties
  <2>3. limbs[at + 1] \in Limb
    BY <2>1, <2>2, ElementOfSeq
  <2> QED
    BY <2>1, <2>3 DEF Limb
<1> DEFINE l == limbs[at + 1]
<1>2. Cur \in Nat /\ Cur < Base * factor
  <2>1. l * factor + held \in Nat /\ l * factor + held < Base * factor
    <3>1. Base \in Nat /\ Base >= 1
      BY TextConstants
    <3> HIDE DEF l
    <3>2. l \in 0 .. Base - 1
      BY <1>1 DEF l
    <3> QED
      BY <1>1, <3>1, <3>2, TimesBelow
  <2> QED
    BY <2>1 DEF Cur
<1>3. Base * factor <= Base * Power[Chunk]
  <2>1. \A b, f, g \in Nat : f <= g => b * f <= b * g
    OBVIOUS
  <2> QED
    BY <1>1, <2>1, TextConstants
<1>4. Cur < Word
  BY <1>1, <1>2, <1>3, TextConstants
<1>5. Cur % Base \in 0 .. Base - 1 /\ Cur \div Base \in 0 .. factor - 1
  <2>1. Base \in Nat /\ Base >= 1
    BY TextConstants
  <2> QED
    BY <1>1, <1>2, <2>1, Quotient
<1>6. U32(Cur) = Cur
  BY <1>2, <1>4, WordIsItself
<1> QED
  BY <1>1, <1>2, <1>4, <1>5, <1>6 DEF Limb

LEMMA PartFits ==
  ASSUME TextInv, phase = "show", at > 0
  PROVE  /\ Part \in Nat /\ Part < Word
         /\ U32(Part) \div Radix \in Limb /\ U32(Part) % Radix \in Nat /\ U32(Part) % Radix < Radix
<1>1. limbs[at] \in 0 .. Base - 1 /\ held \in 0 .. Radix - 1
  <2>1. limbs \in Seq(Limb) /\ at \in 0 .. Len(limbs) /\ held \in Nat /\ held < Radix
    BY DEF TextInv, TextTypeOK, Bounds
  <2>2. at \in 1 .. Len(limbs)
    BY <2>1, LenProperties
  <2>3. limbs[at] \in Limb
    BY <2>1, <2>2, ElementOfSeq
  <2> QED
    BY <2>1, <2>3, TextConstants DEF Limb
<1>2. Part \in Nat /\ Part < Radix * Base
  BY <1>1, TextConstants, TimesBelow DEF Part
<1>3. Radix * Base <= Base * Power[Chunk]
  BY TextConstants
<1>4. Part < Word
  BY <1>2, <1>3, TextConstants
<1>5. Part % Radix \in 0 .. Radix - 1 /\ Part \div Radix \in 0 .. Base - 1
  <2>1. Radix \in Nat /\ Radix >= 1 /\ Base \in Nat
    BY TextConstants
  <2> QED
    BY <1>2, <2>1, Quotient
<1>6. U32(Part) = Part
  BY <1>2, <1>4, WordIsItself
<1> QED
  BY <1>2, <1>4, <1>5, <1>6, TextConstants DEF Limb

\* The chunk with one more digit stays below its power.
LEMMA ChunkFits ==
  ASSUME TextInv, phase = "read", pos < Len(text)
  PROVE  /\ value * Radix + text[pos + 1] \in Nat /\ factor * Radix = Power[count + 1]
         /\ value * Radix + text[pos + 1] < Power[count + 1]
         /\ Power[count + 1] \in Nat /\ Power[count + 1] <= Power[Chunk] /\ Power[count + 1] >= 1
         /\ Power[count + 1] < Word
<1>1. /\ text[pos + 1] \in 0 .. Radix - 1 /\ value \in Nat /\ factor = Power[count]
      /\ value < factor /\ count \in 0 .. Chunk - 1 /\ factor \in Nat
  <2>1. /\ text \in Seq(Digit) /\ pos \in 0 .. Len(text) /\ value \in Nat /\ factor \in Nat
        /\ factor = Power[count] /\ value < factor /\ count \in 0 .. Chunk - 1
    BY DEF TextInv, TextTypeOK, Bounds
  <2>2. pos + 1 \in 1 .. Len(text)
    BY <2>1, LenProperties
  <2>3. text[pos + 1] \in Digit
    BY <2>1, <2>2, ElementOfSeq
  <2> QED
    BY <2>1, <2>3 DEF Digit
<1>2. count + 1 \in 1 .. Chunk /\ count + 1 \in 0 .. Chunk /\ (count + 1) - 1 = count
  BY <1>1, TextConstants
<1>3. /\ Power[count + 1] = Power[count] * Radix /\ Power[count + 1] \in Nat
      /\ Power[count + 1] <= Power[Chunk] /\ Power[count + 1] >= 1
  BY <1>2, PowerAssumption
<1>4. value * Radix + text[pos + 1] \in Nat /\ value * Radix + text[pos + 1] < factor * Radix
  <2>1. /\ value \in 0 .. factor - 1 /\ factor >= 1 /\ Radix \in Nat
        /\ text[pos + 1] \in Nat /\ text[pos + 1] < Radix
    BY <1>1, TextConstants
  <2> QED
    BY <1>1, <2>1, TimesBelow
<1>5. Power[Chunk] < Word
  <2>1. Power[Chunk] \in Nat /\ Power[Chunk] >= 1
    BY TextConstants
  <2>2. 2 * Power[Chunk] <= Base * Power[Chunk]
    BY <2>1, TextConstants
  <2> QED
    BY <2>1, <2>2, TextConstants
<1>6. factor * Radix = Power[count + 1]
  BY <1>1, <1>3
<1>7. value * Radix + text[pos + 1] < Power[count + 1]
  BY <1>4, <1>6
<1>8. Power[count + 1] < Word
  BY <1>3, <1>5, TextConstants
<1> QED
  BY <1>3, <1>4, <1>6, <1>7, <1>8

LEMMA TrimLimbs ==
  ASSUME NEW s \in Seq(Limb)
  PROVE  /\ Trim(s) \in Seq(Limb) /\ Trimmed(Trim(s)) /\ Len(Trim(s)) <= Len(s)
         /\ Magnitude(Trim(s)) = Magnitude(s)
<1> DEFINE a == Make(FALSE, s)
           n == CHOOSE k \in 0 .. Len(s) : (\A m \in k + 1 .. Len(s) : s[m] = 0) /\ (k = 0 \/ s[k] # 0)
<1>1. Trim(s) = a.limbs
  <2>1. Trim(s) = SubSeq(s, 1, n)
    BY DEF Trim
  <2>2. a = [negative |-> (FALSE /\ n # 0), limbs |-> SubSeq(s, 1, n)]
    BY DEF Make, Big
  <2> HIDE DEF a, n
  <2> QED
    BY <2>1, <2>2
<1>2. /\ IsNumber(a) /\ Magnitude(a.limbs) = Magnitude(s) /\ Len(a.limbs) <= Len(s)
  BY MakeRight
<1> HIDE DEF a
<1> QED
  BY <1>1, <1>2 DEF IsNumber

\* What is pushed at the end of the loop is limbs.
LEMMA CarryLimbs ==
  ASSUME TextInv, Flushing
  PROVE  CarryOut \in Seq(Limb)
<1>1. held \in Nat /\ held < Base * Base
  <2>1. held \in Nat /\ factor \in Nat /\ held < factor /\ factor <= Power[Chunk]
    BY DEF TextInv, TextTypeOK, Bounds
  <2>2. Base * Base \in Nat
    BY TextConstants
  <2> QED
    BY <2>1, <2>2, TextConstants
<1>2. held % Base \in Limb /\ held \div Base \in Limb
  <2>1. Base \in Nat /\ Base >= 1
    BY TextConstants
  <2> QED
    BY <1>1, <2>1, Quotient DEF Limb
<1>3. << >> \in Seq(Limb) /\ << held % Base >> \in Seq(Limb) /\ << held \div Base >> \in Seq(Limb)
  BY <1>2, EmptySeq
<1> DEFINE low == IF held = 0 THEN << >> ELSE << held % Base >>
           high == IF held \div Base = 0 THEN << >> ELSE << held \div Base >>
<1>4. low \in Seq(Limb) /\ high \in Seq(Limb)
  BY <1>3
<1>5. low \o high \in Seq(Limb)
  <2> HIDE DEF low, high
  <2> QED
    BY <1>4, ConcatProperties
<1> QED
  BY <1>5 DEF CarryOut

LEMMA InitInv == TextInit => TextInv
<1> SUFFICES ASSUME TextInit PROVE TextInv
  OBVIOUS
<1>1. << >> \in Seq(Limb) /\ Len(<< >>) = 0
  BY EmptySeq
<1>2. text \in Seq(0 .. Radix) /\ Len(text) \in Nat
  <2>1. PICK n \in 0 .. MaxDigits : text \in [1 .. n -> 0 .. Radix]
    BY DEF TextInit
  <2>2. n \in Nat
    BY <2>1, RadixAssumption
  <2>3. text \in Seq(0 .. Radix)
    BY <2>1, <2>2, SeqDef
  <2> QED
    BY <2>3, LenProperties
<1>3. 0 \in 0 .. Chunk - 1 /\ Power[0] = 1
  BY TextConstants, PowerAssumption
<1>4. /\ phase = "start" /\ pos = 0 /\ value = 0 /\ factor = 1 /\ count = 0
      /\ limbs = << >> /\ at = 0 /\ held = 0
  BY DEF TextInit
<1>5. TextTypeOK
  BY <1>1, <1>2, <1>3, <1>4, TextConstants DEF TextTypeOK
<1>6. Bounds
  BY <1>3, <1>4 DEF Bounds, Flushing
<1> QED
  BY <1>5, <1>6 DEF TextInv

LEMMA ReadKeeps ==
  ASSUME TextInv, Begin \/ ReadDigit \/ ReadEnd
  PROVE  TextInv'
<1>1. TextTypeOK /\ Bounds
  BY DEF TextInv
<1>2. CASE Begin
  <2>1. phase' = "read" => text \in Seq(Digit)
    <3> SUFFICES ASSUME phase' = "read" PROVE text \in Seq(Digit)
      OBVIOUS
    <3>1. text \in Seq(0 .. Radix) /\ \A k \in DOMAIN text : text[k] # Radix
      BY <1>1, <1>2 DEF Begin, TextTypeOK, NoDigit
    <3>2. Len(text) \in Nat /\ DOMAIN text = 1 .. Len(text) /\ text \in [1 .. Len(text) -> 0 .. Radix]
      BY <3>1, LenProperties
    <3>3. \A k \in 1 .. Len(text) : text[k] \in Digit
      <4> SUFFICES ASSUME NEW k \in 1 .. Len(text) PROVE text[k] \in Digit
        OBVIOUS
      <4>1. text[k] \in 0 .. Radix /\ text[k] # Radix
        BY <3>1, <3>2
      <4> QED
        BY <4>1, TextConstants DEF Digit
    <3>4. text \in [1 .. Len(text) -> Digit]
      BY <3>2, <3>3
    <3> QED
      BY <3>2, <3>4, SeqDef
  <2>2. phase = "start" /\ phase' \in {"refused", "read"}
    BY <1>2 DEF Begin
  <2>3. UNCHANGED <<text, pos, value, factor, count, limbs, at, held>>
    BY <1>2 DEF Begin, chunk
  <2>4. TextTypeOK'
    BY <1>1, <2>2, <2>3 DEF TextTypeOK
  <2>5. Bounds'
    BY <1>1, <2>1, <2>2, <2>3 DEF Bounds, Flushing
  <2> QED
    BY <2>4, <2>5 DEF TextInv
<1>3. CASE ReadDigit
  <2>1. /\ phase = "read" /\ pos < Len(text) /\ pos' = pos + 1 /\ UNCHANGED <<text, limbs>>
        /\ value' = U32(value * Radix + text[pos + 1]) /\ factor' = U32(factor * Radix)
    BY <1>3 DEF ReadDigit
  <2>2. /\ value' \in Nat /\ factor' \in Nat /\ factor' = Power[count + 1] /\ value' < factor'
        /\ 1 <= factor' /\ factor' <= Power[Chunk]
    <3>1. U32(value * Radix + text[pos + 1]) = value * Radix + text[pos + 1]
      <4>1. value * Radix + text[pos + 1] < Word
        BY <2>1, ChunkFits, TextConstants
      <4> QED
        BY <2>1, <4>1, ChunkFits, WordIsItself
    <3>2. U32(factor * Radix) = factor * Radix
      BY <2>1, ChunkFits, WordIsItself
    <3> QED
      BY <2>1, <3>1, <3>2, ChunkFits
  <2>3. pos' \in 0 .. Len(text)
    BY <1>1, <2>1, LenProperties DEF TextTypeOK
  <2>4. 0 \in 0 .. Len(limbs) /\ count \in 0 .. Chunk - 1 /\ text \in Seq(Digit)
    BY <1>1, <2>1, LenProperties DEF TextTypeOK, Bounds
  <2>5. CASE count = Chunk - 1
    <3>1. phase' = "flush" /\ at' = 0 /\ held' = value' /\ count' = count
      BY <1>3, <2>5 DEF ReadDigit, Flush
    <3>2. TextTypeOK'
      BY <1>1, <2>1, <2>2, <2>3, <2>4, <3>1 DEF TextTypeOK
    <3>3. Bounds'
      BY <2>1, <2>2, <2>4, <3>1 DEF Bounds, Flushing
    <3> QED
      BY <3>2, <3>3 DEF TextInv
  <2>6. CASE count # Chunk - 1
    <3>1. phase' = "read" /\ at' = at /\ held' = held /\ count' = count + 1
      BY <1>3, <2>1, <2>6 DEF ReadDigit
    <3>2. count + 1 \in 0 .. Chunk - 1
      BY <2>4, <2>6, TextConstants
    <3>3. TextTypeOK'
      BY <1>1, <2>1, <2>2, <2>3, <2>4, <3>1, <3>2, TextConstants DEF TextTypeOK
    <3>4. Bounds'
      BY <2>1, <2>2, <2>4, <3>1, <3>2 DEF Bounds, Flushing
    <3> QED
      BY <3>3, <3>4 DEF TextInv
  <2> QED
    BY <2>5, <2>6
<1>4. CASE ReadEnd
  <2>1. /\ phase = "read" /\ phase' = "last" /\ at' = 0 /\ held' = value
        /\ UNCHANGED <<text, pos, value, factor, count, limbs>>
    BY <1>4 DEF ReadEnd, Flush, chunk
  <2>2. /\ count \in 0 .. Chunk - 1 /\ factor = Power[count] /\ value < factor /\ value \in Nat
        /\ text \in Seq(Digit) /\ 0 \in 0 .. Len(limbs)
    BY <1>1, <2>1, LenProperties DEF TextTypeOK, Bounds
  <2>3. 1 <= factor /\ factor <= Power[Chunk]
    <3>1. count \in 0 .. Chunk
      BY <2>2, TextConstants
    <3> QED
      BY <2>2, <3>1, PowerAssumption
  <2>4. TextTypeOK'
    BY <1>1, <2>1, <2>2 DEF TextTypeOK
  <2>5. Bounds'
    BY <2>1, <2>2, <2>3 DEF Bounds, Flushing
  <2> QED
    BY <2>4, <2>5 DEF TextInv
<1> QED
  BY <1>2, <1>3, <1>4

LEMMA FlushKeeps ==
  ASSUME TextInv, MulAdd \/ FlushDone \/ ReadDone
  PROVE  TextInv'
<1>1. TextTypeOK /\ Bounds
  BY DEF TextInv
<1>2. CASE MulAdd
  <2>1. /\ Flushing /\ at < Len(limbs) /\ at' = at + 1
        /\ limbs' = [limbs EXCEPT ![at + 1] = U32(Cur) % Base] /\ held' = U32(Cur) \div Base
        /\ UNCHANGED <<phase, text, pos, value, factor, count>>
    BY <1>2 DEF MulAdd, chunk
  <2>2. U32(Cur) % Base \in Limb /\ held' \in Nat /\ held' < factor
    BY <2>1, CurFits
  <2>3. limbs' \in Seq(Limb) /\ Len(limbs') = Len(limbs)
    <3>1. at + 1 \in 1 .. Len(limbs) /\ limbs \in Seq(Limb)
      BY <1>1, <2>1, LenProperties DEF TextTypeOK
    <3> QED
      BY <2>1, <2>2, <3>1, ExceptSeq
  <2>4. at' \in 0 .. Len(limbs')
    BY <1>1, <2>1, <2>3, LenProperties DEF TextTypeOK
  <2>5. TextTypeOK'
    BY <1>1, <2>1, <2>2, <2>3, <2>4 DEF TextTypeOK
  <2>6. Bounds'
    BY <1>1, <2>1, <2>2 DEF Bounds, Flushing
  <2> QED
    BY <2>5, <2>6 DEF TextInv
<1>3. CASE FlushDone \/ ReadDone
  <2>1. Flushing
    BY <1>3 DEF FlushDone, ReadDone, Flushing
  <2>2. limbs \o CarryOut \in Seq(Limb)
    <3>1. limbs \in Seq(Limb) /\ CarryOut \in Seq(Limb)
      BY <1>1, <2>1, CarryLimbs DEF TextTypeOK
    <3> QED
      BY <3>1, ConcatProperties
  <2>3. limbs' \in Seq(Limb) /\ value' = 0 /\ factor' = 1 /\ count' = 0 /\ UNCHANGED <<text, pos>>
    BY <1>3, <2>2 DEF FlushDone, ReadDone, Push
  <2>4. text \in Seq(Digit)
    BY <1>1, <2>1 DEF Bounds, Flushing
  <2>5. Len(limbs') \in Nat /\ 0 \in 0 .. Chunk - 1 /\ Power[0] = 1
    BY <2>3, LenProperties, TextConstants, PowerAssumption
  <2>6. CASE FlushDone
    <3>1. phase' = "read" /\ at = Len(limbs) /\ at' = at /\ held' = held
      BY <2>6 DEF FlushDone, Push
    <3>2. at' \in 0 .. Len(limbs')
      <4>1. Len(limbs') = Len(limbs) + Len(CarryOut) /\ Len(CarryOut) \in Nat /\ Len(limbs) \in Nat
        BY <1>1, <2>1, <2>6, CarryLimbs, ConcatProperties, LenProperties DEF FlushDone, Push, TextTypeOK
      <4> QED
        BY <3>1, <4>1
    <3>3. TextTypeOK'
      BY <1>1, <2>3, <2>5, <3>1, <3>2, TextConstants DEF TextTypeOK
    <3>4. Bounds'
      BY <2>3, <2>4, <2>5, <3>1 DEF Bounds, Flushing
    <3> QED
      BY <3>3, <3>4 DEF TextInv
  <2>7. CASE ReadDone
    <3>1. phase' = "show" /\ at' = Len(limbs') /\ held' = 0
      BY <2>7 DEF ReadDone, Push
    <3>2. TextTypeOK'
      BY <1>1, <2>3, <2>5, <3>1, TextConstants DEF TextTypeOK
    <3>3. Bounds'
      BY <2>3, <2>4, <3>1, TextConstants DEF Bounds, Flushing
    <3> QED
      BY <3>2, <3>3 DEF TextInv
  <2> QED
    BY <1>3, <2>6, <2>7
<1> QED
  BY <1>2, <1>3

LEMMA ShowKeeps ==
  ASSUME TextInv, Divide \/ Divided \/ Shown
  PROVE  TextInv'
<1>1. TextTypeOK /\ Bounds
  BY DEF TextInv
<1>2. phase = "show" /\ text \in Seq(Digit)
  BY <1>1 DEF Divide, Divided, Shown, Bounds
<1>3. CASE Divide
  <2>1. /\ at > 0 /\ at' = at - 1 /\ UNCHANGED <<phase, text, pos, value, factor, count>>
        /\ limbs' = [limbs EXCEPT ![at] = U32(Part) \div Radix] /\ held' = U32(Part) % Radix
    BY <1>3 DEF Divide, chunk
  <2>2. U32(Part) \div Radix \in Limb /\ held' \in Nat /\ held' < Radix
    BY <1>2, <2>1, PartFits
  <2>3. limbs' \in Seq(Limb) /\ Len(limbs') = Len(limbs) /\ at' \in 0 .. Len(limbs)
    <3>1. at \in 1 .. Len(limbs) /\ limbs \in Seq(Limb) /\ at - 1 \in 0 .. Len(limbs)
      BY <1>1, <2>1, LenProperties DEF TextTypeOK
    <3> QED
      BY <2>1, <2>2, <3>1, ExceptSeq
  <2>4. TextTypeOK'
    BY <1>1, <2>1, <2>2, <2>3 DEF TextTypeOK
  <2>5. Bounds'
    BY <1>2, <2>1, <2>2 DEF Bounds, Flushing
  <2> QED
    BY <2>4, <2>5 DEF TextInv
<1>4. CASE Divided
  <2>1. /\ limbs' = Trim(limbs) /\ at' = Len(limbs') /\ held' = 0
        /\ UNCHANGED <<phase, text, pos, value, factor, count>>
    BY <1>4 DEF Divided, chunk
  <2>2. limbs' \in Seq(Limb) /\ Len(limbs') \in Nat
    BY <1>1, <2>1, TrimLimbs, LenProperties DEF TextTypeOK
  <2>3. TextTypeOK'
    BY <1>1, <2>1, <2>2 DEF TextTypeOK
  <2>4. Bounds'
    BY <1>2, <2>1, TextConstants DEF Bounds, Flushing
  <2> QED
    BY <2>3, <2>4 DEF TextInv
<1>5. CASE Shown
  <2>1. phase' = "done" /\ UNCHANGED <<text, pos, value, factor, count, limbs, at, held>>
    BY <1>5 DEF Shown, chunk
  <2>2. TextTypeOK'
    BY <1>1, <2>1 DEF TextTypeOK
  <2>3. Bounds'
    BY <1>2, <2>1 DEF Bounds, Flushing
  <2> QED
    BY <2>2, <2>3 DEF TextInv
<1> QED
  BY <1>3, <1>4, <1>5

LEMMA TextInvariance == TextSpec => []TextInv
<1>1. TextInv /\ [TextNext]_textvars => TextInv'
  <2> SUFFICES ASSUME TextInv, [TextNext]_textvars PROVE TextInv'
    OBVIOUS
  <2>1. CASE Begin \/ ReadDigit \/ ReadEnd
    BY <2>1, ReadKeeps
  <2>2. CASE MulAdd \/ FlushDone \/ ReadDone
    BY <2>2, FlushKeeps
  <2>3. CASE Divide \/ Divided \/ Shown
    BY <2>3, ShowKeeps
  <2>4. CASE UNCHANGED textvars
    <3>1. UNCHANGED <<phase, text, pos, value, factor, count, limbs, at, held>>
      BY <2>4 DEF textvars, chunk
    <3> QED
      BY <3>1 DEF TextInv, TextTypeOK, Bounds, Flushing
  <2> QED
    BY <2>1, <2>2, <2>3, <2>4 DEF TextNext
<1> QED
  BY <1>1, InitInv, PTL DEF TextSpec

\* Every limb that bignum_muladd and the division by ten write is below 2^15.
THEOREM TextTyping == TextSpec => []TextTypeOK
<1>1. TextInv => TextTypeOK
  BY DEF TextInv
<1> QED
  BY <1>1, TextInvariance, PTL

\* No U32 of bignum_of_decimal, bignum_muladd or bignum_to_string wraps.
THEOREM TextWordsNeverWrap == TextSpec => []TextNoWrap
<1>1. TextInv => TextNoWrap
  <2> SUFFICES ASSUME TextInv PROVE TextNoWrap
    OBVIOUS
  <2>1. ASSUME phase = "read", pos < Len(text)
        PROVE  value * Radix + text[pos + 1] < Word /\ factor * Radix < Word
    BY <2>1, ChunkFits, TextConstants
  <2>2. ASSUME Flushing, at < Len(limbs) PROVE Cur < Word
    BY <2>2, CurFits
  <2>3. ASSUME phase = "show", at > 0 PROVE Part < Word
    BY <2>3, PartFits
  <2> QED
    BY <2>1, <2>2, <2>3 DEF TextNoWrap
<1> QED
  BY <1>1, TextInvariance, PTL

-----------------------------------------------------------------------------
(***************************************************************************)
(* Powers, and numbers that are written in a base.                         *)
(***************************************************************************)
Blanks == [k \in Int |-> 0]
\* A one with n blank digits below it.
Pow(base, n) == Horner(base, Blanks, 1 - n, 0, 1)

LEMMA PowStep ==
  ASSUME NEW base \in Nat, base >= 1, NEW n \in Nat
  PROVE  /\ Pow(base, n) \in Nat /\ Pow(base, n) >= 1 /\ Pow(base, 0) = 1
         /\ Pow(base, n + 1) = base * Pow(base, n)
<1>1. \A k \in Int : Integral(Blanks, k, 0)
  BY DEF Integral, Blanks
<1>2. 1 \in Int /\ 0 \in Int
  OBVIOUS
<1>3. Pow(base, 0) = 1
  <2>1. 1 - 0 = 1 /\ 1 > 0
    OBVIOUS
  <2>2. Horner(base, Blanks, 1, 0, 1) = 1
    BY <1>1, <1>2, <2>1, HornerStep
  <2> QED
    BY <2>1, <2>2 DEF Pow
<1>4. ASSUME NEW m \in Nat PROVE Pow(base, m) \in Int /\ Pow(base, m + 1) = base * Pow(base, m)
  <2> DEFINE a == 1 - (m + 1)
  <2>1. a \in Int /\ a <= 0 /\ a + 1 = 1 - m /\ Blanks[a] = 0 /\ 1 - m \in Int
    BY DEF Blanks
  <2>2. Pow(base, m + 1) = Horner(base, Blanks, a, 0, 1)
    BY DEF Pow
  <2> HIDE DEF a
  <2>3. Horner(base, Blanks, a, 0, 1) = Blanks[a] + base * Horner(base, Blanks, a + 1, 0, 1)
    BY <1>1, <1>2, <2>1, HornerStep
  <2>4. Horner(base, Blanks, a + 1, 0, 1) = Pow(base, m)
    BY <2>1 DEF Pow
  <2>5. Pow(base, m) \in Int
    <3> DEFINE d == 1 - m
    <3>1. d \in Int /\ Integral(Blanks, d, 0)
      BY <1>1
    <3> HIDE DEF d
    <3>2. Horner(base, Blanks, d, 0, 1) \in Int
      BY <1>2, <3>1, HornerStep
    <3> QED
      BY <3>2 DEF Pow, d
  <2> QED
    BY <2>1, <2>2, <2>3, <2>4, <2>5
<1> DEFINE S == {m \in Nat : Pow(base, m) >= 1}
<1>5. 0 \in S
  BY <1>3
<1>6. ASSUME NEW m \in Nat, m \in S PROVE m + 1 \in S
  <2>1. Pow(base, m) \in Int /\ Pow(base, m) >= 1 /\ Pow(base, m + 1) = base * Pow(base, m)
    BY <1>4, <1>6
  <2> DEFINE p == Pow(base, m)
  <2>2. p \in Nat /\ p >= 1
    BY <2>1
  <2> HIDE DEF p
  <2>3. base * p >= 1
    BY <2>2
  <2> QED
    BY <2>1, <2>3 DEF p
<1>7. n \in S
  <2> HIDE DEF S
  <2>1. Nat \subseteq S
    BY <1>5, <1>6, Induct
  <2> QED
    BY <2>1
<1> QED
  BY <1>3, <1>4, <1>7

LEMMA PowGrows ==
  ASSUME NEW base \in Nat, base >= 1, NEW m \in Nat, NEW n \in Nat
  PROVE  /\ Pow(base, m + n) = Pow(base, m) * Pow(base, n)
         /\ m <= n => Pow(base, m) <= Pow(base, n)
         /\ Pow(base, m) < Pow(base, n) => m < n
<1>1. ASSUME NEW k \in Nat
      PROVE  /\ Pow(base, k) \in Nat /\ Pow(base, k) >= 1
             /\ Pow(base, k + 1) = base * Pow(base, k)
  BY PowStep
<1>2. ASSUME NEW a \in Nat, NEW b \in Nat PROVE Pow(base, a + b) = Pow(base, a) * Pow(base, b)
  <2> DEFINE S == {k \in Nat : Pow(base, a + k) = Pow(base, a) * Pow(base, k)}
  <2>1. 0 \in S
    <3>1. a + 0 = a /\ Pow(base, 0) = 1 /\ Pow(base, a) \in Nat
      BY <1>1, PowStep
    <3> QED
      BY <3>1
  <2>2. ASSUME NEW k \in Nat, k \in S PROVE k + 1 \in S
    <3>1. a + (k + 1) = (a + k) + 1 /\ a + k \in Nat
      OBVIOUS
    <3>2. /\ Pow(base, (a + k) + 1) = base * Pow(base, a + k)
          /\ Pow(base, k + 1) = base * Pow(base, k) /\ Pow(base, a) \in Nat /\ Pow(base, k) \in Nat
      BY <1>1, <3>1
    <3>3. Pow(base, a + k) = Pow(base, a) * Pow(base, k)
      BY <2>2
    <3> DEFINE p == Pow(base, a)
               q == Pow(base, k)
    <3>4. p \in Nat /\ q \in Nat
      BY <3>2
    <3> HIDE DEF p, q
    <3>5. base * (p * q) = p * (base * q)
      BY <3>4
    <3>6. Pow(base, a + (k + 1)) = Pow(base, a) * Pow(base, k + 1)
      BY <3>1, <3>2, <3>3, <3>5 DEF p, q
    <3> QED
      BY <3>6
  <2>3. b \in S
    <3> HIDE DEF S
    <3>1. Nat \subseteq S
      BY <2>1, <2>2, Induct
    <3> QED
      BY <3>1
  <2> QED
    BY <2>3
<1>3. ASSUME NEW a \in Nat, NEW b \in Nat, a <= b PROVE Pow(base, a) <= Pow(base, b)
  <2> DEFINE d == b - a
  <2>1. d \in Nat /\ a + d = b
    BY <1>3
  <2> HIDE DEF d
  <2>2. Pow(base, b) = Pow(base, a) * Pow(base, d) /\ Pow(base, a) \in Nat /\ Pow(base, d) \in Nat
        /\ Pow(base, d) >= 1
    BY <1>1, <1>2, <2>1
  <2>3. \A p, q \in Nat : q >= 1 => p <= p * q
    OBVIOUS
  <2> QED
    BY <2>2, <2>3
<1>4. ASSUME Pow(base, m) < Pow(base, n), ~(m < n) PROVE FALSE
  <2>1. Pow(base, n) <= Pow(base, m)
    BY <1>3, <1>4
  <2> QED
    BY <1>1, <1>4, <2>1
<1> QED
  BY <1>2, <1>3, <1>4

\* Digits alone stay below the power, and with a number above them they do not.
LEMMA HornerBound ==
  ASSUME NEW base \in Nat, base >= 1, NEW n \in Nat, NEW s, Digits(base, s, 1, n), NEW z \in Nat,
         NEW a \in 1 .. n + 1
  PROVE  /\ Horner(base, s, a, n, z) \in Nat
         /\ z = 0 => Horner(base, s, a, n, z) < Pow(base, n)
         /\ z >= 1 /\ a = 1 => Horner(base, s, a, n, z) >= Pow(base, n)
<1>1. ASSUME NEW k \in 1 .. n + 1
      PROVE  Integral(s, k, n) /\ Digits(base, s, k, n) /\ k \in Int
  BY DEF Integral, Digits
<1> DEFINE H(k) == Horner(base, s, k, n, z)
           P(k) == Pow(base, n + 1 - k)
           S == {k \in 1 .. n + 1 : (z = 0 => H(k) < P(k)) /\ (z >= 1 => H(k) >= P(k))}
<1>2. ASSUME NEW k \in 1 .. n + 1
      PROVE  /\ H(k) \in Nat /\ P(k) \in Nat /\ (k > n => H(k) = z /\ P(k) = 1)
             /\ k <= n => H(k) = s[k] + base * H(k + 1) /\ P(k) = base * P(k + 1)
  <2>1. /\ H(k) \in Int /\ (k > n => H(k) = z)
        /\ k <= n => H(k) = s[k] + base * H(k + 1)
    BY <1>1, HornerStep
  <2>2. H(k) >= 0
    <3>1. z \in Int /\ z >= 0 /\ n \in Int
      OBVIOUS
    <3> QED
      BY <1>1, <3>1, HornerSign
  <2>3. P(k) \in Nat
    <3>1. n + 1 - k \in Nat
      OBVIOUS
    <3> QED
      BY <3>1, PowStep
  <2>4. k > n => P(k) = 1
    <3>1. k > n => n + 1 - k = 0
      OBVIOUS
    <3>2. Pow(base, 0) = 1
      <4>1. 0 \in Nat
        OBVIOUS
      <4> QED
        BY <4>1, PowStep
    <3> QED
      BY <3>1, <3>2
  <2>5. ASSUME k <= n PROVE P(k) = base * P(k + 1)
    <3> DEFINE m == n + 1 - (k + 1)
    <3>1. m \in Nat /\ m + 1 = n + 1 - k
      BY <2>5
    <3> HIDE DEF m
    <3>2. Pow(base, m + 1) = base * Pow(base, m)
      BY <3>1, PowStep
    <3> QED
      BY <3>1, <3>2 DEF m
  <2> HIDE DEF H, P
  <2> QED
    BY <2>1, <2>2, <2>3, <2>4, <2>5
<1>3. n + 1 \in S
  <2>1. n + 1 \in 1 .. n + 1 /\ n + 1 > n
    OBVIOUS
  <2>2. H(n + 1) = z /\ P(n + 1) = 1
    BY <1>2, <2>1
  <2> HIDE DEF H, P
  <2> QED
    BY <2>1, <2>2
<1>4. ASSUME NEW k \in 1 .. n + 1 - 1, k + 1 \in S PROVE k \in S
  <2>1. k \in 1 .. n + 1 /\ k + 1 \in 1 .. n + 1 /\ k <= n /\ k \in 1 .. n
    OBVIOUS
  <2>2. /\ H(k) = s[k] + base * H(k + 1) /\ P(k) = base * P(k + 1)
        /\ H(k + 1) \in Nat /\ P(k + 1) \in Nat
    BY <1>2, <2>1
  <2>3. (z = 0 => H(k + 1) < P(k + 1)) /\ (z >= 1 => H(k + 1) >= P(k + 1))
    BY <1>4
  <2>4. s[k] \in Nat /\ s[k] < base
    BY <2>1 DEF Digits
  <2> DEFINE h == H(k + 1)
             p == P(k + 1)
  <2>5. h \in Nat /\ p \in Nat /\ (z = 0 => h + 1 <= p) /\ (z >= 1 => h >= p)
        /\ H(k) = s[k] + base * h /\ P(k) = base * p
    BY <2>2, <2>3
  <2> HIDE DEF h, p
  <2>6. \A u, v \in Nat : u <= v => base * u <= base * v
    OBVIOUS
  <2>7. /\ z = 0 => base * (h + 1) <= base * p
        /\ z >= 1 => base * p <= base * h
    BY <2>5, <2>6
  <2>8. base * (h + 1) = base * h + base /\ base * h \in Nat /\ base * p \in Nat
    BY <2>5
  <2>9. (z = 0 => H(k) < P(k)) /\ (z >= 1 => H(k) >= P(k))
    BY <2>4, <2>5, <2>7, <2>8
  <2> HIDE DEF H, P
  <2> QED
    BY <2>1, <2>9
<1>5. a \in S
  <2> DEFINE top == n + 1
  <2>1. 1 \in Int /\ top \in Int /\ 1 <= top /\ top \in S /\ \A k \in 1 .. top - 1 : k + 1 \in S => k \in S
    BY <1>3, <1>4
  <2> HIDE DEF S, top
  <2>2. \A k \in 1 .. top : k \in S
    BY <2>1, Downward
  <2> QED
    BY <2>2 DEF top
<1>6. H(a) \in Nat /\ P(a) <= Pow(base, n) /\ (a = 1 => P(a) = Pow(base, n))
  <2>1. n + 1 - a \in Nat /\ n + 1 - a <= n /\ (a = 1 => n + 1 - a = n) /\ n \in Nat
    OBVIOUS
  <2> DEFINE m == n + 1 - a
  <2>2. m \in Nat /\ m <= n
    BY <2>1
  <2> HIDE DEF m
  <2>3. Pow(base, m) <= Pow(base, n)
    BY <2>2, PowGrows
  <2>4. H(a) \in Nat
    BY <1>2
  <2> HIDE DEF H
  <2> QED
    BY <2>1, <2>3, <2>4 DEF m
<1>7. P(a) \in Nat /\ Pow(base, n) \in Nat
  <2>1. Pow(base, n) \in Nat
    BY PowStep
  <2> QED
    BY <1>2, <2>1
<1> HIDE DEF P
<1> QED
  BY <1>5, <1>6, <1>7

\* Two texts of digits without zeros on top that are worth the same are the same.
LEMMA Unique ==
  ASSUME NEW base \in Nat, base >= 2, NEW n \in Nat, NEW m \in Nat, NEW s, NEW t,
         Digits(base, s, 1, n), Digits(base, t, 1, m),
         n = 0 \/ s[n] # 0, m = 0 \/ t[m] # 0,
         Horner(base, s, 1, n, 0) = Horner(base, t, 1, m, 0)
  PROVE  n = m /\ \A k \in 1 .. n : s[k] = t[k]
<1> DEFINE G(k) == Horner(base, s, k, n, 0)
           H(k) == Horner(base, t, k, m, 0)
           S == {k \in Nat : k <= n /\ k <= m => G(k + 1) = H(k + 1) /\ \A e \in 1 .. k : s[e] = t[e]}
<1>1. ASSUME NEW u, NEW l \in Nat, Digits(base, u, 1, l), NEW k \in Nat, k >= 1
      PROVE  /\ Horner(base, u, k, l, 0) \in Nat
             /\ k > l => Horner(base, u, k, l, 0) = 0
             /\ k <= l => /\ u[k] \in 0 .. base - 1
                          /\ Horner(base, u, k, l, 0) = u[k] + base * Horner(base, u, k + 1, l, 0)
  <2>1. Integral(u, k, l) /\ Digits(base, u, k, l) /\ k \in Int /\ l \in Int /\ 0 \in Int /\ 0 >= 0
        /\ base >= 1
    BY <1>1 DEF Integral, Digits
  <2>2. Horner(base, u, k, l, 0) \in Int /\ Horner(base, u, k, l, 0) >= 0
    BY <2>1, HornerSign
  <2>3. /\ k > l => Horner(base, u, k, l, 0) = 0
        /\ k <= l => Horner(base, u, k, l, 0) = u[k] + base * Horner(base, u, k + 1, l, 0)
    BY <2>1, HornerStep
  <2>4. k <= l => u[k] \in 0 .. base - 1
    BY <1>1 DEF Digits
  <2> QED
    BY <2>2, <2>3, <2>4
<1>2. ASSUME NEW p \in 0 .. base - 1, NEW q \in 0 .. base - 1, NEW g \in Nat, NEW h \in Nat,
             p + base * g = q + base * h
      PROVE  p = q /\ g = h
  <2>1. base * g \in Nat /\ base * h \in Nat
    OBVIOUS
  <2>2. ASSUME NEW u \in Nat, NEW v \in Nat, u < v PROVE base * u + base <= base * v
    <3>1. base * (u + 1) <= base * v
      <4>1. \A a, b \in Nat : a <= b => base * a <= base * b
        OBVIOUS
      <4> QED
        BY <2>2, <4>1
    <3>2. base * (u + 1) = base * u + base
      OBVIOUS
    <3> QED
      BY <3>1, <3>2
  <2>3. ~(g < h)
    <3>1. SUFFICES ASSUME g < h PROVE FALSE
      OBVIOUS
    <3>2. base * g + base <= base * h
      BY <2>2, <3>1
    <3> QED
      BY <1>2, <2>1, <3>2
  <2>4. ~(h < g)
    <3>1. SUFFICES ASSUME h < g PROVE FALSE
      OBVIOUS
    <3>2. base * h + base <= base * g
      BY <2>2, <3>1
    <3> QED
      BY <1>2, <2>1, <3>2
  <2>5. g = h
    BY <2>3, <2>4
  <2> QED
    BY <1>2, <2>1, <2>5
<1>3. 0 \in S
  OBVIOUS
<1>4. ASSUME NEW k \in Nat, k \in S PROVE k + 1 \in S
  <2>1. SUFFICES ASSUME k + 1 <= n /\ k + 1 <= m
                 PROVE  G(k + 1 + 1) = H(k + 1 + 1) /\ \A e \in 1 .. k + 1 : s[e] = t[e]
    OBVIOUS
  <2>2. G(k + 1) = H(k + 1) /\ \A e \in 1 .. k : s[e] = t[e]
    BY <1>4, <2>1
  <2> DEFINE d == k + 1
  <2>3. d \in Nat /\ d >= 1 /\ d <= n /\ d <= m /\ d + 1 \in Nat /\ d + 1 >= 1
    BY <2>1
  <2> HIDE DEF d
  <2>4. /\ s[d] \in 0 .. base - 1 /\ G(d) = s[d] + base * G(d + 1)
        /\ t[d] \in 0 .. base - 1 /\ H(d) = t[d] + base * H(d + 1)
    BY <1>1, <2>3
  <2>5. G(d + 1) \in Nat /\ H(d + 1) \in Nat
    BY <1>1, <2>3
  <2>6. G(d) = H(d)
    BY <2>2 DEF d
  <2> HIDE DEF G, H
  <2>7. s[d] = t[d] /\ G(d + 1) = H(d + 1)
    BY <1>2, <2>4, <2>5, <2>6
  <2>8. \A e \in 1 .. k + 1 : e = d \/ e \in 1 .. k
    BY DEF d
  <2> QED
    BY <2>2, <2>7, <2>8 DEF d
<1>5. ASSUME NEW k \in Nat PROVE k \in S
  <2> HIDE DEF S
  <2>1. Nat \subseteq S
    BY <1>3, <1>4, Induct
  <2> QED
    BY <2>1
\* A digit that is left over is worth something.
<1>6. ASSUME NEW u, NEW l \in Nat, Digits(base, u, 1, l), u[l] # 0, NEW k \in Nat, k < l
      PROVE  Horner(base, u, k + 1, l, 0) # 0
  <2> DEFINE T == {e \in 1 .. l : Horner(base, u, e, l, 0) # 0}
  <2>1. l \in Nat /\ l >= 1 /\ l <= l /\ l + 1 > l /\ l + 1 \in Nat /\ l + 1 >= 1
    BY <1>6
  <2>2. l \in T
    <3>1. Horner(base, u, l, l, 0) = u[l] + base * Horner(base, u, l + 1, l, 0) /\ u[l] \in 0 .. base - 1
      BY <1>1, <1>6, <2>1
    <3>2. Horner(base, u, l + 1, l, 0) = 0
      BY <1>1, <1>6, <2>1
    <3>3. Horner(base, u, l, l, 0) = u[l]
      BY <3>1, <3>2
    <3> QED
      BY <1>6, <2>1, <3>3
  <2>3. ASSUME NEW e \in 1 .. l - 1, e + 1 \in T PROVE e \in T
    <3>1. e \in Nat /\ e >= 1 /\ e <= l /\ e + 1 \in Nat /\ e + 1 >= 1
      OBVIOUS
    <3>2. Horner(base, u, e, l, 0) = u[e] + base * Horner(base, u, e + 1, l, 0) /\ u[e] \in 0 .. base - 1
      BY <1>1, <1>6, <3>1
    <3>3. Horner(base, u, e + 1, l, 0) \in Nat /\ Horner(base, u, e + 1, l, 0) # 0
      BY <1>1, <1>6, <2>3, <3>1
    <3> DEFINE w == Horner(base, u, e + 1, l, 0)
    <3>4. w \in Nat /\ w >= 1
      BY <3>3
    <3> HIDE DEF w
    <3>5. base * w \in Nat /\ base * w >= 1
      BY <3>4
    <3>6. Horner(base, u, e, l, 0) # 0
      BY <3>2, <3>5 DEF w
    <3> QED
      BY <3>1, <3>6
  <2>4. \A e \in 1 .. l : e \in T
    <3>1. 1 \in Int /\ l \in Int /\ 1 <= l
      BY <2>1
    <3> HIDE DEF T
    <3> QED
      BY <2>2, <2>3, <3>1, Downward
  <2>5. k + 1 \in 1 .. l
    BY <1>6
  <2> QED
    BY <2>4, <2>5
<1>7. n = m
  <2>1. ASSUME n < m PROVE FALSE
    <3>1. G(n + 1) = H(n + 1)
      BY <1>5, <2>1
    <3>2. G(n + 1) = 0
      <4>1. n + 1 \in Nat /\ n + 1 >= 1 /\ n + 1 > n
        OBVIOUS
      <4> QED
        BY <1>1, <4>1
    <3>3. H(n + 1) # 0
      <4>1. t[m] # 0
        BY <2>1
      <4> QED
        BY <1>6, <2>1, <4>1
    <3> QED
      BY <3>1, <3>2, <3>3
  <2>2. ASSUME m < n PROVE FALSE
    <3>1. G(m + 1) = H(m + 1)
      BY <1>5, <2>2
    <3>2. H(m + 1) = 0
      <4>1. m + 1 \in Nat /\ m + 1 >= 1 /\ m + 1 > m
        OBVIOUS
      <4> QED
        BY <1>1, <4>1
    <3>3. G(m + 1) # 0
      <4>1. s[n] # 0
        BY <2>2
      <4> QED
        BY <1>6, <2>2, <4>1
    <3> QED
      BY <3>1, <3>2, <3>3
  <2> QED
    BY <2>1, <2>2
<1> QED
  BY <1>5, <1>7

-----------------------------------------------------------------------------
(***************************************************************************)
(* What is written and what is shown.  The number of the digits that are   *)
(* read is that of the limbs and the chunk; a loop over the limbs, which   *)
(* multiplies from the low one up or divides from the high one down, keeps *)
(* the number of the limbs below it with what it holds above them; and the *)
(* digits that are shown, with the number that is left above them, are the *)
(* number that is written.                                                 *)
(***************************************************************************)
Back == [k \in 1 .. Len(text) |-> text[Len(text) - k + 1]]
Written == Horner(Radix, Back, Len(text) - pos + 1, Len(text), 0)
Rest(f) == Horner(Base, limbs, 1, at, held + f * Suffix(limbs, at + 1))
Kept ==
  /\ shown \in Seq(Digit) /\ size \in Nat
  /\ phase \notin {"show", "done"} => shown = << >> /\ size = 0
  /\ phase = "start" => pos = 0 /\ value = 0 /\ factor = 1 /\ limbs = << >>
  /\ phase \notin {"start", "refused"} => text # << >>
  /\ phase = "read" => Written = value + factor * Magnitude(limbs) /\ Trimmed(limbs)
  /\ Flushing => /\ Written = Rest(factor)
                 /\ Trimmed(limbs) \/ (at = Len(limbs) /\ held # 0)
  /\ phase \in {"last", "show", "done"} => pos = Len(text)
  /\ phase = "show" => /\ Written = Horner(Radix, shown, 1, Len(shown), Rest(Radix))
                       /\ limbs = << >> => held = 0 /\ Trimmed(shown)
                       /\ limbs # << >> => Rest(Radix) > 0
  /\ phase = "done" => /\ Written = Horner(Radix, shown, 1, Len(shown), 0) /\ shown # << >>
                       /\ shown = <<0>> \/ Trimmed(shown)

\* The digits of the text from the last one back.
LEMMA BackIs ==
  ASSUME text \in Seq(Digit)
  PROVE  /\ Back \in Seq(Digit) /\ Len(Back) = Len(text) /\ Len(text) \in Nat
         /\ Digits(Radix, Back, 1, Len(text))
         /\ \A k \in 1 .. Len(text) : Back[k] = text[Len(text) - k + 1]
<1>1. Len(text) \in Nat /\ \A k \in 1 .. Len(text) : text[k] \in Digit
  OBVIOUS
<1>2. \A k \in 1 .. Len(text) : Len(text) - k + 1 \in 1 .. Len(text)
  BY <1>1
<1>3. Back \in [1 .. Len(text) -> Digit]
  BY <1>1, <1>2 DEF Back
<1>4. Back \in Seq(Digit) /\ Len(Back) = Len(text)
  <2> HIDE DEF Back
  <2> QED
    BY <1>1, <1>3, SeqDef, LenProperties
<1>5. \A k \in 1 .. Len(text) : Back[k] \in Digit
  BY <1>3
<1> QED
  BY <1>1, <1>4, <1>5 DEF Back, Digits, Digit

\* One more digit is read.
LEMMA WrittenStep ==
  ASSUME text \in Seq(Digit), NEW p \in Nat, p < Len(text)
  PROVE  /\ Horner(Radix, Back, Len(text) - p + 1, Len(text), 0) \in Nat
         /\ Horner(Radix, Back, Len(text) - (p + 1) + 1, Len(text), 0)
              = text[p + 1] + Radix * Horner(Radix, Back, Len(text) - p + 1, Len(text), 0)
<1> DEFINE n == Len(text)
           a == n - p
<1>1. n \in Nat /\ Digits(Radix, Back, 1, n) /\ a \in 1 .. n /\ a \in Int /\ a + 1 \in Int /\ n \in Int
      /\ 0 \in Int /\ 0 >= 0 /\ a <= n /\ n - (p + 1) + 1 = a /\ n - p + 1 = a + 1
  BY BackIs
<1>2. Back[a] = text[p + 1]
  <2>1. Len(text) - a + 1 = p + 1
    BY <1>1
  <2> QED
    BY <1>1, <2>1, BackIs
<1> HIDE DEF a, n
<1>3. Integral(Back, a, n) /\ Digits(Radix, Back, a + 1, n)
  BY <1>1 DEF Integral, Digits
<1>4. Radix \in Nat /\ Radix >= 1
  BY RadixAssumption
<1>5. Horner(Radix, Back, a, n, 0) = Back[a] + Radix * Horner(Radix, Back, a + 1, n, 0)
  BY <1>1, <1>3, <1>4, HornerStep
<1>6. Horner(Radix, Back, a + 1, n, 0) \in Int /\ Horner(Radix, Back, a + 1, n, 0) >= 0
  BY <1>1, <1>3, <1>4, HornerSign
<1> QED
  BY <1>1, <1>2, <1>5, <1>6 DEF n

LEMMA WrittenBegin ==
  ASSUME text \in Seq(Digit)
  PROVE  Horner(Radix, Back, Len(text) - 0 + 1, Len(text), 0) = 0
<1> DEFINE n == Len(text)
           a == n - 0 + 1
<1>1. n \in Int /\ a \in Int /\ a > n /\ 0 \in Int /\ Integral(Back, a, n) /\ Radix \in Nat
  BY BackIs, RadixAssumption DEF Integral
<1> HIDE DEF n, a
<1>2. Horner(Radix, Back, a, n, 0) = 0
  BY <1>1, HornerStep
<1> QED
  BY <1>2 DEF n, a

\* A loop over the limbs that has not begun, and one that has ended.
LEMMA RestIs ==
  ASSUME limbs \in Seq(Limb), held \in Nat, NEW f \in Nat
  PROVE  /\ at = 0 => Rest(f) = held + f * Magnitude(limbs)
         /\ at = Len(limbs) => Rest(f) = Horner(Base, limbs, 1, Len(limbs), held)
         /\ Magnitude(limbs) \in Nat
<1>1. Len(limbs) \in Nat /\ Base \in Nat
  BY BaseAssumption
<1>2. ASSUME at = 0 PROVE Rest(f) = held + f * Magnitude(limbs)
  <2>1. Suffix(limbs, 0 + 1) = Magnitude(limbs) /\ Magnitude(limbs) \in Nat
    BY FirstSuffix
  <2> DEFINE z == held + f * Magnitude(limbs)
  <2>2. z \in Int
    BY <2>1
  <2>3. Rest(f) = Horner(Base, limbs, 1, 0, z)
    BY <1>2, <2>1 DEF Rest
  <2> HIDE DEF z
  <2>4. Horner(Base, limbs, 1, 0, z) = z
    BY <2>2, NothingMade
  <2> QED
    BY <2>3, <2>4 DEF z
<1>3. ASSUME at = Len(limbs) PROVE Rest(f) = Horner(Base, limbs, 1, Len(limbs), held)
  <2>1. Suffix(limbs, Len(limbs) + 1) = 0
    <3>1. Len(limbs) >= Len(limbs)
      BY <1>1
    <3> QED
      BY <1>1, <3>1, SuffixStep
  <2>2. held + f * 0 = held
    OBVIOUS
  <2> QED
    BY <1>3, <2>1, <2>2 DEF Rest
<1> QED
  BY <1>2, <1>3, MagnitudeIs

\* bignum_muladd keeps the number.
LEMMA MulAddKeeps ==
  ASSUME TextInv, MulAdd
  PROVE  Rest(factor)' = Rest(factor) /\ (limbs'[at + 1] # 0 \/ held' # 0 \/ Cur = 0)
<1>1. /\ Flushing /\ at < Len(limbs) /\ at \in Nat /\ limbs \in Seq(Limb) /\ held \in Nat /\ factor \in Nat
      /\ Len(limbs) \in Nat
  BY LenProperties DEF MulAdd, TextInv, TextTypeOK
<1> DEFINE d == U32(Cur) % Base
           c == U32(Cur) \div Base
           u == Suffix(limbs, at + 2)
           z == c + factor * u
           t == [limbs EXCEPT ![at + 1] = d]
<1>2. at' = at + 1 /\ limbs' = t /\ held' = c /\ factor' = factor
  BY DEF MulAdd, chunk
<1>3. Cur \in Nat /\ Cur = d + Base * c /\ d \in Limb /\ c \in Nat
  <2>1. /\ Cur \in Nat /\ Cur < Word /\ d \in Limb /\ c \in Nat
    BY <1>1, CurFits
  <2>2. U32(Cur) = Cur
    BY <2>1, WordIsItself
  <2>3. Cur = Base * (Cur \div Base) + (Cur % Base)
    BY <2>1, BaseAssumption
  <2>4. Base * (Cur \div Base) \in Nat /\ Cur % Base \in Nat
    BY <2>1, <2>2, BaseAssumption DEF Limb
  <2> QED
    BY <2>1, <2>2, <2>3, <2>4
<1> HIDE DEF d, c
<1>4. /\ Suffix(limbs, at + 1) = At(limbs, at) + Base * u /\ u \in Nat /\ At(limbs, at) \in Limb
      /\ At(limbs, at) = limbs[at + 1]
  BY <1>1, SuffixStep, AtLimb DEF At
<1> HIDE DEF u
<1>5. Base \in Nat /\ \A n \in Limb : n \in Nat
  BY BaseAssumption DEF Limb
<1>6. z \in Int
  BY <1>1, <1>3, <1>4
<1>7. held + factor * Suffix(limbs, at + 1) = d + Base * z
  <2> DEFINE l == limbs[at + 1]
             lf == l * factor
             fu == factor * u
  <2>1. l \in Nat /\ u \in Nat /\ d \in Nat /\ Cur = lf + held
    BY <1>3, <1>4, <1>5 DEF Cur
  <2>2. factor * Suffix(limbs, at + 1) = lf + Base * fu /\ lf \in Nat /\ fu \in Nat
    <3> HIDE DEF l
    <3>1. factor * (l + Base * u) = l * factor + Base * (factor * u)
      BY <1>1, <1>5, <2>1
    <3>2. l * factor \in Nat /\ factor * u \in Nat
      BY <1>1, <2>1
    <3> QED
      BY <1>4, <3>1, <3>2 DEF l
  <2> HIDE DEF lf
  <2>3. Base * z = Base * c + Base * fu /\ Base * c \in Nat /\ Base * fu \in Nat
    <3> HIDE DEF fu
    <3>1. Base * (c + fu) = Base * c + Base * fu
      BY <1>3, <1>5, <2>2
    <3> QED
      BY <1>3, <1>5, <2>2, <3>1 DEF fu
  <2> DEFINE bc == Base * c
             bf == Base * fu
             bz == Base * z
  <2>4. /\ bc \in Nat /\ bf \in Nat /\ bz = bc + bf /\ Cur = d + bc
        /\ factor * Suffix(limbs, at + 1) = lf + bf
    BY <1>3, <2>2, <2>3
  <2> HIDE DEF z, fu, bc, bf, bz
  <2>5. held + factor * Suffix(limbs, at + 1) = d + bz
    BY <1>1, <2>1, <2>2, <2>4
  <2> QED
    BY <2>5 DEF bz
<1>8. t = Put(limbs, at, d)
  BY DEF Put
<1> HIDE DEF t
<1>9. /\ t \in Seq(Limb) /\ Len(t) = Len(limbs) /\ t[at + 1] = d
      /\ \A m \in 1 .. Len(limbs) : m # at + 1 => t[m] = limbs[m]
      /\ Horner(Base, limbs, 1, at, d + Base * z) = Horner(Base, t, 1, at + 1, z)
  <2>1. 1 \in Int /\ 1 <= 1 /\ 1 <= at + 1
    BY <1>1
  <2> HIDE DEF z
  <2> QED
    BY <1>1, <1>3, <1>6, <1>8, <2>1, Advance
<1>10. Suffix(t, at + 2) = u
  <2>1. at + 2 \in Int /\ Len(limbs) \in Int /\ at + 2 >= 1 /\ Len(limbs) <= Len(limbs) /\ 0 \in Int
    BY <1>1
  <2>2. Integral(limbs, at + 2, Len(limbs))
    BY <1>1, <2>1, LimbsIntegral
  <2>3. \A m \in at + 2 .. Len(limbs) : limbs[m] = t[m]
    BY <1>1, <1>9
  <2>4. Horner(Base, limbs, at + 2, Len(limbs), 0) = Horner(Base, t, at + 2, Len(limbs), 0)
    BY <1>5, <2>1, <2>2, <2>3, HornerSame
  <2> QED
    BY <1>9, <2>4 DEF Suffix, u
<1>11. Rest(factor)' = Horner(Base, t, 1, at + 1, z)
  <2>1. Rest(factor)' = Horner(Base, t, 1, at + 1, c + factor * Suffix(t, at + 1 + 1))
    BY <1>2 DEF Rest
  <2>2. at + 1 + 1 = at + 2
    BY <1>1
  <2> QED
    BY <1>10, <2>1, <2>2
<1>12. Rest(factor) = Horner(Base, limbs, 1, at, d + Base * z)
  BY <1>7 DEF Rest
<1>13. d # 0 \/ c # 0 \/ Cur = 0
  <2>1. d = 0 /\ c = 0 => Cur = 0
    BY <1>3, <1>5
  <2> QED
    BY <2>1
<1> QED
  BY <1>2, <1>9, <1>11, <1>12, <1>13

\* So does the division by ten, from the high limb down.
LEMMA DivideKeeps ==
  ASSUME TextInv, Divide
  PROVE  Rest(Radix)' = Rest(Radix)
<1>1. /\ phase = "show" /\ at \in Nat /\ at >= 1 /\ at <= Len(limbs) /\ limbs \in Seq(Limb)
      /\ held \in Nat /\ Len(limbs) \in Nat
  BY LenProperties DEF Divide, TextInv, TextTypeOK
<1> DEFINE n == at - 1
           q == U32(Part) \div Radix
           r == U32(Part) % Radix
           v == Suffix(limbs, at + 1)
           t == [limbs EXCEPT ![at] = q]
           z == q + Base * v
<1>2. at' = n /\ limbs' = t /\ held' = r
  BY DEF Divide
<1>3. Part \in Nat /\ Part = Radix * q + r /\ q \in Limb /\ r \in Nat
  <2>1. Part \in Nat /\ Part < Word /\ q \in Limb /\ r \in Nat
    BY <1>1, PartFits
  <2>2. U32(Part) = Part
    BY <2>1, WordIsItself
  <2>3. Part = Radix * (Part \div Radix) + (Part % Radix)
    BY <2>1, RadixAssumption
  <2> QED
    BY <2>1, <2>2, <2>3
<1> HIDE DEF q, r
<1>4. n \in Nat /\ n + 1 = at /\ n < Len(limbs) /\ n + 2 = at + 1 /\ n \in Int
  BY <1>1
<1>5. Base \in Nat /\ Radix \in Nat /\ \A k \in Limb : k \in Nat
  BY BaseAssumption, RadixAssumption DEF Limb
<1>6. v \in Nat /\ limbs[at] \in Nat
  <2>1. Suffix(limbs, n + 2) \in Nat
    BY <1>1, <1>4, SuffixStep
  <2>2. At(limbs, n) \in Limb /\ At(limbs, n) = limbs[n + 1]
    BY <1>1, <1>4, AtLimb DEF At
  <2> QED
    BY <1>4, <1>5, <2>1, <2>2
<1> HIDE DEF v
<1>7. t = Put(limbs, n, q)
  BY <1>4 DEF Put
<1> HIDE DEF t
<1>8. /\ t \in Seq(Limb) /\ Len(t) = Len(limbs) /\ t[at] = q
      /\ \A m \in 1 .. Len(limbs) : m # at => t[m] = limbs[m]
  <2>1. 1 \in Int /\ 1 <= 1 /\ 1 <= n + 1 /\ 0 \in Int
    BY <1>1
  <2> HIDE DEF n
  <2>2. /\ t \in Seq(Limb) /\ Len(t) = Len(limbs) /\ t[n + 1] = q
        /\ \A m \in 1 .. Len(limbs) : m # n + 1 => t[m] = limbs[m]
    BY <1>1, <1>3, <1>4, <1>7, <2>1, Advance
  <2> QED
    BY <1>4, <2>2
<1>9. Suffix(t, n + 1) = z
  <2>1. n + 2 \in Int /\ Len(limbs) \in Int /\ n + 2 >= 1 /\ Len(limbs) <= Len(limbs) /\ 0 \in Int
    BY <1>1
  <2>2. Integral(limbs, n + 2, Len(limbs))
    BY <1>1, <2>1, LimbsIntegral
  <2>3. \A m \in n + 2 .. Len(limbs) : limbs[m] = t[m]
    BY <1>1, <1>8
  <2> HIDE DEF n
  <2>4. Horner(Base, limbs, n + 2, Len(limbs), 0) = Horner(Base, t, n + 2, Len(limbs), 0)
    BY <1>5, <2>1, <2>2, <2>3, HornerSame
  <2>5. Suffix(t, n + 2) = v
    BY <1>4, <1>8, <2>4 DEF Suffix, v
  <2>6. Suffix(t, n + 1) = At(t, n) + Base * Suffix(t, n + 2)
    BY <1>4, <1>8, SuffixStep
  <2>7. At(t, n) = q
    BY <1>4, <1>8 DEF At
  <2> QED
    BY <2>5, <2>6, <2>7
<1>10. z \in Nat
  BY <1>3, <1>5, <1>6
<1>11. limbs[n + 1] + Base * (held + Radix * v) = r + Radix * z
  <2> DEFINE l == limbs[at]
             hb == held * Base
             rv == Radix * v
             rq == Radix * q
             brv == Base * rv
  <2>1. /\ l \in Nat /\ Part = hb + l /\ hb \in Nat /\ rv \in Nat /\ brv \in Nat /\ rq \in Nat
        /\ q \in Nat
    BY <1>1, <1>3, <1>5, <1>6 DEF Part
  <2>2. Base * (held + rv) = hb + brv
    <3> HIDE DEF rv
    <3> QED
      BY <1>1, <1>5, <2>1
  <2>3. Radix * z = rq + brv
    <3>1. Radix * (q + Base * v) = Radix * q + Base * (Radix * v)
      BY <1>5, <1>6, <2>1
    <3> QED
      BY <3>1
  <2>4. Part = rq + r
    BY <1>3
  <2> DEFINE b1 == Base * (held + rv)
             b2 == Radix * z
  <2>5. b1 = hb + brv /\ b2 = rq + brv
    BY <2>2, <2>3
  <2> HIDE DEF l, hb, rq, brv, b1, b2, rv, z
  <2>6. l + b1 = r + b2
    BY <1>3, <2>1, <2>4, <2>5
  <2> QED
    BY <1>4, <2>6 DEF l, b1, b2, rv
<1>12. Rest(Radix) = Horner(Base, limbs, 1, n + 1, held + Radix * v)
  BY <1>4 DEF Rest, v
<1>13. Rest(Radix)' = Horner(Base, t, 1, n, r + Radix * z)
  BY <1>2, <1>9, RadixAssumption DEF Rest
<1>14. Horner(Base, limbs, 1, n + 1, held + Radix * v) = Horner(Base, limbs, 1, n, limbs[n + 1] + Base * (held + Radix * v))
  <2> DEFINE w == held + Radix * v
  <2>1. w \in Int
    BY <1>1, <1>5, <1>6
  <2>2. 1 \in Int /\ n \in Int /\ 1 <= n + 1
    BY <1>1
  <2>3. Integral(limbs, 1, n + 1)
    <3>1. 1 \in Int /\ n + 1 <= Len(limbs) /\ 1 >= 1 /\ n + 1 \in Int
      BY <1>1
    <3> QED
      BY <1>1, <3>1, LimbsIntegral
  <2> HIDE DEF w, n
  <2>4. Horner(Base, limbs, 1, n + 1, w) = Horner(Base, limbs, 1, n, limbs[n + 1] + Base * w)
    BY <2>1, <2>2, <2>3, BaseAssumption, HornerLast
  <2> QED
    BY <2>4 DEF w
<1>15. Horner(Base, limbs, 1, n, r + Radix * z) = Horner(Base, t, 1, n, r + Radix * z)
  <2> DEFINE w == r + Radix * z
  <2>1. w \in Int
    BY <1>3, <1>5, <1>10
  <2>2. 1 \in Int /\ n <= Len(limbs) /\ 1 >= 1
    BY <1>1
  <2>3. Integral(limbs, 1, n) /\ \A m \in 1 .. n : limbs[m] = t[m]
    <3>1. Integral(limbs, 1, n)
      BY <1>1, <1>4, <2>2, LimbsIntegral
    <3>2. \A m \in 1 .. n : m \in 1 .. Len(limbs) /\ m # at
      BY <1>1
    <3> QED
      BY <1>8, <3>1, <3>2
  <2> HIDE DEF w, n
  <2>4. Horner(Base, limbs, 1, n, w) = Horner(Base, t, 1, n, w)
    BY <1>4, <1>5, <2>1, <2>2, <2>3, HornerSame
  <2> QED
    BY <2>4 DEF w
<1> QED
  BY <1>11, <1>12, <1>13, <1>14, <1>15

\* What the loop of bignum_muladd holds at its end becomes the limbs on top, of
\* which the highest is not zero: bignum_of_decimal need not trim.
LEMMA PushKeeps ==
  ASSUME TextInv, Flushing, at = Len(limbs), Trimmed(limbs) \/ held # 0
  PROVE  /\ Magnitude(limbs \o CarryOut) = Rest(factor)
         /\ Trimmed(limbs \o CarryOut) /\ limbs \o CarryOut \in Seq(Limb)
<1> DEFINE t == limbs \o CarryOut
           n == Len(limbs)
           m == Len(CarryOut)
<1>1. /\ limbs \in Seq(Limb) /\ held \in Nat /\ factor \in Nat /\ n \in Nat
      /\ CarryOut \in Seq(Limb) /\ held < factor /\ factor <= Power[Chunk]
  BY LenProperties, CarryLimbs DEF TextInv, TextTypeOK, Bounds
<1>2. Base \in Nat /\ Base >= 2 /\ held < Base * Base /\ Base * Base \in Nat
  BY <1>1, TextConstants
<1>3. /\ t \in Seq(Limb) /\ Len(t) = n + m /\ m \in Nat
      /\ \A k \in 1 .. n : t[k] = limbs[k]
      /\ \A k \in 1 .. m : t[n + k] = CarryOut[k]
  <2>1. t \in Seq(Limb) /\ Len(t) = n + m /\ m \in Nat
    BY <1>1, ConcatProperties, LenProperties
  <2>2. \A k \in 1 .. n + m : t[k] = IF k <= n THEN limbs[k] ELSE CarryOut[k - n]
    BY <1>1, ConcatProperties
  <2>3. \A k \in 1 .. n : t[k] = limbs[k]
    BY <1>1, <2>1, <2>2
  <2>4. ASSUME NEW k \in 1 .. m PROVE t[n + k] = CarryOut[k]
    <3>1. n + k \in 1 .. n + m /\ ~(n + k <= n) /\ n + k - n = k
      BY <1>1, <2>1
    <3> QED
      BY <2>2, <3>1
  <2> QED
    BY <2>1, <2>3, <2>4
<1>4. /\ held = Base * (held \div Base) + (held % Base) /\ held % Base \in Limb /\ held \div Base \in Limb
  <2>1. Base >= 1
    BY <1>2
  <2>2. held % Base \in 0 .. Base - 1 /\ held \div Base \in 0 .. Base - 1
    BY <1>1, <1>2, <2>1, Quotient
  <2> QED
    BY <1>1, <1>2, <2>2 DEF Limb
<1>5. /\ held = 0 => CarryOut = << >>
      /\ held # 0 /\ held \div Base = 0 => CarryOut = << held % Base >>
      /\ held \div Base # 0 => m = 2 /\ CarryOut[1] = held % Base /\ CarryOut[2] = held \div Base
  <2>1. held = 0 => held \div Base = 0
    BY <1>1, <1>2
  <2> DEFINE p == << held % Base >>
             q == << held \div Base >>
  <2>2. p \o << >> = p /\ << >> \o << >> = << >>
    OBVIOUS
  <2>3. p \in Seq(Limb) /\ q \in Seq(Limb) /\ Len(p) = 1 /\ Len(q) = 1
        /\ p[1] = held % Base /\ q[1] = held \div Base
    BY <1>4
  <2>4. Len(p \o q) = 2 /\ (p \o q)[1] = held % Base /\ (p \o q)[2] = held \div Base
    <3> HIDE DEF p, q
    <3>1. /\ Len(p \o q) = Len(p) + Len(q)
          /\ \A k \in 1 .. Len(p) + Len(q) :
               (p \o q)[k] = IF k <= Len(p) THEN p[k] ELSE q[k - Len(p)]
      BY <2>3, ConcatProperties
    <3>2. 1 \in 1 .. 2 /\ 2 \in 1 .. 2 /\ 1 + 1 = 2 /\ 2 - 1 = 1 /\ 1 <= 1 /\ ~(2 <= 1)
      OBVIOUS
    <3> QED
      BY <2>3, <3>1, <3>2
  <2>5. CASE held = 0
    BY <2>1, <2>2, <2>5 DEF CarryOut
  <2>6. CASE held # 0 /\ held \div Base = 0
    BY <2>2, <2>6 DEF CarryOut
  <2>7. CASE held \div Base # 0
    <3>1. CarryOut = p \o q
      BY <2>1, <2>7 DEF CarryOut
    <3> HIDE DEF p, q
    <3> QED
      BY <2>1, <2>4, <2>7, <3>1
  <2> QED
    BY <2>5, <2>6, <2>7
<1> HIDE DEF t
<1>6. Suffix(t, n + 1) = held
  <2>1. /\ Suffix(t, n + 1) = At(t, n) + Base * Suffix(t, n + 2)
        /\ n >= Len(t) => Suffix(t, n + 1) = 0
        /\ Suffix(t, n + 2) \in Nat
    BY <1>1, <1>3, SuffixStep
  <2>2. CASE held = 0
    <3>1. m = 0 /\ n >= Len(t)
      BY <1>1, <1>3, <1>5, <2>2
    <3> QED
      BY <2>1, <2>2, <3>1
  <2> DEFINE p == n + 1
  <2>3. p \in Nat /\ p + 1 = n + 2
    BY <1>1
  <2> HIDE DEF p
  <2>4. /\ Suffix(t, p + 1) = At(t, p) + Base * Suffix(t, p + 2)
        /\ p >= Len(t) => Suffix(t, p + 1) = 0
        /\ Suffix(t, p + 2) \in Nat
    BY <1>3, <2>3, SuffixStep
  <2>5. CASE held # 0 /\ held \div Base = 0
    <3>1. CarryOut = << held % Base >> /\ m = 1 /\ CarryOut[1] = held % Base
      BY <1>5, <2>5
    <3>2. At(t, n) = held % Base /\ p >= Len(t)
      <4>1. t[n + 1] = held % Base
        BY <1>3, <3>1
      <4>2. n < Len(t) /\ Len(t) = n + 1
        BY <1>1, <1>3, <3>1
      <4> QED
        BY <4>1, <4>2 DEF At, p
    <3>3. Suffix(t, n + 2) = 0
      BY <2>3, <2>4, <3>2
    <3>4. held % Base = held
      BY <1>1, <1>2, <1>4, <2>5 DEF Limb
    <3>5. Suffix(t, n + 1) = held + Base * 0
      BY <2>1, <3>2, <3>3, <3>4
    <3> QED
      BY <1>1, <1>2, <3>5
  <2>6. CASE held \div Base # 0
    <3>1. m = 2 /\ CarryOut[1] = held % Base /\ CarryOut[2] = held \div Base
      BY <1>5, <2>6
    <3>2. /\ t[n + 1] = held % Base /\ t[n + 2] = held \div Base /\ Len(t) = n + 2 /\ n < Len(t)
      BY <1>1, <1>3, <3>1
    <3>3. At(t, n) = held % Base
      BY <3>2 DEF At
    <3>4. At(t, p) = held \div Base /\ p < Len(t)
      <4>1. p < Len(t) /\ t[p + 1] = held \div Base
        BY <1>1, <2>3, <3>2
      <4> QED
        BY <4>1 DEF At
    <3>5. Suffix(t, p + 2) = 0
      <4> DEFINE e == p + 1
      <4>1. e \in Nat /\ e + 1 = p + 2 /\ e >= Len(t)
        BY <1>1, <2>3, <3>2
      <4> HIDE DEF e
      <4>2. Suffix(t, e + 1) = 0
        BY <1>3, <4>1, SuffixStep
      <4> QED
        BY <4>1, <4>2
    <3>6. Suffix(t, n + 2) = held \div Base
      BY <1>2, <1>4, <2>3, <2>4, <3>4, <3>5 DEF Limb
    <3>7. Suffix(t, n + 1) = (held % Base) + Base * (held \div Base)
      BY <2>1, <3>3, <3>6
    <3> DEFINE u == held % Base
               v == Base * (held \div Base)
    <3>8. u \in Int /\ v \in Int /\ held = v + u /\ Suffix(t, n + 1) = u + v
      BY <1>2, <1>4, <3>7 DEF Limb
    <3> HIDE DEF u, v
    <3> QED
      BY <3>8
  <2> QED
    BY <2>2, <2>5, <2>6
<1>7. Magnitude(t) = Horner(Base, limbs, 1, n, held)
  <2>1. /\ 1 \in Int /\ n \in Int /\ Len(t) \in Int /\ 1 <= n + 1 /\ n <= Len(t) /\ 0 \in Int
        /\ 1 >= 1 /\ Len(t) <= Len(t) /\ n <= Len(limbs)
    BY <1>1, <1>3
  <2>2. Integral(t, 1, Len(t)) /\ Integral(t, 1, n)
    BY <1>3, <2>1, LimbsIntegral
  <2>3. Horner(Base, t, 1, Len(t), 0) = Horner(Base, t, 1, n, Horner(Base, t, n + 1, Len(t), 0))
    BY <1>2, <2>1, <2>2, HornerSplit
  <2>4. Horner(Base, t, n + 1, Len(t), 0) = held
    BY <1>6 DEF Suffix
  <2>5. Horner(Base, t, 1, n, held) = Horner(Base, limbs, 1, n, held)
    <3>1. held \in Int /\ \A k \in 1 .. n : t[k] = limbs[k]
      BY <1>1, <1>3
    <3> QED
      BY <1>2, <2>1, <2>2, <3>1, HornerSame
  <2> QED
    BY <1>3, <2>3, <2>4, <2>5, MagnitudeIs DEF Suffix
<1>8. Trimmed(t)
  <2>1. CASE held = 0
    <3>1. m = 0 /\ Len(t) = n /\ Trimmed(limbs)
      BY <1>1, <1>3, <1>5, <2>1
    <3>2. CASE n = 0
      <4>1. t = << >>
        BY <1>3, <3>1, <3>2
      <4> QED
        BY <4>1 DEF Trimmed
    <3>3. CASE n # 0
      <4>1. n \in 1 .. n /\ limbs # << >>
        BY <1>1, <3>3
      <4> QED
        BY <1>3, <3>1, <4>1 DEF Trimmed
    <3> QED
      BY <3>2, <3>3
  <2>2. CASE held # 0 /\ held \div Base = 0
    <3>1. CarryOut = << held % Base >> /\ m = 1 /\ CarryOut[1] = held % Base
      BY <1>5, <2>2
    <3>2. held % Base = held
      BY <1>1, <1>2, <1>4, <2>2 DEF Limb
    <3>3. t[n + 1] = held /\ Len(t) = n + 1
      BY <1>3, <3>1, <3>2
    <3> QED
      BY <2>2, <3>3 DEF Trimmed
  <2>3. CASE held \div Base # 0
    <3>1. m = 2 /\ CarryOut[2] = held \div Base
      BY <1>5, <2>3
    <3>2. t[n + 2] = held \div Base /\ Len(t) = n + 2
      BY <1>3, <3>1
    <3> QED
      BY <2>3, <3>2 DEF Trimmed
  <2> QED
    BY <2>1, <2>2, <2>3
<1>9. Rest(factor) = Horner(Base, limbs, 1, n, held)
  BY <1>1, RestIs
<1> QED
  BY <1>3, <1>7, <1>8, <1>9 DEF t

LEMMA KeptRead ==
  ASSUME TextInv, Kept, Begin \/ ReadDigit \/ ReadEnd
  PROVE  Kept'
<1>1. /\ limbs \in Seq(Limb) /\ text \in Seq(0 .. Radix) /\ pos \in 0 .. Len(text) /\ Len(text) \in Nat
      /\ value \in Nat /\ factor \in Nat /\ held \in Nat
  BY LenProperties DEF TextInv, TextTypeOK
<1>2. /\ UNCHANGED <<text, limbs, shown, size>> /\ phase \in {"start", "read"}
      /\ shown = << >> /\ size = 0 /\ shown \in Seq(Digit) /\ size \in Nat
  BY DEF Begin, ReadDigit, ReadEnd, string, Kept
<1>3. Magnitude(limbs) \in Nat /\ Magnitude(limbs)' = Magnitude(limbs)
  <2>1. Magnitude(limbs)' = Magnitude(limbs)
    BY <1>2 DEF Magnitude
  <2> QED
    BY <1>1, <2>1, MagnitudeIs
<1>4. Back' = Back
  BY <1>2 DEF Back
<1>5. CASE Begin
  <2>1. phase = "start" /\ phase' \in {"refused", "read"} /\ (phase' = "read" => text # << >>)
        /\ UNCHANGED <<pos, value, factor>>
    BY <1>5 DEF Begin, chunk
  <2>2. pos = 0 /\ value = 0 /\ factor = 1 /\ limbs = << >>
    BY <2>1 DEF Kept
  <2>3. ASSUME phase' = "read" PROVE Written' = 0
    <3>1. TextInv'
      BY <1>5, ReadKeeps
    <3>2. text' \in Seq(Digit)
      BY <2>3, <3>1 DEF TextInv, Bounds
    <3>3. text \in Seq(Digit)
      BY <1>2, <3>2
    <3>4. Written' = Horner(Radix, Back, Len(text) - 0 + 1, Len(text), 0)
      BY <1>2, <1>4, <2>1, <2>2 DEF Written
    <3> QED
      BY <3>3, <3>4, WrittenBegin
  <2>4. Magnitude(limbs) = 0
    <3>1. << >> \in Seq(Limb) /\ Len(<< >>) = 0 /\ 0 \in Nat /\ 0 >= 0
      OBVIOUS
    <3>2. Suffix(<< >>, 0 + 1) = 0
      BY <3>1, SuffixStep
    <3> QED
      BY <2>2, <3>1, <3>2, FirstSuffix
  <2>5. Trimmed(limbs') /\ value' + factor' * Magnitude(limbs)' = 0
    BY <1>2, <1>3, <2>1, <2>2, <2>4 DEF Trimmed
  <2> QED
    BY <1>2, <2>1, <2>3, <2>5 DEF Kept, Flushing
<1>6. CASE ReadDigit
  <2>1. /\ phase = "read" /\ pos < Len(text) /\ pos' = pos + 1
        /\ value' = U32(value * Radix + text[pos + 1]) /\ factor' = U32(factor * Radix)
    BY <1>6 DEF ReadDigit
  <2>2. text \in Seq(Digit) /\ Written = value + factor * Magnitude(limbs) /\ Trimmed(limbs) /\ text # << >>
    BY <2>1 DEF TextInv, Bounds, Kept
  <2>3. value' = value * Radix + text[pos + 1] /\ factor' = factor * Radix /\ value' \in Nat /\ factor' \in Nat
    <3>1. U32(value * Radix + text[pos + 1]) = value * Radix + text[pos + 1]
      <4>1. value * Radix + text[pos + 1] < Word
        BY <2>1, ChunkFits, TextConstants
      <4> QED
        BY <2>1, <4>1, ChunkFits, WordIsItself
    <3>2. U32(factor * Radix) = factor * Radix
      BY <2>1, ChunkFits, WordIsItself
    <3> QED
      BY <2>1, <3>1, <3>2, ChunkFits
  <2>4. Written' = value' + factor' * Magnitude(limbs)
    <3>1. pos \in Nat
      BY <1>1
    <3>2. Written' = text[pos + 1] + Radix * Written /\ Written \in Nat
      <4>1. Written' = Horner(Radix, Back, Len(text) - (pos + 1) + 1, Len(text), 0)
        BY <1>2, <1>4, <2>1 DEF Written
      <4> QED
        BY <2>1, <2>2, <3>1, <4>1, WrittenStep DEF Written
    <3> DEFINE m == Magnitude(limbs)
               fm == factor * m
               e == text[pos + 1]
    <3>3. m \in Nat /\ Radix \in Nat /\ fm \in Nat /\ e \in Int
      <4>1. e \in Digit
        <5>1. pos + 1 \in 1 .. Len(text)
          BY <1>1, <2>1
        <5> QED
          BY <2>2, <5>1
      <4> QED
        BY <1>1, <1>3, <4>1, RadixAssumption DEF Digit
    <3> HIDE DEF m
    <3>4. Radix * (value + fm) = value * Radix + Radix * fm /\ (factor * Radix) * m = Radix * fm
      BY <1>1, <3>3
    <3>5. value * Radix \in Nat /\ Radix * fm \in Nat
      BY <1>1, <3>3
    <3> DEFINE vr == value * Radix
               rf == Radix * fm
    <3>6. /\ Written' = e + (vr + rf) /\ value' = vr + e /\ factor' * m = rf /\ vr \in Nat /\ rf \in Nat
      BY <2>2, <2>3, <3>2, <3>4, <3>5 DEF m
    <3> HIDE DEF fm, vr, rf, e
    <3>7. Written' = value' + factor' * m
      BY <3>3, <3>6
    <3> QED
      BY <3>7 DEF m
  <2>5. CASE count = Chunk - 1
    <3>1. phase' = "flush" /\ at' = 0 /\ held' = value'
      BY <1>6, <2>5 DEF ReadDigit, Flush
    <3>2. Rest(factor)' = held' + factor' * Magnitude(limbs)
      <4>1. limbs' \in Seq(Limb) /\ held' \in Nat /\ factor' \in Nat
        BY <1>1, <1>2, <2>3, <3>1
      <4>2. Rest(factor)' = Horner(Base, limbs, 1, 0, held' + factor' * Suffix(limbs, 0 + 1))
        BY <1>2, <3>1 DEF Rest, Suffix
      <4>3. Suffix(limbs, 0 + 1) = Magnitude(limbs)
        BY <1>1, FirstSuffix
      <4> DEFINE z == held' + factor' * Magnitude(limbs)
      <4>4. z \in Int
        BY <1>3, <4>1
      <4> HIDE DEF z
      <4>5. Horner(Base, limbs, 1, 0, z) = z
        BY <4>4, NothingMade
      <4> QED
        BY <4>2, <4>3, <4>5 DEF z
    <3>3. Written' = Rest(factor)' /\ Trimmed(limbs')
      BY <1>2, <2>2, <2>4, <3>1, <3>2
    <3> QED
      BY <1>2, <2>2, <3>1, <3>3 DEF Kept, Flushing
  <2>6. CASE count # Chunk - 1
    <3>1. phase' = "read"
      BY <1>6, <2>1, <2>6 DEF ReadDigit
    <3>2. Written' = value' + factor' * Magnitude(limbs)' /\ Trimmed(limbs')
      BY <1>2, <1>3, <2>2, <2>4
    <3> QED
      BY <1>2, <2>2, <3>1, <3>2 DEF Kept, Flushing
  <2> QED
    BY <2>5, <2>6
<1>7. CASE ReadEnd
  <2>1. /\ phase = "read" /\ phase' = "last" /\ at' = 0 /\ held' = value /\ pos = Len(text)
        /\ UNCHANGED <<pos, value, factor>>
    BY <1>7 DEF ReadEnd, Flush, chunk
  <2>2. Written = value + factor * Magnitude(limbs) /\ Trimmed(limbs) /\ text # << >>
    BY <2>1 DEF Kept
  <2>3. Rest(factor)' = value + factor * Magnitude(limbs)
    <3>1. Rest(factor)' = Horner(Base, limbs, 1, 0, value + factor * Suffix(limbs, 0 + 1))
      BY <1>2, <2>1 DEF Rest, Suffix
    <3>2. Suffix(limbs, 0 + 1) = Magnitude(limbs)
      BY <1>1, FirstSuffix
    <3> DEFINE z == value + factor * Magnitude(limbs)
    <3>3. z \in Int
      BY <1>1, <1>3
    <3> HIDE DEF z
    <3>4. Horner(Base, limbs, 1, 0, z) = z
      BY <3>3, NothingMade
    <3> QED
      BY <3>1, <3>2, <3>4 DEF z
  <2>4. Written' = Written
    BY <1>2, <1>4, <2>1 DEF Written
  <2>5. Written' = Rest(factor)' /\ Trimmed(limbs') /\ pos' = Len(text')
    BY <1>2, <2>1, <2>2, <2>3, <2>4
  <2> QED
    BY <1>2, <2>1, <2>2, <2>5 DEF Kept, Flushing
<1> QED
  BY <1>5, <1>6, <1>7

LEMMA KeptFlush ==
  ASSUME TextInv, Kept, MulAdd \/ FlushDone \/ ReadDone
  PROVE  Kept'
<1>1. /\ limbs \in Seq(Limb) /\ Len(limbs) \in Nat /\ at \in 0 .. Len(limbs)
      /\ value \in Nat /\ factor \in Nat /\ held \in Nat /\ factor >= 1
  BY LenProperties DEF TextInv, TextTypeOK, Bounds, MulAdd, FlushDone, ReadDone, Flushing
<1>2. /\ UNCHANGED <<text, pos, shown>> /\ Flushing /\ phase \in {"flush", "last"}
      /\ shown = << >> /\ size = 0 /\ shown \in Seq(Digit) /\ text # << >>
      /\ Written = Rest(factor)
      /\ Trimmed(limbs) \/ (at = Len(limbs) /\ held # 0)
      /\ phase = "last" => pos = Len(text)
  BY DEF MulAdd, FlushDone, ReadDone, string, Kept, Flushing
<1>3. Written' = Written
  BY <1>2 DEF Written, Back
<1>4. CASE MulAdd
  <2>1. /\ at < Len(limbs) /\ at' = at + 1 /\ UNCHANGED <<phase, value, factor, size>>
        /\ limbs' = [limbs EXCEPT ![at + 1] = U32(Cur) % Base] /\ held' = U32(Cur) \div Base
    BY <1>4 DEF MulAdd, chunk, string
  <2>2. Rest(factor)' = Rest(factor) /\ (limbs'[at + 1] # 0 \/ held' # 0 \/ Cur = 0)
    BY <1>4, MulAddKeeps
  <2>3. limbs' \in Seq(Limb) /\ Len(limbs') = Len(limbs) /\ \A k \in 1 .. Len(limbs) : k # at + 1 => limbs'[k] = limbs[k]
    <3>1. U32(Cur) % Base \in Limb
      BY <1>2, <2>1, CurFits
    <3> QED
      BY <1>1, <2>1, <3>1, PutLimb
  <2>4. Trimmed(limbs)
    BY <1>1, <1>2, <2>1
  <2>5. Trimmed(limbs') \/ (at' = Len(limbs') /\ held' # 0)
    <3>1. limbs # << >> /\ limbs[Len(limbs)] # 0 /\ Len(limbs) \in 1 .. Len(limbs)
      BY <1>1, <2>1, <2>4 DEF Trimmed
    <3>2. CASE at + 1 = Len(limbs)
      <4>1. Cur # 0
        <5>1. limbs[at + 1] \in Limb /\ limbs[at + 1] # 0
          BY <1>1, <3>1, <3>2
        <5>2. limbs[at + 1] \in Nat /\ limbs[at + 1] >= 1
          BY <5>1 DEF Limb
        <5> DEFINE l == limbs[at + 1]
        <5>3. l \in Nat /\ l >= 1
          BY <5>2
        <5> HIDE DEF l
        <5>4. l * factor >= 1 /\ l * factor \in Nat
          BY <1>1, <5>3
        <5>5. Cur = l * factor + held
          BY DEF Cur, l
        <5> QED
          BY <1>1, <5>4, <5>5
      <4> QED
        BY <2>1, <2>2, <2>3, <3>2, <4>1 DEF Trimmed
    <3>3. CASE at + 1 # Len(limbs)
      <4>1. limbs'[Len(limbs')] # 0
        BY <2>3, <3>1, <3>3
      <4> QED
        BY <4>1 DEF Trimmed
    <3> QED
      BY <3>2, <3>3
  <2>6. Written' = Rest(factor)'
    BY <1>2, <1>3, <2>2
  <2> QED
    BY <1>2, <2>1, <2>5, <2>6 DEF Kept, Flushing
<1>5. ASSUME FlushDone \/ ReadDone
      PROVE  /\ at = Len(limbs) /\ limbs' \in Seq(Limb) /\ Trimmed(limbs')
             /\ Magnitude(limbs)' = Written /\ Magnitude(limbs') = Written
             /\ value' = 0 /\ factor' = 1 /\ limbs' = limbs \o CarryOut
  <2>1. at = Len(limbs) /\ limbs' = limbs \o CarryOut /\ value' = 0 /\ factor' = 1
    BY <1>5 DEF FlushDone, ReadDone, Push
  <2>2. Trimmed(limbs) \/ held # 0
    BY <1>2
  <2>3. /\ Magnitude(limbs \o CarryOut) = Rest(factor)
        /\ Trimmed(limbs \o CarryOut) /\ limbs \o CarryOut \in Seq(Limb)
    BY <1>2, <2>1, <2>2, PushKeeps
  <2>4. Magnitude(limbs)' = Magnitude(limbs')
    BY DEF Magnitude
  <2> QED
    BY <1>2, <2>1, <2>3, <2>4
<1>6. CASE FlushDone
  <2>1. phase' = "read" /\ UNCHANGED size
    BY <1>6 DEF FlushDone, Push, string
  <2>2. Written' = value' + factor' * Magnitude(limbs)'
    <3>1. Magnitude(limbs') \in Nat
      BY <1>5, <1>6, MagnitudeIs
    <3>2. 0 + 1 * Magnitude(limbs') = Magnitude(limbs')
      BY <3>1
    <3> QED
      BY <1>3, <1>5, <1>6, <3>2
  <2> QED
    BY <1>2, <1>5, <1>6, <2>1, <2>2 DEF Kept, Flushing
<1>7. CASE ReadDone
  <2>1. /\ phase = "last" /\ phase' = "show" /\ at' = Len(limbs') /\ size' = Len(limbs') /\ held' = 0
    BY <1>7 DEF ReadDone, Push
  <2>2. pos' = Len(text') /\ text' # << >> /\ shown' = << >> /\ shown' \in Seq(Digit)
    BY <1>2, <2>1
  <2>3. size' \in Nat /\ Magnitude(limbs') \in Nat
    BY <1>5, <1>7, <2>1, MagnitudeIs, LenProperties
  <2>4. Rest(Radix)' = Magnitude(limbs')
    <3> DEFINE n == Len(limbs')
    <3>1. Rest(Radix)' = Horner(Base, limbs', 1, n, 0 + Radix * Suffix(limbs', n + 1))
      BY <2>1, RadixAssumption DEF Rest, Suffix
    <3>2. Suffix(limbs', n + 1) = 0
      <4>1. n \in Nat /\ n >= n
        BY <2>1, <2>3
      <4> QED
        BY <1>5, <1>7, <4>1, SuffixStep
    <3>3. 0 + Radix * 0 = 0
      BY RadixAssumption
    <3>4. Magnitude(limbs') = Suffix(limbs', 1)
      BY <1>5, <1>7, MagnitudeIs
    <3> QED
      BY <3>1, <3>2, <3>3, <3>4 DEF Suffix
  <2>5. Written' = Horner(Radix, shown', 1, Len(shown'), Rest(Radix)')
    <3>1. Len(shown') = 0
      BY <2>2
    <3>2. Horner(Radix, shown', 1, 0, Rest(Radix)') = Rest(Radix)'
      <4>1. Integral(shown', 1, 0) /\ 1 \in Int /\ 0 \in Int /\ 1 > 0 /\ Radix \in Nat /\ Rest(Radix)' \in Int
        BY <2>3, <2>4, RadixAssumption DEF Integral
      <4> DEFINE r == Rest(Radix)'
      <4>2. r \in Int
        BY <4>1
      <4> HIDE DEF r
      <4>3. Horner(Radix, shown', 1, 0, r) = r
        BY <4>1, <4>2, HornerStep
      <4> QED
        BY <4>3 DEF r
    <3> QED
      BY <1>3, <1>5, <1>7, <2>4, <3>1, <3>2
  <2>6. ASSUME limbs' # << >> PROVE Rest(Radix)' > 0
    <3> DEFINE a == Big(FALSE, limbs')
    <3>1. a.limbs = limbs' /\ a.negative = FALSE
      BY DEF Big
    <3> HIDE DEF a
    <3>2. IsNumber(a)
      BY <1>5, <1>7, <3>1 DEF IsNumber
    <3>3. Magnitude(limbs') # 0
      BY <2>6, <3>1, <3>2, MagnitudeOf
    <3> QED
      BY <2>3, <2>4, <3>3
  <2>7. Trimmed(shown')
    BY <2>2 DEF Trimmed
  <2> QED
    BY <2>1, <2>2, <2>3, <2>5, <2>6, <2>7 DEF Kept, Flushing
<1> QED
  BY <1>4, <1>6, <1>7

\* A digit that is shown goes below what is left.
LEMMA ShowDigit ==
  ASSUME NEW s \in Seq(Digit), NEW d \in Digit, NEW z \in Nat
  PROVE  /\ Append(s, d) \in Seq(Digit) /\ Len(Append(s, d)) = Len(s) + 1
         /\ Append(s, d)[Len(s) + 1] = d /\ Append(s, d) # << >>
         /\ Horner(Radix, Append(s, d), 1, Len(s) + 1, z) = Horner(Radix, s, 1, Len(s), d + Radix * z)
<1> DEFINE t == Append(s, d)
           n == Len(s)
<1>1. /\ t \in Seq(Digit) /\ Len(t) = n + 1 /\ t[n + 1] = d /\ n \in Nat /\ t # << >>
      /\ \A k \in 1 .. n : t[k] = s[k]
  <2>1. t \in Seq(Digit) /\ Len(t) = n + 1 /\ t[n + 1] = d /\ \A k \in 1 .. n : t[k] = s[k]
    BY AppendProperties
  <2>2. n \in Nat
    BY LenProperties
  <2> HIDE DEF t
  <2>3. t # << >>
    <3>1. Len(<< >>) = 0
      OBVIOUS
    <3> QED
      BY <2>1, <2>2, <3>1
  <2> QED
    BY <2>1, <2>2, <2>3
<1> HIDE DEF t
<1>2. \A e \in Digit : e \in Nat
  BY RadixAssumption DEF Digit
<1>3. Integral(t, 1, n + 1) /\ Integral(t, 1, n)
  <2>1. \A k \in 1 .. n + 1 : t[k] \in Digit
    BY <1>1
  <2>2. \A k \in 1 .. n : k \in 1 .. n + 1
    BY <1>1
  <2> QED
    BY <1>2, <2>1, <2>2 DEF Integral
<1>4. Radix \in Nat /\ d + Radix * z \in Int
  BY <1>2, RadixAssumption
<1> HIDE DEF n
<1>5. Horner(Radix, t, 1, n + 1, z) = Horner(Radix, t, 1, n, d + Radix * z)
  <2>1. 1 \in Int /\ n \in Int /\ 1 <= n + 1 /\ z \in Int
    BY <1>1
  <2>2. Horner(Radix, t, 1, n + 1, z) = Horner(Radix, t, 1, n, t[n + 1] + Radix * z)
    BY <1>3, <1>4, <2>1, HornerLast
  <2> QED
    BY <1>1, <2>2
<1>6. Horner(Radix, t, 1, n, d + Radix * z) = Horner(Radix, s, 1, n, d + Radix * z)
  <2> DEFINE w == d + Radix * z
  <2>1. 1 \in Int /\ n \in Int /\ w \in Int
    BY <1>1, <1>4
  <2> HIDE DEF w
  <2>2. Horner(Radix, t, 1, n, w) = Horner(Radix, s, 1, n, w)
    BY <1>1, <1>3, <1>4, <2>1, HornerSame
  <2> QED
    BY <2>2 DEF w
<1> QED
  BY <1>1, <1>5, <1>6 DEF t, n

LEMMA KeptShow ==
  ASSUME TextInv, Kept, Divide \/ Divided \/ Shown
  PROVE  Kept'
<1>1. /\ limbs \in Seq(Limb) /\ Len(limbs) \in Nat /\ at \in 0 .. Len(limbs) /\ held \in Nat
  BY LenProperties DEF TextInv, TextTypeOK
<1>2. /\ phase = "show" /\ UNCHANGED <<text, pos, size>> /\ held < Radix
      /\ shown \in Seq(Digit) /\ size \in Nat /\ text # << >> /\ pos = Len(text)
      /\ Written = Horner(Radix, shown, 1, Len(shown), Rest(Radix))
      /\ limbs = << >> => held = 0 /\ Trimmed(shown)
      /\ limbs # << >> => Rest(Radix) > 0
  BY DEF Divide, Divided, Shown, string, Kept, TextInv, Bounds
<1>3. Written' = Written
  BY <1>2 DEF Written, Back
<1>4. CASE Divide
  <2>1. phase' = "show" /\ at > 0 /\ UNCHANGED shown
    BY <1>2, <1>4 DEF Divide, string
  <2>2. limbs # << >> /\ limbs' # << >>
    <3>1. limbs # << >>
      BY <1>1, <2>1
    <3>2. Len(limbs') = Len(limbs)
      <4>1. limbs' = [limbs EXCEPT ![at] = U32(Part) \div Radix]
        BY <1>4 DEF Divide
      <4>2. U32(Part) \div Radix \in Limb
        BY <1>2, <2>1, PartFits
      <4> QED
        BY <1>1, <4>1, <4>2, PutLimb
    <3> QED
      BY <1>1, <2>1, <3>1, <3>2
  <2>3. Rest(Radix)' = Rest(Radix)
    BY <1>4, DivideKeeps
  <2>4. Written' = Horner(Radix, shown', 1, Len(shown'), Rest(Radix)') /\ Rest(Radix)' > 0
    BY <1>2, <1>3, <2>1, <2>2, <2>3
  <2> QED
    BY <1>2, <2>1, <2>2, <2>4 DEF Kept, Flushing
<1>5. CASE Divided
  <2>1. /\ phase' = "show" /\ at = 0 /\ limbs # << >> /\ limbs' = Trim(limbs) /\ at' = Len(limbs')
        /\ held' = 0 /\ shown' = Append(shown, held)
    BY <1>2, <1>5 DEF Divided
  <2>2. /\ limbs' \in Seq(Limb) /\ Trimmed(limbs') /\ Magnitude(limbs') = Magnitude(limbs)
        /\ Magnitude(limbs) \in Nat /\ Len(limbs') \in Nat
    BY <1>1, <2>1, TrimLimbs, MagnitudeIs, LenProperties
  <2>3. Rest(Radix) = held + Radix * Magnitude(limbs)
    <3>1. Radix \in Nat
      BY RadixAssumption
    <3> QED
      BY <1>1, <2>1, <3>1, RestIs
  <2>4. held \in Digit
    BY <1>1, <1>2, RadixAssumption DEF Digit
  <2>5. Rest(Radix)' = Magnitude(limbs')
    <3> DEFINE n == Len(limbs')
    <3>1. Rest(Radix)' = Horner(Base, limbs', 1, n, 0 + Radix * Suffix(limbs', n + 1))
      BY <2>1, RadixAssumption DEF Rest, Suffix
    <3>2. Suffix(limbs', n + 1) = 0
      <4>1. n \in Nat /\ n >= n
        BY <2>2
      <4> QED
        BY <2>2, <4>1, SuffixStep
    <3>3. 0 + Radix * 0 = 0
      BY RadixAssumption
    <3>4. Magnitude(limbs') = Suffix(limbs', 1)
      BY <2>2, MagnitudeIs
    <3> QED
      BY <3>1, <3>2, <3>3, <3>4 DEF Suffix
  <2>6. /\ shown' \in Seq(Digit) /\ Len(shown') = Len(shown) + 1 /\ shown'[Len(shown) + 1] = held
        /\ shown' # << >>
        /\ Horner(Radix, shown', 1, Len(shown) + 1, Magnitude(limbs))
             = Horner(Radix, shown, 1, Len(shown), held + Radix * Magnitude(limbs))
    <3> DEFINE m == Magnitude(limbs)
    <3>1. m \in Nat
      BY <2>2
    <3> HIDE DEF m
    <3>2. /\ shown' \in Seq(Digit) /\ Len(shown') = Len(shown) + 1 /\ shown'[Len(shown) + 1] = held
          /\ shown' # << >>
          /\ Horner(Radix, shown', 1, Len(shown) + 1, m) = Horner(Radix, shown, 1, Len(shown), held + Radix * m)
      BY <1>2, <2>1, <2>4, <3>1, ShowDigit
    <3> QED
      BY <3>2 DEF m
  <2>7. Written' = Horner(Radix, shown', 1, Len(shown'), Rest(Radix)')
    BY <1>2, <1>3, <2>2, <2>3, <2>5, <2>6
  <2> DEFINE a == Big(FALSE, limbs')
  <2>8. a.limbs = limbs' /\ a.negative = FALSE
    BY DEF Big
  <2>9. Magnitude(limbs') = 0 <=> limbs' = << >>
    <3> HIDE DEF a
    <3>1. IsNumber(a)
      BY <2>2, <2>8 DEF IsNumber
    <3> QED
      BY <2>8, <3>1, MagnitudeOf
  <2>10. ASSUME limbs' = << >> PROVE Trimmed(shown')
    <3>1. Magnitude(limbs) = 0 /\ Rest(Radix) > 0
      BY <1>2, <2>1, <2>2, <2>9, <2>10
    <3>2. Radix * 0 = 0
      BY RadixAssumption
    <3>3. held # 0
      BY <1>1, <2>3, <3>1, <3>2
    <3> QED
      BY <2>6, <3>3 DEF Trimmed
  <2>11. ASSUME limbs' # << >> PROVE Rest(Radix)' > 0
    BY <2>2, <2>5, <2>9, <2>11
  <2> QED
    BY <1>2, <2>1, <2>6, <2>7, <2>10, <2>11 DEF Kept, Flushing
<1>6. CASE Shown
  <2>1. /\ limbs = << >> /\ phase' = "done"
        /\ shown' = IF shown = << >> THEN <<0>> ELSE shown
    BY <1>6 DEF Shown
  <2>2. Rest(Radix) = 0
    <3>1. at = 0 /\ held = 0 /\ Len(limbs) = 0
      BY <1>1, <1>2, <2>1
    <3>2. Rest(Radix) = held + Radix * Magnitude(limbs)
      <4>1. Radix \in Nat
        BY RadixAssumption
      <4> QED
        BY <1>1, <3>1, <4>1, RestIs
    <3>3. Magnitude(limbs) = 0
      <4>1. 0 \in Nat /\ 0 >= Len(limbs)
        BY <3>1
      <4> QED
        BY <1>1, <4>1, SuffixStep, FirstSuffix
    <3> QED
      BY <3>1, <3>2, <3>3, RadixAssumption
  <2>3. Written = Horner(Radix, shown, 1, Len(shown), 0)
    BY <1>2, <2>2
  <2>4. CASE shown = << >>
    <3>1. shown' = <<0>> /\ Len(shown') = 1 /\ shown'[1] = 0 /\ shown' # << >>
      BY <2>1, <2>4
    <3>2. shown' \in Seq(Digit)
      <4>1. 0 \in Digit
        BY RadixAssumption DEF Digit
      <4> QED
        BY <3>1, <4>1
    <3>3. Horner(Radix, shown', 1, 1, 0) = 0
      <4>1. \A k \in 1 .. 1 : shown'[k] = 0
        BY <3>1
      <4> QED
        BY <4>1, RadixAssumption, HornerZero
    <3>4. Horner(Radix, shown, 1, Len(shown), 0) = 0
      <4>1. Len(shown) = 0
        BY <2>4
      <4>2. Len(shown) \in Int /\ \A k \in 1 .. Len(shown) : shown[k] = 0
        BY <4>1
      <4> QED
        BY <4>2, RadixAssumption, HornerZero
    <3> QED
      BY <1>2, <1>3, <2>1, <2>3, <3>1, <3>2, <3>3, <3>4 DEF Kept, Flushing
  <2>5. CASE shown # << >>
    <3>1. shown' = shown
      BY <2>1, <2>5
    <3> QED
      BY <1>2, <1>3, <2>1, <2>3, <2>5, <3>1 DEF Kept, Flushing
  <2> QED
    BY <2>4, <2>5
<1> QED
  BY <1>4, <1>5, <1>6

LEMMA KeptInvariance == TextSpec => [](TextInv /\ Kept)
<1>1. TextInit => Kept
  <2> SUFFICES ASSUME TextInit PROVE Kept
    OBVIOUS
  <2>1. /\ phase = "start" /\ pos = 0 /\ value = 0 /\ factor = 1 /\ limbs = << >>
        /\ size = 0 /\ shown = << >> /\ << >> \in Seq(Digit)
    BY DEF TextInit
  <2> QED
    BY <2>1 DEF Kept, Flushing
<1>2. TextInv /\ Kept /\ [TextNext]_textvars => Kept'
  <2> SUFFICES ASSUME TextInv, Kept, [TextNext]_textvars PROVE Kept'
    OBVIOUS
  <2>1. CASE Begin \/ ReadDigit \/ ReadEnd
    BY <2>1, KeptRead
  <2>2. CASE MulAdd \/ FlushDone \/ ReadDone
    BY <2>2, KeptFlush
  <2>3. CASE Divide \/ Divided \/ Shown
    BY <2>3, KeptShow
  <2>4. CASE UNCHANGED textvars
    <3>1. UNCHANGED <<phase, text, pos, value, factor, count, limbs, at, held, size, shown>>
      BY <2>4 DEF textvars, chunk, string
    <3>2. Written' = Written /\ Magnitude(limbs)' = Magnitude(limbs)
      BY <3>1 DEF Written, Back, Magnitude
    <3>3. Rest(factor)' = Rest(factor) /\ Rest(Radix)' = Rest(Radix)
      BY <3>1 DEF Rest, Suffix
    <3> QED
      BY <3>1, <3>2, <3>3 DEF Kept, Flushing, Trimmed
  <2> QED
    BY <2>1, <2>2, <2>3, <2>4 DEF TextNext
<1> QED
  BY <1>1, <1>2, TextInvariance, PTL DEF TextSpec

-----------------------------------------------------------------------------
(***************************************************************************)
(* The room in the buffers: a limb holds at least PerLimb digits and shows *)
(* as Chunk of them at most.                                               *)
(***************************************************************************)
LEMMA PowIs ==
  ASSUME NEW k \in 0 .. Chunk
  PROVE  Pow(Radix, k) = Power[k]
<1> DEFINE S == {m \in Nat : m <= Chunk => Pow(Radix, m) = Power[m]}
<1>1. Radix \in Nat /\ Radix >= 1 /\ Chunk \in Nat
  BY RadixAssumption
<1>2. 0 \in S
  <2>1. 0 \in Nat
    OBVIOUS
  <2>2. Pow(Radix, 0) = 1
    BY <1>1, <2>1, PowStep
  <2> QED
    BY <2>2, PowerAssumption
<1>3. ASSUME NEW m \in Nat, m \in S PROVE m + 1 \in S
  <2> SUFFICES ASSUME m + 1 <= Chunk PROVE Pow(Radix, m + 1) = Power[m + 1]
    OBVIOUS
  <2>1. Pow(Radix, m) = Power[m]
    BY <1>1, <1>3
  <2>2. Pow(Radix, m + 1) = Radix * Pow(Radix, m) /\ Pow(Radix, m) \in Nat
    BY <1>1, PowStep
  <2>3. Power[m + 1] = Power[m] * Radix
    <3>1. m + 1 \in 1 .. Chunk /\ m + 1 - 1 = m
      BY <1>1
    <3>2. Power[m + 1] = Power[m + 1 - 1] * Radix
      BY <3>1, PowerAssumption
    <3> QED
      BY <3>1, <3>2
  <2> DEFINE p == Power[m]
  <2>4. p \in Nat
    BY <2>1, <2>2
  <2> HIDE DEF p
  <2>5. Radix * p = p * Radix
    BY <1>1, <2>4
  <2> QED
    BY <2>1, <2>2, <2>3, <2>5 DEF p
<1>4. k \in S
  <2> HIDE DEF S
  <2>1. Nat \subseteq S
    BY <1>2, <1>3, Induct
  <2> QED
    BY <1>1, <2>1
<1> QED
  BY <1>1, <1>4

\* The same number of limbs and of digits, from below and from above.
LEMMA PowBases ==
  ASSUME NEW n \in Nat
  PROVE  Pow(Radix, PerLimb * n) <= Pow(Base, n) /\ Pow(Base, n) <= Pow(Radix, Chunk * n)
<1>1. /\ Radix \in Nat /\ Radix >= 1 /\ Chunk \in Nat /\ PerLimb \in Nat /\ Base \in Nat /\ Base >= 1
      /\ PerLimb \in 0 .. Chunk /\ Chunk \in 0 .. Chunk
  BY RadixAssumption, BaseAssumption, LimbAssumption
<1> DEFINE u == Power[PerLimb]
           v == Power[Chunk]
<1>2. /\ Pow(Radix, PerLimb) = u /\ Pow(Radix, Chunk) = v /\ u \in Nat /\ v \in Nat
      /\ u <= Base /\ Base <= v
  BY <1>1, PowIs, PowerAssumption, LimbAssumption
<1> HIDE DEF u, v
<1> DEFINE S == {m \in Nat : Pow(Radix, PerLimb * m) <= Pow(Base, m) /\ Pow(Base, m) <= Pow(Radix, Chunk * m)}
<1>3. 0 \in S
  <2>1. 0 \in Nat /\ PerLimb * 0 = 0 /\ Chunk * 0 = 0
    BY <1>1
  <2>2. Pow(Radix, 0) = 1 /\ Pow(Base, 0) = 1
    BY <1>1, <2>1, PowStep
  <2> QED
    BY <2>1, <2>2
<1>4. ASSUME NEW b \in Nat, b >= 1, NEW d \in Nat, NEW m \in Nat
      PROVE  Pow(b, d * m) \in Nat /\ Pow(b, d * (m + 1)) = Pow(b, d * m) * Pow(b, d)
  <2> DEFINE e == d * m
  <2>1. e \in Nat /\ d * (m + 1) = e + d
    OBVIOUS
  <2> HIDE DEF e
  <2>2. Pow(b, e) \in Nat /\ Pow(b, e + d) = Pow(b, e) * Pow(b, d)
    BY <1>4, <2>1, PowStep, PowGrows
  <2> QED
    BY <2>1, <2>2 DEF e
<1>5. \A p, q, g, h \in Nat : p <= q /\ g <= h => p * g <= q * h
  <2> SUFFICES ASSUME NEW p \in Nat, NEW q \in Nat, NEW g \in Nat, NEW h \in Nat, p <= q, g <= h
               PROVE  p * g <= q * h
    OBVIOUS
  <2>1. p * g <= q * g
    OBVIOUS
  <2>2. q * g <= q * h
    OBVIOUS
  <2> QED
    BY <2>1, <2>2
<1>6. ASSUME NEW m \in Nat, m \in S PROVE m + 1 \in S
  <2> DEFINE few == Pow(Radix, PerLimb * m)
             made == Pow(Base, m)
             many == Pow(Radix, Chunk * m)
  <2>1. /\ few \in Nat /\ Pow(Radix, PerLimb * (m + 1)) = few * u
        /\ many \in Nat /\ Pow(Radix, Chunk * (m + 1)) = many * v
    BY <1>1, <1>2, <1>4
  <2>2. made \in Nat /\ Pow(Base, m + 1) = Base * made
    BY <1>1, PowStep
  <2>3. few <= made /\ made <= many
    BY <1>6
  <2> HIDE DEF few, made, many
  <2>4. few * u <= made * Base /\ made * Base <= many * v
    BY <1>1, <1>2, <1>5, <2>1, <2>2, <2>3
  <2>5. made * Base = Base * made
    BY <1>1, <2>2
  <2> QED
    BY <2>1, <2>2, <2>4, <2>5
<1>7. n \in S
  <2> HIDE DEF S
  <2>1. Nat \subseteq S
    BY <1>3, <1>6, Induct
  <2> QED
    BY <2>1
<1> QED
  BY <1>7

\* A number whose highest digit is not zero.
LEMMA TopDigit ==
  ASSUME NEW base \in Nat, base >= 1, NEW n \in Nat, NEW s, Digits(base, s, 1, n + 1), s[n + 1] # 0
  PROVE  Horner(base, s, 1, n + 1, 0) >= Pow(base, n)
<1> DEFINE d == s[n + 1]
<1>1. d \in Nat /\ d >= 1 /\ Digits(base, s, 1, n) /\ Integral(s, 1, n + 1)
  BY DEF Digits, Integral
<1>2. Horner(base, s, 1, n + 1, 0) = Horner(base, s, 1, n, d + base * 0)
  <2>1. 1 \in Int /\ n \in Int /\ 1 <= n + 1 /\ 0 \in Int
    OBVIOUS
  <2> QED
    BY <1>1, <2>1, HornerLast
<1> HIDE DEF d
<1>3. d + base * 0 = d
  BY <1>1
<1>4. Horner(base, s, 1, n, d) >= Pow(base, n)
  <2>1. 1 \in 1 .. n + 1
    OBVIOUS
  <2> QED
    BY <1>1, <2>1, HornerBound
<1> QED
  BY <1>2, <1>3, <1>4

\* As many limbs as the digits need, and no more.
LEMMA Fits ==
  ASSUME NEW s \in Seq(Limb), Trimmed(s), NEW n \in Nat, Magnitude(s) < Pow(Radix, n)
  PROVE  Len(s) <= (n \div PerLimb) + 1 /\ Magnitude(s) < Pow(Base, Len(s))
<1> DEFINE l == Len(s)
<1>1. /\ l \in Nat /\ Base \in Nat /\ Base >= 1 /\ Radix \in Nat /\ Radix >= 1
      /\ PerLimb \in Nat /\ PerLimb >= 1
  BY RadixAssumption, BaseAssumption, LenProperties
<1>2. Digits(Base, s, 1, l)
  <2>1. \A k \in 1 .. l : s[k] \in Limb
    OBVIOUS
  <2> QED
    BY <2>1 DEF Digits, Limb
<1>3. Magnitude(s) = Horner(Base, s, 1, l, 0)
  BY MagnitudeIs DEF Suffix
<1>4. Magnitude(s) < Pow(Base, l)
  <2> HIDE DEF l
  <2>1. 1 \in 1 .. l + 1 /\ 0 \in Nat
    BY <1>1
  <2> QED
    BY <1>1, <1>2, <1>3, <2>1, HornerBound
<1>5. ASSUME l # 0 PROVE l <= (n \div PerLimb) + 1
  <2> DEFINE m == l - 1
             e == PerLimb * m
  <2>1. m \in Nat /\ m + 1 = l /\ s[l] # 0
    BY <1>1, <1>5 DEF Trimmed
  <2> HIDE DEF m, l
  <2>2. Horner(Base, s, 1, m + 1, 0) >= Pow(Base, m)
    BY <1>1, <1>2, <2>1, TopDigit
  <2>3. e \in Nat
    BY <1>1, <2>1
  <2>4. Pow(Radix, e) <= Pow(Base, m)
    BY <2>1, PowBases
  <2> HIDE DEF e
  <2>5. Pow(Radix, e) \in Nat /\ Pow(Base, m) \in Nat /\ Pow(Radix, n) \in Nat
    BY <1>1, <2>1, <2>3, PowStep
  <2>6. Magnitude(s) \in Nat
    BY MagnitudeIs
  <2>7. Pow(Radix, e) < Pow(Radix, n)
    BY <1>3, <2>1, <2>2, <2>4, <2>5, <2>6
  <2>8. e < n
    BY <1>1, <2>3, <2>7, PowGrows
  <2>9. m <= n \div PerLimb
    <3> DEFINE q == n \div PerLimb
               r == n % PerLimb
    <3>1. q \in Int /\ r \in Int /\ n = PerLimb * q + r /\ 0 <= r /\ r < PerLimb
      BY <1>1
    <3> HIDE DEF q, r
    <3>2. SUFFICES ASSUME m > q PROVE FALSE
      BY <2>1, <3>1 DEF q
    <3>3. m >= q + 1
      BY <2>1, <3>1, <3>2
    <3>4. PerLimb * m >= PerLimb * (q + 1)
      BY <1>1, <2>1, <3>1, <3>3
    <3>5. PerLimb * (q + 1) = PerLimb * q + PerLimb
      BY <1>1, <3>1
    <3>6. PerLimb * q \in Int
      BY <1>1, <3>1
    <3>7. e = PerLimb * m
      BY DEF e
    <3> DEFINE pq == PerLimb * q
    <3>8. pq \in Int /\ n = pq + r /\ e >= pq + PerLimb
      BY <3>1, <3>4, <3>5, <3>6, <3>7
    <3> HIDE DEF pq
    <3> QED
      BY <1>1, <2>3, <2>8, <3>1, <3>8
  <2>10. n \div PerLimb \in Int
    BY <1>1
  <2> QED
    BY <2>1, <2>9, <2>10
<1>6. n \div PerLimb >= 0
  BY <1>1
<1> HIDE DEF l
<1> QED
  BY <1>1, <1>4, <1>5, <1>6 DEF l

\* The limbs that are made fit their buffer, and the number that is shown is
\* below the power that the buffer of the digits was computed from.
Sized ==
  /\ phase \in {"read", "flush", "last", "show"} => Len(limbs) <= (Len(text) \div PerLimb) + 1
  /\ phase \in {"show", "done"} => Written < Pow(Base, size)

LEMMA WrittenBelow ==
  ASSUME text \in Seq(Digit), pos \in 0 .. Len(text)
  PROVE  Written \in Nat /\ Written < Pow(Radix, Len(text))
<1> DEFINE n == Len(text)
           a == n - pos + 1
<1>1. Radix \in Nat /\ Radix >= 1 /\ n \in Nat /\ Digits(Radix, Back, 1, n) /\ 0 \in Nat
  BY BackIs, RadixAssumption
<1>2. a \in 1 .. n + 1
  BY <1>1
<1>3. Written = Horner(Radix, Back, a, n, 0)
  BY DEF Written
<1> HIDE DEF n, a
<1>4. Horner(Radix, Back, a, n, 0) \in Nat /\ Horner(Radix, Back, a, n, 0) < Pow(Radix, n)
  BY <1>1, <1>2, HornerBound
<1> QED
  BY <1>3, <1>4 DEF n

LEMMA SizedStep ==
  ASSUME TextInv, Kept, Sized, [TextNext]_textvars, TextInv', Kept'
  PROVE  Sized'
<1>1. /\ limbs \in Seq(Limb) /\ Len(limbs) \in Nat /\ Len(text) \in Nat /\ PerLimb \in Nat /\ PerLimb >= 1
      /\ at \in 0 .. Len(limbs)
  BY LenProperties, RadixAssumption DEF TextInv, TextTypeOK
<1>2. Len(text) \div PerLimb \in Int /\ Len(text) \div PerLimb >= 0
  BY <1>1
<1>3. ASSUME UNCHANGED <<text, pos>> PROVE Written' = Written /\ Len(text') = Len(text)
  BY <1>3 DEF Written, Back
<1>4. CASE Begin
  <2>1. phase = "start" /\ phase' \in {"refused", "read"} /\ limbs' = limbs /\ text' = text
    BY <1>4 DEF Begin
  <2>2. Len(limbs') = 0
    BY <2>1 DEF Kept
  <2> QED
    BY <1>2, <2>1, <2>2 DEF Sized
<1>5. CASE ReadDigit \/ ReadEnd
  <2>1. phase = "read" /\ phase' \in {"read", "flush", "last"} /\ limbs' = limbs /\ text' = text
    BY <1>5 DEF ReadDigit, ReadEnd, Flush
  <2> QED
    BY <2>1 DEF Sized
<1>6. CASE MulAdd
  <2>1. /\ phase \in {"flush", "last"} /\ phase' = phase /\ text' = text /\ at < Len(limbs)
        /\ limbs' = [limbs EXCEPT ![at + 1] = U32(Cur) % Base]
    BY <1>6 DEF MulAdd, Flushing
  <2>2. Len(limbs') = Len(limbs)
    BY <1>1, <2>1
  <2> QED
    BY <2>1, <2>2 DEF Sized
<1>7. CASE FlushDone \/ ReadDone
  <2>1. /\ phase \in {"flush", "last"} /\ UNCHANGED <<text, pos>> /\ at = Len(limbs) /\ limbs' = limbs \o CarryOut
        /\ phase' \in {"read", "show"} /\ (phase' = "show" => size' = Len(limbs'))
    BY <1>7 DEF FlushDone, ReadDone, Push
  <2>2. text \in Seq(Digit) /\ pos \in 0 .. Len(text)
    BY <2>1 DEF TextInv, TextTypeOK, Bounds
  <2>3. Written = Rest(factor) /\ (Trimmed(limbs) \/ held # 0)
    BY <2>1 DEF Kept, Flushing
  <2>4. /\ Magnitude(limbs') = Written /\ Trimmed(limbs') /\ limbs' \in Seq(Limb)
    BY <2>1, <2>3, PushKeeps DEF Flushing
  <2>5. Written < Pow(Radix, Len(text))
    BY <2>2, WrittenBelow
  <2> DEFINE n == Len(text)
             s == limbs'
  <2>6. n \in Nat /\ s \in Seq(Limb) /\ Trimmed(s) /\ Magnitude(s) < Pow(Radix, n)
    BY <1>1, <2>4, <2>5
  <2> HIDE DEF n, s
  <2>7. Len(s) <= (n \div PerLimb) + 1 /\ Magnitude(s) < Pow(Base, Len(s))
    BY <2>6, Fits
  <2> QED
    BY <1>3, <2>1, <2>4, <2>7 DEF Sized, n, s
<1>8. CASE Divide
  <2>1. /\ phase = "show" /\ UNCHANGED <<phase, text, pos, size>> /\ at > 0
        /\ limbs' = [limbs EXCEPT ![at] = U32(Part) \div Radix]
    BY <1>8 DEF Divide, string
  <2>2. Len(limbs') = Len(limbs)
    BY <1>1, <2>1
  <2> QED
    BY <1>3, <2>1, <2>2 DEF Sized
<1>9. CASE Divided
  <2>1. phase = "show" /\ UNCHANGED <<phase, text, pos, size>> /\ limbs' = Trim(limbs)
    BY <1>9 DEF Divided
  <2>2. Len(limbs') <= Len(limbs) /\ Len(limbs') \in Nat
    BY <1>1, <2>1, TrimLimbs, LenProperties
  <2> QED
    BY <1>1, <1>2, <1>3, <2>1, <2>2 DEF Sized
<1>10. CASE Shown
  <2>1. phase = "show" /\ phase' = "done" /\ UNCHANGED <<text, pos, size>>
    BY <1>10 DEF Shown
  <2> QED
    BY <1>3, <2>1 DEF Sized
<1>11. CASE UNCHANGED textvars
  <2>1. UNCHANGED <<phase, text, pos, limbs, size>>
    BY <1>11 DEF textvars, string
  <2> QED
    BY <1>3, <2>1 DEF Sized
<1> QED
  BY <1>4, <1>5, <1>6, <1>7, <1>8, <1>9, <1>10, <1>11 DEF TextNext

LEMMA SizedInvariance == TextSpec => [](TextInv /\ Kept /\ Sized)
<1>1. TextInit => Sized
  <2> SUFFICES ASSUME TextInit PROVE Sized
    OBVIOUS
  <2>1. phase = "start"
    BY DEF TextInit
  <2> QED
    BY <2>1 DEF Sized
<1>2. /\ TextInv /\ Kept /\ Sized /\ [TextNext]_textvars /\ TextInv' /\ Kept' => Sized'
  <2> SUFFICES ASSUME TextInv, Kept, Sized, [TextNext]_textvars, TextInv', Kept' PROVE Sized'
    OBVIOUS
  <2> QED
    BY SizedStep
<1> QED
  BY <1>1, <1>2, KeptInvariance, PTL DEF TextSpec

\* The limbs and the digits are pushed inside the cells that bignum_of_decimal
\* and bignum_to_string allocate for them.
THEOREM NeverOutOfRoom == TextSpec => []InRoom
<1>1. TextInv /\ Kept /\ Sized => InRoom
  <2> SUFFICES ASSUME TextInv, Kept, Sized PROVE InRoom
    OBVIOUS
  <2>1. /\ Len(text) \in Nat /\ shown \in Seq(Digit) /\ Len(shown) \in Nat /\ size \in Nat
        /\ Radix \in Nat /\ Radix >= 2 /\ Chunk \in Nat /\ Chunk >= 1 /\ PerLimb \in Nat /\ PerLimb >= 1
        /\ limbs \in Seq(Limb) /\ Len(limbs) \in Nat /\ Base \in Nat /\ Base >= 1
    BY LenProperties, RadixAssumption, BaseAssumption DEF TextInv, TextTypeOK, Kept
  <2>2. phase \in {"read", "flush", "last", "show"} => Len(limbs) <= Room(Len(text))
    <3>1. Len(text) \div PerLimb \in Int
      BY <2>1
    <3> QED
      BY <2>1, <3>1 DEF Sized, Room
  <2>3. size * Chunk \in Nat /\ ShowRoom(size) \in Nat /\ ShowRoom(size) >= 1 /\ ShowRoom(size) = Chunk * size + 1
    <3>1. size * Chunk \in Nat /\ size * Chunk = Chunk * size
      BY <2>1
    <3> QED
      BY <3>1 DEF ShowRoom
  <2>4. ASSUME phase \in {"show", "done"}, NEW n \in Nat, Written >= Pow(Radix, n)
        PROVE  n < ShowRoom(size)
    <3> DEFINE e == Chunk * size
    <3>1. e \in Nat
      BY <2>1
    <3>2. Written < Pow(Base, size) /\ Pow(Base, size) <= Pow(Radix, e)
      BY <2>1, <2>4, PowBases DEF Sized
    <3> HIDE DEF e
    <3>3. Radix >= 1
      BY <2>1
    <3>4. Pow(Radix, n) \in Nat /\ Pow(Base, size) \in Nat /\ Pow(Radix, e) \in Nat
      BY <2>1, <3>1, <3>3, PowStep
    <3>5. Written \in Nat
      <4>1. text \in Seq(Digit) /\ pos \in 0 .. Len(text)
        BY <2>4 DEF TextInv, TextTypeOK, Bounds
      <4> QED
        BY <4>1, WrittenBelow
    <3>6. Pow(Radix, n) < Pow(Radix, e)
      BY <2>4, <3>2, <3>4, <3>5
    <3>7. n < e
      BY <2>1, <3>1, <3>3, <3>6, PowGrows
    <3> QED
      BY <2>3, <3>1, <3>7 DEF e
  <2>5. Digits(Radix, shown, 1, Len(shown))
    <3>1. \A k \in 1 .. Len(shown) : shown[k] \in Digit
      BY <2>1
    <3> QED
      BY <3>1 DEF Digits, Digit
  \* A digit on top that is not zero, or a number that is left above all of them.
  <2>6. ASSUME phase \in {"show", "done"}, Trimmed(shown), shown # << >>,
               Written = Horner(Radix, shown, 1, Len(shown), 0)
        PROVE  Len(shown) <= ShowRoom(size)
    <3> DEFINE m == Len(shown) - 1
    <3>1. m \in Nat /\ m + 1 = Len(shown) /\ shown[m + 1] # 0 /\ Radix >= 1
      BY <2>1, <2>6 DEF Trimmed
    <3> HIDE DEF m
    <3>2. Horner(Radix, shown, 1, m + 1, 0) >= Pow(Radix, m)
      BY <2>1, <2>5, <3>1, TopDigit
    <3>3. m < ShowRoom(size)
      BY <2>4, <2>6, <3>1, <3>2
    <3> QED
      BY <2>3, <3>1, <3>3
  <2>7. CASE phase = "show" /\ limbs # << >>
    <3> DEFINE r == Rest(Radix)
               n == Len(shown)
    <3>1. Written = Horner(Radix, shown, 1, n, r) /\ r > 0
      BY <2>7 DEF Kept
    <3>2. r \in Nat
      <4>1. held \in Nat /\ at \in 0 .. Len(limbs)
        BY DEF TextInv, TextTypeOK
      <4> DEFINE z == held + Radix * Suffix(limbs, at + 1)
      <4>2. Suffix(limbs, at + 1) \in Nat
        <5>1. at \in Nat
          BY <2>1, <4>1
        <5> QED
          BY <2>1, <5>1, SuffixStep
      <4>3. z \in Nat
        BY <2>1, <4>1, <4>2
      <4>4. r = Horner(Base, limbs, 1, at, z)
        BY DEF Rest
      <4>5. Digits(Base, limbs, 1, at)
        <5>1. \A k \in 1 .. at : limbs[k] \in Limb
          BY <2>1, <4>1
        <5> QED
          BY <5>1 DEF Digits, Limb
      <4> HIDE DEF z, r
      <4>6. z \in Int /\ 1 \in Int /\ at \in Int /\ z >= 0
        BY <2>1, <4>1, <4>3
      <4> QED
        BY <2>1, <4>4, <4>5, <4>6, HornerSign
    <3> HIDE DEF r, n
    <3>3. n \in Nat /\ Digits(Radix, shown, 1, n) /\ 1 \in 1 .. n + 1 /\ r >= 1 /\ Radix >= 1
      BY <2>1, <2>5, <3>1, <3>2 DEF n
    <3>4. Horner(Radix, shown, 1, n, r) >= Pow(Radix, n)
      BY <2>1, <3>2, <3>3, HornerBound
    <3>5. n < ShowRoom(size)
      BY <2>4, <2>7, <3>1, <3>3, <3>4
    <3> QED
      BY <2>2, <2>3, <3>3, <3>5 DEF InRoom, n
  <2>8. CASE phase = "show" /\ limbs = << >>
    <3>1. CASE shown = << >>
      BY <2>2, <2>3, <3>1 DEF InRoom
    <3>2. CASE shown # << >>
      <4>1. Trimmed(shown) /\ Written = Horner(Radix, shown, 1, Len(shown), Rest(Radix))
            /\ held = 0
        BY <2>8 DEF Kept
      <4>2. Rest(Radix) = 0
        <5>1. at = 0 /\ Len(limbs) = 0
          BY <2>8 DEF TextInv, TextTypeOK
        <5>2. Rest(Radix) = held + Radix * Magnitude(limbs)
          BY <2>1, <4>1, <5>1, RestIs
        <5>3. Magnitude(limbs) = 0
          <6>1. 0 \in Nat /\ 0 >= Len(limbs)
            BY <5>1
          <6> QED
            BY <2>1, <6>1, SuffixStep, FirstSuffix
        <5> QED
          BY <2>1, <4>1, <5>2, <5>3
      <4>3. Len(shown) <= ShowRoom(size)
        BY <2>6, <2>8, <3>2, <4>1, <4>2
      <4> QED
        BY <2>2, <4>3 DEF InRoom
    <3> QED
      BY <3>1, <3>2
  <2>9. CASE phase = "done"
    <3>1. Written = Horner(Radix, shown, 1, Len(shown), 0) /\ shown # << >>
          /\ (shown = <<0>> \/ Trimmed(shown))
      BY <2>9 DEF Kept
    <3>2. CASE shown = <<0>>
      <4>1. Len(shown) = 1
        BY <3>2
      <4> QED
        BY <2>2, <2>3, <4>1 DEF InRoom
    <3>3. CASE Trimmed(shown)
      <4>1. Len(shown) <= ShowRoom(size)
        BY <2>6, <2>9, <3>1, <3>3
      <4> QED
        BY <2>2, <4>1 DEF InRoom
    <3> QED
      BY <3>1, <3>2, <3>3
  <2>10. CASE phase \notin {"show", "done"}
    <3>1. Len(shown) = 0
      BY <2>10 DEF Kept
    <3> QED
      BY <2>2, <2>3, <3>1 DEF InRoom
  <2> QED
    BY <2>7, <2>8, <2>9, <2>10
<1> QED
  BY <1>1, SizedInvariance, PTL

\* The text without the zeros in front, as the digits of its number.
LEMMA StrippedIs ==
  ASSUME text \in Seq(Digit), text # << >>
  PROVE  \E c \in 1 .. Len(text) :
           /\ Back[c] # 0 \/ (c = 1 /\ Back[1] = 0)
           /\ \A k \in c + 1 .. Len(text) : Back[k] = 0
           /\ Stripped \in [1 .. c -> Digit]
           /\ \A k \in 1 .. c : Stripped[k] = Back[c - k + 1]
<1> DEFINE n == Len(text)
           Good(k) == (text[k] # 0 \/ k = n) /\ \A m \in 1 .. k - 1 : text[m] = 0
           S == {k \in 1 .. n : text[k] # 0 \/ k = n}
           first == CHOOSE k \in DOMAIN text : Good(k)
           c == n - first + 1
<1>1. n \in Nat /\ n >= 1 /\ DOMAIN text = 1 .. n /\ \A k \in 1 .. n : text[k] \in Digit
  BY LenProperties
<1>2. \E k \in 1 .. n : Good(k)
  <2>1. S \in SUBSET Nat /\ S # {}
    <3>1. n \in S
      BY <1>1
    <3> QED
      BY <3>1
  <2>2. PICK f \in S : \A k \in S : f <= k
    <3> HIDE DEF S
    <3> QED
      BY <2>1, LeastOf
  <2>3. ASSUME NEW m \in 1 .. f - 1 PROVE text[m] = 0
    <3>1. f \in 1 .. n
      BY <2>2
    <3> HIDE DEF n
    <3>2. m \in 1 .. n /\ ~(f <= m)
      BY <1>1, <3>1
    <3> QED
      BY <2>2, <3>2
  <2> QED
    BY <2>2, <2>3
<1>3. first \in 1 .. n /\ Good(first)
  <2> HIDE DEF Good, n
  <2> QED
    BY <1>1, <1>2
<1>4. Stripped = SubSeq(text, first, n)
  BY DEF Stripped
<1> HIDE DEF first, n
<1>5. c \in 1 .. n /\ c <= n /\ first = n - c + 1
  BY <1>1, <1>3
<1> HIDE DEF c
<1>6. \A k \in 1 .. n : Back[k] = text[n - k + 1]
  BY BackIs DEF n
<1>7. ASSUME NEW k \in c + 1 .. n PROVE Back[k] = 0
  <2>1. n - k + 1 \in 1 .. first - 1 /\ k \in 1 .. n
    BY <1>1, <1>5
  <2> QED
    BY <1>3, <1>6, <2>1
<1>8. Back[c] # 0 \/ (c = 1 /\ Back[1] = 0)
  <2>1. Back[c] = text[first]
    BY <1>5, <1>6
  <2>2. first = n => c = 1
    BY <1>1, <1>5
  <2> QED
    BY <1>3, <2>1, <2>2
<1>9. Stripped \in [1 .. c -> Digit] /\ \A k \in 1 .. c : Stripped[k] = text[first + k - 1]
  <2> DEFINE t == SubSeq(text, first, n)
  <2>1. first \in 1 .. n + 1 /\ n \in first - 1 .. n /\ n - first + 1 = c
    BY <1>1, <1>3, <1>5
  <2>2. t \in Seq(Digit) /\ Len(t) = n - first + 1 /\ \A k \in 1 .. n - first + 1 : t[k] = text[first + k - 1]
    <3>1. first \in Int /\ n \in Int /\ (first <= n) /\ \A k \in first .. n : text[k] \in Digit
      BY <1>1, <1>3, <2>1
    <3> QED
      BY <3>1, SubSeqProperties
  <2> HIDE DEF t
  <2>3. t \in [1 .. c -> Digit] /\ \A k \in 1 .. c : t[k] = text[first + k - 1]
    BY <2>1, <2>2, LenProperties
  <2> QED
    BY <1>4, <2>3 DEF t
<1>10. ASSUME NEW k \in 1 .. c PROVE Stripped[k] = Back[c - k + 1]
  <2>1. c - k + 1 \in 1 .. n /\ n - (c - k + 1) + 1 = first + k - 1
    BY <1>1, <1>5
  <2> QED
    BY <1>6, <1>9, <2>1
<1> QED
  BY <1>5, <1>7, <1>8, <1>9, <1>10 DEF n

\* bignum_to_string shows the digits that bignum_of_decimal read, but for zeros
\* in front.
THEOREM ShownAsWritten == TextSpec => []RoundTrip
<1>1. TextInv /\ Kept => RoundTrip
  <2> SUFFICES ASSUME TextInv, Kept, phase = "done"
               PROVE  [k \in DOMAIN shown |-> shown[Len(shown) - k + 1]] = Stripped
    BY DEF RoundTrip
  <2> DEFINE n == Len(text)
             l == Len(shown)
  <2>1. /\ text \in Seq(Digit) /\ text # << >> /\ pos = n /\ shown \in Seq(Digit) /\ shown # << >>
        /\ Written = Horner(Radix, shown, 1, l, 0) /\ (shown = <<0>> \/ Trimmed(shown))
    BY DEF TextInv, Bounds, Kept
  <2>2. n \in Nat /\ l \in Nat /\ l >= 1 /\ DOMAIN shown = 1 .. l /\ shown \in [1 .. l -> Digit]
        /\ Radix \in Nat /\ Radix >= 2 /\ Radix >= 1 /\ Digits(Radix, Back, 1, n)
    BY <2>1, BackIs, LenProperties, RadixAssumption
  <2>3. Digits(Radix, shown, 1, l)
    <3>1. \A k \in 1 .. l : shown[k] \in Digit
      BY <2>2
    <3> QED
      BY <3>1 DEF Digits, Digit
  <2>4. PICK c \in 1 .. n :
           /\ Back[c] # 0 \/ (c = 1 /\ Back[1] = 0)
           /\ \A k \in c + 1 .. n : Back[k] = 0
           /\ Stripped \in [1 .. c -> Digit]
           /\ \A k \in 1 .. c : Stripped[k] = Back[c - k + 1]
    BY <2>1, StrippedIs
  <2> HIDE DEF n, l
  \* The zeros are worth nothing.
  <2>5. Written = Horner(Radix, Back, 1, c, 0) /\ Digits(Radix, Back, 1, c)
    <3>1. n - n + 1 = 1
      BY <2>2
    <3>2. Written = Horner(Radix, Back, 1, n, 0)
      BY <2>1, <3>1 DEF Written, n
    <3>3. 1 \in Int /\ c \in Int /\ n \in Int /\ 1 <= c + 1 /\ c <= n /\ 0 \in Int /\ c + 1 \in Int
      BY <2>2
    <3>4. Integral(Back, 1, n)
      BY <2>2 DEF Digits, Integral
    <3>5. Horner(Radix, Back, 1, n, 0) = Horner(Radix, Back, 1, c, Horner(Radix, Back, c + 1, n, 0))
      BY <2>2, <3>3, <3>4, HornerSplit
    <3>6. Horner(Radix, Back, c + 1, n, 0) = 0
      <4> DEFINE d == c + 1
      <4>1. d \in Int /\ \A k \in d .. n : Back[k] = 0
        BY <2>4, <3>3
      <4> HIDE DEF d
      <4>2. Horner(Radix, Back, d, n, 0) = 0
        BY <2>2, <3>3, <4>1, HornerZero
      <4> QED
        BY <4>2 DEF d
    <3>7. Digits(Radix, Back, 1, c)
      BY <2>2 DEF Digits
    <3> QED
      BY <3>2, <3>5, <3>6, <3>7
  \* A number with a digit on top is not zero.
  <2>6. ASSUME NEW s, NEW m \in Nat, m >= 1, Digits(Radix, s, 1, m), s[m] # 0
        PROVE  Horner(Radix, s, 1, m, 0) # 0
    <3> DEFINE p == m - 1
    <3>1. p \in Nat /\ p + 1 = m
      BY <2>6
    <3> HIDE DEF p
    <3>2. Horner(Radix, s, 1, p + 1, 0) >= Pow(Radix, p)
      BY <2>2, <2>6, <3>1, TopDigit
    <3>3. Pow(Radix, p) \in Nat /\ Pow(Radix, p) >= 1
      BY <2>2, <3>1, PowStep
    <3> QED
      BY <3>1, <3>2, <3>3
  <2>7. l = c /\ \A k \in 1 .. c : shown[k] = Back[k]
    <3>1. CASE Back[c] # 0
      <4>1. shown[l] # 0
        <5>1. shown = <<0>> => Written = 0
          <6>1. ASSUME shown = << 0 >> PROVE \A k \in 1 .. l : shown[k] = 0
            BY <6>1 DEF l
          <6>2. l \in Int /\ 1 \in Int
            BY <2>2
          <6> QED
            BY <2>1, <2>2, <6>1, <6>2, HornerZero
        <5>2. Written # 0
          <6>1. c \in Nat /\ c >= 1
            BY <2>2
          <6> QED
            BY <2>5, <2>6, <3>1, <6>1
        <5> QED
          BY <2>1, <2>2, <5>1, <5>2 DEF Trimmed, l
      <4>2. c \in Nat /\ Horner(Radix, shown, 1, l, 0) = Horner(Radix, Back, 1, c, 0)
        BY <2>1, <2>2, <2>5
      <4> QED
        BY <2>2, <2>3, <2>5, <3>1, <4>1, <4>2, Unique
    <3>2. CASE c = 1 /\ Back[1] = 0
      <4>1. Written = 0
        <5>1. \A k \in 1 .. c : Back[k] = 0
          BY <3>2
        <5>2. c \in Int /\ 1 \in Int
          BY <2>2
        <5> QED
          BY <2>2, <2>5, <5>1, <5>2, HornerZero
      <4>2. shown = <<0>>
        <5>1. SUFFICES ASSUME Trimmed(shown) PROVE FALSE
          BY <2>1
        <5>2. shown[l] # 0
          BY <2>1, <5>1 DEF Trimmed, l
        <5>3. Horner(Radix, shown, 1, l, 0) # 0
          BY <2>2, <2>3, <2>6, <5>2
        <5> QED
          BY <2>1, <4>1, <5>3
      <4> QED
        BY <3>2, <4>2 DEF l
    <3> QED
      BY <2>4, <3>1, <3>2
  <2> DEFINE r == [k \in 1 .. l |-> shown[l - k + 1]]
  <2>8. r \in [1 .. c -> Digit] /\ \A k \in 1 .. c : r[k] = Stripped[k]
    <3>1. ASSUME NEW k \in 1 .. c PROVE l - k + 1 \in 1 .. c /\ r[k] = shown[l - k + 1] /\ k \in 1 .. l
      BY <2>2, <2>7
    <3>2. ASSUME NEW k \in 1 .. c PROVE r[k] = Stripped[k] /\ r[k] \in Digit
      <4>1. shown[l - k + 1] = Back[c - k + 1] /\ shown[l - k + 1] \in Digit
        BY <2>2, <2>7, <3>1
      <4> QED
        BY <2>4, <3>1, <4>1
    <3>3. r = [k \in 1 .. c |-> r[k]]
      BY <2>7
    <3> HIDE DEF r
    <3> QED
      BY <3>2, <3>3
  <2>9. r = Stripped
    <3> HIDE DEF r
    <3> QED
      BY <2>4, <2>8
  <2> QED
    BY <2>2, <2>9 DEF l
<1> QED
  BY <1>1, KeptInvariance, PTL
=============================================================================
