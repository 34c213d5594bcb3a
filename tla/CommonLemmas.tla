---------------------------- MODULE CommonLemmas ----------------------------
(***************************************************************************)
(* Facts about numbers and sequences that the proofs of several modules    *)
(* rest on.                                                                *)
(***************************************************************************)
EXTENDS Integers, Sequences, SequenceTheorems, WellFoundedInduction, TLAPS

\* A nonempty set of natural numbers has a least one.
LEMMA LeastNumber ==
    ASSUME NEW S, S \subseteq Nat, S # {}
    PROVE  \E x \in S : \A y \in S : x <= y
  <1> DEFINE R == OpToRel(<, Nat)
  <1>1. IsWellFoundedOn(R, Nat)
    BY NatLessThanWellFounded
  <1>2. PICK x \in S : \A y \in S : ~(<<y, x>> \in R)
    <2> HIDE DEF R
    <2> QED BY <1>1, WFMin
  <1>3. \A y \in S : x <= y
    <2> TAKE y \in S
    <2>1. ~(<<y, x>> \in R)
      BY <1>2
    <2>2. <<y, x>> \in Nat \X Nat
      OBVIOUS
    <2>3. ~(y < x)
      BY <2>1, <2>2 DEF OpToRel
    <2> QED BY <2>3
  <1> QED BY <1>3

\* Three sequences behind one another.
LEMMA Concat3 ==
    ASSUME NEW S, NEW r \in Seq(S), NEW s \in Seq(S), NEW t \in Seq(S)
    PROVE  r \o s \o t \in Seq(S) /\ Len(r \o s \o t) = Len(r) + Len(s) + Len(t)
<1>1. r \o s \in Seq(S) /\ Len(r \o s) = Len(r) + Len(s)
  BY ConcatProperties
<1>2. \A u \in Seq(S) : u \o t \in Seq(S) /\ Len(u \o t) = Len(u) + Len(t)
  BY ConcatProperties
<1>. QED
  BY <1>1, <1>2

\* A set of numbers that holds 0 and, with every number, the next one up to n,
\* holds them all.
LEMMA NumbersUpTo ==
    ASSUME NEW n \in Nat, NEW S, 0 \in S, \A k \in 0 .. n - 1 : k \in S => k + 1 \in S
    PROVE  \A k \in 0 .. n : k \in S
<1>. DEFINE Out == {k \in 0 .. n : k \notin S}
<1>. SUFFICES ASSUME Out # {} PROVE FALSE
  OBVIOUS
<1>1. PICK k \in Out : \A j \in Out : k <= j
  <2>1. Out \subseteq Nat
    OBVIOUS
  <2>. HIDE DEF Out
  <2>. QED
    BY <2>1, LeastNumber
<1>2. k \in 1 .. n
  OBVIOUS
<1>3. k - 1 \in 0 .. n - 1 /\ k - 1 \notin Out /\ k - 1 + 1 = k
  BY <1>1, <1>2
<1>. QED
  BY <1>1, <1>3

\* What a loop of n turns does to a value in S, in each turn.
Turning(S, n, next) == next \in [1 .. n -> [S -> S]]

\* f gives the value after each turn, with `first' before them all.
AfterTurns(S, n, first, next, f) ==
    /\ f \in [0 .. n -> S]
    /\ f[0] = first
    /\ \A k \in 1 .. n : f[k] = next[k][f[k - 1]]

\* A loop of n turns has a function that gives the value after each of them.
LEMMA LoopExists ==
    ASSUME NEW S, NEW n \in Nat, NEW first \in S, NEW next, Turning(S, n, next)
    PROVE  \E f : AfterTurns(S, n, first, next, f)
<1>. USE DEF Turning
<1>. DEFINE Upto(k, g) == /\ g \in [0 .. k -> S]
                          /\ g[0] = first
                          /\ \A i \in 1 .. k : g[i] = next[i][g[i - 1]]
            Done == {k \in 0 .. n : \E g : Upto(k, g)}
<1>1. 0 \in Done
  <2>1. Upto(0, [k \in 0 .. 0 |-> first])
    OBVIOUS
  <2>2. \E g : Upto(0, g)
    BY <2>1
  <2>3. 0 \in 0 .. n
    OBVIOUS
  <2>. HIDE DEF Upto
  <2>. QED
    BY <2>2, <2>3
<1>2. ASSUME NEW k \in 0 .. n - 1, k \in Done
      PROVE  k + 1 \in Done
  <2>1. PICK g : Upto(k, g)
    BY <1>2
  <2>. DEFINE h == [i \in 0 .. k + 1 |-> IF i = k + 1 THEN next[k + 1][g[k]] ELSE g[i]]
  <2>2. next[k + 1][g[k]] \in S
    <3>1. k \in 0 .. k /\ k + 1 \in 1 .. n
      OBVIOUS
    <3>2. g[k] \in S
      BY <2>1, <3>1
    <3>. QED
      BY <3>1, <3>2
  <2>3. \A i \in 0 .. k : i \in 0 .. k + 1 /\ i # k + 1
    OBVIOUS
  <2>4. \A i \in 0 .. k : h[i] = g[i] /\ h[i] \in S
    BY <2>1, <2>3
  <2>5. h[k + 1] = next[k + 1][g[k]]
    OBVIOUS
  <2>6. h \in [0 .. k + 1 -> S]
    BY <2>1, <2>2
  <2>. HIDE DEF h
  <2>7. \A i \in 1 .. k + 1 : h[i] = next[i][h[i - 1]]
    <3>. TAKE i \in 1 .. k + 1
    <3>1. i - 1 \in 0 .. k /\ 0 \in 0 .. k
      OBVIOUS
    <3>2. CASE i = k + 1
      BY <2>4, <2>5, <3>1, <3>2
    <3>3. CASE i # k + 1
      <4>1. i \in 1 .. k /\ i \in 0 .. k
        BY <3>3
      <4>. QED
        BY <2>1, <2>4, <3>1, <4>1
    <3>. QED
      BY <3>2, <3>3
  <2>8. Upto(k + 1, h)
    <3>1. 0 \in 0 .. k
      OBVIOUS
    <3>. QED
      BY <2>1, <2>4, <2>6, <2>7, <3>1
  <2>. QED
    BY <2>8
<1>3. n \in Done
  <2>1. n \in 0 .. n
    OBVIOUS
  <2>. HIDE DEF Done
  <2>. QED
    BY <1>1, <1>2, <2>1, NumbersUpTo
<1>. QED
  BY <1>3 DEF AfterTurns

\* A recursion over the natural numbers: `base' gives the values where it ends,
\* elsewhere `next' makes one of the value at a smaller number.
Descending(S, base, next, down) ==
    /\ DOMAIN base \subseteq Nat
    /\ base \in [DOMAIN base -> S]
    /\ next \in [Nat \ DOMAIN base -> [S -> S]]
    /\ down \in [Nat \ DOMAIN base -> Nat]
    /\ \A n \in Nat \ DOMAIN base : down[n] < n

ByDescent(base, next, down, f, n) ==
    f[n] = IF n \in DOMAIN base THEN base[n] ELSE next[n][f[down[n]]]

LEMMA DescentExists ==
    ASSUME NEW S, NEW base, NEW next, NEW down, Descending(S, base, next, down)
    PROVE  \E f : f \in [Nat -> S] /\ \A n \in Nat : ByDescent(base, next, down, f, n)
<1>. DEFINE Upto(k, g) == g \in [0 .. k -> S] /\ \A n \in 0 .. k : ByDescent(base, next, down, g, n)
<1>1. \A n \in Nat \ DOMAIN base : down[n] \in 0 .. n - 1
  BY DEF Descending
<1>2. ASSUME NEW k \in Nat, NEW g, \A n \in 0 .. k - 1 : g[n] \in S
      PROVE  (IF k \in DOMAIN base THEN base[k] ELSE next[k][g[down[k]]]) \in S
  BY <1>1, <1>2 DEF Descending
<1>3. ASSUME NEW k \in Nat
      PROVE  \E g : Upto(k, g)
  <2>. DEFINE Done == {i \in 0 .. k : \E g : Upto(i, g)}
  <2>1. 0 \in Done
    <3>. DEFINE g == [n \in 0 .. 0 |-> base[0]]
    <3>1. 0 \in DOMAIN base /\ base[0] \in S
      BY <1>1 DEF Descending
    <3>2. g \in [0 .. 0 -> S] /\ g[0] = base[0] /\ \A n \in 0 .. 0 : n = 0
      BY <3>1
    <3>. HIDE DEF g
    <3>3. Upto(0, g)
      BY <3>1, <3>2 DEF ByDescent
    <3>4. \E h : Upto(0, h)
      BY <3>3
    <3>5. 0 \in 0 .. k
      OBVIOUS
    <3>. HIDE DEF Upto
    <3>. QED
      BY <3>4, <3>5
  <2>2. ASSUME NEW i \in 0 .. k - 1, i \in Done
        PROVE  i + 1 \in Done
    <3>1. PICK g : Upto(i, g)
      BY <2>2
    <3>. DEFINE new == IF i + 1 \in DOMAIN base THEN base[i + 1]
                       ELSE next[i + 1][g[down[i + 1]]]
                h == [n \in 0 .. i + 1 |-> IF n = i + 1 THEN new ELSE g[n]]
    <3>2. new \in S
      <4>1. i + 1 \in Nat /\ \A n \in 0 .. (i + 1) - 1 : g[n] \in S
        BY <3>1
      <4>. QED
        BY <1>2, <4>1
    <3>. HIDE DEF new
    <3>3. \A n \in 0 .. i : h[n] = g[n]
      OBVIOUS
    <3>4. h[i + 1] = new /\ h \in [0 .. i + 1 -> S]
      BY <3>1, <3>2
    <3>. HIDE DEF h
    <3>5. ASSUME NEW n \in 0 .. i + 1
          PROVE  ByDescent(base, next, down, h, n)
      <4>1. n \in Nat /\ (n \notin DOMAIN base => down[n] \in 0 .. i)
        BY <1>1
      <4>2. CASE n = i + 1
        BY <3>3, <3>4, <4>1, <4>2 DEF ByDescent, new
      <4>3. CASE n # i + 1
        <5>1. n \in 0 .. i
          BY <4>3
        <5>. QED
          BY <3>1, <3>3, <4>1, <5>1 DEF ByDescent
      <4>. QED
        BY <4>2, <4>3
    <3>6. Upto(i + 1, h)
      BY <3>4, <3>5
    <3>7. \E f : Upto(i + 1, f)
      BY <3>6
    <3>8. i + 1 \in 0 .. k
      OBVIOUS
    <3>. HIDE DEF Upto
    <3>. QED
      BY <3>7, <3>8
  <2>3. k \in Done
    <3>1. k \in 0 .. k
      OBVIOUS
    <3>. HIDE DEF Done
    <3>. QED
      BY <2>1, <2>2, <3>1, NumbersUpTo
  <2>. QED
    BY <2>3
<1>4. ASSUME NEW k \in Nat, NEW g, Upto(k, g), NEW l \in Nat, NEW h, Upto(l, h),
             NEW n \in 0 .. k, n \in 0 .. l
      PROVE  g[n] = h[n]
  <2>. DEFINE Wrong == {i \in (0 .. k) \cap (0 .. l) : g[i] # h[i]}
  <2>. SUFFICES ASSUME Wrong # {} PROVE FALSE
    BY <1>4
  <2>1. PICK i \in Wrong : \A j \in Wrong : i <= j
    <3>1. Wrong \subseteq Nat
      OBVIOUS
    <3>. HIDE DEF Wrong
    <3>. QED
      BY <3>1, LeastNumber
  <2>2. i \in 0 .. k /\ i \in 0 .. l /\ i \in Nat /\ g[i] # h[i]
    OBVIOUS
  <2>3. /\ g[i] = IF i \in DOMAIN base THEN base[i] ELSE next[i][g[down[i]]]
        /\ h[i] = IF i \in DOMAIN base THEN base[i] ELSE next[i][h[down[i]]]
    BY <1>4, <2>2 DEF ByDescent
  <2>4. i \notin DOMAIN base /\ g[down[i]] # h[down[i]]
    BY <2>2, <2>3
  <2>5. down[i] \in 0 .. i - 1
    BY <1>1, <2>2, <2>4
  <2>6. down[i] \in Wrong
    BY <2>2, <2>4, <2>5
  <2>. QED
    BY <2>1, <2>2, <2>5, <2>6
<1>. DEFINE G(k) == CHOOSE g : Upto(k, g)
            f == [n \in Nat |-> G(n)[n]]
<1>5. \A k \in Nat : Upto(k, G(k))
  <2>. HIDE DEF Upto
  <2>. QED
    BY <1>3
<1>. HIDE DEF G
<1>6. f \in [Nat -> S]
  <2>1. \A k \in Nat : k \in 0 .. k
    OBVIOUS
  <2>. QED
    BY <1>5, <2>1
<1>7. ASSUME NEW n \in Nat
      PROVE  ByDescent(base, next, down, f, n)
  <2>1. n \in 0 .. n
    OBVIOUS
  <2>2. f[n] = G(n)[n]
    OBVIOUS
  <2>3. G(n)[n] = IF n \in DOMAIN base THEN base[n] ELSE next[n][G(n)[down[n]]]
    BY <1>5, <2>1 DEF ByDescent
  <2>4. n \notin DOMAIN base => G(n)[down[n]] = f[down[n]]
    <3>. SUFFICES ASSUME n \notin DOMAIN base
                  PROVE  G(n)[down[n]] = f[down[n]]
      OBVIOUS
    <3>. DEFINE m == down[n]
    <3>1. m \in 0 .. n /\ m \in Nat /\ m \in 0 .. m
      BY <1>1
    <3>2. Upto(n, G(n)) /\ Upto(m, G(m))
      BY <1>5, <3>1
    <3>3. f[m] = G(m)[m]
      BY <3>1
    <3>. HIDE DEF m, f, Upto
    <3>4. G(n)[m] = G(m)[m]
      BY <1>4, <3>1, <3>2
    <3>. QED
      BY <3>3, <3>4 DEF m
  <2>. QED
    BY <2>2, <2>3, <2>4 DEF ByDescent
<1>. QED
  BY <1>6, <1>7

-----------------------------------------------------------------------------
(* Digits and the numbers that they denote. *)

\* With every digit of d, f becomes `base' times as large and the digit is added.
Appends(d, base, n, f) ==
    /\ f \in [0 .. n -> Nat]
    /\ \A k \in 1 .. n : f[k] = f[k - 1] * base + d[k]

\* f[k] is the number that the first k digits of d denote.
Numbers(d, base, n, f) == f[0] = 0 /\ Appends(d, base, n, f)

\* Each of the first n is `base' times the one before.
Geometric(x, base, n) ==
    /\ x \in [0 .. n -> Nat]
    /\ \A k \in 1 .. n : x[k] = x[k - 1] * base

\* All the powers of `base'.
Powers(base, x) ==
    /\ x \in [Nat -> Nat]
    /\ x[0] = 1
    /\ \A k \in Nat : x[k + 1] = x[k] * base

LEMMA TimesMonotonic ==
    ASSUME NEW base \in Nat, NEW a \in Nat, NEW b \in Nat, a <= b
    PROVE  /\ a * base \in Nat /\ b * base \in Nat
           /\ a * base <= b * base
           /\ (a + 1) * base = a * base + base
<1>1. PICK c \in Nat : b = a + c
  <2>1. b - a \in Nat /\ b = a + (b - a)
    OBVIOUS
  <2>. QED
    BY <2>1
<1>2. a * base \in Nat /\ c * base \in Nat /\ (a + c) * base = a * base + c * base
  OBVIOUS
<1>3. (a + 1) * base = a * base + base
  OBVIOUS
<1>. QED
  BY <1>1, <1>2, <1>3

\* The digits from place z on denote the number that they denote alone, where
\* those before it denote 0.
LEMMA NumberShift ==
    ASSUME NEW base \in Nat, NEW n \in Nat, NEW m \in Nat, NEW z \in Nat, z + m <= n,
           NEW d, NEW f, Numbers(d, base, n, f), NEW e, NEW g, Numbers(e, base, m, g),
           f[z] = 0, \A i \in 1 .. m : e[i] = d[z + i]
    PROVE  \A i \in 0 .. m : g[i] = f[z + i]
<1>. DEFINE Same == {i \in 0 .. m : g[i] = f[z + i]}
<1>1. 0 \in Same
  <2>1. z + 0 = z /\ 0 \in 0 .. m
    OBVIOUS
  <2>. QED
    BY <2>1 DEF Numbers, Appends
<1>2. ASSUME NEW i \in 0 .. m - 1, i \in Same
      PROVE  i + 1 \in Same
  <2>1. /\ i + 1 \in 1 .. m /\ i + 1 \in 0 .. m /\ z + (i + 1) \in 1 .. n
        /\ (i + 1) - 1 = i /\ (z + (i + 1)) - 1 = z + i
    OBVIOUS
  <2>2. g[i + 1] = g[i] * base + e[i + 1]
    BY <2>1 DEF Numbers, Appends
  <2>3. f[z + (i + 1)] = f[z + i] * base + d[z + (i + 1)]
    BY <2>1 DEF Numbers, Appends
  <2>. QED
    BY <1>2, <2>1, <2>2, <2>3
<1>. HIDE DEF Same
<1>3. \A i \in 0 .. m : i \in Same
  BY <1>1, <1>2, NumbersUpTo
<1>. QED
  BY <1>3 DEF Same

\* Zeros denote 0.
LEMMA NumberOfZeros ==
    ASSUME NEW base \in Nat, NEW n \in Nat, NEW z \in 0 .. n,
           NEW d, NEW f, Numbers(d, base, n, f), \A i \in 1 .. z : d[i] = 0
    PROVE  \A i \in 0 .. z : f[i] = 0
<1>. DEFINE None == {i \in 0 .. z : f[i] = 0}
<1>1. 0 \in None
  BY DEF Numbers, Appends
<1>2. ASSUME NEW i \in 0 .. z - 1, i \in None
      PROVE  i + 1 \in None
  <2>1. i + 1 \in 1 .. n /\ i + 1 \in 1 .. z /\ i + 1 \in 0 .. z /\ (i + 1) - 1 = i
    OBVIOUS
  <2>2. f[i + 1] = f[i] * base + d[i + 1]
    BY <2>1 DEF Numbers, Appends
  <2>3. f[i] = 0 /\ d[i + 1] = 0 /\ 0 * base + 0 = 0
    BY <1>2, <2>1
  <2>. QED
    BY <2>1, <2>2, <2>3
<1>. HIDE DEF None
<1>3. \A i \in 0 .. z : i \in None
  BY <1>1, <1>2, NumbersUpTo
<1>. QED
  BY <1>3 DEF None

\* d is z zeros and behind them the m digits e.
ZerosAnd(d, z, e, m) ==
    (\A i \in 1 .. z : d[i] = 0) /\ (\A i \in 1 .. m : e[i] = d[z + i])

\* The zeros in front of a number do not change it.
LEMMA NumberBehindZeros ==
    ASSUME NEW base \in Nat, NEW n \in Nat, NEW m \in Nat, NEW z \in Nat, z + m = n,
           NEW d, NEW f, Numbers(d, base, n, f), NEW e, NEW g, Numbers(e, base, m, g),
           ZerosAnd(d, z, e, m)
    PROVE  g[m] = f[n]
<1>1. z \in 0 .. n /\ z \in 0 .. z /\ m \in 0 .. m /\ z + m <= n
  OBVIOUS
<1>2. \A i \in 0 .. z : f[i] = 0
  BY <1>1, NumberOfZeros DEF ZerosAnd
<1>3. f[z] = 0
  BY <1>1, <1>2
<1>4. \A i \in 0 .. m : g[i] = f[z + i]
  BY <1>1, <1>3, NumberShift DEF ZerosAnd
<1>. QED
  BY <1>1, <1>4

\* Every further digit makes a number `base' times as large, at least, and less
\* than a power that it was less than.
LEMMA NumberAtLeast ==
    ASSUME NEW base \in Nat, NEW n \in Nat, NEW z \in Nat, NEW m \in Nat, z + m <= n,
           NEW d, NEW f, Appends(d, base, n, f), \A i \in 1 .. n : d[i] \in Nat,
           NEW x, Geometric(x, base, m), x[0] <= f[z]
    PROVE  \A i \in 0 .. m : x[i] <= f[z + i]
<1>. DEFINE Least == {i \in 0 .. m : x[i] <= f[z + i]}
<1>1. 0 \in Least
  <2>1. z + 0 = z /\ 0 \in 0 .. m
    OBVIOUS
  <2>. QED
    BY <2>1
<1>2. ASSUME NEW i \in 0 .. m - 1, i \in Least
      PROVE  i + 1 \in Least
  <2>1. /\ i + 1 \in 1 .. m /\ i + 1 \in 0 .. m /\ i \in 0 .. m
        /\ z + (i + 1) \in 1 .. n /\ z + (i + 1) \in 0 .. n /\ z + i \in 0 .. n
        /\ (i + 1) - 1 = i /\ (z + (i + 1)) - 1 = z + i
    OBVIOUS
  <2>2. /\ f[z + (i + 1)] = f[z + i] * base + d[z + (i + 1)]
        /\ f[z + i] \in Nat /\ f[z + (i + 1)] \in Nat /\ d[z + (i + 1)] \in Nat
    BY <2>1 DEF Appends
  <2>3. x[i + 1] = x[i] * base /\ x[i] \in Nat /\ x[i + 1] \in Nat
    BY <2>1 DEF Geometric
  <2>4. x[i] <= f[z + i]
    BY <1>2
  <2>5. /\ x[i] * base \in Nat /\ f[z + i] * base \in Nat
        /\ x[i] * base <= f[z + i] * base
    BY <2>2, <2>3, <2>4, TimesMonotonic
  <2>6. x[i + 1] <= f[z + (i + 1)]
    BY <2>2, <2>3, <2>5
  <2>. QED
    BY <2>1, <2>6
<1>. HIDE DEF Least
<1>3. \A i \in 0 .. m : i \in Least
  BY <1>1, <1>2, NumbersUpTo
<1>. QED
  BY <1>3 DEF Least

LEMMA NumberBelow ==
    ASSUME NEW base \in Nat, NEW n \in Nat, NEW z \in Nat, NEW m \in Nat, z + m <= n,
           NEW d, NEW f, Numbers(d, base, n, f), \A i \in 1 .. n : d[i] \in 0 .. base - 1,
           NEW x, Geometric(x, base, m), f[z] < x[0]
    PROVE  \A i \in 0 .. m : f[z + i] < x[i]
<1>. DEFINE Most == {i \in 0 .. m : f[z + i] < x[i]}
<1>1. 0 \in Most
  <2>1. z + 0 = z /\ 0 \in 0 .. m
    OBVIOUS
  <2>. QED
    BY <2>1
<1>2. ASSUME NEW i \in 0 .. m - 1, i \in Most
      PROVE  i + 1 \in Most
  <2>1. /\ i + 1 \in 1 .. m /\ i + 1 \in 0 .. m /\ i \in 0 .. m
        /\ z + (i + 1) \in 1 .. n /\ z + (i + 1) \in 0 .. n /\ z + i \in 0 .. n
        /\ (i + 1) - 1 = i /\ (z + (i + 1)) - 1 = z + i
    OBVIOUS
  <2>2. /\ f[z + (i + 1)] = f[z + i] * base + d[z + (i + 1)]
        /\ f[z + i] \in Nat /\ f[z + (i + 1)] \in Nat
        /\ d[z + (i + 1)] \in 0 .. base - 1
    BY <2>1 DEF Numbers, Appends
  <2>3. x[i + 1] = x[i] * base /\ x[i] \in Nat /\ x[i + 1] \in Nat
    BY <2>1 DEF Geometric
  <2>4. f[z + i] + 1 \in Nat /\ f[z + i] + 1 <= x[i]
    BY <1>2, <2>2, <2>3
  <2>5. /\ (f[z + i] + 1) * base \in Nat /\ x[i] * base \in Nat
        /\ (f[z + i] + 1) * base <= x[i] * base
    BY <2>2, <2>3, <2>4, TimesMonotonic
  <2>6. /\ f[z + i] * base \in Nat
        /\ (f[z + i] + 1) * base = f[z + i] * base + base
    BY <2>2, TimesMonotonic
  <2>7. f[z + (i + 1)] < x[i + 1]
    BY <2>2, <2>3, <2>5, <2>6
  <2>. QED
    BY <2>1, <2>7
<1>. HIDE DEF Most
<1>3. \A i \in 0 .. m : i \in Most
  BY <1>1, <1>2, NumbersUpTo
<1>. QED
  BY <1>3 DEF Most

\* A number has one quotient and one remainder.
LEMMA OneQuotient ==
    ASSUME NEW base \in Nat, NEW a \in Nat, NEW b \in Nat,
           NEW x \in 0 .. base - 1, NEW y \in 0 .. base - 1, a * base + x = b * base + y
    PROVE  a = b /\ x = y
<1>1. ASSUME NEW p \in Nat, NEW q \in Nat, NEW u \in 0 .. base - 1, NEW v \in 0 .. base - 1,
             p < q, p * base + u = q * base + v
      PROVE  FALSE
  <2>1. /\ (p + 1) * base \in Nat /\ q * base \in Nat /\ p * base \in Nat
        /\ (p + 1) * base <= q * base
        /\ (p + 1) * base = p * base + base
    <3>1. p + 1 \in Nat /\ p + 1 <= q
      BY <1>1
    <3>2. (p + 1) * base \in Nat /\ q * base \in Nat /\ (p + 1) * base <= q * base
      BY <3>1, TimesMonotonic
    <3>3. p * base \in Nat /\ (p + 1) * base = p * base + base
      BY TimesMonotonic
    <3>. QED
      BY <3>2, <3>3
  <2>. QED
    BY <1>1, <2>1
<1>2. ~(a < b) /\ ~(b < a)
  BY <1>1
<1>3. a = b
  BY <1>2
<1>4. a * base \in Int
  OBVIOUS
<1>. QED
  BY <1>3, <1>4

\* A number that is not 0 does not become 0 by further digits.
LEMMA NumberStays ==
    ASSUME NEW base \in Nat \ {0}, NEW n \in Nat, NEW z \in 0 .. n,
           NEW d, NEW f, Numbers(d, base, n, f), \A i \in 1 .. n : d[i] \in Nat, f[z] # 0
    PROVE  \A i \in 0 .. n - z : f[z + i] # 0
<1>. DEFINE Some == {i \in 0 .. n - z : f[z + i] # 0}
<1>1. 0 \in Some
  <2>1. z + 0 = z /\ 0 \in 0 .. n - z
    OBVIOUS
  <2>. QED
    BY <2>1
<1>2. ASSUME NEW i \in 0 .. (n - z) - 1, i \in Some
      PROVE  i + 1 \in Some
  <2>1. /\ i + 1 \in 0 .. n - z /\ z + (i + 1) \in 1 .. n /\ z + i \in 0 .. n
        /\ (z + (i + 1)) - 1 = z + i
    OBVIOUS
  <2>2. /\ f[z + (i + 1)] = f[z + i] * base + d[z + (i + 1)]
        /\ f[z + i] \in Nat /\ d[z + (i + 1)] \in Nat
    BY <2>1 DEF Numbers, Appends
  <2>3. f[z + i] >= 1
    BY <1>2, <2>2
  <2>4. f[z + i] * base \in Nat /\ 1 * base = base /\ 1 * base <= f[z + i] * base
    BY <2>2, <2>3, TimesMonotonic
  <2>5. f[z + (i + 1)] # 0
    BY <2>2, <2>4
  <2>. QED
    BY <2>1, <2>5
<1>. HIDE DEF Some
<1>3. n - z \in Nat
  OBVIOUS
<1>4. \A i \in 0 .. n - z : i \in Some
  BY <1>1, <1>2, <1>3, NumbersUpTo
<1>. QED
  BY <1>4 DEF Some

\* Two texts of the same number agree from the right, as far as both reach.
LEMMA SameFromRight ==
    ASSUME NEW base \in Nat, NEW n \in Nat, NEW m \in Nat, n <= m,
           NEW d, NEW f, Numbers(d, base, n, f), \A i \in 1 .. n : d[i] \in 0 .. base - 1,
           NEW e, NEW g, Numbers(e, base, m, g), \A i \in 1 .. m : e[i] \in 0 .. base - 1,
           f[n] = g[m]
    PROVE  /\ g[m - n] = 0
           /\ \A i \in 1 .. n : d[i] = e[(m - n) + i]
<1>. DEFINE Same == {k \in 0 .. n : f[n - k] = g[m - k]}
<1>1. ASSUME NEW k \in 0 .. n - 1, k \in Same
      PROVE  k + 1 \in Same /\ d[n - k] = e[m - k]
  <2>1. /\ k + 1 \in 0 .. n /\ n - k \in 1 .. n /\ m - k \in 1 .. m
        /\ (n - k) - 1 = n - (k + 1) /\ (m - k) - 1 = m - (k + 1)
        /\ n - (k + 1) \in 0 .. n /\ m - (k + 1) \in 0 .. m
    OBVIOUS
  <2>2. /\ f[n - k] = f[n - (k + 1)] * base + d[n - k]
        /\ f[n - (k + 1)] \in Nat /\ d[n - k] \in 0 .. base - 1
    BY <2>1 DEF Numbers, Appends
  <2>3. /\ g[m - k] = g[m - (k + 1)] * base + e[m - k]
        /\ g[m - (k + 1)] \in Nat /\ e[m - k] \in 0 .. base - 1
    BY <2>1 DEF Numbers, Appends
  <2>4. f[n - k] = g[m - k]
    BY <1>1
  <2>. DEFINE a == f[n - (k + 1)]
              b == g[m - (k + 1)]
              x == d[n - k]
              y == e[m - k]
  <2>5. a * base + x = b * base + y
    BY <2>2, <2>3, <2>4
  <2>6. a \in Nat /\ b \in Nat /\ x \in 0 .. base - 1 /\ y \in 0 .. base - 1
    BY <2>2, <2>3
  <2>. HIDE DEF a, b, x, y
  <2>7. a = b /\ x = y
    BY <2>5, <2>6, OneQuotient
  <2>. QED
    BY <2>1, <2>7 DEF a, b, x, y
<1>2. 0 \in Same
  <2>1. n - 0 = n /\ m - 0 = m /\ 0 \in 0 .. n
    OBVIOUS
  <2>. QED
    BY <2>1
<1>3. \A k \in 0 .. n : k \in Same
  <2>. HIDE DEF Same
  <2>. QED
    BY <1>1, <1>2, NumbersUpTo
<1>4. g[m - n] = 0
  <2>1. n \in 0 .. n /\ n - n = 0
    OBVIOUS
  <2>2. f[0] = 0
    BY DEF Numbers, Appends
  <2>. QED
    BY <1>3, <2>1, <2>2
<1>5. ASSUME NEW i \in 1 .. n
      PROVE  d[i] = e[(m - n) + i]
  <2>1. n - i \in 0 .. n - 1 /\ n - i \in 0 .. n /\ n - (n - i) = i /\ m - (n - i) = (m - n) + i
    OBVIOUS
  <2>2. n - i \in Same
    BY <1>3, <2>1
  <2>3. d[n - (n - i)] = e[m - (n - i)]
    BY <1>1, <2>1, <2>2
  <2>. QED
    BY <2>1, <2>3
<1>. QED
  BY <1>4, <1>5

\* Two texts of the same number that do not begin with 0 are the same.
LEMMA SameDigits ==
    ASSUME NEW base \in Nat, NEW n \in Nat, NEW m \in Nat,
           NEW d, NEW f, Numbers(d, base, n, f), \A i \in 1 .. n : d[i] \in 0 .. base - 1,
           NEW e, NEW g, Numbers(e, base, m, g), \A i \in 1 .. m : e[i] \in 0 .. base - 1,
           n > 0 => d[1] # 0, m > 0 => e[1] # 0, f[n] = g[m]
    PROVE  n = m /\ \A i \in 1 .. n : d[i] = e[i]
<1>1. ASSUME NEW k \in Nat, NEW a, NEW h, Numbers(a, base, k, h),
             \A i \in 1 .. k : a[i] \in 0 .. base - 1, k > 0, a[1] # 0, NEW z \in 1 .. k
      PROVE  h[z] # 0
  <2>1. 1 \in 1 .. k /\ 1 \in 0 .. k /\ z - 1 \in 0 .. k - 1 /\ 1 + (z - 1) = z /\ 1 - 1 = 0
    BY <1>1
  <2>2. h[1] = h[0] * base + a[1] /\ h[0] = 0
    BY <1>1, <2>1 DEF Numbers, Appends
  <2>3. a[1] \in Nat \ {0} /\ base \in Nat \ {0}
    BY <1>1, <2>1
  <2>4. h[1] # 0
    BY <2>2, <2>3
  <2>5. \A i \in 1 .. k : a[i] \in Nat
    BY <1>1
  <2>6. h[1 + (z - 1)] # 0
    BY <1>1, <2>1, <2>3, <2>4, <2>5, NumberStays
  <2>. QED
    BY <2>1, <2>6
<1>2. ~(n < m)
  <2>. SUFFICES ASSUME n < m PROVE FALSE
    OBVIOUS
  <2>1. m - n \in 1 .. m /\ m > 0
    OBVIOUS
  <2>2. g[m - n] = 0
    BY SameFromRight
  <2>. QED
    BY <1>1, <2>1, <2>2
<1>3. ~(m < n)
  <2>. SUFFICES ASSUME m < n PROVE FALSE
    OBVIOUS
  <2>1. n - m \in 1 .. n /\ n > 0
    OBVIOUS
  <2>2. f[n - m] = 0
    BY SameFromRight
  <2>. QED
    BY <1>1, <2>1, <2>2
<1>4. n = m /\ n <= m
  BY <1>2, <1>3
<1>5. \A i \in 1 .. n : d[i] = e[(m - n) + i]
  BY <1>4, SameFromRight
<1>6. \A i \in 1 .. n : (m - n) + i = i
  BY <1>4
<1>. QED
  BY <1>4, <1>5, <1>6

\* There are powers.
LEMMA PowersExist ==
    ASSUME NEW base \in Nat
    PROVE  \E x : Powers(base, x)
<1>. DEFINE first == [n \in {0} |-> 1]
            next == [n \in Nat \ {0} |-> [v \in Nat |-> v * base]]
            down == [n \in Nat \ {0} |-> n - 1]
<1>1. \A v \in Nat : v * base \in Nat
  OBVIOUS
<1>2. DOMAIN first = {0} /\ first \in [{0} -> Nat] /\ first[0] = 1
  OBVIOUS
<1>3. next \in [Nat \ {0} -> [Nat -> Nat]] /\ \A n \in Nat \ {0}, v \in Nat : next[n][v] = v * base
  BY <1>1
<1>4. down \in [Nat \ {0} -> Nat] /\ \A n \in Nat \ {0} : down[n] = n - 1 /\ down[n] < n
  OBVIOUS
<1>. HIDE DEF first, next, down
<1>5. Descending(Nat, first, next, down)
  BY <1>2, <1>3, <1>4 DEF Descending
<1>6. PICK x : x \in [Nat -> Nat] /\ \A n \in Nat : ByDescent(first, next, down, x, n)
  BY <1>5, DescentExists
<1>7. x[0] = 1
  BY <1>2, <1>6 DEF ByDescent
<1>8. ASSUME NEW k \in Nat
      PROVE  x[k + 1] = x[k] * base
  <2>1. k + 1 \in Nat \ {0} /\ (k + 1) - 1 = k
    OBVIOUS
  <2>2. x[k + 1] = next[k + 1][x[down[k + 1]]]
    BY <1>2, <1>6, <2>1 DEF ByDescent
  <2>3. down[k + 1] = k
    BY <1>4, <2>1
  <2>. QED
    BY <1>3, <1>6, <2>1, <2>2, <2>3
<1>9. Powers(base, x)
  BY <1>6, <1>7, <1>8 DEF Powers
<1>. QED
  BY <1>9


LEMMA PowersUpTo ==
    ASSUME NEW base \in Nat, NEW x, Powers(base, x), NEW n \in Nat
    PROVE  LET y == [i \in 0 .. n |-> x[i]]
           IN  Geometric(y, base, n) /\ y[0] = 1 /\ \A i \in 0 .. n : y[i] = x[i]
<1>. DEFINE y == [i \in 0 .. n |-> x[i]]
<1>1. \A i \in 1 .. n : i - 1 \in Nat /\ (i - 1) + 1 = i /\ i - 1 \in 0 .. n /\ i \in 0 .. n
  OBVIOUS
<1>2. \A i \in 1 .. n : x[i] = x[i - 1] * base
  BY <1>1 DEF Powers
<1>3. 0 \in 0 .. n /\ \A i \in 0 .. n : i \in Nat
  OBVIOUS
<1>4. y \in [0 .. n -> Nat] /\ x[0] = 1
  BY <1>3 DEF Powers
<1>. QED
  BY <1>1, <1>2, <1>3, <1>4 DEF Geometric

LEMMA PowersGrow ==
    ASSUME NEW base \in Nat \ {0}, NEW x, Powers(base, x), NEW n \in Nat, NEW m \in Nat, n <= m
    PROVE  x[n] \in Nat /\ x[m] \in Nat /\ x[n] <= x[m]
<1>. DEFINE Above == {i \in 0 .. m - n : x[n] <= x[n + i]}
<1>1. \A i \in Nat : x[i] \in Nat
  BY DEF Powers
<1>2. 0 \in Above /\ m - n \in Nat
  BY <1>1
<1>3. ASSUME NEW i \in 0 .. (m - n) - 1, i \in Above
      PROVE  i + 1 \in Above
  <2>1. n + i \in Nat /\ n + (i + 1) = (n + i) + 1 /\ i + 1 \in 0 .. m - n
    OBVIOUS
  <2>2. x[(n + i) + 1] = x[n + i] * base
    BY <2>1 DEF Powers
  <2>3. x[n + i] * base >= x[n + i]
    <3>. DEFINE v == x[n + i]
    <3>1. v \in Nat
      BY <1>1, <2>1
    <3>. HIDE DEF v
    <3>2. 1 * v \in Nat /\ base * v \in Nat /\ 1 * v <= base * v
      BY <3>1, TimesMonotonic
    <3>3. base * v = v * base /\ 1 * v = v
      BY <3>1
    <3>. QED
      BY <3>2, <3>3 DEF v
  <2>4. x[n] \in Nat /\ x[n + i] \in Nat /\ x[(n + i) + 1] \in Nat /\ x[n] <= x[n + i]
    BY <1>1, <1>3, <2>1
  <2>5. x[n] <= x[n + (i + 1)]
    BY <2>1, <2>2, <2>3, <2>4
  <2>. QED
    BY <2>1, <2>5
<1>4. m - n \in 0 .. m - n /\ n + (m - n) = m
  OBVIOUS
<1>5. \A i \in 0 .. m - n : i \in Above
  <2>. HIDE DEF Above
  <2>. QED
    BY <1>2, <1>3, NumbersUpTo
<1>6. x[n] <= x[n + (m - n)]
  BY <1>4, <1>5
<1>. QED
  BY <1>1, <1>4, <1>6

\* A text of m digits that does not begin with 0 denotes a number between two
\* powers that follow one another.
LEMMA DigitsOfNumber ==
    ASSUME NEW base \in Nat \ {0}, NEW x, Powers(base, x), NEW m \in Nat \ {0},
           NEW d, NEW f, Numbers(d, base, m, f), \A i \in 1 .. m : d[i] \in 0 .. base - 1,
           d[1] # 0
    PROVE  x[m - 1] \in Nat /\ f[m] \in Nat /\ x[m] \in Nat /\ x[m - 1] <= f[m] /\ f[m] < x[m]
<1>1. /\ 1 \in 1 .. m /\ m - 1 \in Nat /\ 1 + (m - 1) = m /\ 0 + m = m /\ 1 - 1 = 0
      /\ m \in 0 .. m /\ m - 1 \in 0 .. m - 1 /\ m \in Nat /\ 1 \in Nat /\ 0 \in Nat
      /\ m \in 1 .. m
  OBVIOUS
<1>2. f[1] = f[0] * base + d[1] /\ f[0] = 0
  BY <1>1 DEF Numbers, Appends
<1>3. d[1] \in Nat \ {0} /\ base \in Nat
  BY <1>1
<1>4. f[1] >= 1
  BY <1>2, <1>3
<1>5. x[m - 1] <= f[m]
  <2>. DEFINE y == [i \in 0 .. m - 1 |-> x[i]]
  <2>1. Geometric(y, base, m - 1) /\ y[0] = 1 /\ y[m - 1] = x[m - 1]
    BY <1>1, PowersUpTo
  <2>. HIDE DEF y
  <2>2. Appends(d, base, m, f) /\ \A i \in 1 .. m : d[i] \in Nat
    BY DEF Numbers
  <2>. DEFINE last == m - 1
  <2>3. last \in Nat /\ 1 + last <= m /\ last \in 0 .. last
    BY <1>1
  <2>4. y[0] <= f[1]
    BY <1>4, <2>1
  <2>5. Geometric(y, base, last)
    BY <2>1
  <2>. HIDE DEF last
  <2>6. \A i \in 0 .. last : y[i] <= f[1 + i]
    BY <1>1, <1>3, <2>2, <2>3, <2>4, <2>5, NumberAtLeast
  <2>7. y[last] <= f[1 + last]
    BY <2>3, <2>6
  <2>. QED
    BY <1>1, <2>1, <2>7 DEF last
<1>6. f[m] < x[m]
  <2>. DEFINE y == [i \in 0 .. m |-> x[i]]
  <2>1. Geometric(y, base, m) /\ y[0] = 1 /\ y[m] = x[m]
    BY <1>1, PowersUpTo
  <2>. HIDE DEF y
  <2>2. f[0] < y[0] /\ 0 + m <= m
    BY <1>2, <2>1
  <2>3. f[0 + m] < y[m]
    BY <1>1, <1>3, <2>1, <2>2, NumberBelow
  <2>. QED
    BY <1>1, <2>1, <2>3
<1>7. x[m - 1] \in Nat /\ x[m] \in Nat /\ f[m] \in Nat
  BY <1>1 DEF Powers, Numbers, Appends
<1>. QED
  BY <1>5, <1>6, <1>7

=============================================================================
