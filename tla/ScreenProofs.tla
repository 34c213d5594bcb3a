---------------------------- MODULE ScreenProofs ---------------------------
(***************************************************************************)
(* Theorems about what the screens show: which outputs, for every number   *)
(* of outputs that a counter can hold and every list of change indices, in *)
(* whatever order the host sent it; the amount of an output, for every     *)
(* value of up to 19 digits; and a path, for all the numbers of 31 bits.   *)
(***************************************************************************)
EXTENDS ConversionsProofs, FiniteSetTheorems

LEMMA Indices ==
    ASSUME InputOK, kind = "change"
    PROVE  /\ input \in Seq(Nat) /\ Len(input) \in Nat /\ DOMAIN input = 1 .. Len(input)
           /\ \A i \in 1 .. Len(input) : input[i] \in Nat
BY ModulusAssumption, LenProperties, SeqMonotonic DEF InputOK

LEMMA Interval ==
    ASSUME NEW k \in Nat
    PROVE  /\ IsFiniteSet(1 .. k) /\ Cardinality(1 .. k) = k
           /\ IsFiniteSet(0 .. k - 1) /\ Cardinality(0 .. k - 1) = k
<1>1. 1 \in Int /\ 0 \in Int /\ k \in Int /\ k - 1 \in Int
  OBVIOUS
<1>2. IsFiniteSet(1 .. k) /\ Cardinality(1 .. k) = IF 1 > k THEN 0 ELSE k - 1 + 1
  BY <1>1, FS_Interval
<1>3. IsFiniteSet(0 .. k - 1)
      /\ Cardinality(0 .. k - 1) = IF 0 > k - 1 THEN 0 ELSE k - 1 - 0 + 1
  BY <1>1, FS_Interval
<1>. QED
  BY <1>2, <1>3

LEMMA NoWrap ==
    ASSUME NEW m \in Nat \ {0}, NEW k \in 0 .. m - 1
    PROVE  k % m = k
OBVIOUS

\* The members of a finite set that are not in a subset of it.
LEMMA Others ==
    ASSUME NEW S, NEW T, IsFiniteSet(S), T \subseteq S
    PROVE  /\ Cardinality(S \ T) = Cardinality(S) - Cardinality(T)
           /\ Cardinality(S \ T) \in Nat /\ Cardinality(T) \in Nat
<1>1. IsFiniteSet(T) /\ IsFiniteSet(S \ T)
  BY FS_Subset, FS_Difference
<1>2. Cardinality(S \ T) = Cardinality(S) - Cardinality(S \cap T)
  BY FS_Difference
<1>3. S \cap T = T
  OBVIOUS
<1>. QED
  BY <1>1, <1>2, <1>3, FS_CardinalityType

\* As many entries as they name indices, if none is named twice.
LEMMA NamedOnce ==
    ASSUME NEW list \in Seq(Nat), IsInjective(list), NEW I, I \subseteq 1 .. Len(list)
    PROVE  /\ IsFiniteSet(I)
           /\ IsFiniteSet({list[i] : i \in I})
           /\ Cardinality({list[i] : i \in I}) = Cardinality(I)
<1>. DEFINE T == {list[i] : i \in I}
            f == [i \in I |-> list[i]]
<1>1. Len(list) \in Nat /\ DOMAIN list = 1 .. Len(list)
  BY LenProperties
<1>2. IsFiniteSet(I)
  <2>1. IsFiniteSet(1 .. Len(list))
    BY <1>1, FS_Interval
  <2>. QED
    BY <2>1, FS_Subset
<1>3. f \in Surjection(I, T)
  BY DEF Surjection
<1>4. f \in Injection(I, T)
  <2>1. f \in [I -> T]
    OBVIOUS
  <2>2. \A a, b \in I : list[a] = list[b] => a = b
    BY <1>1 DEF IsInjective
  <2>3. IsInjective(f)
    BY <2>2 DEF IsInjective
  <2>. QED
    BY <2>1, <2>3 DEF Injection
<1>. HIDE DEF f, T
<1>. QED
  BY <1>2, <1>3, <1>4, FS_Surjection DEF T

LEMMA WrapsOnce ==
    ASSUME NEW m \in Nat \ {0}, NEW k \in Int, k < 0, k >= 0 - m
    PROVE  k % m = k + m
OBVIOUS

\* The outputs that a list names are as many as it has entries only if every
\* entry names an output of its own.
LEMMA NamedOutputs ==
    ASSUME NEW list \in Seq(Nat), NEW n \in Nat
    PROVE  LET outputs == 0 .. n - 1
               named == ToSet(list) \cap outputs
           IN  /\ Cardinality(named) \in Nat /\ Cardinality(named) <= Len(list)
               /\ Cardinality(outputs \ ToSet(list)) = n - Cardinality(named)
               /\ Cardinality(outputs \ ToSet(list)) \in Nat
               /\ Cardinality(named) = Len(list)
                      => IsInjective(list) /\ ToSet(list) \subseteq outputs
<1>. DEFINE outputs == 0 .. n - 1
            all == ToSet(list)
            named == all \cap outputs
            places == 1 .. Len(list)
<1>1. Len(list) \in Nat /\ DOMAIN list = places
  BY LenProperties
<1>2. IsFiniteSet(places) /\ Cardinality(places) = Len(list)
  BY <1>1, Interval
<1>3. IsFiniteSet(outputs) /\ Cardinality(outputs) = n
  BY Interval
<1>4. list \in Surjection(places, all)
  BY <1>1 DEF Surjection, ToSet
<1>5. /\ IsFiniteSet(all) /\ Cardinality(all) <= Cardinality(places)
      /\ Cardinality(all) = Cardinality(places) <=> list \in Injection(places, all)
  BY <1>2, <1>4, FS_Surjection
<1>. HIDE DEF outputs, all, places
<1>6. /\ Cardinality(named) <= Cardinality(all)
      /\ Cardinality(named) = Cardinality(all) => named = all
      /\ Cardinality(named) \in Nat /\ Cardinality(all) \in Nat
  <2>1. named \subseteq all
    OBVIOUS
  <2>. HIDE DEF named
  <2>. QED
    BY <1>5, <2>1, FS_Subset, FS_CardinalityType
<1>7. /\ Cardinality(outputs \ named) = n - Cardinality(named)
      /\ Cardinality(outputs \ named) \in Nat
  BY <1>3, Others
<1>8. outputs \ named = outputs \ all
  OBVIOUS
<1>9. ASSUME Cardinality(named) = Len(list)
      PROVE  IsInjective(list) /\ all \subseteq outputs
  <2>1. Cardinality(named) = Cardinality(all) /\ Cardinality(all) = Cardinality(places)
    BY <1>1, <1>2, <1>5, <1>6, <1>9
  <2>2. IsInjective(list)
    BY <1>5, <2>1 DEF Injection
  <2>3. all \subseteq outputs
    BY <1>6, <2>1
  <2>. QED
    BY <2>2, <2>3
<1>10. Cardinality(named) <= Len(list)
  BY <1>1, <1>2, <1>5, <1>6
<1>11. /\ Cardinality(outputs \ all) = n - Cardinality(named)
       /\ Cardinality(outputs \ all) \in Nat
  BY <1>7, <1>8
<1>. QED
  BY <1>6, <1>9, <1>10, <1>11 DEF named, all, outputs

\* The total on the screen is the number of the outputs that are shown if, and only
\* if, every change index names an output of its own: then neither the difference
\* nor the sum wraps around, and the screens number the other outputs from 1 to
\* their number, in order.  No code checks the indices, so the first half also says
\* that a repeated index, or one beyond the outputs, always shows in the total.
THEOREM ShownAreNumbered ==
    /\ InputOK => OutputsNumbered
    /\ Spec => []OutputsNumbered
<1>1. InputOK => OutputsNumbered
  <2>. SUFFICES ASSUME InputOK, kind = "change", Len(input) < Modulus,
                       NEW n \in 0 .. Modulus - 1
                PROVE  LET shown == (0 .. n - 1) \ ToSet(input)
                           each_its_own ==
                               IsInjective(input) /\ ToSet(input) \subseteq 0 .. n - 1
                       IN  /\ Order!Total(input, n) = Cardinality(shown) <=> each_its_own
                           /\ each_its_own =>
                                 \A index \in shown :
                                    Order!Number(input, index)
                                        = Cardinality({i \in shown : i <= index})
    BY DEF OutputsNumbered
  <2>. DEFINE named == ToSet(input)
              shown == (0 .. n - 1) \ named
              EachItsOwn == IsInjective(input) /\ named \subseteq 0 .. n - 1
  <2>1. /\ input \in Seq(Nat) /\ Len(input) \in Nat /\ DOMAIN input = 1 .. Len(input)
        /\ \A i \in 1 .. Len(input) : input[i] \in Nat
        /\ n \in Nat /\ n < Modulus /\ Modulus \in Nat \ {0}
    BY Indices, ModulusAssumption
  <2>2. named = {input[i] : i \in 1 .. Len(input)}
    BY <2>1 DEF ToSet
  <2>3. ASSUME EachItsOwn
        PROVE  Order!Total(input, n) = Cardinality(shown)
    <3>1. Cardinality(1 .. Len(input)) = Len(input)
      BY <2>1, Interval
    <3>2. Cardinality(named) = Len(input)
      BY <2>1, <2>2, <2>3, <3>1, NamedOnce
    <3>3. Cardinality(0 .. n - 1) = n /\ IsFiniteSet(0 .. n - 1)
      BY <2>1, Interval
    <3>. HIDE DEF named
    <3>. named \subseteq 0 .. n - 1
      BY <2>3 DEF named
    <3>4. Cardinality(shown) = n - Len(input) /\ Cardinality(shown) \in Nat
      BY <3>2, <3>3, Others
    <3>5. n - Len(input) \in 0 .. Modulus - 1
      BY <2>1, <3>4
    <3>6. (n - Len(input)) % Modulus = n - Len(input)
      BY <2>1, <3>5, NoWrap
    <3>. QED
      BY <3>4, <3>6 DEF Order!Total
  <2>4. ASSUME EachItsOwn, NEW index \in shown
        PROVE  Order!Number(input, index) = Cardinality({i \in shown : i <= index})
    <3>. DEFINE I == {i \in 1 .. Len(input) : index > input[i]}
                below == {input[i] : i \in I}
                upTo == {i \in shown : i <= index}
    <3>1. index \in Nat /\ index < n /\ index \notin named
      BY <2>1
    <3>2. Cardinality(below) = Cardinality(I)
      BY <2>1, <2>4, NamedOnce
    <3>3. below \subseteq 0 .. index
      BY <2>1, <3>1
    <3>4. upTo = (0 .. index) \ below
      BY <2>1, <2>2, <3>1
    <3>5. Cardinality(0 .. index) = index + 1 /\ IsFiniteSet(0 .. index)
      <4>1. index + 1 \in Nat /\ (index + 1) - 1 = index
        BY <3>1
      <4>. QED
        BY <4>1, Interval
    <3>6. Order!Number(input, index) = (index + 1 - Cardinality(I)) % Modulus
      <4>1. DOMAIN input = 1 .. Len(input)
        BY <2>1
      <4>2. Order!Cardinality(I) = Cardinality(I)
        BY DEF Order!Cardinality, Cardinality
      <4>. QED
        BY <4>1, <4>2 DEF Order!Number
    <3>. HIDE DEF named, I, below, upTo
    <3>7. /\ Cardinality(upTo) = index + 1 - Cardinality(I)
          /\ Cardinality(upTo) \in Nat /\ Cardinality(I) \in Nat
      <4>1. /\ Cardinality((0 .. index) \ below) = Cardinality(0 .. index) - Cardinality(below)
            /\ Cardinality((0 .. index) \ below) \in Nat /\ Cardinality(below) \in Nat
        BY <3>3, <3>5, Others
      <4>. QED
        BY <4>1, <3>2, <3>4, <3>5
    <3>8. index + 1 - Cardinality(I) \in 0 .. Modulus - 1
      BY <2>1, <3>1, <3>7
    <3>9. (index + 1 - Cardinality(I)) % Modulus = index + 1 - Cardinality(I)
      BY <2>1, <3>8, NoWrap
    <3>. QED
      BY <3>6, <3>7, <3>9 DEF upTo
  <2>5. ASSUME Len(input) < Modulus, Order!Total(input, n) = Cardinality(shown)
        PROVE  EachItsOwn
    <3>. DEFINE count == Cardinality(named \cap (0 .. n - 1))
                size == Len(input)
    <3>1. /\ count \in Nat /\ count <= size
          /\ Cardinality(shown) = n - count
          /\ Cardinality(shown) \in Nat
          /\ count = size => EachItsOwn
      BY <2>1, NamedOutputs
    <3>2. (n - size) % Modulus = n - count
      BY <2>5, <3>1 DEF Order!Total
    <3>3. size \in Nat /\ size < Modulus /\ n \in Nat /\ n < Modulus /\ Modulus \in Nat \ {0}
      BY <2>1, <2>5
    <3>4. count \in Nat /\ count <= size
      BY <3>1
    <3>. HIDE DEF count, size, EachItsOwn
    <3>5. CASE n >= size
      <4>1. n - size \in 0 .. Modulus - 1
        BY <3>3, <3>5
      <4>2. (n - size) % Modulus = n - size
        BY <3>3, <4>1, NoWrap
      <4>3. n - size = n - count
        BY <3>2, <4>2
      <4>4. size = count
        BY <3>3, <3>4, <4>3
      <4>. QED
        BY <3>1, <4>4
    <3>6. CASE n < size
      <4>1. n - size \in Int /\ n - size < 0 /\ n - size >= 0 - Modulus
        BY <3>3, <3>6
      <4>2. (n - size) % Modulus = n - size + Modulus
        BY <3>3, <4>1, WrapsOnce
      <4>3. n - size + Modulus = n - count
        BY <3>2, <4>2
      <4>. QED
        BY <3>3, <3>4, <4>3
    <3>. QED
      BY <3>3, <3>5, <3>6
  <2>. QED
    BY <2>3, <2>4, <2>5
<1>2. Spec => []OutputsNumbered
  BY <1>1, Inputs, PTL
<1>. QED
  BY <1>1, <1>2

-----------------------------------------------------------------------------
(* The walk over the sorted list. *)

Index == 0 .. Modulus - 1

\* The loop inside inplace_selection_sort finds the first of the least numbers.
LEMMA LeastPlace ==
    ASSUME NEW list \in Seq(Index), NEW i \in 1 .. Len(list)
    PROVE  /\ Order!PositionOfLeast(list, i) \in i .. Len(list)
           /\ \A j \in i .. Len(list) : list[Order!PositionOfLeast(list, i)] <= list[j]
<1>. DEFINE Least(p) == /\ \A j \in i .. Len(list) : list[p] <= list[j]
                        /\ \A j \in i .. p - 1 : list[p] < list[j]
            values == {list[j] : j \in i .. Len(list)}
<1>1. /\ Len(list) \in Nat
      /\ \A j \in i .. Len(list) : j \in Nat /\ list[j] \in Nat
  BY ModulusAssumption DEF Index
<1>2. PICK least \in values : \A v \in values : least <= v
  <2>1. list[i] \in values
    BY <1>1
  <2>2. values \subseteq Nat
    BY <1>1
  <2>. HIDE DEF values
  <2>. QED
    BY <2>1, <2>2, LeastNumber
<1>. DEFINE places == {j \in i .. Len(list) : list[j] = least}
<1>3. PICK p \in places : \A q \in places : p <= q
  <2>1. places # {}
    BY <1>2
  <2>2. places \subseteq Nat
    BY <1>1
  <2>. HIDE DEF places
  <2>. QED
    BY <2>1, <2>2, LeastNumber
<1>4. p \in i .. Len(list) /\ Least(p)
  <2>1. p \in i .. Len(list) /\ list[p] = least
    OBVIOUS
  <2>2. ASSUME NEW j \in i .. Len(list)
        PROVE  list[p] <= list[j]
    BY <1>2, <2>1
  <2>3. ASSUME NEW j \in i .. p - 1
        PROVE  list[p] < list[j]
    <3>1. j \in i .. Len(list) /\ ~(p <= j)
      BY <1>1, <2>1
    <3>2. list[j] # least
      BY <1>3, <3>1
    <3>3. list[p] <= list[j] /\ list[p] \in Nat /\ list[j] \in Nat
      BY <1>1, <2>1, <2>2, <3>1
    <3>. QED
      BY <2>1, <3>2, <3>3
  <2>. QED
    BY <2>1, <2>2, <2>3
<1>5. Order!PositionOfLeast(list, i) = CHOOSE q \in i .. Len(list) : Least(q)
  BY DEF Order!PositionOfLeast
<1>. HIDE DEF Least
<1>6. LET q == Order!PositionOfLeast(list, i) IN q \in i .. Len(list) /\ Least(q)
  BY <1>4, <1>5
<1>. QED
  BY <1>6 DEF Least

LEMMA SwappedIs ==
    ASSUME NEW list \in Seq(Index), NEW i \in 1 .. Len(list), NEW p \in 1 .. Len(list)
    PROVE  /\ Order!Swapped(list, i, p) \in Seq(Index)
           /\ Len(Order!Swapped(list, i, p)) = Len(list)
           /\ \A j \in 1 .. Len(list) :
                 Order!Swapped(list, i, p)[j] = IF j = i THEN list[p]
                                                ELSE IF j = p THEN list[i] ELSE list[j]
           /\ ToSet(Order!Swapped(list, i, p)) = ToSet(list)
<1>. DEFINE new == Order!Swapped(list, i, p)
<1>1. /\ new \in Seq(Index) /\ Len(new) = Len(list)
      /\ \A j \in 1 .. Len(list) : new[j] = IF j = i THEN list[p]
                                           ELSE IF j = p THEN list[i] ELSE list[j]
  BY DEF Order!Swapped
<1>2. DOMAIN new = 1 .. Len(list) /\ DOMAIN list = 1 .. Len(list)
  BY <1>1
<1>. HIDE DEF new
<1>3. ToSet(new) = ToSet(list)
  <2>1. \A j \in 1 .. Len(list) : \E k \in 1 .. Len(list) : new[j] = list[k]
    BY <1>1
  <2>2. ASSUME NEW j \in 1 .. Len(list)
        PROVE  \E k \in 1 .. Len(list) : list[j] = new[k]
    <3>1. new[p] = list[i] /\ new[i] = list[p]
      BY <1>1
    <3>2. j # i /\ j # p => new[j] = list[j]
      BY <1>1
    <3>. QED
      BY <3>1, <3>2
  <2>3. \A x : x \in ToSet(new) <=> \E j \in 1 .. Len(list) : x = new[j]
    BY <1>2 DEF ToSet
  <2>4. \A x : x \in ToSet(list) <=> \E j \in 1 .. Len(list) : x = list[j]
    BY <1>2 DEF ToSet
  <2>5. ASSUME NEW x \in ToSet(new)
        PROVE  x \in ToSet(list)
    <3>1. PICK j \in 1 .. Len(list) : x = new[j]
      BY <2>3
    <3>2. PICK k \in 1 .. Len(list) : new[j] = list[k]
      BY <2>1
    <3>. QED
      BY <2>4, <3>1, <3>2
  <2>6. ASSUME NEW x \in ToSet(list)
        PROVE  x \in ToSet(new)
    <3>1. PICK j \in 1 .. Len(list) : x = list[j]
      BY <2>4
    <3>2. PICK k \in 1 .. Len(list) : list[j] = new[k]
      BY <2>2
    <3>. QED
      BY <2>3, <3>1, <3>2
  <2>. QED
    BY <2>5, <2>6
<1>. QED
  BY <1>1, <1>3 DEF new

\* The loop of inplace_selection_sort: after n turns the list has the same
\* members, and the first n are in order and not above the rest.
LEMMA TurnsAre ==
    ASSUME NEW list \in Seq(Index), NEW n \in 0 .. Len(list)
    PROVE  LET now == Order!Turns(list)[n]
           IN  /\ now \in Seq(Index) /\ Len(now) = Len(list)
               /\ ToSet(now) = ToSet(list)
               /\ \A i \in 1 .. n : \A j \in i .. Len(list) : now[i] <= now[j]
<1>. DEFINE size == Len(list)
            Turn(k, s) == Order!Swapped(s, k, Order!PositionOfLeast(s, k))
            Lists == {s \in Seq(Index) : Len(s) = size}
            next == [k \in 1 .. size |-> [s \in Lists |-> Turn(k, s)]]
            IsTurns(f) == f = [k \in 0 .. size |-> IF k = 0 THEN list ELSE Turn(k, f[k - 1])]
            turns == Order!Turns(list)
<1>1. size \in Nat /\ list \in Lists
  BY LenProperties
<1>2. ASSUME NEW k \in 1 .. size, NEW s \in Lists
      PROVE  /\ Turn(k, s) \in Lists
             /\ ToSet(Turn(k, s)) = ToSet(s)
             /\ (\A i \in 1 .. k - 1 : \A j \in i .. size : s[i] <= s[j])
                 => \A i \in 1 .. k : \A j \in i .. size : Turn(k, s)[i] <= Turn(k, s)[j]
  <2>. DEFINE p == Order!PositionOfLeast(s, k)
              new == Turn(k, s)
  <2>1. s \in Seq(Index) /\ Len(s) = size /\ \A j \in 1 .. size : s[j] \in Nat
    BY <1>1, ModulusAssumption DEF Index
  <2>2. p \in k .. size /\ \A j \in k .. size : s[p] <= s[j]
    BY <2>1, LeastPlace
  <2>3. p \in 1 .. size
    BY <1>1, <2>2
  <2>. HIDE DEF p
  <2>4. /\ new \in Seq(Index) /\ Len(new) = size
        /\ \A j \in 1 .. size :
              new[j] = IF j = k THEN s[p] ELSE IF j = p THEN s[k] ELSE s[j]
        /\ ToSet(new) = ToSet(s)
    <3>1. new = Order!Swapped(s, k, p)
      BY DEF p
    <3>2. k \in 1 .. Len(s) /\ p \in 1 .. Len(s)
      BY <2>1, <2>3
    <3>. HIDE DEF new, Lists, Turn
    <3>3. /\ Order!Swapped(s, k, p) \in Seq(Index)
          /\ Len(Order!Swapped(s, k, p)) = Len(s)
          /\ \A j \in 1 .. Len(s) :
                Order!Swapped(s, k, p)[j] = IF j = k THEN s[p]
                                            ELSE IF j = p THEN s[k] ELSE s[j]
          /\ ToSet(Order!Swapped(s, k, p)) = ToSet(s)
      BY <2>1, <3>2, SwappedIs
    <3>. QED
      BY <2>1, <3>1, <3>3
  <2>. HIDE DEF new, Turn
  <2>5. ASSUME \A i \in 1 .. k - 1 : \A j \in i .. size : s[i] <= s[j],
               NEW i \in 1 .. k, NEW j \in i .. size
        PROVE  new[i] <= new[j]
    <3>1. j \in 1 .. size /\ i \in 1 .. size /\ k \in 1 .. size
      BY <1>1
    <3>2. CASE i = k
      BY <2>1, <2>2, <2>3, <2>4, <3>1, <3>2
    <3>3. CASE i # k
      <4>1. i \in 1 .. k - 1 /\ i # p
        BY <2>2, <3>1, <3>3
      <4>2. new[i] = s[i] /\ k \in i .. size /\ p \in i .. size
        BY <2>2, <2>3, <2>4, <3>1, <3>3, <4>1
      <4>. QED
        BY <2>4, <2>5, <3>1, <4>1, <4>2
    <3>. QED
      BY <3>2, <3>3
  <2>. QED
    BY <2>4, <2>5 DEF new
<1>3. IsTurns(turns)
  <2>1. turns = CHOOSE f : IsTurns(f)
    BY DEF Order!Turns
  <2>2. Turning(Lists, size, next)
    BY <1>2 DEF Turning
  <2>3. \A k \in 1 .. size, s \in Lists : next[k][s] = Turn(k, s)
    OBVIOUS
  <2>. HIDE DEF next, Turn, Lists, turns
  <2>4. PICK f : AfterTurns(Lists, size, list, next, f)
    BY <1>1, <2>2, LoopExists
  <2>5. IsTurns(f)
    <3>1. \A k \in 0 .. size : k # 0 => k \in 1 .. size /\ k - 1 \in 0 .. size
      BY <1>1
    <3>2. \A k \in 0 .. size : f[k] = IF k = 0 THEN list ELSE Turn(k, f[k - 1])
      BY <2>3, <2>4, <3>1 DEF AfterTurns
    <3>. QED
      BY <2>4, <3>2 DEF AfterTurns
  <2>. HIDE DEF IsTurns
  <2>. QED
    BY <2>1, <2>5
<1>. DEFINE Good(k, s) == /\ s \in Lists /\ ToSet(s) = ToSet(list)
                          /\ \A i \in 1 .. k : \A j \in i .. size : s[i] <= s[j]
            Done == {k \in 0 .. size : Good(k, turns[k])}
<1>. HIDE DEF turns, Turn, Lists, next
<1>4. turns[0] = list /\ \A k \in 1 .. size : turns[k] = Turn(k, turns[k - 1])
  BY <1>1, <1>3
<1>. HIDE DEF IsTurns
<1>5. 0 \in Done
  BY <1>1, <1>4
<1>6. ASSUME NEW k \in 0 .. size - 1, k \in Done
      PROVE  k + 1 \in Done
  <2>1. k + 1 \in 1 .. size /\ k + 1 \in 0 .. size /\ k + 1 - 1 = k
    BY <1>1
  <2>2. turns[k + 1] = Turn(k + 1, turns[k])
    BY <1>4, <2>1
  <2>3. Good(k, turns[k])
    BY <1>6
  <2>4. Good(k + 1, Turn(k + 1, turns[k]))
    BY <1>2, <2>1, <2>3
  <2>. HIDE DEF Good
  <2>. QED
    BY <2>1, <2>2, <2>4
<1>7. n \in Done
  <2>. HIDE DEF Done
  <2>. QED
    BY <1>1, <1>5, <1>6, NumbersUpTo
<1>. QED
  BY <1>7 DEF turns, Lists

\* inplace_selection_sort sorts: the same members, in order.
LEMMA SortedIs ==
    ASSUME NEW list \in Seq(Index)
    PROVE  LET sorted == IF list = <<>> THEN list ELSE Order!Sorted(list)
           IN  /\ sorted \in Seq(Index) /\ Len(sorted) = Len(list)
               /\ ToSet(sorted) = ToSet(list)
               /\ \A i \in 1 .. Len(list) : \A j \in i .. Len(list) : sorted[i] <= sorted[j]
<1>. DEFINE size == Len(list)
            sorted == Order!Sorted(list)
<1>1. size \in Nat /\ (list = <<>> <=> size = 0)
  BY EmptySeq, LenProperties
<1>2. CASE list = <<>>
  BY <1>1, <1>2
<1>3. CASE list # <<>>
  <2>1. size - 1 \in 0 .. size
    BY <1>1, <1>3
  <2>2. /\ sorted \in Seq(Index) /\ Len(sorted) = size
        /\ ToSet(sorted) = ToSet(list)
        /\ \A i \in 1 .. size - 1 : \A j \in i .. size : sorted[i] <= sorted[j]
    BY <2>1, TurnsAre DEF Order!Sorted
  <2>. HIDE DEF sorted
  <2>3. sorted[size] <= sorted[size]
    <3>1. size \in 1 .. Len(sorted)
      BY <1>1, <1>3, <2>2
    <3>2. sorted[size] \in Nat
      BY <2>2, <3>1, ModulusAssumption DEF Index
    <3>. QED
      BY <3>2
  <2>4. ASSUME NEW i \in 1 .. size, NEW j \in i .. size
        PROVE  sorted[i] <= sorted[j]
    <3>1. i = size => j = size
      BY <1>1
    <3>2. i # size => i \in 1 .. size - 1
      BY <1>1
    <3>. QED
      BY <2>2, <2>3, <3>1, <3>2
  <2>. QED
    BY <1>3, <2>2, <2>4 DEF sorted
<1>. QED
  BY <1>2, <1>3

\* One more, of what is left of a number.
LEMMA NextModulo ==
    ASSUME NEW m \in Nat \ {0}, m > 1, NEW x \in Nat
    PROVE  ((x % m) + 1) % m = (x + 1) % m
<1>. DEFINE q == x \div m
            r == x % m
<1>1. q \in Nat /\ r \in 0 .. m - 1 /\ x = q * m + r
  OBVIOUS
<1>. HIDE DEF q, r
<1>2. CASE r + 1 < m
  <2>1. r + 1 \in 0 .. m - 1 /\ x + 1 = q * m + (r + 1)
    BY <1>1, <1>2
  <2>2. (q * m + (r + 1)) % m = r + 1
    BY <1>1, <2>1, HighLow
  <2>3. (r + 1) % m = r + 1
    BY <2>1, NoWrap
  <2>. QED
    BY <2>1, <2>2, <2>3 DEF r
<1>3. CASE r + 1 = m
  <2>1. q + 1 \in Nat /\ 1 \in Nat /\ 0 \in 0 .. m - 1
    BY <1>1
  <2>2. x + 1 = (q + 1) * m + 0 /\ m = 1 * m + 0
    <3>1. (q + 1) * m = q * m + m /\ q * m \in Nat
      BY <1>1
    <3>. QED
      BY <1>1, <1>3, <3>1
  <2>3. ((q + 1) * m + 0) % m = 0 /\ (1 * m + 0) % m = 0
    BY <2>1, HighLow
  <2>. QED
    BY <1>3, <2>2, <2>3 DEF r
<1>. QED
  BY <1>1, <1>2, <1>3

\* One more, in a counter of 8 bits.
LEMMA NextIs ==
    ASSUME NEW a \in Index, NEW m \in Nat
    PROVE  /\ (a + m) % Modulus \in Index
           /\ Order!Next8((a + m) % Modulus) = (a + (m + 1)) % Modulus
           /\ a + m < Modulus => (a + m) % Modulus = a + m
           /\ a + m = Modulus => (a + m) % Modulus = 0
<1>1. a \in Nat /\ a + m \in Nat /\ Modulus \in Nat \ {0} /\ Modulus > 1
  BY ModulusAssumption DEF Index
<1>2. (((a + m) % Modulus) + 1) % Modulus = ((a + m) + 1) % Modulus
  BY <1>1, NextModulo
<1>3. (a + m) + 1 = a + (m + 1)
  BY <1>1
<1>4. (a + m) % Modulus \in Index
  BY <1>1 DEF Index
<1>5. a + m < Modulus => (a + m) % Modulus = a + m
  <2>1. a + m < Modulus => a + m \in 0 .. Modulus - 1
    BY <1>1
  <2>. QED
    BY <1>1, <2>1, NoWrap
<1>6. Modulus % Modulus = 0
  <2>1. Modulus = 1 * Modulus + 0 /\ 1 \in Nat /\ 0 \in 0 .. Modulus - 1
    BY <1>1
  <2>2. (1 * Modulus + 0) % Modulus = 0
    BY <1>1, <2>1, HighLow
  <2>. QED
    BY <2>1, <2>2
<1>. QED
  BY <1>2, <1>3, <1>4, <1>5, <1>6 DEF Order!Next8

\* Where the walk can stand.
Places == [c : Index, d : Index, stopped : BOOLEAN]

LEMMA SkippedIs ==
    ASSUME NEW at \in Places, NEW index \in Index, NEW n \in Index, NEW k \in Index
    PROVE  LET next == Order!Skipped(at, index, n, k)
           IN  /\ next \in Places
               /\ at.stopped \/ at.c # index => next = at
               /\ ~at.stopped /\ at.c = index =>
                     /\ next.c = Order!Next8(at.c)
                     /\ next.d = Order!Next8(at.d)
                     /\ next.stopped <=> Order!Stops(next.c, next.d, n, k)
<1>. DEFINE next == Order!Skipped(at, index, n, k)
<1>1. CASE at.stopped \/ at.c # index
  BY <1>1 DEF Order!Skipped
<1>2. CASE ~at.stopped /\ at.c = index
  <2>1. \A x \in Index : Order!Next8(x) \in Index
    BY ModulusAssumption DEF Order!Next8, Index
  <2>2. \A x, y : Order!Stops(x, y, n, k) \in BOOLEAN
    BY DEF Order!Stops
  <2>3. at.c \in Index /\ at.d \in Index
    BY DEF Places
  <2>4. next = [c |-> Order!Next8(at.c), d |-> Order!Next8(at.d),
                stopped |-> Order!Stops(Order!Next8(at.c), Order!Next8(at.d), n, k)]
    BY <1>2 DEF Order!Skipped
  <2>. QED
    BY <1>2, <2>1, <2>2, <2>3, <2>4 DEF Places
<1>. QED
  BY <1>1, <1>2

\* WalkTurns is a loop, and stands at a place after every turn.
LEMMA WalkTurnsAre ==
    ASSUME NEW sorted \in Seq(Index), NEW c \in Index, NEW d \in Index,
           NEW n \in Index, NEW k \in Index
    PROVE  LET at == Order!WalkTurns(sorted, c, d, n, k)
           IN  /\ at[0] = [c |-> c, d |-> d, stopped |-> FALSE]
               /\ \A i \in 0 .. Len(sorted) : at[i] \in Places
               /\ \A i \in 1 .. Len(sorted) :
                     at[i] = Order!Skipped(at[i - 1], sorted[i], n, k)
<1>. DEFINE size == Len(sorted)
            begin == [c |-> c, d |-> d, stopped |-> FALSE]
            Turn(i, at) == Order!Skipped(at, sorted[i], n, k)
            next == [i \in 1 .. size |-> [at \in Places |-> Turn(i, at)]]
            IsWalk(f) == f = [i \in 0 .. size |-> IF i = 0 THEN begin ELSE Turn(i, f[i - 1])]
            walk == Order!WalkTurns(sorted, c, d, n, k)
<1>1. size \in Nat /\ \A i \in 1 .. size : sorted[i] \in Index
  BY LenProperties
<1>2. begin \in Places
  BY DEF Places
<1>3. \A i \in 1 .. size, at \in Places : Turn(i, at) \in Places
  BY <1>1, SkippedIs
<1>4. walk = CHOOSE f : IsWalk(f)
  BY DEF Order!WalkTurns
<1>5. Turning(Places, size, next)
  BY <1>3 DEF Turning
<1>6. \A i \in 1 .. size, at \in Places : next[i][at] = Turn(i, at)
  OBVIOUS
<1>. HIDE DEF next, Turn, begin, walk
<1>7. PICK f : AfterTurns(Places, size, begin, next, f)
  BY <1>1, <1>2, <1>5, LoopExists
<1>8. \A i \in 0 .. size : i # 0 => i \in 1 .. size /\ i - 1 \in 0 .. size
  BY <1>1
<1>9. IsWalk(f)
  <2>1. \A i \in 0 .. size : f[i] = IF i = 0 THEN begin ELSE Turn(i, f[i - 1])
    BY <1>6, <1>7, <1>8 DEF AfterTurns
  <2>. QED
    BY <1>7, <2>1 DEF AfterTurns
<1>10. IsWalk(walk)
  <2>. HIDE DEF IsWalk
  <2>. QED
    BY <1>4, <1>9
<1>11. 0 \in 0 .. size /\ \A i \in 1 .. size : i \in 0 .. size /\ i # 0
  BY <1>1
<1>12. walk[0] = begin /\ \A i \in 1 .. size : walk[i] = Turn(i, walk[i - 1])
  BY <1>10, <1>11
<1>. DEFINE Done == {i \in 0 .. size : walk[i] \in Places}
<1>. HIDE DEF IsWalk
<1>13. 0 \in Done
  BY <1>2, <1>11, <1>12
<1>14. ASSUME NEW i \in 0 .. size - 1, i \in Done
       PROVE  i + 1 \in Done
  <2>1. i + 1 \in 1 .. size /\ i + 1 \in 0 .. size /\ i + 1 - 1 = i
    BY <1>1
  <2>2. walk[i + 1] = Turn(i + 1, walk[i])
    BY <1>12, <2>1
  <2>. QED
    BY <1>3, <1>14, <2>1, <2>2
<1>15. \A i \in 0 .. size : i \in Done
  <2>. HIDE DEF Done
  <2>. QED
    BY <1>1, <1>13, <1>14, NumbersUpTo
<1>. QED
  BY <1>12, <1>15 DEF begin, Turn, walk

\* From (c, d), with n outputs and k slots, the walk has gone over i members of
\* the list and skipped m outputs.
HasSkipped(at, sorted, c, d, n, k, i, m) ==
    /\ at.c = (c + m) % Modulus
    /\ at.d = (d + m) % Modulus
    /\ at.stopped <=> m > 0 /\ Order!Stops(at.c, at.d, n, k)
    /\ \A e \in 0 .. m - 1 : \E j \in 1 .. i : sorted[j] = c + e
    /\ \A e \in 1 .. m - 1 : ~Order!Stops((c + e) % Modulus, (d + e) % Modulus, n, k)
    /\ ~at.stopped => \A j \in 1 .. i : sorted[j] # c + m

LEMMA SkipsOneMore ==
    ASSUME NEW sorted \in Seq(Index), NEW c \in Index, NEW d \in Index,
           NEW n \in Index, NEW k \in Index,
           \A i \in 1 .. Len(sorted) : \A j \in i .. Len(sorted) : sorted[i] <= sorted[j],
           NEW i \in 0 .. Len(sorted) - 1, NEW m \in 0 .. i,
           NEW at \in Places, HasSkipped(at, sorted, c, d, n, k, i, m)
    PROVE  LET next == Order!Skipped(at, sorted[i + 1], n, k)
           IN  \E e \in 0 .. i + 1 : HasSkipped(next, sorted, c, d, n, k, i + 1, e)
<1>. DEFINE index == sorted[i + 1]
            next == Order!Skipped(at, index, n, k)
<1>1. /\ Len(sorted) \in Nat /\ i + 1 \in 1 .. Len(sorted)
      /\ i \in Nat /\ m \in Nat /\ m \in 0 .. i + 1 /\ m + 1 \in 0 .. i + 1
      /\ 1 .. i + 1 = (1 .. i) \union {i + 1}
      /\ c \in Nat /\ c < Modulus /\ Modulus \in Nat /\ Modulus > 1
      /\ \A j \in 1 .. Len(sorted) : sorted[j] \in Index
  BY LenProperties, ModulusAssumption DEF Index
<1>2. /\ index \in Index /\ index \in Nat /\ index < Modulus
      /\ \A j \in 1 .. i : j \in 1 .. Len(sorted) /\ sorted[j] \in Nat /\ sorted[j] <= index
  <2>1. index \in Index
    BY <1>1
  <2>2. ASSUME NEW j \in 1 .. i
        PROVE  j \in 1 .. Len(sorted) /\ sorted[j] \in Nat /\ sorted[j] <= index
    <3>1. j \in 1 .. Len(sorted) /\ i + 1 \in j .. Len(sorted)
      BY <1>1
    <3>. QED
      BY <1>1, <3>1 DEF Index
  <2>. QED
    BY <2>1, <2>2, <1>1 DEF Index
<1>3. /\ next \in Places
      /\ at.stopped \/ at.c # index => next = at
      /\ ~at.stopped /\ at.c = index =>
            /\ next.c = Order!Next8(at.c)
            /\ next.d = Order!Next8(at.d)
            /\ next.stopped <=> Order!Stops(next.c, next.d, n, k)
  BY <1>2, SkippedIs
<1>. HIDE DEF index, next
<1>4. CASE at.stopped
  <2>1. HasSkipped(next, sorted, c, d, n, k, i + 1, m)
    BY <1>1, <1>3, <1>4 DEF HasSkipped
  <2>. QED
    BY <1>1, <2>1 DEF next, index
<1>5. ASSUME ~at.stopped
      PROVE  c + m <= Modulus /\ (m > 0 => \E j \in 1 .. i : sorted[j] = c + m - 1)
  <2>1. CASE m = 0
    BY <1>1, <2>1
  <2>2. CASE m > 0
    <3>1. m - 1 \in 0 .. m - 1 /\ c + (m - 1) = c + m - 1
      BY <1>1, <2>2
    <3>2. PICK j \in 1 .. i : sorted[j] = c + (m - 1)
      BY <3>1 DEF HasSkipped
    <3>3. sorted[j] <= index
      BY <1>2
    <3>. QED
      BY <1>1, <1>2, <3>1, <3>2, <3>3
  <2>. QED
    BY <1>1, <2>1, <2>2
<1>6. /\ c + m < Modulus => (c + m) % Modulus = c + m
      /\ c + m = Modulus => (c + m) % Modulus = 0
      /\ Order!Next8((c + m) % Modulus) = (c + (m + 1)) % Modulus
      /\ Order!Next8((d + m) % Modulus) = (d + (m + 1)) % Modulus
  BY <1>1, NextIs
<1>7. CASE ~at.stopped /\ at.c # index
  <2>1. index # c + m
    BY <1>1, <1>2, <1>5, <1>6, <1>7 DEF HasSkipped
  <2>2. \A j \in 1 .. i + 1 : sorted[j] # c + m
    BY <1>1, <1>7, <2>1 DEF HasSkipped, index
  <2>3. HasSkipped(next, sorted, c, d, n, k, i + 1, m)
    BY <1>1, <1>3, <1>7, <2>2 DEF HasSkipped
  <2>. QED
    BY <1>1, <2>3 DEF next, index
<1>8. CASE ~at.stopped /\ at.c = index
  <2>1. c + m < Modulus
    <3>. SUFFICES ASSUME c + m = Modulus
                  PROVE  FALSE
      BY <1>1, <1>5, <1>8
    <3>1. index = 0 /\ m > 0
      BY <1>1, <1>6, <1>8 DEF HasSkipped
    <3>2. PICK j \in 1 .. i : sorted[j] = c + m - 1
      BY <1>5, <1>8, <3>1
    <3>. QED
      BY <1>1, <1>2, <3>1, <3>2
  <2>2. index = c + m
    BY <1>6, <1>8, <2>1 DEF HasSkipped
  <2>3. /\ next.c = (c + (m + 1)) % Modulus
        /\ next.d = (d + (m + 1)) % Modulus
        /\ next.stopped <=> m + 1 > 0 /\ Order!Stops(next.c, next.d, n, k)
    BY <1>1, <1>3, <1>6, <1>8 DEF HasSkipped
  <2>4. ASSUME NEW e \in 0 .. (m + 1) - 1
        PROVE  \E j \in 1 .. i + 1 : sorted[j] = c + e
    <3>1. CASE e = m
      BY <1>1, <2>2, <3>1 DEF index
    <3>2. CASE e # m
      <4>1. e \in 0 .. m - 1
        BY <1>1, <3>2
      <4>. QED
        BY <1>1, <4>1 DEF HasSkipped
    <3>. QED
      BY <3>1, <3>2
  <2>5. ASSUME NEW e \in 1 .. (m + 1) - 1
        PROVE  ~Order!Stops((c + e) % Modulus, (d + e) % Modulus, n, k)
    <3>1. CASE e = m
      <4>1. m > 0
        BY <1>1, <3>1
      <4>. QED
        BY <1>8, <3>1, <4>1 DEF HasSkipped
    <3>2. CASE e # m
      <4>1. e \in 1 .. m - 1
        BY <1>1, <3>2
      <4>. QED
        BY <4>1 DEF HasSkipped
    <3>. QED
      BY <3>1, <3>2
  <2>6. ASSUME NEW j \in 1 .. i + 1
        PROVE  sorted[j] # c + (m + 1)
    <3>1. sorted[j] <= index /\ sorted[j] \in Nat
      BY <1>1, <1>2 DEF index
    <3>. QED
      BY <1>1, <2>2, <3>1
  <2>7. HasSkipped(next, sorted, c, d, n, k, i + 1, m + 1)
    BY <2>3, <2>4, <2>5, <2>6 DEF HasSkipped
  <2>. QED
    BY <1>1, <2>7 DEF next, index
<1>. QED
  BY <1>4, <1>7, <1>8

\* Where SIGN_TX says that the walk stops.
LEMMA StopsIs ==
    ASSUME NEW list, NEW n, NEW k \in Nat, NEW c, NEW d
    PROVE  Signing(list, n, k)!Stops(c, d) <=> Order!Stops(c, d, n, k)
BY DEF Signing!Stops, Order!Stops

\* The two ways to put what a counter of 8 bits holds.
LEMMA WrapIs ==
    ASSUME NEW list, NEW n, NEW k, NEW a \in Index, NEW m \in 0 .. Modulus
    PROVE  Signing(list, n, k)!Wrap(a + m) = (a + m) % Modulus
<1>1. /\ a + m \in Nat /\ a + m < Modulus + Modulus
      /\ Modulus \in Nat \ {0}
  BY ModulusAssumption DEF Index
<1>2. CASE a + m < Modulus
  <2>1. a + m \in 0 .. Modulus - 1
    BY <1>1, <1>2
  <2>. QED
    BY <1>1, <1>2, <2>1, NoWrap DEF Signing!Wrap
<1>3. CASE ~(a + m < Modulus)
  <2>. DEFINE low == (a + m) - Modulus
  <2>1. low \in 0 .. Modulus - 1 /\ a + m = 1 * Modulus + low /\ 1 \in Nat
    BY <1>1, <1>3
  <2>. HIDE DEF low
  <2>2. (1 * Modulus + low) % Modulus = low
    BY <1>1, <2>1, HighLow
  <2>. QED
    BY <1>3, <2>1, <2>2 DEF low, Signing!Wrap
<1>. QED
  BY <1>2, <1>3

LEMMA SkipsIs ==
    ASSUME NEW list, NEW n, NEW k \in Nat, NEW c \in Index, NEW d \in Index, NEW m \in 0 .. Modulus,
           \A e \in 0 .. m - 1 : c + e \in ToSet(list),
           \A e \in 1 .. m - 1 : ~Order!Stops((c + e) % Modulus, (d + e) % Modulus, n, k),
           \/ c + m \notin ToSet(list)
           \/ m > 0 /\ Order!Stops((c + m) % Modulus, (d + m) % Modulus, n, k)
    PROVE  Signing(list, n, k)!Skips(c, d, m)
<1>1. \A e \in 1 .. m - 1 : e \in 0 .. Modulus
  BY ModulusAssumption
<1>2. \A e \in 1 .. m - 1 : /\ Signing(list, n, k)!Wrap(c + e) = (c + e) % Modulus
                            /\ Signing(list, n, k)!Wrap(d + e) = (d + e) % Modulus
  BY <1>1, WrapIs
<1>3. /\ Signing(list, n, k)!Wrap(c + m) = (c + m) % Modulus
      /\ Signing(list, n, k)!Wrap(d + m) = (d + m) % Modulus
  BY WrapIs
<1>4. \A x, y : Signing(list, n, k)!Stops(x, y) <=> Order!Stops(x, y, n, k)
  BY StopsIs
<1>. QED
  BY <1>2, <1>3, <1>4 DEF Signing!Skips

\* The loop of skip_change_outputs over the list of change indices, sorted by
\* inplace_selection_sort from whatever order the host sent it in and with
\* whatever indices twice, skips the outputs that SignTx!Skips says for the set
\* of indices, and stops where that does: one pass is enough.
THEOREM SortedWalkSkips ==
    /\ InputOK => WalkIsSkips
    /\ Spec => []WalkIsSkips
<1>1. InputOK => WalkIsSkips
  <2>. SUFFICES ASSUME InputOK, kind = "change",
                       NEW c \in Index, NEW d \in Index, NEW n \in Index, NEW k \in Index
                PROVE  LET walk == Order!Walk(input, c, d, n, k)
                       IN  \E m \in 0 .. Len(input) :
                               /\ Signing(input, n, k)!Skips(c, d, m)
                               /\ walk.c = (c + m) % Modulus
                               /\ walk.d = (d + m) % Modulus
                               /\ walk.stopped
                                    <=> m > 0 /\ Signing(input, n, k)!Stops(walk.c, walk.d)
    BY DEF WalkIsSkips, Index
  <2>. DEFINE size == Len(input)
              sorted == IF input = <<>> THEN input ELSE Order!Sorted(input)
              at == Order!WalkTurns(sorted, c, d, n, k)
              walk == Order!Walk(input, c, d, n, k)
              Done == {i \in 0 .. size :
                           \E m \in 0 .. i : HasSkipped(at[i], sorted, c, d, n, k, i, m)}
  <2>1. input \in Seq(Index) /\ size \in Nat
    BY LenProperties DEF InputOK, Index
  <2>2. /\ sorted \in Seq(Index) /\ Len(sorted) = size
        /\ ToSet(sorted) = ToSet(input)
        /\ \A i \in 1 .. size : \A j \in i .. size : sorted[i] <= sorted[j]
    BY <2>1, SortedIs
  <2>3. walk = at[size]
    BY DEF Order!Walk
  <2>. HIDE DEF sorted, walk
  <2>4. /\ at[0] = [c |-> c, d |-> d, stopped |-> FALSE]
        /\ \A i \in 0 .. size : at[i] \in Places
        /\ \A i \in 1 .. size : at[i] = Order!Skipped(at[i - 1], sorted[i], n, k)
    BY <2>2, WalkTurnsAre
  <2>. HIDE DEF at
  <2>5. 0 \in Done
    <3>1. c + 0 = c /\ d + 0 = d /\ c % Modulus = c /\ d % Modulus = d
      BY ModulusAssumption, NoWrap DEF Index
    <3>2. HasSkipped(at[0], sorted, c, d, n, k, 0, 0)
      BY <2>4, <3>1 DEF HasSkipped
    <3>. QED
      BY <2>1, <3>2
  <2>6. ASSUME NEW i \in 0 .. size - 1, i \in Done
        PROVE  i + 1 \in Done
    <3>1. i \in 0 .. size /\ i + 1 \in 1 .. size /\ i + 1 \in 0 .. size /\ i + 1 - 1 = i
      BY <2>1
    <3>2. PICK m \in 0 .. i : HasSkipped(at[i], sorted, c, d, n, k, i, m)
      BY <2>6
    <3>3. \E e \in 0 .. i + 1 :
             HasSkipped(Order!Skipped(at[i], sorted[i + 1], n, k), sorted, c, d, n, k, i + 1, e)
      BY <2>2, <2>4, <3>1, <3>2, SkipsOneMore
    <3>4. at[i + 1] = Order!Skipped(at[i], sorted[i + 1], n, k)
      BY <2>4, <3>1
    <3>. QED
      BY <3>1, <3>3, <3>4
  <2>7. size \in Done
    <3>1. size \in 0 .. size
      BY <2>1
    <3>. HIDE DEF Done, size
    <3>2. \A i \in 0 .. size : i \in Done
      BY <2>1, <2>5, <2>6, NumbersUpTo
    <3>. QED
      BY <3>1, <3>2
  <2>8. PICK m \in 0 .. size : HasSkipped(walk, sorted, c, d, n, k, size, m)
    BY <2>3, <2>7
  <2>9. \A x : x \in ToSet(input) <=> \E j \in 1 .. size : x = sorted[j]
    <3>1. DOMAIN sorted = 1 .. size
      BY <2>2
    <3>2. ToSet(sorted) = {sorted[j] : j \in 1 .. size}
      BY <3>1 DEF ToSet
    <3>. QED
      BY <2>2, <3>2
  <2>10. m \in 0 .. Modulus
    <3>1. CASE m = 0
      BY <3>1, ModulusAssumption
    <3>2. CASE m > 0
      <4>1. m - 1 \in 0 .. m - 1
        BY <2>1, <3>2
      <4>2. PICK j \in 1 .. size : sorted[j] = c + (m - 1)
        BY <2>8, <4>1 DEF HasSkipped
      <4>3. sorted[j] \in Index
        BY <2>2
      <4>. QED
        BY <2>1, <4>2, <4>3, ModulusAssumption DEF Index
    <3>. QED
      BY <2>1, <3>1, <3>2
  <2>11. k \in Nat
    BY ModulusAssumption DEF Index
  <2>12. walk.stopped <=> m > 0 /\ Signing(input, n, k)!Stops(walk.c, walk.d)
    BY <2>8, <2>11, StopsIs DEF HasSkipped
  <2>13. Signing(input, n, k)!Skips(c, d, m)
    <3>1. \A e \in 0 .. m - 1 : c + e \in ToSet(input)
      BY <2>8, <2>9 DEF HasSkipped
    <3>2. \A e \in 1 .. m - 1 : ~Order!Stops((c + e) % Modulus, (d + e) % Modulus, n, k)
      BY <2>8 DEF HasSkipped
    <3>3. \/ c + m \notin ToSet(input)
          \/ m > 0 /\ Order!Stops((c + m) % Modulus, (d + m) % Modulus, n, k)
      BY <2>8, <2>9 DEF HasSkipped
    <3>. QED
      BY <2>10, <2>11, <3>1, <3>2, <3>3, SkipsIs
  <2>. QED
    BY <2>8, <2>12, <2>13 DEF HasSkipped, walk
<1>2. Spec => []WalkIsSkips
  BY <1>1, Inputs, PTL
<1>. QED
  BY <1>1, <1>2

-----------------------------------------------------------------------------
(* Numbers. *)

\* Texts of digits and the other characters of a number or a path.
Chars == {Amounts!Char(digit) : digit \in Digit} \union {",", ".", "'", "/"}
Text == Seq(Chars)

LEMMA CharType ==
    ASSUME NEW digit \in Digit
    PROVE  Amounts!Char(digit) \in Chars
BY DEF Chars

\* itoa is the recursion it is defined by.
LEMMA ItoaIs ==
    /\ Amounts!Itoa \in [Nat -> Text]
    /\ \A v \in Nat :
          Amounts!Itoa[v] = IF v < 10 THEN <<Amounts!Char(v)>>
                            ELSE Append(Amounts!Itoa[v \div 10], Amounts!Char(v % 10))
<1>. DEFINE Last1(v) == <<Amounts!Char(v)>>
            More(v, text) == Append(text, Amounts!Char(v % 10))
            Rest(v) == v \div 10
            IsItoa(f) == f = [v \in Nat |-> IF v < 10 THEN Last1(v) ELSE More(v, f[Rest(v)])]
            base == [v \in 0 .. 9 |-> Last1(v)]
            next == [v \in Nat \ (0 .. 9) |-> [text \in Text |-> More(v, text)]]
            down == [v \in Nat \ (0 .. 9) |-> Rest(v)]
<1>1. Amounts!Itoa = CHOOSE f : IsItoa(f)
  BY DEF Amounts!Itoa
<1>2. \A v \in 0 .. 9 : Last1(v) \in Text
  BY CharType DEF Text, Digit
<1>3. \A v \in Nat, text \in Text : More(v, text) \in Text
  <2>1. \A v \in Nat : v % 10 \in Digit
    BY DEF Digit
  <2>. QED
    BY <2>1, CharType DEF Text
<1>4. \A v \in Nat : /\ Rest(v) \in Nat
                     /\ v < 10 <=> v \in 0 .. 9
                     /\ v \notin 0 .. 9 => Rest(v) < v
  OBVIOUS
<1>. HIDE DEF Last1, More, Rest
<1>5. /\ DOMAIN base = 0 .. 9
      /\ \A v \in 0 .. 9 : base[v] = Last1(v)
      /\ \A v \in Nat \ (0 .. 9) : /\ down[v] = Rest(v)
                                   /\ \A text \in Text : next[v][text] = More(v, text)
  OBVIOUS
<1>6. Descending(Text, base, next, down)
  <2>1. base \in [0 .. 9 -> Text]
    BY <1>2
  <2>2. next \in [Nat \ (0 .. 9) -> [Text -> Text]]
    BY <1>3
  <2>3. down \in [Nat \ (0 .. 9) -> Nat] /\ \A v \in Nat \ (0 .. 9) : down[v] < v
    BY <1>4
  <2>. HIDE DEF base, next, down
  <2>. QED
    BY <1>5, <2>1, <2>2, <2>3 DEF Descending
<1>. HIDE DEF base, next, down
<1>7. PICK f : f \in [Nat -> Text] /\ \A v \in Nat : ByDescent(base, next, down, f, v)
  BY <1>6, DescentExists
<1>8. IsItoa(f)
  <2>1. ASSUME NEW v \in Nat
        PROVE  f[v] = IF v < 10 THEN Last1(v) ELSE More(v, f[Rest(v)])
    <3>1. f[v] = IF v \in 0 .. 9 THEN base[v] ELSE next[v][f[down[v]]]
      BY <1>5, <1>7 DEF ByDescent
    <3>2. CASE v \in 0 .. 9
      BY <1>4, <1>5, <3>1, <3>2
    <3>3. CASE v \notin 0 .. 9
      <4>1. f[Rest(v)] \in Text
        BY <1>4, <1>7
      <4>. QED
        BY <1>4, <1>5, <3>1, <3>3, <4>1
    <3>. QED
      BY <3>2, <3>3
  <2>. QED
    BY <1>7, <2>1
<1>9. IsItoa(Amounts!Itoa)
  <2>. HIDE DEF IsItoa
  <2>. QED
    BY <1>1, <1>8
<1>. DEFINE itoa == Amounts!Itoa
<1>. HIDE DEF itoa
<1>10. \A v \in Nat : itoa[v] = IF v < 10 THEN Last1(v) ELSE More(v, itoa[Rest(v)])
  BY <1>9 DEF itoa
<1>11. itoa \in [Nat -> Text]
  <2>1. DOMAIN itoa = Nat /\ itoa = [v \in Nat |-> itoa[v]]
    BY <1>9 DEF itoa
  <2>. DEFINE Wrong == {v \in Nat : itoa[v] \notin Text}
  <2>2. ASSUME Wrong # {}
        PROVE  FALSE
    <3>1. PICK v \in Wrong : \A w \in Wrong : v <= w
      <4>1. Wrong \subseteq Nat
        OBVIOUS
      <4>. HIDE DEF Wrong
      <4>. QED
        BY <2>2, <4>1, LeastNumber
    <3>2. v \in Nat /\ v \notin 0 .. 9
      BY <1>2, <1>4, <1>10
    <3>3. Rest(v) \in Nat /\ Rest(v) < v
      BY <1>4, <3>2
    <3>4. Rest(v) \notin Wrong
      BY <3>1, <3>2, <3>3
    <3>5. itoa[Rest(v)] \in Text
      BY <3>3, <3>4
    <3>. QED
      BY <1>3, <1>4, <1>10, <3>2, <3>5
  <2>3. \A v \in Nat : itoa[v] \in Text
    BY <2>2
  <2>. QED
    BY <2>1, <2>3
<1>. QED
  BY <1>10, <1>11 DEF itoa, Last1, More, Rest

LEMMA LastIndexIs == LastIndex \in Nat /\ LastIndex < 10 * 1000000000
BY DEF LastIndex

\* How long a number can be.
LEMMA ItoaLength ==
    ASSUME NEW v \in 0 .. LastIndex
    PROVE  /\ Amounts!Itoa[v] \in Text
           /\ Len(Amounts!Itoa[v]) \in 1 .. 10
<1>. DEFINE itoa == Amounts!Itoa
            UpTo(b, n) == \A x \in Nat : x < b => itoa[x] \in Text /\ Len(itoa[x]) \in 1 .. n
<1>1. /\ \A x \in Nat : itoa[x] \in Text
      /\ \A x \in Nat : x < 10 => Len(itoa[x]) = 1
      /\ \A x \in Nat : x >= 10 => Len(itoa[x]) = Len(itoa[x \div 10]) + 1
  <2>1. \A x \in Nat : itoa[x] \in Text
    BY ItoaIs
  <2>2. ASSUME NEW x \in Nat, x < 10
        PROVE  Len(itoa[x]) = 1
    BY <2>2, ItoaIs
  <2>3. ASSUME NEW x \in Nat, x >= 10
        PROVE  Len(itoa[x]) = Len(itoa[x \div 10]) + 1
    <3>1. x \div 10 \in Nat
      OBVIOUS
    <3>2. itoa[x] = Append(itoa[x \div 10], Amounts!Char(x % 10))
      BY <2>3, ItoaIs
    <3>3. itoa[x \div 10] \in Text
      BY <2>1, <3>1
    <3>. HIDE DEF itoa
    <3>4. \A text \in Text : \A char : Len(Append(text, char)) = Len(text) + 1
      BY DEF Text
    <3>. QED
      BY <3>2, <3>3, <3>4
  <2>. QED
    BY <2>1, <2>2, <2>3
<1>. HIDE DEF itoa
<1>2. UpTo(10, 1)
  BY <1>1
<1>3. ASSUME NEW b \in Nat, NEW n \in Nat, UpTo(b, n), n >= 1
      PROVE  UpTo(10 * b, n + 1)
  <2>. SUFFICES ASSUME NEW x \in Nat, x < 10 * b
                PROVE  itoa[x] \in Text /\ Len(itoa[x]) \in 1 .. n + 1
    OBVIOUS
  <2>1. x \div 10 \in Nat /\ x \div 10 < b
    OBVIOUS
  <2>2. Len(itoa[x \div 10]) \in 1 .. n
    BY <1>3, <2>1
  <2>. QED
    BY <1>1, <1>3, <2>2
<1>. HIDE DEF UpTo
<1>4. UpTo(100, 2)
  BY <1>2, <1>3
<1>5. UpTo(1000, 3)
  BY <1>3, <1>4
<1>6. UpTo(10000, 4)
  BY <1>3, <1>5
<1>7. UpTo(100000, 5)
  BY <1>3, <1>6
<1>8. UpTo(10 * 100000, 6)
  BY <1>3, <1>7
<1>9. UpTo(100 * 100000, 7)
  BY <1>3, <1>8
<1>10. UpTo(1000 * 100000, 8)
  BY <1>3, <1>9
<1>11. UpTo(10000 * 100000, 9)
  BY <1>3, <1>10
<1>12. UpTo(10 * 1000000000, 10)
  BY <1>3, <1>11
<1>13. v \in Nat /\ v < 10 * 1000000000
  BY LastIndexIs
<1>. QED
  BY <1>12, <1>13 DEF UpTo, itoa

-----------------------------------------------------------------------------
(* The amount of an output. *)

\* How many commas follow the first n digits, and so how many characters the
\* first n digits come to, if `c' begins with this phase.
Commas(phase, n) == (phase + n + 1) \div 3 - (phase + 1) \div 3

LEMMA CommasAre ==
    ASSUME NEW phase \in 0 .. 2, NEW n \in Nat
    PROVE  /\ Commas(phase, n) \in 0 .. n
           /\ Commas(phase, 0) = 0
           /\ Commas(phase, n + 1) = Commas(phase, n) + (IF (phase + n) % 3 = 1 THEN 1 ELSE 0)
           /\ \A j \in 0 .. n : Commas(phase, j) <= Commas(phase, n)
BY DEF Commas

\* For the phase that the number of digits gives: a comma behind the last digit,
\* and one in front of every third from there.
LEMMA CommasFromRight ==
    ASSUME NEW n \in Nat
    PROVE  /\ Amounts!CommaPhase(n) \in 0 .. 2
           /\ (Amounts!CommaPhase(n) + n) % 3 = 2
           /\ Commas(Amounts!CommaPhase(n), n) = n \div 3 + 1 - (Amounts!CommaPhase(n) + 1) \div 3
           /\ n > 0 => n + Commas(Amounts!CommaPhase(n), n) = n + 1 + (n - 1) \div 3
           /\ \A q \in 1 .. n : Commas(Amounts!CommaPhase(n), n - q)
                                  = Commas(Amounts!CommaPhase(n), n) - 1 - (q - 1) \div 3
           /\ \A p \in Nat : (Amounts!CommaPhase(n) + (n - 3 * p)) % 3 = 2
BY DEF Commas, Amounts!CommaPhase

LEMMA OneMore ==
    ASSUME NEW S, NEW s \in Seq(S), NEW a \in S, NEW b \in S
    PROVE  /\ s \o <<a>> = Append(s, a)
           /\ s \o <<a, b>> = Append(Append(s, a), b)
<1>1. s \o <<a>> = Append(s, a)
  OBVIOUS
<1>2. s \o <<a, b>> = Append(Append(s, a), b)
  OBVIOUS
<1>. QED
  BY <1>1, <1>2

\* s with one and with two more.
Extended(s, a, b, one, two) ==
    /\ one = Append(s, a) /\ two = Append(one, b)
    /\ Len(one) = Len(s) + 1 /\ one[Len(s) + 1] = a
    /\ \A i \in 1 .. Len(s) : one[i] = s[i]
    /\ Len(two) = Len(s) + 2 /\ two[Len(s) + 1] = a /\ two[Len(s) + 2] = b
    /\ \A i \in 1 .. Len(s) : two[i] = s[i]

LEMMA AppendedAre ==
    ASSUME NEW S, NEW s \in Seq(S), NEW a \in S, NEW b \in S
    PROVE  \E one, two : Extended(s, a, b, one, two)
<1>. DEFINE one == Append(s, a)
            two == Append(one, b)
<1>1. Len(s) \in Nat
  BY LenProperties
<1>2. /\ one \in Seq(S) /\ Len(one) = Len(s) + 1 /\ one[Len(s) + 1] = a
      /\ \A i \in 1 .. Len(s) : one[i] = s[i]
  BY AppendProperties
<1>. HIDE DEF one
<1>3. /\ Len(two) = Len(one) + 1 /\ two[Len(one) + 1] = b
      /\ \A i \in 1 .. Len(one) : two[i] = one[i]
  BY <1>2, AppendProperties
<1>4. one = Append(s, a) /\ two = Append(one, b)
  BY DEF one
<1>. HIDE DEF two
<1>5. Extended(s, a, b, one, two)
  BY <1>1, <1>2, <1>3, <1>4 DEF Extended
<1>. QED
  BY <1>5

\* What the loop of format_value has: the text so far and `c'.
Lines == [out : Text, c : 0 .. 2]

LEMMA PlacedIs ==
    ASSUME NEW at \in Lines, NEW digit \in Chars
    PROVE  LET next == Amounts!Placed(at, digit)
           IN  /\ next \in Lines
               /\ next.c = (at.c + 1) % 3
               /\ next.out = IF at.c = 1 THEN Append(Append(at.out, digit), ",")
                             ELSE Append(at.out, digit)
<1>. DEFINE out == at.out
            comma == ","
<1>1. out \in Text /\ at.c \in 0 .. 2 /\ comma \in Chars
  BY DEF Lines, Chars
<1>2. /\ at.out \o <<digit, ",">> = Append(Append(at.out, digit), ",")
      /\ at.out \o <<digit>> = Append(at.out, digit)
  <2>. HIDE DEF out, comma
  <2>1. out \o <<digit, comma>> = Append(Append(out, digit), comma)
    BY <1>1, OneMore DEF Text
  <2>2. out \o <<digit>> = Append(out, digit)
    BY <1>1, OneMore DEF Text
  <2>. QED
    BY <2>1, <2>2 DEF out, comma
<1>3. \A text \in Text, char \in Chars : Append(text, char) \in Text
  BY DEF Text
<1>4. \A c \in 0 .. 2 : (c + 1) % 3 \in 0 .. 2
  OBVIOUS
<1>. QED
  BY <1>1, <1>2, <1>3, <1>4 DEF Amounts!Placed, Lines

LEMMA PlacingIs ==
    ASSUME NEW digits \in Text
    PROVE  LET at == Amounts!Placing(digits)
           IN  /\ at[0] = [out |-> <<>>, c |-> Amounts!CommaPhase(Len(digits))]
               /\ \A i \in 0 .. Len(digits) : at[i] \in Lines
               /\ \A i \in 1 .. Len(digits) : at[i] = Amounts!Placed(at[i - 1], digits[i])
<1>. DEFINE size == Len(digits)
            begin == [out |-> <<>>, c |-> Amounts!CommaPhase(size)]
            Turn(i, at) == Amounts!Placed(at, digits[i])
            next == [i \in 1 .. size |-> [at \in Lines |-> Turn(i, at)]]
            IsPlacing(f) == f = [i \in 0 .. size |-> IF i = 0 THEN begin ELSE Turn(i, f[i - 1])]
            placing == Amounts!Placing(digits)
<1>1. size \in Nat /\ \A i \in 1 .. size : digits[i] \in Chars
  BY LenProperties DEF Text
<1>2. begin \in Lines
  <2>1. Amounts!CommaPhase(size) \in 0 .. 2
    BY <1>1, CommasFromRight
  <2>2. <<>> \in Text
    BY DEF Text
  <2>. QED
    BY <2>1, <2>2 DEF Lines
<1>3. \A i \in 1 .. size, at \in Lines : Turn(i, at) \in Lines
  BY <1>1, PlacedIs
<1>4. placing = CHOOSE f : IsPlacing(f)
  BY DEF Amounts!Placing
<1>5. Turning(Lines, size, next)
  BY <1>3 DEF Turning
<1>6. \A i \in 1 .. size, at \in Lines : next[i][at] = Turn(i, at)
  OBVIOUS
<1>. HIDE DEF next, Turn, begin, placing
<1>7. PICK f : AfterTurns(Lines, size, begin, next, f)
  BY <1>1, <1>2, <1>5, LoopExists
<1>8. \A i \in 0 .. size : i # 0 => i \in 1 .. size /\ i - 1 \in 0 .. size
  BY <1>1
<1>9. IsPlacing(f)
  <2>1. \A i \in 0 .. size : f[i] = IF i = 0 THEN begin ELSE Turn(i, f[i - 1])
    BY <1>6, <1>7, <1>8 DEF AfterTurns
  <2>. QED
    BY <1>7, <2>1 DEF AfterTurns
<1>10. IsPlacing(placing)
  <2>. HIDE DEF IsPlacing
  <2>. QED
    BY <1>4, <1>9
<1>11. 0 \in 0 .. size /\ \A i \in 1 .. size : i \in 0 .. size /\ i # 0
  BY <1>1
<1>12. placing[0] = begin /\ \A i \in 1 .. size : placing[i] = Turn(i, placing[i - 1])
  BY <1>10, <1>11
<1>. DEFINE Done == {i \in 0 .. size : placing[i] \in Lines}
<1>. HIDE DEF IsPlacing
<1>13. 0 \in Done
  BY <1>2, <1>11, <1>12
<1>14. ASSUME NEW i \in 0 .. size - 1, i \in Done
       PROVE  i + 1 \in Done
  <2>1. i + 1 \in 1 .. size /\ i + 1 \in 0 .. size /\ i + 1 - 1 = i
    BY <1>1
  <2>2. placing[i + 1] = Turn(i + 1, placing[i])
    BY <1>12, <2>1
  <2>. QED
    BY <1>3, <1>14, <2>1, <2>2
<1>15. \A i \in 0 .. size : i \in Done
  <2>. HIDE DEF Done
  <2>. QED
    BY <1>1, <1>13, <1>14, NumbersUpTo
<1>. QED
  BY <1>12, <1>15 DEF begin, Turn, placing

\* The text after n digits: each digit behind the commas that precede it.
IsPlaced(at, digits, phase, n) ==
    /\ at \in Lines
    /\ at.c = (phase + n) % 3
    /\ Len(at.out) = n + Commas(phase, n)
    /\ \A j \in 1 .. n : at.out[j + Commas(phase, j - 1)] = digits[j]
    /\ \A j \in 1 .. n : (phase + j) % 3 = 2 => at.out[j + Commas(phase, j)] = ","

LEMMA PlacesOneMore ==
    ASSUME NEW digits \in Text, NEW phase \in 0 .. 2, NEW n \in 0 .. Len(digits) - 1,
           NEW at, IsPlaced(at, digits, phase, n)
    PROVE  IsPlaced(Amounts!Placed(at, digits[n + 1]), digits, phase, n + 1)
<1>. DEFINE next == Amounts!Placed(at, digits[n + 1])
            digit == digits[n + 1]
            comma == ","
            out == at.out
            all == next.out
            c == at.c
            Before1(j) == j + Commas(phase, j - 1)
            Behind(j) == j + Commas(phase, j)
<1>1. /\ Len(digits) \in Nat /\ n \in Nat /\ n + 1 \in 1 .. Len(digits)
      /\ n + 1 - 1 = n
      /\ phase + n \in Nat
  BY LenProperties DEF Text
<1>2. /\ at \in Lines /\ out \in Text /\ c \in 0 .. 2
      /\ digit \in Chars /\ comma \in Chars
  <2>1. at \in Lines
    BY DEF IsPlaced
  <2>2. digit \in Chars
    BY <1>1 DEF Text
  <2>3. comma \in Chars
    BY DEF Chars
  <2>. QED
    BY <2>1, <2>2, <2>3 DEF Lines
<1>3. /\ next \in Lines /\ next.c = (c + 1) % 3
      /\ all = IF c = 1 THEN Append(Append(out, digit), comma) ELSE Append(out, digit)
  BY <1>2, PlacedIs
<1>4. c = (phase + n) % 3
  BY DEF IsPlaced
<1>5. Len(out) = n + Commas(phase, n)
  BY DEF IsPlaced
<1>6. /\ \A j \in 1 .. n : out[Before1(j)] = digits[j]
      /\ \A j \in 1 .. n : (phase + j) % 3 = 2 => out[Behind(j)] = comma
  BY DEF IsPlaced
<1>. HIDE DEF next, all, out, digit, comma, c
<1>7. /\ Commas(phase, n) \in Nat
      /\ Commas(phase, n + 1) = Commas(phase, n) + (IF c = 1 THEN 1 ELSE 0)
      /\ (c + 1) % 3 = (phase + (n + 1)) % 3
  <2>1. /\ Commas(phase, n) \in Nat
        /\ Commas(phase, n + 1) = Commas(phase, n) + (IF (phase + n) % 3 = 1 THEN 1 ELSE 0)
    BY <1>1 DEF Commas
  <2>2. \A x \in Nat : ((x % 3) + 1) % 3 = (x + 1) % 3
    OBVIOUS
  <2>3. (((phase + n) % 3) + 1) % 3 = ((phase + n) + 1) % 3 /\ (phase + n) + 1 = phase + (n + 1)
    BY <1>1, <2>2
  <2>. QED
    BY <1>4, <2>1, <2>3
<1>8. /\ Len(all) = (n + 1) + Commas(phase, n + 1)
      /\ \A e \in 1 .. Len(out) : all[e] = out[e]
      /\ all[Len(out) + 1] = digit
      /\ c = 1 => all[Len(out) + 2] = comma
  <2>1. Len(out) \in Nat /\ Len(out) = n + Commas(phase, n)
    BY <1>1, <1>5, <1>7
  <2>2. out \in Seq(Chars)
    BY <1>2 DEF Text
  <2>3. PICK one, two : Extended(out, digit, comma, one, two)
    BY <1>2, <2>2, AppendedAre
  <2>4. all = IF c = 1 THEN two ELSE one
    BY <1>3, <2>3 DEF Extended
  <2>5. /\ \A e \in 1 .. Len(out) : all[e] = out[e]
        /\ all[Len(out) + 1] = digit
        /\ c = 1 => all[Len(out) + 2] = comma
    BY <2>3, <2>4 DEF Extended
  <2>6. Len(all) = (n + 1) + Commas(phase, n + 1)
    <3>1. CASE c = 1
      <4>1. Len(all) = Len(out) + 2
        BY <2>3, <2>4, <3>1 DEF Extended
      <4>. QED
        BY <1>1, <1>7, <2>1, <3>1, <4>1
    <3>2. CASE c # 1
      <4>1. Len(all) = Len(out) + 1
        BY <2>3, <2>4, <3>2 DEF Extended
      <4>. QED
        BY <1>1, <1>7, <2>1, <3>2, <4>1
    <3>. QED
      BY <3>1, <3>2
  <2>. QED
    BY <2>5, <2>6
<1>9. ASSUME NEW j \in 1 .. n
      PROVE  Before1(j) \in 1 .. Len(out) /\ Behind(j) \in 1 .. Len(out)
  <2>1. /\ j - 1 \in Nat /\ j - 1 \in 0 .. n /\ j \in 0 .. n /\ j \in Nat
        /\ Commas(phase, j - 1) \in Nat /\ Commas(phase, j) \in Nat
    <3>1. j - 1 \in Nat /\ j - 1 \in 0 .. n /\ j \in 0 .. n /\ j \in Nat
      BY <1>1
    <3>. QED
      BY <3>1 DEF Commas
  <2>2. Commas(phase, j - 1) <= Commas(phase, n) /\ Commas(phase, j) <= Commas(phase, n)
    BY <1>1, <2>1 DEF Commas
  <2>. QED
    BY <1>1, <1>5, <1>7, <2>1, <2>2
<1>10. ASSUME NEW j \in 1 .. n + 1
       PROVE  all[Before1(j)] = digits[j]
  <2>. DEFINE place == Before1(j)
  <2>1. CASE j = n + 1
    <3>1. place = Len(out) + 1
      BY <1>1, <1>5, <1>7, <2>1
    <3>2. digits[j] = digit
      BY <2>1 DEF digit
    <3>. HIDE DEF place
    <3>3. all[place] = digit
      BY <1>8, <3>1
    <3>. QED
      BY <3>2, <3>3 DEF place
  <2>2. CASE j # n + 1
    <3>1. j \in 1 .. n
      BY <1>1, <2>2
    <3>2. place \in 1 .. Len(out) /\ out[place] = digits[j]
      BY <1>6, <1>9, <3>1
    <3>. HIDE DEF place
    <3>3. all[place] = out[place]
      BY <1>8, <3>2
    <3>. QED
      BY <3>2, <3>3 DEF place
  <2>. QED
    BY <2>1, <2>2
<1>11. ASSUME NEW j \in 1 .. n + 1, (phase + j) % 3 = 2
       PROVE  all[Behind(j)] = comma
  <2>. DEFINE place == Behind(j)
  <2>1. CASE j = n + 1
    <3>1. c = 1
      <4>1. (c + 1) % 3 = 2
        BY <1>7, <1>11, <2>1
      <4>. QED
        BY <1>2, <4>1
    <3>2. place = Len(out) + 2
      BY <1>1, <1>5, <1>7, <2>1, <3>1
    <3>. HIDE DEF place
    <3>3. all[place] = comma
      BY <1>8, <3>1, <3>2
    <3>. QED
      BY <3>3 DEF place
  <2>2. CASE j # n + 1
    <3>1. j \in 1 .. n
      BY <1>1, <2>2
    <3>2. place \in 1 .. Len(out) /\ out[place] = comma
      BY <1>6, <1>9, <1>11, <3>1
    <3>. HIDE DEF place
    <3>3. all[place] = out[place]
      BY <1>8, <3>2
    <3>. QED
      BY <3>2, <3>3 DEF place
  <2>. QED
    BY <2>1, <2>2
<1>. QED
  BY <1>3, <1>7, <1>8, <1>10, <1>11 DEF IsPlaced, next, digit, all, comma

LEMMA GroupedIs ==
    ASSUME NEW digits \in Text
    PROVE  IsPlaced(Amounts!Placing(digits)[Len(digits)], digits,
                    Amounts!CommaPhase(Len(digits)), Len(digits))
<1>. DEFINE size == Len(digits)
            phase == Amounts!CommaPhase(size)
            at == Amounts!Placing(digits)
            Done == {i \in 0 .. size : IsPlaced(at[i], digits, phase, i)}
<1>1. size \in Nat /\ phase \in 0 .. 2
  BY LenProperties, CommasFromRight DEF Text
<1>2. /\ at[0] = [out |-> <<>>, c |-> phase]
      /\ \A i \in 0 .. size : at[i] \in Lines
      /\ \A i \in 1 .. size : at[i] = Amounts!Placed(at[i - 1], digits[i])
  BY PlacingIs
<1>. HIDE DEF at, phase
<1>3. 0 \in Done
  <2>1. (phase + 0) % 3 = phase /\ Commas(phase, 0) = 0 /\ 0 \in 0 .. size
    BY <1>1 DEF Commas
  <2>2. at[0] \in Lines /\ at[0].c = phase /\ at[0].out = <<>>
    BY <1>2, <2>1
  <2>3. Len(at[0].out) = 0 + Commas(phase, 0)
    BY <2>1, <2>2
  <2>4. IsPlaced(at[0], digits, phase, 0)
    BY <2>1, <2>2, <2>3 DEF IsPlaced
  <2>. QED
    BY <2>1, <2>4
<1>4. ASSUME NEW i \in 0 .. size - 1, i \in Done
      PROVE  i + 1 \in Done
  <2>1. i + 1 \in 1 .. size /\ i + 1 \in 0 .. size /\ i + 1 - 1 = i
    BY <1>1
  <2>2. at[i + 1] = Amounts!Placed(at[i], digits[i + 1])
    BY <1>2, <2>1
  <2>3. IsPlaced(Amounts!Placed(at[i], digits[i + 1]), digits, phase, i + 1)
    BY <1>1, <1>4, PlacesOneMore
  <2>. QED
    BY <2>1, <2>2, <2>3
<1>5. size \in Done
  <2>1. size \in 0 .. size
    BY <1>1
  <2>. HIDE DEF Done, size
  <2>2. \A i \in 0 .. size : i \in Done
    BY <1>1, <1>3, <1>4, NumbersUpTo
  <2>. QED
    BY <2>1, <2>2
<1>. QED
  BY <1>5 DEF at, phase

LEMMA Pair ==
    ASSUME NEW a, NEW b
    PROVE  /\ <<a>> \o <<b>> = <<a, b>>
           /\ Append(<<a>>, b) = <<a, b>>
           /\ <<>> \o <<a, b>> = <<a, b>>
<1>. DEFINE S == {a, b}
            one == <<a>>
            two == <<a, b>>
<1>1. a \in S /\ b \in S /\ one \in Seq(S) /\ two \in Seq(S)
  OBVIOUS
<1>2. Len(one) = 1 /\ one[1] = a /\ Len(two) = 2 /\ two[1] = a /\ two[2] = b
  OBVIOUS
<1>3. Append(one, b) = two
  <2>. HIDE DEF one, two, S
  <2>1. /\ Append(one, b) \in Seq(S) /\ Len(Append(one, b)) = 2
        /\ Append(one, b)[1] = a /\ Append(one, b)[2] = b
    <3>1. /\ Append(one, b) \in Seq(S) /\ Len(Append(one, b)) = Len(one) + 1
          /\ \A i \in 1 .. Len(one) : Append(one, b)[i] = one[i]
          /\ Append(one, b)[Len(one) + 1] = b
      BY <1>1, AppendProperties
    <3>. QED
      BY <1>2, <3>1
  <2>2. \A i \in 1 .. 2 : i = 1 \/ i = 2
    OBVIOUS
  <2>3. \A i \in 1 .. Len(two) : Append(one, b)[i] = two[i]
    BY <1>2, <2>1, <2>2
  <2>. QED
    BY <1>1, <1>2, <2>1, <2>3, SeqEqual
<1>4. one \o <<b>> = Append(one, b)
  <2>. HIDE DEF one, S
  <2>. QED
    BY <1>1, OneMore
<1>5. <<>> \o two = two
  <2>. HIDE DEF two, S
  <2>. QED
    BY <1>1, ConcatEmptySeq
<1>. QED
  BY <1>3, <1>4, <1>5

\* The digits behind the point: at least two.
LEMMA CentsAre ==
    ASSUME NEW value \in Seq(Digit), value # <<>>
    PROVE  LET cents == Amounts!Cents(value)
           IN  (IF cents < 10 THEN <<"0">> ELSE <<>>) \o Amounts!Itoa[cents]
               = <<Amounts!Char(IF Len(value) > 1 THEN value[2] ELSE 0), Amounts!Char(value[1])>>
<1>. DEFINE units == value[1]
            tens == IF Len(value) > 1 THEN value[2] ELSE 0
            cents == Amounts!Cents(value)
<1>1. Len(value) \in Nat /\ Len(value) >= 1
  BY EmptySeq, LenProperties
<1>2. units \in 0 .. 9 /\ tens \in 0 .. 9 /\ cents = units + 10 * tens
  BY <1>1 DEF Amounts!Cents, Digit
<1>. HIDE DEF units, tens, cents
<1>3. /\ cents \in Nat /\ cents \div 10 = tens /\ cents % 10 = units
      /\ cents < 10 <=> tens = 0
  BY <1>2
<1>4. \A d \in 0 .. 9 : Amounts!Itoa[d] = <<Amounts!Char(d)>>
  BY ItoaIs
<1>5. CASE cents < 10
  <2>1. cents = units /\ tens = 0
    BY <1>2, <1>3, <1>5
  <2>2. Amounts!Char(0) = "0"
    BY DEF Amounts!Char, Amounts!DigitChars
  <2>3. <<"0">> \o <<Amounts!Char(units)>> = <<Amounts!Char(tens), Amounts!Char(units)>>
    <3>1. \A a, b : <<a>> \o <<b>> = <<a, b>>
      BY Pair
    <3>. QED
      BY <2>1, <2>2, <3>1
  <2>4. Amounts!Itoa[cents] = <<Amounts!Char(units)>>
    BY <1>2, <1>4, <2>1
  <2>. QED
    BY <1>5, <2>3, <2>4 DEF cents, tens, units
<1>6. CASE ~(cents < 10)
  <2>1. Amounts!Itoa[cents] = Append(Amounts!Itoa[tens], Amounts!Char(units))
    BY <1>3, <1>6, ItoaIs
  <2>2. Amounts!Itoa[tens] = <<Amounts!Char(tens)>>
    BY <1>2, <1>4
  <2>3. Append(<<Amounts!Char(tens)>>, Amounts!Char(units))
        = <<Amounts!Char(tens), Amounts!Char(units)>>
    BY Pair
  <2>4. <<>> \o <<Amounts!Char(tens), Amounts!Char(units)>>
        = <<Amounts!Char(tens), Amounts!Char(units)>>
    BY Pair
  <2>. QED
    BY <1>6, <2>1, <2>2, <2>3, <2>4 DEF cents, tens, units
<1>. QED
  BY <1>5, <1>6

\* The digits in front of the point: at least one.
LEMMA WholeDigits ==
    ASSUME NEW value \in Seq(Digit), value # <<>>
    PROVE  LET digits == Amounts!FormatU64(Amounts!Hundreds(value))
           IN  /\ digits \in Text
               /\ Len(digits) = IF Len(value) > 2 THEN Len(value) - 2 ELSE 1
               /\ \A q \in 1 .. Len(digits) :
                     digits[Len(digits) + 1 - q]
                         = Amounts!Char(IF q + 2 <= Len(value) THEN value[q + 2] ELSE 0)
<1>. DEFINE hundreds == Amounts!Hundreds(value)
            size == IF Len(value) > 2 THEN Len(value) - 2 ELSE 1
            digits == Amounts!FormatU64(hundreds)
<1>1. Len(value) \in Nat /\ Len(value) >= 1
  BY EmptySeq, LenProperties
<1>2. /\ hundreds \in Seq(Digit) /\ Len(hundreds) = size /\ size \in Nat /\ size >= 1
      /\ \A q \in 1 .. size : hundreds[q] = IF q + 2 <= Len(value) THEN value[q + 2] ELSE 0
  <2>1. CASE Len(value) > 2
    <3>1. hundreds = SubSeq(value, 3, Len(value))
      BY <2>1 DEF Amounts!Hundreds
    <3>. QED
      BY <1>1, <2>1, <3>1
  <2>2. CASE ~(Len(value) > 2)
    <3>1. hundreds = <<0>> /\ 0 \in Digit
      BY <2>2 DEF Amounts!Hundreds, Digit
    <3>. QED
      BY <1>1, <2>2, <3>1
  <2>. QED
    BY <2>1, <2>2
<1>. HIDE DEF hundreds, size
<1>3. DOMAIN hundreds = 1 .. size
  BY <1>2
<1>. DEFINE chars == [i \in 1 .. size |-> Amounts!Char(hundreds[i])]
<1>4. /\ chars \in Seq(Chars) /\ Len(chars) = size
      /\ \A q \in 1 .. size : chars[q] \in Chars
  <2>1. \A q \in 1 .. size : Amounts!Char(hundreds[q]) \in Chars
    <3>1. \A q \in 1 .. size : hundreds[q] \in Digit
      BY <1>2
    <3>. QED
      BY <3>1, CharType
  <2>. QED
    BY <1>2, <2>1
<1>5. digits = Amounts!Reverse(chars)
  BY <1>3 DEF Amounts!FormatU64
<1>6. digits = [i \in 1 .. size |-> chars[size - i + 1]]
  BY <1>4, <1>5 DEF Amounts!Reverse
<1>7. \A i \in 1 .. size : size - i + 1 \in 1 .. size /\ size + 1 - i \in 1 .. size
                           /\ size - (size + 1 - i) + 1 = i
  BY <1>2
<1>. HIDE DEF digits
<1>8. digits \in Text /\ Len(digits) = size
  <2>1. \A i \in 1 .. size : chars[size - i + 1] \in Chars
    BY <1>4, <1>7
  <2>. HIDE DEF chars
  <2>. QED
    BY <1>2, <1>6, <2>1 DEF Text
<1>9. \A q \in 1 .. size : digits[size + 1 - q] = Amounts!Char(hundreds[q])
  BY <1>6, <1>7
<1>. QED
  BY <1>2, <1>8, <1>9 DEF size, digits, hundreds

\* Where digit q of a whole part is, both counted from the right; comma p is at
\* place 4 * p.
WholePlace(q) == q + (q - 1) \div 3

LEMMA WholePlaces ==
    ASSUME NEW n \in Nat, n > 0
    PROVE  LET phase == Amounts!CommaPhase(n)
               size == n + (n - 1) \div 3
           IN  /\ phase \in 0 .. 2
               /\ size \in Nat /\ size > 0 /\ n + Commas(phase, n) = size + 1
               /\ \A q \in 1 .. n : WholePlace(q) \in 1 .. size
               /\ \A j \in 1 .. n :
                     j + Commas(phase, j - 1) = size + 1 - WholePlace(n + 1 - j)
               /\ \A p \in Nat : p > 0 /\ 4 * p <= size =>
                     /\ n - 3 * p \in 1 .. n
                     /\ (phase + (n - 3 * p)) % 3 = 2
                     /\ (n - 3 * p) + Commas(phase, n - 3 * p) = size + 1 - 4 * p
<1>. DEFINE phase == Amounts!CommaPhase(n)
            all == Commas(phase, n)
            size == n + (n - 1) \div 3
<1>1. /\ phase \in 0 .. 2
      /\ n + all = n + 1 + (n - 1) \div 3
      /\ \A q \in 1 .. n : Commas(phase, n - q) = all - 1 - (q - 1) \div 3
      /\ \A p \in Nat : (phase + (n - 3 * p)) % 3 = 2
  BY CommasFromRight
<1>2. all \in Int
  BY <1>1 DEF Commas
<1>. HIDE DEF phase, all
<1>3. size \in Nat /\ size > 0 /\ n + all = size + 1
  BY <1>1
<1>4. \A q \in 1 .. n : WholePlace(q) \in 1 .. size
  BY DEF WholePlace
<1>5. ASSUME NEW j \in 1 .. n
      PROVE  j + Commas(phase, j - 1) = size + 1 - WholePlace(n + 1 - j)
  <2>1. Commas(phase, n - (n + 1 - j)) = all - 1 - (n + 1 - j - 1) \div 3
    <3>1. n + 1 - j \in 1 .. n
      OBVIOUS
    <3>. QED
      BY <1>1, <3>1
  <2>2. n - (n + 1 - j) = j - 1 /\ n + 1 - j - 1 = n - j
    OBVIOUS
  <2>3. WholePlace(n + 1 - j) = (n + 1 - j) + (n - j) \div 3
    BY <2>2 DEF WholePlace
  <2>4. Commas(phase, j - 1) = all - 1 - (n - j) \div 3
    BY <2>1, <2>2
  <2>. QED
    BY <1>2, <1>3, <2>3, <2>4
<1>6. ASSUME NEW p \in Nat, p > 0, 4 * p <= size
      PROVE  /\ n - 3 * p \in 1 .. n
             /\ (n - 3 * p) + Commas(phase, n - 3 * p) = size + 1 - 4 * p
  <2>1. n - 3 * p \in 1 .. n /\ 3 * p \in 1 .. n /\ (3 * p - 1) \div 3 = p - 1
    BY <1>6
  <2>2. Commas(phase, n - 3 * p) = all - 1 - (3 * p - 1) \div 3
    BY <1>1, <2>1
  <2>3. Commas(phase, n - 3 * p) = all - p
    BY <1>2, <2>1, <2>2
  <2>. QED
    BY <1>2, <1>3, <2>1, <2>3
<1>. QED
  BY <1>1, <1>3, <1>4, <1>5, <1>6 DEF phase, all

\* The digits in front of the point: in groups of three from the right.
LEMMA WholePartIs ==
    ASSUME NEW value \in Seq(Digit), value # <<>>
    PROVE  LET whole == Amounts!WholePart(value)
               digits == Amounts!FormatU64(Amounts!Hundreds(value))
               n == Len(digits)
           IN  /\ whole \in Text /\ Len(whole) = n + (n - 1) \div 3
               /\ \A q \in 1 .. n :
                     whole[Len(whole) + 1 - WholePlace(q)] = digits[n + 1 - q]
               /\ \A p \in Nat : p > 0 /\ 4 * p <= Len(whole) =>
                     whole[Len(whole) + 1 - 4 * p] = ","
<1>. DEFINE digits == Amounts!FormatU64(Amounts!Hundreds(value))
            n == Len(digits)
            phase == Amounts!CommaPhase(n)
            at == Amounts!Placing(digits)[n]
            out == at.out
            size == n + (n - 1) \div 3
            whole == Amounts!WholePart(value)
<1>1. digits \in Text /\ n \in Nat /\ n > 0
  <2>1. Len(value) \in Nat
    BY LenProperties
  <2>2. digits \in Text /\ n = IF Len(value) > 2 THEN Len(value) - 2 ELSE 1
    BY WholeDigits
  <2>. QED
    BY <2>1, <2>2
<1>2. whole = Amounts!Front(out)
  BY DEF Amounts!WholePart, Amounts!Grouped
<1>. HIDE DEF digits, whole
<1>3. /\ phase \in 0 .. 2
      /\ size \in Nat /\ size > 0 /\ n + Commas(phase, n) = size + 1
      /\ \A q \in 1 .. n : WholePlace(q) \in 1 .. size
      /\ \A j \in 1 .. n : j + Commas(phase, j - 1) = size + 1 - WholePlace(n + 1 - j)
      /\ \A p \in Nat : p > 0 /\ 4 * p <= size =>
            /\ n - 3 * p \in 1 .. n
            /\ (phase + (n - 3 * p)) % 3 = 2
            /\ (n - 3 * p) + Commas(phase, n - 3 * p) = size + 1 - 4 * p
  BY <1>1, WholePlaces
<1>4. IsPlaced(at, digits, phase, n)
  BY <1>1, GroupedIs
<1>. HIDE DEF at, n, phase, size
<1>5. /\ out \in Text /\ Len(out) = n + Commas(phase, n)
      /\ \A j \in 1 .. n : out[j + Commas(phase, j - 1)] = digits[j]
      /\ \A j \in 1 .. n : (phase + j) % 3 = 2 => out[j + Commas(phase, j)] = ","
  BY <1>4 DEF IsPlaced, Lines
<1>. HIDE DEF out
<1>6. size \in Nat /\ size > 0
  BY <1>3
<1>7. out \in Text /\ Len(out) = size + 1
  BY <1>3, <1>5
<1>8. /\ whole \in Text /\ Len(whole) = size
      /\ \A i \in 1 .. size : whole[i] = out[i]
  <2>1. whole = SubSeq(out, 1, Len(out) - 1)
    BY <1>2 DEF Amounts!Front
  <2>2. Len(out) - 1 = size
    BY <1>6, <1>7
  <2>3. whole = SubSeq(out, 1, size) /\ 1 \in 1 .. Len(out) + 1 /\ size \in 1 - 1 .. Len(out)
    BY <1>6, <1>7, <2>1, <2>2
  <2>. QED
    BY <1>6, <1>7, <2>3, SubSeqProperties DEF Text
<1>9. ASSUME NEW q \in 1 .. n
      PROVE  whole[size + 1 - WholePlace(q)] = digits[n + 1 - q]
  <2>. DEFINE j == n + 1 - q
  <2>1. j \in 1 .. n /\ n + 1 - j = q
    BY <1>1
  <2>. HIDE DEF j
  <2>2. j + Commas(phase, j - 1) = size + 1 - WholePlace(q)
    BY <1>3, <2>1
  <2>3. out[size + 1 - WholePlace(q)] = digits[j]
    BY <1>5, <2>1, <2>2
  <2>4. size + 1 - WholePlace(q) \in 1 .. size
    <3>1. WholePlace(q) \in 1 .. size
      BY <1>3
    <3>. QED
      BY <1>6, <3>1
  <2>. QED
    BY <1>8, <2>3, <2>4 DEF j
<1>10. ASSUME NEW p \in Nat, p > 0, 4 * p <= size
       PROVE  whole[size + 1 - 4 * p] = ","
  <2>. DEFINE j == n - 3 * p
              place == 4 * p
  <2>1. /\ j \in 1 .. n /\ (phase + j) % 3 = 2
        /\ j + Commas(phase, j) = size + 1 - place
    BY <1>3, <1>10
  <2>2. size + 1 - place \in 1 .. size
    BY <1>6, <1>10
  <2>. HIDE DEF place, j
  <2>3. out[size + 1 - place] = ","
    BY <1>5, <2>1
  <2>. QED
    BY <1>8, <2>2, <2>3 DEF place
<1>. QED
  BY <1>8, <1>9, <1>10 DEF n, size, digits, whole

\* s with a point and two more, which r and t are together.
IsThree(point, r, t, p, a, b) == point = <<p>> /\ r \o t = <<a, b>>
WithThree(all, s, p, a, b) ==
    /\ Len(all) = Len(s) + 3
    /\ \A i \in 1 .. Len(s) : all[i] = s[i]
    /\ all[Len(s) + 1] = p /\ all[Len(s) + 2] = a /\ all[Len(s) + 3] = b

LEMMA ThreeMore ==
    ASSUME NEW S, NEW s \in Seq(S), NEW p \in S, NEW a \in S, NEW b \in S,
           NEW point, NEW r \in Seq(S), NEW t \in Seq(S), IsThree(point, r, t, p, a, b)
    PROVE  LET all == s \o point \o r \o t
           IN  all \in Seq(S) /\ WithThree(all, s, p, a, b)
<1>. DEFINE head == Append(s, p)
            pair == <<a, b>>
            all == s \o point \o r \o t
<1>1. Len(s) \in Nat
  BY LenProperties
<1>2. s \o point = head
  BY OneMore DEF IsThree
<1>3. /\ head \in Seq(S) /\ Len(head) = Len(s) + 1 /\ head[Len(s) + 1] = p
      /\ \A i \in 1 .. Len(s) : head[i] = s[i]
  BY AppendProperties
<1>. HIDE DEF head
<1>4. all = head \o pair
  <2>1. r \o t = pair
    BY DEF IsThree
  <2>. HIDE DEF pair
  <2>2. (head \o r) \o t = head \o (r \o t)
    <3>1. \A u, v, w \in Seq(S) : (u \o v) \o w = u \o (v \o w)
      BY ConcatAssociative
    <3>. QED
      BY <1>3, <3>1
  <2>. QED
    BY <1>2, <2>1, <2>2
<1>5. all = Append(Append(head, a), b)
  <2>1. head \o pair = Append(Append(head, a), b)
    BY <1>3, OneMore
  <2>. QED
    BY <1>4, <2>1
<1>. HIDE DEF all
<1>6. PICK one, two : Extended(head, a, b, one, two)
  BY <1>3, AppendedAre
<1>7. all = two
  BY <1>5, <1>6 DEF Extended
<1>8. all \in Seq(S)
  BY <1>3, <1>5, AppendProperties
<1>9. /\ Len(all) = Len(head) + 2
      /\ \A i \in 1 .. Len(head) : all[i] = head[i]
      /\ all[Len(head) + 1] = a /\ all[Len(head) + 2] = b
  BY <1>6, <1>7 DEF Extended
<1>10. /\ Len(all) = Len(s) + 3
       /\ \A i \in 1 .. Len(s) + 1 : all[i] = head[i]
       /\ all[Len(s) + 2] = a /\ all[Len(s) + 3] = b
  BY <1>1, <1>3, <1>9
<1>11. Len(s) + 1 \in 1 .. Len(s) + 1 /\ \A i \in 1 .. Len(s) : i \in 1 .. Len(s) + 1
  BY <1>1
<1>. QED
  BY <1>3, <1>8, <1>10, <1>11 DEF all, WithThree

\* The whole text: that of the whole part, a point and two digits.
LEMMA ValueText ==
    ASSUME NEW value \in Seq(Digit), value # <<>>
    PROVE  LET text == Amounts!FormatValue(value)
               whole == Amounts!WholePart(value)
           IN  /\ text \in Text /\ Len(text) = Len(whole) + 3
               /\ \A i \in 1 .. Len(whole) : text[i] = whole[i]
               /\ text[Len(whole) + 1] = "."
               /\ text[Len(whole) + 2] = Amounts!Char(IF Len(value) > 1 THEN value[2] ELSE 0)
               /\ text[Len(whole) + 3] = Amounts!Char(value[1])
<1>. DEFINE whole == Amounts!WholePart(value)
            text == Amounts!FormatValue(value)
            cents == Amounts!Cents(value)
            zero == IF cents < 10 THEN <<"0">> ELSE <<>>
            units == Amounts!Char(value[1])
            tens == Amounts!Char(IF Len(value) > 1 THEN value[2] ELSE 0)
            point == "."
            dot == <<point>>
            itoa == Amounts!Itoa[cents]
<1>1. Len(value) \in Nat /\ Len(value) >= 1
  BY EmptySeq, LenProperties
<1>2. cents \in Nat
  BY <1>1 DEF Amounts!Cents, Digit
<1>3. whole \in Text
  BY WholePartIs
<1>4. text = whole \o dot \o zero \o itoa
  BY DEF Amounts!FormatValue
<1>5. zero \o itoa = <<tens, units>>
  BY CentsAre
<1>6. tens \in Chars /\ units \in Chars /\ point \in Chars /\ "0" \in Chars
  <2>1. value[1] \in Digit /\ (Len(value) > 1 => value[2] \in Digit) /\ 0 \in Digit
    BY <1>1 DEF Digit
  <2>2. "0" = Amounts!Char(0)
    BY DEF Amounts!Char, Amounts!DigitChars
  <2>. QED
    BY <2>1, <2>2, CharType DEF Chars
<1>7. itoa \in Text /\ zero \in Text
  BY <1>2, <1>6, ItoaIs DEF Text
<1>. HIDE DEF whole, text, cents, zero, units, tens, point, itoa
<1>8. IsThree(dot, zero, itoa, point, tens, units)
  BY <1>5 DEF IsThree
<1>. HIDE DEF dot
<1>9. text \in Text /\ WithThree(text, whole, point, tens, units)
  BY <1>3, <1>4, <1>6, <1>7, <1>8, ThreeMore DEF Text
<1>. QED
  BY <1>9 DEF WithThree, point, tens, units, text, whole

\* The places of the digits of a value of n digits, in numbers.
LEMMA DecimalPlaces ==
    ASSUME NEW n \in Nat, n > 0
    PROVE  LET digits == IF n < 3 THEN 3 ELSE n
               first == IF n > 2 THEN n - 2 ELSE 1
               size == first + (first - 1) \div 3
           IN  /\ PlaceOfDigit(digits) = size + 3
               /\ \A k \in 1 .. digits : k > 2 =>
                     /\ k - 2 \in 1 .. first
                     /\ PlaceOfDigit(k) = WholePlace(k - 2) + 3
                     /\ WholePlace(k - 2) \in 1 .. size
BY DEF PlaceOfDigit, WholePlace

\* Every third comma.
LEMMA CommaPlaces ==
    ASSUME NEW size \in Nat, NEW place \in 4 .. size + 3, place % 4 = 3
    PROVE  \E p \in Nat : p > 0 /\ 4 * p <= size /\ place = 4 * p + 3
<1>1. place = 4 * (place \div 4) + 3 /\ place \div 4 \in Nat /\ place \div 4 > 0
  OBVIOUS
<1>. QED
  BY <1>1

\* The amount on the screen is the value that is signed: format_value writes all
\* its digits, two behind the point and at least one in front of it, a comma
\* between every three of those, and nothing else.
THEOREM AmountShownIsDecimal ==
    /\ InputOK => AmountIsDecimal
    /\ Spec => []AmountIsDecimal
<1>1. InputOK => AmountIsDecimal
  <2>. SUFFICES ASSUME InputOK, kind = "value", Amounts!Numeral(input)
                PROVE  LET text == Amounts!FormatValue(input)
                           FromRight(place) == text[Len(text) + 1 - place]
                           digits == IF Len(input) < 3 THEN 3 ELSE Len(input)
                       IN  /\ Len(text) = PlaceOfDigit(digits)
                           /\ \A k \in 1 .. digits :
                                 FromRight(PlaceOfDigit(k))
                                     = Amounts!Char(IF k <= Len(input) THEN input[k] ELSE 0)
                           /\ FromRight(3) = "."
                           /\ \A place \in 4 .. Len(text) :
                                 place % 4 = 3 => FromRight(place) = ","
    BY DEF AmountIsDecimal
  <2>. DEFINE n == Len(input)
              text == Amounts!FormatValue(input)
              whole == Amounts!WholePart(input)
              front == Amounts!FormatU64(Amounts!Hundreds(input))
              digits == IF n < 3 THEN 3 ELSE n
              first == IF n > 2 THEN n - 2 ELSE 1
              size == first + (first - 1) \div 3
              Digit0(k) == Amounts!Char(IF k <= n THEN input[k] ELSE 0)
  <2>1. input \in Seq(Digit) /\ input # <<>>
    BY DEF InputOK, Amounts!Numeral
  <2>2. n \in Nat /\ n > 0
    BY <2>1, EmptySeq, LenProperties
  <2>3. /\ Len(front) = first
        /\ \A q \in 1 .. first : front[first + 1 - q] = Digit0(q + 2)
    BY <2>1, WholeDigits
  <2>4. /\ Len(whole) = size
        /\ \A q \in 1 .. first : whole[size + 1 - WholePlace(q)] = front[first + 1 - q]
        /\ \A p \in Nat : p > 0 /\ 4 * p <= size => whole[size + 1 - 4 * p] = ","
    BY <2>1, <2>3, WholePartIs
  <2>5. /\ Len(text) = Len(whole) + 3
        /\ \A i \in 1 .. Len(whole) : text[i] = whole[i]
        /\ text[Len(whole) + 1] = "."
        /\ text[Len(whole) + 2] = Amounts!Char(IF n > 1 THEN input[2] ELSE 0)
        /\ text[Len(whole) + 3] = Amounts!Char(input[1])
    BY <2>1, ValueText
  <2>6. /\ PlaceOfDigit(digits) = size + 3
        /\ \A k \in 1 .. digits : k > 2 =>
              /\ k - 2 \in 1 .. first
              /\ PlaceOfDigit(k) = WholePlace(k - 2) + 3
              /\ WholePlace(k - 2) \in 1 .. size
    BY <2>2, DecimalPlaces
  <2>7. size \in Nat /\ size > 0 /\ digits \in Nat
    <3>. HIDE DEF n
    <3>1. first \in Nat /\ first > 0 /\ digits \in Nat
      BY <2>2
    <3>. HIDE DEF first, digits
    <3>. QED
      BY <3>1
  <2>. HIDE DEF text, whole, front, size, first, digits
  <2>8. /\ Len(text) = size + 3
        /\ \A i \in 1 .. size : text[i] = whole[i]
        /\ text[size + 1] = "."
        /\ text[size + 2] = Digit0(2)
        /\ text[size + 3] = Digit0(1)
    <3>1. (2 <= n <=> n > 1) /\ 1 <= n
      BY <2>2
    <3>. QED
      BY <2>4, <2>5, <3>1
  <2>. HIDE DEF Digit0, n
  <2>9. Len(text) = size + 3
    BY <2>8
  <2>10. ASSUME NEW k \in 1 .. digits
         PROVE  text[Len(text) + 1 - PlaceOfDigit(k)] = Digit0(k)
    <3>1. CASE k = 1
      <4>1. Len(text) + 1 - PlaceOfDigit(k) = size + 3
        BY <2>7, <2>9, <3>1 DEF PlaceOfDigit
      <4>. QED
        BY <2>8, <3>1, <4>1
    <3>2. CASE k = 2
      <4>1. Len(text) + 1 - PlaceOfDigit(k) = size + 2
        BY <2>7, <2>9, <3>2 DEF PlaceOfDigit
      <4>. QED
        BY <2>8, <3>2, <4>1
    <3>3. CASE k > 2
      <4>. DEFINE q == k - 2
                  place == WholePlace(q)
      <4>1. q \in 1 .. first /\ PlaceOfDigit(k) = place + 3 /\ place \in 1 .. size
        BY <2>6, <3>3
      <4>2. q + 2 = k
        BY <2>7
      <4>. HIDE DEF q, place
      <4>3. Len(text) + 1 - PlaceOfDigit(k) = size + 1 - place /\ size + 1 - place \in 1 .. size
        BY <2>7, <2>9, <4>1
      <4>4. whole[size + 1 - place] = front[first + 1 - q]
        BY <2>4, <4>1 DEF place
      <4>5. front[first + 1 - q] = Digit0(k)
        BY <2>3, <4>1, <4>2
      <4>. QED
        BY <2>8, <4>3, <4>4, <4>5
    <3>. QED
      BY <2>7, <3>1, <3>2, <3>3
  <2>11. text[Len(text) + 1 - 3] = "."
    <3>1. Len(text) + 1 - 3 = size + 1
      BY <2>7, <2>9
    <3>. QED
      BY <2>8, <3>1
  <2>12. ASSUME NEW place \in 4 .. Len(text), place % 4 = 3
         PROVE  text[Len(text) + 1 - place] = ","
    <3>1. PICK p \in Nat : p > 0 /\ 4 * p <= size /\ place = 4 * p + 3
      BY <2>7, <2>9, <2>12, CommaPlaces
    <3>2. Len(text) + 1 - place = size + 1 - 4 * p /\ size + 1 - 4 * p \in 1 .. size
      BY <2>7, <2>9, <3>1
    <3>3. whole[size + 1 - 4 * p] = ","
      BY <2>4, <3>1
    <3>. QED
      BY <2>8, <3>2, <3>3
  <2>13. Len(text) = PlaceOfDigit(digits)
    BY <2>6, <2>9
  <2>. QED
    BY <2>10, <2>11, <2>12, <2>13 DEF Digit0, digits, n, text
<1>2. Spec => []AmountIsDecimal
  BY <1>1, Inputs, PTL
<1>. QED
  BY <1>1, <1>2

LEMMA ValueLength ==
    ASSUME NEW value \in Seq(Digit), value # <<>>
    PROVE  /\ Amounts!FormatValue(value) \in Text
           /\ Len(value) \in Nat
           /\ Len(Amounts!FormatValue(value))
                  = PlaceOfDigit(IF Len(value) < 3 THEN 3 ELSE Len(value))
<1>. DEFINE n == Len(value)
            front == Amounts!FormatU64(Amounts!Hundreds(value))
            first == IF n > 2 THEN n - 2 ELSE 1
            size == first + (first - 1) \div 3
<1>1. n \in Nat /\ n > 0
  BY EmptySeq, LenProperties
<1>2. Len(front) = first
  BY WholeDigits
<1>3. Len(Amounts!WholePart(value)) = size
  BY <1>2, WholePartIs
<1>4. /\ Amounts!FormatValue(value) \in Text
      /\ Len(Amounts!FormatValue(value)) = Len(Amounts!WholePart(value)) + 3
  BY ValueText
<1>5. PlaceOfDigit(IF n < 3 THEN 3 ELSE n) = size + 3
  BY <1>1, DecimalPlaces
<1>. HIDE DEF size
<1>. QED
  BY <1>1, <1>3, <1>4, <1>5

\* The numbers of digits whose text and zero byte leave room for a symbol and a
\* space in g_amount.
LEMMA DigitsThatFit ==
    ASSUME NEW n \in 1 .. LongestSymbol, NEW digits \in 0 .. 19
    PROVE  n + 1 + PlaceOfDigit(IF digits < 3 THEN 3 ELSE digits) + 1 <= AmountSize
               <=> digits <= DigitsBeside(n)
BY DEF PlaceOfDigit, DigitsBeside, LongestSymbol, AmountSize

\* A symbol of n characters and one more, in front of a text.
LEMMA LineLength ==
    ASSUME NEW S, NEW a \in S, NEW b \in S, NEW n \in Nat, NEW text \in Seq(S)
    PROVE  Len([i \in 1 .. n |-> a] \o <<b>> \o text) = n + 1 + Len(text)
<1>. DEFINE symbol == [i \in 1 .. n |-> a]
            space == <<b>>
<1>1. symbol \in Seq(S) /\ Len(symbol) = n
  OBVIOUS
<1>2. space \in Seq(S) /\ Len(space) = 1
  OBVIOUS
<1>. HIDE DEF symbol, space
<1>3. Len(symbol \o space \o text) = n + 1 + Len(text)
  <2>1. Len(symbol \o space \o text) = Len(symbol) + Len(space) + Len(text)
    <3>1. \A r, s, t \in Seq(S) : Len(r \o s \o t) = Len(r) + Len(s) + Len(t)
      BY Concat3
    <3>. QED
      BY <1>1, <1>2, <3>1
  <2>. QED
    BY <1>1, <1>2, <2>1
<1>. QED
  BY <1>3 DEF symbol, space

\* prepare_display_output writes the whole amount line of every value of HTR, and
\* of every value of a token whose symbol is not longer than that.  Beside symbols
\* of 4 and 5 characters the line is cut off for the values of 19 digits, and of
\* 18, and for no shorter ones.
THEOREM AmountLineFits ==
    /\ InputOK => AmountFitsLine
    /\ Spec => []AmountFitsLine
<1>1. InputOK => AmountFitsLine
  <2>. SUFFICES ASSUME InputOK, kind = "value", Amounts!Numeral(input),
                       NEW n \in 1 .. LongestSymbol
                PROVE  Len(Amounts!AmountLine([i \in 1 .. n |-> "T"], input)) + 1 <= AmountSize
                           <=> Len(input) <= DigitsBeside(n)
    BY DEF AmountFitsLine
  <2>. DEFINE letter == "T"
              space == " "
              S == Chars \union {letter, space}
              text == Amounts!FormatValue(input)
              line == Amounts!AmountLine([i \in 1 .. n |-> letter], input)
              digits == Len(input)
  <2>1. input \in Seq(Digit) /\ input # <<>> /\ digits <= 19
    BY DEF InputOK, Amounts!Numeral
  <2>2. /\ text \in Text /\ digits \in Nat
        /\ Len(text) = PlaceOfDigit(IF digits < 3 THEN 3 ELSE digits)
    BY <2>1, ValueLength
  <2>3. n \in Nat
    BY DEF LongestSymbol
  <2>4. line = [i \in 1 .. n |-> letter] \o <<space>> \o text
    BY DEF Amounts!AmountLine
  <2>. HIDE DEF text, line, digits, letter, space
  <2>5. letter \in S /\ space \in S /\ text \in Seq(S)
    BY <2>2, SeqMonotonic DEF Text
  <2>. HIDE DEF S
  <2>6. Len(line) = n + 1 + Len(text)
    BY <2>3, <2>4, <2>5, LineLength
  <2>7. digits \in 0 .. 19
    BY <2>1, <2>2
  <2>8. n + 1 + Len(text) + 1 <= AmountSize <=> digits <= DigitsBeside(n)
    BY <2>2, <2>7, DigitsThatFit
  <2>. QED
    BY <2>6, <2>8 DEF digits, line, letter
<1>2. Spec => []AmountFitsLine
  BY <1>1, Inputs, PTL
<1>. QED
  BY <1>1, <1>2

-----------------------------------------------------------------------------
(* The text of a path. *)

\* What bip32_path_format prints of a component: at most 12 characters.
LEMMA ComponentText ==
    ASSUME NEW path \in Seq(Component), NEW i \in 1 .. Len(path)
    PROVE  /\ Paths!Number(path, i) \in Text /\ Len(Paths!Number(path, i)) \in 1 .. 10
           /\ Paths!Mark(path, i) \in Text /\ Len(Paths!Mark(path, i)) \in 0 .. 1
           /\ Paths!Slash(path, i) \in Text /\ Len(Paths!Slash(path, i)) \in 0 .. 1
           /\ i = Len(path) => Len(Paths!Slash(path, i)) = 0
<1>. DEFINE index == path[i].index
            mark == "'"
            slash == "/"
<1>1. index \in 0 .. LastIndex
  <2>1. path[i] \in Component
    OBVIOUS
  <2>. DEFINE last == LastIndex
  <2>. HIDE DEF last
  <2>2. Component = [hardened : BOOLEAN, index : 0 .. last]
    BY DEF Component, last
  <2>3. index \in 0 .. last
    BY <2>1, <2>2
  <2>. QED
    BY <2>3 DEF last
<1>2. Paths!Numbers!Itoa = Amounts!Itoa
  BY DEF Paths!Numbers!Itoa, Amounts!Itoa, Paths!Numbers!Char, Amounts!Char,
         Paths!Numbers!DigitChars, Amounts!DigitChars
<1>3. Paths!Number(path, i) = Amounts!Itoa[index]
  BY <1>2 DEF Paths!Number
<1>4. mark \in Chars /\ slash \in Chars
  BY DEF Chars
<1>5. \/ Paths!Mark(path, i) = <<mark>>
      \/ Paths!Mark(path, i) = <<>>
  BY DEF Paths!Mark
<1>6. \/ i # Len(path) /\ Paths!Slash(path, i) = <<slash>>
      \/ Paths!Slash(path, i) = <<>>
  BY DEF Paths!Slash
<1>. HIDE DEF index, mark, slash
<1>7. \A a \in Chars : <<a>> \in Text /\ Len(<<a>>) = 1
  BY DEF Text
<1>8. <<>> \in Text /\ Len(<<>>) = 0
  BY DEF Text
<1>9. Paths!Number(path, i) \in Text /\ Len(Paths!Number(path, i)) \in 1 .. 10
  BY <1>1, <1>3, ItoaLength
<1>10. Paths!Mark(path, i) \in Text /\ Len(Paths!Mark(path, i)) \in 0 .. 1
  BY <1>4, <1>5, <1>7, <1>8
<1>11. /\ Paths!Slash(path, i) \in Text /\ Len(Paths!Slash(path, i)) \in 0 .. 1
       /\ i = Len(path) => Len(Paths!Slash(path, i)) = 0
  BY <1>4, <1>6, <1>7, <1>8
<1>. QED
  BY <1>9, <1>10, <1>11

\* A text that has been printed whole so far.
Whole(text) == [ok |-> TRUE, text |-> text]

\* snprintf cuts nothing off where there is room.
LEMMA PrintedWhole ==
    ASSUME NEW acc \in Text, NEW text \in Text, Len(text) >= 1,
           Len(acc) + Len(text) <= Paths!PathTextSize - 1
    PROVE  Paths!Printed(Whole(acc), text, Paths!PathTextSize) = Whole(acc \o text)
<1>. DEFINE room == Paths!PathTextSize - Len(acc) - 1
            size == Len(text)
            written == Paths!Min({size, room})
<1>1. size \in Nat /\ Len(acc) \in Nat
  BY LenProperties DEF Text
<1>2. size >= 1 /\ room \in Int /\ size <= room
  BY <1>1 DEF Paths!PathTextSize
<1>. HIDE DEF size, room
<1>3. written = size
  BY <1>1, <1>2 DEF Paths!Min
<1>4. SubSeq(text, 1, size) = text
  BY SubSeqFull DEF Text, size
<1>. HIDE DEF written
<1>5. ~(written <= 0)
  BY <1>1, <1>2, <1>3
<1>6. Paths!Printed(Whole(acc), text, Paths!PathTextSize)
      = IF written <= 0 THEN [ok |-> FALSE, text |-> <<>>]
        ELSE [ok |-> TRUE, text |-> acc \o SubSeq(text, 1, written)]
  BY DEF Paths!Printed, Whole, written, room, size
<1>. QED
  BY <1>3, <1>4, <1>5, <1>6 DEF Whole

LEMMA PrintedWholeIfAny ==
    ASSUME NEW acc \in Text, NEW text \in Text,
           Len(acc) + Len(text) <= Paths!PathTextSize - 1
    PROVE  Paths!PrintedIfAny(Whole(acc), text, Paths!PathTextSize) = Whole(acc \o text)
<1>1. CASE text = <<>>
  <2>1. acc \o <<>> = acc
    BY ConcatEmptySeq DEF Text
  <2>. QED
    BY <1>1, <2>1 DEF Paths!PrintedIfAny
<1>2. CASE text # <<>>
  <2>1. Len(text) \in Nat /\ Len(text) # 0
    BY <1>2, EmptySeq, LenProperties DEF Text
  <2>2. Len(text) >= 1
    BY <2>1
  <2>. QED
    BY <1>2, <2>2, PrintedWhole DEF Paths!PrintedIfAny
<1>. QED
  BY <1>1, <1>2

\* The text of the first components is the recursion that PathText is defined by.
LEMMA PathTextIs ==
    ASSUME NEW path \in Seq(Component)
    PROVE  LET text == PathText(path)
           IN  /\ text[0] = <<>>
               /\ \A i \in 0 .. Len(path) : text[i] \in Text
               /\ \A i \in 1 .. Len(path) :
                     text[i] = text[i - 1] \o Paths!Number(path, i) \o Paths!Mark(path, i)
                                   \o Paths!Slash(path, i)
<1>. DEFINE size == Len(path)
            Turn(i, text) == text \o Paths!Number(path, i) \o Paths!Mark(path, i)
                                 \o Paths!Slash(path, i)
            next == [i \in 1 .. size |-> [text \in Text |-> Turn(i, text)]]
            IsText(f) == f = [i \in 0 .. size |-> IF i = 0 THEN <<>> ELSE Turn(i, f[i - 1])]
            texts == PathText(path)
<1>1. size \in Nat
  BY LenProperties
<1>2. <<>> \in Text
  BY DEF Text
<1>3. \A i \in 1 .. size, text \in Text : Turn(i, text) \in Text
  <2>1. \A r, s \in Text : r \o s \in Text
    BY ConcatProperties DEF Text
  <2>2. \A i \in 1 .. size : /\ Paths!Number(path, i) \in Text
                            /\ Paths!Mark(path, i) \in Text
                            /\ Paths!Slash(path, i) \in Text
    BY ComponentText
  <2>. QED
    BY <2>1, <2>2
<1>4. texts = CHOOSE f : IsText(f)
  BY DEF PathText
<1>5. Turning(Text, size, next)
  BY <1>3 DEF Turning
<1>6. \A i \in 1 .. size, text \in Text : next[i][text] = Turn(i, text)
  OBVIOUS
<1>. HIDE DEF next, Turn, texts
<1>7. PICK f : AfterTurns(Text, size, <<>>, next, f)
  BY <1>1, <1>2, <1>5, LoopExists
<1>8. \A i \in 0 .. size : i # 0 => i \in 1 .. size /\ i - 1 \in 0 .. size
  BY <1>1
<1>9. IsText(f)
  <2>1. \A i \in 0 .. size : f[i] = IF i = 0 THEN <<>> ELSE Turn(i, f[i - 1])
    BY <1>6, <1>7, <1>8 DEF AfterTurns
  <2>. QED
    BY <1>7, <2>1 DEF AfterTurns
<1>10. IsText(texts)
  <2>. HIDE DEF IsText
  <2>. QED
    BY <1>4, <1>9
<1>11. 0 \in 0 .. size /\ \A i \in 1 .. size : i \in 0 .. size /\ i # 0
  BY <1>1
<1>12. texts[0] = <<>> /\ \A i \in 1 .. size : texts[i] = Turn(i, texts[i - 1])
  BY <1>10, <1>11
<1>. DEFINE Done == {i \in 0 .. size : texts[i] \in Text}
<1>. HIDE DEF IsText
<1>13. 0 \in Done
  BY <1>2, <1>11, <1>12
<1>14. ASSUME NEW i \in 0 .. size - 1, i \in Done
       PROVE  i + 1 \in Done
  <2>1. i + 1 \in 1 .. size /\ i + 1 \in 0 .. size /\ i + 1 - 1 = i
    BY <1>1
  <2>2. texts[i + 1] = Turn(i + 1, texts[i])
    BY <1>12, <2>1
  <2>. QED
    BY <1>3, <1>14, <2>1, <2>2
<1>15. \A i \in 0 .. size : i \in Done
  <2>. HIDE DEF Done
  <2>. QED
    BY <1>1, <1>13, <1>14, NumbersUpTo
<1>. QED
  BY <1>12, <1>15 DEF Turn, texts

\* The room for a component behind a, for b, c and d characters.
LEMMA ComponentRoom ==
    ASSUME NEW size \in 0 .. 5, NEW i \in 1 .. size, NEW a \in Nat, a <= 12 * (i - 1),
           NEW b \in 1 .. 10, NEW c \in 0 .. 1, NEW d \in 0 .. 1, i = size => d = 0
    PROVE  /\ b >= 1 /\ a + b <= Paths!PathTextSize - 1
           /\ a + b + c <= Paths!PathTextSize - 1
           /\ a + b + c + d <= Paths!PathTextSize - 1
           /\ a + b + c + d <= 12 * i
BY DEF Paths!PathTextSize

\* No turn of bip32_path_format cuts anything off in a path of 5 components.
LEMMA ComponentPrinted ==
    ASSUME NEW path \in Seq(Component), Len(path) \in 0 .. 5, NEW i \in 1 .. Len(path),
           NEW acc \in Text, Len(acc) <= 12 * (i - 1)
    PROVE  LET after == acc \o Paths!Number(path, i) \o Paths!Mark(path, i)
                            \o Paths!Slash(path, i)
           IN  /\ Len(after) <= 12 * i
               /\ Paths!PrintedComponent(Whole(acc), path, i, Paths!PathTextSize) = Whole(after)
<1>. DEFINE number == Paths!Number(path, i)
            mark == Paths!Mark(path, i)
            slash == Paths!Slash(path, i)
            size == Len(path)
            first == acc \o number
            second == first \o mark
            third == second \o slash
<1>1. /\ number \in Text /\ Len(number) \in 1 .. 10
      /\ mark \in Text /\ Len(mark) \in 0 .. 1
      /\ slash \in Text /\ Len(slash) \in 0 .. 1 /\ (i = size => Len(slash) = 0)
  BY ComponentText
<1>2. size \in 0 .. 5 /\ i \in 1 .. size /\ Len(acc) \in Nat /\ Len(acc) <= 12 * (i - 1)
  BY LenProperties DEF Text
<1>3. Paths!PrintedComponent(Whole(acc), path, i, Paths!PathTextSize)
      = Paths!PrintedIfAny(
            Paths!PrintedIfAny(
                Paths!Printed(Whole(acc), number, Paths!PathTextSize),
                mark, Paths!PathTextSize),
            slash, Paths!PathTextSize)
  BY DEF Paths!PrintedComponent
<1>4. \A r, s \in Text : r \o s \in Text /\ Len(r \o s) = Len(r) + Len(s)
  BY ConcatProperties DEF Text
<1>. DEFINE a == Len(acc)
            b == Len(number)
            c == Len(mark)
            d == Len(slash)
<1>5. /\ b >= 1 /\ a + b <= Paths!PathTextSize - 1
      /\ a + b + c <= Paths!PathTextSize - 1
      /\ a + b + c + d <= Paths!PathTextSize - 1
      /\ a + b + c + d <= 12 * i
  <2>1. a \in Nat /\ a <= 12 * (i - 1)
    BY <1>2
  <2>2. b \in 1 .. 10 /\ c \in 0 .. 1 /\ d \in 0 .. 1 /\ (i = size => d = 0)
    BY <1>1
  <2>. HIDE DEF a, b, c, d, size
  <2>. QED
    BY <1>2, <2>1, <2>2, ComponentRoom
<1>. HIDE DEF number, mark, slash
<1>6. /\ first \in Text /\ Len(first) = a + b
      /\ second \in Text /\ Len(second) = a + b + c
      /\ third \in Text /\ Len(third) = a + b + c + d
  BY <1>1, <1>4
<1>7. Paths!Printed(Whole(acc), number, Paths!PathTextSize) = Whole(first)
  BY <1>1, <1>5, PrintedWhole
<1>. HIDE DEF first
<1>8. Paths!PrintedIfAny(Whole(first), mark, Paths!PathTextSize) = Whole(second)
  <2>1. Len(first) + Len(mark) <= Paths!PathTextSize - 1
    BY <1>5, <1>6
  <2>. QED
    BY <1>1, <1>6, <2>1, PrintedWholeIfAny
<1>. HIDE DEF second
<1>9. Paths!PrintedIfAny(Whole(second), slash, Paths!PathTextSize) = Whole(third)
  <2>1. Len(second) + Len(slash) <= Paths!PathTextSize - 1
    BY <1>5, <1>6
  <2>. QED
    BY <1>1, <1>6, <2>1, PrintedWholeIfAny
<1>. HIDE DEF third
<1>10. Len(third) <= 12 * i
  BY <1>5, <1>6
<1>. QED
  BY <1>3, <1>7, <1>8, <1>9, <1>10 DEF third, second, first, number, mark, slash

\* The path that is confirmed on the screen is the path: bip32_path_format writes
\* every component of every path that bip32_path_read accepts, for all numbers of
\* 31 bits, and g_bip32_path holds them.
THEOREM PathIsShownWhole ==
    /\ InputOK => PathShownWhole
    /\ Spec => []PathShownWhole
<1>1. InputOK => PathShownWhole
  <2>. SUFFICES ASSUME InputOK, kind = "path",
                       NEW in_len \in 0 .. 4 * Len(input) + 2, Paths!PathRead(input, in_len)
                PROVE  Paths!PathFormat(input, Paths!PathTextSize) =
                           [ok |-> input # <<>>, text |-> PathText(input)[Len(input)]]
    BY DEF PathShownWhole
  <2>. DEFINE size == Len(input)
              texts == PathText(input)
              printing == Paths!Printing(input, Paths!PathTextSize)
              Turn(acc, i) == Paths!PrintedComponent(acc, input, i, Paths!PathTextSize)
              begin == [ok |-> TRUE, text |-> <<>>]
              IsPrinting(f) == f = [i \in 0 .. size |-> IF i = 0 THEN begin ELSE Turn(f[i - 1], i)]
              Short == {i \in 0 .. size : Len(texts[i]) <= 12 * i}
  <2>1. input \in Seq(Component)
    BY DEF InputOK
  <2>2. size \in 0 .. 5
    <3>1. size \in Nat
      BY <2>1, LenProperties
    <3>2. size <= 5
      BY DEF Paths!PathRead, Paths!MaxBip32Path
    <3>. HIDE DEF size
    <3>. QED
      BY <3>1, <3>2
  <2>3. /\ texts[0] = <<>>
        /\ \A i \in 0 .. size : texts[i] \in Text
        /\ \A i \in 1 .. size :
              texts[i] = texts[i - 1] \o Paths!Number(input, i) \o Paths!Mark(input, i)
                             \o Paths!Slash(input, i)
    BY <2>1, PathTextIs
  <2>4. printing = CHOOSE f : IsPrinting(f)
    BY DEF Paths!Printing
  <2>. HIDE DEF texts, printing
  <2>5. ASSUME NEW i \in 1 .. size, Len(texts[i - 1]) <= 12 * (i - 1)
        PROVE  Len(texts[i]) <= 12 * i /\ Turn(Whole(texts[i - 1]), i) = Whole(texts[i])
    <3>1. i - 1 \in 0 .. size
      BY <2>2
    <3>2. texts[i - 1] \in Text
      BY <2>3, <3>1
    <3>. QED
      BY <2>1, <2>2, <2>3, <2>5, <3>2, ComponentPrinted
  <2>. HIDE DEF Turn
  <2>6. 0 \in Short
    <3>1. Len(texts[0]) = 0 /\ 0 \in 0 .. size
      BY <2>2, <2>3
    <3>. QED
      BY <3>1
  <2>7. ASSUME NEW i \in 0 .. size - 1, i \in Short
        PROVE  i + 1 \in Short
    <3>1. i + 1 \in 1 .. size /\ i + 1 \in 0 .. size /\ i + 1 - 1 = i
      BY <2>2
    <3>2. Len(texts[i + 1]) <= 12 * (i + 1)
      BY <2>5, <2>7, <3>1
    <3>. QED
      BY <3>1, <3>2
  <2>8. \A i \in 0 .. size : i \in Short
    <3>. HIDE DEF Short
    <3>1. size \in Nat
      BY <2>2
    <3>. QED
      BY <2>6, <2>7, <3>1, NumbersUpTo
  <2>9. \A i \in 1 .. size : Turn(Whole(texts[i - 1]), i) = Whole(texts[i])
    <3>. TAKE i \in 1 .. size
    <3>1. i - 1 \in 0 .. size
      BY <2>2
    <3>. QED
      BY <2>5, <2>8, <3>1
  <2>. DEFINE expected == [i \in 0 .. size |-> Whole(texts[i])]
  <2>10. begin = Whole(texts[0])
    BY <2>3 DEF Whole
  <2>. HIDE DEF begin
  <2>11. IsPrinting(expected)
    <3>1. \A i \in 0 .. size : i # 0 => i \in 1 .. size /\ i - 1 \in 0 .. size
      BY <2>2
    <3>2. \A i \in 0 .. size :
             Whole(texts[i]) = IF i = 0 THEN begin ELSE Turn(expected[i - 1], i)
      BY <2>9, <2>10, <3>1
    <3>. QED
      BY <3>2
  <2>12. IsPrinting(printing)
    <3>. HIDE DEF IsPrinting, expected
    <3>. QED
      BY <2>4, <2>11
  <2>. DEFINE Done == {i \in 0 .. size : printing[i] = Whole(texts[i])}
  <2>13. 0 \in 0 .. size /\ \A i \in 1 .. size : i \in 0 .. size /\ i # 0
    BY <2>2
  <2>14. printing[0] = begin /\ \A i \in 1 .. size : printing[i] = Turn(printing[i - 1], i)
    BY <2>12, <2>13
  <2>. HIDE DEF IsPrinting
  <2>15. 0 \in Done
    BY <2>10, <2>13, <2>14
  <2>16. ASSUME NEW i \in 0 .. size - 1, i \in Done
         PROVE  i + 1 \in Done
    <3>1. i + 1 \in 1 .. size /\ i + 1 \in 0 .. size /\ i + 1 - 1 = i
      BY <2>2
    <3>2. printing[i + 1] = Turn(Whole(texts[i]), i + 1)
      BY <2>14, <2>16, <3>1
    <3>. QED
      BY <2>9, <3>1, <3>2
  <2>17. printing[size] = Whole(texts[size])
    <3>. HIDE DEF Done
    <3>1. size \in Nat /\ size \in 0 .. size
      BY <2>2
    <3>2. \A i \in 0 .. size : i \in Done
      BY <2>15, <2>16, <3>1, NumbersUpTo
    <3>. QED
      BY <3>1, <3>2 DEF Done
  <2>18. input = <<>> <=> size = 0
    BY <2>1, EmptySeq
  <2>19. CASE size = 0
    BY <2>3, <2>18, <2>19 DEF Paths!PathFormat, texts
  <2>20. CASE size # 0
    <3>1. ~(size > Paths!MaxBip32Path)
      <4>. HIDE DEF size
      <4>. QED
        BY <2>2 DEF Paths!MaxBip32Path
    <3>. QED
      BY <2>17, <2>18, <2>20, <3>1 DEF Paths!PathFormat, printing, texts, Whole
  <2>. QED
    BY <2>19, <2>20
<1>2. Spec => []PathShownWhole
  BY <1>1, Inputs, PTL
<1>. QED
  BY <1>1, <1>2

=============================================================================
