----------------------------- MODULE ExchangeProofs -----------------------------
(***************************************************************************)
(* What holds on every connection (Exchange), whatever the plans, the      *)
(* results of the services and the limits are.                             *)
(*                                                                         *)
(* The module goes from the cells to the state: numbers and bodies come    *)
(* back as they were written; requests and answers are read as they were   *)
(* meant; headers and frames are found where they were put and nowhere     *)
(* else, however the cells are cut, joined or dropped from the front; then *)
(* every step is reduced to what it does to the two streams of cells, one  *)
(* towards the server and one towards the client, each with what has been  *)
(* read of it in front; and each part of the invariant is shown to be kept *)
(* by those steps.                                                         *)
(*                                                                         *)
(* Folds, digits and flattened lists are recursive functions.  What holds  *)
(* for all their arguments is shown without the induction theorems of the  *)
(* library, from the least counterexample (Least, Upward, Recursion).      *)
(***************************************************************************)
EXTENDS Exchange, SequenceTheorems, WellFoundedInduction, TLAPS

-------------------------------------------------------------------------------
(* Least counterexamples, and functions that are defined by recursion.       *)

LEMMA Least ==
  ASSUME NEW T, T \subseteq Nat, T # {}
  PROVE  \E m \in T : \A k \in T : m <= k
<1> DEFINE R == {ss \in Nat \X Nat : ss[1] < ss[2]}
<1>1. IsWellFoundedOn(R, Nat)
  BY NatLessThanWellFounded DEF OpToRel
<1>2. PICK m \in T : \A y \in T : ~(<<y, m>> \in R)
  BY <1>1, WFMin
<1>3. \A k \in T : ~(k < m)
  BY <1>2
<1> QED
  BY <1>3

(* What holds at 0, and after a number where it holds at that number. *)
LEMMA Upward ==
  ASSUME NEW n \in Nat, NEW T, 0 \in T, \A i \in 0 .. n - 1 : i \in T => i + 1 \in T
  PROVE  0 .. n \subseteq T
<1> DEFINE Bad == {i \in 0 .. n : i \notin T}
<1>1. SUFFICES ASSUME Bad # {} PROVE FALSE
  OBVIOUS
<1>2. Bad \subseteq Nat
  OBVIOUS
<1> HIDE DEF Bad
<1>3. PICK m \in Bad : \A k \in Bad : m <= k
  BY <1>1, <1>2, Least
<1>4. m \in 0 .. n /\ m \notin T /\ m # 0
  BY <1>3 DEF Bad
<1>5. m - 1 \in 0 .. n - 1 /\ m - 1 \in 0 .. n /\ ~(m <= m - 1)
  BY <1>4
<1>6. m - 1 \notin Bad
  BY <1>3, <1>5
<1>7. m - 1 \in T
  BY <1>5, <1>6 DEF Bad
<1>8. (m - 1) + 1 \in T
  BY <1>5, <1>7
<1>9. (m - 1) + 1 = m
  BY <1>4
<1> QED
  BY <1>4, <1>8, <1>9

(* A function that is defined from its value before exists. *)
Unfolds(f, n, a, step) == f = [i \in 0 .. n |-> IF i = 0 THEN a ELSE step[i][f[i - 1]]]

LEMMA Recursion ==
  ASSUME NEW n \in Nat, NEW S, NEW a \in S, NEW step \in [1 .. n -> [S -> S]]
  PROVE  \E f \in [0 .. n -> S] : Unfolds(f, n, a, step)
<1> DEFINE Upto(m, f) == f[0] = a /\ \A i \in 1 .. m : f[i] = step[i][f[i - 1]]
           T == {m \in 0 .. n : \E f \in [0 .. n -> S] : Upto(m, f)}
<1>1. 0 \in T
  <2>1. [i \in 0 .. n |-> a] \in [0 .. n -> S] /\ Upto(0, [i \in 0 .. n |-> a])
    OBVIOUS
  <2>2. 0 \in 0 .. n
    OBVIOUS
  <2> QED
    BY <2>1, <2>2
<1>2. ASSUME NEW m \in 0 .. n - 1, m \in T PROVE m + 1 \in T
  <2>1. PICK f \in [0 .. n -> S] : Upto(m, f)
    BY <1>2
  <2> DEFINE g == [i \in 0 .. n |-> IF i = m + 1 THEN step[m + 1][f[m]] ELSE f[i]]
  <2>2. m + 1 \in 1 .. n /\ m \in 0 .. n
    OBVIOUS
  <2>3. step[m + 1] \in [S -> S] /\ f[m] \in S
    BY <2>2
  <2>4. step[m + 1][f[m]] \in S
    BY <2>3
  <2>5. g \in [0 .. n -> S]
    BY <2>4
  <2>6. \A i \in 0 .. m : g[i] = f[i]
    <3>1. \A i \in 0 .. m : i \in 0 .. n /\ i # m + 1
      OBVIOUS
    <3> QED
      BY <3>1
  <2>7. g[m + 1] = step[m + 1][g[m]]
    <3>1. g[m + 1] = step[m + 1][f[m]]
      BY <2>2
    <3>2. m \in 0 .. m
      OBVIOUS
    <3>3. g[m] = f[m]
      BY <2>6, <3>2
    <3> HIDE DEF g
    <3> QED
      BY <3>1, <3>3
  <2> HIDE DEF g
  <2>8. Upto(m + 1, g)
    <3>1. g[0] = a
      BY <2>1, <2>6
    <3>2. ASSUME NEW i \in 1 .. m + 1 PROVE g[i] = step[i][g[i - 1]]
      <4>1. CASE i = m + 1
        <5>1. i - 1 = m
          BY <4>1
        <5> QED
          BY <2>7, <4>1, <5>1
      <4>2. CASE i # m + 1
        <5>1. i \in 1 .. m /\ i \in 0 .. m /\ i - 1 \in 0 .. m
          BY <4>2
        <5>2. f[i] = step[i][f[i - 1]]
          BY <2>1, <5>1
        <5> QED
          BY <2>6, <5>1, <5>2
      <4> QED
        BY <4>1, <4>2
    <3> QED
      BY <3>1, <3>2
  <2> QED
    BY <2>2, <2>5, <2>8
<1>3. 0 .. n \subseteq T
  <2> HIDE DEF T
  <2> QED
    BY <1>1, <1>2, Upward
<1>4. PICK f \in [0 .. n -> S] : Upto(n, f)
  BY <1>3
<1>5. f = [i \in 0 .. n |-> IF i = 0 THEN a ELSE step[i][f[i - 1]]]
  <2>1. \A i \in 0 .. n : f[i] = IF i = 0 THEN a ELSE step[i][f[i - 1]]
    <3>1. \A i \in 0 .. n : i # 0 => i \in 1 .. n
      OBVIOUS
    <3> QED
      BY <1>4, <3>1
  <2> QED
    BY <2>1
<1> QED
  BY <1>5 DEF Unfolds

LEMMA SameValues ==
  ASSUME NEW n \in Nat, NEW f, NEW g, f[0] = g[0],
         \A i \in 0 .. n - 1 : f[i] = g[i] => f[i + 1] = g[i + 1]
  PROVE  \A i \in 0 .. n : f[i] = g[i]
<1> DEFINE T == {i \in 0 .. n : f[i] = g[i]}
<1>1. 0 \in T
  OBVIOUS
<1>2. ASSUME NEW i \in 0 .. n - 1, i \in T PROVE i + 1 \in T
  <2>1. i + 1 \in 0 .. n
    OBVIOUS
  <2> QED
    BY <1>2, <2>1
<1>3. 0 .. n \subseteq T
  <2> HIDE DEF T
  <2> QED
    BY <1>1, <1>2, Upward
<1> QED
  BY <1>3

-------------------------------------------------------------------------------
(* Numbers. *)

LEMMA BaseIs == Base \in Nat /\ Base >= 1 /\ Base >= 100 /\ Base <= 65536
BY CodecAssumption

LEMMA DivideOnce ==
  ASSUME NEW b \in Nat, b >= 1, NEW n \in Nat
  PROVE  \E q \in Nat, r \in 0 .. b - 1 : q = n \div b /\ r = n % b /\ n = b * q + r
<1>1. n \div b \in Nat /\ n % b \in 0 .. b - 1
  OBVIOUS
<1>2. PICK q \in Nat : q = n \div b
  BY <1>1
<1>3. PICK r \in 0 .. b - 1 : r = n % b
  BY <1>1
<1>4. n = b * q + r
  BY <1>2, <1>3
<1> QED
  BY <1>2, <1>3, <1>4

LEMMA Quotient ==
  ASSUME NEW b \in Nat, b >= 1, NEW m \in Nat, NEW n \in 0 .. b * m - 1
  PROVE  n \div b \in 0 .. m - 1
<1>1. b * m \in Nat
  OBVIOUS
<1>2. n \in Nat
  OBVIOUS
<1>3. PICK q \in Nat, r \in 0 .. b - 1 : q = n \div b /\ n = b * q + r
  BY <1>2, DivideOnce
<1>4. ASSUME q >= m PROVE FALSE
  <2>1. PICK d \in Nat : q = m + d
    <3>1. q - m \in Nat /\ q = m + (q - m)
      BY <1>4
    <3> QED
      BY <3>1
  <2>2. b * q = b * m + b * d
    BY <2>1
  <2>3. b * d \in Nat
    OBVIOUS
  <2>4. b * q \in Nat
    OBVIOUS
  <2>5. n < b * m
    BY <1>1
  <2> QED
    BY <1>1, <1>3, <2>2, <2>3, <2>4, <2>5
<1> QED
  BY <1>3, <1>4

LEMMA DigitsAre ==
  ASSUME NEW n \in Nat, NEW w \in Nat
  PROVE  \E h \in [0 .. w -> Nat] :
           /\ h[0] = n /\ \A i \in 1 .. w : h[i] = h[i - 1] \div Base
           /\ Digits(n, w) = [i \in 1 .. w |-> h[w - i] % Base]
<1>0. Base \in Nat /\ Base >= 1
  BY BaseIs
<1> DEFINE step == [i \in 1 .. w |-> [x \in Nat |-> x \div Base]]
           Is(h) == h = [i \in 0 .. w |-> IF i = 0 THEN n ELSE h[i - 1] \div Base]
           high == CHOOSE h : Is(h)
<1>1. step \in [1 .. w -> [Nat -> Nat]]
  BY <1>0
<1>2. PICK h \in [0 .. w -> Nat] : Unfolds(h, w, n, step)
  <2> HIDE DEF step
  <2> QED
    BY <1>1, Recursion
<1>3. \A i \in 1 .. w : step[i][h[i - 1]] = h[i - 1] \div Base
  <2>1. \A i \in 1 .. w : h[i - 1] \in Nat
    <3>1. \A i \in 1 .. w : i - 1 \in 0 .. w
      OBVIOUS
    <3> QED
      BY <3>1
  <2> QED
    BY <2>1
<1>4. \A i \in 0 .. w : i = 0 \/ i \in 1 .. w
  OBVIOUS
<1>5. Is(h)
  <2> HIDE DEF step
  <2>1. \A i \in 0 .. w :
          (IF i = 0 THEN n ELSE step[i][h[i - 1]]) = IF i = 0 THEN n ELSE h[i - 1] \div Base
    BY <1>3, <1>4
  <2> QED
    BY <1>2, <2>1 DEF Unfolds
<1>6. Is(high)
  <2> HIDE DEF Is
  <2> QED
    BY <1>5
<1>7. Digits(n, w) = [i \in 1 .. w |-> high[w - i] % Base]
  BY Zenon DEF Digits
<1>8. high[0] = n /\ \A i \in 1 .. w : high[i] = high[i - 1] \div Base
  <2> HIDE DEF high
  <2>1. \A i \in 0 .. w : high[i] = IF i = 0 THEN n ELSE high[i - 1] \div Base
    BY <1>6
  <2>2. 0 \in 0 .. w /\ \A i \in 1 .. w : i \in 0 .. w /\ i # 0
    OBVIOUS
  <2> QED
    BY <2>1, <2>2
<1>9. high = h
  <2> HIDE DEF high
  <2> DEFINE T == {i \in 0 .. w : high[i] = h[i]}
  <2>1. \A i \in 0 .. w : h[i] = IF i = 0 THEN n ELSE h[i - 1] \div Base
    BY <1>5
  <2>2. \A i \in 0 .. w : high[i] = IF i = 0 THEN n ELSE high[i - 1] \div Base
    BY <1>6
  <2>3. 0 \in T
    BY <2>1, <2>2
  <2>4. ASSUME NEW i \in 0 .. w - 1, i \in T PROVE i + 1 \in T
    <3>1. i + 1 \in 0 .. w /\ i + 1 # 0 /\ (i + 1) - 1 = i
      OBVIOUS
    <3> QED
      BY <2>1, <2>2, <2>4, <3>1
  <2>5. \A i \in 0 .. w : i \in T
    <3> HIDE DEF T
    <3>1. 0 .. w \subseteq T
      BY <2>3, <2>4, Upward
    <3> QED
      BY <3>1
  <2>6. \A i \in 0 .. w : high[i] = h[i]
    BY <2>5
  <2> QED
    BY <2>6, <1>5, <1>6
<1> QED
  <2> HIDE DEF high
  <2> QED
    BY <1>7, <1>8, <1>9

LEMMA NumberOfDigits ==
  ASSUME NEW w \in Nat, NEW h \in [0 .. w -> Nat], \A i \in 1 .. w : h[i] = h[i - 1] \div Base,
         h[w] = 0
  PROVE  LET cells == [i \in 1 .. w |-> h[w - i] % Base] IN
         cells \in Seq(0 .. Base - 1) /\ Len(cells) = w /\ Number(cells) = h[0]
<1>0. Base \in Nat /\ Base >= 1
  BY BaseIs
<1> DEFINE cells == [i \in 1 .. w |-> h[w - i] % Base]
<1>1. \A i \in 1 .. w : w - i \in 0 .. w /\ h[w - i] \in Nat /\ h[w - i] % Base \in 0 .. Base - 1
  <2>1. \A i \in 1 .. w : w - i \in 0 .. w
    OBVIOUS
  <2>2. \A i \in 1 .. w : h[w - i] \in Nat
    BY <2>1
  <2>3. \A x \in Nat : x % Base \in 0 .. Base - 1
    BY <1>0
  <2> QED
    BY <2>1, <2>2, <2>3
<1>2. cells \in Seq(0 .. Base - 1) /\ Len(cells) = w /\ \A i \in 1 .. w : cells[i] = h[w - i] % Base
  BY <1>1
<1> HIDE DEF cells
<1> DEFINE Is(v) == v = [i \in 0 .. Len(cells) |-> IF i = 0 THEN 0 ELSE Base * v[i - 1] + cells[i]]
           value == CHOOSE v : Is(v)
           back == [i \in 0 .. w |-> h[w - i]]
<1>3. Number(cells) = value[Len(cells)]
  BY Zenon DEF Number
<1>4. back[0] = 0
  BY DEF back
<1>5. ASSUME NEW i \in 1 .. w PROVE back[i] = Base * back[i - 1] + cells[i]
  <2>1. w - i \in 0 .. w /\ i \in 0 .. w /\ i - 1 \in 0 .. w /\ w - i + 1 \in 1 .. w
        /\ (w - i + 1) - 1 = w - i /\ w - (i - 1) = w - i + 1
    OBVIOUS
  <2>2. PICK x \in Nat : x = h[w - i]
    BY <2>1
  <2>3. back[i] = x /\ back[i - 1] = h[w - i + 1]
    BY <2>1, <2>2
  <2>4. h[w - i + 1] = x \div Base
    BY <2>1, <2>2
  <2>5. cells[i] = x % Base
    BY <1>2, <2>2
  <2>6. PICK q \in Nat, r \in 0 .. Base - 1 : q = x \div Base /\ r = x % Base /\ x = Base * q + r
    BY <1>0, DivideOnce
  <2>7. back[i - 1] = q /\ cells[i] = r
    BY <2>3, <2>4, <2>5, <2>6
  <2> HIDE DEF back
  <2> QED
    BY <2>3, <2>6, <2>7
<1>6. back = [i \in 0 .. w |-> back[i]]
  OBVIOUS
<1> HIDE DEF back
<1>7. Is(back)
  <2>1. \A i \in 0 .. w : i = 0 \/ i \in 1 .. w
    OBVIOUS
  <2>2. \A i \in 0 .. w : back[i] = IF i = 0 THEN 0 ELSE Base * back[i - 1] + cells[i]
    BY <1>4, <1>5, <2>1
  <2> QED
    BY <1>2, <1>6, <2>2
<1>8. Is(value)
  <2> HIDE DEF Is
  <2> QED
    BY <1>7
<1> HIDE DEF value
<1>9. \A i \in 0 .. w : value[i] = back[i]
  <2> DEFINE T == {i \in 0 .. w : value[i] = back[i]}
  <2>1. \A i \in 0 .. w : value[i] = IF i = 0 THEN 0 ELSE Base * value[i - 1] + cells[i]
    BY <1>2, <1>8
  <2>2. 0 \in T
    BY <1>4, <2>1
  <2>3. ASSUME NEW i \in 0 .. w - 1, i \in T PROVE i + 1 \in T
    <3>1. i + 1 \in 0 .. w /\ i + 1 \in 1 .. w /\ i + 1 # 0 /\ (i + 1) - 1 = i
      OBVIOUS
    <3>2. value[i + 1] = Base * value[i] + cells[i + 1]
      BY <2>1, <3>1
    <3>3. back[i + 1] = Base * back[i] + cells[i + 1]
      BY <1>5, <3>1
    <3> QED
      BY <2>3, <3>1, <3>2, <3>3
  <2>4. 0 .. w \subseteq T
    <3> HIDE DEF T
    <3> QED
      BY <2>2, <2>3, Upward
  <2> QED
    BY <2>4
<1>10. w \in 0 .. w /\ back[w] = h[0]
  BY DEF back
<1> QED
  BY <1>2, <1>3, <1>9, <1>10 DEF cells

Kinds == {"u16", "u32", "u64", "str"}

(* What AppendUInt16, 32 and 64 write, ReadUInt16, 32 and 64 read back: the *)
(* digits of every number that fits its width spell that number.            *)
THEOREM NumberBack ==
  ASSUME NEW kind \in Kinds \ {"str"}, NEW n \in Values(kind)
  PROVE  /\ Width(kind) \in {1, 2, 4} /\ Digits(n, Width(kind)) \in Seq(0 .. Base - 1)
         /\ Len(Digits(n, Width(kind))) = Width(kind) /\ Number(Digits(n, Width(kind))) = n
<1>0. Base \in Nat /\ Base >= 1
  BY BaseIs
<1>1. Base * 1 = Base /\ Base * Base \in Nat /\ Base * (Base * Base) \in Nat
      /\ Base * (Base * (Base * Base)) = Base * Base * Base * Base
  BY <1>0
<1>2. ASSUME NEW w \in {1, 2, 4}, n \in Nat,
             w = 1 => n \in 0 .. Base * 1 - 1,
             w = 2 => n \in 0 .. Base * Base - 1,
             w = 4 => n \in 0 .. Base * (Base * (Base * Base)) - 1
      PROVE  /\ Digits(n, w) \in Seq(0 .. Base - 1) /\ Len(Digits(n, w)) = w
             /\ Number(Digits(n, w)) = n
  <2>0. w \in Nat
    OBVIOUS
  <2>1. PICK h \in [0 .. w -> Nat] :
           /\ h[0] = n /\ \A i \in 1 .. w : h[i] = h[i - 1] \div Base
           /\ Digits(n, w) = [i \in 1 .. w |-> h[w - i] % Base]
    BY <1>2, <2>0, DigitsAre
  <2>2. \A m \in Nat : \A x \in 0 .. Base * m - 1 : x \div Base \in 0 .. m - 1
    BY <1>0, Quotient
  <2>3. h[w] = 0
    <3>1. CASE w = 1
      <4>1. 1 \in 1 .. w /\ 1 - 1 = 0
        BY <3>1
      <4>2. h[1] = n \div Base
        BY <2>1, <4>1
      <4>3. n \in 0 .. Base * 1 - 1
        BY <1>2, <3>1
      <4>4. n \div Base \in 0 .. 1 - 1
        BY <2>2, <4>3, Zenon
      <4> QED
        BY <3>1, <4>2, <4>4
    <3>2. CASE w = 2
      <4>1. 1 \in 1 .. w /\ 2 \in 1 .. w /\ 1 - 1 = 0 /\ 2 - 1 = 1
        BY <3>2
      <4>2. h[1] = n \div Base /\ h[2] = h[1] \div Base
        BY <2>1, <4>1
      <4>3. n \in 0 .. Base * Base - 1
        BY <1>2, <3>2
      <4>4. n \div Base \in 0 .. Base - 1
        BY <1>0, <2>2, <4>3, Zenon
      <4>5. h[1] \in 0 .. Base * 1 - 1
        BY <1>1, <4>2, <4>4
      <4>6. h[1] \div Base \in 0 .. 1 - 1
        BY <2>2, <4>5, Zenon
      <4> QED
        BY <3>2, <4>2, <4>6
    <3>3. CASE w = 4
      <4>1. 1 \in 1 .. w /\ 2 \in 1 .. w /\ 3 \in 1 .. w /\ 4 \in 1 .. w
            /\ 1 - 1 = 0 /\ 2 - 1 = 1 /\ 3 - 1 = 2 /\ 4 - 1 = 3
        BY <3>3
      <4>2. h[1] = n \div Base /\ h[2] = h[1] \div Base /\ h[3] = h[2] \div Base
            /\ h[4] = h[3] \div Base
        BY <2>1, <4>1
      <4>3. n \in 0 .. Base * (Base * (Base * Base)) - 1
        BY <1>2, <3>3
      <4>4. n \div Base \in 0 .. Base * (Base * Base) - 1
        BY <1>1, <2>2, <4>3, Zenon
      <4>5. h[1] \in 0 .. Base * (Base * Base) - 1
        BY <4>2, <4>4, Zenon
      <4>6. h[1] \div Base \in 0 .. Base * Base - 1
        BY <1>1, <2>2, <4>5, Zenon
      <4>7. h[2] \in 0 .. Base * Base - 1
        BY <4>2, <4>6, Zenon
      <4>8. h[2] \div Base \in 0 .. Base - 1
        BY <1>0, <2>2, <4>7, Zenon
      <4>9. h[3] \in 0 .. Base * 1 - 1
        BY <1>1, <4>2, <4>8
      <4>10. h[3] \div Base \in 0 .. 1 - 1
        BY <2>2, <4>9, Zenon
      <4> QED
        BY <3>3, <4>2, <4>10
    <3> QED
      BY <3>1, <3>2, <3>3
  <2>4. LET cells == [i \in 1 .. w |-> h[w - i] % Base] IN
        cells \in Seq(0 .. Base - 1) /\ Len(cells) = w /\ Number(cells) = h[0]
    BY <2>0, <2>1, <2>3, NumberOfDigits
  <2> QED
    BY <2>1, <2>4, Zenon
<1>3. CASE kind = "u16"
  <2>1. Width(kind) = 1 /\ n \in 0 .. Base * 1 - 1 /\ n \in Nat
    BY <1>0, <1>1, <1>3 DEF Width, Values
  <2> QED
    BY <1>2, <2>1
<1>4. CASE kind = "u32"
  <2>1. Width(kind) = 2 /\ n \in 0 .. Base * Base - 1 /\ n \in Nat
    BY <1>0, <1>1, <1>4 DEF Width, Values
  <2> QED
    BY <1>2, <2>1
<1>5. CASE kind = "u64"
  <2>1. Width(kind) = 4 /\ n \in 0 .. Base * (Base * (Base * Base)) - 1 /\ n \in Nat
    BY <1>0, <1>1, <1>5 DEF Width, Values
  <2> QED
    BY <1>2, <2>1
<1> QED
  BY <1>3, <1>4, <1>5 DEF Kinds

-------------------------------------------------------------------------------
(* Sequences behind each other. *)

LEMMA FlatIs ==
  ASSUME NEW S, NEW items \in Seq(Seq(S))
  PROVE  \E u \in [0 .. Len(items) -> Seq(S)] :
           /\ u[0] = <<>> /\ \A i \in 1 .. Len(items) : u[i] = u[i - 1] \o items[i]
           /\ Flat(items) = u[Len(items)]
<1> DEFINE n == Len(items)
           step == [i \in 1 .. n |-> [x \in Seq(S) |-> x \o items[i]]]
           Is(f) == f = [i \in 0 .. Len(items) |-> IF i = 0 THEN <<>> ELSE f[i - 1] \o items[i]]
           upTo == CHOOSE f : Is(f)
<1>0. n \in Nat /\ \A i \in 1 .. n : items[i] \in Seq(S)
  OBVIOUS
<1>1. step \in [1 .. n -> [Seq(S) -> Seq(S)]]
  BY <1>0
<1>2. PICK u \in [0 .. n -> Seq(S)] : Unfolds(u, n, <<>>, step)
  <2> HIDE DEF step, n
  <2>1. <<>> \in Seq(S)
    OBVIOUS
  <2> QED
    BY <1>0, <1>1, <2>1, Recursion
<1>3. \A i \in 0 .. n : u[i] = IF i = 0 THEN <<>> ELSE step[i][u[i - 1]]
  <2> HIDE DEF step
  <2> QED
    BY <1>2 DEF Unfolds
<1>4. \A i \in 0 .. n : i = 0 \/ (i \in 1 .. n /\ i - 1 \in 0 .. n)
  BY <1>0
<1>5. \A i \in 0 .. n : u[i] = IF i = 0 THEN <<>> ELSE u[i - 1] \o items[i]
  BY <1>3, <1>4
<1>6. Is(u)
  BY <1>2, <1>5
<1>7. Is(upTo)
  <2> HIDE DEF Is
  <2> QED
    BY <1>6
<1>8. Flat(items) = upTo[n]
  BY Zenon DEF Flat
<1> HIDE DEF upTo
<1>9. \A i \in 0 .. n : upTo[i] = IF i = 0 THEN <<>> ELSE upTo[i - 1] \o items[i]
  BY <1>7
<1>10. \A i \in 0 .. n : upTo[i] = u[i]
  <2>0. 0 \in 0 .. n
    BY <1>0
  <2>1. upTo[0] = u[0]
    BY <1>5, <1>9, <2>0
  <2>2. ASSUME NEW i \in 0 .. n - 1, upTo[i] = u[i] PROVE upTo[i + 1] = u[i + 1]
    <3>1. i + 1 \in 0 .. n /\ i + 1 # 0 /\ (i + 1) - 1 = i
      BY <1>0
    <3>2. upTo[i + 1] = upTo[i] \o items[i + 1] /\ u[i + 1] = u[i] \o items[i + 1]
      BY <1>5, <1>9, <3>1
    <3> QED
      BY <2>2, <3>2
  <2> HIDE DEF n
  <2> QED
    BY <1>0, <2>1, <2>2, SameValues
<1>11. Flat(items) = u[n]
  <2> HIDE DEF n
  <2>1. n \in 0 .. n
    BY <1>0
  <2> QED
    BY <1>8, <1>10, <2>1
<1>12. u[0] = <<>> /\ \A i \in 1 .. n : u[i] = u[i - 1] \o items[i]
  <2>1. \A i \in 1 .. n : i \in 0 .. n /\ i # 0
    OBVIOUS
  <2>2. 0 \in 0 .. n
    BY <1>0
  <2> HIDE DEF n
  <2> QED
    BY <1>5, <2>1, <2>2
<1> QED
  BY <1>11, <1>12

(* The parts of a sequence that was put together. *)
LEMMA Joined ==
  ASSUME NEW S, NEW a \in Seq(S), NEW b \in Seq(S)
  PROVE  /\ a \o b \in Seq(S) /\ Len(a \o b) = Len(a) + Len(b)
         /\ \A i \in 1 .. Len(a) : (a \o b)[i] = a[i]
         /\ \A i \in 1 .. Len(b) : (a \o b)[Len(a) + i] = b[i]
BY ConcatProperties

LEMMA Prefixed ==
  ASSUME NEW S, NEW x \in S, NEW v \in Seq(S)
  PROVE  /\ <<x>> \o v \in Seq(S) /\ Len(<<x>> \o v) = 1 + Len(v) /\ (<<x>> \o v)[1] = x
         /\ \A j \in 1 .. Len(v) : (<<x>> \o v)[1 + j] = v[j]
<1>1. PICK h : h = <<x>>
  OBVIOUS
<1>2. h \in Seq(S) /\ Len(h) = 1 /\ h[1] = x /\ 1 \in 1 .. Len(h)
  BY <1>1
<1>3. /\ h \o v \in Seq(S) /\ Len(h \o v) = Len(h) + Len(v)
      /\ \A i \in 1 .. Len(h) : (h \o v)[i] = h[i]
      /\ \A i \in 1 .. Len(v) : (h \o v)[Len(h) + i] = v[i]
  BY <1>2, Joined
<1> QED
  BY <1>1, <1>2, <1>3

(* Every item is where the ones before it end. *)
Placed(u, n, items) ==
  \A i \in 1 .. n :
    /\ Len(u[i - 1]) + Len(items[i]) <= Len(u[n]) /\ Len(u[i]) = Len(u[i - 1]) + Len(items[i])
    /\ \A j \in 1 .. Len(items[i]) : u[n][Len(u[i - 1]) + j] = items[i][j]

LEMMA FlatPlaces ==
  ASSUME NEW S, NEW n \in Nat, NEW items \in [1 .. n -> Seq(S)], NEW u \in [0 .. n -> Seq(S)],
         u[0] = <<>>, \A i \in 1 .. n : u[i] = u[i - 1] \o items[i]
  PROVE  Placed(u, n, items)
<1>1. ASSUME NEW i \in 1 .. n
      PROVE  /\ u[i - 1] \in Seq(S) /\ items[i] \in Seq(S) /\ u[i] \in Seq(S)
             /\ Len(u[i]) = Len(u[i - 1]) + Len(items[i])
             /\ \A j \in 1 .. Len(u[i - 1]) : u[i][j] = u[i - 1][j]
             /\ \A j \in 1 .. Len(items[i]) : u[i][Len(u[i - 1]) + j] = items[i][j]
  <2>1. i - 1 \in 0 .. n /\ i \in 0 .. n
    OBVIOUS
  <2>2. u[i - 1] \in Seq(S) /\ items[i] \in Seq(S)
    BY <2>1
  <2>3. u[i] = u[i - 1] \o items[i]
    OBVIOUS
  <2> QED
    BY <2>1, <2>2, <2>3, Joined
<1> SUFFICES ASSUME NEW i \in 1 .. n
             PROVE  /\ Len(u[i - 1]) + Len(items[i]) <= Len(u[n])
                    /\ Len(u[i]) = Len(u[i - 1]) + Len(items[i])
                    /\ \A j \in 1 .. Len(items[i]) : u[n][Len(u[i - 1]) + j] = items[i][j]
  BY DEF Placed
<1> DEFINE Keeps(m) == /\ Len(u[i]) <= Len(u[m])
                       /\ \A j \in 1 .. Len(u[i]) : u[m][j] = u[i][j]
           T == {d \in 0 .. n - i : Keeps(i + d)}
<1>2. 0 \in T
  <2>1. i + 0 = i /\ 0 \in 0 .. n - i
    OBVIOUS
  <2>2. u[i] \in Seq(S)
    BY <1>1
  <2>3. Len(u[i]) \in Nat
    BY <2>2
  <2> QED
    BY <2>1, <2>3
<1>3. ASSUME NEW d \in 0 .. n - i - 1, d \in T PROVE d + 1 \in T
  <2>1. PICK m \in 1 .. n : m = i + d + 1
    <3>1. i + d + 1 \in 1 .. n
      OBVIOUS
    <3> QED
      BY <3>1
  <2>2. m - 1 = i + d /\ i + (d + 1) = m /\ d + 1 \in 0 .. n - i
    BY <2>1
  <2>3. Keeps(m - 1)
    BY <1>3, <2>2
  <2>4. Len(u[i]) \in Nat /\ Len(u[m - 1]) \in Nat /\ Len(items[m]) \in Nat
    <3>1. u[i] \in Seq(S) /\ u[m - 1] \in Seq(S) /\ items[m] \in Seq(S)
      BY <1>1
    <3> QED
      BY <3>1, LenProperties, Zenon
  <2>5. Len(u[m]) = Len(u[m - 1]) + Len(items[m])
        /\ \A j \in 1 .. Len(u[m - 1]) : u[m][j] = u[m - 1][j]
    BY <1>1
  <2>6. Len(u[i]) <= Len(u[m])
    BY <2>3, <2>4, <2>5
  <2>7. ASSUME NEW j \in 1 .. Len(u[i]) PROVE u[m][j] = u[i][j]
    <3>1. j \in 1 .. Len(u[m - 1])
      BY <2>3, <2>4
    <3> QED
      BY <2>3, <2>5, <3>1
  <2>8. Keeps(m)
    BY <2>6, <2>7
  <2> HIDE DEF Keeps
  <2> QED
    BY <2>2, <2>8
<1>4. Keeps(n)
  <2>1. n - i \in Nat /\ n - i \in 0 .. n - i /\ i + (n - i) = n
    OBVIOUS
  <2> HIDE DEF Keeps
  <2>2. \A d \in 0 .. (n - i) - 1 : d \in T => d + 1 \in T
    BY <1>3
  <2>3. 0 .. n - i \subseteq T
    <3> HIDE DEF T
    <3> QED
      BY <1>2, <2>1, <2>2, Upward
  <2>4. Keeps(i + (n - i))
    BY <2>1, <2>3
  <2> QED
    BY <2>1, <2>4
<1>5. Len(u[i - 1]) \in Nat /\ Len(items[i]) \in Nat /\ Len(u[i]) = Len(u[i - 1]) + Len(items[i])
  <2>1. u[i - 1] \in Seq(S) /\ items[i] \in Seq(S)
    BY <1>1
  <2>2. Len(u[i - 1]) \in Nat /\ Len(items[i]) \in Nat
    BY <2>1, LenProperties, Zenon
  <2> QED
    BY <1>1, <2>2
<1>6. ASSUME NEW j \in 1 .. Len(items[i]) PROVE u[n][Len(u[i - 1]) + j] = items[i][j]
  <2>1. Len(u[i - 1]) + j \in 1 .. Len(u[i])
    BY <1>5
  <2>2. u[n][Len(u[i - 1]) + j] = u[i][Len(u[i - 1]) + j]
    BY <1>4, <2>1
  <2> QED
    BY <1>1, <2>2
<1> QED
  BY <1>4, <1>5, <1>6

(* Three pieces, joined from either end. *)
SameWhole(a, b, c) == (a \o b) \o c = a \o (b \o c)

LEMMA Regrouped ==
  ASSUME NEW S, NEW a \in Seq(S), NEW b \in Seq(S), NEW c \in Seq(S)
  PROVE  SameWhole(a, b, c)
BY ConcatAssociative DEF SameWhole

(* Cells that stand in a sequence, cut out of it. *)
LEMMA CutOut ==
  ASSUME NEW S, NEW body \in Seq(S), NEW c \in Seq(S), NEW at \in Nat \ {0},
         at - 1 + Len(c) <= Len(body), \A j \in 1 .. Len(c) : body[at + j - 1] = c[j]
  PROVE  SubSeq(body, at, at + Len(c) - 1) = c
<1>0. Len(c) \in Nat /\ Len(body) \in Nat
  OBVIOUS
<1>1. PICK d : d = SubSeq(body, at, at + Len(c) - 1)
  OBVIOUS
<1>2. d \in Seq(S) /\ Len(d) = Len(c) /\ \A j \in 1 .. Len(c) : d[j] = body[at + j - 1]
  <2>1. \A i \in at .. at + Len(c) - 1 : i \in 1 .. Len(body)
    BY <1>0
  <2>2. \A i \in at .. at + Len(c) - 1 : body[i] \in S
    BY <2>1, ElementOfSeq
  <2>3. at \in Int /\ at + Len(c) - 1 \in Int
    BY <1>0
  <2>4. /\ d \in Seq(S)
        /\ Len(d) = IF at <= at + Len(c) - 1 THEN at + Len(c) - 1 - at + 1 ELSE 0
        /\ \A i \in 1 .. at + Len(c) - 1 - at + 1 : d[i] = body[at + i - 1]
    BY <1>1, <2>2, <2>3, SubSeqProperties
  <2>5. at + Len(c) - 1 - at + 1 = Len(c)
    BY <1>0
  <2> QED
    BY <1>0, <2>4, <2>5
<1>3. d = c
  BY <1>2, SeqEqual
<1> QED
  BY <1>1, <1>3

(* The same with what is to be cut out as one fact. *)
StandsAt(body, at, c) ==
  /\ at \in Nat \ {0} /\ at - 1 + Len(c) <= Len(body)
  /\ \A j \in 1 .. Len(c) : body[at + j - 1] = c[j]

LEMMA CutStanding ==
  ASSUME NEW S, NEW body \in Seq(S), NEW c \in Seq(S), NEW at, StandsAt(body, at, c)
  PROVE  SubSeq(body, at, at + Len(c) - 1) = c
<1>1. /\ at \in Nat \ {0} /\ at - 1 + Len(c) <= Len(body)
      /\ \A j \in 1 .. Len(c) : body[at + j - 1] = c[j]
  BY DEF StandsAt
<1> QED
  BY <1>1, CutOut

FieldIs(kind, body, at, next, value) ==
  Field(kind, body, at) = [ok |-> TRUE, next |-> next, value |-> value]

(* A field that was written is read back where it stands. *)
LEMMA FieldReads ==
  ASSUME NEW kind \in Kinds, NEW value \in Values(kind), Encodable(kind, value)
  PROVE  /\ Cells(kind, value) \in Seq(0 .. Base - 1) /\ Len(Cells(kind, value)) >= 1
         /\ \A body \in Seq(0 .. Base - 1) : \A at \in Nat \ {0} :
              /\ at - 1 + Len(Cells(kind, value)) <= Len(body)
              /\ \A j \in 1 .. Len(Cells(kind, value)) : body[at + j - 1] = Cells(kind, value)[j]
              => FieldIs(kind, body, at, at + Len(Cells(kind, value)), value)
<1> DEFINE D == 0 .. Base - 1
<1>1. CASE kind = "str"
  <2>1. value \in Seq(D) /\ Len(value) \in Nat /\ Len(value) <= Base - 1
    BY <1>1 DEF Values, Encodable, MaxString
  <2>2. Len(value) \in D
    BY <2>1, BaseIs
  <2> HIDE DEF D
  <2>3. PICK c : c = <<Len(value)>> \o value
    OBVIOUS
  <2>4. /\ c \in Seq(D) /\ Len(c) = 1 + Len(value) /\ c[1] = Len(value)
        /\ \A j \in 1 .. Len(value) : c[1 + j] = value[j]
    BY <2>1, <2>2, <2>3, Prefixed
  <2>5. Cells(kind, value) = c
    BY <1>1, <2>3 DEF Cells
  <2>6. ASSUME NEW body \in Seq(D), NEW at \in Nat \ {0}, at - 1 + Len(c) <= Len(body),
               \A j \in 1 .. Len(c) : body[at + j - 1] = c[j]
        PROVE  FieldIs(kind, body, at, at + Len(c), value)
    <3>1. 1 \in 1 .. Len(c) /\ at + 1 - 1 = at /\ Len(body) \in Nat /\ at <= Len(body)
      BY <2>1, <2>4, <2>6
    <3>2. body[at] = Len(value)
      BY <2>4, <2>6, <3>1
    <3>3. at + (1 + body[at]) = at + Len(c) /\ at + (1 + body[at]) - 1 <= Len(body)
          /\ at + (1 + body[at]) - 1 = at + Len(value)
      BY <2>1, <2>4, <2>6, <3>2
    <3>4. SubSeq(body, at + 1, at + Len(value)) = value
      <4>1. PICK m \in Nat \ {0} : m = at + 1
        OBVIOUS
      <4>2. m - 1 + Len(value) <= Len(body) /\ m + Len(value) - 1 = at + Len(value)
        BY <2>1, <2>4, <2>6, <4>1
      <4>3. ASSUME NEW j \in 1 .. Len(value) PROVE body[m + j - 1] = value[j]
        <5>1. 1 + j \in 1 .. Len(c) /\ at + (1 + j) - 1 = m + j - 1
          BY <2>1, <2>4, <4>1
        <5> QED
          BY <2>4, <2>6, <5>1
      <4>4. SubSeq(body, m, m + Len(value) - 1) = value
        <5>1. StandsAt(body, m, value)
          BY <4>1, <4>2, <4>3 DEF StandsAt
        <5> QED
          BY <2>1, <2>6, <5>1, CutStanding, Zenon
      <4> QED
        BY <4>1, <4>2, <4>4
    <3>5. (at + (1 + body[at]) - 1 <= Len(body)) = TRUE
      BY <3>3
    <3>6. Field(kind, body, at) =
            [ok |-> at + (1 + body[at]) - 1 <= Len(body), next |-> at + (1 + body[at]),
             value |-> SubSeq(body, at + 1, at + (1 + body[at]) - 1)]
      BY <1>1, <3>1, <3>3 DEF Field
    <3> QED
      BY <3>3, <3>4, <3>5, <3>6, Zenon DEF FieldIs
  <2>7. Len(c) >= 1
    BY <2>1, <2>4
  <2> QED
    BY <2>4, <2>5, <2>6, <2>7 DEF D
<1>2. CASE kind # "str"
  <2>1. kind \in Kinds \ {"str"}
    BY <1>2
  <2>2. PICK c : c = Digits(value, Width(kind))
    OBVIOUS
  <2>3. Width(kind) \in {1, 2, 4} /\ c \in Seq(D) /\ Len(c) = Width(kind) /\ Number(c) = value
    BY <2>1, <2>2, NumberBack
  <2>4. Cells(kind, value) = c
    BY <1>2, <2>2 DEF Cells
  <2> HIDE DEF D
  <2>5. ASSUME NEW body \in Seq(D), NEW at \in Nat \ {0}, at - 1 + Len(c) <= Len(body),
               \A j \in 1 .. Len(c) : body[at + j - 1] = c[j]
        PROVE  FieldIs(kind, body, at, at + Len(c), value)
    <3>1. SubSeq(body, at, at + Len(c) - 1) = c
      BY <2>3, <2>5, CutOut
    <3>2. at + Len(c) - 1 <= Len(body)
      <4>1. Len(body) \in Nat /\ Len(c) \in Nat
        BY <2>3
      <4> QED
        BY <2>5, <4>1
    <3>3. (at + Len(c) - 1 <= Len(body)) = TRUE
      BY <3>2
    <3>4. Field(kind, body, at) =
            [ok |-> at + Len(c) - 1 <= Len(body), next |-> at + Len(c),
             value |-> Number(SubSeq(body, at, at + Len(c) - 1))]
      BY <1>2, <2>3, <3>2 DEF Field
    <3> QED
      BY <2>3, <3>1, <3>3, <3>4, Zenon DEF FieldIs
  <2>6. Len(c) >= 1
    BY <2>3
  <2> QED
    BY <2>3, <2>4, <2>5, <2>6 DEF D
<1> QED
  BY <1>1, <1>2

-------------------------------------------------------------------------------
(* Bodies: how the cells of the fields make up one, and what a reader of the *)
(* same layout finds in it.                                                  *)

Layouts == Seq(Kinds)

Encodables(layout, fields) ==
  /\ layout \in Layouts /\ Typed(layout, fields)
  /\ \A i \in 1 .. Len(layout) : Encodable(layout[i], fields[i])

(* How the cells of the fields make up a body. *)
Spelled(layout, fields, body, u) ==
  /\ body \in Seq(0 .. Base - 1) /\ u \in [0 .. Len(layout) -> Seq(0 .. Base - 1)]
  /\ u[0] = <<>> /\ u[Len(layout)] = body
  /\ \A i \in 1 .. Len(layout) :
       /\ Len(u[i - 1]) + Len(Cells(layout[i], fields[i])) <= Len(body)
       /\ Len(u[i]) = Len(u[i - 1]) + Len(Cells(layout[i], fields[i]))
       /\ \A j \in 1 .. Len(Cells(layout[i], fields[i])) :
            body[Len(u[i - 1]) + j] = Cells(layout[i], fields[i])[j]

LEMMA BodyIs ==
  ASSUME NEW layout, NEW fields, Encodables(layout, fields)
  PROVE  \E body, u : /\ Body(layout, fields) = [ok |-> TRUE, body |-> body]
                      /\ Spelled(layout, fields, body, u)
<1> DEFINE n == Len(layout)
           D == 0 .. Base - 1
           items == [i \in 1 .. n |-> Cells(layout[i], fields[i])]
<1>1. n \in Nat /\ DOMAIN layout = 1 .. n /\ \A i \in 1 .. n : layout[i] \in Kinds
  BY DEF Encodables, Layouts
<1>2. \A i \in 1 .. n : Cells(layout[i], fields[i]) \in Seq(D)
  <2>1. SUFFICES ASSUME NEW i \in 1 .. n PROVE Cells(layout[i], fields[i]) \in Seq(D)
    OBVIOUS
  <2>2. PICK kind \in Kinds : kind = layout[i]
    BY <1>1
  <2>3. PICK value \in Values(kind) : value = fields[i]
    BY <2>2 DEF Encodables, Typed
  <2>4. Encodable(kind, value)
    BY <2>2, <2>3 DEF Encodables
  <2> QED
    BY <2>2, <2>3, <2>4, FieldReads
<1> HIDE DEF D, n
<1>3. items \in Seq(Seq(D)) /\ Len(items) = n /\ items \in [1 .. n -> Seq(D)]
      /\ \A i \in 1 .. n : items[i] = Cells(layout[i], fields[i])
  BY <1>1, <1>2
<1>4. Body(layout, fields) = [ok |-> TRUE, body |-> Flat(items)]
  <2>1. \A i \in DOMAIN layout : Encodable(layout[i], fields[i])
    BY <1>1 DEF Encodables, n
  <2> QED
    BY <2>1 DEF Body, n
<1> HIDE DEF items
<1>5. PICK u \in [0 .. n -> Seq(D)] :
         /\ u[0] = <<>> /\ \A i \in 1 .. n : u[i] = u[i - 1] \o items[i]
         /\ Flat(items) = u[n]
  BY <1>3, FlatIs
<1>6. Placed(u, n, items)
  BY <1>1, <1>3, <1>5, FlatPlaces
<1>7. u[n] \in Seq(D)
  <2>1. n \in 0 .. n
    BY <1>1
  <2> QED
    BY <2>1
<1>8. Spelled(layout, fields, u[n], u)
  BY <1>3, <1>5, <1>6, <1>7 DEF Spelled, Placed, D, n
<1> QED
  BY <1>4, <1>5, <1>8

ParsesTo(layout, body, fields) == Parse(layout, body) = [ok |-> TRUE, fields |-> fields]

(* A parser that reads the fields of a body in the order in which they were *)
(* written finds every one of them, whole, and ends where the body ends.    *)
THEOREM SpelledParses ==
  ASSUME NEW layout, NEW fields, Encodables(layout, fields), NEW body, NEW u,
         Spelled(layout, fields, body, u)
  PROVE  ParsesTo(layout, body, fields)
<1> DEFINE n == Len(layout)
           D == 0 .. Base - 1
           Step(before, field) ==
             [ok |-> before.ok /\ field.ok, next |-> field.next,
              fields |-> Append(before.fields, field.value)]
           Is(f) == f = [i \in 0 .. Len(layout) |->
                           IF i = 0 THEN [ok |-> TRUE, next |-> 1, fields |-> <<>>]
                           ELSE LET before == f[i - 1]
                                    field == Field(layout[i], body, before.next)
                                IN [ok |-> before.ok /\ field.ok, next |-> field.next,
                                    fields |-> Append(before.fields, field.value)]]
           upTo == CHOOSE f : Is(f)
           first(i) == [j \in 1 .. i |-> fields[j]]
           told == [i \in 0 .. n |-> [ok |-> TRUE, next |-> Len(u[i]) + 1, fields |-> first(i)]]
<1>1. n \in Nat /\ \A i \in 1 .. n : layout[i] \in Kinds
  BY DEF Encodables, Layouts
<1>2. fields = first(n)
  BY DEF Encodables, Typed
<1>3. \A i \in 0 .. n : told[i] = [ok |-> TRUE, next |-> Len(u[i]) + 1, fields |-> first(i)]
  OBVIOUS
<1>4. ASSUME NEW i \in 1 .. n
      PROVE  FieldIs(layout[i], body, Len(u[i - 1]) + 1, Len(u[i]) + 1, fields[i])
  <2>1. PICK kind \in Kinds : kind = layout[i]
    BY <1>1
  <2>2. PICK value \in Values(kind) : value = fields[i]
    BY <2>1 DEF Encodables, Typed
  <2>3. Encodable(kind, value)
    BY <2>1, <2>2 DEF Encodables
  <2>4. PICK c : c = Cells(kind, value)
    OBVIOUS
  <2>5. c \in Seq(D) /\ Len(c) \in Nat
    <3>1. c \in Seq(D)
      BY <2>3, <2>4, FieldReads
    <3> QED
      BY <3>1, LenProperties, Zenon
  <2>6. body \in Seq(D) /\ u[i - 1] \in Seq(D)
    <3>1. i - 1 \in 0 .. n
      BY <1>1
    <3> QED
      BY <3>1 DEF Spelled
  <2>7. Len(u[i - 1]) \in Nat
    BY <2>6, LenProperties, Zenon
  <2>8. /\ Len(u[i - 1]) + Len(c) <= Len(body) /\ Len(u[i]) = Len(u[i - 1]) + Len(c)
        /\ \A j \in 1 .. Len(c) : body[Len(u[i - 1]) + j] = c[j]
    BY <2>1, <2>2, <2>4 DEF Spelled
  <2>9. PICK at \in Nat \ {0} : at = Len(u[i - 1]) + 1
    BY <2>7
  <2>10. at - 1 + Len(c) <= Len(body) /\ at + Len(c) = Len(u[i]) + 1
    BY <2>5, <2>7, <2>8, <2>9
  <2>11. ASSUME NEW j \in 1 .. Len(c) PROVE body[at + j - 1] = c[j]
    <3>1. at + j - 1 = Len(u[i - 1]) + j
      BY <2>5, <2>7, <2>9
    <3> QED
      BY <2>8, <3>1
  <2>12. FieldIs(kind, body, at, at + Len(c), value)
    BY <2>3, <2>4, <2>6, <2>10, <2>11, FieldReads
  <2> QED
    BY <2>1, <2>2, <2>9, <2>10, <2>12
<1>5. ASSUME NEW i \in 1 .. n PROVE Append(first(i - 1), fields[i]) = first(i)
  <2> DEFINE V == {fields[j] : j \in 1 .. n}
  <2>1. \A j \in 1 .. i : j \in 1 .. n /\ fields[j] \in V
    BY <1>1
  <2>2. i - 1 \in Nat /\ i \in Nat /\ \A j \in 1 .. i - 1 : j \in 1 .. i
    BY <1>1
  <2> HIDE DEF V
  <2>3. first(i - 1) \in Seq(V) /\ Len(first(i - 1)) = i - 1
        /\ \A j \in 1 .. i - 1 : first(i - 1)[j] = fields[j]
    BY <2>1, <2>2
  <2>4. first(i) \in Seq(V) /\ Len(first(i)) = i /\ \A j \in 1 .. i : first(i)[j] = fields[j]
    BY <2>1, <2>2
  <2> HIDE DEF first
  <2>5. PICK a : a = Append(first(i - 1), fields[i])
    OBVIOUS
  <2>6. fields[i] \in V
    BY <2>1, <1>1
  <2>7. a \in Seq(V) /\ Len(a) = (i - 1) + 1 /\ a[(i - 1) + 1] = fields[i]
        /\ \A j \in 1 .. i - 1 : a[j] = first(i - 1)[j]
    BY <2>3, <2>5, <2>6, AppendProperties
  <2>8. (i - 1) + 1 = i
    BY <2>2
  <2>9. ASSUME NEW j \in 1 .. i PROVE a[j] = first(i)[j]
    <3>1. CASE j = i
      BY <2>4, <2>7, <2>8, <3>1
    <3>2. CASE j # i
      <4>1. j \in 1 .. i - 1
        BY <2>2, <3>2
      <4> QED
        BY <2>3, <2>4, <2>7, <4>1
    <3> QED
      BY <3>1, <3>2
  <2>10. a = first(i)
    BY <2>4, <2>7, <2>8, <2>9, SeqEqual
  <2> QED
    BY <2>5, <2>10
<1>6. ASSUME NEW i \in 1 .. n
      PROVE  told[i] = Step(told[i - 1], Field(layout[i], body, told[i - 1].next))
  <2>1. i - 1 \in 0 .. n /\ i \in 0 .. n
    BY <1>1
  <2>2. told[i - 1] = [ok |-> TRUE, next |-> Len(u[i - 1]) + 1, fields |-> first(i - 1)]
    BY <1>3, <2>1
  <2>3. told[i] = [ok |-> TRUE, next |-> Len(u[i]) + 1, fields |-> first(i)]
    BY <1>3, <2>1
  <2> HIDE DEF told, first
  <2>4. told[i - 1].next = Len(u[i - 1]) + 1 /\ told[i - 1].ok = TRUE
        /\ told[i - 1].fields = first(i - 1)
    BY <2>2
  <2>5. PICK f : f = Field(layout[i], body, told[i - 1].next)
    OBVIOUS
  <2>6. f = [ok |-> TRUE, next |-> Len(u[i]) + 1, value |-> fields[i]]
    BY <1>4, <2>4, <2>5, Zenon DEF FieldIs
  <2>7. f.ok = TRUE /\ f.next = Len(u[i]) + 1 /\ f.value = fields[i]
    BY <2>6
  <2>8. Step(told[i - 1], f) = [ok |-> TRUE, next |-> Len(u[i]) + 1, fields |-> first(i)]
    <3>1. (told[i - 1].ok /\ f.ok) = TRUE
      BY <2>4, <2>7
    <3>2. Append(told[i - 1].fields, f.value) = first(i)
      BY <1>5, <2>4, <2>7
    <3> QED
      BY <2>7, <3>1, <3>2, Zenon
  <2> HIDE DEF Step
  <2> QED
    BY <2>3, <2>5, <2>8, Zenon
<1>7. told[0] = [ok |-> TRUE, next |-> 1, fields |-> <<>>]
  <2>1. 0 \in 0 .. n
    BY <1>1
  <2>2. u[0] = <<>>
    BY DEF Spelled
  <2>3. first(0) = <<>> /\ Len(u[0]) + 1 = 1
    BY <2>2
  <2>4. told[0] = [ok |-> TRUE, next |-> Len(u[0]) + 1, fields |-> first(0)]
    BY <1>3, <2>1
  <2> HIDE DEF told, first
  <2> QED
    BY <2>3, <2>4, Zenon
<1>8. Is(told)
  <2>1. \A i \in 0 .. n : i = 0 \/ i \in 1 .. n
    OBVIOUS
  <2>2. told = [i \in 0 .. n |-> told[i]]
    OBVIOUS
  <2> HIDE DEF told, first
  <2>3. \A i \in 0 .. n :
          told[i] = IF i = 0 THEN [ok |-> TRUE, next |-> 1, fields |-> <<>>]
                    ELSE Step(told[i - 1], Field(layout[i], body, told[i - 1].next))
    <3> HIDE DEF Step, n
    <3> QED
      BY <1>6, <1>7, <2>1, Zenon
  <2>4. told = [i \in 0 .. n |->
                  IF i = 0 THEN [ok |-> TRUE, next |-> 1, fields |-> <<>>]
                  ELSE Step(told[i - 1], Field(layout[i], body, told[i - 1].next))]
    <3> HIDE DEF Step, n
    <3> QED
      BY <2>2, <2>3, Zenon
  <2> QED
    BY <2>4, Zenon
<1>9. Is(upTo)
  <2> HIDE DEF Is
  <2> QED
    BY <1>8, Zenon
<1> HIDE DEF upTo, told
<1>10. ASSUME NEW i \in 0 .. n
       PROVE  upTo[i] = IF i = 0 THEN [ok |-> TRUE, next |-> 1, fields |-> <<>>]
                        ELSE Step(upTo[i - 1], Field(layout[i], body, upTo[i - 1].next))
  <2> DEFINE E(j) == IF j = 0 THEN [ok |-> TRUE, next |-> 1, fields |-> <<>>]
                     ELSE Step(upTo[j - 1], Field(layout[j], body, upTo[j - 1].next))
  <2>1. upTo = [j \in 0 .. n |-> E(j)]
    BY <1>9, Zenon
  <2> HIDE DEF E
  <2>2. upTo[i] = E(i)
    BY <2>1
  <2> QED
    BY <2>2, Zenon DEF E
<1> HIDE DEF Is, Step
<1>11. upTo[0] = told[0]
  <2>1. 0 \in 0 .. n
    BY <1>1
  <2> QED
    BY <1>7, <1>10, <2>1
<1>12. ASSUME NEW i \in 0 .. n - 1, upTo[i] = told[i] PROVE upTo[i + 1] = told[i + 1]
  <2>1. i + 1 \in 0 .. n /\ i + 1 # 0 /\ (i + 1) - 1 = i /\ i + 1 \in 1 .. n
    BY <1>1
  <2>2. upTo[i + 1] = Step(upTo[i], Field(layout[i + 1], body, upTo[i].next))
    BY <1>10, <2>1
  <2>3. told[i + 1] = Step(told[i], Field(layout[i + 1], body, told[i].next))
    BY <1>6, <2>1
  <2> QED
    BY <1>12, <2>2, <2>3, Zenon
<1>13. upTo[n] = told[n]
  <2> HIDE DEF n
  <2>1. n \in 0 .. n
    BY <1>1
  <2> QED
    BY <1>1, <1>11, <1>12, <2>1, SameValues
<1>14. told[n] = [ok |-> TRUE, next |-> Len(u[n]) + 1, fields |-> first(n)]
  <2>1. n \in 0 .. n
    BY <1>1
  <2> HIDE DEF first
  <2> QED
    BY <1>3, <2>1
<1>15. Parse(layout, body) = [ok |-> upTo[n].ok /\ upTo[n].next = Len(body) + 1,
                              fields |-> upTo[n].fields]
  BY Zenon DEF Parse, upTo, Is
<1>16. u[n] = body
  BY DEF Spelled
<1>17. upTo[n].ok = TRUE /\ upTo[n].next = Len(body) + 1 /\ upTo[n].fields = fields
  <2> HIDE DEF first
  <2> QED
    BY <1>2, <1>13, <1>14, <1>16
<1>18. (upTo[n].ok /\ upTo[n].next = Len(body) + 1) = TRUE
  BY <1>17
<1> QED
  BY <1>15, <1>17, <1>18, Zenon DEF ParsesTo

Value == UNION {Values(kind) : kind \in Kinds}

(* The same, with the fields as a sequence. *)
Fits(layout, fields) ==
  /\ layout \in Layouts /\ fields \in Seq(Value) /\ Len(fields) = Len(layout)
  /\ \A j \in 1 .. Len(layout) :
       fields[j] \in Values(layout[j]) /\ Encodable(layout[j], fields[j])

LEMMA FitsAre ==
  ASSUME NEW layout, NEW fields
  PROVE  Encodables(layout, fields) <=> Fits(layout, fields)
<1>1. ASSUME Encodables(layout, fields) PROVE Fits(layout, fields)
  <2>1. Len(layout) \in Nat /\ \A i \in 1 .. Len(layout) : layout[i] \in Kinds
    BY <1>1 DEF Encodables, Layouts
  <2>2. PICK n \in Nat : n = Len(layout)
    BY <2>1
  <2>3. \A i \in 1 .. n : fields[i] \in Value
    BY <1>1, <2>1, <2>2 DEF Encodables, Typed, Value
  <2>4. fields = [i \in 1 .. n |-> fields[i]]
    BY <1>1, <2>2 DEF Encodables, Typed
  <2>5. fields \in Seq(Value) /\ Len(fields) = n
    BY <2>3, <2>4
  <2> QED
    BY <1>1, <2>2, <2>5 DEF Encodables, Typed, Fits
<1>2. ASSUME Fits(layout, fields) PROVE Encodables(layout, fields)
  <2>1. fields = [i \in 1 .. Len(layout) |-> fields[i]]
    BY <1>2 DEF Fits
  <2> QED
    BY <1>2, <2>1 DEF Encodables, Typed, Fits
<1> QED
  BY <1>1, <1>2

LEMMA FitsJoined ==
  ASSUME NEW l1, NEW f1, NEW l2, NEW f2, Fits(l1, f1), Fits(l2, f2)
  PROVE  Fits(l1 \o l2, f1 \o f2)
<1>1. PICK l : l = l1 \o l2
  OBVIOUS
<1>2. PICK f : f = f1 \o f2
  OBVIOUS
<1>3. /\ l1 \in Seq(Kinds) /\ l2 \in Seq(Kinds) /\ f1 \in Seq(Value) /\ f2 \in Seq(Value)
      /\ Len(f1) = Len(l1) /\ Len(f2) = Len(l2)
  BY DEF Fits, Layouts
<1>4. PICK m \in Nat, n \in Nat : m = Len(l1) /\ n = Len(l2)
  BY <1>3, LenProperties
<1>5. /\ l \in Seq(Kinds) /\ Len(l) = m + n
      /\ \A i \in 1 .. m : l[i] = l1[i]
      /\ \A i \in 1 .. n : l[m + i] = l2[i]
  BY <1>1, <1>3, <1>4, Joined
<1>6. /\ f \in Seq(Value) /\ Len(f) = m + n
      /\ \A i \in 1 .. m : f[i] = f1[i]
      /\ \A i \in 1 .. n : f[m + i] = f2[i]
  <2>1. Len(f1) = m /\ Len(f2) = n
    BY <1>3, <1>4
  <2>2. /\ f \in Seq(Value) /\ Len(f) = Len(f1) + Len(f2)
        /\ \A i \in 1 .. Len(f1) : f[i] = f1[i]
        /\ \A i \in 1 .. Len(f2) : f[Len(f1) + i] = f2[i]
    <3>1. f1 \in Seq(Value) /\ f2 \in Seq(Value)
      BY <1>3
    <3> QED
      BY <1>2, <3>1, Joined
  <2> QED
    BY <2>1, <2>2
<1>7. ASSUME NEW j \in 1 .. m + n PROVE f[j] \in Values(l[j]) /\ Encodable(l[j], f[j])
  <2>1. CASE j \in 1 .. m
    BY <1>4, <1>5, <1>6, <2>1 DEF Fits
  <2>2. CASE j \notin 1 .. m
    <3>1. PICK i \in 1 .. n : m + i = j
      <4>1. j - m \in 1 .. n /\ m + (j - m) = j
        BY <2>2
      <4> QED
        BY <4>1
    <3>2. f2[i] \in Values(l2[i]) /\ Encodable(l2[i], f2[i])
      BY <1>4 DEF Fits
    <3>3. f[j] = f2[i] /\ l[j] = l2[i]
      BY <1>5, <1>6, <3>1
    <3> QED
      BY <3>2, <3>3
  <2> QED
    BY <2>1, <2>2
<1> QED
  BY <1>1, <1>2, <1>5, <1>6, <1>7 DEF Fits, Layouts

LEMMA FlatFits ==
  ASSUME NEW item \in Layouts, NEW items \in Seq(Seq(Value)),
         \A i \in 1 .. Len(items) : Fits(item, items[i])
  PROVE  Fits(Flat([i \in 1 .. Len(items) |-> item]), Flat(items))
<1>1. PICK n \in Nat : n = Len(items)
  OBVIOUS
<1>2. PICK kinds : kinds = [i \in 1 .. n |-> item]
  OBVIOUS
<1>3. kinds \in Seq(Seq(Kinds)) /\ Len(kinds) = n /\ \A i \in 1 .. n : kinds[i] = item
  BY <1>2 DEF Layouts
<1>4. PICK u \in [0 .. n -> Seq(Kinds)] :
         /\ u[0] = <<>> /\ \A i \in 1 .. n : u[i] = u[i - 1] \o kinds[i]
         /\ Flat(kinds) = u[n]
  BY <1>3, FlatIs
<1>5. PICK v \in [0 .. n -> Seq(Value)] :
         /\ v[0] = <<>> /\ \A i \in 1 .. n : v[i] = v[i - 1] \o items[i]
         /\ Flat(items) = v[n]
  BY <1>1, FlatIs
<1> DEFINE T == {i \in 0 .. n : Fits(u[i], v[i])}
<1>6. 0 \in T
  <2>1. 0 \in 0 .. n /\ Len(<<>>) = 0 /\ <<>> \in Seq(Kinds) /\ <<>> \in Seq(Value)
    OBVIOUS
  <2>2. Fits(<<>>, <<>>)
    BY <2>1 DEF Fits, Layouts
  <2> QED
    BY <1>4, <1>5, <2>1, <2>2
<1>7. ASSUME NEW i \in 0 .. n - 1, i \in T PROVE i + 1 \in T
  <2>1. i + 1 \in 0 .. n /\ i + 1 \in 1 .. n /\ (i + 1) - 1 = i
    OBVIOUS
  <2>2. u[i + 1] = u[i] \o item /\ v[i + 1] = v[i] \o items[i + 1]
    BY <1>3, <1>4, <1>5, <2>1
  <2>3. Fits(u[i], v[i]) /\ Fits(item, items[i + 1])
    BY <1>1, <1>7, <2>1
  <2>4. Fits(u[i] \o item, v[i] \o items[i + 1])
    BY <2>3, FitsJoined
  <2> QED
    BY <2>1, <2>2, <2>4
<1>8. n \in T
  <2> HIDE DEF T
  <2>1. 0 .. n \subseteq T
    BY <1>6, <1>7, Upward
  <2>2. n \in 0 .. n
    OBVIOUS
  <2> QED
    BY <2>1, <2>2
<1> QED
  BY <1>1, <1>2, <1>4, <1>5, <1>8

(* A list: its layout fits its fields. *)
LEMMA ListFits ==
  ASSUME NEW item \in Layouts, NEW code \in Values("u32"), NEW items \in Seq(Seq(Value)),
         \A i \in 1 .. Len(items) : Fits(item, items[i]), Len(items) < Base
  PROVE  Fits(ListLayout(item, Len(items)), <<code, Len(items)>> \o Flat(items))
<1>1. PICK n \in Nat : n = Len(items)
  OBVIOUS
<1>2. n \in Values("u16")
  BY <1>1, BaseIs DEF Values
<1>3. n \in Value /\ code \in Value
  BY <1>2 DEF Value, Kinds
<1>4. PICK h : h = <<code, n>>
  OBVIOUS
<1>5. PICK l : l = <<"u32", "u16">>
  OBVIOUS
<1>6. h \in Seq(Value) /\ Len(h) = 2 /\ h[1] = code /\ h[2] = n
  BY <1>3, <1>4
<1>7. l \in Seq(Kinds) /\ Len(l) = 2 /\ l[1] = "u32" /\ l[2] = "u16"
  BY <1>5 DEF Kinds
<1>8. Fits(l, h)
  <2>1. \A j \in 1 .. 2 : j = 1 \/ j = 2
    OBVIOUS
  <2>2. h[1] \in Values(l[1]) /\ h[2] \in Values(l[2])
    BY <1>2, <1>6, <1>7
  <2>3. Encodable(l[1], h[1]) /\ Encodable(l[2], h[2])
    BY <1>7 DEF Encodable
  <2> QED
    BY <1>6, <1>7, <2>1, <2>2, <2>3 DEF Fits, Layouts
<1>9. Fits(Flat([i \in 1 .. n |-> item]), Flat(items))
  BY <1>1, FlatFits
<1>10. Fits(l \o Flat([i \in 1 .. n |-> item]), h \o Flat(items))
  BY <1>8, <1>9, FitsJoined
<1> QED
  BY <1>1, <1>4, <1>5, <1>10 DEF ListLayout

(* What the reader of a list looks at first: the count, behind the code. *)
LEMMA ListCount ==
  ASSUME NEW item \in Layouts, NEW code \in Values("u32"), NEW items \in Seq(Seq(Value)),
         \A i \in 1 .. Len(items) : Fits(item, items[i]), Len(items) < Base,
         NEW body, NEW u,
         Spelled(ListLayout(item, Len(items)), <<code, Len(items)>> \o Flat(items), body, u)
  PROVE  Len(body) >= 3 /\ body[3] = Len(items)
<1>1. PICK n \in Nat : n = Len(items)
  OBVIOUS
<1>2. PICK l : l = ListLayout(item, n)
  OBVIOUS
<1>3. PICK f : f = <<code, n>> \o Flat(items)
  OBVIOUS
<1>4. Fits(l, f)
  BY <1>1, <1>2, <1>3, ListFits
<1>5. Spelled(l, f, body, u)
  BY <1>1, <1>2, <1>3
<1>6. Len(l) \in Nat /\ Len(l) >= 2 /\ l[1] = "u32" /\ l[2] = "u16"
  <2>1. PICK r : r = Flat([i \in 1 .. n |-> item])
    OBVIOUS
  <2>2. r \in Seq(Kinds)
    BY <1>1, <2>1, FlatFits DEF Fits, Layouts
  <2>3. PICK h : h = <<"u32", "u16">>
    OBVIOUS
  <2>4. h \in Seq(Kinds) /\ Len(h) = 2 /\ h[1] = "u32" /\ h[2] = "u16"
    BY <2>3 DEF Kinds
  <2>5. l = h \o r
    BY <1>2, <2>1, <2>3 DEF ListLayout
  <2>6. 1 \in 1 .. Len(h) /\ 2 \in 1 .. Len(h)
    BY <2>4
  <2>7. Len(r) \in Nat
    BY <2>2
  <2>8. Len(l) = Len(h) + Len(r) /\ \A i \in 1 .. Len(h) : l[i] = h[i]
    BY <2>2, <2>4, <2>5, Joined, ZenonT(60)
  <2> QED
    BY <2>4, <2>6, <2>7, <2>8
<1>7. f[1] = code /\ f[2] = n
  <2>1. PICK r : r = Flat(items)
    OBVIOUS
  <2>2. r \in Seq(Value)
    BY <1>1, <2>1, FlatFits DEF Fits
  <2>3. PICK h : h = <<code, n>>
    OBVIOUS
  <2>4. n \in Values("u16")
    BY <1>1, BaseIs DEF Values
  <2>5. n \in Value /\ code \in Value
    BY <2>4 DEF Value, Kinds
  <2>6. h \in Seq(Value) /\ Len(h) = 2 /\ h[1] = code /\ h[2] = n
    BY <2>3, <2>5
  <2>7. f = h \o r
    BY <1>3, <2>1, <2>3
  <2>8. 1 \in 1 .. Len(h) /\ 2 \in 1 .. Len(h)
    BY <2>6
  <2> QED
    BY <2>2, <2>6, <2>7, <2>8, Joined, ZenonT(60)
<1>8. PICK c1 : c1 = Cells("u32", code)
  OBVIOUS
<1>9. PICK c2 : c2 = Cells("u16", n)
  OBVIOUS
<1>10. Len(c1) = 2
  <2>1. "u32" \in Kinds \ {"str"} /\ Width("u32") = 2 /\ Cells("u32", code) = Digits(code, Width("u32"))
    BY DEF Kinds, Width, Cells
  <2> QED
    BY <1>8, <2>1, NumberBack
<1>11. Len(c2) = 1 /\ c2[1] = n
  <2>1. "u16" \in Kinds \ {"str"} /\ Width("u16") = 1 /\ Cells("u16", n) = Digits(n, 1)
    BY DEF Kinds, Width, Cells
  <2>2. n \in Values("u16") /\ n \in 0 .. Base - 1
    BY <1>1, BaseIs DEF Values
  <2>3. Len(c2) = 1
    BY <1>9, <2>1, <2>2, NumberBack
  <2>4. PICK h \in [0 .. 1 -> Nat] :
           /\ h[0] = n /\ \A i \in 1 .. 1 : h[i] = h[i - 1] \div Base
           /\ Digits(n, 1) = [i \in 1 .. 1 |-> h[1 - i] % Base]
    BY DigitsAre
  <2>5. c2[1] = h[0] % Base
    BY <1>9, <2>1, <2>4
  <2>6. PICK x \in 0 .. Base - 1 : x = n
    BY <2>2
  <2>7. x % Base = x
    <3>1. PICK q \in Nat, r \in 0 .. Base - 1 : q = x \div Base /\ r = x % Base /\ x = Base * q + r
      <4>1. x \in Nat /\ Base \in Nat /\ Base >= 1
        BY BaseIs
      <4> QED
        BY <4>1, DivideOnce
    <3>2. x \in 0 .. Base * 1 - 1 /\ 1 \in Nat
      BY BaseIs
    <3>3. x \div Base \in 0 .. 1 - 1
      BY <3>2, BaseIs, Quotient
    <3>4. q = 0
      BY <3>1, <3>3
    <3> QED
      BY <3>1, <3>4, BaseIs
  <2> QED
    BY <2>3, <2>4, <2>5, <2>6, <2>7
<1>12. Len(u[0]) = 0
  BY <1>5 DEF Spelled
<1>13. 1 \in 1 .. Len(l) /\ 2 \in 1 .. Len(l) /\ 1 - 1 = 0 /\ 2 - 1 = 1 /\ 1 \in 1 .. 1
  BY <1>6
<1>14. Len(u[1]) = Len(u[0]) + Len(c1)
  BY <1>5, <1>6, <1>7, <1>8, <1>13 DEF Spelled
<1>15. /\ Len(u[1]) + Len(c2) <= Len(body)
       /\ \A j \in 1 .. Len(c2) : body[Len(u[1]) + j] = c2[j]
  <2>1. /\ Len(u[2 - 1]) + Len(Cells(l[2], f[2])) <= Len(body)
        /\ \A j \in 1 .. Len(Cells(l[2], f[2])) :
             body[Len(u[2 - 1]) + j] = Cells(l[2], f[2])[j]
    BY <1>5, <1>13 DEF Spelled
  <2> QED
    BY <1>6, <1>7, <1>9, <1>13, <2>1
<1>16. Len(u[1]) = 2
  BY <1>10, <1>12, <1>14
<1>17. body[3] = n
  <2>1. body[2 + 1] = c2[1]
    BY <1>11, <1>13, <1>15, <1>16
  <2> QED
    BY <1>11, <2>1
<1> QED
  BY <1>1, <1>11, <1>15, <1>16, <1>17

-------------------------------------------------------------------------------
(* Requests: what the server reads is what the client wrote.                 *)

LEMMA RequestTypesAre ==
  RequestTypes = {4097, 4353, 4609, 4865, 5121, 5377, 5633, 5889, 6145}
<1>1. 0 .. 8 = {0, 1, 2, 3, 4, 5, 6, 7, 8}
  OBVIOUS
<1>2. RequestTypes = {4097 + 256 * k : k \in {0, 1, 2, 3, 4, 5, 6, 7, 8}}
  BY <1>1 DEF RequestTypes
<1> QED
  BY <1>2

Put(type, id, body) == <<TypeCell(type, Version), Len(body), id>> \o body

(* The packet of a request, and what its receiver reads in it. *)
Travels(e, type, id, layout, f) ==
  \/ /\ e = <<>>
     /\ \/ \E k \in DOMAIN layout : layout[k] = "str" /\ Len(f[k]) > MaxString
        \/ Len(Body(layout, f).body) > MaxBody
  \/ /\ e # <<>>
     /\ \E body \in Seq(0 .. Base - 1) :
          Len(body) <= MaxBody /\ e = Put(type, id, body) /\ ParsesTo(layout, body, f)

LEMMA PutIsNotEmpty ==
  ASSUME NEW type \in Nat, NEW id \in Nat, NEW body \in Seq(Nat)
  PROVE  Put(type, id, body) # <<>>
<1>1. PICK h : h = <<TypeCell(type, Version), Len(body), id>>
  OBVIOUS
<1>2. TypeCell(type, Version) \in Nat
  BY DEF TypeCell, Version
<1>3. h \in Seq(Nat) /\ Len(h) = 3
  BY <1>1, <1>2
<1>4. Len(h \o body) = 3 + Len(body) /\ Len(body) \in Nat
  <2>1. Len(h \o body) = Len(h) + Len(body)
    BY <1>3, Joined
  <2>2. Len(body) \in Nat
    OBVIOUS
  <2> QED
    BY <1>3, <2>1, <2>2
<1>5. Len(h \o body) # 0
  BY <1>4
<1> QED
  BY <1>1, <1>5 DEF Put

LEMMA CellsAreNat == Seq(0 .. Base - 1) \subseteq Seq(Nat)
BY BaseIs

LEMMA BodyParses ==
  ASSUME NEW layout, NEW f, Encodables(layout, f)
  PROVE  \E body \in Seq(0 .. Base - 1) :
           Body(layout, f) = [ok |-> TRUE, body |-> body] /\ ParsesTo(layout, body, f)
<1>1. PICK body, u : /\ Body(layout, f) = [ok |-> TRUE, body |-> body]
                     /\ Spelled(layout, f, body, u)
  BY BodyIs
<1>2. body \in Seq(0 .. Base - 1)
  BY <1>1 DEF Spelled
<1>3. ParsesTo(layout, body, f)
  BY <1>1, SpelledParses
<1> QED
  BY <1>1, <1>2, <1>3

LEMMA PacketTravels ==
  ASSUME NEW layout \in Layouts, NEW f, Typed(layout, f), NEW type \in Nat, NEW id \in Nat
  PROVE  Travels(Packet(type, id, Body(layout, f)), type, id, layout, f)
<1>1. DOMAIN layout = 1 .. Len(layout)
  BY DEF Layouts
<1>2. CASE \A k \in DOMAIN layout : Encodable(layout[k], f[k])
  <2>1. Encodables(layout, f)
    BY <1>1, <1>2 DEF Encodables
  <2>2. PICK body \in Seq(0 .. Base - 1) :
           Body(layout, f) = [ok |-> TRUE, body |-> body] /\ ParsesTo(layout, body, f)
    BY <2>1, BodyParses
  <2>3. Body(layout, f).ok /\ Body(layout, f).body = body
    BY <2>2
  <2>4. Packet(type, id, Body(layout, f)) = EncodePacket(type, id, body)
    BY <2>3 DEF Packet
  <2>5. CASE Len(body) > MaxBody
    BY <2>3, <2>4, <2>5 DEF EncodePacket, Travels
  <2>6. CASE ~(Len(body) > MaxBody)
    <3>1. EncodePacket(type, id, body) = Put(type, id, body)
      BY <2>6 DEF EncodePacket, Put
    <3>2. Put(type, id, body) # <<>>
      BY CellsAreNat, PutIsNotEmpty
    <3>3. Len(body) <= MaxBody
      <4>1. Len(body) \in Nat /\ MaxBody \in Nat
        BY FramingAssumption
      <4> QED
        BY <2>6, <4>1
    <3> QED
      BY <2>2, <2>4, <3>1, <3>2, <3>3 DEF Travels
  <2> QED
    BY <2>5, <2>6
<1>3. CASE ~(\A k \in DOMAIN layout : Encodable(layout[k], f[k]))
  <2>1. PICK k \in DOMAIN layout : ~Encodable(layout[k], f[k])
    BY <1>3
  <2>2. layout[k] = "str" /\ ~(Len(f[k]) <= MaxString)
    BY <2>1 DEF Encodable
  <2>3. f[k] \in Seq(0 .. Base - 1)
    BY <1>1, <2>2 DEF Typed, Values
  <2>4. Len(f[k]) > MaxString
    <3>1. Len(f[k]) \in Nat /\ MaxString \in Int
      BY <2>3, BaseIs, LenProperties DEF MaxString
    <3> QED
      BY <2>2, <3>1
  <2>5. Body(layout, f) = [ok |-> FALSE, body |-> <<>>]
    BY <2>1 DEF Body
  <2>6. Packet(type, id, Body(layout, f)) = <<>>
    <3>1. Body(layout, f).ok = FALSE
      BY <2>5
    <3> QED
      BY <3>1 DEF Packet
  <2> QED
    BY <2>2, <2>4, <2>6 DEF Travels
<1> QED
  BY <1>2, <1>3

(* Single fields and none are written without the detour. *)
LEMMA SingleBody ==
  ASSUME NEW kind \in Kinds \ {"str"}, NEW n \in Values(kind)
  PROVE  /\ Digits(n, Width(kind)) \in Seq(0 .. Base - 1)
         /\ Len(Digits(n, Width(kind))) = Width(kind) /\ Width(kind) \in {1, 2, 4}
         /\ ParsesTo(<<kind>>, Digits(n, Width(kind)), <<n>>)
<1>1. <<kind>> \in Layouts /\ Len(<<kind>>) = 1 /\ <<kind>>[1] = kind
  BY DEF Layouts
<1>2. Len(<<n>>) = 1 /\ <<n>>[1] = n /\ <<n>> = [i \in 1 .. 1 |-> <<n>>[i]]
  OBVIOUS
<1>3. \A i \in 1 .. 1 : i = 1
  OBVIOUS
<1>4. Encodables(<<kind>>, <<n>>)
  BY <1>1, <1>2, <1>3 DEF Encodables, Typed, Encodable
<1>5. PICK body, u : Spelled(<<kind>>, <<n>>, body, u)
  BY <1>4, BodyIs
<1>6. ParsesTo(<<kind>>, body, <<n>>)
  BY <1>4, <1>5, SpelledParses
<1>7. PICK c : c = Digits(n, Width(kind))
  OBVIOUS
<1>8. c \in Seq(0 .. Base - 1) /\ Len(c) = Width(kind) /\ Width(kind) \in {1, 2, 4}
  BY <1>7, NumberBack
<1>9. Cells(kind, n) = c
  BY <1>7 DEF Cells
<1>10. body = c
  <2>1. body \in Seq(0 .. Base - 1) /\ u[0] = <<>> /\ u[1] = body
    BY <1>1, <1>5 DEF Spelled
  <2>2. 1 \in 1 .. 1 /\ 1 - 1 = 0 /\ Len(<<>>) = 0
    OBVIOUS
  <2>3. /\ Len(u[1]) = Len(u[0]) + Len(c)
        /\ \A j \in 1 .. Len(c) : body[Len(u[0]) + j] = c[j]
    <3>1. /\ Len(u[1]) = Len(u[1 - 1]) + Len(Cells(<<kind>>[1], <<n>>[1]))
          /\ \A j \in 1 .. Len(Cells(<<kind>>[1], <<n>>[1])) :
               body[Len(u[1 - 1]) + j] = Cells(<<kind>>[1], <<n>>[1])[j]
      BY <1>1, <1>5, <2>2 DEF Spelled
    <3> QED
      BY <1>1, <1>2, <1>9, <2>2, <3>1
  <2>4. Len(body) = Len(c) /\ \A j \in 1 .. Len(c) : body[j] = c[j]
    BY <1>8, <2>1, <2>2, <2>3
  <2> QED
    BY <1>8, <2>1, <2>4, SeqEqual
<1> QED
  BY <1>6, <1>7, <1>8, <1>10

LEMMA NoFields == ParsesTo(<<>>, <<>>, <<>>) /\ <<>> \in Seq(0 .. Base - 1)
<1>1. <<>> \in Layouts /\ Len(<<>>) = 0 /\ <<>> = [i \in 1 .. 0 |-> <<>>[i]]
  BY DEF Layouts
<1>2. Encodables(<<>>, <<>>)
  BY <1>1 DEF Encodables, Typed
<1>3. PICK body, u : Spelled(<<>>, <<>>, body, u)
  BY <1>2, BodyIs
<1>4. body = <<>>
  BY <1>1, <1>3 DEF Spelled
<1>5. ParsesTo(<<>>, body, <<>>)
  BY <1>2, <1>3, SpelledParses
<1> QED
  BY <1>4, <1>5

LEMMA BodyLimit == MaxBody \in Nat /\ MaxBody >= 7
<1>1. MaxBody \in Nat
  BY FramingAssumption
<1>2. TypeCell(4097, 0) \in Int
  BY DEF TypeCell
<1>3. PICK limit \in Int : limit = TypeCell(4097, 0)
  BY <1>2
<1>4. MaxBody \in 7 .. limit - 1
  BY <1>3, CodecAssumption
<1> QED
  BY <1>1, <1>4

LEMMA LayoutsAre ==
  /\ <<"str">> \in Layouts /\ <<"str", "str">> \in Layouts /\ <<"str", "str", "str">> \in Layouts
  /\ <<"u64", "str">> \in Layouts /\ <<"u64", "str", "u64", "str", "str">> \in Layouts
  /\ <<"u32", "str">> \in Layouts /\ <<"u64", "str", "u32">> \in Layouts
  /\ Device \in Layouts /\ Record \in Layouts
<1> DEFINE K == Kinds
<1>1. "str" \in K /\ "u64" \in K /\ "u32" \in K
  BY DEF Kinds
<1> HIDE DEF K
<1>2. /\ <<"str">> \in Seq(K) /\ <<"str", "str">> \in Seq(K) /\ <<"str", "str", "str">> \in Seq(K)
      /\ <<"u64", "str">> \in Seq(K) /\ <<"u64", "str", "u64", "str", "str">> \in Seq(K)
      /\ <<"u32", "str">> \in Seq(K) /\ <<"u64", "str", "u32">> \in Seq(K)
      /\ <<"u64", "str", "str", "str">> \in Seq(K) /\ <<"u64", "u64", "str", "str", "str">> \in Seq(K)
  BY <1>1
<1> QED
  BY <1>2 DEF Layouts, K, Device, Record

ReadsAs(type, body, f) == ReadAs(type, body) = [ok |-> TRUE, fields |-> f]

(* A request is refused because it is too long, or the server reads in its  *)
(* packet what the client wrote.                                            *)
Requests(e, type, id, f) ==
  \/ e = <<>> /\ TooLong(type, f)
  \/ /\ e # <<>>
     /\ \E body \in Seq(0 .. Base - 1) :
          Len(body) <= MaxBody /\ e = Put(type, id, body) /\ ReadsAs(type, body, f)

(* A request that the client encodes is read by the parser of the server for *)
(* its type with the fields it was made from, and its body never exceeds     *)
(* what the framing accepts; the client sends nothing else than that, except *)
(* that it refuses a text which is longer than its length field can say.     *)
THEOREM RequestTravels ==
  ASSUME NEW type \in RequestTypes, NEW f, Typed(RequestLayout(type), f), NEW id \in Nat
  PROVE  Requests(Encoded(type, id, f), type, id, f)
<1> DEFINE L == RequestLayout(type)
<1>0. type \in Nat
  BY RequestTypesAre
<1>1. ASSUME L \in Layouts, Encoded(type, id, f) = Packet(type, id, Body(L, f)),
             \A body : ReadAs(type, body) = Parse(L, body)
      PROVE  Requests(Encoded(type, id, f), type, id, f)
  <2>1. Travels(Encoded(type, id, f), type, id, L, f)
    BY <1>0, <1>1, PacketTravels
  <2>2. \A body : ParsesTo(L, body, f) => ReadsAs(type, body, f)
    BY <1>1 DEF ParsesTo, ReadsAs
  <2> QED
    BY <2>1, <2>2 DEF Travels, Requests, TooLong
<1>2. CASE type \in {4097, 4353}
  <2>1. L = <<"str", "str">> /\ \A body : ReadAs(type, body) = Parse(<<"str", "str">>, body)
    BY <1>2 DEF RequestLayout, ReadAs, Guests, DecodeCredentials
  <2>2. Encoded(type, id, f) = Packet(type, id, Body(<<"str", "str">>, f))
    BY <1>2 DEF Encoded, EncodeRegisterRequest, EncodeLoginRequest
  <2> QED
    BY <1>1, <2>1, <2>2, LayoutsAre
<1>3. CASE type = 4609
  <2>1. L = <<"u64", "str">> /\ \A body : ReadAs(type, body) = Parse(<<"u64", "str">>, body)
    BY <1>3 DEF RequestLayout, ReadAs, Guests, DecodeDeviceListRequest
  <2>2. Encoded(type, id, f) = Packet(type, id, Body(<<"u64", "str">>, f))
    BY <1>3 DEF Encoded, EncodeDeviceListRequest
  <2> QED
    BY <1>1, <2>1, <2>2, LayoutsAre
<1>4. CASE type = 4865
  <2>1. L = <<"u64", "str", "u64", "str", "str">>
        /\ \A body : ReadAs(type, body) = Parse(<<"u64", "str", "u64", "str", "str">>, body)
    BY <1>4 DEF RequestLayout, ReadAs, Guests, DecodeRecordQueryRequest
  <2>2. Encoded(type, id, f) = Packet(type, id, Body(<<"u64", "str", "u64", "str", "str">>, f))
    BY <1>4 DEF Encoded, EncodeRecordQueryRequest
  <2> QED
    BY <1>1, <2>1, <2>2, LayoutsAre
<1>5. CASE type = 5121
  <2>1. L = <<"str">> /\ \A body : ReadAs(type, body) = Parse(<<"str">>, body)
    BY <1>5 DEF RequestLayout, ReadAs, Guests, ParseStreamStartValue
  <2>2. Encoded(type, id, f) = Packet(type, id, Body(<<"str">>, f))
    BY <1>5 DEF Encoded, EncodeStreamStartRequest
  <2> QED
    BY <1>1, <2>1, <2>2, LayoutsAre
<1>6. CASE type = 6145
  <2>1. L = <<"str", "str", "str">>
        /\ \A body : ReadAs(type, body) = Parse(<<"str", "str", "str">>, body)
    BY <1>6 DEF RequestLayout, ReadAs, Guests, ParsePtzControl
  <2>2. Encoded(type, id, f) = Packet(type, id, Body(<<"str", "str", "str">>, f))
    BY <1>6 DEF Encoded, EncodePtzControlRequest
  <2> QED
    BY <1>1, <2>1, <2>2, LayoutsAre
<1>7. ASSUME NEW body \in Seq(0 .. Base - 1), Len(body) <= MaxBody, ReadsAs(type, body, f),
             Encoded(type, id, f) = EncodePacket(type, id, body)
      PROVE  Requests(Encoded(type, id, f), type, id, f)
  <2>1. ~(Len(body) > MaxBody)
    <3>1. Len(body) \in Nat
      OBVIOUS
    <3> QED
      BY <1>7, <3>1, BodyLimit
  <2>2. Encoded(type, id, f) = Put(type, id, body)
    BY <1>7, <2>1 DEF EncodePacket, Put
  <2>3. Put(type, id, body) # <<>>
    BY <1>0, CellsAreNat, PutIsNotEmpty
  <2> QED
    BY <1>7, <2>2, <2>3 DEF Requests
<1>8. CASE type = 5633
  <2>1. L = <<"u64">> /\ \A body : ReadAs(type, body) = Parse(<<"u64">>, body)
    BY <1>8 DEF RequestLayout, ReadAs, Guests, ParseRecordStartValue
  <2>2. f = <<f[1]>> /\ f[1] \in Values("u64")
    <3>1. Typed(<<"u64">>, f)
      BY <2>1
    <3>2. Len(<<"u64">>) = 1 /\ <<"u64">>[1] = "u64" /\ 1 \in 1 .. 1
      OBVIOUS
    <3>3. f = [i \in 1 .. 1 |-> f[i]] /\ f[1] \in Values("u64")
      BY <3>1, <3>2 DEF Typed
    <3> QED
      BY <3>3
  <2>3. PICK n \in Values("u64") : n = f[1]
    BY <2>2
  <2>4. "u64" \in Kinds \ {"str"} /\ Width("u64") = 4
    BY DEF Kinds, Width
  <2>5. PICK body : body = Digits(n, Width("u64"))
    OBVIOUS
  <2>6. body \in Seq(0 .. Base - 1) /\ Len(body) = 4 /\ ParsesTo(<<"u64">>, body, <<n>>)
    BY <2>4, <2>5, SingleBody
  <2>7. ReadsAs(type, body, f)
    BY <2>1, <2>2, <2>3, <2>6 DEF ParsesTo, ReadsAs
  <2>8. Encoded(type, id, f) = EncodePacket(type, id, body)
    BY <1>8, <2>3, <2>5 DEF Encoded, EncodeRecordStartRequest
  <2>9. Len(body) <= MaxBody
    BY <2>6, BodyLimit
  <2> QED
    BY <1>7, <2>6, <2>7, <2>8, <2>9
<1>9. CASE type \in {5377, 5889}
  <2>1. L = <<>> /\ \A body : ReadAs(type, body) = Parse(<<>>, body)
    BY <1>9 DEF RequestLayout, ReadAs, Guests, IsEmptyControlValue
  <2>2. f = <<>>
    <3>1. Typed(<<>>, f)
      BY <2>1
    <3>2. Len(<<>>) = 0
      OBVIOUS
    <3>3. f = [i \in 1 .. 0 |-> f[i]]
      BY <3>1, <3>2 DEF Typed
    <3> QED
      BY <3>3
  <2>3. ReadsAs(type, <<>>, f)
    BY <2>1, <2>2, NoFields DEF ParsesTo, ReadsAs
  <2>4. Encoded(type, id, f) = EncodePacket(type, id, <<>>)
    BY <1>9 DEF Encoded, EncodeStreamStopRequest, EncodeRecordStopRequest
  <2>5. <<>> \in Seq(0 .. Base - 1) /\ Len(<<>>) <= MaxBody
    <3>1. Len(<<>>) = 0
      OBVIOUS
    <3> QED
      BY <3>1, NoFields, BodyLimit
  <2> QED
    BY <1>7, <2>3, <2>4, <2>5
<1> QED
  BY <1>2, <1>3, <1>4, <1>5, <1>6, <1>8, <1>9, RequestTypesAre

(* The answers of a list are a refusal or the list that the service found. *)
Found(p, item, r) ==
  Answer(TRUE, p.fields, r.code, <<Len(r.items)>> \o Flat(r.items),
         ListBody(item, r.code, r.items).body)

Listed(a, p, results, item) ==
  \/ \E code \in {INVALID_PACKET, INVALID_PARAMETER} :
       a = Refusal(code, <<0>>, ListBody(item, code, <<>>).body)
  \/ p.ok /\ \E r \in results : a = Found(p, item, r)

LEMMA DevicesListed ==
  ASSUME NEW body, NEW a \in HandleDeviceList(body)
  PROVE  Listed(a, DecodeDeviceListRequest(body), Results[4609], Device)
<1> DEFINE p == DecodeDeviceListRequest(body)
           good == p.ok => p.fields[1] # 0 /\ p.fields[2] # <<>>
<1>1. HandleDeviceList(body) = Listing(p, good, Results[4609], EncodeDeviceListResponse)
  BY DEF HandleDeviceList
<1> HIDE DEF p, good
<1>2. CASE ~p.ok
  <2>1. HandleDeviceList(body)
          = {Refusal(INVALID_PACKET, <<0>>, EncodeDeviceListResponse(INVALID_PACKET, <<>>))}
    BY <1>1, <1>2 DEF Listing
  <2> QED
    BY <2>1 DEF Listed, EncodeDeviceListResponse
<1>3. CASE p.ok /\ ~good
  <2>1. HandleDeviceList(body)
          = {Refusal(INVALID_PARAMETER, <<0>>, EncodeDeviceListResponse(INVALID_PARAMETER, <<>>))}
    BY <1>1, <1>3 DEF Listing
  <2> QED
    BY <2>1 DEF Listed, EncodeDeviceListResponse
<1>4. CASE p.ok /\ good
  <2>1. HandleDeviceList(body) = {Found(p, Device, r) : r \in Results[4609]}
    BY <1>1, <1>4 DEF Listing, Found, EncodeDeviceListResponse
  <2>2. PICK r \in Results[4609] : a = Found(p, Device, r)
    BY <2>1
  <2> QED
    BY <1>4, <2>2 DEF Listed, p
<1> QED
  BY <1>2, <1>3, <1>4

LEMMA RecordsListed ==
  ASSUME NEW body, NEW a \in HandleRecordQuery(body)
  PROVE  Listed(a, DecodeRecordQueryRequest(body), Results[4865], Record)
<1> DEFINE p == DecodeRecordQueryRequest(body)
           good == p.ok => /\ p.fields[1] # 0 /\ p.fields[2] # <<>> /\ p.fields[3] # 0
                           /\ ValidTimes(p.fields[4], p.fields[5])
<1>1. HandleRecordQuery(body) = Listing(p, good, Results[4865], EncodeRecordQueryResponse)
  BY DEF HandleRecordQuery
<1> HIDE DEF p, good
<1>2. CASE ~p.ok
  <2>1. HandleRecordQuery(body)
          = {Refusal(INVALID_PACKET, <<0>>, EncodeRecordQueryResponse(INVALID_PACKET, <<>>))}
    BY <1>1, <1>2 DEF Listing
  <2> QED
    BY <2>1 DEF Listed, EncodeRecordQueryResponse
<1>3. CASE p.ok /\ ~good
  <2>1. HandleRecordQuery(body)
          = {Refusal(INVALID_PARAMETER, <<0>>, EncodeRecordQueryResponse(INVALID_PARAMETER, <<>>))}
    BY <1>1, <1>3 DEF Listing
  <2> QED
    BY <2>1 DEF Listed, EncodeRecordQueryResponse
<1>4. CASE p.ok /\ good
  <2>1. HandleRecordQuery(body) = {Found(p, Record, r) : r \in Results[4865]}
    BY <1>1, <1>4 DEF Listing, Found, EncodeRecordQueryResponse
  <2>2. PICK r \in Results[4865] : a = Found(p, Record, r)
    BY <2>1
  <2> QED
    BY <1>4, <2>2 DEF Listed, p
<1> QED
  BY <1>2, <1>3, <1>4

LEMMA ListedCalls ==
  ASSUME NEW a, NEW p, NEW results, NEW item, Listed(a, p, results, item), a.called
  PROVE  p.ok /\ a.f = p.fields
<1>1. \A code, fields, body : ~Refusal(code, fields, body).called
  BY DEF Refusal, Answer
<1>2. PICK r \in results : p.ok /\ a = Found(p, item, r)
  BY <1>1 DEF Listed
<1>3. \A f, code, fields, body : Answer(TRUE, f, code, fields, body).f = f
  BY DEF Answer
<1>4. Found(p, item, r).f = p.fields
  <2>1. PICK x : x = <<Len(r.items)>> \o Flat(r.items)
    OBVIOUS
  <2>2. PICK y : y = ListBody(item, r.code, r.items).body
    OBVIOUS
  <2>3. Found(p, item, r) = Answer(TRUE, p.fields, r.code, x, y)
    BY <2>1, <2>2 DEF Found
  <2>4. Answer(TRUE, p.fields, r.code, x, y).f = p.fields
    BY DEF Answer
  <2> QED
    BY <2>3, <2>4
<1> QED
  BY <1>2, <1>4

(* A handler calls its service with what it has read. *)
LEMMA AnswerCalls ==
  ASSUME NEW msg, NEW a \in Answers(msg), a.called
  PROVE  /\ msg.type \in RequestTypes /\ ReadAs(msg.type, msg.body).ok
         /\ a.f = ReadAs(msg.type, msg.body).fields
<1>1. CASE msg.type \in {4097, 4353}
  <2>1. ReadAs(msg.type, msg.body) = DecodeCredentials(msg.body)
    BY <1>1 DEF ReadAs, Guests
  <2>2. CASE msg.type = 4097
    <3>1. a \in HandleRegister(msg.body)
      BY <2>2 DEF Answers, Guests
    <3> QED
      BY <1>1, <2>1, <3>1, RequestTypesAre DEF HandleRegister, Answer, Refusal
  <2>3. CASE msg.type = 4353
    <3>1. a \in HandleLogin(msg.body)
      BY <2>3 DEF Answers, Guests
    <3> QED
      BY <1>1, <2>1, <3>1, RequestTypesAre DEF HandleLogin, Answer, Refusal
  <2> QED
    BY <1>1, <2>2, <2>3
<1>2. CASE msg.type \in RequestTypes \ Guests /\ ~loggedIn
  <2>1. msg.type # 4097 /\ msg.type # 4353
    BY <1>2 DEF Guests
  <2>2. a = Unauthorized(msg.type)
    BY <1>2, <2>1 DEF Answers
  <2>3. a.called = FALSE
    BY <2>2 DEF Unauthorized, Answer, Refusal
  <2> QED
    BY <2>3
<1>3. CASE msg.type = 4609 /\ loggedIn
  <2>1. a \in HandleDeviceList(msg.body)
    BY <1>3 DEF Answers
  <2>2. ReadAs(msg.type, msg.body) = DecodeDeviceListRequest(msg.body)
    BY <1>3 DEF ReadAs, Guests
  <2> QED
    BY <1>3, <2>1, <2>2, RequestTypesAre, DevicesListed, ListedCalls
<1>4. CASE msg.type = 4865 /\ loggedIn
  <2>1. a \in HandleRecordQuery(msg.body)
    BY <1>4 DEF Answers
  <2>2. ReadAs(msg.type, msg.body) = DecodeRecordQueryRequest(msg.body)
    BY <1>4 DEF ReadAs, Guests
  <2> QED
    BY <1>4, <2>1, <2>2, RequestTypesAre, RecordsListed, ListedCalls
<1>5. CASE msg.type = 6145 /\ loggedIn
  <2>1. a \in HandlePtzControl(msg.body)
    BY <1>5 DEF Answers
  <2>2. ReadAs(msg.type, msg.body) = ParsePtzControl(msg.body)
    BY <1>5 DEF ReadAs, Guests
  <2> QED
    BY <1>5, <2>1, <2>2, RequestTypesAre DEF HandlePtzControl, Controlled, Answer, Refusal
<1>6. CASE msg.type \in {5121, 5377, 5633, 5889} /\ loggedIn
  <2>1. a \in HandleControl(msg.type, msg.body)
    BY <1>6 DEF Answers
  <2>2. PICK p : p = ReadAs(msg.type, msg.body)
    OBVIOUS
  <2>3. HandleControl(msg.type, msg.body) =
          Controlled(msg.type, p, INVALID_PACKET, p.ok /\ msg.type = 5633 => p.fields[1] # 0)
    BY <1>6, <2>2 DEF HandleControl, ReadAs, Guests
  <2>4. a \in Controlled(msg.type, p, INVALID_PACKET, p.ok /\ msg.type = 5633 => p.fields[1] # 0)
    BY <2>1, <2>3
  <2>5. p.ok /\ a.f = p.fields
    BY <2>4 DEF Controlled, Answer, Refusal
  <2> QED
    BY <1>6, <2>2, <2>5, RequestTypesAre
<1>7. CASE msg.type \notin RequestTypes
  <2>1. \A t \in {4097, 4353, 4609, 4865, 6145, 5121, 5377, 5633, 5889} : msg.type # t
    BY <1>7, RequestTypesAre
  <2>2. a = Refusal(UNKNOWN_MESSAGE, <<>>, EncodeControlResponse(UNKNOWN_MESSAGE))
    BY <1>7, <2>1 DEF Answers
  <2>3. a.called = FALSE
    BY <2>2 DEF Answer, Refusal
  <2> QED
    BY <2>3
<1> QED
  BY <1>1, <1>2, <1>3, <1>4, <1>5, <1>6, <1>7, RequestTypesAre DEF Guests

-------------------------------------------------------------------------------
(* Answers: what the client reads is what the handler meant.                 *)

D == 0 .. Base - 1

LEMMA CodesFit ==
  Values("u32") \subseteq Nat /\ \A code \in Nat : code < 10000 => code \in Values("u32")
<1>1. PICK d \in Nat : Base = 100 + d
  <2>1. Base - 100 \in Nat /\ Base = 100 + (Base - 100)
    BY BaseIs
  <2> QED
    BY <2>1
<1>2. Base * Base = 10000 + (200 * d + d * d) /\ d * d \in Nat
  BY <1>1
<1>3. Base * Base \in Nat /\ Base * Base >= 10000
  BY <1>2
<1>4. Values("u32") = 0 .. Base * Base - 1
  BY DEF Values
<1>5. PICK x \in Nat : x = Base * Base /\ x >= 10000
  BY <1>3
<1>6. Values("u32") = 0 .. x - 1
  BY <1>4, <1>5
<1> QED
  BY <1>5, <1>6

LEMMA CodesAre ==
  /\ INVALID_PACKET \in Values("u32") /\ INVALID_PARAMETER \in Values("u32")
  /\ UNAUTHORIZED \in Values("u32") /\ UNKNOWN_MESSAGE \in Values("u32")
  /\ INVALID_PACKET # SUCCESS /\ UNKNOWN_MESSAGE # SUCCESS
BY CodesFit DEF INVALID_PACKET, INVALID_PARAMETER, UNAUTHORIZED, UNKNOWN_MESSAGE, SUCCESS

ReadsAnswer(d, code, fields) == d = [ok |-> TRUE, code |-> code, fields |-> fields]

(* A result code alone. *)
LEMMA ControlTells ==
  ASSUME NEW code \in Values("u32")
  PROVE  /\ EncodeControlResponse(code) \in Seq(D) /\ Len(EncodeControlResponse(code)) = 2
         /\ ReadsAnswer(Read(Parse(<<"u32">>, EncodeControlResponse(code)), 1), code, <<>>)
<1>1. "u32" \in Kinds \ {"str"} /\ Width("u32") = 2
  BY DEF Kinds, Width
<1>2. PICK body : body = EncodeControlResponse(code)
  OBVIOUS
<1>3. body = Digits(code, Width("u32"))
  BY <1>2 DEF EncodeControlResponse
<1>4. body \in Seq(D) /\ Len(body) = 2 /\ ParsesTo(<<"u32">>, body, <<code>>)
  BY <1>1, <1>3, SingleBody DEF D
<1>5. PICK p : p = Parse(<<"u32">>, body)
  OBVIOUS
<1>6. p.ok = TRUE /\ p.fields = <<code>>
  BY <1>4, <1>5 DEF ParsesTo
<1>7. SubSeq(<<code>>, 1, 1 - 1) \o Drop(<<code>>, 1) = <<>> /\ <<code>>[1] = code
  <2>1. SubSeq(<<code>>, 1, 0) = <<>> /\ SubSeq(<<code>>, 2, 1) = <<>>
    OBVIOUS
  <2>2. Drop(<<code>>, 1) = SubSeq(<<code>>, 2, 1)
    BY DEF Drop
  <2>3. <<>> \o <<>> = <<>>
    OBVIOUS
  <2> QED
    BY <2>1, <2>2, <2>3
<1>8. ReadsAnswer(Read(p, 1), code, <<>>)
  BY <1>6, <1>7 DEF Read, ReadsAnswer
<1> QED
  BY <1>2, <1>4, <1>5, <1>8

(* Bodies of two and of three fields. *)
LEMMA PairBody ==
  ASSUME NEW k1 \in Kinds, NEW k2 \in Kinds, NEW v1 \in Values(k1), NEW v2 \in Values(k2),
         Encodable(k1, v1), Encodable(k2, v2)
  PROVE  \E body \in Seq(D) :
           /\ Body(<<k1, k2>>, <<v1, v2>>).body = body /\ ParsesTo(<<k1, k2>>, body, <<v1, v2>>)
           /\ Len(body) = Len(Cells(k1, v1)) + Len(Cells(k2, v2))
<1>1. PICK l : l = <<k1, k2>>
  OBVIOUS
<1>2. PICK f : f = <<v1, v2>>
  OBVIOUS
<1>3. l \in Layouts /\ Len(l) = 2 /\ l[1] = k1 /\ l[2] = k2
  BY <1>1 DEF Layouts
<1>4. f = [i \in 1 .. 2 |-> f[i]] /\ f[1] = v1 /\ f[2] = v2
  BY <1>2
<1>5. \A i \in 1 .. 2 : i = 1 \/ i = 2
  OBVIOUS
<1>6. Encodables(l, f)
  BY <1>3, <1>4, <1>5 DEF Encodables, Typed
<1>7. PICK body, u : Body(l, f) = [ok |-> TRUE, body |-> body] /\ Spelled(l, f, body, u)
  BY <1>6, BodyIs
<1>8. body \in Seq(D) /\ u[2] = body /\ u[0] = <<>> /\ Len(u[0]) = 0
  BY <1>3, <1>7 DEF Spelled, D
<1>9. ParsesTo(l, body, f)
  BY <1>6, <1>7, SpelledParses
<1>10. 1 \in 1 .. 2 /\ 2 \in 1 .. 2 /\ 1 - 1 = 0 /\ 2 - 1 = 1
  OBVIOUS
<1>11. Len(u[1]) = Len(u[0]) + Len(Cells(k1, v1))
  BY <1>3, <1>4, <1>7, <1>10 DEF Spelled
<1>12. Len(u[2]) = Len(u[1]) + Len(Cells(k2, v2))
  BY <1>3, <1>4, <1>7, <1>10 DEF Spelled
<1>13. Len(Cells(k1, v1)) \in Nat /\ Len(Cells(k2, v2)) \in Nat
  <2>1. Cells(k1, v1) \in Seq(0 .. Base - 1) /\ Cells(k2, v2) \in Seq(0 .. Base - 1)
    BY FieldReads
  <2> QED
    BY <2>1, LenProperties, Zenon
<1>14. Len(body) = Len(Cells(k1, v1)) + Len(Cells(k2, v2))
  BY <1>8, <1>11, <1>12, <1>13
<1>15. Body(l, f).body = body
  BY <1>7
<1> QED
  BY <1>1, <1>2, <1>8, <1>9, <1>14, <1>15

LEMMA TripleBody ==
  ASSUME NEW k1 \in Kinds, NEW k2 \in Kinds, NEW k3 \in Kinds,
         NEW v1 \in Values(k1), NEW v2 \in Values(k2), NEW v3 \in Values(k3),
         Encodable(k1, v1), Encodable(k2, v2), Encodable(k3, v3)
  PROVE  \E body \in Seq(D) :
           /\ Body(<<k1, k2, k3>>, <<v1, v2, v3>>).body = body
           /\ ParsesTo(<<k1, k2, k3>>, body, <<v1, v2, v3>>)
           /\ Len(body) = Len(Cells(k1, v1)) + Len(Cells(k2, v2)) + Len(Cells(k3, v3))
<1>1. PICK l : l = <<k1, k2, k3>>
  OBVIOUS
<1>2. PICK f : f = <<v1, v2, v3>>
  OBVIOUS
<1>3. l \in Layouts /\ Len(l) = 3 /\ l[1] = k1 /\ l[2] = k2 /\ l[3] = k3
  BY <1>1 DEF Layouts
<1>4. f = [i \in 1 .. 3 |-> f[i]] /\ f[1] = v1 /\ f[2] = v2 /\ f[3] = v3
  BY <1>2
<1>5. \A i \in 1 .. 3 : i = 1 \/ i = 2 \/ i = 3
  OBVIOUS
<1>6. Encodables(l, f)
  BY <1>3, <1>4, <1>5 DEF Encodables, Typed
<1>7. PICK body, u : Body(l, f) = [ok |-> TRUE, body |-> body] /\ Spelled(l, f, body, u)
  BY <1>6, BodyIs
<1>8. body \in Seq(D) /\ u[3] = body /\ u[0] = <<>> /\ Len(u[0]) = 0
  BY <1>3, <1>7 DEF Spelled, D
<1>9. ParsesTo(l, body, f)
  BY <1>6, <1>7, SpelledParses
<1>10. 1 \in 1 .. 3 /\ 2 \in 1 .. 3 /\ 3 \in 1 .. 3 /\ 1 - 1 = 0 /\ 2 - 1 = 1 /\ 3 - 1 = 2
  OBVIOUS
<1>11. Len(u[1]) = Len(u[0]) + Len(Cells(k1, v1))
  BY <1>3, <1>4, <1>7, <1>10 DEF Spelled
<1>12. Len(u[2]) = Len(u[1]) + Len(Cells(k2, v2))
  BY <1>3, <1>4, <1>7, <1>10 DEF Spelled
<1>13. Len(u[3]) = Len(u[2]) + Len(Cells(k3, v3))
  BY <1>3, <1>4, <1>7, <1>10 DEF Spelled
<1>14. /\ Len(Cells(k1, v1)) \in Nat /\ Len(Cells(k2, v2)) \in Nat /\ Len(Cells(k3, v3)) \in Nat
  <2>1. /\ Cells(k1, v1) \in Seq(0 .. Base - 1) /\ Cells(k2, v2) \in Seq(0 .. Base - 1)
        /\ Cells(k3, v3) \in Seq(0 .. Base - 1)
    BY FieldReads
  <2> QED
    BY <2>1, LenProperties, Zenon
<1>15. Len(body) = Len(Cells(k1, v1)) + Len(Cells(k2, v2)) + Len(Cells(k3, v3))
  BY <1>8, <1>11, <1>12, <1>13, <1>14
<1>16. Body(l, f).body = body
  BY <1>7
<1> QED
  BY <1>1, <1>2, <1>8, <1>9, <1>15, <1>16

(* The cells that a field takes. *)
LEMMA Takes ==
  /\ \A v \in Values("u32") : Len(Cells("u32", v)) = 2
  /\ \A v \in Values("u64") : Len(Cells("u64", v)) = 4
  /\ \A v \in Values("str") : Len(v) \in Nat /\ Len(Cells("str", v)) = 1 + Len(v)
<1>1. "u32" \in Kinds \ {"str"} /\ Width("u32") = 2 /\ "u64" \in Kinds \ {"str"} /\ Width("u64") = 4
  BY DEF Kinds, Width
<1>2. \A v \in Values("u32") : Len(Digits(v, Width("u32"))) = Width("u32")
  BY <1>1, NumberBack
<1>3. \A v \in Values("u64") : Len(Digits(v, Width("u64"))) = Width("u64")
  BY <1>1, NumberBack
<1>4. ASSUME NEW v \in Values("str") PROVE Len(v) \in Nat /\ Len(Cells("str", v)) = 1 + Len(v)
  <2>1. v \in Seq(0 .. Base - 1)
    BY DEF Values
  <2>2. v \in Seq(Nat)
    BY <2>1, CellsAreNat
  <2>3. Len(v) \in Nat
    BY <2>1, LenProperties, Zenon
  <2>4. PICK h : h = <<Len(v)>>
    OBVIOUS
  <2>5. h \in Seq(Nat) /\ Len(h) = 1
    BY <2>3, <2>4
  <2>6. Len(h \o v) = Len(h) + Len(v)
    BY <2>2, <2>5, Joined
  <2> QED
    BY <2>3, <2>4, <2>5, <2>6 DEF Cells
<1>5. \A v : Cells("u32", v) = Digits(v, Width("u32")) /\ Cells("u64", v) = Digits(v, Width("u64"))
  BY DEF Cells
<1> QED
  BY <1>1, <1>2, <1>3, <1>4, <1>5

(* Cutting the result code out of the fields. *)
LEMMA TwoFields ==
  ASSUME NEW a, NEW b
  PROVE  SubSeq(<<a, b>>, 1, 1 - 1) = <<>> /\ SubSeq(<<a, b>>, 2, 2) = <<b>>
<1>1. PICK f : f = <<a, b>>
  OBVIOUS
<1>2. f \in Seq({a, b}) /\ Len(f) = 2 /\ f[2] = b
  BY <1>1
<1>3. SubSeq(f, 1, 0) \in Seq({a, b}) /\ Len(SubSeq(f, 1, 0)) = 0
  BY <1>2, SubSeqProperties
<1>4. /\ SubSeq(f, 2, 2) \in Seq({a, b}) /\ Len(SubSeq(f, 2, 2)) = 1
      /\ SubSeq(f, 2, 2)[1] = f[2]
  BY <1>2, SubSeqProperties
<1>5. SubSeq(f, 2, 2) = <<b>>
  <2>1. PICK s : s = SubSeq(f, 2, 2)
    OBVIOUS
  <2>2. s \in Seq({a, b}) /\ Len(s) = 1 /\ s[1] = b
    BY <1>2, <1>4, <2>1
  <2>3. <<b>> \in Seq({a, b}) /\ Len(<<b>>) = 1 /\ <<b>>[1] = b
    OBVIOUS
  <2>4. \A i \in 1 .. Len(s) : s[i] = <<b>>[i]
    BY <2>2, <2>3
  <2> QED
    BY <2>1, <2>2, <2>3, <2>4, SeqEqual
<1>6. SubSeq(f, 1, 0) = <<>>
  BY <1>3
<1> QED
  BY <1>1, <1>5, <1>6

LEMMA ThreeFields ==
  ASSUME NEW a, NEW b, NEW c
  PROVE  SubSeq(<<a, b, c>>, 1, 3 - 1) = <<a, b>> /\ SubSeq(<<a, b, c>>, 4, 3) = <<>>
<1>1. PICK f : f = <<a, b, c>>
  OBVIOUS
<1>2. f \in Seq({a, b, c}) /\ Len(f) = 3 /\ f[1] = a /\ f[2] = b
  BY <1>1
<1>3. SubSeq(f, 4, 3) \in Seq({a, b, c}) /\ Len(SubSeq(f, 4, 3)) = 0
  BY <1>2, SubSeqProperties
<1>4. PICK s : s = SubSeq(f, 1, 2)
  OBVIOUS
<1>5. s \in Seq({a, b, c}) /\ Len(s) = 2 /\ s[1] = f[1] /\ s[2] = f[2]
  BY <1>2, <1>4, SubSeqProperties
<1>6. PICK g : g = <<a, b>>
  OBVIOUS
<1>7. g \in Seq({a, b, c}) /\ Len(g) = 2 /\ g[1] = a /\ g[2] = b
  BY <1>6
<1>8. \A i \in 1 .. 2 : i = 1 \/ i = 2
  OBVIOUS
<1>9. \A i \in 1 .. Len(s) : s[i] = g[i]
  BY <1>2, <1>5, <1>7, <1>8
<1>10. s = g
  BY <1>5, <1>7, <1>9, SeqEqual
<1>11. SubSeq(f, 4, 3) = <<>>
  BY <1>3
<1>12. 3 - 1 = 2
  OBVIOUS
<1> QED
  BY <1>1, <1>4, <1>6, <1>10, <1>11, <1>12, Zenon

LEMMA RegisterTells ==
  ASSUME NEW code \in Values("u32"), NEW c \in D
  PROVE  LET body == EncodeRegisterResponse(code, <<c>>) IN
         /\ body \in Seq(D) /\ Len(body) <= MaxBody
         /\ ReadsAnswer(DecodeRegisterResponse(body), code, <<<<c>>>>)
<1>1. "u32" \in Kinds /\ "str" \in Kinds /\ <<c>> \in Values("str") /\ Len(<<c>>) = 1
  BY DEF Kinds, Values, D
<1>2. Encodable("u32", code) /\ Encodable("str", <<c>>)
  BY <1>1, BaseIs DEF Encodable, MaxString
<1>3. PICK body \in Seq(D) :
         /\ Body(<<"u32", "str">>, <<code, <<c>>>>).body = body
         /\ ParsesTo(<<"u32", "str">>, body, <<code, <<c>>>>)
         /\ Len(body) = Len(Cells("u32", code)) + Len(Cells("str", <<c>>))
  BY <1>1, <1>2, PairBody
<1>4. EncodeRegisterResponse(code, <<c>>) = body
  BY <1>3 DEF EncodeRegisterResponse
<1>5. Len(body) = 4
  <2>1. Len(Cells("u32", code)) = 2
    BY Takes
  <2>2. Len(Cells("str", <<c>>)) = 1 + 1
    BY <1>1, Takes
  <2>3. Len(body) = 2 + (1 + 1)
    BY <1>3, <2>1, <2>2, Zenon
  <2> QED
    BY <2>3
<1>6. DecodeRegisterResponse(body) = Read(Parse(<<"u32", "str">>, body), 1)
  BY <1>5 DEF DecodeRegisterResponse
<1>7. PICK p : p = Parse(<<"u32", "str">>, body)
  OBVIOUS
<1>8. p.ok = TRUE /\ p.fields = <<code, <<c>>>>
  BY <1>3, <1>7 DEF ParsesTo
<1>9. SubSeq(p.fields, 1, 1 - 1) \o Drop(p.fields, 1) = <<<<c>>>> /\ p.fields[1] = code
  <2>1. PICK f : f = <<code, <<c>>>>
    OBVIOUS
  <2>2. f \in Seq({code, <<c>>}) /\ Len(f) = 2 /\ f[1] = code /\ f[2] = <<c>>
    BY <2>1
  <2>3. SubSeq(f, 1, 1 - 1) = <<>> /\ SubSeq(f, 2, 2) = <<f[2]>>
    BY <2>1, <2>2, TwoFields
  <2>4. Drop(f, 1) = SubSeq(f, 2, 2)
    BY <2>2 DEF Drop
  <2>5. <<>> \o <<f[2]>> = <<f[2]>>
    OBVIOUS
  <2> QED
    BY <1>8, <2>1, <2>2, <2>3, <2>4, <2>5
<1>10. ReadsAnswer(Read(p, 1), code, <<<<c>>>>)
  BY <1>8, <1>9 DEF Read, ReadsAnswer
<1>11. Len(body) <= MaxBody
  BY <1>5, BodyLimit
<1> QED
  BY <1>4, <1>6, <1>7, <1>10, <1>11

LEMMA LoginTells ==
  ASSUME NEW userId \in Values("u64"), NEW token \in Values("str"), NEW code \in Values("u32"),
         Len(token) <= MaxString, 7 + Len(token) <= MaxBody
  PROVE  LET body == EncodeLoginResponse(userId, token, code) IN
         /\ body \in Seq(D) /\ Len(body) <= MaxBody
         /\ ReadsAnswer(DecodeLoginResponse(body), code, <<userId, token>>)
<1>1. "u32" \in Kinds /\ "u64" \in Kinds /\ "str" \in Kinds
  BY DEF Kinds
<1>2. Encodable("u64", userId) /\ Encodable("str", token) /\ Encodable("u32", code)
  BY DEF Encodable
<1>3. PICK body \in Seq(D) :
         /\ Body(<<"u64", "str", "u32">>, <<userId, token, code>>).body = body
         /\ ParsesTo(<<"u64", "str", "u32">>, body, <<userId, token, code>>)
         /\ Len(body) = Len(Cells("u64", userId)) + Len(Cells("str", token)) + Len(Cells("u32", code))
  BY <1>1, <1>2, TripleBody
<1>4. EncodeLoginResponse(userId, token, code) = body
  BY <1>3 DEF EncodeLoginResponse
<1>5. Len(body) <= MaxBody
  <2>1. Len(body) = 4 + (1 + Len(token)) + 2 /\ Len(token) \in Nat
    BY <1>3, Takes
  <2> QED
    BY <2>1, BodyLimit
<1>6. DecodeLoginResponse(body) = Read(Parse(<<"u64", "str", "u32">>, body), 3)
  BY DEF DecodeLoginResponse
<1>7. PICK p : p = Parse(<<"u64", "str", "u32">>, body)
  OBVIOUS
<1>8. p.ok = TRUE /\ p.fields = <<userId, token, code>>
  BY <1>3, <1>7 DEF ParsesTo
<1>9. SubSeq(p.fields, 1, 3 - 1) \o Drop(p.fields, 3) = <<userId, token>> /\ p.fields[3] = code
  <2>1. PICK f : f = <<userId, token, code>>
    OBVIOUS
  <2>2. f \in Seq({userId, token, code}) /\ Len(f) = 3 /\ f[1] = userId /\ f[2] = token /\ f[3] = code
    BY <2>1
  <2>3. SubSeq(f, 1, 3 - 1) = <<f[1], f[2]>> /\ SubSeq(f, 4, 3) = <<>>
    BY <2>1, <2>2, ThreeFields
  <2>4. Drop(f, 3) = SubSeq(f, 4, 3)
    BY <2>2 DEF Drop
  <2>5. <<f[1], f[2]>> \o <<>> = <<f[1], f[2]>>
    OBVIOUS
  <2> QED
    BY <1>8, <2>1, <2>2, <2>3, <2>4, <2>5
<1>10. ReadsAnswer(Read(p, 3), code, <<userId, token>>)
  BY <1>8, <1>9 DEF Read, ReadsAnswer
<1> QED
  BY <1>4, <1>5, <1>6, <1>7, <1>10

(* What the client reads in the body of an answer to a request of a type. *)
ReadAnswer(type, body) ==
  CASE type = 4097 -> DecodeRegisterResponse(body)
    [] type = 4353 -> DecodeLoginResponse(body)
    [] type = 4609 -> DecodeDeviceListResponse(body)
    [] type = 4865 -> DecodeRecordQueryResponse(body)
    [] type = 5121 -> DecodeStreamStartResponse(body)
    [] type = 5377 -> DecodeStreamStopResponse(body)
    [] type = 5633 -> DecodeRecordStartResponse(body)
    [] type = 5889 -> DecodeRecordStopResponse(body)
    [] type = 6145 -> DecodePtzControlResponse(body)

LEMMA DecodedIs ==
  ASSUME NEW type \in RequestTypes, NEW msg
  PROVE  Decoded(type, msg) = IF msg.type = type + 1 THEN ReadAnswer(type, msg.body) ELSE Unreadable
<1>1. CASE msg.type = type + 1
  <2>1. Decoded(type, msg) = ReadAnswer(type, msg.body)
    BY <1>1, RequestTypesAre DEF Decoded, ReadAnswer
  <2> QED
    BY <1>1, <2>1
<1>2. CASE msg.type # type + 1
  BY <1>2 DEF Decoded
<1> QED
  BY <1>1, <1>2

(* The body says what the answer is, or that it is a list which does not fit. *)
Tells(type, code, fields, body) ==
  /\ body \in Seq(D) /\ Len(body) <= MaxBody
  /\ \/ ReadsAnswer(ReadAnswer(type, body), code, fields)
     \/ ~ReadAnswer(type, body).ok /\ TooLarge(type, [code |-> code, fields |-> fields])

(* The fields behind the first one. *)
LEMMA BehindFirst ==
  ASSUME NEW S, NEW c \in S, NEW r \in Seq(S)
  PROVE  SubSeq(<<c>> \o r, 1, 1 - 1) \o Drop(<<c>> \o r, 1) = r /\ (<<c>> \o r)[1] = c
<1>1. PICK h : h = <<c>>
  OBVIOUS
<1>2. h \in Seq(S) /\ Len(h) = 1 /\ h[1] = c
  BY <1>1
<1>3. PICK f : f = h \o r
  OBVIOUS
<1>4. /\ f \in Seq(S) /\ Len(f) = Len(h) + Len(r)
      /\ \A i \in 1 .. Len(h) : f[i] = h[i]
      /\ \A i \in 1 .. Len(r) : f[Len(h) + i] = r[i]
  <2>1. h \in Seq(S) /\ r \in Seq(S)
    BY <1>2
  <2> QED
    BY <1>3, <2>1, Joined
<1>5. PICK n \in Nat : n = Len(r)
  OBVIOUS
<1>6. Len(f) = 1 + n /\ f[1] = c /\ \A i \in 1 .. n : f[1 + i] = r[i]
  <2>1. 1 \in 1 .. 1
    OBVIOUS
  <2> QED
    BY <1>2, <1>4, <1>5, <2>1
<1>7. SubSeq(f, 2, Len(f)) = r
  <2>1. \A j \in 1 .. Len(r) : f[2 + j - 1] = r[j]
    <3>1. \A j \in 1 .. n : 2 + j - 1 = 1 + j
      OBVIOUS
    <3> QED
      BY <1>5, <1>6, <3>1
  <2>2. 2 \in Nat \ {0} /\ 2 - 1 + Len(r) <= Len(f) /\ 2 + Len(r) - 1 = Len(f)
    BY <1>5, <1>6
  <2>3. SubSeq(f, 2, 2 + Len(r) - 1) = r
    BY <1>4, <2>1, <2>2, CutOut
  <2> QED
    BY <2>2, <2>3
<1>8. SubSeq(f, 1, 1 - 1) = <<>>
  <2>1. 1 - 1 < 1 /\ 1 - 1 \in Int /\ 1 \in Int
    OBVIOUS
  <2> QED
    BY <2>1, SubSeqEmpty
<1>9. Drop(f, 1) = SubSeq(f, 2, Len(f))
  BY DEF Drop
<1>10. <<>> \o r = r
  OBVIOUS
<1> QED
  BY <1>1, <1>3, <1>6, <1>7, <1>8, <1>9, <1>10, Zenon

(* A list arrives as it is, or it is too large and no list arrives. *)
ListSaid(item, code, items, body) ==
  /\ body \in Seq(D) /\ Len(body) <= MaxBody
  /\ \/ ReadsAnswer(Read(ParseList(item, body), 1), code, <<Len(items)>> \o Flat(items))
     \/ /\ Read(ParseList(item, body), 1) = Unreadable
        /\ \/ Len(items) > MaxString
           \/ Len(Body(ListLayout(item, Len(items)),
                       <<code>> \o (<<Len(items)>> \o Flat(items))).body) > MaxBody

LEMMA ListTells ==
  ASSUME NEW item \in Layouts, NEW code \in Values("u32"), NEW items \in Seq(Seq(Value)),
         \A i \in 1 .. Len(items) : Fits(item, items[i])
  PROVE  ListSaid(item, code, items, ListBody(item, code, items).body)
<1>1. PICK n \in Nat : n = Len(items)
  OBVIOUS
<1>2. PICK l : l = ListLayout(item, n)
  OBVIOUS
<1>3. PICK f : f = <<code, n>> \o Flat(items)
  OBVIOUS
<1>4. PICK rest : rest = <<n>> \o Flat(items)
  OBVIOUS
<1>5. Flat(items) \in Seq(Value) /\ code \in Value
  BY FlatFits DEF Fits, Value, Kinds
<1>6. f = <<code>> \o rest
  <2> DEFINE S == Value \cup Nat
  <2>1. Flat(items) \in Seq(S) /\ <<code>> \in Seq(S) /\ <<n>> \in Seq(S)
    BY <1>5
  <2>2. <<code>> \o <<n>> = <<code, n>>
    <3>1. PICK a, b, c : a = <<code>> /\ b = <<n>> /\ c = <<code, n>>
      OBVIOUS
    <3>2. a \in Seq(S) /\ b \in Seq(S) /\ Len(a) = 1 /\ Len(b) = 1 /\ a[1] = code /\ b[1] = n
      BY <2>1, <3>1
    <3>3. c \in Seq(S) /\ Len(c) = 2 /\ c[1] = code /\ c[2] = n
      BY <1>5, <3>1
    <3>4. 1 \in 1 .. 1 /\ 1 + 1 = 2
      OBVIOUS
    <3> HIDE DEF S
    <3>5. /\ a \o b \in Seq(S) /\ Len(a \o b) = Len(a) + Len(b)
          /\ \A i \in 1 .. Len(a) : (a \o b)[i] = a[i]
          /\ \A i \in 1 .. Len(b) : (a \o b)[Len(a) + i] = b[i]
      <4>1. a \in Seq(S) /\ b \in Seq(S)
        BY <3>2
      <4> QED
        BY <4>1, Joined
    <3>6. Len(a \o b) = 2 /\ (a \o b)[1] = code /\ (a \o b)[2] = n
      BY <3>2, <3>4, <3>5
    <3>7. \A i \in 1 .. 2 : i = 1 \/ i = 2
      OBVIOUS
    <3>8. \A i \in 1 .. Len(c) : (a \o b)[i] = c[i]
      BY <3>3, <3>6, <3>7
    <3>9. a \o b = c
      BY <3>3, <3>5, <3>6, <3>8, SeqEqual
    <3> QED
      BY <3>1, <3>9
  <2> HIDE DEF S
  <2>3. (<<code>> \o <<n>>) \o Flat(items) = <<code>> \o (<<n>> \o Flat(items))
    BY <2>1, ConcatAssociative
  <2> QED
    BY <1>3, <1>4, <2>2, <2>3
<1>7. PICK written : written = Body(l, f)
  OBVIOUS
<1>8. PICK body : body = ListBody(item, code, items).body
  OBVIOUS
<1>9. ListBody(item, code, items)
        = IF n < Base /\ Len(written.body) <= MaxBody THEN written ELSE [ok |-> FALSE, body |-> <<>>]
  BY <1>1, <1>2, <1>3, <1>7, Zenon DEF ListBody
<1>10. CASE n < Base /\ Len(written.body) <= MaxBody
  <2>1. Fits(l, f)
    BY <1>1, <1>2, <1>3, <1>10, ListFits
  <2>2. Encodables(l, f)
    BY <2>1, FitsAre
  <2>3. PICK b, u : Body(l, f) = [ok |-> TRUE, body |-> b] /\ Spelled(l, f, b, u)
    BY <2>2, BodyIs
  <2>4. body = b /\ written.body = b
    BY <1>7, <1>8, <1>9, <1>10, <2>3
  <2>5. Len(b) >= 3 /\ b[3] = n
    BY <1>1, <1>2, <1>3, <1>10, <2>3, ListCount
  <2>6. ParsesTo(l, b, f) /\ b \in Seq(D)
    BY <2>2, <2>3, SpelledParses DEF Spelled, D
  <2>7. ParseList(item, b) = Parse(l, b)
    <3>1. Len(b) \in Nat
      BY <2>6, LenProperties, Zenon
    <3>2. ~(Len(b) < 3)
      BY <2>5, <3>1
    <3> QED
      BY <1>2, <2>5, <3>2 DEF ParseList
  <2>8. PICK p : p = Parse(l, b)
    OBVIOUS
  <2>9. p.ok = TRUE /\ p.fields = f
    BY <2>6, <2>8 DEF ParsesTo
  <2>10. SubSeq(f, 1, 1 - 1) \o Drop(f, 1) = rest /\ f[1] = code
    <3> DEFINE S == Value \cup Nat
    <3>1. code \in S /\ rest \in Seq(S)
      <4>1. PICK h : h = <<n>>
        OBVIOUS
      <4>2. h \in Seq(S) /\ Flat(items) \in Seq(S)
        BY <1>5, <4>1
      <4> HIDE DEF S
      <4>3. h \o Flat(items) \in Seq(S)
        BY <4>2, Joined
      <4> QED
        BY <1>4, <1>5, <4>1, <4>3 DEF S
    <3> HIDE DEF S
    <3> QED
      BY <1>6, <3>1, BehindFirst
  <2>11. ReadsAnswer(Read(p, 1), code, rest)
    BY <2>9, <2>10 DEF Read, ReadsAnswer
  <2>12. Len(b) <= MaxBody
    BY <1>10, <2>4
  <2> QED
    BY <1>1, <1>4, <1>8, <2>4, <2>6, <2>7, <2>8, <2>11, <2>12 DEF ListSaid
<1>11. CASE ~(n < Base /\ Len(written.body) <= MaxBody)
  <2>1. body = <<>>
    BY <1>8, <1>9, <1>11
  <2>2. <<>> \in Seq(D) /\ Len(<<>>) = 0 /\ Len(<<>>) <= MaxBody
    BY BodyLimit
  <2>3. PICK p : p = ParseList(item, <<>>)
    OBVIOUS
  <2>4. p.ok = FALSE
    BY <2>2, <2>3 DEF ParseList
  <2>5. Read(p, 1) = Unreadable
    BY <2>4 DEF Read
  <2>6. CASE ~(n < Base)
    <3>1. Len(items) > MaxString
      BY <1>1, <2>6, BaseIs DEF MaxString
    <3> QED
      BY <1>8, <2>1, <2>2, <2>3, <2>5, <3>1 DEF ListSaid
  <2>7. CASE n < Base /\ ~(Len(written.body) <= MaxBody)
    <3>1. Fits(l, f)
      BY <1>1, <1>2, <1>3, <2>7, ListFits
    <3>2. Encodables(l, f)
      BY <3>1, FitsAre
    <3>3. PICK b \in Seq(D) : Body(l, f) = [ok |-> TRUE, body |-> b]
      <4>1. PICK b, u : Body(l, f) = [ok |-> TRUE, body |-> b] /\ Spelled(l, f, b, u)
        BY <3>2, BodyIs
      <4>2. b \in Seq(D)
        BY <4>1 DEF Spelled, D
      <4> QED
        BY <4>1, <4>2
    <3>4. Len(b) \in Nat
      BY LenProperties, Zenon
    <3>5. Len(written.body) > MaxBody
      <4>1. written.body = b
        BY <1>7, <3>3
      <4> QED
        BY <2>7, <3>4, <4>1, BodyLimit
    <3>6. Len(Body(ListLayout(item, Len(items)),
                   <<code>> \o (<<Len(items)>> \o Flat(items))).body) > MaxBody
      BY <1>1, <1>2, <1>4, <1>6, <1>7, <3>5
    <3> QED
      BY <1>8, <2>1, <2>2, <2>3, <2>5, <3>6 DEF ListSaid
  <2> QED
    BY <1>11, <2>6, <2>7
<1> QED
  BY <1>10, <1>11

IsAnswer(a, code, fields, body) == a.code = code /\ a.fields = fields /\ a.body = body

LEMMA AnswerIs ==
  ASSUME NEW called, NEW f, NEW code, NEW fields, NEW body
  PROVE  /\ IsAnswer(Answer(called, f, code, fields, body), code, fields, body)
         /\ IsAnswer(Refusal(code, fields, body), code, fields, body)
BY DEF Answer, Refusal, IsAnswer

(* An answer tells the client its code and its fields; a login tells a user. *)
AnswerFits(type, a) ==
  /\ a.body \in Seq(D) /\ Len(a.body) <= MaxBody
  /\ type \in RequestTypes => Tells(type, a.code, a.fields, a.body)
  /\ type = 4353 => Typed(<<"u64", "str">>, a.fields)

RegisterAnswer(a, code) ==
  /\ code \in Values("u32")
  /\ IsAnswer(a, code, <<MessageFor(code)>>, EncodeRegisterResponse(code, MessageFor(code)))

LEMMA RegisterAnswers ==
  ASSUME NEW body, NEW a \in HandleRegister(body)
  PROVE  \E code : RegisterAnswer(a, code)
<1> DEFINE results == Results[4097]
<1>1. results \subseteq Values("u32")
  BY ResultsAssumption, RequestTypesAre
<1> DEFINE p == DecodeCredentials(body)
<1>2. HandleRegister(body) =
        IF ~p.ok THEN {Refusal(INVALID_PACKET, <<MessageFor(INVALID_PACKET)>>,
                               EncodeRegisterResponse(INVALID_PACKET, MessageFor(INVALID_PACKET)))}
        ELSE {Answer(TRUE, p.fields, code, <<MessageFor(code)>>,
                     EncodeRegisterResponse(code, MessageFor(code))) : code \in results}
  BY Zenon DEF HandleRegister
<1> HIDE DEF p, results
<1>3. ~p.ok => a = Refusal(INVALID_PACKET, <<MessageFor(INVALID_PACKET)>>,
                      EncodeRegisterResponse(INVALID_PACKET, MessageFor(INVALID_PACKET)))
  BY <1>2, Zenon
<1>4. p.ok => a \in {Answer(TRUE, p.fields, code, <<MessageFor(code)>>,
                            EncodeRegisterResponse(code, MessageFor(code))) : code \in results}
  BY <1>2, Zenon
<1>5. CASE ~p.ok
  BY <1>3, <1>5, CodesAre, AnswerIs, Zenon DEF RegisterAnswer
<1>6. CASE p.ok
  <2>1. PICK code \in results : a = Answer(TRUE, p.fields, code, <<MessageFor(code)>>,
                                           EncodeRegisterResponse(code, MessageFor(code)))
    BY <1>4, <1>6, Zenon
  <2> QED
    BY <1>1, <2>1, AnswerIs, Zenon DEF RegisterAnswer
<1> QED
  BY <1>5, <1>6

LEMMA RegisterFits ==
  ASSUME NEW body, NEW a \in HandleRegister(body)
  PROVE  AnswerFits(4097, a)
<1>1. PICK code : RegisterAnswer(a, code)
  BY RegisterAnswers
<1>2. PICK c \in D : MessageFor(code) = <<c>>
  <2>1. code \in Nat
    BY <1>1, CodesFit DEF RegisterAnswer
  <2>2. code % Base \in D
    BY <2>1, BaseIs DEF D
  <2> QED
    BY <2>2 DEF MessageFor
<1>3. PICK b : b = EncodeRegisterResponse(code, <<c>>)
  OBVIOUS
<1>4. PICK v : v = <<<<c>>>>
  OBVIOUS
<1>5. b \in Seq(D) /\ Len(b) <= MaxBody /\ ReadsAnswer(DecodeRegisterResponse(b), code, v)
  BY <1>1, <1>3, <1>4, RegisterTells, Zenon DEF RegisterAnswer
<1>6. a.code = code /\ a.fields = v /\ a.body = b
  BY <1>1, <1>2, <1>3, <1>4, Zenon DEF RegisterAnswer, IsAnswer
<1>7. ReadAnswer(4097, b) = DecodeRegisterResponse(b)
  BY DEF ReadAnswer
<1>8. Tells(4097, code, v, b)
  BY <1>5, <1>7 DEF Tells
<1> QED
  BY <1>5, <1>6, <1>8 DEF AnswerFits

Login(userId, token, code) ==
  /\ userId \in Values("u64") /\ token \in Values("str") /\ code \in Values("u32")
  /\ Len(token) <= MaxString /\ 7 + Len(token) <= MaxBody

LoginAnswer(a, userId, token, code) ==
  /\ Login(userId, token, code)
  /\ IsAnswer(a, code, <<userId, token>>, EncodeLoginResponse(userId, token, code))

LEMMA LoginsFound ==
  ASSUME NEW r \in Results[4353] PROVE Login(r.userId, r.token, r.code)
<1>1. /\ Typed(<<"u64", "str", "u32">>, <<r.userId, r.token, r.code>>)
      /\ Len(r.token) <= MaxString /\ 7 + Len(r.token) <= MaxBody
  BY ResultsAssumption
<1> DEFINE l == <<"u64", "str", "u32">>
           v == <<r.userId, r.token, r.code>>
<1>2. Len(l) = 3 /\ l[1] = "u64" /\ l[2] = "str" /\ l[3] = "u32"
  OBVIOUS
<1>3. v[1] = r.userId /\ v[2] = r.token /\ v[3] = r.code
  OBVIOUS
<1>4. \A i \in 1 .. Len(l) : v[i] \in Values(l[i])
  BY <1>1 DEF Typed
<1>5. 1 \in 1 .. 3 /\ 2 \in 1 .. 3 /\ 3 \in 1 .. 3
  OBVIOUS
<1> HIDE DEF l, v
<1>6. v[1] \in Values("u64") /\ v[2] \in Values("str") /\ v[3] \in Values("u32")
  BY <1>2, <1>4, <1>5
<1> QED
  BY <1>1, <1>3, <1>6 DEF Login

LEMMA NoLogin == Login(0, <<>>, INVALID_PACKET)
<1>1. 0 \in Values("u64")
  <2>1. PICK y \in Nat : y = Base * Base /\ y >= 1
    BY BaseIs
  <2>2. y * y \in Nat /\ y * y >= 1
    BY <2>1
  <2>3. PICK x \in Nat : x = y * y /\ x >= 1
    BY <2>2
  <2>4. x = Base * Base * Base * Base
    BY <2>1, <2>3, BaseIs
  <2>5. 0 \in 0 .. x - 1
    BY <2>3
  <2> QED
    BY <2>4, <2>5 DEF Values
<1>2. <<>> \in Values("str") /\ Len(<<>>) = 0
  BY DEF Values
<1> QED
  BY <1>1, <1>2, CodesAre, BodyLimit, BaseIs DEF MaxString, Login

LEMMA LoginAnswers ==
  ASSUME NEW body, NEW a \in HandleLogin(body)
  PROVE  \E userId, token, code : LoginAnswer(a, userId, token, code)
<1> DEFINE results == Results[4353]
<1>1. \A r \in results : Login(r.userId, r.token, r.code)
  BY LoginsFound
<1> DEFINE p == DecodeCredentials(body)
<1>2. HandleLogin(body) =
        IF ~p.ok
        THEN {Refusal(INVALID_PACKET, <<0, <<>>>>, EncodeLoginResponse(0, <<>>, INVALID_PACKET))}
        ELSE {Answer(TRUE, p.fields, r.code, <<r.userId, r.token>>,
                     EncodeLoginResponse(r.userId, r.token, r.code)) : r \in results}
  BY DEF HandleLogin
<1> HIDE DEF p, results
<1>3. ~p.ok => a = Refusal(INVALID_PACKET, <<0, <<>>>>, EncodeLoginResponse(0, <<>>, INVALID_PACKET))
  BY <1>2, Zenon
<1>4. p.ok => a \in {Answer(TRUE, p.fields, r.code, <<r.userId, r.token>>,
                            EncodeLoginResponse(r.userId, r.token, r.code)) : r \in results}
  BY <1>2, Zenon
<1>5. CASE ~p.ok
  BY <1>3, <1>5, NoLogin, AnswerIs, Zenon DEF LoginAnswer
<1>6. CASE p.ok
  <2>1. PICK r \in results : a = Answer(TRUE, p.fields, r.code, <<r.userId, r.token>>,
                                        EncodeLoginResponse(r.userId, r.token, r.code))
    BY <1>4, <1>6, Zenon
  <2> QED
    BY <1>1, <2>1, AnswerIs, Zenon DEF LoginAnswer
<1> QED
  BY <1>5, <1>6

LEMMA LoginFits ==
  ASSUME NEW body, NEW a \in HandleLogin(body)
  PROVE  AnswerFits(4353, a)
<1>1. PICK userId, token, code : LoginAnswer(a, userId, token, code)
  BY LoginAnswers
<1>2. PICK b : b = EncodeLoginResponse(userId, token, code)
  OBVIOUS
<1>3. PICK v : v = <<userId, token>>
  OBVIOUS
<1>4. b \in Seq(D) /\ Len(b) <= MaxBody /\ ReadsAnswer(DecodeLoginResponse(b), code, v)
  BY <1>1, <1>2, <1>3, LoginTells, Zenon DEF LoginAnswer, Login
<1>5. a.code = code /\ a.fields = v /\ a.body = b
  BY <1>1, <1>2, <1>3, Zenon DEF LoginAnswer, IsAnswer
<1>6. ReadAnswer(4353, b) = DecodeLoginResponse(b)
  BY DEF ReadAnswer
<1>7. Tells(4353, code, v, b)
  BY <1>4, <1>6 DEF Tells
<1>8. Typed(<<"u64", "str">>, v)
  <2> DEFINE l == <<"u64", "str">>
  <2>2. Len(l) = 2 /\ l[1] = "u64" /\ l[2] = "str"
    OBVIOUS
  <2>3. v[1] = userId /\ v[2] = token /\ v = [i \in 1 .. 2 |-> v[i]]
    BY <1>3
  <2>4. \A i \in 1 .. 2 : i = 1 \/ i = 2
    OBVIOUS
  <2> HIDE DEF l
  <2>5. \A i \in 1 .. Len(l) : v[i] \in Values(l[i])
    BY <1>1, <2>2, <2>3, <2>4 DEF LoginAnswer, Login
  <2>6. Typed(l, v)
    BY <2>2, <2>3, <2>5 DEF Typed
  <2> QED
    BY <2>6 DEF l
<1> QED
  BY <1>4, <1>5, <1>7, <1>8 DEF AnswerFits

(* The types whose answers are a code alone, and those that are a list. *)
ListTypes == {4609, 4865}
ControlTypes == RequestTypes \ {4097, 4353, 4609, 4865}

LEMMA ControlFits ==
  ASSUME NEW type \in ControlTypes, NEW a, NEW code \in Values("u32"),
         IsAnswer(a, code, <<>>, EncodeControlResponse(code))
  PROVE  AnswerFits(type, a)
<1>1. PICK b : b = EncodeControlResponse(code)
  OBVIOUS
<1>2. b \in Seq(D) /\ Len(b) = 2 /\ ReadsAnswer(Read(Parse(<<"u32">>, b), 1), code, <<>>)
  BY <1>1, ControlTells
<1>3. ReadAnswer(type, b) = Read(Parse(<<"u32">>, b), 1)
  BY RequestTypesAre
     DEF ControlTypes, ReadAnswer, DecodeStreamStartResponse, DecodeStreamStopResponse,
         DecodeRecordStartResponse, DecodeRecordStopResponse, DecodePtzControlResponse
<1>4. Len(b) <= MaxBody
  BY <1>2, BodyLimit
<1>0. PICK v : v = <<>>
  OBVIOUS
<1>5. Tells(type, code, v, b)
  BY <1>0, <1>2, <1>3, <1>4 DEF Tells
<1>6. a.code = code /\ a.fields = v /\ a.body = b
  BY <1>0, <1>1 DEF IsAnswer
<1>7. type # 4353
  BY DEF ControlTypes
<1>8. Tells(type, a.code, a.fields, a.body) /\ a.body \in Seq(D) /\ Len(a.body) <= MaxBody
  BY <1>2, <1>4, <1>5, <1>6, Zenon
<1> QED
  BY <1>7, <1>8 DEF AnswerFits

LEMMA FirstOf ==
  ASSUME NEW S, NEW x \in S, NEW r \in Seq(S)
  PROVE  (<<x>> \o r)[1] = x
BY BehindFirst

LEMMA ListingFits ==
  ASSUME NEW type \in ListTypes, NEW code \in Values("u32"), NEW items \in Seq(Seq(Value)),
         \A i \in 1 .. Len(items) : Fits(Item(type), items[i]), NEW a,
         IsAnswer(a, code, <<Len(items)>> \o Flat(items), ListBody(Item(type), code, items).body)
  PROVE  AnswerFits(type, a)
<1>1. PICK b : b = ListBody(Item(type), code, items).body
  OBVIOUS
<1>2. Item(type) \in Layouts
  BY LayoutsAre DEF Item
<1>3. ListSaid(Item(type), code, items, b)
  BY <1>1, <1>2, ListTells
<1>4. ReadAnswer(type, b) = Read(ParseList(Item(type), b), 1)
  BY DEF ListTypes, ReadAnswer, Item, DecodeDeviceListResponse, DecodeRecordQueryResponse
<1>5. PICK fields : fields = <<Len(items)>> \o Flat(items)
  OBVIOUS
<1>6. fields[1] = Len(items)
  <2>1. Fits(Flat([i \in 1 .. Len(items) |-> Item(type)]), Flat(items))
    BY <1>2, FlatFits
  <2>2. Flat(items) \in Seq(Value)
    BY <2>1 DEF Fits
  <2> DEFINE S == Value \cup Nat
  <2>3. Len(items) \in S /\ Flat(items) \in Seq(S)
    BY <2>2
  <2> HIDE DEF S
  <2> QED
    BY <1>5, <2>3, FirstOf
<1>7. b \in Seq(D) /\ Len(b) <= MaxBody
  BY <1>3 DEF ListSaid
<1>8. Tells(type, code, fields, b)
  <2>1. CASE ReadsAnswer(Read(ParseList(Item(type), b), 1), code, fields)
    BY <1>4, <1>7, <2>1 DEF Tells
  <2>2. CASE /\ Read(ParseList(Item(type), b), 1) = Unreadable
             /\ \/ Len(items) > MaxString
                \/ Len(Body(ListLayout(Item(type), Len(items)), <<code>> \o fields).body) > MaxBody
    <3>1. ~ReadAnswer(type, b).ok
      BY <1>4, <2>2 DEF Unreadable
    <3>2. PICK m : m = [code |-> code, fields |-> fields]
      OBVIOUS
    <3>3. m.code = code /\ m.fields = fields
      BY <3>2
    <3>4. TooLarge(type, m)
      BY <1>6, <2>2, <3>3 DEF TooLarge, ListTypes
    <3> QED
      BY <1>7, <3>1, <3>2, <3>4 DEF Tells
  <2> QED
    BY <1>3, <1>5, <2>1, <2>2 DEF ListSaid
<1>9. a.code = code /\ a.fields = fields /\ a.body = b
  BY <1>1, <1>5 DEF IsAnswer
<1>10. type # 4353
  BY DEF ListTypes
<1> QED
  BY <1>7, <1>8, <1>9, <1>10 DEF AnswerFits

(* What the service has found, as a sequence of sequences of fields. *)
LEMMA ResultsListed ==
  ASSUME NEW type \in ListTypes, NEW r \in Results[type]
  PROVE  /\ r.code \in Values("u32") /\ r.items \in Seq(Seq(Value))
         /\ \A i \in 1 .. Len(r.items) : Fits(Item(type), r.items[i])
<1>1. /\ r.code \in Values("u32") /\ Len(r.items) \in Nat
      /\ r.items = [i \in 1 .. Len(r.items) |-> r.items[i]]
      /\ \A i \in 1 .. Len(r.items) :
           /\ Typed(Item(type), r.items[i])
           /\ \A k \in 1 .. Len(Item(type)) : Encodable(Item(type)[k], r.items[i][k])
  <2>1. Findings(type, r)
    BY ResultsAssumption DEF ListTypes
  <2> QED
    BY <2>1 DEF Findings
<1>2. Item(type) \in Layouts
  BY LayoutsAre DEF Item
<1>3. ASSUME NEW i \in 1 .. Len(r.items) PROVE Fits(Item(type), r.items[i])
  <2>1. Encodables(Item(type), r.items[i])
    BY <1>1, <1>2 DEF Encodables
  <2> QED
    BY <2>1, FitsAre
<1>4. r.items \in Seq(Seq(Value))
  <2>1. PICK n \in Nat : n = Len(r.items)
    BY <1>1
  <2>2. \A i \in 1 .. n : r.items[i] \in Seq(Value)
    BY <1>3, <2>1 DEF Fits
  <2>3. r.items = [i \in 1 .. n |-> r.items[i]]
    BY <1>1, <2>1
  <2> QED
    BY <2>2, <2>3
<1> QED
  BY <1>1, <1>3, <1>4

LEMMA FlatOfNone == Flat(<<>>) = <<>> /\ <<>> \in Seq(Seq(Value)) /\ Len(<<>>) = 0
<1>1. <<>> \in Seq(Seq(Value)) /\ Len(<<>>) = 0
  OBVIOUS
<1>2. PICK u \in [0 .. Len(<<>>) -> Seq(Value)] : u[0] = <<>> /\ Flat(<<>>) = u[Len(<<>>)]
  BY <1>1, FlatIs
<1> QED
  BY <1>1, <1>2

(* A list that is refused has no items. *)
LEMMA RefusedListFits ==
  ASSUME NEW type \in ListTypes, NEW code \in Values("u32"), NEW a,
         IsAnswer(a, code, << 0 >>, ListBody(Item(type), code, <<>>).body)
  PROVE  AnswerFits(type, a)
<1>1. PICK none : none = <<>>
  OBVIOUS
<1>2. none \in Seq(Seq(Value)) /\ Len(none) = 0 /\ Flat(none) = <<>>
  BY <1>1, FlatOfNone
<1>3. <<Len(none)>> \o Flat(none) = <<0>>
  <2>1. <<0>> \o <<>> = <<0>>
    OBVIOUS
  <2> QED
    BY <1>2, <2>1
<1>4. \A i \in 1 .. Len(none) : Fits(Item(type), none[i])
  BY <1>2
<1>5. IsAnswer(a, code, <<Len(none)>> \o Flat(none), ListBody(Item(type), code, none).body)
  BY <1>1, <1>3
<1> QED
  BY <1>2, <1>4, <1>5, ListingFits

LEMMA ListedFits ==
  ASSUME NEW type \in ListTypes, NEW a, NEW p, Listed(a, p, Results[type], Item(type))
  PROVE  AnswerFits(type, a)
<1>1. CASE \E code \in {INVALID_PACKET, INVALID_PARAMETER} :
             a = Refusal(code, <<0>>, ListBody(Item(type), code, <<>>).body)
  <2>1. PICK code : /\ code \in Values("u32")
                    /\ a = Refusal(code, <<0>>, ListBody(Item(type), code, <<>>).body)
    BY <1>1, CodesAre
  <2>2. IsAnswer(a, code, <<0>>, ListBody(Item(type), code, <<>>).body)
    BY <2>1, AnswerIs, Zenon
  <2> QED
    BY <2>1, <2>2, RefusedListFits
<1>2. CASE \E r \in Results[type] : a = Found(p, Item(type), r)
  <2>1. PICK r \in Results[type] : a = Found(p, Item(type), r)
    BY <1>2
  <2>2. IsAnswer(a, r.code, <<Len(r.items)>> \o Flat(r.items),
                 ListBody(Item(type), r.code, r.items).body)
    BY <2>1, AnswerIs, Zenon DEF Found
  <2>3. /\ r.code \in Values("u32") /\ r.items \in Seq(Seq(Value))
        /\ \A i \in 1 .. Len(r.items) : Fits(Item(type), r.items[i])
    BY ResultsListed
  <2> QED
    BY <2>2, <2>3, ListingFits
<1> QED
  BY <1>1, <1>2 DEF Listed

LEMMA ControlledFits ==
  ASSUME NEW type \in ControlTypes, NEW p, NEW fault \in Values("u32"), NEW good,
         NEW a \in Controlled(type, p, fault, good)
  PROVE  AnswerFits(type, a)
<1>1. Results[type] \subseteq Values("u32")
  BY ResultsAssumption DEF ControlTypes
<1>2. \E code \in Values("u32") : IsAnswer(a, code, <<>>, EncodeControlResponse(code))
  <2>1. CASE ~p.ok
    <3>1. a = Refusal(fault, <<>>, EncodeControlResponse(fault))
      BY <2>1, SMT DEF Controlled
    <3> QED
      BY <3>1, AnswerIs, Zenon
  <2>2. CASE p.ok /\ ~good
    <3>1. a = Refusal(INVALID_PARAMETER, <<>>, EncodeControlResponse(INVALID_PARAMETER))
      BY <2>2, SMT DEF Controlled
    <3> QED
      BY <3>1, AnswerIs, CodesAre, Zenon
  <2>3. CASE p.ok /\ good
    <3>1. a \in {Answer(TRUE, p.fields, code, <<>>, EncodeControlResponse(code)) :
                   code \in Results[type]}
      BY <2>3, Zenon DEF Controlled
    <3>2. PICK code \in Results[type] :
            a = Answer(TRUE, p.fields, code, <<>>, EncodeControlResponse(code))
      BY <3>1, Zenon
    <3> QED
      BY <1>1, <3>2, AnswerIs, Zenon
  <2> QED
    BY <2>1, <2>2, <2>3
<1> QED
  BY <1>2, ControlFits

LEMMA UnauthorizedFits ==
  ASSUME NEW type \in RequestTypes \ Guests
  PROVE  AnswerFits(type, Unauthorized(type))
<1>1. CASE type \in ListTypes
  <2>1. /\ EncodeDeviceListResponse(UNAUTHORIZED, <<>>) = ListBody(Device, UNAUTHORIZED, <<>>).body
        /\ EncodeRecordQueryResponse(UNAUTHORIZED, <<>>) = ListBody(Record, UNAUTHORIZED, <<>>).body
    BY Zenon DEF EncodeDeviceListResponse, EncodeRecordQueryResponse
  <2>2. Unauthorized(type)
          = Refusal(UNAUTHORIZED, <<0>>, ListBody(Item(type), UNAUTHORIZED, <<>>).body)
    BY <1>1, <2>1 DEF Unauthorized, ListTypes, Item
  <2>3. IsAnswer(Unauthorized(type), UNAUTHORIZED, <<0>>,
                 ListBody(Item(type), UNAUTHORIZED, <<>>).body)
    BY <2>2, AnswerIs, Zenon
  <2> QED
    BY <1>1, <2>3, CodesAre, RefusedListFits
<1>2. CASE type \in ControlTypes
  <2>1. Unauthorized(type) = Refusal(UNAUTHORIZED, <<>>, EncodeControlResponse(UNAUTHORIZED))
    BY <1>2 DEF Unauthorized, ControlTypes
  <2>2. IsAnswer(Unauthorized(type), UNAUTHORIZED, <<>>, EncodeControlResponse(UNAUTHORIZED))
    BY <2>1, AnswerIs, Zenon
  <2> QED
    BY <1>2, <2>2, CodesAre, ControlFits
<1> QED
  BY <1>1, <1>2 DEF Guests, ListTypes, ControlTypes

(* Whatever a handler answers, to a request that it understood or to one it  *)
(* did not, the client reads from it what the handler meant: the result, and *)
(* on success the fields and every row of the list.                          *)
THEOREM AnswersFit ==
  ASSUME NEW msg, NEW a \in Answers(msg)
  PROVE  AnswerFits(msg.type, a)
<1>1. CASE msg.type = 4097
  <2>1. a \in HandleRegister(msg.body)
    BY <1>1 DEF Answers, Guests
  <2> QED
    BY <1>1, <2>1, RegisterFits
<1>2. CASE msg.type = 4353
  <2>1. a \in HandleLogin(msg.body)
    BY <1>2 DEF Answers, Guests
  <2> QED
    BY <1>2, <2>1, LoginFits
<1>3. CASE msg.type \in RequestTypes \ Guests /\ ~loggedIn
  <2>1. msg.type # 4097 /\ msg.type # 4353
    BY <1>3 DEF Guests
  <2>2. a = Unauthorized(msg.type)
    BY <1>3, <2>1 DEF Answers
  <2> QED
    BY <1>3, <2>2, UnauthorizedFits
<1>4. CASE msg.type = 4609 /\ loggedIn
  <2>1. a \in HandleDeviceList(msg.body)
    BY <1>4 DEF Answers
  <2>2. Listed(a, DecodeDeviceListRequest(msg.body), Results[4609], Device)
    BY <2>1, DevicesListed
  <2>3. Listed(a, DecodeDeviceListRequest(msg.body), Results[msg.type], Item(msg.type))
    BY <1>4, <2>2 DEF Item
  <2>4. msg.type \in ListTypes
    BY <1>4 DEF ListTypes
  <2> QED
    BY <2>3, <2>4, ListedFits
<1>5. CASE msg.type = 4865 /\ loggedIn
  <2>1. a \in HandleRecordQuery(msg.body)
    BY <1>5 DEF Answers
  <2>2. Listed(a, DecodeRecordQueryRequest(msg.body), Results[4865], Record)
    BY <2>1, RecordsListed
  <2>3. Listed(a, DecodeRecordQueryRequest(msg.body), Results[msg.type], Item(msg.type))
    BY <1>5, <2>2 DEF Item
  <2>4. msg.type \in ListTypes
    BY <1>5 DEF ListTypes
  <2> QED
    BY <2>3, <2>4, ListedFits
<1>6. CASE msg.type = 6145 /\ loggedIn
  <2>1. a \in HandlePtzControl(msg.body)
    BY <1>6 DEF Answers
  <2>2. PICK p, good : a \in Controlled(6145, p, INVALID_PARAMETER, good)
    BY <2>1 DEF HandlePtzControl
  <2>3. msg.type \in ControlTypes /\ a \in Controlled(msg.type, p, INVALID_PARAMETER, good)
    BY <1>6, <2>2, RequestTypesAre DEF ControlTypes
  <2> QED
    BY <2>3, CodesAre, ControlledFits
<1>7. CASE msg.type \in {5121, 5377, 5633, 5889} /\ loggedIn
  <2>1. a \in HandleControl(msg.type, msg.body)
    BY <1>7 DEF Answers
  <2>2. PICK p, good : a \in Controlled(msg.type, p, INVALID_PACKET, good)
    BY <2>1 DEF HandleControl
  <2>3. msg.type \in ControlTypes
    BY <1>7, RequestTypesAre DEF ControlTypes
  <2> QED
    BY <2>2, <2>3, CodesAre, ControlledFits
<1>8. CASE msg.type \notin RequestTypes
  <2>1. \A t \in {4097, 4353, 4609, 4865, 6145, 5121, 5377, 5633, 5889} : msg.type # t
    BY <1>8, RequestTypesAre
  <2>2. a = Refusal(UNKNOWN_MESSAGE, <<>>, EncodeControlResponse(UNKNOWN_MESSAGE))
    BY <1>8, <2>1 DEF Answers
  <2>3. IsAnswer(a, UNKNOWN_MESSAGE, <<>>, EncodeControlResponse(UNKNOWN_MESSAGE))
    BY <2>2, AnswerIs, Zenon
  <2>4. 5121 \in ControlTypes
    BY RequestTypesAre DEF ControlTypes
  <2>5. AnswerFits(5121, a)
    BY <2>3, <2>4, CodesAre, ControlFits
  <2>6. msg.type # 4353
    BY <2>1
  <2> QED
    BY <1>8, <2>5, <2>6 DEF AnswerFits
<1> QED
  BY <1>1, <1>2, <1>3, <1>4, <1>5, <1>6, <1>7, <1>8, RequestTypesAre DEF Guests

-------------------------------------------------------------------------------
(* The framing (Framing): what the client and the server make of the same    *)
(* cells.                                                                    *)

Cell == Nat
MediaPacket == [pts : Cell, data : Seq(Cell)]

(* Type and version are what they were put together from. *)
LEMMA TypeCellParts ==
  ASSUME NEW type \in Nat
  PROVE  /\ TypeCell(type, Version) \in Nat
         /\ TypeOf(TypeCell(type, Version)) = type
         /\ VersionOf(TypeCell(type, Version)) = Version
<1>1. 65536 * type + 1 \in Nat /\ (65536 * type + 1) \div 65536 = type
      /\ (65536 * type + 1) % 65536 = 1
  OBVIOUS
<1> QED
  BY <1>1 DEF TypeCell, TypeOf, VersionOf, Version

LEMMA TypesAreLarge ==
  \A type \in MessageTypes : type \in Nat /\ type >= 4097
<1>1. \A k \in 0 .. 8 : 4097 + 256 * k \in Nat /\ 4097 + 256 * k >= 4097
  OBVIOUS
<1>2. \A type \in RequestTypes : type \in Nat /\ type >= 4097
  BY <1>1 DEF RequestTypes
<1> QED
  BY <1>2 DEF MessageTypes

(* The parts of a sequence with something in front of it. *)
LEMMA InFront ==
  ASSUME NEW S, NEW a \in Seq(S), NEW b \in Seq(S)
  PROVE  /\ a \o b \in Seq(S) /\ Len(a \o b) = Len(a) + Len(b)
         /\ \A i \in 1 .. Len(a) : (a \o b)[i] = a[i]
         /\ SubSeq(a \o b, Len(a) + 1, Len(a \o b)) = b
<1>1. PICK c : c = a \o b
  OBVIOUS
<1>2. /\ c \in Seq(S) /\ Len(c) = Len(a) + Len(b) /\ Len(a) \in Nat /\ Len(b) \in Nat
      /\ \A i \in 1 .. Len(a) : c[i] = a[i]
      /\ \A i \in 1 .. Len(b) : c[Len(a) + i] = b[i]
  BY <1>1
<1>3. PICK d : d = SubSeq(c, Len(a) + 1, Len(c))
  OBVIOUS
<1>4. d \in Seq(S) /\ Len(d) = Len(b) /\ \A i \in 1 .. Len(b) : d[i] = c[Len(a) + i]
  BY <1>2, <1>3
<1>5. d = b
  <2>1. ASSUME NEW i \in 1 .. Len(d) PROVE d[i] = b[i]
    <3>1. i \in 1 .. Len(b)
      BY <1>4
    <3>2. d[i] = c[Len(a) + i]
      BY <1>4, <3>1
    <3>3. c[Len(a) + i] = b[i]
      BY <1>2, <3>1
    <3> QED
      BY <3>2, <3>3
  <2>2. d \in Seq(S) /\ b \in Seq(S) /\ Len(d) = Len(b)
    BY <1>4
  <2> QED
    BY <2>1, <2>2, SeqEqual
<1> QED
  BY <1>1, <1>2, <1>3, <1>5

(* What begins alike has the same parts. *)
LEMMA SamePart ==
  ASSUME NEW S, NEW a \in Seq(S), NEW b \in Seq(S), Len(a) <= Len(b), NEW m \in Nat, m >= 1,
         \A i \in 1 .. Len(a) : b[i] = a[i]
  PROVE  SubSeq(b, m, Len(a)) = SubSeq(a, m, Len(a))
<1>1. CASE m > Len(a)
  BY <1>1
<1>2. CASE m <= Len(a)
  <2>0. Len(a) \in Nat
    OBVIOUS
  <2>1. PICK k \in Nat : k = Len(a) + 1 - m
    <3>1. Len(a) + 1 - m \in Nat
      BY <1>2, <2>0
    <3> QED
      BY <3>1
  <2>2. PICK c : c = SubSeq(b, m, Len(a))
    OBVIOUS
  <2>3. PICK d : d = SubSeq(a, m, Len(a))
    OBVIOUS
  <2>4. c \in Seq(S) /\ Len(c) = k /\ \A i \in 1 .. k : c[i] = b[m + i - 1]
    <3>1. m \in Int /\ Len(a) \in Int /\ \A i \in m .. Len(a) : b[i] \in S
      BY <2>0
    <3>2. /\ c \in Seq(S) /\ Len(c) = IF m <= Len(a) THEN Len(a) - m + 1 ELSE 0
          /\ \A i \in 1 .. Len(a) - m + 1 : c[i] = b[m + i - 1]
      BY <2>2, <3>1, SubSeqProperties
    <3>3. k = Len(a) - m + 1
      BY <2>0, <2>1
    <3> QED
      BY <1>2, <3>2, <3>3
  <2>5. d \in Seq(S) /\ Len(d) = k /\ \A i \in 1 .. k : d[i] = a[m + i - 1]
    <3>1. m \in Int /\ Len(a) \in Int /\ \A i \in m .. Len(a) : a[i] \in S
      BY <2>0
    <3>2. /\ d \in Seq(S) /\ Len(d) = IF m <= Len(a) THEN Len(a) - m + 1 ELSE 0
          /\ \A i \in 1 .. Len(a) - m + 1 : d[i] = a[m + i - 1]
      BY <2>3, <3>1, SubSeqProperties
    <3>3. k = Len(a) - m + 1
      BY <2>0, <2>1
    <3> QED
      BY <1>2, <3>2, <3>3
  <2>6. \A i \in 1 .. k : m + i - 1 \in 1 .. Len(a)
    BY <1>2, <2>1
  <2>7. c = d
    BY <2>4, <2>5, <2>6, SeqEqual
  <2> QED
    BY <2>2, <2>3, <2>7
<1>3. Len(a) \in Nat
  OBVIOUS
<1>4. m > Len(a) \/ m <= Len(a)
  BY <1>3
<1> QED
  BY <1>1, <1>2, <1>4

(* The first cells of a sequence. *)
LEMMA Prefix ==
  ASSUME NEW S, NEW a \in Seq(S), NEW n \in 0 .. Len(a)
  PROVE  /\ SubSeq(a, 1, n) \in Seq(S) /\ Len(SubSeq(a, 1, n)) = n
         /\ \A i \in 1 .. n : SubSeq(a, 1, n)[i] = a[i]
OBVIOUS

(* The header and the body of a message. *)
LEMMA EncodedMessage ==
  ASSUME NEW msg \in Message, Len(msg.body) <= MaxBody
  PROVE  LET e == EncodeMessage(msg) IN
         /\ e \in Seq(Cell) /\ Len(e) = TlvHeader + Len(msg.body)
         /\ e[1] = TypeCell(msg.type, Version) /\ e[2] = Len(msg.body) /\ e[3] = msg.id
         /\ SubSeq(e, TlvHeader + 1, Len(e)) = msg.body
<1>1. msg.type \in MessageTypes /\ msg.version = Version /\ msg.id \in Nat /\ msg.body \in Seq(Nat)
  BY DEF Message, Cell
<1>2. PICK h : h = <<TypeCell(msg.type, Version), Len(msg.body), msg.id>>
  OBVIOUS
<1>3. EncodeMessage(msg) = h \o msg.body
  BY <1>1, <1>2 DEF EncodeMessage, IsKnownMessageType
<1>4. TypeCell(msg.type, Version) \in Nat /\ Len(msg.body) \in Nat
  <2>1. msg.type \in Nat
    BY <1>1, TypesAreLarge
  <2>2. TypeCell(msg.type, Version) \in Nat
    BY <2>1, TypeCellParts
  <2>3. Len(msg.body) \in Nat
    BY <1>1
  <2> QED
    BY <2>2, <2>3
<1>5. h \in Seq(Nat) /\ Len(h) = 3 /\ h[1] = TypeCell(msg.type, Version) /\ h[2] = Len(msg.body)
      /\ h[3] = msg.id
  BY <1>1, <1>2, <1>4
<1>6. PICK e : e = h \o msg.body
  OBVIOUS
<1>7. /\ e \in Seq(Nat) /\ Len(e) = 3 + Len(msg.body)
      /\ \A i \in 1 .. 3 : e[i] = h[i]
      /\ SubSeq(e, 4, Len(e)) = msg.body
  <2>1. SubSeq(e, Len(h) + 1, Len(e)) = msg.body
    <3>1. h \in Seq(Nat) /\ msg.body \in Seq(Nat)
      BY <1>1, <1>5
    <3>2. SubSeq(h \o msg.body, Len(h) + 1, Len(h \o msg.body)) = msg.body
      BY <3>1, InFront
    <3> QED
      BY <1>6, <3>2
  <2>2. e \in Seq(Nat) /\ Len(e) = Len(h) + Len(msg.body) /\ \A i \in 1 .. Len(h) : e[i] = h[i]
    BY <1>1, <1>5, <1>6, InFront
  <2>3. Len(h) + 1 = 4
    BY <1>5
  <2> QED
    BY <1>5, <2>1, <2>2, <2>3
<1>8. e[1] = h[1] /\ e[2] = h[2] /\ e[3] = h[3]
  BY <1>7
<1>9. /\ e \in Seq(Cell) /\ Len(e) = TlvHeader + Len(msg.body)
      /\ e[1] = TypeCell(msg.type, Version) /\ e[2] = Len(msg.body) /\ e[3] = msg.id
      /\ SubSeq(e, TlvHeader + 1, Len(e)) = msg.body
  BY <1>5, <1>7, <1>8 DEF TlvHeader, Cell
<1> QED
  BY <1>3, <1>6, <1>9

(* The two parsers were written by hand, one for each side: on every buffer *)
(* they come to the same end, take the same message and leave the same rest.*)
THEOREM ParsersAgree ==
  \A buf \in Seq(Cell) : TryTakePacket(buf) = DecodeMessage(buf)
<1> SUFFICES ASSUME NEW buf \in Seq(Cell) PROVE TryTakePacket(buf) = DecodeMessage(buf)
  OBVIOUS
<1>0. buf \in Seq(Nat) /\ Len(buf) \in Nat /\ MaxBody \in Nat /\ TlvHeader = 3
  BY FramingAssumption DEF Cell, TlvHeader
<1>1. CASE Len(buf) < TlvHeader
  <2>1. ~(Len(buf) >= TlvHeader)
    BY <1>0, <1>1
  <2> QED
    BY <1>1, <2>1 DEF TryTakePacket, DecodeMessage
<1> DEFINE Bad == \/ VersionOf(buf[1]) # Version \/ ~IsKnownType(TypeOf(buf[1])) \/ buf[2] > MaxBody
<1>2. CASE ~(Len(buf) < TlvHeader) /\ Bad
  <2>1. TryTakePacket(buf) = Rejected
    BY <1>2 DEF TryTakePacket
  <2>2. Len(buf) >= TlvHeader
    BY <1>0, <1>2
  <2>3. DecodeMessage(buf) = Rejected
    BY <1>2, <2>2 DEF DecodeMessage, IsKnownType, IsKnownMessageType
  <2> QED
    BY <2>1, <2>3
<1>3. CASE ~(Len(buf) < TlvHeader) /\ ~Bad
  <2>0. Len(buf) >= 3
    BY <1>0, <1>3
  <2>1. buf[2] \in Nat /\ Len(buf) >= 3
    BY <1>0, <2>0
  <2>2. PICK total : total = TlvHeader + buf[2]
    OBVIOUS
  <2>3. total \in Nat /\ total >= 3
    <3>1. PICK n \in Nat : n = buf[2]
      BY <2>1
    <3>2. total = 3 + n
      BY <1>0, <2>2, <3>1
    <3> QED
      BY <3>2
  <2>4. DecodeMessage(buf) =
          IF Len(buf) < total THEN Incomplete(buf)
          ELSE [status |-> "decoded", msg |-> MessageAt(buf), rest |-> Drop(buf, total)]
    BY <1>3, <2>2 DEF DecodeMessage, IsKnownType, IsKnownMessageType
  <2>5. TryTakePacket(buf) =
          IF Len(buf) < total THEN Incomplete(buf)
          ELSE IF WellFormed(SubSeq(buf, 1, total))
          THEN [status |-> "decoded", msg |-> MessageAt(buf), rest |-> Drop(buf, total)]
          ELSE [status |-> "rejected", msg |-> NoMessage, rest |-> Drop(buf, total)]
    BY <1>3, <2>2 DEF TryTakePacket
  <2>6. ASSUME ~(Len(buf) < total) PROVE WellFormed(SubSeq(buf, 1, total))
    <3>1. total \in 0 .. Len(buf)
      BY <1>0, <2>3, <2>6
    <3>2. PICK p : p = SubSeq(buf, 1, total)
      OBVIOUS
    <3>3. Len(p) = total /\ \A i \in 1 .. total : p[i] = buf[i]
      BY <1>0, <3>1, <3>2, Prefix
    <3>4. p[1] = buf[1] /\ p[2] = buf[2]
      BY <2>3, <3>3
    <3>5. Len(p) >= TlvHeader /\ Len(p) = TlvHeader + p[2] /\ p[2] <= MaxBody
      <4>1. p[2] <= MaxBody
        BY <1>0, <1>3, <2>1, <3>4
      <4>2. Len(p) = TlvHeader + p[2]
        BY <2>2, <3>3, <3>4
      <4>3. Len(p) >= TlvHeader
        BY <1>0, <2>3, <3>3
      <4> QED
        BY <4>1, <4>2, <4>3
    <3>6. VersionOf(p[1]) = Version /\ IsKnownType(TypeOf(p[1]))
      BY <1>3, <3>4
    <3>7. WellFormed(p)
      BY <3>5, <3>6 DEF WellFormed
    <3> QED
      BY <3>2, <3>7
  <2> QED
    BY <2>4, <2>5, <2>6
<1> QED
  BY <1>1, <1>2, <1>3

(* A message that was encoded is taken out whole and leaves what is behind  *)
(* it; while a part of it is missing, wherever it was cut, nothing is taken.*)
THEOREM MessageSurvivesCuts ==
  ASSUME NEW msg \in Message, Len(msg.body) <= MaxBody
  PROVE  /\ \A rest \in Seq(Cell) :
              DecodeMessage(EncodeMessage(msg) \o rest) =
                [status |-> "decoded", msg |-> msg, rest |-> rest]
         /\ \A n \in 0 .. Len(EncodeMessage(msg)) - 1 :
              LET part == SubSeq(EncodeMessage(msg), 1, n) IN DecodeMessage(part) = Incomplete(part)
<1>1. PICK e : e = EncodeMessage(msg)
  OBVIOUS
<1>2. /\ e \in Seq(Cell) /\ Len(e) = 3 + Len(msg.body)
      /\ e[1] = TypeCell(msg.type, Version) /\ e[2] = Len(msg.body) /\ e[3] = msg.id
      /\ SubSeq(e, 4, Len(e)) = msg.body
  BY <1>1, EncodedMessage DEF TlvHeader
<1>3. Len(msg.body) \in Nat /\ msg.body \in Seq(Cell)
  BY DEF Message, Cell
<1>4. msg.type \in MessageTypes /\ msg.type \in Nat /\ msg.version = Version
  BY TypesAreLarge DEF Message
<1>5. TypeOf(e[1]) = msg.type /\ VersionOf(e[1]) = Version
  BY <1>2, <1>4, TypeCellParts
<1>6. MaxBody \in Nat
  BY FramingAssumption
<1>7. ASSUME NEW b \in Seq(Cell), Len(b) >= 3, b[1] = e[1], b[2] = e[2]
      PROVE  DecodeMessage(b) =
               IF Len(b) < 3 + Len(msg.body) THEN Incomplete(b)
               ELSE [status |-> "decoded", msg |-> MessageAt(b), rest |-> Drop(b, 3 + Len(msg.body))]
  <2>1. ~(Len(b) < TlvHeader) /\ TlvHeader = 3
    BY <1>7 DEF TlvHeader
  <2>2. IsKnownMessageType(TypeOf(b[1])) /\ VersionOf(b[1]) = Version
    BY <1>4, <1>5, <1>7 DEF IsKnownMessageType
  <2>3. b[2] = Len(msg.body) /\ ~(b[2] > MaxBody)
    BY <1>2, <1>3, <1>6, <1>7
  <2> QED
    BY <2>1, <2>2, <2>3 DEF DecodeMessage
<1>8. ASSUME NEW rest \in Seq(Cell)
      PROVE  DecodeMessage(e \o rest) = [status |-> "decoded", msg |-> msg, rest |-> rest]
  <2>1. PICK b : b = e \o rest
    OBVIOUS
  <2>2. b \in Seq(Cell) /\ Len(b) = Len(e) + Len(rest) /\ (\A i \in 1 .. Len(e) : b[i] = e[i])
        /\ SubSeq(b, Len(e) + 1, Len(b)) = rest
    <3>1. e \in Seq(Cell) /\ rest \in Seq(Cell)
      BY <1>2
    <3>2. SubSeq(e \o rest, Len(e) + 1, Len(e \o rest)) = rest
      BY <3>1, InFront
    <3>3. e \o rest \in Seq(Cell) /\ Len(e \o rest) = Len(e) + Len(rest)
          /\ \A i \in 1 .. Len(e) : (e \o rest)[i] = e[i]
      BY <3>1, InFront
    <3> QED
      BY <2>1, <3>2, <3>3
  <2>3. Len(rest) \in Nat /\ Len(e) \in Nat /\ Len(e) >= 3
    BY <1>2, <1>3
  <2>4. b[1] = e[1] /\ b[2] = e[2] /\ b[3] = e[3]
    BY <2>2, <2>3
  <2>5. Len(b) >= 3 /\ ~(Len(b) < 3 + Len(msg.body))
    <3>1. Len(b) = (3 + Len(msg.body)) + Len(rest)
      BY <1>2, <2>2
    <3> QED
      BY <1>3, <2>3, <3>1
  <2>6. Drop(b, 3 + Len(msg.body)) = rest
    BY <1>2, <2>2 DEF Drop
  <2>7. SubSeq(b, 4, 3 + Len(msg.body)) = msg.body
    <3>1. PICK c : c = SubSeq(b, 4, Len(e))
      OBVIOUS
    <3>2. PICK d : d = SubSeq(e, 4, Len(e))
      OBVIOUS
    <3>3. \A i \in 1 .. Len(e) : b[i] = e[i]
      BY <2>2
    <3>4. b \in Seq(Cell) /\ e \in Seq(Cell) /\ Len(e) <= Len(b)
      BY <1>2, <2>2, <2>3
    <3>6. c = d
      BY <2>3, <3>1, <3>2, <3>3, <3>4, SamePart
    <3> QED
      BY <1>2, <3>1, <3>2, <3>6
  <2>8. MessageAt(b) = msg
    <3>1. MessageAt(b) = [type |-> msg.type, version |-> Version, id |-> msg.id, body |-> msg.body]
      <4>1. MessageAt(b) = [type |-> TypeOf(b[1]), version |-> VersionOf(b[1]), id |-> b[3],
                            body |-> SubSeq(b, 4, 3 + b[2])]
        BY DEF MessageAt, TlvHeader
      <4>2. b[2] = Len(msg.body) /\ b[3] = msg.id /\ b[1] = e[1]
        BY <1>2, <2>4
      <4> QED
        BY <1>5, <2>7, <4>1, <4>2
    <3> QED
      BY <1>4, <3>1 DEF Message
  <2>9. DecodeMessage(b) = [status |-> "decoded", msg |-> MessageAt(b), rest |-> Drop(b, 3 + Len(msg.body))]
    BY <1>7, <2>2, <2>4, <2>5
  <2> QED
    BY <2>1, <2>6, <2>8, <2>9
<1>9. ASSUME NEW n \in 0 .. Len(e) - 1
      PROVE  DecodeMessage(SubSeq(e, 1, n)) = Incomplete(SubSeq(e, 1, n))
  <2>1. PICK b : b = SubSeq(e, 1, n)
    OBVIOUS
  <2>2. n \in 0 .. Len(e) /\ n < 3 + Len(msg.body) /\ n \in Nat
    BY <1>2, <1>3
  <2>3. b \in Seq(Cell) /\ Len(b) = n /\ \A i \in 1 .. n : b[i] = e[i]
    BY <1>2, <2>1, <2>2, Prefix
  <2>4. CASE n < 3
    BY <2>1, <2>3, <2>4 DEF DecodeMessage, TlvHeader
  <2>5. CASE ~(n < 3)
    <3>1. b[1] = e[1] /\ b[2] = e[2] /\ Len(b) >= 3 /\ Len(b) < 3 + Len(msg.body)
      BY <2>2, <2>3, <2>5
    <3>2. DecodeMessage(b) = Incomplete(b)
      BY <1>7, <2>3, <3>1
    <3> QED
      BY <2>1, <3>2
  <2> QED
    BY <2>4, <2>5
<1> QED
  BY <1>1, <1>8, <1>9

(* The header and the data of a frame. *)
LEMMA EncodedFrame ==
  ASSUME NEW packet \in MediaPacket, Len(packet.data) <= MaxData
  PROVE  LET e == EncodeFrame(packet) IN
         /\ e \in Seq(Cell) /\ Len(e) = 5 + Len(packet.data)
         /\ e[1] = Len(e) /\ e[2] = Magic /\ e[3] = Version /\ e[4] = packet.pts
         /\ e[5] = Len(packet.data) /\ SubSeq(e, 6, Len(e)) = packet.data
<1>1. packet.pts \in Nat /\ packet.data \in Seq(Nat) /\ MaxData \in Nat
  BY FramingAssumption DEF MediaPacket, Cell
<1>2. PICK k \in Nat : k = Len(packet.data)
  BY <1>1
<1>3. PICK h : h = <<5 + k, Magic, Version, packet.pts, k>>
  OBVIOUS
<1>4. ~(Len(packet.data) > MaxData)
  BY <1>1
<1>5. EncodeFrame(packet) = h \o packet.data
  BY <1>2, <1>3, <1>4 DEF EncodeFrame, FrameHeader
<1>6. Magic \in Nat /\ Version \in Nat
  BY DEF Magic, Version
<1>7. h \in Seq(Nat) /\ Len(h) = 5 /\ h[1] = 5 + k /\ h[2] = Magic /\ h[3] = Version
      /\ h[4] = packet.pts /\ h[5] = k
  BY <1>1, <1>2, <1>3, <1>6
<1>8. PICK e : e = h \o packet.data
  OBVIOUS
<1>9. /\ e \in Seq(Nat) /\ Len(e) = 5 + k
      /\ \A i \in 1 .. 5 : e[i] = h[i]
      /\ SubSeq(e, 6, Len(e)) = packet.data
  <2>1. SubSeq(h \o packet.data, Len(h) + 1, Len(h \o packet.data)) = packet.data
    <3>1. h \in Seq(Nat) /\ packet.data \in Seq(Nat)
      BY <1>1, <1>7
    <3> QED
      BY <3>1, InFront
  <2>2. /\ h \o packet.data \in Seq(Nat) /\ Len(h \o packet.data) = Len(h) + Len(packet.data)
        /\ \A i \in 1 .. Len(h) : (h \o packet.data)[i] = h[i]
    BY <1>1, <1>7, InFront, ZenonT(60)
  <2>3. Len(h) + 1 = 6
    BY <1>7
  <2> QED
    BY <1>2, <1>7, <1>8, <2>1, <2>2, <2>3
<1>10. e[1] = h[1] /\ e[2] = h[2] /\ e[3] = h[3] /\ e[4] = h[4] /\ e[5] = h[5]
  BY <1>9
<1>11. /\ e \in Seq(Cell) /\ Len(e) = 5 + Len(packet.data)
       /\ e[1] = Len(e) /\ e[2] = Magic /\ e[3] = Version /\ e[4] = packet.pts
       /\ e[5] = Len(packet.data) /\ SubSeq(e, 6, Len(e)) = packet.data
  BY <1>2, <1>7, <1>9, <1>10 DEF Cell
<1> QED
  BY <1>5, <1>8, <1>11

(* Messages and frames share the bytes, and the client asks the first cells *)
(* what comes next, with nothing else to go by.  It is never wrong, however *)
(* little of it has arrived.                                                *)
THEOREM NoMessageReadsAsFrame ==
  ASSUME NEW msg \in Message, Len(msg.body) <= MaxBody,
         NEW buf \in Seq(Cell), Len(buf) >= 1, buf[1] = EncodeMessage(msg)[1]
  PROVE  PeekFrameLength(buf) = 0
<1>1. buf[1] = TypeCell(msg.type, Version)
  BY EncodedMessage
<1>2. msg.type \in Nat /\ msg.type >= 4097
  BY TypesAreLarge DEF Message
<1>3. PICK t \in Nat : t = msg.type
  BY <1>2
<1>4. buf[1] = 65536 * t + 1 /\ t >= 4097
  BY <1>1, <1>2, <1>3 DEF TypeCell, Version
<1>5. MaxData \in Nat /\ 5 + MaxData < 65536 * 4097 + 0
  BY FramingAssumption DEF TypeCell, FrameHeader
<1>6. buf[1] \notin 5 .. 5 + MaxData
  BY <1>4, <1>5
<1> QED
  BY <1>6 DEF PeekFrameLength, FrameHeader

(* A frame is told by its length and its magic, from its first cell on, so   *)
(* that the client waits for its end instead of reading it as a message.     *)
THEOREM FrameReadsAsFrame ==
  ASSUME NEW packet \in MediaPacket, Len(packet.data) <= MaxData,
         NEW buf \in Seq(Cell), Len(buf) >= 1, buf[1] = EncodeFrame(packet)[1],
         Len(buf) >= 2 => buf[2] = EncodeFrame(packet)[2]
  PROVE  PeekFrameLength(buf) = Len(EncodeFrame(packet))
<1>1. PICK e : e = EncodeFrame(packet)
  OBVIOUS
<1>2. Len(e) = 5 + Len(packet.data) /\ e[1] = Len(e) /\ e[2] = Magic
  BY <1>1, EncodedFrame
<1>3. Len(packet.data) \in Nat /\ MaxData \in Nat
  BY FramingAssumption DEF MediaPacket
<1>4. Len(e) \in 5 .. 5 + MaxData
  BY <1>2, <1>3
<1>5. buf[1] = Len(e) /\ (Len(buf) >= 2 => buf[2] = Magic)
  BY <1>1, <1>2
<1>6. PeekFrameLength(buf) = buf[1]
  BY <1>4, <1>5 DEF PeekFrameLength, FrameHeader
<1> QED
  BY <1>1, <1>5, <1>6

LEMMA StopsAtOnce ==
  ASSUME NEW buf \in Seq(Cell), Stops(buf, 0)
  PROVE  StopOffset(buf) = 0 /\ Drop(buf, 0) = buf
<1>1. Len(buf) \in Nat
  OBVIOUS
<1>2. 0 \in 0 .. Len(buf) /\ \A j \in 0 .. 0 - 1 : ~Stops(buf, j)
  BY <1>1
<1>3. \A k \in 0 .. Len(buf) : (\A j \in 0 .. k - 1 : ~Stops(buf, j)) => k = 0
  <2> SUFFICES ASSUME NEW k \in 0 .. Len(buf), k # 0 PROVE 0 \in 0 .. k - 1
    OBVIOUS
  <2> QED
    BY <1>1
<1>4. StopOffset(buf) = 0
  BY <1>2, <1>3 DEF StopOffset
<1>5. Drop(buf, 0) = buf
  <2>1. Drop(buf, 0) = SubSeq(buf, 1, Len(buf))
    BY DEF Drop
  <2>2. Len(buf) \in 0 .. Len(buf)
    BY <1>1
  <2>3. /\ SubSeq(buf, 1, Len(buf)) \in Seq(Cell) /\ Len(SubSeq(buf, 1, Len(buf))) = Len(buf)
        /\ \A i \in 1 .. Len(buf) : SubSeq(buf, 1, Len(buf))[i] = buf[i]
    BY <2>2, Prefix
  <2> QED
    BY <2>1, <2>3, SeqEqual
<1> QED
  BY <1>4, <1>5

(* A frame that was encoded comes out of the reassembler whole and leaves   *)
(* what is behind it, while a part of it waits for the rest.                *)
THEOREM FrameSurvivesCuts ==
  ASSUME NEW packet \in MediaPacket, Len(packet.data) <= MaxData
  PROVE  /\ \A rest \in Seq(Cell) :
              NextPacket(EncodeFrame(packet) \o rest) =
                [found |-> TRUE, packet |-> packet, rest |-> rest]
         /\ \A n \in 0 .. Len(EncodeFrame(packet)) - 1 :
              LET part == SubSeq(EncodeFrame(packet), 1, n) IN
              ~NextPacket(part).found /\ NextPacket(part).rest = part
<1>1. PICK e : e = EncodeFrame(packet)
  OBVIOUS
<1>2. /\ e \in Seq(Cell) /\ Len(e) = 5 + Len(packet.data)
      /\ e[1] = Len(e) /\ e[2] = Magic /\ e[3] = Version /\ e[4] = packet.pts
      /\ e[5] = Len(packet.data) /\ SubSeq(e, 6, Len(e)) = packet.data
  BY <1>1, EncodedFrame
<1>3. Len(packet.data) \in Nat /\ Len(e) \in Nat /\ Len(e) >= 5 /\ 5 \in Nat
  <2>1. Len(packet.data) \in Nat
    BY DEF MediaPacket
  <2> QED
    BY <1>2, <2>1
<1>4. ASSUME NEW rest \in Seq(Cell)
      PROVE  NextPacket(e \o rest) = [found |-> TRUE, packet |-> packet, rest |-> rest]
  <2>1. PICK b : b = e \o rest
    OBVIOUS
  <2>2. /\ b \in Seq(Cell) /\ Len(b) = Len(e) + Len(rest)
        /\ \A i \in 1 .. Len(e) : b[i] = e[i]
        /\ SubSeq(b, Len(e) + 1, Len(b)) = rest
    <3>1. e \in Seq(Cell) /\ rest \in Seq(Cell)
      BY <1>2
    <3>2. SubSeq(e \o rest, Len(e) + 1, Len(e \o rest)) = rest
      BY <3>1, InFront
    <3>3. /\ e \o rest \in Seq(Cell) /\ Len(e \o rest) = Len(e) + Len(rest)
          /\ \A i \in 1 .. Len(e) : (e \o rest)[i] = e[i]
      BY <3>1, InFront
    <3> QED
      BY <2>1, <3>2, <3>3
  <2>3. Len(rest) \in Nat /\ Len(b) >= Len(e) /\ Len(b) >= 1
    <3>1. Len(rest) \in Nat
      OBVIOUS
    <3> QED
      BY <1>3, <2>2, <3>1
  <2>4. b[1] = e[1] /\ b[2] = e[2] /\ b[3] = e[3] /\ b[4] = e[4] /\ b[5] = e[5]
    <3>1. 1 \in 1 .. Len(e) /\ 2 \in 1 .. Len(e) /\ 3 \in 1 .. Len(e) /\ 4 \in 1 .. Len(e)
          /\ 5 \in 1 .. Len(e)
      BY <1>3
    <3> QED
      BY <2>2, <3>1
  <2>5. PeekFrameLength(b) = Len(e)
    BY <1>1, <2>2, <2>3, <2>4, FrameReadsAsFrame
  <2>6. FrameUsed(b, Len(e)) = Len(e)
    <3>1. Len(e) >= 1 /\ Len(e) \in 5 .. Len(e) /\ Len(packet.data) <= Len(e) - 5
      BY <1>2, <1>3
    <3> QED
      BY <1>2, <2>4, <3>1 DEF FrameUsed, FrameHeader
  <2>7. Len(e) > 0 /\ ~(Len(e) > Len(b)) /\ Len(e) # 0
    BY <1>3, <2>2, <2>3
  <2>8. Drop(b, 0) = b
    <3>1. Drop(b, 0) = SubSeq(b, 1, Len(b))
      BY DEF Drop
    <3>2. Len(b) \in 0 .. Len(b)
      BY <2>2
    <3>3. /\ SubSeq(b, 1, Len(b)) \in Seq(Cell) /\ Len(SubSeq(b, 1, Len(b))) = Len(b)
          /\ \A i \in 1 .. Len(b) : SubSeq(b, 1, Len(b))[i] = b[i]
      BY <2>2, <3>2, Prefix
    <3> QED
      BY <2>2, <3>1, <3>3, SeqEqual
  <2>9. Stops(b, 0)
    BY <2>5, <2>6, <2>7, <2>8 DEF Stops
  <2>10. StopOffset(b) = 0
    BY <2>2, <2>9, StopsAtOnce
  <2>11. NextPacket(b) = [found |-> TRUE, packet |-> FrameAt(b), rest |-> Drop(b, Len(e))]
    BY <2>5, <2>6, <2>7, <2>8, <2>10 DEF NextPacket
  <2>12. FrameAt(b) = packet
    <3>1. SubSeq(b, 6, Len(e)) = SubSeq(e, 6, Len(e))
      BY <1>2, <2>2, <2>3, SamePart
    <3>2. FrameAt(b) = [pts |-> b[4], data |-> SubSeq(b, 6, 5 + b[5])]
      BY DEF FrameAt, FrameHeader
    <3>3. FrameAt(b) = [pts |-> packet.pts, data |-> packet.data]
      BY <1>2, <2>4, <3>1, <3>2
    <3> QED
      BY <3>3 DEF MediaPacket
  <2>13. Drop(b, Len(e)) = rest
    BY <2>2 DEF Drop
  <2> QED
    BY <2>1, <2>11, <2>12, <2>13
<1>5. ASSUME NEW n \in 0 .. Len(e) - 1
      PROVE  ~NextPacket(SubSeq(e, 1, n)).found /\ NextPacket(SubSeq(e, 1, n)).rest = SubSeq(e, 1, n)
  <2>1. PICK b : b = SubSeq(e, 1, n)
    OBVIOUS
  <2>2. n \in 0 .. Len(e) /\ n < Len(e) /\ n \in Nat
    BY <1>3
  <2>3. b \in Seq(Cell) /\ Len(b) = n /\ \A i \in 1 .. n : b[i] = e[i]
    BY <1>2, <2>1, <2>2, Prefix
  <2>4. Drop(b, 0) = b
    <3>1. Drop(b, 0) = SubSeq(b, 1, n)
      BY <2>3 DEF Drop
    <3>2. n \in 0 .. Len(b)
      BY <2>2, <2>3
    <3>3. /\ SubSeq(b, 1, n) \in Seq(Cell) /\ Len(SubSeq(b, 1, n)) = n
          /\ \A i \in 1 .. n : SubSeq(b, 1, n)[i] = b[i]
      BY <2>3, <3>2, Prefix
    <3> QED
      BY <2>3, <3>1, <3>3, SeqEqual
  <2>5. ASSUME b # <<>> PROVE PeekFrameLength(b) = Len(e) /\ Len(e) > Len(b)
    <3>1. n >= 1
      BY <2>2, <2>3, <2>5
    <3>2. b[1] = e[1] /\ (n >= 2 => b[2] = e[2])
      BY <2>2, <2>3, <3>1
    <3>3. PeekFrameLength(b) = Len(e)
      BY <1>1, <2>3, <3>1, <3>2, FrameReadsAsFrame
    <3> QED
      BY <2>2, <2>3, <3>3
  <2>6. ASSUME b = <<>> PROVE PeekFrameLength(b) = 0
    <3>1. ~(Len(b) >= 1)
      BY <2>6
    <3> QED
      BY <3>1 DEF PeekFrameLength
  <2>7. Stops(b, 0)
    BY <2>4, <2>5 DEF Stops
  <2>8. StopOffset(b) = 0
    BY <2>3, <2>7, StopsAtOnce
  <2>9. NextPacket(b) = [found |-> FALSE, packet |-> [pts |-> 0, data |-> <<>>], rest |-> b]
    BY <2>4, <2>5, <2>6, <2>8 DEF NextPacket
  <2> QED
    BY <2>1, <2>9
<1> QED
  BY <1>1, <1>4, <1>5

-------------------------------------------------------------------------------
(* Cells within cells, and the headers among them.                           *)

(* Cells that stand in others, behind the first d of them. *)
Contains(b, d, a) == d + Len(a) <= Len(b) /\ \A i \in 1 .. Len(a) : b[d + i] = a[i]

LEMMA JoinedContains ==
  ASSUME NEW S, NEW a \in Seq(S), NEW c \in Seq(S)
  PROVE  /\ a \o c \in Seq(S) /\ Len(a \o c) = Len(a) + Len(c)
         /\ Contains(a \o c, 0, a) /\ Contains(a \o c, Len(a), c)
<1>1. PICK b : b = a \o c
  OBVIOUS
<1>2. /\ b \in Seq(S) /\ Len(b) = Len(a) + Len(c)
      /\ \A i \in 1 .. Len(a) : b[i] = a[i]
      /\ \A i \in 1 .. Len(c) : b[Len(a) + i] = c[i]
  BY <1>1, Joined
<1>3. Len(a) \in Nat /\ Len(c) \in Nat
  OBVIOUS
<1>4. \A i \in 1 .. Len(a) : b[0 + i] = a[i]
  BY <1>2
<1> QED
  BY <1>1, <1>2, <1>3, <1>4 DEF Contains

LEMMA DropContains ==
  ASSUME NEW S, NEW b \in Seq(S), NEW n \in 0 .. Len(b)
  PROVE  /\ Drop(b, n) \in Seq(S) /\ n + Len(Drop(b, n)) = Len(b)
         /\ Contains(b, n, Drop(b, n))
<1>1. PICK a : a = Drop(b, n)
  OBVIOUS
<1>2. PICK m \in Nat : n + m = Len(b)
  <2>1. Len(b) - n \in Nat /\ n + (Len(b) - n) = Len(b)
    OBVIOUS
  <2> QED
    BY <2>1
<1>3. a \in Seq(S) /\ Len(a) = m /\ \A i \in 1 .. m : a[i] = b[n + i]
  <2>1. \A i \in n + 1 .. Len(b) : b[i] \in S
    OBVIOUS
  <2>2. /\ a \in Seq(S) /\ Len(a) = IF n + 1 <= Len(b) THEN Len(b) - (n + 1) + 1 ELSE 0
        /\ \A i \in 1 .. Len(b) - (n + 1) + 1 : a[i] = b[n + 1 + i - 1]
    BY <1>1, <2>1, SubSeqProperties DEF Drop
  <2>3. Len(b) - (n + 1) + 1 = m /\ (~(n + 1 <= Len(b)) => m = 0)
    BY <1>2
  <2>4. \A i \in 1 .. m : n + 1 + i - 1 = n + i
    OBVIOUS
  <2> QED
    BY <2>2, <2>3, <2>4
<1> QED
  BY <1>1, <1>2, <1>3 DEF Contains

(* Two cuts of the same cells. *)
Alike(s, m, t, k, n) ==
  m + n - 1 <= Len(s) /\ k + n - 1 <= Len(t) /\ \A i \in 1 .. n : s[m + i - 1] = t[k + i - 1]
SameCut(s, m, t, k, n) == SubSeq(s, m, m + n - 1) = SubSeq(t, k, k + n - 1)

LEMMA CutAlike ==
  ASSUME NEW S, NEW s \in Seq(S), NEW t \in Seq(S), NEW m \in Nat \ {0}, NEW k \in Nat \ {0},
         NEW n \in Nat, Alike(s, m, t, k, n)
  PROVE  SameCut(s, m, t, k, n)
<1>0. /\ m + n - 1 <= Len(s) /\ k + n - 1 <= Len(t)
      /\ \A i \in 1 .. n : s[m + i - 1] = t[k + i - 1]
  BY DEF Alike
<1>1. PICK c : c = SubSeq(t, k, k + n - 1)
  OBVIOUS
<1>2. c \in Seq(S) /\ Len(c) = n /\ \A i \in 1 .. n : c[i] = t[k + i - 1]
  <2>1. \A i \in k .. k + n - 1 : i \in 1 .. Len(t)
    BY <1>0
  <2>2. \A i \in k .. k + n - 1 : t[i] \in S
    BY <2>1
  <2>3. k \in Int /\ k + n - 1 \in Int /\ k + n - 1 - k + 1 = n
    OBVIOUS
  <2>4. /\ c \in Seq(S) /\ Len(c) = IF k <= k + n - 1 THEN k + n - 1 - k + 1 ELSE 0
        /\ \A i \in 1 .. k + n - 1 - k + 1 : c[i] = t[k + i - 1]
    BY <1>1, <2>2, <2>3, SubSeqProperties
  <2>5. ~(k <= k + n - 1) => n = 0
    OBVIOUS
  <2> QED
    BY <2>3, <2>4, <2>5
<1>3. \A j \in 1 .. Len(c) : s[m + j - 1] = c[j]
  BY <1>0, <1>2
<1>4. m - 1 + Len(c) <= Len(s)
  BY <1>0, <1>2
<1>5. SubSeq(s, m, m + Len(c) - 1) = c
  BY <1>2, <1>3, <1>4, CutOut
<1> QED
  BY <1>1, <1>2, <1>5 DEF SameCut

-------------------------------------------------------------------------------
(* Headers among the cells. *)

LEMMA SmallIsPlain ==
  ASSUME NEW c \in Nat, c < TypeCell(4097, 0)
  PROVE  Plain(c)
<1>1. c < 65536 * 4097 + 0
  BY DEF TypeCell
<1>2. c \div 65536 < 4097
  BY <1>1
<1>3. c \div 65536 \notin MessageTypes
  BY <1>2, TypesAreLarge
<1>4. c # Magic
  BY <1>1 DEF Magic
<1> QED
  BY <1>3, <1>4 DEF Plain, IsHeader, IsKnownType, TypeOf

LEMMA LimitIs ==
  /\ MaxBody \in Nat /\ MaxBody < TypeCell(4097, 0) /\ TypeCell(4097, 0) \in Nat
  /\ MaxData \in Nat /\ 5 + MaxData < TypeCell(4097, 0)
  /\ Base <= TypeCell(4097, 0)
<1>1. TypeCell(4097, 0) \in Nat /\ 65536 <= TypeCell(4097, 0)
  BY DEF TypeCell
<1>2. PICK limit \in Nat : limit = TypeCell(4097, 0) /\ 65536 <= limit
  BY <1>1
<1>3. MaxBody \in 7 .. limit - 1 /\ MaxData \in Nat /\ 5 + MaxData < limit
  BY <1>2, CodecAssumption, FramingAssumption DEF FrameHeader
<1>4. Base \in Nat /\ Base <= 65536
  BY BaseIs
<1> QED
  BY <1>2, <1>3, <1>4

LEMMA DataIsPlain ==
  ASSUME NEW c \in D
  PROVE  Plain(c)
<1>1. c \in Nat /\ c < TypeCell(4097, 0)
  BY LimitIs, BaseIs DEF D
<1> QED
  BY <1>1, SmallIsPlain

LEMMA MagicIsNoHeader == Magic \in Nat /\ ~IsHeader(Magic)
<1>1. 1297107796 % 65536 = 19284
  OBVIOUS
<1> QED
  BY <1>1 DEF Magic, IsHeader, VersionOf, Version

LEMMA TypeIsHeader ==
  ASSUME NEW type \in MessageTypes
  PROVE  /\ TypeCell(type, Version) \in Nat /\ IsHeader(TypeCell(type, Version))
         /\ TypeCell(type, Version) # Magic
         /\ TypeOf(TypeCell(type, Version)) = type /\ VersionOf(TypeCell(type, Version)) = Version
<1>1. type \in Nat
  BY TypesAreLarge
<1>2. /\ TypeCell(type, Version) \in Nat
      /\ TypeOf(TypeCell(type, Version)) = type /\ VersionOf(TypeCell(type, Version)) = Version
  BY <1>1, TypeCellParts
<1>3. IsHeader(TypeCell(type, Version))
  BY <1>2 DEF IsHeader, IsKnownType
<1> QED
  BY <1>2, <1>3, MagicIsNoHeader

-------------------------------------------------------------------------------
(* What HoldsOnly says, in the cells themselves. *)
There(cells, k) ==
  [type |-> TypeOf(cells[k]), version |-> VersionOf(cells[k]), id |-> cells[k + 2],
   body |-> SubSeq(cells, k + 3, k + 3 + cells[k + 1] - 1)]
Oversize(cells, k) == k < Len(cells) /\ cells[k + 1] > MaxBody
WholeAt(cells, k) == k + 2 <= Len(cells) /\ k + 2 + cells[k + 1] <= Len(cells)

LEMMA ThereIs ==
  ASSUME NEW cells \in Seq(Nat), NEW k \in 1 .. Len(cells), WholeAt(cells, k)
  PROVE  MessageAt(Drop(cells, k - 1)) = There(cells, k)
<1>1. PICK n \in Nat : n = k - 1 /\ n \in 0 .. Len(cells)
  <2>1. k - 1 \in Nat /\ k - 1 \in 0 .. Len(cells)
    OBVIOUS
  <2> QED
    BY <2>1
<1>2. PICK a : a = Drop(cells, n)
  OBVIOUS
<1>3. a \in Seq(Nat) /\ n + Len(a) = Len(cells) /\ \A i \in 1 .. Len(a) : cells[n + i] = a[i]
  BY <1>2, <1>1, DropContains DEF Contains
<1>4. PICK m \in Nat : m = Len(a) /\ n + m = Len(cells)
  BY <1>3
<1>5. k + 1 \in 1 .. Len(cells) /\ k + 2 \in 1 .. Len(cells)
  BY DEF WholeAt
<1>6. PICK size \in Nat : size = cells[k + 1]
  BY <1>5
<1>7. n + 3 <= n + m /\ n + 3 + size <= n + m
  <2>1. k + 2 <= Len(cells) /\ k + 2 + size <= Len(cells)
    BY <1>6 DEF WholeAt
  <2> QED
    BY <1>1, <1>4, <2>1
<1>8. 1 \in 1 .. m /\ 2 \in 1 .. m /\ 3 \in 1 .. m
  BY <1>7
<1>9. a[1] = cells[k] /\ a[2] = cells[k + 1] /\ a[3] = cells[k + 2]
  BY <1>1, <1>3, <1>4, <1>8
<1>10. SubSeq(a, 4, 4 + size - 1) = SubSeq(cells, k + 3, k + 3 + size - 1)
  <2>1. \A i \in 1 .. size : a[4 + i - 1] = cells[k + 3 + i - 1]
    <3>1. ASSUME NEW i \in 1 .. size PROVE a[4 + i - 1] = cells[k + 3 + i - 1]
      <4>1. 3 + i \in 1 .. m /\ 4 + i - 1 = 3 + i /\ n + (3 + i) = k + 3 + i - 1
        BY <1>1, <1>7
      <4> QED
        BY <1>3, <1>4, <4>1
    <3> QED
      BY <3>1
  <2>2. 4 + size - 1 <= Len(a) /\ k + 3 + size - 1 <= Len(cells)
    BY <1>1, <1>4, <1>7
  <2>3. 4 \in Nat \ {0} /\ k + 3 \in Nat \ {0}
    OBVIOUS
  <2> QED
    <3>1. Alike(a, 4, cells, k + 3, size)
      BY <2>1, <2>2 DEF Alike
    <3>2. SameCut(a, 4, cells, k + 3, size)
      BY <1>3, <2>3, <3>1, CutAlike
    <3> QED
      BY <3>2 DEF SameCut
<1>11. 4 + size - 1 = 3 + size /\ 3 + 1 = 4
  OBVIOUS
<1>12. MessageAt(a) = [type |-> TypeOf(a[1]), version |-> VersionOf(a[1]), id |-> a[3],
                       body |-> SubSeq(a, 4, 3 + a[2])]
  BY <1>11 DEF MessageAt, TlvHeader
<1> QED
  BY <1>1, <1>2, <1>6, <1>9, <1>10, <1>11, <1>12, Zenon DEF There

LEMMA HoldsAre ==
  ASSUME NEW cells \in Seq(Nat), NEW M
  PROVE  HoldsOnly(cells, M) <=>
           \A k \in 1 .. Len(cells) :
             IsHeader(cells[k]) => Oversize(cells, k) \/ (WholeAt(cells, k) /\ There(cells, k) \in M)
BY ThereIs DEF HoldsOnly, Oversize, WholeAt

LEMMA ThereMoves ==
  ASSUME NEW a \in Seq(Nat), NEW b \in Seq(Nat), NEW d \in Nat, Contains(b, d, a),
         NEW k \in 1 .. Len(a), WholeAt(a, k)
  PROVE  WholeAt(b, d + k) /\ There(b, d + k) = There(a, k)
<1>1. PICK m \in Nat, n \in Nat : m = Len(a) /\ n = Len(b) /\ d + m <= n
  BY DEF Contains
<1>2. k \in 1 .. m /\ k + 1 \in 1 .. m /\ k + 2 \in 1 .. m
  BY <1>1 DEF WholeAt
<1>3. PICK size \in Nat : size = a[k + 1]
  BY <1>1, <1>2
<1>4. k + 2 + size <= m
  BY <1>1, <1>3 DEF WholeAt
<1>5. \A i \in 1 .. m : b[d + i] = a[i]
  BY <1>1 DEF Contains
<1>6. b[d + k] = a[k] /\ b[d + (k + 1)] = a[k + 1] /\ b[d + (k + 2)] = a[k + 2]
  BY <1>2, <1>5
<1>7. d + (k + 1) = d + k + 1 /\ d + (k + 2) = d + k + 2
  BY <1>2
<1>8. WholeAt(b, d + k)
  <2>0. PICK p \in Nat : p = k
    BY <1>2
  <2>1. d + k + 2 <= n /\ d + k + 2 + size <= n
    BY <1>1, <1>4, <2>0, SMTT(40)
  <2> QED
    BY <1>1, <1>3, <1>6, <1>7, <2>1 DEF WholeAt
<1>9. SubSeq(b, d + k + 3, d + k + 3 + size - 1) = SubSeq(a, k + 3, k + 3 + size - 1)
  <2>1. ASSUME NEW i \in 1 .. size PROVE b[d + k + 3 + i - 1] = a[k + 3 + i - 1]
    <3>0. PICK p \in Nat : p = k
      BY <1>2
    <3>1. PICK x \in 1 .. m : x = k + 3 + i - 1 /\ d + x = d + k + 3 + i - 1
      <4>1. p + 3 + i - 1 \in 1 .. m /\ d + (p + 3 + i - 1) = d + p + 3 + i - 1
        BY <1>4, <3>0
      <4> QED
        BY <3>0, <4>1
    <3>2. b[d + x] = a[x]
      BY <1>5
    <3> QED
      BY <3>1, <3>2, Zenon
  <2>2. /\ d + k + 3 + size - 1 <= Len(b) /\ k + 3 + size - 1 <= Len(a)
        /\ d + k + 3 \in Nat \ {0} /\ k + 3 \in Nat \ {0}
    <3>1. PICK p \in Nat : p = k
      BY <1>2
    <3>2. /\ d + p + 3 + size - 1 <= n /\ p + 3 + size - 1 <= m
          /\ d + p + 3 \in Nat \ {0} /\ p + 3 \in Nat \ {0}
      BY <1>1, <1>4, <3>1, SMTT(40)
    <3> QED
      BY <1>1, <3>1, <3>2
  <2>3. PICK x \in Nat \ {0}, y \in Nat \ {0} : x = d + k + 3 /\ y = k + 3
    BY <2>2
  <2>4. \A i \in 1 .. size : b[x + i - 1] = a[y + i - 1]
    BY <2>1, <2>3, Zenon
  <2>5. x + size - 1 <= Len(b) /\ y + size - 1 <= Len(a)
    BY <2>2, <2>3
  <2>6. SubSeq(b, x, x + size - 1) = SubSeq(a, y, y + size - 1)
    <3>1. Alike(b, x, a, y, size)
      BY <2>4, <2>5 DEF Alike
    <3>2. SameCut(b, x, a, y, size)
      BY <3>1, CutAlike
    <3> QED
      BY <3>2 DEF SameCut
  <2> QED
    BY <2>3, <2>6, Zenon
<1> QED
  BY <1>3, <1>6, <1>7, <1>8, <1>9, Zenon DEF There

LEMMA HoldsMore ==
  ASSUME NEW cells, NEW M, NEW N, HoldsOnly(cells, M), M \subseteq N
  PROVE  HoldsOnly(cells, N)
BY DEF HoldsOnly

LEMMA HoldsNone ==
  ASSUME NEW cells, NEW M, \A k \in 1 .. Len(cells) : ~IsHeader(cells[k])
  PROVE  HoldsOnly(cells, M)
BY DEF HoldsOnly

LEMMA HoldsJoined ==
  ASSUME NEW a \in Seq(Nat), NEW c \in Seq(Nat), NEW M, HoldsOnly(a, M), HoldsOnly(c, M)
  PROVE  HoldsOnly(a \o c, M)
<1>1. PICK b : b = a \o c
  OBVIOUS
<1>2. b \in Seq(Nat) /\ Len(b) = Len(a) + Len(c) /\ Contains(b, 0, a) /\ Contains(b, Len(a), c)
  BY <1>1, JoinedContains
<1>3. PICK m \in Nat, n \in Nat : m = Len(a) /\ n = Len(c)
  OBVIOUS
<1>4. ASSUME NEW k \in 1 .. Len(b), IsHeader(b[k])
      PROVE  Oversize(b, k) \/ (WholeAt(b, k) /\ There(b, k) \in M)
  <2>0. k \in 1 .. m + n
    BY <1>2, <1>3
  <2>1. CASE k <= m
    <3>1. k \in 1 .. Len(a) /\ b[k] = a[k] /\ 0 + k = k
      BY <1>2, <1>3, <2>0, <2>1 DEF Contains
    <3>2. CASE Oversize(a, k)
      <4>1. k < m /\ a[k + 1] > MaxBody
        BY <1>3, <3>2 DEF Oversize
      <4>2. k + 1 \in 1 .. Len(a) /\ 0 + (k + 1) = k + 1
        BY <1>3, <2>0, <4>1
      <4>3. b[k + 1] = a[k + 1]
        BY <1>2, <4>2 DEF Contains
      <4>4. k < Len(b)
        BY <1>2, <1>3, <4>1
      <4> QED
        BY <4>1, <4>3, <4>4 DEF Oversize
    <3>3. CASE WholeAt(a, k) /\ There(a, k) \in M
      BY <1>2, <3>1, <3>3, ThereMoves
    <3> QED
      BY <1>4, <3>1, <3>2, <3>3, HoldsAre
  <2>2. CASE ~(k <= m)
    <3>1. PICK j \in 1 .. n : m + j = k
      <4>1. k - m \in 1 .. n /\ m + (k - m) = k
        BY <2>0, <2>2
      <4> QED
        BY <4>1
    <3>2. j \in 1 .. Len(c) /\ b[k] = c[j]
      BY <1>2, <1>3, <3>1 DEF Contains
    <3>3. CASE Oversize(c, j)
      <4>1. j < n /\ c[j + 1] > MaxBody
        BY <1>3, <3>3 DEF Oversize
      <4>2. j + 1 \in 1 .. Len(c) /\ m + (j + 1) = k + 1
        BY <1>3, <3>1, <4>1
      <4>3. b[k + 1] = c[j + 1]
        BY <1>2, <1>3, <4>2 DEF Contains
      <4>4. k < Len(b)
        BY <1>2, <1>3, <3>1, <4>1
      <4> QED
        BY <4>1, <4>3, <4>4 DEF Oversize
    <3>4. CASE WholeAt(c, j) /\ There(c, j) \in M
      BY <1>2, <1>3, <3>1, <3>2, <3>4, ThereMoves
    <3> QED
      BY <1>4, <3>2, <3>3, <3>4, HoldsAre
  <2> QED
    BY <2>1, <2>2
<1> QED
  BY <1>1, <1>2, <1>4, HoldsAre

LEMMA HoldsDropped ==
  ASSUME NEW b \in Seq(Nat), NEW n \in 0 .. Len(b), NEW M, HoldsOnly(b, M)
  PROVE  HoldsOnly(Drop(b, n), M)
<1>1. PICK a : a = Drop(b, n)
  OBVIOUS
<1>2. a \in Seq(Nat) /\ n + Len(a) = Len(b) /\ Contains(b, n, a)
  BY <1>1, DropContains
<1>3. PICK m \in Nat : m = Len(a) /\ n + m = Len(b)
  BY <1>2
<1>4. ASSUME NEW k \in 1 .. Len(a), IsHeader(a[k])
      PROVE  Oversize(a, k) \/ (WholeAt(a, k) /\ There(a, k) \in M)
  <2>1. k \in 1 .. m /\ n + k \in 1 .. Len(b) /\ b[n + k] = a[k]
    BY <1>2, <1>3 DEF Contains
  <2>2. CASE Oversize(b, n + k)
    <3>1. n + k < n + m /\ b[n + k + 1] > MaxBody
      BY <1>3, <2>2 DEF Oversize
    <3>2. k + 1 \in 1 .. Len(a) /\ n + (k + 1) = n + k + 1 /\ k < Len(a)
      BY <1>3, <2>1, <3>1
    <3>3. b[n + k + 1] = a[k + 1]
      BY <1>2, <3>2 DEF Contains
    <3> QED
      BY <3>1, <3>2, <3>3 DEF Oversize
  <2>3. CASE WholeAt(b, n + k) /\ There(b, n + k) \in M
    <3>1. n + k + 2 <= n + m /\ n + k + 2 + b[n + k + 1] <= n + m
      BY <1>3, <2>3 DEF WholeAt
    <3>2. k + 1 \in 1 .. Len(a) /\ n + (k + 1) = n + k + 1 /\ k + 2 <= m
      BY <1>3, <2>1, <3>1, SMTT(40)
    <3>3. PICK size \in Nat : size = a[k + 1] /\ b[n + k + 1] = size
      <4>1. a[k + 1] \in Nat
        BY <1>2, <3>2, SMTT(40)
      <4>2. b[n + (k + 1)] = a[k + 1]
        BY <1>2, <3>2 DEF Contains
      <4> QED
        BY <3>2, <4>1, <4>2
    <3>4. k + 2 + size <= m
      <4>1. PICK p \in Nat : p = k
        BY <2>1
      <4>2. n + p + 2 + size <= n + m
        BY <3>1, <3>3, <4>1
      <4>3. p + 2 + size <= m
        BY <4>2
      <4> QED
        BY <4>1, <4>3
    <3>5. WholeAt(a, k)
      BY <1>3, <3>2, <3>3, <3>4 DEF WholeAt
    <3> QED
      BY <1>2, <2>3, <3>5, ThereMoves
  <2> QED
    BY <1>4, <2>1, <2>2, <2>3, HoldsAre
<1> QED
  BY <1>1, <1>2, <1>4, HoldsAre

(* The cells of a message that was put together. *)
Written(type, id, body, e) ==
  /\ e \in Seq(Nat) /\ Len(e) = 3 + Len(body)
  /\ e[1] = TypeCell(type, Version) /\ e[2] = Len(body) /\ e[3] = id
  /\ \A i \in 1 .. Len(body) : e[3 + i] = body[i]

LEMMA PutIs ==
  ASSUME NEW type \in MessageTypes, NEW id \in Nat, NEW body \in Seq(Nat)
  PROVE  Written(type, id, body, Put(type, id, body))
<1>1. PICK h : h = <<TypeCell(type, Version), Len(body), id>>
  OBVIOUS
<1>2. TypeCell(type, Version) \in Nat /\ Len(body) \in Nat
  BY TypeIsHeader
<1>3. h \in Seq(Nat) /\ Len(h) = 3 /\ h[1] = TypeCell(type, Version) /\ h[2] = Len(body) /\ h[3] = id
  BY <1>1, <1>2
<1>4. PICK e : e = h \o body
  OBVIOUS
<1>5. /\ e \in Seq(Nat) /\ Len(e) = Len(h) + Len(body)
      /\ \A i \in 1 .. Len(h) : e[i] = h[i]
      /\ \A i \in 1 .. Len(body) : e[Len(h) + i] = body[i]
  <2>1. h \in Seq(Nat)
    BY <1>3
  <2> QED
    BY <1>4, <2>1, Joined
<1>6. 1 \in 1 .. 3 /\ 2 \in 1 .. 3 /\ 3 \in 1 .. 3
  OBVIOUS
<1>7. /\ e \in Seq(Nat) /\ Len(e) = 3 + Len(body)
      /\ e[1] = TypeCell(type, Version) /\ e[2] = Len(body) /\ e[3] = id
      /\ \A i \in 1 .. Len(body) : e[3 + i] = body[i]
  BY <1>3, <1>5, <1>6
<1>8. Put(type, id, body) = e
  BY <1>1, <1>4 DEF Put
<1> QED
  BY <1>7, <1>8 DEF Written

Sent(type, id, body) == [type |-> type, version |-> Version, id |-> id, body |-> body]

LEMMA PutSays ==
  ASSUME NEW type \in MessageTypes, NEW id \in Nat, NEW body \in Seq(Nat)
  PROVE  WholeAt(Put(type, id, body), 1) /\ There(Put(type, id, body), 1) = Sent(type, id, body)
<1>1. PICK e : e = Put(type, id, body)
  OBVIOUS
<1>2. /\ e \in Seq(Nat) /\ Len(e) = 3 + Len(body)
      /\ e[1] = TypeCell(type, Version) /\ e[2] = Len(body) /\ e[3] = id
      /\ \A i \in 1 .. Len(body) : e[3 + i] = body[i]
  <2>1. Written(type, id, body, e)
    BY <1>1, PutIs, Zenon
  <2> QED
    BY <2>1 DEF Written
<1>3. PICK n \in Nat : n = Len(body)
  OBVIOUS
<1>4. \A j \in 1 .. Len(body) : e[4 + j - 1] = body[j]
  <2>1. \A j \in 1 .. n : 4 + j - 1 = 3 + j
    OBVIOUS
  <2> QED
    BY <1>2, <1>3, <2>1
<1>5. 4 - 1 + Len(body) <= Len(e) /\ 4 \in Nat \ {0}
  BY <1>2, <1>3
<1>6. SubSeq(e, 4, 4 + Len(body) - 1) = body
  <2>1. e \in Seq(Nat) /\ body \in Seq(Nat)
    BY <1>2
  <2>2. StandsAt(e, 4, body)
    BY <1>4, <1>5 DEF StandsAt
  <2> QED
    BY <2>1, <2>2, CutStanding, Zenon
<1>7. 1 + 2 = 3 /\ 1 + 1 = 2 /\ 1 + 3 = 4
  OBVIOUS
<1>8. There(e, 1) = [type |-> TypeOf(e[1]), version |-> VersionOf(e[1]), id |-> e[3],
                     body |-> SubSeq(e, 4, 4 + e[2] - 1)]
  BY <1>7 DEF There
<1>9. TypeOf(e[1]) = type /\ VersionOf(e[1]) = Version
  BY <1>2, TypeIsHeader
<1>10. There(e, 1) = Sent(type, id, body)
  BY <1>2, <1>6, <1>8, <1>9 DEF Sent
<1>11. WholeAt(e, 1)
  BY <1>2, <1>3, <1>7 DEF WholeAt
<1> QED
  BY <1>1, <1>10, <1>11

(* Only its first cell starts anything, and nothing in it is a magic. *)
LEMMA PutStarts ==
  ASSUME NEW type \in MessageTypes, NEW id \in Nat, Plain(id), NEW body \in Seq(D),
         Len(body) <= MaxBody
  PROVE  LET e == Put(type, id, body) IN
         /\ e \in Seq(Nat) /\ Len(e) = 3 + Len(body) /\ Len(body) \in Nat /\ e[2] = Len(body)
         /\ IsHeader(e[1]) /\ e[1] # Magic
         /\ \A k \in 1 .. Len(e) : k # 1 => Plain(e[k])
<1>1. PICK e : e = Put(type, id, body)
  OBVIOUS
<1>2. body \in Seq(Nat)
  BY CellsAreNat DEF D
<1>3. /\ e \in Seq(Nat) /\ Len(e) = 3 + Len(body)
      /\ e[1] = TypeCell(type, Version) /\ e[2] = Len(body) /\ e[3] = id
      /\ \A i \in 1 .. Len(body) : e[3 + i] = body[i]
  <2>1. Written(type, id, body, Put(type, id, body))
    BY <1>2, PutIs
  <2> QED
    BY <1>1, <2>1 DEF Written
<1>4. IsHeader(e[1]) /\ e[1] # Magic
  BY <1>3, TypeIsHeader
<1>5. PICK n \in Nat : n = Len(body) /\ n <= MaxBody
  BY <1>2
<1>6. Plain(e[2])
  <2>1. n < TypeCell(4097, 0)
    BY <1>5, LimitIs
  <2> QED
    BY <1>3, <1>5, <2>1, SmallIsPlain
<1>7. ASSUME NEW k \in 1 .. Len(e), k # 1 PROVE Plain(e[k])
  <2>1. CASE k = 2
    BY <1>6, <2>1
  <2>2. CASE k = 3
    BY <1>3, <2>2
  <2>3. CASE k > 3
    <3>1. PICK i \in 1 .. n : 3 + i = k
      <4>1. k - 3 \in 1 .. n /\ 3 + (k - 3) = k
        BY <1>3, <1>5, <2>3
      <4> QED
        BY <4>1
    <3>2. e[k] = body[i] /\ body[i] \in D
      BY <1>3, <1>5, <3>1
    <3> QED
      BY <3>2, DataIsPlain
  <2>4. k \in Nat /\ k >= 1
    BY <1>3, <1>5
  <2> QED
    BY <1>7, <2>1, <2>2, <2>3, <2>4
<1> QED
  BY <1>1, <1>3, <1>4, <1>5, <1>7

LEMMA PutHolds ==
  ASSUME NEW type \in MessageTypes, NEW id \in Nat, Plain(id), NEW body \in Seq(D),
         Len(body) <= MaxBody, NEW M, Sent(type, id, body) \in M
  PROVE  HoldsOnly(Put(type, id, body), M)
<1>1. PICK e : e = Put(type, id, body)
  OBVIOUS
<1>2. body \in Seq(Nat)
  BY CellsAreNat DEF D
<1>3. e \in Seq(Nat) /\ \A k \in 1 .. Len(e) : k # 1 => Plain(e[k])
  BY <1>1, PutStarts
<1>4. WholeAt(e, 1) /\ There(e, 1) \in M
  BY <1>1, <1>2, PutSays
<1>5. \A k \in 1 .. Len(e) : IsHeader(e[k]) => k = 1
  BY <1>3 DEF Plain
<1>6. \A k \in 1 .. Len(e) : IsHeader(e[k]) => WholeAt(e, k) /\ There(e, k) \in M
  BY <1>4, <1>5, Zenon
<1> QED
  BY <1>1, <1>3, <1>6, HoldsAre

-------------------------------------------------------------------------------
(* What the parsers make of a buffer. *)
IsTaken(buf, t) ==
  /\ t = [status |-> "decoded", msg |-> There(buf, 1), rest |-> Drop(buf, 3 + buf[2])]
  /\ Len(buf) >= 3 /\ IsHeader(buf[1]) /\ buf[2] <= MaxBody /\ 3 + buf[2] <= Len(buf)
IsRejected(buf, t) ==
  t = Rejected /\ Len(buf) >= 3 /\ (IsHeader(buf[1]) => buf[2] > MaxBody)
IsIncomplete(buf, t) ==
  /\ t = Incomplete(buf)
  /\ Len(buf) < 3 \/ (IsHeader(buf[1]) /\ buf[2] <= MaxBody /\ Len(buf) < 3 + buf[2])

LEMMA DecodeIs ==
  ASSUME NEW buf \in Seq(Nat)
  PROVE  LET t == DecodeMessage(buf) IN IsTaken(buf, t) \/ IsRejected(buf, t) \/ IsIncomplete(buf, t)
<1>1. PICK n \in Nat : n = Len(buf)
  OBVIOUS
<1>2. PICK t : t = DecodeMessage(buf)
  OBVIOUS
<1>3. CASE n < 3
  <2>1. t = Incomplete(buf)
    BY <1>1, <1>2, <1>3 DEF DecodeMessage, TlvHeader
  <2> QED
    BY <1>1, <1>2, <1>3, <2>1 DEF IsIncomplete
<1>4. CASE ~(n < 3)
  <2>0. 1 \in 1 .. n /\ 2 \in 1 .. n /\ 3 \in 1 .. n
    BY <1>4
  <2>1. PICK size \in Nat : size = buf[2]
    BY <1>1, <2>0
  <2>2. CASE ~IsHeader(buf[1])
    <3>1. ~IsKnownMessageType(TypeOf(buf[1])) \/ VersionOf(buf[1]) # Version
      BY <2>2 DEF IsHeader, IsKnownType, IsKnownMessageType
    <3>2. t = Rejected
      BY <1>1, <1>2, <1>4, <3>1 DEF DecodeMessage, TlvHeader
    <3> QED
      BY <1>1, <1>2, <1>4, <2>2, <3>2 DEF IsRejected
  <2>3. CASE IsHeader(buf[1]) /\ size > MaxBody
    <3>1. t = Rejected
      BY <1>1, <1>2, <1>4, <2>1, <2>3
         DEF DecodeMessage, TlvHeader, IsHeader, IsKnownType, IsKnownMessageType
    <3> QED
      BY <1>1, <1>2, <1>4, <2>1, <2>3, <3>1 DEF IsRejected
  <2>4. CASE IsHeader(buf[1]) /\ ~(size > MaxBody)
    <3>0. size <= MaxBody
      BY <2>4, LimitIs
    <3>1. t = IF n < 3 + size THEN Incomplete(buf)
              ELSE [status |-> "decoded", msg |-> MessageAt(buf), rest |-> Drop(buf, 3 + size)]
      BY <1>1, <1>2, <1>4, <2>1, <2>4
         DEF DecodeMessage, TlvHeader, IsHeader, IsKnownType, IsKnownMessageType
    <3>2. CASE n < 3 + size
      BY <1>1, <1>2, <2>1, <2>4, <3>0, <3>1, <3>2 DEF IsIncomplete
    <3>3. CASE ~(n < 3 + size)
      <4>1. 1 + 2 = 3 /\ 1 + 1 = 2 /\ 1 + 3 = 4 /\ 3 + 1 = 4 /\ 4 + size - 1 = 3 + size
        OBVIOUS
      <4>2. MessageAt(buf) = There(buf, 1)
        BY <2>1, <4>1 DEF MessageAt, There, TlvHeader
      <4>3. 3 + size <= n /\ n >= 3
        BY <1>4, <3>3
      <4> QED
        BY <1>1, <1>2, <2>1, <2>4, <3>0, <3>1, <3>3, <4>2, <4>3 DEF IsTaken
    <3> QED
      BY <3>2, <3>3
  <2> QED
    BY <2>2, <2>3, <2>4
<1> QED
  BY <1>2, <1>3, <1>4

LEMMA Statuses ==
  ASSUME NEW buf, NEW t
  PROVE  /\ IsTaken(buf, t) => t.status = "decoded" /\ t.msg = There(buf, 1)
                               /\ t.rest = Drop(buf, 3 + buf[2])
         /\ IsRejected(buf, t) => t.status = "rejected" /\ t.rest = <<>>
         /\ IsIncomplete(buf, t) => t.status = "incomplete" /\ t.rest = buf
BY DEF IsTaken, IsRejected, IsIncomplete, Rejected, Incomplete

(* A message is one of those that the cells hold only. *)

-------------------------------------------------------------------------------
(* Taking from the front of one piece of the cells is taking from all. *)
LEMMA DropJoined ==
  ASSUME NEW S, NEW a \in Seq(S), NEW c \in Seq(S), NEW n \in 0 .. Len(a)
  PROVE  Drop(a, n) \o c = Drop(a \o c, n) /\ n \in 0 .. Len(a \o c)
<1>1. PICK b : b = a \o c
  OBVIOUS
<1>2. b \in Seq(S) /\ Len(b) = Len(a) + Len(c) /\ Contains(b, 0, a) /\ Contains(b, Len(a), c)
  BY <1>1, JoinedContains
<1>3. PICK p \in Nat, q \in Nat : p = Len(a) /\ q = Len(c) /\ n \in 0 .. p /\ n \in 0 .. Len(b)
  BY <1>2
<1>4. PICK x : x = Drop(a, n)
  OBVIOUS
<1>5. x \in Seq(S) /\ n + Len(x) = p /\ \A i \in 1 .. Len(x) : a[n + i] = x[i]
  BY <1>3, <1>4, DropContains DEF Contains
<1>6. PICK y : y = Drop(b, n)
  OBVIOUS
<1>7. y \in Seq(S) /\ n + Len(y) = p + q /\ \A i \in 1 .. Len(y) : b[n + i] = y[i]
  BY <1>2, <1>3, <1>6, DropContains DEF Contains
<1>8. PICK m \in Nat : m = Len(x) /\ n + m = p
  BY <1>5
<1>9. Len(y) = m + q
  BY <1>3, <1>7, <1>8
<1>10. PICK z : z = x \o c
  OBVIOUS
<1>11. z \in Seq(S) /\ Len(z) = m + q /\ Contains(z, 0, x) /\ Contains(z, m, c)
  BY <1>3, <1>5, <1>8, <1>10, JoinedContains
<1>12. ASSUME NEW i \in 1 .. m + q PROVE z[i] = y[i]
  <2>1. y[i] = b[n + i]
    BY <1>7, <1>9
  <2>2. CASE i <= m
    <3>1. i \in 1 .. Len(x) /\ 0 + i = i /\ n + i \in 1 .. Len(a) /\ 0 + (n + i) = n + i
      BY <1>3, <1>8, <2>2
    <3>2. z[i] = x[i] /\ x[i] = a[n + i] /\ a[n + i] = b[n + i]
      BY <1>2, <1>5, <1>11, <3>1 DEF Contains
    <3> QED
      BY <2>1, <3>2
  <2>3. CASE ~(i <= m)
    <3>1. PICK j \in 1 .. q : m + j = i
      <4>1. i - m \in 1 .. q /\ m + (i - m) = i
        BY <2>3
      <4> QED
        BY <4>1
    <3>2. p + j = n + i
      BY <1>8, <3>1
    <3>3. z[m + j] = c[j] /\ b[p + j] = c[j]
      BY <1>2, <1>3, <1>11, <3>1 DEF Contains
    <3> QED
      BY <2>1, <3>1, <3>2, <3>3
  <2> QED
    BY <2>2, <2>3
<1>13. z = y
  BY <1>7, <1>9, <1>11, <1>12, SeqEqual
<1> QED
  BY <1>1, <1>3, <1>4, <1>6, <1>10, <1>13

LEMMA ReadPiece ==
  ASSUME NEW S, NEW a \in Seq(S), NEW c \in Seq(S), NEW n \in 1 .. Len(c)
  PROVE  /\ (a \o SubSeq(c, 1, n)) \o Drop(c, n) = a \o c
         /\ a \o SubSeq(c, 1, n) \in Seq(S) /\ Drop(c, n) \in Seq(S)
<1>1. n \in 0 .. Len(c)
  OBVIOUS
<1>2. PICK x : x = SubSeq(c, 1, n)
  OBVIOUS
<1>3. x \in Seq(S) /\ Len(x) = n /\ \A i \in 1 .. n : x[i] = c[i]
  BY <1>1, <1>2, Prefix
<1>4. PICK y : y = Drop(c, n)
  OBVIOUS
<1>5. y \in Seq(S) /\ n + Len(y) = Len(c) /\ \A i \in 1 .. Len(y) : c[n + i] = y[i]
  BY <1>1, <1>4, DropContains DEF Contains
<1>6. PICK m \in Nat : m = Len(y) /\ n + m = Len(c)
  BY <1>5
<1>7. PICK z : z = x \o y
  OBVIOUS
<1>8. z \in Seq(S) /\ Len(z) = n + m /\ Contains(z, 0, x) /\ Contains(z, n, y)
  BY <1>3, <1>5, <1>6, <1>7, JoinedContains
<1>9. ASSUME NEW i \in 1 .. n + m PROVE z[i] = c[i]
  <2>1. CASE i <= n
    <3>1. i \in 1 .. n /\ 0 + i = i
      BY <2>1
    <3> QED
      BY <1>3, <1>8, <3>1 DEF Contains
  <2>2. CASE ~(i <= n)
    <3>1. PICK j \in 1 .. m : n + j = i
      <4>1. i - n \in 1 .. m /\ n + (i - n) = i
        BY <2>2
      <4> QED
        BY <4>1
    <3> QED
      BY <1>5, <1>6, <1>8, <3>1 DEF Contains
  <2> QED
    BY <2>1, <2>2
<1>10. z = c
  BY <1>6, <1>8, <1>9, SeqEqual
<1>11. (a \o x) \o y = a \o (x \o y)
  <2>1. a \in Seq(S) /\ x \in Seq(S) /\ y \in Seq(S)
    BY <1>3, <1>5
  <2>2. SameWhole(a, x, y)
    BY <2>1, Regrouped
  <2> QED
    BY <2>2 DEF SameWhole
<1>12. a \o x \in Seq(S)
  BY <1>3
<1> QED
  BY <1>2, <1>4, <1>5, <1>7, <1>10, <1>11, <1>12

-------------------------------------------------------------------------------
(* Requests as they are made, and what is read of joined pieces.             *)

(* Values without a limit on their texts: what a user may type. *)
Holds(layout, fields) ==
  /\ layout \in Layouts /\ fields \in Seq(Value) /\ Len(fields) = Len(layout)
  /\ \A j \in 1 .. Len(layout) : fields[j] \in Values(layout[j])

LEMMA TypedHolds ==
  ASSUME NEW layout \in Layouts, NEW fields
  PROVE  Typed(layout, fields) <=> Holds(layout, fields)
<1>1. ASSUME Typed(layout, fields) PROVE Holds(layout, fields)
  <2>1. Len(layout) \in Nat /\ \A i \in 1 .. Len(layout) : layout[i] \in Kinds
    BY DEF Layouts
  <2>2. PICK n \in Nat : n = Len(layout)
    BY <2>1
  <2>3. \A i \in 1 .. n : fields[i] \in Value
    BY <1>1, <2>1, <2>2 DEF Typed, Value
  <2>4. fields = [i \in 1 .. n |-> fields[i]]
    BY <1>1, <2>2 DEF Typed
  <2>5. fields \in Seq(Value) /\ Len(fields) = n
    BY <2>3, <2>4
  <2> QED
    BY <1>1, <2>2, <2>5 DEF Typed, Holds
<1>2. ASSUME Holds(layout, fields) PROVE Typed(layout, fields)
  <2>1. fields = [i \in 1 .. Len(layout) |-> fields[i]]
    BY <1>2 DEF Holds
  <2> QED
    BY <1>2, <2>1 DEF Typed, Holds
<1> QED
  BY <1>1, <1>2

LEMMA HoldsBoth ==
  ASSUME NEW l1, NEW f1, NEW l2, NEW f2, Holds(l1, f1), Holds(l2, f2)
  PROVE  Holds(l1 \o l2, f1 \o f2)
<1>1. PICK l : l = l1 \o l2
  OBVIOUS
<1>2. PICK f : f = f1 \o f2
  OBVIOUS
<1>3. /\ l1 \in Seq(Kinds) /\ l2 \in Seq(Kinds) /\ f1 \in Seq(Value) /\ f2 \in Seq(Value)
      /\ Len(f1) = Len(l1) /\ Len(f2) = Len(l2)
  BY DEF Holds, Layouts
<1>4. PICK m \in Nat, n \in Nat : m = Len(l1) /\ n = Len(l2)
  BY <1>3, LenProperties
<1>5. /\ l \in Seq(Kinds) /\ Len(l) = m + n
      /\ \A i \in 1 .. m : l[i] = l1[i]
      /\ \A i \in 1 .. n : l[m + i] = l2[i]
  BY <1>1, <1>3, <1>4, Joined
<1>6. /\ f \in Seq(Value) /\ Len(f) = m + n
      /\ \A i \in 1 .. m : f[i] = f1[i]
      /\ \A i \in 1 .. n : f[m + i] = f2[i]
  <2>1. Len(f1) = m /\ Len(f2) = n
    BY <1>3, <1>4
  <2>2. /\ f \in Seq(Value) /\ Len(f) = Len(f1) + Len(f2)
        /\ \A i \in 1 .. Len(f1) : f[i] = f1[i]
        /\ \A i \in 1 .. Len(f2) : f[Len(f1) + i] = f2[i]
    <3>1. f1 \in Seq(Value) /\ f2 \in Seq(Value)
      BY <1>3
    <3> QED
      BY <1>2, <3>1, Joined
  <2> QED
    BY <2>1, <2>2
<1>7. ASSUME NEW j \in 1 .. m + n PROVE f[j] \in Values(l[j])
  <2>1. CASE j \in 1 .. m
    BY <1>4, <1>5, <1>6, <2>1 DEF Holds
  <2>2. CASE j \notin 1 .. m
    <3>1. PICK i \in 1 .. n : m + i = j
      <4>1. j - m \in 1 .. n /\ m + (j - m) = j
        BY <2>2
      <4> QED
        BY <4>1
    <3>2. f2[i] \in Values(l2[i])
      BY <1>4 DEF Holds
    <3>3. f[j] = f2[i] /\ l[j] = l2[i]
      BY <1>5, <1>6, <3>1
    <3> QED
      BY <3>2, <3>3
  <2> QED
    BY <2>1, <2>2
<1> QED
  BY <1>1, <1>2, <1>5, <1>6, <1>7 DEF Holds, Layouts

(* A request as it is made: under the login u if it needs one. *)
LoginLayout == <<"u64", "str">>
UnderLogin == {4609, 4865}
Fields(type, u, f) == IF type \in UnderLogin THEN u \o f ELSE f

LEMMA LayoutsUnderLogin ==
  /\ LoginLayout \in Layouts
  /\ \A type \in RequestTypes : RequestLayout(type) \in Layouts /\ AskLayout(type) \in Layouts
  /\ \A type \in UnderLogin : RequestLayout(type) = LoginLayout \o AskLayout(type)
  /\ \A type \in RequestTypes \ UnderLogin : RequestLayout(type) = AskLayout(type)
<1>1. <<>> \in Layouts
  BY EmptySeq DEF Layouts
<1>2. <<"u64">> \in Layouts /\ <<"u64", "str", "str">> \in Layouts
  <2> DEFINE K == Kinds
  <2>1. "str" \in K /\ "u64" \in K
    BY DEF Kinds
  <2> HIDE DEF K
  <2>2. <<"u64">> \in Seq(K) /\ <<"u64", "str", "str">> \in Seq(K)
    BY <2>1
  <2> QED
    BY <2>2 DEF Layouts, K
<1>3. LoginLayout \in Layouts
  BY LayoutsAre DEF LoginLayout
<1>4. ASSUME NEW type \in RequestTypes
      PROVE  RequestLayout(type) \in Layouts /\ AskLayout(type) \in Layouts
  <2>1. RequestLayout(type) \in Layouts
    BY <1>1, <1>2, RequestTypesAre, LayoutsAre DEF RequestLayout, Guests
  <2>2. AskLayout(type) \in {<<>>, <<"u64", "str", "str">>, RequestLayout(type)}
    BY DEF AskLayout
  <2> QED
    BY <1>1, <1>2, <2>1, <2>2
<1>5. <<"u64", "str">> \o <<>> = <<"u64", "str">>
  OBVIOUS
<1>6. <<"u64", "str">> \o <<"u64", "str", "str">> = <<"u64", "str", "u64", "str", "str">>
  <2>1. PICK a : a = <<"u64", "str">>
    OBVIOUS
  <2>2. PICK b : b = <<"u64", "str", "str">>
    OBVIOUS
  <2>3. PICK c : c = <<"u64", "str", "u64", "str", "str">>
    OBVIOUS
  <2>4. a \in Layouts /\ b \in Layouts /\ c \in Layouts
    BY <1>2, <2>1, <2>2, <2>3, LayoutsAre
  <2>5. PICK d : d = a \o b
    OBVIOUS
  <2>6. Len(a) = 2 /\ Len(b) = 3 /\ Len(c) = 5
    BY <2>1, <2>2, <2>3
  <2>7. /\ d \in Seq(Kinds) /\ Len(d) = Len(a) + Len(b)
        /\ \A i \in 1 .. Len(a) : d[i] = a[i]
        /\ \A i \in 1 .. Len(b) : d[Len(a) + i] = b[i]
    BY <2>4, <2>5, Joined DEF Layouts
  <2>8. Len(d) = 5 /\ d[1] = a[1] /\ d[2] = a[2]
        /\ d[2 + 1] = b[1] /\ d[2 + 2] = b[2] /\ d[2 + 3] = b[3]
    <3>1. 1 \in 1 .. 2 /\ 2 \in 1 .. 2 /\ 1 \in 1 .. 3 /\ 2 \in 1 .. 3 /\ 3 \in 1 .. 3
      OBVIOUS
    <3> QED
      BY <2>6, <2>7, <3>1
  <2>9. \A i \in 1 .. 5 : d[i] = c[i]
    <3>1. d[1] = c[1] /\ d[2] = c[2] /\ d[3] = c[3] /\ d[4] = c[4] /\ d[5] = c[5]
      BY <2>1, <2>2, <2>3, <2>8
    <3>2. \A i \in 1 .. 5 : i = 1 \/ i = 2 \/ i = 3 \/ i = 4 \/ i = 5
      OBVIOUS
    <3> QED
      BY <3>1, <3>2
  <2>10. d = c
    BY <2>4, <2>6, <2>7, <2>8, <2>9, SeqEqual DEF Layouts
  <2> QED
    BY <2>1, <2>2, <2>3, <2>5, <2>10
<1>7. RequestLayout(4609) = LoginLayout \o AskLayout(4609)
  BY <1>5 DEF RequestLayout, AskLayout, LoginLayout, Guests
<1>8. RequestLayout(4865) = LoginLayout \o AskLayout(4865)
  BY <1>6 DEF RequestLayout, AskLayout, LoginLayout, Guests
<1>9. \A type \in RequestTypes \ UnderLogin : RequestLayout(type) = AskLayout(type)
  BY DEF AskLayout, UnderLogin
<1> QED
  BY <1>3, <1>4, <1>7, <1>8, <1>9 DEF UnderLogin

Request == [type : RequestTypes, fields : Seq(Value)]
IsRequest(r) == r \in Request /\ Typed(RequestLayout(r.type), r.fields)

LEMMA AsksRight ==
  ASSUME NEW type \in RequestTypes, NEW f, Typed(AskLayout(type), f), NEW u,
         type \in UnderLogin => Typed(LoginLayout, u)
  PROVE  IsRequest([type |-> type, fields |-> Fields(type, u, f)])
<1>1. Holds(AskLayout(type), f)
  BY LayoutsUnderLogin, TypedHolds
<1>2. CASE type \in UnderLogin
  <2>1. Holds(LoginLayout, u)
    BY <1>2, LayoutsUnderLogin, TypedHolds
  <2>2. Holds(LoginLayout \o AskLayout(type), u \o f)
    BY <1>1, <2>1, HoldsBoth
  <2>3. Holds(RequestLayout(type), Fields(type, u, f))
    BY <1>2, <2>2, LayoutsUnderLogin DEF Fields
  <2>4. Typed(RequestLayout(type), Fields(type, u, f)) /\ Fields(type, u, f) \in Seq(Value)
    BY <2>3, LayoutsUnderLogin, TypedHolds DEF Holds
  <2> QED
    BY <2>4 DEF IsRequest, Request
<1>3. CASE type \notin UnderLogin
  <2>1. Typed(RequestLayout(type), f) /\ Fields(type, u, f) = f /\ f \in Seq(Value)
    BY <1>1, <1>3, LayoutsUnderLogin DEF Fields, Holds
  <2> QED
    BY <2>1 DEF IsRequest, Request
<1> QED
  BY <1>2, <1>3

(* A message that a parser would take out, if it came to stand in front. *)
HeldAt(cells, k) == k \in 1 .. Len(cells) /\ IsHeader(cells[k]) /\ ~Oversize(cells, k)

SameThere(b, l, a, k) == (HeldAt(b, l) <=> HeldAt(a, k)) /\ (HeldAt(a, k) => There(b, l) = There(a, k))

LEMMA HeldIs ==
  ASSUME NEW a \in Seq(Nat), NEW M, HoldsOnly(a, M), NEW k, HeldAt(a, k)
  PROVE  k \in Nat \ {0} /\ k \in 1 .. Len(a) /\ WholeAt(a, k) /\ There(a, k) \in M
<1>1. k \in 1 .. Len(a) /\ IsHeader(a[k]) /\ ~Oversize(a, k)
  BY DEF HeldAt
<1>2. WholeAt(a, k) /\ There(a, k) \in M
  BY <1>1, HoldsAre
<1>3. k \in Nat \ {0}
  BY <1>1
<1> QED
  BY <1>1, <1>2, <1>3

LEMMA SameHeld ==
  ASSUME NEW a \in Seq(Nat), NEW b \in Seq(Nat), NEW d \in Nat, Contains(b, d, a),
         NEW M, HoldsOnly(a, M), NEW k \in 1 .. Len(a)
  PROVE  SameThere(b, d + k, a, k)
<1>1. PICK m \in Nat, n \in Nat : m = Len(a) /\ n = Len(b) /\ d + m <= n
  BY DEF Contains
<1>2. PICK p \in Nat : p = k /\ p >= 1 /\ p <= m
  BY <1>1
<1>3. b[d + k] = a[k]
  BY DEF Contains
<1>4. d + k \in 1 .. Len(b)
  <2>1. d + p \in 1 .. n
    BY <1>1, <1>2
  <2> QED
    BY <1>1, <1>2, <2>1
<1>5. ASSUME p < m PROVE b[d + k + 1] = a[k + 1] /\ d + k < Len(b)
  <2>1. p + 1 \in 1 .. m /\ d + (p + 1) = d + p + 1 /\ d + p < n
    BY <1>1, <1>2, <1>5
  <2>2. b[d + (p + 1)] = a[p + 1]
    BY <1>1, <2>1 DEF Contains
  <2> QED
    BY <1>1, <1>2, <2>1, <2>2
<1>6. ASSUME IsHeader(a[k]), Oversize(a, k) PROVE Oversize(b, d + k)
  <2>1. p < m /\ a[k + 1] > MaxBody
    BY <1>1, <1>2, <1>6 DEF Oversize
  <2> QED
    BY <1>5, <2>1 DEF Oversize
<1>7. ASSUME IsHeader(a[k]), ~Oversize(a, k)
      PROVE  ~Oversize(b, d + k) /\ There(b, d + k) = There(a, k)
  <2>1. WholeAt(a, k)
    BY <1>7, HoldsAre
  <2>2. p < m
    BY <1>1, <1>2, <2>1 DEF WholeAt
  <2>3. ~(a[k + 1] > MaxBody)
    BY <1>1, <1>2, <1>7, <2>2 DEF Oversize
  <2>4. ~Oversize(b, d + k)
    BY <1>5, <2>2, <2>3 DEF Oversize
  <2>5. There(b, d + k) = There(a, k)
    BY <2>1, ThereMoves
  <2> QED
    BY <2>4, <2>5
<1>8. CASE IsHeader(a[k])
  BY <1>3, <1>4, <1>6, <1>7, <1>8 DEF HeldAt, SameThere
<1>9. CASE ~IsHeader(a[k])
  BY <1>3, <1>9 DEF HeldAt, SameThere
<1> QED
  BY <1>8, <1>9

(* What stands in two pieces joined stands in one of them. *)
LEMMA HeldJoined ==
  ASSUME NEW a \in Seq(Nat), NEW c \in Seq(Nat), NEW M, HoldsOnly(a, M), HoldsOnly(c, M),
         NEW k \in 1 .. Len(a \o c)
  PROVE  \/ k \in 1 .. Len(a) /\ SameThere(a \o c, k, a, k)
         \/ \E j \in 1 .. Len(c) : Len(a) + j = k /\ SameThere(a \o c, k, c, j)
<1>1. PICK b : b = a \o c
  OBVIOUS
<1>2. b \in Seq(Nat) /\ Len(b) = Len(a) + Len(c) /\ Contains(b, 0, a) /\ Contains(b, Len(a), c)
  BY <1>1, JoinedContains
<1>3. PICK m \in Nat, n \in Nat : m = Len(a) /\ n = Len(c)
  OBVIOUS
<1>4. PICK p \in 1 .. m + n : p = k
  BY <1>1, <1>2, <1>3
<1>5. CASE p <= m
  <2>1. p \in 1 .. Len(a) /\ 0 + p = p
    BY <1>3, <1>5
  <2>2. SameThere(b, 0 + p, a, p)
    BY <1>2, <2>1, SameHeld
  <2> QED
    BY <1>1, <1>4, <2>1, <2>2
<1>6. CASE ~(p <= m)
  <2>1. PICK j \in 1 .. n : m + j = p
    <3>1. p - m \in 1 .. n /\ m + (p - m) = p
      BY <1>6
    <3> QED
      BY <3>1
  <2>2. SameThere(b, m + j, c, j)
    BY <1>2, <1>3, SameHeld
  <2> QED
    BY <1>1, <1>3, <1>4, <2>1, <2>2
<1> QED
  BY <1>5, <1>6

LEMMA HeldDropped ==
  ASSUME NEW b \in Seq(Nat), NEW n \in 0 .. Len(b), NEW M, HoldsOnly(b, M),
         NEW k \in 1 .. Len(Drop(b, n))
  PROVE  SameThere(b, n + k, Drop(b, n), k)
<1>1. PICK a : a = Drop(b, n)
  OBVIOUS
<1>2. a \in Seq(Nat) /\ Contains(b, n, a)
  BY <1>1, DropContains
<1>3. HoldsOnly(a, M)
  BY <1>1, HoldsDropped
<1>4. n \in Nat /\ k \in 1 .. Len(a)
  BY <1>1
<1> QED
  BY <1>1, <1>2, <1>3, <1>4, SameHeld

LEMMA PutHeld ==
  ASSUME NEW type \in MessageTypes, NEW id \in Nat, Plain(id), NEW body \in Seq(D),
         Len(body) <= MaxBody
  PROVE  /\ HeldAt(Put(type, id, body), 1)
         /\ There(Put(type, id, body), 1) = Sent(type, id, body)
         /\ \A k : HeldAt(Put(type, id, body), k) => k = 1
<1>1. PICK e : e = Put(type, id, body)
  OBVIOUS
<1>2. body \in Seq(Nat)
  BY CellsAreNat DEF D
<1>3. /\ e \in Seq(Nat) /\ Len(e) = 3 + Len(body) /\ Len(body) \in Nat /\ e[2] = Len(body)
      /\ IsHeader(e[1]) /\ e[1] # Magic /\ \A k \in 1 .. Len(e) : k # 1 => Plain(e[k])
  BY <1>1, PutStarts
<1>4. 1 \in 1 .. Len(e) /\ 1 + 1 = 2
  BY <1>3
<1>5. ~(e[2] > MaxBody)
  BY <1>3, LimitIs
<1>6. HeldAt(e, 1)
  BY <1>3, <1>4, <1>5 DEF HeldAt, Oversize
<1>7. \A k : HeldAt(e, k) => k = 1
  BY <1>3 DEF HeldAt, Plain
<1>8. There(e, 1) = Sent(type, id, body)
  BY <1>1, <1>2, PutSays
<1> QED
  BY <1>1, <1>6, <1>7, <1>8

-------------------------------------------------------------------------------
(* What is known of a plan, and what the reassembler finds.                  *)

(* What is known of a plan. *)
Limit(p) == Len(Plans[p].asks)
Unmagic == Nat \ {Magic}

LEMMA PlanIs ==
  ASSUME NEW p \in DOMAIN Plans
  PROVE  /\ Limit(p) \in Nat /\ Limit(p) < TypeCell(4097, 0)
         /\ \A i \in 1 .. Limit(p) : \A ask \in Plans[p].asks[i] :
              ask.type \in RequestTypes /\ Typed(AskLayout(ask.type), ask.fields)
         /\ \A cells \in Plans[p].toServer :
              cells \in Seq(Unmagic) /\ HoldsOnly(cells, HarmlessRequests(Limit(p)))
         /\ \A cells \in Plans[p].toClient :
              cells \in Seq(Unmagic) /\ HoldsOnly(cells, HarmlessReplies)
<1>1. Asks(Plans[p].asks)
  BY PlansAssumption
<1>2. PICK n \in Nat : n = TypeCell(4097, 0)
  BY LimitIs
<1>3. Limit(p) \in 0 .. n - 1
  BY <1>1, <1>2 DEF Asks, Limit
<1>4. \A i \in 1 .. Limit(p) : \A ask \in Plans[p].asks[i] :
        ask.type \in RequestTypes /\ Typed(AskLayout(ask.type), ask.fields)
  BY <1>1 DEF Asks, Limit
<1>5. \A cells \in Plans[p].toServer :
        cells \in Seq(Unmagic) /\ HoldsOnly(cells, HarmlessRequests(Limit(p)))
  BY PlansAssumption DEF Unmagic, Limit
<1>6. \A cells \in Plans[p].toClient :
        cells \in Seq(Unmagic) /\ HoldsOnly(cells, HarmlessReplies)
  BY PlansAssumption DEF Unmagic
<1> QED
  BY <1>2, <1>3, <1>4, <1>5, <1>6

LEMMA FramesAre ==
  ASSUME NEW p \in DOMAIN Plans
  PROVE  /\ Len(Plans[p].frames) \in Nat /\ DOMAIN Plans[p].frames = 1 .. Len(Plans[p].frames)
         /\ \A i \in 1 .. Len(Plans[p].frames) : Frame(Plans[p].frames[i])
         /\ \A i, j \in 1 .. Len(Plans[p].frames) :
              i < j => Plans[p].frames[i].packet.pts < Plans[p].frames[j].packet.pts
BY PlansAssumption

LEMMA UnmagicIsNat == Seq(Unmagic) \subseteq Seq(Nat)
BY SeqMonotonic DEF Unmagic

-------------------------------------------------------------------------------
(* Pieces of a buffer. *)
LEMMA PieceIs ==
  ASSUME NEW S, NEW buf \in Seq(S), NEW n \in 0 .. Len(buf)
  PROVE  SubSeq(buf, 1, n) \in Seq(S) /\ Drop(buf, n) \in Seq(S)
BY Prefix, DropContains

LEMMA RestIs ==
  ASSUME NEW S, S \subseteq Nat, NEW buf \in Seq(S)
  PROVE  \/ /\ DecodeMessage(buf).status = "decoded" /\ IsTaken(buf, DecodeMessage(buf))
            /\ buf[2] \in Nat /\ 3 + buf[2] \in 1 .. Len(buf)
            /\ DecodeMessage(buf).msg = There(buf, 1) /\ DecodeMessage(buf).rest = Drop(buf, 3 + buf[2])
            /\ DecodeMessage(buf).rest \in Seq(S) /\ DecodeMessage(buf).msg \in Message
         \/ /\ DecodeMessage(buf).status = "rejected" /\ IsRejected(buf, DecodeMessage(buf))
            /\ DecodeMessage(buf).rest = <<>> /\ DecodeMessage(buf).rest \in Seq(S)
         \/ /\ DecodeMessage(buf).status = "incomplete" /\ IsIncomplete(buf, DecodeMessage(buf))
            /\ DecodeMessage(buf).rest = buf
<1>0. buf \in Seq(Nat)
  BY SeqMonotonic
<1>1. PICK t : t = DecodeMessage(buf)
  OBVIOUS
<1>2. CASE IsTaken(buf, t)
  <2>1. /\ Len(buf) >= 3 /\ IsHeader(buf[1]) /\ buf[2] <= MaxBody /\ 3 + buf[2] <= Len(buf)
    BY <1>2 DEF IsTaken
  <2>2. PICK n \in Nat : n = Len(buf) /\ n >= 3
    BY <1>0, <2>1
  <2>3. 1 \in 1 .. n /\ 2 \in 1 .. n /\ 3 \in 1 .. n
    BY <2>2
  <2>4. PICK size \in Nat : size = buf[2]
    BY <1>0, <2>2, <2>3
  <2>5. 3 + size \in 1 .. n /\ 3 + size \in 0 .. n
    BY <2>1, <2>2, <2>4
  <2>6. t.status = "decoded" /\ t.msg = There(buf, 1) /\ t.rest = Drop(buf, 3 + buf[2])
    BY <1>2, Statuses
  <2>7. Drop(buf, 3 + size) \in Seq(S)
    BY <2>2, <2>5, PieceIs
  <2>8. There(buf, 1) \in Message
    <3>1. PICK b : b = SubSeq(buf, 4, 3 + size)
      OBVIOUS
    <3>2. b \in Seq(Nat)
      <4>1. \A i \in 4 .. 3 + size : i \in 1 .. n
        BY <2>5
      <4>2. \A i \in 4 .. 3 + size : buf[i] \in Nat
        BY <1>0, <2>2, <4>1
      <4>3. 4 \in Int /\ 3 + size \in Int
        OBVIOUS
      <4> QED
        BY <3>1, <4>2, <4>3, SubSeqProperties
    <3>3. 1 + 2 = 3 /\ 1 + 1 = 2 /\ 1 + 3 = 4 /\ 4 + size - 1 = 3 + size
      OBVIOUS
    <3>4. There(buf, 1) = [type |-> TypeOf(buf[1]), version |-> VersionOf(buf[1]), id |-> buf[3],
                           body |-> b]
      BY <2>4, <3>1, <3>3 DEF There
    <3>5. buf[3] \in Nat
      BY <1>0, <2>2, <2>3
    <3> QED
      BY <2>1, <3>2, <3>4, <3>5 DEF Message, IsHeader, IsKnownType
  <2> QED
    BY <1>1, <1>2, <2>2, <2>4, <2>5, <2>6, <2>7, <2>8
<1>3. CASE IsRejected(buf, t)
  <2>1. t.status = "rejected" /\ t.rest = <<>>
    BY <1>3, Statuses
  <2> QED
    BY <1>1, <1>3, <2>1, EmptySeq
<1>4. CASE IsIncomplete(buf, t)
  BY <1>1, <1>4, Statuses
<1> QED
  BY <1>0, <1>1, <1>2, <1>3, <1>4, DecodeIs

LEMMA PeekIs ==
  ASSUME NEW buf \in Seq(Nat)
  PROVE  /\ PeekFrameLength(buf) \in Nat
         /\ PeekFrameLength(buf) > 0 <=>
              /\ Len(buf) >= 1 /\ buf[1] \in 5 .. 5 + MaxData
              /\ Len(buf) >= 2 => buf[2] = Magic
         /\ PeekFrameLength(buf) > 0 => PeekFrameLength(buf) = buf[1] /\ PeekFrameLength(buf) >= 5
<1>1. MaxData \in Nat
  BY LimitIs
<1> QED
  BY <1>1 DEF PeekFrameLength, FrameHeader

(* A frame of this release, whole, behind the first s cells. *)
FrameThere(buf, s) ==
  /\ s + 5 <= Len(buf) /\ buf[s + 1] \in 5 .. 5 + MaxData /\ buf[s + 2] = Magic
  /\ buf[s + 3] = Version /\ buf[s + 5] <= buf[s + 1] - 5 /\ s + buf[s + 1] <= Len(buf)
PacketThere(buf, s) == [pts |-> buf[s + 4], data |-> SubSeq(buf, s + 6, s + buf[s + 5] + 5)]

LEMMA StopIs ==
  ASSUME NEW buf \in Seq(Nat)
  PROVE  /\ StopOffset(buf) \in 0 .. Len(buf) /\ Stops(buf, StopOffset(buf))
         /\ \A j \in 0 .. StopOffset(buf) - 1 : ~Stops(buf, j)
<1>1. PICK n \in Nat : n = Len(buf)
  OBVIOUS
<1> DEFINE T == {k \in 0 .. n : Stops(buf, k)}
<1>2. n \in T
  <2>1. Drop(buf, n) = <<>>
    <3>1. n + 1 \in Int /\ n \in Int /\ n < n + 1
      OBVIOUS
    <3> QED
      BY <1>1, <3>1, SubSeqEmpty DEF Drop
  <2> QED
    BY <2>1 DEF Stops
<1>3. T \subseteq Nat
  OBVIOUS
<1>4. PICK m \in T : \A k \in T : m <= k
  <2> HIDE DEF T
  <2> QED
    BY <1>2, <1>3, Least
<1>5. m \in 0 .. Len(buf) /\ Stops(buf, m) /\ \A j \in 0 .. m - 1 : ~Stops(buf, j)
  BY <1>1, <1>4
<1> QED
  BY <1>5 DEF StopOffset

(* The cells of a buffer behind the first s. *)
LEMMA Behind ==
  ASSUME NEW buf \in Seq(Nat), NEW s \in 0 .. Len(buf)
  PROVE  \E m \in Nat : /\ s + m = Len(buf) /\ Drop(buf, s) \in Seq(Nat) /\ Len(Drop(buf, s)) = m
                        /\ \A i \in 1 .. m : Drop(buf, s)[i] = buf[s + i] /\ buf[s + i] \in Nat
<1>1. /\ Drop(buf, s) \in Seq(Nat) /\ s + Len(Drop(buf, s)) = Len(buf)
      /\ Contains(buf, s, Drop(buf, s))
  BY DropContains
<1>2. PICK a : a = Drop(buf, s)
  OBVIOUS
<1>3. PICK m \in Nat : m = Len(a) /\ s + m = Len(buf)
  BY <1>1, <1>2
<1>4. \A i \in 1 .. m : a[i] = buf[s + i] /\ a[i] \in Nat
  BY <1>1, <1>2, <1>3 DEF Contains
<1> QED
  BY <1>1, <1>2, <1>3, <1>4

LEMMA FrameStops ==
  ASSUME NEW buf \in Seq(Nat), NEW s \in Nat, FrameThere(buf, s)
  PROVE  s \in 0 .. Len(buf) /\ Stops(buf, s)
<1>1. s \in 0 .. Len(buf)
  BY DEF FrameThere
<1>2. PICK here : here = Drop(buf, s)
  OBVIOUS
<1>3. PICK m \in Nat : /\ s + m = Len(buf) /\ here \in Seq(Nat) /\ Len(here) = m
                       /\ \A i \in 1 .. m : here[i] = buf[s + i] /\ buf[s + i] \in Nat
  BY <1>1, <1>2, Behind
<1>4. m >= 5
  BY <1>3 DEF FrameThere
<1>5. 1 \in 1 .. m /\ 2 \in 1 .. m /\ 3 \in 1 .. m /\ 5 \in 1 .. m
  BY <1>4
<1>6. here[1] = buf[s + 1] /\ here[2] = buf[s + 2] /\ here[3] = buf[s + 3] /\ here[5] = buf[s + 5]
      /\ here[1] \in Nat /\ here[5] \in Nat
  BY <1>3, <1>5
<1>7. PICK l \in Nat : l = here[1]
  BY <1>6
<1>8. l \in 5 .. 5 + MaxData /\ here[2] = Magic /\ here[3] = Version /\ here[5] <= l - 5 /\ l <= m
  <2>1. s + l <= s + m
    BY <1>3, <1>6, <1>7 DEF FrameThere
  <2> QED
    BY <1>6, <1>7, <2>1 DEF FrameThere
<1>9. PeekFrameLength(here) = l
  BY <1>3, <1>4, <1>7, <1>8 DEF PeekFrameLength, FrameHeader
<1>10. FrameUsed(here, l) = l
  <2>1. l >= 1 /\ l \in 5 .. l
    BY <1>8, LimitIs
  <2> QED
    BY <1>7, <1>8, <2>1 DEF FrameUsed, FrameHeader
<1>11. l > 0
  BY <1>8
<1> QED
  BY <1>1, <1>2, <1>9, <1>10, <1>11 DEF Stops

(* Nothing is taken, or the first frame is. *)
Unfound(buf) ==
  /\ ~NextPacket(buf).found
  /\ \E s \in 0 .. Len(buf) :
       /\ NextPacket(buf).rest = Drop(buf, s) /\ \A j \in 0 .. s - 1 : ~Stops(buf, j)
       /\ \/ s = Len(buf)
          \/ s + 1 = Len(buf)
          \/ s + 2 <= Len(buf) /\ buf[s + 2] = Magic /\ s + buf[s + 1] > Len(buf)
Finds(buf, s) ==
  /\ NextPacket(buf).found /\ NextPacket(buf).packet = PacketThere(buf, s)
  /\ FrameThere(buf, s) /\ \A j \in 0 .. s - 1 : ~Stops(buf, j)
  /\ s + buf[s + 1] \in 0 .. Len(buf) /\ NextPacket(buf).rest = Drop(buf, s + buf[s + 1])

LEMMA DropTwice ==
  ASSUME NEW S, NEW buf \in Seq(S), NEW s \in 0 .. Len(buf), NEW l \in Nat, s + l <= Len(buf)
  PROVE  Drop(Drop(buf, s), l) = Drop(buf, s + l)
<1>1. PICK a : a = Drop(buf, s)
  OBVIOUS
<1>2. a \in Seq(S) /\ s + Len(a) = Len(buf) /\ Contains(buf, s, a)
  BY <1>1, DropContains
<1>3. PICK m \in Nat : m = Len(a) /\ s + m = Len(buf) /\ l \in 0 .. m /\ s + l \in 0 .. Len(buf)
  BY <1>2
<1>4. PICK b : b = Drop(a, l)
  OBVIOUS
<1>5. b \in Seq(S) /\ l + Len(b) = m /\ Contains(a, l, b)
  BY <1>2, <1>3, <1>4, DropContains
<1>6. PICK c : c = Drop(buf, s + l)
  OBVIOUS
<1>7. c \in Seq(S) /\ s + l + Len(c) = Len(buf) /\ Contains(buf, s + l, c)
  BY <1>3, <1>6, DropContains
<1>8. PICK n \in Nat : n = Len(b) /\ n = Len(c) /\ l + n = m
  BY <1>3, <1>5, <1>7
<1>9. ASSUME NEW i \in 1 .. n PROVE b[i] = c[i]
  <2>1. l + i \in 1 .. m /\ s + (l + i) = s + l + i
    BY <1>8
  <2>2. b[i] = a[l + i] /\ a[l + i] = buf[s + (l + i)] /\ c[i] = buf[s + l + i]
    BY <1>2, <1>3, <1>5, <1>7, <1>8, <2>1 DEF Contains
  <2> QED
    BY <2>1, <2>2
<1>10. b = c
  BY <1>5, <1>7, <1>8, <1>9, SeqEqual
<1> QED
  BY <1>1, <1>4, <1>6, <1>10

(* The reassembler skips what is no frame, and takes the first frame that is *)
(* whole in its buffer: it stops nowhere else, and leaves what it does not   *)
(* understand behind the first cells that could begin a frame.               *)
THEOREM NextIs ==
  ASSUME NEW buf \in Seq(Nat)
  PROVE  Unfound(buf) \/ \E s \in Nat : Finds(buf, s)
<1>1. PICK s : s = StopOffset(buf)
  OBVIOUS
<1>2. s \in 0 .. Len(buf) /\ s \in Nat /\ Stops(buf, s) /\ \A j \in 0 .. s - 1 : ~Stops(buf, j)
  BY <1>1, StopIs
<1>3. PICK here : here = Drop(buf, s)
  OBVIOUS
<1>4. PICK m \in Nat : /\ s + m = Len(buf) /\ here \in Seq(Nat) /\ Len(here) = m
                       /\ \A i \in 1 .. m : here[i] = buf[s + i] /\ buf[s + i] \in Nat
  BY <1>2, <1>3, Behind
<1>5. PICK l : l = PeekFrameLength(here)
  OBVIOUS
<1>6. l \in Nat /\ (l > 0 => l = here[1] /\ l >= 5 /\ m >= 1 /\ l \in 5 .. 5 + MaxData
                               /\ (m >= 2 => here[2] = Magic))
  BY <1>4, <1>5, PeekIs
<1>7. NextPacket(buf) =
        IF l = 0 \/ l > m
        THEN [found |-> FALSE, packet |-> [pts |-> 0, data |-> <<>>], rest |-> here]
        ELSE [found |-> TRUE, packet |-> FrameAt(here), rest |-> Drop(here, FrameUsed(here, l))]
  BY <1>1, <1>3, <1>4, <1>5 DEF NextPacket
<1>8. here = <<>> \/ l > m \/ (l > 0 /\ FrameUsed(here, l) > 0)
  BY <1>2, <1>3, <1>4, <1>5 DEF Stops
<1>9. CASE l = 0 \/ l > m
  <2>1. ~NextPacket(buf).found /\ NextPacket(buf).rest = Drop(buf, s)
    BY <1>3, <1>7, <1>9
  <2>2. CASE l = 0
    <3>1. here = <<>>
      BY <1>4, <1>6, <1>8, <2>2
    <3>2. s = Len(buf)
      BY <1>2, <1>4, <3>1
    <3> QED
      BY <1>2, <2>1, <3>2 DEF Unfound
  <2>3. CASE l > m /\ m >= 2
    <3>1. 1 \in 1 .. m /\ 2 \in 1 .. m
      BY <2>3
    <3>2. here[1] = l /\ here[2] = Magic /\ buf[s + 1] = l /\ buf[s + 2] = Magic
      BY <1>4, <1>6, <2>3, <3>1
    <3>3. s + 2 <= Len(buf) /\ s + l > Len(buf)
      BY <1>2, <1>4, <1>6, <2>3, SMTT(40)
    <3> QED
      BY <1>2, <2>1, <3>2, <3>3 DEF Unfound
  <2>4. CASE l > m /\ m = 1
    <3>1. s + 1 = Len(buf)
      BY <1>4, <2>4
    <3> QED
      BY <1>2, <2>1, <3>1 DEF Unfound
  <2>5. CASE l > m /\ m = 0
    <3>1. s = Len(buf)
      BY <1>2, <1>4, <2>5
    <3> QED
      BY <1>2, <2>1, <3>1 DEF Unfound
  <2>6. m = 0 \/ m = 1 \/ m >= 2
    OBVIOUS
  <2> QED
    BY <1>9, <2>2, <2>3, <2>4, <2>5, <2>6
<1>10. CASE ~(l = 0 \/ l > m)
  <2>1. l > 0 /\ l <= m /\ l = here[1] /\ l >= 5 /\ l \in 5 .. 5 + MaxData /\ here[2] = Magic
    BY <1>4, <1>6, <1>10
  <2>2. here # <<>>
    BY <1>4, <2>1
  <2>3. FrameUsed(here, l) > 0
    BY <1>6, <1>4, <1>8, <2>1, <2>2
  <2>4. FrameUsed(here, l) = l /\ here[3] = Version /\ here[5] <= l - 5
    BY <2>1, <2>3 DEF FrameUsed, FrameHeader
  <2>5. 1 \in 1 .. m /\ 2 \in 1 .. m /\ 3 \in 1 .. m /\ 4 \in 1 .. m /\ 5 \in 1 .. m
    BY <1>6, <2>1
  <2>6. /\ here[1] = buf[s + 1] /\ here[2] = buf[s + 2] /\ here[3] = buf[s + 3]
        /\ here[4] = buf[s + 4] /\ here[5] = buf[s + 5] /\ buf[s + 5] \in Nat
    BY <1>4, <2>5
  <2>7. s + 5 <= Len(buf) /\ s + l <= Len(buf) /\ s + l \in 0 .. Len(buf)
    <3>1. PICK p \in Nat : p = s
      BY <1>2
    <3>2. l >= 5 /\ l <= m
      BY <2>1
    <3>3. p + 5 <= p + m /\ p + l <= p + m /\ p + l \in 0 .. p + m
      BY <1>6, <3>2
    <3> QED
      BY <1>4, <3>1, <3>3
  <2>8. FrameThere(buf, s)
    BY <2>1, <2>4, <2>6, <2>7 DEF FrameThere
  <2>9. FrameAt(here) = PacketThere(buf, s)
    <3>1. PICK k \in Nat : k = buf[s + 5] /\ k <= l - 5
      BY <2>4, <2>6
    <3>2. SubSeq(here, 6, 6 + k - 1) = SubSeq(buf, s + 6, s + 6 + k - 1)
      <4>1. 6 + k - 1 <= Len(here) /\ s + 6 + k - 1 <= Len(buf)
        <5>1. PICK p \in Nat : p = s
          BY <1>2
        <5>2. 6 + k - 1 <= m /\ p + 6 + k - 1 <= p + m
          BY <1>6, <2>1, <3>1, SMTT(40)
        <5> QED
          BY <1>4, <5>1, <5>2
      <4>2. ASSUME NEW i \in 1 .. k PROVE here[6 + i - 1] = buf[s + 6 + i - 1]
        <5>1. PICK x \in 1 .. m : x = 6 + i - 1 /\ s + x = s + 6 + i - 1
          <6>1. 6 + i - 1 \in 1 .. m /\ s + (6 + i - 1) = s + 6 + i - 1
            BY <1>2, <1>6, <2>1, <3>1, SMTT(40)
          <6> QED
            BY <6>1
        <5>2. here[x] = buf[s + x]
          BY <1>4
        <5> QED
          BY <5>1, <5>2, Zenon
      <4>3. Alike(here, 6, buf, s + 6, k)
        BY <4>1, <4>2 DEF Alike
      <4>4. SameCut(here, 6, buf, s + 6, k)
        <5>1. 6 \in Nat \ {0} /\ s + 6 \in Nat \ {0}
          BY <1>2
        <5> QED
          BY <1>4, <4>3, <5>1, CutAlike
      <4> QED
        BY <4>4 DEF SameCut
    <3>3. 6 + k - 1 = 5 + k /\ s + 6 + k - 1 = s + k + 5
      BY <1>2
    <3>4. SubSeq(here, 6, 5 + k) = SubSeq(buf, s + 6, s + k + 5)
      BY <3>2, <3>3
    <3>5. FrameAt(here) = [pts |-> here[4], data |-> SubSeq(here, 6, 5 + k)]
      <4>1. 5 + 1 = 6
        OBVIOUS
      <4> QED
        BY <2>6, <3>1, <4>1 DEF FrameAt, FrameHeader
    <3> QED
      BY <2>6, <3>1, <3>4, <3>5 DEF PacketThere
  <2>10. Drop(here, l) = Drop(buf, s + l)
    BY <1>2, <1>3, <1>6, <2>7, DropTwice
  <2>11. NextPacket(buf) = [found |-> TRUE, packet |-> PacketThere(buf, s), rest |-> Drop(buf, s + l)]
    BY <1>7, <1>10, <2>4, <2>9, <2>10
  <2>12. l = buf[s + 1]
    BY <2>1, <2>6
  <2> QED
    BY <1>2, <2>7, <2>8, <2>11, <2>12 DEF Finds
<1> QED
  BY <1>9, <1>10

LEMMA NextRest ==
  ASSUME NEW buf \in Seq(Nat)
  PROVE  NextPacket(buf).rest \in Seq(Nat)
<1>1. \A s \in 0 .. Len(buf) : Drop(buf, s) \in Seq(Nat)
  BY PieceIs
<1> QED
  BY <1>1, NextIs DEF Unfound, Finds

-------------------------------------------------------------------------------
(* What the server may find: the requests asked, and nothing it could answer *)
(* among what else there is.  (a: the requests asked; n: how many may be.)   *)
IsOwn(msg, a) ==
  /\ msg.id \in 1 .. Len(a) /\ msg.type = a[msg.id].type
  /\ ReadsAs(msg.type, msg.body, a[msg.id].fields)
Known(a, n) == {msg \in Message : IsOwn(msg, a) \/ msg \in HarmlessRequests(n)}

LEMMA Appended ==
  ASSUME NEW S, NEW a \in Seq(S), NEW r \in S
  PROVE  /\ Append(a, r) \in Seq(S) /\ Len(Append(a, r)) = Len(a) + 1
         /\ \A i \in 1 .. Len(a) : i \in 1 .. Len(Append(a, r)) /\ Append(a, r)[i] = a[i]
         /\ Append(a, r)[Len(a) + 1] = r
OBVIOUS

LEMMA KnownGrows ==
  ASSUME NEW a \in Seq(Request), NEW r \in Request, NEW n
  PROVE  Known(a, n) \subseteq Known(Append(a, r), n)
<1>1. \A msg : IsOwn(msg, a) => IsOwn(msg, Append(a, r))
  BY Appended DEF IsOwn
<1> QED
  BY <1>1 DEF Known

LEMMA AskedIsKnown ==
  ASSUME NEW a \in Seq(Request), NEW r \in Request, NEW n, NEW body \in Seq(Nat),
         ReadsAs(r.type, body, r.fields)
  PROVE  Sent(r.type, Len(a) + 1, body) \in Known(Append(a, r), n)
<1>1. PICK id \in Nat : id = Len(a) + 1
  OBVIOUS
<1>2. PICK b : b = Append(a, r)
  OBVIOUS
<1>3. id \in 1 .. Len(b) /\ b[id] = r
  BY <1>1, <1>2, Appended
<1>4. Sent(r.type, id, body) \in Message
  BY DEF Sent, Message, MessageTypes, Request
<1>5. IsOwn(Sent(r.type, id, body), b)
  BY <1>3 DEF IsOwn, Sent
<1> QED
  BY <1>1, <1>2, <1>4, <1>5 DEF Known

LEMMA KnownIs ==
  ASSUME NEW a \in Seq(Request), NEW n \in Nat, n < TypeCell(4097, 0), Len(a) <= n,
         NEW msg \in Known(a, n)
  PROVE  /\ msg \in Message /\ Plain(msg.id)
         /\ msg.id \in 1 .. n => msg.id \in 1 .. Len(a) /\ IsOwn(msg, a)
         /\ msg.type \in RequestTypes /\ ReadAs(msg.type, msg.body).ok => IsOwn(msg, a)
<1>1. CASE IsOwn(msg, a)
  <2>1. msg.id \in 1 .. Len(a) /\ msg \in Message
    BY <1>1 DEF IsOwn, Known
  <2>2. PICK id \in Nat, limit \in Nat : id = msg.id /\ limit = TypeCell(4097, 0) /\ id <= n /\ n < limit
    BY <2>1, LimitIs
  <2>3. Plain(id)
    <3>1. id < limit
      BY <2>2
    <3> QED
      BY <2>2, <3>1, SmallIsPlain
  <2> QED
    BY <1>1, <2>1, <2>2, <2>3
<1>2. CASE msg \in HarmlessRequests(n)
  BY <1>2 DEF HarmlessRequests
<1> QED
  BY <1>1, <1>2 DEF Known

-------------------------------------------------------------------------------
(* No request of this client is there twice: not among the cells, nor with   *)
(* two workers, nor there when it has been answered.                         *)
Identifies(cells, k, i) == HeldAt(cells, k) /\ There(cells, k).id = i
Unseen(cells, jobs, done, i) ==
  /\ \A k : ~Identifies(cells, k, i)
  /\ i \notin done /\ \A msg \in jobs : msg.id # i
OnceOnly(cells, jobs, done, n) ==
  \A i \in 1 .. n :
    /\ \A k, l : Identifies(cells, k, i) /\ Identifies(cells, l, i) => k = l
    /\ \A k : Identifies(cells, k, i) => i \notin done /\ \A msg \in jobs : msg.id # i
    /\ \A msg \in jobs : msg.id = i => i \notin done
    /\ \A one, two \in jobs : one.id = i /\ two.id = i => one = two

LEMMA IdentifiedJoined ==
  ASSUME NEW a \in Seq(Nat), NEW c \in Seq(Nat), NEW M, HoldsOnly(a, M), HoldsOnly(c, M),
         NEW k, NEW i, Identifies(a \o c, k, i)
  PROVE  Identifies(a, k, i) \/ \E j \in 1 .. Len(c) : Len(a) + j = k /\ Identifies(c, j, i)
<1>1. k \in 1 .. Len(a \o c) /\ HeldAt(a \o c, k) /\ There(a \o c, k).id = i
  BY DEF Identifies, HeldAt
<1> QED
  BY <1>1, HeldJoined DEF Identifies, SameThere

LEMMA IdentifiedDropped ==
  ASSUME NEW b \in Seq(Nat), NEW n \in 0 .. Len(b), NEW M, HoldsOnly(b, M),
         NEW k, NEW i, Identifies(Drop(b, n), k, i)
  PROVE  k \in Nat \ {0} /\ Identifies(b, n + k, i)
<1>1. k \in 1 .. Len(Drop(b, n))
  BY DEF Identifies, HeldAt
<1>2. SameThere(b, n + k, Drop(b, n), k)
  BY <1>1, HeldDropped
<1>3. HeldAt(b, n + k) /\ There(b, n + k).id = i
  BY <1>2 DEF Identifies, SameThere
<1> QED
  BY <1>1, <1>3 DEF Identifies

(* Cells added, with at most one request, a new one. *)
LEMMA OnceAdded ==
  ASSUME NEW a \in Seq(Nat), NEW c \in Seq(Nat), NEW M, HoldsOnly(a, M), HoldsOnly(c, M),
         NEW jobs, NEW done, NEW n \in Nat, OnceOnly(a, jobs, done, n),
         \A i \in 1 .. n : \A j : Identifies(c, j, i) => j = 1 /\ Unseen(a, jobs, done, i)
  PROVE  OnceOnly(a \o c, jobs, done, n)
<1> SUFFICES ASSUME NEW i \in 1 .. n
             PROVE  /\ \A k, l : Identifies(a \o c, k, i) /\ Identifies(a \o c, l, i) => k = l
                    /\ \A k : Identifies(a \o c, k, i) => i \notin done /\ \A msg \in jobs : msg.id # i
                    /\ \A msg \in jobs : msg.id = i => i \notin done
                    /\ \A one, two \in jobs : one.id = i /\ two.id = i => one = two
  BY DEF OnceOnly
<1>1. \A k : Identifies(a \o c, k, i) =>
        \/ Identifies(a, k, i)
        \/ k = Len(a) + 1 /\ Identifies(c, 1, i) /\ Unseen(a, jobs, done, i)
  <2> SUFFICES ASSUME NEW k, Identifies(a \o c, k, i), ~Identifies(a, k, i)
               PROVE  k = Len(a) + 1 /\ Identifies(c, 1, i) /\ Unseen(a, jobs, done, i)
    OBVIOUS
  <2>1. PICK j \in 1 .. Len(c) : Len(a) + j = k /\ Identifies(c, j, i)
    BY IdentifiedJoined
  <2>2. j = 1 /\ Unseen(a, jobs, done, i)
    BY <2>1
  <2> QED
    BY <2>1, <2>2
<1>2. \A k, l : Identifies(a \o c, k, i) /\ Identifies(a \o c, l, i) => k = l
  <2>1. \A k, l : Identifies(a, k, i) /\ Identifies(a, l, i) => k = l
    BY DEF OnceOnly
  <2>2. Unseen(a, jobs, done, i) => \A k : ~Identifies(a, k, i)
    BY DEF Unseen
  <2>3. ASSUME NEW k, NEW l, Identifies(a \o c, k, i), Identifies(a \o c, l, i) PROVE k = l
    <3>1. CASE Unseen(a, jobs, done, i)
      <4>1. k = Len(a) + 1 /\ l = Len(a) + 1
        BY <1>1, <2>2, <2>3, <3>1, Zenon
      <4> QED
        BY <4>1, Zenon
    <3>2. CASE ~Unseen(a, jobs, done, i)
      <4>1. Identifies(a, k, i) /\ Identifies(a, l, i)
        BY <1>1, <2>3, <3>2, Zenon
      <4> QED
        BY <2>1, <4>1, Zenon
    <3> QED
      BY <3>1, <3>2
  <2> QED
    BY <2>3, Zenon
<1>3. \A k : Identifies(a \o c, k, i) => i \notin done /\ \A msg \in jobs : msg.id # i
  BY <1>1, Zenon DEF OnceOnly, Unseen
<1> QED
  BY <1>2, <1>3 DEF OnceOnly

(* Cells taken from the front, and the message that was there, if any. *)
LEMMA OnceTaken ==
  ASSUME NEW b \in Seq(Nat), NEW n \in 0 .. Len(b), NEW M, HoldsOnly(b, M),
         NEW jobs, NEW done, NEW N \in Nat, OnceOnly(b, jobs, done, N), NEW more,
         more = {} \/ (n > 0 /\ HeldAt(b, 1) /\ more = {There(b, 1)})
  PROVE  OnceOnly(Drop(b, n), jobs \cup more, done, N)
<1> DEFINE c == Drop(b, n)
<1>1. \A k, i : Identifies(c, k, i) => k \in Nat \ {0} /\ Identifies(b, n + k, i)
  BY IdentifiedDropped
<1>2. n \in Nat
  OBVIOUS
<1> HIDE DEF c
<1> SUFFICES ASSUME NEW i \in 1 .. N
             PROVE  /\ \A k, l : Identifies(c, k, i) /\ Identifies(c, l, i) => k = l
                    /\ \A k : Identifies(c, k, i) => i \notin done /\ \A msg \in jobs \cup more : msg.id # i
                    /\ \A msg \in jobs \cup more : msg.id = i => i \notin done
                    /\ \A one, two \in jobs \cup more : one.id = i /\ two.id = i => one = two
  BY DEF OnceOnly, c
<1>3. /\ \A k, l : Identifies(b, k, i) /\ Identifies(b, l, i) => k = l
      /\ \A k : Identifies(b, k, i) => i \notin done /\ \A msg \in jobs : msg.id # i
      /\ \A msg \in jobs : msg.id = i => i \notin done
      /\ \A one, two \in jobs : one.id = i /\ two.id = i => one = two
  BY DEF OnceOnly
<1>4. ASSUME NEW msg \in more, msg.id = i
      PROVE  Identifies(b, 1, i) /\ n > 0 /\ more = {msg}
  BY <1>4 DEF Identifies
<1>5. ASSUME NEW k, NEW l, Identifies(c, k, i), Identifies(c, l, i) PROVE k = l
  <2>1. k \in Nat /\ l \in Nat /\ n + k = n + l
    BY <1>1, <1>3, <1>5
  <2> QED
    BY <1>2, <2>1
<1>6. ASSUME NEW k, Identifies(c, k, i), NEW msg \in more PROVE msg.id # i
  <2> SUFFICES ASSUME msg.id = i PROVE FALSE
    OBVIOUS
  <2>1. k \in Nat \ {0} /\ n + k = 1 /\ n > 0
    BY <1>1, <1>3, <1>4, <1>6
  <2> QED
    BY <1>2, <2>1
<1>7. \A k : Identifies(c, k, i) => i \notin done /\ \A msg \in jobs \cup more : msg.id # i
  BY <1>1, <1>3, <1>6
<1>8. \A msg \in jobs \cup more : msg.id = i => i \notin done
  BY <1>3, <1>4
<1>9. \A one, two \in jobs \cup more : one.id = i /\ two.id = i => one = two
  BY <1>3, <1>4
<1> QED
  BY <1>5, <1>7, <1>8, <1>9

LEMMA OnceHandled ==
  ASSUME NEW cells, NEW jobs, NEW done, NEW n, OnceOnly(cells, jobs, done, n), NEW msg \in jobs
  PROVE  OnceOnly(cells, jobs \ {msg}, done \cup {msg.id}, n)
BY DEF OnceOnly

-------------------------------------------------------------------------------
(* What the handlers meant. *)
IsMeant(x, type) ==
  /\ x = [code |-> x.code, fields |-> x.fields]
  /\ type = 4353 => Typed(LoginLayout, x.fields)
Meant(meant, a, n) ==
  \A i \in DOMAIN meant : i \in 1 .. n => i \in 1 .. Len(a) /\ IsMeant(meant[i], a[i].type)

LEMMA MeantAsked ==
  ASSUME NEW a \in Seq(Request), NEW r \in Request, NEW n, NEW meant, Meant(meant, a, n)
  PROVE  Meant(meant, Append(a, r), n)
<1>1. \A i \in 1 .. Len(a) : i \in 1 .. Len(Append(a, r)) /\ Append(a, r)[i] = a[i]
  BY Appended
<1> QED
  BY <1>1 DEF Meant

Means(code, fields) == [code |-> code, fields |-> fields]

LEMMA WithIs ==
  ASSUME NEW f, NEW i, NEW x
  PROVE  /\ DOMAIN With(f, i, x) = DOMAIN f \cup {i} /\ With(f, i, x)[i] = x
         /\ \A j \in DOMAIN f : j # i => With(f, i, x)[j] = f[j]
BY DEF With

LEMMA MeantHandled ==
  ASSUME NEW a, NEW n, NEW meant, Meant(meant, a, n), NEW i, NEW code, NEW fields,
         i \in 1 .. n => i \in 1 .. Len(a) /\ (a[i].type = 4353 => Typed(LoginLayout, fields))
  PROVE  Meant(With(meant, i, Means(code, fields)), a, n)
<1>0. PICK x : x = Means(code, fields)
  OBVIOUS
<1> DEFINE m == With(meant, i, x)
<1>1. DOMAIN m = DOMAIN meant \cup {i} /\ m[i] = x /\ \A j \in DOMAIN meant : j # i => m[j] = meant[j]
  BY DEF With
<1>2. i \in 1 .. n => i \in 1 .. Len(a) /\ IsMeant(x, a[i].type)
  BY <1>0 DEF IsMeant, Means
<1> HIDE DEF m
<1>3. ASSUME NEW j \in DOMAIN m, j \in 1 .. n PROVE j \in 1 .. Len(a) /\ IsMeant(m[j], a[j].type)
  <2>1. CASE j = i
    BY <1>1, <1>2, <1>3, <2>1
  <2>2. CASE j # i
    <3>1. j \in DOMAIN meant /\ m[j] = meant[j]
      BY <1>1, <2>2
    <3> QED
      BY <1>3, <3>1 DEF Meant
  <2> QED
    BY <2>1, <2>2
<1>4. Meant(m, a, n)
  BY <1>3 DEF Meant
<1> QED
  BY <1>0, <1>4 DEF m

-------------------------------------------------------------------------------
(* What the client may find: what other releases say, answers to requests    *)
(* that are not its own, and what the handlers meant.                        *)
IsReply(msg, a, meant) ==
  /\ msg.id \in 1 .. Len(a) /\ msg.id \in DOMAIN meant /\ msg.type = a[msg.id].type + 1
  /\ Tells(a[msg.id].type, meant[msg.id].code, meant[msg.id].fields, msg.body)
Replies(a, meant, n, alien) ==
  {msg \in Message :
    \/ alien /\ msg \in HarmlessReplies
    \/ msg.id \notin 1 .. n
    \/ IsReply(msg, a, meant)}

LEMMA RepliesAsked ==
  ASSUME NEW a \in Seq(Request), NEW r \in Request, NEW n, NEW meant, NEW alien
  PROVE  Replies(a, meant, n, alien) \subseteq Replies(Append(a, r), meant, n, alien)
<1>1. \A i \in 1 .. Len(a) : i \in 1 .. Len(Append(a, r)) /\ Append(a, r)[i] = a[i]
  BY Appended
<1>2. \A msg : IsReply(msg, a, meant) => IsReply(msg, Append(a, r), meant)
  BY <1>1 DEF IsReply
<1> QED
  BY <1>2 DEF Replies

LEMMA RepliesHandled ==
  ASSUME NEW a, NEW meant, NEW n, NEW alien, NEW i, i \in 1 .. n => i \notin DOMAIN meant, NEW x
  PROVE  Replies(a, meant, n, alien) \subseteq Replies(a, With(meant, i, x), n, alien)
<1> DEFINE m == With(meant, i, x)
<1>1. DOMAIN m = DOMAIN meant \cup {i} /\ \A j \in DOMAIN meant : j # i => m[j] = meant[j]
  BY WithIs
<1> HIDE DEF m
<1>2. \A msg : msg.id \in 1 .. n /\ IsReply(msg, a, meant) => IsReply(msg, a, m)
  <2> SUFFICES ASSUME NEW msg, msg.id \in 1 .. n, IsReply(msg, a, meant) PROVE IsReply(msg, a, m)
    OBVIOUS
  <2>1. msg.id \in DOMAIN meant /\ msg.id # i
    BY DEF IsReply
  <2>2. msg.id \in DOMAIN m /\ m[msg.id] = meant[msg.id]
    BY <1>1, <2>1
  <2> QED
    BY <2>2 DEF IsReply
<1>3. Replies(a, meant, n, alien) \subseteq Replies(a, m, n, alien)
  BY <1>2 DEF Replies
<1> QED
  BY <1>3 DEF m

Answered(a, meant, n, alien, msg, code, fields, body) ==
  Sent(ResponseType(msg.type), msg.id, body)
    \in Replies(a, With(meant, msg.id, Means(code, fields)), n, alien)
LEMMA AnswerIsReply ==
  ASSUME NEW a \in Seq(Request), NEW meant, NEW n \in Nat, n < TypeCell(4097, 0), Len(a) <= n, NEW alien,
         NEW msg \in Known(a, n), NEW code, NEW fields, NEW body \in Seq(D),
         msg.type \in RequestTypes => Tells(msg.type, code, fields, body)
  PROVE  Answered(a, meant, n, alien, msg, code, fields, body)
<1>0. PICK x : x = Means(code, fields)
  OBVIOUS
<1> DEFINE m == With(meant, msg.id, x)
           s == Sent(ResponseType(msg.type), msg.id, body)
<1>1. msg.id \in DOMAIN m /\ m[msg.id] = Means(code, fields)
  BY <1>0 DEF With
<1>2. /\ msg.type \in MessageTypes /\ msg.id \in Nat
      /\ msg.id \in 1 .. n => msg.id \in 1 .. Len(a) /\ IsOwn(msg, a)
  BY KnownIs DEF Message
<1>3. body \in Seq(Nat)
  BY CellsAreNat DEF D
<1>4. ResponseType(msg.type) \in MessageTypes
  BY <1>2 DEF ResponseType, MessageTypes
<1>5. s.type = ResponseType(msg.type) /\ s.version = Version /\ s.id = msg.id /\ s.body = body
      /\ s \in Message
  BY <1>2, <1>3, <1>4 DEF Sent, Message
<1> HIDE DEF m, s
<1>6. ASSUME msg.id \in 1 .. n PROVE IsReply(s, a, m)
  <2>1. msg.id \in 1 .. Len(a) /\ msg.type = a[msg.id].type
    BY <1>2, <1>6 DEF IsOwn
  <2>2. msg.type \in RequestTypes
    <3>1. a[msg.id] \in Request
      BY <2>1
    <3> QED
      BY <2>1, <3>1 DEF Request
  <2>3. ResponseType(msg.type) = msg.type + 1
    BY <2>2 DEF ResponseType
  <2>4. Tells(a[msg.id].type, m[msg.id].code, m[msg.id].fields, body)
    BY <1>1, <2>1, <2>2 DEF Means
  <2> QED
    BY <1>1, <1>5, <2>1, <2>3, <2>4 DEF IsReply
<1>7. s \in Replies(a, m, n, alien)
  BY <1>5, <1>6 DEF Replies
<1> QED
  BY <1>0, <1>7 DEF m, s, Answered

(* What the client makes of them. *)
LEMMA ReplyReads ==
  ASSUME NEW a \in Seq(Request), NEW meant, NEW n, NEW alien, NEW msg \in Replies(a, meant, n, alien),
         msg.id \in 1 .. n, msg.id \in 1 .. Len(a)
  PROVE  LET d == Decoded(a[msg.id].type, msg) IN
         \/ alien /\ ~d.ok
         \/ /\ msg.id \in DOMAIN meant
            /\ \/ d.ok /\ d.code = meant[msg.id].code /\ d.fields = meant[msg.id].fields
               \/ /\ ~d.ok
                  /\ TooLarge(a[msg.id].type, Means(meant[msg.id].code, meant[msg.id].fields))
<1>1. PICK d : d = Decoded(a[msg.id].type, msg)
  OBVIOUS
<1>2. a[msg.id].type \in RequestTypes
  <2>1. a[msg.id] \in Request
    OBVIOUS
  <2> QED
    BY <2>1 DEF Request
<1>3. CASE alien /\ msg \in HarmlessReplies
  BY <1>1, <1>2, <1>3 DEF HarmlessReplies
<1>4. CASE IsReply(msg, a, meant)
  <2>1. d = ReadAnswer(a[msg.id].type, msg.body)
    BY <1>1, <1>2, <1>4, DecodedIs DEF IsReply
  <2>2. Tells(a[msg.id].type, meant[msg.id].code, meant[msg.id].fields, msg.body)
        /\ msg.id \in DOMAIN meant
    BY <1>4 DEF IsReply
  <2>3. CASE ReadsAnswer(d, meant[msg.id].code, meant[msg.id].fields)
    BY <1>1, <2>2, <2>3 DEF ReadsAnswer
  <2>4. CASE ~d.ok /\ TooLarge(a[msg.id].type, Means(meant[msg.id].code, meant[msg.id].fields))
    BY <1>1, <2>2, <2>4
  <2> QED
    BY <2>1, <2>2, <2>3, <2>4 DEF Tells, Means
<1> QED
  BY <1>1, <1>3, <1>4 DEF Replies

-------------------------------------------------------------------------------
(* Cells in step: messages and frames one behind the other, each whole, and  *)
(* nothing in one of them reads as the start of another.                     *)
Starts(B, k) == k \in 1 .. Len(B) /\ (IsHeader(B[k]) \/ (k < Len(B) /\ B[k + 1] = Magic))
Sized(B, k) ==
  IF IsHeader(B[k]) THEN k < Len(B) /\ B[k + 1] <= MaxBody ELSE B[k] \in 5 .. 5 + MaxData
ItemLen(B, k) == IF IsHeader(B[k]) THEN 3 + B[k + 1] ELSE B[k]
Reaches(B, k, next) ==
  /\ next <= Len(B) + 1 /\ \A l \in k + 1 .. next - 1 : ~Starts(B, l)
  /\ next = Len(B) + 1 \/ Starts(B, next)
ItemAt(B, k) == Sized(B, k) /\ Reaches(B, k, k + ItemLen(B, k))
Sync(B) == (B # <<>> => Starts(B, 1)) /\ \A k : Starts(B, k) => ItemAt(B, k)

LEMMA ItemSize ==
  ASSUME NEW B \in Seq(Nat), NEW k \in 1 .. Len(B), Sized(B, k)
  PROVE  ItemLen(B, k) \in Nat /\ ItemLen(B, k) >= 3
<1>1. PICK p \in Nat, n \in Nat : p = k /\ n = Len(B)
  OBVIOUS
<1>2. CASE IsHeader(B[k])
  <2>1. p < n /\ p + 1 \in 1 .. n
    BY <1>1, <1>2 DEF Sized
  <2>2. B[p + 1] \in Nat
    BY <1>1, <2>1
  <2> QED
    BY <1>1, <1>2, <2>2 DEF ItemLen
<1>3. CASE ~IsHeader(B[k])
  BY <1>3, LimitIs DEF ItemLen, Sized
<1> QED
  BY <1>2, <1>3

Clean(b, d, a) == Contains(b, d, a) /\ (d + Len(a) = Len(b) \/ b[d + Len(a) + 1] # Magic)

LEMMA StartMoves ==
  ASSUME NEW a \in Seq(Nat), NEW b \in Seq(Nat), NEW d \in Nat, Clean(b, d, a), NEW k \in 1 .. Len(a)
  PROVE  Starts(b, d + k) <=> Starts(a, k)
<1>1. PICK m \in Nat, n \in Nat, p \in Nat : m = Len(a) /\ n = Len(b) /\ p = k /\ p \in 1 .. m
  OBVIOUS
<1>2. /\ d + m <= n /\ \A i \in 1 .. m : b[d + i] = a[i]
      /\ d + m = n \/ b[d + m + 1] # Magic
  BY <1>1 DEF Clean, Contains
<1>3. b[d + p] = a[p] /\ d + p \in 1 .. n
  BY <1>1, <1>2
<1>4. CASE p < m
  <2>1. p + 1 \in 1 .. m /\ d + (p + 1) = d + p + 1 /\ d + p < n
    BY <1>1, <1>2, <1>4, SMTT(40)
  <2>2. b[d + p + 1] = a[p + 1]
    BY <1>2, <2>1
  <2> QED
    BY <1>1, <1>3, <1>4, <2>1, <2>2 DEF Starts
<1>5. CASE ~(p < m)
  <2>1. p = m
    BY <1>1, <1>5
  <2>2. ~(d + p < n /\ b[d + p + 1] = Magic)
    BY <1>2, <2>1
  <2> QED
    BY <1>1, <1>3, <1>5, <2>2 DEF Starts
<1> QED
  BY <1>4, <1>5

LEMMA SizedMoves ==
  ASSUME NEW a \in Seq(Nat), NEW b \in Seq(Nat), NEW d \in Nat, Contains(b, d, a), NEW k \in 1 .. Len(a)
  PROVE  /\ Sized(a, k) => Sized(b, d + k) /\ ItemLen(b, d + k) = ItemLen(a, k)
         /\ d + Len(a) = Len(b) /\ Sized(b, d + k) => Sized(a, k)
<1>1. PICK m \in Nat, n \in Nat, p \in Nat : m = Len(a) /\ n = Len(b) /\ p = k /\ p \in 1 .. m
  OBVIOUS
<1>2. d + m <= n /\ \A i \in 1 .. m : b[d + i] = a[i]
  BY <1>1 DEF Contains
<1>3. b[d + p] = a[p]
  BY <1>1, <1>2
<1>4. CASE p < m
  <2>1. p + 1 \in 1 .. m /\ d + (p + 1) = d + p + 1 /\ d + p < n
    BY <1>1, <1>2, <1>4
  <2>2. b[d + p + 1] = a[p + 1]
    BY <1>2, <2>1
  <2> QED
    BY <1>1, <1>3, <1>4, <2>1, <2>2 DEF Sized, ItemLen
<1>5. CASE ~(p < m)
  <2>1. p = m /\ ~(p < m) /\ (d + m = n => ~(d + p < n))
    BY <1>1, <1>5
  <2> QED
    BY <1>1, <1>3, <2>1 DEF Sized, ItemLen
<1> QED
  BY <1>4, <1>5

(* An item at the end of the cells, and one in front of others. *)
LEMMA ItemBehind ==
  ASSUME NEW a \in Seq(Nat), NEW b \in Seq(Nat), NEW d \in Nat, Contains(b, d, a),
         d + Len(a) = Len(b), NEW k \in 1 .. Len(a)
  PROVE  ItemAt(a, k) <=> ItemAt(b, d + k)
<1>1. PICK m \in Nat, n \in Nat, p \in Nat : m = Len(a) /\ n = Len(b) /\ p = k /\ p \in 1 .. m /\ d + m = n
  OBVIOUS
<1>2. Clean(b, d, a)
  BY DEF Clean
<1>3. (Sized(a, p) <=> Sized(b, d + p)) /\ (Sized(a, p) => ItemLen(b, d + p) = ItemLen(a, p))
  BY <1>1, SizedMoves
<1>4. \A x \in 1 .. m : Starts(b, d + x) <=> Starts(a, x)
  BY <1>1, <1>2, StartMoves
<1>5. CASE ~Sized(a, p)
  BY <1>1, <1>3, <1>5 DEF ItemAt, Reaches
<1>6. CASE Sized(a, p)
  <2>1. PICK l \in Nat : l = ItemLen(a, p) /\ l >= 3
    BY <1>1, <1>6, ItemSize
  <2>2. ItemLen(b, d + p) = l
    BY <1>3, <1>6, <2>1
  <2>3. CASE ~(p + l <= m + 1)
    <3>1. ~(d + p + l <= n + 1)
      BY <1>1, <2>3
    <3> QED
      BY <1>1, <2>1, <2>2, <2>3, <3>1 DEF ItemAt, Reaches
  <2>4. CASE p + l <= m + 1
    <3>1. d + p + l <= n + 1
      BY <1>1, <2>4
    <3>2. (\A x \in p + 1 .. p + l - 1 : ~Starts(a, x)) <=> (\A y \in d + p + 1 .. d + p + l - 1 : ~Starts(b, y))
      <4>1. ASSUME \A x \in p + 1 .. p + l - 1 : ~Starts(a, x), NEW y \in d + p + 1 .. d + p + l - 1
            PROVE  ~Starts(b, y)
        <5>1. PICK x \in 1 .. m : d + x = y /\ x \in p + 1 .. p + l - 1
          <6>1. y - d \in 1 .. m /\ d + (y - d) = y /\ y - d \in p + 1 .. p + l - 1
            BY <1>1, <2>4
          <6> QED
            BY <6>1
        <5> QED
          BY <1>4, <4>1, <5>1
      <4>2. ASSUME \A y \in d + p + 1 .. d + p + l - 1 : ~Starts(b, y), NEW x \in p + 1 .. p + l - 1
            PROVE  ~Starts(a, x)
        <5>1. x \in 1 .. m /\ d + x \in d + p + 1 .. d + p + l - 1
          BY <1>1, <2>4
        <5> QED
          BY <1>4, <4>2, <5>1
      <4> QED
        BY <4>1, <4>2
    <3>3. (p + l = m + 1 \/ Starts(a, p + l)) <=> (d + p + l = n + 1 \/ Starts(b, d + p + l))
      <4>0. d + m = n
        BY <1>1
      <4>1. p + l = m + 1 <=> d + p + l = n + 1
        BY <4>0
      <4>2. CASE p + l = m + 1
        BY <4>1, <4>2
      <4>3. CASE p + l # m + 1
        <5>1. p + l \in 1 .. m /\ d + (p + l) = d + p + l
          <6>1. p + l >= 1
            BY <2>1
          <6> QED
            BY <2>4, <4>3, <6>1
        <5>2. Starts(b, d + p + l) <=> Starts(a, p + l)
          BY <1>4, <5>1
        <5> QED
          BY <4>1, <4>3, <5>2
      <4> QED
        BY <4>2, <4>3
    <3>4. ItemAt(a, p) <=> /\ \A x \in p + 1 .. p + l - 1 : ~Starts(a, x)
                           /\ p + l = m + 1 \/ Starts(a, p + l)
      <4>1. ItemAt(a, p) <=> Reaches(a, p, p + l)
        BY <1>6, <2>1 DEF ItemAt
      <4> QED
        BY <1>1, <2>4, <4>1, SMTT(40) DEF Reaches
    <3>5. ItemAt(b, d + p) <=> /\ \A y \in d + p + 1 .. d + p + l - 1 : ~Starts(b, y)
                               /\ d + p + l = n + 1 \/ Starts(b, d + p + l)
      <4>1. ItemAt(b, d + p) <=> Reaches(b, d + p, d + p + l)
        BY <1>3, <1>6, <2>2 DEF ItemAt
      <4> QED
        BY <1>1, <3>1, <4>1, SMTT(40) DEF Reaches
    <3> QED
      BY <1>1, <3>2, <3>3, <3>4, <3>5
  <2> QED
    BY <2>3, <2>4
<1> QED
  BY <1>5, <1>6

LEMMA ItemInFront ==
  ASSUME NEW a \in Seq(Nat), NEW b \in Seq(Nat), Clean(b, 0, a), NEW k \in 1 .. Len(a), ItemAt(a, k),
         Len(b) = Len(a) \/ Starts(b, Len(a) + 1)
  PROVE  ItemAt(b, k)
<1>1. PICK m \in Nat, n \in Nat, p \in Nat : m = Len(a) /\ n = Len(b) /\ p = k /\ p \in 1 .. m
  OBVIOUS
<1>2. Sized(a, p) /\ p + ItemLen(a, p) <= m + 1
  BY <1>1 DEF ItemAt, Reaches
<1>3. PICK l \in Nat : l = ItemLen(a, p) /\ l >= 3
  BY <1>1, <1>2, ItemSize
<1>4. /\ p + l <= m + 1 /\ \A x \in p + 1 .. p + l - 1 : ~Starts(a, x)
      /\ p + l = m + 1 \/ Starts(a, p + l)
  BY <1>1, <1>3 DEF ItemAt, Reaches
<1>5. 0 + p = p /\ Contains(b, 0, a)
  BY DEF Clean
<1>6. Sized(b, p) /\ ItemLen(b, p) = l
  BY <1>1, <1>2, <1>3, <1>5, SizedMoves
<1>7. \A x \in 1 .. m : Starts(b, x) <=> Starts(a, x)
  <2>1. \A x \in 1 .. m : 0 + x = x
    OBVIOUS
  <2> QED
    BY <1>1, <2>1, StartMoves
<1>8. m <= n
  BY <1>1, <1>5 DEF Contains
<1>9. p + l <= n + 1 /\ \A x \in p + 1 .. p + l - 1 : x \in 1 .. m
  BY <1>1, <1>4, <1>8
<1>10. \A x \in p + 1 .. p + l - 1 : ~Starts(b, x)
  BY <1>4, <1>7, <1>9
<1>11. p + l = n + 1 \/ Starts(b, p + l)
  <2>1. CASE p + l = m + 1
    BY <1>1, <2>1
  <2>2. CASE p + l # m + 1
    <3>1. p + l \in 1 .. m
      BY <1>1, <1>4, <2>2
    <3> QED
      BY <1>4, <1>7, <2>2, <3>1
  <2> QED
    BY <2>1, <2>2
<1> QED
  BY <1>1, <1>6, <1>9, <1>10, <1>11 DEF ItemAt, Reaches

LEMMA SyncJoined ==
  ASSUME NEW a \in Seq(Nat), NEW c \in Seq(Nat), Sync(a), Sync(c), c # <<>> => c[1] # Magic
  PROVE  Sync(a \o c)
<1>1. PICK b : b = a \o c
  OBVIOUS
<1>2. b \in Seq(Nat) /\ Len(b) = Len(a) + Len(c) /\ Contains(b, 0, a) /\ Contains(b, Len(a), c)
  BY <1>1, JoinedContains
<1>3. PICK m \in Nat, n \in Nat : m = Len(a) /\ n = Len(c) /\ Len(b) = m + n
  BY <1>2
<1>4. (n = 0 <=> c = <<>>) /\ (m = 0 <=> a = <<>>)
  BY <1>3
<1>5. n # 0 => b[m + 1] = c[1] /\ c[1] # Magic
  <2> SUFFICES ASSUME n # 0 PROVE b[m + 1] = c[1] /\ c[1] # Magic
    OBVIOUS
  <2>1. 1 \in 1 .. n
    OBVIOUS
  <2> QED
    BY <1>2, <1>3, <1>4, <2>1 DEF Contains
<1>6. Clean(b, 0, a)
  <2>1. n = 0 => 0 + Len(a) = Len(b)
    BY <1>3
  <2>2. n # 0 => b[0 + Len(a) + 1] # Magic
    BY <1>3, <1>5
  <2> QED
    BY <1>2, <2>1, <2>2 DEF Clean
<1>7. Clean(b, m, c) /\ m + Len(c) = Len(b)
  BY <1>2, <1>3 DEF Clean
<1>8. \A k \in 1 .. m : Starts(b, k) <=> Starts(a, k)
  <2>1. \A x \in 1 .. m : 0 + x = x
    OBVIOUS
  <2> QED
    BY <1>2, <1>3, <1>6, <2>1, StartMoves
<1>9. \A j \in 1 .. n : Starts(b, m + j) <=> Starts(c, j)
  BY <1>2, <1>3, <1>7, StartMoves
<1>10. n # 0 => Starts(b, m + 1)
  <2>1. n # 0 => 1 \in 1 .. n
    OBVIOUS
  <2> QED
    BY <1>4, <1>9, <2>1 DEF Sync
<1>11. b # <<>> => Starts(b, 1)
  <2>1. CASE m = 0
    <3>1. m + 1 = 1 /\ (n = 0 => b = <<>>)
      BY <1>2, <1>3, <2>1
    <3> QED
      BY <1>10, <3>1
  <2>2. CASE m # 0
    <3>1. 1 \in 1 .. m
      BY <2>2
    <3> QED
      BY <1>4, <1>8, <2>2, <3>1 DEF Sync
  <2> QED
    BY <2>1, <2>2
<1>12. ASSUME NEW k, Starts(b, k) PROVE ItemAt(b, k)
  <2>1. k \in 1 .. m + n
    BY <1>3, <1>12 DEF Starts
  <2>2. CASE k <= m
    <3>1. k \in 1 .. m
      BY <2>1, <2>2
    <3>2. ItemAt(a, k)
      BY <1>8, <1>12, <3>1 DEF Sync
    <3>3. Len(b) = Len(a) \/ Starts(b, Len(a) + 1)
      BY <1>3, <1>10
    <3> QED
      BY <1>2, <1>3, <1>6, <3>1, <3>2, <3>3, ItemInFront
  <2>3. CASE ~(k <= m)
    <3>1. PICK j \in 1 .. n : m + j = k
      <4>1. k - m \in 1 .. n /\ m + (k - m) = k
        BY <2>1, <2>3
      <4> QED
        BY <4>1
    <3>2. ItemAt(c, j)
      BY <1>9, <1>12, <3>1 DEF Sync
    <3> QED
      BY <1>2, <1>3, <1>7, <3>1, <3>2, ItemBehind
  <2> QED
    BY <2>2, <2>3
<1> QED
  BY <1>1, <1>11, <1>12 DEF Sync

(* What follows an item, after all that was in front of it. *)
LEMMA SyncAfter ==
  ASSUME NEW b \in Seq(Nat), Sync(b), NEW d \in Nat, Starts(b, d + 1)
  PROVE  /\ ItemLen(b, d + 1) \in Nat /\ ItemLen(b, d + 1) >= 3 /\ Sized(b, d + 1)
         /\ d + ItemLen(b, d + 1) \in 0 .. Len(b)
         /\ \A l \in d + 2 .. d + ItemLen(b, d + 1) : ~Starts(b, l)
         /\ Sync(Drop(b, d + ItemLen(b, d + 1)))
<1>1. PICK m \in Nat, k \in Nat : m = Len(b) /\ k = d + 1 /\ k \in 1 .. m
  <2>1. d + 1 \in 1 .. Len(b) /\ Len(b) \in Nat
    BY DEF Starts
  <2> QED
    BY <2>1
<1>2. Starts(b, k) /\ Sized(b, k) /\ Reaches(b, k, k + ItemLen(b, k))
  BY <1>1 DEF Sync, ItemAt
<1>3. PICK n \in Nat : n = ItemLen(b, k) /\ n >= 3
  BY <1>1, <1>2, ItemSize
<1>4. /\ k + n <= m + 1 /\ \A l \in k + 1 .. k + n - 1 : ~Starts(b, l)
      /\ k + n = m + 1 \/ Starts(b, k + n)
  BY <1>1, <1>2, <1>3 DEF Reaches
<1>0. k = d + 1
  BY <1>1
<1>5. d + n \in 0 .. m /\ \A l \in d + 2 .. d + n : l \in k + 1 .. k + n - 1
  BY <1>0, <1>3, <1>4
<1>6. PICK a : a = Drop(b, d + n)
  OBVIOUS
<1>7. a \in Seq(Nat) /\ d + n + Len(a) = Len(b) /\ Contains(b, d + n, a) /\ d + n \in Nat
  <2>1. PICK x \in Nat : x = d + n /\ x \in 0 .. Len(b)
    BY <1>1, <1>5
  <2>2. a \in Seq(Nat) /\ x + Len(a) = Len(b) /\ Contains(b, x, a)
    BY <1>6, <2>1, DropContains
  <2> QED
    BY <2>1, <2>2
<1>8. Clean(b, d + n, a)
  BY <1>7 DEF Clean
<1>9. \A i \in 1 .. Len(a) : Starts(b, d + n + i) <=> Starts(a, i)
  BY <1>7, <1>8, StartMoves
<1>10. a # <<>> => Starts(a, 1)
  <2> SUFFICES ASSUME a # <<>> PROVE Starts(a, 1)
    OBVIOUS
  <2>1. PICK q \in Nat : q = Len(a) /\ 1 \in 1 .. q /\ d + n + q = m
    <3>1. 1 \in 1 .. Len(a)
      BY <1>7
    <3> QED
      BY <1>1, <1>7, <3>1
  <2>2. d + n + 1 = k + n /\ k + n # m + 1
    BY <1>0, <2>1
  <2> QED
    BY <1>4, <1>9, <2>1, <2>2
<1>11. ASSUME NEW i, Starts(a, i) PROVE ItemAt(a, i)
  <2>1. i \in 1 .. Len(a)
    BY <1>11 DEF Starts
  <2>2. ItemAt(b, d + n + i)
    BY <1>9, <1>11, <2>1 DEF Sync
  <2> QED
    BY <1>7, <2>1, <2>2, ItemBehind
<1>12. Sync(Drop(b, d + n))
  BY <1>6, <1>10, <1>11 DEF Sync
<1>13. n = ItemLen(b, d + 1) /\ Sized(b, d + 1) /\ m = Len(b)
  BY <1>1, <1>2, <1>3
<1>14. \A l \in d + 2 .. d + n : ~Starts(b, l)
  BY <1>4, <1>5
<1> QED
  BY <1>3, <1>5, <1>12, <1>13, <1>14

LEMMA SyncOne ==
  ASSUME NEW c \in Seq(Nat), Starts(c, 1), Sized(c, 1), ItemLen(c, 1) = Len(c),
         \A k \in 2 .. Len(c) : ~Starts(c, k)
  PROVE  Sync(c)
<1>1. PICK n \in Nat : n = Len(c) /\ 1 \in 1 .. n
  BY DEF Starts
<1>2. \A k : Starts(c, k) => k = 1
  <2> SUFFICES ASSUME NEW k, Starts(c, k), k # 1 PROVE FALSE
    OBVIOUS
  <2>1. k \in 2 .. n
    BY <1>1 DEF Starts
  <2> QED
    BY <1>1, <2>1
<1>3. 1 + n <= n + 1 /\ 1 + n = n + 1 /\ \A l \in 1 + 1 .. 1 + n - 1 : l \in 2 .. n
  BY <1>1
<1>4. ItemAt(c, 1)
  BY <1>1, <1>3 DEF ItemAt, Reaches
<1> QED
  BY <1>2, <1>4 DEF Sync

LEMMA PutSync ==
  ASSUME NEW type \in MessageTypes, NEW id \in Nat, Plain(id), NEW body \in Seq(D),
         Len(body) <= MaxBody
  PROVE  Sync(Put(type, id, body))
<1>1. PICK e : e = Put(type, id, body)
  OBVIOUS
<1>2. /\ e \in Seq(Nat) /\ Len(e) = 3 + Len(body) /\ Len(body) \in Nat /\ e[2] = Len(body)
      /\ IsHeader(e[1]) /\ e[1] # Magic /\ \A k \in 1 .. Len(e) : k # 1 => Plain(e[k])
  BY <1>1, PutStarts
<1>3. PICK n \in Nat : n = Len(e) /\ n >= 3 /\ 1 \in 1 .. n /\ 1 < n
  BY <1>2
<1>4. Starts(e, 1) /\ Sized(e, 1) /\ ItemLen(e, 1) = Len(e)
  <2>1. 1 + 1 = 2
    OBVIOUS
  <2> QED
    BY <1>2, <1>3, <2>1 DEF Starts, Sized, ItemLen
<1>5. ASSUME NEW k \in 2 .. Len(e) PROVE ~Starts(e, k)
  <2>1. k \in 1 .. n /\ k # 1 /\ (k < n => k + 1 \in 1 .. n /\ k + 1 # 1)
    BY <1>3
  <2> QED
    BY <1>2, <1>3, <2>1 DEF Starts, Plain
<1> QED
  BY <1>1, <1>2, <1>4, <1>5, SyncOne

-------------------------------------------------------------------------------
(* A frame of any release, as it is sent. *)
WireOf(f) == [EncodeFrame(f.packet) EXCEPT ![3] = f.version]
IsWire(w, f) ==
  /\ w \in Seq(Nat) /\ Len(w) = 5 + Len(f.packet.data) /\ w[1] = Len(w) /\ w[2] = Magic
  /\ w[3] = f.version /\ w[4] = f.packet.pts /\ w[5] = Len(f.packet.data)
  /\ \A i \in 1 .. Len(f.packet.data) : w[5 + i] = f.packet.data[i]

LEMMA WireIs ==
  ASSUME NEW f, Frame(f)
  PROVE  IsWire(WireOf(f), f) /\ Len(f.packet.data) \in 0 .. MaxData
<1>1. /\ f.version \in Nat /\ f.packet.pts \in Nat /\ f.packet.data \in Seq(D)
      /\ f.packet = [pts |-> f.packet.pts, data |-> f.packet.data] /\ Len(f.packet.data) <= MaxData
  BY DEF Frame, Plain, D
<1>2. f.packet.data \in Seq(Nat)
  BY <1>1, CellsAreNat DEF D
<1>3. f.packet \in MediaPacket
  BY <1>1, <1>2 DEF MediaPacket, Cell
<1>4. PICK e : e = EncodeFrame(f.packet)
  OBVIOUS
<1>5. PICK data : data = f.packet.data /\ data \in Seq(Nat)
  BY <1>2
<1>6. /\ e \in Seq(Nat) /\ Len(e) = 5 + Len(data)
      /\ e[1] = Len(e) /\ e[2] = Magic /\ e[3] = Version /\ e[4] = f.packet.pts
      /\ e[5] = Len(data) /\ SubSeq(e, 6, Len(e)) = data
  BY <1>1, <1>3, <1>4, <1>5, EncodedFrame DEF Cell
<1>7. PICK n \in Nat : n = Len(data)
  BY <1>5
<1>8. \A i \in 1 .. n : e[5 + i] = data[i]
  <2>1. PICK d : d = SubSeq(e, 6, 5 + n)
    OBVIOUS
  <2>2. \A i \in 6 .. 5 + n : i \in 1 .. Len(e)
    BY <1>6, <1>7
  <2>3. \A i \in 6 .. 5 + n : e[i] \in Nat
    BY <1>6, <2>2, SMTT(40)
  <2>4. 6 \in Int /\ 5 + n \in Int /\ 5 + n - 6 + 1 = n /\ \A i \in 1 .. n : 6 + i - 1 = 5 + i
    OBVIOUS
  <2>5. \A i \in 1 .. 5 + n - 6 + 1 : d[i] = e[6 + i - 1]
    BY <2>1, <2>3, <2>4, SubSeqProperties
  <2>6. d = data
    BY <1>6, <1>7, <2>1
  <2> QED
    BY <2>4, <2>5, <2>6
<1>9. PICK w : w = [e EXCEPT ![3] = f.version]
  OBVIOUS
<1>10. 3 \in 1 .. Len(e) /\ 1 \in 1 .. Len(e) /\ 2 \in 1 .. Len(e) /\ 4 \in 1 .. Len(e) /\ 5 \in 1 .. Len(e)
  BY <1>6, <1>7
<1>11. /\ w \in Seq(Nat) /\ Len(w) = Len(e)
       /\ \A j \in 1 .. Len(e) : w[j] = IF j = 3 THEN f.version ELSE e[j]
  BY <1>1, <1>6, <1>9, <1>10, ExceptSeq
<1>12. \A i \in 1 .. n : w[5 + i] = data[i]
  <2>1. \A i \in 1 .. n : 5 + i \in 1 .. Len(e) /\ 5 + i # 3
    BY <1>6, <1>7
  <2> QED
    BY <1>8, <1>11, <2>1
<1>13. /\ w[1] = Len(w) /\ w[2] = Magic /\ w[3] = f.version /\ w[4] = f.packet.pts /\ w[5] = n
  BY <1>6, <1>7, <1>10, <1>11
<1>14. IsWire(w, f)
  BY <1>5, <1>6, <1>7, <1>11, <1>12, <1>13 DEF IsWire
<1>15. Len(f.packet.data) \in 0 .. MaxData
  BY <1>1, <1>5, <1>7, LimitIs
<1> QED
  BY <1>4, <1>9, <1>14, <1>15 DEF WireOf

LEMMA WirePlain ==
  ASSUME NEW f, Frame(f), NEW w, w = WireOf(f)
  PROVE  /\ \A k \in 1 .. Len(w) : k # 2 => Plain(w[k])
         /\ \A k \in 1 .. Len(w) : ~IsHeader(w[k])
         /\ Len(w) \in 5 .. 5 + MaxData
<1>1. IsWire(w, f) /\ Len(f.packet.data) \in 0 .. MaxData
  BY WireIs
<1>2. Plain(f.version) /\ Plain(f.packet.pts) /\ f.packet.data \in Seq(D)
  BY DEF Frame, D
<1>3. PICK n \in 0 .. MaxData : n = Len(f.packet.data) /\ n \in Nat
  BY <1>1, LimitIs
<1>0. Len(w) = 5 + n
  BY <1>1, <1>3 DEF IsWire
<1>4. Len(w) = 5 + n /\ Len(w) \in 5 .. 5 + MaxData
  BY <1>0, <1>3, LimitIs
<1>5. PICK limit \in Nat : limit = TypeCell(4097, 0)
  BY LimitIs
<1>6. 5 + n < limit /\ n < limit /\ 5 + n \in Nat
  BY <1>3, <1>5, LimitIs
<1>7. Plain(5 + n) /\ Plain(n)
  BY <1>5, <1>6, SmallIsPlain
<1>8. ASSUME NEW k \in 1 .. Len(w), k # 2 PROVE Plain(w[k])
  <2>1. CASE k = 1
    BY <1>1, <1>4, <1>7, <2>1 DEF IsWire
  <2>2. CASE k = 3
    BY <1>1, <1>2, <2>2 DEF IsWire
  <2>3. CASE k = 4
    BY <1>1, <1>2, <2>3 DEF IsWire
  <2>4. CASE k = 5
    BY <1>1, <1>3, <1>7, <2>4 DEF IsWire
  <2>5. CASE k > 5
    <3>1. PICK i \in 1 .. n : 5 + i = k
      <4>1. k - 5 \in 1 .. n /\ 5 + (k - 5) = k
        BY <1>4, <2>5
      <4> QED
        BY <4>1
    <3>4. i \in 1 .. Len(f.packet.data)
      BY <1>3
    <3>3. f.packet.data[i] \in D
      BY <1>2, <3>4, ElementOfSeq
    <3>2. w[k] = f.packet.data[i] /\ f.packet.data[i] \in D
      BY <1>1, <3>1, <3>3, <3>4 DEF IsWire
    <3> QED
      BY <3>2, DataIsPlain
  <2>6. k \in Nat /\ k >= 1
    BY <1>4
  <2> QED
    BY <1>8, <2>1, <2>2, <2>3, <2>4, <2>5, <2>6
<1>9. ~IsHeader(w[2])
  BY <1>1, MagicIsNoHeader DEF IsWire
<1> QED
  BY <1>4, <1>8, <1>9 DEF Plain

LEMMA WireItem ==
  ASSUME NEW f, Frame(f), NEW w, w = WireOf(f)
  PROVE  /\ Sync(w) /\ w \in Seq(Nat) /\ w # <<>> /\ w[1] # Magic /\ \A M : HoldsOnly(w, M)
         /\ w[4] = f.packet.pts
<1>1. IsWire(w, f)
  BY WireIs
<1>2. /\ \A k \in 1 .. Len(w) : k # 2 => Plain(w[k])
      /\ \A k \in 1 .. Len(w) : ~IsHeader(w[k])
      /\ Len(w) \in 5 .. 5 + MaxData
  BY WirePlain
<1>3. PICK n \in Nat : n = Len(w) /\ n >= 5 /\ n \in 5 .. 5 + MaxData
  BY <1>2, LimitIs
<1>4. w \in Seq(Nat) /\ w[1] = n /\ w[2] = Magic /\ w[4] = f.packet.pts
  BY <1>1, <1>3 DEF IsWire
<1>5. 1 \in 1 .. n /\ 1 + 1 = 2 /\ 1 < n
  BY <1>3
<1>6. Starts(w, 1) /\ Sized(w, 1) /\ ItemLen(w, 1) = Len(w)
  BY <1>2, <1>3, <1>4, <1>5 DEF Starts, Sized, ItemLen
<1>7. ASSUME NEW k \in 2 .. Len(w) PROVE ~Starts(w, k)
  <2>1. k \in 1 .. n /\ (k < n => k + 1 \in 1 .. n /\ k + 1 # 2)
    BY <1>3
  <2> QED
    BY <1>2, <1>3, <2>1 DEF Starts, Plain
<1>8. Sync(w)
  BY <1>4, <1>6, <1>7, SyncOne
<1>9. w # <<>> /\ w[1] # Magic
  BY <1>2, <1>3, <1>4, <1>5 DEF Plain
<1>10. \A M : HoldsOnly(w, M)
  BY <1>2, HoldsNone
<1> QED
  BY <1>4, <1>8, <1>9, <1>10

-------------------------------------------------------------------------------
(* The state: the cells on their way in each direction, read or not, and     *)
(* whether another release has answered in between.                          *)
Inbound == readBuf \o toServer
Outbound == receiveBuf \o toClient
Frames == Plans[plan].frames
Alien == Plans[plan].toClient # {} /\ aliens > 0

PlanRight == plan \in DOMAIN Plans /\ aliens \in Nat /\ streamed \in 0 .. Len(Frames)
AskedRight ==
  /\ asked \in Seq(Request) /\ Len(asked) <= Limit(plan)
  /\ \A i \in 1 .. Len(asked) : IsRequest(asked[i])
  /\ pending \in 0 .. Len(asked)
CellsRight ==
  /\ readBuf \in Seq(Unmagic) /\ toServer \in Seq(Unmagic)
  /\ receiveBuf \in Seq(Nat) /\ toClient \in Seq(Nat) /\ reassembly \in Seq(Nat)
UserRight == user = <<>> \/ Typed(LoginLayout, user)
Requested ==
  /\ tasks \subseteq Known(asked, Limit(plan))
  /\ HoldsOnly(Inbound, Known(asked, Limit(plan)))
Once == OnceOnly(Inbound, tasks, DOMAIN intended, Limit(plan))
Understood == Meant(intended, asked, Limit(plan))
Served == \A call \in served : /\ call.id \in 1 .. Len(asked)
                               /\ asked[call.id] = [type |-> call.type, fields |-> call.fields]

LEMMA WholeCells ==
  ASSUME CellsRight
  PROVE  /\ Inbound \in Seq(Nat) /\ Inbound \in Seq(Unmagic) /\ Outbound \in Seq(Nat)
         /\ readBuf \in Seq(Nat) /\ toServer \in Seq(Nat)
<1>1. readBuf \in Seq(Unmagic) /\ toServer \in Seq(Unmagic)
  BY DEF CellsRight
<1>2. receiveBuf \in Seq(Nat) /\ toClient \in Seq(Nat)
  BY DEF CellsRight
<1>3. readBuf \in Seq(Nat) /\ toServer \in Seq(Nat)
  BY <1>1, UnmagicIsNat
<1>4. Inbound \in Seq(Unmagic)
  BY <1>1, ConcatProperties DEF Inbound
<1>5. Outbound \in Seq(Nat)
  BY <1>2, ConcatProperties DEF Outbound
<1> QED
  BY <1>3, <1>4, <1>5, UnmagicIsNat

LEMMA LimitRight ==
  ASSUME PlanRight, AskedRight
  PROVE  /\ Limit(plan) \in Nat /\ Limit(plan) < TypeCell(4097, 0)
         /\ asked \in Seq(Request) /\ Len(asked) \in Nat /\ Len(asked) <= Limit(plan)
         /\ pending \in 0 .. Len(asked)
<1>1. asked \in Seq(Request) /\ Len(asked) <= Limit(plan) /\ pending \in 0 .. Len(asked)
  BY DEF AskedRight
<1>2. Len(asked) \in Nat
  BY <1>1, LenProperties, Zenon
<1> QED
  BY <1>1, <1>2, PlanIs DEF PlanRight

(* A request is made: it is refused, or a message goes out that says it. *)
AskedTooLong(r) ==
  /\ TooLong(r.type, r.fields)
  /\ reports' = With(reports, Len(asked) + 1, [kind |-> "tooLong", code |-> 0, fields |-> <<>>])
  /\ UNCHANGED <<toServer, pending>>
AskedFor(r, body) ==
  /\ body \in Seq(D) /\ Len(body) <= MaxBody /\ ReadsAs(r.type, body, r.fields)
  /\ toServer' = toServer \o Put(r.type, Len(asked) + 1, body)
  /\ pending' = Len(asked) + 1 /\ UNCHANGED reports
Makes(r) ==
  /\ r \in Request /\ IsRequest(r) /\ pending = 0 /\ Len(asked) < Limit(plan)
  /\ asked' = Append(asked, r)
  /\ AskedTooLong(r) \/ \E body : AskedFor(r, body)
  /\ UNCHANGED <<plan, serverVars, toClient, receiveBuf, receiving, user, streamVars, aliens>>

LEMMA AskMakes ==
  ASSUME PlanRight, AskedRight, UserRight, Len(asked) < Len(Plans[plan].asks),
         NEW ask \in Plans[plan].asks[Len(asked) + 1], Ask(ask)
  PROVE  \E r : Makes(r)
<1> DEFINE r == [type |-> ask.type, fields |-> FieldsOf(ask)]
           id == Len(asked) + 1
           e == Encoded(ask.type, id, FieldsOf(ask))
<1>1. Len(asked) < Limit(plan) /\ id \in Nat /\ id \in 1 .. Limit(plan)
  BY LimitRight DEF Limit
<1>2. ask.type \in RequestTypes /\ Typed(AskLayout(ask.type), ask.fields)
  BY <1>1, PlanIs DEF PlanRight
<1>3. ask.type \in Guests \/ user # <<>>
  BY DEF Ask
<1>4. ask.type \in UnderLogin => Typed(LoginLayout, user)
  <2>1. ask.type \in UnderLogin => ask.type \notin Guests
    BY DEF UnderLogin, Guests
  <2> QED
    BY <1>3, <2>1 DEF UserRight
<1>5. FieldsOf(ask) = Fields(ask.type, user, ask.fields)
  BY DEF FieldsOf, Fields, UnderLogin
<1>6. IsRequest(r)
  BY <1>2, <1>4, <1>5, AsksRight
<1>7. r \in Request /\ r.type = ask.type /\ r.fields = FieldsOf(ask)
  BY <1>6 DEF IsRequest
<1>8. Typed(RequestLayout(r.type), r.fields)
  BY <1>6 DEF IsRequest
<1>9. Requests(e, r.type, id, r.fields)
  BY <1>1, <1>2, <1>7, <1>8, RequestTravels
<1>10. /\ pending = 0 /\ asked' = Append(asked, r)
       /\ UNCHANGED <<plan, serverVars, toClient, receiveBuf, receiving, user, streamVars, aliens>>
       /\ IF e = <<>> THEN Report(id, "tooLong", 0, <<>>) /\ UNCHANGED <<toServer, pending>>
          ELSE toServer' = toServer \o e /\ pending' = id /\ UNCHANGED reports
  BY DEF Ask
<1> HIDE DEF r, e
<1>11. CASE e = <<>> /\ TooLong(r.type, r.fields)
  <2>1. AskedTooLong(r)
    BY <1>10, <1>11 DEF AskedTooLong, Report
  <2> QED
    BY <1>1, <1>6, <1>7, <1>10, <2>1 DEF Makes
<1>12. ASSUME e # <<>>, NEW body \in Seq(0 .. Base - 1), Len(body) <= MaxBody,
              e = Put(r.type, id, body), ReadsAs(r.type, body, r.fields)
       PROVE  \E s : Makes(s)
  <2>1. AskedFor(r, body)
    BY <1>10, <1>12 DEF AskedFor, D
  <2> QED
    BY <1>1, <1>6, <1>7, <1>10, <2>1 DEF Makes
<1> QED
  BY <1>9, <1>11, <1>12 DEF Requests

(* The reactor takes n cells from the front, with the message there, if any. *)
Pulls(n, more) ==
  /\ reading /\ n \in 0 .. Len(readBuf) /\ n \in 0 .. Len(Inbound)
  /\ readBuf' = Drop(readBuf, n) /\ UNCHANGED toServer
  /\ tasks' = tasks \cup more
  /\ UNCHANGED <<plan, loggedIn, served, intended, toClient, clientVars, streamVars, aliens>>
PullsMessage(n) ==
  /\ \/ Pulls(n, {There(Inbound, 1)}) /\ UNCHANGED refused
     \/ Pulls(n, {}) /\ refused' = refused \cup {There(Inbound, 1).id}
  /\ reading' = TRUE
  /\ IsHeader(Inbound[1]) /\ HeldAt(Inbound, 1) /\ n = 3 + Inbound[2] /\ n > 0
PullsNone(n) ==
  /\ Pulls(n, {}) /\ UNCHANGED refused /\ reading' = FALSE
  /\ \/ n = 0 /\ DecodeMessage(readBuf).status = "incomplete"
     \/ Len(readBuf) >= 3 /\ (IsHeader(Inbound[1]) => Inbound[2] > MaxBody)

LEMMA FrontIs ==
  ASSUME NEW a \in Seq(Nat), NEW c \in Seq(Nat)
  PROVE  /\ a \o c \in Seq(Nat) /\ Len(a) \in Nat /\ Len(a \o c) \in Nat
         /\ Len(a \o c) = Len(a) + Len(c) /\ Len(a) <= Len(a \o c)
         /\ \A i \in 1 .. Len(a) : (a \o c)[i] = a[i]
<1>1. a \o c \in Seq(Nat) /\ Len(a \o c) = Len(a) + Len(c)
  BY ConcatProperties
<1>2. \A i \in 1 .. Len(a) : (a \o c)[i] = a[i]
  BY ConcatProperties
<1>3. Len(a) \in Nat /\ Len(c) \in Nat /\ Len(a \o c) \in Nat
  BY <1>1, LenProperties, Zenon
<1>4. Len(a) <= Len(a \o c)
  BY <1>1, <1>3
<1> QED
  BY <1>1, <1>2, <1>3, <1>4

LEMMA ReadTakes ==
  ASSUME CellsRight, ReadMessage
  PROVE  \E n : PullsMessage(n) \/ PullsNone(n)
<1> DEFINE d == DecodeMessage(readBuf)
<1>1. /\ reading /\ readBuf' = d.rest /\ reading' = (d.status = "decoded")
      /\ \/ d.status = "decoded" /\ tasks' = tasks \cup {d.msg} /\ UNCHANGED refused
         \/ d.status = "decoded" /\ refused' = refused \cup {d.msg.id} /\ UNCHANGED tasks
         \/ d.status # "decoded" /\ UNCHANGED <<tasks, refused>>
      /\ UNCHANGED <<plan, toServer, loggedIn, served, intended, toClient, clientVars, streamVars, aliens>>
  BY DEF ReadMessage
<1>2. readBuf \in Seq(Nat) /\ toServer \in Seq(Nat)
  BY WholeCells
<1>3. PICK l \in Nat : l = Len(readBuf)
  BY <1>2, LenProperties, Zenon
<1>4. /\ l <= Len(Inbound) /\ Len(Inbound) \in Nat
      /\ \A i \in 1 .. l : Inbound[i] = readBuf[i]
  BY <1>2, <1>3, FrontIs DEF Inbound
<1>5. UNCHANGED <<plan, loggedIn, served, intended, toClient, clientVars, streamVars, aliens>> /\ UNCHANGED toServer
  BY <1>1
<1>6. CASE /\ d.status = "decoded" /\ IsTaken(readBuf, d)
           /\ readBuf[2] \in Nat /\ 3 + readBuf[2] \in 1 .. Len(readBuf)
           /\ d.msg = There(readBuf, 1) /\ d.rest = Drop(readBuf, 3 + readBuf[2])
  <2>1. l >= 3 /\ IsHeader(readBuf[1]) /\ readBuf[2] <= MaxBody /\ 3 + readBuf[2] <= l
    BY <1>3, <1>6 DEF IsTaken
  <2>2. Inbound[1] = readBuf[1] /\ Inbound[2] = readBuf[2]
    BY <1>4, <2>1
  <2>3. PICK n \in 1 .. l : n = 3 + readBuf[2]
    BY <1>3, <1>6
  <2>4. There(Inbound, 1) = There(readBuf, 1)
    <3>1. 1 \in 1 .. Len(readBuf) /\ WholeAt(readBuf, 1)
      <4>1. 1 + 2 <= l /\ 1 + 2 + readBuf[1 + 1] <= l
        BY <1>6, <2>1
      <4> QED
        BY <1>3, <2>1, <4>1 DEF WholeAt
    <3>2. Contains(Inbound, 0, readBuf)
      BY <1>2, JoinedContains DEF Inbound
    <3>3. Inbound \in Seq(Nat)
      BY WholeCells
    <3>4. There(Inbound, 0 + 1) = There(readBuf, 1)
      BY <1>2, <3>1, <3>2, <3>3, ThereMoves
    <3>5. 0 + 1 = 1
      OBVIOUS
    <3> QED
      BY <3>4, <3>5
  <2>5. HeldAt(Inbound, 1)
    <3>1. 1 \in 1 .. Len(Inbound)
      BY <1>4, <2>1
    <3>2. ~(Inbound[1 + 1] > MaxBody)
      BY <1>6, <2>1, <2>2, BodyLimit
    <3> QED
      BY <2>1, <2>2, <3>1, <3>2 DEF HeldAt, Oversize
  <2>6. n \in 0 .. Len(readBuf) /\ n \in 0 .. Len(Inbound) /\ n > 0 /\ n = 3 + Inbound[2]
    BY <1>3, <1>4, <2>2, <2>3
  <2>7. PullsMessage(n)
    BY <1>1, <1>5, <1>6, <2>1, <2>2, <2>3, <2>4, <2>5, <2>6 DEF PullsMessage, Pulls
  <2> QED
    BY <2>7
<1>7. CASE d.status = "rejected" /\ IsRejected(readBuf, d) /\ d.rest = <<>>
  <2>1. l >= 3 /\ (IsHeader(readBuf[1]) => readBuf[2] > MaxBody)
    BY <1>3, <1>7 DEF IsRejected
  <2>2. Inbound[1] = readBuf[1] /\ Inbound[2] = readBuf[2]
    BY <1>4, <2>1
  <2>3. Drop(readBuf, l) = <<>>
    BY <1>2, <1>3, SubSeqEmpty DEF Drop
  <2>4. l \in 0 .. Len(readBuf) /\ l \in 0 .. Len(Inbound)
    BY <1>3, <1>4
  <2>5. PullsNone(l)
    BY <1>1, <1>3, <1>5, <1>7, <2>1, <2>2, <2>3, <2>4 DEF PullsNone, Pulls
  <2> QED
    BY <2>5
<1>8. CASE d.status = "incomplete" /\ d.rest = readBuf
  <2>1. Drop(readBuf, 0) = readBuf
    BY <1>2, SubSeqProperties DEF Drop
  <2>2. 0 \in 0 .. Len(readBuf) /\ 0 \in 0 .. Len(Inbound)
    BY <1>3, <1>4
  <2>5. PullsNone(0)
    BY <1>1, <1>5, <1>8, <2>1, <2>2 DEF PullsNone, Pulls
  <2> QED
    BY <2>5
<1> QED
  BY <1>2, <1>6, <1>7, <1>8, RestIs

(* A piece of what is on its way is read: the cells stay the same. *)
LEMMA ServerReads ==
  ASSUME CellsRight, NEW n \in 1 .. Len(toServer), ServerRead(n)
  PROVE  Inbound' = Inbound /\ readBuf' \in Seq(Unmagic) /\ toServer' \in Seq(Unmagic)
<1>1. readBuf \in Seq(Unmagic) /\ toServer \in Seq(Unmagic)
  BY DEF CellsRight
<1>2. readBuf' = readBuf \o SubSeq(toServer, 1, n) /\ toServer' = Drop(toServer, n)
  BY DEF ServerRead
<1> QED
  BY <1>1, <1>2, ReadPiece, ZenonT(60) DEF Inbound

LEMMA ClientReads ==
  ASSUME CellsRight, NEW n \in 1 .. Len(toClient), ClientRead(n)
  PROVE  Outbound' = Outbound /\ receiveBuf' \in Seq(Nat) /\ toClient' \in Seq(Nat)
<1>1. receiveBuf \in Seq(Nat) /\ toClient \in Seq(Nat)
  BY DEF CellsRight
<1>2. receiveBuf' = receiveBuf \o SubSeq(toClient, 1, n) /\ toClient' = Drop(toClient, n)
  BY DEF ClientRead
<1> QED
  BY <1>1, <1>2, ReadPiece, ZenonT(60) DEF Outbound

(* A worker answers: what the handler means goes out as a message. *)
Handles(msg, a) ==
  /\ msg \in tasks /\ a \in Answers(msg)
  /\ tasks' = tasks \ {msg}
  /\ served' = IF a.called THEN served \cup {[id |-> msg.id, type |-> msg.type, fields |-> a.f]}
               ELSE served
  /\ intended' = With(intended, msg.id, Means(a.code, a.fields))
  /\ toClient' = toClient \o Put(ResponseType(msg.type), msg.id, a.body)
  /\ ResponseType(msg.type) \in MessageTypes /\ msg.id \in Nat /\ Plain(msg.id)
  /\ a.body \in Seq(D) /\ Len(a.body) <= MaxBody
  /\ UNCHANGED <<plan, toServer, readBuf, reading, refused, clientVars, streamVars, aliens>>

LEMMA ResponseTypes ==
  ASSUME NEW type \in MessageTypes
  PROVE  ResponseType(type) \in MessageTypes
BY DEF ResponseType, MessageTypes

LEMMA EncodeIsPut ==
  ASSUME NEW type \in MessageTypes, NEW id, NEW body, Len(body) <= MaxBody
  PROVE  EncodeMessage(Sent(type, id, body)) = Put(type, id, body)
BY DEF EncodeMessage, Sent, Put, IsKnownMessageType

LEMMA MessageHandles ==
  ASSUME PlanRight, AskedRight, Requested, NEW msg \in tasks, HandleMessage(msg)
  PROVE  \E a : Handles(msg, a)
<1>1. PICK a \in Answers(msg) :
        /\ tasks' = tasks \ {msg}
        /\ served' = IF a.called THEN served \cup {[id |-> msg.id, type |-> msg.type, fields |-> a.f]}
                     ELSE served
        /\ intended' = With(intended, msg.id, [code |-> a.code, fields |-> a.fields])
        /\ toClient' = toClient \o EncodeMessage([type |-> ResponseType(msg.type), version |-> Version,
                                                  id |-> msg.id, body |-> a.body])
        /\ UNCHANGED <<plan, toServer, readBuf, reading, refused, clientVars, streamVars, aliens>>
  BY DEF HandleMessage
<1>2. msg \in Known(asked, Limit(plan))
  BY DEF Requested
<1>3. msg \in Message /\ Plain(msg.id)
  BY <1>2, LimitRight, KnownIs
<1>4. msg.type \in MessageTypes /\ msg.id \in Nat
  BY <1>3 DEF Message
<1>5. ResponseType(msg.type) \in MessageTypes
  BY <1>4, ResponseTypes
<1>6. a.body \in Seq(D) /\ Len(a.body) <= MaxBody
  BY AnswersFit DEF AnswerFits
<1>7. EncodeMessage(Sent(ResponseType(msg.type), msg.id, a.body))
        = Put(ResponseType(msg.type), msg.id, a.body)
  BY <1>5, <1>6, EncodeIsPut
<1>8. toClient' = toClient \o Put(ResponseType(msg.type), msg.id, a.body)
  BY <1>1, <1>7 DEF Sent
<1> QED
  BY <1>1, <1>3, <1>4, <1>5, <1>6, <1>8 DEF Handles, Means

-------------------------------------------------------------------------------
(* The client takes n cells from the front. *)
Cuts(n) ==
  /\ receiving /\ n \in 1 .. Len(receiveBuf) /\ n \in 0 .. Len(Outbound)
  /\ receiveBuf' = Drop(receiveBuf, n) /\ UNCHANGED toClient
  /\ UNCHANGED <<plan, toServer, serverVars, asked, streamed, shown, aliens>>
CutsFrame(n) ==
  /\ Cuts(n) /\ n = Outbound[1] /\ n \in 5 .. 5 + MaxData /\ Outbound[2] = Magic /\ n <= Len(Outbound)
  /\ reassembly' = reassembly \o SubSeq(receiveBuf, 1, n)
  /\ \A i \in 1 .. n : Outbound[i] = receiveBuf[i]
  /\ UNCHANGED <<receiving, pending, user, reports>>
CutsBad(n) ==
  /\ Cuts(n) /\ receiving' = FALSE /\ n >= 3
  /\ IsHeader(Outbound[1]) => Outbound[2] > MaxBody
  /\ ~(Outbound[1] \in 5 .. 5 + MaxData /\ Outbound[2] = Magic)
  /\ IF pending = 0 THEN UNCHANGED reports ELSE Report(pending, "format", 0, <<>>)
  /\ pending' = 0
  /\ UNCHANGED <<user, reassembly>>
(* What an answer to the request in progress does. *)
Settles(msg) ==
  LET answer == Decoded(asked[pending].type, msg) IN
  IF pending # 0 /\ msg.id = pending
  THEN /\ Report(pending, IF answer.ok THEN "answer" ELSE "format", answer.code, answer.fields)
       /\ pending' = 0
       /\ user' \in {user} \cup (IF asked[pending].type = 4353 /\ answer.ok THEN {answer.fields} ELSE {})
  ELSE UNCHANGED <<reports, pending, user>>
CutsAnswer(n) ==
  /\ Cuts(n) /\ IsHeader(Outbound[1]) /\ HeldAt(Outbound, 1) /\ n = 3 + Outbound[2]
  /\ Settles(There(Outbound, 1))
  /\ UNCHANGED <<receiving, reassembly>>

LEMMA FrontHeld ==
  ASSUME NEW a \in Seq(Nat), NEW c \in Seq(Nat), NEW t, IsTaken(a, t)
  PROVE  /\ HeldAt(a \o c, 1) /\ There(a \o c, 1) = There(a, 1)
<1>1. PICK l \in Nat : l = Len(a)
  BY LenProperties, Zenon
<1>2. l >= 3 /\ IsHeader(a[1]) /\ a[2] <= MaxBody /\ 3 + a[2] <= l
  BY <1>1 DEF IsTaken
<1>3. l <= Len(a \o c) /\ Len(a \o c) \in Nat /\ \A i \in 1 .. l : (a \o c)[i] = a[i]
  BY <1>1, FrontIs
<1>4. (a \o c)[1] = a[1] /\ (a \o c)[2] = a[2] /\ a[2] \in Nat
  BY <1>1, <1>2, <1>3
<1>5. 1 \in 1 .. Len(a) /\ WholeAt(a, 1)
  <2>1. 1 + 2 <= l /\ 1 + 2 + a[1 + 1] <= l
    BY <1>2, <1>4
  <2> QED
    BY <1>1, <1>2, <2>1 DEF WholeAt
<1>6. There(a \o c, 0 + 1) = There(a, 1)
  <2>1. Contains(a \o c, 0, a) /\ a \o c \in Seq(Nat)
    BY JoinedContains
  <2> QED
    BY <1>5, <2>1, ThereMoves, ZenonT(60)
<1>7. 0 + 1 = 1
  OBVIOUS
<1>8. HeldAt(a \o c, 1)
  <2>1. 1 \in 1 .. Len(a \o c)
    BY <1>2, <1>3
  <2>3. ~(a[2] > MaxBody) /\ 1 + 1 = 2
    BY <1>2, <1>4, BodyLimit
  <2>2. ~((a \o c)[1 + 1] > MaxBody)
    BY <1>4, <2>3
  <2> QED
    BY <1>2, <1>4, <2>1, <2>2 DEF HeldAt, Oversize
<1> QED
  BY <1>6, <1>7, <1>8

LEMMA ClientFront ==
  ASSUME CellsRight
  PROVE  /\ receiveBuf \in Seq(Nat) /\ toClient \in Seq(Nat) /\ Outbound \in Seq(Nat)
         /\ Len(receiveBuf) \in Nat /\ Len(Outbound) \in Nat /\ Len(receiveBuf) <= Len(Outbound)
         /\ \A i \in 1 .. Len(receiveBuf) : Outbound[i] = receiveBuf[i]
<1>1. receiveBuf \in Seq(Nat) /\ toClient \in Seq(Nat)
  BY DEF CellsRight
<1> QED
  BY <1>1, FrontIs DEF Outbound

LEMMA MediaCuts ==
  ASSUME CellsRight, MediaFrame
  PROVE  \E n : CutsFrame(n)
<1>1. /\ receiving /\ FrameLength > 0 /\ Len(receiveBuf) >= FrameLength
      /\ reassembly' = reassembly \o SubSeq(receiveBuf, 1, FrameLength)
      /\ receiveBuf' = Drop(receiveBuf, FrameLength)
      /\ UNCHANGED <<plan, toServer, serverVars, toClient, receiving, asked, pending, user, reports,
                     streamed, shown, aliens>>
  BY DEF MediaFrame, Feed
<1>2. PICK l \in Nat : l = Len(receiveBuf)
  BY ClientFront
<1>3. PICK n \in Nat : n = FrameLength
  BY ClientFront, PeekIs DEF FrameLength
<1>4. /\ l >= 1 /\ receiveBuf[1] \in 5 .. 5 + MaxData /\ (l >= 2 => receiveBuf[2] = Magic)
      /\ n = receiveBuf[1] /\ n >= 5
  BY <1>1, <1>2, <1>3, ClientFront, PeekIs DEF FrameLength
<1>5. n <= l /\ n \in 1 .. l /\ l >= 2 /\ 1 \in 1 .. l /\ 2 \in 1 .. l
  BY <1>1, <1>2, <1>3, <1>4
<1>6. Outbound[1] = receiveBuf[1] /\ Outbound[2] = receiveBuf[2]
  BY <1>2, <1>5, ClientFront
<1>7. n \in 0 .. Len(Outbound) /\ n <= Len(Outbound) /\ n \in 1 .. Len(receiveBuf)
  BY <1>2, <1>5, ClientFront
<1>8. \A i \in 1 .. n : Outbound[i] = receiveBuf[i]
  BY <1>2, <1>5, ClientFront
<1>9. Cuts(n)
  BY <1>1, <1>3, <1>7 DEF Cuts
<1> QED
  BY <1>1, <1>3, <1>4, <1>5, <1>6, <1>7, <1>8, <1>9 DEF CutsFrame

LEMMA BadCuts ==
  ASSUME CellsRight, BadPacket
  PROVE  \E n : CutsBad(n)
<1> DEFINE t == TryTakePacket(receiveBuf)
<1>1. /\ receiving /\ FrameLength = 0 /\ t.status = "rejected"
      /\ receiveBuf' = t.rest /\ receiving' = FALSE
      /\ IF pending = 0 THEN UNCHANGED reports ELSE Report(pending, "format", 0, <<>>)
      /\ pending' = 0
      /\ UNCHANGED <<plan, toServer, serverVars, toClient, asked, user, streamVars, aliens>>
  BY DEF BadPacket
<1>2. PICK l \in Nat : l = Len(receiveBuf)
  BY ClientFront
<1>3. t = DecodeMessage(receiveBuf)
  BY ClientFront, ParsersAgree DEF Cell
<1>4. IsRejected(receiveBuf, t) /\ t.rest = <<>>
  BY <1>1, <1>3, ClientFront, RestIs, ZenonT(60)
<1>5. l >= 3 /\ (IsHeader(receiveBuf[1]) => receiveBuf[2] > MaxBody)
  BY <1>2, <1>4 DEF IsRejected
<1>6. Outbound[1] = receiveBuf[1] /\ Outbound[2] = receiveBuf[2]
  BY <1>2, <1>5, ClientFront
<1>7. l \in 0 .. Len(Outbound) /\ l \in 1 .. Len(receiveBuf)
  BY <1>2, <1>5, ClientFront
<1>8. ~(receiveBuf[1] \in 5 .. 5 + MaxData /\ receiveBuf[2] = Magic)
  <2>1. PeekFrameLength(receiveBuf) = 0 /\ Len(receiveBuf) >= 1
    BY <1>1, <1>2, <1>5 DEF FrameLength
  <2>2. ~(PeekFrameLength(receiveBuf) > 0)
    BY <2>1
  <2>3. PeekFrameLength(receiveBuf) > 0 <=>
          /\ Len(receiveBuf) >= 1 /\ receiveBuf[1] \in 5 .. 5 + MaxData
          /\ Len(receiveBuf) >= 2 => receiveBuf[2] = Magic
    BY ClientFront, PeekIs
  <2> HIDE DEF t
  <2> QED
    BY <2>1, <2>2, <2>3, Zenon
<1>9. Drop(receiveBuf, l) = <<>>
  BY <1>2, ClientFront, SubSeqEmpty DEF Drop
<1>10. Cuts(l)
  BY <1>1, <1>4, <1>7, <1>9 DEF Cuts, streamVars
<1> QED
  BY <1>1, <1>5, <1>6, <1>8, <1>10 DEF CutsBad, streamVars

LEMMA AnswerCuts ==
  ASSUME CellsRight, TakeAnswer
  PROVE  \E n : CutsAnswer(n)
<1> DEFINE t == TryTakePacket(receiveBuf)
           answer == Decoded(asked[pending].type, t.msg)
<1>1. /\ receiving /\ FrameLength = 0 /\ t.status = "decoded"
      /\ receiveBuf' = t.rest
      /\ IF IsAwaited(t.msg)
         THEN /\ Report(pending, IF answer.ok THEN "answer" ELSE "format", answer.code, answer.fields)
              /\ pending' = 0
              /\ user' = IF /\ asked[pending].type = 4353 /\ answer.ok /\ answer.code = SUCCESS
                            /\ answer.fields[1] # 0 /\ answer.fields[2] # <<>> THEN answer.fields ELSE user
         ELSE UNCHANGED <<reports, pending, user>>
      /\ UNCHANGED <<plan, toServer, serverVars, toClient, receiving, asked, streamVars, aliens>>
  BY DEF TakeAnswer
<1>2. PICK l \in Nat : l = Len(receiveBuf)
  BY ClientFront
<1>3. t = DecodeMessage(receiveBuf)
  BY ClientFront, ParsersAgree DEF Cell
<1>4. /\ IsTaken(receiveBuf, t) /\ receiveBuf[2] \in Nat /\ 3 + receiveBuf[2] \in 1 .. Len(receiveBuf)
      /\ t.msg = There(receiveBuf, 1) /\ t.rest = Drop(receiveBuf, 3 + receiveBuf[2])
  BY <1>1, <1>3, ClientFront, RestIs, ZenonT(60)
<1>5. l >= 3 /\ IsHeader(receiveBuf[1]) /\ receiveBuf[2] <= MaxBody
  BY <1>2, <1>4 DEF IsTaken
<1>6. Outbound[1] = receiveBuf[1] /\ Outbound[2] = receiveBuf[2]
  BY <1>2, <1>5, ClientFront
<1>7. PICK n \in 1 .. l : n = 3 + receiveBuf[2]
  BY <1>2, <1>4
<1>8. n \in 0 .. Len(Outbound) /\ n \in 1 .. Len(receiveBuf)
  BY <1>2, <1>7, ClientFront, SMTT(40)
<1>9. HeldAt(Outbound, 1) /\ There(Outbound, 1) = t.msg
  BY <1>4, ClientFront, FrontHeld DEF Outbound
<1>10. Cuts(n)
  BY <1>1, <1>4, <1>7, <1>8 DEF Cuts, streamVars
<1>11. Settles(t.msg)
  BY <1>1 DEF Settles, IsAwaited
<1> QED
  BY <1>1, <1>5, <1>6, <1>7, <1>9, <1>10, <1>11 DEF CutsAnswer, streamVars

(* Every step, by what it does to the cells. *)
Step ==
  \/ \E r : Makes(r)
  \/ \E cells \in Plans[plan].toServer : AlienAsks(cells)
  \/ RequestTimeout
  \/ \E n \in 1 .. Len(toServer) : ServerRead(n)
  \/ \E n : PullsMessage(n)
  \/ \E n : PullsNone(n)
  \/ \E msg, a : Handles(msg, a)
  \/ SendFrame
  \/ \E cells \in Plans[plan].toClient : AlienReplies(cells)
  \/ \E n \in 1 .. Len(toClient) : ClientRead(n)
  \/ WaitForMore
  \/ \E n : CutsFrame(n)
  \/ TakePacket
  \/ \E n : CutsBad(n)
  \/ \E n : CutsAnswer(n)

LEMMA NextSteps ==
  ASSUME PlanRight, AskedRight, CellsRight, UserRight, Requested, Next
  PROVE  Step
<1>1. ASSUME Len(asked) < Len(Plans[plan].asks), NEW ask \in Plans[plan].asks[Len(asked) + 1], Ask(ask)
      PROVE  \E r : Makes(r)
  BY <1>1, AskMakes
<1>2. ASSUME ReadMessage PROVE Step
  BY <1>2, ReadTakes DEF Step
<1>3. ASSUME NEW msg \in tasks, HandleMessage(msg) PROVE \E m, a : Handles(m, a)
  BY <1>3, MessageHandles
<1>4. ASSUME MediaFrame PROVE \E n : CutsFrame(n)
  BY <1>4, MediaCuts
<1>5. ASSUME BadPacket PROVE \E n : CutsBad(n)
  BY <1>5, BadCuts
<1>6. ASSUME TakeAnswer PROVE \E n : CutsAnswer(n)
  BY <1>6, AnswerCuts
<1> QED
  BY <1>1, <1>2, <1>3, <1>4, <1>5, <1>6 DEF Next, Step

LEMMA PlanStays ==
  ASSUME Step
  PROVE  plan' = plan /\ (aliens' = aliens \/ aliens' = aliens + 1)
BY DEF Step, Makes, AlienAsks, RequestTimeout, ServerRead, PullsMessage, PullsNone, Pulls, Handles, SendFrame,
       AlienReplies, ClientRead, WaitForMore, CutsFrame, TakePacket, CutsBad, CutsAnswer, Cuts

LEMMA PlanKept ==
  ASSUME PlanRight, Step
  PROVE  PlanRight'
<1>1. plan' = plan /\ (aliens' = aliens \/ aliens' = aliens + 1)
  BY PlanStays
<1>2. plan \in DOMAIN Plans /\ aliens \in Nat /\ streamed \in 0 .. Len(Plans[plan].frames)
  BY DEF PlanRight, Frames
<1>3. streamed' = streamed \/ (streamed' = streamed + 1 /\ streamed < Len(Plans[plan].frames))
  BY DEF Step, Makes, AlienAsks, RequestTimeout, ServerRead, PullsMessage, PullsNone, Pulls, Handles, SendFrame,
         AlienReplies, ClientRead, WaitForMore, CutsFrame, TakePacket, CutsBad, CutsAnswer, Cuts, streamVars
<1>4. Len(Plans[plan].frames) \in Nat
  BY <1>2, FramesAre
<1>5. aliens' \in Nat /\ streamed' \in 0 .. Len(Plans[plan].frames)
  BY <1>1, <1>2, <1>3, <1>4
<1> QED
  BY <1>1, <1>2, <1>5 DEF PlanRight, Frames

LEMMA AskedKept ==
  ASSUME PlanRight, AskedRight, Step
  PROVE  AskedRight'
<1>1. plan' = plan
  BY PlanStays
<1>2. /\ asked \in Seq(Request) /\ Len(asked) \in Nat /\ Limit(plan) \in Nat
      /\ \A i \in 1 .. Len(asked) : IsRequest(asked[i])
  BY LimitRight DEF AskedRight
<1>3. ASSUME NEW r, Makes(r) PROVE AskedRight'
  <2>1. /\ r \in Request /\ IsRequest(r) /\ Len(asked) < Limit(plan) /\ asked' = Append(asked, r)
        /\ pending = 0 /\ pending' \in {0, Len(asked) + 1}
    BY <1>3 DEF Makes, AskedTooLong, AskedFor
  <2>2. /\ asked' \in Seq(Request) /\ Len(asked') = Len(asked) + 1
        /\ \A i \in 1 .. Len(asked) : asked'[i] = asked[i]
        /\ asked'[Len(asked) + 1] = r
    BY <1>2, <2>1, Appended
  <2>3. \A i \in 1 .. Len(asked') : i \in 1 .. Len(asked) \/ i = Len(asked) + 1
    BY <1>2, <2>2
  <2>4. \A i \in 1 .. Len(asked') : IsRequest(asked'[i])
    BY <1>2, <2>1, <2>2, <2>3
  <2>5. Len(asked') <= Limit(plan) /\ pending' \in 0 .. Len(asked')
    BY <1>2, <2>1, <2>2
  <2> QED
    BY <1>1, <2>2, <2>4, <2>5 DEF AskedRight
<1>4. ASSUME UNCHANGED asked, pending' \in {0, pending} PROVE AskedRight'
  <2>1. pending' \in 0 .. Len(asked)
    BY <1>2, <1>4 DEF AskedRight
  <2> QED
    BY <1>1, <1>4, <2>1 DEF AskedRight
<1>5. (\E r : Makes(r)) \/ (UNCHANGED asked /\ pending' \in {0, pending})
  BY DEF Step, AlienAsks, RequestTimeout, ServerRead, PullsMessage, PullsNone, Pulls, Handles, SendFrame,
         AlienReplies, ClientRead, WaitForMore, CutsFrame, TakePacket, CutsBad, CutsAnswer, Settles, Cuts, clientVars
<1> QED
  BY <1>3, <1>4, <1>5

LEMMA CellsKept ==
  ASSUME PlanRight, AskedRight, CellsRight, Step
  PROVE  CellsRight'
<1>1. /\ readBuf \in Seq(Unmagic) /\ toServer \in Seq(Unmagic)
      /\ receiveBuf \in Seq(Nat) /\ toClient \in Seq(Nat) /\ reassembly \in Seq(Nat)
  BY DEF CellsRight
<1> DEFINE Server == readBuf' \in Seq(Unmagic) /\ toServer' \in Seq(Unmagic)
           Client == receiveBuf' \in Seq(Nat) /\ toClient' \in Seq(Nat)
           Player == reassembly' \in Seq(Nat)
<1>2. ASSUME NEW r, Makes(r) PROVE Server
  <2>1. UNCHANGED readBuf
    BY <1>2 DEF Makes, serverVars
  <2>2. CASE AskedTooLong(r)
    BY <1>1, <2>1, <2>2 DEF AskedTooLong
  <2>3. ASSUME NEW body, AskedFor(r, body) PROVE Server
    <3>1. /\ body \in Seq(D) /\ Len(body) <= MaxBody
          /\ toServer' = toServer \o Put(r.type, Len(asked) + 1, body)
      BY <2>3 DEF AskedFor
    <3>2. r.type \in MessageTypes
      BY <1>2 DEF Makes, Request, MessageTypes
    <3>3. Len(asked) + 1 \in Nat /\ Len(asked) + 1 < TypeCell(4097, 0)
      BY <1>2, LimitRight, LimitIs DEF Makes
    <3>4. Plain(Len(asked) + 1)
      BY <3>3, SmallIsPlain
    <3> DEFINE e == Put(r.type, Len(asked) + 1, body)
    <3>5. e \in Seq(Nat) /\ e[1] # Magic /\ \A k \in 1 .. Len(e) : k # 1 => Plain(e[k])
      BY <3>1, <3>2, <3>3, <3>4, PutStarts
    <3> HIDE DEF e
    <3>6. \A k \in 1 .. Len(e) : e[k] \in Unmagic
      BY <3>5, ElementOfSeq DEF Plain, Unmagic
    <3>7. e \in Seq(Unmagic)
      BY <3>5, <3>6
    <3>8. toServer' = toServer \o e
      BY <3>1 DEF e
    <3> QED
      BY <1>1, <2>1, <3>7, <3>8, ConcatProperties
  <2> QED
    BY <1>2, <2>2, <2>3 DEF Makes
<1>3. ASSUME NEW cells \in Plans[plan].toServer, AlienAsks(cells) PROVE Server
  <2>1. cells \in Seq(Unmagic)
    BY PlanIs DEF PlanRight
  <2>2. toServer' = toServer \o cells /\ UNCHANGED readBuf
    BY <1>3 DEF AlienAsks, serverVars
  <2> QED
    BY <1>1, <2>1, <2>2, ConcatProperties
<1>4. ASSUME NEW n \in 1 .. Len(toServer), ServerRead(n) PROVE Server
  BY <1>4, ServerReads
<1>5. ASSUME NEW n, NEW more, Pulls(n, more) PROVE Server
  <2>1. n \in 0 .. Len(readBuf) /\ readBuf' = Drop(readBuf, n) /\ UNCHANGED toServer
    BY <1>5 DEF Pulls
  <2> QED
    BY <1>1, <2>1, PieceIs
<1>6. Server
  <2>1. ASSUME UNCHANGED <<readBuf, toServer>> PROVE Server
    BY <1>1, <2>1
  <2> HIDE DEF Server
  <2> QED
    BY <1>2, <1>3, <1>4, <1>5, <2>1
       DEF Step, RequestTimeout, PullsMessage, PullsNone, Handles, SendFrame, AlienReplies, ClientRead,
           WaitForMore, CutsFrame, TakePacket, CutsBad, CutsAnswer, Cuts, serverVars
<1>7. ASSUME NEW msg, NEW a, Handles(msg, a) PROVE Client
  <2>1. /\ toClient' = toClient \o Put(ResponseType(msg.type), msg.id, a.body) /\ UNCHANGED receiveBuf
        /\ ResponseType(msg.type) \in MessageTypes /\ msg.id \in Nat /\ Plain(msg.id)
        /\ a.body \in Seq(D) /\ Len(a.body) <= MaxBody
    BY <1>7 DEF Handles, clientVars
  <2>2. Put(ResponseType(msg.type), msg.id, a.body) \in Seq(Nat)
    BY <2>1, PutStarts
  <2> QED
    BY <1>1, <2>1, <2>2, ConcatProperties
<1>8. ASSUME SendFrame PROVE Client
  <2> DEFINE f == Frames[streamed + 1]
  <2>1. toClient' = toClient \o WireOf(f) /\ UNCHANGED receiveBuf /\ streamed < Len(Frames)
    BY <1>8 DEF SendFrame, clientVars, WireOf, Frames
  <2>2. streamed + 1 \in 1 .. Len(Frames)
    BY <2>1, FramesAre DEF PlanRight, Frames
  <2>3. Frame(f)
    BY <2>2, FramesAre DEF PlanRight, Frames
  <2>4. WireOf(f) \in Seq(Nat)
    BY <2>3, WireItem
  <2> QED
    BY <1>1, <2>1, <2>4, ConcatProperties
<1>9. ASSUME NEW cells \in Plans[plan].toClient, AlienReplies(cells) PROVE Client
  <2>1. cells \in Seq(Nat)
    BY PlanIs, UnmagicIsNat DEF PlanRight
  <2>2. toClient' = toClient \o cells /\ UNCHANGED receiveBuf
    BY <1>9 DEF AlienReplies, clientVars
  <2> QED
    BY <1>1, <2>1, <2>2, ConcatProperties
<1>10. ASSUME NEW n \in 1 .. Len(toClient), ClientRead(n) PROVE Client
  BY <1>10, ClientReads
<1>11. ASSUME NEW n, Cuts(n) PROVE Client
  <2>1. n \in 1 .. Len(receiveBuf) /\ receiveBuf' = Drop(receiveBuf, n) /\ UNCHANGED toClient
    BY <1>11 DEF Cuts
  <2>2. n \in 0 .. Len(receiveBuf)
    BY <2>1
  <2> QED
    BY <1>1, <2>1, <2>2, PieceIs
<1>12. Client
  <2>1. ASSUME UNCHANGED <<receiveBuf, toClient>> PROVE Client
    BY <1>1, <2>1
  <2> HIDE DEF Client
  <2> QED
    BY <1>7, <1>8, <1>9, <1>10, <1>11, <2>1
       DEF Step, Makes, AlienAsks, RequestTimeout, ServerRead, PullsMessage, PullsNone, Pulls,
           WaitForMore, CutsFrame, TakePacket, CutsBad, CutsAnswer, clientVars
<1>13. ASSUME NEW n, CutsFrame(n) PROVE Player
  <2>1. n \in 1 .. Len(receiveBuf) /\ reassembly' = reassembly \o SubSeq(receiveBuf, 1, n)
    BY <1>13 DEF CutsFrame, Cuts
  <2>2. n \in 0 .. Len(receiveBuf)
    BY <2>1
  <2>3. SubSeq(receiveBuf, 1, n) \in Seq(Nat)
    BY <1>1, <2>2, PieceIs
  <2> QED
    BY <1>1, <2>1, <2>3, ConcatProperties
<1>14. ASSUME TakePacket PROVE Player
  BY <1>1, <1>14, NextRest DEF TakePacket
<1>15. Player
  <2>1. ASSUME UNCHANGED reassembly PROVE Player
    BY <1>1, <2>1
  <2> HIDE DEF Player
  <2> QED
    BY <1>13, <1>14, <2>1
       DEF Step, Makes, AlienAsks, RequestTimeout, ServerRead, PullsMessage, PullsNone, Pulls, Handles, SendFrame,
           AlienReplies, ClientRead, WaitForMore, CutsBad, CutsAnswer, streamVars
<1> QED
  BY <1>6, <1>12, <1>15 DEF CellsRight

-------------------------------------------------------------------------------
(* What the steps do to the cells towards the server. *)
Typing == PlanRight /\ AskedRight /\ CellsRight /\ UserRight
KnownNow == Known(asked, Limit(plan))

LEMMA InboundAdds ==
  ASSUME CellsRight, NEW c \in Seq(Nat), UNCHANGED readBuf, toServer' = toServer \o c
  PROVE  Inbound' = Inbound \o c
<1>1. readBuf \in Seq(Nat) /\ toServer \in Seq(Nat)
  BY WholeCells
<1>2. SameWhole(readBuf, toServer, c)
  BY <1>1, Regrouped
<1> QED
  BY <1>2 DEF Inbound, SameWhole

LEMMA InboundPulled ==
  ASSUME CellsRight, NEW n, NEW more, Pulls(n, more)
  PROVE  Inbound' = Drop(Inbound, n) /\ n \in 0 .. Len(Inbound)
<1>1. readBuf \in Seq(Nat) /\ toServer \in Seq(Nat)
  BY WholeCells
<1>2. n \in 0 .. Len(readBuf) /\ readBuf' = Drop(readBuf, n) /\ UNCHANGED toServer
  BY DEF Pulls
<1>3. /\ Drop(readBuf, n) \o toServer = Drop(readBuf \o toServer, n)
      /\ n \in 0 .. Len(readBuf \o toServer)
  BY <1>1, <1>2, DropJoined
<1>4. Inbound' = Drop(readBuf, n) \o toServer
  BY <1>2 DEF Inbound
<1> QED
  BY <1>3, <1>4 DEF Inbound

(* The message of a request that was made. *)
AskedPacket(r, body) == Put(r.type, Len(asked) + 1, body)
LEMMA AskedAdds ==
  ASSUME PlanRight, AskedRight, CellsRight, NEW r, Makes(r), NEW body, AskedFor(r, body)
  PROVE  /\ Inbound' = Inbound \o AskedPacket(r, body) /\ AskedPacket(r, body) \in Seq(Nat)
         /\ r.type \in MessageTypes /\ Len(asked) + 1 \in Nat /\ Plain(Len(asked) + 1)
         /\ body \in Seq(D) /\ Len(body) <= MaxBody
         /\ Sent(r.type, Len(asked) + 1, body) \in KnownNow'
         /\ HoldsOnly(AskedPacket(r, body), KnownNow')
<1>1. /\ body \in Seq(D) /\ Len(body) <= MaxBody /\ ReadsAs(r.type, body, r.fields)
      /\ toServer' = toServer \o AskedPacket(r, body)
  BY DEF AskedFor, AskedPacket
<1>2. r \in Request /\ Len(asked) < Limit(plan) /\ asked' = Append(asked, r) /\ UNCHANGED <<plan, readBuf>>
  BY DEF Makes, serverVars
<1>3. r.type \in MessageTypes
  BY <1>2 DEF Request, MessageTypes
<1>4. Len(asked) + 1 \in Nat /\ Len(asked) + 1 < TypeCell(4097, 0)
  BY <1>2, LimitRight, LimitIs
<1>5. Plain(Len(asked) + 1)
  BY <1>4, SmallIsPlain
<1>6. AskedPacket(r, body) \in Seq(Nat)
  BY <1>1, <1>3, <1>4, <1>5, PutStarts DEF AskedPacket
<1>7. Inbound' = Inbound \o AskedPacket(r, body)
  BY <1>1, <1>2, <1>6, InboundAdds
<1>8. body \in Seq(Nat)
  <2>1. D \subseteq Nat
    BY BaseIs DEF D
  <2> QED
    BY <1>1, <2>1, SeqMonotonic
<1>9. Sent(r.type, Len(asked) + 1, body) \in Known(Append(asked, r), Limit(plan))
  BY <1>1, <1>2, <1>8, LimitRight, AskedIsKnown
<1>10. KnownNow' = Known(Append(asked, r), Limit(plan))
  BY <1>2 DEF KnownNow
<1>11. HoldsOnly(AskedPacket(r, body), KnownNow')
  BY <1>1, <1>3, <1>4, <1>5, <1>9, <1>10, PutHolds DEF AskedPacket
<1> QED
  BY <1>1, <1>3, <1>4, <1>5, <1>6, <1>7, <1>9, <1>10, <1>11

LEMMA KnownStays ==
  ASSUME PlanRight, AskedRight, Step
  PROVE  KnownNow \subseteq KnownNow'
<1>1. plan' = plan
  BY PlanStays
<1>2. ASSUME NEW r, Makes(r) PROVE KnownNow \subseteq KnownNow'
  <2>1. r \in Request /\ asked' = Append(asked, r)
    BY <1>2 DEF Makes
  <2> QED
    BY <1>1, <2>1, LimitRight, KnownGrows DEF KnownNow
<1>3. (\E r : Makes(r)) \/ UNCHANGED asked
  BY DEF Step, AlienAsks, RequestTimeout, ServerRead, PullsMessage, PullsNone, Pulls, Handles, SendFrame,
         AlienReplies, ClientRead, WaitForMore, CutsFrame, TakePacket, CutsBad, CutsAnswer, Cuts, clientVars
<1>4. UNCHANGED asked => KnownNow' = KnownNow
  BY <1>1 DEF KnownNow
<1> QED
  BY <1>2, <1>3, <1>4

LEMMA HarmlessKnown ==
  ASSUME NEW a, NEW n
  PROVE  HarmlessRequests(n) \subseteq Known(a, n)
BY DEF Known, HarmlessRequests

LEMMA RequestedKept ==
  ASSUME PlanRight, AskedRight, CellsRight, Requested, Step
  PROVE  Requested'
<1>1. Inbound \in Seq(Nat)
  BY WholeCells
<1>2. tasks \subseteq KnownNow /\ HoldsOnly(Inbound, KnownNow)
  BY DEF Requested, KnownNow
<1>3. KnownNow \subseteq KnownNow' /\ HoldsOnly(Inbound, KnownNow')
  BY <1>2, KnownStays, HoldsMore
<1> DEFINE Now == tasks' \subseteq KnownNow' /\ HoldsOnly(Inbound', KnownNow')
<1>4. ASSUME NEW r, Makes(r) PROVE Now
  <2>1. UNCHANGED <<tasks, readBuf>>
    BY <1>4 DEF Makes, serverVars
  <2>2. CASE AskedTooLong(r)
    <3>1. Inbound' = Inbound
      BY <2>1, <2>2 DEF AskedTooLong, Inbound
    <3> QED
      BY <1>2, <1>3, <2>1, <3>1
  <2>3. ASSUME NEW body, AskedFor(r, body) PROVE Now
    <3>1. /\ Inbound' = Inbound \o AskedPacket(r, body) /\ AskedPacket(r, body) \in Seq(Nat)
          /\ HoldsOnly(AskedPacket(r, body), KnownNow')
      BY <1>4, <2>3, AskedAdds
    <3>2. HoldsOnly(Inbound', KnownNow')
      BY <1>1, <1>3, <3>1, HoldsJoined
    <3> QED
      BY <1>2, <1>3, <2>1, <3>2
  <2> QED
    BY <1>4, <2>2, <2>3 DEF Makes
<1>5. ASSUME NEW cells \in Plans[plan].toServer, AlienAsks(cells) PROVE Now
  <2>1. cells \in Seq(Nat) /\ HoldsOnly(cells, HarmlessRequests(Limit(plan)))
    BY PlanIs, UnmagicIsNat DEF PlanRight
  <2>2. toServer' = toServer \o cells /\ UNCHANGED <<readBuf, tasks, plan, asked>>
    BY <1>5 DEF AlienAsks, serverVars, clientVars
  <2>3. HoldsOnly(cells, KnownNow')
    BY <2>1, <2>2, HarmlessKnown, HoldsMore DEF KnownNow
  <2>4. Inbound' = Inbound \o cells
    BY <2>1, <2>2, InboundAdds
  <2> QED
    BY <1>1, <1>2, <1>3, <2>1, <2>2, <2>3, <2>4, HoldsJoined
<1>6. ASSUME NEW n \in 1 .. Len(toServer), ServerRead(n) PROVE Now
  <2>1. Inbound' = Inbound /\ UNCHANGED tasks
    BY <1>6, ServerReads DEF ServerRead
  <2> QED
    BY <1>2, <1>3, <2>1
<1>7. ASSUME NEW n, NEW more, Pulls(n, more), more \subseteq KnownNow PROVE Now
  <2>1. Inbound' = Drop(Inbound, n) /\ n \in 0 .. Len(Inbound) /\ tasks' = tasks \cup more
    BY <1>7, InboundPulled DEF Pulls
  <2>2. HoldsOnly(Inbound', KnownNow')
    BY <1>1, <1>3, <2>1, HoldsDropped
  <2> QED
    BY <1>2, <1>3, <1>7, <2>1, <2>2
<1>8. ASSUME NEW n, PullsMessage(n) PROVE Now
  <2>1. There(Inbound, 1) \in KnownNow
    BY <1>1, <1>2, <1>8, HeldIs DEF PullsMessage
  <2>2. PICK more : Pulls(n, more) /\ more \subseteq {There(Inbound, 1)}
    BY <1>8 DEF PullsMessage
  <2>3. more \subseteq KnownNow
    BY <2>1, <2>2
  <2> QED
    BY <1>7, <2>2, <2>3
<1>9. ASSUME NEW n, PullsNone(n) PROVE Now
  BY <1>7, <1>9 DEF PullsNone
<1>10. ASSUME NEW msg, NEW a, Handles(msg, a) PROVE Now
  <2>1. UNCHANGED <<readBuf, toServer>> /\ tasks' \subseteq tasks
    BY <1>10 DEF Handles
  <2>2. Inbound' = Inbound
    BY <2>1 DEF Inbound
  <2> QED
    BY <1>2, <1>3, <2>1, <2>2
<1>11. ASSUME UNCHANGED <<readBuf, toServer, tasks>> PROVE Now
  <2>1. Inbound' = Inbound
    BY <1>11 DEF Inbound
  <2> QED
    BY <1>2, <1>3, <1>11, <2>1
<1> HIDE DEF Now
<1>12. Now
  BY <1>4, <1>5, <1>6, <1>8, <1>9, <1>10, <1>11
     DEF Step, RequestTimeout, SendFrame, AlienReplies, ClientRead,
         WaitForMore, CutsFrame, TakePacket, CutsBad, CutsAnswer, Cuts, serverVars
<1> QED
  BY <1>12 DEF Now, Requested, KnownNow

(* What is known of a message that the server has or will have. *)
LEMMA TaskIs ==
  ASSUME PlanRight, AskedRight, NEW msg \in KnownNow
  PROVE  /\ msg \in Message /\ Plain(msg.id)
         /\ msg.id \in 1 .. Limit(plan) => msg.id \in 1 .. Len(asked) /\ IsOwn(msg, asked)
         /\ msg.type \in RequestTypes /\ ReadAs(msg.type, msg.body).ok => IsOwn(msg, asked)
BY LimitRight, KnownIs DEF KnownNow

LEMMA NewIsUnseen ==
  ASSUME PlanRight, AskedRight, CellsRight, Requested, Understood, NEW i,
         i \in 1 .. Limit(plan), i \notin 1 .. Len(asked)
  PROVE  Unseen(Inbound, tasks, DOMAIN intended, i)
<1>1. tasks \subseteq KnownNow /\ HoldsOnly(Inbound, KnownNow) /\ Inbound \in Seq(Nat)
  BY WholeCells DEF Requested, KnownNow
<1>2. ASSUME NEW k, Identifies(Inbound, k, i) PROVE FALSE
  <2>1. There(Inbound, k) \in KnownNow /\ There(Inbound, k).id = i
    BY <1>1, <1>2, HeldIs DEF Identifies
  <2> QED
    BY <2>1, TaskIs
<1>3. i \notin DOMAIN intended
  BY DEF Understood, Meant
<1>4. \A msg \in tasks : msg.id # i
  BY <1>1, TaskIs
<1> QED
  BY <1>2, <1>3, <1>4 DEF Unseen

LEMMA OnceKept ==
  ASSUME PlanRight, AskedRight, CellsRight, Requested, Understood, Once, Step
  PROVE  Once'
<1>1. Inbound \in Seq(Nat) /\ Limit(plan) \in Nat
  BY WholeCells, LimitRight
<1>2. HoldsOnly(Inbound, KnownNow) /\ HoldsOnly(Inbound, KnownNow')
  BY KnownStays, HoldsMore DEF Requested, KnownNow
<1>3. OnceOnly(Inbound, tasks, DOMAIN intended, Limit(plan)) /\ plan' = plan
  BY PlanStays DEF Once
<1> DEFINE Now == OnceOnly(Inbound', tasks', DOMAIN intended', Limit(plan))
<1>4. ASSUME NEW r, Makes(r) PROVE Now
  <2>1. UNCHANGED <<tasks, readBuf, intended>> /\ r \in Request /\ Len(asked) < Limit(plan)
    BY <1>4 DEF Makes, serverVars
  <2>2. CASE AskedTooLong(r)
    <3>1. Inbound' = Inbound
      BY <2>1, <2>2 DEF AskedTooLong, Inbound
    <3> QED
      BY <1>3, <2>1, <3>1
  <2>3. ASSUME NEW body, AskedFor(r, body) PROVE Now
    <3> DEFINE c == AskedPacket(r, body)
    <3>1. /\ Inbound' = Inbound \o c /\ c \in Seq(Nat) /\ HoldsOnly(c, KnownNow')
          /\ r.type \in MessageTypes /\ Len(asked) + 1 \in Nat /\ Plain(Len(asked) + 1)
          /\ body \in Seq(D) /\ Len(body) <= MaxBody
      BY <1>4, <2>3, AskedAdds
    <3>2. /\ There(c, 1) = Sent(r.type, Len(asked) + 1, body)
          /\ \A k : HeldAt(c, k) => k = 1
      BY <3>1, PutHeld DEF AskedPacket
    <3> HIDE DEF c
    <3>3. ASSUME NEW i \in 1 .. Limit(plan), NEW j, Identifies(c, j, i)
          PROVE  j = 1 /\ Unseen(Inbound, tasks, DOMAIN intended, i)
      <4>1. j = 1 /\ There(c, j).id = i
        BY <3>2, <3>3 DEF Identifies
      <4>2. i = Len(asked) + 1
        BY <3>2, <4>1 DEF Sent
      <4>3. i \notin 1 .. Len(asked)
        BY <4>2, LimitRight
      <4> QED
        BY <3>3, <4>1, <4>3, NewIsUnseen
    <3>4. OnceOnly(Inbound \o c, tasks, DOMAIN intended, Limit(plan))
      BY <1>1, <1>2, <1>3, <3>1, <3>3, OnceAdded
    <3> QED
      BY <2>1, <3>1, <3>4
  <2> QED
    BY <1>4, <2>2, <2>3 DEF Makes
<1>5. ASSUME NEW cells \in Plans[plan].toServer, AlienAsks(cells) PROVE Now
  <2>1. cells \in Seq(Nat) /\ HoldsOnly(cells, HarmlessRequests(Limit(plan)))
    BY PlanIs, UnmagicIsNat DEF PlanRight
  <2>2. toServer' = toServer \o cells /\ UNCHANGED <<readBuf, tasks, intended>>
    BY <1>5 DEF AlienAsks, serverVars
  <2>3. HoldsOnly(cells, KnownNow)
    BY <2>1, HarmlessKnown, HoldsMore DEF KnownNow
  <2>4. Inbound' = Inbound \o cells
    BY <2>1, <2>2, InboundAdds
  <2>5. ASSUME NEW i \in 1 .. Limit(plan), NEW j, Identifies(cells, j, i) PROVE FALSE
    <3>1. There(cells, j) \in HarmlessRequests(Limit(plan)) /\ There(cells, j).id = i
      BY <2>1, <2>5, HeldIs DEF Identifies
    <3>2. There(cells, j).id \notin 1 .. Limit(plan)
      BY <3>1 DEF HarmlessRequests
    <3> QED
      BY <3>1, <3>2
  <2>6. OnceOnly(Inbound \o cells, tasks, DOMAIN intended, Limit(plan))
    BY <1>1, <1>2, <1>3, <2>1, <2>3, <2>5, OnceAdded
  <2> QED
    BY <2>2, <2>4, <2>6
<1>6. ASSUME NEW n \in 1 .. Len(toServer), ServerRead(n) PROVE Now
  <2>1. Inbound' = Inbound /\ UNCHANGED <<tasks, intended>>
    BY <1>6, ServerReads DEF ServerRead
  <2> QED
    BY <1>3, <2>1
<1>7. ASSUME NEW n, NEW more, Pulls(n, more),
             more = {} \/ (n > 0 /\ HeldAt(Inbound, 1) /\ more = {There(Inbound, 1)})
      PROVE  Now
  <2>1. Inbound' = Drop(Inbound, n) /\ n \in 0 .. Len(Inbound) /\ tasks' = tasks \cup more /\ UNCHANGED intended
    BY <1>7, InboundPulled DEF Pulls
  <2> QED
    BY <1>1, <1>2, <1>3, <1>7, <2>1, OnceTaken
<1>8. ASSUME NEW n, PullsMessage(n) PROVE Now
  BY <1>7, <1>8 DEF PullsMessage
<1>9. ASSUME NEW n, PullsNone(n) PROVE Now
  BY <1>7, <1>9 DEF PullsNone
<1>10. ASSUME NEW msg, NEW a, Handles(msg, a) PROVE Now
  <2>1. /\ UNCHANGED <<readBuf, toServer>> /\ tasks' = tasks \ {msg} /\ msg \in tasks
        /\ intended' = With(intended, msg.id, Means(a.code, a.fields))
    BY <1>10 DEF Handles
  <2>2. Inbound' = Inbound
    BY <2>1 DEF Inbound
  <2>3. DOMAIN intended' = DOMAIN intended \cup {msg.id}
    BY <2>1 DEF With
  <2> QED
    BY <1>3, <2>1, <2>2, <2>3, OnceHandled
<1>11. ASSUME UNCHANGED <<readBuf, toServer, tasks, intended>> PROVE Now
  <2>1. Inbound' = Inbound
    BY <1>11 DEF Inbound
  <2> QED
    BY <1>3, <1>11, <2>1
<1> HIDE DEF Now
<1>12. Now
  BY <1>4, <1>5, <1>6, <1>8, <1>9, <1>10, <1>11
     DEF Step, RequestTimeout, SendFrame, AlienReplies, ClientRead,
         WaitForMore, CutsFrame, TakePacket, CutsBad, CutsAnswer, Cuts, serverVars
<1> QED
  BY <1>3, <1>12 DEF Now, Once

LEMMA UnderstoodKept ==
  ASSUME PlanRight, AskedRight, Requested, Understood, Step
  PROVE  Understood'
<1>1. Meant(intended, asked, Limit(plan)) /\ plan' = plan /\ asked \in Seq(Request)
  BY PlanStays, LimitRight DEF Understood
<1> DEFINE Now == Meant(intended', asked', Limit(plan))
<1>2. ASSUME NEW r, Makes(r) PROVE Now
  <2>1. r \in Request /\ asked' = Append(asked, r) /\ UNCHANGED intended
    BY <1>2 DEF Makes, serverVars
  <2> QED
    BY <1>1, <2>1, MeantAsked
<1>3. ASSUME NEW msg, NEW a, Handles(msg, a) PROVE Now
  <2>1. /\ msg \in tasks /\ a \in Answers(msg) /\ UNCHANGED asked
        /\ intended' = With(intended, msg.id, Means(a.code, a.fields))
    BY <1>3 DEF Handles, clientVars
  <2>2. msg \in KnownNow
    BY <2>1 DEF Requested, KnownNow
  <2>3. msg.id \in 1 .. Limit(plan) => msg.id \in 1 .. Len(asked) /\ asked[msg.id].type = msg.type
    BY <2>2, TaskIs DEF IsOwn
  <2>4. msg.type = 4353 => Typed(LoginLayout, a.fields)
    BY <2>1, AnswersFit DEF AnswerFits, LoginLayout
  <2> QED
    BY <1>1, <2>1, <2>3, <2>4, MeantHandled
<1>4. ASSUME UNCHANGED <<intended, asked>> PROVE Now
  BY <1>1, <1>4
<1> HIDE DEF Now
<1>5. Now
  BY <1>2, <1>3, <1>4
     DEF Step, AlienAsks, ServerRead, PullsMessage, PullsNone, Pulls, RequestTimeout, SendFrame, AlienReplies,
         ClientRead, WaitForMore, CutsFrame, TakePacket, CutsBad, CutsAnswer, Cuts, serverVars, clientVars
<1> QED
  BY <1>1, <1>5 DEF Now, Understood

LEMMA ServedKept ==
  ASSUME PlanRight, AskedRight, Requested, Served, Step
  PROVE  Served'
<1>1. /\ \A i \in 1 .. Len(asked) : i \in 1 .. Len(asked') /\ asked'[i] = asked[i]
  <2>1. ASSUME NEW r, Makes(r)
        PROVE  \A i \in 1 .. Len(asked) : i \in 1 .. Len(asked') /\ asked'[i] = asked[i]
    BY <2>1, LimitRight, Appended DEF Makes
  <2>2. ASSUME UNCHANGED asked
        PROVE  \A i \in 1 .. Len(asked) : i \in 1 .. Len(asked') /\ asked'[i] = asked[i]
    BY <2>2
  <2> QED
    BY <2>1, <2>2
       DEF Step, AlienAsks, RequestTimeout, ServerRead, PullsMessage, PullsNone, Pulls, Handles, SendFrame,
           AlienReplies, ClientRead, WaitForMore, CutsFrame, TakePacket, CutsBad, CutsAnswer, Cuts, clientVars
<1>2. ASSUME NEW msg, NEW a, Handles(msg, a), a.called, NEW call,
             call = [id |-> msg.id, type |-> msg.type, fields |-> a.f]
      PROVE  call.id \in 1 .. Len(asked) /\ asked[call.id] = [type |-> call.type, fields |-> call.fields]
  <2>1. msg \in KnownNow /\ a \in Answers(msg)
    BY <1>2 DEF Handles, Requested, KnownNow
  <2>2. msg.type \in RequestTypes /\ ReadAs(msg.type, msg.body).ok /\ a.f = ReadAs(msg.type, msg.body).fields
    BY <1>2, <2>1, AnswerCalls
  <2>3. IsOwn(msg, asked)
    BY <2>1, <2>2, TaskIs
  <2>4. /\ msg.id \in 1 .. Len(asked) /\ msg.type = asked[msg.id].type
        /\ ReadAs(msg.type, msg.body) = [ok |-> TRUE, fields |-> asked[msg.id].fields]
    BY <2>3 DEF IsOwn, ReadsAs
  <2>5. a.f = asked[msg.id].fields
    BY <2>2, <2>4
  <2>6. asked[msg.id] \in Request
    BY <2>4, LimitRight, ElementOfSeq
  <2>7. asked[msg.id] = [type |-> msg.type, fields |-> a.f]
    BY <2>4, <2>5, <2>6 DEF Request
  <2> QED
    BY <1>2, <2>4, <2>7
<1>3. \A call \in served' : call \in served \/
        (call.id \in 1 .. Len(asked) /\ asked[call.id] = [type |-> call.type, fields |-> call.fields])
  <2>1. ASSUME NEW msg, NEW a, Handles(msg, a)
        PROVE  \A call \in served' : call \in served \/
          (call.id \in 1 .. Len(asked) /\ asked[call.id] = [type |-> call.type, fields |-> call.fields])
    <3>1. served' = IF a.called THEN served \cup {[id |-> msg.id, type |-> msg.type, fields |-> a.f]}
                    ELSE served
      BY <2>1 DEF Handles
    <3>2. ASSUME NEW call \in served', call \notin served
          PROVE  call.id \in 1 .. Len(asked) /\ asked[call.id] = [type |-> call.type, fields |-> call.fields]
      <4>1. a.called /\ call = [id |-> msg.id, type |-> msg.type, fields |-> a.f]
        BY <3>1, <3>2
      <4> QED
        BY <1>2, <2>1, <4>1
    <3> QED
      BY <3>2
  <2> QED
    BY <2>1
       DEF Step, Makes, AlienAsks, RequestTimeout, ServerRead, PullsMessage, PullsNone, Pulls, SendFrame,
           AlienReplies, ClientRead, WaitForMore, CutsFrame, TakePacket, CutsBad, CutsAnswer, Cuts, serverVars
<1> QED
  BY <1>1, <1>3 DEF Served

-------------------------------------------------------------------------------
(* No request is lost on its way, unless another release writes in between   *)
(* or the pool is full.                                                      *)
TooLongTold(i) == i \in DOMAIN reports /\ reports[i].kind = "tooLong"
Kept(i) ==
  \/ TooLongTold(i)
  \/ i \in DOMAIN intended
  \/ i \in refused
  \/ \E msg \in tasks : msg.id = i
  \/ \E k : Identifies(Inbound, k, i)
NothingLost ==
  aliens = 0 =>
    /\ Sync(Inbound)
    /\ \A i \in 1 .. Len(asked) : Kept(i)
    /\ ~reading => DecodeMessage(readBuf).status # "decoded"
Reporting == DOMAIN reports \subseteq 1 .. Len(asked) /\ (pending # 0 => pending \notin DOMAIN reports)

(* A report is made once. *)
Reported(j, x) ==
  /\ j \in 1 .. Len(asked') /\ j \notin DOMAIN reports /\ pending' = 0
  /\ reports' = With(reports, j, x)
LEMMA ReportsOnce ==
  ASSUME PlanRight, AskedRight, Reporting, Step
  PROVE  \/ /\ UNCHANGED reports
            /\ \/ pending' \in {0, pending} /\ UNCHANGED asked
               \/ pending' = Len(asked) + 1 /\ Len(asked') = Len(asked) + 1
         \/ \E j, x : Reported(j, x)
<1>1. /\ Len(asked) \in Nat /\ pending \in 0 .. Len(asked) /\ asked \in Seq(Request)
  BY LimitRight
<1>2. DOMAIN reports \subseteq 1 .. Len(asked) /\ (pending # 0 => pending \notin DOMAIN reports)
  BY DEF Reporting
<1> DEFINE Now == \/ /\ UNCHANGED reports
                     /\ \/ pending' \in {0, pending} /\ UNCHANGED asked
                        \/ pending' = Len(asked) + 1 /\ Len(asked') = Len(asked) + 1
                  \/ \E j, x : Reported(j, x)
<1>3. ASSUME NEW r, Makes(r) PROVE Now
  <2>1. r \in Request /\ asked' = Append(asked, r) /\ pending = 0
    BY <1>3 DEF Makes
  <2>2. Len(asked') = Len(asked) + 1
    BY <1>1, <2>1, Appended
  <2>3. CASE AskedTooLong(r)
    <3>1. Reported(Len(asked) + 1, [kind |-> "tooLong", code |-> 0, fields |-> <<>>])
      <4>1. Len(asked) + 1 \in 1 .. Len(asked') /\ Len(asked) + 1 \notin 1 .. Len(asked)
        BY <1>1, <2>2
      <4> QED
        BY <1>2, <2>1, <2>3, <4>1 DEF AskedTooLong, Reported
    <3> QED
      BY <3>1
  <2>4. ASSUME NEW body, AskedFor(r, body) PROVE Now
    BY <2>2, <2>4 DEF AskedFor
  <2> HIDE DEF Now
  <2> QED
    BY <1>3, <2>3, <2>4 DEF Makes
<1>4. ASSUME UNCHANGED asked, pending # 0, pending' = 0, NEW kind, NEW code, NEW fields, Report(pending, kind, code, fields)
      PROVE  Now
  <2>1. Reported(pending, [kind |-> kind, code |-> code, fields |-> fields])
    BY <1>1, <1>2, <1>4 DEF Report, Reported
  <2> QED
    BY <2>1
<1>5. ASSUME RequestTimeout PROVE Now
  BY <1>4, <1>5 DEF RequestTimeout
<1>6. ASSUME NEW n, CutsBad(n) PROVE Now
  BY <1>4, <1>6 DEF CutsBad, Cuts
<1>7. ASSUME NEW n, CutsAnswer(n) PROVE Now
  <2>1. Settles(There(Outbound, 1)) /\ UNCHANGED asked
    BY <1>7 DEF CutsAnswer, Cuts
  <2> QED
    BY <1>4, <2>1 DEF Settles
<1>8. ASSUME UNCHANGED <<reports, pending, asked>> PROVE Now
  BY <1>8
<1> HIDE DEF Now
<1>9. Now
  BY <1>3, <1>5, <1>6, <1>7, <1>8
     DEF Step, AlienAsks, ServerRead, PullsMessage, PullsNone, Pulls, Handles, SendFrame, AlienReplies,
         ClientRead, WaitForMore, CutsFrame, TakePacket, Cuts, clientVars
<1> QED
  BY <1>9 DEF Now

LEMMA AskedGrows ==
  ASSUME PlanRight, AskedRight, Step
  PROVE  /\ Len(asked) \in Nat /\ Len(asked') \in Nat /\ Len(asked) <= Len(asked')
         /\ \A i \in 1 .. Len(asked) : asked'[i] = asked[i]
<1>1. Len(asked) \in Nat
  BY LimitRight
<1>2. ASSUME NEW r, Makes(r)
      PROVE  Len(asked') = Len(asked) + 1 /\ \A i \in 1 .. Len(asked) : asked'[i] = asked[i]
  BY <1>2, LimitRight, Appended DEF Makes
<1>3. (\E r : Makes(r)) \/ UNCHANGED asked
  BY DEF Step, AlienAsks, RequestTimeout, ServerRead, PullsMessage, PullsNone, Pulls, Handles, SendFrame,
         AlienReplies, ClientRead, WaitForMore, CutsFrame, TakePacket, CutsBad, CutsAnswer, Cuts, clientVars
<1> QED
  BY <1>1, <1>2, <1>3

LEMMA ReportingKept ==
  ASSUME PlanRight, AskedRight, Reporting, Step
  PROVE  Reporting'
<1>1. Len(asked) \in Nat /\ Len(asked') \in Nat /\ Len(asked) <= Len(asked')
  BY AskedGrows
<1>2. DOMAIN reports \subseteq 1 .. Len(asked) /\ (pending # 0 => pending \notin DOMAIN reports)
  BY DEF Reporting
<1>3. DOMAIN reports \subseteq 1 .. Len(asked')
  BY <1>1, <1>2
<1>4. ASSUME NEW j, NEW x, Reported(j, x) PROVE Reporting'
  <2>1. DOMAIN reports' = DOMAIN reports \cup {j} /\ pending' = 0 /\ j \in 1 .. Len(asked')
    BY <1>4 DEF Reported, With
  <2> QED
    BY <1>3, <2>1 DEF Reporting
<1>5. ASSUME UNCHANGED reports, pending' \in {0, pending}, UNCHANGED asked PROVE Reporting'
  BY <1>2, <1>5 DEF Reporting
<1>6. ASSUME UNCHANGED reports, pending' = Len(asked) + 1 PROVE Reporting'
  BY <1>1, <1>2, <1>3, <1>6 DEF Reporting
<1> QED
  BY <1>4, <1>5, <1>6, ReportsOnce

LEMMA ToldStays ==
  ASSUME PlanRight, AskedRight, Reporting, Step, NEW i \in DOMAIN reports
  PROVE  i \in DOMAIN reports' /\ reports'[i] = reports[i]
<1>1. ASSUME NEW j, NEW x, Reported(j, x) PROVE i \in DOMAIN reports' /\ reports'[i] = reports[i]
  BY <1>1 DEF Reported, With
<1> QED
  BY <1>1, ReportsOnce

LEMMA SyncFront ==
  ASSUME NEW b \in Seq(Unmagic), Sync(b), b # <<>>
  PROVE  /\ IsHeader(b[1]) /\ 1 < Len(b) /\ b[2] \in Nat /\ b[2] <= MaxBody
         /\ 3 + b[2] \in 0 .. Len(b)
         /\ \A l \in 2 .. 3 + b[2] : ~Starts(b, l)
         /\ Sync(Drop(b, 3 + b[2]))
<1>1. b \in Seq(Nat)
  BY UnmagicIsNat
<1>2. Starts(b, 0 + 1) /\ Starts(b, 1)
  <2>1. 0 + 1 = 1
    OBVIOUS
  <2> QED
    BY <2>1 DEF Sync
<1>3. /\ ItemLen(b, 0 + 1) \in Nat /\ Sized(b, 0 + 1)
      /\ 0 + ItemLen(b, 0 + 1) \in 0 .. Len(b)
      /\ \A l \in 0 + 2 .. 0 + ItemLen(b, 0 + 1) : ~Starts(b, l)
      /\ Sync(Drop(b, 0 + ItemLen(b, 0 + 1)))
  BY <1>1, <1>2, SyncAfter
<1>4. 0 + 1 = 1 /\ 0 + 2 = 2 /\ 1 + 1 = 2 /\ \A n \in Nat : 0 + n = n
  OBVIOUS
<1>5. /\ ItemLen(b, 1) \in Nat /\ Sized(b, 1) /\ ItemLen(b, 1) \in 0 .. Len(b)
      /\ \A l \in 2 .. ItemLen(b, 1) : ~Starts(b, l)
      /\ Sync(Drop(b, ItemLen(b, 1)))
  BY <1>3, <1>4
<1>6. IsHeader(b[1])
  <2>1. 1 \in 1 .. Len(b) /\ (IsHeader(b[1]) \/ (1 < Len(b) /\ b[2] = Magic))
    BY <1>2, <1>4 DEF Starts
  <2>2. 1 < Len(b) => b[2] # Magic
    <3>1. Len(b) \in Nat
      BY <1>1, LenProperties, Zenon
    <3>2. 1 < Len(b) => 2 \in 1 .. Len(b)
      BY <3>1
    <3> QED
      BY <3>2, ElementOfSeq DEF Unmagic
  <2> QED
    BY <2>1, <2>2
<1>7. ItemLen(b, 1) = 3 + b[2] /\ 1 < Len(b) /\ b[2] <= MaxBody
  BY <1>4, <1>5, <1>6 DEF ItemLen, Sized
<1>8. b[2] \in Nat
  <2>1. Len(b) \in Nat
    BY <1>1, LenProperties, Zenon
  <2>2. 2 \in 1 .. Len(b)
    BY <1>7, <2>1
  <2> QED
    BY <1>1, <2>2, ElementOfSeq
<1> QED
  BY <1>5, <1>6, <1>7, <1>8

(* A message with a request, when cells come behind it or go in front of it. *)
LEMMA IdentifiedStays ==
  ASSUME NEW a \in Seq(Nat), NEW c \in Seq(Nat), NEW M, HoldsOnly(a, M), NEW k, NEW i, Identifies(a, k, i)
  PROVE  Identifies(a \o c, k, i)
<1>1. k \in 1 .. Len(a) /\ k \in Nat
  BY HeldIs DEF Identifies
<1>2. a \o c \in Seq(Nat) /\ Contains(a \o c, 0, a)
  BY JoinedContains
<1>3. SameThere(a \o c, 0 + k, a, k)
  BY <1>1, <1>2, SameHeld
<1>4. 0 + k = k
  BY <1>1
<1> QED
  BY <1>3, <1>4 DEF SameThere, Identifies

LEMMA IdentifiedAdded ==
  ASSUME NEW a \in Seq(Nat), NEW c \in Seq(Nat), NEW M, HoldsOnly(c, M), NEW i, Identifies(c, 1, i)
  PROVE  Identifies(a \o c, Len(a) + 1, i)
<1>1. 1 \in 1 .. Len(c)
  BY HeldIs DEF Identifies
<1>2. a \o c \in Seq(Nat) /\ Contains(a \o c, Len(a), c) /\ Len(a) \in Nat
  BY JoinedContains, LenProperties
<1>3. SameThere(a \o c, Len(a) + 1, c, 1)
  BY <1>1, <1>2, SameHeld
<1> QED
  BY <1>3 DEF SameThere, Identifies

LEMMA IdentifiedBehind ==
  ASSUME NEW b \in Seq(Nat), NEW n \in 0 .. Len(b), NEW M, HoldsOnly(b, M), NEW k, NEW i,
         Identifies(b, k, i), k > n
  PROVE  \E j : Identifies(Drop(b, n), j, i)
<1>1. k \in 1 .. Len(b) /\ k \in Nat
  BY HeldIs DEF Identifies
<1>2. Drop(b, n) \in Seq(Nat) /\ n + Len(Drop(b, n)) = Len(b)
  BY DropContains
<1>3. PICK m \in Nat : m = Len(Drop(b, n))
  BY <1>2, LenProperties, Zenon
<1>4. PICK l \in Nat : l = Len(b)
  BY LenProperties, Zenon
<1>5. n + m = l
  BY <1>2, <1>3, <1>4
<1>6. PICK j \in 1 .. m : n + j = k
  <2>1. k - n \in 1 .. m /\ n + (k - n) = k
    BY <1>1, <1>4, <1>5
  <2> QED
    BY <2>1
<1>7. SameThere(b, n + j, Drop(b, n), j)
  BY <1>3, <1>6, HeldDropped
<1>8. Identifies(Drop(b, n), j, i)
  BY <1>6, <1>7 DEF SameThere, Identifies
<1> QED
  BY <1>8

LEMMA NothingLostKept ==
  ASSUME PlanRight, AskedRight, CellsRight, Requested, Reporting, NothingLost, Step
  PROVE  NothingLost'
<1> SUFFICES ASSUME aliens' = 0
             PROVE  /\ Sync(Inbound') /\ \A i \in 1 .. Len(asked') : Kept(i)'
                    /\ ~reading' => DecodeMessage(readBuf').status # "decoded"
  BY DEF NothingLost
<1>0. aliens = 0 /\ aliens' # aliens + 1
  BY PlanStays DEF PlanRight
<1>1. /\ Sync(Inbound) /\ \A i \in 1 .. Len(asked) : Kept(i)
      /\ ~reading => DecodeMessage(readBuf).status # "decoded"
  BY <1>0 DEF NothingLost
<1>2. /\ Inbound \in Seq(Nat) /\ Inbound \in Seq(Unmagic) /\ HoldsOnly(Inbound, KnownNow)
      /\ readBuf \in Seq(Nat)
  BY WholeCells DEF Requested, KnownNow
<1>3. Len(asked) \in Nat
  BY LimitRight
<1> DEFINE Told(i) == i \in DOMAIN reports' /\ reports'[i].kind = "tooLong"
           Stays(i) == \/ Told(i) \/ i \in DOMAIN intended' \/ i \in refused' \/ (\E msg \in tasks' : msg.id = i)
                       \/ \E k : Identifies(Inbound', k, i)
           Now == /\ Sync(Inbound') /\ \A i \in 1 .. Len(asked') : Stays(i)
                  /\ ~reading' => DecodeMessage(readBuf').status # "decoded"
<1>4. ASSUME NEW i, TooLongTold(i) PROVE Told(i)
  BY <1>4, ToldStays DEF TooLongTold
<1>5. ASSUME DOMAIN intended \subseteq DOMAIN intended', tasks \subseteq tasks', refused \subseteq refused',
             NEW i, Kept(i), \A k : Identifies(Inbound, k, i) => \E l : Identifies(Inbound', l, i)
      PROVE  Stays(i)
  <2>1. CASE TooLongTold(i)
    BY <1>4, <2>1
  <2>2. CASE i \in DOMAIN intended
    BY <1>5, <2>2
  <2>3. ASSUME NEW msg \in tasks, msg.id = i PROVE Stays(i)
    BY <1>5, <2>3
  <2>4. ASSUME NEW k, Identifies(Inbound, k, i) PROVE Stays(i)
    BY <1>5, <2>4
  <2>5. CASE i \in refused
    BY <1>5, <2>5
  <2> HIDE DEF Stays
  <2> QED
    BY <1>5, <2>1, <2>2, <2>3, <2>4, <2>5 DEF Kept
<1> HIDE DEF Told
<1>6. ASSUME UNCHANGED <<asked, intended, tasks, refused>>, Inbound' = Inbound
      PROVE  \A i \in 1 .. Len(asked') : Stays(i)
  <2>1. ASSUME NEW i \in 1 .. Len(asked') PROVE Stays(i)
    BY <1>1, <1>5, <1>6, <2>1
  <2> HIDE DEF Stays
  <2> QED
    BY <2>1
<1>7. ASSUME NEW r, Makes(r) PROVE Now
  <2>1. /\ UNCHANGED <<tasks, refused, readBuf, reading, intended>> /\ r \in Request
        /\ asked' = Append(asked, r)
    BY <1>7 DEF Makes, serverVars
  <2>2. Len(asked') = Len(asked) + 1 /\ asked \in Seq(Request)
    BY <2>1, LimitRight, Appended
  <2>3. \A i \in 1 .. Len(asked') : i \in 1 .. Len(asked) \/ i = Len(asked) + 1
    BY <1>3, <2>2
  <2>4. CASE AskedTooLong(r)
    <3>1. Inbound' = Inbound
      BY <2>1, <2>4 DEF AskedTooLong, Inbound
    <3>2. Told(Len(asked) + 1)
      BY <2>4 DEF AskedTooLong, Told, With
    <3>3. ASSUME NEW i \in 1 .. Len(asked) PROVE Stays(i)
      BY <1>1, <1>5, <2>1, <3>1
    <3>4. Stays(Len(asked) + 1)
      BY <3>2
    <3> HIDE DEF Stays
    <3> QED
      BY <1>1, <2>1, <2>3, <3>1, <3>3, <3>4
  <2>5. ASSUME NEW body, AskedFor(r, body) PROVE Now
    <3> DEFINE c == AskedPacket(r, body)
    <3>1. /\ Inbound' = Inbound \o c /\ c \in Seq(Nat) /\ HoldsOnly(c, KnownNow')
          /\ r.type \in MessageTypes /\ Len(asked) + 1 \in Nat /\ Plain(Len(asked) + 1)
          /\ body \in Seq(D) /\ Len(body) <= MaxBody
      BY <1>7, <2>5, AskedAdds
    <3>2. HeldAt(c, 1) /\ There(c, 1) = Sent(r.type, Len(asked) + 1, body)
      BY <3>1, PutHeld DEF AskedPacket
    <3>3. Sync(c) /\ c[1] # Magic
      BY <3>1, PutSync, PutStarts DEF AskedPacket
    <3> HIDE DEF c
    <3>4. Identifies(c, 1, Len(asked) + 1)
      BY <3>2 DEF Identifies, Sent
    <3>5. Identifies(Inbound', Len(Inbound) + 1, Len(asked) + 1)
      BY <1>2, <3>1, <3>4, IdentifiedAdded
    <3>6. \A i, k : Identifies(Inbound, k, i) => Identifies(Inbound', k, i)
      BY <1>2, <3>1, IdentifiedStays
    <3>7. Sync(Inbound')
      BY <1>1, <1>2, <3>1, <3>3, SyncJoined
    <3>8. ASSUME NEW i \in 1 .. Len(asked) PROVE Stays(i)
      BY <1>1, <1>5, <2>1, <3>6
    <3>9. Stays(Len(asked) + 1)
      BY <3>5
    <3> HIDE DEF Stays
    <3> QED
      BY <1>1, <2>1, <2>3, <3>7, <3>8, <3>9
  <2> HIDE DEF Now
  <2> QED
    BY <1>7, <2>4, <2>5 DEF Makes
<1>8. ASSUME NEW cells, AlienAsks(cells) PROVE Now
  BY <1>0, <1>8 DEF AlienAsks
<1>9. ASSUME NEW n \in 1 .. Len(toServer), ServerRead(n) PROVE Now
  <2>1. Inbound' = Inbound /\ UNCHANGED <<asked, intended, tasks, refused>> /\ reading' = TRUE
    BY <1>9, ServerReads DEF ServerRead, clientVars
  <2>2. \A i \in 1 .. Len(asked') : Stays(i)
    BY <1>6, <2>1
  <2> HIDE DEF Stays
  <2> QED
    BY <1>1, <2>1, <2>2
<1>10. ASSUME NEW n, PullsMessage(n) PROVE Now
  <2>1. /\ Inbound' = Drop(Inbound, n) /\ n \in 0 .. Len(Inbound) /\ n = 3 + Inbound[2]
        /\ UNCHANGED <<asked, intended>> /\ reading' = TRUE /\ HeldAt(Inbound, 1)
        /\ \/ tasks' = tasks \cup {There(Inbound, 1)} /\ refused' = refused
           \/ tasks' = tasks /\ refused' = refused \cup {There(Inbound, 1).id}
    <3>1. PICK more : Pulls(n, more)
      BY <1>10 DEF PullsMessage
    <3>2. Inbound' = Drop(Inbound, n) /\ n \in 0 .. Len(Inbound) /\ UNCHANGED <<asked, intended>>
      BY <3>1, InboundPulled DEF Pulls, clientVars
    <3>3. \/ tasks' = tasks \cup {There(Inbound, 1)} /\ refused' = refused
          \/ tasks' = tasks /\ refused' = refused \cup {There(Inbound, 1).id}
      BY <1>10 DEF PullsMessage, Pulls
    <3> QED
      BY <1>10, <3>2, <3>3 DEF PullsMessage
  <2>2. Inbound # <<>>
    BY <2>1 DEF HeldAt
  <2>3. Sync(Inbound') /\ \A l \in 2 .. n : ~Starts(Inbound, l)
    BY <1>1, <1>2, <2>1, <2>2, SyncFront
  <2>4. ASSUME NEW i, NEW k, Identifies(Inbound, k, i), i # There(Inbound, 1).id
        PROVE  \E l : Identifies(Inbound', l, i)
    <3>1. k \in 1 .. Len(Inbound) /\ IsHeader(Inbound[k])
      BY <2>4 DEF Identifies, HeldAt
    <3>2. k # 1 /\ Starts(Inbound, k)
      BY <2>4, <3>1 DEF Identifies, Starts
    <3>3. k \notin 2 .. n
      BY <2>3, <3>2
    <3>4. k > n
      BY <2>1, <3>1, <3>2, <3>3
    <3> QED
      BY <1>2, <2>1, <2>4, <3>4, IdentifiedBehind
  <2>5. ASSUME NEW i \in 1 .. Len(asked') PROVE Stays(i)
    <3>1. CASE i = There(Inbound, 1).id
      BY <2>1, <3>1
    <3>2. CASE i # There(Inbound, 1).id
      BY <1>1, <1>5, <2>1, <2>4, <2>5, <3>2
    <3> QED
      BY <3>1, <3>2
  <2> HIDE DEF Stays
  <2> QED
    BY <2>1, <2>3, <2>5
<1>11. ASSUME NEW n, PullsNone(n) PROVE Now
  <2>1. /\ Inbound' = Drop(Inbound, n) /\ n \in 0 .. Len(Inbound) /\ tasks' = tasks \cup {}
        /\ UNCHANGED <<asked, intended, refused>> /\ readBuf' = Drop(readBuf, n)
    BY <1>11, InboundPulled DEF PullsNone, Pulls, clientVars
  <2>2. CASE n = 0 /\ DecodeMessage(readBuf).status = "incomplete"
    <3>1. Inbound' = Inbound /\ readBuf' = readBuf
      BY <1>2, <2>1, <2>2, SubSeqProperties DEF Drop
    <3>2. \A i \in 1 .. Len(asked') : Stays(i)
      BY <1>6, <2>1, <3>1
    <3> HIDE DEF Stays
    <3> QED
      BY <1>1, <2>2, <3>1, <3>2
  <2>3. CASE Len(readBuf) >= 3 /\ (IsHeader(Inbound[1]) => Inbound[2] > MaxBody)
    <3>1. Inbound # <<>>
      <4>1. PICK l \in Nat : l = Len(readBuf)
        BY <1>2, LenProperties, Zenon
      <4>2. Len(Inbound) >= 3
        <5>1. l <= Len(Inbound) /\ Len(Inbound) \in Nat
          BY <4>1, WholeCells, FrontIs DEF Inbound
        <5> QED
          BY <2>3, <4>1, <5>1
      <4> QED
        BY <4>2
    <3>2. IsHeader(Inbound[1]) /\ Inbound[2] \in Nat /\ Inbound[2] <= MaxBody
      BY <1>1, <1>2, <3>1, SyncFront
    <3>3. ~(Inbound[2] > MaxBody)
      BY <3>2, BodyLimit
    <3> QED
      BY <2>3, <3>2, <3>3
  <2> HIDE DEF Now
  <2> QED
    BY <1>11, <2>2, <2>3 DEF PullsNone
<1>12. ASSUME NEW msg, NEW a, Handles(msg, a) PROVE Now
  <2>1. /\ UNCHANGED <<readBuf, toServer, reading, refused, asked, reports>> /\ tasks' = tasks \ {msg}
        /\ intended' = With(intended, msg.id, Means(a.code, a.fields))
    BY <1>12 DEF Handles, clientVars
  <2>2. DOMAIN intended' = DOMAIN intended \cup {msg.id}
    BY <2>1 DEF With
  <2>3. Inbound' = Inbound
    BY <2>1 DEF Inbound
  <2>4. ASSUME NEW i \in 1 .. Len(asked') PROVE Stays(i)
    <3>1. Kept(i)
      BY <1>1, <2>1, <2>4
    <3>2. CASE TooLongTold(i)
      BY <1>4, <3>2
    <3>3. CASE i \in DOMAIN intended
      BY <2>2, <3>3
    <3>4. ASSUME NEW m \in tasks, m.id = i PROVE Stays(i)
      BY <2>1, <2>2, <3>4
    <3>5. ASSUME NEW k, Identifies(Inbound, k, i) PROVE Stays(i)
      BY <2>3, <3>5
    <3>6. CASE i \in refused
      BY <2>1, <3>6
    <3> HIDE DEF Stays
    <3> QED
      BY <3>1, <3>2, <3>3, <3>4, <3>5, <3>6 DEF Kept
  <2> HIDE DEF Stays
  <2> QED
    BY <1>1, <2>1, <2>3, <2>4
<1>13. ASSUME UNCHANGED <<readBuf, toServer, reading, tasks, refused, intended, asked>> PROVE Now
  <2>1. Inbound' = Inbound
    BY <1>13 DEF Inbound
  <2>2. \A i \in 1 .. Len(asked') : Stays(i)
    BY <1>6, <1>13, <2>1
  <2> HIDE DEF Stays
  <2> QED
    BY <1>1, <1>13, <2>1, <2>2
<1> HIDE DEF Now
<1>14. Now
  BY <1>7, <1>8, <1>9, <1>10, <1>11, <1>12, <1>13
     DEF Step, RequestTimeout, SendFrame, AlienReplies, ClientRead,
         WaitForMore, CutsFrame, TakePacket, CutsBad, CutsAnswer, Cuts, serverVars, clientVars
<1> USE DEF Now
<1>15. \A i \in 1 .. Len(asked') : Kept(i)'
  <2>1. ASSUME NEW i, Stays(i) PROVE Kept(i)'
    BY <2>1 DEF Stays, Told, Kept, TooLongTold
  <2>2. \A i \in 1 .. Len(asked') : Stays(i)
    BY <1>14
  <2> HIDE DEF Stays
  <2> QED
    BY <2>1, <2>2
<1> QED
  BY <1>14, <1>15

-------------------------------------------------------------------------------
(* What the steps do to the cells towards the client. *)
RepliesNow == Replies(asked, intended, Limit(plan), Alien)
Replied == HoldsOnly(Outbound, RepliesNow)

LEMMA OutboundAdds ==
  ASSUME CellsRight, NEW c \in Seq(Nat), UNCHANGED receiveBuf, toClient' = toClient \o c
  PROVE  Outbound' = Outbound \o c
<1>1. receiveBuf \in Seq(Nat) /\ toClient \in Seq(Nat)
  BY DEF CellsRight
<1>2. SameWhole(receiveBuf, toClient, c)
  BY <1>1, Regrouped
<1> QED
  BY <1>2 DEF Outbound, SameWhole

LEMMA OutboundCut ==
  ASSUME CellsRight, NEW n, Cuts(n)
  PROVE  Outbound' = Drop(Outbound, n) /\ n \in 0 .. Len(Outbound)
<1>1. receiveBuf \in Seq(Nat) /\ toClient \in Seq(Nat)
  BY DEF CellsRight
<1>2. n \in 1 .. Len(receiveBuf) /\ receiveBuf' = Drop(receiveBuf, n) /\ UNCHANGED toClient
  BY DEF Cuts
<1>3. n \in 0 .. Len(receiveBuf)
  BY <1>2
<1>4. /\ Drop(receiveBuf, n) \o toClient = Drop(receiveBuf \o toClient, n)
      /\ n \in 0 .. Len(receiveBuf \o toClient)
  BY <1>1, <1>3, DropJoined
<1>5. Outbound' = Drop(receiveBuf, n) \o toClient
  BY <1>2 DEF Outbound
<1> QED
  BY <1>4, <1>5 DEF Outbound

LEMMA AlienStays ==
  ASSUME PlanRight, Step
  PROVE  Alien => Alien'
<1>1. plan' = plan /\ (aliens' = aliens \/ aliens' = aliens + 1) /\ aliens \in Nat
  BY PlanStays DEF PlanRight
<1> QED
  BY <1>1 DEF Alien

LEMMA RepliesAlien ==
  ASSUME NEW a, NEW meant, NEW n, NEW alien, NEW more, alien => more
  PROVE  Replies(a, meant, n, alien) \subseteq Replies(a, meant, n, more)
BY DEF Replies

LEMMA FirstAnswer ==
  ASSUME Once, NEW msg \in tasks, msg.id \in 1 .. Limit(plan)
  PROVE  msg.id \notin DOMAIN intended
BY DEF Once, OnceOnly

LEMMA RepliesGrow ==
  ASSUME PlanRight, AskedRight, Once, Step
  PROVE  RepliesNow \subseteq RepliesNow'
<1>1. plan' = plan /\ (Alien => Alien') /\ asked \in Seq(Request)
  BY PlanStays, AlienStays, LimitRight
<1> DEFINE Now == Replies(asked, intended, Limit(plan), Alien) \subseteq Replies(asked', intended', Limit(plan), Alien)
<1>2. ASSUME NEW r, Makes(r) PROVE Now
  <2>1. r \in Request /\ asked' = Append(asked, r) /\ UNCHANGED intended
    BY <1>2 DEF Makes, serverVars
  <2>2. Replies(asked, intended, Limit(plan), Alien) \subseteq Replies(Append(asked, r), intended, Limit(plan), Alien)
    BY <1>1, <2>1, RepliesAsked
  <2> QED
    BY <2>1, <2>2
<1>3. ASSUME NEW msg, NEW a, Handles(msg, a) PROVE Now
  <2>1. /\ msg \in tasks /\ UNCHANGED asked
        /\ intended' = With(intended, msg.id, Means(a.code, a.fields))
    BY <1>3 DEF Handles, clientVars
  <2>2. msg.id \in 1 .. Limit(plan) => msg.id \notin DOMAIN intended
    BY <2>1, FirstAnswer
  <2>3. Replies(asked, intended, Limit(plan), Alien)
          \subseteq Replies(asked, With(intended, msg.id, Means(a.code, a.fields)), Limit(plan), Alien)
    BY <2>2, RepliesHandled
  <2> QED
    BY <2>1, <2>3
<1>4. ASSUME UNCHANGED <<intended, asked>> PROVE Now
  BY <1>4
<1> HIDE DEF Now
<1>5. Now
  BY <1>2, <1>3, <1>4
     DEF Step, AlienAsks, ServerRead, PullsMessage, PullsNone, Pulls, RequestTimeout, SendFrame, AlienReplies,
         ClientRead, WaitForMore, CutsFrame, TakePacket, CutsBad, CutsAnswer, Cuts, serverVars, clientVars
<1>6. Replies(asked', intended', Limit(plan), Alien) \subseteq Replies(asked', intended', Limit(plan), Alien')
  BY <1>1, RepliesAlien
<1> QED
  BY <1>1, <1>5, <1>6 DEF Now, RepliesNow

(* What a worker adds. *)
AnswerPacket(msg, a) == Put(ResponseType(msg.type), msg.id, a.body)
LEMMA AnswerAdds ==
  ASSUME PlanRight, AskedRight, CellsRight, Requested, NEW msg, NEW a, Handles(msg, a)
  PROVE  /\ Outbound' = Outbound \o AnswerPacket(msg, a) /\ AnswerPacket(msg, a) \in Seq(Nat)
         /\ HoldsOnly(AnswerPacket(msg, a), RepliesNow') /\ Sync(AnswerPacket(msg, a))
         /\ AnswerPacket(msg, a)[1] # Magic
         /\ \A k \in 1 .. Len(AnswerPacket(msg, a)) : AnswerPacket(msg, a)[k] # Magic
<1>1. /\ msg \in tasks /\ a \in Answers(msg)
      /\ intended' = With(intended, msg.id, Means(a.code, a.fields))
      /\ toClient' = toClient \o AnswerPacket(msg, a)
      /\ ResponseType(msg.type) \in MessageTypes /\ msg.id \in Nat /\ Plain(msg.id)
      /\ a.body \in Seq(D) /\ Len(a.body) <= MaxBody
      /\ UNCHANGED <<plan, asked, receiveBuf, aliens>>
  BY DEF Handles, clientVars, AnswerPacket
<1>2. /\ AnswerPacket(msg, a) \in Seq(Nat) /\ AnswerPacket(msg, a)[1] # Magic
      /\ \A k \in 1 .. Len(AnswerPacket(msg, a)) : k # 1 => Plain(AnswerPacket(msg, a)[k])
  BY <1>1, PutStarts DEF AnswerPacket
<1>3. Outbound' = Outbound \o AnswerPacket(msg, a)
  BY <1>1, <1>2, OutboundAdds
<1>4. Sync(AnswerPacket(msg, a))
  BY <1>1, PutSync DEF AnswerPacket
<1>5. msg \in Known(asked, Limit(plan))
  BY <1>1 DEF Requested
<1>6. msg.type \in RequestTypes => Tells(msg.type, a.code, a.fields, a.body)
  BY <1>1, AnswersFit DEF AnswerFits
<1>7. Sent(ResponseType(msg.type), msg.id, a.body)
        \in Replies(asked, With(intended, msg.id, Means(a.code, a.fields)), Limit(plan), Alien)
  <2>1. /\ asked \in Seq(Request) /\ Limit(plan) \in Nat /\ Limit(plan) < TypeCell(4097, 0)
        /\ Len(asked) <= Limit(plan)
    BY LimitRight
  <2>2. a.body \in Seq(D)
    BY <1>1
  <2>3. Answered(asked, intended, Limit(plan), Alien, msg, a.code, a.fields, a.body)
    BY <1>5, <1>6, <2>1, <2>2, AnswerIsReply
  <2> QED
    BY <2>3 DEF Answered
<1>8. Alien' = Alien
  BY <1>1 DEF Alien
<1>9. Sent(ResponseType(msg.type), msg.id, a.body) \in RepliesNow'
  BY <1>1, <1>7, <1>8 DEF RepliesNow
<1>10. HoldsOnly(AnswerPacket(msg, a), RepliesNow')
  BY <1>1, <1>9, PutHolds DEF AnswerPacket
<1>11. \A k \in 1 .. Len(AnswerPacket(msg, a)) : AnswerPacket(msg, a)[k] # Magic
  BY <1>2 DEF Plain
<1> QED
  BY <1>2, <1>3, <1>4, <1>10, <1>11

(* What the pull thread adds. *)
NextFrame == Frames[streamed + 1]

LEMMA FrameAdds ==
  ASSUME PlanRight, CellsRight, SendFrame
  PROVE  /\ Outbound' = Outbound \o WireOf(NextFrame) /\ WireOf(NextFrame) \in Seq(Nat)
         /\ Frame(NextFrame) /\ streamed + 1 \in 1 .. Len(Frames) /\ streamed' = streamed + 1
         /\ UNCHANGED <<plan, aliens, receiveBuf, reassembly, shown, receiving>>
<1>1. /\ toClient' = toClient \o WireOf(NextFrame) /\ UNCHANGED <<plan, aliens, receiveBuf, reassembly, shown, receiving>>
      /\ streamed < Len(Frames) /\ streamed' = streamed + 1
  BY DEF SendFrame, clientVars, WireOf, Frames, NextFrame
<1>2. streamed + 1 \in 1 .. Len(Frames)
  BY <1>1, FramesAre DEF PlanRight, Frames
<1>3. Frame(NextFrame)
  BY <1>2, FramesAre DEF PlanRight, Frames, NextFrame
<1>4. WireOf(NextFrame) \in Seq(Nat)
  BY <1>3, WireItem
<1>5. Outbound' = Outbound \o WireOf(NextFrame)
  BY <1>1, <1>4, OutboundAdds
<1> QED
  BY <1>1, <1>2, <1>3, <1>4, <1>5

(* What another release adds. *)
LEMMA AlienAdds ==
  ASSUME PlanRight, CellsRight, NEW cells \in Plans[plan].toClient, AlienReplies(cells)
  PROVE  /\ Outbound' = Outbound \o cells /\ cells \in Seq(Nat) /\ cells \in Seq(Unmagic)
         /\ HoldsOnly(cells, HarmlessReplies) /\ Alien'
         /\ UNCHANGED <<plan, receiveBuf, reassembly, shown, streamed, receiving>>
<1>1. cells \in Seq(Unmagic) /\ cells \in Seq(Nat) /\ HoldsOnly(cells, HarmlessReplies)
  BY PlanIs, UnmagicIsNat DEF PlanRight
<1>2. /\ toClient' = toClient \o cells /\ UNCHANGED <<plan, receiveBuf, reassembly, shown, streamed, receiving>>
      /\ aliens' = aliens + 1
  BY DEF AlienReplies, clientVars, streamVars
<1>3. Outbound' = Outbound \o cells
  BY <1>1, <1>2, OutboundAdds
<1>4. Alien'
  BY <1>2 DEF Alien, PlanRight
<1> QED
  BY <1>1, <1>2, <1>3, <1>4

LEMMA RepliedKept ==
  ASSUME PlanRight, AskedRight, CellsRight, Requested, Once, Replied, Step
  PROVE  Replied'
<1>1. HoldsOnly(Outbound, RepliesNow') /\ Outbound \in Seq(Nat)
  BY RepliesGrow, HoldsMore, WholeCells DEF Replied
<1> DEFINE Now == HoldsOnly(Outbound', RepliesNow')
<1>2. ASSUME NEW msg, NEW a, Handles(msg, a) PROVE Now
  <2>1. /\ Outbound' = Outbound \o AnswerPacket(msg, a) /\ AnswerPacket(msg, a) \in Seq(Nat)
        /\ HoldsOnly(AnswerPacket(msg, a), RepliesNow')
    BY <1>2, AnswerAdds
  <2> QED
    BY <1>1, <2>1, HoldsJoined
<1>3. ASSUME SendFrame PROVE Now
  <2>1. Outbound' = Outbound \o WireOf(NextFrame) /\ WireOf(NextFrame) \in Seq(Nat) /\ Frame(NextFrame)
    BY <1>3, FrameAdds
  <2>2. HoldsOnly(WireOf(NextFrame), RepliesNow')
    BY <2>1, WireItem
  <2> QED
    BY <1>1, <2>1, <2>2, HoldsJoined
<1>4. ASSUME NEW cells \in Plans[plan].toClient, AlienReplies(cells) PROVE Now
  <2>1. /\ Outbound' = Outbound \o cells /\ cells \in Seq(Nat)
        /\ HoldsOnly(cells, HarmlessReplies) /\ Alien'
    BY <1>4, AlienAdds
  <2>2. HarmlessReplies \subseteq RepliesNow'
    BY <2>1 DEF RepliesNow, Replies, HarmlessReplies
  <2>3. HoldsOnly(cells, RepliesNow')
    BY <2>1, <2>2, HoldsMore
  <2> QED
    BY <1>1, <2>1, <2>3, HoldsJoined
<1>5. ASSUME NEW n \in 1 .. Len(toClient), ClientRead(n) PROVE Now
  BY <1>1, <1>5, ClientReads
<1>6. ASSUME NEW n, Cuts(n) PROVE Now
  BY <1>1, <1>6, OutboundCut, HoldsDropped
<1>7. ASSUME UNCHANGED <<receiveBuf, toClient>> PROVE Now
  <2>1. Outbound' = Outbound
    BY <1>7 DEF Outbound
  <2> QED
    BY <1>1, <2>1
<1> HIDE DEF Now
<1>8. Now
  BY <1>2, <1>3, <1>4, <1>5, <1>6, <1>7
     DEF Step, Makes, AlienAsks, ServerRead, PullsMessage, PullsNone, Pulls, RequestTimeout,
         WaitForMore, CutsFrame, TakePacket, CutsBad, CutsAnswer, clientVars
<1> QED
  BY <1>8 DEF Now, Replied

(* An answer to the request in progress says what its handler meant, unless  *)
(* there is no room for that, or it is another release's.                    *)
LEMMA AnswerSays ==
  ASSUME PlanRight, AskedRight, CellsRight, Understood, Replied, HeldAt(Outbound, 1),
         NEW msg, msg = There(Outbound, 1), pending # 0, msg.id = pending
  PROVE  LET d == Decoded(asked[pending].type, msg) IN
         \/ Alien /\ ~d.ok
         \/ /\ pending \in DOMAIN intended
            /\ intended[pending] = Means(intended[pending].code, intended[pending].fields)
            /\ asked[pending].type = 4353 => Typed(LoginLayout, intended[pending].fields)
            /\ \/ d.ok /\ d.code = intended[pending].code /\ d.fields = intended[pending].fields
               \/ ~d.ok /\ TooLarge(asked[pending].type, intended[pending])
<1>1. msg \in Replies(asked, intended, Limit(plan), Alien)
  BY WholeCells, HeldIs DEF Replied, RepliesNow
<1>2. /\ pending \in 1 .. Len(asked) /\ pending \in 1 .. Limit(plan) /\ asked \in Seq(Request)
  BY LimitRight
<1> DEFINE d == Decoded(asked[pending].type, msg)
<1>3. \/ Alien /\ ~d.ok
      \/ /\ pending \in DOMAIN intended
         /\ \/ d.ok /\ d.code = intended[pending].code /\ d.fields = intended[pending].fields
            \/ /\ ~d.ok
               /\ TooLarge(asked[pending].type, Means(intended[pending].code, intended[pending].fields))
  BY <1>1, <1>2, ReplyReads
<1>4. pending \in DOMAIN intended => IsMeant(intended[pending], asked[pending].type)
  BY <1>2 DEF Understood, Meant
<1> HIDE DEF d
<1>5. pending \in DOMAIN intended =>
        /\ intended[pending] = Means(intended[pending].code, intended[pending].fields)
        /\ asked[pending].type = 4353 => Typed(LoginLayout, intended[pending].fields)
  BY <1>4 DEF IsMeant, Means
<1> QED
  BY <1>3, <1>5 DEF d

LEMMA UserKept ==
  ASSUME PlanRight, AskedRight, CellsRight, UserRight, Understood, Replied, Step
  PROVE  UserRight'
<1>1. ASSUME NEW n, CutsAnswer(n) PROVE UserRight'
  <2> DEFINE msg == There(Outbound, 1)
             d == Decoded(asked[pending].type, msg)
  <2>1. HeldAt(Outbound, 1) /\ Settles(msg)
    BY <1>1 DEF CutsAnswer
  <2>2. CASE UNCHANGED user
    BY <2>2 DEF UserRight
  <2>3. CASE pending # 0 /\ msg.id = pending /\ asked[pending].type = 4353 /\ d.ok /\ user' = d.fields
    <3>1. Typed(LoginLayout, d.fields)
      BY <2>1, <2>3, AnswerSays
    <3> QED
      BY <2>3, <3>1 DEF UserRight
  <2> QED
    BY <2>1, <2>2, <2>3 DEF Settles
<1>2. ASSUME UNCHANGED user PROVE UserRight'
  BY <1>2 DEF UserRight
<1> QED
  BY <1>1, <1>2
     DEF Step, Makes, AlienAsks, ServerRead, PullsMessage, PullsNone, Pulls, Handles, RequestTimeout, SendFrame,
         AlienReplies, ClientRead, WaitForMore, CutsFrame, TakePacket, CutsBad, clientVars

-------------------------------------------------------------------------------
(* What the user is told. *)
Right(x, r, i, meant, alien) ==
  /\ x.kind = "answer" => i \in DOMAIN meant /\ meant[i] = Means(x.code, x.fields)
  /\ x.kind = "format" => alien \/ (i \in DOMAIN meant /\ TooLarge(r.type, meant[i]))
  /\ x.kind = "tooLong" => TooLong(r.type, r.fields)
AllRight == \A i \in DOMAIN reports : Right(reports[i], asked[i], i, intended, Alien)

LEMMA AllRightIs == AllRight => AnswerMatchesRequest
<1> SUFFICES ASSUME AllRight, NEW i \in DOMAIN reports
             PROVE  CASE reports[i].kind = "answer" ->
                           /\ i \in DOMAIN intended
                           /\ intended[i] = [code |-> reports[i].code, fields |-> reports[i].fields]
                      [] reports[i].kind = "format" ->
                           \/ Plans[plan].toClient # {} /\ aliens > 0
                           \/ i \in DOMAIN intended /\ TooLarge(asked[i].type, intended[i])
                      [] reports[i].kind = "tooLong" ->
                           TooLong(asked[i].type, asked[i].fields)
                      [] OTHER -> TRUE
  BY DEF AnswerMatchesRequest
<1>1. Right(reports[i], asked[i], i, intended, Alien)
  BY DEF AllRight
<1> QED
  BY <1>1 DEF Right, Alien, Means

LEMMA RightStays ==
  ASSUME NEW x, NEW r, NEW i, NEW meant, NEW alien, Right(x, r, i, meant, alien),
         NEW more, NEW aliensToo, alien => aliensToo,
         i \in DOMAIN meant => i \in DOMAIN more /\ more[i] = meant[i]
  PROVE  Right(x, r, i, more, aliensToo)
BY DEF Right

LEMMA AllRightKept ==
  ASSUME PlanRight, AskedRight, CellsRight, Requested, Once, Understood, Replied, Reporting, AllRight, Step,
         \A n : CutsBad(n) => Alien
  PROVE  AllRight'
<1>1. /\ plan' = plan /\ (Alien => Alien') /\ DOMAIN reports \subseteq 1 .. Len(asked)
      /\ \A i \in 1 .. Len(asked) : asked'[i] = asked[i]
      /\ pending # 0 => pending \notin DOMAIN reports
  BY PlanStays, AlienStays, AskedGrows DEF Reporting
<1>2. asked \in Seq(Request) /\ Len(asked) \in Nat /\ pending \in 0 .. Len(asked) /\ Len(asked) <= Limit(plan)
      /\ Limit(plan) \in Nat
  BY LimitRight
<1>3. ASSUME NEW i \in DOMAIN reports,
             i \in DOMAIN intended => i \in DOMAIN intended' /\ intended'[i] = intended[i]
      PROVE  Right(reports[i], asked'[i], i, intended', Alien')
  <2>1. Right(reports[i], asked[i], i, intended, Alien) /\ asked'[i] = asked[i]
    BY <1>1 DEF AllRight
  <2> QED
    BY <1>1, <1>3, <2>1, RightStays
<1> DEFINE Now == \A i \in DOMAIN reports' : Right(reports'[i], asked'[i], i, intended', Alien')
<1>4. ASSUME UNCHANGED <<reports, intended>> PROVE Now
  BY <1>3, <1>4
<1>5. ASSUME UNCHANGED intended, NEW j, NEW x, reports' = With(reports, j, x),
             Right(x, asked'[j], j, intended', Alien'), j \notin DOMAIN reports
      PROVE  Now
  <2>1. /\ DOMAIN reports' = DOMAIN reports \cup {j} /\ reports'[j] = x
        /\ \A i \in DOMAIN reports : reports'[i] = reports[i]
    BY <1>5 DEF With
  <2>2. ASSUME NEW i \in DOMAIN reports' PROVE Right(reports'[i], asked'[i], i, intended', Alien')
    <3>1. CASE i = j
      BY <1>5, <2>1, <3>1
    <3>2. CASE i # j
      BY <1>3, <1>5, <2>1, <2>2, <3>2
    <3> QED
      BY <3>1, <3>2
  <2> QED
    BY <2>2
<1>6. ASSUME NEW r, Makes(r) PROVE Now
  <2>1. r \in Request /\ asked' = Append(asked, r) /\ UNCHANGED intended /\ pending = 0
    BY <1>6 DEF Makes, serverVars
  <2>2. asked'[Len(asked) + 1] = r
    BY <1>2, <2>1, Appended
  <2>3. CASE AskedTooLong(r)
    <3> DEFINE x == [kind |-> "tooLong", code |-> 0, fields |-> <<>>]
    <3>1. Right(x, asked'[Len(asked) + 1], Len(asked) + 1, intended', Alien')
      BY <2>2, <2>3 DEF AskedTooLong, Right
    <3>2. reports' = With(reports, Len(asked) + 1, x)
      BY <2>3 DEF AskedTooLong
    <3>3. Len(asked) + 1 \notin DOMAIN reports
      BY <1>1, <1>2
    <3> HIDE DEF x, Now
    <3> QED
      BY <1>5, <2>1, <3>1, <3>2, <3>3
  <2>4. ASSUME NEW body, AskedFor(r, body) PROVE Now
    BY <1>4, <2>1, <2>4 DEF AskedFor
  <2> HIDE DEF Now
  <2> QED
    BY <1>6, <2>3, <2>4 DEF Makes
<1>7. ASSUME NEW msg, NEW a, Handles(msg, a) PROVE Now
  <2>1. /\ msg \in tasks /\ UNCHANGED reports
        /\ intended' = With(intended, msg.id, Means(a.code, a.fields))
    BY <1>7 DEF Handles, clientVars
  <2>2. ASSUME NEW i \in DOMAIN reports, i \in DOMAIN intended
        PROVE  i \in DOMAIN intended' /\ intended'[i] = intended[i]
    <3>1. i \in 1 .. Limit(plan)
      BY <1>1, <1>2, <2>2
    <3>2. i # msg.id
      BY <2>1, <2>2, <3>1, FirstAnswer
    <3> QED
      BY <2>1, <2>2, <3>2 DEF With
  <2> QED
    BY <1>3, <2>1, <2>2
<1>8. ASSUME RequestTimeout PROVE Now
  <2> DEFINE x == [kind |-> "timeout", code |-> 0, fields |-> <<>>]
  <2>1. pending # 0 /\ reports' = With(reports, pending, x) /\ UNCHANGED intended
    BY <1>8 DEF RequestTimeout, Report, serverVars
  <2>2. Right(x, asked'[pending], pending, intended', Alien')
    BY DEF Right
  <2> HIDE DEF x, Now
  <2> QED
    BY <1>1, <1>5, <2>1, <2>2
<1>10. ASSUME NEW n, CutsAnswer(n) PROVE Now
  <2> DEFINE msg == There(Outbound, 1)
             d == Decoded(asked[pending].type, msg)
             x == [kind |-> IF d.ok THEN "answer" ELSE "format", code |-> d.code, fields |-> d.fields]
  <2>1. HeldAt(Outbound, 1) /\ Settles(msg) /\ UNCHANGED <<intended, asked, plan, aliens>>
    BY <1>10 DEF CutsAnswer, Cuts, serverVars
  <2>2. CASE pending # 0 /\ msg.id = pending /\ reports' = With(reports, pending, x)
    <3>1. Right(x, asked'[pending], pending, intended', Alien')
      <4>1. \/ Alien /\ ~d.ok
            \/ /\ pending \in DOMAIN intended
               /\ intended[pending] = Means(intended[pending].code, intended[pending].fields)
               /\ \/ d.ok /\ d.code = intended[pending].code /\ d.fields = intended[pending].fields
                  \/ ~d.ok /\ TooLarge(asked[pending].type, intended[pending])
        BY <2>1, <2>2, AnswerSays
      <4> HIDE DEF d, msg
      <4>2. x.kind = (IF d.ok THEN "answer" ELSE "format") /\ x.code = d.code /\ x.fields = d.fields
        OBVIOUS
      <4> HIDE DEF x
      <4>3. Alien' = Alien
        BY <2>1 DEF Alien
      <4>4. CASE Alien /\ ~d.ok
        BY <2>1, <4>2, <4>3, <4>4 DEF Right
      <4>5. CASE /\ pending \in DOMAIN intended
                 /\ intended[pending] = Means(intended[pending].code, intended[pending].fields)
                 /\ d.ok /\ d.code = intended[pending].code /\ d.fields = intended[pending].fields
        BY <2>1, <4>2, <4>3, <4>5 DEF Right
      <4>6. CASE pending \in DOMAIN intended /\ ~d.ok /\ TooLarge(asked[pending].type, intended[pending])
        BY <2>1, <4>2, <4>3, <4>6 DEF Right
      <4> QED
        BY <4>1, <4>4, <4>5, <4>6
    <3> HIDE DEF x, d, msg, Now
    <3> QED
      BY <1>1, <1>5, <2>1, <2>2, <3>1
  <2>3. CASE UNCHANGED reports
    BY <1>4, <2>1, <2>3
  <2> QED
    BY <2>1, <2>2, <2>3 DEF Settles, Report
<1>11. ASSUME NEW n, CutsBad(n), Alien PROVE Now
  <2>1. UNCHANGED <<intended, asked>>
    BY <1>11 DEF CutsBad, Cuts, serverVars
  <2>2. CASE pending = 0
    BY <1>4, <1>11, <2>1, <2>2 DEF CutsBad
  <2>3. CASE pending # 0
    <3> DEFINE x == [kind |-> "format", code |-> 0, fields |-> <<>>]
    <3>1. reports' = With(reports, pending, x)
      BY <1>11, <2>3 DEF CutsBad, Report
    <3>2. Right(x, asked'[pending], pending, intended', Alien')
      BY <1>1, <1>11 DEF Right
    <3> HIDE DEF x, Now
    <3> QED
      BY <1>1, <1>5, <2>1, <2>3, <3>1, <3>2
  <2> QED
    BY <2>2, <2>3
<1> HIDE DEF Now
<1>13. Now
  BY <1>4, <1>6, <1>7, <1>8, <1>10, <1>11
     DEF Step, AlienAsks, ServerRead, PullsMessage, PullsNone, Pulls, SendFrame, AlienReplies,
         ClientRead, WaitForMore, CutsFrame, TakePacket, Cuts, serverVars, clientVars
<1> QED
  BY <1>13 DEF Now, AllRight

-------------------------------------------------------------------------------
(* The cells towards the client are in step, unless another release answers  *)
(* in between, and what has been read and left waits for more.               *)
Waiting ==
  IF FrameLength > 0 THEN Len(receiveBuf) < FrameLength
  ELSE TryTakePacket(receiveBuf).status = "incomplete"
Aligned == ~Alien => Sync(Outbound) /\ (~receiving => Waiting)

LEMMA SyncHead ==
  ASSUME NEW b \in Seq(Nat), Sync(b), b # <<>>
  PROVE  /\ Starts(b, 1) /\ Sized(b, 1) /\ ItemLen(b, 1) \in Nat /\ ItemLen(b, 1) >= 3
         /\ ItemLen(b, 1) \in 0 .. Len(b)
         /\ \A l \in 2 .. ItemLen(b, 1) : ~Starts(b, l)
         /\ Sync(Drop(b, ItemLen(b, 1)))
<1>2. Starts(b, 0 + 1) /\ Starts(b, 1)
  <2>1. 0 + 1 = 1
    OBVIOUS
  <2> QED
    BY <2>1 DEF Sync
<1>3. /\ ItemLen(b, 0 + 1) \in Nat /\ ItemLen(b, 0 + 1) >= 3 /\ Sized(b, 0 + 1)
      /\ 0 + ItemLen(b, 0 + 1) \in 0 .. Len(b)
      /\ \A l \in 0 + 2 .. 0 + ItemLen(b, 0 + 1) : ~Starts(b, l)
      /\ Sync(Drop(b, 0 + ItemLen(b, 0 + 1)))
  BY <1>2, SyncAfter
<1>4. 0 + 1 = 1 /\ 0 + 2 = 2 /\ 1 + 1 = 2 /\ \A n \in Nat : 0 + n = n
  OBVIOUS
<1> QED
  BY <1>2, <1>3, <1>4

LEMMA LengthIsNoHeader ==
  ASSUME NEW c \in 5 .. 5 + MaxData
  PROVE  ~IsHeader(c) /\ c # Magic /\ c \in Nat
<1>1. c \in Nat /\ c < TypeCell(4097, 0)
  BY LimitIs
<1> QED
  BY <1>1, SmallIsPlain DEF Plain

(* What the client cuts off is a whole item, and never a bad header. *)
LEMMA CutIsItem ==
  ASSUME CellsRight, Sync(Outbound), NEW n, CutsFrame(n) \/ CutsAnswer(n)
  PROVE  /\ Starts(Outbound, 1) /\ n = ItemLen(Outbound, 1) /\ Sync(Outbound')
         /\ Outbound' = Drop(Outbound, n) /\ n \in 0 .. Len(Outbound)
         /\ \A l \in 2 .. n : ~Starts(Outbound, l)
<1>1. Cuts(n)
  BY DEF CutsFrame, CutsAnswer
<1>2. Outbound' = Drop(Outbound, n) /\ n \in 0 .. Len(Outbound) /\ Outbound \in Seq(Nat)
  BY <1>1, OutboundCut, WholeCells
<1>3. Outbound # <<>>
  <2>1. Len(Outbound) \in Nat /\ Len(receiveBuf) \in Nat /\ Len(receiveBuf) <= Len(Outbound)
    BY ClientFront
  <2>2. n \in 1 .. Len(receiveBuf)
    BY <1>1 DEF Cuts
  <2>3. Len(Outbound) >= 1
    BY <2>1, <2>2
  <2> QED
    BY <2>3
<1>4. n = ItemLen(Outbound, 1)
  <2>1. CASE CutsFrame(n)
    <3>1. n = Outbound[1] /\ n \in 5 .. 5 + MaxData
      BY <2>1 DEF CutsFrame
    <3>2. ~IsHeader(Outbound[1])
      BY <3>1, LengthIsNoHeader
    <3> QED
      BY <3>1, <3>2 DEF ItemLen
  <2>2. CASE CutsAnswer(n)
    <3>1. n = 3 + Outbound[2] /\ IsHeader(Outbound[1])
      BY <2>2 DEF CutsAnswer
    <3>2. 1 + 1 = 2
      OBVIOUS
    <3> QED
      BY <3>1, <3>2 DEF ItemLen
  <2> QED
    BY <2>1, <2>2
<1> QED
  BY <1>2, <1>3, <1>4, SyncHead

LEMMA BadIsAlien ==
  ASSUME CellsRight, Aligned, NEW n, CutsBad(n)
  PROVE  Alien
<1> SUFFICES ASSUME ~Alien PROVE FALSE
  OBVIOUS
<1>1. Sync(Outbound) /\ Outbound \in Seq(Nat)
  BY WholeCells DEF Aligned
<1>2. /\ n >= 3 /\ n \in 1 .. Len(receiveBuf)
      /\ IsHeader(Outbound[1]) => Outbound[2] > MaxBody
      /\ ~(Outbound[1] \in 5 .. 5 + MaxData /\ Outbound[2] = Magic)
  BY DEF CutsBad, Cuts
<1>3. Len(Outbound) \in Nat /\ Len(Outbound) >= 3
  <2>1. Len(Outbound) \in Nat /\ Len(receiveBuf) \in Nat /\ Len(receiveBuf) <= Len(Outbound)
    BY ClientFront
  <2> QED
    BY <1>2, <2>1
<1>4. Starts(Outbound, 1) /\ Sized(Outbound, 1)
  <2>1. Outbound # <<>>
    BY <1>3
  <2> QED
    BY <1>1, <2>1, SyncHead
<1>5. 1 + 1 = 2
  OBVIOUS
<1>6. CASE IsHeader(Outbound[1])
  <2>1. Outbound[2] <= MaxBody /\ Outbound[2] > MaxBody
    BY <1>2, <1>4, <1>5, <1>6 DEF Sized
  <2>2. Outbound[2] \in Nat
    BY <1>1, <1>3
  <2> QED
    BY <2>1, <2>2, BodyLimit
<1>7. CASE ~IsHeader(Outbound[1])
  BY <1>2, <1>4, <1>5, <1>7 DEF Sized, Starts
<1> QED
  BY <1>6, <1>7

LEMMA AlignedKept ==
  ASSUME PlanRight, AskedRight, CellsRight, Requested, Aligned, Step
  PROVE  Aligned'
<1> SUFFICES ASSUME ~Alien' PROVE Sync(Outbound') /\ (~receiving' => Waiting')
  BY DEF Aligned
<1>1. /\ ~Alien /\ Sync(Outbound) /\ (~receiving => Waiting)
  BY AlienStays DEF Aligned
<1>2. Outbound \in Seq(Nat)
  BY WholeCells
<1> DEFINE Now == Sync(Outbound') /\ (~receiving' => Waiting')
<1>3. ASSUME NEW msg, NEW a, Handles(msg, a) PROVE Now
  <2>1. UNCHANGED <<receiveBuf, receiving>>
    BY <1>3 DEF Handles, clientVars
  <2>2. Waiting' = Waiting
    BY <2>1 DEF Waiting, FrameLength
  <2>3. Sync(Outbound')
    BY <1>1, <1>2, <1>3, AnswerAdds, SyncJoined
  <2> QED
    BY <1>1, <2>1, <2>2, <2>3
<1>4. ASSUME SendFrame PROVE Now
  <2>1. /\ Outbound' = Outbound \o WireOf(NextFrame) /\ WireOf(NextFrame) \in Seq(Nat)
        /\ Frame(NextFrame) /\ UNCHANGED <<receiveBuf, receiving>>
    BY <1>4, FrameAdds
  <2>2. Waiting' = Waiting
    BY <2>1 DEF Waiting, FrameLength
  <2>3. Sync(WireOf(NextFrame)) /\ WireOf(NextFrame)[1] # Magic
    BY <2>1, WireItem
  <2>4. Sync(Outbound')
    BY <1>1, <1>2, <2>1, <2>3, SyncJoined
  <2> QED
    BY <1>1, <2>1, <2>2, <2>4
<1>5. ASSUME NEW cells \in Plans[plan].toClient, AlienReplies(cells) PROVE Now
  BY <1>5, AlienAdds
<1>6. ASSUME NEW n \in 1 .. Len(toClient), ClientRead(n) PROVE Now
  <2>1. Outbound' = Outbound /\ receiving' = TRUE
    BY <1>6, ClientReads DEF ClientRead
  <2> QED
    BY <1>1, <2>1
<1>7. ASSUME WaitForMore PROVE Now
  <2>1. UNCHANGED <<receiveBuf, toClient>> /\ Waiting
    BY <1>7 DEF WaitForMore, Waiting
  <2>2. Waiting' = Waiting /\ Outbound' = Outbound
    BY <2>1 DEF Waiting, FrameLength, Outbound
  <2> QED
    BY <1>1, <2>1, <2>2
<1>8. ASSUME NEW n, CutsFrame(n) \/ CutsAnswer(n) PROVE Now
  <2>1. Sync(Outbound')
    BY <1>1, <1>8, CutIsItem
  <2>2. receiving /\ UNCHANGED receiving
    BY <1>8 DEF CutsFrame, CutsAnswer, Cuts
  <2> QED
    BY <2>1, <2>2
<1>9. ASSUME NEW n, CutsBad(n) PROVE Now
  BY <1>1, <1>9, BadIsAlien
<1>10. ASSUME UNCHANGED <<receiveBuf, toClient, receiving>> PROVE Now
  <2>1. Waiting' = Waiting /\ Outbound' = Outbound
    BY <1>10 DEF Waiting, FrameLength, Outbound
  <2> QED
    BY <1>1, <1>10, <2>1
<1> HIDE DEF Now
<1>11. Now
  BY <1>3, <1>4, <1>5, <1>6, <1>7, <1>8, <1>9, <1>10
     DEF Step, Makes, AlienAsks, ServerRead, PullsMessage, PullsNone, Pulls, RequestTimeout, TakePacket, clientVars
<1> QED
  BY <1>11 DEF Now

-------------------------------------------------------------------------------
(* A frame stands where its magic does: nothing else has one.                *)
Marks(B, s) == s \in Nat /\ s + 2 <= Len(B) /\ B[s + 2] = Magic
StandsAs(B, s, f) ==
  /\ s + 5 <= Len(B) /\ B[s + 1] \in 5 .. 5 + MaxData /\ s + B[s + 1] <= Len(B)
  /\ B[s + 1] = 5 + Len(f.packet.data) /\ B[s + 2] = Magic /\ B[s + 3] = f.version
  /\ B[s + 4] = f.packet.pts /\ B[s + 5] = Len(f.packet.data)
  /\ \A i \in 1 .. Len(f.packet.data) : B[s + (5 + i)] = f.packet.data[i]

LEMMA StandsIs ==
  ASSUME NEW f, Frame(f), NEW B \in Seq(Nat), NEW s \in Nat, Contains(B, s, WireOf(f))
  PROVE  StandsAs(B, s, f) /\ Marks(B, s) /\ Len(f.packet.data) \in Nat
<1> DEFINE w == WireOf(f)
<1>1. IsWire(w, f) /\ Len(f.packet.data) \in 0 .. MaxData
  BY WireIs
<1>2. PICK n \in 0 .. MaxData : n = Len(f.packet.data) /\ n \in Nat
  BY <1>1, LimitIs
<1>3. Len(w) = 5 + n
  BY <1>1, <1>2 DEF IsWire
<1>4. w[1] = 5 + n /\ w[2] = Magic /\ w[3] = f.version /\ w[4] = f.packet.pts /\ w[5] = n
  BY <1>1, <1>2, <1>3 DEF IsWire
<1>5. \A i \in 1 .. n : w[5 + i] = f.packet.data[i]
  BY <1>1, <1>2 DEF IsWire
<1> HIDE DEF w
<1>6. s + (5 + n) <= Len(B) /\ \A i \in 1 .. 5 + n : B[s + i] = w[i]
  BY <1>3 DEF Contains, w
<1>7. /\ 1 \in 1 .. 5 + n /\ 2 \in 1 .. 5 + n /\ 3 \in 1 .. 5 + n /\ 4 \in 1 .. 5 + n /\ 5 \in 1 .. 5 + n
      /\ 5 + n \in 5 .. 5 + MaxData
      /\ (\A i \in 1 .. n : 5 + i \in 1 .. 5 + n)
  <2>1. PICK max \in Nat : max = MaxData
    BY LimitIs
  <2>2. n \in Nat /\ n <= max
    BY <1>2, <2>1
  <2>3. 5 + n \in 5 .. 5 + max
    BY <2>2
  <2>4. /\ 1 \in 1 .. 5 + n /\ 2 \in 1 .. 5 + n /\ 3 \in 1 .. 5 + n /\ 4 \in 1 .. 5 + n /\ 5 \in 1 .. 5 + n
    BY <2>2
  <2>5. \A i \in 1 .. n : 5 + i \in 1 .. 5 + n
    BY <2>2
  <2> QED
    BY <2>1, <2>3, <2>4, <2>5
<1>8. PICK l \in Nat : l = Len(B)
  BY LenProperties, Zenon
<1>9. s + 5 <= l /\ s + 2 <= l
  BY <1>2, <1>6, <1>8
<1>10. /\ B[s + 1] = 5 + n /\ B[s + 2] = Magic /\ B[s + 3] = f.version /\ B[s + 4] = f.packet.pts
       /\ B[s + 5] = n
  BY <1>4, <1>6, <1>7
<1>11. \A i \in 1 .. n : B[s + (5 + i)] = f.packet.data[i]
  BY <1>5, <1>6, <1>7
<1> QED
  BY <1>2, <1>6, <1>7, <1>8, <1>9, <1>10, <1>11 DEF StandsAs, Marks

LEMMA OwnIsThere ==
  ASSUME NEW f, Frame(f), NEW B \in Seq(Nat), NEW s \in Nat, StandsAs(B, s, f), f.version = Version
  PROVE  FrameThere(B, s)
<1>1. Len(f.packet.data) \in 0 .. MaxData
  BY WireIs
<1>2. PICK n \in 0 .. MaxData : n = Len(f.packet.data) /\ n \in Nat
  BY <1>1, LimitIs
<1>3. B[s + 1] = 5 + n /\ B[s + 5] = n
  BY <1>2 DEF StandsAs
<1>4. n <= 5 + n - 5
  BY <1>2
<1>5. B[s + 5] <= B[s + 1] - 5
  BY <1>3, <1>4
<1> QED
  BY <1>5 DEF StandsAs, FrameThere

LEMMA PacketIs ==
  ASSUME NEW f, Frame(f), NEW B \in Seq(Nat), NEW s \in Nat, StandsAs(B, s, f)
  PROVE  PacketThere(B, s) = f.packet
<1>1. Len(f.packet.data) \in 0 .. MaxData
  BY WireIs
<1>2. PICK n \in 0 .. MaxData : n = Len(f.packet.data) /\ n \in Nat
  BY <1>1, LimitIs
<1>3. PICK l \in Nat : l = Len(B)
  BY LenProperties, Zenon
<1>4. /\ B[s + 1] = 5 + n /\ B[s + 5] = n /\ s + B[s + 1] <= l /\ B[s + 4] = f.packet.pts
      /\ \A i \in 1 .. n : B[s + (5 + i)] = f.packet.data[i]
  BY <1>2, <1>3 DEF StandsAs
<1>5. s + (5 + n) <= l
  BY <1>4
<1> DEFINE data == f.packet.data
<1>6. data \in Seq(D) /\ f.packet = [pts |-> f.packet.pts, data |-> data]
  BY DEF Frame, D
<1>7. data \in Seq(Nat)
  <2>1. D \subseteq Nat
    BY BaseIs DEF D
  <2> QED
    BY <1>6, <2>1, SeqMonotonic
<1>8. PICK at \in Nat \ {0} : at = s + 6
  OBVIOUS
<1>9. at - 1 + n <= l /\ at + n - 1 = s + n + 5
  <2>1. n \in Nat
    BY <1>2
  <2>2. at + n - 1 = s + n + 5
    BY <1>8, <2>1
  <2>3. at - 1 + n <= l
    BY <1>3, <1>5, <1>8, <2>1
  <2> QED
    BY <2>2, <2>3
<1>10. ASSUME NEW i \in 1 .. n PROVE B[at + i - 1] = data[i]
  <2>1. at + i - 1 = s + (5 + i)
    BY <1>8
  <2> QED
    BY <1>4, <2>1
<1> HIDE DEF data
<1>11. SubSeq(B, at, at + Len(data) - 1) = data
  <2>1. Len(data) = n
    BY <1>2 DEF data
  <2>2. at - 1 + Len(data) <= Len(B) /\ \A i \in 1 .. Len(data) : B[at + i - 1] = data[i]
    BY <1>3, <1>9, <1>10, <2>1
  <2> QED
    BY <1>7, <2>2, CutOut
<1>12. SubSeq(B, s + 6, s + B[s + 5] + 5) = data
  <2>1. at + Len(data) - 1 = s + n + 5
    BY <1>2, <1>9 DEF data
  <2> QED
    BY <1>4, <1>8, <1>11, <2>1
<1> QED
  BY <1>4, <1>6, <1>12 DEF PacketThere

-------------------------------------------------------------------------------
(* Frames that are known, wherever there is a mark. *)
AllFrames(fs, n) == n \in Nat /\ \A j \in 1 .. n : Frame(fs[j])
Stands(B, s, fs, n) == \E j \in 1 .. n : Contains(B, s, WireOf(fs[j]))
FramesStand(B, fs, n) == \A s : Marks(B, s) => Stands(B, s, fs, n)
SameMark(b, t, a, s) == Marks(b, t) /\ b[t + 4] = a[s + 4]

LEMMA ContainsTwice ==
  ASSUME NEW a \in Seq(Nat), NEW b \in Seq(Nat), NEW d \in Nat, Contains(b, d, a),
         NEW s \in Nat, NEW w \in Seq(Nat), Contains(a, s, w)
  PROVE  Contains(b, d + s, w)
<1>1. PICK m \in Nat : m = Len(w)
  BY LenProperties, Zenon
<1>2. PICK l \in Nat : l = Len(a)
  BY LenProperties, Zenon
<1>3. PICK k \in Nat : k = Len(b)
  BY LenProperties, Zenon
<1>4. s + m <= l /\ \A i \in 1 .. m : a[s + i] = w[i]
  BY <1>1, <1>2 DEF Contains
<1>5. d + l <= k /\ \A i \in 1 .. l : b[d + i] = a[i]
  BY <1>2, <1>3 DEF Contains
<1>6. ASSUME NEW i \in 1 .. m PROVE b[d + s + i] = w[i]
  <2>1. PICK x \in 1 .. l : x = s + i
    BY <1>4
  <2>2. d + s + i = d + x
    BY <2>1
  <2>3. b[d + x] = a[x] /\ a[s + i] = w[i]
    BY <1>4, <1>5
  <2> QED
    BY <2>1, <2>2, <2>3
<1>7. d + s + m <= k
  BY <1>4, <1>5
<1> QED
  BY <1>1, <1>3, <1>6, <1>7 DEF Contains

(* ... and in a part of the cells, if the frame reaches no further back. *)
LEMMA ContainsBack ==
  ASSUME NEW a \in Seq(Nat), NEW b \in Seq(Nat), NEW d \in Nat, Contains(b, d, a), d + Len(a) = Len(b),
         NEW s \in Nat, NEW w \in Seq(Nat), Contains(b, d + s, w)
  PROVE  Contains(a, s, w)
<1>1. PICK m \in Nat : m = Len(w)
  BY LenProperties, Zenon
<1>2. PICK l \in Nat : l = Len(a)
  BY LenProperties, Zenon
<1>3. PICK k \in Nat : k = Len(b)
  BY LenProperties, Zenon
<1>4. d + s + m <= k /\ \A i \in 1 .. m : b[d + s + i] = w[i]
  BY <1>1, <1>3 DEF Contains
<1>5. d + l = k /\ \A i \in 1 .. l : b[d + i] = a[i]
  BY <1>2, <1>3 DEF Contains
<1>6. s + m <= l
  BY <1>4, <1>5
<1>7. ASSUME NEW i \in 1 .. m PROVE a[s + i] = w[i]
  <2>1. PICK x \in 1 .. l : x = s + i
    BY <1>6
  <2>2. d + s + i = d + x
    BY <2>1
  <2>3. b[d + x] = a[x] /\ b[d + s + i] = w[i]
    BY <1>4, <1>5
  <2> QED
    BY <2>1, <2>2, <2>3
<1> QED
  BY <1>1, <1>2, <1>6, <1>7 DEF Contains

LEMMA StandIs ==
  ASSUME NEW fs, NEW n, AllFrames(fs, n), NEW B \in Seq(Nat), NEW s \in Nat, Stands(B, s, fs, n)
  PROVE  \E j \in 1 .. n : /\ Frame(fs[j]) /\ WireOf(fs[j]) \in Seq(Nat) /\ Contains(B, s, WireOf(fs[j]))
                           /\ StandsAs(B, s, fs[j]) /\ Marks(B, s)
<1>1. PICK j \in 1 .. n : Contains(B, s, WireOf(fs[j]))
  BY DEF Stands
<1>2. Frame(fs[j])
  BY DEF AllFrames
<1>3. WireOf(fs[j]) \in Seq(Nat)
  BY <1>2, WireItem
<1>4. StandsAs(B, s, fs[j]) /\ Marks(B, s)
  BY <1>1, <1>2, StandsIs
<1> QED
  BY <1>1, <1>2, <1>3, <1>4

LEMMA MarkMoves ==
  ASSUME NEW fs, NEW n, AllFrames(fs, n), NEW a \in Seq(Nat), NEW b \in Seq(Nat), NEW d \in Nat,
         Contains(b, d, a), NEW s, Marks(a, s), Stands(a, s, fs, n)
  PROVE  SameMark(b, d + s, a, s) /\ Stands(b, d + s, fs, n)
<1>1. s \in Nat /\ d + s \in Nat
  BY DEF Marks
<1>2. PICK j \in 1 .. n : /\ Frame(fs[j]) /\ WireOf(fs[j]) \in Seq(Nat) /\ Contains(a, s, WireOf(fs[j]))
                          /\ StandsAs(a, s, fs[j])
  BY <1>1, StandIs
<1>3. Contains(b, d + s, WireOf(fs[j]))
  BY <1>1, <1>2, ContainsTwice
<1>4. StandsAs(b, d + s, fs[j]) /\ Marks(b, d + s)
  BY <1>1, <1>2, <1>3, StandsIs
<1>5. b[d + s + 4] = fs[j].packet.pts /\ a[s + 4] = fs[j].packet.pts
  BY <1>2, <1>4 DEF StandsAs
<1> QED
  BY <1>3, <1>4, <1>5 DEF SameMark, Stands

LEMMA MarkMovesBack ==
  ASSUME NEW fs, NEW n, AllFrames(fs, n), NEW a \in Seq(Nat), NEW b \in Seq(Nat), NEW d \in Nat,
         Contains(b, d, a), d + Len(a) = Len(b), NEW s \in Nat, Marks(b, d + s), Stands(b, d + s, fs, n)
  PROVE  SameMark(b, d + s, a, s) /\ Marks(a, s) /\ Stands(a, s, fs, n)
<1>1. d + s \in Nat
  OBVIOUS
<1>2. PICK j \in 1 .. n : /\ Frame(fs[j]) /\ WireOf(fs[j]) \in Seq(Nat) /\ Contains(b, d + s, WireOf(fs[j]))
                          /\ StandsAs(b, d + s, fs[j])
  BY <1>1, StandIs
<1>3. Contains(a, s, WireOf(fs[j]))
  BY <1>2, ContainsBack
<1>4. StandsAs(a, s, fs[j]) /\ Marks(a, s)
  BY <1>2, <1>3, StandsIs
<1>5. b[d + s + 4] = fs[j].packet.pts /\ a[s + 4] = fs[j].packet.pts
  BY <1>2, <1>4 DEF StandsAs
<1> QED
  BY <1>3, <1>4, <1>5 DEF SameMark, Stands

-------------------------------------------------------------------------------
(* The frames in some cells by their pts, and the order of those.            *)
Stamped(B, p) == \E s : Marks(B, s) /\ B[s + 4] = p
Below(x, B) == \A p : Stamped(B, p) => x < p
Before(A, B) == \A p : Stamped(A, p) => Below(p, B)
Ordered(B) == \A s, t : Marks(B, s) /\ Marks(B, t) /\ s < t => B[s + 4] < B[t + 4]

(* A mark of joined cells is one of either part. *)
IsFirst(b, a, s) == Marks(a, s) /\ b[s + 4] = a[s + 4]
IsSecond(b, c, l, s) == \E t : Marks(c, t) /\ s = l + t /\ b[s + 4] = c[t + 4]

LEMMA MarkFrom ==
  ASSUME NEW fs, NEW n, AllFrames(fs, n), NEW a \in Seq(Nat), NEW c \in Seq(Nat),
         FramesStand(a, fs, n), FramesStand(c, fs, n), c # <<>> => c[1] # Magic,
         NEW b, b = a \o c, NEW s, Marks(b, s)
  PROVE  /\ IsFirst(b, a, s) \/ IsSecond(b, c, Len(a), s)
         /\ Stands(b, s, fs, n)
<1>1. /\ b \in Seq(Nat) /\ Contains(b, 0, a) /\ Contains(b, Len(a), c)
  BY JoinedContains
<1>2. PICK l \in Nat : l = Len(a)
  BY LenProperties, Zenon
<1>3. PICK m \in Nat : m = Len(c)
  BY LenProperties, Zenon
<1>4. Len(b) = l + m
  BY <1>2, <1>3, JoinedContains
<1>5. Contains(b, l, c)
  BY <1>1, <1>2
<1>7. s \in Nat /\ s + 2 <= l + m /\ b[s + 2] = Magic
  BY <1>4 DEF Marks
<1>8. CASE s + 2 <= l
  <2>1. s + 2 \in 1 .. l
    BY <1>7, <1>8
  <2>2. PICK x \in 1 .. l : x = s + 2
    BY <2>1
  <2>3. b[x] = a[x]
    <3>1. b[0 + x] = a[x]
      BY <1>1, <1>2 DEF Contains
    <3>2. 0 + x = x
      OBVIOUS
    <3> QED
      BY <3>1, <3>2
  <2>4. Marks(a, s)
    BY <1>2, <1>7, <1>8, <2>2, <2>3 DEF Marks
  <2>5. Stands(a, s, fs, n)
    BY <2>4 DEF FramesStand
  <2>6. SameMark(b, 0 + s, a, s) /\ Stands(b, 0 + s, fs, n) /\ 0 \in Nat
    BY <1>1, <2>4, <2>5, MarkMoves
  <2>7. 0 + s = s
    BY <1>7
  <2> QED
    BY <2>4, <2>6, <2>7 DEF SameMark, IsFirst
<1>9. CASE s + 2 = l + 1
  <2>1. m >= 1 /\ 1 \in 1 .. m
    BY <1>7, <1>9
  <2>2. b[l + 1] = c[1]
    BY <1>3, <1>5, <2>1 DEF Contains
  <2>3. c # <<>>
    BY <1>3, <2>1
  <2> QED
    BY <1>7, <1>9, <2>2, <2>3
<1>10. CASE s + 2 > l + 1
  <2>1. PICK t \in Nat : s = l + t /\ t + 2 <= m
    <3>1. s - l \in Nat /\ s = l + (s - l) /\ (s - l) + 2 <= m
      BY <1>7, <1>10
    <3> QED
      BY <3>1
  <2>2. PICK x \in 1 .. m : x = t + 2
    BY <2>1
  <2>3. b[l + x] = c[x]
    BY <1>3, <1>5 DEF Contains
  <2>4. l + x = s + 2
    BY <2>1, <2>2
  <2>5. Marks(c, t)
    BY <1>3, <1>7, <2>1, <2>2, <2>3, <2>4 DEF Marks
  <2>6. Stands(c, t, fs, n)
    BY <2>5 DEF FramesStand
  <2>7. SameMark(b, l + t, c, t) /\ Stands(b, l + t, fs, n)
    BY <1>1, <1>5, <2>5, <2>6, MarkMoves
  <2> QED
    BY <1>2, <2>1, <2>5, <2>7 DEF SameMark, IsSecond
<1>11. s + 2 <= l \/ s + 2 = l + 1 \/ s + 2 > l + 1
  BY <1>7
<1> QED
  BY <1>8, <1>9, <1>10, <1>11

LEMMA JoinedStand ==
  ASSUME NEW fs, NEW n, AllFrames(fs, n), NEW a \in Seq(Nat), NEW c \in Seq(Nat),
         FramesStand(a, fs, n), FramesStand(c, fs, n), c # <<>> => c[1] # Magic
  PROVE  FramesStand(a \o c, fs, n)
<1> SUFFICES ASSUME NEW s, Marks(a \o c, s) PROVE Stands(a \o c, s, fs, n)
  BY DEF FramesStand
<1> QED
  BY MarkFrom

LEMMA JoinedStamped ==
  ASSUME NEW fs, NEW n, AllFrames(fs, n), NEW a \in Seq(Nat), NEW c \in Seq(Nat),
         FramesStand(a, fs, n), FramesStand(c, fs, n), c # <<>> => c[1] # Magic,
         NEW p
  PROVE  Stamped(a \o c, p) <=> Stamped(a, p) \/ Stamped(c, p)
<1>1. ASSUME Stamped(a \o c, p) PROVE Stamped(a, p) \/ Stamped(c, p)
  <2>1. PICK s : Marks(a \o c, s) /\ (a \o c)[s + 4] = p
    BY <1>1 DEF Stamped
  <2>2. PICK b : b = a \o c
    OBVIOUS
  <2>3. IsFirst(b, a, s) \/ IsSecond(b, c, Len(a), s)
    BY <2>1, <2>2, MarkFrom
  <2> QED
    BY <2>1, <2>2, <2>3 DEF Stamped, IsFirst, IsSecond
<1>2. /\ a \o c \in Seq(Nat) /\ Contains(a \o c, 0, a) /\ Contains(a \o c, Len(a), c) /\ Len(a) \in Nat
      /\ 0 \in Nat
  BY JoinedContains
<1>3. ASSUME Stamped(a, p) PROVE Stamped(a \o c, p)
  <2>1. PICK s : Marks(a, s) /\ a[s + 4] = p
    BY <1>3 DEF Stamped
  <2>2. Stands(a, s, fs, n)
    BY <2>1 DEF FramesStand
  <2>3. SameMark(a \o c, 0 + s, a, s)
    BY <1>2, <2>1, <2>2, MarkMoves
  <2> QED
    BY <2>1, <2>3 DEF SameMark, Stamped
<1>4. ASSUME Stamped(c, p) PROVE Stamped(a \o c, p)
  <2>1. PICK s : Marks(c, s) /\ c[s + 4] = p
    BY <1>4 DEF Stamped
  <2>2. Stands(c, s, fs, n)
    BY <2>1 DEF FramesStand
  <2>3. SameMark(a \o c, Len(a) + s, c, s)
    BY <1>2, <2>1, <2>2, MarkMoves
  <2> QED
    BY <2>1, <2>3 DEF SameMark, Stamped
<1> QED
  BY <1>1, <1>3, <1>4

LEMMA JoinedOrdered ==
  ASSUME NEW fs, NEW n, AllFrames(fs, n), NEW a \in Seq(Nat), NEW c \in Seq(Nat),
         FramesStand(a, fs, n), FramesStand(c, fs, n), c # <<>> => c[1] # Magic,
         Ordered(a), Ordered(c), Before(a, c)
  PROVE  Ordered(a \o c)
<1> DEFINE b == a \o c
<1> SUFFICES ASSUME NEW s, NEW t, Marks(b, s), Marks(b, t), s < t PROVE b[s + 4] < b[t + 4]
  BY DEF Ordered
<1>1. PICK l \in Nat : l = Len(a)
  BY LenProperties, Zenon
<1>2. IsFirst(b, a, s) \/ IsSecond(b, c, l, s)
  BY <1>1, MarkFrom
<1>3. IsFirst(b, a, t) \/ IsSecond(b, c, l, t)
  BY <1>1, MarkFrom
<1> HIDE DEF b
<1>4. ASSUME Marks(a, s), Marks(a, t), b[s + 4] = a[s + 4], b[t + 4] = a[t + 4]
      PROVE  b[s + 4] < b[t + 4]
  BY <1>4 DEF Ordered
<1>5. ASSUME Marks(a, s), b[s + 4] = a[s + 4],
             NEW x, Marks(c, x), b[t + 4] = c[x + 4]
      PROVE  b[s + 4] < b[t + 4]
  <2>1. Stamped(a, a[s + 4]) /\ Stamped(c, c[x + 4])
    BY <1>5 DEF Stamped
  <2> QED
    BY <1>5, <2>1 DEF Before, Below
<1>6. ASSUME NEW x, Marks(c, x), s = l + x, Marks(a, t) PROVE FALSE
  <2>1. x \in Nat /\ t \in Nat /\ t + 2 <= l
    BY <1>1, <1>6 DEF Marks
  <2> QED
    BY <1>6, <2>1
<1>7. ASSUME NEW x, Marks(c, x), s = l + x, b[s + 4] = c[x + 4],
             NEW y, Marks(c, y), t = l + y, b[t + 4] = c[y + 4]
      PROVE  b[s + 4] < b[t + 4]
  <2>1. x \in Nat /\ y \in Nat /\ l + x < l + y
    BY <1>7 DEF Marks
  <2>2. x < y
    BY <2>1
  <2>3. c[x + 4] < c[y + 4]
    BY <1>7, <2>2 DEF Ordered
  <2> QED
    BY <1>7, <2>3
<1> QED
  BY <1>2, <1>3, <1>4, <1>5, <1>6, <1>7 DEF IsFirst, IsSecond

-------------------------------------------------------------------------------
(* Cells taken from the front. *)
LEMMA DroppedMark ==
  ASSUME NEW fs, NEW n, AllFrames(fs, n), NEW b \in Seq(Nat), NEW d \in 0 .. Len(b),
         FramesStand(b, fs, n), NEW s, Marks(Drop(b, d), s)
  PROVE  /\ s \in Nat /\ Marks(b, d + s) /\ b[d + s + 4] = Drop(b, d)[s + 4]
         /\ Stands(Drop(b, d), s, fs, n)
<1>1. PICK a : a = Drop(b, d)
  OBVIOUS
<1>2. a \in Seq(Nat) /\ d + Len(a) = Len(b) /\ Contains(b, d, a) /\ d \in Nat
  BY <1>1, DropContains
<1>3. PICK m \in Nat : m = Len(a)
  BY <1>2, LenProperties, Zenon
<1>4. s \in Nat /\ s + 2 <= m /\ a[s + 2] = Magic
  BY <1>1, <1>3 DEF Marks
<1>5. PICK x \in 1 .. m : x = s + 2
  BY <1>4
<1>6. b[d + x] = a[x] /\ d + x = d + s + 2
  BY <1>2, <1>3, <1>4, <1>5 DEF Contains
<1>7. d + s + 2 <= Len(b) /\ d + s \in Nat
  BY <1>2, <1>3, <1>4
<1>8. Marks(b, d + s)
  BY <1>4, <1>5, <1>6, <1>7 DEF Marks
<1>9. Stands(b, d + s, fs, n)
  BY <1>8 DEF FramesStand
<1>10. SameMark(b, d + s, a, s) /\ Stands(a, s, fs, n)
  BY <1>2, <1>4, <1>8, <1>9, MarkMovesBack
<1> QED
  BY <1>1, <1>4, <1>8, <1>10 DEF SameMark

LEMMA DroppedStand ==
  ASSUME NEW fs, NEW n, AllFrames(fs, n), NEW b \in Seq(Nat), NEW d \in 0 .. Len(b),
         FramesStand(b, fs, n), Ordered(b)
  PROVE  /\ FramesStand(Drop(b, d), fs, n) /\ Ordered(Drop(b, d))
         /\ \A p : Stamped(Drop(b, d), p) => Stamped(b, p)
<1> DEFINE a == Drop(b, d)
<1>1. ASSUME NEW s, Marks(a, s)
      PROVE  s \in Nat /\ Marks(b, d + s) /\ b[d + s + 4] = a[s + 4] /\ Stands(a, s, fs, n)
  BY <1>1, DroppedMark
<1>2. d \in Nat
  OBVIOUS
<1> HIDE DEF a
<1>3. FramesStand(a, fs, n)
  BY <1>1 DEF FramesStand
<1>4. ASSUME NEW s, NEW t, Marks(a, s), Marks(a, t), s < t PROVE a[s + 4] < a[t + 4]
  <2>1. /\ s \in Nat /\ Marks(b, d + s) /\ b[d + s + 4] = a[s + 4]
        /\ t \in Nat /\ Marks(b, d + t) /\ b[d + t + 4] = a[t + 4]
    BY <1>1, <1>4
  <2>2. d + s < d + t
    BY <1>2, <1>4, <2>1
  <2>3. b[d + s + 4] < b[d + t + 4]
    BY <2>1, <2>2 DEF Ordered
  <2> QED
    BY <2>1, <2>3
<1>5. Ordered(a)
  BY <1>4 DEF Ordered
<1>6. \A p : Stamped(a, p) => Stamped(b, p)
  BY <1>1 DEF Stamped
<1> QED
  BY <1>3, <1>5, <1>6 DEF a

LEMMA DroppedKeeps ==
  ASSUME NEW fs, NEW n, AllFrames(fs, n), NEW b \in Seq(Nat), NEW d \in 0 .. Len(b),
         FramesStand(b, fs, n), NEW s, Marks(b, s), s >= d
  PROVE  Stamped(Drop(b, d), b[s + 4])
<1>1. PICK a : a = Drop(b, d)
  OBVIOUS
<1>2. a \in Seq(Nat) /\ d + Len(a) = Len(b) /\ Contains(b, d, a) /\ d \in Nat
  BY <1>1, DropContains
<1>3. s \in Nat
  BY DEF Marks
<1>4. PICK t \in Nat : s = d + t
  <2>1. s - d \in Nat /\ s = d + (s - d)
    BY <1>2, <1>3
  <2> QED
    BY <2>1
<1>5. Marks(b, d + t) /\ Stands(b, d + t, fs, n)
  BY <1>4 DEF FramesStand
<1>6. SameMark(b, d + t, a, t) /\ Marks(a, t)
  BY <1>2, <1>5, MarkMovesBack
<1> QED
  BY <1>1, <1>4, <1>6 DEF SameMark, Stamped

LEMMA DroppedBelow ==
  ASSUME NEW fs, NEW n, AllFrames(fs, n), NEW b \in Seq(Nat), NEW d \in 0 .. Len(b),
         FramesStand(b, fs, n), Ordered(b), NEW s, Marks(b, s), s < d
  PROVE  Below(b[s + 4], Drop(b, d))
<1> SUFFICES ASSUME NEW t, Marks(Drop(b, d), t) PROVE b[s + 4] < Drop(b, d)[t + 4]
  BY DEF Below, Stamped
<1>1. t \in Nat /\ Marks(b, d + t) /\ b[d + t + 4] = Drop(b, d)[t + 4]
  BY DroppedMark
<1>2. s \in Nat /\ d \in Nat
  BY DEF Marks
<1>3. s < d + t
  BY <1>1, <1>2
<1>4. b[s + 4] < b[d + t + 4]
  BY <1>1, <1>3 DEF Ordered
<1> QED
  BY <1>1, <1>4

-------------------------------------------------------------------------------
(* What adds no frame, and what adds one. *)
LEMMA NoMark ==
  ASSUME NEW c \in Seq(Nat), \A k \in 1 .. Len(c) : c[k] # Magic
  PROVE  /\ c # <<>> => c[1] # Magic
         /\ \A s : ~Marks(c, s)
         /\ \A p : ~Stamped(c, p)
         /\ \A fs, n : FramesStand(c, fs, n)
         /\ Ordered(c) /\ \A x : Below(x, c)
         /\ \A A : Before(A, c)
<1>1. PICK m \in Nat : m = Len(c)
  BY LenProperties, Zenon
<1>2. ASSUME NEW s, Marks(c, s) PROVE FALSE
  <2>1. s \in Nat /\ s + 2 <= m /\ c[s + 2] = Magic
    BY <1>1, <1>2 DEF Marks
  <2>2. s + 2 \in 1 .. m
    BY <2>1
  <2> QED
    BY <1>1, <2>1, <2>2
<1>3. c # <<>> => c[1] # Magic
  <2>1. ASSUME c # <<>> PROVE 1 \in 1 .. m
    BY <1>1, <2>1
  <2> QED
    BY <1>1, <2>1
<1>4. \A p : ~Stamped(c, p)
  BY <1>2 DEF Stamped
<1>5. \A fs, n : FramesStand(c, fs, n)
  BY <1>2 DEF FramesStand
<1>6. Ordered(c)
  BY <1>2 DEF Ordered
<1>7. \A x : Below(x, c)
  BY <1>4 DEF Below
<1> QED
  BY <1>2, <1>3, <1>4, <1>5, <1>6, <1>7 DEF Before

OneFrame(w, fs, n, pts) ==
  /\ w \in Seq(Nat) /\ (w # <<>> => w[1] # Magic) /\ Sync(w)
  /\ FramesStand(w, fs, n) /\ Ordered(w)
  /\ \A p : Stamped(w, p) <=> p = pts

LEMMA WireMark ==
  ASSUME NEW fs, NEW n, AllFrames(fs, n), NEW j \in 1 .. n
  PROVE  OneFrame(WireOf(fs[j]), fs, n, fs[j].packet.pts)
<1> DEFINE w == WireOf(fs[j])
<1>1. Frame(fs[j])
  BY DEF AllFrames
<1>2. Sync(w) /\ w \in Seq(Nat) /\ w # <<>> /\ w[1] # Magic /\ w[4] = fs[j].packet.pts
  BY <1>1, WireItem
<1> HIDE DEF w
<1>3. (\A k \in 1 .. Len(w) : k # 2 => w[k] # Magic)
  BY <1>1, WirePlain DEF Plain, w
<1>4. Contains(w, 0, w)
  <2>1. PICK m \in Nat : m = Len(w)
    BY <1>2, LenProperties, Zenon
  <2>2. 0 + m <= m /\ \A i \in 1 .. m : 0 + i = i
    BY <2>1
  <2> QED
    BY <2>1, <2>2 DEF Contains
<1>5. Stands(w, 0, fs, n)
  BY <1>4 DEF Stands, w
<1>6. Marks(w, 0)
  BY <1>1, <1>2, <1>4, StandsIs DEF w
<1>7. ASSUME NEW s, Marks(w, s) PROVE s = 0
  <2>1. PICK m \in Nat : m = Len(w)
    BY <1>2, LenProperties, Zenon
  <2>2. s \in Nat /\ s + 2 <= m /\ w[s + 2] = Magic
    BY <1>7, <2>1 DEF Marks
  <2>3. PICK x \in 1 .. m : x = s + 2
    BY <2>2
  <2>4. x = 2
    BY <1>3, <2>1, <2>2, <2>3
  <2> QED
    BY <2>2, <2>3, <2>4
<1>8. FramesStand(w, fs, n)
  BY <1>5, <1>7 DEF FramesStand
<1>9. Ordered(w)
  <2>1. ~(0 < 0)
    OBVIOUS
  <2> QED
    BY <1>7, <2>1 DEF Ordered
<1>10. 0 + 4 = 4
  OBVIOUS
<1>11. \A p : Stamped(w, p) <=> p = fs[j].packet.pts
  BY <1>2, <1>6, <1>7, <1>10 DEF Stamped
<1> QED
  BY <1>2, <1>8, <1>9, <1>11 DEF OneFrame, w

LEMMA StandsMore ==
  ASSUME NEW fs, NEW n \in Nat, NEW m \in Nat, n <= m, NEW B, FramesStand(B, fs, n)
  PROVE  FramesStand(B, fs, m)
<1>1. \A j \in 1 .. n : j \in 1 .. m
  OBVIOUS
<1> QED
  BY <1>1 DEF FramesStand, Stands

-------------------------------------------------------------------------------
(* The frames of the connection: in the reassembler and on the way to it     *)
(* they stand whole and in the order in which they were sent, behind those   *)
(* that were shown.                                                          *)
Own(k) == Frames[k].version = Version
Pts(k) == Frames[k].packet.pts
Packets == {Frames[k].packet : k \in 1 .. Len(Frames)}
FramesRight ==
  /\ FramesStand(reassembly, Frames, streamed) /\ FramesStand(Outbound, Frames, streamed)
  /\ Ordered(reassembly) /\ Ordered(Outbound) /\ Before(reassembly, Outbound)
  /\ Sync(reassembly)
ShownRight ==
  /\ shown \in Seq(Packets)
  /\ \A i \in 1 .. Len(shown) : \E k \in 1 .. streamed : Own(k) /\ shown[i] = Frames[k].packet
  /\ \A i \in 1 .. Len(shown) : Below(shown[i].pts, reassembly) /\ Below(shown[i].pts, Outbound)
  /\ \A i, j \in 1 .. Len(shown) : i < j => shown[i].pts < shown[j].pts
IsShown(k) == \E i \in 1 .. Len(shown) : shown[i] = Frames[k].packet
NoneMissing ==
  ~Alien => \A k \in 1 .. streamed :
    Own(k) => IsShown(k) \/ Stamped(reassembly, Pts(k)) \/ Stamped(Outbound, Pts(k))

LEMMA StreamIs ==
  ASSUME PlanRight
  PROVE  /\ streamed \in Nat /\ Len(Frames) \in Nat /\ streamed <= Len(Frames)
         /\ AllFrames(Frames, streamed)
         /\ \A k \in 1 .. streamed : k \in 1 .. Len(Frames) /\ Frame(Frames[k]) /\ Pts(k) \in Nat
                                     /\ Frames[k].packet \in Packets
         /\ \A i, j \in 1 .. streamed : Pts(i) = Pts(j) => i = j
<1>1. /\ Len(Frames) \in Nat
      /\ (\A i \in 1 .. Len(Frames) : Frame(Frames[i]))
      /\ (\A i, j \in 1 .. Len(Frames) : i < j => Pts(i) < Pts(j))
  BY FramesAre DEF PlanRight, Frames, Pts
<1>2. PICK l \in Nat : l = Len(Frames)
  BY <1>1
<1>3. streamed \in 0 .. l
  BY <1>2 DEF PlanRight
<1>4. \A k \in 1 .. streamed : k \in 1 .. l /\ Frame(Frames[k])
  BY <1>1, <1>2, <1>3
<1>5. \A k \in 1 .. streamed : Pts(k) \in Nat
  BY <1>4 DEF Frame, Plain, Pts
<1>6. ASSUME NEW i \in 1 .. streamed, NEW j \in 1 .. streamed, Pts(i) = Pts(j) PROVE i = j
  <2>1. Pts(i) \in Nat /\ Pts(j) \in Nat
    BY <1>5
  <2>2. (i < j => Pts(i) < Pts(j)) /\ (j < i => Pts(j) < Pts(i))
    BY <1>1, <1>2, <1>4
  <2>3. ~(Pts(i) < Pts(j)) /\ ~(Pts(j) < Pts(i))
    BY <1>6, <2>1
  <2>4. ~(i < j) /\ ~(j < i)
    BY <2>2, <2>3
  <2> QED
    BY <1>3, <2>4
<1>7. \A k \in 1 .. streamed : Frames[k].packet \in Packets
  BY <1>2, <1>4 DEF Packets
<1>8. AllFrames(Frames, streamed)
  BY <1>3, <1>4 DEF AllFrames
<1> QED
  BY <1>2, <1>3, <1>4, <1>5, <1>6, <1>7, <1>8

(* A mark in cells where frames of the connection stand. *)
LEMMA MarkIs ==
  ASSUME PlanRight, NEW B \in Seq(Nat), FramesStand(B, Frames, streamed), NEW s, Marks(B, s)
  PROVE  \E j \in 1 .. streamed :
           /\ StandsAs(B, s, Frames[j]) /\ Frame(Frames[j]) /\ s \in Nat
           /\ Contains(B, s, WireOf(Frames[j])) /\ B[s + 4] = Pts(j)
<1>1. s \in Nat /\ Stands(B, s, Frames, streamed) /\ AllFrames(Frames, streamed)
  BY StreamIs DEF FramesStand, Marks
<1>2. PICK j \in 1 .. streamed : /\ Frame(Frames[j]) /\ Contains(B, s, WireOf(Frames[j]))
                                 /\ StandsAs(B, s, Frames[j])
  BY <1>1, StandIs
<1>3. B[s + 4] = Pts(j)
  BY <1>2 DEF StandsAs, Pts
<1> QED
  BY <1>1, <1>2, <1>3

LEMMA MarkStarts ==
  ASSUME NEW B \in Seq(Nat), NEW s \in Nat, Marks(B, s)
  PROVE  Starts(B, s + 1)
<1>1. PICK l \in Nat : l = Len(B)
  BY LenProperties, Zenon
<1>2. s + 2 <= l /\ B[s + 2] = Magic
  BY <1>1 DEF Marks
<1>3. s + 1 \in 1 .. l /\ s + 1 < l /\ (s + 1) + 1 = s + 2
  BY <1>2
<1> QED
  BY <1>1, <1>2, <1>3 DEF Starts

(* Where an own frame stands, the reassembler stops. *)
LEMMA OwnStops ==
  ASSUME PlanRight, NEW B \in Seq(Nat), FramesStand(B, Frames, streamed), NEW s, Marks(B, s),
         NEW k \in 1 .. streamed, Own(k), B[s + 4] = Pts(k)
  PROVE  s \in Nat /\ s + 5 <= Len(B) /\ Stops(B, s)
<1>1. PICK j \in 1 .. streamed : /\ StandsAs(B, s, Frames[j]) /\ Frame(Frames[j]) /\ s \in Nat
                                 /\ B[s + 4] = Pts(j)
  BY MarkIs
<1>2. j = k
  BY <1>1, StreamIs
<1>3. FrameThere(B, s)
  BY <1>1, <1>2, OwnIsThere DEF Own
<1> QED
  BY <1>1, <1>3, FrameStops DEF StandsAs

-------------------------------------------------------------------------------
(* A packet taken out is that of an own frame, the next one. *)
TakesFrame(j, s, d) ==
  /\ j \in 1 .. streamed /\ Own(j) /\ Marks(reassembly, s) /\ reassembly[s + 4] = Pts(j)
  /\ s \in Nat /\ d \in 0 .. Len(reassembly) /\ s < d
  /\ reassembly' = Drop(reassembly, d) /\ shown' = Append(shown, Frames[j].packet)
  /\ Sync(reassembly')
  /\ \A t : Marks(reassembly, t) /\ t > s => t >= d
  /\ \A t : Marks(reassembly, t) /\ t < s => ~Stops(reassembly, t)

LEMMA TakenIs ==
  ASSUME PlanRight, CellsRight, FramesRight, TakePacket
  PROVE  \E j, s, d : TakesFrame(j, s, d)
<1> DEFINE R == reassembly
<1>1. R \in Seq(Nat) /\ FramesStand(R, Frames, streamed) /\ Sync(R)
  BY DEF CellsRight, FramesRight
<1>2. NextPacket(R).found /\ shown' = Append(shown, NextPacket(R).packet) /\ R' = NextPacket(R).rest
  BY DEF TakePacket
<1> HIDE DEF R
<1>3. PICK s \in Nat : Finds(R, s)
  BY <1>1, <1>2, NextIs DEF Unfound
<1>4. /\ NextPacket(R).packet = PacketThere(R, s) /\ FrameThere(R, s) /\ (\A j \in 0 .. s - 1 : ~Stops(R, j))
      /\ s + R[s + 1] \in 0 .. Len(R) /\ NextPacket(R).rest = Drop(R, s + R[s + 1])
  BY <1>3 DEF Finds
<1>5. PICK l \in Nat : l = Len(R)
  BY <1>1, LenProperties, Zenon
<1>6. s + 5 <= l /\ R[s + 1] \in 5 .. 5 + MaxData /\ R[s + 2] = Magic /\ R[s + 3] = Version
  BY <1>4, <1>5 DEF FrameThere
<1>7. Marks(R, s)
  <2>1. s + 2 <= l
    BY <1>6
  <2> QED
    BY <1>5, <1>6, <2>1 DEF Marks
<1>8. PICK j \in 1 .. streamed : /\ StandsAs(R, s, Frames[j]) /\ Frame(Frames[j]) /\ R[s + 4] = Pts(j)
  BY <1>1, <1>7, MarkIs
<1>9. Own(j)
  BY <1>6, <1>8 DEF StandsAs, Own
<1>10. PacketThere(R, s) = Frames[j].packet
  BY <1>1, <1>8, PacketIs
<1>11. ~IsHeader(R[s + 1]) /\ R[s + 1] \in Nat
  BY <1>6, LengthIsNoHeader
<1>12. ItemLen(R, s + 1) = R[s + 1]
  BY <1>11 DEF ItemLen
<1>13. Starts(R, s + 1)
  BY <1>1, <1>7, MarkStarts
<1>14. PICK n \in Nat : n = R[s + 1]
  BY <1>11
<1>15. (\A i \in s + 2 .. s + n : ~Starts(R, i)) /\ Sync(Drop(R, s + n)) /\ n >= 3
  BY <1>1, <1>12, <1>13, <1>14, SyncAfter
<1>16. ASSUME NEW t, Marks(R, t), t > s PROVE t >= s + n
  <2>1. t \in Nat
    BY <1>16 DEF Marks
  <2>2. Starts(R, t + 1)
    BY <1>1, <1>16, <2>1, MarkStarts
  <2>3. t + 1 \notin s + 2 .. s + n
    BY <1>15, <2>2
  <2> QED
    BY <1>16, <2>1, <2>3
<1>17. ASSUME NEW t, Marks(R, t), t < s PROVE ~Stops(R, t)
  <2>1. t \in 0 .. s - 1
    BY <1>17 DEF Marks
  <2> QED
    BY <1>4, <2>1
<1>18. s + n \in 0 .. Len(R) /\ s < s + n
  BY <1>4, <1>14, <1>15
<1>19. R' = Drop(R, s + n) /\ shown' = Append(shown, Frames[j].packet) /\ Sync(R')
  BY <1>2, <1>4, <1>10, <1>14, <1>15
<1>20. TakesFrame(j, s, s + n)
  BY <1>7, <1>8, <1>9, <1>16, <1>17, <1>18, <1>19 DEF TakesFrame, R
<1> QED
  BY <1>20

(* A frame cut off by the client goes to the reassembler as it was sent. *)
CutsSent(j, n) ==
  /\ j \in 1 .. streamed /\ Marks(Outbound, 0) /\ Outbound[0 + 4] = Pts(j)
  /\ n \in 1 .. Len(Outbound) /\ n \in 0 .. Len(Outbound)
  /\ reassembly' = reassembly \o WireOf(Frames[j]) /\ Outbound' = Drop(Outbound, n)

LEMMA CutIsSent ==
  ASSUME PlanRight, CellsRight, FramesRight, NEW n, CutsFrame(n)
  PROVE  \E j : CutsSent(j, n)
<1> DEFINE B == Outbound
<1>1. Outbound' = Drop(Outbound, n) /\ n \in 0 .. Len(Outbound) /\ Outbound \in Seq(Nat)
  BY OutboundCut, WholeCells DEF CutsFrame
<1>2. n \in 1 .. Len(receiveBuf) /\ n = B[1] /\ n \in 5 .. 5 + MaxData /\ B[2] = Magic
  BY DEF CutsFrame, Cuts
<1>3. reassembly' = reassembly \o SubSeq(receiveBuf, 1, n) /\ (\A i \in 1 .. n : B[i] = receiveBuf[i])
  BY DEF CutsFrame
<1>4. receiveBuf \in Seq(Nat) /\ FramesStand(B, Frames, streamed)
  BY DEF CellsRight, FramesRight
<1> HIDE DEF B
<1>5. PICK l \in Nat : l = Len(B)
  BY <1>1, LenProperties, Zenon DEF B
<1>6. n \in Nat /\ n >= 5 /\ n <= l
  BY <1>1, <1>2, <1>5, LimitIs DEF B
<1>7. Marks(B, 0)
  <2>1. 0 + 2 = 2 /\ 0 + 2 <= l
    BY <1>6
  <2> QED
    BY <1>2, <1>5, <2>1 DEF Marks
<1>8. B \in Seq(Nat)
  BY <1>1 DEF B
<1>9. PICK j \in 1 .. streamed : /\ StandsAs(B, 0, Frames[j]) /\ Frame(Frames[j]) /\ B[0 + 4] = Pts(j)
                                 /\ Contains(B, 0, WireOf(Frames[j]))
  BY <1>4, <1>7, <1>8, MarkIs
<1>10. PICK w : w = WireOf(Frames[j])
  OBVIOUS
<1>11. w \in Seq(Nat) /\ Len(w) = 5 + Len(Frames[j].packet.data)
  BY <1>9, <1>10, WireIs DEF IsWire
<1>12. Len(w) = n
  <2>1. B[0 + 1] = 5 + Len(Frames[j].packet.data) /\ 0 + 1 = 1
    BY <1>9 DEF StandsAs
  <2> QED
    BY <1>2, <1>11, <2>1
<1>13. ASSUME NEW i \in 1 .. n PROVE receiveBuf[i] = w[i]
  <2>1. B[0 + i] = w[i] /\ B[i] = receiveBuf[i]
    BY <1>3, <1>9, <1>10, <1>12 DEF Contains
  <2>2. 0 + i = i
    BY <1>6
  <2> QED
    BY <2>1, <2>2
<1>14. SubSeq(receiveBuf, 1, n) = w
  <2>1. 1 \in Nat \ {0} /\ 1 - 1 + Len(w) <= Len(receiveBuf) /\ 1 + Len(w) - 1 = n
    <3>1. PICK m \in Nat : m = Len(receiveBuf)
      BY <1>4, LenProperties, Zenon
    <3>2. n \in Nat /\ n <= m
      BY <1>2, <3>1
    <3> QED
      BY <1>12, <3>1, <3>2
  <2>2. ASSUME NEW i \in 1 .. Len(w) PROVE receiveBuf[1 + i - 1] = w[i]
    <3>1. i \in 1 .. n /\ 1 + i - 1 = i
      BY <1>6, <1>12
    <3> QED
      BY <1>13, <3>1
  <2>3. SubSeq(receiveBuf, 1, 1 + Len(w) - 1) = w
    BY <1>4, <1>11, <2>1, <2>2, CutOut
  <2> QED
    BY <2>1, <2>3
<1>15. n \in 1 .. Len(B)
  BY <1>5, <1>6
<1>16. CutsSent(j, n)
  BY <1>1, <1>3, <1>7, <1>9, <1>10, <1>14, <1>15 DEF CutsSent, B
<1> QED
  BY <1>16

-------------------------------------------------------------------------------
(* What a step does to the frames. *)
AddsCells(c) ==
  /\ c \in Seq(Nat) /\ (\A k \in 1 .. Len(c) : c[k] # Magic)
  /\ Outbound' = Outbound \o c /\ UNCHANGED <<plan, streamed, reassembly, shown>>
AddsFrame ==
  /\ Outbound' = Outbound \o WireOf(NextFrame)
  /\ streamed + 1 \in 1 .. Len(Frames) /\ streamed' = streamed + 1
  /\ UNCHANGED <<plan, reassembly, shown>>
MovesFrame(j, n) ==
  /\ CutsSent(j, n) /\ UNCHANGED <<plan, streamed, shown>>
  /\ ~Alien => \A s : Marks(Outbound, s) => s = 0 \/ s >= n
DropsCells(n) ==
  /\ n \in 0 .. Len(Outbound) /\ Outbound' = Drop(Outbound, n)
  /\ UNCHANGED <<plan, streamed, reassembly, shown>>
  /\ ~Alien => \A s : Marks(Outbound, s) => s >= n
ShowsFrame(j, s, d) ==
  TakesFrame(j, s, d) /\ Outbound' = Outbound /\ UNCHANGED <<plan, streamed>>
Rests == UNCHANGED <<plan, streamed, reassembly, shown>> /\ Outbound' = Outbound
StreamStep ==
  \/ \E c : AddsCells(c)
  \/ AddsFrame
  \/ \E j, n : MovesFrame(j, n)
  \/ \E n : DropsCells(n)
  \/ \E j, s, d : ShowsFrame(j, s, d)
  \/ Rests

LEMMA NotInside ==
  ASSUME NEW B \in Seq(Nat), NEW n \in Nat, (\A i \in 2 .. n : ~Starts(B, i)), NEW s, Marks(B, s)
  PROVE  s = 0 \/ s >= n
<1>1. s \in Nat
  BY DEF Marks
<1>2. Starts(B, s + 1)
  BY <1>1, MarkStarts
<1>3. s + 1 \notin 2 .. n
  BY <1>2
<1> QED
  BY <1>1, <1>3

LEMMA StreamSteps ==
  ASSUME PlanRight, AskedRight, CellsRight, Requested, FramesRight, Aligned, Step
  PROVE  StreamStep
<1>1. ASSUME NEW msg, NEW a, Handles(msg, a) PROVE \E c : AddsCells(c)
  <2>1. UNCHANGED <<plan, streamed, reassembly, shown>>
    BY <1>1 DEF Handles, streamVars
  <2>2. AddsCells(AnswerPacket(msg, a))
    BY <1>1, <2>1, AnswerAdds DEF AddsCells
  <2> QED
    BY <2>2
<1>2. ASSUME SendFrame PROVE AddsFrame
  BY <1>2, FrameAdds DEF AddsFrame
<1>3. ASSUME NEW cells \in Plans[plan].toClient, AlienReplies(cells) PROVE \E c : AddsCells(c)
  <2>1. /\ Outbound' = Outbound \o cells /\ cells \in Seq(Nat) /\ cells \in Seq(Unmagic)
        /\ UNCHANGED <<plan, reassembly, shown, streamed>>
    BY <1>3, AlienAdds
  <2>2. \A k \in 1 .. Len(cells) : cells[k] # Magic
    BY <2>1, ElementOfSeq DEF Unmagic
  <2>3. AddsCells(cells)
    BY <2>1, <2>2 DEF AddsCells
  <2> QED
    BY <2>3
<1>4. ASSUME NEW n, CutsFrame(n) PROVE \E j, m : MovesFrame(j, m)
  <2>1. PICK j : CutsSent(j, n)
    BY <1>4, CutIsSent
  <2>2. UNCHANGED <<plan, streamed, shown>>
    BY <1>4 DEF CutsFrame, Cuts
  <2>3. ASSUME ~Alien, NEW s, Marks(Outbound, s) PROVE s = 0 \/ s >= n
    <3>1. Sync(Outbound) /\ Outbound \in Seq(Nat)
      BY <2>3, WholeCells DEF Aligned
    <3>2. n \in Nat /\ \A l \in 2 .. n : ~Starts(Outbound, l)
      BY <1>4, <3>1, CutIsItem
    <3> QED
      BY <2>3, <3>1, <3>2, NotInside
  <2>4. MovesFrame(j, n)
    BY <2>1, <2>2, <2>3 DEF MovesFrame
  <2> QED
    BY <2>4
<1>5. ASSUME NEW n, CutsAnswer(n) PROVE DropsCells(n)
  <2>1. Outbound' = Drop(Outbound, n) /\ n \in 0 .. Len(Outbound)
    BY <1>5, OutboundCut DEF CutsAnswer
  <2>2. UNCHANGED <<plan, streamed, reassembly, shown>> /\ IsHeader(Outbound[1])
    BY <1>5 DEF CutsAnswer, Cuts
  <2>3. ASSUME ~Alien, NEW s, Marks(Outbound, s) PROVE s >= n
    <3>1. Sync(Outbound) /\ Outbound \in Seq(Nat)
      BY <2>3, WholeCells DEF Aligned
    <3>2. n \in Nat /\ \A l \in 2 .. n : ~Starts(Outbound, l)
      BY <1>5, <3>1, CutIsItem
    <3>3. s = 0 \/ s >= n
      BY <2>3, <3>1, <3>2, NotInside
    <3>4. s # 0
      <4> SUFFICES ASSUME s = 0 PROVE FALSE
        OBVIOUS
      <4>1. PICK j \in 1 .. streamed : StandsAs(Outbound, s, Frames[j])
        BY <2>3, <3>1, MarkIs DEF FramesRight
      <4>2. Outbound[0 + 1] \in 5 .. 5 + MaxData /\ 0 + 1 = 1
        BY <4>1 DEF StandsAs
      <4>3. Outbound[1] \in 5 .. 5 + MaxData
        BY <4>2
      <4>4. ~IsHeader(Outbound[1])
        BY <4>3, LengthIsNoHeader
      <4> QED
        BY <2>2, <4>4
    <3> QED
      BY <3>3, <3>4
  <2> QED
    BY <2>1, <2>2, <2>3 DEF DropsCells
<1>6. ASSUME NEW n, CutsBad(n) PROVE DropsCells(n)
  <2>1. Outbound' = Drop(Outbound, n) /\ n \in 0 .. Len(Outbound)
    BY <1>6, OutboundCut DEF CutsBad
  <2>2. UNCHANGED <<plan, streamed, reassembly, shown>>
    BY <1>6 DEF CutsBad, Cuts
  <2>3. Alien
    BY <1>6, BadIsAlien
  <2> QED
    BY <2>1, <2>2, <2>3 DEF DropsCells
<1>7. ASSUME TakePacket PROVE \E j, s, d : ShowsFrame(j, s, d)
  <2>1. PICK j, s, d : TakesFrame(j, s, d)
    BY <1>7, TakenIs
  <2>2. Outbound' = Outbound /\ UNCHANGED <<plan, streamed>>
    BY <1>7 DEF TakePacket, Outbound, clientVars
  <2> QED
    BY <2>1, <2>2 DEF ShowsFrame
<1>8. ASSUME NEW n \in 1 .. Len(toClient), ClientRead(n) PROVE Rests
  <2>1. UNCHANGED <<plan, streamed, reassembly, shown>>
    BY <1>8 DEF ClientRead, streamVars
  <2> QED
    BY <1>8, <2>1, ClientReads DEF Rests
<1>9. ASSUME UNCHANGED <<plan, streamed, reassembly, shown, receiveBuf, toClient>> PROVE Rests
  BY <1>9 DEF Rests, Outbound
<1> HIDE DEF Rests
<1>10. \/ (\E msg, a : Handles(msg, a)) \/ SendFrame \/ TakePacket
       \/ \E cells \in Plans[plan].toClient : AlienReplies(cells)
       \/ \E n : CutsFrame(n) \/ CutsAnswer(n) \/ CutsBad(n)
       \/ \E n \in 1 .. Len(toClient) : ClientRead(n)
       \/ UNCHANGED <<plan, streamed, reassembly, shown, receiveBuf, toClient>>
  BY DEF Step, Makes, AlienAsks, RequestTimeout, ServerRead, PullsMessage, PullsNone, Pulls, WaitForMore,
         clientVars, streamVars
<1> QED
  BY <1>1, <1>2, <1>3, <1>4, <1>5, <1>6, <1>7, <1>8, <1>9, <1>10 DEF StreamStep

-------------------------------------------------------------------------------

LEMMA FramesKept ==
  ASSUME PlanRight, PlanRight', CellsRight, FramesRight, StreamStep
  PROVE  FramesRight'
<1> DEFINE R == reassembly
           B == Outbound
           fs == Frames
           n == streamed
<1>1. R \in Seq(Nat) /\ B \in Seq(Nat) /\ AllFrames(fs, n) /\ n \in Nat
  BY StreamIs, WholeCells DEF CellsRight
<1>2. /\ FramesStand(R, fs, n) /\ FramesStand(B, fs, n)
      /\ Ordered(R) /\ Ordered(B) /\ Before(R, B) /\ Sync(R)
  BY DEF FramesRight
<1> DEFINE Now == /\ FramesStand(R', fs', n') /\ FramesStand(B', fs', n')
                  /\ Ordered(R') /\ Ordered(B') /\ Before(R', B') /\ Sync(R')
<1>3. ASSUME UNCHANGED plan PROVE fs' = fs
  BY <1>3 DEF Frames
<1>4. ASSUME Rests PROVE Now
  BY <1>2, <1>3, <1>4 DEF Rests
<1> HIDE DEF R, B, fs, n
<1>5. ASSUME NEW c, AddsCells(c) PROVE Now
  <2>1. /\ c \in Seq(Nat) /\ (\A k \in 1 .. Len(c) : c[k] # Magic) /\ B' = B \o c
        /\ R' = R /\ n' = n /\ fs' = fs
    BY <1>3, <1>5 DEF AddsCells, B, R, n
  <2>2. /\ (c # <<>> => c[1] # Magic) /\ FramesStand(c, fs, n) /\ Ordered(c) /\ Before(B, c) /\ \A p : ~Stamped(c, p)
    BY <2>1, NoMark
  <2>3. FramesStand(B \o c, fs, n) /\ Ordered(B \o c)
    BY <1>1, <1>2, <2>1, <2>2, JoinedStand, JoinedOrdered
  <2>4. \A p : Stamped(B \o c, p) => Stamped(B, p)
    BY <1>1, <1>2, <2>1, <2>2, JoinedStamped
  <2>5. Before(R, B \o c)
    BY <1>2, <2>4 DEF Before, Below
  <2> QED
    BY <1>2, <2>1, <2>3, <2>5
<1>6. ASSUME AddsFrame PROVE Now
  <2>1. B' = B \o WireOf(fs[n + 1]) /\ R' = R /\ n' = n + 1 /\ fs' = fs
    BY <1>3, <1>6 DEF AddsFrame, NextFrame, B, R, n, fs
  <2>2. AllFrames(fs, n + 1)
    <3>1. n + 1 \in 1 .. Len(fs) /\ Len(fs) \in Nat /\ \A k \in 1 .. Len(fs) : Frame(fs[k])
      BY <1>6, FramesAre DEF AddsFrame, PlanRight, Frames, n, fs
    <3>2. \A k \in 1 .. n + 1 : k \in 1 .. Len(fs)
      BY <1>1, <3>1
    <3> QED
      BY <1>1, <3>1, <3>2 DEF AllFrames
  <2>3. n + 1 \in 1 .. n + 1 /\ n + 1 \in Nat /\ n <= n + 1
    BY <1>1
  <2>4. PICK w : w = WireOf(fs[n + 1])
    OBVIOUS
  <2>5. /\ w \in Seq(Nat) /\ (w # <<>> => w[1] # Magic)
        /\ FramesStand(w, fs, n + 1) /\ Ordered(w)
        /\ \A p : Stamped(w, p) <=> p = fs[n + 1].packet.pts
    <3>1. OneFrame(WireOf(fs[n + 1]), fs, n + 1, fs[n + 1].packet.pts)
      BY <2>2, <2>3, WireMark
    <3> QED
      BY <2>4, <3>1 DEF OneFrame
  <2>6. FramesStand(R, fs, n + 1) /\ FramesStand(B, fs, n + 1)
    BY <1>1, <1>2, <2>3, StandsMore
  <2>7. ASSUME NEW C \in Seq(Nat), FramesStand(C, fs, n) PROVE Before(C, w)
    <3> SUFFICES ASSUME NEW s, Marks(C, s) PROVE C[s + 4] < fs[n + 1].packet.pts
      BY <2>5 DEF Before, Below, Stamped
    <3>1. PICK j \in 1 .. n : C[s + 4] = fs[j].packet.pts
      BY <2>7, MarkIs DEF Pts, fs, n
    <3>2. j < n + 1 /\ j \in 1 .. n + 1
      BY <1>1
    <3>3. n + 1 \in 1 .. Len(fs) /\ Len(fs) \in Nat
      BY <1>6, StreamIs DEF AddsFrame, n, fs
    <3>4. j \in 1 .. Len(fs)
      BY <1>1, <3>2, <3>3
    <3>5. fs[j].packet.pts < fs[n + 1].packet.pts
      BY <3>2, <3>3, <3>4, FramesAre DEF PlanRight, Frames, fs
    <3> QED
      BY <3>1, <3>5
  <2>8. Before(B, w) /\ Before(R, w)
    BY <1>1, <1>2, <2>7
  <2>9. FramesStand(B \o w, fs, n + 1) /\ Ordered(B \o w)
    BY <1>1, <1>2, <2>2, <2>5, <2>6, <2>8, JoinedStand, JoinedOrdered
  <2>10. \A p : Stamped(B \o w, p) => Stamped(B, p) \/ Stamped(w, p)
    BY <1>1, <2>2, <2>5, <2>6, JoinedStamped
  <2>11. Before(R, B \o w)
    BY <1>2, <2>8, <2>10 DEF Before, Below
  <2> QED
    BY <1>2, <2>1, <2>4, <2>6, <2>9, <2>11
<1>7. ASSUME NEW j, NEW d, MovesFrame(j, d) PROVE Now
  <2>1. /\ j \in 1 .. n /\ Marks(B, 0) /\ B[0 + 4] = fs[j].packet.pts
        /\ d \in 1 .. Len(B) /\ d \in 0 .. Len(B) /\ R' = R \o WireOf(fs[j]) /\ B' = Drop(B, d)
        /\ n' = n /\ fs' = fs
    BY <1>3, <1>7 DEF MovesFrame, CutsSent, Pts, B, R, n, fs
  <2>2. PICK w : w = WireOf(fs[j])
    OBVIOUS
  <2>3. /\ w \in Seq(Nat) /\ (w # <<>> => w[1] # Magic) /\ Sync(w)
        /\ FramesStand(w, fs, n) /\ Ordered(w)
        /\ \A p : Stamped(w, p) <=> p = fs[j].packet.pts
    <3>1. OneFrame(WireOf(fs[j]), fs, n, fs[j].packet.pts)
      BY <1>1, <2>1, WireMark
    <3> QED
      BY <2>2, <3>1 DEF OneFrame
  <2>4. Stamped(B, fs[j].packet.pts)
    BY <2>1 DEF Stamped
  <2>5. Before(R, w)
    BY <1>2, <2>3, <2>4 DEF Before, Below
  <2>6. FramesStand(R \o w, fs, n) /\ Ordered(R \o w)
    BY <1>1, <1>2, <2>3, <2>5, JoinedStand, JoinedOrdered
  <2>7. Sync(R \o w)
    BY <1>1, <1>2, <2>3, SyncJoined
  <2>8. /\ FramesStand(Drop(B, d), fs, n) /\ Ordered(Drop(B, d))
        /\ \A p : Stamped(Drop(B, d), p) => Stamped(B, p)
    BY <1>1, <1>2, <2>1, DroppedStand
  <2>9. Below(fs[j].packet.pts, Drop(B, d))
    <3>1. 0 < d
      BY <2>1
    <3> QED
      BY <1>1, <1>2, <2>1, <3>1, DroppedBelow
  <2>10. \A p : Stamped(R \o w, p) => Stamped(R, p) \/ Stamped(w, p)
    BY <1>1, <1>2, <2>3, JoinedStamped
  <2>11. Before(R \o w, Drop(B, d))
    BY <1>2, <2>3, <2>8, <2>9, <2>10 DEF Before, Below
  <2> QED
    BY <2>1, <2>2, <2>6, <2>7, <2>8, <2>11
<1>8. ASSUME NEW d, DropsCells(d) PROVE Now
  <2>1. d \in 0 .. Len(B) /\ R' = R /\ B' = Drop(B, d) /\ n' = n /\ fs' = fs
    BY <1>3, <1>8 DEF DropsCells, B, R, n, fs
  <2>2. /\ FramesStand(Drop(B, d), fs, n) /\ Ordered(Drop(B, d))
        /\ \A p : Stamped(Drop(B, d), p) => Stamped(B, p)
    BY <1>1, <1>2, <2>1, DroppedStand
  <2>3. Before(R, Drop(B, d))
    BY <1>2, <2>2 DEF Before, Below
  <2> QED
    BY <1>2, <2>1, <2>2, <2>3
<1>9. ASSUME NEW j, NEW s, NEW d, ShowsFrame(j, s, d) PROVE Now
  <2>1. /\ d \in 0 .. Len(R) /\ R' = Drop(R, d) /\ Sync(R') /\ B' = B /\ n' = n /\ fs' = fs
    BY <1>3, <1>9 DEF ShowsFrame, TakesFrame, B, R, n, fs
  <2>2. /\ FramesStand(Drop(R, d), fs, n) /\ Ordered(Drop(R, d))
        /\ \A p : Stamped(Drop(R, d), p) => Stamped(R, p)
    BY <1>1, <1>2, <2>1, DroppedStand
  <2>3. Before(Drop(R, d), B)
    BY <1>2, <2>2 DEF Before
  <2> QED
    BY <1>2, <2>1, <2>2, <2>3
<1> HIDE DEF Now
<1>10. Now
  BY <1>4, <1>5, <1>6, <1>7, <1>8, <1>9 DEF StreamStep
<1> QED
  BY <1>10 DEF Now, FramesRight, R, B, fs, n

-------------------------------------------------------------------------------
(* The frames under way, by their pts: a step that shows none keeps those    *)
(* there are, and adds at most the one it sends.                             *)
Flying(p) == Stamped(reassembly, p) \/ Stamped(Outbound, p)
Sends(p) == streamed' = streamed + 1 /\ p = Pts(streamed + 1)
Flows ==
  /\ UNCHANGED <<plan, shown>>
  /\ streamed' = streamed \/ (streamed' = streamed + 1 /\ streamed + 1 \in 1 .. Len(Frames))
  /\ \A p : Flying(p)' => Flying(p) \/ Sends(p)
  /\ ~Alien => \A p : Flying(p) \/ Sends(p) => Flying(p)'

LEMMA StreamFlows ==
  ASSUME PlanRight, CellsRight, FramesRight, StreamStep
  PROVE  Flows \/ \E j, s, d : ShowsFrame(j, s, d)
<1> DEFINE R == reassembly
           B == Outbound
           fs == Frames
           n == streamed
<1>1. R \in Seq(Nat) /\ B \in Seq(Nat) /\ AllFrames(fs, n) /\ n \in Nat
  BY StreamIs, WholeCells DEF CellsRight
<1>2. FramesStand(R, fs, n) /\ FramesStand(B, fs, n) /\ Ordered(R) /\ Ordered(B)
  BY DEF FramesRight
<1>3. n # n + 1
  BY <1>1
<1> HIDE DEF R, B, fs, n
<1>4. ASSUME Rests PROVE Flows
  <2>1. R' = R /\ B' = B /\ n' = n /\ UNCHANGED <<plan, shown>>
    BY <1>4 DEF Rests, R, B, n
  <2>2. \A p : Flying(p)' <=> Flying(p)
    BY <2>1 DEF Flying, R, B
  <2>3. \A p : ~Sends(p)
    BY <1>3, <2>1 DEF Sends, n
  <2> QED
    BY <2>1, <2>2, <2>3 DEF Flows, n
<1>5. ASSUME NEW c, AddsCells(c) PROVE Flows
  <2>1. /\ c \in Seq(Nat) /\ (\A k \in 1 .. Len(c) : c[k] # Magic) /\ B' = B \o c
        /\ R' = R /\ n' = n /\ UNCHANGED <<plan, shown>>
    BY <1>5 DEF AddsCells, B, R, n
  <2>2. (c # <<>> => c[1] # Magic) /\ FramesStand(c, fs, n) /\ \A p : ~Stamped(c, p)
    BY <2>1, NoMark
  <2>3. \A p : Stamped(B \o c, p) <=> Stamped(B, p)
    BY <1>1, <1>2, <2>1, <2>2, JoinedStamped
  <2>4. \A p : Flying(p)' <=> Flying(p)
    BY <2>1, <2>3 DEF Flying, R, B
  <2>5. \A p : ~Sends(p)
    BY <1>3, <2>1 DEF Sends, n
  <2> QED
    BY <2>1, <2>4, <2>5 DEF Flows, n
<1>6. ASSUME AddsFrame PROVE Flows
  <2>1. B' = B \o WireOf(fs[n + 1]) /\ R' = R /\ n' = n + 1 /\ UNCHANGED <<plan, shown>>
    BY <1>6 DEF AddsFrame, NextFrame, B, R, n, fs
  <2>2. AllFrames(fs, n + 1)
    <3>1. n + 1 \in 1 .. Len(fs) /\ Len(fs) \in Nat /\ \A k \in 1 .. Len(fs) : Frame(fs[k])
      BY <1>6, FramesAre DEF AddsFrame, PlanRight, Frames, n, fs
    <3>2. \A k \in 1 .. n + 1 : k \in 1 .. Len(fs)
      BY <1>1, <3>1
    <3> QED
      BY <1>1, <3>1, <3>2 DEF AllFrames
  <2>3. n + 1 \in 1 .. n + 1 /\ n + 1 \in Nat /\ n <= n + 1
    BY <1>1
  <2>4. OneFrame(WireOf(fs[n + 1]), fs, n + 1, fs[n + 1].packet.pts)
    BY <2>2, <2>3, WireMark
  <2>5. PICK w : w = WireOf(fs[n + 1])
    OBVIOUS
  <2>6. /\ w \in Seq(Nat) /\ (w # <<>> => w[1] # Magic) /\ FramesStand(w, fs, n + 1)
        /\ \A p : Stamped(w, p) <=> p = fs[n + 1].packet.pts
    BY <2>4, <2>5 DEF OneFrame
  <2>7. FramesStand(B, fs, n + 1)
    BY <1>1, <1>2, <2>3, StandsMore
  <2>8. \A p : Stamped(B \o w, p) <=> Stamped(B, p) \/ Stamped(w, p)
    BY <1>1, <2>2, <2>6, <2>7, JoinedStamped
  <2>9. \A p : Sends(p) <=> p = fs[n + 1].packet.pts
    BY <2>1 DEF Sends, Pts, n, fs
  <2>10. \A p : Flying(p)' <=> Flying(p) \/ Sends(p)
    BY <2>1, <2>5, <2>6, <2>8, <2>9 DEF Flying, R, B
  <2>11. streamed' = streamed + 1 /\ streamed + 1 \in 1 .. Len(Frames)
    BY <1>6 DEF AddsFrame
  <2> QED
    BY <2>1, <2>10, <2>11 DEF Flows
<1>7. ASSUME NEW j, NEW d, MovesFrame(j, d) PROVE Flows
  <2>1. /\ j \in 1 .. n /\ Marks(B, 0) /\ B[0 + 4] = fs[j].packet.pts
        /\ d \in 0 .. Len(B) /\ R' = R \o WireOf(fs[j]) /\ B' = Drop(B, d)
        /\ n' = n /\ UNCHANGED <<plan, shown>>
    BY <1>7 DEF MovesFrame, CutsSent, Pts, B, R, n, fs
  <2>2. ~Alien => \A s : Marks(B, s) => s = 0 \/ s >= d
    BY <1>7 DEF MovesFrame, B
  <2>3. OneFrame(WireOf(fs[j]), fs, n, fs[j].packet.pts)
    BY <1>1, <2>1, WireMark
  <2>4. PICK w : w = WireOf(fs[j])
    OBVIOUS
  <2>5. /\ w \in Seq(Nat) /\ (w # <<>> => w[1] # Magic) /\ FramesStand(w, fs, n)
        /\ \A p : Stamped(w, p) <=> p = fs[j].packet.pts
    BY <2>3, <2>4 DEF OneFrame
  <2>6. \A p : Stamped(R \o w, p) <=> Stamped(R, p) \/ Stamped(w, p)
    BY <1>1, <1>2, <2>5, JoinedStamped
  <2>7. \A p : Stamped(w, p) => Stamped(B, p)
    BY <2>1, <2>5 DEF Stamped
  <2>8. \A p : Stamped(Drop(B, d), p) => Stamped(B, p)
    BY <1>1, <1>2, <2>1, DroppedStand
  <2>9. \A p : Flying(p)' => Flying(p)
    BY <2>1, <2>4, <2>6, <2>7, <2>8 DEF Flying, R, B
  <2>10. ASSUME ~Alien, NEW p, Stamped(B, p) PROVE Stamped(w, p) \/ Stamped(Drop(B, d), p)
    <3>1. PICK s : Marks(B, s) /\ B[s + 4] = p
      BY <2>10 DEF Stamped
    <3>2. s = 0 \/ s >= d
      BY <2>2, <2>10, <3>1
    <3>3. CASE s = 0
      BY <2>1, <2>5, <3>1, <3>3
    <3>4. CASE s >= d
      BY <1>1, <1>2, <2>1, <3>1, <3>4, DroppedKeeps
    <3> QED
      BY <3>2, <3>3, <3>4
  <2>11. ~Alien => \A p : Flying(p) => Flying(p)'
    BY <2>1, <2>4, <2>6, <2>10 DEF Flying, R, B
  <2>12. \A p : ~Sends(p)
    BY <1>3, <2>1 DEF Sends, n
  <2> QED
    BY <2>1, <2>9, <2>11, <2>12 DEF Flows, n
<1>8. ASSUME NEW d, DropsCells(d) PROVE Flows
  <2>1. d \in 0 .. Len(B) /\ R' = R /\ B' = Drop(B, d) /\ n' = n /\ UNCHANGED <<plan, shown>>
    BY <1>8 DEF DropsCells, B, R, n
  <2>2. ~Alien => \A s : Marks(B, s) => s >= d
    BY <1>8 DEF DropsCells, B
  <2>3. \A p : Stamped(Drop(B, d), p) => Stamped(B, p)
    BY <1>1, <1>2, <2>1, DroppedStand
  <2>4. \A p : Flying(p)' => Flying(p)
    BY <2>1, <2>3 DEF Flying, R, B
  <2>5. ASSUME ~Alien, NEW p, Stamped(B, p) PROVE Stamped(Drop(B, d), p)
    <3>1. PICK s : Marks(B, s) /\ B[s + 4] = p
      BY <2>5 DEF Stamped
    <3>2. s >= d
      BY <2>2, <2>5, <3>1
    <3> QED
      BY <1>1, <1>2, <2>1, <3>1, <3>2, DroppedKeeps
  <2>6. ~Alien => \A p : Flying(p) => Flying(p)'
    BY <2>1, <2>5 DEF Flying, R, B
  <2>7. \A p : ~Sends(p)
    BY <1>3, <2>1 DEF Sends, n
  <2> QED
    BY <2>1, <2>4, <2>6, <2>7 DEF Flows, n
<1> QED
  BY <1>4, <1>5, <1>6, <1>7, <1>8 DEF StreamStep

-------------------------------------------------------------------------------

LEMMA FlowShown ==
  ASSUME PlanRight, FramesRight, ShownRight, Flows
  PROVE  ShownRight'
<1>1. plan' = plan /\ shown' = shown /\ Frames' = Frames /\ Packets' = Packets
  BY DEF Flows, Frames, Packets
<1>2. streamed \in Nat /\ Len(Frames) \in Nat /\ streamed <= Len(Frames)
  BY StreamIs
<1>3. \A k \in 1 .. streamed : k \in 1 .. streamed'
  BY <1>2 DEF Flows
<1>4. ASSUME NEW i \in 1 .. Len(shown)
      PROVE  /\ \E k \in 1 .. streamed : Own(k) /\ shown[i] = Frames[k].packet
             /\ \A p : Flying(p) \/ Sends(p) => shown[i].pts < p
  <2>1. PICK k \in 1 .. streamed : Own(k) /\ shown[i] = Frames[k].packet
    BY DEF ShownRight
  <2>2. \A p : Flying(p) => shown[i].pts < p
    BY DEF ShownRight, Below, Flying
  <2>3. ASSUME NEW p, Sends(p) PROVE shown[i].pts < p
    <3>1. p = Pts(streamed + 1) /\ streamed' = streamed + 1 /\ streamed' # streamed
      BY <1>2, <2>3 DEF Sends
    <3>2. streamed + 1 \in 1 .. Len(Frames)
      BY <3>1 DEF Flows
    <3>3. k \in 1 .. Len(Frames) /\ k < streamed + 1
      BY <1>2
    <3>4. Pts(k) < Pts(streamed + 1)
      BY <3>2, <3>3, FramesAre DEF PlanRight, Frames, Pts
    <3> QED
      BY <2>1, <3>1, <3>4 DEF Pts
  <2> QED
    BY <2>1, <2>2, <2>3
<1>5. \A k : Own(k)' <=> Own(k)
  BY <1>1 DEF Own
<1>6. \A i \in 1 .. Len(shown') : \E k \in 1 .. streamed' : Own(k)' /\ shown'[i] = Frames'[k].packet
  BY <1>1, <1>3, <1>4, <1>5
<1>7. \A i \in 1 .. Len(shown') : \A p : Flying(p)' => shown'[i].pts < p
  BY <1>1, <1>4 DEF Flows
<1>8. \A i \in 1 .. Len(shown') : Below(shown'[i].pts, reassembly') /\ Below(shown'[i].pts, Outbound')
  BY <1>7 DEF Below, Flying
<1>9. shown' \in Seq(Packets') /\ \A i, j \in 1 .. Len(shown') : i < j => shown'[i].pts < shown'[j].pts
  BY <1>1 DEF ShownRight
<1> QED
  BY <1>6, <1>8, <1>9 DEF ShownRight

LEMMA TakenShown ==
  ASSUME PlanRight, CellsRight, FramesRight, ShownRight, NEW j, NEW s, NEW d, ShowsFrame(j, s, d)
  PROVE  ShownRight'
<1> DEFINE R == reassembly
           B == Outbound
           x == Frames[j].packet
           l == Len(shown)
<1>1. /\ j \in 1 .. streamed /\ Own(j) /\ Marks(R, s) /\ R[s + 4] = Pts(j)
      /\ d \in 0 .. Len(R) /\ s < d /\ R' = Drop(R, d) /\ shown' = Append(shown, x)
      /\ B' = B /\ plan' = plan /\ streamed' = streamed
  BY DEF ShowsFrame, TakesFrame
<1>2. /\ R \in Seq(Nat) /\ AllFrames(Frames, streamed) /\ FramesStand(R, Frames, streamed) /\ Ordered(R)
      /\ Before(R, B)
  BY StreamIs DEF CellsRight, FramesRight
<1>3. Frames' = Frames /\ Packets' = Packets /\ x \in Packets
  BY <1>1, StreamIs DEF Frames, Packets
<1>4. shown \in Seq(Packets)
  BY DEF ShownRight
<1>5. /\ shown' \in Seq(Packets) /\ Len(shown') = l + 1
      /\ (\A i \in 1 .. l : i \in 1 .. Len(shown') /\ shown'[i] = shown[i]) /\ shown'[l + 1] = x
  BY <1>1, <1>3, <1>4, Appended
<1>6. l \in Nat
  BY <1>4, LenProperties, Zenon
<1>7. Stamped(R, x.pts) /\ R[s + 4] = x.pts
  BY <1>1 DEF Stamped, Pts
<1>8. Below(x.pts, Drop(R, d)) /\ Below(x.pts, B)
  <2>1. Below(R[s + 4], Drop(R, d))
    BY <1>1, <1>2, DroppedBelow
  <2>2. Below(x.pts, B)
    BY <1>2, <1>7 DEF Before
  <2> QED
    BY <1>7, <2>1, <2>2
<1>9. \A p : Stamped(Drop(R, d), p) => Stamped(R, p)
  BY <1>1, <1>2, DroppedStand
<1>10. ASSUME NEW i \in 1 .. l
       PROVE  /\ \E k \in 1 .. streamed : Own(k) /\ shown[i] = Frames[k].packet
              /\ Below(shown[i].pts, R) /\ Below(shown[i].pts, B) /\ Below(shown[i].pts, Drop(R, d))
              /\ shown[i].pts < x.pts
  <2>1. /\ \E k \in 1 .. streamed : Own(k) /\ shown[i] = Frames[k].packet
        /\ Below(shown[i].pts, R) /\ Below(shown[i].pts, B)
    BY DEF ShownRight
  <2>2. Below(shown[i].pts, Drop(R, d)) /\ shown[i].pts < x.pts
    BY <1>7, <1>9, <2>1 DEF Below
  <2> QED
    BY <2>1, <2>2
<1>11. \A i \in 1 .. Len(shown') : i \in 1 .. l \/ i = l + 1
  BY <1>5, <1>6
<1>12. \A k : Own(k)' <=> Own(k)
  BY <1>3 DEF Own
<1> HIDE DEF R, B, x, l
<1>13. \A i \in 1 .. Len(shown') : \E k \in 1 .. streamed' : Own(k)' /\ shown'[i] = Frames'[k].packet
  BY <1>1, <1>3, <1>5, <1>10, <1>11, <1>12 DEF x
<1>14. \A i \in 1 .. Len(shown') : Below(shown'[i].pts, R') /\ Below(shown'[i].pts, B')
  BY <1>1, <1>5, <1>8, <1>10, <1>11
<1>15. ASSUME NEW i \in 1 .. Len(shown'), NEW k \in 1 .. Len(shown'), i < k
       PROVE  shown'[i].pts < shown'[k].pts
  <2>1. i \in 1 .. l
    BY <1>5, <1>6, <1>15
  <2>2. CASE k \in 1 .. l
    <3>1. shown[i].pts < shown[k].pts
      BY <1>15, <2>1, <2>2 DEF ShownRight, l
    <3> QED
      BY <1>5, <2>1, <2>2, <3>1
  <2>3. CASE k = l + 1
    BY <1>5, <1>10, <2>1, <2>3
  <2> QED
    BY <1>11, <2>2, <2>3
<1> QED
  BY <1>3, <1>5, <1>13, <1>14, <1>15 DEF ShownRight, R, B

LEMMA ShownKept ==
  ASSUME PlanRight, CellsRight, FramesRight, ShownRight, StreamStep
  PROVE  ShownRight'
BY StreamFlows, FlowShown, TakenShown

-------------------------------------------------------------------------------

LEMMA NoneMissingKept ==
  ASSUME PlanRight, CellsRight, FramesRight, ShownRight, NoneMissing, StreamStep, Alien => Alien'
  PROVE  NoneMissing'
<1> SUFFICES ASSUME ~Alien', NEW k \in 1 .. streamed', Own(k)'
             PROVE  IsShown(k)' \/ Stamped(reassembly', Pts(k)') \/ Stamped(Outbound', Pts(k)')
  BY DEF NoneMissing
<1>1. ~Alien /\ plan' = plan
  BY DEF StreamStep, AddsCells, AddsFrame, MovesFrame, DropsCells, ShowsFrame, Rests
<1>2. Frames' = Frames /\ Pts(k)' = Pts(k) /\ Own(k)
  BY <1>1 DEF Frames, Pts, Own
<1>3. \A i \in 1 .. streamed : Own(i) => IsShown(i) \/ Flying(Pts(i))
  BY <1>1 DEF NoneMissing, Flying
<1>4. streamed \in Nat
  BY StreamIs
<1>5. ASSUME Flows PROVE IsShown(k)' \/ Flying(Pts(k))'
  <2>1. IsShown(k)' <=> IsShown(k)
    BY <1>2, <1>5 DEF IsShown, Flows
  <2>2. Flying(Pts(k)) \/ Sends(Pts(k)) => Flying(Pts(k))'
    <3>1. PICK p : p = Pts(k)
      OBVIOUS
    <3>2. Flying(p) \/ Sends(p) => Flying(p)'
      BY <1>1, <1>5 DEF Flows
    <3>3. p = Pts(k)'
      BY <1>2, <3>1
    <3> QED
      BY <3>1, <3>2, <3>3 DEF Flying
  <2>3. k \in 1 .. streamed \/ (streamed' = streamed + 1 /\ k = streamed + 1)
    BY <1>4, <1>5 DEF Flows
  <2>4. IsShown(k) \/ Flying(Pts(k)) \/ Sends(Pts(k))
    BY <1>2, <1>3, <2>3 DEF Sends
  <2> QED
    BY <2>1, <2>2, <2>4
<1>6. ASSUME NEW j, NEW s, NEW d, ShowsFrame(j, s, d) PROVE IsShown(k)' \/ Flying(Pts(k))'
  <2> DEFINE R == reassembly
             x == Frames[j].packet
             l == Len(shown)
  <2>1. /\ j \in 1 .. streamed /\ Own(j) /\ Marks(R, s) /\ R[s + 4] = Pts(j)
        /\ d \in 0 .. Len(R) /\ s < d /\ R' = Drop(R, d) /\ shown' = Append(shown, x)
        /\ Outbound' = Outbound /\ streamed' = streamed /\ s \in Nat
        /\ (\A t : Marks(R, t) /\ t > s => t >= d)
        /\ (\A t : Marks(R, t) /\ t < s => ~Stops(R, t))
    BY <1>6 DEF ShowsFrame, TakesFrame
  <2>2. R \in Seq(Nat) /\ AllFrames(Frames, streamed) /\ FramesStand(R, Frames, streamed)
    BY StreamIs DEF CellsRight, FramesRight
  <2>3. x \in Packets /\ shown \in Seq(Packets)
    BY <2>1, StreamIs DEF ShownRight
  <2>4. /\ Len(shown') = l + 1 /\ shown'[l + 1] = x
        /\ (\A i \in 1 .. l : i \in 1 .. Len(shown') /\ shown'[i] = shown[i])
    BY <2>1, <2>3, Appended
  <2>5. l \in Nat /\ l + 1 \in 1 .. Len(shown')
    BY <2>3, <2>4, LenProperties
  <2>6. IsShown(k) => IsShown(k)'
    BY <1>2, <2>4 DEF IsShown
  <2>7. k = j => IsShown(k)'
    BY <1>2, <2>4, <2>5 DEF IsShown
  <2> HIDE DEF R, x, l
  <2>8. ASSUME Stamped(R, Pts(k)) PROVE k = j \/ Stamped(R', Pts(k))
    <3>1. PICK t : Marks(R, t) /\ R[t + 4] = Pts(k)
      BY <2>8 DEF Stamped
    <3>2. k \in 1 .. streamed
      BY <2>1
    <3>3. t \in Nat /\ Stops(R, t)
      BY <1>2, <2>2, <3>1, <3>2, OwnStops
    <3>4. CASE t = s
      <4>1. Pts(k) = Pts(j)
        BY <2>1, <3>1, <3>4
      <4> QED
        BY <2>1, <3>2, <4>1, StreamIs
    <3>5. CASE t < s
      BY <2>1, <3>1, <3>3, <3>5
    <3>6. CASE t > s
      <4>1. t >= d
        BY <2>1, <3>1, <3>6
      <4>2. Stamped(Drop(R, d), R[t + 4])
        BY <2>1, <2>2, <3>1, <4>1, DroppedKeeps
      <4> QED
        BY <2>1, <3>1, <4>2
    <3>7. t = s \/ t < s \/ t > s
      BY <2>1, <3>3
    <3> QED
      BY <3>4, <3>5, <3>6, <3>7
  <2>9. IsShown(k) \/ Stamped(R, Pts(k)) \/ Stamped(Outbound, Pts(k))
    BY <1>2, <1>3, <2>1 DEF Flying, R
  <2> QED
    BY <1>2, <2>1, <2>6, <2>7, <2>8, <2>9 DEF Flying, R
<1>7. IsShown(k)' \/ Flying(Pts(k))'
  BY <1>5, <1>6, StreamFlows
<1> QED
  BY <1>7 DEF Flying

-------------------------------------------------------------------------------
(* What the properties follow from. *)
LEMMA WholeIsDecoded ==
  ASSUME NEW b \in Seq(Nat), IsHeader(b[1]), b[2] \in Nat, b[2] <= MaxBody, 3 + b[2] \in 0 .. Len(b)
  PROVE  DecodeMessage(b).status = "decoded"
<1>1. PICK l \in Nat : l = Len(b)
  BY LenProperties, Zenon
<1>2. PICK n \in Nat : n = b[2]
  OBVIOUS
<1>3. l >= 3 /\ ~(l < 3) /\ ~(l < 3 + n) /\ n <= MaxBody /\ ~(n > MaxBody)
  BY <1>1, <1>2, BodyLimit
<1>4. ~IsRejected(b, DecodeMessage(b)) /\ ~IsIncomplete(b, DecodeMessage(b))
  BY <1>1, <1>2, <1>3 DEF IsRejected, IsIncomplete
<1>5. Nat \subseteq Nat
  OBVIOUS
<1> QED
  BY <1>4, <1>5, RestIs

LEMMA AllSeen ==
  ASSUME CellsRight, AskedRight, NothingLost, Served
  PROVE  ServiceSeesRequest
<1>1. asked \in Seq(Request) /\ DOMAIN asked = 1 .. Len(asked)
  BY DEF AskedRight
<1>2. \A call \in served : /\ call.id \in DOMAIN asked
                           /\ asked[call.id] = [type |-> call.type, fields |-> call.fields]
  BY <1>1 DEF Served
<1>3. ASSUME aliens = 0, toServer = <<>>, ~reading, NEW i \in DOMAIN asked
      PROVE  \/ i \in DOMAIN reports /\ reports[i].kind = "tooLong"
             \/ i \in DOMAIN intended \cup {msg.id : msg \in tasks} \cup refused
  <2>1. readBuf \in Seq(Unmagic) /\ readBuf \in Seq(Nat)
    BY WholeCells DEF CellsRight
  <2>2. Inbound = readBuf
    BY <1>3, <2>1 DEF Inbound
  <2>3. Sync(readBuf) /\ DecodeMessage(readBuf).status # "decoded" /\ Kept(i)
    BY <1>1, <1>3, <2>2 DEF NothingLost
  <2>4. readBuf = <<>>
    <3> SUFFICES ASSUME readBuf # <<>> PROVE FALSE
      OBVIOUS
    <3>1. /\ IsHeader(readBuf[1]) /\ readBuf[2] \in Nat /\ readBuf[2] <= MaxBody
          /\ 3 + readBuf[2] \in 0 .. Len(readBuf)
      BY <2>1, <2>3, SyncFront
    <3> QED
      BY <2>1, <2>3, <3>1, WholeIsDecoded
  <2>5. \A k : ~Identifies(Inbound, k, i)
    BY <2>2, <2>4 DEF Identifies, HeldAt
  <2> QED
    BY <2>3, <2>5 DEF Kept, TooLongTold
<1> QED
  BY <1>2, <1>3 DEF ServiceSeesRequest

(* Cells in step that wait for more are none. *)
LEMMA WaitingIsEmpty ==
  ASSUME NEW b \in Seq(Nat), Sync(b),
         IF PeekFrameLength(b) > 0 THEN Len(b) < PeekFrameLength(b)
         ELSE TryTakePacket(b).status = "incomplete"
  PROVE  b = <<>>
<1> SUFFICES ASSUME b # <<>> PROVE FALSE
  OBVIOUS
<1>1. /\ Starts(b, 1) /\ Sized(b, 1) /\ ItemLen(b, 1) \in Nat /\ ItemLen(b, 1) >= 3
      /\ ItemLen(b, 1) \in 0 .. Len(b)
  BY SyncHead
<1>2. PICK l \in Nat : l = Len(b)
  BY LenProperties, Zenon
<1>3. 1 + 1 = 2
  OBVIOUS
<1>4. l >= 3
  BY <1>1, <1>2
<1>5. b[1] \in Nat /\ b[2] \in Nat
  <2>1. 1 \in 1 .. l /\ 2 \in 1 .. l
    BY <1>4
  <2> QED
    BY <1>2, <2>1
<1>6. CASE IsHeader(b[1])
  <2>1. b[2] <= MaxBody /\ 3 + b[2] <= l
    BY <1>1, <1>2, <1>3, <1>5, <1>6 DEF Sized, ItemLen
  <2>2. b[1] \notin 5 .. 5 + MaxData
    BY <1>6, LengthIsNoHeader
  <2>3. ~(PeekFrameLength(b) > 0)
    BY <2>2, PeekIs
  <2>4. TryTakePacket(b).status = "incomplete"
    BY <2>3
  <2>5. TryTakePacket(b) = DecodeMessage(b)
    BY ParsersAgree DEF Cell
  <2>6. 3 + b[2] \in 0 .. Len(b)
    BY <1>2, <1>5, <2>1
  <2>7. DecodeMessage(b).status = "decoded"
    BY <1>5, <1>6, <2>1, <2>6, WholeIsDecoded
  <2> QED
    BY <2>4, <2>5, <2>7
<1>7. CASE ~IsHeader(b[1])
  <2>1. b[1] \in 5 .. 5 + MaxData /\ b[2] = Magic /\ b[1] <= l
    BY <1>1, <1>2, <1>3, <1>7 DEF Sized, ItemLen, Starts
  <2>2. PeekFrameLength(b) > 0 /\ PeekFrameLength(b) = b[1]
    <3>1. Len(b) >= 1
      BY <1>2, <1>4
    <3> QED
      BY <2>1, <3>1, PeekIs
  <2>3. l < b[1]
    BY <1>2, <2>2
  <2> QED
    BY <1>5, <2>1, <2>3
<1> QED
  BY <1>6, <1>7

(* Where the reassembler finds nothing, no own frame stands. *)
LEMMA NoneLeft ==
  ASSUME PlanRight, CellsRight, FramesRight, ~NextPacket(reassembly).found,
         NEW k \in 1 .. streamed, Own(k)
  PROVE  ~Stamped(reassembly, Pts(k))
<1> SUFFICES ASSUME NEW t, Marks(reassembly, t), reassembly[t + 4] = Pts(k) PROVE FALSE
  BY DEF Stamped
<1> DEFINE R == reassembly
<1>1. R \in Seq(Nat) /\ FramesStand(R, Frames, streamed)
  BY DEF CellsRight, FramesRight
<1>2. t \in Nat /\ t + 5 <= Len(R) /\ Stops(R, t)
  BY <1>1, OwnStops
<1>3. ~\E s \in Nat : Finds(R, s)
  BY DEF Finds
<1> HIDE DEF R
<1>4. PICK s \in 0 .. Len(R) :
        /\ \A j \in 0 .. s - 1 : ~Stops(R, j)
        /\ \/ s = Len(R)
           \/ s + 1 = Len(R)
           \/ s + 2 <= Len(R) /\ R[s + 2] = Magic /\ s + R[s + 1] > Len(R)
  BY <1>1, <1>3, NextIs DEF Unfound
<1>5. PICK l \in Nat : l = Len(R)
  BY <1>1, LenProperties, Zenon
<1>6. t >= s
  <2>1. ~(t \in 0 .. s - 1)
    BY <1>2, <1>4
  <2> QED
    BY <1>2, <1>4, <2>1
<1>7. s + 2 <= l /\ R[s + 2] = Magic /\ s + R[s + 1] > l /\ s \in Nat
  BY <1>2, <1>4, <1>5, <1>6
<1>8. Marks(R, s)
  BY <1>5, <1>7 DEF Marks
<1>9. PICK j \in 1 .. streamed : StandsAs(R, s, Frames[j])
  BY <1>1, <1>8, MarkIs
<1>10. s + R[s + 1] <= l /\ R[s + 1] \in Nat
  <2>1. R[s + 1] \in 5 .. 5 + MaxData /\ s + R[s + 1] <= l
    BY <1>5, <1>9 DEF StandsAs
  <2> QED
    BY <2>1, LimitIs
<1> QED
  BY <1>5, <1>7, <1>10

LEMMA AllShown ==
  ASSUME PlanRight, CellsRight, Aligned, FramesRight, ShownRight, NoneMissing
  PROVE  PacketsInOrder
<1>1. /\ DOMAIN shown = 1 .. Len(shown)
      /\ streamed \in Nat /\ Len(Frames) \in Nat /\ streamed <= Len(Frames)
      /\ DOMAIN Frames = 1 .. Len(Frames)
  BY StreamIs, FramesAre DEF ShownRight, PlanRight, Frames
<1>2. \A k \in 1 .. streamed : k \in DOMAIN Frames /\ k <= streamed
  BY <1>1
<1>3. \A i \in DOMAIN shown : \E k \in DOMAIN Frames :
        (k <= streamed /\ Frames[k].version = Version) /\ shown[i] = Frames[k].packet
  BY <1>1, <1>2 DEF ShownRight, Own
<1>4. \A i, j \in DOMAIN shown : i < j => shown[i].pts < shown[j].pts
  BY <1>1 DEF ShownRight
<1>5. ASSUME toClient = <<>>, ~receiving, ~NextPacket(reassembly).found, ~Alien,
             NEW k \in DOMAIN Frames, k <= streamed, Frames[k].version = Version
      PROVE  \E i \in DOMAIN shown : shown[i] = Frames[k].packet
  <2>1. receiveBuf \in Seq(Nat) /\ Outbound = receiveBuf
    BY <1>5 DEF CellsRight, Outbound
  <2>2. Sync(receiveBuf) /\ Waiting
    BY <1>5, <2>1 DEF Aligned
  <2>3. receiveBuf = <<>>
    BY <2>1, <2>2, WaitingIsEmpty DEF Waiting, FrameLength
  <2>4. ~Stamped(Outbound, Pts(k))
    <3>1. \A s \in Nat : ~(s + 2 <= 0)
      OBVIOUS
    <3>2. \A s : ~Marks(<<>>, s)
      BY <3>1 DEF Marks
    <3> QED
      BY <2>1, <2>3, <3>2 DEF Stamped
  <2>5. k \in 1 .. streamed /\ Own(k)
    BY <1>1, <1>5 DEF Own
  <2>6. ~Stamped(reassembly, Pts(k))
    BY <1>5, <2>5, NoneLeft
  <2>7. IsShown(k)
    BY <1>5, <2>4, <2>5, <2>6 DEF NoneMissing
  <2> QED
    BY <1>1, <2>7 DEF IsShown
<1>6. (Plans[plan].toClient = {} \/ aliens = 0) => ~Alien
  BY DEF Alien
<1> QED
  BY <1>3, <1>4, <1>5, <1>6 DEF PacketsInOrder, Frames

-------------------------------------------------------------------------------
(* The inductive invariant: what is on its way to the server, what has become *)
(* of each request, what is on its way to the client, what it has told, and   *)
(* where the packets of the stream are.                                       *)
ToServer == Requested /\ Once /\ Understood /\ Served
ToClient == Replied /\ Aligned
Told == Reporting /\ AllRight
Streaming == FramesRight /\ ShownRight /\ NoneMissing
IInv == Typing /\ ToServer /\ NothingLost /\ ToClient /\ Told /\ Streaming

LEMMA StartRight ==
  ASSUME Init
  PROVE  IInv
<1> DEFINE nothing == <<>>
<1>1. /\ plan \in DOMAIN Plans
      /\ toServer = nothing /\ readBuf = nothing /\ reading = FALSE
      /\ tasks = {} /\ refused = {} /\ loggedIn = FALSE /\ served = {} /\ intended = nothing
      /\ toClient = nothing /\ receiveBuf = nothing /\ receiving = FALSE
      /\ asked = nothing /\ pending = 0 /\ user = nothing /\ reports = nothing
      /\ streamed = 0 /\ reassembly = nothing /\ shown = nothing
      /\ aliens = 0
  BY DEF Init
<1>2. /\ nothing \in Seq(Nat) /\ nothing \in Seq(Unmagic) /\ nothing \in Seq(Request)
      /\ nothing \in Seq(Packets)
      /\ Len(nothing) = 0 /\ DOMAIN nothing = {} /\ nothing \o nothing = nothing
      /\ \A k \in 1 .. Len(nothing) : FALSE
  OBVIOUS
<1>3. Inbound = nothing /\ Outbound = nothing
  BY <1>1, <1>2 DEF Inbound, Outbound
<1>4. Limit(plan) \in Nat /\ Len(Frames) \in Nat
  BY <1>1, PlanIs, FramesAre DEF Frames
<1>5. \A k : ~Starts(nothing, k) /\ ~HeldAt(nothing, k)
  BY <1>2 DEF Starts, HeldAt
<1>6. Sync(nothing)
  BY <1>5 DEF Sync
<1>7. \A M : HoldsOnly(nothing, M)
  BY <1>2 DEF HoldsOnly
<1>8. /\ \A k \in 1 .. Len(nothing) : nothing[k] # Magic
      /\ nothing \in Seq(Nat)
  BY <1>2
<1>9. /\ Ordered(nothing) /\ (\A fs, n : FramesStand(nothing, fs, n)) /\ (\A A : Before(A, nothing))
      /\ \A x : Below(x, nothing)
  BY <1>8, NoMark
<1>10. PeekFrameLength(nothing) = 0 /\ TryTakePacket(nothing).status = "incomplete"
  <2>1. ~(Len(nothing) >= 1) /\ Len(nothing) < TlvHeader
    BY <1>2 DEF TlvHeader
  <2> QED
    BY <2>1 DEF PeekFrameLength, TryTakePacket, Incomplete
<1>11. DecodeMessage(nothing).status # "decoded"
  <2>1. Len(nothing) < TlvHeader
    BY <1>2 DEF TlvHeader
  <2>2. ~(Len(nothing) >= TlvHeader)
    BY <1>2 DEF TlvHeader
  <2>3. DecodeMessage(nothing) = Incomplete(nothing)
    BY <2>1, <2>2 DEF DecodeMessage
  <2> QED
    BY <2>3 DEF Incomplete
<1>12. ~Alien
  BY <1>1 DEF Alien
<1> HIDE DEF nothing
<1>13. \A i : i \notin 1 .. 0
  OBVIOUS
<1>14. Typing
  <2>1. PlanRight
    BY <1>1, <1>4 DEF PlanRight
  <2>2. AskedRight
    <3>1. 0 \in 0 .. 0 /\ 0 <= Limit(plan)
      BY <1>4
    <3> QED
      BY <1>1, <1>2, <1>13, <3>1 DEF AskedRight
  <2>3. CellsRight
    BY <1>1, <1>2 DEF CellsRight
  <2>4. UserRight
    BY <1>1 DEF UserRight, nothing
  <2> QED
    BY <2>1, <2>2, <2>3, <2>4 DEF Typing
<1>15. ToServer
  <2>1. Requested
    BY <1>1, <1>3, <1>7 DEF Requested
  <2>2. Once
    BY <1>1, <1>2, <1>3, <1>5 DEF Once, OnceOnly, Identifies
  <2>3. Understood /\ Served
    BY <1>1, <1>2 DEF Understood, Meant, Served
  <2> QED
    BY <2>1, <2>2, <2>3 DEF ToServer
<1>16. NothingLost
  BY <1>1, <1>2, <1>3, <1>6, <1>11, <1>13 DEF NothingLost
<1>17. ToClient
  <2>1. Replied
    BY <1>3, <1>7 DEF Replied
  <2>2. Waiting
    BY <1>1, <1>10 DEF Waiting, FrameLength
  <2> QED
    BY <1>3, <1>6, <2>1, <2>2 DEF ToClient, Aligned
<1>18. Told
  BY <1>1, <1>2 DEF Told, Reporting, AllRight
<1>19. Streaming
  <2>1. FramesRight
    BY <1>1, <1>3, <1>6, <1>9 DEF FramesRight
  <2>2. ShownRight
    BY <1>1, <1>2, <1>13 DEF ShownRight
  <2>3. NoneMissing
    BY <1>1, <1>13 DEF NoneMissing
  <2> QED
    BY <2>1, <2>2, <2>3 DEF Streaming
<1> QED
  BY <1>14, <1>15, <1>16, <1>17, <1>18, <1>19 DEF IInv

LEMMA StepsKeep ==
  ASSUME IInv, Next
  PROVE  IInv'
<1>1. PlanRight /\ AskedRight /\ CellsRight /\ UserRight
  BY DEF IInv, Typing
<1>2. Requested /\ Once /\ Understood /\ Served
  BY DEF IInv, ToServer
<1>3. NothingLost /\ Replied /\ Aligned /\ Reporting /\ AllRight
  BY DEF IInv, ToClient, Told
<1>4. FramesRight /\ ShownRight /\ NoneMissing
  BY DEF IInv, Streaming
<1>5. Step
  BY <1>1, <1>2, NextSteps
<1>6. Typing'
  <2>1. PlanRight' /\ AskedRight' /\ CellsRight'
    BY <1>1, <1>5, PlanKept, AskedKept, CellsKept
  <2>2. UserRight'
    BY <1>1, <1>2, <1>3, <1>5, UserKept
  <2> QED
    BY <2>1, <2>2 DEF Typing
<1>7. ToServer'
  <2>1. Requested' /\ Once'
    BY <1>1, <1>2, <1>5, RequestedKept, OnceKept
  <2>2. Understood' /\ Served'
    BY <1>1, <1>2, <1>5, UnderstoodKept, ServedKept
  <2> QED
    BY <2>1, <2>2 DEF ToServer
<1>8. NothingLost'
  BY <1>1, <1>2, <1>3, <1>5, NothingLostKept
<1>9. ToClient'
  <2>1. Replied'
    BY <1>1, <1>2, <1>3, <1>5, RepliedKept
  <2>2. Aligned'
    BY <1>1, <1>2, <1>3, <1>5, AlignedKept
  <2> QED
    BY <2>1, <2>2 DEF ToClient
<1>10. Told'
  <2>1. Reporting'
    BY <1>1, <1>3, <1>5, ReportingKept
  <2>2. \A n : CutsBad(n) => Alien
    BY <1>1, <1>3, BadIsAlien
  <2>3. AllRight'
    BY <1>1, <1>2, <1>3, <1>5, <2>2, AllRightKept
  <2> QED
    BY <2>1, <2>3 DEF Told
<1>11. Streaming'
  <2>1. StreamStep
    BY <1>1, <1>2, <1>3, <1>4, <1>5, StreamSteps
  <2>2. PlanRight' /\ (Alien => Alien')
    BY <1>1, <1>5, PlanKept, AlienStays
  <2>3. FramesRight'
    BY <1>1, <1>4, <2>1, <2>2, FramesKept
  <2>4. ShownRight'
    BY <1>1, <1>4, <2>1, ShownKept
  <2>5. NoneMissing'
    BY <1>1, <1>4, <2>1, <2>2, NoneMissingKept
  <2> QED
    BY <2>3, <2>4, <2>5 DEF Streaming
<1> QED
  BY <1>6, <1>7, <1>8, <1>9, <1>10, <1>11 DEF IInv

LEMMA RestKeeps ==
  ASSUME IInv, UNCHANGED vars
  PROVE  IInv'
<1>1. /\ UNCHANGED <<plan, toServer, readBuf, reading, tasks, refused, loggedIn, served, intended>>
      /\ UNCHANGED <<toClient, receiveBuf, receiving, asked, pending, user, reports>>
      /\ UNCHANGED <<streamed, reassembly, shown, aliens>>
  BY DEF vars, serverVars, clientVars, streamVars
<1>2. Typing'
  BY <1>1 DEF IInv, Typing, PlanRight, AskedRight, CellsRight, UserRight, Frames
<1>3. Inbound' = Inbound /\ Outbound' = Outbound /\ Frames' = Frames /\ (Alien' <=> Alien)
  BY <1>1 DEF Inbound, Outbound, Frames, Alien
<1>4. ToServer'
  BY <1>1, <1>3 DEF IInv, ToServer, Requested, Once, Understood, Served
<1>5. NothingLost'
  BY <1>1, <1>3 DEF IInv, NothingLost, Kept, TooLongTold
<1>6. ToClient'
  <2>1. RepliesNow' = RepliesNow
    BY <1>1 DEF RepliesNow, Alien
  <2>2. Waiting' <=> Waiting
    BY <1>1 DEF Waiting, FrameLength
  <2> QED
    BY <1>1, <1>3, <2>1, <2>2 DEF IInv, ToClient, Replied, Aligned
<1>7. Told'
  <2>1. Reporting'
    BY <1>1 DEF IInv, Told, Reporting
  <2>2. AllRight'
    BY <1>1 DEF IInv, Told, AllRight, Alien
  <2> QED
    BY <2>1, <2>2 DEF Told
<1>8. Streaming'
  <2>1. FramesRight'
    BY <1>1, <1>3 DEF IInv, Streaming, FramesRight
  <2>2. ShownRight'
    BY <1>1, <1>3 DEF IInv, Streaming, ShownRight, Packets, Own
  <2>3. NoneMissing'
    BY <1>1, <1>3 DEF IInv, Streaming, NoneMissing, IsShown, Own, Pts
  <2> QED
    BY <2>1, <2>2, <2>3 DEF Streaming
<1> QED
  BY <1>2, <1>4, <1>5, <1>6, <1>7, <1>8 DEF IInv

-------------------------------------------------------------------------------
(* The two streams of cells and what either side has made of them fit, for   *)
(* all plans, results and limits: Typing says what the variables are made of,*)
(* the other parts are above.                                                *)
THEOREM ExchangeInvariant == Spec => []IInv
<1>1. Init => IInv
  BY StartRight
<1>2. IInv /\ [Next]_vars => IInv'
  BY StepsKeep, RestKeeps
<1> QED
  BY <1>1, <1>2, PTL DEF Spec

(* No service is ever called with other arguments than the ones the user of   *)
(* the client gave: what was encoded, cut, joined and parsed again is the same.*)
THEOREM ServiceSees == Spec => []ServiceSeesRequest
<1>1. IInv => ServiceSeesRequest
  BY AllSeen DEF IInv, Typing, ToServer
<1> QED
  BY <1>1, ExchangeInvariant, PTL

(* The client never reports to a request the answer to another one, nor       *)
(* anything else than what the handler of that request answered.              *)
THEOREM AnswersMatch == Spec => []AnswerMatchesRequest
<1>1. IInv => AnswerMatchesRequest
  BY AllRightIs DEF IInv, Told
<1> QED
  BY <1>1, ExchangeInvariant, PTL

(* The packets that the player shows are those the server streamed, in order  *)
(* and unaltered, however the stream was cut and what else came in between.   *)
THEOREM PacketsOrdered == Spec => []PacketsInOrder
<1>1. IInv => PacketsInOrder
  BY AllShown DEF IInv, Typing, ToClient, Streaming
<1> QED
  BY <1>1, ExchangeInvariant, PTL
=================================================================================
