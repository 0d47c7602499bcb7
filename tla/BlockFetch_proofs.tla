-------------------------- MODULE BlockFetch_proofs --------------------------
(***************************************************************************)
(* Proofs about Convert, for bytes of any number and width: what           *)
(* put_numeric makes of one more digit, what read_param takes off again,   *)
(* and that the two undo each other.  The number in a SQL_NUMERIC_STRUCT   *)
(* is defined from its highest byte down, as read_param goes through it.   *)
(*                                                                         *)
(* Then proofs about BlockFetch, for every result, every layout of the     *)
(* application's buffers and every size of the row array: a fetch writes   *)
(* nothing but the cells of its rows, the cells hold their values, and the *)
(* statuses tell which do.                                                 *)
(***************************************************************************)
EXTENDS BlockFetch, WellFoundedInduction, TLAPS

------------------------------------------------------------------------------
(* Least elements of sets of natural numbers, and induction over them.  A    *)
(* proof by induction is written as one about the least number that has no   *)
(* such property, a set and not an operator.                                 *)

\* A set of natural numbers that is not empty has a least element.
LEMMA LeastElement ==
    ASSUME NEW T, T \subseteq Nat, T # {}
    PROVE  \E x \in T : \A y \in T : x <= y
<1> DEFINE R == {ss \in Nat \X Nat : ss[1] < ss[2]}
<1>1. OpToRel(<, Nat) = R
  BY DEF OpToRel
<1>2. IsWellFoundedOn(R, Nat)
  BY <1>1, NatLessThanWellFounded
<1>3. PICK x \in T : \A y \in T : ~ (<<y, x>> \in R)
  <2> HIDE DEF R
  <2> QED BY <1>2, WFMin
<1>4. \A y \in T : ~ (y < x)
  BY <1>3
<1> QED BY <1>4

\* A function that its first value and a step from each value to the next determine.
IsRecursion(f, S, first, n, g) ==
    f \in [0 .. n -> S] /\ f[0] = first /\ \A k \in 1 .. n : f[k] = g[<<k, f[k - 1]>>]

\* Such a function of one value exists.
LEMMA RecursionBegins ==
    ASSUME NEW S, NEW first \in S, NEW g
    PROVE  \E f : IsRecursion(f, S, first, 0, g)
<1> DEFINE f == [k \in 0 .. 0 |-> first]
<1>1. f \in [0 .. 0 -> S] /\ f[0] = first
  OBVIOUS
<1>2. 1 .. 0 = {}
  OBVIOUS
<1> HIDE DEF f
<1>3. IsRecursion(f, S, first, 0, g)
  BY <1>1, <1>2 DEF IsRecursion
<1> QED BY <1>3

\* It can be continued by one value.
LEMMA RecursionContinues ==
    ASSUME NEW S, NEW first, NEW m \in Nat \ {0}, NEW g \in [(1 .. m) \X S -> S],
           NEW f, IsRecursion(f, S, first, m - 1, g)
    PROVE  \E h : IsRecursion(h, S, first, m, g)
<1> DEFINE h == [k \in 0 .. m |-> IF k = m THEN g[<<m, f[m - 1]>>] ELSE f[k]]
<1>1. f[m - 1] \in S /\ \A k \in 0 .. m : k # m => f[k] \in S
  BY DEF IsRecursion
<1>2. g[<<m, f[m - 1]>>] \in S
  BY <1>1
<1>3. h \in [0 .. m -> S]
  BY <1>1, <1>2
<1>4. h[0] = first
  BY DEF IsRecursion
<1>5. ASSUME NEW k \in 1 .. m PROVE h[k] = g[<<k, h[k - 1]>>]
  <2>1. h[k - 1] = f[k - 1]
    BY <1>5
  <2>2. CASE k = m
    BY <2>1, <2>2
  <2>3. CASE k # m
    <3>1. k \in 1 .. m - 1 /\ h[k] = f[k]
      BY <1>5, <2>3
    <3>2. f[k] = g[<<k, f[k - 1]>>]
      BY <3>1 DEF IsRecursion
    <3> QED BY <3>1, <3>2, <2>1, Zenon
  <2> QED BY <2>2, <2>3, Zenon
<1> HIDE DEF h
<1>6. IsRecursion(h, S, first, m, g)
  BY <1>3, <1>4, <1>5, Zenon DEF IsRecursion
<1> QED BY <1>6

\* It exists for any number of values.
LEMMA RecursionExists ==
    ASSUME NEW S, NEW first \in S, NEW n \in Nat, NEW g \in [(1 .. n) \X S -> S]
    PROVE  \E f : IsRecursion(f, S, first, n, g)
<1> DEFINE T == {m \in Nat : m <= n /\ ~ \E f : IsRecursion(f, S, first, m, g)}
<1>1. T \subseteq Nat
  OBVIOUS
<1>2. T = {}
  <2>1. SUFFICES ASSUME T # {} PROVE FALSE
    BY Zenon
  <2>2. PICK m \in T : \A y \in T : m <= y
    <3> HIDE DEF T
    <3> QED BY <1>1, <2>1, LeastElement
  <2>3. m # 0
    BY RecursionBegins
  <2>4. m - 1 \in Nat /\ m - 1 \notin T /\ m \in Nat \ {0} /\ m <= n
    BY <2>2, <2>3
  <2>5. PICK f : IsRecursion(f, S, first, m - 1, g)
    BY <2>4
  <2> DEFINE h == [p \in (1 .. m) \X S |-> g[p]]
  <2>6. h \in [(1 .. m) \X S -> S]
    BY <2>4
  <2>7. \A k \in 1 .. m, x \in S : h[<<k, x>>] = g[<<k, x>>]
    OBVIOUS
  <2>8. \A k \in 0 .. m - 1 : f[k] \in S
    BY <2>4, <2>5 DEF IsRecursion
  <2> HIDE DEF h
  <2>9. IsRecursion(f, S, first, m - 1, h)
    BY <2>4, <2>5, <2>7, <2>8 DEF IsRecursion
  <2>10. PICK f2 : IsRecursion(f2, S, first, m, h)
    BY <2>4, <2>6, <2>9, RecursionContinues
  <2>11. IsRecursion(f2, S, first, m, g)
    BY <2>4, <2>7, <2>10 DEF IsRecursion
  <2> QED BY <2>2, <2>11
<1>3. n \notin T
  BY <1>2
<1> QED BY <1>3

------------------------------------------------------------------------------
(* Induction over the members of a set *)

\* A set that has 0, and with each number up to n the next one, has all of them.
LEMMA InductionUpTo ==
    ASSUME NEW n \in Nat, NEW T, 0 \in T, \A k \in 1 .. n : k - 1 \in T => k \in T
    PROVE  n \in T /\ \A k \in 0 .. n : k \in T
<1> DEFINE R == {k \in 0 .. n : k \notin T}
<1>1. SUFFICES ASSUME R # {} PROVE FALSE
  <2>1. n \in 0 .. n
    OBVIOUS
  <2> QED BY <2>1
<1>2. PICK k \in R : \A y \in R : k <= y
  <2>1. R \subseteq Nat
    OBVIOUS
  <2> HIDE DEF R
  <2> QED BY <1>1, <2>1, LeastElement
<1>3. k \in 1 .. n /\ k - 1 \in 0 .. n /\ k - 1 \notin R
  BY <1>2
<1> QED BY <1>2, <1>3

\* A set that has each number when it has the smaller ones has all numbers.
LEMMA StrongInduction ==
    ASSUME NEW T, \A n \in Nat : (\A m \in 0 .. n - 1 : m \in T) => n \in T
    PROVE  \A n \in Nat : n \in T
<1> DEFINE R == {k \in Nat : k \notin T}
<1>1. SUFFICES ASSUME R # {} PROVE FALSE
  OBVIOUS
<1>2. PICK k \in R : \A y \in R : k <= y
  <2>1. R \subseteq Nat
    OBVIOUS
  <2> HIDE DEF R
  <2> QED BY <1>1, <2>1, LeastElement
<1>3. \A m \in 0 .. k - 1 : m \in T
  BY <1>2
<1> QED BY <1>2, <1>3

------------------------------------------------------------------------------
(* Recursive functions of a LET *)

\* A function that satisfies the equations as far as its values have the type is of that type.
LEMMA RecursionIs ==
    ASSUME NEW S, NEW first \in S, NEW n \in Nat, NEW g \in [(1 .. n) \X S -> S],
           NEW f, f = [k \in 0 .. n |-> f[k]], f[0] = first,
           \A k \in 1 .. n : f[k - 1] \in S => f[k] = g[<<k, f[k - 1]>>]
    PROVE  IsRecursion(f, S, first, n, g)
<1> DEFINE T == {k \in 0 .. n : f[k] \in S}
<1>1. 0 \in T
  OBVIOUS
<1>2. ASSUME NEW k \in 1 .. n, k - 1 \in T PROVE k \in T
  <2>1. f[k - 1] \in S
    BY <1>2, Zenon
  <2>2. f[k] = g[<<k, f[k - 1]>>]
    BY <2>1, Zenon
  <2>3. g[<<k, f[k - 1]>>] \in S
    <3> DEFINE x == f[k - 1]
    <3>1. x \in S
      BY <2>1
    <3> HIDE DEF x
    <3>2. <<k, x>> \in (1 .. n) \X S
      BY <3>1
    <3>3. g[<<k, x>>] \in S
      BY <3>2, Zenon
    <3> QED BY <3>3 DEF x
  <2>4. k \in 0 .. n
    OBVIOUS
  <2> QED BY <2>2, <2>3, <2>4, Zenon
<1> HIDE DEF T
<1>3. \A k \in 0 .. n : k \in T
  BY <1>1, <1>2, InductionUpTo
<1>4. \A k \in 0 .. n : f[k] \in S
  BY <1>3 DEF T
<1>5. f \in [0 .. n -> S]
  BY <1>4, Zenon
<1>6. ASSUME NEW k \in 1 .. n PROVE f[k] = g[<<k, f[k - 1]>>]
  <2>1. k - 1 \in 0 .. n
    OBVIOUS
  <2> QED BY <2>1, <1>4, Zenon
<1> QED BY <1>5, <1>6, Zenon DEF IsRecursion

\* The equations have one solution.
LEMMA RecursionIsUnique ==
    ASSUME NEW S, NEW first, NEW n \in Nat, NEW g, NEW f, IsRecursion(f, S, first, n, g),
           NEW m \in 0 .. n, NEW h, h[0] = first, \A k \in 1 .. m : h[k] = g[<<k, h[k - 1]>>]
    PROVE  \A k \in 0 .. m : f[k] = h[k]
<1> DEFINE T == {k \in 0 .. m : f[k] = h[k]}
<1>1. 0 \in T
  BY DEF IsRecursion
<1>2. \A k \in 1 .. m : k - 1 \in T => k \in T
  <2> TAKE k \in 1 .. m
  <2>1. f[k] = g[<<k, f[k - 1]>>] /\ h[k] = g[<<k, h[k - 1]>>]
    BY DEF IsRecursion
  <2> QED BY <2>1
<1>3. m \in Nat
  OBVIOUS
<1> HIDE DEF T
<1>4. \A k \in 0 .. m : k \in T
  BY <1>1, <1>2, <1>3, InductionUpTo
<1> QED BY <1>4 DEF T

------------------------------------------------------------------------------
(* Recursive functions that go down more than one step *)

\* A function up to n that takes its value from base for the numbers in small, and for every
\* other number from the value at the smaller number that down leads to.
IsDescent(f, n, S, small, base, down, g) ==
    f \in [0 .. n -> S] /\ \A k \in 0 .. n : f[k] = IF k \in small THEN base[k] ELSE g[<<k, f[down[k]]>>]

\* Two of them are the same as far as both go.
LEMMA DescentIsUnique ==
    ASSUME NEW S, NEW small, NEW base, NEW down, NEW g, \A k \in Nat \ small : down[k] \in 0 .. k - 1,
           NEW n \in Nat, NEW m \in Nat, NEW f, NEW h,
           IsDescent(f, n, S, small, base, down, g), IsDescent(h, m, S, small, base, down, g)
    PROVE  \A k \in Nat : k <= n /\ k <= m => f[k] = h[k]
<1> DEFINE T == {k \in Nat : k <= n /\ k <= m => f[k] = h[k]}
<1>1. ASSUME NEW k \in Nat, \A j \in 0 .. k - 1 : j \in T PROVE k \in T
  <2>1. SUFFICES ASSUME k <= n, k <= m PROVE f[k] = h[k]
    OBVIOUS
  <2>2. /\ f[k] = IF k \in small THEN base[k] ELSE g[<<k, f[down[k]]>>]
        /\ h[k] = IF k \in small THEN base[k] ELSE g[<<k, h[down[k]]>>]
    <3>1. k \in 0 .. n /\ k \in 0 .. m
      BY <2>1
    <3> QED BY <3>1, Zenon DEF IsDescent
  <2>3. CASE k \in small
    BY <2>2, <2>3, Zenon
  <2>4. CASE k \notin small
    <3> DEFINE d == down[k]
    <3>1. d \in 0 .. k - 1
      BY <2>4
    <3>2. d \in T
      BY <1>1, <3>1, Zenon
    <3> HIDE DEF d
    <3>3. d <= n /\ d <= m
      BY <2>1, <3>1
    <3>4. f[d] = h[d]
      BY <3>2, <3>3
    <3>5. f[down[k]] = h[down[k]]
      BY <3>4 DEF d
    <3> QED BY <2>2, <2>4, <3>5, Zenon
  <2> QED BY <2>3, <2>4, Zenon
<1> HIDE DEF T
<1>2. \A k \in Nat : k \in T
  BY <1>1, StrongInduction
<1> QED BY <1>2 DEF T

\* There is one up to any number.
LEMMA DescentGoesOn ==
    ASSUME NEW S, NEW small, NEW base, NEW down, NEW g, \A k \in Nat \ small : down[k] \in 0 .. k - 1,
           \A k \in Nat : base[k] \in S, \A k \in Nat, x \in S : g[<<k, x>>] \in S
    PROVE  \A n \in Nat : \E f : IsDescent(f, n, S, small, base, down, g)
<1> DEFINE T == {n \in Nat : \E f : IsDescent(f, n, S, small, base, down, g)}
<1>1. ASSUME NEW n \in Nat, \A j \in 0 .. n - 1 : j \in T PROVE n \in T
  <2>1. PICK f : n # 0 => IsDescent(f, n - 1, S, small, base, down, g)
    <3>1. CASE n = 0
      BY <3>1
    <3>2. CASE n # 0
      <4>1. n - 1 \in 0 .. n - 1
        BY <3>2
      <4>2. n - 1 \in T
        BY <1>1, <4>1, Zenon
      <4> QED BY <4>2
    <3> QED BY <3>1, <3>2
  <2> DEFINE last == IF n \in small THEN base[n] ELSE g[<<n, f[down[n]]>>]
             h == [k \in 0 .. n |-> IF k = n THEN last ELSE f[k]]
  <2>2. ASSUME NEW k \in 0 .. n - 1
        PROVE  f[k] \in S /\ f[k] = IF k \in small THEN base[k] ELSE g[<<k, f[down[k]]>>]
    <3>1. n # 0
      BY <2>2
    <3>2. f \in [0 .. n - 1 -> S]
      BY <2>1, <3>1, Zenon DEF IsDescent
    <3>3. f[k] = IF k \in small THEN base[k] ELSE g[<<k, f[down[k]]>>]
      BY <2>1, <3>1, Zenon DEF IsDescent
    <3> QED BY <3>2, <3>3, Zenon
  <2>3. last \in S
    <3>1. CASE n \in small
      BY <3>1
    <3>2. CASE n \notin small
      <4>1. down[n] \in 0 .. n - 1
        BY <3>2
      <4>2. f[down[n]] \in S
        BY <2>2, <4>1, Zenon
      <4> QED BY <3>2, <4>2
    <3> QED BY <3>1, <3>2, Zenon
  <2>4. h[n] = last /\ \A k \in 0 .. n - 1 : h[k] = f[k]
    <3> HIDE DEF last
    <3> QED OBVIOUS
  <2>5. h \in [0 .. n -> S]
    <3> HIDE DEF last
    <3>1. ASSUME NEW k \in 0 .. n PROVE (IF k = n THEN last ELSE f[k]) \in S
      <4>1. k # n => k \in 0 .. n - 1
        OBVIOUS
      <4> QED BY <2>2, <2>3, <4>1, Zenon
    <3> QED BY <3>1, Zenon
  <2>6. ASSUME NEW k \in 0 .. n PROVE h[k] = IF k \in small THEN base[k] ELSE g[<<k, h[down[k]]>>]
    <3> HIDE DEF h
    <3>1. k \in small \/ h[down[k]] = f[down[k]]
      <4>1. CASE k \in small
        BY <4>1
      <4>2. CASE k \notin small
        <5>1. down[k] \in 0 .. k - 1
          BY <4>2
        <5>2. down[k] \in 0 .. n - 1
          BY <5>1
        <5> QED BY <2>4, <5>2, Zenon
      <4> QED BY <4>1, <4>2, Zenon
    <3>2. CASE k = n
      BY <2>4, <3>1, <3>2, Zenon
    <3>3. CASE k # n
      <4>1. k \in 0 .. n - 1
        BY <3>3
      <4> QED BY <2>2, <2>4, <3>1, <4>1, Zenon
    <3> QED BY <3>2, <3>3, Zenon
  <2> HIDE DEF h, last
  <2>7. IsDescent(h, n, S, small, base, down, g)
    BY <2>5, <2>6, Zenon DEF IsDescent
  <2> QED BY <2>7
<1> HIDE DEF T
<1>2. \A n \in Nat : n \in T
  BY <1>1, StrongInduction
<1> QED BY <1>2 DEF T

\* What it takes for one to exist, and one for all numbers.
Descends(S, small, base, down, g) ==
    /\ \A k \in Nat \ small : down[k] \in 0 .. k - 1
    /\ \A k \in Nat : base[k] \in S
    /\ \A k \in Nat, x \in S : g[<<k, x>>] \in S
IsFullDescent(f, S, small, base, down, g) ==
    f \in [Nat -> S] /\ \A k \in Nat : f[k] = IF k \in small THEN base[k] ELSE g[<<k, f[down[k]]>>]

\* So there is one for all numbers.
LEMMA DescentExists ==
    ASSUME NEW S, NEW small, NEW base, NEW down, NEW g, Descends(S, small, base, down, g)
    PROVE  \E f : IsFullDescent(f, S, small, base, down, g)
<1> DEFINE up(n) == CHOOSE f : IsDescent(f, n, S, small, base, down, g)
           f == [n \in Nat |-> up(n)[n]]
<1>1. \A n \in Nat : IsDescent(up(n), n, S, small, base, down, g)
  <2> TAKE n \in Nat
  <2>1. \E h : IsDescent(h, n, S, small, base, down, g)
    <3>1. /\ \A k \in Nat \ small : down[k] \in 0 .. k - 1
          /\ \A k \in Nat : base[k] \in S
          /\ \A k \in Nat, x \in S : g[<<k, x>>] \in S
      BY Zenon DEF Descends
    <3> QED BY <3>1, DescentGoesOn
  <2> QED BY <2>1, Zenon
<1> HIDE DEF up
<1>2. \A n \in Nat, k \in Nat : k <= n => up(n)[k] = f[k]
  <2> TAKE n \in Nat, k \in Nat
  <2>1. IsDescent(up(n), n, S, small, base, down, g) /\ IsDescent(up(k), k, S, small, base, down, g)
    BY <1>1
  <2>2. k <= n => up(n)[k] = up(k)[k]
    <3>1. \A j \in Nat \ small : down[j] \in 0 .. j - 1
      BY Zenon DEF Descends
    <3> QED BY <2>1, <3>1, DescentIsUnique
  <2> QED BY <2>2
<1>3. \A k \in Nat : f[k] \in S
  <2> TAKE k \in Nat
  <2>1. up(k) \in [0 .. k -> S] /\ k \in 0 .. k
    BY <1>1 DEF IsDescent
  <2> QED BY <2>1
<1>4. ASSUME NEW k \in Nat PROVE f[k] = IF k \in small THEN base[k] ELSE g[<<k, f[down[k]]>>]
  <2>1. up(k)[k] = IF k \in small THEN base[k] ELSE g[<<k, up(k)[down[k]]>>]
    <3>1. k \in 0 .. k
      OBVIOUS
    <3> QED BY <1>1, <3>1, Zenon DEF IsDescent
  <2>2. f[k] = up(k)[k]
    OBVIOUS
  <2> HIDE DEF f
  <2>3. k \in small \/ up(k)[down[k]] = f[down[k]]
    <3>1. CASE k \in small
      BY <3>1
    <3>2. CASE k \notin small
      <4>1. down[k] \in 0 .. k - 1
        BY <3>2 DEF Descends
      <4>2. down[k] \in Nat /\ down[k] <= k
        BY <4>1
      <4> QED BY <1>2, <4>2, Zenon
    <3> QED BY <3>1, <3>2, Zenon
  <2> QED BY <2>1, <2>2, <2>3, Zenon
<1>5. f \in [Nat -> S]
  BY <1>3, Zenon
<1> HIDE DEF f
<1>6. IsFullDescent(f, S, small, base, down, g)
  BY <1>4, <1>5, Zenon DEF IsFullDescent
<1> QED BY <1>6

------------------------------------------------------------------------------
(* Numbers: Convert *)


\* h[k] is the number in the bytes of val from k up.
IsNumberOf(h, val) ==
    /\ h \in [1 .. Bytes + 1 -> Nat]
    /\ h[Bytes + 1] = 0
    /\ \A k \in 1 .. Bytes : h[k] = h[k + 1] * ByteBase + val[k]

------------------------------------------------------------------------------
(* Arithmetic *)

\* A quotient and a remainder make up the number.
LEMMA DivMod ==
    ASSUME NEW a \in Nat, NEW b \in Nat \ {0}
    PROVE  /\ a \div b \in Nat /\ a % b \in 0 .. b - 1
           /\ a = (a \div b) * b + (a % b)
<1>1. a \div b \in Int /\ a % b \in 0 .. b - 1
  OBVIOUS
<1>2. a = b * (a \div b) + (a % b)
  OBVIOUS
<1>3. a \div b >= 0
  OBVIOUS
<1> QED BY <1>1, <1>2, <1>3

\* Nothing else makes it up.
LEMMA DivModUnique ==
    ASSUME NEW b \in Nat \ {0}, NEW q \in Nat, NEW r \in 0 .. b - 1, NEW p \in Nat, NEW s \in 0 .. b - 1,
           q * b + r = p * b + s
    PROVE  q = p /\ r = s
<1>1. ASSUME NEW x \in Nat, NEW y \in Nat, NEW u \in 0 .. b - 1, NEW w \in 0 .. b - 1,
             x * b + u = y * b + w
      PROVE  ~(x < y)
  <2>1. SUFFICES ASSUME x < y PROVE FALSE
    OBVIOUS
  <2>2. PICK d \in Nat : y = x + 1 + d
    <3>1. y = x + 1 + (y - x - 1) /\ y - x - 1 \in Nat
      BY <2>1
    <3> QED BY <3>1
  <2>3. y * b = x * b + b + d * b
    BY <2>2
  <2>4. d * b \in Nat /\ x * b \in Nat
    OBVIOUS
  <2> QED BY <1>1, <2>3, <2>4
<1>2. q = p
  BY <1>1
<1> QED BY <1>2

\* Zero bytes and one more.
LEMMA BytesAre == Bytes \in Nat \ {0} /\ ByteBase \in Nat \ {0, 1}
BY ConvertConstants

\* Bytes divided and put together again.
LEMMA ByteDivMod ==
    ASSUME NEW a \in Nat
    PROVE  /\ a \div ByteBase \in Nat /\ a % ByteBase \in 0 .. ByteBase - 1
           /\ a = (a \div ByteBase) * ByteBase + (a % ByteBase)
BY BytesAre, DivMod

------------------------------------------------------------------------------
(* The recursive definitions *)

\* Every array of bytes is a number.
LEMMA NumberExists ==
    ASSUME NEW val \in Vals
    PROVE  \E h : IsNumberOf(h, val)
<1> DEFINE g == [p \in (1 .. Bytes) \X Nat |-> p[2] * ByteBase + val[Bytes + 1 - p[1]]]
<1>1. g \in [(1 .. Bytes) \X Nat -> Nat]
  <2>1. ASSUME NEW k \in 1 .. Bytes, NEW x \in Nat PROVE x * ByteBase + val[Bytes + 1 - k] \in Nat
    <3>1. Bytes + 1 - k \in 1 .. Bytes
      BY BytesAre
    <3>2. val[Bytes + 1 - k] \in Nat
      BY <3>1, BytesAre DEF Vals
    <3> QED BY <3>2, BytesAre
  <2> QED BY <2>1
<1>2. \A k \in 1 .. Bytes, x \in Nat : g[<<k, x>>] = x * ByteBase + val[Bytes + 1 - k]
  OBVIOUS
<1> HIDE DEF g
<1>3. PICK f : IsRecursion(f, Nat, 0, Bytes, g)
  BY <1>1, BytesAre, RecursionExists
<1> DEFINE h == [k \in 1 .. Bytes + 1 |-> f[Bytes + 1 - k]]
<1>4. h \in [1 .. Bytes + 1 -> Nat] /\ h[Bytes + 1] = 0
  BY <1>3, BytesAre DEF IsRecursion
<1>5. ASSUME NEW k \in 1 .. Bytes PROVE h[k] = h[k + 1] * ByteBase + val[k]
  <2> DEFINE m == Bytes + 1 - k
  <2>1. m \in 1 .. Bytes /\ Bytes + 1 - m = k /\ m - 1 = Bytes + 1 - (k + 1) /\ m - 1 \in 0 .. Bytes
    BY BytesAre
  <2>2. h[k] = f[m] /\ h[k + 1] = f[m - 1]
    BY <2>1, BytesAre
  <2>3. f[m] = g[<<m, f[m - 1]>>] /\ f[m - 1] \in Nat
    <3> HIDE DEF m
    <3> QED BY <1>3, <2>1 DEF IsRecursion
  <2>4. g[<<m, f[m - 1]>>] = f[m - 1] * ByteBase + val[Bytes + 1 - m]
    <3> HIDE DEF m
    <3> QED BY <2>1, <2>3, <1>2
  <2> HIDE DEF m, h
  <2> QED BY <2>1, <2>2, <2>3, <2>4
<1> HIDE DEF h
<1>6. IsNumberOf(h, val)
  BY <1>4, <1>5 DEF IsNumberOf
<1> QED BY <1>6

\* The sums at each byte, with what is carried from the byte below.
LEMMA SumsAre ==
    ASSUME NEW val \in Vals, NEW digit \in 0 .. 9
    PROVE  /\ \A k \in 0 .. Bytes : Sums(val, digit)[k] \in Nat
           /\ Sums(val, digit)[0] = digit * ByteBase
           /\ \A k \in 1 .. Bytes : Sums(val, digit)[k] = val[k] * 10 + Sums(val, digit)[k - 1] \div ByteBase
<1> DEFINE g == [p \in (1 .. Bytes) \X Nat |-> val[p[1]] * 10 + p[2] \div ByteBase]
           Right(f) == f = [k \in 0 .. Bytes |-> IF k = 0 THEN digit * ByteBase
                                                 ELSE val[k] * 10 + f[k - 1] \div ByteBase]
<1>1. g \in [(1 .. Bytes) \X Nat -> Nat]
  <2>1. ASSUME NEW k \in 1 .. Bytes, NEW x \in Nat PROVE val[k] * 10 + x \div ByteBase \in Nat
    <3>1. x \div ByteBase \in Nat
      BY ByteDivMod
    <3>2. val[k] \in Nat
      BY BytesAre DEF Vals
    <3> QED BY <3>1, <3>2
  <2> QED BY <2>1
<1>2. \A k \in 1 .. Bytes, x \in Nat : g[<<k, x>>] = val[k] * 10 + x \div ByteBase
  OBVIOUS
<1> HIDE DEF g
<1>3. digit * ByteBase \in Nat
  BY BytesAre
<1>4. PICK f : IsRecursion(f, Nat, digit * ByteBase, Bytes, g)
  BY <1>1, <1>3, BytesAre, RecursionExists
<1>5. Right(f)
  <2>1. \A k \in 1 .. Bytes : f[k] = val[k] * 10 + f[k - 1] \div ByteBase
    <3> TAKE k \in 1 .. Bytes
    <3>1. f[k - 1] \in Nat /\ f[k] = g[<<k, f[k - 1]>>]
      BY <1>4, BytesAre DEF IsRecursion
    <3> QED BY <3>1, <1>2
  <2>2. f = [k \in 0 .. Bytes |-> f[k]] /\ f[0] = digit * ByteBase
    BY <1>4 DEF IsRecursion
  <2>3. \A k \in 0 .. Bytes : f[k] = IF k = 0 THEN digit * ByteBase ELSE val[k] * 10 + f[k - 1] \div ByteBase
    <3> TAKE k \in 0 .. Bytes
    <3>1. k # 0 => k \in 1 .. Bytes
      BY BytesAre
    <3> QED BY <3>1, <2>1, <2>2, Zenon
  <2> QED BY <2>2, <2>3, Zenon
<1>6. Sums(val, digit) = CHOOSE s : Right(s)
  BY Zenon DEF Sums
<1> DEFINE S == Sums(val, digit)
<1>7. Right(S)
  BY <1>5, <1>6, Zenon
<1>8. S[0] = digit * ByteBase /\ \A k \in 1 .. Bytes : S[k] = val[k] * 10 + S[k - 1] \div ByteBase
  <2> HIDE DEF S
  <2> QED BY <1>7, BytesAre
<1>9. \A k \in 0 .. Bytes : S[k] \in Nat
  <2> HIDE DEF S
  <2> DEFINE T == {k \in 0 .. Bytes : S[k] \notin Nat}
  <2>1. SUFFICES ASSUME T # {} PROVE FALSE
    OBVIOUS
  <2>2. PICK k \in T : \A y \in T : k <= y
    <3>1. T \subseteq Nat
      BY BytesAre
    <3> HIDE DEF T
    <3> QED BY <2>1, <3>1, LeastElement
  <2>3. k # 0
    BY <1>3, <1>8
  <2>4. S[k - 1] \in Nat /\ k \in 1 .. Bytes
    BY <2>2, <2>3, BytesAre
  <2>5. S[k] \in Nat
    <3>1. S[k - 1] \div ByteBase \in Nat
      BY <2>4, ByteDivMod
    <3>2. val[k] \in Nat
      BY <2>4, BytesAre DEF Vals
    <3> QED BY <3>1, <3>2, <2>4, <1>8
  <2> QED BY <2>2, <2>5
<1> QED BY <1>8, <1>9

\* What a division has left of the number before each byte.
IsRest(cur, val) ==
    /\ cur \in [1 .. Bytes + 1 -> Nat]
    /\ cur[Bytes + 1] = 0
    /\ \A k \in 1 .. Bytes : cur[k] = (cur[k + 1] % 10) * ByteBase + val[k]

\* Every array of bytes can be divided.
LEMMA RestExists ==
    ASSUME NEW val \in Vals
    PROVE  \E cur : IsRest(cur, val)
<1> DEFINE g == [p \in (1 .. Bytes) \X Nat |-> (p[2] % 10) * ByteBase + val[Bytes + 1 - p[1]]]
<1>1. g \in [(1 .. Bytes) \X Nat -> Nat]
  <2>1. ASSUME NEW k \in 1 .. Bytes, NEW x \in Nat PROVE (x % 10) * ByteBase + val[Bytes + 1 - k] \in Nat
    <3>1. Bytes + 1 - k \in 1 .. Bytes
      BY BytesAre
    <3>2. val[Bytes + 1 - k] \in Nat
      BY <3>1, BytesAre DEF Vals
    <3>3. (x % 10) * ByteBase \in Nat
      <4>1. x % 10 \in Nat
        OBVIOUS
      <4> QED BY <4>1, BytesAre
    <3> QED BY <3>2, <3>3
  <2> QED BY <2>1
<1>2. \A k \in 1 .. Bytes, x \in Nat : g[<<k, x>>] = (x % 10) * ByteBase + val[Bytes + 1 - k]
  OBVIOUS
<1> HIDE DEF g
<1>3. PICK f : IsRecursion(f, Nat, 0, Bytes, g)
  BY <1>1, BytesAre, RecursionExists
<1> DEFINE h == [k \in 1 .. Bytes + 1 |-> f[Bytes + 1 - k]]
<1>4. h \in [1 .. Bytes + 1 -> Nat] /\ h[Bytes + 1] = 0
  BY <1>3, BytesAre DEF IsRecursion
<1>5. ASSUME NEW k \in 1 .. Bytes PROVE h[k] = (h[k + 1] % 10) * ByteBase + val[k]
  <2> DEFINE m == Bytes + 1 - k
  <2>1. m \in 1 .. Bytes /\ Bytes + 1 - m = k /\ m - 1 = Bytes + 1 - (k + 1) /\ m - 1 \in 0 .. Bytes
    BY BytesAre
  <2>2. h[k] = f[m] /\ h[k + 1] = f[m - 1]
    BY <2>1, BytesAre
  <2>3. f[m] = g[<<m, f[m - 1]>>] /\ f[m - 1] \in Nat
    <3> HIDE DEF m
    <3> QED BY <1>3, <2>1 DEF IsRecursion
  <2>4. g[<<m, f[m - 1]>>] = (f[m - 1] % 10) * ByteBase + val[Bytes + 1 - m]
    <3> HIDE DEF m
    <3> QED BY <2>1, <2>3, <1>2
  <2> HIDE DEF m, h
  <2> QED BY <2>1, <2>2, <2>3, <2>4
<1> HIDE DEF h
<1>6. IsRest(h, val)
  BY <1>4, <1>5 DEF IsRest
<1> QED BY <1>6

\* Divided is made from these rests.
LEMMA DividedIs ==
    ASSUME NEW val \in Vals
    PROVE  \E cur : /\ IsRest(cur, val)
                    /\ Divided(val).val = [k \in 1 .. Bytes |-> cur[k] \div 10]
                    /\ Divided(val).digit = cur[1] % 10
<1> DEFINE Right(f) == f = [k \in 1 .. Bytes + 1 |-> IF k = Bytes + 1 THEN 0
                                                    ELSE (f[k + 1] % 10) * ByteBase + val[k]]
           c == CHOOSE f : Right(f)
<1>1. PICK f : IsRest(f, val)
  BY RestExists
<1>2. Right(f)
  <2>1. f = [k \in 1 .. Bytes + 1 |-> f[k]]
    BY <1>1 DEF IsRest
  <2>2. \A k \in 1 .. Bytes + 1 : f[k] = IF k = Bytes + 1 THEN 0 ELSE (f[k + 1] % 10) * ByteBase + val[k]
    <3> TAKE k \in 1 .. Bytes + 1
    <3>1. k # Bytes + 1 => k \in 1 .. Bytes
      BY BytesAre
    <3> QED BY <3>1, <1>1, Zenon DEF IsRest
  <2> QED BY <2>1, <2>2, Zenon
<1>3. Right(c)
  BY <1>2, Zenon
<1>4. Divided(val) = [val |-> [k \in 1 .. Bytes |-> c[k] \div 10], digit |-> c[1] % 10]
  BY Zenon DEF Divided
<1> HIDE DEF c
<1>5. c[Bytes + 1] = 0 /\ \A k \in 1 .. Bytes : c[k] = (c[k + 1] % 10) * ByteBase + val[k]
  <2>1. Bytes + 1 \in 1 .. Bytes + 1 /\ \A k \in 1 .. Bytes : k \in 1 .. Bytes + 1 /\ k # Bytes + 1
    BY BytesAre
  <2> QED BY <1>3, <2>1, Zenon
<1>6. \A k \in 1 .. Bytes + 1 : c[k] \in Nat
  <2> DEFINE T == {j \in 0 .. Bytes : c[Bytes + 1 - j] \notin Nat}
  <2>1. SUFFICES T = {}
    <3>1. \A k \in 1 .. Bytes + 1 : Bytes + 1 - k \in 0 .. Bytes /\ Bytes + 1 - (Bytes + 1 - k) = k
      BY BytesAre
    <3> QED BY <3>1
  <2>2. SUFFICES ASSUME T # {} PROVE FALSE
    OBVIOUS
  <2>3. PICK j \in T : \A y \in T : j <= y
    <3>1. T \subseteq Nat
      BY BytesAre
    <3> HIDE DEF T
    <3> QED BY <2>2, <3>1, LeastElement
  <2>4. j # 0
    BY <1>5, BytesAre
  <2>5. j - 1 \in 0 .. Bytes /\ j - 1 \notin T
    BY <2>3, <2>4, BytesAre
  <2> DEFINE k == Bytes + 1 - j
  <2>6. k \in 1 .. Bytes /\ k + 1 = Bytes + 1 - (j - 1)
    BY <2>3, <2>4, BytesAre
  <2>7. c[k + 1] \in Nat
    BY <2>5, <2>6
  <2>8. c[k] = (c[k + 1] % 10) * ByteBase + val[k] /\ val[k] \in Nat
    <3> HIDE DEF k
    <3> QED BY <2>6, <1>5, BytesAre DEF Vals
  <2>9. (c[k + 1] % 10) * ByteBase \in Nat
    <3>1. c[k + 1] % 10 \in Nat
      <4> HIDE DEF k
      <4> QED BY <2>7
    <3> HIDE DEF k
    <3> QED BY <3>1, BytesAre
  <2>10. c[k] \in Nat
    <3> HIDE DEF k
    <3> QED BY <2>8, <2>9
  <2> QED BY <2>3, <2>10
<1>7. c \in [1 .. Bytes + 1 -> Nat]
  <2>1. c = [k \in 1 .. Bytes + 1 |-> c[k]]
    BY <1>3, Zenon
  <2> QED BY <1>6, <2>1, Zenon
<1>8. IsRest(c, val)
  BY <1>5, <1>7 DEF IsRest
<1> QED BY <1>4, <1>8

------------------------------------------------------------------------------
(* From byte to byte *)

\* A set that has the highest place, and with each place the one below, has all of them.
LEMMA Downwards ==
    ASSUME NEW T, T \subseteq 1 .. Bytes + 1, Bytes + 1 \in T, \A k \in 1 .. Bytes : k + 1 \in T => k \in T
    PROVE  \A k \in 1 .. Bytes + 1 : k \in T
<1> DEFINE R == {j \in 0 .. Bytes : Bytes + 1 - j \notin T}
<1>1. R = {}
  <2>1. SUFFICES ASSUME R # {} PROVE FALSE
    OBVIOUS
  <2>2. PICK j \in R : \A y \in R : j <= y
    <3>1. R \subseteq Nat
      BY BytesAre
    <3> HIDE DEF R
    <3> QED BY <2>1, <3>1, LeastElement
  <2>3. j # 0
    BY BytesAre
  <2>4. j - 1 \in 0 .. Bytes /\ j - 1 \notin R
    BY <2>2, <2>3, BytesAre
  <2>5. Bytes + 1 - (j - 1) \in T
    BY <2>4
  <2>6. Bytes + 1 - j \in 1 .. Bytes /\ (Bytes + 1 - j) + 1 = Bytes + 1 - (j - 1)
    BY <2>2, <2>3, BytesAre
  <2> QED BY <2>2, <2>5, <2>6
<1>2. ASSUME NEW k \in 1 .. Bytes + 1 PROVE k \in T
  <2>1. Bytes + 1 - k \in 0 .. Bytes /\ Bytes + 1 - (Bytes + 1 - k) = k
    BY BytesAre
  <2>2. Bytes + 1 - k \notin R
    BY <1>1
  <2> QED BY <2>1, <2>2
<1> QED BY <1>2

\* A set that has the lowest place, and with each place the one above, has all of them.
LEMMA Upwards ==
    ASSUME NEW T, T \subseteq 1 .. Bytes + 1, 1 \in T, \A k \in 1 .. Bytes : k \in T => k + 1 \in T
    PROVE  \A k \in 1 .. Bytes + 1 : k \in T
<1> DEFINE R == {j \in 1 .. Bytes + 1 : j \notin T}
<1>1. SUFFICES ASSUME R # {} PROVE FALSE
  OBVIOUS
<1>2. PICK j \in R : \A y \in R : j <= y
  <2>1. R \subseteq Nat
    BY BytesAre
  <2> HIDE DEF R
  <2> QED BY <1>1, <2>1, LeastElement
<1>3. j \in 1 .. Bytes + 1 /\ j # 1
  BY <1>2
<1>4. j - 1 \in 1 .. Bytes /\ (j - 1) + 1 = j
  BY <1>3, BytesAre
<1>5. j - 1 \in T
  BY <1>2, <1>4, BytesAre
<1> QED BY <1>2, <1>4, <1>5

\* What goes from byte k - 1 into byte k.
Carry(val, digit, k) == Sums(val, digit)[k - 1] \div ByteBase

\* The carries, and the bytes that a digit more leaves.
LEMMA CarriesAre ==
    ASSUME NEW acc, acc.val \in Vals, NEW digit \in 0 .. 9
    PROVE  /\ \A k \in 1 .. Bytes + 1 : Carry(acc.val, digit, k) \in Nat
           /\ Carry(acc.val, digit, 1) = digit
           /\ Shift(acc, digit).val \in Vals
           /\ \A k \in 1 .. Bytes :
                 acc.val[k] * 10 + Carry(acc.val, digit, k)
                     = Carry(acc.val, digit, k + 1) * ByteBase + Shift(acc, digit).val[k]
<1> DEFINE S == Sums(acc.val, digit)
<1>1. /\ \A k \in 0 .. Bytes : S[k] \in Nat
      /\ S[0] = digit * ByteBase
      /\ \A k \in 1 .. Bytes : S[k] = acc.val[k] * 10 + S[k - 1] \div ByteBase
  BY SumsAre
<1>2. Shift(acc, digit).val = [k \in 1 .. Bytes |-> S[k] % ByteBase]
  BY DEF Shift
<1>3. \A k \in 1 .. Bytes + 1 : Carry(acc.val, digit, k) = S[k - 1] \div ByteBase
  BY DEF Carry
<1> HIDE DEF S
<1>4. ASSUME NEW k \in 1 .. Bytes + 1 PROVE Carry(acc.val, digit, k) \in Nat
  <2>1. k - 1 \in 0 .. Bytes
    BY BytesAre
  <2> QED BY <2>1, <1>1, <1>3, ByteDivMod
<1>5. Carry(acc.val, digit, 1) = digit
  <2>1. 1 \in 1 .. Bytes + 1 /\ 0 \in 1 - 1 .. Bytes
    BY BytesAre
  <2>2. (digit * ByteBase) \div ByteBase = digit
    <3> DEFINE a == digit * ByteBase
    <3>1. a \in Nat
      BY BytesAre
    <3>2. a \div ByteBase \in Nat /\ a % ByteBase \in 0 .. ByteBase - 1 /\ a = (a \div ByteBase) * ByteBase + (a % ByteBase)
      BY <3>1, ByteDivMod
    <3>3. digit * ByteBase + 0 = (a \div ByteBase) * ByteBase + (a % ByteBase)
      <4>1. digit * ByteBase + 0 = a
        BY <3>1
      <4> QED BY <4>1, <3>2, Zenon
    <3>4. 0 \in 0 .. ByteBase - 1 /\ digit \in Nat
      BY BytesAre
    <3> HIDE DEF a
    <3>5. a \div ByteBase \in Nat /\ ByteBase \in Nat \ {0} /\ a % ByteBase \in 0 .. ByteBase - 1
      BY <3>2, BytesAre
    <3>6. digit = a \div ByteBase
      BY <3>3, <3>4, <3>5, DivModUnique
    <3> QED BY <3>6 DEF a
  <2> QED BY <2>1, <2>2, <1>1, <1>3
<1>6. Shift(acc, digit).val \in Vals
  <2>1. ASSUME NEW k \in 1 .. Bytes PROVE S[k] % ByteBase \in 0 .. ByteBase - 1
    BY <1>1, ByteDivMod, BytesAre
  <2> QED BY <2>1, <1>2 DEF Vals
<1>7. ASSUME NEW k \in 1 .. Bytes
      PROVE  acc.val[k] * 10 + Carry(acc.val, digit, k)
                 = Carry(acc.val, digit, k + 1) * ByteBase + Shift(acc, digit).val[k]
  <2>1. k \in 0 .. Bytes /\ k \in 1 .. Bytes + 1 /\ k + 1 \in 1 .. Bytes + 1 /\ (k + 1) - 1 = k
    BY BytesAre
  <2>2. S[k] \in Nat
    BY <2>1, <1>1
  <2>3. S[k] = (S[k] \div ByteBase) * ByteBase + (S[k] % ByteBase)
    BY <2>2, ByteDivMod
  <2>4. Carry(acc.val, digit, k) = S[k - 1] \div ByteBase /\ Carry(acc.val, digit, k + 1) = S[k] \div ByteBase
    BY <2>1, <1>3
  <2>5. Shift(acc, digit).val[k] = S[k] % ByteBase
    BY <1>2
  <2>6. S[k] = acc.val[k] * 10 + S[k - 1] \div ByteBase
    BY <1>1
  <2> QED BY <2>3, <2>4, <2>5, <2>6
<1> QED BY <1>4, <1>5, <1>6, <1>7

------------------------------------------------------------------------------
(* The number in the structure *)

\* Times the base.
LEMMA Distributes ==
    ASSUME NEW y \in Nat, NEW c \in Nat, NEW b \in Nat
    PROVE  (10 * y + c) * b = 10 * (y * b) + c * b /\ y * b \in Nat /\ c * b \in Nat
OBVIOUS

\* The numbers and their bytes are natural numbers.
LEMMA NumberSteps ==
    ASSUME NEW val \in Vals, NEW h, IsNumberOf(h, val)
    PROVE  /\ \A k \in 1 .. Bytes + 1 : h[k] \in Nat
           /\ \A k \in 1 .. Bytes : val[k] \in 0 .. ByteBase - 1 /\ val[k] \in Nat
           /\ \A k \in 1 .. Bytes : h[k] \in Nat /\ h[k + 1] \in Nat /\ h[k] = h[k + 1] * ByteBase + val[k]
           /\ h[Bytes + 1] = 0
<1>1. \A k \in 1 .. Bytes : k \in 1 .. Bytes + 1 /\ k + 1 \in 1 .. Bytes + 1
  BY BytesAre
<1>2. \A k \in 1 .. Bytes : val[k] \in 0 .. ByteBase - 1 /\ val[k] \in Nat
  BY BytesAre DEF Vals
<1> QED BY <1>1, <1>2 DEF IsNumberOf

\* Without a carry out of the highest byte, put_numeric's number * 10 + digit is exact.
LEMMA ShiftIsExact ==
    ASSUME NEW acc, acc.val \in Vals, NEW digit \in 0 .. 9, Carry(acc.val, digit, Bytes + 1) = 0,
           NEW h, IsNumberOf(h, acc.val), NEW g, IsNumberOf(g, Shift(acc, digit).val)
    PROVE  g[1] = 10 * h[1] + digit
<1> DEFINE c(k) == Carry(acc.val, digit, k)
           T == {k \in 1 .. Bytes + 1 : g[k] = 10 * h[k] + c(k)}
           new == Shift(acc, digit).val
<1>1. /\ \A k \in 1 .. Bytes + 1 : c(k) \in Nat
      /\ c(1) = digit /\ new \in Vals
      /\ \A k \in 1 .. Bytes : acc.val[k] * 10 + c(k) = c(k + 1) * ByteBase + new[k]
  BY CarriesAre
<1>2. Bytes + 1 \in T
  <2>1. g[Bytes + 1] = 0 /\ h[Bytes + 1] = 0 /\ Bytes + 1 \in 1 .. Bytes + 1
    BY BytesAre DEF IsNumberOf
  <2> QED BY <2>1
<1>3. ASSUME NEW k \in 1 .. Bytes, k + 1 \in T PROVE k \in T
  <2>1. c(k) \in Nat /\ c(k + 1) \in Nat /\ k \in 1 .. Bytes + 1
    <3>1. k \in 1 .. Bytes + 1 /\ k + 1 \in 1 .. Bytes + 1
      BY BytesAre
    <3> HIDE DEF c
    <3> QED BY <3>1, <1>1
  <2>2. g[k + 1] = 10 * h[k + 1] + c(k + 1)
    BY <1>3
  <2> HIDE DEF c, T
  <2>3. g[k] \in Nat /\ g[k + 1] \in Nat /\ g[k] = g[k + 1] * ByteBase + new[k] /\ new[k] \in Nat
    <3> HIDE DEF new
    <3>1. IsNumberOf(g, new)
      BY DEF new
    <3> QED BY <3>1, <1>1, NumberSteps
  <2> HIDE DEF new
  <2>4. h[k] \in Nat /\ h[k + 1] \in Nat /\ h[k] = h[k + 1] * ByteBase + acc.val[k] /\ acc.val[k] \in Nat
    BY NumberSteps
  <2>5. acc.val[k] * 10 + c(k) = c(k + 1) * ByteBase + new[k]
    BY <1>1
  <2>6. g[k + 1] * ByteBase + new[k] = 10 * (h[k + 1] * ByteBase + acc.val[k]) + c(k)
    <3>1. ByteBase \in Nat
      BY BytesAre
    <3>2. /\ (10 * h[k + 1] + c(k + 1)) * ByteBase = 10 * (h[k + 1] * ByteBase) + c(k + 1) * ByteBase
          /\ h[k + 1] * ByteBase \in Nat /\ c(k + 1) * ByteBase \in Nat
      BY <2>1, <2>4, <3>1, Distributes
    <3>3. g[k + 1] * ByteBase = 10 * (h[k + 1] * ByteBase) + c(k + 1) * ByteBase
      BY <2>2, <3>2, Zenon
    <3> QED BY <2>1, <2>3, <2>4, <2>5, <3>2, <3>3
  <2>7. g[k] = 10 * h[k] + c(k)
    BY <2>3, <2>4, <2>6
  <2> QED BY <2>1, <2>7 DEF T
<1>4. T \subseteq 1 .. Bytes + 1
  OBVIOUS
<1>5. 1 \in T
  <2> HIDE DEF T
  <2>1. 1 \in 1 .. Bytes + 1
    BY BytesAre
  <2> QED BY <2>1, <1>2, <1>3, <1>4, Downwards
<1> QED BY <1>1, <1>5

\* A byte more of the number: what was carried and what stays make up the byte times ten.
LEMMA ByteMoves ==
    ASSUME NEW hb \in Nat, NEW cb \in Nat, NEW v \in Nat, NEW d \in Nat, NEW n \in Nat, v * 10 + d = cb + n
    PROVE  (10 * hb + cb) + n = 10 * (hb + v) + d
OBVIOUS

\* Where some array of bytes holds number * 10 + digit, nothing is carried out of the highest
\* byte, and that array is what Shift makes.
LEMMA ShiftFindsIt ==
    ASSUME NEW acc, acc.val \in Vals, NEW digit \in 0 .. 9, NEW h, IsNumberOf(h, acc.val),
           NEW other \in Vals, NEW g, IsNumberOf(g, other), g[1] = 10 * h[1] + digit
    PROVE  Carry(acc.val, digit, Bytes + 1) = 0 /\ Shift(acc, digit).val = other
<1> DEFINE c(k) == Carry(acc.val, digit, k)
           T == {k \in 1 .. Bytes + 1 : g[k] = 10 * h[k] + c(k)}
           new == Shift(acc, digit).val
<1>1. /\ \A k \in 1 .. Bytes + 1 : c(k) \in Nat
      /\ c(1) = digit /\ new \in Vals
      /\ \A k \in 1 .. Bytes : acc.val[k] * 10 + c(k) = c(k + 1) * ByteBase + new[k]
  BY CarriesAre
<1>2. 1 \in T
  <2>1. 1 \in 1 .. Bytes + 1
    BY BytesAre
  <2> QED BY <1>1, <2>1
<1>3. ASSUME NEW k \in 1 .. Bytes, k \in T PROVE k + 1 \in T /\ other[k] = new[k]
  <2>1. c(k) \in Nat /\ c(k + 1) \in Nat /\ k + 1 \in 1 .. Bytes + 1
    <3>1. k \in 1 .. Bytes + 1 /\ k + 1 \in 1 .. Bytes + 1
      BY BytesAre
    <3> HIDE DEF c
    <3> QED BY <3>1, <1>1
  <2>2. g[k] = 10 * h[k] + c(k)
    BY <1>3
  <2> HIDE DEF c, T
  <2>3. new[k] \in 0 .. ByteBase - 1 /\ new[k] \in Nat
    <3> HIDE DEF new
    <3>1. new[k] \in 0 .. ByteBase - 1
      BY <1>1 DEF Vals
    <3> QED BY <3>1, BytesAre
  <2> HIDE DEF new
  <2>4. h[k] \in Nat /\ h[k + 1] \in Nat /\ h[k] = h[k + 1] * ByteBase + acc.val[k] /\ acc.val[k] \in Nat
    BY NumberSteps
  <2>5. /\ g[k] \in Nat /\ g[k + 1] \in Nat /\ g[k] = g[k + 1] * ByteBase + other[k]
        /\ other[k] \in 0 .. ByteBase - 1
    BY NumberSteps
  <2>6. acc.val[k] * 10 + c(k) = c(k + 1) * ByteBase + new[k]
    BY <1>1
  <2> DEFINE x == 10 * h[k + 1] + c(k + 1)
  <2>7. x \in Nat /\ x = 10 * h[k + 1] + c(k + 1)
    BY <2>1, <2>4
  <2> HIDE DEF x
  <2>8. x * ByteBase + new[k] = 10 * (h[k + 1] * ByteBase + acc.val[k]) + c(k)
    <3>1. ByteBase \in Nat
      BY BytesAre
    <3>2. /\ (10 * h[k + 1] + c(k + 1)) * ByteBase = 10 * (h[k + 1] * ByteBase) + c(k + 1) * ByteBase
          /\ h[k + 1] * ByteBase \in Nat /\ c(k + 1) * ByteBase \in Nat
      BY <2>1, <2>4, <3>1, Distributes
    <3>3. x * ByteBase = 10 * (h[k + 1] * ByteBase) + c(k + 1) * ByteBase
      BY <2>7, <3>2, Zenon
    <3>4. (10 * (h[k + 1] * ByteBase) + c(k + 1) * ByteBase) + new[k] = 10 * (h[k + 1] * ByteBase + acc.val[k]) + c(k)
      BY <2>1, <2>3, <2>4, <2>6, <3>2, ByteMoves
    <3> QED BY <3>3, <3>4, Zenon
  <2>9. g[k + 1] * ByteBase + other[k] = x * ByteBase + new[k]
    BY <2>2, <2>4, <2>5, <2>8
  <2>10. g[k + 1] = x /\ other[k] = new[k]
    <3>1. ByteBase \in Nat \ {0}
      BY BytesAre
    <3> DEFINE a == g[k + 1]
               u == other[k]
               w == new[k]
    <3>2. a \in Nat /\ u \in 0 .. ByteBase - 1 /\ x \in Nat /\ w \in 0 .. ByteBase - 1
      BY <2>3, <2>5, <2>7, Zenon
    <3>3. a * ByteBase + u = x * ByteBase + w
      BY <2>9
    <3> HIDE DEF a, u, w
    <3>4. a = x /\ u = w
      BY <3>1, <3>2, <3>3, DivModUnique
    <3> QED BY <3>4 DEF a, u, w
  <2> QED BY <2>1, <2>7, <2>10 DEF T
<1>4. T \subseteq 1 .. Bytes + 1
  OBVIOUS
<1>5. \A k \in 1 .. Bytes + 1 : k \in T
  <2> HIDE DEF T, c, new
  <2>1. \A k \in 1 .. Bytes : k \in T => k + 1 \in T
    BY <1>3
  <2> QED BY <2>1, <1>2, <1>4, Upwards
<1>6. c(Bytes + 1) = 0
  <2>1. Bytes + 1 \in 1 .. Bytes + 1
    BY BytesAre
  <2>2. g[Bytes + 1] = 0 /\ h[Bytes + 1] = 0
    BY DEF IsNumberOf
  <2>3. g[Bytes + 1] = 10 * h[Bytes + 1] + c(Bytes + 1)
    BY <1>5, <2>1
  <2>4. c(Bytes + 1) \in Nat
    <3> HIDE DEF c
    <3> QED BY <2>1, <1>1
  <2> HIDE DEF c
  <2> QED BY <2>2, <2>3, <2>4
<1>7. new = other
  <2> HIDE DEF T, c, new
  <2>1. \A k \in 1 .. Bytes : k \in 1 .. Bytes + 1
    BY BytesAre
  <2>2. \A k \in 1 .. Bytes : other[k] = new[k]
    <3> TAKE k \in 1 .. Bytes
    <3>1. k \in T
      BY <2>1, <1>5
    <3> QED BY <3>1, <1>3
  <2>3. new \in Vals /\ other \in Vals
    BY <1>1, Zenon
  <2>4. new = [k \in 1 .. Bytes |-> new[k]] /\ other = [k \in 1 .. Bytes |-> other[k]]
    BY <2>3, Zenon DEF Vals
  <2> QED BY <2>2, <2>4
<1> QED BY <1>6, <1>7

\* A division of a number by 10 leaves a number and a digit.
LEMMA DivisionIsExact ==
    ASSUME NEW val \in Vals, NEW h, IsNumberOf(h, val)
    PROVE  /\ Divided(val).val \in Vals /\ Divided(val).digit \in 0 .. 9
           /\ \A q : IsNumberOf(q, Divided(val).val) => h[1] = 10 * q[1] + Divided(val).digit
<1>1. PICK cur : /\ IsRest(cur, val)
                 /\ Divided(val).val = [k \in 1 .. Bytes |-> cur[k] \div 10]
                 /\ Divided(val).digit = cur[1] % 10
  BY DividedIs
<1> DEFINE quot == [k \in 1 .. Bytes |-> cur[k] \div 10]
<1>2. \A k \in 1 .. Bytes + 1 : cur[k] \in Nat
  BY <1>1 DEF IsRest
<1>3. 1 \in 1 .. Bytes + 1 /\ \A k \in 1 .. Bytes : k \in 1 .. Bytes + 1 /\ k + 1 \in 1 .. Bytes + 1
  BY BytesAre
<1>4. cur[1] % 10 \in 0 .. 9
  BY <1>2, <1>3
<1>5. quot \in Vals
  <2>1. ASSUME NEW k \in 1 .. Bytes PROVE cur[k] \div 10 \in 0 .. ByteBase - 1
    <3>1. cur[k] \in Nat /\ cur[k + 1] \in Nat
      BY <1>2, <1>3
    <3>2. cur[k] = (cur[k + 1] % 10) * ByteBase + val[k]
      BY <1>1 DEF IsRest
    <3>3. val[k] \in 0 .. ByteBase - 1
      BY DEF Vals
    <3> DEFINE r == cur[k + 1] % 10
    <3>4. r \in 0 .. 9
      BY <3>1
    <3>5. cur[k] = r * ByteBase + val[k]
      BY <3>2
    <3> HIDE DEF r
    <3>6. r * ByteBase <= 9 * ByteBase
      BY <3>4, BytesAre
    <3>7. r * ByteBase \in Nat
      BY <3>4, BytesAre
    <3>8. cur[k] < 10 * ByteBase
      BY <3>3, <3>5, <3>6, <3>7, BytesAre
    <3> QED BY <3>1, <3>8, BytesAre
  <2> QED BY <2>1 DEF Vals
<1>6. ASSUME NEW q, IsNumberOf(q, quot) PROVE h[1] = 10 * q[1] + (cur[1] % 10)
  <2> DEFINE T == {k \in 1 .. Bytes + 1 : h[k] = 10 * q[k] + (cur[k] % 10)}
  <2>1. Bytes + 1 \in T
    <3>1. h[Bytes + 1] = 0 /\ q[Bytes + 1] = 0 /\ cur[Bytes + 1] = 0 /\ Bytes + 1 \in 1 .. Bytes + 1
      BY <1>1, <1>6, BytesAre DEF IsNumberOf, IsRest
    <3> QED BY <3>1
  <2>2. ASSUME NEW k \in 1 .. Bytes, k + 1 \in T PROVE k \in T
    <3>1. cur[k] \in Nat /\ cur[k + 1] \in Nat
      BY <1>2, <1>3
    <3> DEFINE r == cur[k + 1] % 10
    <3>2. r \in Nat /\ h[k + 1] = 10 * q[k + 1] + r
      BY <2>2, <3>1
    <3>3. cur[k] = r * ByteBase + val[k]
      BY <1>1 DEF IsRest
    <3> HIDE DEF r, T
    <3>4. quot[k] = cur[k] \div 10
      OBVIOUS
    <3> HIDE DEF quot
    <3>5. /\ q[k] \in Nat /\ q[k + 1] \in Nat /\ quot[k] \in Nat
          /\ q[k] = q[k + 1] * ByteBase + quot[k]
      BY <1>5, <1>6, NumberSteps
    <3>6. h[k] \in Nat /\ h[k + 1] \in Nat /\ h[k] = h[k + 1] * ByteBase + val[k] /\ val[k] \in Nat
      BY NumberSteps
    <3>7. ByteBase \in Nat
      BY BytesAre
    <3>8. /\ (10 * q[k + 1] + r) * ByteBase = 10 * (q[k + 1] * ByteBase) + r * ByteBase
          /\ q[k + 1] * ByteBase \in Nat /\ r * ByteBase \in Nat
      BY <3>2, <3>5, <3>7, Distributes
    <3>9. h[k + 1] * ByteBase = 10 * (q[k + 1] * ByteBase) + r * ByteBase
      BY <3>2, <3>8, Zenon
    <3>10. cur[k] = 10 * quot[k] + (cur[k] % 10) /\ cur[k] % 10 \in Nat
      BY <3>1, <3>4
    <3>11. h[k] = 10 * q[k] + (cur[k] % 10)
      <4> DEFINE a == q[k + 1] * ByteBase
                 d == cur[k] % 10
      <4>1. a \in Nat /\ d \in Nat /\ q[k] = a + quot[k] /\ cur[k] = 10 * quot[k] + d
        BY <3>5, <3>8, <3>10
      <4>2. h[k] = 10 * a + (r * ByteBase + val[k])
        BY <3>6, <3>8, <3>9
      <4> HIDE DEF a, d
      <4>3. h[k] = 10 * a + cur[k]
        BY <3>3, <4>2
      <4>4. h[k] = 10 * q[k] + d
        BY <3>5, <4>1, <4>3
      <4> QED BY <4>4 DEF d
    <3> QED BY <1>3, <3>11 DEF T
  <2>3. T \subseteq 1 .. Bytes + 1
    OBVIOUS
  <2>4. 1 \in T
    <3> HIDE DEF T
    <3> QED BY <1>3, <2>1, <2>2, <2>3, Downwards
  <2> QED BY <2>4
<1> QED BY <1>1, <1>4, <1>5, <1>6

\* Two arrays of bytes with the same number are the same.
LEMMA NumberIsUnique ==
    ASSUME NEW val \in Vals, NEW other \in Vals, NEW h, IsNumberOf(h, val), NEW g, IsNumberOf(g, other),
           h[1] = g[1]
    PROVE  val = other
<1> DEFINE T == {k \in 1 .. Bytes + 1 : h[k] = g[k]}
<1>1. 1 \in T
  BY BytesAre
<1>2. ASSUME NEW k \in 1 .. Bytes, k \in T PROVE k + 1 \in T /\ val[k] = other[k]
  <2>1. h[k] = g[k]
    BY <1>2
  <2>2. /\ h[k + 1] \in Nat /\ h[k] = h[k + 1] * ByteBase + val[k]
        /\ val[k] \in 0 .. ByteBase - 1
    BY NumberSteps
  <2>3. /\ g[k + 1] \in Nat /\ g[k] = g[k + 1] * ByteBase + other[k]
        /\ other[k] \in 0 .. ByteBase - 1
    BY NumberSteps
  <2>4. ByteBase \in Nat \ {0} /\ k + 1 \in 1 .. Bytes + 1
    BY BytesAre
  <2>5. h[k + 1] * ByteBase + val[k] = g[k + 1] * ByteBase + other[k]
    BY <2>1, <2>2, <2>3, Zenon
  <2>6. h[k + 1] \in Nat /\ g[k + 1] \in Nat /\ val[k] \in 0 .. ByteBase - 1 /\ other[k] \in 0 .. ByteBase - 1
    BY <2>2, <2>3, Zenon
  <2>7. h[k + 1] = g[k + 1] /\ val[k] = other[k]
    <3>1. ByteBase \in Nat \ {0}
      BY BytesAre
    <3> DEFINE a == h[k + 1]
               b == g[k + 1]
               u == val[k]
               w == other[k]
    <3>2. a * ByteBase + u = b * ByteBase + w
      BY <2>5
    <3>3. a \in Nat /\ b \in Nat /\ u \in 0 .. ByteBase - 1 /\ w \in 0 .. ByteBase - 1
      BY <2>6
    <3> HIDE DEF a, b, u, w
    <3>4. a = b /\ u = w
      BY <3>1, <3>2, <3>3, DivModUnique
    <3> QED BY <3>4 DEF a, b, u, w
  <2> QED BY <2>4, <2>7
<1>3. T \subseteq 1 .. Bytes + 1
  OBVIOUS
<1> HIDE DEF T
<1>4. \A k \in 1 .. Bytes + 1 : k \in T
  BY <1>1, <1>2, <1>3, Upwards
<1>5. \A k \in 1 .. Bytes : val[k] = other[k]
  <2> TAKE k \in 1 .. Bytes
  <2>1. k \in T
    BY <1>4, BytesAre
  <2> QED BY <2>1, <1>2
<1>6. val = [k \in 1 .. Bytes |-> val[k]] /\ other = [k \in 1 .. Bytes |-> other[k]]
  BY Zenon DEF Vals
<1> QED BY <1>5, <1>6

\* What Shift says of an overflow.
LEMMA OverflowIs ==
    ASSUME NEW acc, acc.over = FALSE, acc.val \in Vals, NEW digit \in 0 .. 9
    PROVE  Shift(acc, digit).over = (Carry(acc.val, digit, Bytes + 1) # 0)
<1>1. Carry(acc.val, digit, Bytes + 1) = Sums(acc.val, digit)[Bytes] \div ByteBase
  <2> DEFINE n == Bytes + 1
  <2>1. n - 1 = Bytes
    BY BytesAre
  <2> HIDE DEF n
  <2>2. Carry(acc.val, digit, n) = Sums(acc.val, digit)[Bytes] \div ByteBase
    BY <2>1, Zenon DEF Carry
  <2> QED BY <2>2 DEF n
<1>2. Shift(acc, digit).over = (acc.over \/ Sums(acc.val, digit)[Bytes] \div ByteBase # 0)
  BY Zenon DEF Shift
<1> QED BY <1>1, <1>2, Zenon

------------------------------------------------------------------------------
(* What put_numeric and read_param make of a digit *)

\* put_numeric appends one digit to the number it has so far: 22003 exactly when no structure
\* could hold the longer number, and otherwise the structure holds it (convert.cpp:108-119).
THEOREM NumericAppendsDigit ==
    ASSUME NEW acc, acc.over = FALSE, acc.val \in Vals, NEW digit \in 0 .. 9, NEW h, IsNumberOf(h, acc.val)
    PROVE  /\ Shift(acc, digit).over
                 = ~ \E val \in Vals : \E g : IsNumberOf(g, val) /\ g[1] = 10 * h[1] + digit
           /\ ~Shift(acc, digit).over =>
                 /\ Shift(acc, digit).val \in Vals
                 /\ \A g : IsNumberOf(g, Shift(acc, digit).val) => g[1] = 10 * h[1] + digit
<1>1. Shift(acc, digit).over = (Carry(acc.val, digit, Bytes + 1) # 0)
  BY OverflowIs
<1>2. Shift(acc, digit).val \in Vals
  BY CarriesAre
<1>3. Carry(acc.val, digit, Bytes + 1) = 0 =>
          \A g : IsNumberOf(g, Shift(acc, digit).val) => g[1] = 10 * h[1] + digit
  BY ShiftIsExact
<1>4. Carry(acc.val, digit, Bytes + 1) = 0 =>
          \E val \in Vals : \E g : IsNumberOf(g, val) /\ g[1] = 10 * h[1] + digit
  BY <1>2, <1>3, NumberExists
<1>5. (\E val \in Vals : \E g : IsNumberOf(g, val) /\ g[1] = 10 * h[1] + digit)
          => Carry(acc.val, digit, Bytes + 1) = 0
  BY ShiftFindsIt
<1> QED BY <1>1, <1>2, <1>3, <1>4, <1>5

\* read_param takes off the digit that put_numeric appended and is left with what there was
\* before it: a SQL_NUMERIC_STRUCT handed back as a parameter is read digit by digit as it was
\* written (convert.cpp:108-119 and :353-379).
THEOREM DivisionUndoesShift ==
    ASSUME NEW acc, acc.over = FALSE, acc.val \in Vals, NEW digit \in 0 .. 9, ~Shift(acc, digit).over
    PROVE  /\ Divided(Shift(acc, digit).val).val = acc.val
           /\ Divided(Shift(acc, digit).val).digit = digit
<1> DEFINE new == Shift(acc, digit).val
<1>1. PICK h : IsNumberOf(h, acc.val)
  BY NumberExists
<1>2. new \in Vals
  BY CarriesAre
<1>3. PICK g : IsNumberOf(g, new)
  BY <1>2, NumberExists
<1>4. g[1] = 10 * h[1] + digit
  BY <1>1, <1>3, NumericAppendsDigit
<1> HIDE DEF new
<1>5. /\ Divided(new).val \in Vals /\ Divided(new).digit \in 0 .. 9
      /\ \A q : IsNumberOf(q, Divided(new).val) => g[1] = 10 * q[1] + Divided(new).digit
  BY <1>2, <1>3, DivisionIsExact
<1>6. PICK q : IsNumberOf(q, Divided(new).val)
  BY <1>5, NumberExists
<1>7. g[1] = 10 * q[1] + Divided(new).digit
  BY <1>5, <1>6
<1>8. h[1] \in Nat /\ q[1] \in Nat
  BY <1>1, <1>6, BytesAre DEF IsNumberOf
<1>9. h[1] = q[1] /\ digit = Divided(new).digit
  BY <1>4, <1>5, <1>7, <1>8
<1>10. acc.val = Divided(new).val
  BY <1>1, <1>5, <1>6, <1>9, NumberIsUnique
<1> QED BY <1>9, <1>10 DEF new

------------------------------------------------------------------------------
(* Powers *)

\* The powers of b, one after the other.
IsPower(f, b, n) == f \in [0 .. n -> Nat] /\ f[0] = 1 /\ \A k \in 1 .. n : f[k] = b * f[k - 1]

\* Power is the last of them.
LEMMA PowerIs ==
    ASSUME NEW b \in Nat, NEW n \in Nat
    PROVE  \E f : IsPower(f, b, n) /\ Power(b, n) = f[n]
<1> DEFINE g == [p \in (1 .. n) \X Nat |-> b * p[2]]
           Right(f) == f = [i \in 0 .. n |-> IF i = 0 THEN 1 ELSE b * f[i - 1]]
           c == CHOOSE f : Right(f)
<1>1. g \in [(1 .. n) \X Nat -> Nat] /\ \A k \in 1 .. n, x \in Nat : g[<<k, x>>] = b * x
  OBVIOUS
<1> HIDE DEF g
<1>2. PICK f : IsRecursion(f, Nat, 1, n, g)
  BY <1>1, RecursionExists
<1>3. IsPower(f, b, n)
  <2>1. f \in [0 .. n -> Nat] /\ f[0] = 1 /\ \A k \in 1 .. n : f[k] = g[<<k, f[k - 1]>>]
    BY <1>2, Zenon DEF IsRecursion
  <2>2. ASSUME NEW k \in 1 .. n PROVE f[k] = b * f[k - 1]
    <3>1. f[k - 1] \in Nat
      BY <2>1
    <3>2. g[<<k, f[k - 1]>>] = b * f[k - 1]
      BY <1>1, <3>1, Zenon
    <3> QED BY <2>1, <3>2, Zenon
  <2> QED BY <2>1, <2>2, Zenon DEF IsPower
<1>4. Right(f)
  <2>1. \A i \in 0 .. n : f[i] = IF i = 0 THEN 1 ELSE b * f[i - 1]
    BY <1>3 DEF IsPower
  <2>2. f = [i \in 0 .. n |-> f[i]]
    BY <1>3 DEF IsPower
  <2> QED BY <2>1, <2>2, Zenon
<1>5. Right(c)
  BY <1>4, Zenon
<1>6. Power(b, n) = c[n]
  BY Zenon DEF Power
<1> HIDE DEF c
<1>7. c[0] = 1 /\ \A k \in 1 .. n : c[k] = b * c[k - 1]
  BY <1>5
<1> DEFINE T == {k \in 0 .. n : c[k] = f[k]}
<1>8. 0 \in T
  BY <1>3, <1>7 DEF IsPower
<1>9. ASSUME NEW k \in 1 .. n, k - 1 \in T PROVE k \in T
  <2>1. k \in 0 .. n
    OBVIOUS
  <2>2. c[k] = b * c[k - 1]
    BY <1>7 DEF IsPower
  <2>3. f[k] = b * f[k - 1]
    BY <1>3 DEF IsPower
  <2>4. c[k - 1] = f[k - 1]
    BY <1>9
  <2> QED BY <2>1, <2>2, <2>3, <2>4
<1> HIDE DEF T
<1>10. n \in T
  BY <1>8, <1>9, InductionUpTo
<1> QED BY <1>3, <1>6, <1>10 DEF T

\* The first power, and each from the one before.
LEMMA PowerSteps ==
    ASSUME NEW b \in Nat, NEW n \in Nat
    PROVE  /\ Power(b, n) \in Nat
           /\ Power(b, 0) = 1
           /\ Power(b, n + 1) = b * Power(b, n)
<1>1. PICK f : IsPower(f, b, n) /\ Power(b, n) = f[n]
  BY PowerIs
<1>2. PICK h : IsPower(h, b, n + 1) /\ Power(b, n + 1) = h[n + 1]
  <2>1. n + 1 \in Nat
    OBVIOUS
  <2> QED BY <2>1, PowerIs
<1>3. PICK z : IsPower(z, b, 0) /\ Power(b, 0) = z[0]
  BY PowerIs
<1> DEFINE T == {k \in 0 .. n : h[k] = f[k]}
<1>4. 0 \in T
  BY <1>1, <1>2 DEF IsPower
<1>5. ASSUME NEW k \in 1 .. n, k - 1 \in T PROVE k \in T
  <2>1. k \in 0 .. n /\ k \in 1 .. n + 1
    OBVIOUS
  <2>2. h[k] = b * h[k - 1]
    BY <1>2, <2>1 DEF IsPower
  <2>3. f[k] = b * f[k - 1]
    BY <1>1 DEF IsPower
  <2>4. h[k - 1] = f[k - 1]
    BY <1>5
  <2> QED BY <2>1, <2>2, <2>3, <2>4
<1> HIDE DEF T
<1>6. n \in T
  BY <1>4, <1>5, InductionUpTo
<1>7. h[n] = f[n] /\ f[n] \in Nat
  BY <1>1, <1>6 DEF T, IsPower
<1>8. h[n + 1] = b * h[n]
  <2>1. n + 1 \in 1 .. n + 1 /\ (n + 1) - 1 = n
    OBVIOUS
  <2> QED BY <1>2, <2>1 DEF IsPower
<1>9. Power(b, 0) = 1
  BY <1>3 DEF IsPower
<1> QED BY <1>1, <1>2, <1>7, <1>8, <1>9

\* Factors may be grouped as one likes.
LEMMA Associates ==
    ASSUME NEW a \in Int, NEW b \in Int, NEW c \in Int
    PROVE  a * (b * c) = (a * b) * c /\ a * b = b * a /\ a * (b + c) = a * b + a * c
OBVIOUS

\* Factors that are not zero make a product that is not smaller than one of them.
LEMMA ProductGrows ==
    ASSUME NEW a \in Nat \ {0}, NEW b \in Nat
    PROVE  a * b \in Nat /\ a * b >= b
OBVIOUS

\* A larger factor makes a larger product.
LEMMA ProductOrder ==
    ASSUME NEW a \in Nat, NEW b \in Nat, NEW c \in Nat
    PROVE  /\ a <= b => a * c <= b * c
           /\ a < b /\ c # 0 => a * c < b * c
<1>1. ASSUME a <= b PROVE a * c <= b * c
  <2>1. b - a \in Nat /\ b = a + (b - a)
    BY <1>1
  <2> DEFINE d == b - a
  <2> HIDE DEF d
  <2>2. (a + d) * c = a * c + d * c
    BY <2>1 DEF d
  <2>3. d * c \in Nat /\ a * c \in Nat
    BY <2>1 DEF d
  <2> QED BY <2>1, <2>2, <2>3 DEF d
<1>2. ASSUME a < b, c # 0 PROVE a * c < b * c
  <2> DEFINE d == b - a - 1
  <2>1. d \in Nat /\ b = a + 1 + d
    BY <1>2
  <2> HIDE DEF d
  <2>2. (a + 1 + d) * c = a * c + c + d * c
    BY <2>1
  <2>3. d * c \in Nat /\ a * c \in Nat
    BY <2>1
  <2> QED BY <2>1, <2>2, <2>3, <1>2
<1> QED BY <1>1, <1>2

\* No power of a positive number is zero, and those of a number above 1 grow without a bound.
LEMMA PowerGrows ==
    ASSUME NEW b \in Nat \ {0}, NEW n \in Nat
    PROVE  /\ Power(b, n) \in Nat \ {0}
           /\ b # 1 => Power(b, n) > n
<1> DEFINE T == {k \in 0 .. n : Power(b, k) \in Nat \ {0} /\ (b # 1 => Power(b, k) > k)}
<1>1. 0 \in T
  BY PowerSteps
<1>2. ASSUME NEW k \in 1 .. n, k - 1 \in T PROVE k \in T
  <2> DEFINE x == Power(b, k - 1)
  <2>1. x \in Nat \ {0} /\ (b # 1 => x > k - 1)
    BY <1>2
  <2>2. Power(b, k) = b * x
    <3>1. k - 1 \in Nat /\ (k - 1) + 1 = k
      OBVIOUS
    <3> QED BY <3>1, PowerSteps
  <2> HIDE DEF x
  <2>3. b * x \in Nat /\ b * x >= x
    BY <2>1, ProductGrows
  <2>4. b # 1 => b * x >= 2 * x
    <3> SUFFICES ASSUME b # 1 PROVE b * x >= 2 * x
      OBVIOUS
    <3> QED BY <2>1, ProductOrder
  <2> QED BY <2>1, <2>2, <2>3, <2>4
<1> HIDE DEF T
<1>3. n \in T
  BY <1>1, <1>2, InductionUpTo
<1> QED BY <1>3 DEF T

\* Exponents add up.
LEMMA PowerAdds ==
    ASSUME NEW b \in Nat, NEW m \in Nat, NEW n \in Nat
    PROVE  Power(b, m + n) = Power(b, m) * Power(b, n)
<1> DEFINE T == {k \in 0 .. n : Power(b, m + k) = Power(b, m) * Power(b, k)}
<1>1. 0 \in T
  <2>1. Power(b, m) \in Nat /\ Power(b, 0) = 1
    BY PowerSteps
  <2> QED BY <2>1
<1>2. ASSUME NEW k \in 1 .. n, k - 1 \in T PROVE k \in T
  <2> DEFINE x == Power(b, k - 1)
             y == Power(b, m)
  <2>1. k - 1 \in Nat /\ (k - 1) + 1 = k /\ m + (k - 1) \in Nat /\ (m + (k - 1)) + 1 = m + k
    OBVIOUS
  <2>2. x \in Nat /\ y \in Nat /\ Power(b, k) = b * x /\ Power(b, m + k) = b * Power(b, m + (k - 1))
    <3> DEFINE p == m + (k - 1)
               q == k - 1
    <3>1. p \in Nat /\ q \in Nat /\ q + 1 = k /\ p + 1 = m + k
      BY <2>1
    <3> HIDE DEF p, q
    <3>2. Power(b, q) \in Nat /\ Power(b, q + 1) = b * Power(b, q) /\ Power(b, p + 1) = b * Power(b, p)
          /\ Power(b, m) \in Nat
      BY <3>1, PowerSteps
    <3>3. Power(b, k) = b * Power(b, q) /\ Power(b, m + k) = b * Power(b, p)
      BY <3>1, <3>2, Zenon
    <3> QED BY <3>2, <3>3 DEF p, q
  <2>3. Power(b, m + (k - 1)) = y * x
    BY <1>2
  <2> HIDE DEF x, y
  <2>4. b * (y * x) = y * (b * x)
    BY <2>2, Associates
  <2>5. Power(b, m + k) = y * Power(b, k)
    BY <2>2, <2>3, <2>4
  <2> QED BY <2>5 DEF y
<1> HIDE DEF T
<1>3. n \in T
  BY <1>1, <1>2, InductionUpTo
<1> QED BY <1>3 DEF T

------------------------------------------------------------------------------
(* What digits spell *)

Digits == Seq(0 .. 9)

\* The numbers that the digits up to each one spell.
IsSpelling(f, digits) ==
    f \in [0 .. Len(digits) -> Nat] /\ f[0] = 0 /\ \A k \in 1 .. Len(digits) : f[k] = 10 * f[k - 1] + digits[k]

\* Every sequence of digits spells a number.
LEMMA SpellingExists ==
    ASSUME NEW digits \in Digits
    PROVE  \E f : IsSpelling(f, digits) /\ Spelled(digits) = f[Len(digits)]
<1> DEFINE n == Len(digits)
           g == [p \in (1 .. n) \X Nat |-> 10 * p[2] + digits[p[1]]]
           Right(f) == f = [i \in 0 .. Len(digits) |-> IF i = 0 THEN 0 ELSE 10 * f[i - 1] + digits[i]]
           c == CHOOSE f : Right(f)
<1>1. n \in Nat /\ \A k \in 1 .. n : digits[k] \in 0 .. 9
  BY DEF Digits
<1>2. g \in [(1 .. n) \X Nat -> Nat] /\ \A k \in 1 .. n, x \in Nat : g[<<k, x>>] = 10 * x + digits[k]
  <2> HIDE DEF n
  <2>1. \A k \in 1 .. n, x \in Nat : 10 * x + digits[k] \in Nat
    BY <1>1
  <2> QED BY <2>1
<1>3. n = Len(digits)
  OBVIOUS
<1> HIDE DEF g, n
<1>4. PICK f : IsRecursion(f, Nat, 0, n, g)
  BY <1>1, <1>2, RecursionExists
<1>5. f \in [0 .. n -> Nat] /\ f[0] = 0 /\ \A k \in 1 .. n : f[k] = 10 * f[k - 1] + digits[k]
  <2>1. f \in [0 .. n -> Nat] /\ f[0] = 0 /\ \A k \in 1 .. n : f[k] = g[<<k, f[k - 1]>>]
    BY <1>4, Zenon DEF IsRecursion
  <2>2. ASSUME NEW k \in 1 .. n PROVE f[k] = 10 * f[k - 1] + digits[k]
    <3>1. f[k - 1] \in Nat
      BY <1>1, <2>1
    <3>2. g[<<k, f[k - 1]>>] = 10 * f[k - 1] + digits[k]
      BY <1>2, <3>1, Zenon
    <3> QED BY <2>1, <3>2, Zenon
  <2> QED BY <2>1, <2>2, Zenon
<1>6. Right(f)
  <2>1. \A i \in 0 .. n : f[i] = IF i = 0 THEN 0 ELSE 10 * f[i - 1] + digits[i]
    BY <1>1, <1>5
  <2>2. f = [i \in 0 .. n |-> f[i]]
    BY <1>5
  <2> QED BY <1>3, <2>1, <2>2, Zenon
<1>7. Right(c)
  BY <1>6, Zenon
<1>8. Spelled(digits) = c[n]
  BY <1>3, Zenon DEF Spelled
<1> HIDE DEF c
<1>9. c[0] = 0 /\ \A k \in 1 .. n : c[k] = 10 * c[k - 1] + digits[k]
  BY <1>1, <1>3, <1>7
<1> DEFINE T == {k \in 0 .. n : c[k] = f[k]}
<1>10. 0 \in T
  BY <1>1, <1>5, <1>9
<1>11. ASSUME NEW k \in 1 .. n, k - 1 \in T PROVE k \in T
  <2>1. c[k] = 10 * c[k - 1] + digits[k] /\ f[k] = 10 * f[k - 1] + digits[k] /\ c[k - 1] = f[k - 1] /\ k \in 0 .. n
    BY <1>1, <1>5, <1>9, <1>11
  <2> QED BY <2>1
<1> HIDE DEF T
<1>12. n \in T
  BY <1>1, <1>10, <1>11, InductionUpTo
<1>13. c[n] = f[n]
  BY <1>12 DEF T
<1> QED BY <1>3, <1>5, <1>8, <1>13, Zenon DEF IsSpelling

\* From each digit to the next.
LEMMA SpellingSteps ==
    ASSUME NEW digits \in Digits, NEW n, n = Len(digits), NEW f, IsSpelling(f, digits)
    PROVE  /\ n \in Nat /\ f[0] = 0 /\ f[n] \in Nat
           /\ \A k \in 0 .. n : f[k] \in Nat
           /\ \A k \in 1 .. n : /\ digits[k] \in 0 .. 9 /\ digits[k] \in Nat
                               /\ f[k] \in Nat /\ f[k - 1] \in Nat /\ f[k] = 10 * f[k - 1] + digits[k]
<1>1. n \in Nat /\ \A k \in 1 .. n : digits[k] \in 0 .. 9 /\ digits[k] \in Nat
  BY DEF Digits
<1>2. f \in [0 .. n -> Nat] /\ f[0] = 0 /\ \A k \in 1 .. n : f[k] = 10 * f[k - 1] + digits[k]
  BY Zenon DEF IsSpelling
<1>3. \A k \in 0 .. n : f[k] \in Nat
  BY <1>2
<1>4. n \in 0 .. n /\ \A k \in 1 .. n : k \in 0 .. n /\ k - 1 \in 0 .. n
  BY <1>1
<1> QED BY <1>1, <1>2, <1>3, <1>4, Zenon

\* It spells one number.
LEMMA SpellingIs ==
    ASSUME NEW digits \in Digits, NEW n, n = Len(digits),
           NEW f, f[0] = 0, \A k \in 1 .. n : f[k] = 10 * f[k - 1] + digits[k]
    PROVE  Spelled(digits) = f[n]
<1>1. n \in Nat
  BY DEF Digits
<1>2. PICK h : IsSpelling(h, digits) /\ Spelled(digits) = h[n]
  BY SpellingExists
<1> DEFINE T == {k \in 0 .. n : h[k] = f[k]}
<1>3. 0 \in T
  BY <1>1, <1>2 DEF IsSpelling
<1>4. ASSUME NEW k \in 1 .. n, k - 1 \in T PROVE k \in T
  <2>1. h[k] = 10 * h[k - 1] + digits[k] /\ f[k] = 10 * f[k - 1] + digits[k] /\ h[k - 1] = f[k - 1] /\ k \in 0 .. n
    BY <1>1, <1>2, <1>4 DEF IsSpelling
  <2> QED BY <2>1
<1> HIDE DEF T
<1>5. n \in T
  BY <1>1, <1>3, <1>4, InductionUpTo, Zenon
<1> QED BY <1>2, <1>5 DEF T

\* Digits behind others.
LEMMA SpelledConcat ==
    ASSUME NEW s \in Digits, NEW t \in Digits
    PROVE  /\ s \o t \in Digits /\ Len(s \o t) = Len(s) + Len(t)
           /\ Spelled(s) \in Nat /\ Spelled(t) \in Nat
           /\ Spelled(s \o t) = Spelled(s) * Power(10, Len(t)) + Spelled(t)
<1> DEFINE m == Len(s)
           n == Len(t)
           u == s \o t
<1>1. /\ m \in Nat /\ n \in Nat /\ m = Len(s) /\ n = Len(t)
      /\ u \in Digits /\ Len(u) = m + n
      /\ \A k \in 1 .. m : u[k] = s[k] /\ s[k] \in Nat
      /\ \A k \in 1 .. n : u[m + k] = t[k] /\ t[k] \in Nat
  BY DEF Digits
<1> HIDE DEF m, n, u
<1>2. PICK f : IsSpelling(f, u) /\ Spelled(u) = f[m + n]
  BY <1>1, SpellingExists, Zenon
<1>3. PICK h : IsSpelling(h, t) /\ Spelled(t) = h[n]
  BY <1>1, SpellingExists, Zenon
<1>4. /\ f[0] = 0 /\ \A k \in 0 .. m + n : f[k] \in Nat
      /\ \A k \in 1 .. m + n : f[k] \in Nat /\ f[k - 1] \in Nat /\ f[k] = 10 * f[k - 1] + u[k]
  <2> DEFINE l == m + n
  <2>1. u \in Digits /\ l = Len(u) /\ IsSpelling(f, u)
    BY <1>1, <1>2
  <2> HIDE DEF l
  <2>2. /\ f[0] = 0 /\ \A k \in 0 .. l : f[k] \in Nat
        /\ \A k \in 1 .. l : f[k] \in Nat /\ f[k - 1] \in Nat /\ f[k] = 10 * f[k - 1] + u[k]
    BY <2>1, SpellingSteps
  <2> QED BY <2>2 DEF l
<1>5. h[0] = 0 /\ \A k \in 1 .. n : h[k] \in Nat /\ h[k - 1] \in Nat /\ h[k] = 10 * h[k - 1] + t[k]
  <2>1. n = Len(t) /\ IsSpelling(h, t)
    BY <1>1, <1>3
  <2> QED BY <2>1, SpellingSteps
<1>6. Spelled(s) = f[m]
  <2>1. ASSUME NEW k \in 1 .. m PROVE f[k] = 10 * f[k - 1] + s[k]
    <3>1. k \in 1 .. m + n
      BY <1>1
    <3> QED BY <3>1, <1>1, <1>4, Zenon
  <2>2. m = Len(s) /\ f[0] = 0
    BY <1>1, <1>4
  <2> QED BY <2>1, <2>2, SpellingIs, Zenon
<1>7. f[m] \in Nat /\ h[n] \in Nat
  <2>1. m \in 0 .. m + n
    BY <1>1
  <2>2. h[n] \in Nat
    BY <1>1, <1>3, SpellingSteps
  <2> QED BY <1>4, <2>1, <2>2, Zenon
<1> DEFINE a == f[m]
           T == {k \in 0 .. n : f[m + k] = a * Power(10, k) + h[k]}
<1>8. 0 \in T
  <2>1. Power(10, 0) = 1 /\ m + 0 = m
    BY <1>1, PowerSteps
  <2>2. a * Power(10, 0) = a
    BY <1>7, <2>1
  <2> QED BY <1>1, <1>5, <1>7, <2>1, <2>2
<1>9. ASSUME NEW k \in 1 .. n, k - 1 \in T PROVE k \in T
  <2> DEFINE p == Power(10, k - 1)
             x == f[m + (k - 1)]
             y == h[k - 1]
  <2>1. p \in Nat /\ Power(10, k) = 10 * p
    <3> DEFINE j == k - 1
    <3>1. j \in Nat /\ j + 1 = k
      BY <1>1
    <3> HIDE DEF j
    <3>2. Power(10, j) \in Nat /\ Power(10, j + 1) = 10 * Power(10, j)
      BY <3>1, PowerSteps
    <3> QED BY <3>1, <3>2 DEF j
  <2>2. f[m + k] = 10 * x + t[k]
    <3>1. m + k \in 1 .. m + n /\ (m + k) - 1 = m + (k - 1) /\ u[m + k] = t[k]
      BY <1>1
    <3>2. f[m + k] = 10 * f[(m + k) - 1] + u[m + k]
      BY <1>4, <3>1
    <3> QED BY <3>1, <3>2, Zenon
  <2>3. h[k] = 10 * y + t[k] /\ y \in Nat /\ t[k] \in Nat
    BY <1>1, <1>5
  <2>4. x = a * p + y
    BY <1>9
  <2>5. a \in Nat
    BY <1>7
  <2> HIDE DEF p, x, y, a
  <2>6. 10 * (a * p) = a * (10 * p) /\ a * p \in Nat
    BY <2>1, <2>5, Associates
  <2>7. f[m + k] = a * Power(10, k) + h[k]
    BY <2>1, <2>2, <2>3, <2>4, <2>6
  <2>8. k \in 0 .. n
    BY <1>1
  <2> QED BY <2>7, <2>8, Zenon DEF a
<1> HIDE DEF T
<1>10. n \in T
  BY <1>1, <1>8, <1>9, InductionUpTo, Zenon
<1>11. f[m + n] = f[m] * Power(10, n) + h[n]
  BY <1>10 DEF T
<1>12. /\ u \in Digits /\ Len(u) = m + n /\ Spelled(s) \in Nat /\ Spelled(t) \in Nat
       /\ Spelled(u) = Spelled(s) * Power(10, n) + Spelled(t)
  BY <1>1, <1>2, <1>3, <1>6, <1>7, <1>11, Zenon
<1> QED BY <1>1, <1>12 DEF m, n, u

\* A digit more.
LEMMA SpelledDigit ==
    ASSUME NEW s \in Digits, NEW d \in 0 .. 9
    PROVE  /\ Spelled(<<>>) = 0 /\ Spelled(<<d>>) = d
           /\ Append(s, d) \in Digits /\ Spelled(Append(s, d)) = 10 * Spelled(s) + d
<1>1. <<>> \in Digits /\ <<d>> \in Digits /\ Append(s, d) = s \o <<d>> /\ Len(<<d>>) = 1 /\ Len(<<>>) = 0
  BY DEF Digits
<1>2. Spelled(<<>>) = 0
  <2> DEFINE f == [k \in 0 .. 0 |-> 0]
  <2>1. f[0] = 0 /\ 1 .. 0 = {}
    OBVIOUS
  <2> HIDE DEF f
  <2>2. \A k \in 1 .. 0 : f[k] = 10 * f[k - 1] + <<>>[k]
    BY <2>1
  <2>3. Spelled(<<>>) = f[0]
    BY <1>1, <2>1, <2>2, SpellingIs
  <2> QED BY <2>1, <2>3
<1>3. Spelled(<<d>>) = d
  <2> DEFINE f == [k \in 0 .. 1 |-> IF k = 0 THEN 0 ELSE d]
  <2>1. f[0] = 0 /\ f[1] = d
    OBVIOUS
  <2> HIDE DEF f
  <2>2. \A k \in 1 .. 1 : f[k] = 10 * f[k - 1] + <<d>>[k]
    BY <2>1
  <2>3. Spelled(<<d>>) = f[1]
    BY <1>1, <2>1, <2>2, SpellingIs
  <2> QED BY <2>1, <2>3
<1>4. Power(10, 1) = 10
  <2>1. Power(10, 0 + 1) = 10 * Power(10, 0) /\ Power(10, 0) = 1
    BY PowerSteps
  <2> QED BY <2>1
<1>5. s \o <<d>> \in Digits /\ Spelled(s) \in Nat /\ Spelled(s \o <<d>>) = Spelled(s) * Power(10, 1) + d
  BY <1>1, <1>3, SpelledConcat
<1> QED BY <1>1, <1>2, <1>3, <1>4, <1>5

\* n digits spell a number of at most n digits, and zero only if all of them are zero.
LEMMA SpelledBounds ==
    ASSUME NEW s \in Digits
    PROVE  /\ Spelled(s) \in Nat /\ Spelled(s) < Power(10, Len(s))
           /\ Spelled(s) = 0 <=> \A i \in DOMAIN s : s[i] = 0
<1> DEFINE n == Len(s)
<1>1. n \in Nat /\ n = Len(s) /\ DOMAIN s = 1 .. n /\ \A k \in 1 .. n : s[k] \in 0 .. 9
  BY DEF Digits
<1> HIDE DEF n
<1>2. PICK f : IsSpelling(f, s) /\ Spelled(s) = f[n]
  BY <1>1, SpellingExists, Zenon
<1>3. \A k \in 0 .. n : f[k] \in Nat
  BY <1>1, <1>2, SpellingSteps
<1>4. f[0] = 0 /\ \A k \in 1 .. n : f[k] = 10 * f[k - 1] + s[k]
  <2>1. n = Len(s) /\ IsSpelling(f, s)
    BY <1>1, <1>2
  <2> QED BY <2>1, SpellingSteps
<1> DEFINE T == {k \in 0 .. n : f[k] < Power(10, k) /\ (f[k] = 0 <=> \A i \in 1 .. k : s[i] = 0)}
<1>5. 0 \in T
  <2>1. Power(10, 0) = 1
    BY PowerSteps
  <2> QED BY <1>1, <1>4, <2>1
<1>6. ASSUME NEW k \in 1 .. n, k - 1 \in T PROVE k \in T
  <2> DEFINE x == f[k - 1]
             p == Power(10, k - 1)
  <2>1. x \in Nat /\ p \in Nat /\ x < p /\ Power(10, k) = 10 * p
    <3> DEFINE j == k - 1
    <3>1. j \in Nat /\ j + 1 = k /\ j \in 0 .. n
      BY <1>1
    <3>2. x \in Nat /\ x < p
      BY <1>3, <1>6, <3>1
    <3> HIDE DEF j
    <3>3. Power(10, j) \in Nat /\ Power(10, j + 1) = 10 * Power(10, j)
      BY <3>1, PowerSteps
    <3> QED BY <3>1, <3>2, <3>3 DEF j
  <2>2. f[k] = 10 * x + s[k] /\ s[k] \in 0 .. 9
    BY <1>1, <1>4
  <2>3. x = 0 <=> \A i \in 1 .. k - 1 : s[i] = 0
    BY <1>6
  <2> HIDE DEF x, p
  <2>4. f[k] < Power(10, k)
    BY <2>1, <2>2
  <2>5. f[k] = 0 <=> x = 0 /\ s[k] = 0
    BY <2>1, <2>2
  <2>6. (\A i \in 1 .. k : s[i] = 0) <=> (\A i \in 1 .. k - 1 : s[i] = 0) /\ s[k] = 0
    <3>1. \A i \in 1 .. k : i \in 1 .. k - 1 \/ i = k
      BY <1>1
    <3>2. k \in 1 .. k /\ \A i \in 1 .. k - 1 : i \in 1 .. k
      BY <1>1
    <3> QED BY <3>1, <3>2, Zenon
  <2>7. k \in 0 .. n
    BY <1>1
  <2> QED BY <2>3, <2>4, <2>5, <2>6, <2>7
<1> HIDE DEF T
<1>7. n \in T
  BY <1>1, <1>5, <1>6, InductionUpTo, Zenon
<1> QED BY <1>1, <1>2, <1>3, <1>7 DEF T

------------------------------------------------------------------------------
(* The number in a structure *)

\* Two divisions are one by the product.
LEMMA DivisionTwice ==
    ASSUME NEW a \in Nat, NEW p \in Nat \ {0}, NEW q \in Nat \ {0}
    PROVE  (a \div p) \div q = a \div (p * q)
<1> DEFINE c == a \div p
           r == a % p
           m == c \div q
           s == c % q
           b == p * q
<1>1. c \in Nat /\ r \in 0 .. p - 1 /\ a = c * p + r
  BY DivMod
<1>2. m \in Nat /\ s \in 0 .. q - 1 /\ c = m * q + s
  <2> HIDE DEF c
  <2> QED BY <1>1, DivMod
<1>3. b \in Nat \ {0}
  <2>1. p * q >= q /\ p * q \in Nat
    BY ProductGrows
  <2> QED BY <2>1
<1>4. a \div b \in Nat /\ a % b \in 0 .. b - 1 /\ a = (a \div b) * b + (a % b)
  <2> HIDE DEF b
  <2> QED BY <1>3, DivMod
<1>5. s * p + r \in 0 .. b - 1
  <2> HIDE DEF s, r
  <2>1. s * p \in Nat /\ s * p <= (q - 1) * p
    BY <1>2, ProductOrder
  <2>2. (q - 1) * p = b - p
    OBVIOUS
  <2> HIDE DEF b
  <2> QED BY <1>1, <1>3, <2>1, <2>2
<1>6. a = m * b + (s * p + r)
  <2> HIDE DEF c, r, m, s
  <2>1. (m * q + s) * p = (m * q) * p + s * p
    BY <1>2
  <2>2. (m * q) * p = m * b
    BY <1>2
  <2> HIDE DEF b
  <2>3. m * b \in Nat /\ s * p \in Nat
    BY <1>2, <1>3
  <2> QED BY <1>1, <1>2, <2>1, <2>2, <2>3
<1>7. m = a \div b
  <2> DEFINE t == s * p + r
             d == a \div b
             e == a % b
  <2>1. d * b + e = m * b + t
    BY <1>4, <1>6, Zenon
  <2>2. b \in Nat \ {0} /\ m \in Nat /\ d \in Nat /\ t \in 0 .. b - 1 /\ e \in 0 .. b - 1
    BY <1>2, <1>3, <1>4, <1>5
  <2> HIDE DEF b, m, d, t, e
  <2>3. d = m
    BY <2>1, <2>2, DivModUnique
  <2> QED BY <2>3 DEF d
<1> QED BY <1>7

\* What a structure holds.
NumberIn(val) == (CHOOSE h : IsNumberOf(h, val))[1]

\* It holds one number.
LEMMA NumberInIs ==
    ASSUME NEW val \in Vals
    PROVE  /\ NumberIn(val) \in Nat
           /\ \E h : IsNumberOf(h, val) /\ h[1] = NumberIn(val)
           /\ \A h : IsNumberOf(h, val) => h[1] = NumberIn(val)
<1>1. ASSUME NEW h, NEW g, IsNumberOf(h, val), IsNumberOf(g, val) PROVE h[1] = g[1]
  <2> DEFINE T == {k \in 1 .. Bytes + 1 : h[k] = g[k]}
  <2>1. Bytes + 1 \in T
    <3>1. h[Bytes + 1] = g[Bytes + 1] /\ Bytes + 1 \in 1 .. Bytes + 1
      BY <1>1, BytesAre DEF IsNumberOf
    <3> QED BY <3>1
  <2>2. ASSUME NEW k \in 1 .. Bytes, k + 1 \in T PROVE k \in T
    <3>1. h[k] = h[k + 1] * ByteBase + val[k] /\ g[k] = g[k + 1] * ByteBase + val[k]
      BY <1>1 DEF IsNumberOf
    <3>2. h[k + 1] = g[k + 1] /\ k \in 1 .. Bytes + 1
      BY <2>2, BytesAre
    <3> QED BY <3>1, <3>2
  <2>3. T \subseteq 1 .. Bytes + 1
    OBVIOUS
  <2> HIDE DEF T
  <2>4. 1 \in 1 .. Bytes + 1
    BY BytesAre
  <2>5. 1 \in T
    BY <2>1, <2>2, <2>3, <2>4, Downwards
  <2> QED BY <2>5 DEF T
<1>2. \E h : IsNumberOf(h, val)
  BY NumberExists
<1> DEFINE c == CHOOSE h : IsNumberOf(h, val)
<1>3. IsNumberOf(c, val)
  BY <1>2, Zenon
<1>4. NumberIn(val) = c[1]
  BY Zenon DEF NumberIn
<1> HIDE DEF c
<1>5. c[1] \in Nat
  BY <1>3, BytesAre DEF IsNumberOf
<1> QED BY <1>1, <1>3, <1>4, <1>5, Zenon

\* A structure holds numbers of so many bytes.
LEMMA NumberInBounds ==
    ASSUME NEW val \in Vals
    PROVE  NumberIn(val) < Power(ByteBase, Bytes)
<1>1. PICK h : IsNumberOf(h, val) /\ h[1] = NumberIn(val)
  BY NumberInIs
<1> DEFINE T == {k \in 1 .. Bytes + 1 : h[k] < Power(ByteBase, Bytes + 1 - k)}
<1>2. Bytes + 1 \in T
  <2>1. Power(ByteBase, 0) = 1
    BY PowerSteps, BytesAre
  <2>2. h[Bytes + 1] = 0 /\ Bytes + 1 \in 1 .. Bytes + 1 /\ Bytes + 1 - (Bytes + 1) = 0
    BY <1>1, BytesAre DEF IsNumberOf
  <2> QED BY <2>1, <2>2
<1>3. ASSUME NEW k \in 1 .. Bytes, k + 1 \in T PROVE k \in T
  <2> DEFINE j == Bytes + 1 - (k + 1)
             p == Power(ByteBase, j)
             x == h[k + 1]
             v == val[k]
  <2>1. j \in Nat /\ j + 1 = Bytes + 1 - k /\ k \in 1 .. Bytes + 1
    BY BytesAre
  <2>2. x < p
    BY <1>3
  <2>3. h[k] = x * ByteBase + v /\ x \in Nat /\ v \in 0 .. ByteBase - 1
    BY <1>1, NumberSteps
  <2> HIDE DEF j, x, v
  <2>4. p \in Nat /\ Power(ByteBase, j + 1) = ByteBase * p
    BY <2>1, BytesAre, PowerSteps
  <2> HIDE DEF p
  <2>5. h[k] < ByteBase * p
    <3>1. ByteBase \in Nat
      BY BytesAre
    <3>2. (x + 1) * ByteBase <= p * ByteBase
      BY <2>2, <2>3, <2>4, <3>1, ProductOrder
    <3>3. (x + 1) * ByteBase = x * ByteBase + ByteBase /\ p * ByteBase = ByteBase * p /\ x * ByteBase \in Nat
      BY <2>3, <2>4, <3>1
    <3> DEFINE y == x * ByteBase
               z == ByteBase * p
    <3>4. y \in Nat /\ z \in Nat /\ y + ByteBase <= z /\ h[k] = y + v
      BY <2>3, <2>4, <3>1, <3>2, <3>3
    <3> HIDE DEF y, z
    <3>5. h[k] < z
      BY <2>3, <3>1, <3>4
    <3> QED BY <3>5 DEF z
  <2>6. h[k] < Power(ByteBase, Bytes + 1 - k)
    BY <2>1, <2>4, <2>5
  <2> QED BY <2>1, <2>6
<1>4. T \subseteq 1 .. Bytes + 1
  OBVIOUS
<1> HIDE DEF T
<1>5. 1 \in 1 .. Bytes + 1 /\ Bytes + 1 - 1 = Bytes
  BY BytesAre
<1>6. 1 \in T
  BY <1>2, <1>3, <1>4, <1>5, Downwards
<1>7. h[1] < Power(ByteBase, Bytes + 1 - 1)
  BY <1>6 DEF T
<1> QED BY <1>1, <1>5, <1>7

\* Every number of so many bytes is in some structure.
LEMMA NumberFits ==
    ASSUME NEW n \in Nat, n < Power(ByteBase, Bytes)
    PROVE  \E val \in Vals : NumberIn(val) = n
<1> DEFINE h == [k \in 1 .. Bytes + 1 |-> n \div Power(ByteBase, k - 1)]
           val == [k \in 1 .. Bytes |-> h[k] % ByteBase]
<1>1. ASSUME NEW k \in 1 .. Bytes + 1 PROVE h[k] \in Nat /\ h[k] = n \div Power(ByteBase, k - 1)
  <2>1. Power(ByteBase, k - 1) \in Nat \ {0}
    <3> DEFINE j == k - 1
    <3>1. j \in Nat /\ ByteBase \in Nat \ {0}
      BY BytesAre
    <3> HIDE DEF j
    <3>2. Power(ByteBase, j) \in Nat \ {0}
      BY <3>1, PowerGrows
    <3> QED BY <3>2 DEF j
  <2>2. n \div Power(ByteBase, k - 1) \in Nat
    BY <2>1, DivMod
  <2> QED BY <2>2
<1>2. h \in [1 .. Bytes + 1 -> Nat]
  <2>1. \A k \in 1 .. Bytes + 1 : n \div Power(ByteBase, k - 1) \in Nat
    BY <1>1
  <2> QED BY <2>1
<1>3. h[Bytes + 1] = 0
  <2> DEFINE p == Power(ByteBase, Bytes)
  <2>1. p \in Nat \ {0} /\ n < p
    BY BytesAre, PowerGrows
  <2>2. h[Bytes + 1] = n \div p
    BY BytesAre
  <2> HIDE DEF p
  <2>3. n \div p \in Nat /\ n % p \in 0 .. p - 1 /\ n = (n \div p) * p + (n % p)
    BY <2>1, DivMod
  <2>4. 0 * p + n = (n \div p) * p + (n % p) /\ n \in 0 .. p - 1
    BY <2>1, <2>3
  <2>5. n \div p = 0
    BY <2>1, <2>3, <2>4, DivModUnique
  <2> QED BY <2>2, <2>5
<1>4. val \in Vals /\ h[1] = n
  <2>1. ASSUME NEW k \in 1 .. Bytes PROVE h[k] % ByteBase \in 0 .. ByteBase - 1
    <3>1. k \in 1 .. Bytes + 1
      BY BytesAre
    <3>2. h[k] \in Nat
      BY <1>1, <3>1
    <3> HIDE DEF h
    <3> QED BY <3>2, ByteDivMod
  <2>2. h[1] = n
    <3>1. Power(ByteBase, 0) = 1 /\ 1 \in 1 .. Bytes + 1 /\ 1 - 1 = 0
      BY BytesAre, PowerSteps
    <3>2. h[1] = n \div 1
      BY <3>1
    <3> QED BY <3>2
  <2> HIDE DEF h
  <2> QED BY <2>1, <2>2 DEF Vals
<1>5. ASSUME NEW k \in 1 .. Bytes PROVE h[k] = h[k + 1] * ByteBase + val[k]
  <2> DEFINE p == Power(ByteBase, k - 1)
  <2>1. p \in Nat \ {0} /\ Power(ByteBase, k) = p * ByteBase
    <3> DEFINE j == k - 1
    <3>1. j \in Nat /\ j + 1 = k
      BY BytesAre
    <3> HIDE DEF j
    <3>2. Power(ByteBase, j) \in Nat \ {0} /\ Power(ByteBase, j + 1) = ByteBase * Power(ByteBase, j)
      BY <3>1, BytesAre, PowerSteps, PowerGrows
    <3>3. Power(ByteBase, j + 1) = Power(ByteBase, j) * ByteBase
      BY <3>2, BytesAre
    <3> QED BY <3>1, <3>2, <3>3 DEF j
  <2>2. k \in 1 .. Bytes + 1 /\ k + 1 \in 1 .. Bytes + 1 /\ (k + 1) - 1 = k
    BY BytesAre
  <2>3. h[k] = n \div p /\ h[k + 1] = n \div Power(ByteBase, k)
    BY <2>2
  <2>4. h[k] \in Nat
    BY <1>1, <2>2
  <2>5. val[k] = h[k] % ByteBase
    OBVIOUS
  <2> HIDE DEF p, h, val
  <2>6. h[k + 1] = h[k] \div ByteBase
    <3>1. (n \div p) \div ByteBase = n \div (p * ByteBase)
      <4> DEFINE b == ByteBase
      <4>1. b \in Nat \ {0} /\ p \in Nat \ {0} /\ n \in Nat
        BY <2>1, BytesAre
      <4> HIDE DEF b
      <4>2. (n \div p) \div b = n \div (p * b)
        BY <4>1, DivisionTwice, Zenon
      <4> QED BY <4>2 DEF b
    <3> QED BY <2>1, <2>3, <3>1
  <2> QED BY <2>4, <2>5, <2>6, ByteDivMod
<1>6. IsNumberOf(h, val)
  <2> HIDE DEF h, val
  <2> QED BY <1>2, <1>3, <1>5 DEF IsNumberOf
<1> HIDE DEF h, val
<1>7. NumberIn(val) = n
  BY <1>4, <1>6, NumberInIs
<1> QED BY <1>4, <1>7

\* A structure that holds 0 has nothing in it.
LEMMA NothingIsZero ==
    /\ Zero \in Vals /\ NumberIn(Zero) = 0
    /\ \A val \in Vals : NumberIn(val) = 0 <=> val = Zero
<1>1. Zero \in Vals
  BY BytesAre DEF Zero, Vals
<1> DEFINE h == [k \in 1 .. Bytes + 1 |-> 0]
<1>2. IsNumberOf(h, Zero)
  <2>1. h \in [1 .. Bytes + 1 -> Nat] /\ h[Bytes + 1] = 0
    BY BytesAre
  <2>2. ASSUME NEW k \in 1 .. Bytes PROVE h[k] = h[k + 1] * ByteBase + Zero[k]
    <3>1. h[k] = 0 /\ h[k + 1] = 0 /\ Zero[k] = 0
      BY BytesAre DEF Zero
    <3>2. 0 * ByteBase + 0 = 0
      BY BytesAre
    <3> QED BY <3>1, <3>2
  <2> HIDE DEF h
  <2> QED BY <2>1, <2>2 DEF IsNumberOf
<1>3. h[1] = 0
  BY BytesAre
<1> HIDE DEF h
<1>4. NumberIn(Zero) = 0
  BY <1>1, <1>2, <1>3, NumberInIs
<1>5. ASSUME NEW val \in Vals, NumberIn(val) = 0 PROVE val = Zero
  <2>1. PICK g : IsNumberOf(g, val) /\ g[1] = 0
    BY <1>5, NumberInIs
  <2> QED BY <1>1, <1>2, <1>3, <2>1, NumberIsUnique
<1> QED BY <1>1, <1>4, <1>5

------------------------------------------------------------------------------
(* What the digits make of a structure *)

\* What structures can hold.
Limit == Power(ByteBase, Bytes)

\* Shift, in terms of the number it makes.
LEMMA ShiftSpells ==
    ASSUME NEW acc \in [val : Vals, over : BOOLEAN], NEW digit \in 0 .. 9
    PROVE  /\ Shift(acc, digit) \in [val : Vals, over : BOOLEAN]
           /\ acc.over => Shift(acc, digit).over
           /\ ~acc.over =>
                 /\ Shift(acc, digit).over = ~(10 * NumberIn(acc.val) + digit < Limit)
                 /\ ~Shift(acc, digit).over => NumberIn(Shift(acc, digit).val) = 10 * NumberIn(acc.val) + digit
<1> DEFINE new == Shift(acc, digit)
           m == 10 * NumberIn(acc.val) + digit
<1>1. acc.val \in Vals /\ acc.over \in BOOLEAN
  OBVIOUS
<1>2. new.val \in Vals
  BY <1>1, CarriesAre
<1>3. /\ new = [val |-> new.val, over |-> new.over]
      /\ new.over = (acc.over \/ Sums(acc.val, digit)[Bytes] \div ByteBase # 0)
  BY DEF Shift
<1>4. new \in [val : Vals, over : BOOLEAN]
  <2> HIDE DEF new
  <2> QED BY <1>2, <1>3
<1>5. ASSUME ~acc.over
      PROVE  /\ new.over = ~(m < Limit)
             /\ ~new.over => NumberIn(new.val) = m
  <2>1. acc.over = FALSE
    BY <1>1, <1>5
  <2>2. PICK h : IsNumberOf(h, acc.val) /\ h[1] = NumberIn(acc.val)
    BY <1>1, NumberInIs
  <2>3. /\ new.over = ~ \E val \in Vals : \E g : IsNumberOf(g, val) /\ g[1] = 10 * h[1] + digit
        /\ ~new.over => \A g : IsNumberOf(g, new.val) => g[1] = 10 * h[1] + digit
    BY <1>1, <2>1, <2>2, NumericAppendsDigit
  <2>4. m = 10 * h[1] + digit /\ m \in Nat
    <3>1. NumberIn(acc.val) \in Nat
      BY <1>1, NumberInIs
    <3> QED BY <2>2, <3>1
  <2> HIDE DEF m, new
  <2>5. (\E val \in Vals : \E g : IsNumberOf(g, val) /\ g[1] = m) <=> m < Limit
    <3>1. ASSUME NEW val \in Vals, NEW g, IsNumberOf(g, val), g[1] = m PROVE m < Limit
      BY <3>1, NumberInIs, NumberInBounds DEF Limit
    <3>2. ASSUME m < Limit PROVE \E val \in Vals : \E g : IsNumberOf(g, val) /\ g[1] = m
      <4>1. PICK val \in Vals : NumberIn(val) = m
        BY <2>4, <3>2, NumberFits DEF Limit
      <4>2. PICK g : IsNumberOf(g, val) /\ g[1] = NumberIn(val)
        BY NumberInIs
      <4> QED BY <4>1, <4>2
    <3> QED BY <3>1, <3>2
  <2>6. new.over = ~(m < Limit)
    BY <2>3, <2>4, <2>5, Zenon
  <2>7. ASSUME ~new.over PROVE NumberIn(new.val) = m
    <3>1. PICK g : IsNumberOf(g, new.val) /\ g[1] = NumberIn(new.val)
      BY <1>2, NumberInIs DEF new
    <3> QED BY <2>3, <2>4, <2>7, <3>1
  <2> QED BY <2>6, <2>7
<1>6. acc.over => new.over
  BY <1>3
<1> QED BY <1>4, <1>5, <1>6

\* put_numeric's loop: 22003 exactly when no structure can hold the number that the digits spell,
\* and otherwise the structure holds it (convert.cpp:110-118).
THEOREM NumericHoldsDigits ==
    ASSUME NEW digits \in Digits
    PROVE  /\ Accumulated(digits).over = ~(Spelled(digits) < Limit)
           /\ Accumulated(digits).val \in Vals
           /\ ~Accumulated(digits).over => NumberIn(Accumulated(digits).val) = Spelled(digits)
<1> DEFINE n == Len(digits)
           S == [val : Vals, over : BOOLEAN]
           first == [val |-> Zero, over |-> FALSE]
           g == [p \in (1 .. n) \X S |-> Shift(p[2], digits[p[1]])]
           Right(f) == f = [i \in 0 .. Len(digits) |-> IF i = 0 THEN [val |-> Zero, over |-> FALSE]
                                                       ELSE Shift(f[i - 1], digits[i])]
           c == CHOOSE f : Right(f)
<1>1. n \in Nat /\ n = Len(digits) /\ \A k \in 1 .. n : digits[k] \in 0 .. 9
  BY DEF Digits
<1> HIDE DEF n
<1>2. first \in S
  BY NothingIsZero
<1>3. \A k \in 1 .. n, x \in S : Shift(x, digits[k]) \in S
  BY <1>1, ShiftSpells
<1>4. g \in [(1 .. n) \X S -> S] /\ \A k \in 1 .. n, x \in S : g[<<k, x>>] = Shift(x, digits[k])
  <2> HIDE DEF S
  <2> QED BY <1>3
<1> HIDE DEF g
<1>5. PICK f : IsRecursion(f, S, first, n, g)
  <2> HIDE DEF S, first
  <2> QED BY <1>1, <1>2, <1>4, RecursionExists
<1>6. f \in [0 .. n -> S] /\ f[0] = first /\ \A k \in 1 .. n : f[k - 1] \in S /\ f[k] = Shift(f[k - 1], digits[k])
  <2>1. f \in [0 .. n -> S] /\ f[0] = first /\ \A k \in 1 .. n : f[k] = g[<<k, f[k - 1]>>]
    BY <1>5, Zenon DEF IsRecursion
  <2>2. ASSUME NEW k \in 1 .. n PROVE f[k - 1] \in S /\ f[k] = Shift(f[k - 1], digits[k])
    <3>1. k - 1 \in 0 .. n
      BY <1>1
    <3>2. f[k - 1] \in S
      BY <2>1, <3>1, Zenon
    <3>3. g[<<k, f[k - 1]>>] = Shift(f[k - 1], digits[k])
      BY <1>4, <3>2, Zenon
    <3> QED BY <2>1, <3>2, <3>3, Zenon
  <2> QED BY <2>1, <2>2, Zenon
<1> HIDE DEF S
<1>7. Right(f)
  <2>1. \A i \in 0 .. n : f[i] = IF i = 0 THEN [val |-> Zero, over |-> FALSE] ELSE Shift(f[i - 1], digits[i])
    <3> TAKE i \in 0 .. n
    <3>1. i # 0 => i \in 1 .. n
      BY <1>1
    <3> QED BY <3>1, <1>6, Zenon
  <2>2. f = [i \in 0 .. n |-> f[i]]
    BY <1>6, Zenon
  <2> QED BY <1>1, <2>1, <2>2, Zenon
<1>8. Right(c)
  BY <1>7, Zenon
<1>9. Accumulated(digits) = c[n]
  BY <1>1, Zenon DEF Accumulated
<1> HIDE DEF c
<1>10. c[0] = first /\ \A k \in 1 .. n : c[k] = Shift(c[k - 1], digits[k])
  <2>1. 0 \in 0 .. n /\ \A k \in 1 .. n : k \in 0 .. n /\ k # 0
    BY <1>1
  <2> QED BY <1>1, <1>8, <2>1, Zenon
<1>11. PICK h : IsSpelling(h, digits) /\ Spelled(digits) = h[n]
  BY <1>1, SpellingExists, Zenon
<1>12. /\ h[0] = 0 /\ \A k \in 0 .. n : h[k] \in Nat
       /\ \A k \in 1 .. n : h[k] \in Nat /\ h[k - 1] \in Nat /\ h[k] = 10 * h[k - 1] + digits[k]
  BY <1>1, <1>11, SpellingSteps
<1> DEFINE T == {k \in 0 .. n : /\ c[k] \in S
                                /\ c[k].over = ~(h[k] < Limit)
                                /\ ~c[k].over => NumberIn(c[k].val) = h[k]}
<1>13. Limit \in Nat \ {0}
  BY BytesAre, PowerGrows DEF Limit
<1>14. 0 \in T
  <2>1. first.over = FALSE /\ first.val = Zero
    OBVIOUS
  <2>2. 0 < Limit
    BY <1>13
  <2>3. 0 \in 0 .. n
    BY <1>1
  <2> HIDE DEF first
  <2> QED BY <1>2, <1>10, <1>12, <2>1, <2>2, <2>3, NothingIsZero
<1>15. ASSUME NEW k \in 1 .. n, k - 1 \in T PROVE k \in T
  <2> DEFINE a == c[k - 1]
             d == digits[k]
  <2>1. a \in [val : Vals, over : BOOLEAN] /\ a.over = ~(h[k - 1] < Limit) /\ (~a.over => NumberIn(a.val) = h[k - 1])
    BY <1>15 DEF S
  <2>2. d \in 0 .. 9 /\ c[k] = Shift(a, d) /\ k \in 0 .. n
    BY <1>1, <1>10
  <2>3. h[k] = 10 * h[k - 1] + d /\ h[k - 1] \in Nat /\ h[k] \in Nat
    BY <1>12
  <2> HIDE DEF a, d
  <2>4. /\ Shift(a, d) \in [val : Vals, over : BOOLEAN]
        /\ a.over => Shift(a, d).over
        /\ ~a.over => /\ Shift(a, d).over = ~(10 * NumberIn(a.val) + d < Limit)
                      /\ ~Shift(a, d).over => NumberIn(Shift(a, d).val) = 10 * NumberIn(a.val) + d
    BY <2>1, <2>2, ShiftSpells
  <2>5. c[k] \in S
    BY <2>2, <2>4 DEF S
  <2>6. CASE a.over
    <3>1. ~(h[k - 1] < Limit)
      BY <2>1, <2>6
    <3>2. ~(h[k] < Limit)
      BY <1>13, <2>2, <2>3, <3>1
    <3>3. c[k].over = TRUE
      BY <2>2, <2>4, <2>6
    <3> QED BY <2>2, <2>5, <3>2, <3>3
  <2>7. CASE ~a.over
    <3>1. NumberIn(a.val) = h[k - 1]
      BY <2>1, <2>7
    <3>2. 10 * NumberIn(a.val) + d = h[k]
      BY <2>3, <3>1
    <3> QED BY <2>2, <2>4, <2>5, <2>7, <3>2
  <2> QED BY <2>6, <2>7
<1> HIDE DEF T
<1>16. n \in T
  BY <1>1, <1>14, <1>15, InductionUpTo, Zenon
<1>17. c[n] \in S /\ c[n].over = ~(h[n] < Limit) /\ (~c[n].over => NumberIn(c[n].val) = h[n])
  BY <1>16 DEF T
<1> QED BY <1>9, <1>11, <1>17 DEF S

------------------------------------------------------------------------------
(* Numbers and their digits *)

\* Sequences of digits, from the empty one on.
LEMMA DigitsAre ==
    ASSUME NEW s \in Digits, NEW d \in 0 .. 9
    PROVE  /\ <<>> \in Digits /\ <<d>> \in Digits /\ <<d>> # <<>>
           /\ Append(s, d) \in Digits /\ Append(s, d) # <<>>
<1>1. <<>> \in Digits /\ <<d>> \in Digits /\ Append(s, d) \in Digits
  BY DEF Digits
<1>2. Len(<<d>>) = 1 /\ Len(<<>>) = 0 /\ Len(Append(s, d)) = Len(s) + 1 /\ Len(s) \in Nat
  BY DEF Digits
<1>3. <<d>> # <<>>
  BY <1>2
<1>4. Append(s, d) # <<>>
  <2>1. Len(Append(s, d)) # 0
    BY <1>2
  <2> QED BY <1>2, <2>1, Zenon
<1> QED BY <1>1, <1>3, <1>4

\* The digits of a number, the last one behind those of a tenth of it, and what they spell.
LEMMA DigitsOfIs ==
    ASSUME NEW n \in Nat
    PROVE  /\ DigitsOf[n] \in Digits /\ DigitsOf[n] # <<>>
           /\ DigitsOf[n] = IF n < 10 THEN <<n>> ELSE Append(DigitsOf[n \div 10], n % 10)
           /\ Spelled(DigitsOf[n]) = n
<1> DEFINE small == 0 .. 9
           base == [k \in Nat |-> IF k < 10 THEN <<k>> ELSE <<>>]
           down == [k \in Nat |-> k \div 10]
           g == [p \in Nat \X Digits |-> Append(p[2], p[1] % 10)]
           Right(f) == f = [k \in Nat |-> IF k < 10 THEN <<k>> ELSE Append(f[k \div 10], k % 10)]
           c == DigitsOf
<1>1. \A k \in Nat \ small : down[k] \in 0 .. k - 1 /\ down[k] = k \div 10
  OBVIOUS
<1>2. \A k \in Nat : base[k] \in Digits /\ (k < 10 => base[k] = <<k>>)
  <2> TAKE k \in Nat
  <2>1. <<>> \in Digits
    BY DEF Digits
  <2>2. CASE k < 10
    <3>1. k \in 0 .. 9
      BY <2>2
    <3>2. <<k>> \in Digits
      BY <2>1, <3>1, DigitsAre
    <3> QED BY <2>2, <3>2
  <2>3. CASE ~(k < 10)
    BY <2>1, <2>3
  <2> QED BY <2>2, <2>3
<1>3. \A k \in Nat, s \in Digits : Append(s, k % 10) \in Digits /\ g[<<k, s>>] = Append(s, k % 10)
  <2> TAKE k \in Nat, s \in Digits
  <2>1. k % 10 \in 0 .. 9
    OBVIOUS
  <2>2. Append(s, k % 10) \in Digits
    BY <2>1 DEF Digits
  <2> QED BY <2>2
<1>4. \A k \in Nat : k \in small <=> k < 10
  OBVIOUS
<1> HIDE DEF small, base, down, g
<1>5. \A k \in Nat, s \in Digits : g[<<k, s>>] \in Digits
  BY <1>3
<1>6. PICK f : IsFullDescent(f, Digits, small, base, down, g)
  <2>1. \A k \in Nat \ small : down[k] \in 0 .. k - 1
    BY <1>1, Zenon
  <2>2. \A k \in Nat : base[k] \in Digits
    BY <1>2, Zenon
  <2>3. Descends(Digits, small, base, down, g)
    BY <2>1, <2>2, <1>5, Zenon DEF Descends
  <2> QED BY <2>3, DescentExists
<1>7. \A k \in Nat : f[k] = IF k < 10 THEN <<k>> ELSE Append(f[k \div 10], k % 10)
  <2> TAKE k \in Nat
  <2>1. f \in [Nat -> Digits] /\ f[k] = IF k \in small THEN base[k] ELSE g[<<k, f[down[k]]>>]
    BY <1>6, Zenon DEF IsFullDescent
  <2>2. CASE k < 10
    BY <1>2, <1>4, <2>1, <2>2, Zenon
  <2>3. CASE ~(k < 10)
    <3>1. down[k] = k \div 10 /\ k \div 10 \in Nat /\ k \notin small
      BY <1>1, <1>4, <2>3
    <3>2. f[k \div 10] \in Digits
      BY <2>1, <3>1, Zenon
    <3> QED BY <1>3, <2>1, <2>3, <3>1, <3>2, Zenon
  <2> QED BY <2>2, <2>3
<1>8. Right(f)
  <2>1. f = [k \in Nat |-> f[k]]
    BY <1>6, Zenon DEF IsFullDescent
  <2> QED BY <1>7, <2>1, Zenon
<1>9. Right(c)
  <2>1. c = CHOOSE h : Right(h)
    BY Zenon DEF DigitsOf
  <2> QED BY <1>8, <2>1, Zenon
<1> HIDE DEF c
<1>10. \A k \in Nat : c[k] = IF k < 10 THEN <<k>> ELSE Append(c[k \div 10], k % 10)
  BY <1>9, Zenon
<1> DEFINE T == {k \in Nat : c[k] \in Digits /\ c[k] # <<>> /\ Spelled(c[k]) = k}
<1>11. ASSUME NEW k \in Nat, \A j \in 0 .. k - 1 : j \in T PROVE k \in T
  <2>1. CASE k < 10
    <3>1. c[k] = <<k>>
      BY <1>10, <2>1, Zenon
    <3>2. k \in 0 .. 9
      BY <2>1
    <3>3. <<>> \in Digits
      BY DEF Digits
    <3>5. <<k>> \in Digits /\ <<k>> # <<>>
      BY <3>2, <3>3, DigitsAre
    <3>4. Spelled(<<k>>) = k
      BY <3>2, <3>3, SpelledDigit
    <3> QED BY <3>1, <3>4, <3>5
  <2>2. CASE ~(k < 10)
    <3> DEFINE q == k \div 10
               d == k % 10
    <3>1. q \in 0 .. k - 1 /\ d \in 0 .. 9 /\ k = 10 * q + d
      BY <2>2
    <3>2. c[k] = Append(c[q], d)
      BY <1>10, <2>2
    <3> HIDE DEF q, d
    <3>3. c[q] \in Digits /\ Spelled(c[q]) = q
      BY <1>11, <3>1
    <3>4. Append(c[q], d) \in Digits /\ Spelled(Append(c[q], d)) = 10 * q + d
      BY <3>1, <3>3, SpelledDigit
    <3>5. Append(c[q], d) # <<>>
      BY <3>1, <3>3, DigitsAre
    <3> QED BY <3>1, <3>2, <3>4, <3>5
  <2> QED BY <2>1, <2>2
<1> HIDE DEF T
<1>12. n \in T
  BY <1>11, StrongInduction
<1> QED BY <1>10, <1>12 DEF T, c

\* A division of the number in a structure.
LEMMA DivisionSpells ==
    ASSUME NEW val \in Vals
    PROVE  /\ Divided(val).val \in Vals /\ Divided(val).digit \in 0 .. 9
           /\ NumberIn(val) = 10 * NumberIn(Divided(val).val) + Divided(val).digit
           /\ Divided(val).val = Zero <=> NumberIn(val) < 10
<1> DEFINE rest == Divided(val).val
           d == Divided(val).digit
<1>1. PICK h : IsNumberOf(h, val) /\ h[1] = NumberIn(val)
  BY NumberInIs
<1>2. /\ rest \in Vals /\ d \in 0 .. 9
      /\ \A q : IsNumberOf(q, rest) => h[1] = 10 * q[1] + d
  BY <1>1, DivisionIsExact
<1> HIDE DEF rest, d
<1>3. PICK q : IsNumberOf(q, rest) /\ q[1] = NumberIn(rest)
  BY <1>2, NumberInIs
<1>4. NumberIn(val) = 10 * NumberIn(rest) + d
  BY <1>1, <1>2, <1>3
<1>5. NumberIn(rest) \in Nat
  BY <1>2, NumberInIs
<1>6. NumberIn(rest) = 0 <=> NumberIn(val) < 10
  BY <1>2, <1>4, <1>5
<1>7. rest = Zero <=> NumberIn(val) < 10
  BY <1>2, <1>6, NothingIsZero
<1> QED BY <1>2, <1>4, <1>7 DEF rest, d

\* read_param's loop reads the digits of the number in the structure, all of them and no zero
\* before them (convert.cpp:354-369).
THEOREM NumericReadsDigits ==
    ASSUME NEW val \in Vals
    PROVE  NumericDigits[val] = DigitsOf[NumberIn(val)]
<1> DEFINE Right(f) == f = [v \in Vals |-> LET d == Divided(v)
                                           IN  IF d.val = Zero THEN <<d.digit>> ELSE Append(f[d.val], d.digit)]
           h == [v \in Vals |-> DigitsOf[NumberIn(v)]]
           c == NumericDigits
<1>1. ASSUME NEW v \in Vals
      PROVE  DigitsOf[NumberIn(v)] = IF Divided(v).val = Zero THEN <<Divided(v).digit>>
                                     ELSE Append(DigitsOf[NumberIn(Divided(v).val)], Divided(v).digit)
  <2> DEFINE rest == Divided(v).val
             d == Divided(v).digit
             n == NumberIn(v)
             q == NumberIn(rest)
  <2>1. rest \in Vals /\ d \in 0 .. 9 /\ n = 10 * q + d /\ (rest = Zero <=> n < 10)
    BY DivisionSpells
  <2>2. n \in Nat /\ q \in Nat
    BY <2>1, NumberInIs
  <2> HIDE DEF rest, d, n, q
  <2>3. n \div 10 = q /\ n % 10 = d /\ (n < 10 => n = d)
    BY <2>1, <2>2
  <2>4. DigitsOf[n] = IF n < 10 THEN <<n>> ELSE Append(DigitsOf[n \div 10], n % 10)
    BY <2>2, DigitsOfIs
  <2>5. DigitsOf[n] = IF rest = Zero THEN <<d>> ELSE Append(DigitsOf[q], d)
    BY <2>1, <2>3, <2>4
  <2> QED BY <2>5 DEF rest, d, n, q
<1>2. \A v \in Vals : Divided(v).val \in Vals
  BY DivisionSpells
<1>3. Right(h)
  <2>1. \A v \in Vals : h[v] = LET d == Divided(v)
                               IN  IF d.val = Zero THEN <<d.digit>> ELSE Append(h[d.val], d.digit)
    BY <1>1, <1>2
  <2>2. h = [v \in Vals |-> h[v]]
    OBVIOUS
  <2> HIDE DEF h
  <2> QED BY <2>1, <2>2, Zenon
<1>4. Right(c)
  <2>1. c = CHOOSE f : Right(f)
    BY Zenon DEF NumericDigits
  <2> HIDE DEF h
  <2> QED BY <1>3, <2>1, Zenon
<1> HIDE DEF c, h
<1>5. \A v \in Vals : c[v] = IF Divided(v).val = Zero THEN <<Divided(v).digit>>
                             ELSE Append(c[Divided(v).val], Divided(v).digit)
  BY <1>4, Zenon
<1> DEFINE T == {n \in Nat : \A v \in Vals : NumberIn(v) = n => c[v] = DigitsOf[n]}
<1>6. ASSUME NEW n \in Nat, \A j \in 0 .. n - 1 : j \in T PROVE n \in T
  <2>1. SUFFICES ASSUME NEW v \in Vals, NumberIn(v) = n PROVE c[v] = DigitsOf[n]
    OBVIOUS
  <2>2. CASE Divided(v).val = Zero
    BY <1>1, <1>5, <2>1, <2>2, Zenon
  <2>3. CASE Divided(v).val # Zero
    <3> DEFINE q == NumberIn(Divided(v).val)
    <3>1. Divided(v).val \in Vals /\ n = 10 * q + Divided(v).digit /\ ~(n < 10) /\ Divided(v).digit \in 0 .. 9
      BY <2>1, <2>3, DivisionSpells
    <3>2. q \in Nat
      BY <3>1, NumberInIs
    <3>3. q \in 0 .. n - 1
      <4> HIDE DEF q
      <4> QED BY <3>1, <3>2
    <3>4. c[Divided(v).val] = DigitsOf[q]
      BY <1>6, <3>1, <3>3
    <3> HIDE DEF q
    <3>5. c[v] = Append(DigitsOf[q], Divided(v).digit)
      BY <1>5, <2>3, <3>4, Zenon
    <3> QED BY <1>1, <2>1, <2>3, <3>5, Zenon DEF q
  <2> QED BY <2>2, <2>3, Zenon
<1> HIDE DEF T
<1>7. \A n \in Nat : n \in T
  BY <1>6, StrongInduction
<1>8. NumberIn(val) \in T
  BY <1>7, NumberInIs
<1> QED BY <1>8 DEF T, c

------------------------------------------------------------------------------
(* Floating types *)

\* A floating type keeps the integers it holds exactly.
LEMMA FloatingIsExact ==
    ASSUME NEW n \in Int, NEW max \in Nat, Magnitude(n) <= max
    PROVE  Floating(n, max) = n
BY Zenon DEF Floating

\* There is one power of two with which max steps reach m and with half of which they do not.
LEMMA StepExists ==
    ASSUME NEW m \in Nat, NEW max \in Nat \ {0}, max < m
    PROVE  \E k \in 1 .. m : Power(2, k - 1) * max < m /\ m <= Power(2, k) * max
<1> DEFINE T == {k \in Nat : m <= Power(2, k) * max}
<1>1. m \in T
  <2>1. Power(2, m) \in Nat \ {0} /\ Power(2, m) > m
    BY PowerGrows
  <2> DEFINE p == Power(2, m)
  <2> HIDE DEF p
  <2>2. max * p \in Nat /\ max * p >= p
    BY <2>1, ProductGrows DEF p
  <2>3. p * max = max * p
    BY <2>1 DEF p
  <2> QED BY <2>1, <2>2, <2>3 DEF p
<1>2. PICK k \in T : \A y \in T : k <= y
  BY <1>1, LeastElement
<1>3. k # 0
  <2>1. Power(2, 0) = 1
    BY PowerSteps
  <2> QED BY <2>1
<1>4. k \in 1 .. m /\ k - 1 \in Nat
  BY <1>1, <1>2, <1>3
<1>5. k - 1 \notin T
  BY <1>2, <1>4
<1>6. Power(2, k - 1) \in Nat
  BY <1>4, PowerSteps
<1>7. Power(2, k - 1) * max < m
  <2> DEFINE p == Power(2, k - 1)
  <2>1. p \in Nat /\ ~(m <= p * max)
    BY <1>4, <1>5, <1>6
  <2> HIDE DEF p
  <2>2. p * max < m
    BY <2>1
  <2> QED BY <2>2 DEF p
<1> QED BY <1>2, <1>4, <1>7

\* An integer beyond those that a floating type holds exactly does not become one of them.
LEMMA FloatingBeyond ==
    ASSUME NEW n \in Int, NEW max \in Nat \ {0}, Magnitude(n) > max
    PROVE  /\ Floating(n, max) \in Int
           /\ n > 0 => Floating(n, max) >= max
           /\ n < 0 => Floating(n, max) <= -max
<1> DEFINE m == Magnitude(n)
           k == CHOOSE k \in 1 .. m : Power(2, k - 1) * max < m /\ m <= Power(2, k) * max
           step == Power(2, k)
           half == Power(2, k - 1)
           low == (m \div step) * step
           over == 2 * (m - low)
           near == IF over < step \/ (over = step /\ (low \div step) % 2 = 0) THEN low ELSE low + step
<1>1. m \in Nat /\ m > max
  BY DEF Magnitude
<1>2. k \in 1 .. m /\ half * max < m
  <2> HIDE DEF m
  <2> QED BY <1>1, StepExists
<1>3. step \in Nat \ {0} /\ half \in Nat \ {0} /\ step = 2 * half
  <2> HIDE DEF m, k
  <2>1. k \in Nat /\ k - 1 \in Nat /\ (k - 1) + 1 = k
    BY <1>1, <1>2
  <2>2. Power(2, k) \in Nat \ {0} /\ Power(2, k - 1) \in Nat \ {0}
    <3>1. 2 \in Nat \ {0}
      OBVIOUS
    <3>2. Power(2, k) \in Nat \ {0}
      BY <2>1, <3>1, PowerGrows, Zenon
    <3>3. Power(2, k - 1) \in Nat \ {0}
      BY <2>1, <3>1, PowerGrows, Zenon
    <3> QED BY <3>2, <3>3
  <2>3. Power(2, k) = 2 * Power(2, k - 1)
    BY <2>1, PowerSteps
  <2> QED BY <2>2, <2>3
<1>4. Floating(n, max) = IF n < 0 THEN -near ELSE near
  <2>1. ~(Magnitude(n) <= max)
    BY <1>1
  <2> QED BY <2>1, Zenon DEF Floating
<1>5. low \in Nat /\ low <= m /\ m < low + step
  <2> HIDE DEF m, step
  <2> DEFINE q == m \div step
             r == m % step
  <2>1. q \in Nat /\ r \in 0 .. step - 1 /\ m = q * step + r
    BY <1>1, <1>3, DivMod
  <2> HIDE DEF q, r
  <2>2. q * step \in Nat
    BY <1>3, <2>1
  <2>3. low = q * step
    BY DEF q
  <2> QED BY <1>1, <1>3, <2>1, <2>2, <2>3
<1>6. near \in Nat /\ 2 * near >= 2 * m - step
  <2> HIDE DEF m, step, low
  <2> QED BY <1>1, <1>3, <1>5
<1>7. near >= max
  <2> HIDE DEF m, step, half, near
  <2>1. near >= m - half
    BY <1>1, <1>3, <1>6
  <2>2. CASE half = 1
    BY <1>1, <1>6, <2>1, <2>2
  <2>3. CASE half # 1
    <3>1. half * (max - 1) >= max - 1 /\ half * (max - 1) \in Nat
      <4>1. max - 1 \in Nat
        OBVIOUS
      <4> QED BY <1>3, <4>1, ProductGrows
    <3>2. half * max = half * (max - 1) + half
      BY <1>3
    <3>3. half * max + 1 <= m
      BY <1>1, <1>2, <1>3, <3>1, <3>2
    <3> QED BY <1>1, <1>3, <1>6, <2>1, <3>1, <3>2, <3>3
  <2> QED BY <2>2, <2>3
<1> HIDE DEF near
<1> QED BY <1>4, <1>6, <1>7

------------------------------------------------------------------------------
(* Texts *)

\* The digits of a number in a text, and its exponent.
LEMMA NumbersAre ==
    ASSUME NEW t \in Text, t.kind = "number"
    PROVE  t.whole \in Digits /\ t.frac \in Digits /\ t.exp \in Nat /\ t.neg \in BOOLEAN
BY DEF Text, Digits

\* What a text means is a fraction, and its whole part is the quotient with the text's sign.
LEMMA FractionIs ==
    ASSUME NEW t \in Text
    PROVE  /\ Numerator(t) \in Nat /\ Denominator(t) \in Nat \ {0}
           /\ WholePart(t) \in Int /\ Magnitude(WholePart(t)) = Numerator(t) \div Denominator(t)
<1>1. Numerator(t) \in Nat /\ Denominator(t) \in Nat \ {0}
  <2>1. CASE t.kind = "number"
    <3>1. t.whole \o t.frac \in Digits /\ t.exp \in Nat /\ Len(t.frac) \in Nat
      BY <2>1, NumbersAre, SpelledConcat DEF Digits
    <3>2. Spelled(t.whole \o t.frac) \in Nat
      BY <3>1, SpelledBounds
    <3>3. 10 \in Nat \ {0}
      OBVIOUS
    <3>4. Power(10, t.exp) \in Nat /\ Power(10, Len(t.frac)) \in Nat \ {0}
      BY <3>1, <3>3, PowerGrows, Zenon
    <3>5. \A a, b \in Nat : a * b \in Nat
      OBVIOUS
    <3> QED BY <2>1, <3>2, <3>4, <3>5 DEF Numerator, Denominator
  <2>2. CASE t.kind # "number"
    BY <2>2 DEF Numerator, Denominator
  <2> QED BY <2>1, <2>2
<1> DEFINE q == Numerator(t) \div Denominator(t)
<1>2. q \in Nat
  BY <1>1, DivMod
<1>3. WholePart(t) = q \/ WholePart(t) = -q
  BY DEF WholePart, Signed
<1> HIDE DEF q
<1>4. WholePart(t) \in Int /\ Magnitude(WholePart(t)) = q
  BY <1>2, <1>3 DEF Magnitude
<1> QED BY <1>1, <1>4 DEF q

------------------------------------------------------------------------------
(* What put_int makes of a number *)

\* An integer type takes the numbers whose whole part is one of its own, exactly, and says
\* when it cut something off; it refuses every other with 22003, words with 22018.  The
\* number is one that the floating types of the build carry: without that this fails, see
\* MCBlockFetchDouble.  The bounds of the type may be beyond what a long double holds.
THEOREM PutIntStoresWhatFits ==
    ASSUME NEW t \in Text, NEW type \in DOMAIN IntTypes,
           NEW built, built.long_double \in Nat, DoubleMax <= built.long_double,
           Magnitude(WholePart(t)) <= DoubleMax \/ (parse_ll(t) /\ LongLongMax < built.long_double)
    PROVE  put_int(t, type, built)
             = IF ~IsNumber(t) THEN Failed("22018")
               ELSE IF WholePart(t) \in IntTypes[type].lo .. IntTypes[type].hi
                 THEN Stored(HasFraction(t), "01S07", <<"int", WholePart(t)>>, IntTypes[type].size)
               ELSE Failed("22003")
<1> DEFINE n == WholePart(t)
           lo == IntTypes[type].lo
           hi == IntTypes[type].hi
           max == built.long_double
           v == IF parse_ll(t) THEN Floating(n, max) ELSE Floating(n, DoubleMax)
           low == Floating(lo, max)
           high == Floating(hi, max)
<1>1. n \in Int /\ Magnitude(n) <= max /\ (~parse_ll(t) => Magnitude(n) <= DoubleMax)
  <2>1. n \in Int
    BY FractionIs
  <2>2. parse_ll(t) => n \in -LongLongMax - 1 .. LongLongMax
    BY DEF parse_ll
  <2>3. Magnitude(n) <= DoubleMax \/ (parse_ll(t) /\ LongLongMax < max)
    OBVIOUS
  <2> HIDE DEF n, max
  <2>4. max \in Nat /\ DoubleMax <= max
    BY DEF max
  <2> QED BY <2>1, <2>2, <2>3, <2>4, ConvertConstants DEF Magnitude
<1>2. lo \in Int /\ hi \in Nat /\ lo <= 0 /\ max \in Nat \ {0} /\ DoubleMax \in Nat
  BY ConvertConstants
<1>3. v = n
  <2> HIDE DEF n, max
  <2>1. parse_ll(t) => Floating(n, max) = n
    BY <1>1, <1>2, FloatingIsExact
  <2>2. ~parse_ll(t) => Floating(n, DoubleMax) = n
    BY <1>1, <1>2, FloatingIsExact
  <2> QED BY <2>1, <2>2
<1>4. (n < low) = (n < lo)
  <2> HIDE DEF n, lo, max
  <2>1. CASE Magnitude(lo) <= max
    BY <1>2, <2>1, FloatingIsExact
  <2>2. CASE ~(Magnitude(lo) <= max)
    <3>1. Magnitude(lo) > max /\ lo < 0 /\ lo < -max
      BY <1>2, <2>2 DEF Magnitude
    <3>2. low \in Int /\ low <= -max
      BY <1>2, <3>1, FloatingBeyond
    <3> HIDE DEF low
    <3> QED BY <1>1, <1>2, <3>1, <3>2 DEF Magnitude
  <2> QED BY <2>1, <2>2
<1>5. (n > high) = (n > hi)
  <2> HIDE DEF n, hi, max
  <2>1. CASE Magnitude(hi) <= max
    BY <1>2, <2>1, FloatingIsExact
  <2>2. CASE ~(Magnitude(hi) <= max)
    <3>1. Magnitude(hi) > max /\ hi > 0 /\ hi > max
      BY <1>2, <2>2 DEF Magnitude
    <3>2. high \in Int /\ high >= max
      BY <1>2, <3>1, FloatingBeyond
    <3> HIDE DEF high
    <3> QED BY <1>1, <1>2, <3>1, <3>2 DEF Magnitude
  <2> QED BY <2>1, <2>2
<1>6. put_int(t, type, built)
        = IF ~IsNumber(t) THEN Failed("22018")
          ELSE IF v < low \/ v > high THEN Failed("22003")
          ELSE Stored(HasFraction(t), "01S07", <<"int", IF v \in lo .. hi THEN v ELSE IF built.saturates THEN hi ELSE lo>>,
                      IntTypes[type].size)
  BY Zenon DEF put_int
<1>7. n \in lo .. hi <=> ~(n < lo \/ n > hi)
  <2> HIDE DEF n, lo, hi
  <2> QED BY <1>1, <1>2
<1> HIDE DEF v, low, high
<1>8. put_int(t, type, built)
        = IF ~IsNumber(t) THEN Failed("22018")
          ELSE IF n < lo \/ n > hi THEN Failed("22003")
          ELSE Stored(HasFraction(t), "01S07", <<"int", IF n \in lo .. hi THEN n ELSE IF built.saturates THEN hi ELSE lo>>,
                      IntTypes[type].size)
  BY <1>3, <1>4, <1>5, <1>6, Zenon
<1> QED BY <1>7, <1>8, Zenon

------------------------------------------------------------------------------
(* What put_numeric makes of a number *)

\* Zeros spell 0.
LEMMA ZerosAre ==
    ASSUME NEW n \in Int
    PROVE  /\ Zeros(n) \in Digits /\ Spelled(Zeros(n)) = 0
           /\ Len(Zeros(n)) = IF n < 0 THEN 0 ELSE n
<1>1. CASE n < 0
  <2>1. Zeros(n) = <<>>
    BY <1>1 DEF Zeros
  <2>2. <<>> \in Digits /\ Len(<<>>) = 0
    BY DEF Digits
  <2>3. Spelled(<<>>) = 0
    BY <2>2, SpelledBounds
  <2> QED BY <1>1, <2>1, <2>2, <2>3
<1>2. CASE ~(n < 0)
  <2>1. n \in Nat
    BY <1>2
  <2>2. Zeros(n) \in Digits /\ Len(Zeros(n)) = n /\ \A i \in DOMAIN Zeros(n) : Zeros(n)[i] = 0
    BY <2>1 DEF Zeros, Digits
  <2>3. Spelled(Zeros(n)) = 0
    BY <2>2, SpelledBounds
  <2> QED BY <1>2, <2>2, <2>3
<1> QED BY <1>1, <1>2

\* Digits one by one.
LEMMA SameDigits ==
    ASSUME NEW a \in Digits, NEW b \in Digits, Len(a) = Len(b), \A i \in 1 .. Len(a) : a[i] = b[i]
    PROVE  a = b
BY DEF Digits

\* Digits and more digits, one by one.
LEMMA ConcatIs ==
    ASSUME NEW a \in Digits, NEW b \in Digits
    PROVE  /\ a \o b \in Digits /\ Len(a) \in Nat /\ Len(b) \in Nat /\ Len(a \o b) = Len(a) + Len(b)
           /\ \A i \in 1 .. Len(a) + Len(b) : (a \o b)[i] = IF i <= Len(a) THEN a[i] ELSE b[i - Len(a)]
BY DEF Digits

\* It does not matter which are put together first.
LEMMA ConcatAssociates ==
    ASSUME NEW a \in Digits, NEW b \in Digits, NEW c \in Digits
    PROVE  (a \o b) \o c = a \o (b \o c)
BY DEF Digits

\* A fraction that is filled with zeros is the fraction and the zeros.
LEMMA FillsToScale ==
    ASSUME NEW f \in Digits, NEW s \in Nat, Len(f) <= s
    PROVE  /\ ToScale(f, s) = f \o Zeros(s - Len(f)) /\ ToScale(f, s) \in Digits
           /\ Len(ToScale(f, s)) = s
<1>1. Len(f) \in Nat /\ s - Len(f) \in Nat /\ \A i \in 1 .. Len(f) : f[i] \in 0 .. 9
  BY DEF Digits
<1>2. ToScale(f, s) \in Digits /\ Len(ToScale(f, s)) = s /\ DOMAIN ToScale(f, s) = 1 .. s
  BY <1>1 DEF ToScale, Digits
<1>3. Zeros(s - Len(f)) \in Digits /\ Len(Zeros(s - Len(f))) = s - Len(f)
  BY <1>1 DEF Zeros, Digits
<1>4. f \o Zeros(s - Len(f)) \in Digits /\ Len(f \o Zeros(s - Len(f))) = s
  <2> DEFINE z == Zeros(s - Len(f))
  <2>1. z \in Digits /\ Len(z) = s - Len(f)
    BY <1>3
  <2> HIDE DEF z
  <2>2. f \o z \in Digits /\ Len(f \o z) = Len(f) + Len(z)
    BY <2>1, SpelledConcat
  <2> QED BY <1>1, <2>1, <2>2 DEF z
<1>5. ASSUME NEW i \in 1 .. s PROVE ToScale(f, s)[i] = (f \o Zeros(s - Len(f)))[i]
  <2> DEFINE z == Zeros(s - Len(f))
  <2>1. z \in Digits /\ Len(z) = s - Len(f)
    BY <1>3
  <2>2. i > Len(f) => z[i - Len(f)] = 0
    BY <1>1 DEF Zeros
  <2>3. ToScale(f, s)[i] = IF i <= Len(f) THEN f[i] ELSE 0
    BY DEF ToScale
  <2> HIDE DEF z
  <2>4. (f \o z)[i] = IF i <= Len(f) THEN f[i] ELSE z[i - Len(f)]
    BY <1>1, <2>1 DEF Digits
  <2>5. i <= Len(f) \/ i > Len(f)
    BY <1>1
  <2> QED BY <2>2, <2>3, <2>4, <2>5 DEF z
<1>6. ToScale(f, s) = f \o Zeros(s - Len(f))
  <2> DEFINE a == ToScale(f, s)
             b == f \o Zeros(s - Len(f))
  <2>1. a \in Digits /\ b \in Digits /\ Len(a) = s /\ Len(b) = s /\ \A i \in 1 .. s : a[i] = b[i]
    BY <1>2, <1>4, <1>5
  <2> HIDE DEF a, b
  <2>2. a = b
    BY <2>1 DEF Digits
  <2> QED BY <2>2 DEF a, b
<1> QED BY <1>2, <1>6

\* A fraction that is cut is what is kept of it, and a rest that is 0 when only zeros are cut.
LEMMA CutsToScale ==
    ASSUME NEW f \in Digits, NEW s \in Nat, s < Len(f)
    PROVE  /\ ToScale(f, s) \in Digits /\ Len(ToScale(f, s)) = s
           /\ \E rest \in Digits : /\ f = ToScale(f, s) \o rest /\ Len(rest) = Len(f) - s
                                   /\ Spelled(rest) = 0 <=> \A i \in s + 1 .. Len(f) : f[i] = 0
<1>1. Len(f) \in Nat /\ \A i \in 1 .. Len(f) : f[i] \in 0 .. 9
  BY DEF Digits
<1>2. ToScale(f, s) \in Digits /\ Len(ToScale(f, s)) = s
  BY <1>1 DEF ToScale, Digits
<1> DEFINE rest == [i \in 1 .. Len(f) - s |-> f[i + s]]
<1>3. rest \in Digits /\ Len(rest) = Len(f) - s /\ DOMAIN rest = 1 .. Len(f) - s
  <2>1. \A i \in 1 .. Len(f) - s : i + s \in 1 .. Len(f)
    BY <1>1
  <2> QED BY <1>1, <2>1 DEF Digits
<1>4. \A i \in 1 .. Len(f) - s : rest[i] = f[i + s]
  OBVIOUS
<1>5. \A i \in 1 .. s : ToScale(f, s)[i] = f[i]
  BY <1>1 DEF ToScale
<1> HIDE DEF rest
<1>6. f = ToScale(f, s) \o rest
  <2> DEFINE a == ToScale(f, s)
  <2>1. a \in Digits /\ Len(a) = s /\ \A i \in 1 .. s : a[i] = f[i]
    BY <1>2, <1>5
  <2> HIDE DEF a
  <2>2. a \o rest \in Digits /\ Len(a \o rest) = Len(f)
    <3>1. a \o rest \in Digits /\ Len(a \o rest) = Len(a) + Len(rest)
      BY <1>3, <2>1, ConcatIs, Zenon
    <3> QED BY <1>1, <1>3, <2>1, <3>1
  <2>3. ASSUME NEW i \in 1 .. Len(f) PROVE (a \o rest)[i] = f[i]
    <3>1. (a \o rest)[i] = IF i <= s THEN a[i] ELSE rest[i - s]
      <4>1. \A j \in 1 .. Len(a) + Len(rest) : (a \o rest)[j] = IF j <= Len(a) THEN a[j] ELSE rest[j - Len(a)]
        BY <1>3, <2>1, ConcatIs, Zenon
      <4>2. i \in 1 .. Len(a) + Len(rest)
        BY <1>1, <1>3, <2>1
      <4> QED BY <2>1, <4>1, <4>2, Zenon
    <3>2. CASE i <= s
      BY <2>1, <3>1, <3>2
    <3>3. CASE ~(i <= s)
      <4>1. i - s \in 1 .. Len(f) - s /\ (i - s) + s = i
        BY <1>1, <3>3
      <4>2. rest[i - s] = f[(i - s) + s]
        BY <1>4, <4>1
      <4> QED BY <3>1, <3>3, <4>1, <4>2
    <3> QED BY <3>2, <3>3
  <2>4. f = a \o rest
    BY <2>2, <2>3, SameDigits
  <2> QED BY <2>4 DEF a
<1>7. Spelled(rest) = 0 <=> \A i \in s + 1 .. Len(f) : f[i] = 0
  <2>1. Spelled(rest) = 0 <=> \A i \in 1 .. Len(f) - s : rest[i] = 0
    BY <1>3, SpelledBounds
  <2>2. ASSUME \A i \in 1 .. Len(f) - s : rest[i] = 0, NEW i \in s + 1 .. Len(f) PROVE f[i] = 0
    <3>1. i - s \in 1 .. Len(f) - s /\ (i - s) + s = i
      BY <1>1
    <3> QED BY <1>4, <2>2, <3>1
  <2>3. ASSUME \A i \in s + 1 .. Len(f) : f[i] = 0, NEW i \in 1 .. Len(f) - s PROVE rest[i] = 0
    <3>1. i + s \in s + 1 .. Len(f)
      BY <1>1
    <3> QED BY <1>4, <2>3, <3>1
  <2> QED BY <2>1, <2>2, <2>3
<1> QED BY <1>2, <1>3, <1>6, <1>7

\* What the digits at the scale spell, and the rest that is cut off them.
LEMMA SpelledToScale ==
    ASSUME NEW w \in Digits, NEW f \in Digits, NEW s \in Nat
    PROVE  /\ w \o ToScale(f, s) \in Digits
           /\ \E rest \in 0 .. Power(10, Len(f)) - 1 :
                 /\ Spelled(w \o f) * Power(10, s) = Spelled(w \o ToScale(f, s)) * Power(10, Len(f)) + rest
                 /\ rest = 0 <=> \A i \in s + 1 .. Len(f) : f[i] = 0
<1> DEFINE F == Len(f)
           P == Power(10, F)
           S == Power(10, s)
           a == ToScale(f, s)
<1>1. F \in Nat /\ P \in Nat \ {0} /\ S \in Nat \ {0}
  <2>1. F \in Nat /\ 10 \in Nat \ {0}
    BY DEF Digits
  <2> QED BY <2>1, PowerGrows, Zenon
<1>2. CASE F <= s
  <2> DEFINE z == Zeros(s - F)
             Q == Power(10, s - F)
  <2>1. a = f \o z /\ a \in Digits
    BY <1>2, FillsToScale
  <2>2. z \in Digits /\ Spelled(z) = 0 /\ Len(z) = s - F /\ s - F \in Nat
    <3> DEFINE d == s - F
    <3>1. d \in Int /\ ~(d < 0) /\ d \in Nat
      BY <1>1, <1>2
    <3> HIDE DEF d
    <3>2. Zeros(d) \in Digits /\ Spelled(Zeros(d)) = 0 /\ Len(Zeros(d)) = d
      BY <3>1, ZerosAre
    <3> QED BY <3>1, <3>2 DEF d
  <2> HIDE DEF z
  <2>3. Spelled(w \o f) \in Nat /\ w \o f \in Digits
    BY SpelledConcat
  <2>4. w \o a = (w \o f) \o z
    BY <2>1, <2>2 DEF Digits
  <2>5. w \o a \in Digits /\ Spelled(w \o a) = Spelled(w \o f) * Q
    <3> DEFINE v == w \o f
    <3>1. v \in Digits /\ Spelled(v) \in Nat /\ w \o a = v \o z
      BY <2>3, <2>4
    <3> HIDE DEF v, a
    <3>2. v \o z \in Digits /\ Spelled(v \o z) = Spelled(v) * Power(10, Len(z)) + Spelled(z)
      BY <2>2, <3>1, SpelledConcat
    <3>3. Power(10, Len(z)) = Q
      BY <2>2
    <3>4. Q \in Nat
      BY <2>2, PowerSteps
    <3> HIDE DEF Q
    <3>5. Spelled(v \o z) = Spelled(v) * Q
      BY <2>2, <3>1, <3>2, <3>3, <3>4
    <3> QED BY <3>1, <3>2, <3>5 DEF v
  <2>6. S = Q * P
    <3>1. (s - F) + F = s
      BY <1>1
    <3> DEFINE d == s - F
    <3>2. d \in Nat /\ d + F = s
      BY <2>2, <3>1
    <3> HIDE DEF d
    <3>3. Power(10, d + F) = Power(10, d) * Power(10, F)
      BY <1>1, <3>2, PowerAdds
    <3> QED BY <3>2, <3>3 DEF d
  <2>7. Q \in Nat
    BY <2>2, PowerSteps
  <2>8. Spelled(w \o f) * S = Spelled(w \o a) * P + 0
    <3> DEFINE x == Spelled(w \o f)
    <3> HIDE DEF x, P, Q, S
    <3>1. x * (Q * P) = (x * Q) * P
      BY <1>1, <2>3, <2>7, Associates DEF x
    <3>2. x * Q \in Nat /\ (x * Q) * P \in Nat
      BY <1>1, <2>3, <2>7 DEF x
    <3>3. Spelled(w \o a) * P = (x * Q) * P
      BY <2>5 DEF x
    <3> QED BY <2>6, <3>1, <3>2, <3>3 DEF x
  <2>9. \A i \in s + 1 .. Len(f) : f[i] = 0
    BY <1>1, <1>2
  <2>10. 0 \in 0 .. P - 1
    BY <1>1
  <2> QED BY <2>5, <2>8, <2>9, <2>10
<1>3. CASE s < F
  <2>1. a \in Digits /\ Len(a) = s
    BY <1>3, CutsToScale
  <2>2. PICK r \in Digits : /\ f = a \o r /\ Len(r) = F - s
                            /\ Spelled(r) = 0 <=> \A i \in s + 1 .. F : f[i] = 0
    BY <1>3, CutsToScale
  <2> DEFINE R == Power(10, F - s)
             x == Spelled(w \o a)
             y == Spelled(r)
  <2> HIDE DEF a
  <2>3. w \o a \in Digits /\ x \in Nat /\ y \in Nat /\ y < R
    <3>1. w \o a \in Digits
      BY <2>1, SpelledConcat
    <3>2. x \in Nat
      BY <3>1, SpelledBounds
    <3>3. y \in Nat /\ y < Power(10, Len(r))
      BY SpelledBounds
    <3> QED BY <2>2, <3>1, <3>2, <3>3
  <2>4. Spelled(w \o f) = x * R + y
    <3> DEFINE v == w \o a
    <3>1. v \in Digits /\ w \o f = v \o r
      <4>1. (w \o a) \o r = w \o (a \o r)
        BY <2>1, ConcatAssociates, Zenon
      <4>2. f = a \o r
        BY <2>2, Zenon
      <4> QED BY <2>3, <4>1, <4>2, Zenon
    <3> HIDE DEF v
    <3>2. Spelled(v \o r) = Spelled(v) * Power(10, Len(r)) + Spelled(r)
      BY <3>1, SpelledConcat
    <3> QED BY <2>2, <3>1, <3>2 DEF v
  <2>5. P = R * S /\ R \in Nat
    <3> DEFINE d == F - s
    <3>1. d \in Nat /\ d + s = F
      BY <1>1, <1>3
    <3> HIDE DEF d
    <3>2. Power(10, d + s) = Power(10, d) * Power(10, s)
      BY <3>1, PowerAdds
    <3>3. Power(10, d) \in Nat
      BY <3>1, PowerSteps
    <3> QED BY <3>1, <3>2, <3>3 DEF d
  <2> HIDE DEF x, y, R, P, S
  <2>6. (x * R + y) * S = x * P + y * S
    <3>1. x * (R * S) = (x * R) * S
      BY <1>1, <2>3, <2>5, Associates
    <3>2. x * R \in Nat
      BY <2>3, <2>5
    <3>3. (x * R + y) * S = (x * R) * S + y * S
      BY <1>1, <2>3, <3>2
    <3> QED BY <2>5, <3>1, <3>3
  <2>7. y * S \in Nat /\ y * S < P
    <3>1. y * S < R * S
      BY <1>1, <2>3, <2>5, ProductOrder
    <3>2. y * S \in Nat
      BY <1>1, <2>3
    <3> QED BY <2>5, <3>1, <3>2
  <2>8. y * S = 0 <=> y = 0
    <3>1. y # 0 => S * y >= S
      <4>1. CASE y # 0
        <5>1. y * S >= S
          BY <1>1, <2>3, <4>1, ProductGrows
        <5> QED BY <1>1, <2>3, <5>1
      <4> QED BY <4>1
    <3> QED BY <1>1, <2>3, <3>1
  <2>9. y * S \in 0 .. P - 1
    BY <1>1, <2>7
  <2> QED BY <2>2, <2>3, <2>4, <2>6, <2>8, <2>9 DEF x, y, P, S, a
<1> QED BY <1>1, <1>2, <1>3

\* A number that printf does not round is the one it was, in the units of the scale; one that
\* it rounds becomes one of its neighbours.
LEMMA RoundedIs ==
    ASSUME NEW t \in Text, NEW scale \in Nat, Magnitude(WholePart(t)) <= DoubleMax
    PROVE  /\ Rounded(t, scale) \in Nat
           /\ \/ Rounded(t, scale) = Scaled(t, scale)
              \/ Rounded(t, scale) = Scaled(t, scale) + 1 /\ ~IsScaled(t, scale)
<1> DEFINE n == Numerator(t)
           d == Denominator(t)
           S == Power(10, scale)
           m == n * S
           q == m \div d
           over == 2 * (m % d)
<1>1. n \in Nat /\ d \in Nat \ {0} /\ Magnitude(WholePart(t)) = n \div d /\ WholePart(t) \in Int
  BY FractionIs
<1>2. S \in Nat
  BY PowerSteps
<1>3. m \in Nat
  <2> HIDE DEF n, S
  <2> QED BY <1>1, <1>2
<1>4. q \in Nat /\ m % d \in 0 .. d - 1 /\ Scaled(t, scale) = q /\ (IsScaled(t, scale) <=> m % d = 0)
  <2>1. Scaled(t, scale) = q /\ (IsScaled(t, scale) <=> m % d = 0)
    BY DEF Scaled, IsScaled
  <2> HIDE DEF m, d
  <2> QED BY <1>1, <1>3, <2>1, DivMod
<1>5. CASE HasFraction(t)
  <2>1. Rounded(t, scale) = IF over < d \/ (over = d /\ q % 2 = 0) THEN q ELSE q + 1
    BY <1>5, Zenon DEF Rounded
  <2> HIDE DEF d, q
  <2> DEFINE r == m % d
  <2>2. over = 2 * r /\ r \in 0 .. d - 1
    BY <1>4
  <2> HIDE DEF r, over
  <2>3. r = 0 => over < d
    BY <1>1, <2>2
  <2>4. Rounded(t, scale) = q \/ (Rounded(t, scale) = q + 1 /\ r # 0)
    BY <2>1, <2>3
  <2> QED BY <1>4, <2>4 DEF r
<1>6. CASE ~HasFraction(t)
  <2>1. Rounded(t, scale) = Magnitude(Floating(WholePart(t), DoubleMax)) * S
    BY <1>6, Zenon DEF Rounded
  <2>2. Floating(WholePart(t), DoubleMax) = WholePart(t)
    BY <1>1, ConvertConstants, FloatingIsExact
  <2>3. Rounded(t, scale) = (n \div d) * S
    BY <1>1, <2>1, <2>2, Zenon
  <2>4. n % d = 0
    BY <1>6 DEF HasFraction
  <2> DEFINE p == n \div d
  <2>5. p \in Nat /\ n = p * d
    <3>1. p \in Nat /\ n = p * d + (n % d)
      BY <1>1, DivMod
    <3> HIDE DEF p, n, d
    <3> QED BY <1>1, <2>4, <3>1
  <2> HIDE DEF p, n, d, S
  <2>6. m = (p * S) * d + 0 /\ p * S \in Nat
    <3>1. p * S \in Nat
      BY <1>2, <2>5
    <3>2. (p * d) * S = (p * S) * d
      <4>1. p * (d * S) = (p * d) * S /\ p * (S * d) = (p * S) * d /\ d * S = S * d
        BY <1>1, <1>2, <2>5, Associates
      <4> QED BY <4>1
    <3>3. (p * S) * d \in Nat
      BY <1>1, <3>1
    <3> QED BY <2>5, <3>1, <3>2, <3>3
  <2>7. q = p * S
    <3> DEFINE z == p * S
               r == m % d
    <3> HIDE DEF z, m
    <3>1. q \in Nat /\ r \in 0 .. d - 1 /\ m = q * d + r
      BY <1>1, <1>3, DivMod
    <3>2. 0 \in 0 .. d - 1 /\ z \in Nat /\ m = z * d + 0
      BY <1>1, <2>6 DEF z
    <3> HIDE DEF q, r
    <3>3. q * d + r = z * d + 0
      BY <3>1, <3>2
    <3> QED BY <1>1, <3>1, <3>2, <3>3, DivModUnique DEF z
  <2>8. Rounded(t, scale) = p * S
    BY <2>3 DEF p
  <2> QED BY <1>4, <2>6, <2>7, <2>8
<1> QED BY <1>5, <1>6

\* The digits that put_numeric puts into the structure, and whether it says that it cut some.
Put(t, scale) == IF HasExponent(t) THEN DigitsOf[Rounded(t, scale)] ELSE t.whole \o ToScale(t.frac, scale)
Lost(t, scale) == ~HasExponent(t) /\ \E i \in scale + 1 .. Len(t.frac) : t.frac[i] # 0

\* They spell the number in units of the scale, and it says so when that is not all of it.
LEMMA PutIsTheNumber ==
    ASSUME NEW t \in Text, NEW scale \in Nat, HasExponent(t) => Magnitude(WholePart(t)) <= DoubleMax
    PROVE  /\ Put(t, scale) \in Digits
           /\ Spelled(Put(t, scale)) = IF HasExponent(t) THEN Rounded(t, scale) ELSE Scaled(t, scale)
           /\ Lost(t, scale) <=> ~HasExponent(t) /\ ~IsScaled(t, scale)
<1>1. CASE HasExponent(t)
  <2>1. Rounded(t, scale) \in Nat
    BY <1>1, RoundedIs
  <2>2. DigitsOf[Rounded(t, scale)] \in Digits /\ Spelled(DigitsOf[Rounded(t, scale)]) = Rounded(t, scale)
    BY <2>1, DigitsOfIs
  <2> QED BY <1>1, <2>2 DEF Put, Lost
<1>2. CASE ~HasExponent(t)
  <2>1. t.kind = "number" /\ t.exp = 0 /\ t.whole \in Digits /\ t.frac \in Digits
    BY <1>2, NumbersAre DEF HasExponent
  <2> DEFINE w == t.whole
             f == t.frac
             S == Power(10, scale)
             P == Power(10, Len(f))
             x == Spelled(w \o ToScale(f, scale))
             n == Spelled(w \o f)
  <2>2. w \o ToScale(f, scale) \in Digits /\ x \in Nat /\ n \in Nat
    <3>1. w \o ToScale(f, scale) \in Digits
      BY <2>1, SpelledToScale
    <3>2. w \o f \in Digits
      BY <2>1, SpelledConcat
    <3> QED BY <3>1, <3>2, SpelledBounds
  <2>3. PICK rest \in 0 .. P - 1 : /\ n * S = x * P + rest
                                   /\ rest = 0 <=> \A i \in scale + 1 .. Len(f) : f[i] = 0
    <3>1. w \in Digits /\ f \in Digits
      BY <2>1
    <3> HIDE DEF w, f
    <3> QED BY <3>1, SpelledToScale, Zenon
  <2>4. S \in Nat /\ P \in Nat \ {0}
    <3>1. Len(f) \in Nat /\ 10 \in Nat \ {0}
      BY <2>1 DEF Digits
    <3> QED BY <3>1, PowerSteps, PowerGrows, Zenon
  <2>5. Scaled(t, scale) = (n * S) \div P /\ (IsScaled(t, scale) <=> (n * S) % P = 0)
    <3>1. Power(10, t.exp) = 1
      BY <2>1, PowerSteps
    <3>2. Numerator(t) = n * 1 /\ Denominator(t) = P
      BY <2>1, <3>1 DEF Numerator, Denominator
    <3>3. Numerator(t) = n
      <4> HIDE DEF n
      <4> QED BY <2>2, <3>2
    <3> QED BY <3>2, <3>3 DEF Scaled, IsScaled
  <2> DEFINE m == n * S
  <2>6. m \in Nat
    <3> HIDE DEF n, S
    <3> QED BY <2>2, <2>4
  <2> HIDE DEF w, f, S, P, x, n
  <2>7. m \div P = x /\ m % P = rest
    <3> DEFINE a == m \div P
               b == m % P
    <3>1. m = x * P + rest
      BY <2>3
    <3> HIDE DEF m
    <3>2. a \in Nat /\ b \in 0 .. P - 1 /\ m = a * P + b
      BY <2>4, <2>6, DivMod
    <3> HIDE DEF a, b
    <3>3. a * P + b = x * P + rest
      BY <3>1, <3>2
    <3>4. a = x /\ b = rest
      BY <2>2, <2>3, <2>4, <3>2, <3>3, DivModUnique
    <3> QED BY <3>4 DEF a, b
  <2>8. Put(t, scale) = w \o ToScale(f, scale)
    BY <1>2 DEF Put, w, f
  <2>9. Lost(t, scale) <=> ~ \A i \in scale + 1 .. Len(f) : f[i] = 0
    BY <1>2 DEF Lost, f
  <2>10. Spelled(Put(t, scale)) = Scaled(t, scale)
    BY <2>5, <2>7, <2>8 DEF m, x
  <2>11. IsScaled(t, scale) <=> rest = 0
    BY <2>5, <2>7 DEF m
  <2> QED BY <1>2, <2>2, <2>3, <2>8, <2>9, <2>10, <2>11
<1> QED BY <1>1, <1>2

\* put_numeric takes the numbers whose size in units of the scale fits into the bytes, and
\* refuses every other with 22003, words with 22018.  What it puts into the structure is that
\* size, and it says so when it cut digits off.  The fraction may be of any length, and the
\* bytes of any number and width.
THEOREM PutNumericStoresWhatFits ==
    ASSUME NEW t \in Text, NEW scale \in Nat, NEW size, HasExponent(t) => Magnitude(WholePart(t)) <= DoubleMax
    PROVE  LET units == IF HasExponent(t) THEN Rounded(t, scale) ELSE Scaled(t, scale)
               sign == IF t.kind = "number" /\ t.neg THEN 0 ELSE 1
           IN  /\ ~IsNumber(t) => put_numeric(t, scale, size) = Failed("22018")
               /\ IsNumber(t) /\ ~Fits(units) => put_numeric(t, scale, size) = Failed("22003")
               /\ IsNumber(t) /\ Fits(units) =>
                    \E val \in Vals :
                       /\ NumberIn(val) = units
                       /\ put_numeric(t, scale, size)
                            = Stored(~HasExponent(t) /\ ~IsScaled(t, scale), "01S07",
                                     <<"numeric", [sign |-> sign, scale |-> scale, val |-> val]>>, size)
<1> DEFINE units == IF HasExponent(t) THEN Rounded(t, scale) ELSE Scaled(t, scale)
           sign == IF t.kind = "number" /\ t.neg THEN 0 ELSE 1
           e == t.kind \in {"true", "false"} \/ (t.kind = "number" /\ t.exp > 0)
           acc == Accumulated(Put(t, scale))
<1>1. /\ Put(t, scale) \in Digits /\ Spelled(Put(t, scale)) = units
      /\ Lost(t, scale) <=> ~HasExponent(t) /\ ~IsScaled(t, scale)
  BY PutIsTheNumber
<1>2. /\ acc.over <=> ~Fits(units)
      /\ acc.val \in Vals
      /\ ~acc.over => NumberIn(acc.val) = units
  <2> DEFINE digits == Put(t, scale)
  <2> HIDE DEF digits, units
  <2>1. digits \in Digits /\ Spelled(digits) = units
    BY <1>1 DEF digits
  <2>2. /\ Accumulated(digits).over = ~(Spelled(digits) < Limit)
        /\ Accumulated(digits).val \in Vals
        /\ ~Accumulated(digits).over => NumberIn(Accumulated(digits).val) = Spelled(digits)
    BY <2>1, NumericHoldsDigits
  <2> QED BY <2>1, <2>2, Zenon DEF Fits, Limit, digits
<1>3. IsNumber(t) => (e <=> HasExponent(t))
  <2>1. t.kind = "number" => t.exp \in Nat
    BY NumbersAre
  <2> QED BY <2>1 DEF IsNumber, HasExponent
<1>4. ~IsNumber(t) => put_numeric(t, scale, size) = Failed("22018")
  BY Zenon DEF put_numeric
<1>5. ASSUME IsNumber(t)
      PROVE  put_numeric(t, scale, size)
               = IF acc.over THEN Failed("22003")
                 ELSE Stored(Lost(t, scale), "01S07",
                             <<"numeric", [sign |-> sign, scale |-> scale, val |-> acc.val]>>, size)
  <2>1. e <=> HasExponent(t)
    BY <1>3, <1>5
  <2>2. Put(t, scale) = IF e THEN DigitsOf[Rounded(t, scale)] ELSE t.whole \o ToScale(t.frac, scale)
    BY <2>1, Zenon DEF Put
  <2>3. Lost(t, scale) = (~e /\ \E i \in scale + 1 .. Len(t.frac) : t.frac[i] # 0)
    BY <2>1, Zenon DEF Lost
  <2> QED BY <1>5, <2>2, <2>3, Zenon DEF put_numeric
<1>6. ASSUME IsNumber(t), ~Fits(units) PROVE put_numeric(t, scale, size) = Failed("22003")
  BY <1>2, <1>5, <1>6, Zenon
<1>7. ASSUME IsNumber(t), Fits(units)
      PROVE  \E val \in Vals :
                /\ NumberIn(val) = units
                /\ put_numeric(t, scale, size)
                     = Stored(~HasExponent(t) /\ ~IsScaled(t, scale), "01S07",
                              <<"numeric", [sign |-> sign, scale |-> scale, val |-> val]>>, size)
  <2>1. ~acc.over
    BY <1>2, <1>7
  <2>2. Lost(t, scale) = (~HasExponent(t) /\ ~IsScaled(t, scale))
    <3>1. Lost(t, scale) \in BOOLEAN /\ (~HasExponent(t) /\ ~IsScaled(t, scale)) \in BOOLEAN
      BY DEF Lost
    <3> QED BY <1>1, <3>1
  <2>3. put_numeric(t, scale, size)
          = Stored(~HasExponent(t) /\ ~IsScaled(t, scale), "01S07",
                   <<"numeric", [sign |-> sign, scale |-> scale, val |-> acc.val]>>, size)
    BY <1>5, <1>7, <2>1, <2>2, Zenon
  <2> HIDE DEF acc, units
  <2> QED BY <1>2, <2>1, <2>3, Zenon
<1> QED BY <1>4, <1>6, <1>7, Zenon

------------------------------------------------------------------------------
(* What read_param makes of a structure *)

\* A part of digits.
LEMMA SplitIs ==
    ASSUME NEW d \in Digits, NEW cut \in Nat, cut <= Len(d)
    PROVE  /\ SubSeq(d, 1, cut) \in Digits /\ SubSeq(d, cut + 1, Len(d)) \in Digits
           /\ Len(SubSeq(d, 1, cut)) = cut /\ Len(SubSeq(d, cut + 1, Len(d))) = Len(d) - cut
           /\ SubSeq(d, 1, cut) \o SubSeq(d, cut + 1, Len(d)) = d
<1> DEFINE n == Len(d)
           a == SubSeq(d, 1, cut)
           b == SubSeq(d, cut + 1, n)
<1>1. n \in Nat /\ \A i \in 1 .. n : d[i] \in 0 .. 9
  BY DEF Digits
<1>2. a \in Digits /\ Len(a) = cut /\ \A i \in 1 .. cut : a[i] = d[i]
  BY <1>1 DEF Digits
<1>3. b \in Digits /\ Len(b) = n - cut /\ \A i \in 1 .. n - cut : b[i] = d[cut + i]
  BY <1>1 DEF Digits
<1> HIDE DEF a, b
<1>4. a \o b \in Digits /\ Len(a \o b) = Len(a) + Len(b)
  BY <1>2, <1>3, ConcatIs, Zenon
<1>5. ASSUME NEW i \in 1 .. n PROVE (a \o b)[i] = d[i]
  <2>1. \A j \in 1 .. Len(a) + Len(b) : (a \o b)[j] = IF j <= Len(a) THEN a[j] ELSE b[j - Len(a)]
    BY <1>2, <1>3, ConcatIs, Zenon
  <2>2. (a \o b)[i] = IF i <= cut THEN a[i] ELSE b[i - cut]
    BY <1>1, <1>2, <1>3, <2>1
  <2>3. CASE i <= cut
    BY <1>2, <2>2, <2>3
  <2>4. CASE ~(i <= cut)
    <3>1. i - cut \in 1 .. n - cut /\ cut + (i - cut) = i
      BY <1>1, <2>4
    <3>2. b[i - cut] = d[cut + (i - cut)]
      BY <1>3, <3>1
    <3> QED BY <2>2, <2>4, <3>1, <3>2
  <2> QED BY <2>3, <2>4
<1>6. a \o b = d
  <2>1. Len(a \o b) = n
    BY <1>1, <1>2, <1>3, <1>4
  <2> QED BY <1>4, <1>5, <2>1, SameDigits
<1> QED BY <1>2, <1>3, <1>6 DEF a, b

\* A SQL_NUMERIC_STRUCT that the application hands over as a parameter is read as the number
\* in its bytes, in units of its scale and with its sign, and with a digit before the point.
THEOREM ReadNumericIsTheNumber ==
    ASSUME NEW ns, ns.val \in Vals, ns.scale \in Nat
    PROVE  LET back == read_numeric(ns)
           IN  /\ Numerator(back) = NumberIn(ns.val) /\ Denominator(back) = Power(10, ns.scale)
               /\ back.neg = (ns.sign = 0) /\ back.whole # <<>> /\ back \in Text
<1> DEFINE s == ns.scale
           n == NumberIn(ns.val)
           read == NumericDigits[ns.val]
           zeros == IF s > 0 THEN Zeros(s + 1 - Len(read)) ELSE <<>>
           digits == zeros \o read
           cut == Len(digits) - s
           whole == SubSeq(digits, 1, cut)
           frac == SubSeq(digits, cut + 1, Len(digits))
<1>1. n \in Nat /\ s \in Nat
  BY NumberInIs
<1>2. read \in Digits /\ read # <<>> /\ Spelled(read) = n
  <2> HIDE DEF n
  <2>1. read = DigitsOf[n]
    BY NumericReadsDigits DEF n
  <2> QED BY <1>1, <2>1, DigitsOfIs
<1>3. Len(read) \in Nat \ {0}
  <2> HIDE DEF read
  <2> QED BY <1>2 DEF Digits
<1> HIDE DEF read, n
<1>4. /\ zeros \in Digits /\ Spelled(zeros) = 0 /\ Len(zeros) \in Nat
      /\ s > 0 => Len(zeros) >= s + 1 - Len(read)
  <2>1. CASE s > 0
    <3> DEFINE k == s + 1 - Len(read)
    <3>1. k \in Int
      BY <1>1, <1>3
    <3> HIDE DEF k
    <3>2. Zeros(k) \in Digits /\ Spelled(Zeros(k)) = 0 /\ Len(Zeros(k)) = IF k < 0 THEN 0 ELSE k
      BY <3>1, ZerosAre
    <3>3. zeros = Zeros(k)
      BY <2>1 DEF k
    <3>4. Len(Zeros(k)) >= k /\ Len(Zeros(k)) \in Nat
      BY <3>1, <3>2
    <3> HIDE DEF zeros
    <3> QED BY <3>2, <3>3, <3>4 DEF k
  <2>2. CASE ~(s > 0)
    <3>1. <<>> \in Digits /\ Len(<<>>) = 0
      BY DEF Digits
    <3>2. Spelled(<<>>) = 0
      BY <3>1, SpelledBounds
    <3> QED BY <2>2, <3>1, <3>2
  <2> QED BY <2>1, <2>2
<1> HIDE DEF zeros
<1>5. digits \in Digits /\ Len(digits) = Len(zeros) + Len(read) /\ Spelled(digits) = n
  <2>1. /\ zeros \o read \in Digits /\ Len(zeros \o read) = Len(zeros) + Len(read)
        /\ Spelled(zeros \o read) = Spelled(zeros) * Power(10, Len(read)) + Spelled(read)
    BY <1>2, <1>4, SpelledConcat
  <2>2. Power(10, Len(read)) \in Nat
    BY <1>3, PowerSteps
  <2> QED BY <1>1, <1>2, <1>4, <2>1, <2>2
<1>6. Len(digits) \in Nat /\ cut \in Nat \ {0} /\ cut <= Len(digits) /\ Len(digits) - cut = s
  BY <1>1, <1>3, <1>4, <1>5
<1> HIDE DEF digits
<1>7. /\ whole \in Digits /\ frac \in Digits /\ Len(whole) = cut /\ Len(frac) = s /\ whole \o frac = digits
  <2> HIDE DEF cut
  <2> QED BY <1>5, <1>6, SplitIs
<1>8. whole # <<>>
  <2> HIDE DEF whole, cut
  <2> QED BY <1>6, <1>7
<1>9. read_numeric(ns) = Numeral(ns.sign = 0, whole, s > 0, frac, 0)
  BY Zenon DEF read_numeric, digits, zeros, read
<1> HIDE DEF whole, frac, cut
<1> DEFINE back == Numeral(ns.sign = 0, whole, s > 0, frac, 0)
<1>10. /\ back.kind = "number" /\ back.whole = whole /\ back.frac = frac /\ back.exp = 0
       /\ back.neg = (ns.sign = 0)
  BY DEF Numeral
<1>11. back \in Text
  <2>1. (ns.sign = 0) \in BOOLEAN /\ (s > 0) \in BOOLEAN
    OBVIOUS
  <2> QED BY <1>7, <2>1 DEF Text, Numeral, Digits
<1>12. Numerator(back) = n
  <2> HIDE DEF back
  <2>1. Numerator(back) = Spelled(digits) * Power(10, 0)
    BY <1>7, <1>10 DEF Numerator
  <2>2. Power(10, 0) = 1
    BY PowerSteps
  <2> QED BY <1>1, <1>5, <2>1, <2>2
<1>13. Denominator(back) = Power(10, s)
  <2> HIDE DEF back
  <2> QED BY <1>7, <1>10 DEF Denominator
<1> QED BY <1>8, <1>9, <1>10, <1>11, <1>12, <1>13 DEF n

\* A NUMERIC that put_numeric fills and the application hands back as a parameter is the
\* number it was given: at the scale, with its sign, cut, or rounded to one of the two numbers
\* next to it when the text has an exponent.
THEOREM NumericComesBack ==
    ASSUME NEW t \in Text, IsNumber(t), NEW scale \in Nat, NEW val \in Vals,
           HasExponent(t) => Magnitude(WholePart(t)) <= DoubleMax,
           NumberIn(val) = IF HasExponent(t) THEN Rounded(t, scale) ELSE Scaled(t, scale)
    PROVE  IsTheNumber([sign |-> IF t.kind = "number" /\ t.neg THEN 0 ELSE 1, scale |-> scale, val |-> val], t, scale)
<1> DEFINE ns == [sign |-> IF t.kind = "number" /\ t.neg THEN 0 ELSE 1, scale |-> scale, val |-> val]
           back == read_numeric(ns)
<1>1. ns.val = val /\ ns.scale = scale /\ ns.val \in Vals /\ ns.scale \in Nat
  OBVIOUS
<1>2. (ns.sign = 0) = (t.kind = "number" /\ t.neg)
  <2>1. (t.kind = "number" /\ t.neg) \in BOOLEAN
    OBVIOUS
  <2>2. ns.sign = IF t.kind = "number" /\ t.neg THEN 0 ELSE 1
    OBVIOUS
  <2> HIDE DEF ns
  <2> QED BY <2>1, <2>2
<1> HIDE DEF ns
<1>3. /\ Numerator(back) = NumberIn(ns.val) /\ Denominator(back) = Power(10, ns.scale)
      /\ back.neg = (ns.sign = 0) /\ back.whole # <<>>
  BY <1>1, ReadNumericIsTheNumber
<1>4. \/ Numerator(back) = Scaled(t, scale)
      \/ Numerator(back) = Scaled(t, scale) + 1 /\ HasExponent(t) /\ ~IsScaled(t, scale)
  <2>1. HasExponent(t) => \/ Rounded(t, scale) = Scaled(t, scale)
                          \/ Rounded(t, scale) = Scaled(t, scale) + 1 /\ ~IsScaled(t, scale)
    BY RoundedIs
  <2> HIDE DEF back
  <2> QED BY <1>1, <1>3, <2>1
<1>5. IsTheNumber(ns, t, scale)
  BY <1>1, <1>2, <1>3, <1>4, Zenon DEF IsTheNumber
<1> QED BY <1>5 DEF ns

------------------------------------------------------------------------------
(* Fetching a block of rows: BlockFetch *)


\* The lesser of two numbers.
LEMMA MinOfTwo ==
    ASSUME NEW a \in Int, NEW b \in Int
    PROVE  Min({a, b}) = IF a <= b THEN a ELSE b
<1> DEFINE m == IF a <= b THEN a ELSE b
<1>1. m \in {a, b} /\ \A y \in {a, b} : m <= y
  OBVIOUS
<1>2. \A x \in {a, b} : (\A y \in {a, b} : x <= y) => x = m
  OBVIOUS
<1>3. Min({a, b}) = CHOOSE x \in {a, b} : \A y \in {a, b} : x <= y
  BY DEF Min
<1> HIDE DEF m
<1>4. Min({a, b}) = m
  BY <1>1, <1>2, <1>3
<1> QED BY <1>4 DEF m

\* The result's columns and rows.
LEMMA ResultIs ==
    ASSUME TypeOK
    PROVE  /\ result.columns \in Seq(Column) /\ result.rows \in Seq(Seq(Text \cup {Null}))
           /\ \A i \in DOMAIN result.rows : Len(result.rows[i]) = Len(result.columns)
BY BlockFetchConstants DEF TypeOK

\* The columns that a fetch writes are those that are bound and exist.
LEMMA ReadIs ==
    ASSUME TypeOK
    PROVE  /\ Written = Read
           /\ \A k \in Read : /\ k \in DOMAIN result.columns /\ k \in Nat
                              /\ cols[k] \in Binding /\ result.columns[k] \in Column
<1>1. result.columns \in Seq(Column)
  BY ResultIs
<1>2. DOMAIN result.columns = 1 .. Len(result.columns) /\ Len(result.columns) \in Nat
  BY <1>1
<1>3. DOMAIN cols = 1 .. MaxColumn /\ MaxColumn \in Nat
  BY BlockFetchConstants DEF TypeOK
<1>4. Written = Read
  <2>1. \A k \in DOMAIN cols : k <= Len(result.columns) <=> k \in DOMAIN result.columns
    BY <1>2, <1>3
  <2> QED BY <2>1 DEF Written, Read, HasColumn
<1>5. ASSUME NEW k \in Read
      PROVE  /\ k \in DOMAIN result.columns /\ k \in Nat
             /\ cols[k] \in Binding /\ result.columns[k] \in Column
  <2>1. k \in DOMAIN cols /\ cols[k].bound /\ k \in DOMAIN result.columns
    BY <1>5 DEF Read, HasColumn
  <2>2. cols[k] # Unbound
    BY <2>1 DEF Unbound
  <2>3. <<k, cols[k]>> \in (1 .. MaxColumn) \X Binding
    BY <2>1, <2>2, BlockFetchConstants DEF TypeOK
  <2> QED BY <1>1, <2>1, <2>3
<1> QED BY <1>4, <1>5

\* The type of a column that a fetch writes, and its size.
LEMMA TypesAre ==
    ASSUME TypeOK, NEW k \in Read
    PROVE  /\ TypeOf(k) \in CTypes
           /\ TypeOf(k) \in DOMAIN IntTypes => TypeOf(k) # "NUMERIC" /\ TypeOf(k) # "CHAR"
           /\ cols[k].buffer_len \in Nat
           /\ CellSize(k) \in Nat
           /\ TypeOf(k) # "CHAR" => Size(TypeOf(k)) \in Nat \ {0} /\ CellSize(k) = Size(TypeOf(k))
           /\ TypeOf(k) = "CHAR" => Size(TypeOf(k)) = 0 /\ CellSize(k) = cols[k].buffer_len
           /\ TypeOf(k) = "NUMERIC" => Size(TypeOf(k)) = NumericSize
           /\ TypeOf(k) \in DOMAIN IntTypes => Size(TypeOf(k)) = IntTypes[TypeOf(k)].size
           /\ result.columns[k].scale \in Nat
<1>1. cols[k] \in Binding /\ result.columns[k] \in Column
  BY ReadIs
<1>2. cols[k].c_type \in CTypes \cup {"DEFAULT"} /\ result.columns[k].default \in CTypes
      /\ cols[k].buffer_len \in Nat /\ result.columns[k].scale \in Nat
  BY <1>1 DEF Binding, Column
<1> DEFINE type == TypeOf(k)
<1>3. type \in CTypes
  BY <1>2 DEF TypeOf
<1>4. DOMAIN IntTypes \cap {"CHAR", "NUMERIC", "DEFAULT"} = {} /\ NumericSize \in Nat \ {0}
  BY BlockFetchConstants
<1>5. \A x \in DOMAIN IntTypes : IntTypes[x].size \in Nat \ {0}
  BY ConvertConstants
<1>6. CellSize(k) = IF type = "CHAR" THEN cols[k].buffer_len ELSE Size(type)
  BY DEF CellSize
<1> HIDE DEF type
<1>7. /\ type \in DOMAIN IntTypes => type # "NUMERIC" /\ type # "CHAR" /\ Size(type) = IntTypes[type].size
      /\ type = "NUMERIC" => type \notin DOMAIN IntTypes /\ Size(type) = NumericSize
      /\ type = "CHAR" => Size(type) = 0
  BY <1>4 DEF Size
<1>8. type # "CHAR" => Size(type) \in Nat \ {0}
  BY <1>3, <1>4, <1>5, <1>7 DEF CTypes
<1> QED BY <1>2, <1>3, <1>6, <1>7, <1>8 DEF type

\* A fetch writes where the application looks.
LEMMA PlacesAre ==
    ASSUME TypeOK, NEW k \in Read, NEW i \in Nat
    PROVE  /\ cols[k].target # Null => /\ cols[k].target \in Nat
                                       /\ Target(k, i) \in Int /\ Target(k, i) = CellPlace(k, i)
           /\ cols[k].ind # Null => /\ cols[k].ind \in Nat
                                    /\ IndTarget(k, i) \in Int /\ IndTarget(k, i) = IndPlace(k, i)
<1>1. cols[k] \in Binding
  BY ReadIs
<1>2. /\ cols[k].target # Null => cols[k].target \in Nat
      /\ cols[k].ind # Null => cols[k].ind \in Nat
  BY <1>1 DEF Binding
<1>3. row_bind_offset \in Nat /\ row_bind_type \in Nat /\ IndicatorSize \in Nat
  BY BlockFetchConstants DEF TypeOK
<1> DEFINE size == IF row_bind_type = BY_COLUMN THEN CellSize(k) ELSE row_bind_type
<1>4. elem(k) = size /\ size \in Nat
  BY <1>3, TypesAre DEF elem
<1> HIDE DEF size
<1>5. (i - 1) * size = size * (i - 1) /\ size * (i - 1) \in Int
  BY <1>4
<1>6. ASSUME cols[k].target # Null
      PROVE  cols[k].target \in Nat /\ Target(k, i) \in Int /\ Target(k, i) = CellPlace(k, i)
  <2>1. Target(k, i) = cols[k].target + row_bind_offset + (i - 1) * size
    BY <1>4 DEF Target
  <2>2. CellPlace(k, i) = cols[k].target + row_bind_offset + size * (i - 1)
    BY DEF CellPlace, Place, size
  <2> QED BY <1>2, <1>3, <1>5, <1>6, <2>1, <2>2
<1> DEFINE step == IF row_bind_type = BY_COLUMN THEN IndicatorSize ELSE row_bind_type
<1>7. ind_elem = step /\ step \in Nat
  BY <1>3 DEF ind_elem
<1> HIDE DEF step
<1>8. (i - 1) * step = step * (i - 1) /\ step * (i - 1) \in Int
  BY <1>7
<1>9. ASSUME cols[k].ind # Null
      PROVE  cols[k].ind \in Nat /\ IndTarget(k, i) \in Int /\ IndTarget(k, i) = IndPlace(k, i)
  <2>1. IndTarget(k, i) = cols[k].ind + row_bind_offset + (i - 1) * step
    BY <1>7 DEF IndTarget
  <2>2. IndPlace(k, i) = cols[k].ind + row_bind_offset + step * (i - 1)
    BY DEF IndPlace, Place, step
  <2> QED BY <1>2, <1>3, <1>8, <1>9, <2>1, <2>2
<1> QED BY <1>6, <1>9

------------------------------------------------------------------------------
(* One value *)

\* The length of a text.
LEMMA LengthIs ==
    ASSUME NEW t \in Text
    PROVE  Length(t) \in Nat
<1>1. CASE t.kind = "number"
  <2>1. Len(t.whole) \in Nat /\ Len(t.frac) \in Nat
    BY <1>1, NumbersAre DEF Digits
  <2> DEFINE w == Len(t.whole)
             f == Len(t.frac)
             a == IF t.neg THEN 1 ELSE 0
             b == IF t.point THEN 1 ELSE 0
             c == IF t.exp > 0 THEN 2 ELSE 0
  <2>2. a \in Nat /\ b \in Nat /\ c \in Nat
    OBVIOUS
  <2>3. Length(t) = w + f + a + b + c
    BY <1>1, Zenon DEF Length
  <2>4. w \in Nat /\ f \in Nat
    BY <2>1
  <2> HIDE DEF w, f, a, b, c
  <2> QED BY <2>2, <2>3, <2>4
<1>2. CASE t.kind # "number"
  BY <1>2 DEF Length
<1> QED BY <1>1, <1>2

\* A text in a buffer: as much of it as there is room for, with the null at its end, and
\* nothing without a buffer.
LEMMA PutTextFits ==
    ASSUME NEW t \in Text, NEW len \in Nat
    PROVE  /\ PutText(t, len).rc = IF Length(t) >= len THEN "INFO" ELSE "SUCCESS"
           /\ PutText(t, len).stored <=> len # 0
           /\ len # 0 => \E n \in 0 .. Length(t) :
                 /\ n = Length(t) \/ n + 1 = len
                 /\ n + 1 <= len
                 /\ PutText(t, len).content = <<"text", t, n>> /\ PutText(t, len).size = n + 1
<1>1. Length(t) \in Nat
  BY LengthIs
<1>2. CASE len = 0
  BY <1>1, <1>2 DEF PutText
<1>3. CASE len # 0
  <2> DEFINE n == Min({Length(t), len - 1})
  <2>1. n = IF Length(t) <= len - 1 THEN Length(t) ELSE len - 1
    <3> DEFINE a == Length(t)
               b == len - 1
    <3>1. a \in Int /\ b \in Int
      BY <1>1
    <3> HIDE DEF a, b
    <3>2. Min({a, b}) = IF a <= b THEN a ELSE b
      BY <3>1, MinOfTwo
    <3> QED BY <3>2 DEF a, b
  <2>2. PutText(t, len) = Stored(n < Length(t), "01004", <<"text", t, n>>, n + 1)
    BY <1>3, Zenon DEF PutText
  <2> HIDE DEF n
  <2>3. n \in 0 .. Length(t) /\ n + 1 <= len /\ (n = Length(t) \/ n + 1 = len)
        /\ (n < Length(t) <=> Length(t) >= len)
    BY <1>1, <1>3, <2>1
  <2>4. /\ PutText(t, len).rc = IF n < Length(t) THEN "INFO" ELSE "SUCCESS"
        /\ PutText(t, len).stored = TRUE
        /\ PutText(t, len).content = <<"text", t, n>> /\ PutText(t, len).size = n + 1
    BY <2>2 DEF Stored
  <2> QED BY <1>3, <2>3, <2>4
<1> QED BY <1>2, <1>3

\* What a conversion stores fits into the cell: no cell is written beyond its end, whatever
\* the text is.
LEMMA StoredFits ==
    ASSUME TypeOK, NEW k \in Read, NEW v \in Text \cup {Null}, get_value(k, v).stored
    PROVE  /\ v # Null /\ v \in Text /\ get_value(k, v) = Converted(k, v)
           /\ get_value(k, v).size \in Nat \ {0} /\ get_value(k, v).size <= CellSize(k)
<1>1. v # Null /\ v \in Text /\ get_value(k, v) = Converted(k, v)
  BY DEF get_value, Failed
<1> DEFINE type == TypeOf(k)
           out == Converted(k, v)
<1>2. out.stored
  BY <1>1
<1>3. CASE type = "CHAR"
  <2>1. out = PutText(v, cols[k].buffer_len)
    BY <1>3, Zenon DEF Converted
  <2>2. cols[k].buffer_len \in Nat /\ CellSize(k) = cols[k].buffer_len
    BY <1>3, TypesAre
  <2> DEFINE len == cols[k].buffer_len
  <2> HIDE DEF len
  <2>3. len \in Nat /\ PutText(v, len).stored
    BY <1>2, <2>1, <2>2 DEF len
  <2>4. len # 0 /\ \E n \in 0 .. Length(v) : n + 1 <= len /\ PutText(v, len).size = n + 1
    BY <1>1, <2>3, PutTextFits
  <2>5. Length(v) \in Nat
    BY <1>1, LengthIs
  <2>6. PutText(v, len).size \in Nat \ {0} /\ PutText(v, len).size <= len
    BY <2>4, <2>5
  <2> QED BY <1>1, <2>1, <2>2, <2>6 DEF len
<1>4. CASE type = "NUMERIC"
  <2>1. out = put_numeric(v, result.columns[k].scale, NumericSize)
    BY <1>4, Zenon DEF Converted
  <2>2. out.size = NumericSize
    BY <1>2, <2>1 DEF put_numeric, Failed, Stored
  <2>3. CellSize(k) = NumericSize /\ NumericSize \in Nat \ {0}
    BY <1>4, TypesAre, BlockFetchConstants
  <2> QED BY <1>1, <2>2, <2>3
<1>5. CASE type # "CHAR" /\ type # "NUMERIC"
  <2>1. out = put_int(v, type, build)
    BY <1>5, Zenon DEF Converted
  <2>2. out.size = IntTypes[type].size
    BY <1>2, <2>1 DEF put_int, Failed, Stored
  <2>3. type \in DOMAIN IntTypes
    BY <1>5, TypesAre DEF CTypes
  <2>4. CellSize(k) = IntTypes[type].size /\ IntTypes[type].size \in Nat \ {0}
    BY <1>5, <2>3, TypesAre, ConvertConstants
  <2> QED BY <1>1, <2>2, <2>4
<1> QED BY <1>3, <1>4, <1>5

\* What Carried and the build make the conversions' theorems say.
LEMMA CarriedIs ==
    ASSUME TypeOK, NEW t \in Text, Carried(t)
    PROVE  /\ HasExponent(t) => Magnitude(WholePart(t)) <= DoubleMax
           /\ Magnitude(WholePart(t)) <= DoubleMax \/ (parse_ll(t) /\ LongLongMax < build.long_double)
           /\ build.long_double \in Nat /\ DoubleMax <= build.long_double
<1>1. parse_ll(t) => ~HasExponent(t)
  BY DEF parse_ll, HasExponent
<1>2. build \in Builds
  BY DEF TypeOK
<1>3. DoubleMax \in Nat /\ build.long_double \in Nat /\ build.long_double >= DoubleMax
  BY <1>2, BlockFetchConstants, ConvertConstants
<1>4. DoubleMax <= build.long_double
  BY <1>3
<1> QED BY <1>1, <1>3, <1>4, Zenon DEF Carried

\* An integer type stores the whole part, or refuses.
LEMMA IntIs ==
    ASSUME TypeOK, NEW k \in Read, TypeOf(k) \in DOMAIN IntTypes, NEW t \in Text, Carried(t)
    PROVE  /\ ~CanHold(k, t) => Converted(k, t).rc = "ERROR"
           /\ CanHold(k, t) => Converted(k, t) = Stored(Cuts(k, t), "01S07", <<"int", WholePart(t)>>, CellSize(k))
<1> DEFINE type == TypeOf(k)
<1>1. type # "CHAR" /\ type # "NUMERIC" /\ CellSize(k) = IntTypes[type].size
  BY TypesAre
<1>2. Converted(k, t) = put_int(t, type, build)
  BY <1>1, Zenon DEF Converted
<1>3. /\ CanHold(k, t) = (IsNumber(t) /\ WholePart(t) \in IntTypes[type].lo .. IntTypes[type].hi)
      /\ Cuts(k, t) = HasFraction(t)
  BY <1>1 DEF CanHold, Cuts
<1> HIDE DEF type
<1>4. type \in DOMAIN IntTypes
  BY DEF type
<1>5. put_int(t, type, build)
        = IF ~IsNumber(t) THEN Failed("22018")
          ELSE IF WholePart(t) \in IntTypes[type].lo .. IntTypes[type].hi
            THEN Stored(HasFraction(t), "01S07", <<"int", WholePart(t)>>, IntTypes[type].size)
          ELSE Failed("22003")
  BY <1>4, CarriedIs, PutIntStoresWhatFits
<1>6. Failed("22018").rc = "ERROR" /\ Failed("22003").rc = "ERROR"
  BY DEF Failed
<1> QED BY <1>1, <1>2, <1>3, <1>5, <1>6, Zenon

\* A NUMERIC holds the number, or refuses.
LEMMA NumericIs ==
    ASSUME TypeOK, NEW k \in Read, TypeOf(k) = "NUMERIC", NEW t \in Text, Carried(t)
    PROVE  /\ ~CanHold(k, t) => Converted(k, t).rc = "ERROR"
           /\ CanHold(k, t) => \E ns : /\ IsTheNumber(ns, t, result.columns[k].scale)
                                       /\ Converted(k, t) = Stored(Cuts(k, t), "01S07", <<"numeric", ns>>, CellSize(k))
<1> DEFINE scale == result.columns[k].scale
           units == IF HasExponent(t) THEN Rounded(t, scale) ELSE Scaled(t, scale)
           sign == IF t.kind = "number" /\ t.neg THEN 0 ELSE 1
<1>1. TypeOf(k) \notin DOMAIN IntTypes /\ CellSize(k) = NumericSize /\ scale \in Nat
  BY TypesAre
<1>2. Converted(k, t) = put_numeric(t, scale, NumericSize)
  BY Zenon DEF Converted
<1>3. /\ CanHold(k, t) = (IsNumber(t) /\ Fits(units))
      /\ Cuts(k, t) = (~HasExponent(t) /\ ~IsScaled(t, scale))
  BY <1>1 DEF CanHold, Cuts
<1>4. HasExponent(t) => Magnitude(WholePart(t)) <= DoubleMax
  BY CarriedIs
<1>5. /\ ~IsNumber(t) => put_numeric(t, scale, NumericSize) = Failed("22018")
      /\ IsNumber(t) /\ ~Fits(units) => put_numeric(t, scale, NumericSize) = Failed("22003")
      /\ IsNumber(t) /\ Fits(units) =>
           \E val \in Vals :
              /\ NumberIn(val) = units
              /\ put_numeric(t, scale, NumericSize)
                   = Stored(~HasExponent(t) /\ ~IsScaled(t, scale), "01S07",
                            <<"numeric", [sign |-> sign, scale |-> scale, val |-> val]>>, NumericSize)
  <2> HIDE DEF scale
  <2> QED BY <1>1, <1>4, PutNumericStoresWhatFits, Zenon
<1>6. Failed("22018").rc = "ERROR" /\ Failed("22003").rc = "ERROR"
  BY DEF Failed
<1>7. ASSUME CanHold(k, t)
      PROVE  \E ns : /\ IsTheNumber(ns, t, scale)
                     /\ Converted(k, t) = Stored(Cuts(k, t), "01S07", <<"numeric", ns>>, CellSize(k))
  <2>1. IsNumber(t) /\ Fits(units)
    BY <1>3, <1>7
  <2>2. PICK val \in Vals :
           /\ NumberIn(val) = units
           /\ put_numeric(t, scale, NumericSize)
                = Stored(~HasExponent(t) /\ ~IsScaled(t, scale), "01S07",
                         <<"numeric", [sign |-> sign, scale |-> scale, val |-> val]>>, NumericSize)
    BY <1>5, <2>1, Zenon
  <2> DEFINE ns == [sign |-> sign, scale |-> scale, val |-> val]
  <2>3. IsTheNumber(ns, t, scale)
    <3> HIDE DEF scale
    <3> QED BY <1>1, <1>4, <2>1, <2>2, NumericComesBack, Zenon
  <2>4. Converted(k, t) = Stored(Cuts(k, t), "01S07", <<"numeric", ns>>, CellSize(k))
    BY <1>1, <1>2, <1>3, <2>2, Zenon
  <2> HIDE DEF ns
  <2> QED BY <2>3, <2>4
<1> QED BY <1>2, <1>3, <1>5, <1>6, <1>7, Zenon

\* What a conversion returns: an error when the type cannot hold the value or a null has no
\* indicator to be told in, a warning when something is cut off.
LEMMA ReturnsWhatItDid ==
    ASSUME TypeOK, NEW k \in Read, NEW v \in Text \cup {Null}, v # Null => Carried(v)
    PROVE  /\ (IF v = Null THEN cols[k].ind = Null ELSE ~CanHold(k, v)) => get_value(k, v).rc = "ERROR"
           /\ ~(IF v = Null THEN cols[k].ind = Null ELSE ~CanHold(k, v)) =>
                 get_value(k, v).rc = IF v # Null /\ Cuts(k, v) THEN "INFO" ELSE "SUCCESS"
<1>1. CASE v = Null
  BY <1>1 DEF get_value, Failed
<1>2. CASE v # Null
  <2>1. v \in Text /\ Carried(v) /\ get_value(k, v) = Converted(k, v)
    BY <1>2 DEF get_value
  <2> DEFINE type == TypeOf(k)
  <2>2. CASE type \in DOMAIN IntTypes
    <3>1. CanHold(k, v) => Converted(k, v).rc = IF Cuts(k, v) THEN "INFO" ELSE "SUCCESS"
      BY <2>1, <2>2, IntIs DEF Stored
    <3>2. ~CanHold(k, v) => Converted(k, v).rc = "ERROR"
      BY <2>1, <2>2, IntIs
    <3> QED BY <1>2, <2>1, <3>1, <3>2, Zenon
  <2>3. CASE type = "NUMERIC"
    <3>1. CanHold(k, v) => Converted(k, v).rc = IF Cuts(k, v) THEN "INFO" ELSE "SUCCESS"
      BY <2>1, <2>3, NumericIs DEF Stored
    <3>2. ~CanHold(k, v) => Converted(k, v).rc = "ERROR"
      BY <2>1, <2>3, NumericIs
    <3> QED BY <1>2, <2>1, <3>1, <3>2, Zenon
  <2>4. CASE type = "CHAR"
    <3>1. type \notin DOMAIN IntTypes /\ type # "NUMERIC" /\ cols[k].buffer_len \in Nat
      BY <2>4, TypesAre
    <3>2. CanHold(k, v) /\ Cuts(k, v) = (Length(v) >= cols[k].buffer_len)
      BY <3>1 DEF CanHold, Cuts
    <3>3. Converted(k, v) = PutText(v, cols[k].buffer_len)
      BY <2>4, Zenon DEF Converted
    <3>4. Converted(k, v).rc = IF Length(v) >= cols[k].buffer_len THEN "INFO" ELSE "SUCCESS"
      BY <2>1, <3>1, <3>3, PutTextFits
    <3> QED BY <1>2, <2>1, <3>2, <3>4, Zenon
  <2>5. type \in CTypes
    BY TypesAre
  <2> QED BY <2>2, <2>3, <2>4, <2>5 DEF CTypes
<1> QED BY <1>1, <1>2

------------------------------------------------------------------------------
(* A rowset *)

\* The rows that a fetch takes from the cursor.
Rows == SubSeq(result.rows, pos + 1, Min({pos + row_array_size, Len(result.rows)}))

\* There are at most as many as the row array has room for, they come from the result, and the
\* cursor does not go beyond it.
LEMMA RowsAre ==
    ASSUME TypeOK
    PROVE  /\ Rows \in Seq(Seq(Text \cup {Null})) /\ Len(Rows) <= row_array_size
           /\ Given(Rows) \in 0 .. Len(result.rows)
           /\ \A i \in DOMAIN Rows : /\ i \in Nat \ {0} /\ Rows[i] \in Seq(Text \cup {Null})
                                     /\ Len(Rows[i]) = Len(result.columns)
           /\ Rows = <<>> <=> Len(Rows) = 0
<1> DEFINE all == result.rows
           last == Min({pos + row_array_size, Len(all)})
           S == Seq(Text \cup {Null})
<1>1. all \in Seq(S) /\ \A i \in DOMAIN all : Len(all[i]) = Len(result.columns)
  BY ResultIs
<1>2. pos \in 0 .. Len(all) /\ row_array_size \in Nat \ {0}
  BY DEF TypeOK
<1> HIDE DEF all, S
<1>3. Len(all) \in Nat
  BY <1>1
<1>4. last = IF pos + row_array_size <= Len(all) THEN pos + row_array_size ELSE Len(all)
  <2> DEFINE a == pos + row_array_size
             b == Len(all)
  <2>1. a \in Int /\ b \in Int
    BY <1>2, <1>3
  <2> HIDE DEF a, b
  <2>2. Min({a, b}) = IF a <= b THEN a ELSE b
    BY <2>1, MinOfTwo
  <2> QED BY <2>2 DEF a, b
<1>5. last \in pos .. Len(all) /\ last - pos <= row_array_size /\ pos \in Nat /\ last \in Nat
  BY <1>2, <1>3, <1>4
<1> HIDE DEF last
<1>6. Rows = SubSeq(all, pos + 1, last)
  BY DEF Rows, all, last
<1>7. /\ Rows \in Seq(S) /\ Len(Rows) = last - pos /\ DOMAIN Rows = 1 .. last - pos
      /\ \A i \in 1 .. last - pos : Rows[i] = all[pos + i]
  BY <1>1, <1>3, <1>5, <1>6
<1>8. ASSUME NEW i \in DOMAIN Rows
      PROVE  i \in Nat \ {0} /\ Rows[i] \in S /\ Len(Rows[i]) = Len(result.columns)
  <2>1. i \in Nat \ {0} /\ pos + i \in 1 .. Len(all)
    BY <1>5, <1>7
  <2>2. pos + i \in DOMAIN all /\ all[pos + i] \in S
    BY <1>1, <1>3, <2>1
  <2> QED BY <1>1, <1>7, <2>1, <2>2
<1>9. Rows = <<>> <=> Len(Rows) = 0
  BY <1>7
<1>10. Given(Rows) \in 0 .. Len(all)
  BY <1>5, <1>7 DEF Given
<1> QED BY <1>2, <1>5, <1>7, <1>8, <1>9, <1>10 DEF all, S

\* A value of one of them.
LEMMA ValuesAre ==
    ASSUME TypeOK, NEW i \in DOMAIN Rows, NEW k \in Read
    PROVE  Rows[i][k] \in Text \cup {Null} /\ k \in DOMAIN Rows[i]
<1>1. Rows[i] \in Seq(Text \cup {Null}) /\ Len(Rows[i]) = Len(result.columns)
  BY RowsAre
<1>2. result.columns \in Seq(Column) /\ k \in DOMAIN result.columns
  BY ResultIs, ReadIs
<1> DEFINE row == Rows[i]
           S == Text \cup {Null}
<1> HIDE DEF row, S
<1>3. row \in Seq(S) /\ k \in 1 .. Len(row)
  BY <1>1, <1>2 DEF row, S
<1>4. row[k] \in S /\ k \in DOMAIN row
  BY <1>3
<1> QED BY <1>4 DEF row, S

\* A row's status is what its values call for.
LEMMA RowStatusIs ==
    ASSUME TypeOK, NEW i \in DOMAIN Rows, \A k \in Read : Rows[i][k] # Null => Carried(Rows[i][k])
    PROVE  RowStatus(Rows[i]) = StatusOf(Rows[i])
<1> DEFINE row == Rows[i]
           fails(k) == IF row[k] = Null THEN cols[k].ind = Null ELSE ~CanHold(k, row[k])
           cuts(k) == row[k] # Null /\ Cuts(k, row[k])
           out(k) == get_value(k, row[k]).rc
           rcs == {out(k) : k \in Written}
<1>1. ASSUME NEW k \in Read
      PROVE  /\ fails(k) => out(k) = "ERROR"
             /\ ~fails(k) => out(k) = IF cuts(k) THEN "INFO" ELSE "SUCCESS"
  BY ValuesAre, ReturnsWhatItDid
<1>2. Written = Read
  BY ReadIs
<1>3. RowStatus(row) = IF "ERROR" \in rcs THEN "ERROR" ELSE IF "INFO" \in rcs THEN "INFO" ELSE "SUCCESS"
  BY DEF RowStatus
<1>4. StatusOf(row) = IF \E k \in Read : fails(k) THEN "ERROR"
                      ELSE IF \E k \in Read : cuts(k) THEN "INFO" ELSE "SUCCESS"
  BY DEF StatusOf
<1> HIDE DEF fails, cuts, out, row
<1>5. "ERROR" \in rcs <=> \E k \in Read : fails(k)
  <2>1. ASSUME "ERROR" \in rcs PROVE \E k \in Read : fails(k)
    <3>1. PICK k \in Read : out(k) = "ERROR"
      BY <1>2, <2>1
    <3>2. fails(k)
      BY <1>1, <3>1
    <3> QED BY <3>2
  <2>2. ASSUME NEW k \in Read, fails(k) PROVE "ERROR" \in rcs
    BY <1>1, <1>2, <2>2
  <2> QED BY <2>1, <2>2
<1>6. ASSUME ~ \E k \in Read : fails(k) PROVE "INFO" \in rcs <=> \E k \in Read : cuts(k)
  <2>1. ASSUME "INFO" \in rcs PROVE \E k \in Read : cuts(k)
    <3>1. PICK k \in Read : out(k) = "INFO"
      BY <1>2, <2>1
    <3>2. cuts(k)
      BY <1>1, <1>6, <3>1
    <3> QED BY <3>2
  <2>2. ASSUME NEW k \in Read, cuts(k) PROVE "INFO" \in rcs
    <3>1. out(k) = "INFO"
      BY <1>1, <1>6, <2>2
    <3> QED BY <1>2, <3>1
  <2> QED BY <2>1, <2>2
<1>7. RowStatus(row) = StatusOf(row)
  <2> HIDE DEF rcs
  <2>1. CASE \E k \in Read : fails(k)
    BY <1>3, <1>4, <1>5, <2>1
  <2>2. CASE ~ \E k \in Read : fails(k)
    BY <1>3, <1>4, <1>5, <1>6, <2>2
  <2> QED BY <2>1, <2>2
<1> QED BY <1>7 DEF row

------------------------------------------------------------------------------
(* Types *)

\* The state is of the form that TypeOK states, whatever is bound and fetched in whatever order:
\* in particular the cursor never goes beyond the result, and a rowset has no more rows than
\* the array.
THEOREM BlockFetchTypes == Spec => []TypeOK
<1>1. Init => TypeOK
  <2> SUFFICES ASSUME Init PROVE TypeOK
    OBVIOUS
  <2>1. result \in Results /\ build \in Builds /\ pos = 0 /\ rowset = <<>>
    BY DEF Init
  <2>2. result.rows \in Seq(Seq(Text \cup {Null}))
    BY <2>1, BlockFetchConstants
  <2>3. pos \in 0 .. Len(result.rows)
    BY <2>1, <2>2
  <2>4. MaxArraySize \in Nat \ {0} /\ 1 \in 1 .. MaxArraySize /\ 0 \in 0 .. MaxArraySize
    BY BlockFetchConstants
  <2>5. rowset \in Seq(Seq(Text \cup {Null})) /\ Len(rowset) <= MaxArraySize
    BY <2>1, <2>4
  <2> QED BY <2>1, <2>3, <2>4, <2>5 DEF Init, TypeOK, Blank, BY_COLUMN
<1>2. TypeOK /\ [Next]_vars => TypeOK'
  <2> SUFFICES ASSUME TypeOK, [Next]_vars PROVE TypeOK'
    OBVIOUS
  <2> USE BlockFetchConstants
  <2>1. CASE Fetch
    <3>1. /\ rowset' = Rows /\ pos' = Given(Rows)
          /\ data' = Overwritten(data, DataWrites(Rows)) /\ inds' = Overwritten(inds, IndWrites(Rows))
          /\ rows_fetched' = (IF reporting THEN Len(Rows) ELSE rows_fetched)
          /\ row_status' = (IF reporting THEN Statuses(Rows) ELSE row_status)
          /\ rc' = (IF Rows = <<>> THEN "NO_DATA" ELSE Summary([i \in DOMAIN Rows |-> RowStatus(Rows[i])]))
          /\ UNCHANGED <<result, build, cols, row_array_size, row_bind_type, row_bind_offset, reporting>>
      BY <2>1 DEF Fetch, Rows, setup
    <3>2. /\ rowset' \in Seq(Seq(Text \cup {Null})) /\ Len(rowset') <= MaxArraySize
          /\ pos' \in 0 .. Len(result'.rows)
          /\ rows_fetched' \in 0 .. MaxArraySize
      <4>1. row_array_size \in 1 .. MaxArraySize /\ rows_fetched \in 0 .. MaxArraySize
        BY DEF TypeOK
      <4>2. Len(Rows) \in Nat /\ Len(Rows) <= row_array_size
        BY RowsAre
      <4>3. Len(Rows) \in 0 .. MaxArraySize
        BY <4>1, <4>2
      <4> QED BY <3>1, <4>1, <4>3, RowsAre
    <3>3. DOMAIN data' = Addresses /\ DOMAIN inds' = Addresses
      BY <3>1 DEF TypeOK, Overwritten
    <3>4. DOMAIN row_status' = 1 .. MaxArraySize
      BY <3>1 DEF TypeOK, Statuses
    <3>5. rc' \in {"none", "SUCCESS", "INFO", "ERROR", "NO_DATA"}
      BY <3>1 DEF Summary
    <3>6. /\ result' \in Results /\ build' \in Builds /\ DOMAIN cols' = 1 .. MaxColumn
          /\ \A k \in DOMAIN cols' : cols'[k] = Unbound \/ <<k, cols'[k]>> \in BoundTo
          /\ row_array_size' \in 1 .. MaxArraySize /\ row_bind_type' \in Nat
          /\ row_bind_offset' \in Nat /\ reporting' \in BOOLEAN
      BY <3>1 DEF TypeOK
    <3> QED BY <3>2, <3>3, <3>4, <3>5, <3>6 DEF TypeOK
  <2>2. ASSUME Cleared
        PROVE  /\ result' \in Results /\ build' \in Builds /\ pos' \in 0 .. Len(result'.rows)
               /\ rowset' \in Seq(Seq(Text \cup {Null})) /\ Len(rowset') <= MaxArraySize
               /\ DOMAIN data' = Addresses /\ DOMAIN inds' = Addresses
               /\ DOMAIN row_status' = 1 .. MaxArraySize
               /\ rows_fetched' \in 0 .. MaxArraySize
               /\ rc' \in {"none", "SUCCESS", "INFO", "ERROR", "NO_DATA"}
    BY <2>2 DEF Cleared, TypeOK, Blank
  <2>3. ASSUME NEW kb \in BoundTo, BindCol(kb[1], kb[2]) PROVE TypeOK'
    <3> DEFINE k == kb[1]
               b == kb[2]
    <3>1. <<k, b>> \in BoundTo
      BY <2>3
    <3>2. cols' = [cols EXCEPT ![k] = IF b.target = Null /\ b.ind = Null THEN Unbound ELSE b] /\ Cleared
      BY <2>3, Zenon DEF BindCol
    <3> HIDE DEF k, b
    <3>3. DOMAIN cols' = 1 .. MaxColumn /\ \A j \in DOMAIN cols' : cols'[j] = Unbound \/ <<j, cols'[j]>> \in BoundTo
      BY <3>1, <3>2 DEF TypeOK
    <3>4. UNCHANGED <<row_array_size, row_bind_type, row_bind_offset, reporting>>
      BY <2>3 DEF BindCol
    <3> QED BY <2>2, <3>2, <3>3, <3>4 DEF TypeOK
  <2>4. CASE Unbind
    <3>1. cols' = [k \in DOMAIN cols |-> Unbound] /\ Cleared
          /\ UNCHANGED <<row_array_size, row_bind_type, row_bind_offset, reporting>>
      BY <2>4 DEF Unbind
    <3>2. DOMAIN cols' = 1 .. MaxColumn /\ \A j \in DOMAIN cols' : cols'[j] = Unbound
      BY <3>1 DEF TypeOK
    <3> QED BY <2>2, <3>1, <3>2 DEF TypeOK
  <2>5. ASSUME NEW r \in RowSettings, SetRows(r) PROVE TypeOK'
    <3>1. /\ r.size \in 1 .. MaxArraySize /\ r.bind_type \in Nat /\ r.offset \in Nat /\ r.reporting \in BOOLEAN
      OBVIOUS
    <3>2. /\ row_array_size' = r.size /\ row_bind_type' = r.bind_type /\ row_bind_offset' = r.offset
          /\ reporting' = r.reporting /\ cols' = cols /\ Cleared
      BY <2>5 DEF SetRows
    <3> QED BY <2>2, <3>1, <3>2 DEF TypeOK
  <2>6. CASE UNCHANGED vars
    BY <2>6 DEF vars, setup, memory, TypeOK
  <2> QED BY <2>1, <2>3, <2>4, <2>5, <2>6 DEF Next
<1> QED BY <1>1, <1>2, PTL DEF Spec

------------------------------------------------------------------------------
(* Memory *)

\* A byte that only one of the writes goes to has what that write puts there.
LEMMA OnlyWrite ==
    ASSUME NEW mem, NEW writes, NEW w \in writes, w.row \in Int, w.column \in Int,
           NEW a \in DOMAIN mem, a \in w.at .. w.at + w.size - 1,
           \A o \in writes : a \in o.at .. o.at + o.size - 1 => o = w
    PROVE  Overwritten(mem, writes)[a] = <<w.content, a - w.at>>
<1> DEFINE here == {o \in writes : a \in o.at .. o.at + o.size - 1}
<1>1. here = {w}
  OBVIOUS
<1> DEFINE before(o) == o.row < w.row \/ (o.row = w.row /\ o.column <= w.column)
<1>2. LastOf({w}) = w
  <2>1. before(w)
    OBVIOUS
  <2>2. LastOf({w}) = CHOOSE x \in {w} : \A o \in {w} : o.row < x.row \/ (o.row = x.row /\ o.column <= x.column)
    BY Zenon DEF LastOf
  <2>3. \E x \in {w} : \A o \in {w} : o.row < x.row \/ (o.row = x.row /\ o.column <= x.column)
    BY <2>1
  <2>4. LastOf({w}) \in {w}
    BY <2>2, <2>3, Zenon
  <2> QED BY <2>4
<1>3. Overwritten(mem, writes)[a] = IF here = {} THEN mem[a] ELSE <<LastOf(here).content, a - LastOf(here).at>>
  BY Zenon DEF Overwritten
<1> HIDE DEF here
<1> QED BY <1>1, <1>2, <1>3

\* A byte that none of the writes goes to is as before.
LEMMA NoWrite ==
    ASSUME NEW mem, NEW writes, NEW a \in DOMAIN mem, \A o \in writes : a \notin o.at .. o.at + o.size - 1
    PROVE  Overwritten(mem, writes)[a] = mem[a]
<1> DEFINE here == {o \in writes : a \in o.at .. o.at + o.size - 1}
<1>1. here = {}
  OBVIOUS
<1>2. Overwritten(mem, writes)[a] = IF here = {} THEN mem[a] ELSE <<LastOf(here).content, a - LastOf(here).at>>
  BY Zenon DEF Overwritten
<1> HIDE DEF here
<1> QED BY <1>1, <1>2

\* Value k of row i that is put into a buffer, and one whose indicator is written.
IsPut(i, k) == cols[k].target # Null /\ get_value(k, Rows[i][k]).stored
IsTold(i, k) == cols[k].ind # Null /\ get_value(k, Rows[i][k]).rc # "ERROR"
DataWrite(i, k) ==
    AWrite(i, k, Target(k, i), get_value(k, Rows[i][k]).content, get_value(k, Rows[i][k]).size)
IndWrite(i, k) == AWrite(i, k, IndTarget(k, i), Indicator(k, Rows[i][k]), IndicatorSize)

\* The writes of a fetch, one by one.
LEMMA WritesAre ==
    /\ \A i \in DOMAIN Rows, k \in Written : IsPut(i, k) => DataWrite(i, k) \in DataWrites(Rows)
    /\ \A w \in DataWrites(Rows) : \E i \in DOMAIN Rows, k \in Written : IsPut(i, k) /\ w = DataWrite(i, k)
    /\ \A i \in DOMAIN Rows, k \in Written : IsTold(i, k) => IndWrite(i, k) \in IndWrites(Rows)
    /\ \A w \in IndWrites(Rows) : \E i \in DOMAIN Rows, k \in Written : IsTold(i, k) /\ w = IndWrite(i, k)
<1> DEFINE out(c) == get_value(c[2], Rows[c[1]][c[2]])
           put == {c \in (DOMAIN Rows) \X Written : cols[c[2]].target # Null /\ out(c).stored}
           dw(c) == AWrite(c[1], c[2], Target(c[2], c[1]), out(c).content, out(c).size)
           told == {c \in (DOMAIN Rows) \X Written : cols[c[2]].ind # Null /\ out(c).rc # "ERROR"}
           iw(c) == AWrite(c[1], c[2], IndTarget(c[2], c[1]), Indicator(c[2], Rows[c[1]][c[2]]), IndicatorSize)
<1>1. DataWrites(Rows) = {dw(c) : c \in put}
  BY Zenon DEF DataWrites
<1>2. IndWrites(Rows) = {iw(c) : c \in told}
  BY Zenon DEF IndWrites
<1>3. \A i, k : /\ out(<<i, k>>) = get_value(k, Rows[i][k])
                /\ dw(<<i, k>>) = DataWrite(i, k) /\ iw(<<i, k>>) = IndWrite(i, k)
  BY DEF DataWrite, IndWrite
<1>4. \A i \in DOMAIN Rows, k \in Written : /\ <<i, k>> \in put <=> IsPut(i, k)
                                            /\ <<i, k>> \in told <=> IsTold(i, k)
  BY DEF IsPut, IsTold
<1>5. /\ \A c \in put : \E i \in DOMAIN Rows, k \in Written : c = <<i, k>>
      /\ \A c \in told : \E i \in DOMAIN Rows, k \in Written : c = <<i, k>>
  OBVIOUS
<1> HIDE DEF out, put, told, dw, iw
<1>6. \A i \in DOMAIN Rows, k \in Written : IsPut(i, k) => DataWrite(i, k) \in DataWrites(Rows)
  <2> SUFFICES ASSUME NEW i \in DOMAIN Rows, NEW k \in Written, IsPut(i, k) PROVE DataWrite(i, k) \in DataWrites(Rows)
    OBVIOUS
  <2>1. <<i, k>> \in put /\ dw(<<i, k>>) = DataWrite(i, k)
    BY <1>3, <1>4
  <2> QED BY <1>1, <2>1
<1>7. ASSUME NEW w \in DataWrites(Rows)
      PROVE  \E i \in DOMAIN Rows, k \in Written : IsPut(i, k) /\ w = DataWrite(i, k)
  <2>1. PICK c \in put : w = dw(c)
    BY <1>1
  <2>2. PICK i \in DOMAIN Rows, k \in Written : c = <<i, k>>
    BY <1>5
  <2> QED BY <1>3, <1>4, <2>1, <2>2
<1>8. \A i \in DOMAIN Rows, k \in Written : IsTold(i, k) => IndWrite(i, k) \in IndWrites(Rows)
  <2> SUFFICES ASSUME NEW i \in DOMAIN Rows, NEW k \in Written, IsTold(i, k) PROVE IndWrite(i, k) \in IndWrites(Rows)
    OBVIOUS
  <2>1. <<i, k>> \in told /\ iw(<<i, k>>) = IndWrite(i, k)
    BY <1>3, <1>4
  <2> QED BY <1>2, <2>1
<1>9. ASSUME NEW w \in IndWrites(Rows)
      PROVE  \E i \in DOMAIN Rows, k \in Written : IsTold(i, k) /\ w = IndWrite(i, k)
  <2>1. PICK c \in told : w = iw(c)
    BY <1>2
  <2>2. PICK i \in DOMAIN Rows, k \in Written : c = <<i, k>>
    BY <1>5
  <2> QED BY <1>3, <1>4, <2>1, <2>2
<1> QED BY <1>6, <1>7, <1>8, <1>9

\* A value goes into its cell, from the first byte, and not beyond it.
LEMMA DataWriteIs ==
    ASSUME TypeOK, NEW i \in DOMAIN Rows, NEW k \in Read, IsPut(i, k)
    PROVE  /\ DataWrite(i, k).row = i /\ DataWrite(i, k).column = k
           /\ DataWrite(i, k).content = get_value(k, Rows[i][k]).content
           /\ DataWrite(i, k).size = get_value(k, Rows[i][k]).size
           /\ DataWrite(i, k).at = CellPlace(k, i) /\ CellPlace(k, i) \in Int
           /\ DataWrite(i, k).size \in Nat \ {0} /\ DataWrite(i, k).size <= CellSize(k) /\ CellSize(k) \in Nat
<1>1. i \in Nat /\ Rows[i][k] \in Text \cup {Null}
  BY RowsAre, ValuesAre
<1>2. Target(k, i) = CellPlace(k, i) /\ CellPlace(k, i) \in Int
  BY <1>1, PlacesAre DEF IsPut
<1>3. get_value(k, Rows[i][k]).size \in Nat \ {0} /\ get_value(k, Rows[i][k]).size <= CellSize(k)
  BY <1>1, StoredFits DEF IsPut
<1>4. CellSize(k) \in Nat
  BY TypesAre
<1> QED BY <1>2, <1>3, <1>4 DEF DataWrite, AWrite

\* An indicator likewise.
LEMMA IndWriteIs ==
    ASSUME TypeOK, NEW i \in DOMAIN Rows, NEW k \in Read, IsTold(i, k)
    PROVE  /\ IndWrite(i, k).row = i /\ IndWrite(i, k).column = k
           /\ IndWrite(i, k).content = Indicator(k, Rows[i][k])
           /\ IndWrite(i, k).at = IndPlace(k, i) /\ IndPlace(k, i) \in Int
           /\ IndWrite(i, k).size = IndicatorSize /\ IndicatorSize \in Nat \ {0}
<1>1. i \in Nat
  BY RowsAre
<1>2. IndTarget(k, i) = IndPlace(k, i) /\ IndPlace(k, i) \in Int
  BY <1>1, PlacesAre DEF IsTold
<1> QED BY <1>2, BlockFetchConstants DEF IndWrite, AWrite

------------------------------------------------------------------------------
(* What a fetch does *)

\* Only a fetch leaves a return code to look at, and it leaves the bindings and the result.
LEMMA FetchIs ==
    ASSUME TypeOK, [Next]_vars, rc' # "none", ~UNCHANGED vars
    PROVE  /\ rowset' = Rows
           /\ data' = Overwritten(data, DataWrites(Rows)) /\ inds' = Overwritten(inds, IndWrites(Rows))
           /\ rows_fetched' = (IF reporting THEN Len(Rows) ELSE rows_fetched)
           /\ row_status' = (IF reporting THEN Statuses(Rows) ELSE row_status)
           /\ rc' = (IF Rows = <<>> THEN "NO_DATA" ELSE Summary([i \in DOMAIN Rows |-> RowStatus(Rows[i])]))
           /\ UNCHANGED <<result, build, cols, row_array_size, row_bind_type, row_bind_offset, reporting>>
<1>1. ~Cleared
  BY DEF Cleared
<1>2. Fetch
  BY <1>1 DEF Next, BindCol, Unbind, SetRows
<1> QED BY <1>2 DEF Fetch, Rows, setup

\* A fetch writes nothing but the cells of the rows it returns, wherever the application has
\* put its buffers: a byte that changes is in a cell of one of these rows, whose column is
\* bound and exists.
THEOREM FetchWritesOnlyItsCells == Spec => WritesOnlyItsCells
<1>1. ASSUME TypeOK, [Next]_vars, rc' # "none", ~UNCHANGED vars, NEW a \in Addresses, data'[a] # data[a]
      PROVE  \E i \in DOMAIN rowset', k \in Read :
                /\ cols[k].target # Null
                /\ a \in CellPlace(k, i) .. CellPlace(k, i) + CellSize(k) - 1
  <2>1. rowset' = Rows /\ data' = Overwritten(data, DataWrites(Rows))
    BY <1>1, FetchIs, Zenon
  <2>2. a \in DOMAIN data
    BY <1>1 DEF TypeOK
  <2>3. PICK w \in DataWrites(Rows) : a \in w.at .. w.at + w.size - 1
    <3> SUFFICES ASSUME \A o \in DataWrites(Rows) : a \notin o.at .. o.at + o.size - 1 PROVE FALSE
      OBVIOUS
    <3>1. Overwritten(data, DataWrites(Rows))[a] = data[a]
      BY <2>2, NoWrite
    <3> QED BY <1>1, <2>1, <3>1
  <2>4. PICK i \in DOMAIN Rows, k \in Written : IsPut(i, k) /\ w = DataWrite(i, k)
    BY WritesAre, Zenon
  <2>5. k \in Read
    BY <1>1, ReadIs
  <2>6. /\ w.at = CellPlace(k, i) /\ CellPlace(k, i) \in Int
        /\ w.size \in Nat \ {0} /\ w.size <= CellSize(k) /\ CellSize(k) \in Nat
    BY <1>1, <2>4, <2>5, DataWriteIs
  <2>7. a \in CellPlace(k, i) .. CellPlace(k, i) + CellSize(k) - 1
    <3>1. a \in Int
      BY <2>3, <2>6
    <3> QED BY <2>3, <2>6, <3>1
  <2>8. cols[k].target # Null
    BY <2>4 DEF IsPut
  <2> QED BY <2>1, <2>5, <2>7, <2>8
<1>2. TypeOK /\ [Next]_vars =>
        [rc' # "none" =>
           \A a \in Addresses : data'[a] # data[a] =>
              \E i \in DOMAIN rowset', k \in Read :
                 /\ cols[k].target # Null
                 /\ a \in CellPlace(k, i) .. CellPlace(k, i) + CellSize(k) - 1]_vars
  BY <1>1
<1> QED BY <1>2, BlockFetchTypes, PTL DEF Spec, WritesOnlyItsCells

\* What a row calls for does not change with the fetch.
LEMMA StatusesStay ==
    ASSUME UNCHANGED <<result, build, cols>>, rowset' = Rows
    PROVE  /\ Read' = Read
           /\ \A i : RowIs(i)' = StatusOf(Rows[i])
           /\ \A t : Carried(t)' = Carried(t)
<1>1. Read' = Read
  BY DEF Read, HasColumn
<1>2. \A k : TypeOf(k)' = TypeOf(k)
  BY DEF TypeOf
<1>3. \A k, t : CanHold(k, t)' = CanHold(k, t)
  BY <1>2 DEF CanHold
<1>4. \A k, t : Cuts(k, t)' = Cuts(k, t)
  BY <1>2 DEF Cuts
<1>5. \A i : RowIs(i)' = StatusOf(Rows[i])
  <2> SUFFICES ASSUME NEW i PROVE RowIs(i)' = StatusOf(Rows[i])
    OBVIOUS
  <2>1. rowset'[i] = Rows[i]
    OBVIOUS
  <2> HIDE DEF Rows
  <2>2. \A k : CanHold(k, rowset[i][k])' = CanHold(k, Rows[i][k]) /\ Cuts(k, rowset[i][k])' = Cuts(k, Rows[i][k])
    BY <1>2, <2>1 DEF CanHold, Cuts
  <2> QED BY <1>1, <2>1, <2>2 DEF RowIs, StatusOf
<1>6. \A t : Carried(t)' = Carried(t)
  BY DEF Carried
<1> QED BY <1>1, <1>5, <1>6

\* Nor does it without a step.
LEMMA StatusesAreStill ==
    ASSUME UNCHANGED vars, StatusTellsTheRows
    PROVE  StatusTellsTheRows'
<1>1. UNCHANGED <<result, build, cols, row_array_size, reporting, row_status, rows_fetched, rowset, rc>>
  BY DEF vars, setup, memory
<1>2. Read' = Read
  BY <1>1 DEF Read, HasColumn
<1>3. \A k : TypeOf(k)' = TypeOf(k)
  BY <1>1 DEF TypeOf
<1>4. \A i : RowIs(i)' = RowIs(i)
  <2> SUFFICES ASSUME NEW i PROVE RowIs(i)' = RowIs(i)
    OBVIOUS
  <2>1. rowset'[i] = rowset[i]
    BY <1>1
  <2>2. \A k : CanHold(k, rowset[i][k])' = CanHold(k, rowset[i][k]) /\ Cuts(k, rowset[i][k])' = Cuts(k, rowset[i][k])
    BY <1>1, <1>3, <2>1 DEF CanHold, Cuts
  <2> QED BY <1>1, <1>2, <2>1, <2>2 DEF RowIs, StatusOf
<1>5. AllCarried' => AllCarried
  BY <1>1 DEF AllCarried, Carried
<1> QED BY <1>1, <1>4, <1>5 DEF StatusTellsTheRows, Fetched

\* What the statuses of rows are summed up to.
LEMMA SummaryIs ==
    ASSUME NEW n \in Nat \ {0}, NEW statuses, DOMAIN statuses = 1 .. n, statuses \in Seq({"SUCCESS", "INFO", "ERROR"})
    PROVE  /\ Summary(statuses) \in {"SUCCESS", "INFO", "ERROR"}
           /\ Summary(statuses) = "SUCCESS" <=> \A i \in 1 .. n : statuses[i] = "SUCCESS"
           /\ Summary(statuses) = "ERROR" <=> n = 1 /\ statuses[1] = "ERROR"
<1>1. Len(statuses) = n
  OBVIOUS
<1>2. statuses = <<"ERROR">> <=> n = 1 /\ statuses[1] = "ERROR"
  BY <1>1
<1> QED BY <1>2 DEF Summary

\* For every result, binding and size of the row array: the row status array tells the rows
\* that failed, those that lost something, those that are whole and those that are not there,
\* the number of rows is right, and the return code sums the statuses up.  It goes for values
\* that the floating types of the build carry.
THEOREM StatusesTellTheRows == Spec => []StatusTellsTheRows
<1>1. Init => StatusTellsTheRows
  BY DEF Init, StatusTellsTheRows, Fetched
<1>2. TypeOK /\ StatusTellsTheRows /\ [Next]_vars => StatusTellsTheRows'
  <2> SUFFICES ASSUME TypeOK, StatusTellsTheRows, [Next]_vars PROVE StatusTellsTheRows'
    OBVIOUS
  <2>1. CASE UNCHANGED vars
    BY <2>1, StatusesAreStill
  <2>2. CASE rc' = "none"
    BY <2>2 DEF StatusTellsTheRows, Fetched
  <2>3. CASE ~UNCHANGED vars /\ rc' # "none"
    <3> SUFFICES ASSUME AllCarried'
                 PROVE  /\ reporting' =>
                             /\ rows_fetched' = Len(rowset')
                             /\ \A i \in 1 .. row_array_size' :
                                   row_status'[i] = IF i > Len(rowset') THEN "NOROW" ELSE RowIs(i)'
                        /\ (rc' = "NO_DATA") = (rowset' = <<>>)
                        /\ (rc' = "SUCCESS") = (rowset' # <<>> /\ \A i \in DOMAIN rowset' : RowIs(i)' = "SUCCESS")
                        /\ (rc' = "ERROR") = (Len(rowset') = 1 /\ RowIs(1)' = "ERROR")
      BY DEF StatusTellsTheRows
    <3>1. /\ rowset' = Rows
          /\ rows_fetched' = (IF reporting THEN Len(Rows) ELSE rows_fetched)
          /\ row_status' = (IF reporting THEN Statuses(Rows) ELSE row_status)
          /\ rc' = (IF Rows = <<>> THEN "NO_DATA" ELSE Summary([i \in DOMAIN Rows |-> RowStatus(Rows[i])]))
          /\ UNCHANGED <<result, build, cols, row_array_size, row_bind_type, row_bind_offset, reporting>>
      BY <2>3, FetchIs, Zenon
    <3>2. \A i \in DOMAIN Rows : \A k \in DOMAIN Rows[i] : Rows[i][k] # Null => Carried(Rows[i][k])
      BY <3>1 DEF AllCarried, Carried
    <3>3. \A i \in DOMAIN Rows : RowStatus(Rows[i]) = StatusOf(Rows[i])
      <4> SUFFICES ASSUME NEW i \in DOMAIN Rows PROVE RowStatus(Rows[i]) = StatusOf(Rows[i])
        OBVIOUS
      <4>1. \A k \in Read : Rows[i][k] # Null => Carried(Rows[i][k])
        BY <3>2, ValuesAre
      <4> QED BY <4>1, RowStatusIs
    <3>4. \A i : RowIs(i)' = StatusOf(Rows[i])
      BY <3>1, StatusesStay
    <3> DEFINE statuses == [i \in DOMAIN Rows |-> RowStatus(Rows[i])]
               n == Len(Rows)
    <3>5. n \in Nat /\ DOMAIN Rows = 1 .. n /\ n <= row_array_size /\ (Rows = <<>> <=> n = 0)
      BY RowsAre
    <3>6. row_array_size \in 1 .. MaxArraySize /\ DOMAIN row_status = 1 .. MaxArraySize /\ MaxArraySize \in Nat
      BY BlockFetchConstants DEF TypeOK
    <3>7. reporting' =>
             /\ rows_fetched' = Len(rowset')
             /\ \A i \in 1 .. row_array_size' :
                   row_status'[i] = IF i > Len(rowset') THEN "NOROW" ELSE RowIs(i)'
      <4> SUFFICES ASSUME reporting, NEW i \in 1 .. row_array_size
                   PROVE  Statuses(Rows)[i] = IF i > n THEN "NOROW" ELSE RowIs(i)'
        BY <3>1
      <4>1. i \in DOMAIN row_status /\ i <= row_array_size
        BY <3>6
      <4>2. Statuses(Rows)[i] = IF i \in DOMAIN Rows THEN RowStatus(Rows[i]) ELSE "NOROW"
        BY <4>1 DEF Statuses
      <4>3. i \in DOMAIN Rows <=> ~(i > n)
        BY <3>5, <3>6
      <4> QED BY <3>3, <3>4, <4>2, <4>3
    <3>8. CASE n = 0
      <4>1. rc' = "NO_DATA" /\ rowset' = <<>> /\ Len(rowset') = 0
        BY <3>1, <3>5, <3>8
      <4> QED BY <3>7, <4>1
    <3>9. CASE n # 0
      <4>1. statuses \in Seq({"SUCCESS", "INFO", "ERROR"}) /\ DOMAIN statuses = 1 .. n
        <5>1. \A i \in 1 .. n : RowStatus(Rows[i]) \in {"SUCCESS", "INFO", "ERROR"}
          BY DEF RowStatus
        <5> HIDE DEF n
        <5>2. statuses = [i \in 1 .. n |-> RowStatus(Rows[i])]
          BY <3>5
        <5> QED BY <3>5, <5>1, <5>2
      <4>2. \A i \in 1 .. n : statuses[i] = RowIs(i)'
        BY <3>3, <3>4, <3>5
      <4>3. rc' = Summary(statuses) /\ rowset' # <<>> /\ DOMAIN rowset' = 1 .. n /\ Len(rowset') = n
        BY <3>1, <3>5, <3>9
      <4> HIDE DEF statuses, n
      <4>4. /\ Summary(statuses) \in {"SUCCESS", "INFO", "ERROR"}
            /\ Summary(statuses) = "SUCCESS" <=> \A i \in 1 .. n : statuses[i] = "SUCCESS"
            /\ Summary(statuses) = "ERROR" <=> n = 1 /\ statuses[1] = "ERROR"
        BY <3>5, <3>9, <4>1, SummaryIs
      <4>5. (rc' = "NO_DATA") = (rowset' = <<>>)
        BY <4>3, <4>4
      <4>6. (rc' = "SUCCESS") = (rowset' # <<>> /\ \A i \in DOMAIN rowset' : RowIs(i)' = "SUCCESS")
        BY <4>2, <4>3, <4>4
      <4>7. (rc' = "ERROR") = (Len(rowset') = 1 /\ RowIs(1)' = "ERROR")
        BY <3>5, <4>2, <4>3, <4>4
      <4> QED BY <3>7, <4>5, <4>6, <4>7
    <3> QED BY <3>8, <3>9
  <2> QED BY <2>1, <2>2, <2>3
<1> QED BY <1>1, <1>2, BlockFetchTypes, PTL DEF Spec

\* The cells that the rows of a fetch have are in memory and apart.
FetchApart ==
    \A i, j \in DOMAIN Rows, k, l \in Read :
        /\ cols[k].target # Null =>
              CellPlace(k, i) .. CellPlace(k, i) + CellSize(k) - 1 \subseteq Addresses
        /\ cols[k].ind # Null => IndPlace(k, i) .. IndPlace(k, i) + IndicatorSize - 1 \subseteq Addresses
        /\ <<i, k>> # <<j, l>> =>
              /\ cols[k].target # Null /\ cols[l].target # Null =>
                    Apart(CellPlace(k, i), CellSize(k), CellPlace(l, j), CellSize(l))
              /\ cols[k].ind # Null /\ cols[l].ind # Null =>
                    Apart(IndPlace(k, i), IndicatorSize, IndPlace(l, j), IndicatorSize)

\* Then each byte that a value takes has that value's, whatever the other cells hold.
LEMMA CellHasItsValue ==
    ASSUME TypeOK, FetchApart, NEW i \in DOMAIN Rows, NEW k \in Read, IsPut(i, k),
           NEW x \in 0 .. get_value(k, Rows[i][k]).size - 1
    PROVE  Overwritten(data, DataWrites(Rows))[CellPlace(k, i) + x] = <<get_value(k, Rows[i][k]).content, x>>
<1> DEFINE w == DataWrite(i, k)
           p == CellPlace(k, i)
           c == CellSize(k)
           a == p + x
<1>1. /\ w.row = i /\ w.column = k /\ w.content = get_value(k, Rows[i][k]).content
      /\ w.size = get_value(k, Rows[i][k]).size /\ w.at = p /\ p \in Int
      /\ w.size \in Nat \ {0} /\ w.size <= c /\ c \in Nat
  BY DataWriteIs
<1>2. i \in Nat /\ k \in Nat /\ Written = Read
  BY RowsAre, ReadIs
<1>3. w \in DataWrites(Rows)
  BY <1>2, WritesAre
<1>4. a \in w.at .. w.at + w.size - 1 /\ a \in Int /\ a \in p .. p + c - 1 /\ a - w.at = x
  <2> HIDE DEF w, p, c
  <2>1. x \in 0 .. w.size - 1
    BY <1>1
  <2> QED BY <1>1, <2>1
<1>5. a \in DOMAIN data
  <2>1. p .. p + c - 1 \subseteq Addresses
    BY DEF FetchApart, IsPut
  <2> QED BY <1>4, <2>1 DEF TypeOK
<1>6. ASSUME NEW o \in DataWrites(Rows), a \in o.at .. o.at + o.size - 1 PROVE o = w
  <2>1. PICK j \in DOMAIN Rows, l \in Written : IsPut(j, l) /\ o = DataWrite(j, l)
    BY WritesAre, Zenon
  <2>2. CASE <<i, k>> = <<j, l>>
    BY <2>1, <2>2
  <2>3. CASE <<i, k>> # <<j, l>>
    <3> DEFINE q == CellPlace(l, j)
               d == CellSize(l)
    <3>1. o.at = q /\ q \in Int /\ o.size \in Nat \ {0} /\ o.size <= d /\ d \in Nat
      BY <1>2, <2>1, DataWriteIs
    <3>2. Apart(p, c, q, d)
      BY <1>2, <2>1, <2>3 DEF FetchApart, IsPut
    <3> HIDE DEF p, c, q, d, a
    <3>3. FALSE
      BY <1>1, <1>4, <1>6, <3>1, <3>2 DEF Apart
    <3> QED BY <3>3
  <2> QED BY <2>2, <2>3
<1> HIDE DEF w, a
<1>7. Overwritten(data, DataWrites(Rows))[a] = <<w.content, a - w.at>>
  BY <1>1, <1>2, <1>3, <1>4, <1>5, <1>6, OnlyWrite
<1> QED BY <1>1, <1>4, <1>7 DEF a

\* And so has each byte of an indicator.
LEMMA IndicatorTellsIt ==
    ASSUME TypeOK, FetchApart, NEW i \in DOMAIN Rows, NEW k \in Read, IsTold(i, k),
           NEW x \in 0 .. IndicatorSize - 1
    PROVE  Overwritten(inds, IndWrites(Rows))[IndPlace(k, i) + x] = <<Indicator(k, Rows[i][k]), x>>
<1> DEFINE w == IndWrite(i, k)
           p == IndPlace(k, i)
           a == p + x
<1>1. /\ w.row = i /\ w.column = k /\ w.content = Indicator(k, Rows[i][k])
      /\ w.size = IndicatorSize /\ w.at = p /\ p \in Int /\ IndicatorSize \in Nat \ {0}
  BY IndWriteIs
<1>2. i \in Nat /\ k \in Nat /\ Written = Read
  BY RowsAre, ReadIs
<1>3. w \in IndWrites(Rows)
  BY <1>2, WritesAre
<1>4. a \in w.at .. w.at + w.size - 1 /\ a \in Int /\ a \in p .. p + IndicatorSize - 1 /\ a - w.at = x
  <2> HIDE DEF w, p
  <2> QED BY <1>1
<1>5. a \in DOMAIN inds
  <2>1. p .. p + IndicatorSize - 1 \subseteq Addresses
    BY DEF FetchApart, IsTold
  <2> QED BY <1>4, <2>1 DEF TypeOK
<1>6. ASSUME NEW o \in IndWrites(Rows), a \in o.at .. o.at + o.size - 1 PROVE o = w
  <2>1. PICK j \in DOMAIN Rows, l \in Written : IsTold(j, l) /\ o = IndWrite(j, l)
    BY WritesAre, Zenon
  <2>2. CASE <<i, k>> = <<j, l>>
    BY <2>1, <2>2
  <2>3. CASE <<i, k>> # <<j, l>>
    <3> DEFINE q == IndPlace(l, j)
    <3>1. o.at = q /\ q \in Int /\ o.size = IndicatorSize
      BY <1>2, <2>1, IndWriteIs
    <3>2. Apart(p, IndicatorSize, q, IndicatorSize)
      BY <1>2, <2>1, <2>3 DEF FetchApart, IsTold
    <3> HIDE DEF p, q, a
    <3>3. FALSE
      BY <1>1, <1>4, <1>6, <3>1, <3>2 DEF Apart
    <3> QED BY <3>3
  <2> QED BY <2>2, <2>3
<1> HIDE DEF w, a
<1>7. Overwritten(inds, IndWrites(Rows))[a] = <<w.content, a - w.at>>
  BY <1>1, <1>2, <1>3, <1>4, <1>5, <1>6, OnlyWrite
<1> QED BY <1>1, <1>4, <1>7 DEF a

\* The cells and the indicators stay where they are, unless the application moves them.
LEMMA PlacesStay ==
    ASSUME UNCHANGED <<result, build, cols, row_bind_type, row_bind_offset>>
    PROVE  /\ Read' = Read
           /\ \A k : TypeOf(k)' = TypeOf(k) /\ CellSize(k)' = CellSize(k)
           /\ \A k, i : CellPlace(k, i)' = CellPlace(k, i) /\ IndPlace(k, i)' = IndPlace(k, i)
           /\ \A k, t : CanHold(k, t)' = CanHold(k, t)
           /\ \A t : Carried(t)' = Carried(t)
<1>1. Read' = Read
  BY DEF Read, HasColumn
<1>2. \A k : TypeOf(k)' = TypeOf(k)
  BY DEF TypeOf
<1>3. \A k : CellSize(k)' = CellSize(k)
  BY <1>2 DEF CellSize
<1>4. \A k, i : CellPlace(k, i)' = CellPlace(k, i) /\ IndPlace(k, i)' = IndPlace(k, i)
  BY <1>3 DEF CellPlace, IndPlace, Place
<1>5. \A k, t : CanHold(k, t)' = CanHold(k, t)
  BY <1>2 DEF CanHold
<1>6. \A t : Carried(t)' = Carried(t)
  BY DEF Carried
<1> QED BY <1>1, <1>2, <1>3, <1>4, <1>5, <1>6

\* CellIs, of any memory.
HoldsIn(mem, k, i, content, size) ==
    \A x \in 0 .. size - 1 : mem[CellPlace(k, i) + x] = <<content, x>>
CellIn(mem, k, i, t) ==
    /\ TypeOf(k) \in DOMAIN IntTypes => HoldsIn(mem, k, i, <<"int", WholePart(t)>>, CellSize(k))
    /\ TypeOf(k) = "NUMERIC" =>
         LET content == mem[CellPlace(k, i)][1]
         IN  /\ content[1] = "numeric" /\ IsTheNumber(content[2], t, result.columns[k].scale)
             /\ HoldsIn(mem, k, i, content, CellSize(k))
    /\ TypeOf(k) \notin DOMAIN IntTypes \cup {"NUMERIC"} =>
         \E n \in 0 .. Length(t) :
            /\ n = Length(t) \/ n + 1 = cols[k].buffer_len
            /\ cols[k].buffer_len > 0 => HoldsIn(mem, k, i, <<"text", t, n>>, n + 1)

\* "NUMERIC" is not an integer type.
LEMMA NumericIsNoInt == "NUMERIC" \notin DOMAIN IntTypes
BY BlockFetchConstants

\* A value that its type can hold is in the memory that the fetch leaves.
LEMMA FetchedCellIs ==
    ASSUME TypeOK, FetchApart, NEW i \in DOMAIN Rows, NEW k \in Read, Rows[i][k] # Null, cols[k].target # Null,
           Carried(Rows[i][k]), CanHold(k, Rows[i][k])
    PROVE  CellIn(Overwritten(data, DataWrites(Rows)), k, i, Rows[i][k])
<1> DEFINE v == Rows[i][k]
           mem == Overwritten(data, DataWrites(Rows))
           out == get_value(k, v)
<1>1. v \in Text /\ out = Converted(k, v)
  BY ValuesAre DEF get_value
<1>2. ASSUME out.stored, NEW content, out.content = content, NEW size, out.size = size
      PROVE  HoldsIn(mem, k, i, content, size)
  <2>1. IsPut(i, k)
    BY <1>2 DEF IsPut
  <2>2. \A x \in 0 .. out.size - 1 : mem[CellPlace(k, i) + x] = <<out.content, x>>
    BY <2>1, CellHasItsValue
  <2> HIDE DEF mem, out
  <2> QED BY <1>2, <2>2 DEF HoldsIn
<1>3. CASE TypeOf(k) \in DOMAIN IntTypes
  <2>1. out = Stored(Cuts(k, v), "01S07", <<"int", WholePart(v)>>, CellSize(k))
    BY <1>1, <1>3, IntIs
  <2>2. out.stored /\ out.content = <<"int", WholePart(v)>> /\ out.size = CellSize(k)
    BY <2>1 DEF Stored
  <2>3. HoldsIn(mem, k, i, <<"int", WholePart(v)>>, CellSize(k))
    BY <1>2, <2>2, Zenon
  <2>4. TypeOf(k) # "NUMERIC"
    BY <1>3, NumericIsNoInt
  <2> QED BY <1>3, <2>3, <2>4 DEF CellIn
<1>4. CASE TypeOf(k) = "NUMERIC"
  <2> DEFINE scale == result.columns[k].scale
  <2>1. PICK ns : /\ IsTheNumber(ns, v, scale)
                  /\ out = Stored(Cuts(k, v), "01S07", <<"numeric", ns>>, CellSize(k))
    BY <1>1, <1>4, NumericIs
  <2>2. out.stored /\ out.content = <<"numeric", ns>> /\ out.size = CellSize(k)
    BY <2>1 DEF Stored
  <2>3. HoldsIn(mem, k, i, <<"numeric", ns>>, CellSize(k))
    BY <1>2, <2>2, Zenon
  <2>4. CellSize(k) \in Nat \ {0} /\ TypeOf(k) \notin DOMAIN IntTypes
    BY <1>4, TypesAre
  <2>5. CellPlace(k, i) \in Int
    <3>1. i \in Nat
      BY RowsAre
    <3> QED BY <3>1, PlacesAre
  <2> HIDE DEF mem, scale, v
  <2>6. mem[CellPlace(k, i)][1] = <<"numeric", ns>>
    <3>1. 0 \in 0 .. CellSize(k) - 1 /\ CellPlace(k, i) + 0 = CellPlace(k, i)
      BY <2>4, <2>5
    <3>2. mem[CellPlace(k, i) + 0] = <<<<"numeric", ns>>, 0>>
      BY <2>3, <3>1, Zenon DEF HoldsIn
    <3> QED BY <3>1, <3>2
  <2>7. CellIn(mem, k, i, v)
    <3> DEFINE content == mem[CellPlace(k, i)][1]
    <3>1. content[1] = "numeric" /\ content[2] = ns
      BY <2>6
    <3>2. HoldsIn(mem, k, i, content, CellSize(k))
      BY <2>3, <2>6
    <3>3. IsTheNumber(content[2], v, result.columns[k].scale)
      BY <2>1, <3>1 DEF scale
    <3> QED BY <1>4, <2>4, <3>1, <3>2, <3>3 DEF CellIn
  <2> QED BY <2>7 DEF mem, v
<1>5. CASE TypeOf(k) = "CHAR"
  <2> DEFINE len == cols[k].buffer_len
  <2>1. TypeOf(k) \notin DOMAIN IntTypes \cup {"NUMERIC"} /\ len \in Nat
    BY <1>5, TypesAre
  <2>2. out = PutText(v, len)
    BY <1>1, <1>5, Zenon DEF Converted
  <2>3. Length(v) \in Nat
    BY <1>1, LengthIs
  <2>4. CASE len = 0
    <3>1. Length(v) \in 0 .. Length(v) /\ ~(len > 0)
      BY <2>3, <2>4
    <3> QED BY <1>5, <2>1, <3>1 DEF CellIn
  <2>5. CASE len # 0
    <3>1. PICK n \in 0 .. Length(v) : /\ n = Length(v) \/ n + 1 = len
                                      /\ out.content = <<"text", v, n>> /\ out.size = n + 1
      <4> HIDE DEF len
      <4> QED BY <1>1, <2>1, <2>2, <2>5, PutTextFits
    <3>2. out.stored
      <4> HIDE DEF len
      <4> QED BY <1>1, <2>1, <2>2, <2>5, PutTextFits
    <3>3. HoldsIn(mem, k, i, <<"text", v, n>>, n + 1)
      BY <1>2, <3>1, <3>2, Zenon
    <3> QED BY <1>5, <2>1, <3>1, <3>3 DEF CellIn
  <2> QED BY <2>4, <2>5
<1> QED BY <1>3, <1>4, <1>5, TypesAre DEF CTypes

\* A null says so in its indicator.
LEMMA FetchedNullIs ==
    ASSUME TypeOK, FetchApart, NEW i \in DOMAIN Rows, NEW k \in Read, Rows[i][k] = Null, cols[k].ind # Null,
           NEW x \in 0 .. IndicatorSize - 1
    PROVE  Overwritten(inds, IndWrites(Rows))[IndPlace(k, i) + x] = <<<<"null">>, x>>
<1>1. IsTold(i, k)
  BY DEF IsTold, get_value
<1>2. Indicator(k, Rows[i][k]) = <<"null">>
  BY DEF Indicator
<1> QED BY <1>1, <1>2, IndicatorTellsIt

\* CellIs is CellIn of the buffers as they are.
LEMMA CellIsIn ==
    ASSUME NEW k, NEW i, NEW t
    PROVE  CellIs(k, i, t) <=> CellIn(data, k, i, t)
<1>1. CASE TypeOf(k) \in DOMAIN IntTypes
  BY <1>1, NumericIsNoInt DEF CellIs, CellIn, Holds, HoldsIn
<1>2. CASE TypeOf(k) = "NUMERIC"
  BY <1>2, NumericIsNoInt DEF CellIs, CellIn, Holds, HoldsIn
<1>3. CASE TypeOf(k) \notin DOMAIN IntTypes \cup {"NUMERIC"}
  BY <1>3 DEF CellIs, CellIn, Holds, HoldsIn
<1> QED BY <1>1, <1>2, <1>3

\* CellHolds, of any memory.
CellHoldsIn(mem, told, k, i, v) ==
    /\ v # Null /\ cols[k].target # Null /\ Carried(v) /\ CanHold(k, v) => CellIn(mem, k, i, v)
    /\ v = Null /\ cols[k].ind # Null =>
         \A x \in 0 .. IndicatorSize - 1 : told[IndPlace(k, i) + x] = <<<<"null">>, x>>

\* CellHolds is CellHoldsIn of the buffers as they are.
LEMMA CellHoldsIsIn ==
    ASSUME NEW k, NEW i, NEW v
    PROVE  CellHolds(k, i, v) <=> CellHoldsIn(data, inds, k, i, v)
BY CellIsIn DEF CellHolds, CellHoldsIn

\* Also after the step.
LEMMA CellHoldsIsInNext ==
    ASSUME NEW k, NEW i
    PROVE  (CellHolds(k, i, rowset[i][k]) <=> CellHoldsIn(data, inds, k, i, rowset[i][k]))'
<1>1. CellHolds(k, i, rowset[i][k]) <=> CellHoldsIn(data, inds, k, i, rowset[i][k])
  BY CellHoldsIsIn
<1> QED BY <1>1, PTL

\* A fetch leaves what the cells should hold.
LEMMA FetchedCellHolds ==
    ASSUME TypeOK, FetchApart, NEW i \in DOMAIN Rows, NEW k \in Read
    PROVE  CellHoldsIn(Overwritten(data, DataWrites(Rows)), Overwritten(inds, IndWrites(Rows)), k, i, Rows[i][k])
BY FetchedCellIs, FetchedNullIs DEF CellHoldsIn

\* As long as the application does not move its buffers, what a cell should hold stays.
LEMMA CellsStay ==
    ASSUME UNCHANGED <<result, build, cols, row_bind_type, row_bind_offset>>, NEW k, NEW i
    PROVE  CellHolds(k, i, rowset[i][k])' <=> CellHoldsIn(data', inds', k, i, rowset'[i][k])
<1> DEFINE v == rowset[i][k]
<1>1. (CellHolds(k, i, v) <=> CellHoldsIn(data, inds, k, i, v))'
  BY CellHoldsIsInNext
<1>2. CellHoldsIn(data, inds, k, i, v)' <=> CellHoldsIn(data', inds', k, i, v')
  <2>1. /\ TypeOf(k)' = TypeOf(k) /\ CellSize(k)' = CellSize(k)
        /\ CellPlace(k, i)' = CellPlace(k, i) /\ IndPlace(k, i)' = IndPlace(k, i)
    BY PlacesStay
  <2>2. CanHold(k, v)' <=> CanHold(k, v')
    BY <2>1 DEF CanHold
  <2>3. Carried(v)' <=> Carried(v')
    BY DEF Carried
  <2>4. CellIn(data, k, i, v)' <=> CellIn(data', k, i, v')
    BY <2>1 DEF CellIn, HoldsIn
  <2> QED BY <2>1, <2>2, <2>3, <2>4 DEF CellHoldsIn
<1> QED BY <1>1, <1>2

\* Each bound cell of the rows of a fetch holds its own value, as much of it as the type can
\* hold, and its indicator says when it is null: for every result, however many rows the array
\* has, whether rows or columns follow each other in memory, and whatever else of the rowset
\* could not be converted.  The application has laid out its buffers so that the cells are
\* apart, and the floating types of the build carry the value.
THEOREM CellsHoldThem == Spec => []CellsHoldTheirValues
<1>1. Init => CellsHoldTheirValues
  BY DEF Init, CellsHoldTheirValues, Fetched
<1>2. TypeOK /\ CellsHoldTheirValues /\ [Next]_vars => CellsHoldTheirValues'
  <2> SUFFICES ASSUME TypeOK, CellsHoldTheirValues, [Next]_vars, rc' # "none", CellsAreApart',
                      NEW i \in DOMAIN rowset', NEW k \in Read'
               PROVE  CellHolds(k, i, rowset[i][k])'
    BY DEF CellsHoldTheirValues, Fetched
  <2>1. CASE UNCHANGED vars
    <3>1. UNCHANGED <<result, build, cols, row_bind_type, row_bind_offset, data, inds, rowset, rc>>
      BY <2>1 DEF vars, setup, memory
    <3>2. /\ Read' = Read
          /\ \A l, j : CellPlace(l, j)' = CellPlace(l, j) /\ IndPlace(l, j)' = IndPlace(l, j)
          /\ \A l : CellSize(l)' = CellSize(l)
      BY <3>1, PlacesStay
    <3>3. CellsAreApart
      BY <3>1, <3>2 DEF CellsAreApart
    <3>4. CellHolds(k, i, rowset[i][k])
      BY <3>1, <3>2, <3>3 DEF CellsHoldTheirValues, Fetched
    <3>5. CellHoldsIn(data, inds, k, i, rowset[i][k])
      BY <3>4, CellHoldsIsIn
    <3> QED BY <3>1, <3>5, CellsStay
  <2>2. CASE ~UNCHANGED vars
    <3>1. /\ rowset' = Rows
          /\ data' = Overwritten(data, DataWrites(Rows)) /\ inds' = Overwritten(inds, IndWrites(Rows))
          /\ UNCHANGED <<result, build, cols, row_bind_type, row_bind_offset>>
      BY <2>2, FetchIs, Zenon
    <3>2. /\ Read' = Read
          /\ \A l, j : CellPlace(l, j)' = CellPlace(l, j) /\ IndPlace(l, j)' = IndPlace(l, j)
          /\ \A l : CellSize(l)' = CellSize(l)
      BY <3>1, PlacesStay
    <3>3. FetchApart
      BY <3>1, <3>2 DEF CellsAreApart, FetchApart
    <3>4. CellHoldsIn(data', inds', k, i, rowset'[i][k])
      BY <3>1, <3>2, <3>3, FetchedCellHolds
    <3> QED BY <3>1, <3>4, CellsStay
  <2> QED BY <2>1, <2>2
<1> QED BY <1>1, <1>2, BlockFetchTypes, PTL DEF Spec
==============================================================================
