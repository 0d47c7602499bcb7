---------------------------- MODULE GetData_proofs ----------------------------
(***************************************************************************)
(* Proofs about GetData, for every value and every buffer: first what the  *)
(* recursive positions of the characters are, then where a chunk ends,     *)
(* then the calls.                                                         *)
(***************************************************************************)
EXTENDS GetData, WellFoundedInduction, TLAPS

------------------------------------------------------------------------------
(* Least elements of sets of natural numbers                                 *)

\* A set of natural numbers that is not empty has a least element.
LEMMA LeastElement ==
    ASSUME NEW T, T \subseteq Nat, T # {}
    PROVE  \E x \in T : \A y \in T : x <= y
<1> DEFINE R == {ss \in Nat \X Nat : ss[1] < ss[2]}
<1>1. OpToRel(<, Nat) = R
  BY DEF OpToRel
<1>2. IsWellFoundedOn(R, Nat)
  BY <1>1, NatLessThanWellFounded
<1>3. PICK x \in T : \A y \in T : ~ (<<y, x>> \in R)
  <2> HIDE DEF R
  <2> QED BY <1>2, WFMin
<1>4. \A y \in T : ~ (y < x)
  BY <1>3
<1> QED BY <1>4

\* Max of a bounded set of natural numbers is its greatest element.
LEMMA MaxIsGreatest ==
    ASSUME NEW S, NEW b \in Nat, S \subseteq 0 .. b, S # {}
    PROVE  Max(S) \in S /\ \A y \in S : y <= Max(S)
<1> DEFINE T == {b - s : s \in S}
<1>1. T \subseteq Nat
  OBVIOUS
<1>2. T # {}
  <2>1. PICK s \in S : TRUE
    OBVIOUS
  <2>2. b - s \in T
    OBVIOUS
  <2> QED BY <2>2
<1>3. PICK t \in T : \A y \in T : t <= y
  <2> HIDE DEF T
  <2> QED BY <1>1, <1>2, LeastElement
<1>4. PICK x \in S : t = b - x
  BY <1>3
<1>5. \A y \in S : x >= y
  <2> TAKE y \in S
  <2>1. b - y \in T
    OBVIOUS
  <2> QED BY <2>1, <1>3, <1>4
<1>6. Max(S) \in S /\ \A y \in S : Max(S) >= y
  BY <1>5, Zenon DEF Max
<1> QED BY <1>6

------------------------------------------------------------------------------
(* Positions of characters *)

\* What the recursive definition of positions says, up to character n.
IsBefore(f, v, t, n) == f = [k \in 0 .. n |-> IF k = 0 THEN 0 ELSE f[k - 1] + Width(v[k], t)]

\* Positions up to a character can be continued to the next.
LEMMA BeforeContinues ==
    ASSUME NEW v, NEW t, NEW n \in Nat, NEW f, IsBefore(f, v, t, n)
    PROVE  \E g : IsBefore(g, v, t, n + 1)
<1> DEFINE g == [k \in 0 .. n + 1 |-> IF k = n + 1 THEN f[n] + Width(v[n + 1], t) ELSE f[k]]
<1>1. \A k \in 0 .. n + 1 : g[k] = IF k = 0 THEN 0 ELSE g[k - 1] + Width(v[k], t)
  <2> TAKE k \in 0 .. n + 1
  <2>1. CASE k = 0
    BY <2>1 DEF IsBefore
  <2>2. CASE k = n + 1
    <3>1. g[k] = f[n] + Width(v[n + 1], t) /\ g[k - 1] = f[n]
      BY <2>2
    <3> QED BY <2>2, <3>1
  <2>3. CASE k \in 1 .. n
    <3>1. g[k] = f[k] /\ g[k - 1] = f[k - 1]
      BY <2>3
    <3>2. f[k] = f[k - 1] + Width(v[k], t)
      BY <2>3 DEF IsBefore
    <3> QED BY <2>3, <3>1, <3>2
  <2> QED BY <2>1, <2>2, <2>3
<1>2. g = [k \in 0 .. n + 1 |-> g[k]]
  OBVIOUS
<1>3. IsBefore(g, v, t, n + 1)
  <2> HIDE DEF g
  <2> QED BY <1>1, <1>2, Zenon DEF IsBefore
<1> QED BY <1>3

\* Positions exist for values of any length.
LEMMA BeforeExists ==
    ASSUME NEW v, NEW t, NEW n \in Nat
    PROVE  \E f : IsBefore(f, v, t, n)
<1> DEFINE T == {m \in Nat : ~ \E f : IsBefore(f, v, t, m)}
<1>1. SUFFICES ASSUME T # {} PROVE FALSE
  OBVIOUS
<1>2. PICK m \in T : \A y \in T : m <= y
  <2>1. T \subseteq Nat
    OBVIOUS
  <2> HIDE DEF T
  <2> QED BY <1>1, <2>1, LeastElement
<1>3. m # 0
  <2> DEFINE f == [k \in 0 .. 0 |-> 0]
  <2>1. f = [k \in 0 .. 0 |-> IF k = 0 THEN 0 ELSE f[k - 1] + Width(v[k], t)]
    OBVIOUS
  <2>2. IsBefore(f, v, t, 0)
    BY <2>1, Zenon DEF IsBefore
  <2> QED BY <2>2
<1>4. m - 1 \in Nat /\ m - 1 \notin T
  BY <1>2, <1>3
<1>5. PICK f : IsBefore(f, v, t, m - 1)
  BY <1>4
<1>6. \E g : IsBefore(g, v, t, (m - 1) + 1)
  BY <1>4, <1>5, BeforeContinues
<1> QED BY <1>6, <1>2

\* Before is what its definition says.
LEMMA BeforeIs ==
    ASSUME NEW v, Len(v) \in Nat, NEW t
    PROVE  Before(v, t) = [k \in 0 .. Len(v) |-> IF k = 0 THEN 0 ELSE Before(v, t)[k - 1] + Width(v[k], t)]
<1>1. \E f : IsBefore(f, v, t, Len(v))
  BY BeforeExists
<1>2. Before(v, t) = CHOOSE f : IsBefore(f, v, t, Len(v))
  BY Zenon DEF Before, IsBefore
<1>3. IsBefore(Before(v, t), v, t, Len(v))
  BY <1>1, <1>2, Zenon
<1> QED BY <1>3, Zenon DEF IsBefore

\* A character takes one unit to four, as wide characters one or two.
LEMMA WidthIs ==
    ASSUME NEW w \in 1 .. 4, NEW t
    PROVE  Width(w, t) \in 1 .. 4 /\ (t = "WCHAR" => Width(w, t) \in 1 .. 2)
BY DEF Width

\* From one position to the next.
LEMMA BeforeSteps ==
    ASSUME NEW v \in Seq(1 .. 4), NEW t
    PROVE  /\ Before(v, t)[0] = 0
           /\ \A k \in 1 .. Len(v) : Before(v, t)[k] = Before(v, t)[k - 1] + Width(v[k], t)
<1>1. Len(v) \in Nat
  OBVIOUS
<1> DEFINE B == Before(v, t)
<1>2. B = [k \in 0 .. Len(v) |-> IF k = 0 THEN 0 ELSE B[k - 1] + Width(v[k], t)]
  BY <1>1, BeforeIs
<1> HIDE DEF B
<1>3. B[0] = 0
  BY <1>1, <1>2
<1>4. \A k \in 1 .. Len(v) : B[k] = B[k - 1] + Width(v[k], t)
  BY <1>1, <1>2
<1> QED BY <1>3, <1>4 DEF B

\* Positions are natural numbers that grow.
LEMMA BeforeGrows ==
    ASSUME NEW v \in Seq(1 .. 4), NEW t
    PROVE  \A n \in 0 .. Len(v) :
              /\ Before(v, t)[n] \in Nat
              /\ \A k \in 0 .. n - 1 : Before(v, t)[k] < Before(v, t)[n]
<1> DEFINE B == Before(v, t)
           Good(n) == B[n] \in Nat /\ \A k \in 0 .. n - 1 : B[k] \in Nat /\ B[k] < B[n]
           T == {n \in 0 .. Len(v) : ~Good(n)}
<1>1. Len(v) \in Nat
  OBVIOUS
<1>2. T = {}
  <2>1. SUFFICES ASSUME T # {} PROVE FALSE
    OBVIOUS
  <2>2. PICK n \in T : \A y \in T : n <= y
    <3>1. T \subseteq Nat
      BY <1>1
    <3> HIDE DEF T
    <3> QED BY <2>1, <3>1, LeastElement
  <2>3. B[0] = 0 /\ \A k \in 1 .. Len(v) : B[k] = B[k - 1] + Width(v[k], t)
    BY BeforeSteps
  <2>4. n \in 0 .. Len(v)
    OBVIOUS
  <2> HIDE DEF B
  <2>5. n # 0
    <3>1. Good(0)
      BY <2>3
    <3> QED BY <3>1
  <2>6. Good(n - 1)
    BY <1>1, <2>2, <2>4, <2>5
  <2>7. B[n] = B[n - 1] + Width(v[n], t) /\ Width(v[n], t) \in 1 .. 4
    <3>1. v[n] \in 1 .. 4
      BY <2>4, <2>5, <1>1
    <3> QED BY <3>1, <1>1, <2>3, <2>4, <2>5, WidthIs
  <2>8. B[n - 1] \in Nat /\ \A k \in 0 .. n - 2 : B[k] \in Nat /\ B[k] < B[n - 1]
    BY <2>6, <1>1, <2>4, <2>5
  <2>9. B[n] \in Nat /\ B[n - 1] < B[n]
    BY <2>7, <2>8
  <2>10. \A k \in 0 .. n - 1 : B[k] \in Nat /\ B[k] < B[n]
    <3> TAKE k \in 0 .. n - 1
    <3>1. k = n - 1 \/ k \in 0 .. n - 2
      BY <1>1, <2>4, <2>5
    <3> QED BY <3>1, <2>8, <2>9, <1>1, <2>4
  <2>11. Good(n)
    BY <2>9, <2>10
  <2> QED BY <2>11
<1>3. \A n \in 0 .. Len(v) : Good(n)
  BY <1>2
<1> QED BY <1>3

\* The length of a value is the end of its last character, and the last of its positions.
LEMMA LengthIs ==
    ASSUME NEW v \in Seq(1 .. 4), NEW t
    PROVE  /\ LengthIn(v, t) \in Nat
           /\ LengthIn(v, t) = Before(v, t)[Len(v)]
           /\ LengthIn(v, t) \in StartsOf(v, t)
           /\ StartsOf(v, t) \subseteq 0 .. LengthIn(v, t)
<1> DEFINE B == Before(v, t)
           L == B[Len(v)]
           S == StartsOf(v, t)
<1>1. Len(v) \in Nat
  OBVIOUS
<1>2. \A n \in 0 .. Len(v) : B[n] \in Nat /\ \A k \in 0 .. n - 1 : B[k] < B[n]
  BY BeforeGrows
<1>3. S = {B[k] : k \in 0 .. Len(v)}
  BY DEF StartsOf
<1> HIDE DEF B, S
<1>4. L \in Nat
  BY <1>1, <1>2
<1>5. \A k \in 0 .. Len(v) : B[k] \in 0 .. L
  <2> TAKE k \in 0 .. Len(v)
  <2>1. B[k] \in Nat
    BY <1>2
  <2>2. k = Len(v) \/ k \in 0 .. Len(v) - 1
    BY <1>1
  <2>3. Len(v) \in 0 .. Len(v)
    BY <1>1
  <2>4. \A j \in 0 .. Len(v) - 1 : B[j] < L
    BY <1>2, <2>3
  <2> QED BY <1>4, <2>1, <2>2, <2>4
<1>6. S \subseteq 0 .. L
  BY <1>3, <1>5
<1>7. L \in S
  BY <1>1, <1>3
<1>8. Max(S) = L
  <2>1. Max(S) \in S /\ \A y \in S : y <= Max(S)
    BY <1>4, <1>6, <1>7, MaxIsGreatest
  <2>2. Max(S) \in 0 .. L /\ L <= Max(S)
    BY <2>1, <1>6, <1>7
  <2> QED BY <2>2, <1>4
<1>9. LengthIn(v, t) = L
  BY <1>8 DEF LengthIn, S
<1> QED BY <1>4, <1>6, <1>7, <1>9 DEF B, S

\* A unit of UTF-16 that is not at the start of a character follows one that is.
LEMMA HalvesFollowStarts ==
    ASSUME NEW v \in Seq(1 .. 4), NEW p \in 1 .. LengthIn(v, "WCHAR"), p \notin StartsOf(v, "WCHAR")
    PROVE  p - 1 \in StartsOf(v, "WCHAR")
<1> DEFINE B == Before(v, "WCHAR")
           T == {k \in 0 .. Len(v) : p <= B[k]}
<1>1. Len(v) \in Nat /\ LengthIn(v, "WCHAR") \in Nat /\ LengthIn(v, "WCHAR") = B[Len(v)]
  BY LengthIs
<1>2. PICK k \in T : \A y \in T : k <= y
  <2>1. Len(v) \in T /\ T \subseteq Nat
    BY <1>1
  <2> HIDE DEF T
  <2> QED BY <2>1, LeastElement
<1>3. B[0] = 0 /\ \A i \in 1 .. Len(v) : B[i] = B[i - 1] + Width(v[i], "WCHAR")
  BY BeforeSteps
<1>4. \A i \in 0 .. Len(v) : B[i] \in Nat
  BY BeforeGrows
<1>5. StartsOf(v, "WCHAR") = {B[i] : i \in 0 .. Len(v)}
  BY DEF StartsOf
<1> HIDE DEF B
<1>6. k \in 1 .. Len(v)
  BY <1>1, <1>3
<1>7. Width(v[k], "WCHAR") \in 1 .. 2
  <2>1. v[k] \in 1 .. 4
    BY <1>6, <1>1
  <2> QED BY <2>1, WidthIs
<1>8. k - 1 \in 0 .. Len(v) /\ B[k - 1] \in Nat /\ ~ (p <= B[k - 1])
  BY <1>1, <1>2, <1>4, <1>6
<1>9. B[k] # p /\ p <= B[k]
  BY <1>5, <1>6, <1>1
<1>10. B[k] = B[k - 1] + Width(v[k], "WCHAR")
  BY <1>3, <1>6
<1>11. B[k - 1] = p - 1
  BY <1>1, <1>7, <1>8, <1>9, <1>10
<1> QED BY <1>5, <1>8, <1>11

------------------------------------------------------------------------------
(* Where a chunk ends *)

\* Of characters: inside the buffer, and inside a character only where none starts in the buffer.
LEMMA CutCharIs ==
    ASSUME NEW from \in Nat, NEW rest \in Nat, NEW fit \in 0 .. rest, NEW starts
    PROVE  LET n == CutChar(from, fit, rest, starts)
           IN  /\ n \in 0 .. fit
               /\ n = rest \/ from + n \in starts \/ starts \cap (from + 1 .. from + n) = {}
<1> DEFINE cuts == {k \in 1 .. fit : from + k \in starts}
           n == CutChar(from, fit, rest, starts)
<1>1. CASE fit = rest
  BY <1>1 DEF CutChar
<1>2. CASE fit # rest /\ cuts = {}
  <2>1. n = fit
    BY <1>2 DEF CutChar
  <2>2. \A x \in starts : x \notin from + 1 .. from + n
    <3> SUFFICES ASSUME NEW x \in starts, x \in from + 1 .. from + n PROVE FALSE
      OBVIOUS
    <3>1. x - from \in 1 .. fit /\ from + (x - from) = x
      BY <2>1
    <3> QED BY <3>1, <1>2
  <2> QED BY <2>1, <2>2
<1>3. CASE fit # rest /\ cuts # {}
  <2>1. n = Max(cuts)
    BY <1>3 DEF CutChar
  <2>2. Max(cuts) \in cuts
    <3>1. cuts \subseteq 0 .. fit /\ fit \in Nat
      OBVIOUS
    <3> HIDE DEF cuts
    <3> QED BY <3>1, <1>3, MaxIsGreatest
  <2> QED BY <2>1, <2>2
<1> QED BY <1>1, <1>2, <1>3

\* Of wide characters: as much of the buffer, or one unit less.
LEMMA CutWideIs ==
    ASSUME NEW from \in Nat, NEW rest \in Nat, NEW fit \in 0 .. rest, NEW starts
    PROVE  LET n == CutWide(from, fit, rest, starts)
           IN  /\ n \in 0 .. fit
               /\ \/ n = rest \/ from + n \in starts \/ n <= 1
                  \/ fit < rest /\ from + fit \notin starts /\ n = fit - 1
BY DEF CutWide

\* A chunk stays inside the value, and ends inside a character only as a piece of that one.
LEMMA FittingIs ==
    ASSUME NEW v \in Seq(1 .. 4), NEW t \in Texts, NEW from \in 0 .. LengthIn(v, t), NEW avail \in Nat
    PROVE  LET n == Fitting(v, t, from, avail)
           IN  /\ n \in Nat /\ from + n <= LengthIn(v, t)
               /\ t \in {"CHAR", "WCHAR"} /\ n >= 1 /\ from + n \notin StartsOf(v, t)
                    => StartsOf(v, t) \cap (from + 1 .. from + n) = {}
<1> DEFINE L == LengthIn(v, t)
           S == StartsOf(v, t)
           rest == L - from
           fit == MinOf(rest, avail)
           n == Fitting(v, t, from, avail)
<1>1. L \in Nat /\ L \in S /\ S \subseteq 0 .. L
  BY LengthIs
<1> HIDE DEF L, S
<1>2. from \in Nat /\ rest \in Nat /\ fit \in 0 .. rest
  BY <1>1 DEF MinOf, L
<1>3. CASE t = "CHAR"
  <2>1. n = CutChar(from, fit, rest, S)
    BY <1>3 DEF Fitting, L, S
  <2>2. n \in 0 .. fit /\ (n = rest \/ from + n \in S \/ S \cap (from + 1 .. from + n) = {})
    <3> HIDE DEF fit, rest, n
    <3> QED BY <1>2, <2>1, CutCharIs
  <2>3. n = rest => from + n = L
    BY <1>1, <1>2
  <2> QED BY <1>1, <1>2, <2>2, <2>3 DEF L, S
<1>4. CASE t = "WCHAR"
  <2>1. n = CutWide(from, fit, rest, S)
    BY <1>4 DEF Fitting, L, S
  <2>2. /\ n \in 0 .. fit
        /\ \/ n = rest \/ from + n \in S \/ n <= 1
           \/ fit < rest /\ from + fit \notin S /\ n = fit - 1
    <3> HIDE DEF fit, rest, n
    <3> QED BY <1>2, <2>1, CutWideIs
  <2> HIDE DEF n
  <2>3. n = rest => from + n \in S
    BY <1>1, <1>2
  <2>4. fit < rest /\ from + fit \notin S /\ n = fit - 1 /\ n >= 1 => from + n \in S
    <3> SUFFICES ASSUME fit < rest, from + fit \notin S, n = fit - 1, n >= 1 PROVE from + n \in S
      OBVIOUS
    <3>1. from + fit \in 1 .. L
      BY <1>1, <1>2, <2>2
    <3>2. (from + fit) - 1 \in S
      <4> HIDE DEF fit
      <4> QED BY <1>4, <3>1, HalvesFollowStarts DEF S, L
    <3> QED BY <3>2, <1>2, <2>2
  <2>5. n \in Nat /\ from + n <= L
    BY <1>1, <1>2, <2>2
  <2>6. n = 1 /\ from + n \notin S => S \cap (from + 1 .. from + n) = {}
    BY <1>2
  <2> QED BY <2>2, <2>3, <2>4, <2>5, <2>6 DEF L, S, n
<1>5. CASE t = "BINARY"
  <2>1. n = fit
    BY <1>5 DEF Fitting, L
  <2> QED BY <1>1, <1>2, <1>5, <2>1 DEF L
<1> QED BY <1>3, <1>4, <1>5 DEF Texts

------------------------------------------------------------------------------
(* The calls.  An application that keeps to one type is assumed: the offset is in its unit. *)

\* What was given of a text value is its beginning, as long as the offset says.
GivenIsTheBeginning ==
    value # Null /\ c_type \in Texts =>
        /\ \A i \in DOMAIN given : given[i] = i
        /\ IF done THEN Len(given) = LengthIn(value, c_type)
           ELSE Len(given) = offset /\ offset <= LengthIn(value, c_type)

IInv == TypeOK /\ GivenIsTheBeginning /\ SplitsOnlyInTinyBuffers

\* The initial state.
LEMMA InitIInv == Init => IInv
<1> SUFFICES ASSUME Init PROVE IInv
  OBVIOUS
<1>1. TypeOK
  <2>1. chunk \in Nat \X Nat
    BY DEF Init, Nothing
  <2>2. given \in Seq(Nat)
    BY DEF Init
  <2> QED BY <2>1, <2>2 DEF Init, TypeOK
<1>2. GivenIsTheBeginning
  <2> SUFFICES ASSUME value # Null, c_type \in Texts PROVE 0 <= LengthIn(value, c_type)
    BY DEF Init, GivenIsTheBeginning
  <2>1. value \in Seq(1 .. 4)
    BY GetDataConstants DEF Init
  <2> QED BY <2>1, LengthIs
<1>3. SplitsOnlyInTinyBuffers
  BY DEF Init, SplitsOnlyInTinyBuffers, EndsInside, Nothing
<1> QED BY <1>1, <1>2, <1>3 DEF IInv

\* A call that gives nothing and goes on with the same value.
LEMMA NothingGiven ==
    ASSUME IInv, value' = value, given' = given, offset' = offset, chunk' = Nothing, c_type' \in CTypes,
           done' \in BOOLEAN, ret' \in {"SUCCESS", "01004", "NO_DATA", "22002", "22018"},
           value # Null /\ c_type' \in Texts =>
               /\ c_type' = c_type
               /\ done' = done \/ (~done /\ done' /\ offset = LengthIn(value, c_type))
    PROVE  IInv'
<1>1. TypeOK'
  BY DEF IInv, TypeOK, Nothing
<1>2. GivenIsTheBeginning'
  <2> SUFFICES ASSUME value # Null, c_type' \in Texts PROVE GivenIsTheBeginning'
    BY DEF GivenIsTheBeginning
  <2>1. c_type' = c_type /\ LengthIn(value, c_type)' = LengthIn(value, c_type)
    OBVIOUS
  <2>2. GivenIsTheBeginning
    BY DEF IInv
  <2> QED BY <2>1, <2>2 DEF GivenIsTheBeginning
<1>3. SplitsOnlyInTinyBuffers'
  BY DEF SplitsOnlyInTinyBuffers, EndsInside, Nothing
<1> QED BY <1>1, <1>2, <1>3 DEF IInv

\* The length of two sequences put together.
LEMMA LengthsAdd ==
    ASSUME NEW S, NEW s \in Seq(S), NEW r \in Seq(S)
    PROVE  Len(s \o r) = Len(s) + Len(r)
OBVIOUS

\* A chunk is appended to what was given.
LEMMA ChunkGiven ==
    ASSUME IInv, Switching = FALSE, NEW t \in Texts, NEW len \in Buffers, GetChunk(t, len)
    PROVE  IInv'
<1> DEFINE L == LengthIn(value, t)
           n == Fitting(value, t, offset, Room(t, len))
           more == [i \in 1 .. n |-> offset + i]
<1>1. t = c_type /\ c_type' = c_type /\ value' = value /\ value \in Seq(1 .. 4) /\ value # Null /\ ~done
  BY GetDataConstants DEF IInv, TypeOK, GetChunk, NextTypes
<1>2. L \in Nat /\ offset \in 0 .. L /\ Room(t, len) \in Nat
  <2>1. L \in Nat
    BY <1>1, LengthIs
  <2> HIDE DEF L
  <2>2. offset \in Nat /\ offset <= L
    BY DEF IInv, TypeOK, GetChunk, L
  <2>3. Room(t, len) \in Int /\ Room(t, len) >= 0
    BY GetDataConstants DEF GetChunk, Room
  <2> QED BY <2>1, <2>2, <2>3
<1>3. /\ n \in Nat /\ offset + n <= L
      /\ t \in {"CHAR", "WCHAR"} /\ n >= 1 /\ offset + n \notin StartsOf(value, t)
           => StartsOf(value, t) \cap (offset + 1 .. offset + n) = {}
  BY <1>1, <1>2, FittingIs
<1>4. /\ chunk' = <<offset + 1, offset + n>>
      /\ given' = given \o more
      /\ IF offset + n < L THEN offset' = offset + n /\ ret' = "01004" /\ done' = done
         ELSE done' = TRUE /\ ret' = "SUCCESS" /\ offset' = offset
  BY DEF GetChunk, Advance
<1>5. /\ given \in Seq(Nat) /\ Len(given) = offset /\ \A i \in DOMAIN given : given[i] = i
  BY <1>1, <1>2 DEF IInv, TypeOK, GivenIsTheBeginning
<1> HIDE DEF n, L
<1>6. more \in Seq(Nat) /\ Len(more) = n /\ \A i \in 1 .. n : more[i] = offset + i
  BY <1>2, <1>3
<1> HIDE DEF more
<1>7. /\ given' \in Seq(Nat) /\ Len(given') = offset + n
      /\ \A i \in DOMAIN given' : given'[i] = i
  <2> DEFINE both == given \o more
  <2>1. both \in Seq(Nat) /\ Len(both) = offset + n /\ DOMAIN both = 1 .. offset + n
    <3>1. both \in Seq(Nat)
      BY <1>5, <1>6
    <3>2. given \in Seq(Nat) /\ more \in Seq(Nat)
      BY <1>5, <1>6
    <3>3. Len(both) = offset + n
      <4>1. Len(both) = Len(given) + Len(more)
        BY <3>2, LengthsAdd
      <4> QED BY <4>1, <1>5, <1>6
    <3> HIDE DEF both
    <3>4. DOMAIN both = 1 .. Len(both)
      BY <3>1
    <3> QED BY <3>1, <3>3, <3>4
  <2>2. \A i \in 1 .. offset + n : both[i] = i
    <3> TAKE i \in 1 .. offset + n
    <3>1. CASE i <= offset
      <4>1. i \in 1 .. Len(given)
        BY <3>1, <1>2, <1>5
      <4>2. both[i] = given[i]
        BY <4>1, <1>5, <1>6
      <4> QED BY <4>1, <4>2, <1>5
    <3>2. CASE i > offset
      <4>1. i - offset \in 1 .. n
        BY <3>2, <1>2, <1>3
      <4>2. both[i] = more[i - offset]
        BY <4>1, <3>2, <1>2, <1>3, <1>5, <1>6
      <4> QED BY <4>1, <4>2, <1>2, <1>6
    <3>3. i <= offset \/ i > offset
      BY <1>2, <1>3
    <3> QED BY <3>1, <3>2, <3>3, Zenon
  <2>3. given' = both
    BY <1>4
  <2> HIDE DEF both
  <2> QED BY <2>1, <2>2, <2>3
<1>8. TypeOK'
  <2>1. chunk' \in Nat \X Nat /\ offset' \in Nat
    BY <1>2, <1>3, <1>4
  <2>2. done' \in BOOLEAN
    <3>1. done \in BOOLEAN
      BY DEF IInv, TypeOK
    <3>2. done' = done \/ done' = TRUE
      BY <1>4, Zenon
    <3> QED BY <3>1, <3>2, Zenon
  <2>3. ret' \in {"SUCCESS", "01004", "NO_DATA", "22002", "22018"}
    BY <1>4
  <2> QED BY <2>1, <2>2, <2>3, <1>1, <1>7 DEF IInv, TypeOK
<1>9. GivenIsTheBeginning'
  <2>1. L = LengthIn(value, c_type)'
    BY <1>1 DEF L
  <2>2. IF done' THEN Len(given') = L ELSE Len(given') = offset' /\ offset' <= L
    BY <1>1, <1>2, <1>3, <1>4, <1>7
  <2> QED BY <2>1, <2>2, <1>1, <1>7 DEF GivenIsTheBeginning
<1>10. SplitsOnlyInTinyBuffers'
  <2>1. chunk'[1] = offset + 1 /\ chunk'[2] = offset + n
    BY <1>4
  <2>2. t \in {"CHAR", "WCHAR"} /\ offset + n >= offset + 1 /\ offset + n \notin StartsOf(value, t)
          => StartsOf(value, t) \cap (offset + 1 .. offset + n) = {}
    BY <1>2, <1>3
  <2> QED BY <2>1, <2>2, <1>1 DEF SplitsOnlyInTinyBuffers, EndsInside
<1> QED BY <1>8, <1>9, <1>10 DEF IInv

\* Every call keeps the invariant.
LEMMA StepIInv ==
    ASSUME Switching = FALSE, IInv, [Next]_vars
    PROVE  IInv'
<1>1. /\ done \in BOOLEAN /\ c_type \in CTypes
      /\ ret \in {"SUCCESS", "01004", "NO_DATA", "22002", "22018"}
  BY DEF IInv, TypeOK
<1>2. CASE GetDone
  <2>1. done' = done /\ c_type' = c_type
    BY <1>2 DEF GetDone
  <2> QED BY <1>1, <1>2, <2>1, NothingGiven DEF GetDone
<1>3. ASSUME NEW indicator \in BOOLEAN, GetNull(indicator)
      PROVE  IInv'
  BY <1>1, <1>3, NothingGiven DEF GetNull
<1>4. ASSUME NEW t \in Texts, GetLength(t)
      PROVE  IInv'
  <2>1. t = c_type /\ c_type' = c_type /\ value' = value /\ value # Null /\ ~done
    BY <1>4 DEF GetLength, NextTypes
  <2>2. /\ done' = done \/ (done' = TRUE /\ offset = LengthIn(value, c_type))
        /\ ret' \in {"SUCCESS", "01004"}
    BY <1>4, <2>1, Zenon DEF GetLength
  <2>3. done' \in BOOLEAN
    BY <1>1, <2>2, Zenon
  <2> QED BY <1>1, <1>4, <2>1, <2>2, <2>3, NothingGiven DEF GetLength
<1>5. ASSUME NEW t \in Texts, NEW len \in Buffers, GetChunk(t, len)
      PROVE  IInv'
  BY <1>5, ChunkGiven
<1>6. ASSUME NEW convertible \in BOOLEAN, GetFixed(convertible)
      PROVE  IInv'
  <2>1. c_type' = "FIXED" /\ c_type' \notin Texts /\ "FIXED" \in CTypes
    BY <1>1, <1>6 DEF GetFixed, NextTypes, Texts
  <2>2. done' \in BOOLEAN /\ ret' \in {"SUCCESS", "22018"}
    BY <1>6 DEF GetFixed
  <2> QED BY <1>6, <2>1, <2>2, NothingGiven DEF GetFixed
<1>7. CASE UNCHANGED vars
  BY <1>7 DEF vars, IInv, TypeOK, GivenIsTheBeginning, SplitsOnlyInTinyBuffers, EndsInside
<1> QED BY <1>2, <1>3, <1>4, <1>5, <1>6, <1>7 DEF Next

\* The invariant holds of an application that reads a value with one type.
THEOREM GetDataInvariant ==
    ASSUME Switching = FALSE
    PROVE  Spec => []IInv
<1>1. IInv /\ [Next]_vars => IInv'
  BY StepIInv
<1> QED BY InitIInv, <1>1, PTL DEF Spec

\* Every variable of a value that is read in chunks keeps its type.
THEOREM TypeCorrect ==
    ASSUME Switching = FALSE
    PROVE  Spec => []TypeOK
<1>1. IInv => TypeOK
  BY DEF IInv
<1> QED BY GetDataInvariant, <1>1, PTL

\* The chunks of any buffer lengths are the value, and all of it at success (convert.cpp:161-215).
THEOREM ReadsTheValue ==
    ASSUME Switching = FALSE
    PROVE  Spec => []ChunksMakeTheValue
<1>1. IInv => ChunksMakeTheValue
  BY DEF IInv, GivenIsTheBeginning, ChunksMakeTheValue
<1> QED BY GetDataInvariant, <1>1, PTL

\* The offset never passes the end of the value (convert.cpp:165, :193).
THEOREM OffsetStaysInside ==
    ASSUME Switching = FALSE
    PROVE  Spec => []OffsetInside
<1>1. IInv => OffsetInside
  BY DEF IInv, GivenIsTheBeginning, OffsetInside, NextTypes
<1> QED BY GetDataInvariant, <1>1, PTL

\* A character is split only where the buffer is too small for it (convert.cpp:178, :204).
THEOREM CharactersStayWhole ==
    ASSUME Switching = FALSE
    PROVE  Spec => []SplitsOnlyInTinyBuffers
<1>1. IInv => SplitsOnlyInTinyBuffers
  BY DEF IInv
<1> QED BY GetDataInvariant, <1>1, PTL
==============================================================================
