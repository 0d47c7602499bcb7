------------------------------- MODULE Convert -------------------------------
(***************************************************************************)
(* The numeric conversions of convert.cpp: the text of a value into an     *)
(* integer of a C type (put_int), into a SQL_NUMERIC_STRUCT (put_numeric), *)
(* and from such a structure back into text (read_param).                  *)
(*                                                                         *)
(* Widths are constants.  A floating type is known by the largest integer  *)
(* up to which it holds every integer.  A text is its sign, its digits     *)
(* before and behind the point, and its exponent, or a word.               *)
(***************************************************************************)
EXTENDS Integers, Sequences, SequencesExt

CONSTANTS
    LongLongMax,   \* LLONG_MAX
    DoubleMax,     \* integers up to here are exact in a double
    ByteBase,      \* the values of a byte
    Bytes,         \* SQL_MAX_NUMERIC_LEN
    IntTypes       \* the integer C types: [name -> [lo, hi, size]]

ASSUME ConvertConstants ==
    /\ LongLongMax \in Nat /\ DoubleMax \in Nat \ {0}
    /\ ByteBase \in Nat \ {0, 1} /\ Bytes \in Nat \ {0}
    /\ \A t \in DOMAIN IntTypes :
          /\ IntTypes[t].lo \in Int /\ IntTypes[t].hi \in Nat /\ IntTypes[t].lo <= 0
          /\ IntTypes[t].size \in Nat \ {0}

------------------------------------------------------------------------------
(* Texts and what they mean *)

Numeral(neg, whole, point, frac, exp) ==
    [kind |-> "number", neg |-> neg, whole |-> whole, point |-> point, frac |-> frac, exp |-> exp]
Word(w) == [kind |-> w]

\* The texts there are.
Text ==
    [kind : {"number"}, neg : BOOLEAN, whole : Seq(0 .. 9), point : BOOLEAN, frac : Seq(0 .. 9), exp : Nat]
    \cup [kind : STRING \ {"number"}]

IsNumber(t) == t.kind \in {"number", "true", "false"}

\* b to the power n.
Power(b, n) ==
    LET power[i \in 0 .. n] == IF i = 0 THEN 1 ELSE b * power[i - 1]
    IN  power[n]

\* The number that digits spell.
Spelled(digits) ==
    LET number[i \in 0 .. Len(digits)] == IF i = 0 THEN 0 ELSE 10 * number[i - 1] + digits[i]
    IN  number[Len(digits)]

\* |value| = Numerator / Denominator.
Numerator(t) ==
    IF t.kind = "number" THEN Spelled(t.whole \o t.frac) * Power(10, t.exp)
    ELSE IF t.kind = "true" THEN 1 ELSE 0
Denominator(t) == IF t.kind = "number" THEN Power(10, Len(t.frac)) ELSE 1

Signed(t, n) == IF t.kind = "number" /\ t.neg THEN -n ELSE n
WholePart(t) == Signed(t, Numerator(t) \div Denominator(t))
HasFraction(t) == Numerator(t) % Denominator(t) # 0

Magnitude(n) == IF n < 0 THEN -n ELSE n

\* n as a floating type holds it that is exact up to max: a multiple of a power of two, a tie
\* going to the even one.
Floating(n, max) ==
    IF Magnitude(n) <= max THEN n
    ELSE LET k == CHOOSE k \in 1 .. Magnitude(n) :
                     Power(2, k - 1) * max < Magnitude(n) /\ Magnitude(n) <= Power(2, k) * max
             step == Power(2, k)
             low == (Magnitude(n) \div step) * step
             over == 2 * (Magnitude(n) - low)
             near == IF over < step \/ (over = step /\ (low \div step) % 2 = 0) THEN low ELSE low + step
         IN  IF n < 0 THEN -near ELSE near

------------------------------------------------------------------------------
(* put_int *)

\* An outcome: the return code, the diagnostic, what is stored, and whether anything is.
Failed(state) == [rc |-> "ERROR", diag |-> state, stored |-> FALSE]
Stored(lossy, state, content, size) ==
    [rc |-> IF lossy THEN "INFO" ELSE "SUCCESS", diag |-> IF lossy THEN state ELSE "00000",
     stored |-> TRUE, content |-> content, size |-> size]

\* parse_ll: a text without point and exponent whose number strtoll can hold.
parse_ll(t) ==
    /\ t.kind = "number" /\ ~t.point /\ t.exp = 0
    /\ WholePart(t) \in -LongLongMax - 1 .. LongLongMax

\* (mutant) Compares with the bounds before the fraction is cut off.
put_int_uncut(t, type, build) ==
    LET b == IntTypes[type]
        v == IF parse_ll(t) THEN Floating(WholePart(t), build.long_double)
             ELSE Floating(WholePart(t), DoubleMax)
        away == IF HasFraction(t) THEN Signed(t, 1) ELSE 0
    IN  IF ~IsNumber(t) THEN Failed("22018")
        ELSE IF v + away < Floating(b.lo, build.long_double) \/ v + away > Floating(b.hi, build.long_double)
          THEN Failed("22003")
        ELSE Stored(HasFraction(t), "01S07", <<"int", v>>, b.size)

\* The value goes through a long double.  A fraction of the few digits that Salesforce sends is
\* kept apart from the integers next to it by a double.  Casting a value that the type cannot
\* hold is undefined: a build stores its lowest value or its highest.
put_int(t, type, build) ==
    LET b == IntTypes[type]
        v == IF parse_ll(t) THEN Floating(WholePart(t), build.long_double)
             ELSE Floating(WholePart(t), DoubleMax)
        cast == IF v \in b.lo .. b.hi THEN v ELSE IF build.saturates THEN b.hi ELSE b.lo
    IN  IF ~IsNumber(t) THEN Failed("22018")
        ELSE IF v < Floating(b.lo, build.long_double) \/ v > Floating(b.hi, build.long_double)
          THEN Failed("22003")
        ELSE Stored(HasFraction(t), "01S07", <<"int", cast>>, b.size)

------------------------------------------------------------------------------
(* put_numeric and back *)

\* What the val member of the structure can hold, and nothing in it.
Vals == [1 .. Bytes -> 0 .. ByteBase - 1]
Zero == [k \in 1 .. Bytes |-> 0]

\* The digits of n, and n zeros.
DigitsOf[n \in Nat] == IF n < 10 THEN <<n>> ELSE Append(DigitsOf[n \div 10], n % 10)
Zeros(n) == [i \in 1 .. n |-> 0]

\* Byte by byte, val * 10 + digit: the sum at each byte includes the carry from the one below.
Sums(val, digit) ==
    LET sum[k \in 0 .. Bytes] ==
            IF k = 0 THEN digit * ByteBase ELSE val[k] * 10 + sum[k - 1] \div ByteBase
    IN  sum

Shift(acc, digit) ==
    LET sum == Sums(acc.val, digit)
    IN  [val |-> [k \in 1 .. Bytes |-> sum[k] % ByteBase],
         over |-> acc.over \/ sum[Bytes] \div ByteBase # 0]

\* Digit by digit, what the digits make of a structure with nothing in it.
Accumulated(digits) ==
    LET acc[i \in 0 .. Len(digits)] ==
            IF i = 0 THEN [val |-> Zero, over |-> FALSE] ELSE Shift(acc[i - 1], digits[i])
    IN  acc[Len(digits)]

\* The fraction is cut or filled to the scale.
ToScale(frac, scale) == [i \in 1 .. scale |-> IF i <= Len(frac) THEN frac[i] ELSE 0]

\* The value in units of the scale as printf rounds it: to the nearest, a tie to the even one.
Rounded(t, scale) ==
    LET n == Numerator(t) * Power(10, scale)
        q == n \div Denominator(t)
        over == 2 * (n % Denominator(t))
    IN  IF ~HasFraction(t) THEN Magnitude(Floating(WholePart(t), DoubleMax)) * Power(10, scale)
        ELSE IF over < Denominator(t) \/ (over = Denominator(t) /\ q % 2 = 0) THEN q ELSE q + 1

\* An e in the text, that of true and false as well, sends it through a double and printf first.
put_numeric(t, scale, size) ==
    LET e == t.kind \in {"true", "false"} \/ (t.kind = "number" /\ t.exp > 0)
        digits == IF e THEN DigitsOf[Rounded(t, scale)] ELSE t.whole \o ToScale(t.frac, scale)
        lost == ~e /\ \E i \in scale + 1 .. Len(t.frac) : t.frac[i] # 0
        acc == Accumulated(digits)
        sign == IF t.kind = "number" /\ t.neg THEN 0 ELSE 1
    IN  IF ~IsNumber(t) THEN Failed("22018")
        ELSE IF acc.over THEN Failed("22003")
        ELSE Stored(lost, "01S07", <<"numeric", [sign |-> sign, scale |-> scale, val |-> acc.val]>>, size)

\* One division by 10 of a little-endian number, from its highest byte: the quotients and the
\* remainder that is left at each byte.
Divided(val) ==
    LET cur[k \in 1 .. Bytes + 1] == IF k = Bytes + 1 THEN 0 ELSE (cur[k + 1] % 10) * ByteBase + val[k]
    IN  [val |-> [k \in 1 .. Bytes |-> cur[k] \div 10], digit |-> cur[1] % 10]

\* read_param of a SQL_NUMERIC_STRUCT: divided by 10 until nothing is left.
NumericDigits[val \in Vals] ==
    LET d == Divided(val)
    IN  IF d.val = Zero THEN <<d.digit>> ELSE Append(NumericDigits[d.val], d.digit)

read_numeric(ns) ==
    LET read == NumericDigits[ns.val]
        digits == (IF ns.scale > 0 THEN Zeros(ns.scale + 1 - Len(read)) ELSE <<>>) \o read
        cut == Len(digits) - ns.scale
    IN  Numeral(ns.sign = 0, SubSeq(digits, 1, cut), ns.scale > 0, SubSeq(digits, cut + 1, Len(digits)), 0)

------------------------------------------------------------------------------
(* What a SQL_NUMERIC_STRUCT should hold *)

HasExponent(t) == t.kind # "number" \/ t.exp # 0

\* |value| in units of a NUMERIC's last place: cut, or rounded to one of its neighbours.
Scaled(t, scale) == (Numerator(t) * Power(10, scale)) \div Denominator(t)
IsScaled(t, scale) == (Numerator(t) * Power(10, scale)) % Denominator(t) = 0
Fits(n) == n < Power(ByteBase, Bytes)

\* A NUMERIC that an application hands back as a parameter is the number it was given.
IsTheNumber(ns, t, scale) ==
    LET back == read_numeric(ns)
    IN  /\ Denominator(back) = Power(10, scale)
        /\ back.neg = (t.kind = "number" /\ t.neg)
        /\ back.whole # <<>>
        /\ \/ Numerator(back) = Scaled(t, scale)
           \/ Numerator(back) = Scaled(t, scale) + 1 /\ HasExponent(t) /\ ~IsScaled(t, scale)
==============================================================================
