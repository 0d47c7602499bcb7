----------------------------- MODULE MCBlockFetch -----------------------------
(* Instances of BlockFetch for TLC. *)
EXTENDS BlockFetch

\* Toy widths: 12 bits for 64, doubles exact up to 2^10 for 2^53, 2 bytes of 6 bits for 16 of 8.
MCIntTypes ==
    [STINYINT |-> [lo |-> -8, hi |-> 7, size |-> 1],
     UTINYINT |-> [lo |-> 0, hi |-> 15, size |-> 1],
     SBIGINT |-> [lo |-> -2048, hi |-> 2047, size |-> 4],
     UBIGINT |-> [lo |-> 0, hi |-> 4095, size |-> 4],
     BIT |-> [lo |-> 0, hi |-> 1, size |-> 1]]

\* A long double of 64 bits, and one that is a double.
MCBuilds == {[long_double |-> 4096, saturates |-> FALSE], [long_double |-> DoubleMax, saturates |-> TRUE]}
\* The latter with both outcomes of an impossible cast.
MCDoubleBuilds == {[long_double |-> DoubleMax, saturates |-> s] : s \in BOOLEAN}

Whole(n) == Numeral(n < 0, DigitsOf[Magnitude(n)], FALSE, <<>>, 0)
Decimal(neg, whole, frac) == Numeral(neg, whole, TRUE, frac, 0)
Scientific(neg, whole, frac, exp) == Numeral(neg, whole, frac # <<>>, frac, exp)

\* The bounds of the types and the numbers next to them, fractions that the scale holds, cuts
\* or rounds, exponents, and what is no number.
SampleTexts ==
    {Whole(n) : n \in {0, 1, 2, -1, 7, 8, -8, -9, 16, 1025, 2047, -2048, 4000}}
    \cup {Decimal(neg, whole, frac) : neg \in BOOLEAN, whole \in {<<>>, <<7>>, <<4, 0>>},
                                      frac \in {<<0, 5>>, <<9, 0>>}}
    \cup {Decimal(FALSE, <<4, 0, 9>>, <<5>>), Decimal(FALSE, <<4, 1, 0>>, <<0>>)}
    \cup {Scientific(FALSE, <<1>>, <<5>>, 1), Scientific(TRUE, <<1>>, <<0, 2, 5>>, 1),
          Scientific(FALSE, <<4>>, <<>>, 2), Scientific(FALSE, <<1>>, <<0, 2, 5>>, 3)}
    \cup {Word("true"), Word("word")}

Two == <<[default |-> "SBIGINT", scale |-> 1], [default |-> "CHAR", scale |-> 0]>>

\* Two texts with a null and other texts beside them, and one result of a single column.
MCResults ==
    LET list == FoldSet(LAMBDA t, l : Append(l, t), <<>>, SampleTexts)
        table(t, u) == [columns |-> Two, rows |-> <<<<t, Whole(1)>>, <<Null, Decimal(FALSE, <<7>>, <<5>>)>>, <<u, Null>>>>]
    IN  {table(list[i], list[i + 1]) : i \in {k \in 1 .. Len(list) - 1 : k % 2 = 1}}
        \cup {table(Last(list), Whole(7)), [columns |-> <<Two[1]>>, rows |-> <<<<Whole(1)>>>>]}

Rows(size, bind_type, offset, reports) ==
    [size |-> size, bind_type |-> bind_type, offset |-> offset, reporting |-> reports]
MCRowSettings == {Rows(2, BY_COLUMN, 30, TRUE), Rows(2, 6, 0, TRUE), Rows(1, 6, 30, TRUE)}

Bound(type, target, len, ind) ==
    [bound |-> TRUE, c_type |-> type, target |-> target, buffer_len |-> len, ind |-> ind]

MCAddresses == 0 .. 60

\* Column 1 has its arrays at 0, column 2 at 16, column 3 at 12: no cell overlaps another.
MCBoundTo ==
    {<<1, Bound(type, 0, 0, 0)>> : type \in (DOMAIN IntTypes \ {"SBIGINT"}) \cup {"NUMERIC", "DEFAULT"}}
    \cup {<<1, Bound("SBIGINT", 0, 0, Null)>>, <<1, Bound("SBIGINT", Null, 0, 0)>>, <<1, Bound("BIT", Null, 0, Null)>>}
    \cup {<<2, Bound("CHAR", 16, len, 16)>> : len \in {0, 3}}
    \cup {<<2, Bound("NUMERIC", 16, 3, Null)>>, <<2, Bound("STINYINT", 16, 3, 16)>>}
    \cup {<<3, Bound("STINYINT", 12, 1, 12)>>}

MCDoubleResults == {[columns |-> <<Two[1]>>, rows |-> <<<<Whole(n)>>>>] : n \in {1023, 1024, 1025, 2047}}
MCDoubleBound == {<<1, Bound("SBIGINT", 0, 0, 0)>>}
==============================================================================
