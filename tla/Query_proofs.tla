----------------------------- MODULE Query_proofs ----------------------------
(***************************************************************************)
(* Proofs about Query: a statement is parsed as it is meant, refused       *)
(* exactly when the driver does not support it, planned with a slot for    *)
(* each marker, and answered with the rows that it means.                  *)
(*                                                                         *)
(* The parts of a statement are read one behind the other where its        *)
(* spelling has them (Sits), its condition as Where_proofs says; then come *)
(* the columns, keys and fields of the plan, and the invariant.            *)
(***************************************************************************)
EXTENDS Where_proofs

------------------------------------------------------------------------------
(* Parts of a text *)

\* The tokens t stand in the text s, from place p on.
Sits(s, p, t) == p + Len(t) <= Len(s) + 1 /\ \A k \in 1 .. Len(t) : tok(s, p + (k - 1)) = t[k]

\* Tokens that are no markers.
Unmarked == STRING \ {"param"}

\* Sequences of one token,
LEMMA OneToken ==
    ASSUME NEW a
    PROVE  /\ Len(<<a>>) = 1 /\ <<a>>[1] = a
           /\ \A S : a \in S => <<a>> \in Seq(S)
OBVIOUS

\* of two,
LEMMA TwoTokens ==
    ASSUME NEW a, NEW b
    PROVE  /\ Len(<<a, b>>) = 2 /\ <<a, b>>[1] = a /\ <<a, b>>[2] = b
           /\ \A S : a \in S /\ b \in S => <<a, b>> \in Seq(S)
OBVIOUS

\* of four,
LEMMA FourTokens ==
    ASSUME NEW a, NEW b, NEW c, NEW d
    PROVE  /\ Len(<<a, b, c, d>>) = 4
           /\ <<a, b, c, d>>[1] = a /\ <<a, b, c, d>>[2] = b /\ <<a, b, c, d>>[3] = c /\ <<a, b, c, d>>[4] = d
           /\ \A S : a \in S /\ b \in S /\ c \in S /\ d \in S => <<a, b, c, d>> \in Seq(S)
OBVIOUS

\* and of none.
LEMMA NoTokens == Len(<<>>) = 0 /\ \A S : <<>> \in Seq(S)
OBVIOUS

\* A single token that sits at a place is the token there;
LEMMA SitsOne ==
    ASSUME NEW s, NEW p \in Nat, NEW a, Sits(s, p, <<a>>)
    PROVE  tok(s, p) = a /\ p + 1 <= Len(s) + 1
<1>1. 1 \in 1 .. Len(<<a>>) /\ p + (1 - 1) = p
  BY OneToken
<1>2. tok(s, p + (1 - 1)) = <<a>>[1] /\ p + Len(<<a>>) <= Len(s) + 1
  BY <1>1, Zenon DEF Sits
<1> QED BY <1>1, <1>2, OneToken

\* so are two,
LEMMA SitsTwo ==
    ASSUME NEW s, NEW p \in Nat, NEW a, NEW b, Sits(s, p, <<a, b>>)
    PROVE  tok(s, p) = a /\ tok(s, p + 1) = b /\ p + 2 <= Len(s) + 1
<1>1. 1 \in 1 .. Len(<<a, b>>) /\ 2 \in 1 .. Len(<<a, b>>) /\ p + (1 - 1) = p /\ p + (2 - 1) = p + 1
  BY TwoTokens
<1>2. /\ tok(s, p + (1 - 1)) = <<a, b>>[1] /\ tok(s, p + (2 - 1)) = <<a, b>>[2]
      /\ p + Len(<<a, b>>) <= Len(s) + 1
  BY <1>1, Zenon DEF Sits
<1> QED BY <1>1, <1>2, TwoTokens

\* and four.
LEMMA SitsFour ==
    ASSUME NEW s, NEW p \in Nat, NEW a, NEW b, NEW c, NEW d, Sits(s, p, <<a, b, c, d>>)
    PROVE  /\ tok(s, p) = a /\ tok(s, p + 1) = b /\ tok(s, p + 2) = c /\ tok(s, p + 3) = d
           /\ p + 4 <= Len(s) + 1
<1>1. \A k \in 1 .. 4 : k \in 1 .. Len(<<a, b, c, d>>)
  BY FourTokens
<1>2. p + (1 - 1) = p /\ p + (2 - 1) = p + 1 /\ p + (3 - 1) = p + 2 /\ p + (4 - 1) = p + 3
  OBVIOUS
<1>3. /\ tok(s, p + (1 - 1)) = <<a, b, c, d>>[1] /\ tok(s, p + (2 - 1)) = <<a, b, c, d>>[2]
      /\ tok(s, p + (3 - 1)) = <<a, b, c, d>>[3] /\ tok(s, p + (4 - 1)) = <<a, b, c, d>>[4]
      /\ p + Len(<<a, b, c, d>>) <= Len(s) + 1
  BY <1>1 DEF Sits
<1> QED BY <1>2, <1>3, FourTokens

\* A text in two parts.
LEMMA TextJoined ==
    ASSUME NEW S, NEW a \in Seq(S), NEW b \in Seq(S)
    PROVE  /\ a \o b \in Seq(S) /\ Len(a \o b) = Len(a) + Len(b) /\ Len(a) \in Nat /\ Len(b) \in Nat
           /\ (\A k \in 1 .. Len(a) : (a \o b)[k] = a[k])
           /\ (\A k \in 1 .. Len(b) : (a \o b)[Len(a) + k] = b[k])
OBVIOUS

\* Of a sequence in two parts that sits at a place, the second sits behind the first.
LEMMA SitsParts ==
    ASSUME NEW s, NEW p \in Nat, NEW S, NEW a \in Seq(S), NEW b \in Seq(S), Sits(s, p, a \o b), Len(s) \in Nat
    PROVE  /\ Sits(s, p, a) /\ Sits(s, p + Len(a), b) /\ p + Len(a) \in Nat
           /\ p + Len(a \o b) = (p + Len(a)) + Len(b)
<1> DEFINE n == Len(a)
           m == Len(b)
           c == a \o b
<1>1. Len(c) = n + m /\ n \in Nat /\ m \in Nat /\ (\A k \in 1 .. n : c[k] = a[k]) /\ (\A k \in 1 .. m : c[n + k] = b[k])
  <2>1. /\ Len(a \o b) = Len(a) + Len(b) /\ Len(a) \in Nat /\ Len(b) \in Nat
        /\ (\A k \in 1 .. Len(a) : (a \o b)[k] = a[k])
        /\ (\A k \in 1 .. Len(b) : (a \o b)[Len(a) + k] = b[k])
    OBVIOUS
  <2> QED BY <2>1
<1>2. p + Len(c) <= Len(s) + 1 /\ \A k \in 1 .. Len(c) : tok(s, p + (k - 1)) = c[k]
  BY DEF Sits
<1> HIDE DEF n, m, c
<1>3. p + (n + m) <= Len(s) + 1 /\ \A k \in 1 .. n + m : tok(s, p + (k - 1)) = c[k]
  BY <1>1, <1>2
<1>4. \A k \in 1 .. n : tok(s, p + (k - 1)) = a[k]
  BY <1>1, <1>3
<1>5. ASSUME NEW k \in 1 .. m PROVE tok(s, (p + n) + (k - 1)) = b[k]
  <2>1. n + k \in 1 .. n + m /\ p + ((n + k) - 1) = (p + n) + (k - 1)
    BY <1>1
  <2> QED BY <1>1, <1>3, <2>1
<1>6. p + n <= Len(s) + 1 /\ (p + n) + m <= Len(s) + 1 /\ p + n \in Nat /\ p + (n + m) = (p + n) + m
  BY <1>1, <1>3
<1>7. Sits(s, p, a)
  BY <1>4, <1>6 DEF Sits, n
<1>8. Sits(s, p + n, b)
  BY <1>5, <1>6 DEF Sits, n, m
<1> QED BY <1>1, <1>6, <1>7, <1>8 DEF n, m, c

\* A text is there in itself.
LEMMA SitsItself ==
    ASSUME NEW s \in Seq(STRING)
    PROVE  Sits(s, 1, s)
<1>1. Len(s) \in Nat /\ \A k \in 1 .. Len(s) : tok(s, k) = s[k]
  BY TokensAre
<1>2. \A k \in 1 .. Len(s) : 1 + (k - 1) = k
  OBVIOUS
<1> QED BY <1>1, <1>2 DEF Sits

\* A clause that is there, or is not.
LEMMA Clauses ==
    ASSUME NEW t
    PROVE  /\ \A here : here => Clause(here, t) = t
           /\ \A here : ~here => Clause(here, t) = <<>>
BY DEF Clause

\* A clause is its tokens or nothing.
LEMMA ClauseIn ==
    ASSUME NEW S, NEW t \in Seq(S), NEW here
    PROVE  Clause(here, t) \in Seq(S) /\ Len(Clause(here, t)) \in Nat
<1>1. <<>> \in Seq(S)
  BY NoTokens
<1>2. Clause(here, t) = t \/ Clause(here, t) = <<>>
  BY DEF Clause
<1>3. \A u \in Seq(S) : Len(u) \in Nat
  OBVIOUS
<1> HIDE DEF Clause
<1>4. Clause(here, t) \in Seq(S)
  BY <1>1, <1>2
<1> QED BY <1>3, <1>4

------------------------------------------------------------------------------
(* The items of a select list *)

\* The words of the language are no markers.
LEMMA PlainWords ==
    /\ \A t \in Reserved \cup OtherKeywords : t \in Unmarked
    /\ \A t \in {"*", "(", ")"} : t \in Unmarked
    /\ Comma \in Unmarked
    /\ "T" \in Unmarked
<1>1. \A t \in Reserved \cup OtherKeywords : t \in STRING /\ IsWord(t)
  BY WordsAre, WordsAssumption
<1>2. "param" \in Punctuation
  BY DEF Punctuation
<1>3. \A t \in Reserved \cup OtherKeywords : t # "param"
  BY <1>1, <1>2, WordsAre
<1>4. {"*", "(", ")", "param"} \subseteq STRING
  BY WordsAssumption DEF Punctuation, Arithmetic
<1>5. Comma \in Punctuation /\ Comma # "param"
  BY Zenon DEF Punctuation, Comma
<1>6. "T" \in STRING
  BY QueryConstants
<1>7. \A t \in STRING : t # "param" => t \in Unmarked
  BY DEF Unmarked
<1>8. "T" # "param" /\ \A t \in {"*", "(", ")"} : t # "param"
  OBVIOUS
<1>9. Comma \in STRING
  BY <1>5, WordsAssumption
<1> QED BY <1>1, <1>3, <1>4, <1>5, <1>6, <1>7, <1>8, <1>9

\* The same, one by one.
LEMMA AsIs == "AS" \in Unmarked /\ "COUNT" \in Unmarked /\ "NULL" \in Unmarked
BY PlainWords DEF Reserved, OtherKeywords

\* A number as it is written.
LEMMA NumeralIs ==
    ASSUME NEW n \in Written
    PROVE  /\ NumeralOf(n) \in DOMAIN Numerals /\ Numerals[NumeralOf(n)] = n /\ n \in Nat
           /\ NumeralOf(n) \in Unmarked
           /\ NumeralOf(n) \notin Punctuation /\ NumeralOf(n) \notin Reserved /\ NumeralOf(n) \notin OtherKeywords
           /\ ~IsWord(NumeralOf(n))
<1>1. \E t \in DOMAIN Numerals : Numerals[t] = n
  BY DEF Written
<1>2. NumeralOf(n) \in DOMAIN Numerals /\ Numerals[NumeralOf(n)] = n
  BY <1>1, Zenon DEF NumeralOf
<1>3. \A t \in DOMAIN Numerals : t \in STRING /\ Numerals[t] \in Nat /\ t \notin Punctuation /\ t \notin Reserved /\ t \notin OtherKeywords
  BY WordsAre
<1>4. \A t \in DOMAIN Numerals : ~IsWord(t)
  BY DEF IsWord, Symbols
<1>5. "param" \in Punctuation
  BY DEF Punctuation
<1> DEFINE t == NumeralOf(n)
<1> HIDE DEF t
<1>6. t \in DOMAIN Numerals /\ Numerals[t] = n
  BY <1>2 DEF t
<1>7. t # "param"
  BY <1>3, <1>5, <1>6
<1>8. t \in Unmarked
  BY <1>3, <1>6, <1>7 DEF Unmarked
<1>9. n \in Nat
  BY <1>3, <1>6
<1>10. ~IsWord(t) /\ t \notin Punctuation /\ t \notin Reserved /\ t \notin OtherKeywords
  BY <1>3, <1>4, <1>6
<1> QED BY <1>6, <1>8, <1>9, <1>10 DEF t

\* A word is no sign.
LEMMA WordIs ==
    ASSUME NEW t \in STRING, IsWord(t)
    PROVE  /\ t \in Unmarked /\ t \notin DOMAIN Numerals
           /\ t \notin {"*", "(", ")", "+", "-", "/", "end", "param"} /\ t # Comma
<1>1. t \notin Punctuation /\ t \notin DOMAIN Numerals
  BY DEF IsWord, Symbols
<1>2. t # Comma
  BY <1>1, Zenon DEF Punctuation, Comma
<1>3. t \notin {"*", "(", ")", "+", "-", "/", "end", "param"}
  BY <1>1 DEF Punctuation, Arithmetic
<1> QED BY <1>1, <1>2, <1>3 DEF Unmarked

\* A name is no word of the language.
LEMMA NameIs ==
    ASSUME NEW t \in STRING, IsName(t)
    PROVE  /\ IsWord(t)
           /\ t \notin {"TOP", "DISTINCT", "NULL", "FROM", "WHERE", "ORDER", "LIMIT", "OFFSET", "FETCH", "AS", "GROUP", "HAVING"}
BY DEF IsName, Reserved

\* What can stand behind an item.
Afters == {"FROM", "WHERE", "ORDER", "LIMIT", "OFFSET", "FETCH", "end", Comma}

\* What may follow an item or key is no name, sign or word that would continue it.
LEMMA AftersAre ==
    ASSUME NEW t \in Afters
    PROVE  ~IsName(t) /\ t \notin Arithmetic /\ t \notin {"AS", "(", "ASC", "DESC", "NULLS"}
<1>1. Comma \notin {"AS", "(", "ASC", "DESC", "NULLS", "+", "-", "*", "/"} /\ Comma \in Punctuation
  BY Zenon DEF Comma, Punctuation
<1>2. CASE t = Comma
  BY <1>1, <1>2, WordsAre DEF Arithmetic, IsName
<1>3. CASE t = "end"
  <2>1. ~IsName(t)
    BY <1>3 DEF IsName, IsWord, Symbols, Punctuation
  <2> QED BY <1>3, <2>1 DEF Arithmetic
<1>4. CASE t \in {"FROM", "WHERE", "ORDER", "LIMIT", "OFFSET", "FETCH"}
  BY <1>4 DEF IsName, Reserved, Arithmetic
<1> QED BY <1>2, <1>3, <1>4 DEF Afters

\* What an item of a select list can show.
IsShown(w) ==
    \/ w = Star
    \/ w = CountStar
    \/ w.kind = "Column" /\ w = Column(w.column) /\ w.column \in STRING /\ IsName(w.column)
    \/ w.kind = "Literal" /\ w = Literal(w.lit) /\ w.lit \in Written \cup {Null}

\* The spelling of what an item shows: up to four tokens, the first of which parse does
\* not take for TOP, DISTINCT or a parenthesis.
LEMMA ShownIs ==
    ASSUME NEW w, IsShown(w)
    PROVE  SpelledShown(w) \in Seq(Unmarked) /\ Len(SpelledShown(w)) \in 1 .. 4
           /\ SpelledShown(w)[1] \notin {"TOP", "DISTINCT", "("}
<1>1. CASE w = Star
  <2>1. SpelledShown(w) = <<"*">> /\ "*" \in Unmarked
    BY <1>1, PlainWords DEF SpelledShown, Star
  <2> QED BY <2>1, OneToken
<1>2. CASE w = CountStar
  <2>1. SpelledShown(w) = <<"COUNT", "(", "*", ")">> /\ "COUNT" \in Unmarked /\ "(" \in Unmarked /\ ")" \in Unmarked /\ "*" \in Unmarked
    BY <1>2, PlainWords, AsIs DEF SpelledShown, CountStar
  <2>2. /\ Len(<<"COUNT", "(", "*", ")">>) = 4 /\ <<"COUNT", "(", "*", ")">>[1] = "COUNT"
        /\ <<"COUNT", "(", "*", ")">> \in Seq(Unmarked)
    BY <2>1, FourTokens
  <2> QED BY <2>1, <2>2
<1>3. CASE w.kind = "Column" /\ w = Column(w.column) /\ w.column \in STRING /\ IsName(w.column)
  <2>1. SpelledShown(w) = <<w.column>>
    BY <1>3 DEF SpelledShown
  <2>2. w.column \in Unmarked /\ w.column \notin {"TOP", "DISTINCT", "("}
    BY <1>3, NameIs, WordIs
  <2> QED BY <2>1, <2>2, OneToken
<1>4. CASE w.kind = "Literal" /\ w = Literal(w.lit) /\ w.lit \in Written \cup {Null}
  <2> DEFINE t == IF w.lit = Null THEN "NULL" ELSE NumeralOf(w.lit)
  <2>1. SpelledShown(w) = <<t>>
    BY <1>4 DEF SpelledShown
  <2>2. CASE w.lit = Null
    BY <2>1, <2>2, AsIs, OneToken
  <2>3. CASE w.lit # Null
    <3>1. t \in Unmarked /\ t \notin Reserved /\ t \notin Punctuation
      BY <1>4, <2>3, NumeralIs
    <3>2. t \notin {"TOP", "DISTINCT", "("}
      BY <3>1 DEF Reserved, Punctuation
    <3> HIDE DEF t
    <3> QED BY <2>1, <3>1, <3>2, OneToken
  <2> QED BY <2>2, <2>3
<1> QED BY <1>1, <1>2, <1>3, <1>4 DEF IsShown

\* What an item shows is read as it was meant.
LEMMA ShownIsRead ==
    ASSUME NEW s \in Seq(STRING), NEW p \in Nat, NEW w, IsShown(w), Sits(s, p, SpelledShown(w)),
           tok(s, p + Len(SpelledShown(w))) # "("
    PROVE  parse_shown(s, p) = Read(p + Len(SpelledShown(w)), 0, w)
<1>1. CASE w = Star
  <2>1. SpelledShown(w) = <<"*">>
    BY <1>1 DEF SpelledShown, Star
  <2>2. tok(s, p) = "*" /\ Len(SpelledShown(w)) = 1
    BY <2>1, SitsOne, OneToken
  <2> QED BY <1>1, <2>2 DEF parse_shown
<1>2. CASE w = CountStar
  <2>1. SpelledShown(w) = <<"COUNT", "(", "*", ")">>
    BY <1>2 DEF SpelledShown, CountStar
  <2>2. /\ tok(s, p) = "COUNT" /\ tok(s, p + 1) = "(" /\ tok(s, p + 2) = "*" /\ tok(s, p + 3) = ")"
        /\ Len(SpelledShown(w)) = 4
    BY <2>1, SitsFour, FourTokens
  <2> QED BY <1>2, <2>2 DEF parse_shown
<1>3. CASE w.kind = "Column" /\ w = Column(w.column) /\ w.column \in STRING /\ IsName(w.column)
  <2>1. SpelledShown(w) = <<w.column>>
    BY <1>3 DEF SpelledShown
  <2>2. tok(s, p) = w.column /\ Len(SpelledShown(w)) = 1 /\ tok(s, p + 1) # "("
    BY <2>1, SitsOne, OneToken
  <2>3. IsWord(w.column) /\ w.column \notin DOMAIN Numerals /\ w.column \notin {"*", "+", "-", "NULL"}
    BY <1>3, NameIs, WordIs
  <2>4. ~is_literal_start(s, p)
    BY <2>2, <2>3 DEF is_literal_start
  <2> QED BY <1>3, <2>2, <2>3, <2>4 DEF parse_shown
<1>4. CASE w.kind = "Literal" /\ w = Literal(w.lit) /\ w.lit \in Written \cup {Null}
  <2> DEFINE t == IF w.lit = Null THEN "NULL" ELSE NumeralOf(w.lit)
  <2>1. SpelledShown(w) = <<t>>
    BY <1>4 DEF SpelledShown
  <2>2. tok(s, p) = t /\ Len(SpelledShown(w)) = 1
    BY <2>1, SitsOne, OneToken
  <2>3. CASE w.lit = Null
    <3>1. is_literal_start(s, p) /\ parse_literal(s, p, 0) = Read(p + 1, 0, w)
      BY <1>4, <2>2, <2>3 DEF is_literal_start, parse_literal
    <3> QED BY <2>2, <2>3, <3>1 DEF parse_shown
  <2>4. CASE w.lit # Null
    <3>1. t \in DOMAIN Numerals /\ Numerals[t] = w.lit /\ t \notin Reserved /\ t \notin Punctuation /\ t \notin OtherKeywords
      BY <1>4, <2>4, NumeralIs
    <3>2. t \notin {"NULL", "-", "+", "*", "COUNT"}
      BY <3>1 DEF Reserved, Punctuation, OtherKeywords, Arithmetic
    <3> HIDE DEF t
    <3>3. is_literal_start(s, p) /\ parse_literal(s, p, 0) = Read(p + 1, 0, Literal(w.lit))
      BY <2>2, <3>1, <3>2 DEF is_literal_start, parse_literal
    <3> QED BY <1>4, <2>2, <3>2, <3>3 DEF parse_shown
  <2> QED BY <2>3, <2>4
<1> QED BY <1>1, <1>2, <1>3, <1>4 DEF IsShown

\* The spelling of an item with its alias.
LEMMA ItemIs ==
    ASSUME NEW i, IsItem(i)
    PROVE  /\ IsShown(i.what) /\ i = Item(i.what, i.alias) /\ i.alias \in STRING /\ IsWord(i.alias)
           /\ SpelledItem(i) \in Seq(Unmarked) /\ Len(SpelledItem(i)) \in Nat /\ Len(SpelledItem(i)) >= 1
           /\ SpelledItem(i)[1] \notin {"TOP", "DISTINCT", "("}
<1>1. IsShown(i.what) /\ i = Item(i.what, i.alias) /\ i.alias \in STRING /\ IsWord(i.alias)
  BY Zenon DEF IsItem, IsShown
<1> DEFINE a == SpelledShown(i.what)
           b == Clause(i.alias # NoName, <<"AS", i.alias>>)
<1>2. a \in Seq(Unmarked) /\ Len(a) \in 1 .. 4 /\ a[1] \notin {"TOP", "DISTINCT", "("}
  BY <1>1, ShownIs
<1>3. "AS" \in Unmarked /\ i.alias \in Unmarked
  BY <1>1, WordIs, AsIs
<1>4. b \in Seq(Unmarked)
  BY <1>3, TwoTokens, ClauseIn
<1>5. SpelledItem(i) = a \o b
  BY DEF SpelledItem
<1> HIDE DEF a, b
<1>6. /\ a \o b \in Seq(Unmarked) /\ Len(a \o b) = Len(a) + Len(b) /\ Len(b) \in Nat
      /\ (\A k \in 1 .. Len(a) : (a \o b)[k] = a[k])
  BY <1>2, <1>4
<1> QED BY <1>1, <1>2, <1>5, <1>6

\* An item is read as it was meant.
LEMMA ItemIsRead ==
    ASSUME NEW s \in Seq(STRING), NEW p \in Nat, NEW i, IsItem(i), Sits(s, p, SpelledItem(i)),
           tok(s, p + Len(SpelledItem(i))) \in Afters
    PROVE  parse_item(s, p) = Read(p + Len(SpelledItem(i)), 0, i)
<1>1. IsShown(i.what) /\ i = Item(i.what, i.alias) /\ i.alias \in STRING /\ IsWord(i.alias)
  BY ItemIs
<1> DEFINE a == SpelledShown(i.what)
           b == Clause(i.alias # NoName, <<"AS", i.alias>>)
           q == p + Len(a)
<1>2. a \in Seq(STRING) /\ b \in Seq(STRING)
  <2>1. a \in Seq(Unmarked) /\ b \in Seq(Unmarked)
    <3>1. "AS" \in Unmarked /\ i.alias \in Unmarked
      BY <1>1, WordIs, AsIs
    <3> QED BY <1>1, <3>1, ShownIs, TwoTokens, ClauseIn
  <2> HIDE DEF a, b
  <2> QED BY <2>1 DEF Unmarked
<1>3. SpelledItem(i) = a \o b
  BY DEF SpelledItem
<1>4. Len(s) \in Nat
  BY TokensAre
<1>5. Sits(s, p, a) /\ Sits(s, q, b) /\ q \in Nat /\ p + Len(SpelledItem(i)) = q + Len(b)
  <2> HIDE DEF a, b
  <2>1. Sits(s, p, a \o b)
    BY <1>3
  <2> QED BY <1>2, <1>3, <1>4, <2>1, SitsParts
<1> HIDE DEF q
<1>6. CASE i.alias = NoName
  <2>1. b = <<>>
    BY <1>6 DEF Clause
  <2>2. q + Len(b) = q
    BY <1>5, <2>1, NoTokens
  <2>3. tok(s, q) \in Afters
    BY <1>5, <2>2
  <2>4. ~IsName(tok(s, q)) /\ tok(s, q) \notin Arithmetic /\ tok(s, q) # "AS" /\ tok(s, q) # "("
    BY <2>3, AftersAre
  <2>5. parse_shown(s, p) = Read(q, 0, i.what)
    BY <1>1, <1>5, <2>4, ShownIsRead DEF q
  <2> DEFINE r == parse_shown(s, p)
  <2>6. r.ok /\ r.p = q /\ r.v = i.what
    BY <2>5, ReadIs
  <2>7. parse_item(s, p) = Read(q, 0, Item(i.what, NoName))
    <3> HIDE DEF r
    <3>1. tok(s, r.p + 0) = tok(s, q)
      BY <1>5, <2>6
    <3>2. tok(s, r.p) = tok(s, q)
      BY <2>6
    <3> QED BY <2>4, <2>6, <3>1, <3>2 DEF parse_item, r
  <2> QED BY <1>1, <1>5, <1>6, <2>2, <2>7
<1>7. CASE i.alias # NoName
  <2>1. b = <<"AS", i.alias>>
    BY <1>7 DEF Clause
  <2>2. tok(s, q) = "AS" /\ tok(s, q + 1) = i.alias /\ Len(b) = 2
    BY <1>5, <2>1, SitsTwo, TwoTokens
  <2>3. parse_shown(s, p) = Read(q, 0, i.what)
    BY <1>1, <1>5, <2>2, ShownIsRead DEF q
  <2> DEFINE r == parse_shown(s, p)
  <2>4. r.ok /\ r.p = q /\ r.v = i.what
    BY <2>3, ReadIs
  <2>5. parse_item(s, p) = Read((q + 1) + 1, 0, Item(i.what, i.alias))
    <3> HIDE DEF r
    <3>1. "AS" \notin Arithmetic
      BY DEF Arithmetic
    <3> QED BY <1>1, <2>2, <2>4, <3>1, Zenon DEF parse_item, r
  <2>6. (q + 1) + 1 = q + Len(b)
    <3>1. q \in Nat
      BY <1>5
    <3>2. Len(b) = 2
      BY <2>2
    <3> HIDE DEF b
    <3> QED BY <3>1, <3>2
  <2> QED BY <1>1, <1>5, <2>5, <2>6
<1> QED BY <1>6, <1>7

------------------------------------------------------------------------------
(* Parts with commas between them *)

JoinStep(j, part) == j \o <<Comma>> \o part

\* The texts of the first parts.
IsJoined(f, parts, m) == f = [k \in 1 .. m |-> IF k = 1 THEN parts[1] ELSE JoinStep(f[k - 1], parts[k])]

\* The sequence of parts joined by commas exists, up to any number of parts.
LEMMA JoinedExist ==
    ASSUME NEW parts, NEW top \in Nat \ {0}
    PROVE  \E f : IsJoined(f, parts, top)
<1> DEFINE T == {m \in 0 .. top - 1 : \E f : IsJoined(f, parts, m + 1)}
<1>1. 0 \in T
  <2> DEFINE f == [k \in 1 .. 1 |-> parts[1]]
  <2>1. f = [k \in 1 .. 1 |-> IF k = 1 THEN parts[1] ELSE JoinStep(f[k - 1], parts[k])]
    OBVIOUS
  <2>2. IsJoined(f, parts, 1)
    BY <2>1, Zenon DEF IsJoined
  <2>3. 0 + 1 = 1 /\ 0 \in 0 .. top - 1
    OBVIOUS
  <2> QED BY <2>2, <2>3
<1>2. ASSUME NEW m \in 1 .. top - 1, m - 1 \in T PROVE m \in T
  <2>0. (m - 1) + 1 = m
    OBVIOUS
  <2>1. PICK f : IsJoined(f, parts, m)
    BY <1>2, <2>0
  <2> DEFINE g == [k \in 1 .. m + 1 |-> IF k = 1 THEN parts[1] ELSE JoinStep(f[k - 1], parts[k])]
  <2>2. \A k \in 1 .. m : k \in 1 .. m + 1 /\ g[k] = f[k]
    BY <2>1 DEF IsJoined
  <2>3. \A k \in 1 .. m + 1 : k # 1 => g[k - 1] = f[k - 1]
    <3>1. \A k \in 1 .. m + 1 : k # 1 => k - 1 \in 1 .. m
      OBVIOUS
    <3> HIDE DEF g
    <3> QED BY <2>2, <3>1
  <2>4. \A k \in 1 .. m + 1 : (IF k = 1 THEN parts[1] ELSE JoinStep(f[k - 1], parts[k])) = (IF k = 1 THEN parts[1] ELSE JoinStep(g[k - 1], parts[k]))
    <3> HIDE DEF g
    <3> QED BY <2>3, Zenon
  <2>5. g = [k \in 1 .. m + 1 |-> IF k = 1 THEN parts[1] ELSE JoinStep(g[k - 1], parts[k])]
    BY <2>4, Zenon
  <2> HIDE DEF g
  <2>6. IsJoined(g, parts, m + 1)
    BY <2>5, Zenon DEF IsJoined
  <2>7. m \in 0 .. top - 1
    OBVIOUS
  <2> QED BY <2>6, <2>7
<1>3. top - 1 \in T
  <2>1. top - 1 \in Nat
    OBVIOUS
  <2> HIDE DEF T
  <2> QED BY <1>1, <1>2, <2>1, InductionUpTo
<1>4. (top - 1) + 1 = top
  OBVIOUS
<1> QED BY <1>3, <1>4

\* The same texts are what the definition of Commas says.
LEMMA CommasAre ==
    ASSUME NEW parts, Len(parts) \in Nat \ {0}
    PROVE  \E f : /\ Commas(parts) = f[Len(parts)] /\ f[1] = parts[1]
                  /\ \A k \in 2 .. Len(parts) : f[k] = JoinStep(f[k - 1], parts[k])
<1>0. \E f : IsJoined(f, parts, Len(parts))
  BY JoinedExist
<1> DEFINE f == CHOOSE f : f = [k \in 1 .. Len(parts) |-> IF k = 1 THEN parts[1] ELSE JoinStep(f[k - 1], parts[k])]
<1>1. IsJoined(f, parts, Len(parts))
  BY <1>0, Zenon DEF IsJoined
<1>2. Commas(parts) = f[Len(parts)]
  BY Zenon DEF Commas, JoinStep, Comma
<1> HIDE DEF f
<1>3. f = [k \in 1 .. Len(parts) |-> IF k = 1 THEN parts[1] ELSE JoinStep(f[k - 1], parts[k])]
  BY <1>1, Zenon DEF IsJoined
<1>4. f[1] = parts[1]
  BY <1>3
<1>5. \A k \in 2 .. Len(parts) : f[k] = JoinStep(f[k - 1], parts[k])
  BY <1>3
<1> QED BY <1>2, <1>4, <1>5

\* The parts stand at these places.
Starts(s, p, parts, at) ==
    /\ at[1] = p
    /\ \A k \in 1 .. Len(parts) : at[k] \in Nat /\ Sits(s, at[k], parts[k])
    /\ \A k \in 1 .. Len(parts) - 1 : tok(s, at[k] + Len(parts[k])) = Comma /\ at[k + 1] = (at[k] + Len(parts[k])) + 1
    /\ at[Len(parts)] + Len(parts[Len(parts)]) = p + Len(Commas(parts))
    /\ Len(parts) <= Len(s)

\* Parts joined by commas that sit at a place sit one behind the other, a comma between.
LEMMA CommasSit ==
    ASSUME NEW parts, Len(parts) \in Nat \ {0}, \A k \in 1 .. Len(parts) : parts[k] \in Seq(Unmarked) /\ Len(parts[k]) >= 1
    PROVE  /\ Commas(parts) \in Seq(Unmarked)
           /\ \A s \in Seq(STRING), p \in Nat \ {0} : Sits(s, p, Commas(parts)) => \E at : Starts(s, p, parts, at)
<1> DEFINE n == Len(parts)
<1>1. PICK f : /\ Commas(parts) = f[n] /\ f[1] = parts[1]
              /\ \A k \in 2 .. n : f[k] = JoinStep(f[k - 1], parts[k])
  BY CommasAre
<1>0. n \in Nat /\ n >= 1
  OBVIOUS
<1>2. <<Comma>> \in Seq(Unmarked) /\ Len(<<Comma>>) = 1
  BY PlainWords, OneToken
<1>p. \A k \in 1 .. n : parts[k] \in Seq(Unmarked) /\ Len(parts[k]) \in Nat /\ Len(parts[k]) >= 1
  <2>1. \A t \in Seq(Unmarked) : Len(t) \in Nat
    OBVIOUS
  <2> QED BY <2>1
<1> HIDE DEF n
<1> DEFINE Good(k) == f[k] \in Seq(Unmarked) /\ Len(f[k]) \in Nat /\ Len(f[k]) >= k
           T == {k \in 0 .. n - 1 : Good(k + 1)}
<1>3. \A a, b \in Seq(Unmarked) : a \o b \in Seq(Unmarked) /\ Len(a \o b) = Len(a) + Len(b) /\ Len(a) \in Nat
  OBVIOUS
<1>4. \A a, b \in Seq(Unmarked) : JoinStep(a, b) \in Seq(Unmarked) /\ Len(JoinStep(a, b)) = (Len(a) + 1) + Len(b)
  <2> TAKE a, b \in Seq(Unmarked)
  <2> DEFINE c == <<Comma>>
  <2>1. c \in Seq(Unmarked) /\ Len(c) = 1
    BY <1>2
  <2> HIDE DEF c
  <2>2. a \o c \in Seq(Unmarked) /\ Len(a \o c) = Len(a) + 1
    <3>1. a \in Seq(Unmarked) /\ c \in Seq(Unmarked)
      BY <2>1
    <3>2. a \o c \in Seq(Unmarked) /\ Len(a \o c) = Len(a) + Len(c)
      BY <1>3, <3>1
    <3> QED BY <2>1, <3>2
  <2>3. (a \o c) \o b \in Seq(Unmarked) /\ Len((a \o c) \o b) = Len(a \o c) + Len(b)
    BY <1>3, <2>2
  <2> QED BY <2>2, <2>3 DEF JoinStep, c
<1>5. 0 \in T
  <2>1. Good(1)
    BY <1>0, <1>1, <1>p
  <2> HIDE DEF Good
  <2> QED BY <1>0, <2>1
<1>6. ASSUME NEW k \in 1 .. n - 1, k - 1 \in T PROVE k \in T
  <2>1. (k - 1) + 1 = k /\ k + 1 \in 2 .. n /\ k + 1 \in 1 .. n /\ (k + 1) - 1 = k /\ k \in 0 .. n - 1
    BY <1>0
  <2>2. Good(k)
    <3> HIDE DEF Good
    <3> QED BY <1>6, <2>1
  <2>3. f[k + 1] = JoinStep(f[k], parts[k + 1])
    BY <1>1, <2>1
  <2>4. parts[k + 1] \in Seq(Unmarked) /\ Len(parts[k + 1]) \in Nat /\ Len(parts[k + 1]) >= 1
    BY <1>p, <2>1
  <2> DEFINE a == f[k]
             b == parts[k + 1]
  <2>5. JoinStep(a, b) \in Seq(Unmarked) /\ Len(JoinStep(a, b)) = (Len(a) + 1) + Len(b)
    BY <1>4, <2>2, <2>4
  <2>6. a \in Seq(Unmarked) /\ Len(a) \in Nat /\ Len(a) >= k /\ Len(b) \in Nat /\ Len(b) >= 1
    BY <2>2, <2>4
  <2> HIDE DEF a, b
  <2>7. Len(JoinStep(a, b)) \in Nat /\ Len(JoinStep(a, b)) >= k + 1
    <3> DEFINE x == Len(a)
               y == Len(b)
    <3>1. x \in Nat /\ x >= k /\ y \in Nat /\ y >= 1 /\ Len(JoinStep(a, b)) = (x + 1) + y
      BY <2>5, <2>6
    <3> HIDE DEF x, y
    <3> QED BY <3>1
  <2>8. Good(k + 1)
    BY <2>3, <2>5, <2>7 DEF a, b
  <2> HIDE DEF Good
  <2> QED BY <2>1, <2>8
<1>7. \A k \in 1 .. n : Good(k)
  <2>1. \A k \in 0 .. n - 1 : k \in T
    <3> HIDE DEF T
    <3>1. n - 1 \in Nat
      BY <1>0
    <3> QED BY <1>5, <1>6, <3>1, InductionUpTo
  <2>2. \A k \in 1 .. n : k - 1 \in 0 .. n - 1 /\ (k - 1) + 1 = k
    BY <1>0
  <2> HIDE DEF Good
  <2> QED BY <2>1, <2>2
<1>8. Commas(parts) \in Seq(Unmarked)
  BY <1>0, <1>1, <1>7
<1>9. ASSUME NEW s \in Seq(STRING), NEW p \in Nat \ {0}, Sits(s, p, Commas(parts))
      PROVE  \E at : Starts(s, p, parts, at)
  <2>0. Len(s) \in Nat
    BY TokensAre
  <2> DEFINE at == [k \in 1 .. n |-> IF k = 1 THEN p ELSE (p + Len(f[k - 1])) + 1]
             Here(k) == Sits(s, p, f[k])
             R == {k \in 0 .. n - 1 : Here(n - k)}
  <2>step. ASSUME NEW k \in 2 .. n, Here(k)
           PROVE  /\ Here(k - 1) /\ tok(s, p + Len(f[k - 1])) = Comma
                  /\ Sits(s, (p + Len(f[k - 1])) + 1, parts[k])
                  /\ ((p + Len(f[k - 1])) + 1) + Len(parts[k]) = p + Len(f[k])
    <3> DEFINE a == f[k - 1]
               b == parts[k]
               c == <<Comma>>
               d == a \o c
    <3>1. k - 1 \in 1 .. n /\ k \in 1 .. n
      BY <1>0
    <3>2. a \in Seq(Unmarked) /\ b \in Seq(Unmarked) /\ c \in Seq(Unmarked) /\ Len(c) = 1
      BY <1>2, <1>7, <1>p, <3>1
    <3>3. f[k] = d \o b
      BY <1>1 DEF JoinStep
    <3>4. Sits(s, p, d \o b)
      BY <3>3, <2>step
    <3> HIDE DEF a, b, c
    <3>5. d \in Seq(Unmarked) /\ Len(d) = Len(a) + 1 /\ Len(a) \in Nat
      BY <1>3, <3>2
    <3> HIDE DEF d
    <3>6. Sits(s, p, d) /\ Sits(s, p + Len(d), b) /\ p + Len(d \o b) = (p + Len(d)) + Len(b)
      <4>1. p \in Nat
        OBVIOUS
      <4>2. d \in Seq(Unmarked) /\ b \in Seq(Unmarked)
        BY <3>2, <3>5
      <4>3. Sits(s, p, d \o b)
        BY <3>4
      <4> QED BY <2>0, <4>1, <4>2, <4>3, SitsParts
    <3>7. Sits(s, p, a) /\ Sits(s, p + Len(a), c) /\ p + Len(a) \in Nat
      <4>1. Sits(s, p, a \o c)
        BY <3>6 DEF d
      <4> QED BY <2>0, <3>2, <4>1, SitsParts
    <3>8. tok(s, p + Len(a)) = Comma
      <4>1. Sits(s, p + Len(a), <<Comma>>)
        BY <3>7 DEF c
      <4> QED BY <3>7, <4>1, SitsOne
    <3>9. p + Len(d) = (p + Len(a)) + 1
      <4> DEFINE x == Len(a)
      <4>1. x \in Nat /\ Len(d) = x + 1
        BY <3>5
      <4> HIDE DEF x
      <4>2. p + Len(d) = (p + x) + 1
        BY <4>1
      <4> QED BY <4>2 DEF x
    <3>10. Sits(s, (p + Len(a)) + 1, b) /\ ((p + Len(a)) + 1) + Len(b) = p + Len(d \o b)
      BY <3>6, <3>9
    <3> QED BY <3>3, <3>7, <3>8, <3>10 DEF a, b
  <2>1. 0 \in R
    <3>1. Here(n) /\ n - 0 = n /\ 0 \in 0 .. n - 1
      BY <1>0, <1>1, <1>9
    <3> HIDE DEF Here
    <3> QED BY <3>1
  <2>2. ASSUME NEW k \in 1 .. n - 1, k - 1 \in R PROVE k \in R
    <3>1. n - (k - 1) \in 2 .. n /\ (n - (k - 1)) - 1 = n - k /\ k \in 0 .. n - 1
      BY <1>0
    <3>2. Here(n - (k - 1))
      <4> HIDE DEF Here
      <4> QED BY <2>2
    <3>3. Here((n - (k - 1)) - 1)
      <4> DEFINE j == n - (k - 1)
      <4>1. j \in 2 .. n /\ Here(j)
        BY <3>1, <3>2
      <4> HIDE DEF j, Here
      <4>2. Here(j - 1)
        BY <4>1, <2>step
      <4> QED BY <4>2 DEF j
    <3> HIDE DEF Here
    <3> QED BY <3>1, <3>3
  <2>3. \A k \in 1 .. n : Here(k)
    <3>1. \A k \in 0 .. n - 1 : k \in R
      <4> HIDE DEF R
      <4>1. n - 1 \in Nat
        BY <1>0
      <4> QED BY <2>1, <2>2, <4>1, InductionUpTo
    <3>2. \A k \in 1 .. n : n - k \in 0 .. n - 1 /\ n - (n - k) = k
      BY <1>0
    <3> HIDE DEF Here
    <3> QED BY <3>1, <3>2
  <2>4. at[1] = p
    BY <1>0
  <2>5. \A k \in 2 .. n : at[k] = (p + Len(f[k - 1])) + 1
    OBVIOUS
  <2> HIDE DEF at, R
  <2>6. ASSUME NEW k \in 2 .. n
        PROVE  /\ at[k] \in Nat /\ Sits(s, at[k], parts[k]) /\ tok(s, p + Len(f[k - 1])) = Comma
               /\ at[k] + Len(parts[k]) = p + Len(f[k])
    <3>1. Here(k)
      <4> HIDE DEF Here
      <4>1. k \in 1 .. n
        BY <1>0
      <4> QED BY <2>3, <4>1
    <3>2. /\ tok(s, p + Len(f[k - 1])) = Comma
          /\ Sits(s, (p + Len(f[k - 1])) + 1, parts[k])
          /\ ((p + Len(f[k - 1])) + 1) + Len(parts[k]) = p + Len(f[k])
      <4> HIDE DEF Here
      <4> QED BY <2>step, <3>1
    <3>3. Len(f[k - 1]) \in Nat
      <4>1. k - 1 \in 1 .. n
        BY <1>0
      <4> QED BY <1>7, <4>1
    <3>4. (p + Len(f[k - 1])) + 1 \in Nat
      <4> DEFINE x == Len(f[k - 1])
      <4>1. x \in Nat
        BY <3>3
      <4> HIDE DEF x
      <4>2. (p + x) + 1 \in Nat
        BY <4>1
      <4> QED BY <4>2 DEF x
    <3> QED BY <2>5, <3>2, <3>4
  <2>7. Sits(s, p, parts[1]) /\ p + Len(parts[1]) = p + Len(f[1])
    <3>1. Here(1)
      <4> HIDE DEF Here
      <4> QED BY <1>0, <2>3
    <3> QED BY <1>1, <3>1
  <2>8. \A k \in 1 .. n : at[k] \in Nat /\ Sits(s, at[k], parts[k]) /\ at[k] + Len(parts[k]) = p + Len(f[k])
    <3>1. \A k \in 1 .. n : k = 1 \/ k \in 2 .. n
      BY <1>0
    <3>2. p \in Nat
      OBVIOUS
    <3>3. at[1] \in Nat /\ Sits(s, at[1], parts[1]) /\ at[1] + Len(parts[1]) = p + Len(f[1])
      BY <2>4, <2>7, <3>2
    <3> HIDE DEF Here
    <3> QED BY <2>6, <3>1, <3>3
  <2>9. \A k \in 1 .. n - 1 : tok(s, at[k] + Len(parts[k])) = Comma /\ at[k + 1] = (at[k] + Len(parts[k])) + 1
    <3> TAKE k \in 1 .. n - 1
    <3>1. k + 1 \in 2 .. n /\ (k + 1) - 1 = k /\ k \in 1 .. n
      BY <1>0
    <3>2. tok(s, p + Len(f[k])) = Comma
      BY <2>6, <3>1
    <3>3. at[k + 1] = (p + Len(f[k])) + 1
      BY <2>5, <3>1
    <3>4. at[k] + Len(parts[k]) = p + Len(f[k])
      BY <2>8, <3>1
    <3> QED BY <3>2, <3>3, <3>4
  <2>10. at[n] + Len(parts[n]) = p + Len(Commas(parts))
    BY <1>0, <1>1, <2>8
  <2>11. n <= Len(s)
    <3> DEFINE x == Len(Commas(parts))
    <3>1. p + x <= Len(s) + 1
      BY <1>9 DEF Sits
    <3>2. x \in Nat /\ x >= n
      BY <1>0, <1>1, <1>7
    <3> HIDE DEF x
    <3> QED BY <1>0, <2>0, <3>1, <3>2
  <2>12. Starts(s, p, parts, at)
    <3> HIDE DEF Here
    <3> QED BY <2>4, <2>8, <2>9, <2>10, <2>11, Zenon DEF Starts, n
  <2> QED BY <2>12
<1> QED BY <1>8, <1>9

------------------------------------------------------------------------------
(* The statement that was read so far *)

Stmt(items, from, where, order_by, limit, offset) ==
    [items |-> items, from |-> from, where |-> where, order_by |-> order_by, limit |-> limit, offset |-> offset]

\* The fields of a statement under construction, and what each assignment of the parser changes.
LEMMA StmtIs ==
    ASSUME NEW items, NEW from, NEW where, NEW order_by, NEW limit, NEW offset
    PROVE  /\ Stmt(items, from, where, order_by, limit, offset).items = items
           /\ Stmt(items, from, where, order_by, limit, offset).order_by = order_by
           /\ \A x : [Stmt(items, from, where, order_by, limit, offset) EXCEPT !.items = x] = Stmt(x, from, where, order_by, limit, offset)
           /\ \A x : [Stmt(items, from, where, order_by, limit, offset) EXCEPT !.from = x] = Stmt(items, x, where, order_by, limit, offset)
           /\ \A x : [Stmt(items, from, where, order_by, limit, offset) EXCEPT !.where = x] = Stmt(items, from, x, order_by, limit, offset)
           /\ \A x : [Stmt(items, from, where, order_by, limit, offset) EXCEPT !.order_by = x] = Stmt(items, from, where, x, limit, offset)
           /\ \A x : [Stmt(items, from, where, order_by, limit, offset) EXCEPT !["limit"] = x] = Stmt(items, from, where, order_by, x, offset)
           /\ \A x : [Stmt(items, from, where, order_by, limit, offset) EXCEPT !["offset"] = x] = Stmt(items, from, where, order_by, limit, x)
BY DEF Stmt

\* The first elements of a sequence.
Firsts(q, k) == [i \in 1 .. k |-> q[i]]

\* Beginnings of a sequence, each the one before and one more member.
LEMMA FirstsAre ==
    ASSUME NEW q, IsSequence(q)
    PROVE  /\ \A k \in 0 .. Len(q) - 1 : Append(Firsts(q, k), q[k + 1]) = Firsts(q, k + 1)
           /\ Firsts(q, 0) = <<>>
           /\ Firsts(q, Len(q)) = q
           /\ DOMAIN q = 1 .. Len(q)
<1>0. Len(q) \in Nat /\ q = [i \in 1 .. Len(q) |-> q[i]]
  BY DEF IsSequence
<1> DEFINE n == Len(q)
<1> HIDE DEF n
<1>1. Firsts(q, Len(q)) = q /\ DOMAIN q = 1 .. Len(q)
  BY <1>0 DEF Firsts
<1>2. Firsts(q, 0) = <<>>
  BY DEF Firsts
<1>3. ASSUME NEW k \in 0 .. Len(q) - 1 PROVE Append(Firsts(q, k), q[k + 1]) = Firsts(q, k + 1)
  <2>0. k \in Nat /\ k + 1 \in Nat
    BY <1>0
  <2> DEFINE S == {q[i] : i \in 1 .. k + 1}
             f == Firsts(q, k)
             g == Firsts(q, k + 1)
  <2>1. f \in Seq(S) /\ Len(f) = k /\ (\A i \in 1 .. k : f[i] = q[i])
    BY <2>0 DEF Firsts
  <2>2. q[k + 1] \in S
    BY <2>0
  <2>3. g \in Seq(S) /\ Len(g) = k + 1 /\ (\A i \in 1 .. k + 1 : g[i] = q[i])
    BY <2>0 DEF Firsts
  <2> HIDE DEF f, g, S
  <2> DEFINE h == Append(f, q[k + 1])
  <2>4. h \in Seq(S) /\ Len(h) = k + 1 /\ (\A i \in 1 .. k : h[i] = f[i]) /\ h[k + 1] = q[k + 1]
    BY <2>0, <2>1, <2>2
  <2> HIDE DEF h
  <2>5. \A i \in 1 .. k + 1 : h[i] = g[i]
    <3>1. \A i \in 1 .. k + 1 : i \in 1 .. k \/ i = k + 1
      BY <2>0
    <3> QED BY <2>0, <2>1, <2>3, <2>4, <3>1
  <2>6. h = g
    <3>1. h = [i \in 1 .. k + 1 |-> h[i]] /\ g = [i \in 1 .. k + 1 |-> g[i]]
      BY <2>3, <2>4
    <3> QED BY <2>5, <3>1
  <2> QED BY <2>6 DEF f, g, h
<1> QED BY <1>1, <1>2, <1>3

\* Adding an item to a statement, and adding a key.
LEMMA WithItemIs ==
    ASSUME NEW p, NEW n, NEW items, NEW from, NEW where, NEW order_by, NEW limit, NEW offset, NEW q, NEW m, NEW i
    PROVE  /\ WithItem(Read(p, n, Stmt(items, from, where, order_by, limit, offset)), Read(q, m, i))
                = Read(q, n, Stmt(Append(items, i), from, where, order_by, limit, offset))
           /\ WithKey(Read(p, n, Stmt(items, from, where, order_by, limit, offset)), Read(q, m, i))
                = Read(q, n, Stmt(items, from, where, Append(order_by, i), limit, offset))
<1> DEFINE st == Stmt(items, from, where, order_by, limit, offset)
           r == Read(p, n, st)
           k == Read(q, m, i)
<1>1. r.ok /\ r.v = st /\ r.n = n /\ k.ok /\ k.p = q /\ k.v = i
  BY ReadIs
<1>2. st.items = items /\ st.order_by = order_by
  BY DEF Stmt
<1>5. \A x : [st EXCEPT !.items = x] = Stmt(x, from, where, order_by, limit, offset)
  BY DEF Stmt
<1>6. \A x : [st EXCEPT !.order_by = x] = Stmt(items, from, where, x, limit, offset)
  BY DEF Stmt
<1> HIDE DEF st, r, k
<1>3. WithItem(r, k) = Read(q, n, [st EXCEPT !.items = Append(items, i)])
  BY <1>1, <1>2 DEF WithItem
<1>4. WithKey(r, k) = Read(q, n, [st EXCEPT !.order_by = Append(order_by, i)])
  BY <1>1, <1>2 DEF WithKey
<1> QED BY <1>3, <1>4, <1>5, <1>6 DEF r, k, st

\* A number is read as the limit.
LEMMA LimitIntIsRead ==
    ASSUME NEW s, NEW p, NEW n, NEW items, NEW from, NEW where, NEW order_by, NEW limit, NEW offset, NEW x \in Written,
           tok(s, p) = NumeralOf(x)
    PROVE  parse_int(s, Read(p, n, Stmt(items, from, where, order_by, limit, offset)), "limit")
             = Read(p + 1, n, Stmt(items, from, where, order_by, x, offset))
<1> DEFINE st == Stmt(items, from, where, order_by, limit, offset)
           r == Read(p, n, st)
           t == NumeralOf(x)
<1>1. r.ok /\ r.v = st /\ r.n = n /\ r.p = p
  BY ReadIs
<1>2. t \in DOMAIN Numerals /\ Numerals[t] = x
  BY NumeralIs
<1>3. [st EXCEPT !["limit"] = x] = Stmt(items, from, where, order_by, x, offset)
  BY StmtIs
<1>4. tok(s, r.p) = t
  BY <1>1
<1> HIDE DEF st, r, t
<1>5. parse_int(s, r, "limit") = Read(p + 1, n, [st EXCEPT !["limit"] = x])
  BY <1>1, <1>2, <1>4 DEF parse_int
<1> QED BY <1>3, <1>5 DEF st, r

\* A number is read as the offset.
LEMMA OffsetIntIsRead ==
    ASSUME NEW s, NEW p, NEW n, NEW items, NEW from, NEW where, NEW order_by, NEW limit, NEW offset, NEW x \in Written,
           tok(s, p) = NumeralOf(x)
    PROVE  parse_int(s, Read(p, n, Stmt(items, from, where, order_by, limit, offset)), "offset")
             = Read(p + 1, n, Stmt(items, from, where, order_by, limit, x))
<1> DEFINE st == Stmt(items, from, where, order_by, limit, offset)
           r == Read(p, n, st)
           t == NumeralOf(x)
<1>1. r.ok /\ r.v = st /\ r.n = n /\ r.p = p
  BY ReadIs
<1>2. t \in DOMAIN Numerals /\ Numerals[t] = x
  BY NumeralIs
<1>3. [st EXCEPT !["offset"] = x] = Stmt(items, from, where, order_by, limit, x)
  BY StmtIs
<1>4. tok(s, r.p) = t
  BY <1>1
<1> HIDE DEF st, r, t
<1>5. parse_int(s, r, "offset") = Read(p + 1, n, [st EXCEPT !["offset"] = x])
  BY <1>1, <1>2, <1>4 DEF parse_int
<1> QED BY <1>3, <1>5 DEF st, r

------------------------------------------------------------------------------
(* The select list and the keys of ORDER BY *)

ItemStep(s, l) == IF l.ok /\ tok(s, l.p) = Comma THEN WithItem(l, parse_item(s, l.p + 1)) ELSE l

\* The rounds of the select list.
IsItemRounds(f, s, r, m) == f = [k \in 0 .. m |-> IF k = 0 THEN WithItem(r, parse_item(s, r.p)) ELSE ItemStep(s, f[k - 1])]

\* The rounds of parse_items exist, up to any number of them,
LEMMA ItemRoundsExist ==
    ASSUME NEW s, NEW r, NEW top \in Nat
    PROVE  \E f : IsItemRounds(f, s, r, top)
<1> DEFINE T == {m \in 0 .. top : \E f : IsItemRounds(f, s, r, m)}
<1>1. 0 \in T
  <2> DEFINE f == [k \in 0 .. 0 |-> WithItem(r, parse_item(s, r.p))]
  <2>1. f = [k \in 0 .. 0 |-> IF k = 0 THEN WithItem(r, parse_item(s, r.p)) ELSE ItemStep(s, f[k - 1])]
    OBVIOUS
  <2>2. IsItemRounds(f, s, r, 0)
    BY <2>1, Zenon DEF IsItemRounds
  <2> QED BY <2>2
<1>2. ASSUME NEW m \in 1 .. top, m - 1 \in T PROVE m \in T
  <2>1. PICK f : IsItemRounds(f, s, r, m - 1)
    BY <1>2
  <2> DEFINE g == [k \in 0 .. m |-> IF k = 0 THEN WithItem(r, parse_item(s, r.p)) ELSE ItemStep(s, f[k - 1])]
  <2>2. \A k \in 0 .. m - 1 : k \in 0 .. m /\ g[k] = f[k]
    BY <2>1 DEF IsItemRounds
  <2>3. \A k \in 0 .. m : k # 0 => g[k - 1] = f[k - 1]
    <3>1. \A k \in 0 .. m : k # 0 => k - 1 \in 0 .. m - 1
      OBVIOUS
    <3> HIDE DEF g
    <3> QED BY <2>2, <3>1
  <2>4. \A k \in 0 .. m : (IF k = 0 THEN WithItem(r, parse_item(s, r.p)) ELSE ItemStep(s, f[k - 1])) = (IF k = 0 THEN WithItem(r, parse_item(s, r.p)) ELSE ItemStep(s, g[k - 1]))
    <3> HIDE DEF g
    <3> QED BY <2>3, Zenon
  <2>5. g = [k \in 0 .. m |-> IF k = 0 THEN WithItem(r, parse_item(s, r.p)) ELSE ItemStep(s, g[k - 1])]
    BY <2>4, Zenon
  <2> HIDE DEF g
  <2>6. IsItemRounds(g, s, r, m)
    BY <2>5, Zenon DEF IsItemRounds
  <2> QED BY <2>6
<1> HIDE DEF T
<1>3. top \in T
  BY <1>1, <1>2, InductionUpTo
<1> QED BY <1>3 DEF T

\* They are what their definition says.
LEMMA ItemRoundsAre ==
    ASSUME NEW s, NEW r, Len(s) \in Nat
    PROVE  /\ ItemRounds(s, r)[0] = WithItem(r, parse_item(s, r.p))
           /\ \A k \in 1 .. Len(s) : ItemRounds(s, r)[k] = ItemStep(s, ItemRounds(s, r)[k - 1])
<1>1. \E f : IsItemRounds(f, s, r, Len(s))
  BY ItemRoundsExist
<1>2. IsItemRounds(ItemRounds(s, r), s, r, Len(s))
  BY <1>1, Zenon DEF ItemRounds, IsItemRounds, ItemStep, Comma
<1> DEFINE f == ItemRounds(s, r)
<1>3. f = [k \in 0 .. Len(s) |-> IF k = 0 THEN WithItem(r, parse_item(s, r.p)) ELSE ItemStep(s, f[k - 1])]
  BY <1>2, Zenon DEF IsItemRounds
<1> HIDE DEF f
<1>4. f[0] = WithItem(r, parse_item(s, r.p))
  BY <1>3
<1>5. \A k \in 1 .. Len(s) : f[k] = ItemStep(s, f[k - 1])
  BY <1>3
<1> QED BY <1>4, <1>5 DEF f

\* A round that changes nothing is the last.
LEMMA ItemRoundsStay ==
    ASSUME NEW s, NEW r, Len(s) \in Nat, NEW m \in 0 .. Len(s), ItemStep(s, ItemRounds(s, r)[m]) = ItemRounds(s, r)[m]
    PROVE  ItemRounds(s, r)[Len(s)] = ItemRounds(s, r)[m]
<1> DEFINE R == ItemRounds(s, r)
           T == {k \in 0 .. Len(s) - m : R[m + k] = R[m]}
<1>0. Len(s) \in Nat
  OBVIOUS
<1> USE <1>0
<1>1. \A k \in 1 .. Len(s) : R[k] = ItemStep(s, R[k - 1])
  BY ItemRoundsAre
<1>2. ItemStep(s, R[m]) = R[m]
  OBVIOUS
<1> HIDE DEF R
<1>3. 0 \in T
  OBVIOUS
<1>4. ASSUME NEW k \in 1 .. Len(s) - m, k - 1 \in T PROVE k \in T
  <2>1. R[m + (k - 1)] = R[m] /\ m + k \in 1 .. Len(s) /\ (m + k) - 1 = m + (k - 1)
    BY <1>4
  <2>2. R[m + k] = ItemStep(s, R[m + (k - 1)])
    BY <1>1, <2>1
  <2> QED BY <1>2, <2>1, <2>2
<1>5. Len(s) - m \in T
  <2>1. Len(s) - m \in Nat
    OBVIOUS
  <2> HIDE DEF T
  <2> QED BY <1>3, <1>4, <2>1, InductionUpTo
<1>6. m + (Len(s) - m) = Len(s)
  OBVIOUS
<1> QED BY <1>5, <1>6 DEF R

KeyStep(s, l) == IF l.ok /\ tok(s, l.p) = Comma THEN WithKey(l, parse_key(s, l.p + 1)) ELSE l

\* The rounds of the keys.
IsKeyRounds(f, s, r, m) == f = [k \in 0 .. m |-> IF k = 0 THEN WithKey(r, parse_key(s, r.p)) ELSE KeyStep(s, f[k - 1])]

\* and those of the keys of ORDER BY.
LEMMA KeyRoundsExist ==
    ASSUME NEW s, NEW r, NEW top \in Nat
    PROVE  \E f : IsKeyRounds(f, s, r, top)
<1> DEFINE T == {m \in 0 .. top : \E f : IsKeyRounds(f, s, r, m)}
<1>1. 0 \in T
  <2> DEFINE f == [k \in 0 .. 0 |-> WithKey(r, parse_key(s, r.p))]
  <2>1. f = [k \in 0 .. 0 |-> IF k = 0 THEN WithKey(r, parse_key(s, r.p)) ELSE KeyStep(s, f[k - 1])]
    OBVIOUS
  <2>2. IsKeyRounds(f, s, r, 0)
    BY <2>1, Zenon DEF IsKeyRounds
  <2> QED BY <2>2
<1>2. ASSUME NEW m \in 1 .. top, m - 1 \in T PROVE m \in T
  <2>1. PICK f : IsKeyRounds(f, s, r, m - 1)
    BY <1>2
  <2> DEFINE g == [k \in 0 .. m |-> IF k = 0 THEN WithKey(r, parse_key(s, r.p)) ELSE KeyStep(s, f[k - 1])]
  <2>2. \A k \in 0 .. m - 1 : k \in 0 .. m /\ g[k] = f[k]
    BY <2>1 DEF IsKeyRounds
  <2>3. \A k \in 0 .. m : k # 0 => g[k - 1] = f[k - 1]
    <3>1. \A k \in 0 .. m : k # 0 => k - 1 \in 0 .. m - 1
      OBVIOUS
    <3> HIDE DEF g
    <3> QED BY <2>2, <3>1
  <2>4. \A k \in 0 .. m : (IF k = 0 THEN WithKey(r, parse_key(s, r.p)) ELSE KeyStep(s, f[k - 1])) = (IF k = 0 THEN WithKey(r, parse_key(s, r.p)) ELSE KeyStep(s, g[k - 1]))
    <3> HIDE DEF g
    <3> QED BY <2>3, Zenon
  <2>5. g = [k \in 0 .. m |-> IF k = 0 THEN WithKey(r, parse_key(s, r.p)) ELSE KeyStep(s, g[k - 1])]
    BY <2>4, Zenon
  <2> HIDE DEF g
  <2>6. IsKeyRounds(g, s, r, m)
    BY <2>5, Zenon DEF IsKeyRounds
  <2> QED BY <2>6
<1> HIDE DEF T
<1>3. top \in T
  BY <1>1, <1>2, InductionUpTo
<1> QED BY <1>3 DEF T

\* They are what their definition says.
LEMMA KeyRoundsAre ==
    ASSUME NEW s, NEW r, Len(s) \in Nat
    PROVE  /\ KeyRounds(s, r)[0] = WithKey(r, parse_key(s, r.p))
           /\ \A k \in 1 .. Len(s) : KeyRounds(s, r)[k] = KeyStep(s, KeyRounds(s, r)[k - 1])
<1>1. \E f : IsKeyRounds(f, s, r, Len(s))
  BY KeyRoundsExist
<1>2. IsKeyRounds(KeyRounds(s, r), s, r, Len(s))
  BY <1>1, Zenon DEF KeyRounds, IsKeyRounds, KeyStep, Comma
<1> DEFINE f == KeyRounds(s, r)
<1>3. f = [k \in 0 .. Len(s) |-> IF k = 0 THEN WithKey(r, parse_key(s, r.p)) ELSE KeyStep(s, f[k - 1])]
  BY <1>2, Zenon DEF IsKeyRounds
<1> HIDE DEF f
<1>4. f[0] = WithKey(r, parse_key(s, r.p))
  BY <1>3
<1>5. \A k \in 1 .. Len(s) : f[k] = KeyStep(s, f[k - 1])
  BY <1>3
<1> QED BY <1>4, <1>5 DEF f

\* A round that changes nothing is the last.
LEMMA KeyRoundsStay ==
    ASSUME NEW s, NEW r, Len(s) \in Nat, NEW m \in 0 .. Len(s), KeyStep(s, KeyRounds(s, r)[m]) = KeyRounds(s, r)[m]
    PROVE  KeyRounds(s, r)[Len(s)] = KeyRounds(s, r)[m]
<1> DEFINE R == KeyRounds(s, r)
           T == {k \in 0 .. Len(s) - m : R[m + k] = R[m]}
<1>0. Len(s) \in Nat
  OBVIOUS
<1> USE <1>0
<1>1. \A k \in 1 .. Len(s) : R[k] = KeyStep(s, R[k - 1])
  BY KeyRoundsAre
<1>2. KeyStep(s, R[m]) = R[m]
  OBVIOUS
<1> HIDE DEF R
<1>3. 0 \in T
  OBVIOUS
<1>4. ASSUME NEW k \in 1 .. Len(s) - m, k - 1 \in T PROVE k \in T
  <2>1. R[m + (k - 1)] = R[m] /\ m + k \in 1 .. Len(s) /\ (m + k) - 1 = m + (k - 1)
    BY <1>4
  <2>2. R[m + k] = KeyStep(s, R[m + (k - 1)])
    BY <1>1, <2>1
  <2> QED BY <1>2, <2>1, <2>2
<1>5. Len(s) - m \in T
  <2>1. Len(s) - m \in Nat
    OBVIOUS
  <2> HIDE DEF T
  <2> QED BY <1>3, <1>4, <2>1, InductionUpTo
<1>6. m + (Len(s) - m) = Len(s)
  OBVIOUS
<1> QED BY <1>5, <1>6 DEF R

\* What can stand behind a list.
Ends == {"FROM", "WHERE", "ORDER", "LIMIT", "OFFSET", "FETCH", "end"}

\* What ends a list is no comma and may follow an item.
LEMMA EndsAre == \A t \in Ends : t # Comma /\ t \in Afters
BY Zenon DEF Ends, Afters, Comma

\* The token of a key.
LEMMA KeyTokenIs ==
    ASSUME NEW k, IsKey(k)
    PROVE  /\ (IF k.ordinal > 0 THEN NumeralOf(k.ordinal) ELSE k.name) \in Unmarked
           /\ IsWord(IF k.ordinal > 0 THEN NumeralOf(k.ordinal) ELSE k.name)
              \/ (IF k.ordinal > 0 THEN NumeralOf(k.ordinal) ELSE k.name) \in DOMAIN Numerals
           /\ k.ordinal = IF (IF k.ordinal > 0 THEN NumeralOf(k.ordinal) ELSE k.name) \in DOMAIN Numerals
                            THEN Numerals[IF k.ordinal > 0 THEN NumeralOf(k.ordinal) ELSE k.name] ELSE 0
           /\ k.name = IF (IF k.ordinal > 0 THEN NumeralOf(k.ordinal) ELSE k.name) \in DOMAIN Numerals THEN NoName
                         ELSE IF k.ordinal > 0 THEN NumeralOf(k.ordinal) ELSE k.name
<1>1. CASE k.ordinal = 0
  <2>1. k.name \in STRING /\ IsName(k.name)
    BY <1>1 DEF IsKey
  <2>2. IsWord(k.name) /\ k.name \in Unmarked /\ k.name \notin DOMAIN Numerals
    BY <2>1, NameIs, WordIs
  <2> QED BY <1>1, <2>2
<1>2. CASE k.ordinal # 0
  <2>1. k.ordinal \in Written /\ k.name = NoName
    BY <1>2 DEF IsKey
  <2>2. /\ NumeralOf(k.ordinal) \in DOMAIN Numerals /\ Numerals[NumeralOf(k.ordinal)] = k.ordinal /\ k.ordinal \in Nat
        /\ NumeralOf(k.ordinal) \in Unmarked
    BY <2>1, NumeralIs
  <2>3. k.ordinal > 0
    BY <1>2, <2>2
  <2> QED BY <2>1, <2>2, <2>3
<1> QED BY <1>1, <1>2

\* The items are read as they were meant.
LEMMA ItemsAreRead ==
    ASSUME NEW s \in Seq(STRING), NEW p \in Nat, NEW n, NEW q, IsSequence(q), q # <<>>, \A i \in DOMAIN q : IsItem(q[i]),
           NEW f, NEW w, NEW o, NEW l, NEW x, NEW at,
           Starts(s, p, [i \in DOMAIN q |-> SpelledItem(q[i])], at),
           tok(s, p + Len(Commas([i \in DOMAIN q |-> SpelledItem(q[i])]))) \in Ends
    PROVE  ItemRounds(s, Read(p, n, Stmt(<<>>, f, w, o, l, x)))[Len(s)]
             = Read(p + Len(Commas([i \in DOMAIN q |-> SpelledItem(q[i])])), n, Stmt(q, f, w, o, l, x))
<1> DEFINE parts == [i \in DOMAIN q |-> SpelledItem(q[i])]
           r == Read(p, n, Stmt(<<>>, f, w, o, l, x))
           R == ItemRounds(s, r)
           after(k) == at[k] + Len(parts[k])
           N == Len(q)
           end == p + Len(Commas(parts))
<1>1. /\ DOMAIN q = 1 .. N /\ N \in Nat /\ Firsts(q, N) = q /\ Firsts(q, 0) = <<>>
      /\ \A k \in 0 .. N - 1 : Append(Firsts(q, k), q[k + 1]) = Firsts(q, k + 1)
  BY FirstsAre DEF IsSequence
<1>2. N >= 1
  <2>1. N = 0 => q = <<>>
    BY <1>1
  <2> QED BY <1>1, <2>1
<1>3. Len(parts) = N /\ \A k \in 1 .. N : parts[k] = SpelledItem(q[k])
  BY <1>1
<1>4. Len(s) \in Nat
  BY TokensAre
<1> HIDE DEF N, parts
<1>5. /\ at[1] = p
      /\ \A k \in 1 .. N : at[k] \in Nat /\ Sits(s, at[k], parts[k])
      /\ \A k \in 1 .. N - 1 : tok(s, after(k)) = Comma /\ at[k + 1] = after(k) + 1
      /\ after(N) = end
      /\ N <= Len(s)
      /\ tok(s, end) \in Ends
  BY <1>3 DEF Starts, parts
<1>6. \A k \in 1 .. N : tok(s, after(k)) \in Afters
  <2>1. \A k \in 1 .. N : k \in 1 .. N - 1 \/ k = N
    BY <1>1
  <2>2. Comma \in Afters /\ tok(s, end) \in Afters
    BY <1>5 DEF Afters, Ends
  <2> HIDE DEF after, end
  <2> QED BY <1>5, <2>1, <2>2
<1>7. ASSUME NEW k \in 1 .. N PROVE parse_item(s, at[k]) = Read(after(k), 0, q[k])
  <2>1. IsItem(q[k]) /\ Sits(s, at[k], SpelledItem(q[k])) /\ at[k] \in Nat /\ parts[k] = SpelledItem(q[k])
    BY <1>1, <1>3, <1>5
  <2>2. tok(s, at[k] + Len(SpelledItem(q[k]))) \in Afters
    BY <1>6, <2>1
  <2> QED BY <2>1, <2>2, ItemIsRead
<1>8. /\ R[0] = WithItem(r, parse_item(s, r.p))
      /\ \A k \in 1 .. Len(s) : R[k] = ItemStep(s, R[k - 1])
  BY <1>4, ItemRoundsAre
<1> DEFINE T == {k \in 0 .. N - 1 : R[k] = Read(after(k + 1), n, Stmt(Firsts(q, k + 1), f, w, o, l, x))}
<1> HIDE DEF R, after, end
<1>9. 0 \in T
  <2>1. r.p = p
    BY ReadIs
  <2>2. parse_item(s, r.p) = Read(after(1), 0, q[1])
    BY <1>2, <1>5, <1>7, <2>1
  <2>3. R[0] = Read(after(1), n, Stmt(Append(<<>>, q[1]), f, w, o, l, x))
    <3>1. R[0] = WithItem(r, Read(after(1), 0, q[1]))
      BY <1>8, <2>2
    <3>2. WithItem(r, Read(after(1), 0, q[1])) = Read(after(1), n, Stmt(Append(<<>>, q[1]), f, w, o, l, x))
      <4>1. \A e : WithItem(Read(p, n, Stmt(e, f, w, o, l, x)), Read(after(1), 0, q[1])) = Read(after(1), n, Stmt(Append(e, q[1]), f, w, o, l, x))
        BY WithItemIs
      <4> QED BY <4>1, Zenon
    <3> QED BY <3>1, <3>2
  <2>4. Append(<<>>, q[1]) = Firsts(q, 1)
    <3>1. 0 \in 0 .. N - 1 /\ 0 + 1 = 1
      BY <1>1, <1>2
    <3> QED BY <1>1, <3>1
  <2>5. 0 \in 0 .. N - 1 /\ 0 + 1 = 1
    BY <1>1, <1>2
  <2>6. R[0] = Read(after(0 + 1), n, Stmt(Firsts(q, 0 + 1), f, w, o, l, x))
    BY <2>3, <2>4, <2>5
  <2> QED BY <2>5, <2>6
<1>10. ASSUME NEW k \in 1 .. N - 1, k - 1 \in T PROVE k \in T
  <2>1. (k - 1) + 1 = k /\ k \in 1 .. N /\ k + 1 \in 1 .. N /\ k \in 1 .. Len(s) /\ k \in 0 .. N - 1
    BY <1>1, <1>4, <1>5
  <2> DEFINE g == R[k - 1]
             st == Stmt(Firsts(q, k), f, w, o, l, x)
  <2>2. g = Read(after(k), n, st)
    BY <1>10, <2>1
  <2>3. g.ok /\ g.p = after(k)
    <3> HIDE DEF g, st
    <3> QED BY <2>2, ReadIs
  <2>4. tok(s, after(k)) = Comma /\ at[k + 1] = after(k) + 1
    BY <1>5
  <2>5. parse_item(s, at[k + 1]) = Read(after(k + 1), 0, q[k + 1])
    BY <1>7, <2>1
  <2>6. ItemStep(s, g) = WithItem(g, Read(after(k + 1), 0, q[k + 1]))
    <3> HIDE DEF g
    <3> QED BY <2>3, <2>4, <2>5 DEF ItemStep
  <2>7. ItemStep(s, g) = Read(after(k + 1), n, Stmt(Append(Firsts(q, k), q[k + 1]), f, w, o, l, x))
    BY <2>2, <2>6, WithItemIs
  <2>8. Append(Firsts(q, k), q[k + 1]) = Firsts(q, k + 1)
    BY <1>1, <2>1
  <2>9. R[k] = Read(after(k + 1), n, Stmt(Firsts(q, k + 1), f, w, o, l, x))
    BY <1>8, <2>1, <2>7, <2>8
  <2> QED BY <2>1, <2>9
<1>11. R[N - 1] = Read(end, n, Stmt(q, f, w, o, l, x))
  <2>1. N - 1 \in Nat /\ (N - 1) + 1 = N
    BY <1>1, <1>2
  <2>2. N - 1 \in T
    <3> HIDE DEF T
    <3> QED BY <1>9, <1>10, <2>1, InductionUpTo
  <2> QED BY <1>1, <1>5, <2>1, <2>2
<1>12. ItemStep(s, R[N - 1]) = R[N - 1]
  <2> DEFINE g == R[N - 1]
  <2>1. g.p = end
    <3> HIDE DEF g
    <3>1. g = Read(end, n, Stmt(q, f, w, o, l, x))
      BY <1>11 DEF g
    <3> QED BY <3>1, ReadIs
  <2>2. tok(s, end) # Comma
    BY <1>5, EndsAre
  <2> HIDE DEF g
  <2>3. ItemStep(s, g) = g
    BY <2>1, <2>2 DEF ItemStep
  <2> QED BY <2>3 DEF g
<1>13. N - 1 \in 0 .. Len(s)
  BY <1>1, <1>2, <1>4, <1>5
<1>14. R[Len(s)] = R[N - 1]
  BY <1>4, <1>12, <1>13, ItemRoundsStay DEF R
<1> QED BY <1>11, <1>14 DEF R, r, end, parts

\* A key is read as it was meant.
LEMMA KeyIs ==
    ASSUME NEW k, IsKey(k)
    PROVE  SpelledKey(k) \in Seq(Unmarked) /\ Len(SpelledKey(k)) \in Nat /\ Len(SpelledKey(k)) >= 1
<1> DEFINE t == IF k.ordinal > 0 THEN NumeralOf(k.ordinal) ELSE k.name
           b == Clause(k.desc, <<"DESC">>)
           c == Clause(k.nulls # NoName, <<"NULLS", k.nulls>>)
<1>1. t \in Unmarked
  BY KeyTokenIs
<1>2. <<t>> \in Seq(Unmarked) /\ Len(<<t>>) = 1
  BY <1>1, OneToken
<1>3. b \in Seq(Unmarked) /\ Len(b) \in Nat
  <2>1. <<"DESC">> \in Seq(Unmarked)
    BY OneToken, PlainWords DEF Reserved
  <2> QED BY <2>1, ClauseIn
<1>4. c \in Seq(Unmarked) /\ Len(c) \in Nat
  <2>1. CASE k.nulls = NoName
    <3>1. c = <<>>
      BY <2>1 DEF Clause
    <3> QED BY <3>1, NoTokens
  <2>2. CASE k.nulls # NoName
    <3>1. k.nulls \in Unmarked /\ "NULLS" \in Unmarked
      <4>1. k.nulls \in {"FIRST", "LAST"}
        BY <2>2 DEF IsKey
      <4> QED BY <4>1, PlainWords DEF Reserved, OtherKeywords
    <3>2. <<"NULLS", k.nulls>> \in Seq(Unmarked)
      BY <3>1, TwoTokens
    <3> QED BY <3>2, ClauseIn
  <2> QED BY <2>1, <2>2
<1>5. SpelledKey(k) = (<<t>> \o b) \o c
  BY DEF SpelledKey
<1> DEFINE a == <<t>>
<1> HIDE DEF a, b, c, t
<1>6. a \in Seq(Unmarked) /\ Len(a) = 1
  BY <1>2 DEF a
<1>7. a \o b \in Seq(Unmarked) /\ Len(a \o b) = Len(a) + Len(b)
  <2>1. a \in Seq(Unmarked) /\ b \in Seq(Unmarked)
    BY <1>3, <1>6
  <2> QED BY <2>1
<1>8. (a \o b) \o c \in Seq(Unmarked) /\ Len((a \o b) \o c) = Len(a \o b) + Len(c)
  BY <1>4, <1>7
<1>9. Len((a \o b) \o c) = (1 + Len(b)) + Len(c)
  BY <1>6, <1>7, <1>8
<1>10. SpelledKey(k) = (a \o b) \o c
  BY <1>5 DEF a
<1>11. (1 + Len(b)) + Len(c) \in Nat /\ (1 + Len(b)) + Len(c) >= 1
  BY <1>3, <1>4
<1> QED BY <1>8, <1>9, <1>10, <1>11

\* parse_key reads a key of ORDER BY where its spelling sits.
LEMMA KeyIsRead ==
    ASSUME NEW s \in Seq(STRING), NEW p \in Nat, NEW k, IsKey(k), Sits(s, p, SpelledKey(k)),
           tok(s, p + Len(SpelledKey(k))) \in Afters
    PROVE  parse_key(s, p) = Read(p + Len(SpelledKey(k)), 0, k)
<1> DEFINE t == IF k.ordinal > 0 THEN NumeralOf(k.ordinal) ELSE k.name
           b == Clause(k.desc, <<"DESC">>)
           c == Clause(k.nulls # NoName, <<"NULLS", k.nulls>>)
           q == (p + 1) + Len(b)
           end == p + Len(SpelledKey(k))
<1>1. /\ t \in Unmarked
      /\ IsWord(t) \/ t \in DOMAIN Numerals
      /\ k.ordinal = IF t \in DOMAIN Numerals THEN Numerals[t] ELSE 0
      /\ k.name = IF t \in DOMAIN Numerals THEN NoName ELSE t
  BY KeyTokenIs
<1>2. /\ k = [ordinal |-> k.ordinal, name |-> k.name, desc |-> k.desc, nulls |-> k.nulls]
      /\ k.desc \in BOOLEAN /\ k.nulls \in {NoName, "FIRST", "LAST"}
  BY DEF IsKey
<1>3. <<t>> \in Seq(STRING) /\ b \in Seq(STRING) /\ c \in Seq(STRING) /\ Len(<<t>>) = 1
  <2>1. t \in STRING /\ "DESC" \in STRING /\ "NULLS" \in STRING /\ "FIRST" \in STRING /\ "LAST" \in STRING
    BY <1>1, WordsAssumption DEF Unmarked, Reserved, OtherKeywords
  <2>2. <<t>> \in Seq(STRING) /\ <<"DESC">> \in Seq(STRING) /\ Len(<<t>>) = 1
    BY <2>1, OneToken
  <2>3. b \in Seq(STRING)
    BY <2>2, ClauseIn
  <2>4. c \in Seq(STRING)
    <3>1. CASE k.nulls = NoName
      <4>1. c = <<>>
        BY <3>1 DEF Clause
      <4> QED BY <4>1, NoTokens
    <3>2. CASE k.nulls # NoName
      <4>1. k.nulls \in STRING
        BY <1>2, <2>1, <3>2
      <4> QED BY <2>1, <4>1, TwoTokens, ClauseIn
    <3> QED BY <3>1, <3>2
  <2> QED BY <2>2, <2>3, <2>4
<1>4. SpelledKey(k) = (<<t>> \o b) \o c
  BY DEF SpelledKey
<1>5. Len(s) \in Nat
  BY TokensAre
<1>6. tok(s, p) = t /\ Sits(s, p + 1, b) /\ Sits(s, q, c) /\ q \in Nat /\ end = q + Len(c)
  <2> DEFINE a == <<t>>
             d == a \o b
  <2>1. a \in Seq(STRING) /\ b \in Seq(STRING) /\ c \in Seq(STRING) /\ Len(a) = 1
    BY <1>3
  <2>2. Sits(s, p, d \o c) /\ SpelledKey(k) = d \o c
    BY <1>4
  <2>3. Sits(s, p, <<t>>) => tok(s, p) = t
    BY SitsOne
  <2> HIDE DEF b, c
  <2>4. Sits(s, p, a) => tok(s, p) = t
    BY <2>3
  <2> HIDE DEF a
  <2>5. d \in Seq(STRING) /\ Len(d) = Len(a) + Len(b)
    <3>1. a \in Seq(STRING) /\ b \in Seq(STRING)
      BY <2>1
    <3> QED BY <3>1
  <2> HIDE DEF d
  <2>6. Sits(s, p, d) /\ Sits(s, p + Len(d), c) /\ p + Len(d) \in Nat /\ p + Len(d \o c) = (p + Len(d)) + Len(c)
    <3>1. d \in Seq(STRING) /\ c \in Seq(STRING)
      BY <2>1, <2>5
    <3>2. Sits(s, p, d \o c)
      BY <2>2
    <3> QED BY <1>5, <3>1, <3>2, SitsParts
  <2>7. Sits(s, p, a) /\ Sits(s, p + Len(a), b) /\ p + Len(d) = (p + Len(a)) + Len(b)
    <3>1. Sits(s, p, a \o b)
      BY <2>6 DEF d
    <3>2. Sits(s, p, a) /\ Sits(s, p + Len(a), b) /\ p + Len(a \o b) = (p + Len(a)) + Len(b)
      <4>1. a \in Seq(STRING) /\ b \in Seq(STRING)
        BY <2>1
      <4> QED BY <1>5, <3>1, <4>1, SitsParts
    <3> QED BY <3>2 DEF d
  <2>8. p + Len(a) = p + 1
    BY <2>1
  <2>9. p + Len(d) = q
    BY <2>7, <2>8
  <2> QED BY <2>2, <2>4, <2>6, <2>7, <2>8, <2>9
<1>7. tok(s, end) \in Afters
  OBVIOUS
<1>8. k.nulls # NoName => tok(s, q) = "NULLS" /\ tok(s, q + 1) = k.nulls /\ end = q + 2
  <2>1. SUFFICES ASSUME k.nulls # NoName PROVE tok(s, q) = "NULLS" /\ tok(s, q + 1) = k.nulls /\ end = q + 2
    OBVIOUS
  <2>2. c = <<"NULLS", k.nulls>>
    BY <2>1 DEF Clause
  <2> HIDE DEF c, q, end
  <2>3. Sits(s, q, <<"NULLS", k.nulls>>) /\ Len(c) = 2
    BY <1>6, <2>2, TwoTokens
  <2> QED BY <1>6, <2>3, SitsTwo
<1>9. k.nulls = NoName => end = q
  <2>1. k.nulls = NoName => c = <<>>
    BY DEF Clause
  <2> HIDE DEF c, q, end
  <2> QED BY <1>6, <2>1, NoTokens
<1>10. k.desc => tok(s, p + 1) = "DESC" /\ q = p + 2
  <2>1. SUFFICES ASSUME k.desc PROVE tok(s, p + 1) = "DESC" /\ q = p + 2
    OBVIOUS
  <2>2. b = <<"DESC">>
    BY <2>1 DEF Clause
  <2>3. Sits(s, p + 1, <<"DESC">>) /\ Len(b) = 1
    <3> HIDE DEF b
    <3> QED BY <1>6, <2>2, OneToken
  <2>4. p + 1 \in Nat
    OBVIOUS
  <2>5. tok(s, p + 1) = "DESC"
    BY <2>3, <2>4, SitsOne
  <2>6. q = p + 2
    <3>1. Len(b) = 1
      BY <2>3
    <3> HIDE DEF b
    <3> QED BY <3>1
  <2> QED BY <2>5, <2>6
<1>11. ~k.desc => q = p + 1
  <2>1. ~k.desc => b = <<>>
    BY DEF Clause
  <2> HIDE DEF b
  <2> QED BY <2>1, NoTokens
<1> HIDE DEF b, c, q, end, t
<1>12. tok(s, q) = "NULLS" \/ tok(s, q) \in Afters
  BY <1>7, <1>8, <1>9
<1>13. "NULLS" \notin {"ASC", "DESC"} /\ \A x \in Afters : x \notin {"ASC", "DESC", "NULLS"}
  BY AftersAre
<1> DEFINE way == tok(s, p + 1)
           z == p + (IF way \in {"ASC", "DESC"} THEN 2 ELSE 1)
           nulls == IF tok(s, z) = "NULLS" THEN tok(s, z + 1) ELSE NoName
<1>14. (way = "DESC") = k.desc /\ z = q
  <2>1. CASE k.desc
    BY <1>2, <1>10, <2>1
  <2>2. CASE ~k.desc
    BY <1>2, <1>11, <1>12, <1>13, <2>2
  <2> QED BY <2>1, <2>2
<1>15. nulls = k.nulls /\ (IF nulls = NoName THEN z ELSE z + 2) = end
  <2>1. CASE k.nulls = NoName
    BY <1>7, <1>9, <1>13, <1>14, <2>1
  <2>2. CASE k.nulls # NoName
    BY <1>8, <1>14, <2>2
  <2> QED BY <2>1, <2>2
<1>16. parse_key(s, p) = IF ~(IsWord(t) \/ t \in DOMAIN Numerals) \/ nulls \notin {NoName, "FIRST", "LAST"} THEN Error
         ELSE Read(IF nulls = NoName THEN z ELSE z + 2, 0,
                   [ordinal |-> IF t \in DOMAIN Numerals THEN Numerals[t] ELSE 0,
                    name |-> IF t \in DOMAIN Numerals THEN NoName ELSE t, desc |-> way = "DESC", nulls |-> nulls])
  BY <1>6, Zenon DEF parse_key
<1> HIDE DEF nulls, way, z
<1>17. parse_key(s, p) = Read(end, 0, [ordinal |-> k.ordinal, name |-> k.name, desc |-> way = "DESC", nulls |-> k.nulls])
  BY <1>1, <1>2, <1>15, <1>16
<1>18. [ordinal |-> k.ordinal, name |-> k.name, desc |-> way = "DESC", nulls |-> k.nulls] = k
  BY <1>2, <1>14
<1> QED BY <1>17, <1>18 DEF end

\* The keys are read as they were meant.
LEMMA KeysAreRead ==
    ASSUME NEW s \in Seq(STRING), NEW p \in Nat, NEW n, NEW q, IsSequence(q), q # <<>>, \A i \in DOMAIN q : IsKey(q[i]),
           NEW f, NEW w, NEW o, NEW l, NEW x, NEW at,
           Starts(s, p, [i \in DOMAIN q |-> SpelledKey(q[i])], at),
           tok(s, p + Len(Commas([i \in DOMAIN q |-> SpelledKey(q[i])]))) \in Ends
    PROVE  KeyRounds(s, Read(p, n, Stmt(o, f, w, <<>>, l, x)))[Len(s)]
             = Read(p + Len(Commas([i \in DOMAIN q |-> SpelledKey(q[i])])), n, Stmt(o, f, w, q, l, x))
<1> DEFINE parts == [i \in DOMAIN q |-> SpelledKey(q[i])]
           r == Read(p, n, Stmt(o, f, w, <<>>, l, x))
           R == KeyRounds(s, r)
           after(k) == at[k] + Len(parts[k])
           N == Len(q)
           end == p + Len(Commas(parts))
<1>1. /\ DOMAIN q = 1 .. N /\ N \in Nat /\ Firsts(q, N) = q /\ Firsts(q, 0) = <<>>
      /\ \A k \in 0 .. N - 1 : Append(Firsts(q, k), q[k + 1]) = Firsts(q, k + 1)
  BY FirstsAre DEF IsSequence
<1>2. N >= 1
  <2>1. N = 0 => q = <<>>
    BY <1>1
  <2> QED BY <1>1, <2>1
<1>3. Len(parts) = N /\ \A k \in 1 .. N : parts[k] = SpelledKey(q[k])
  BY <1>1
<1>4. Len(s) \in Nat
  BY TokensAre
<1> HIDE DEF N, parts
<1>5. /\ at[1] = p
      /\ \A k \in 1 .. N : at[k] \in Nat /\ Sits(s, at[k], parts[k])
      /\ \A k \in 1 .. N - 1 : tok(s, after(k)) = Comma /\ at[k + 1] = after(k) + 1
      /\ after(N) = end
      /\ N <= Len(s)
      /\ tok(s, end) \in Ends
  BY <1>3 DEF Starts, parts
<1>6. \A k \in 1 .. N : tok(s, after(k)) \in Afters
  <2>1. \A k \in 1 .. N : k \in 1 .. N - 1 \/ k = N
    BY <1>1
  <2>2. Comma \in Afters /\ tok(s, end) \in Afters
    BY <1>5 DEF Afters, Ends
  <2> HIDE DEF after, end
  <2> QED BY <1>5, <2>1, <2>2
<1>7. ASSUME NEW k \in 1 .. N PROVE parse_key(s, at[k]) = Read(after(k), 0, q[k])
  <2>1. IsKey(q[k]) /\ Sits(s, at[k], SpelledKey(q[k])) /\ at[k] \in Nat /\ parts[k] = SpelledKey(q[k])
    BY <1>1, <1>3, <1>5
  <2>2. tok(s, at[k] + Len(SpelledKey(q[k]))) \in Afters
    BY <1>6, <2>1
  <2> QED BY <2>1, <2>2, KeyIsRead
<1>8. /\ R[0] = WithKey(r, parse_key(s, r.p))
      /\ \A k \in 1 .. Len(s) : R[k] = KeyStep(s, R[k - 1])
  BY <1>4, KeyRoundsAre
<1> DEFINE T == {k \in 0 .. N - 1 : R[k] = Read(after(k + 1), n, Stmt(o, f, w, Firsts(q, k + 1), l, x))}
<1> HIDE DEF R, after, end
<1>9. 0 \in T
  <2>1. r.p = p
    BY ReadIs
  <2>2. parse_key(s, r.p) = Read(after(1), 0, q[1])
    BY <1>2, <1>5, <1>7, <2>1
  <2>3. R[0] = Read(after(1), n, Stmt(o, f, w, Append(<<>>, q[1]), l, x))
    <3>1. R[0] = WithKey(r, Read(after(1), 0, q[1]))
      BY <1>8, <2>2
    <3>2. WithKey(r, Read(after(1), 0, q[1])) = Read(after(1), n, Stmt(o, f, w, Append(<<>>, q[1]), l, x))
      <4>1. \A e : WithKey(Read(p, n, Stmt(o, f, w, e, l, x)), Read(after(1), 0, q[1])) = Read(after(1), n, Stmt(o, f, w, Append(e, q[1]), l, x))
        BY WithItemIs
      <4> QED BY <4>1, Zenon
    <3> QED BY <3>1, <3>2
  <2>4. Append(<<>>, q[1]) = Firsts(q, 1)
    <3>1. 0 \in 0 .. N - 1 /\ 0 + 1 = 1
      BY <1>1, <1>2
    <3> QED BY <1>1, <3>1
  <2>5. 0 \in 0 .. N - 1 /\ 0 + 1 = 1
    BY <1>1, <1>2
  <2>6. R[0] = Read(after(0 + 1), n, Stmt(o, f, w, Firsts(q, 0 + 1), l, x))
    BY <2>3, <2>4, <2>5
  <2> QED BY <2>5, <2>6
<1>10. ASSUME NEW k \in 1 .. N - 1, k - 1 \in T PROVE k \in T
  <2>1. (k - 1) + 1 = k /\ k \in 1 .. N /\ k + 1 \in 1 .. N /\ k \in 1 .. Len(s) /\ k \in 0 .. N - 1
    BY <1>1, <1>4, <1>5
  <2> DEFINE g == R[k - 1]
             st == Stmt(o, f, w, Firsts(q, k), l, x)
  <2>2. g = Read(after(k), n, st)
    BY <1>10, <2>1
  <2>3. g.ok /\ g.p = after(k)
    <3> HIDE DEF g, st
    <3> QED BY <2>2, ReadIs
  <2>4. tok(s, after(k)) = Comma /\ at[k + 1] = after(k) + 1
    BY <1>5
  <2>5. parse_key(s, at[k + 1]) = Read(after(k + 1), 0, q[k + 1])
    BY <1>7, <2>1
  <2>6. KeyStep(s, g) = WithKey(g, Read(after(k + 1), 0, q[k + 1]))
    <3> HIDE DEF g
    <3> QED BY <2>3, <2>4, <2>5 DEF KeyStep
  <2>7. KeyStep(s, g) = Read(after(k + 1), n, Stmt(o, f, w, Append(Firsts(q, k), q[k + 1]), l, x))
    BY <2>2, <2>6, WithItemIs
  <2>8. Append(Firsts(q, k), q[k + 1]) = Firsts(q, k + 1)
    BY <1>1, <2>1
  <2>9. R[k] = Read(after(k + 1), n, Stmt(o, f, w, Firsts(q, k + 1), l, x))
    BY <1>8, <2>1, <2>7, <2>8
  <2> QED BY <2>1, <2>9
<1>11. R[N - 1] = Read(end, n, Stmt(o, f, w, q, l, x))
  <2>1. N - 1 \in Nat /\ (N - 1) + 1 = N
    BY <1>1, <1>2
  <2>2. N - 1 \in T
    <3> HIDE DEF T
    <3> QED BY <1>9, <1>10, <2>1, InductionUpTo
  <2> QED BY <1>1, <1>5, <2>1, <2>2
<1>12. KeyStep(s, R[N - 1]) = R[N - 1]
  <2> DEFINE g == R[N - 1]
  <2>1. g.p = end
    <3> HIDE DEF g
    <3>1. g = Read(end, n, Stmt(o, f, w, q, l, x))
      BY <1>11 DEF g
    <3> QED BY <3>1, ReadIs
  <2>2. tok(s, end) # Comma
    BY <1>5, EndsAre
  <2> HIDE DEF g
  <2>3. KeyStep(s, g) = g
    BY <2>1, <2>2 DEF KeyStep
  <2> QED BY <2>3 DEF g
<1>13. N - 1 \in 0 .. Len(s)
  BY <1>1, <1>2, <1>4, <1>5
<1>14. R[Len(s)] = R[N - 1]
  BY <1>4, <1>12, <1>13, KeyRoundsStay DEF R
<1> QED BY <1>11, <1>14 DEF R, r, end, parts

------------------------------------------------------------------------------
(* One clause each *)

\* TOP, with and without parentheses.
LEMMA TopIsRead ==
    ASSUME NEW s, NEW p \in Nat, NEW n, NEW i, NEW f, NEW w, NEW o, NEW l, NEW x
    PROVE  /\ tok(s, p) # "TOP" => TopClause(s, Read(p, n, Stmt(i, f, w, o, l, x))) = Read(p, n, Stmt(i, f, w, o, l, x))
           /\ \A y \in Written :
                /\ tok(s, p) = "TOP" /\ tok(s, p + 1) = NumeralOf(y) =>
                     TopClause(s, Read(p, n, Stmt(i, f, w, o, l, x))) = Read(p + 2, n, Stmt(i, f, w, o, y, x))
                /\ tok(s, p) = "TOP" /\ tok(s, p + 1) = "(" /\ tok(s, p + 2) = NumeralOf(y) /\ tok(s, p + 3) = ")" =>
                     TopClause(s, Read(p, n, Stmt(i, f, w, o, l, x))) = Read(p + 4, n, Stmt(i, f, w, o, y, x))
<1> DEFINE st == Stmt(i, f, w, o, l, x)
           r == Read(p, n, st)
<1>1. r.p = p /\ r.n = n /\ r.v = st
  BY ReadIs
<1>2. ASSUME NEW y \in Written, tok(s, p) = "TOP", tok(s, p + 1) = NumeralOf(y)
      PROVE  TopClause(s, r) = Read(p + 2, n, Stmt(i, f, w, o, y, x))
  <2>1. NumeralOf(y) # "("
    BY NumeralIs DEF Punctuation
  <2>2. parse_int(s, Read(p + 1, n, st), "limit") = Read((p + 1) + 1, n, Stmt(i, f, w, o, y, x))
    BY <1>2, LimitIntIsRead
  <2> HIDE DEF r, st
  <2>3. TopClause(s, r) = parse_int(s, Read(p + 1, n, st), "limit")
    BY <1>1, <1>2, <2>1 DEF TopClause
  <2> QED BY <2>2, <2>3
<1>3. ASSUME NEW y \in Written, tok(s, p) = "TOP", tok(s, p + 1) = "(", tok(s, p + 2) = NumeralOf(y), tok(s, p + 3) = ")"
      PROVE  TopClause(s, r) = Read(p + 4, n, Stmt(i, f, w, o, y, x))
  <2>1. parse_int(s, Read(p + 2, n, st), "limit") = Read((p + 2) + 1, n, Stmt(i, f, w, o, y, x))
    BY <1>3, LimitIntIsRead
  <2> DEFINE z == Stmt(i, f, w, o, y, x)
  <2> HIDE DEF r, st, z
  <2>2. TopClause(s, r) = Expect(s, parse_int(s, Read(p + 2, n, st), "limit"), ")")
    BY <1>1, <1>3 DEF TopClause
  <2>3. (p + 2) + 1 = p + 3
    OBVIOUS
  <2>4. TopClause(s, r) = Expect(s, Read(p + 3, n, z), ")")
    BY <2>1, <2>2, <2>3 DEF z
  <2>5. Expect(s, Read(p + 3, n, z), ")") = Read((p + 3) + 1, n, z)
    BY <1>3 DEF Expect, Read
  <2> QED BY <2>4, <2>5 DEF z
<1>4. tok(s, p) # "TOP" => TopClause(s, r) = r
  <2> HIDE DEF r
  <2> QED BY <1>1 DEF TopClause
<1> QED BY <1>2, <1>3, <1>4

\* No object.
LEMMA NoObjectIsRead ==
    ASSUME NEW s, NEW p, NEW n, NEW v, tok(s, p) # "FROM"
    PROVE  FromClause(s, Read(p, n, v)) = Read(p, n, v)
<1> DEFINE r == Read(p, n, v)
<1>1. r.p = p
  BY ReadIs
<1> HIDE DEF r
<1>2. FromClause(s, r) = r
  BY <1>1 DEF FromClause
<1> QED BY <1>2 DEF r

\* The object.  (Truth as a value, under a name that the solvers can read.)
Yes == TRUE

\* FROM and the object are read where they sit.
LEMMA ObjectIsRead ==
    ASSUME NEW s, NEW p \in Nat, NEW n, NEW i, NEW f, NEW w, NEW o, NEW l, NEW x,
           tok(s, p) = "FROM", tok(s, p + 1) = "T", tok(s, p + 2) \in Ends \ {"FROM"}
    PROVE  FromClause(s, Read(p, n, Stmt(i, f, w, o, l, x))) = Read(p + 2, n, Stmt(i, Yes, w, o, l, x))
<1> DEFINE st == Stmt(i, f, w, o, l, x)
           r == Read(p, n, st)
<1>1. r.p = p /\ r.n = n /\ r.v = st /\ r.ok
  BY ReadIs
<1>3. tok(s, p) = "FROM" /\ tok(s, p + 1) = "T" /\ tok(s, p + 2) \in Ends \ {"FROM"}
  OBVIOUS
<1>4. FromClause(s, r) = Read(p + 2, n, Stmt(i, TRUE, w, o, l, x))
  <2> DEFINE t == tok(s, p + 2)
  <2>1. t \in Afters /\ t \in Ends /\ t # Comma
    BY <1>3, EndsAre
  <2>2. ~IsName(t) /\ t # "AS"
    BY <2>1, AftersAre
  <2>3. t \notin Joins
    <3>1. Joins = {Comma} \cup {"JOIN", "INNER", "LEFT", "RIGHT", "FULL", "CROSS"}
      BY DEF Joins, Comma
    <3> QED BY <2>1, <3>1 DEF Ends
  <2>4. IsWord("T")
    BY QueryConstants DEF IsName
  <2>5. [st EXCEPT !.from = TRUE] = Stmt(i, TRUE, w, o, l, x)
    <3>1. \A z : [st EXCEPT !.from = z] = Stmt(i, z, w, o, l, x)
      BY DEF Stmt
    <3> HIDE DEF st
    <3> QED BY <3>1, Zenon
  <2> DEFINE q == p + 2
  <2>6. tok(s, q) = t /\ r.p + 2 = q /\ tok(s, r.p) = "FROM" /\ tok(s, r.p + 1) = "T"
    BY <1>1, <1>3
  <2> HIDE DEF r, t, q
  <2>7. FromClause(s, r) = Read(q, r.n, [r.v EXCEPT !.from = TRUE])
    <3> DEFINE as == IF tok(s, r.p + 2) = "AS" THEN 1 ELSE 0
               end == IF as = 1 \/ IsName(tok(s, r.p + 2)) THEN (r.p + 2) + as + 1 ELSE r.p + 2
    <3>1. FromClause(s, r) =
            IF ~r.ok \/ tok(s, r.p) # "FROM" THEN r
            ELSE IF \/ ~IsWord(tok(s, r.p + 1))
                    \/ as = 1 /\ ~IsWord(tok(s, (r.p + 2) + 1))
                    \/ tok(s, r.p + 2) \in Joins \/ tok(s, end) \in Joins
              THEN Error
            ELSE Read(end, r.n, [r.v EXCEPT !.from = TRUE])
      BY Zenon DEF FromClause
    <3>2. as = 0 /\ as # 1
      BY <2>2, <2>6
    <3> HIDE DEF as
    <3>3. end = q
      BY <2>2, <2>6, <3>2
    <3> HIDE DEF end
    <3>4. ~(\/ ~IsWord(tok(s, r.p + 1))
            \/ as = 1 /\ ~IsWord(tok(s, (r.p + 2) + 1))
            \/ tok(s, r.p + 2) \in Joins \/ tok(s, end) \in Joins)
      BY <2>3, <2>4, <2>6, <3>2, <3>3
    <3> QED BY <1>1, <2>6, <3>1, <3>3, <3>4, Zenon
  <2> HIDE DEF st
  <2>8. FromClause(s, r) = Read(q, n, [st EXCEPT !.from = TRUE])
    BY <1>1, <2>7
  <2> QED BY <2>5, <2>8 DEF q
<1> QED BY <1>4, Zenon DEF Yes

\* LIMIT, with the offset behind it and without.
LEMMA LimitIsRead ==
    ASSUME NEW s, NEW p \in Nat, NEW n, NEW i, NEW f, NEW w, NEW o, NEW l, NEW x
    PROVE  /\ tok(s, p) # "LIMIT" => LimitClause(s, Read(p, n, Stmt(i, f, w, o, l, x))) = Read(p, n, Stmt(i, f, w, o, l, x))
           /\ \A y \in Written : tok(s, p) = "LIMIT" /\ tok(s, p + 1) = NumeralOf(y) /\ tok(s, p + 2) # "OFFSET" =>
                LimitClause(s, Read(p, n, Stmt(i, f, w, o, l, x))) = Read(p + 2, n, Stmt(i, f, w, o, y, x))
           /\ \A y, z \in Written :
                tok(s, p) = "LIMIT" /\ tok(s, p + 1) = NumeralOf(y) /\ tok(s, p + 2) = "OFFSET" /\ tok(s, p + 3) = NumeralOf(z) =>
                  LimitClause(s, Read(p, n, Stmt(i, f, w, o, l, x))) = Read(p + 4, n, Stmt(i, f, w, o, y, z))
<1> DEFINE st == Stmt(i, f, w, o, l, x)
           r == Read(p, n, st)
<1>1. r.p = p /\ r.n = n /\ r.v = st /\ r.ok
  BY ReadIs
<1>2. tok(s, p) # "LIMIT" => LimitClause(s, r) = r
  <2> HIDE DEF r
  <2> QED BY <1>1 DEF LimitClause
<1>3. ASSUME NEW y \in Written, tok(s, p) = "LIMIT", tok(s, p + 1) = NumeralOf(y)
      PROVE  LimitClause(s, r) = IF tok(s, p + 2) = "OFFSET"
                                   THEN parse_int(s, Read(p + 3, n, Stmt(i, f, w, o, y, x)), "offset")
                                   ELSE Read(p + 2, n, Stmt(i, f, w, o, y, x))
  <2> DEFINE z == Stmt(i, f, w, o, y, x)
             g == parse_int(s, Read(r.p + 1, r.n, r.v), "limit")
  <2>1. parse_int(s, Read(p + 1, n, st), "limit") = Read((p + 1) + 1, n, z)
    BY <1>3, LimitIntIsRead
  <2>2. (p + 1) + 1 = p + 2 /\ (p + 2) + 1 = p + 3
    OBVIOUS
  <2> HIDE DEF r, st, z
  <2>3. g = Read(p + 2, n, z)
    BY <1>1, <2>1, <2>2
  <2>4. LimitClause(s, r) = IF g.ok /\ tok(s, g.p) = "OFFSET" THEN parse_int(s, Read(g.p + 1, g.n, g.v), "offset") ELSE g
    BY <1>1, <1>3, Zenon DEF LimitClause
  <2> HIDE DEF g
  <2>5. g.ok /\ g.p = p + 2 /\ g.n = n /\ g.v = z
    BY <2>3, ReadIs
  <2> QED BY <2>2, <2>3, <2>4, <2>5 DEF z
<1>4. ASSUME NEW y \in Written, tok(s, p) = "LIMIT", tok(s, p + 1) = NumeralOf(y), tok(s, p + 2) # "OFFSET"
      PROVE  LimitClause(s, r) = Read(p + 2, n, Stmt(i, f, w, o, y, x))
  BY <1>3, <1>4
<1>5. ASSUME NEW y \in Written, NEW z \in Written,
             tok(s, p) = "LIMIT", tok(s, p + 1) = NumeralOf(y), tok(s, p + 2) = "OFFSET", tok(s, p + 3) = NumeralOf(z)
      PROVE  LimitClause(s, r) = Read(p + 4, n, Stmt(i, f, w, o, y, z))
  <2>1. LimitClause(s, r) = parse_int(s, Read(p + 3, n, Stmt(i, f, w, o, y, x)), "offset")
    BY <1>3, <1>5
  <2>2. parse_int(s, Read(p + 3, n, Stmt(i, f, w, o, y, x)), "offset") = Read((p + 3) + 1, n, Stmt(i, f, w, o, y, z))
    BY <1>5, OffsetIntIsRead
  <2>3. (p + 3) + 1 = p + 4
    OBVIOUS
  <2> QED BY <2>1, <2>2, <2>3
<1> QED BY <1>2, <1>4, <1>5

\* OFFSET, with the word ROWS and without.
LEMMA OffsetIsRead ==
    ASSUME NEW s, NEW p \in Nat, NEW n, NEW i, NEW f, NEW w, NEW o, NEW l, NEW x
    PROVE  /\ tok(s, p) # "OFFSET" => OffsetClause(s, Read(p, n, Stmt(i, f, w, o, l, x))) = Read(p, n, Stmt(i, f, w, o, l, x))
           /\ \A y \in Written : tok(s, p) = "OFFSET" /\ tok(s, p + 1) = NumeralOf(y) =>
                OffsetClause(s, Read(p, n, Stmt(i, f, w, o, l, x)))
                  = Read(IF tok(s, p + 2) \in {"ROWS", "ROW"} THEN p + 3 ELSE p + 2, n, Stmt(i, f, w, o, l, y))
<1> DEFINE st == Stmt(i, f, w, o, l, x)
           r == Read(p, n, st)
<1>1. r.p = p /\ r.n = n /\ r.v = st /\ r.ok
  BY ReadIs
<1>2. tok(s, p) # "OFFSET" => OffsetClause(s, r) = r
  <2> HIDE DEF r
  <2> QED BY <1>1 DEF OffsetClause
<1>3. ASSUME NEW y \in Written, tok(s, p) = "OFFSET", tok(s, p + 1) = NumeralOf(y)
      PROVE  OffsetClause(s, r)
               = Read(IF tok(s, p + 2) \in {"ROWS", "ROW"} THEN p + 3 ELSE p + 2, n, Stmt(i, f, w, o, l, y))
  <2> DEFINE z == Stmt(i, f, w, o, l, y)
             g == parse_int(s, Read(r.p + 1, r.n, r.v), "offset")
  <2>1. parse_int(s, Read(p + 1, n, st), "offset") = Read((p + 1) + 1, n, z)
    BY <1>3, OffsetIntIsRead
  <2>2. (p + 1) + 1 = p + 2 /\ (p + 2) + 1 = p + 3
    OBVIOUS
  <2> HIDE DEF r, st, z
  <2>3. g = Read(p + 2, n, z)
    BY <1>1, <2>1, <2>2
  <2>4. OffsetClause(s, r) = IF g.ok /\ tok(s, g.p) \in {"ROWS", "ROW"} THEN Read(g.p + 1, g.n, g.v) ELSE g
    BY <1>1, <1>3, Zenon DEF OffsetClause
  <2> HIDE DEF g
  <2>5. g.ok /\ g.p = p + 2 /\ g.n = n /\ g.v = z
    BY <2>3, ReadIs
  <2>6. OffsetClause(s, r) = Read(IF tok(s, p + 2) \in {"ROWS", "ROW"} THEN p + 3 ELSE p + 2, n, z)
    BY <2>2, <2>3, <2>4, <2>5
  <2> QED BY <2>6 DEF z
<1> QED BY <1>2, <1>3

\* FETCH.
LEMMA FetchIsRead ==
    ASSUME NEW s, NEW p \in Nat, NEW n, NEW i, NEW f, NEW w, NEW o, NEW l, NEW x
    PROVE  /\ tok(s, p) # "FETCH" => FetchClause(s, Read(p, n, Stmt(i, f, w, o, l, x))) = Read(p, n, Stmt(i, f, w, o, l, x))
           /\ \A y \in Written :
                tok(s, p) = "FETCH" /\ tok(s, p + 1) = "FIRST" /\ tok(s, p + 2) = NumeralOf(y) /\ tok(s, p + 3) = "ROWS"
                  /\ tok(s, p + 4) = "ONLY" =>
                FetchClause(s, Read(p, n, Stmt(i, f, w, o, l, x))) = Read(p + 5, n, Stmt(i, f, w, o, y, x))
<1> DEFINE st == Stmt(i, f, w, o, l, x)
           r == Read(p, n, st)
<1>1. r.p = p /\ r.n = n /\ r.v = st /\ r.ok
  BY ReadIs
<1>2. tok(s, p) # "FETCH" => FetchClause(s, r) = r
  <2> HIDE DEF r
  <2> QED BY <1>1 DEF FetchClause
<1>3. ASSUME NEW y \in Written, tok(s, p) = "FETCH", tok(s, p + 1) = "FIRST", tok(s, p + 2) = NumeralOf(y), tok(s, p + 3) = "ROWS",
             tok(s, p + 4) = "ONLY"
      PROVE  FetchClause(s, r) = Read(p + 5, n, Stmt(i, f, w, o, y, x))
  <2> DEFINE z == Stmt(i, f, w, o, y, x)
             g == parse_int(s, Read(r.p + 2, r.n, r.v), "limit")
  <2>1. parse_int(s, Read(p + 2, n, st), "limit") = Read((p + 2) + 1, n, z)
    BY <1>3, LimitIntIsRead
  <2>2. (p + 2) + 1 = p + 3 /\ (p + 3) + 1 = p + 4 /\ (p + 4) + 1 = p + 5
    OBVIOUS
  <2> HIDE DEF r, st, z
  <2>3. g = Read(p + 3, n, z)
    BY <1>1, <2>1, <2>2
  <2>4. FetchClause(s, r) = IF g.ok /\ tok(s, r.p + 1) \in {"FIRST", "NEXT"} /\ tok(s, g.p) \in {"ROWS", "ROW"}
                              THEN Expect(s, Read(g.p + 1, g.n, g.v), "ONLY") ELSE Error
    BY <1>1, <1>3, Zenon DEF FetchClause
  <2> HIDE DEF g
  <2>5. g.ok /\ g.p = p + 3 /\ g.n = n /\ g.v = z
    BY <2>3, ReadIs
  <2>6. FetchClause(s, r) = Expect(s, Read(p + 4, n, z), "ONLY")
    BY <1>1, <1>3, <2>2, <2>4, <2>5
  <2>7. Expect(s, Read(p + 4, n, z), "ONLY") = Read((p + 4) + 1, n, z)
    BY <1>3 DEF Expect, Read
  <2> QED BY <2>2, <2>6, <2>7 DEF z
<1> QED BY <1>2, <1>3

------------------------------------------------------------------------------
(* The parts of a statement *)

TopPart(m) == Clause(Limited(m, "top"), <<"TOP">> \o Limit(m))
ParensPart(m) == Clause(Limited(m, "top()"), <<"TOP", "(">> \o Limit(m) \o <<")">>)
ItemsPart(m) == Commas([i \in DOMAIN m.items |-> SpelledItem(m.items[i])])
FromPart(m) == Clause(m.from, <<"FROM", "T">>)
WherePart(m) == Clause(m.where # <<>>, <<"WHERE">>)

KeysPart(m) == Commas([i \in DOMAIN m.order_by |-> SpelledKey(m.order_by[i])])
OrderPart(m) == Clause(m.order_by # <<>>, <<"ORDER", "BY">> \o KeysPart(m))
LimitPart(m) == Clause(Limited(m, "limit"), <<"LIMIT">> \o Limit(m))
OffsetPart(m) == Clause(m.offset # NoLimit, <<"OFFSET", NumeralOf(m.offset)>>)
RowsPart(m) == Clause(m.offset # NoLimit /\ m.style = "fetch", <<"ROWS">>)
FetchPart(m) == Clause(Limited(m, "fetch"), <<"FETCH", "FIRST">> \o Limit(m) \o <<"ROWS", "ONLY">>)

\* A spelling is its parts, in the order of the clauses.
LEMMA PartsAre ==
    ASSUME NEW m
    PROVE  /\ Opening(m) = ((((<<"SELECT">> \o TopPart(m)) \o ParensPart(m)) \o ItemsPart(m)) \o FromPart(m)) \o WherePart(m)
           /\ Closing(m) = (((OrderPart(m) \o LimitPart(m)) \o OffsetPart(m)) \o RowsPart(m)) \o FetchPart(m)
           /\ Spelling(m) = (Opening(m) \o m.where) \o Closing(m)
BY Zenon DEF Opening, Closing, Spelling, TopPart, ParensPart, ItemsPart, FromPart, WherePart, KeysPart, OrderPart, LimitPart,
     OffsetPart, RowsPart, FetchPart

\* What a statement is.
LEMMA StatementIs ==
    ASSUME NEW m, IsStatement(m)
    PROVE  /\ IsSequence(m.items) /\ m.items # <<>> /\ \A i \in DOMAIN m.items : IsItem(m.items[i])
           /\ m.from \in BOOLEAN
           /\ m.where \in Seq(STRING \ ClauseWords)
           /\ IsSequence(m.order_by) /\ \A i \in DOMAIN m.order_by : IsKey(m.order_by[i])
           /\ m.limit \in Written \cup {NoLimit} /\ m.offset \in Written \cup {NoLimit}
           /\ m.style \in {"top", "top()", "limit", "fetch"}
           /\ Cardinality({i \in DOMAIN Spelling(m) : Spelling(m)[i] \in Connectives}) <= Deepest
<1>1. {m.limit, m.offset} \subseteq Written \cup {NoLimit}
  BY Zenon DEF IsStatement
<1>2. m.limit \in Written \cup {NoLimit} /\ m.offset \in Written \cup {NoLimit}
  BY <1>1
<1> QED BY <1>2, Zenon DEF IsStatement

\* A number that is there.
LEMMA LimitIs ==
    ASSUME NEW m, IsStatement(m)
    PROVE  /\ m.limit # NoLimit => m.limit \in Written /\ NumeralOf(m.limit) \in Unmarked /\ Limit(m) \in Seq(Unmarked)
                                   /\ Len(Limit(m)) = 1
           /\ m.offset # NoLimit => m.offset \in Written /\ NumeralOf(m.offset) \in Unmarked
<1>1. ASSUME m.limit # NoLimit
      PROVE  m.limit \in Written /\ NumeralOf(m.limit) \in Unmarked /\ Limit(m) \in Seq(Unmarked) /\ Len(Limit(m)) = 1
  <2>1. m.limit \in Written
    BY <1>1, StatementIs
  <2>2. NumeralOf(m.limit) \in Unmarked
    BY <2>1, NumeralIs
  <2> QED BY <2>1, <2>2, OneToken DEF Limit
<1>2. ASSUME m.offset # NoLimit PROVE m.offset \in Written /\ NumeralOf(m.offset) \in Unmarked
  <2>1. m.offset \in Written
    BY <1>2, StatementIs
  <2> QED BY <2>1, NumeralIs
<1> QED BY <1>1, <1>2

\* TextJoined parts.
LEMMA JoinedIn ==
    ASSUME NEW S, NEW a \in Seq(S), NEW b \in Seq(S)
    PROVE  a \o b \in Seq(S)
OBVIOUS

\* Keywords and parentheses are no markers.
LEMMA ReservedIn == \A t \in Reserved \cup OtherKeywords \cup {"(", ")"} : <<t>> \in Seq(Unmarked)
BY PlainWords, OneToken

\* The parts have no markers.
LEMMA PartsIn ==
    ASSUME NEW m, IsStatement(m)
    PROVE  /\ <<"SELECT">> \in Seq(Unmarked)
           /\ TopPart(m) \in Seq(Unmarked)
           /\ ParensPart(m) \in Seq(Unmarked)
           /\ FromPart(m) \in Seq(Unmarked)
           /\ WherePart(m) \in Seq(Unmarked)
           /\ LimitPart(m) \in Seq(Unmarked)
           /\ OffsetPart(m) \in Seq(Unmarked)
           /\ RowsPart(m) \in Seq(Unmarked)
           /\ FetchPart(m) \in Seq(Unmarked)
<1>1. {"SELECT", "TOP", "FROM", "WHERE", "LIMIT", "OFFSET", "ROWS", "FETCH", "ONLY", "FIRST"} \subseteq Reserved \cup OtherKeywords
  BY DEF Reserved, OtherKeywords
<1>2. <<>> \in Seq(Unmarked)
  BY NoTokens
<1>3. <<"SELECT">> \in Seq(Unmarked) /\ <<"WHERE">> \in Seq(Unmarked) /\ <<"TOP">> \in Seq(Unmarked)
      /\ <<"LIMIT">> \in Seq(Unmarked) /\ <<"ROWS">> \in Seq(Unmarked) /\ <<")">> \in Seq(Unmarked)
  BY <1>1, ReservedIn
<1>4. \A t \in {"TOP", "(", "FROM", "T", "OFFSET", "FETCH", "FIRST", "ROWS", "ONLY"} : t \in Unmarked
  BY <1>1, PlainWords
<1>5. <<"TOP", "(">> \in Seq(Unmarked) /\ <<"FROM", "T">> \in Seq(Unmarked) /\ <<"FETCH", "FIRST">> \in Seq(Unmarked)
      /\ <<"ROWS", "ONLY">> \in Seq(Unmarked)
  BY <1>4, TwoTokens
<1>6. \A style : Limited(m, style) => Limit(m) \in Seq(Unmarked)
  BY LimitIs DEF Limited
<1>7. TopPart(m) \in Seq(Unmarked)
  <2>1. Limited(m, "top") => <<"TOP">> \o Limit(m) \in Seq(Unmarked)
    BY <1>3, <1>6, JoinedIn
  <2> QED BY <1>2, <2>1, Zenon DEF TopPart, Clause
<1>8. ParensPart(m) \in Seq(Unmarked)
  <2>1. ASSUME Limited(m, "top()") PROVE (<<"TOP", "(">> \o Limit(m)) \o <<")">> \in Seq(Unmarked)
    <3>1. Limit(m) \in Seq(Unmarked)
      BY <1>6, <2>1, Zenon
    <3> DEFINE a == <<"TOP", "(">>
               b == <<")">>
               l == Limit(m)
    <3>2. a \in Seq(Unmarked) /\ b \in Seq(Unmarked) /\ l \in Seq(Unmarked)
      BY <1>3, <1>5, <3>1
    <3> HIDE DEF a, b, l
    <3>3. (a \o l) \o b \in Seq(Unmarked)
      BY <3>2, JoinedIn
    <3> QED BY <3>3 DEF a, b, l
  <2> QED BY <1>2, <2>1, Zenon DEF ParensPart, Clause
<1>9. FromPart(m) \in Seq(Unmarked) /\ WherePart(m) \in Seq(Unmarked)
  BY <1>2, <1>3, <1>5, Zenon DEF FromPart, WherePart, Clause
<1>10. LimitPart(m) \in Seq(Unmarked)
  <2>1. Limited(m, "limit") => <<"LIMIT">> \o Limit(m) \in Seq(Unmarked)
    BY <1>3, <1>6, JoinedIn
  <2> QED BY <1>2, <2>1, Zenon DEF LimitPart, Clause
<1>11. OffsetPart(m) \in Seq(Unmarked)
  <2>1. m.offset # NoLimit => <<"OFFSET", NumeralOf(m.offset)>> \in Seq(Unmarked)
    BY <1>4, LimitIs, TwoTokens
  <2> QED BY <1>2, <2>1, Zenon DEF OffsetPart, Clause
<1>12. RowsPart(m) \in Seq(Unmarked)
  BY <1>2, <1>3, Zenon DEF RowsPart, Clause
<1>13. FetchPart(m) \in Seq(Unmarked)
  <2>1. ASSUME Limited(m, "fetch") PROVE (<<"FETCH", "FIRST">> \o Limit(m)) \o <<"ROWS", "ONLY">> \in Seq(Unmarked)
    <3>1. Limit(m) \in Seq(Unmarked)
      BY <1>6, <2>1, Zenon
    <3> DEFINE a == <<"FETCH", "FIRST">>
               b == <<"ROWS", "ONLY">>
               l == Limit(m)
    <3>2. a \in Seq(Unmarked) /\ b \in Seq(Unmarked) /\ l \in Seq(Unmarked)
      BY <1>5, <3>1
    <3> HIDE DEF a, b, l
    <3>3. (a \o l) \o b \in Seq(Unmarked)
      BY <3>2, JoinedIn
    <3> QED BY <3>3 DEF a, b, l
  <2> QED BY <1>2, <2>1, Zenon DEF FetchPart, Clause
<1> QED BY <1>3, <1>7, <1>8, <1>9, <1>10, <1>11, <1>12, <1>13

\* The lists are there, each part at its place.
LEMMA ListsIn ==
    ASSUME NEW m, IsStatement(m)
    PROVE  /\ ItemsPart(m) \in Seq(Unmarked)
           /\ \A s \in Seq(STRING), p \in Nat \ {0} :
                Sits(s, p, ItemsPart(m)) => \E at : Starts(s, p, [i \in DOMAIN m.items |-> SpelledItem(m.items[i])], at)
           /\ m.order_by # <<>> =>
                /\ KeysPart(m) \in Seq(Unmarked)
                /\ \A s \in Seq(STRING), p \in Nat \ {0} :
                     Sits(s, p, KeysPart(m)) => \E at : Starts(s, p, [i \in DOMAIN m.order_by |-> SpelledKey(m.order_by[i])], at)
           /\ OrderPart(m) \in Seq(Unmarked)
<1>1. ASSUME NEW q, IsSequence(q), q # <<>>
      PROVE  DOMAIN q = 1 .. Len(q) /\ Len(q) \in Nat \ {0}
  <2>1. Firsts(q, 0) = <<>> /\ Firsts(q, Len(q)) = q /\ DOMAIN q = 1 .. Len(q) /\ Len(q) \in Nat
    BY <1>1, FirstsAre DEF IsSequence
  <2>2. Len(q) # 0
    BY <1>1, <2>1
  <2> QED BY <2>1, <2>2
<1>2. /\ ItemsPart(m) \in Seq(Unmarked)
      /\ \A s \in Seq(STRING), p \in Nat \ {0} :
           Sits(s, p, ItemsPart(m)) => \E at : Starts(s, p, [i \in DOMAIN m.items |-> SpelledItem(m.items[i])], at)
  <2> DEFINE q == m.items
             parts == [i \in DOMAIN q |-> SpelledItem(q[i])]
  <2>1. IsSequence(q) /\ q # <<>> /\ \A i \in DOMAIN q : IsItem(q[i])
    BY StatementIs
  <2> HIDE DEF q
  <2>2. DOMAIN q = 1 .. Len(q) /\ Len(q) \in Nat \ {0}
    BY <1>1, <2>1
  <2>3. Len(parts) = Len(q) /\ \A k \in 1 .. Len(q) : parts[k] = SpelledItem(q[k])
    BY <2>2
  <2>4. \A k \in 1 .. Len(q) : SpelledItem(q[k]) \in Seq(Unmarked) /\ Len(SpelledItem(q[k])) >= 1
    BY <2>1, <2>2, ItemIs
  <2> HIDE DEF parts
  <2>5. Len(parts) \in Nat \ {0} /\ \A k \in 1 .. Len(parts) : parts[k] \in Seq(Unmarked) /\ Len(parts[k]) >= 1
    BY <2>2, <2>3, <2>4
  <2>6. /\ Commas(parts) \in Seq(Unmarked)
        /\ \A s \in Seq(STRING), p \in Nat \ {0} : Sits(s, p, Commas(parts)) => \E at : Starts(s, p, parts, at)
    BY <2>5, CommasSit
  <2> QED BY <2>6, Zenon DEF ItemsPart, parts, q
<1>3. ASSUME m.order_by # <<>>
      PROVE  /\ KeysPart(m) \in Seq(Unmarked)
             /\ \A s \in Seq(STRING), p \in Nat \ {0} :
                  Sits(s, p, KeysPart(m)) => \E at : Starts(s, p, [i \in DOMAIN m.order_by |-> SpelledKey(m.order_by[i])], at)
  <2> DEFINE q == m.order_by
             parts == [i \in DOMAIN q |-> SpelledKey(q[i])]
  <2>1. IsSequence(q) /\ q # <<>> /\ \A i \in DOMAIN q : IsKey(q[i])
    BY <1>3, StatementIs
  <2> HIDE DEF q
  <2>2. DOMAIN q = 1 .. Len(q) /\ Len(q) \in Nat \ {0}
    BY <1>1, <2>1
  <2>3. Len(parts) = Len(q) /\ \A k \in 1 .. Len(q) : parts[k] = SpelledKey(q[k])
    BY <2>2
  <2>4. \A k \in 1 .. Len(q) : SpelledKey(q[k]) \in Seq(Unmarked) /\ Len(SpelledKey(q[k])) >= 1
    BY <2>1, <2>2, KeyIs
  <2> HIDE DEF parts
  <2>5. Len(parts) \in Nat \ {0} /\ \A k \in 1 .. Len(parts) : parts[k] \in Seq(Unmarked) /\ Len(parts[k]) >= 1
    BY <2>2, <2>3, <2>4
  <2>6. /\ Commas(parts) \in Seq(Unmarked)
        /\ \A s \in Seq(STRING), p \in Nat \ {0} : Sits(s, p, Commas(parts)) => \E at : Starts(s, p, parts, at)
    BY <2>5, CommasSit
  <2> QED BY <2>6, Zenon DEF KeysPart, parts, q
<1>4. OrderPart(m) \in Seq(Unmarked)
  <2>1. <<"ORDER", "BY">> \in Seq(Unmarked)
    BY PlainWords, TwoTokens DEF Reserved
  <2>2. m.order_by # <<>> => <<"ORDER", "BY">> \o KeysPart(m) \in Seq(Unmarked)
    BY <1>3, <2>1, JoinedIn
  <2> QED BY <2>2, NoTokens, Zenon DEF OrderPart, Clause
<1> QED BY <1>2, <1>3, <1>4

------------------------------------------------------------------------------
(* What stands before the condition *)

\* Six parts in a row.
SixSit(s, p, a, b, c, d, e, f) ==
    /\ Sits(s, p, a) /\ Sits(s, p + Len(a), b) /\ Sits(s, (p + Len(a)) + Len(b), c)
    /\ Sits(s, ((p + Len(a)) + Len(b)) + Len(c), d)
    /\ Sits(s, (((p + Len(a)) + Len(b)) + Len(c)) + Len(d), e)
    /\ Sits(s, ((((p + Len(a)) + Len(b)) + Len(c)) + Len(d)) + Len(e), f)
    /\ p + Len(((((a \o b) \o c) \o d) \o e) \o f) = (((((p + Len(a)) + Len(b)) + Len(c)) + Len(d)) + Len(e)) + Len(f)

\* Six parts that sit at a place sit one behind the other.
LEMMA SitsSix ==
    ASSUME NEW s, NEW p \in Nat, NEW S, NEW a \in Seq(S), NEW b \in Seq(S), NEW c \in Seq(S), NEW d \in Seq(S), NEW e \in Seq(S),
           NEW f \in Seq(S), Sits(s, p, ((((a \o b) \o c) \o d) \o e) \o f), Len(s) \in Nat
    PROVE  SixSit(s, p, a, b, c, d, e, f)
<1> DEFINE ab == a \o b
           abc == ab \o c
           abcd == abc \o d
           abcde == abcd \o e
<1>1. ab \in Seq(S)
  BY JoinedIn
<1>2. abc \in Seq(S)
  <2> HIDE DEF ab
  <2> QED BY <1>1, JoinedIn
<1>3. abcd \in Seq(S)
  <2> HIDE DEF abc
  <2> QED BY <1>2, JoinedIn
<1>4. abcde \in Seq(S)
  <2> HIDE DEF abcd
  <2> QED BY <1>3, JoinedIn
<1>5. Sits(s, p, abcde) /\ Sits(s, p + Len(abcde), f) /\ p + Len(abcde \o f) = (p + Len(abcde)) + Len(f)
  <2> HIDE DEF abcde
  <2>1. Sits(s, p, abcde \o f)
    BY DEF abcde
  <2> QED BY <1>4, <2>1, SitsParts
<1>6. Sits(s, p, abcd) /\ Sits(s, p + Len(abcd), e) /\ p + Len(abcde) = (p + Len(abcd)) + Len(e)
  <2> HIDE DEF abcd
  <2> QED BY <1>3, <1>5, SitsParts
<1>7. Sits(s, p, abc) /\ Sits(s, p + Len(abc), d) /\ p + Len(abcd) = (p + Len(abc)) + Len(d)
  <2> HIDE DEF abc
  <2> QED BY <1>2, <1>6, SitsParts
<1>8. Sits(s, p, ab) /\ Sits(s, p + Len(ab), c) /\ p + Len(abc) = (p + Len(ab)) + Len(c)
  <2> HIDE DEF ab
  <2> QED BY <1>1, <1>7, SitsParts
<1>9. Sits(s, p, a) /\ Sits(s, p + Len(a), b) /\ p + Len(ab) = (p + Len(a)) + Len(b)
  BY <1>8, SitsParts
<1> HIDE DEF ab, abc, abcd, abcde
<1>10. /\ Sits(s, (p + Len(a)) + Len(b), c) /\ Sits(s, ((p + Len(a)) + Len(b)) + Len(c), d)
       /\ Sits(s, (((p + Len(a)) + Len(b)) + Len(c)) + Len(d), e)
       /\ Sits(s, ((((p + Len(a)) + Len(b)) + Len(c)) + Len(d)) + Len(e), f)
       /\ p + Len(abcde \o f) = (((((p + Len(a)) + Len(b)) + Len(c)) + Len(d)) + Len(e)) + Len(f)
  BY <1>5, <1>6, <1>7, <1>8, <1>9, Zenon
<1> QED BY <1>9, <1>10, Zenon DEF SixSit, ab, abc, abcd, abcde

\* Where the clauses begin.
AtItems(m) == (2 + Len(TopPart(m))) + Len(ParensPart(m))
AtFrom(m) == AtItems(m) + Len(ItemsPart(m))
AtWhere(m) == AtFrom(m) + Len(FromPart(m))

\* The opening, from SELECT to WHERE, has no markers; its parts begin at known places.
LEMMA OpeningIs ==
    ASSUME NEW m, IsStatement(m)
    PROVE  /\ Opening(m) \in Seq(Unmarked)
           /\ AtItems(m) \in Nat \ {0} /\ AtFrom(m) \in Nat \ {0} /\ AtWhere(m) \in Nat \ {0}
           /\ Len(TopPart(m)) \in Nat /\ Len(ParensPart(m)) \in Nat
<1> DEFINE b == TopPart(m)
           c == ParensPart(m)
           d == ItemsPart(m)
           e == FromPart(m)
           f == WherePart(m)
           a == <<"SELECT">>
<1>1. a \in Seq(Unmarked) /\ b \in Seq(Unmarked) /\ c \in Seq(Unmarked) /\ d \in Seq(Unmarked) /\ e \in Seq(Unmarked) /\ f \in Seq(Unmarked)
  BY PartsIn, ListsIn
<1>2. Opening(m) = ((((a \o b) \o c) \o d) \o e) \o f
  BY PartsAre
<1> HIDE DEF a, b, c, d, e, f
<1>3. Opening(m) \in Seq(Unmarked)
  <2>1. (a \o b) \o c \in Seq(Unmarked)
    BY <1>1, JoinedIn
  <2>2. (((a \o b) \o c) \o d) \o e \in Seq(Unmarked)
    BY <1>1, <2>1, JoinedIn
  <2> QED BY <1>1, <1>2, <2>2, JoinedIn
<1>4. Len(b) \in Nat /\ Len(c) \in Nat /\ Len(d) \in Nat /\ Len(e) \in Nat
  BY <1>1
<1>5. (2 + Len(b)) + Len(c) \in Nat \ {0} /\ ((2 + Len(b)) + Len(c)) + Len(d) \in Nat \ {0}
      /\ (((2 + Len(b)) + Len(c)) + Len(d)) + Len(e) \in Nat \ {0}
  BY <1>4
<1> QED BY <1>3, <1>4, <1>5, Zenon DEF AtItems, AtFrom, AtWhere, b, c, d, e

\* Where an opening sits its parts do.
LEMMA OpeningSits ==
    ASSUME NEW s \in Seq(STRING), NEW m, IsStatement(m), Sits(s, 1, Opening(m))
    PROVE  /\ tok(s, 1) = "SELECT"
           /\ Sits(s, 2, TopPart(m)) /\ Sits(s, 2 + Len(TopPart(m)), ParensPart(m)) /\ Sits(s, AtItems(m), ItemsPart(m))
           /\ Sits(s, AtFrom(m), FromPart(m)) /\ Sits(s, AtWhere(m), WherePart(m))
           /\ 1 + Len(Opening(m)) = AtWhere(m) + Len(WherePart(m))
<1> DEFINE b == TopPart(m)
           c == ParensPart(m)
           d == ItemsPart(m)
           e == FromPart(m)
           f == WherePart(m)
           a == <<"SELECT">>
<1>1. a \in Seq(Unmarked) /\ b \in Seq(Unmarked) /\ c \in Seq(Unmarked) /\ d \in Seq(Unmarked) /\ e \in Seq(Unmarked) /\ f \in Seq(Unmarked)
  BY PartsIn, ListsIn
<1>2. Opening(m) = ((((a \o b) \o c) \o d) \o e) \o f
  BY PartsAre
<1>3. Sits(s, 1, a) => tok(s, 1) = "SELECT"
  <2>1. 1 \in Nat
    OBVIOUS
  <2> QED BY <2>1, SitsOne
<1>4. 1 + Len(a) = 2
  <2>1. Len(a) = 1
    BY OneToken
  <2> HIDE DEF a
  <2> QED BY <2>1
<1> HIDE DEF a, b, c, d, e, f
<1>5. Sits(s, 1, ((((a \o b) \o c) \o d) \o e) \o f) /\ Len(s) \in Nat /\ 1 \in Nat
  BY <1>2, TokensAre
<1>6. /\ Sits(s, 1, a) /\ Sits(s, 1 + Len(a), b) /\ Sits(s, (1 + Len(a)) + Len(b), c)
      /\ Sits(s, ((1 + Len(a)) + Len(b)) + Len(c), d)
      /\ Sits(s, (((1 + Len(a)) + Len(b)) + Len(c)) + Len(d), e)
      /\ Sits(s, ((((1 + Len(a)) + Len(b)) + Len(c)) + Len(d)) + Len(e), f)
      /\ 1 + Len(((((a \o b) \o c) \o d) \o e) \o f) = (((((1 + Len(a)) + Len(b)) + Len(c)) + Len(d)) + Len(e)) + Len(f)
  <2> DEFINE p == 1
  <2>1. p \in Nat
    OBVIOUS
  <2> HIDE DEF p
  <2>2. Sits(s, p, ((((a \o b) \o c) \o d) \o e) \o f) /\ Len(s) \in Nat
    BY <1>5 DEF p
  <2>3. SixSit(s, p, a, b, c, d, e, f)
    BY <1>1, <2>1, <2>2, SitsSix, Zenon
  <2> QED BY <2>3, Zenon DEF p, SixSit
<1>7. /\ Sits(s, 2, b) /\ Sits(s, 2 + Len(b), c)
      /\ Sits(s, (2 + Len(b)) + Len(c), d)
      /\ Sits(s, ((2 + Len(b)) + Len(c)) + Len(d), e)
      /\ Sits(s, (((2 + Len(b)) + Len(c)) + Len(d)) + Len(e), f)
      /\ 1 + Len(Opening(m)) = ((((2 + Len(b)) + Len(c)) + Len(d)) + Len(e)) + Len(f)
  BY <1>2, <1>4, <1>6, Zenon
<1> QED BY <1>3, <1>6, <1>7, Zenon DEF AtItems, AtFrom, AtWhere, b, c, d, e, f

\* The limit that stands at the top.
TopLimit(m) == IF m.style \in {"top", "top()"} THEN m.limit ELSE NoLimit

\* The styles of a limit are different strings.
LEMMA StylesDiffer == "top" # "top()" /\ "limit" # "top()" /\ "fetch" # "top()" /\ "top" # "limit" /\ "top" # "fetch" /\ "limit" # "fetch"
BY Zenon

\* TOP with its number, in parentheses or not, is read where it sits, and so is its absence.
LEMMA TopPartIsRead ==
    ASSUME NEW s \in Seq(STRING), NEW m, IsStatement(m), Sits(s, 2, TopPart(m)), Sits(s, 2 + Len(TopPart(m)), ParensPart(m)),
           tok(s, AtItems(m)) # "TOP", NEW i, NEW f, NEW w, NEW o, NEW x
    PROVE  /\ TopClause(s, Read(2, 0, Stmt(i, f, w, o, NoLimit, x))) = Read(AtItems(m), 0, Stmt(i, f, w, o, TopLimit(m), x))
           /\ tok(s, 2) = "TOP" \/ AtItems(m) = 2
<1> DEFINE b == TopPart(m)
           c == ParensPart(m)
<1>0. Len(s) \in Nat
  BY TokensAre
<1>1. CASE Limited(m, "top")
  <2>1. m.style = "top" /\ m.limit \in Written /\ TopLimit(m) = m.limit
    BY <1>1, LimitIs DEF Limited, TopLimit
  <2>2. ~Limited(m, "top()")
    BY <2>1, StylesDiffer, Zenon DEF Limited
  <2>3. c = <<>> /\ Len(c) = 0
    BY <2>2, NoTokens, Zenon DEF ParensPart, Clause
  <2>4. b = <<"TOP">> \o Limit(m)
    BY <1>1, Zenon DEF TopPart, Clause
  <2>5. <<"TOP">> \in Seq(Unmarked) /\ Limit(m) \in Seq(Unmarked) /\ Len(<<"TOP">>) = 1 /\ Len(Limit(m)) = 1
    <3>1. "TOP" \in Reserved
      BY DEF Reserved
    <3>2. m.limit # NoLimit
      BY <1>1 DEF Limited
    <3> QED BY <3>1, <3>2, ReservedIn, LimitIs, OneToken
  <2>6. Sits(s, 2, <<"TOP">>) /\ Sits(s, 3, <<NumeralOf(m.limit)>>) /\ 2 + Len(b) = 4
    <3> DEFINE y == <<"TOP">>
               z == Limit(m)
    <3>1. y \in Seq(Unmarked) /\ z \in Seq(Unmarked)
      BY <2>5
    <3>2. Sits(s, 2, y \o z) /\ 2 \in Nat
      BY <2>4
    <3> HIDE DEF y, z
    <3>3. Sits(s, 2, y) /\ Sits(s, 2 + Len(y), z) /\ 2 + Len(y \o z) = (2 + Len(y)) + Len(z)
      BY <1>0, <3>1, <3>2, SitsParts
    <3>4. Len(y) = 1 /\ Len(z) = 1
      BY <2>5 DEF y, z
    <3>5. 2 + Len(y) = 3 /\ (2 + Len(y)) + Len(z) = 4
      BY <3>4
    <3>6. Sits(s, 2, y) /\ Sits(s, 3, z) /\ 2 + Len(y \o z) = 4
      BY <3>3, <3>5, Zenon
    <3> QED BY <2>4, <3>6, Zenon DEF y, z, Limit
  <2>7. tok(s, 2) = "TOP" /\ tok(s, 2 + 1) = NumeralOf(m.limit)
    <3>1. 2 \in Nat /\ 3 \in Nat /\ 2 + 1 = 3
      OBVIOUS
    <3> QED BY <2>6, <3>1, SitsOne
  <2>8. AtItems(m) = 4
    <3> HIDE DEF b, c
    <3>1. (2 + Len(b)) + Len(c) = 4
      BY <2>3, <2>6
    <3> QED BY <3>1, Zenon DEF AtItems, b, c
  <2>9. TopClause(s, Read(2, 0, Stmt(i, f, w, o, NoLimit, x))) = Read(2 + 2, 0, Stmt(i, f, w, o, m.limit, x))
    BY <2>1, <2>7, TopIsRead
  <2>10. 2 + 2 = 4
    OBVIOUS
  <2> QED BY <2>1, <2>7, <2>8, <2>9, <2>10
<1>2. CASE Limited(m, "top()")
  <2>1. m.style = "top()" /\ m.limit # NoLimit
    BY <1>2, Zenon DEF Limited
  <2>1a. m.limit \in Written
    BY <2>1, LimitIs
  <2>1b. TopLimit(m) = m.limit
    BY <2>1, Zenon DEF TopLimit
  <2>2. ~Limited(m, "top")
    BY <2>1, StylesDiffer, Zenon DEF Limited
  <2>3. b = <<>> /\ Len(b) = 0
    BY <2>2, NoTokens, Zenon DEF TopPart, Clause
  <2>4. c = (<<"TOP", "(">> \o Limit(m)) \o <<")">>
    BY <1>2, Zenon DEF ParensPart, Clause
  <2> DEFINE y == <<"TOP", "(">>
             z == Limit(m)
             v == <<")">>
  <2>5. y \in Seq(Unmarked) /\ z \in Seq(Unmarked) /\ v \in Seq(Unmarked) /\ Len(y) = 2 /\ Len(z) = 1 /\ Len(v) = 1
    <3>1. "TOP" \in Reserved
      BY DEF Reserved
    <3>2. "TOP" \in Unmarked /\ "(" \in Unmarked /\ ")" \in Unmarked
      BY <3>1, PlainWords
    <3> QED BY <2>1, <3>2, LimitIs, OneToken, TwoTokens
  <2>6. Sits(s, 2, y) /\ Sits(s, 4, z) /\ Sits(s, 5, v) /\ 2 + Len(c) = 6
    <3>1. Sits(s, 2, (y \o z) \o v) /\ 2 \in Nat /\ c = (y \o z) \o v
      <4>1. 2 + Len(b) = 2
        <5> HIDE DEF b
        <5> QED BY <2>3
      <4>2. Sits(s, 2, c)
        BY <4>1
      <4> QED BY <2>4, <4>2
    <3>0. y \in Seq(Unmarked) /\ z \in Seq(Unmarked) /\ v \in Seq(Unmarked)
      BY <2>5
    <3> DEFINE yz == y \o z
    <3> HIDE DEF y, z, v
    <3>2. yz \in Seq(Unmarked)
      BY <3>0, JoinedIn
    <3>3. Sits(s, 2, yz) /\ Sits(s, 2 + Len(yz), v) /\ 2 + Len(yz \o v) = (2 + Len(yz)) + Len(v)
      <4> HIDE DEF yz
      <4>1. Sits(s, 2, yz \o v)
        BY <3>1 DEF yz
      <4> QED BY <1>0, <3>0, <3>1, <3>2, <4>1, SitsParts
    <3>4. Sits(s, 2, y) /\ Sits(s, 2 + Len(y), z) /\ 2 + Len(yz) = (2 + Len(y)) + Len(z)
      BY <1>0, <3>0, <3>1, <3>3, SitsParts
    <3> HIDE DEF yz
    <3>5. 2 + Len(y) = 4 /\ (2 + Len(y)) + Len(z) = 5 /\ ((2 + Len(y)) + Len(z)) + Len(v) = 6
      BY <2>5
    <3>6. 2 + Len(yz) = 5 /\ 2 + Len(yz \o v) = 6
      BY <3>3, <3>4, <3>5, Zenon
    <3>7. Sits(s, 2, y) /\ Sits(s, 4, z) /\ Sits(s, 5, v)
      BY <3>3, <3>4, <3>5, <3>6, Zenon
    <3>8. c = yz \o v
      BY <3>1 DEF yz
    <3> QED BY <3>6, <3>7, <3>8, Zenon
  <2>7. tok(s, 2) = "TOP" /\ tok(s, 2 + 1) = "(" /\ tok(s, 2 + 2) = NumeralOf(m.limit) /\ tok(s, 2 + 3) = ")"
    <3>1. 2 \in Nat /\ 4 \in Nat /\ 5 \in Nat /\ 2 + 2 = 4 /\ 2 + 3 = 5
      OBVIOUS
    <3>2. Sits(s, 4, <<NumeralOf(m.limit)>>)
      BY <2>6 DEF Limit
    <3>3. tok(s, 2) = "TOP" /\ tok(s, 2 + 1) = "("
      BY <2>6, <3>1, SitsTwo
    <3>4. tok(s, 4) = NumeralOf(m.limit) /\ tok(s, 5) = ")"
      BY <2>6, <3>1, <3>2, SitsOne
    <3> QED BY <3>1, <3>3, <3>4
  <2>8. AtItems(m) = 6
    <3> HIDE DEF b, c
    <3>1. (2 + Len(b)) + Len(c) = 6
      <4>1. 2 + Len(b) = 2
        BY <2>3
      <4> QED BY <2>6, <4>1
    <3> QED BY <3>1, Zenon DEF AtItems, b, c
  <2>9. TopClause(s, Read(2, 0, Stmt(i, f, w, o, NoLimit, x))) = Read(2 + 4, 0, Stmt(i, f, w, o, m.limit, x))
    BY <2>1a, <2>7, TopIsRead
  <2>10. 2 + 4 = 6
    OBVIOUS
  <2> QED BY <2>1b, <2>7, <2>8, <2>9, <2>10
<1>3. CASE ~Limited(m, "top") /\ ~Limited(m, "top()")
  <2>1. b = <<>> /\ Len(b) = 0 /\ c = <<>> /\ Len(c) = 0
    BY <1>3, NoTokens, Zenon DEF TopPart, ParensPart, Clause
  <2>2. AtItems(m) = 2
    <3> HIDE DEF b, c
    <3>1. (2 + Len(b)) + Len(c) = 2
      BY <2>1
    <3> QED BY <3>1, Zenon DEF AtItems, b, c
  <2>3. TopLimit(m) = NoLimit
    BY <1>3, Zenon DEF TopLimit, Limited
  <2>4. 2 \in Nat /\ tok(s, 2) # "TOP"
    BY <2>2
  <2>5. TopClause(s, Read(2, 0, Stmt(i, f, w, o, NoLimit, x))) = Read(2, 0, Stmt(i, f, w, o, NoLimit, x))
    BY <2>4, TopIsRead
  <2> QED BY <2>2, <2>3, <2>5
<1> QED BY <1>1, <1>2, <1>3

\* What can stand behind the condition, and behind the keys.
Lasts == {"ORDER", "LIMIT", "OFFSET", "FETCH", "end"}

\* What may follow a condition ends lists of items and does not continue a condition.
LEMMA LastsAre ==
    /\ \A t \in Lasts \cup {"WHERE"} : t \in Ends /\ t # "FROM"
    /\ \A t \in Lasts : t \notin {"WHERE", "GROUP", "HAVING", "AND", "OR"} /\ t \notin Stops
BY DEF Lasts, Ends, Stops

\* The first item of the select list.
LEMMA FirstItemSits ==
    ASSUME NEW s \in Seq(STRING), NEW m, IsStatement(m), NEW p \in Nat \ {0}, Sits(s, p, ItemsPart(m))
    PROVE  tok(s, p) \notin {"TOP", "DISTINCT", "("}
<1> DEFINE parts == [i \in DOMAIN m.items |-> SpelledItem(m.items[i])]
<1>1. PICK at : Starts(s, p, parts, at)
  BY ListsIn
<1>2. /\ DOMAIN m.items = 1 .. Len(m.items) /\ Len(m.items) \in Nat /\ m.items # <<>>
      /\ Firsts(m.items, 0) = <<>> /\ Firsts(m.items, Len(m.items)) = m.items
      /\ \A i \in DOMAIN m.items : IsItem(m.items[i])
  <2>1. IsSequence(m.items) /\ m.items # <<>> /\ \A i \in DOMAIN m.items : IsItem(m.items[i])
    BY StatementIs
  <2> DEFINE q == m.items
  <2> HIDE DEF q
  <2>2. IsSequence(q)
    BY <2>1 DEF q
  <2>3. DOMAIN q = 1 .. Len(q) /\ Len(q) \in Nat /\ Firsts(q, 0) = <<>> /\ Firsts(q, Len(q)) = q
    BY <2>2, FirstsAre DEF IsSequence
  <2> QED BY <2>1, <2>3 DEF q
<1>3. 1 \in 1 .. Len(m.items)
  <2>1. Len(m.items) # 0
    BY <1>2
  <2> QED BY <1>2, <2>1
<1>4. Len(parts) = Len(m.items) /\ parts[1] = SpelledItem(m.items[1])
  BY <1>2, <1>3
<1> HIDE DEF parts
<1>5. at[1] = p /\ Sits(s, at[1], parts[1])
  BY <1>1, <1>3, <1>4 DEF Starts
<1> DEFINE t == SpelledItem(m.items[1])
<1>6. Len(t) \in Nat /\ Len(t) >= 1 /\ t[1] \notin {"TOP", "DISTINCT", "("}
  BY <1>2, <1>3, ItemIs
<1>7. Sits(s, p, t)
  BY <1>4, <1>5
<1> HIDE DEF t
<1>8. 1 \in 1 .. Len(t) /\ p + (1 - 1) = p
  BY <1>6
<1>9. tok(s, p + (1 - 1)) = t[1]
  BY <1>7, <1>8 DEF Sits
<1> QED BY <1>6, <1>8, <1>9

\* What stands before the condition is read as it was meant.
LEMMA OpeningIsRead ==
    ASSUME NEW s \in Seq(STRING), NEW m, IsStatement(m), Sits(s, 1, Opening(m)),
           m.where = <<>> => tok(s, 1 + Len(Opening(m))) \in Lasts
    PROVE  /\ tok(s, 1) = "SELECT" /\ tok(s, 2) # "DISTINCT"
           /\ select_clauses(s, Read(2, 0, EmptyStmt))
                = Read(AtWhere(m), 0, Stmt(m.items, m.from, NoWhere, <<>>, TopLimit(m), NoLimit))
           /\ m.where = <<>> => 1 + Len(Opening(m)) = AtWhere(m)
           /\ m.where # <<>> => tok(s, AtWhere(m)) = "WHERE" /\ 1 + Len(Opening(m)) = AtWhere(m) + 1
<1>1. /\ tok(s, 1) = "SELECT"
      /\ Sits(s, 2, TopPart(m)) /\ Sits(s, 2 + Len(TopPart(m)), ParensPart(m)) /\ Sits(s, AtItems(m), ItemsPart(m))
      /\ Sits(s, AtFrom(m), FromPart(m)) /\ Sits(s, AtWhere(m), WherePart(m))
      /\ 1 + Len(Opening(m)) = AtWhere(m) + Len(WherePart(m))
  BY OpeningSits
<1>2. AtItems(m) \in Nat \ {0} /\ AtFrom(m) \in Nat \ {0} /\ AtWhere(m) \in Nat \ {0}
  BY OpeningIs
<1>3. /\ m.where = <<>> => 1 + Len(Opening(m)) = AtWhere(m)
      /\ m.where # <<>> => tok(s, AtWhere(m)) = "WHERE" /\ 1 + Len(Opening(m)) = AtWhere(m) + 1
  <2>1. CASE m.where = <<>>
    <3>1. Len(WherePart(m)) = 0
      BY <2>1, NoTokens DEF WherePart, Clause
    <3>2. AtWhere(m) + Len(WherePart(m)) = AtWhere(m)
      BY <1>2, <3>1
    <3> QED BY <1>1, <2>1, <3>2, Zenon
  <2>2. CASE m.where # <<>>
    <3>1. WherePart(m) = <<"WHERE">>
      BY <2>2 DEF WherePart, Clause
    <3>2. Len(WherePart(m)) = 1 /\ Sits(s, AtWhere(m), <<"WHERE">>)
      BY <1>1, <3>1, OneToken
    <3>3. tok(s, AtWhere(m)) = "WHERE"
      BY <1>2, <3>2, SitsOne
    <3> QED BY <1>1, <2>2, <3>2, <3>3
  <2> QED BY <2>1, <2>2
<1>4. tok(s, AtWhere(m)) \in Lasts \cup {"WHERE"}
  BY <1>3
<1>5. tok(s, AtWhere(m)) \in Ends \ {"FROM"}
  BY <1>4, LastsAre
<1>6. tok(s, AtItems(m)) \notin {"TOP", "DISTINCT", "("}
  BY <1>1, <1>2, FirstItemSits
<1> DEFINE f == FALSE
           none == <<>>
           st(i, g, l) == Stmt(i, g, NoWhere, none, l, NoLimit)
<1>7. EmptyStmt = st(none, f, NoLimit)
  BY Zenon DEF EmptyStmt, Stmt
<1> HIDE DEF f, none
<1>8. /\ TopClause(s, Read(2, 0, st(none, f, NoLimit))) = Read(AtItems(m), 0, st(none, f, TopLimit(m)))
      /\ tok(s, 2) = "TOP" \/ AtItems(m) = 2
  BY <1>1, <1>6, TopPartIsRead
<1>9. tok(s, 2) # "DISTINCT"
  BY <1>6, <1>8
<1>10. tok(s, AtFrom(m)) \in Ends
  <2>1. CASE m.from
    <3>1. Sits(s, AtFrom(m), <<"FROM", "T">>) /\ AtFrom(m) \in Nat
      BY <1>1, <1>2, <2>1 DEF FromPart, Clause
    <3>2. tok(s, AtFrom(m)) = "FROM"
      BY <3>1, SitsTwo
    <3> QED BY <3>2 DEF Ends
  <2>2. CASE ~m.from
    <3>1. Len(FromPart(m)) = 0
      BY <2>2, NoTokens DEF FromPart, Clause
    <3>2. AtFrom(m) + Len(FromPart(m)) = AtFrom(m)
      BY <1>2, <3>1
    <3> QED BY <1>5, <3>2 DEF AtWhere
  <2> QED BY <2>1, <2>2
<1>11. ItemsClause(s, Read(AtItems(m), 0, st(none, f, TopLimit(m)))) = Read(AtFrom(m), 0, st(m.items, f, TopLimit(m)))
  <2>1. PICK at : Starts(s, AtItems(m), [i \in DOMAIN m.items |-> SpelledItem(m.items[i])], at)
    BY <1>1, <1>2, ListsIn
  <2>2. tok(s, AtItems(m) + Len(Commas([i \in DOMAIN m.items |-> SpelledItem(m.items[i])]))) \in Ends
    BY <1>10 DEF AtFrom, ItemsPart
  <2>3. IsSequence(m.items) /\ m.items # <<>> /\ (\A i \in DOMAIN m.items : IsItem(m.items[i])) /\ AtItems(m) \in Nat
    BY <1>2, StatementIs
  <2> DEFINE q == m.items
             l == TopLimit(m)
             p == AtItems(m)
  <2> HIDE DEF q, l, p
  <2>4. /\ Starts(s, p, [i \in DOMAIN q |-> SpelledItem(q[i])], at)
        /\ tok(s, p + Len(Commas([i \in DOMAIN q |-> SpelledItem(q[i])]))) \in Ends
        /\ IsSequence(q) /\ q # <<>> /\ (\A i \in DOMAIN q : IsItem(q[i])) /\ p \in Nat
    BY <2>1, <2>2, <2>3 DEF q, p
  <2>5. ItemRounds(s, Read(p, 0, Stmt(<<>>, f, NoWhere, none, l, NoLimit)))[Len(s)]
          = Read(p + Len(Commas([i \in DOMAIN q |-> SpelledItem(q[i])])), 0, Stmt(q, f, NoWhere, none, l, NoLimit))
    BY <2>4, ItemsAreRead
  <2> QED BY <2>5, Zenon DEF ItemsClause, AtFrom, ItemsPart, q, l, p, none
<1>12. FromClause(s, Read(AtFrom(m), 0, st(m.items, f, TopLimit(m)))) = Read(AtWhere(m), 0, st(m.items, m.from, TopLimit(m)))
  <2>1. CASE m.from
    <3>1. FromPart(m) = <<"FROM", "T">>
      BY <2>1 DEF FromPart, Clause
    <3>2. tok(s, AtFrom(m)) = "FROM" /\ tok(s, AtFrom(m) + 1) = "T" /\ AtFrom(m) + 2 = AtWhere(m)
      <4>1. Sits(s, AtFrom(m), <<"FROM", "T">>) /\ AtFrom(m) \in Nat /\ Len(FromPart(m)) = 2
        BY <1>1, <1>2, <3>1, TwoTokens
      <4>2. AtWhere(m) = AtFrom(m) + Len(FromPart(m))
        BY DEF AtWhere
      <4> QED BY <4>1, <4>2, SitsTwo
    <3>3. tok(s, AtFrom(m) + 2) \in Ends \ {"FROM"} /\ AtFrom(m) \in Nat /\ m.from \in BOOLEAN
      BY <1>2, <1>5, <3>2, StatementIs
    <3> DEFINE b == m.from
               i == m.items
               l == TopLimit(m)
    <3> HIDE DEF b, i, l
    <3>4. b = Yes
      BY <2>1, <3>3, Zenon DEF b, Yes
    <3>5. FromClause(s, Read(AtFrom(m), 0, st(i, f, l))) = Read(AtFrom(m) + 2, 0, st(i, b, l))
      BY <3>2, <3>3, <3>4, ObjectIsRead
    <3> QED BY <3>2, <3>5 DEF b, i, l
  <2>2. CASE ~m.from
    <3>1. Len(FromPart(m)) = 0
      BY <2>2, NoTokens DEF FromPart, Clause
    <3>2. AtWhere(m) = AtFrom(m)
      BY <1>2, <3>1 DEF AtWhere
    <3>3. tok(s, AtFrom(m)) # "FROM" /\ AtFrom(m) \in Nat
      BY <1>2, <1>5, <3>2
    <3>4. FromClause(s, Read(AtFrom(m), 0, st(m.items, f, TopLimit(m)))) = Read(AtFrom(m), 0, st(m.items, f, TopLimit(m)))
      BY <3>3, NoObjectIsRead
    <3>5. m.from = f
      <4>1. m.from \in BOOLEAN
        BY StatementIs
      <4> QED BY <2>2, <4>1, Zenon DEF f
    <3> QED BY <3>2, <3>4, <3>5, Zenon
  <2> QED BY <2>1, <2>2
<1>13. select_clauses(s, Read(2, 0, EmptyStmt)) = Read(AtWhere(m), 0, Stmt(m.items, m.from, NoWhere, <<>>, TopLimit(m), NoLimit))
  BY <1>7, <1>8, <1>11, <1>12, Zenon DEF select_clauses, none
<1> QED BY <1>1, <1>3, <1>9, <1>13

------------------------------------------------------------------------------
(* What stands behind the condition *)

\* The parts that can be there, each with its tokens.
LEMMA LimitPartIs ==
    ASSUME NEW s \in Seq(STRING), NEW m, IsStatement(m), NEW p \in Nat, Sits(s, p, LimitPart(m))
    PROVE  /\ Limited(m, "limit") => tok(s, p) = "LIMIT" /\ tok(s, p + 1) = NumeralOf(m.limit) /\ Len(LimitPart(m)) = 2
           /\ ~Limited(m, "limit") => Len(LimitPart(m)) = 0
<1>1. ASSUME Limited(m, "limit")
      PROVE  tok(s, p) = "LIMIT" /\ tok(s, p + 1) = NumeralOf(m.limit) /\ Len(LimitPart(m)) = 2
  <2> DEFINE y == <<"LIMIT">>
             z == Limit(m)
  <2>1. LimitPart(m) = y \o z
    BY <1>1, Zenon DEF LimitPart, Clause
  <2>2. y \in Seq(Unmarked) /\ z \in Seq(Unmarked) /\ Len(y) = 1 /\ Len(z) = 1
    <3>1. m.limit # NoLimit /\ "LIMIT" \in Reserved
      BY <1>1 DEF Limited, Reserved
    <3> QED BY <3>1, LimitIs, ReservedIn, OneToken
  <2>3. Sits(s, p, y) => tok(s, p) = "LIMIT"
    BY SitsOne
  <2>4. Sits(s, p + 1, z) => tok(s, p + 1) = NumeralOf(m.limit)
    <3>1. p + 1 \in Nat
      OBVIOUS
    <3> QED BY <3>1, SitsOne DEF Limit
  <2> HIDE DEF y, z
  <2>5. y \in Seq(Unmarked) /\ z \in Seq(Unmarked)
    BY <2>2
  <2>6. Sits(s, p, y \o z) /\ Len(s) \in Nat
    BY <2>1, TokensAre
  <2>7. Sits(s, p, y) /\ Sits(s, p + Len(y), z)
    BY <2>5, <2>6, SitsParts
  <2>8. p + Len(y) = p + 1
    BY <2>2
  <2>9. Len(y \o z) = Len(y) + Len(z)
    BY <2>5
  <2>10. Len(y \o z) = 2
    BY <2>2, <2>9
  <2> QED BY <2>1, <2>3, <2>4, <2>7, <2>8, <2>10
<1>2. ~Limited(m, "limit") => Len(LimitPart(m)) = 0
  <2>1. ~Limited(m, "limit") => LimitPart(m) = <<>>
    BY Zenon DEF LimitPart, Clause
  <2> QED BY <2>1, NoTokens
<1> QED BY <1>1, <1>2

\* The tokens of OFFSET,
LEMMA OffsetPartIs ==
    ASSUME NEW s \in Seq(STRING), NEW m, IsStatement(m), NEW p \in Nat, Sits(s, p, OffsetPart(m))
    PROVE  /\ m.offset # NoLimit => tok(s, p) = "OFFSET" /\ tok(s, p + 1) = NumeralOf(m.offset) /\ Len(OffsetPart(m)) = 2
           /\ m.offset = NoLimit => Len(OffsetPart(m)) = 0
<1>1. ASSUME m.offset # NoLimit
      PROVE  tok(s, p) = "OFFSET" /\ tok(s, p + 1) = NumeralOf(m.offset) /\ Len(OffsetPart(m)) = 2
  <2>1. OffsetPart(m) = <<"OFFSET", NumeralOf(m.offset)>>
    BY <1>1, Zenon DEF OffsetPart, Clause
  <2>2. Sits(s, p, <<"OFFSET", NumeralOf(m.offset)>>)
    BY <2>1
  <2> QED BY <2>1, <2>2, SitsTwo, TwoTokens
<1>2. m.offset = NoLimit => Len(OffsetPart(m)) = 0
  <2>1. m.offset = NoLimit => OffsetPart(m) = <<>>
    BY Zenon DEF OffsetPart, Clause
  <2> QED BY <2>1, NoTokens
<1> QED BY <1>1, <1>2

\* of the ROWS behind it,
LEMMA RowsPartIs ==
    ASSUME NEW s \in Seq(STRING), NEW m, IsStatement(m), NEW p \in Nat, Sits(s, p, RowsPart(m))
    PROVE  /\ m.offset # NoLimit /\ m.style = "fetch" => tok(s, p) = "ROWS" /\ Len(RowsPart(m)) = 1
           /\ ~(m.offset # NoLimit /\ m.style = "fetch") => Len(RowsPart(m)) = 0
<1>1. ASSUME m.offset # NoLimit /\ m.style = "fetch" PROVE tok(s, p) = "ROWS" /\ Len(RowsPart(m)) = 1
  <2>1. RowsPart(m) = <<"ROWS">>
    BY <1>1, Zenon DEF RowsPart, Clause
  <2>2. Sits(s, p, <<"ROWS">>)
    BY <2>1
  <2> QED BY <2>1, <2>2, SitsOne, OneToken
<1>2. ~(m.offset # NoLimit /\ m.style = "fetch") => Len(RowsPart(m)) = 0
  <2>1. ~(m.offset # NoLimit /\ m.style = "fetch") => RowsPart(m) = <<>>
    BY Zenon DEF RowsPart, Clause
  <2> QED BY <2>1, NoTokens
<1> QED BY <1>1, <1>2

FetchSits(s, p, m) ==
    /\ tok(s, p) = "FETCH" /\ tok(s, p + 1) = "FIRST" /\ tok(s, p + 2) = NumeralOf(m.limit) /\ tok(s, p + 3) = "ROWS"
    /\ tok(s, p + 4) = "ONLY" /\ Len(FetchPart(m)) = 5

\* and of FETCH.
LEMMA FetchPartIs ==
    ASSUME NEW s \in Seq(STRING), NEW m, IsStatement(m), NEW p \in Nat, Sits(s, p, FetchPart(m))
    PROVE  /\ Limited(m, "fetch") => FetchSits(s, p, m)
           /\ ~Limited(m, "fetch") => Len(FetchPart(m)) = 0
<1>1. ASSUME Limited(m, "fetch") PROVE FetchSits(s, p, m)
  <2> DEFINE y == <<"FETCH", "FIRST">>
             z == Limit(m)
             v == <<"ROWS", "ONLY">>
  <2>1. FetchPart(m) = (y \o z) \o v
    BY <1>1, Zenon DEF FetchPart, Clause
  <2>2. y \in Seq(Unmarked) /\ z \in Seq(Unmarked) /\ v \in Seq(Unmarked) /\ Len(y) = 2 /\ Len(z) = 1 /\ Len(v) = 2
    <3>1. m.limit # NoLimit
      BY <1>1 DEF Limited
    <3>2. {"FETCH", "FIRST", "ROWS", "ONLY"} \subseteq Reserved \cup OtherKeywords
      BY DEF Reserved, OtherKeywords
    <3>3. "FETCH" \in Unmarked /\ "FIRST" \in Unmarked /\ "ROWS" \in Unmarked /\ "ONLY" \in Unmarked
      BY <3>2, PlainWords
    <3>4. z \in Seq(Unmarked) /\ Len(z) = 1
      BY <3>1, LimitIs
    <3> QED BY <3>3, <3>4, TwoTokens
  <2>3. Sits(s, p, y) => tok(s, p) = "FETCH" /\ tok(s, p + 1) = "FIRST"
    BY SitsTwo
  <2>4. Sits(s, p + 2, z) => tok(s, p + 2) = NumeralOf(m.limit)
    <3>1. p + 2 \in Nat
      OBVIOUS
    <3> QED BY <3>1, SitsOne DEF Limit
  <2>5. Sits(s, p + 3, v) => tok(s, p + 3) = "ROWS" /\ tok(s, p + 4) = "ONLY"
    <3>1. p + 3 \in Nat /\ (p + 3) + 1 = p + 4
      OBVIOUS
    <3>2. Sits(s, p + 3, v) => tok(s, p + 3) = "ROWS" /\ tok(s, (p + 3) + 1) = "ONLY"
      BY <3>1, SitsTwo
    <3> QED BY <3>1, <3>2
  <2> HIDE DEF y, z, v
  <2>6. y \in Seq(Unmarked) /\ z \in Seq(Unmarked) /\ v \in Seq(Unmarked)
    BY <2>2
  <2> DEFINE yz == y \o z
  <2>7. yz \in Seq(Unmarked) /\ Len(yz) = Len(y) + Len(z)
    BY <2>6
  <2>8. Sits(s, p, yz \o v) /\ Len(s) \in Nat
    BY <2>1, TokensAre
  <2>9. Sits(s, p, yz) /\ Sits(s, p + Len(yz), v) /\ Len(yz \o v) = Len(yz) + Len(v)
    <3>0. yz \in Seq(Unmarked) /\ v \in Seq(Unmarked)
      BY <2>6, <2>7
    <3> HIDE DEF yz
    <3>1. Sits(s, p, yz) /\ Sits(s, p + Len(yz), v)
      BY <3>0, <2>8, SitsParts
    <3>2. Len(yz \o v) = Len(yz) + Len(v)
      BY <3>0
    <3> QED BY <3>1, <3>2
  <2>10. Sits(s, p, y) /\ Sits(s, p + Len(y), z)
    BY <2>6, <2>8, <2>9, SitsParts
  <2> HIDE DEF yz
  <2>11. p + Len(y) = p + 2 /\ p + Len(yz) = p + 3 /\ Len(yz) + Len(v) = 5
    BY <2>2, <2>7
  <2>12. FetchPart(m) = yz \o v
    BY <2>1 DEF yz
  <2>13. Sits(s, p + 2, z) /\ Sits(s, p + 3, v) /\ Len(FetchPart(m)) = 5
    BY <2>9, <2>10, <2>11, <2>12, Zenon
  <2> QED BY <2>3, <2>4, <2>5, <2>10, <2>13, Zenon DEF FetchSits
<1>2. ~Limited(m, "fetch") => Len(FetchPart(m)) = 0
  <2>1. ~Limited(m, "fetch") => FetchPart(m) = <<>>
    BY Zenon DEF FetchPart, Clause
  <2> QED BY <2>1, NoTokens
<1> QED BY <1>1, <1>2

\* The limits, in each of the styles.
LEMMA LimitsAreRead ==
    ASSUME NEW s \in Seq(STRING), NEW m, IsStatement(m), NEW p \in Nat, NEW q \in Nat, NEW r \in Nat, NEW t \in Nat,
           Sits(s, p, LimitPart(m)), q = p + Len(LimitPart(m)), Sits(s, q, OffsetPart(m)), r = q + Len(OffsetPart(m)),
           Sits(s, r, RowsPart(m)), t = r + Len(RowsPart(m)), Sits(s, t, FetchPart(m)), tok(s, t + Len(FetchPart(m))) = "end",
           NEW n, NEW i, NEW f, NEW w, NEW o
    PROVE  /\ FetchClause(s, OffsetClause(s, LimitClause(s, Read(p, n, Stmt(i, f, w, o, TopLimit(m), NoLimit)))))
                = Read(t + Len(FetchPart(m)), n, Stmt(i, f, w, o, m.limit, m.offset))
           /\ tok(s, p) \in {"LIMIT", "OFFSET", "FETCH", "end"}
<1> DEFINE st(l, x) == Stmt(i, f, w, o, l, x)
<1>1. /\ Limited(m, "limit") => tok(s, p) = "LIMIT" /\ tok(s, p + 1) = NumeralOf(m.limit) /\ q = p + 2
      /\ ~Limited(m, "limit") => q = p
  <2>1. /\ Limited(m, "limit") => tok(s, p) = "LIMIT" /\ tok(s, p + 1) = NumeralOf(m.limit) /\ Len(LimitPart(m)) = 2
        /\ ~Limited(m, "limit") => Len(LimitPart(m)) = 0
    BY LimitPartIs, Zenon
  <2>2. p + 0 = p
    OBVIOUS
  <2> QED BY <2>1, <2>2, Zenon
<1>2. /\ m.offset # NoLimit => tok(s, q) = "OFFSET" /\ tok(s, q + 1) = NumeralOf(m.offset) /\ r = q + 2
      /\ m.offset = NoLimit => r = q
  <2>1. /\ m.offset # NoLimit => tok(s, q) = "OFFSET" /\ tok(s, q + 1) = NumeralOf(m.offset) /\ Len(OffsetPart(m)) = 2
        /\ m.offset = NoLimit => Len(OffsetPart(m)) = 0
    BY OffsetPartIs, Zenon
  <2>2. q + 0 = q
    OBVIOUS
  <2> QED BY <2>1, <2>2, Zenon
<1>3. /\ m.offset # NoLimit /\ m.style = "fetch" => tok(s, r) = "ROWS" /\ t = r + 1
      /\ ~(m.offset # NoLimit /\ m.style = "fetch") => t = r
  <2>1. /\ m.offset # NoLimit /\ m.style = "fetch" => tok(s, r) = "ROWS" /\ Len(RowsPart(m)) = 1
        /\ ~(m.offset # NoLimit /\ m.style = "fetch") => Len(RowsPart(m)) = 0
    BY RowsPartIs, Zenon
  <2>2. r + 0 = r
    OBVIOUS
  <2> QED BY <2>1, <2>2, Zenon
<1>4. /\ Limited(m, "fetch") =>
           /\ tok(s, t) = "FETCH" /\ tok(s, t + 1) = "FIRST" /\ tok(s, t + 2) = NumeralOf(m.limit) /\ tok(s, t + 3) = "ROWS"
           /\ tok(s, t + 4) = "ONLY" /\ t + Len(FetchPart(m)) = t + 5
      /\ ~Limited(m, "fetch") => t + Len(FetchPart(m)) = t
  <2>1. Limited(m, "fetch") => FetchSits(s, t, m)
    BY FetchPartIs, Zenon
  <2>2. ~Limited(m, "fetch") => Len(FetchPart(m)) = 0
    BY FetchPartIs, Zenon
  <2>3. t + 0 = t
    OBVIOUS
  <2> QED BY <2>1, <2>2, <2>3, Zenon DEF FetchSits
<1>5. /\ m.limit # NoLimit => m.limit \in Written
      /\ m.offset # NoLimit => m.offset \in Written
  BY LimitIs
<1> DEFINE e == t + Len(FetchPart(m))
<1>6. tok(s, e) = "end"
  OBVIOUS
<1> HIDE DEF e
<1>7. /\ Limited(m, "fetch") => e = t + 5
      /\ ~Limited(m, "fetch") => e = t
  BY <1>4 DEF e
<1>8. CASE Limited(m, "limit")
  <2>1. m.style = "limit" /\ m.limit # NoLimit
    BY <1>8, Zenon DEF Limited
  <2>2. ~Limited(m, "fetch") /\ m.style # "fetch"
    BY <2>1, StylesDiffer, Zenon DEF Limited
  <2>3. e = r /\ t = r
    BY <1>3, <1>7, <2>2
  <2>4. tok(s, p) = "LIMIT" /\ tok(s, p + 1) = NumeralOf(m.limit) /\ q = p + 2 /\ m.limit \in Written
    BY <1>1, <1>5, <1>8, <2>1
  <2>5. CASE m.offset # NoLimit
    <3>1. tok(s, p + 2) = "OFFSET" /\ tok(s, p + 3) = NumeralOf(m.offset) /\ r = p + 4 /\ m.offset \in Written
      BY <1>2, <1>5, <2>4, <2>5
    <3>2. LimitClause(s, Read(p, n, st(TopLimit(m), NoLimit))) = Read(r, n, st(m.limit, m.offset))
      BY <2>4, <3>1, LimitIsRead
    <3>3. tok(s, r) # "OFFSET" /\ tok(s, r) # "FETCH"
      BY <1>6, <2>3
    <3>4. OffsetClause(s, Read(r, n, st(m.limit, m.offset))) = Read(r, n, st(m.limit, m.offset))
      BY <3>3, OffsetIsRead
    <3>5. FetchClause(s, Read(r, n, st(m.limit, m.offset))) = Read(r, n, st(m.limit, m.offset))
      BY <3>3, FetchIsRead
    <3> QED BY <2>3, <2>4, <3>2, <3>4, <3>5 DEF e
  <2>6. CASE m.offset = NoLimit
    <3>1. r = p + 2 /\ tok(s, p + 2) = "end"
      BY <1>2, <1>6, <2>3, <2>4, <2>6
    <3>2. LimitClause(s, Read(p, n, st(TopLimit(m), NoLimit))) = Read(r, n, st(m.limit, NoLimit))
      <4>1. tok(s, p + 2) # "OFFSET"
        BY <3>1
      <4>2. LimitClause(s, Read(p, n, st(TopLimit(m), NoLimit))) = Read(p + 2, n, st(m.limit, NoLimit))
        BY <2>4, <4>1, LimitIsRead
      <4> QED BY <3>1, <4>2
    <3>3. tok(s, r) # "OFFSET" /\ tok(s, r) # "FETCH"
      BY <1>6, <2>3
    <3>4. OffsetClause(s, Read(r, n, st(m.limit, NoLimit))) = Read(r, n, st(m.limit, NoLimit))
      BY <3>3, OffsetIsRead
    <3>5. FetchClause(s, Read(r, n, st(m.limit, NoLimit))) = Read(r, n, st(m.limit, NoLimit))
      BY <3>3, FetchIsRead
    <3> QED BY <2>3, <2>4, <2>6, <3>2, <3>4, <3>5 DEF e
  <2> QED BY <2>5, <2>6
<1>9. CASE ~Limited(m, "limit")
  <2>0. q = p
    BY <1>1, <1>9
  <2>1. tok(s, q) \in {"OFFSET", "FETCH", "end"} /\ tok(s, p) # "LIMIT"
    <3>1. CASE m.offset # NoLimit
      BY <1>2, <2>0, <3>1
    <3>2. CASE m.offset = NoLimit
      <4>1. t = q
        BY <1>2, <1>3, <3>2
      <4>2. tok(s, t) = "FETCH" \/ tok(s, t) = "end"
        BY <1>4, <1>6, <1>7
      <4> QED BY <2>0, <4>1, <4>2
    <3> QED BY <3>1, <3>2
  <2>2. LimitClause(s, Read(p, n, st(TopLimit(m), NoLimit))) = Read(q, n, st(TopLimit(m), NoLimit))
    BY <2>0, <2>1, LimitIsRead
  <2>3. OffsetClause(s, Read(q, n, st(TopLimit(m), NoLimit))) = Read(t, n, st(TopLimit(m), m.offset))
    <3>1. CASE m.offset # NoLimit
      <4>1. tok(s, q) = "OFFSET" /\ tok(s, q + 1) = NumeralOf(m.offset) /\ r = q + 2 /\ m.offset \in Written
        BY <1>2, <1>5, <3>1
      <4>2. OffsetClause(s, Read(q, n, st(TopLimit(m), NoLimit)))
              = Read(IF tok(s, q + 2) \in {"ROWS", "ROW"} THEN q + 3 ELSE q + 2, n, st(TopLimit(m), m.offset))
        BY <4>1, OffsetIsRead
      <4>3. (IF tok(s, q + 2) \in {"ROWS", "ROW"} THEN q + 3 ELSE q + 2) = t
        <5>1. CASE m.style = "fetch"
          BY <1>3, <3>1, <4>1, <5>1
        <5>2. CASE m.style # "fetch"
          <6>1. t = r /\ ~Limited(m, "fetch")
            BY <1>3, <5>2 DEF Limited
          <6>2. tok(s, r) = "end"
            BY <1>6, <1>7, <6>1
          <6> QED BY <4>1, <6>1, <6>2
        <5> QED BY <5>1, <5>2
      <4> QED BY <4>2, <4>3
    <3>2. CASE m.offset = NoLimit
      <4>1. t = q
        BY <1>2, <1>3, <3>2
      <4>2. tok(s, q) # "OFFSET"
        BY <1>4, <1>6, <1>7, <4>1
      <4>3. OffsetClause(s, Read(q, n, st(TopLimit(m), NoLimit))) = Read(q, n, st(TopLimit(m), NoLimit))
        BY <4>2, OffsetIsRead
      <4> QED BY <3>2, <4>1, <4>3
    <3> QED BY <3>1, <3>2
  <2>4. FetchClause(s, Read(t, n, st(TopLimit(m), m.offset))) = Read(e, n, st(m.limit, m.offset))
    <3>1. CASE Limited(m, "fetch")
      <4>1. m.limit \in Written
        BY <1>5, <3>1 DEF Limited
      <4>2. tok(s, t) = "FETCH" /\ tok(s, t + 1) = "FIRST" /\ tok(s, t + 2) = NumeralOf(m.limit) /\ tok(s, t + 3) = "ROWS"
            /\ tok(s, t + 4) = "ONLY"
        BY <1>4, <3>1
      <4>3. FetchClause(s, Read(t, n, st(TopLimit(m), m.offset))) = Read(t + 5, n, st(m.limit, m.offset))
        BY <4>1, <4>2, FetchIsRead
      <4> QED BY <1>7, <3>1, <4>3
    <3>2. CASE ~Limited(m, "fetch")
      <4>1. tok(s, t) # "FETCH" /\ e = t
        BY <1>6, <1>7, <3>2
      <4>2. TopLimit(m) = m.limit
        <5>1. m.style \in {"top", "top()", "limit", "fetch"}
          BY StatementIs
        <5>2. CASE m.style \in {"top", "top()"}
          BY <5>2, Zenon DEF TopLimit
        <5>3. CASE m.style \in {"limit", "fetch"}
          <6>1. m.limit = NoLimit
            BY <1>9, <3>2, <5>3 DEF Limited
          <6> QED BY <6>1, Zenon DEF TopLimit
        <5> QED BY <5>1, <5>2, <5>3
      <4>3. FetchClause(s, Read(t, n, st(TopLimit(m), m.offset))) = Read(t, n, st(TopLimit(m), m.offset))
        BY <4>1, FetchIsRead
      <4> QED BY <4>1, <4>2, <4>3
    <3> QED BY <3>1, <3>2
  <2> QED BY <2>0, <2>1, <2>2, <2>3, <2>4 DEF e
<1> QED BY <1>8, <1>9

\* Five parts in a row.
FiveSit(s, p, a, b, c, d, e) ==
    /\ Sits(s, p, a) /\ Sits(s, p + Len(a), b) /\ Sits(s, (p + Len(a)) + Len(b), c)
    /\ Sits(s, ((p + Len(a)) + Len(b)) + Len(c), d)
    /\ Sits(s, (((p + Len(a)) + Len(b)) + Len(c)) + Len(d), e)
    /\ p + Len((((a \o b) \o c) \o d) \o e) = ((((p + Len(a)) + Len(b)) + Len(c)) + Len(d)) + Len(e)

\* Five parts that sit at a place sit one behind the other.
LEMMA SitsFive ==
    ASSUME NEW s, NEW p \in Nat, NEW S, NEW a \in Seq(S), NEW b \in Seq(S), NEW c \in Seq(S), NEW d \in Seq(S), NEW e \in Seq(S),
           Sits(s, p, (((a \o b) \o c) \o d) \o e), Len(s) \in Nat
    PROVE  FiveSit(s, p, a, b, c, d, e)
<1> DEFINE ab == a \o b
           abc == ab \o c
           abcd == abc \o d
<1>1. ab \in Seq(S)
  BY JoinedIn
<1>2. abc \in Seq(S)
  <2> HIDE DEF ab
  <2> QED BY <1>1, JoinedIn
<1>3. abcd \in Seq(S)
  <2> HIDE DEF abc
  <2> QED BY <1>2, JoinedIn
<1>6. Sits(s, p, abcd) /\ Sits(s, p + Len(abcd), e) /\ p + Len(abcd \o e) = (p + Len(abcd)) + Len(e)
  <2> HIDE DEF abcd
  <2>1. Sits(s, p, abcd \o e)
    BY DEF abcd
  <2> QED BY <1>3, <2>1, SitsParts
<1>7. Sits(s, p, abc) /\ Sits(s, p + Len(abc), d) /\ p + Len(abcd) = (p + Len(abc)) + Len(d)
  <2> HIDE DEF abc
  <2> QED BY <1>2, <1>6, SitsParts
<1>8. Sits(s, p, ab) /\ Sits(s, p + Len(ab), c) /\ p + Len(abc) = (p + Len(ab)) + Len(c)
  <2> HIDE DEF ab
  <2> QED BY <1>1, <1>7, SitsParts
<1>9. Sits(s, p, a) /\ Sits(s, p + Len(a), b) /\ p + Len(ab) = (p + Len(a)) + Len(b)
  BY <1>8, SitsParts
<1> HIDE DEF ab, abc, abcd
<1>10. /\ Sits(s, (p + Len(a)) + Len(b), c) /\ Sits(s, ((p + Len(a)) + Len(b)) + Len(c), d)
       /\ Sits(s, (((p + Len(a)) + Len(b)) + Len(c)) + Len(d), e)
       /\ p + Len(abcd \o e) = ((((p + Len(a)) + Len(b)) + Len(c)) + Len(d)) + Len(e)
  BY <1>6, <1>7, <1>8, <1>9, Zenon
<1> QED BY <1>9, <1>10, Zenon DEF FiveSit, ab, abc, abcd

\* The keys, if there are any.
LEMMA OrderIsRead ==
    ASSUME NEW s \in Seq(STRING), NEW m, IsStatement(m), NEW p \in Nat, Sits(s, p, OrderPart(m)),
           tok(s, p + Len(OrderPart(m))) \in Ends \ {"ORDER"}, NEW n, NEW i, NEW f, NEW w, NEW l, NEW x
    PROVE  /\ OrderClause(s, Read(p, n, Stmt(i, f, w, <<>>, l, x))) = Read(p + Len(OrderPart(m)), n, Stmt(i, f, w, m.order_by, l, x))
           /\ tok(s, p) = "ORDER" \/ p = p + Len(OrderPart(m))
<1> DEFINE none == <<>>
           st == Stmt(i, f, w, none, l, x)
           r == Read(p, n, st)
<1>0. Len(s) \in Nat
  BY TokensAre
<1>1. r.p = p /\ r.n = n /\ r.v = st /\ r.ok
  BY ReadIs
<1>2. CASE m.order_by = <<>>
  <2>1. Len(OrderPart(m)) = 0
    BY <1>2, NoTokens DEF OrderPart, Clause
  <2>2. p + Len(OrderPart(m)) = p
    BY <2>1
  <2>3. tok(s, p) # "ORDER"
    BY <2>2
  <2> HIDE DEF r
  <2>4. OrderClause(s, r) = r
    BY <1>1, <2>3 DEF OrderClause
  <2> QED BY <1>2, <2>2, <2>4, Zenon DEF r, none
<1>3. CASE m.order_by # <<>>
  <2> DEFINE y == <<"ORDER", "BY">>
             z == KeysPart(m)
  <2>1. OrderPart(m) = y \o z
    BY <1>3, Zenon DEF OrderPart, Clause
  <2>2. y \in Seq(Unmarked) /\ z \in Seq(Unmarked) /\ Len(y) = 2
    BY <1>3, ListsIn, PlainWords, TwoTokens DEF Reserved
  <2>3. Sits(s, p, y) => tok(s, p) = "ORDER" /\ tok(s, p + 1) = "BY"
    BY SitsTwo
  <2> HIDE DEF y, z
  <2>4. y \in Seq(Unmarked) /\ z \in Seq(Unmarked) /\ Sits(s, p, y \o z)
    BY <2>1, <2>2
  <2>5. Sits(s, p, y) /\ Sits(s, p + Len(y), z) /\ p + Len(y \o z) = (p + Len(y)) + Len(z)
    BY <1>0, <2>4, SitsParts
  <2>6. p + Len(y) = p + 2
    BY <2>2
  <2> DEFINE e == p + Len(OrderPart(m))
  <2>7. Sits(s, p + 2, z) /\ e = (p + 2) + Len(z)
    BY <2>1, <2>5, <2>6, Zenon
  <2> DEFINE q == m.order_by
             k == p + 2
  <2>8. k \in Nat \ {0}
    OBVIOUS
  <2>9. PICK at : Starts(s, k, [g \in DOMAIN m.order_by |-> SpelledKey(m.order_by[g])], at)
    <3> HIDE DEF k
    <3>1. Sits(s, k, KeysPart(m))
      BY <2>7 DEF k, z
    <3> QED BY <1>3, <2>8, <3>1, ListsIn
  <2>10. IsSequence(q) /\ q # <<>> /\ \A g \in DOMAIN q : IsKey(q[g])
    BY <1>3, StatementIs
  <2>11. z = Commas([g \in DOMAIN q |-> SpelledKey(q[g])])
    BY Zenon DEF z, KeysPart
  <2>12. tok(s, e) \in Ends
    OBVIOUS
  <2> HIDE DEF e, q, k
  <2>13. e = k + Len(Commas([g \in DOMAIN q |-> SpelledKey(q[g])]))
    BY <2>7, <2>11 DEF k
  <2>14. KeyRounds(s, Read(k, n, Stmt(i, f, w, <<>>, l, x)))[Len(s)]
            = Read(k + Len(Commas([g \in DOMAIN q |-> SpelledKey(q[g])])), n, Stmt(i, f, w, q, l, x))
    <3>1. Starts(s, k, [g \in DOMAIN q |-> SpelledKey(q[g])], at)
      BY <2>9, Zenon DEF q
    <3>2. tok(s, k + Len(Commas([g \in DOMAIN q |-> SpelledKey(q[g])]))) \in Ends /\ k \in Nat
      BY <2>8, <2>12, <2>13
    <3> QED BY <2>10, <3>1, <3>2, KeysAreRead
  <2>15. OrderClause(s, r) = KeyRounds(s, Read(k, n, st))[Len(s)]
    <3>1. tok(s, p) = "ORDER" /\ tok(s, p + 1) = "BY"
      BY <2>3, <2>5
    <3> HIDE DEF r, st
    <3> QED BY <1>1, <3>1, Zenon DEF OrderClause, k
  <2>16. OrderClause(s, r) = Read(e, n, Stmt(i, f, w, q, l, x))
    BY <2>13, <2>14, <2>15, Zenon DEF st, none
  <2> QED BY <2>3, <2>5, <2>16, Zenon DEF e, q, r, st, none
<1> QED BY <1>2, <1>3

\* What stands behind the condition is read as it was meant.
LEMMA ClosingIsRead ==
    ASSUME NEW s \in Seq(STRING), NEW m, IsStatement(m), NEW p \in Nat, Sits(s, p, Closing(m)), p + Len(Closing(m)) = Len(s) + 1,
           NEW n, NEW w
    PROVE  /\ tok(s, p) \in Lasts
           /\ last_clauses(s, Read(p, n, Stmt(m.items, m.from, w, <<>>, TopLimit(m), NoLimit)))
                = Read(Len(s) + 1, n, Stmt(m.items, m.from, w, m.order_by, m.limit, m.offset))
<1> DEFINE a == OrderPart(m)
           b == LimitPart(m)
           c == OffsetPart(m)
           d == RowsPart(m)
           e == FetchPart(m)
<1>1. a \in Seq(Unmarked) /\ b \in Seq(Unmarked) /\ c \in Seq(Unmarked) /\ d \in Seq(Unmarked) /\ e \in Seq(Unmarked)
  BY PartsIn, ListsIn
<1>2. Closing(m) = (((a \o b) \o c) \o d) \o e
  BY PartsAre
<1>3. Len(s) \in Nat /\ tok(s, Len(s) + 1) = "end"
  BY TokensAre
<1> HIDE DEF a, b, c, d, e
<1>4. FiveSit(s, p, a, b, c, d, e)
  <2>1. Sits(s, p, (((a \o b) \o c) \o d) \o e)
    BY <1>2
  <2> QED BY <1>1, <1>3, <2>1, SitsFive
<1> DEFINE pb == p + Len(a)
           pc == pb + Len(b)
           pd == pc + Len(c)
           pe == pd + Len(d)
<1>5. pb \in Nat /\ pc \in Nat /\ pd \in Nat /\ pe \in Nat
  <2>1. Len(a) \in Nat /\ Len(b) \in Nat /\ Len(c) \in Nat /\ Len(d) \in Nat
    BY <1>1
  <2> QED BY <2>1
<1>6. Sits(s, p, a) /\ Sits(s, pb, b) /\ Sits(s, pc, c) /\ Sits(s, pd, d) /\ Sits(s, pe, e) /\ pe + Len(e) = Len(s) + 1
  BY <1>2, <1>4, Zenon DEF FiveSit
<1>7. pb = p + Len(OrderPart(m)) /\ pc = pb + Len(LimitPart(m)) /\ pd = pc + Len(OffsetPart(m)) /\ pe = pd + Len(RowsPart(m))
  BY DEF a, b, c, d
<1> HIDE DEF pb, pc, pd, pe
<1> DEFINE i == m.items
           f == m.from
           o == m.order_by
           end == Len(s) + 1
<1> HIDE DEF i, f, o, end
<1>8. /\ Sits(s, pb, LimitPart(m)) /\ Sits(s, pc, OffsetPart(m)) /\ Sits(s, pd, RowsPart(m)) /\ Sits(s, pe, FetchPart(m))
      /\ tok(s, pe + Len(FetchPart(m))) = "end" /\ pe + Len(FetchPart(m)) = end
  BY <1>3, <1>6 DEF b, c, d, e, end
<1>9. /\ FetchClause(s, OffsetClause(s, LimitClause(s, Read(pb, n, Stmt(i, f, w, o, TopLimit(m), NoLimit)))))
           = Read(end, n, Stmt(i, f, w, o, m.limit, m.offset))
      /\ tok(s, pb) \in {"LIMIT", "OFFSET", "FETCH", "end"}
  <2>1. FetchClause(s, OffsetClause(s, LimitClause(s, Read(pb, n, Stmt(i, f, w, o, TopLimit(m), NoLimit)))))
           = Read(pe + Len(FetchPart(m)), n, Stmt(i, f, w, o, m.limit, m.offset))
    BY <1>5, <1>7, <1>8, LimitsAreRead
  <2>2. tok(s, pb) \in {"LIMIT", "OFFSET", "FETCH", "end"}
    BY <1>5, <1>7, <1>8, LimitsAreRead, Zenon
  <2> QED BY <1>8, <2>1, <2>2
<1>10. tok(s, pb) \in Ends \ {"ORDER"} /\ tok(s, pb) \in Lasts
  BY <1>9 DEF Ends, Lasts
<1>11. /\ OrderClause(s, Read(p, n, Stmt(i, f, w, <<>>, TopLimit(m), NoLimit))) = Read(pb, n, Stmt(i, f, w, o, TopLimit(m), NoLimit))
       /\ tok(s, p) = "ORDER" \/ p = pb
  <2> DEFINE l == TopLimit(m)
             x == NoLimit
  <2> HIDE DEF l, x
  <2>1. tok(s, p + Len(OrderPart(m))) \in Ends \ {"ORDER"} /\ Sits(s, p, OrderPart(m))
    BY <1>6, <1>7, <1>10 DEF a
  <2>2. /\ OrderClause(s, Read(p, n, Stmt(i, f, w, <<>>, l, x))) = Read(p + Len(OrderPart(m)), n, Stmt(i, f, w, m.order_by, l, x))
        /\ tok(s, p) = "ORDER" \/ p = p + Len(OrderPart(m))
    BY <2>1, OrderIsRead
  <2> QED BY <1>7, <2>2, Zenon DEF l, x, o
<1>12. tok(s, p) \in Lasts
  BY <1>10, <1>11 DEF Lasts
<1>13. last_clauses(s, Read(p, n, Stmt(i, f, w, <<>>, TopLimit(m), NoLimit))) = Read(end, n, Stmt(i, f, w, o, m.limit, m.offset))
  BY <1>9, <1>11, Zenon DEF last_clauses
<1> QED BY <1>12, <1>13 DEF i, f, o, end

------------------------------------------------------------------------------
(* The text of a statement *)

\* Where the condition begins, and where it ends.
AtCondition(m) == 1 + Len(Opening(m))
AtClosing(m) == AtCondition(m) + Len(m.where)

\* Tokens without markers are tokens.
LEMMA UnmarkedIn == \A t \in Seq(Unmarked) : t \in Seq(STRING) /\ \A k \in 1 .. Len(t) : t[k] # "param"
BY DEF Unmarked

\* The tokens of a condition: none of them begins another clause.
LEMMA WhereIn ==
    ASSUME NEW m, IsStatement(m)
    PROVE  /\ m.where \in Seq(STRING) /\ Len(m.where) \in Nat /\ DOMAIN m.where = 1 .. Len(m.where)
           /\ \A k \in 1 .. Len(m.where) : m.where[k] \notin ClauseWords
           /\ m.where = <<>> <=> Len(m.where) = 0
<1> DEFINE w == m.where
           S == STRING \ ClauseWords
<1>1. w \in Seq(S)
  BY StatementIs
<1>2. \A t \in S : t \in STRING /\ t \notin ClauseWords
  OBVIOUS
<1> HIDE DEF w, S
<1>3. w \in Seq(STRING) /\ Len(w) \in Nat /\ DOMAIN w = 1 .. Len(w)
  BY <1>1, <1>2
<1>4. \A k \in 1 .. Len(w) : w[k] \in S
  BY <1>1
<1>5. w = <<>> <=> Len(w) = 0
  BY <1>1
<1> QED BY <1>2, <1>3, <1>4, <1>5 DEF w

\* The closing, from ORDER BY to FETCH, has no markers.
LEMMA ClosingIn ==
    ASSUME NEW m, IsStatement(m)
    PROVE  Closing(m) \in Seq(Unmarked)
<1> DEFINE a == OrderPart(m)
           b == LimitPart(m)
           c == OffsetPart(m)
           d == RowsPart(m)
           e == FetchPart(m)
<1>1. a \in Seq(Unmarked) /\ b \in Seq(Unmarked) /\ c \in Seq(Unmarked) /\ d \in Seq(Unmarked) /\ e \in Seq(Unmarked)
  BY PartsIn, ListsIn
<1>2. Closing(m) = (((a \o b) \o c) \o d) \o e
  BY PartsAre
<1> HIDE DEF a, b, c, d, e
<1>3. (a \o b) \o c \in Seq(Unmarked)
  BY <1>1, JoinedIn
<1> QED BY <1>1, <1>2, <1>3, JoinedIn

\* The three parts of a text.
LEMMA SpellingSits ==
    ASSUME NEW m, IsStatement(m)
    PROVE  LET s == Spelling(m)
           IN  /\ s \in Seq(STRING) /\ Len(s) \in Nat
               /\ AtCondition(m) \in Nat \ {0} /\ AtClosing(m) \in Nat \ {0}
               /\ AtCondition(m) <= AtClosing(m) /\ AtClosing(m) <= Len(s) + 1
               /\ Sits(s, 1, Opening(m)) /\ Sits(s, AtCondition(m), m.where) /\ Sits(s, AtClosing(m), Closing(m))
               /\ AtClosing(m) + Len(Closing(m)) = Len(s) + 1
<1> DEFINE a == Opening(m)
           w == m.where
           c == Closing(m)
           s == Spelling(m)
           aw == a \o w
<1>1. a \in Seq(STRING) /\ w \in Seq(STRING) /\ c \in Seq(STRING)
  BY OpeningIs, ClosingIn, WhereIn, UnmarkedIn
<1>2. s = aw \o c
  BY PartsAre
<1> HIDE DEF a, w, c, s
<1>3. aw \in Seq(STRING) /\ Len(a) \in Nat /\ Len(w) \in Nat /\ Len(c) \in Nat
  BY <1>1
<1>4. s \in Seq(STRING) /\ Len(s) \in Nat
  <2> HIDE DEF aw
  <2>1. aw \o c \in Seq(STRING)
    BY <1>1, <1>3, JoinedIn
  <2> QED BY <1>2, <2>1
<1> DEFINE p == 1
<1>5. p \in Nat /\ Sits(s, p, s)
  BY <1>4, SitsItself
<1> HIDE DEF p
<1>6. Sits(s, p, aw) /\ Sits(s, p + Len(aw), c) /\ p + Len(aw \o c) = (p + Len(aw)) + Len(c)
  <2> HIDE DEF aw
  <2>1. Sits(s, p, aw \o c)
    BY <1>2, <1>5
  <2> QED BY <1>1, <1>3, <1>4, <1>5, <2>1, SitsParts
<1>7. Sits(s, p, a) /\ Sits(s, p + Len(a), w) /\ p + Len(aw) = (p + Len(a)) + Len(w)
  BY <1>1, <1>4, <1>5, <1>6, SitsParts
<1> HIDE DEF aw
<1>8. AtCondition(m) = p + Len(a) /\ AtClosing(m) = (p + Len(a)) + Len(w)
  BY DEF AtCondition, AtClosing, p, a, w
<1>9. /\ p + Len(a) \in Nat \ {0} /\ (p + Len(a)) + Len(w) \in Nat \ {0}
      /\ p + Len(a) <= (p + Len(a)) + Len(w)
  BY <1>3 DEF p
<1>10. Sits(s, AtClosing(m), c) /\ Sits(s, AtCondition(m), w)
  BY <1>6, <1>7, <1>8, Zenon
<1>11. AtClosing(m) + Len(c) = Len(s) + 1
  <2>1. p + Len(s) = AtClosing(m) + Len(c)
    BY <1>2, <1>6, <1>7, <1>8, Zenon
  <2> QED BY <1>4, <2>1 DEF p
<1>12. AtClosing(m) <= Len(s) + 1 /\ AtCondition(m) \in Nat \ {0} /\ AtClosing(m) \in Nat \ {0} /\ AtCondition(m) <= AtClosing(m)
  BY <1>3, <1>4, <1>8, <1>9, <1>11
<1> QED BY <1>4, <1>7, <1>10, <1>11, <1>12 DEF a, w, c, s, p

\* The tokens of the condition.
LEMMA ConditionTokens ==
    ASSUME NEW m, IsStatement(m)
    PROVE  LET s == Spelling(m)
           IN  /\ \A k \in 1 .. Len(m.where) : s[AtCondition(m) + (k - 1)] = m.where[k]
               /\ \A i \in AtCondition(m) .. AtClosing(m) - 1 : i \in 1 .. Len(s) /\ tok(s, i) = s[i] /\ s[i] \notin ClauseWords
<1> DEFINE s == Spelling(m)
           w == m.where
           a == AtCondition(m)
           c == AtClosing(m)
<1>1. /\ s \in Seq(STRING) /\ Len(s) \in Nat /\ a \in Nat \ {0} /\ c \in Nat \ {0} /\ a <= c /\ c <= Len(s) + 1
      /\ Sits(s, a, w)
  BY SpellingSits
<1>2. Len(w) \in Nat /\ c = a + Len(w) /\ \A k \in 1 .. Len(w) : w[k] \notin ClauseWords
  BY WhereIn DEF AtClosing
<1> HIDE DEF s, w, a, c
<1>3. \A k \in 1 .. Len(w) : tok(s, a + (k - 1)) = w[k]
  BY <1>1 DEF Sits
<1>4. \A i \in a .. c - 1 : i \in 1 .. Len(s) /\ (i - a) + 1 \in 1 .. Len(w) /\ a + (((i - a) + 1) - 1) = i
  BY <1>1, <1>2
<1>5. \A i \in a .. c - 1 : tok(s, i) = s[i]
  BY <1>1, <1>4, TokensAre
<1>6. ASSUME NEW i \in a .. c - 1 PROVE s[i] \notin ClauseWords
  <2>1. tok(s, a + (((i - a) + 1) - 1)) = w[(i - a) + 1] /\ w[(i - a) + 1] \notin ClauseWords
    BY <1>2, <1>3, <1>4
  <2> QED BY <1>4, <1>5, <2>1
<1>7. ASSUME NEW k \in 1 .. Len(w) PROVE s[a + (k - 1)] = w[k]
  <2>1. a + (k - 1) \in a .. c - 1
    BY <1>1, <1>2
  <2> QED BY <1>3, <1>5, <2>1
<1> QED BY <1>4, <1>5, <1>6, <1>7 DEF s, w, a, c

\* Only the condition has markers.
LEMMA SpellingMarkers ==
    ASSUME NEW m, IsStatement(m)
    PROVE  /\ Marker(Spelling(m), AtCondition(m)) = 0
           /\ Marker(Spelling(m), AtClosing(m)) = Markers(m.where)
<1> DEFINE s == Spelling(m)
           w == m.where
           a == AtCondition(m)
           o == Opening(m)
<1>1. s \in Seq(STRING) /\ Len(s) \in Nat /\ a \in Nat \ {0} /\ a <= Len(s) + 1 /\ Sits(s, 1, o)
  BY SpellingSits
<1>2. Len(w) \in Nat /\ DOMAIN w = 1 .. Len(w) /\ AtClosing(m) = a + Len(w) /\ \A k \in 1 .. Len(w) : s[a + (k - 1)] = w[k]
  BY WhereIn, ConditionTokens DEF AtClosing
<1>3. /\ o \in Seq(Unmarked) /\ a = 1 + Len(o)
  BY OpeningIs DEF AtCondition
<1>4. Markers(w) = Marker(w, Len(w) + 1)
  <2> HIDE DEF w
  <2>1. 1 .. (Len(w) + 1) - 1 = DOMAIN w
    BY <1>2
  <2> QED BY <2>1 DEF Markers, Marker
<1> HIDE DEF s, w, a, o
<1>5. Len(o) \in Nat /\ \A k \in 1 .. Len(o) : o[k] # "param"
  BY <1>3, UnmarkedIn
<1>6. \A k \in 1 .. Len(o) : s[k] # "param"
  <2> TAKE k \in 1 .. Len(o)
  <2>1. 1 + (k - 1) = k /\ k \in 1 .. Len(s)
    BY <1>1, <1>3, <1>5
  <2>2. tok(s, 1 + (k - 1)) = o[k]
    BY <1>1 DEF Sits
  <2>3. tok(s, k) = s[k]
    BY <1>1, <2>1, TokensAre
  <2> QED BY <1>5, <2>1, <2>2, <2>3
<1>7. Marker(s, a) = 0
  <2> DEFINE R == {k \in 0 .. Len(o) : Marker(s, k + 1) = 0}
  <2>1. 0 \in R
    BY <1>5, MarkersCount
  <2>2. ASSUME NEW k \in 1 .. Len(o), k - 1 \in R PROVE k \in R
    <3>1. Marker(s, (k - 1) + 1) = 0 /\ (k - 1) + 1 = k /\ k \in Nat /\ k > 0 /\ s[k] # "param"
      BY <1>5, <1>6, <2>2
    <3>2. Marker(s, k + 1) = Marker(s, k)
      BY <3>1, MarkerStays
    <3> QED BY <1>5, <3>1, <3>2
  <2>3. Len(o) \in R
    <3> HIDE DEF R
    <3> QED BY <1>5, <2>1, <2>2, InductionUpTo
  <2>4. Marker(s, Len(o) + 1) = 0 /\ a = Len(o) + 1
    BY <1>3, <1>5, <2>3
  <2> QED BY <2>4
<1>8. Marker(s, a + Len(w)) = Marker(w, Len(w) + 1)
  <2> DEFINE R == {k \in 0 .. Len(w) : Marker(s, a + k) = Marker(w, k + 1)}
  <2>1. 0 \in R
    <3>1. Marker(w, 1) = 0 /\ a + 0 = a /\ 0 + 1 = 1
      BY <1>1, MarkersCount
    <3> QED BY <1>2, <1>7, <3>1
  <2>2. ASSUME NEW k \in 1 .. Len(w), k - 1 \in R PROVE k \in R
    <3>1. a + (k - 1) \in Nat \ {0} /\ (a + (k - 1)) + 1 = a + k /\ k \in Nat \ {0} /\ (k - 1) + 1 = k
      BY <1>1, <1>2
    <3>2. Marker(s, a + (k - 1)) = Marker(w, k) /\ s[a + (k - 1)] = w[k]
      BY <1>2, <2>2, <3>1
    <3>3. Marker(s, (a + (k - 1)) + 1) = Marker(s, a + (k - 1)) + IF s[a + (k - 1)] = "param" THEN 1 ELSE 0
      BY <3>1, MarkersCount
    <3>4. Marker(w, k + 1) = Marker(w, k) + IF w[k] = "param" THEN 1 ELSE 0
      BY <3>1, MarkersCount
    <3>5. Marker(s, a + k) = Marker(w, k + 1)
      BY <3>1, <3>2, <3>3, <3>4
    <3> QED BY <1>2, <3>5
  <2>3. Len(w) \in R
    <3> HIDE DEF R
    <3> QED BY <1>2, <2>1, <2>2, InductionUpTo
  <2> QED BY <2>3
<1>9. AtClosing(m) = a + Len(w)
  BY <1>2
<1>10. Marker(s, AtClosing(m)) = Markers(w)
  BY <1>4, <1>8, <1>9
<1>11. Marker(Spelling(m), AtCondition(m)) = 0 /\ Marker(Spelling(m), AtClosing(m)) = Markers(m.where)
  BY <1>7, <1>10 DEF s, w, a
<1> QED BY <1>11

\* The text is one that the parser reads to its end.
LEMMA SpellingIsText ==
    ASSUME NEW m, IsStatement(m)
    PROVE  IsText(Spelling(m))
<1> DEFINE s == Spelling(m)
<1>1. s \in Seq(STRING) /\ Len(s) \in Nat /\ DOMAIN s = 1 .. Len(s)
  BY SpellingSits, TokensAre
<1>2. Cardinality({i \in DOMAIN s : s[i] \in Connectives}) <= Deepest
  BY StatementIs
<1> HIDE DEF s
<1>3. 1 .. (Len(s) + 1) - 1 = DOMAIN s
  BY <1>1
<1>4. Connected(s, Len(s) + 1) = Cardinality({i \in DOMAIN s : s[i] \in Connectives})
  BY <1>3 DEF Connected, Count
<1> QED BY <1>1, <1>2, <1>4 DEF IsText, s

------------------------------------------------------------------------------
(* The statement *)

\* The condition, if there is one.
LEMMA WhereIsRead ==
    ASSUME NEW s, NEW p, NEW n, NEW i, NEW f, NEW w, NEW o, NEW l, NEW x, tok(s, p) = "WHERE"
    PROVE  LET r == parse_condition(s, p + 1, n)
           IN  /\ ~r.ok => ~WhereClause(s, Read(p, n, Stmt(i, f, w, o, l, x))).ok
               /\ r.ok /\ tok(s, r.p) \notin {"GROUP", "HAVING"} =>
                    WhereClause(s, Read(p, n, Stmt(i, f, w, o, l, x))) = Read(r.p, r.n, Stmt(i, f, r.v, o, l, x))
               /\ r.ok /\ tok(s, r.p) \in {"GROUP", "HAVING"} => ~WhereClause(s, Read(p, n, Stmt(i, f, w, o, l, x))).ok
<1> DEFINE r == parse_condition(s, p + 1, n)
           st == Stmt(i, f, w, o, l, x)
           all == Read(p, n, st)
           T == {"GROUP", "HAVING"}
<1>1. all.p = p /\ all.n = n /\ all.v = st /\ all.ok
  BY ReadIs
<1>2. [st EXCEPT !.where = r.v] = Stmt(i, f, r.v, o, l, x)
  <2> DEFINE y == r.v
  <2> HIDE DEF y
  <2>1. [st EXCEPT !.where = y] = Stmt(i, f, y, o, l, x)
    BY StmtIs
  <2> QED BY <2>1 DEF y
<1>3. ~Error.ok
  BY ReadIs
<1>4. WhereClause(s, all) = Unless(s, WithWhere(all, parse_condition(s, all.p + 1, all.n)), T)
  <2> HIDE DEF all
  <2> QED BY <1>1, Zenon DEF WhereClause, T
<1> DEFINE c == WithWhere(all, r)
<1>5. WhereClause(s, all) = Unless(s, c, T)
  BY <1>1, <1>4, Zenon
<1>6. r.ok => c = Read(r.p, r.n, Stmt(i, f, r.v, o, l, x))
  <2> HIDE DEF r, all, st
  <2> QED BY <1>1, <1>2, Zenon DEF WithWhere
<1>7. ~r.ok => c = Error
  <2> HIDE DEF r, all, st
  <2> QED BY Zenon DEF WithWhere
<1>8. r.ok => c.ok /\ c.p = r.p
  <2> HIDE DEF c, r
  <2> QED BY <1>6, ReadIs
<1> HIDE DEF r, c, all, st, T
<1>9. ~r.ok => ~WhereClause(s, all).ok
  BY <1>3, <1>5, <1>7, Zenon DEF Unless
<1>10. r.ok /\ tok(s, r.p) \notin T => WhereClause(s, all) = c
  BY <1>5, <1>8, Zenon DEF Unless
<1>11. r.ok /\ tok(s, r.p) \in T => ~WhereClause(s, all).ok
  BY <1>3, <1>5, <1>8, Zenon DEF Unless
<1> QED BY <1>6, <1>9, <1>10, <1>11, Zenon DEF r, all, st, T

\* Without WHERE, GROUP or HAVING the clause of conditions is passed over.
LEMMA NoWhereIsRead ==
    ASSUME NEW s, NEW p, NEW n, NEW v, tok(s, p) \notin {"WHERE", "GROUP", "HAVING"}
    PROVE  WhereClause(s, Read(p, n, v)) = Read(p, n, v)
<1> DEFINE r == Read(p, n, v)
           T == {"GROUP", "HAVING"}
<1>1. r.p = p /\ tok(s, p) # "WHERE" /\ tok(s, p) \notin T
  BY ReadIs
<1> HIDE DEF r
<1>2. WhereClause(s, r) = Unless(s, r, T)
  BY <1>1, Zenon DEF WhereClause
<1> HIDE DEF T
<1>3. WhereClause(s, r) = r
  BY <1>1, <1>2, Zenon DEF Unless
<1> QED BY <1>3 DEF r

\* The end of a statement, with the sign that may stand there.
Semicolon == ";"
Finish(s, r) == Expect(s, Skip(s, r, Semicolon), "end")

\* parse ends with success exactly before the end of the tokens.
LEMMA FinishIs ==
    ASSUME NEW s, NEW p, NEW n, NEW v
    PROVE  /\ tok(s, p) = "end" => Finish(s, Read(p, n, v)) = Read(p + 1, n, v)
           /\ tok(s, p) # Semicolon /\ tok(s, p) # "end" => ~Finish(s, Read(p, n, v)).ok
           /\ \A r : ~r.ok => ~Finish(s, r).ok
<1> DEFINE r == Read(p, n, v)
<1>1. r.ok /\ r.p = p /\ r.n = n /\ r.v = v /\ ~Error.ok
  BY ReadIs
<1> HIDE DEF r
<1>2. "end" # Semicolon
  BY Zenon DEF Semicolon
<1>3. tok(s, p) # Semicolon => Skip(s, r, Semicolon) = r
  BY <1>1, Zenon DEF Skip
<1>4. tok(s, p) = "end" => Expect(s, r, "end") = Read(p + 1, n, v)
  BY <1>1, Zenon DEF Expect
<1>5. tok(s, p) # "end" => Expect(s, r, "end") = Error
  BY <1>1, Zenon DEF Expect
<1>6. ASSUME NEW q, ~q.ok PROVE ~Finish(s, q).ok
  <2>1. Skip(s, q, Semicolon) = q /\ Expect(s, q, "end") = Error
    BY <1>6, Zenon DEF Skip, Expect
  <2> QED BY <1>1, <2>1, Zenon DEF Finish
<1>7. tok(s, p) = "end" => Finish(s, r) = Read(p + 1, n, v)
  BY <1>2, <1>3, <1>4, Zenon DEF Finish
<1>8. tok(s, p) # Semicolon /\ tok(s, p) # "end" => ~Finish(s, r).ok
  BY <1>1, <1>3, <1>5, Zenon DEF Finish
<1> QED BY <1>6, <1>7, <1>8, Zenon DEF r

\* parse of a SELECT is its clauses one behind the other (sql_parser.cpp:113-185).
LEMMA ParseIs ==
    ASSUME NEW s, tok(s, 1) = "SELECT", tok(s, 2) # "DISTINCT"
    PROVE  parse(s) = Finish(s, last_clauses(s, WhereClause(s, select_clauses(s, Read(2, 0, EmptyStmt)))))
BY Zenon DEF parse, Finish, Semicolon

\* The statement before its condition, and behind it.
Selected(m) == Read(AtWhere(m), 0, Stmt(m.items, m.from, NoWhere, <<>>, TopLimit(m), NoLimit))
Filtered(m, p, n, w) == Read(p, n, Stmt(m.items, m.from, w, <<>>, TopLimit(m), NoLimit))

\* parse of a spelling has read the opening when it comes to the condition.
LEMMA SelectedIs ==
    ASSUME NEW m, IsStatement(m)
    PROVE  LET s == Spelling(m)
           IN  /\ parse(s) = Finish(s, last_clauses(s, WhereClause(s, Selected(m))))
               /\ tok(s, AtClosing(m)) \in Lasts
               /\ m.where = <<>> => AtWhere(m) = AtClosing(m)
               /\ m.where # <<>> => tok(s, AtWhere(m)) = "WHERE" /\ AtCondition(m) = AtWhere(m) + 1
               /\ AtWhere(m) \in Nat
<1> DEFINE s == Spelling(m)
<1>1. /\ s \in Seq(STRING) /\ Sits(s, 1, Opening(m)) /\ Sits(s, AtClosing(m), Closing(m)) /\ AtClosing(m) \in Nat
      /\ AtClosing(m) + Len(Closing(m)) = Len(s) + 1 /\ AtCondition(m) \in Nat
  BY SpellingSits
<1>2. tok(s, AtClosing(m)) \in Lasts
  <2> DEFINE p == AtClosing(m)
  <2> HIDE DEF s, p
  <2>1. s \in Seq(STRING) /\ p \in Nat /\ Sits(s, p, Closing(m)) /\ p + Len(Closing(m)) = Len(s) + 1
    BY <1>1 DEF p
  <2>2. tok(s, p) \in Lasts
    BY <2>1, ClosingIsRead
  <2> QED BY <2>2 DEF p
<1>3. m.where = <<>> => AtClosing(m) = AtCondition(m)
  <2>1. m.where = <<>> => Len(m.where) = 0
    BY NoTokens
  <2>2. Len(m.where) = 0 => AtCondition(m) + Len(m.where) = AtCondition(m)
    BY <1>1
  <2> QED BY <2>1, <2>2 DEF AtClosing
<1>4. 1 + Len(Opening(m)) = AtCondition(m)
  BY DEF AtCondition
<1> HIDE DEF s
<1>5. m.where = <<>> => tok(s, 1 + Len(Opening(m))) \in Lasts
  BY <1>2, <1>3, <1>4
<1>6. tok(s, 1) = "SELECT" /\ tok(s, 2) # "DISTINCT"
  BY <1>1, <1>5, OpeningIsRead
<1>7. select_clauses(s, Read(2, 0, EmptyStmt)) = Selected(m)
  BY <1>1, <1>5, OpeningIsRead, Zenon DEF Selected
<1>8. /\ m.where = <<>> => 1 + Len(Opening(m)) = AtWhere(m)
      /\ m.where # <<>> => tok(s, AtWhere(m)) = "WHERE" /\ 1 + Len(Opening(m)) = AtWhere(m) + 1
  BY <1>1, <1>5, OpeningIsRead, Zenon
<1>9. AtWhere(m) \in Nat
  BY OpeningIs
<1>10. parse(s) = Finish(s, last_clauses(s, WhereClause(s, Selected(m))))
  BY <1>6, <1>7, ParseIs
<1>11. m.where = <<>> => AtWhere(m) = AtClosing(m)
  BY <1>3, <1>4, <1>8
<1>12. m.where # <<>> => tok(s, AtWhere(m)) = "WHERE" /\ AtCondition(m) = AtWhere(m) + 1
  BY <1>4, <1>8
<1> QED BY <1>2, <1>9, <1>10, <1>11, <1>12 DEF s

\* Behind its condition, parse reads the closing of a spelling and ends with the statement.
LEMMA FilteredIs ==
    ASSUME NEW m, IsStatement(m), NEW n, NEW w
    PROVE  Finish(Spelling(m), last_clauses(Spelling(m), Filtered(m, AtClosing(m), n, w)))
             = Read((Len(Spelling(m)) + 1) + 1, n, Stmt(m.items, m.from, w, m.order_by, m.limit, m.offset))
<1> DEFINE s == Spelling(m)
           p == AtClosing(m)
           st == Stmt(m.items, m.from, w, m.order_by, m.limit, m.offset)
           end == Len(s) + 1
<1>1. s \in Seq(STRING) /\ p \in Nat /\ Sits(s, p, Closing(m)) /\ p + Len(Closing(m)) = Len(s) + 1
  BY SpellingSits
<1>2. tok(s, end) = "end"
  <2> HIDE DEF s
  <2>1. Len(s) \in Nat
    BY <1>1, TokensAre
  <2>2. Len(s) + 1 \notin 1 .. Len(s)
    BY <2>1
  <2> QED BY <1>1, <2>2, TokensAre
<1>3. last_clauses(s, Filtered(m, p, n, w)) = Read(end, n, st)
  <2> HIDE DEF s, p
  <2>1. last_clauses(s, Read(p, n, Stmt(m.items, m.from, w, <<>>, TopLimit(m), NoLimit)))
          = Read(Len(s) + 1, n, Stmt(m.items, m.from, w, m.order_by, m.limit, m.offset))
    BY <1>1, ClosingIsRead
  <2> QED BY <2>1, Zenon DEF Filtered
<1> HIDE DEF s, p, st, end
<1>4. Finish(s, Read(end, n, st)) = Read(end + 1, n, st)
  BY <1>2, FinishIs
<1>5. Finish(s, last_clauses(s, Filtered(m, p, n, w))) = Read(end + 1, n, st)
  BY <1>3, <1>4
<1> QED BY <1>5 DEF s, p, st, end

\* The readings of the condition of a statement.
ReadingsOf(m) ==
    IF m.where = <<>> THEN {}
    ELSE Conditions(Spelling(m), Len(Opening(m)) + 1, Len(Opening(m)) + Len(m.where))

\* The readings of a condition are those of its span in the whole statement.
LEMMA ReadingsAre ==
    ASSUME NEW m, IsStatement(m), m.where # <<>>
    PROVE  /\ ReadingsOf(m) = Conditions(Spelling(m), AtCondition(m), AtClosing(m) - 1)
           /\ AtCondition(m) \in 1 .. Len(Spelling(m)) /\ AtClosing(m) - 1 \in AtCondition(m) .. Len(Spelling(m))
           /\ (AtClosing(m) - 1) + 1 = AtClosing(m)
<1> DEFINE s == Spelling(m)
           o == Len(Opening(m))
           l == Len(m.where)
<1>1. Len(s) \in Nat /\ AtCondition(m) \in Nat \ {0} /\ AtClosing(m) \in Nat \ {0} /\ AtClosing(m) <= Len(s) + 1
  BY SpellingSits
<1>2. l \in Nat /\ l # 0
  BY WhereIn
<1>3. o \in Nat
  BY OpeningIs
<1>4. AtCondition(m) = 1 + o /\ AtClosing(m) = (1 + o) + l
  BY DEF AtCondition, AtClosing
<1>5. ReadingsOf(m) = Conditions(s, o + 1, o + l)
  BY Zenon DEF ReadingsOf
<1> HIDE DEF s, o, l
<1>6. o + 1 = AtCondition(m) /\ o + l = AtClosing(m) - 1
  BY <1>2, <1>3, <1>4
<1>7. /\ AtCondition(m) \in 1 .. Len(s) /\ AtClosing(m) - 1 \in AtCondition(m) .. Len(s)
      /\ (AtClosing(m) - 1) + 1 = AtClosing(m)
  BY <1>1, <1>2, <1>3, <1>4
<1>8. ReadingsOf(m) = Conditions(s, AtCondition(m), AtClosing(m) - 1)
  BY <1>5, <1>6
<1> QED BY <1>7, <1>8 DEF s

\* A statement is read as it was meant.
LEMMA StatementIsRead ==
    ASSUME NEW m, IsStatement(m)
    PROVE  /\ m.where = <<>> =>
                parse(Spelling(m)) = Read((Len(Spelling(m)) + 1) + 1, 0, Stmt(m.items, m.from, NoWhere, m.order_by, m.limit, m.offset))
           /\ \A e \in ReadingsOf(m) :
                /\ parse_condition(Spelling(m), AtCondition(m), 0) = Read(AtClosing(m), Markers(m.where), e)
                /\ parse(Spelling(m))
                     = Read((Len(Spelling(m)) + 1) + 1, Markers(m.where), Stmt(m.items, m.from, e, m.order_by, m.limit, m.offset))
<1> DEFINE s == Spelling(m)
<1>1. /\ parse(s) = Finish(s, last_clauses(s, WhereClause(s, Selected(m))))
      /\ tok(s, AtClosing(m)) \in Lasts
      /\ m.where = <<>> => AtWhere(m) = AtClosing(m)
      /\ m.where # <<>> => tok(s, AtWhere(m)) = "WHERE" /\ AtCondition(m) = AtWhere(m) + 1
      /\ AtWhere(m) \in Nat
  BY SelectedIs
<1>2. tok(s, AtClosing(m)) \notin {"WHERE", "GROUP", "HAVING", "AND", "OR"} /\ tok(s, AtClosing(m)) \notin Stops
  BY <1>1, LastsAre
<1>3. CASE m.where = <<>>
  <2>1. WhereClause(s, Selected(m)) = Selected(m)
    <3> HIDE DEF s
    <3>1. tok(s, AtWhere(m)) \notin {"WHERE", "GROUP", "HAVING"}
      BY <1>1, <1>2, <1>3
    <3> QED BY <3>1, NoWhereIsRead DEF Selected
  <2>2. Selected(m) = Filtered(m, AtClosing(m), 0, NoWhere)
    BY <1>1, <1>3, Zenon DEF Selected, Filtered
  <2>3. parse(s) = Finish(s, last_clauses(s, Filtered(m, AtClosing(m), 0, NoWhere)))
    BY <1>1, <2>1, <2>2, Zenon
  <2>4. parse(s) = Read((Len(Spelling(m)) + 1) + 1, 0, Stmt(m.items, m.from, NoWhere, m.order_by, m.limit, m.offset))
    BY <2>3, FilteredIs, Zenon
  <2>5. ReadingsOf(m) = {}
    BY <1>3, Zenon DEF ReadingsOf
  <2> QED BY <2>4, <2>5
<1>4. CASE m.where # <<>>
  <2> SUFFICES ASSUME NEW e \in ReadingsOf(m)
               PROVE  /\ parse_condition(s, AtCondition(m), 0) = Read(AtClosing(m), Markers(m.where), e)
                      /\ parse(s) = Read((Len(s) + 1) + 1, Markers(m.where), Stmt(m.items, m.from, e, m.order_by, m.limit, m.offset))
    BY <1>4, Zenon
  <2> DEFINE a == AtCondition(m)
             c == AtClosing(m)
             n == Markers(m.where)
  <2>1. /\ e \in Conditions(s, a, c - 1) /\ a \in 1 .. Len(s) /\ c - 1 \in a .. Len(s) /\ (c - 1) + 1 = c
    BY <1>4, ReadingsAre
  <2>2. Marker(s, a) = 0 /\ Marker(s, c) = n
    BY SpellingMarkers
  <2>3. s \in Seq(STRING)
    BY SpellingSits
  <2>4. tok(s, c) \notin Stops \cup {"AND", "OR"}
    BY <1>2
  <2>5. parse_condition(s, a, 0) = Read(c, n, e)
    <3> DEFINE b == c - 1
    <3> HIDE DEF s, a, c, n
    <3>1. e \in Conditions(s, a, b) /\ a \in 1 .. Len(s) /\ b \in a .. Len(s) /\ b + 1 = c
      BY <2>1
    <3> HIDE DEF b
    <3>2. tok(s, b + 1) \notin Stops \cup {"AND", "OR"}
      BY <2>4, <3>1
    <3>3. parse_condition(s, a, Marker(s, a)) = Read(b + 1, Marker(s, b + 1), e)
      BY <2>3, <3>1, <3>2, ReadingIsParsed
    <3> QED BY <2>2, <3>1, <3>3
  <2>6. WhereClause(s, Selected(m)) = Filtered(m, c, n, e)
    <3> DEFINE p == AtWhere(m)
               i == m.items
               f == m.from
               l == TopLimit(m)
               o == <<>>
               x == NoLimit
               w == NoWhere
    <3>1. tok(s, p) = "WHERE" /\ a = p + 1
      BY <1>1, <1>4
    <3>2. tok(s, c) \notin {"GROUP", "HAVING"}
      BY <1>2
    <3> HIDE DEF s, a, c, n, p, i, f, l, o, x, w
    <3> DEFINE r == parse_condition(s, p + 1, 0)
    <3>3. r = Read(c, n, e)
      BY <2>5, <3>1
    <3>4. r.ok /\ r.p = c /\ r.n = n /\ r.v = e
      <4> HIDE DEF r
      <4> QED BY <3>3, ReadIs
    <3>5. r.ok /\ tok(s, r.p) \notin {"GROUP", "HAVING"} =>
             WhereClause(s, Read(p, 0, Stmt(i, f, w, o, l, x))) = Read(r.p, r.n, Stmt(i, f, r.v, o, l, x))
      BY <3>1, WhereIsRead
    <3> HIDE DEF r
    <3>6. WhereClause(s, Read(p, 0, Stmt(i, f, w, o, l, x))) = Read(c, n, Stmt(i, f, e, o, l, x))
      BY <3>2, <3>4, <3>5
    <3> QED BY <3>6, Zenon DEF Selected, Filtered, p, i, f, l, o, x, w
  <2>7. parse(s) = Finish(s, last_clauses(s, Filtered(m, c, n, e)))
    BY <1>1, <2>6, Zenon
  <2>8. parse(s) = Read((Len(s) + 1) + 1, n, Stmt(m.items, m.from, e, m.order_by, m.limit, m.offset))
    BY <2>7, FilteredIs, Zenon
  <2> QED BY <2>5, <2>8
<1> QED BY <1>3, <1>4

\* The condition, and the statement.
WhereOf(m) == IF m.where = <<>> THEN NoWhere ELSE CHOOSE e \in ReadingsOf(m) : TRUE
StmtOf(m) == Stmt(m.items, m.from, WhereOf(m), m.order_by, m.limit, m.offset)
Readable(m) == m.where = <<>> \/ ReadingsOf(m) # {}

\* No condition is the one that stands for its absence.
LEMMA NoWhereIs == NoWhere \notin Expr /\ \A e \in Expr : e # NoWhere
<1>1. NoWhere.kind \notin {"And", "Or", "Not", "Compare", "In", "Like", "IsNull"}
  BY DEF NoWhere
<1>2. \A e \in Expr : e # NoWhere
  BY <1>1, KindsOfExpr, KindsOfPredicates DEF Junctions
<1> QED BY <1>2

\* A reading is a tree with all markers of the condition in it, and it is the only one.
LEMMA ReadingIs ==
    ASSUME NEW m, IsStatement(m), NEW e \in ReadingsOf(m)
    PROVE  /\ e \in Expr /\ MarkersOf(e) = 0 .. Markers(m.where) - 1
           /\ \A g \in ReadingsOf(m) : g = e
           /\ m.where # <<>>
<1> DEFINE s == Spelling(m)
           a == AtCondition(m)
           c == AtClosing(m)
           n == Markers(m.where)
<1>1. m.where # <<>>
  BY Zenon DEF ReadingsOf
<1>2. \A g \in ReadingsOf(m) : parse_condition(s, a, 0) = Read(c, n, g)
  BY StatementIsRead, Zenon
<1>3. \A g \in ReadingsOf(m) : g = e
  <2> TAKE g \in ReadingsOf(m)
  <2>1. Read(c, n, g) = Read(c, n, e)
    BY <1>2
  <2> HIDE DEF c, n
  <2>2. Read(c, n, g).v = g /\ Read(c, n, e).v = e
    BY ReadIs
  <2> QED BY <2>1, <2>2
<1>4. IsText(s) /\ Marker(s, a) = 0 /\ Marker(s, c) = n /\ a \in 1 .. Len(s)
  BY <1>1, SpellingIsText, SpellingMarkers, ReadingsAre
<1>5. parse_condition(s, a, 0) = Read(c, n, e)
  BY <1>2
<1> HIDE DEF s, a, c, n
<1> DEFINE r == parse_condition(s, a, Marker(s, a))
<1>6. r = Read(c, n, e)
  BY <1>4, <1>5
<1>7. r.ok /\ r.p = c /\ r.v = e
  <2> HIDE DEF r
  <2> QED BY <1>6, ReadIs
<1>8. a \in 1 .. Len(s) + 1
  <2>1. Len(s) \in Nat
    BY <1>4, TokensAre DEF IsText
  <2> QED BY <1>4, <2>1
<1>9. r.v \in Expr /\ MarkersOf(r.v) = Marker(s, a) .. Marker(s, r.p) - 1
  BY <1>4, <1>7, <1>8, ParsedIsReading
<1> HIDE DEF r
<1>10. e \in Expr /\ MarkersOf(e) = 0 .. n - 1
  BY <1>4, <1>7, <1>9
<1> QED BY <1>1, <1>3, <1>10 DEF n

\* What a statement is read as.
LEMMA StatementIsParsed ==
    ASSUME NEW m, IsStatement(m), Readable(m)
    PROVE  /\ \E p : parse(Spelling(m)) = Read(p, Markers(m.where), StmtOf(m))
           /\ m.where = <<>> => WhereOf(m) = NoWhere /\ Markers(m.where) = 0
           /\ m.where # <<>> => ReadingsOf(m) = {WhereOf(m)} /\ WhereOf(m) \in Expr /\ WhereOf(m) # NoWhere
                                /\ MarkersOf(WhereOf(m)) = 0 .. Markers(m.where) - 1
<1> DEFINE p == (Len(Spelling(m)) + 1) + 1
<1>1. CASE m.where = <<>>
  <2>1. parse(Spelling(m)) = Read(p, 0, Stmt(m.items, m.from, NoWhere, m.order_by, m.limit, m.offset))
    BY <1>1, StatementIsRead, Zenon
  <2>2. WhereOf(m) = NoWhere
    BY <1>1, Zenon DEF WhereOf
  <2>3. Markers(m.where) = 0
    <3> DEFINE w == <<>>
               D == {i \in DOMAIN w : w[i] = "param"}
    <3>1. D = {}
      OBVIOUS
    <3>2. Cardinality(D) = 0
      <4> HIDE DEF D
      <4> QED BY <3>1, FS_EmptySet
    <3>3. m.where = w
      BY <1>1
    <3> HIDE DEF w
    <3> QED BY <3>2, <3>3, Zenon DEF Markers
  <2>4. parse(Spelling(m)) = Read(p, Markers(m.where), StmtOf(m))
    BY <2>1, <2>2, <2>3, Zenon DEF StmtOf
  <2> QED BY <1>1, <2>2, <2>3, <2>4
<1>2. CASE m.where # <<>>
  <2> DEFINE e == WhereOf(m)
  <2>1. e \in ReadingsOf(m)
    <3>1. ReadingsOf(m) # {}
      BY <1>2 DEF Readable
    <3> QED BY <1>2, <3>1, Zenon DEF WhereOf
  <2> HIDE DEF e
  <2>2. e \in Expr /\ MarkersOf(e) = 0 .. Markers(m.where) - 1 /\ ReadingsOf(m) = {e}
    BY <2>1, ReadingIs
  <2>3. parse(Spelling(m)) = Read(p, Markers(m.where), Stmt(m.items, m.from, e, m.order_by, m.limit, m.offset))
    BY <2>1, StatementIsRead, Zenon
  <2>4. e # NoWhere
    BY <2>2, NoWhereIs
  <2>5. parse(Spelling(m)) = Read(p, Markers(m.where), StmtOf(m))
    BY <2>3, Zenon DEF StmtOf, e
  <2> HIDE DEF p
  <2>6. /\ \E q : parse(Spelling(m)) = Read(q, Markers(m.where), StmtOf(m))
        /\ ReadingsOf(m) = {WhereOf(m)} /\ WhereOf(m) \in Expr /\ WhereOf(m) # NoWhere
        /\ MarkersOf(WhereOf(m)) = 0 .. Markers(m.where) - 1
    <3>1. ReadingsOf(m) = {WhereOf(m)} /\ WhereOf(m) \in Expr /\ WhereOf(m) # NoWhere
          /\ MarkersOf(WhereOf(m)) = 0 .. Markers(m.where) - 1
      BY <2>2, <2>4 DEF e
    <3> QED BY <2>5, <3>1, Zenon
  <2> QED BY <1>2, <2>6
<1> QED BY <1>1, <1>2

\* The model's own words for these.
LEMMA MeantIs ==
    ASSUME TRUE
    PROVE  /\ Readings = ReadingsOf(meant)
           /\ Condition = WhereOf(meant)
<1>1. Readings = ReadingsOf(meant)
  BY Zenon DEF Readings, ReadingsOf
<1> QED BY <1>1, Zenon DEF Condition, WhereOf, Readings, ReadingsOf

\* A statement whose condition can be read, or that has none, is parsed to what it means.
LEMMA MeantIsParsed ==
    ASSUME IsStatement(meant), meant.where = <<>> \/ Readings # {}
    PROVE  IsMeant(parse(Spelling(meant)))
<1>1. Readable(meant)
  BY MeantIs DEF Readable
<1> DEFINE st == StmtOf(meant)
           n == Markers(meant.where)
           r == parse(Spelling(meant))
<1>2. PICK p : r = Read(p, n, st)
  BY <1>1, StatementIsParsed
<1>3. /\ meant.where = <<>> => WhereOf(meant) = NoWhere
      /\ meant.where # <<>> => Readings = {WhereOf(meant)}
  BY <1>1, StatementIsParsed, MeantIs
<1>4. /\ st.items = meant.items /\ st.from = meant.from /\ st.where = WhereOf(meant)
      /\ st.order_by = meant.order_by /\ st.limit = meant.limit /\ st.offset = meant.offset
  BY DEF StmtOf, Stmt
<1> HIDE DEF st, n, r
<1>5. r.ok /\ r.n = n /\ r.v = st
  BY <1>2, ReadIs
<1>6. r.v.items = meant.items /\ r.v.from = meant.from /\ r.v.where = WhereOf(meant)
      /\ r.v.order_by = meant.order_by /\ r.v.limit = meant.limit /\ r.v.offset = meant.offset
  BY <1>4, <1>5
<1>7. IsMeant(r)
  BY <1>3, <1>5, <1>6, Zenon DEF IsMeant, n
<1> QED BY <1>7 DEF r

------------------------------------------------------------------------------
(* What the last clauses leave alone *)

\* A statement with these items, this object and this condition, and a reading of one.
HasParts(v, i, f, w) == \E o, l, x : v = Stmt(i, f, w, o, l, x)
Keeps(r, i, f, w) == r.ok => HasParts(r.v, i, f, w)

\* Limits, offsets and keys change neither items, object nor condition of a statement;
LEMMA KeepsRead ==
    ASSUME NEW v, NEW i, NEW f, NEW w, HasParts(v, i, f, w)
    PROVE  /\ \A p, n : Keeps(Read(p, n, v), i, f, w)
           /\ \A y : HasParts([v EXCEPT !["limit"] = y], i, f, w)
           /\ \A y : HasParts([v EXCEPT !["offset"] = y], i, f, w)
           /\ \A y : HasParts([v EXCEPT !.order_by = y], i, f, w)
           /\ \A g : Keeps(Error, g, f, w)
<1>1. PICK o, l, x : v = Stmt(i, f, w, o, l, x)
  BY DEF HasParts
<1>2. ASSUME NEW p, NEW n PROVE Keeps(Read(p, n, v), i, f, w)
  <2>1. Read(p, n, v).v = v
    BY ReadIs
  <2> QED BY <2>1, Zenon DEF Keeps
<1>3. ASSUME NEW y
      PROVE  /\ HasParts([v EXCEPT !["limit"] = y], i, f, w)
             /\ HasParts([v EXCEPT !["offset"] = y], i, f, w)
             /\ HasParts([v EXCEPT !.order_by = y], i, f, w)
  <2>1. [v EXCEPT !["limit"] = y] = Stmt(i, f, w, o, y, x) /\ [v EXCEPT !["offset"] = y] = Stmt(i, f, w, o, l, y)
        /\ [v EXCEPT !.order_by = y] = Stmt(i, f, w, y, l, x)
    BY <1>1, StmtIs
  <2> DEFINE a == [v EXCEPT !["limit"] = y]
             b == [v EXCEPT !["offset"] = y]
             c == [v EXCEPT !.order_by = y]
  <2> HIDE DEF a, b, c
  <2>2. a = Stmt(i, f, w, o, y, x) /\ b = Stmt(i, f, w, o, l, y) /\ c = Stmt(i, f, w, y, l, x)
    BY <2>1 DEF a, b, c
  <2>3. HasParts(a, i, f, w) /\ HasParts(b, i, f, w) /\ HasParts(c, i, f, w)
    BY <2>2, Zenon DEF HasParts
  <2> QED BY <2>3 DEF a, b, c
<1>4. ~Error.ok
  BY ReadIs
<1> QED BY <1>2, <1>3, <1>4, Zenon DEF Keeps

\* an error keeps them trivially,
LEMMA KeepsError == \A i, f, w : Keeps(Error, i, f, w)
<1>1. ~Error.ok
  BY ReadIs
<1> QED BY <1>1, Zenon DEF Keeps

\* parse_int keeps them,
LEMMA KeepsInt ==
    ASSUME NEW s, NEW r, NEW i, NEW f, NEW w, Keeps(r, i, f, w)
    PROVE  Keeps(parse_int(s, r, "limit"), i, f, w) /\ Keeps(parse_int(s, r, "offset"), i, f, w)
<1> DEFINE t == Numerals[tok(s, r.p)]
<1>1. r.ok => HasParts([r.v EXCEPT !["limit"] = t], i, f, w) /\ HasParts([r.v EXCEPT !["offset"] = t], i, f, w)
  BY KeepsRead DEF Keeps
<1> DEFINE vl == [r.v EXCEPT !["limit"] = t]
           vo == [r.v EXCEPT !["offset"] = t]
<1>2. parse_int(s, r, "limit") = Error \/ (r.ok /\ parse_int(s, r, "limit") = Read(r.p + 1, r.n, vl))
  BY Zenon DEF parse_int
<1>3. parse_int(s, r, "offset") = Error \/ (r.ok /\ parse_int(s, r, "offset") = Read(r.p + 1, r.n, vo))
  BY Zenon DEF parse_int
<1> HIDE DEF vl, vo
<1>4. r.ok => Keeps(Read(r.p + 1, r.n, vl), i, f, w) /\ Keeps(Read(r.p + 1, r.n, vo), i, f, w)
  <2>1. r.ok => HasParts(vl, i, f, w) /\ HasParts(vo, i, f, w)
    BY <1>1 DEF vl, vo
  <2> QED BY <2>1, KeepsRead, Zenon
<1> QED BY <1>2, <1>3, <1>4, KeepsError, Zenon

\* as do expect and skip,
LEMMA KeepsExpect ==
    ASSUME NEW s, NEW r, NEW i, NEW f, NEW w, Keeps(r, i, f, w), NEW t
    PROVE  Keeps(Expect(s, r, t), i, f, w) /\ Keeps(Skip(s, r, t), i, f, w)
<1>1. r.ok => \A p, n : Keeps(Read(p, n, r.v), i, f, w)
  BY KeepsRead, Zenon DEF Keeps
<1>2. Expect(s, r, t) = Error \/ (r.ok /\ Expect(s, r, t) = Read(r.p + 1, r.n, r.v))
  BY Zenon DEF Expect
<1>3. Skip(s, r, t) = r \/ (r.ok /\ Skip(s, r, t) = Read(r.p + 1, r.n, r.v))
  BY Zenon DEF Skip
<1> QED BY <1>1, <1>2, <1>3, KeepsError, Zenon

\* and the rounds of the keys.
LEMMA KeepsKey ==
    ASSUME NEW s \in Seq(STRING), NEW r, NEW i, NEW f, NEW w, Keeps(r, i, f, w)
    PROVE  Keeps(KeyRounds(s, r)[Len(s)], i, f, w)
<1>0. Len(s) \in Nat
  BY TokensAre
<1>1. ASSUME NEW a, NEW k, Keeps(a, i, f, w) PROVE Keeps(WithKey(a, k), i, f, w)
  <2> DEFINE v == [a.v EXCEPT !.order_by = Append(a.v.order_by, k.v)]
  <2>1. WithKey(a, k) = Error \/ (a.ok /\ WithKey(a, k) = Read(k.p, a.n, v))
    BY Zenon DEF WithKey
  <2>2. a.ok => HasParts(v, i, f, w)
    <3> DEFINE y == Append(a.v.order_by, k.v)
    <3> HIDE DEF y
    <3>1. a.ok => HasParts([a.v EXCEPT !.order_by = y], i, f, w)
      BY <1>1, KeepsRead DEF Keeps
    <3> QED BY <3>1 DEF y
  <2> HIDE DEF v
  <2>3. a.ok => Keeps(Read(k.p, a.n, v), i, f, w)
    BY <2>2, KeepsRead, Zenon
  <2> QED BY <2>1, <2>3, KeepsError, Zenon
<1> DEFINE R == KeyRounds(s, r)
           T == {k \in 0 .. Len(s) : Keeps(R[k], i, f, w)}
<1>2. 0 \in T
  <2>1. R[0] = WithKey(r, parse_key(s, r.p))
    BY <1>0, KeyRoundsAre
  <2>2. Keeps(R[0], i, f, w)
    <3> HIDE DEF R
    <3> QED BY <1>1, <2>1
  <2> QED BY <1>0, <2>2
<1>3. ASSUME NEW k \in 1 .. Len(s), k - 1 \in T PROVE k \in T
  <2>1. R[k] = KeyStep(s, R[k - 1])
    BY <1>0, KeyRoundsAre
  <2>2. Keeps(R[k - 1], i, f, w)
    BY <1>3
  <2> DEFINE a == R[k - 1]
             q == parse_key(s, a.p + 1)
  <2>3. R[k] = a \/ R[k] = WithKey(a, q)
    <3> HIDE DEF R
    <3> QED BY <2>1, Zenon DEF KeyStep
  <2> HIDE DEF a, q, R
  <2>4. Keeps(a, i, f, w) /\ Keeps(WithKey(a, q), i, f, w)
    BY <1>1, <2>2 DEF a
  <2>5. Keeps(R[k], i, f, w)
    BY <2>3, <2>4
  <2> QED BY <1>0, <2>5
<1>4. Len(s) \in T
  <2> HIDE DEF T
  <2> QED BY <1>0, <1>2, <1>3, InductionUpTo
<1> QED BY <1>4 DEF R

\* The last clauses keep the items, the object and the condition.
LEMMA LastClausesKeep ==
    ASSUME NEW s \in Seq(STRING), NEW r, NEW i, NEW f, NEW w, Keeps(r, i, f, w)
    PROVE  Keeps(last_clauses(s, r), i, f, w)
<1> DEFINE K(x) == Keeps(x, i, f, w)
<1>1. ASSUME NEW x, K(x), NEW p, NEW n PROVE x.ok => K(Read(p, n, x.v))
  BY <1>1, KeepsRead, Zenon DEF Keeps
<1>2. ASSUME NEW x, K(x) PROVE K(parse_int(s, x, "limit")) /\ K(parse_int(s, x, "offset"))
  BY <1>2, KeepsInt
<1>3. ASSUME NEW x, K(x), NEW t PROVE K(Expect(s, x, t))
  BY <1>3, KeepsExpect
<1>4. ASSUME NEW x, K(x) PROVE K(KeyRounds(s, x)[Len(s)])
  BY <1>4, KeepsKey
<1>5. K(Error) /\ K(r)
  BY KeepsError
<1> HIDE DEF K
<1>6. ASSUME NEW x, K(x) PROVE K(OrderClause(s, x))
  <2> DEFINE y == Read(x.p + 2, x.n, x.v)
  <2>1. OrderClause(s, x) = x \/ OrderClause(s, x) = Error \/ (x.ok /\ OrderClause(s, x) = KeyRounds(s, y)[Len(s)])
    BY Zenon DEF OrderClause
  <2>2. x.ok => K(y)
    BY <1>1, <1>6
  <2> HIDE DEF y
  <2>3. x.ok => K(KeyRounds(s, y)[Len(s)])
    BY <1>4, <2>2
  <2> QED BY <1>5, <1>6, <2>1, <2>3, Zenon
<1>7. ASSUME NEW x, K(x) PROVE K(LimitClause(s, x))
  <2> DEFINE y == Read(x.p + 1, x.n, x.v)
             l == parse_int(s, y, "limit")
             z == Read(l.p + 1, l.n, l.v)
  <2>1. LimitClause(s, x) = x \/ (x.ok /\ LimitClause(s, x) = l) \/ (x.ok /\ l.ok /\ LimitClause(s, x) = parse_int(s, z, "offset"))
    BY Zenon DEF LimitClause
  <2>2. x.ok => K(y)
    BY <1>1, <1>7
  <2> HIDE DEF y
  <2>3. x.ok => K(l)
    BY <1>2, <2>2
  <2> HIDE DEF l
  <2>4. x.ok /\ l.ok => K(z)
    BY <1>1, <2>3
  <2> HIDE DEF z
  <2>5. x.ok /\ l.ok => K(parse_int(s, z, "offset"))
    BY <1>2, <2>4
  <2> QED BY <1>7, <2>1, <2>3, <2>5, Zenon
<1>8. ASSUME NEW x, K(x) PROVE K(OffsetClause(s, x))
  <2> DEFINE y == Read(x.p + 1, x.n, x.v)
             l == parse_int(s, y, "offset")
             z == Read(l.p + 1, l.n, l.v)
  <2>1. OffsetClause(s, x) = x \/ (x.ok /\ OffsetClause(s, x) = l) \/ (x.ok /\ l.ok /\ OffsetClause(s, x) = z)
    BY Zenon DEF OffsetClause
  <2>2. x.ok => K(y)
    BY <1>1, <1>8
  <2> HIDE DEF y
  <2>3. x.ok => K(l)
    BY <1>2, <2>2
  <2> HIDE DEF l
  <2>4. x.ok /\ l.ok => K(z)
    BY <1>1, <2>3
  <2> QED BY <1>8, <2>1, <2>3, <2>4, Zenon
<1>9. ASSUME NEW x, K(x) PROVE K(FetchClause(s, x))
  <2> DEFINE y == Read(x.p + 2, x.n, x.v)
             l == parse_int(s, y, "limit")
             z == Read(l.p + 1, l.n, l.v)
  <2>1. FetchClause(s, x) = x \/ FetchClause(s, x) = Error \/ (x.ok /\ l.ok /\ FetchClause(s, x) = Expect(s, z, "ONLY"))
    BY Zenon DEF FetchClause
  <2>2. x.ok => K(y)
    BY <1>1, <1>9
  <2> HIDE DEF y
  <2>3. x.ok => K(l)
    BY <1>2, <2>2
  <2> HIDE DEF l
  <2>4. x.ok /\ l.ok => K(z)
    BY <1>1, <2>3
  <2> HIDE DEF z
  <2>5. x.ok /\ l.ok => K(Expect(s, z, "ONLY"))
    BY <1>3, <2>4
  <2> QED BY <1>5, <1>9, <2>1, <2>5, Zenon
<1> DEFINE a == OrderClause(s, r)
           b == LimitClause(s, a)
           c == OffsetClause(s, b)
<1>10. K(a)
  BY <1>5, <1>6
<1>11. K(b)
  <2> HIDE DEF a
  <2> QED BY <1>7, <1>10
<1>12. K(c)
  <2> HIDE DEF b
  <2> QED BY <1>8, <1>11
<1>13. last_clauses(s, r) = FetchClause(s, c)
  BY Zenon DEF last_clauses
<1> HIDE DEF c
<1>14. K(last_clauses(s, r))
  BY <1>9, <1>12, <1>13
<1> QED BY <1>14 DEF K

\* Where no such clause begins nothing is read.
LEMMA NoClauseIsRead ==
    ASSUME NEW s, NEW p, NEW n, NEW v, tok(s, p) \notin {"ORDER", "LIMIT", "OFFSET", "FETCH"}
    PROVE  last_clauses(s, Read(p, n, v)) = Read(p, n, v)
<1> DEFINE r == Read(p, n, v)
<1>1. r.p = p
  BY ReadIs
<1>2. tok(s, p) # "ORDER" /\ tok(s, p) # "LIMIT" /\ tok(s, p) # "OFFSET" /\ tok(s, p) # "FETCH"
  OBVIOUS
<1> HIDE DEF r
<1>3. OrderClause(s, r) = r
  BY <1>1, <1>2, Zenon DEF OrderClause
<1>4. LimitClause(s, r) = r
  BY <1>1, <1>2, Zenon DEF LimitClause
<1>5. OffsetClause(s, r) = r
  BY <1>1, <1>2, Zenon DEF OffsetClause
<1>6. FetchClause(s, r) = r
  BY <1>1, <1>2, Zenon DEF FetchClause
<1>7. last_clauses(s, r) = r
  BY <1>3, <1>4, <1>5, <1>6, Zenon DEF last_clauses
<1> QED BY <1>7 DEF r

\* After an error nothing is read.
LEMMA ErrorStays ==
    ASSUME NEW s, NEW r, ~r.ok
    PROVE  last_clauses(s, r) = r
<1>1. OrderClause(s, r) = r
  BY Zenon DEF OrderClause
<1>2. LimitClause(s, r) = r
  BY Zenon DEF LimitClause
<1>3. OffsetClause(s, r) = r
  BY Zenon DEF OffsetClause
<1>4. FetchClause(s, r) = r
  BY Zenon DEF FetchClause
<1> QED BY <1>1, <1>2, <1>3, <1>4, Zenon DEF last_clauses

\* Words that may follow a condition begin clauses; no word of a condition ends a statement.
LEMMA LastsEnd ==
    /\ Lasts \subseteq ClauseWords
    /\ \A t : t \notin ClauseWords => t \notin {"ORDER", "LIMIT", "OFFSET", "FETCH"} /\ t # Semicolon /\ t # "end"
<1>1. Semicolon \in ClauseWords
  BY Zenon DEF ClauseWords, Semicolon
<1>2. \A t \in {"ORDER", "LIMIT", "OFFSET", "FETCH", "end"} : t \in ClauseWords
  BY Zenon DEF ClauseWords
<1> QED BY <1>1, <1>2 DEF Lasts

\* What is accepted has the items, the object and a condition, and a condition that is supported is
\* one that was written.
LEMMA StatementIsSound ==
    ASSUME NEW m, IsStatement(m), m.where # <<>>, parse(Spelling(m)).ok
    PROVE  \E e, o, l, x : /\ parse(Spelling(m)).v = Stmt(m.items, m.from, e, o, l, x)
                           /\ e \in Expr /\ (Supported(e) => e \in ReadingsOf(m))
<1> DEFINE s == Spelling(m)
           a == AtCondition(m)
           c == AtClosing(m)
           p == AtWhere(m)
           r == parse_condition(s, a, 0)
           i == m.items
           f == m.from
           t == TopLimit(m)
           none == <<>>
           all == WhereClause(s, Selected(m))
<1>1. /\ parse(s) = Finish(s, last_clauses(s, all))
      /\ tok(s, c) \in Lasts
      /\ tok(s, p) = "WHERE" /\ a = p + 1
  BY SelectedIs
<1>2. s \in Seq(STRING) /\ Len(s) \in Nat /\ IsText(s) /\ Marker(s, a) = 0
  BY SpellingSits, SpellingMarkers, SpellingIsText
<1>3. a \in 1 .. Len(s) /\ c - 1 \in a .. Len(s) /\ (c - 1) + 1 = c /\ ReadingsOf(m) = Conditions(s, a, c - 1) /\ c \in Nat
  BY ReadingsAre, SpellingSits
<1>4. \A k \in a .. c - 1 : tok(s, k) \notin ClauseWords
  BY ConditionTokens
<1>5. parse(s).ok
  OBVIOUS
<1>6. /\ ~r.ok => ~all.ok
      /\ r.ok /\ tok(s, r.p) \notin {"GROUP", "HAVING"} => all = Filtered(m, r.p, r.n, r.v)
      /\ r.ok /\ tok(s, r.p) \in {"GROUP", "HAVING"} => ~all.ok
  <2> DEFINE q == parse_condition(s, p + 1, 0)
             w == NoWhere
             x == NoLimit
  <2> HIDE DEF s, a, p, i, f, t, none, w, x
  <2>1. q = r
    BY <1>1
  <2>2. /\ ~q.ok => ~WhereClause(s, Read(p, 0, Stmt(i, f, w, none, t, x))).ok
        /\ q.ok /\ tok(s, q.p) \notin {"GROUP", "HAVING"} =>
             WhereClause(s, Read(p, 0, Stmt(i, f, w, none, t, x))) = Read(q.p, q.n, Stmt(i, f, q.v, none, t, x))
        /\ q.ok /\ tok(s, q.p) \in {"GROUP", "HAVING"} => ~WhereClause(s, Read(p, 0, Stmt(i, f, w, none, t, x))).ok
    BY <1>1, WhereIsRead
  <2>3. all = WhereClause(s, Read(p, 0, Stmt(i, f, w, none, t, x)))
    BY Zenon DEF Selected, p, i, f, t, none, w, x
  <2> HIDE DEF q, r, all
  <2>4. Filtered(m, r.p, r.n, r.v) = Read(q.p, q.n, Stmt(i, f, q.v, none, t, x))
    BY <2>1, Zenon DEF Filtered, i, f, t, none, x
  <2> QED BY <2>1, <2>2, <2>3, <2>4, Zenon
<1> HIDE DEF s, a, c, p, i, f, t, none, all
<1>7. all.ok
  <2>1. ~all.ok => ~Finish(s, last_clauses(s, all)).ok
    BY ErrorStays, FinishIs, Zenon
  <2> QED BY <1>1, <1>5, <2>1
<1>8. r.ok /\ all = Filtered(m, r.p, r.n, r.v)
  <2> HIDE DEF r
  <2> QED BY <1>6, <1>7
<1>9. /\ r.p \in a + 1 .. Len(s) + 1 /\ r.v \in Expr
      /\ Supported(r.v) => r.v \in Conditions(s, a, r.p - 1) /\ Free(s, a, r.p - 1)
  <2>1. a \in 1 .. Len(s) + 1
    BY <1>2, <1>3
  <2> DEFINE q == parse_condition(s, a, Marker(s, a))
  <2>2. q = r
    BY <1>2
  <2>3. q.ok
    BY <1>8, <2>2
  <2>4. /\ q.p \in a + 1 .. Len(s) + 1 /\ q.v \in Expr
        /\ Supported(q.v) => q.v \in Conditions(s, a, q.p - 1) /\ Free(s, a, q.p - 1)
    BY <1>2, <2>1, <2>3, ParsedIsReading
  <2> HIDE DEF q, r
  <2> QED BY <2>2, <2>4
<1> DEFINE e == r.v
           z == parse(s)
<1>10. \E o, l, x : z.v = Stmt(i, f, e, o, l, x)
  <2>1. Keeps(all, i, f, e)
    <3>1. all = Read(r.p, r.n, Stmt(i, f, e, none, t, NoLimit))
      BY <1>8, Zenon DEF Filtered, i, f, t, none
    <3> DEFINE st == Stmt(i, f, e, none, t, NoLimit)
    <3>2. HasParts(st, i, f, e)
      BY Zenon DEF HasParts
    <3> HIDE DEF st, e, r
    <3>3. Keeps(Read(r.p, r.n, st), i, f, e)
      BY <3>2, KeepsRead, Zenon
    <3> QED BY <3>1, <3>3 DEF st
  <2> HIDE DEF e, z
  <2>2. Keeps(last_clauses(s, all), i, f, e)
    BY <1>2, <2>1, LastClausesKeep
  <2> DEFINE y == last_clauses(s, all)
             y2 == Skip(s, y, Semicolon)
  <2> HIDE DEF y
  <2>3. Keeps(y, i, f, e)
    BY <2>2 DEF y
  <2>4. Keeps(y2, i, f, e)
    BY <2>3, KeepsExpect
  <2> HIDE DEF y2
  <2>5. Keeps(Expect(s, y2, "end"), i, f, e)
    BY <2>4, KeepsExpect
  <2>6. z = Expect(s, y2, "end")
    BY <1>1, Zenon DEF Finish, z, y, y2
  <2>7. HasParts(z.v, i, f, e)
    BY <1>5, <2>5, <2>6 DEF Keeps, z
  <2> QED BY <2>7 DEF HasParts
<1>11. ASSUME Supported(e) PROVE e \in ReadingsOf(m)
  <2>1. e \in Conditions(s, a, r.p - 1) /\ Free(s, a, r.p - 1)
    BY <1>9, <1>11
  <2> DEFINE q == r.p
  <2>2. q \in a + 1 .. Len(s) + 1
    BY <1>9
  <2> HIDE DEF q
  <2>3. ~(q > c)
    <3> SUFFICES ASSUME q > c PROVE FALSE
      OBVIOUS
    <3>1. c \in a .. q - 1 /\ c \in 1 .. Len(s)
      BY <1>2, <1>3, <2>2
    <3>2. s[c] \notin ClauseWords
      BY <2>1, <3>1 DEF Free, q
    <3>3. tok(s, c) = s[c]
      BY <1>2, <3>1, TokensAre
    <3> QED BY <1>1, <3>2, <3>3, LastsEnd
  <2>4. ~(q < c)
    <3> SUFFICES ASSUME q < c PROVE FALSE
      OBVIOUS
    <3>1. q \in a .. c - 1
      BY <1>2, <1>3, <2>2
    <3>2. tok(s, q) \notin ClauseWords
      BY <1>4, <3>1
    <3>3. tok(s, q) \notin {"ORDER", "LIMIT", "OFFSET", "FETCH"} /\ tok(s, q) # Semicolon /\ tok(s, q) # "end"
      BY <3>2, LastsEnd
    <3> DEFINE st == Stmt(i, f, e, none, t, NoLimit)
               n == r.n
    <3>4. all = Read(q, n, st)
      BY <1>8, Zenon DEF Filtered, i, f, t, none, q
    <3> HIDE DEF st, n
    <3>5. last_clauses(s, Read(q, n, st)) = Read(q, n, st)
      BY <3>3, NoClauseIsRead
    <3>6. ~Finish(s, Read(q, n, st)).ok
      BY <3>3, FinishIs
    <3> QED BY <1>1, <1>5, <3>4, <3>5, <3>6, Zenon
  <2>5. q = c
    BY <1>3, <2>2, <2>3, <2>4
  <2> QED BY <1>3, <2>1, <2>5 DEF q
<1> HIDE DEF e, z
<1>12. e \in Expr
  BY <1>9 DEF e
<1>13. \E o, l, x : z.v = Stmt(m.items, m.from, e, o, l, x)
  BY <1>10 DEF i, f
<1> QED BY <1>11, <1>12, <1>13, Zenon DEF z, s

------------------------------------------------------------------------------
(* Sequences one behind the other *)

FlattenStep(f, part) == f \o part

\* The first of some sequences, joined.
IsFlattened(f, seqs, m) == f = [i \in 1 .. m |-> IF i = 1 THEN seqs[i] ELSE FlattenStep(f[i - 1], seqs[i])]

\* For any number of them there is such a function.
LEMMA FlattenedExist ==
    ASSUME NEW seqs, NEW top \in Nat \ {0}
    PROVE  \E f : IsFlattened(f, seqs, top)
<1> DEFINE T == {m \in 0 .. top - 1 : \E f : IsFlattened(f, seqs, m + 1)}
<1>1. 0 \in T
  <2> DEFINE f == [i \in 1 .. 1 |-> seqs[i]]
  <2>1. f = [i \in 1 .. 1 |-> IF i = 1 THEN seqs[i] ELSE FlattenStep(f[i - 1], seqs[i])]
    OBVIOUS
  <2>2. IsFlattened(f, seqs, 1)
    BY <2>1, Zenon DEF IsFlattened
  <2>3. 0 + 1 = 1 /\ 0 \in 0 .. top - 1
    OBVIOUS
  <2> QED BY <2>2, <2>3
<1>2. ASSUME NEW m \in 1 .. top - 1, m - 1 \in T PROVE m \in T
  <2>0. (m - 1) + 1 = m
    OBVIOUS
  <2>1. PICK f : IsFlattened(f, seqs, m)
    BY <1>2, <2>0
  <2> DEFINE g == [i \in 1 .. m + 1 |-> IF i = 1 THEN seqs[i] ELSE FlattenStep(f[i - 1], seqs[i])]
  <2>2. \A i \in 1 .. m : i \in 1 .. m + 1 /\ g[i] = f[i]
    BY <2>1 DEF IsFlattened
  <2>3. \A i \in 1 .. m + 1 : i # 1 => g[i - 1] = f[i - 1]
    <3>1. \A i \in 1 .. m + 1 : i # 1 => i - 1 \in 1 .. m
      OBVIOUS
    <3> HIDE DEF g
    <3> QED BY <2>2, <3>1
  <2>4. \A i \in 1 .. m + 1 : (IF i = 1 THEN seqs[i] ELSE FlattenStep(f[i - 1], seqs[i])) = (IF i = 1 THEN seqs[i] ELSE FlattenStep(g[i - 1], seqs[i]))
    <3> HIDE DEF g
    <3> QED BY <2>3, Zenon
  <2>5. g = [i \in 1 .. m + 1 |-> IF i = 1 THEN seqs[i] ELSE FlattenStep(g[i - 1], seqs[i])]
    BY <2>4, Zenon
  <2> HIDE DEF g
  <2>6. IsFlattened(g, seqs, m + 1)
    BY <2>5, Zenon DEF IsFlattened
  <2>7. m \in 0 .. top - 1
    OBVIOUS
  <2> QED BY <2>6, <2>7
<1>3. top - 1 \in T
  <2>1. top - 1 \in Nat
    OBVIOUS
  <2> HIDE DEF T
  <2> QED BY <1>1, <1>2, <2>1, InductionUpTo
<1>4. (top - 1) + 1 = top
  OBVIOUS
<1> QED BY <1>3, <1>4

\* They are what the definition of FlattenSeq says.
LEMMA FlattenIs ==
    ASSUME NEW seqs, Len(seqs) \in Nat \ {0}
    PROVE  \E f : /\ FlattenSeq(seqs) = f[Len(seqs)] /\ f[1] = seqs[1]
                  /\ \A k \in 2 .. Len(seqs) : f[k] = FlattenStep(f[k - 1], seqs[k])
<1>0. \E f : IsFlattened(f, seqs, Len(seqs))
  BY FlattenedExist
<1> DEFINE f == CHOOSE f : f = [i \in 1 .. Len(seqs) |-> IF i = 1 THEN seqs[i] ELSE FlattenStep(f[i - 1], seqs[i])]
<1>1. IsFlattened(f, seqs, Len(seqs))
  BY <1>0, Zenon DEF IsFlattened
<1>n. Len(seqs) # 0
  OBVIOUS
<1>2. FlattenSeq(seqs) = f[Len(seqs)]
  BY <1>n, Zenon DEF FlattenSeq, FlattenStep
<1> HIDE DEF f
<1>3. f = [i \in 1 .. Len(seqs) |-> IF i = 1 THEN seqs[i] ELSE FlattenStep(f[i - 1], seqs[i])]
  BY <1>1, Zenon DEF IsFlattened
<1>4. f[1] = seqs[1]
  BY <1>3
<1>5. \A k \in 2 .. Len(seqs) : f[k] = FlattenStep(f[k - 1], seqs[k])
  BY <1>3
<1> QED BY <1>2, <1>4, <1>5

\* Each element made into something else.
Mapped(t, g) == [k \in 1 .. Len(t) |-> g[t[k]]]

\* Mapping two parts of a sequence is mapping the whole.
LEMMA MappedJoined ==
    ASSUME NEW S, NEW a \in Seq(S), NEW b \in Seq(S), NEW g
    PROVE  Mapped(a \o b, g) = Mapped(a, g) \o Mapped(b, g)
<1> DEFINE T == {g[x] : x \in S}
           c == a \o b
           ma == Mapped(a, g)
           mb == Mapped(b, g)
           d == ma \o mb
<1>1. /\ c \in Seq(S) /\ Len(c) = Len(a) + Len(b) /\ Len(a) \in Nat /\ Len(b) \in Nat
      /\ (\A k \in 1 .. Len(a) : c[k] = a[k])
      /\ (\A k \in 1 .. Len(b) : c[Len(a) + k] = b[k])
  <2> HIDE DEF ma, mb, d, T
  <2> QED OBVIOUS
<1>2. \A t \in Seq(S) : Mapped(t, g) \in Seq(T) /\ Len(Mapped(t, g)) = Len(t)
  <2> TAKE t \in Seq(S)
  <2>1. Len(t) \in Nat /\ \A k \in 1 .. Len(t) : t[k] \in S
    OBVIOUS
  <2>2. \A k \in 1 .. Len(t) : g[t[k]] \in T
    BY <2>1
  <2> HIDE DEF T
  <2> QED BY <2>1, <2>2 DEF Mapped
<1>3. ma \in Seq(T) /\ mb \in Seq(T) /\ Len(ma) = Len(a) /\ Len(mb) = Len(b)
  BY <1>2
<1>4. /\ d \in Seq(T) /\ Len(d) = Len(ma) + Len(mb)
      /\ (\A k \in 1 .. Len(ma) : d[k] = ma[k])
      /\ (\A k \in 1 .. Len(mb) : d[Len(ma) + k] = mb[k])
  <2>1. \A x, y \in Seq(T) :
          /\ x \o y \in Seq(T) /\ Len(x \o y) = Len(x) + Len(y)
          /\ (\A k \in 1 .. Len(x) : (x \o y)[k] = x[k])
          /\ (\A k \in 1 .. Len(y) : (x \o y)[Len(x) + k] = y[k])
    <3> HIDE DEF T
    <3> QED OBVIOUS
  <2> HIDE DEF T, ma, mb, c
  <2> QED BY <1>3, <2>1, Zenon
<1>5. d = [k \in 1 .. Len(c) |-> d[k]]
  <2> HIDE DEF d, T, ma, mb, c
  <2> QED BY <1>1, <1>3, <1>4
<1>6. \A k \in 1 .. Len(c) : d[k] = g[c[k]]
  <2> TAKE k \in 1 .. Len(c)
  <2>1. CASE k <= Len(a)
    <3>1. k \in 1 .. Len(a)
      BY <1>1, <2>1
    <3>2. d[k] = ma[k] /\ c[k] = a[k]
      BY <1>1, <1>3, <1>4, <3>1
    <3>3. ma[k] = g[a[k]]
      BY <3>1 DEF Mapped
    <3> HIDE DEF ma, c, d
    <3> QED BY <3>2, <3>3
  <2>2. CASE k > Len(a)
    <3> DEFINE j == k - Len(a)
    <3>1. j \in 1 .. Len(b) /\ Len(a) + j = k
      BY <1>1, <2>2
    <3> HIDE DEF j
    <3>2. d[k] = mb[j] /\ c[k] = b[j]
      BY <1>1, <1>3, <1>4, <3>1
    <3>3. mb[j] = g[b[j]]
      BY <3>1 DEF Mapped
    <3> HIDE DEF mb, c, d
    <3> QED BY <3>2, <3>3
  <2> HIDE DEF d, c
  <2> QED BY <1>1, <2>1, <2>2
<1> HIDE DEF d, c
<1>7. d = [k \in 1 .. Len(c) |-> g[c[k]]]
  BY <1>5, <1>6, Zenon
<1>8. Mapped(c, g) = d
  BY <1>7 DEF Mapped
<1> QED BY <1>8 DEF c, d

\* To make all elements into something else before they are joined or afterwards is the same.
LEMMA FlattenMapped ==
    ASSUME NEW S, NEW g, NEW seqs, NEW made, Len(seqs) \in Nat \ {0}, Len(made) = Len(seqs),
           \A i \in 1 .. Len(seqs) : seqs[i] \in Seq(S) /\ made[i] = Mapped(seqs[i], g)
    PROVE  FlattenSeq(seqs) \in Seq(S) /\ FlattenSeq(made) = Mapped(FlattenSeq(seqs), g)
<1> DEFINE n == Len(seqs)
<1>1. PICK f : FlattenSeq(seqs) = f[n] /\ f[1] = seqs[1] /\ \A k \in 2 .. n : f[k] = FlattenStep(f[k - 1], seqs[k])
  BY FlattenIs
<1>2. PICK h : FlattenSeq(made) = h[n] /\ h[1] = made[1] /\ \A k \in 2 .. n : h[k] = FlattenStep(h[k - 1], made[k])
  <2>1. Len(made) \in Nat \ {0}
    OBVIOUS
  <2> QED BY <2>1, FlattenIs
<1>0. n \in Nat /\ n >= 1
  OBVIOUS
<1>s. \A i \in 1 .. n : seqs[i] \in Seq(S) /\ made[i] = Mapped(seqs[i], g)
  OBVIOUS
<1> HIDE DEF n
<1> DEFINE T == {k \in 0 .. n - 1 : f[k + 1] \in Seq(S) /\ h[k + 1] = Mapped(f[k + 1], g)}
<1>3. 0 \in T
  <2>1. 1 \in 1 .. n /\ 0 \in 0 .. n - 1 /\ 0 + 1 = 1
    BY <1>0
  <2>2. seqs[1] \in Seq(S) /\ made[1] = Mapped(seqs[1], g)
    BY <1>s, <2>1
  <2>3. f[1] \in Seq(S) /\ h[1] = Mapped(f[1], g)
    BY <1>1, <1>2, <2>2
  <2> QED BY <2>1, <2>3
<1>4. ASSUME NEW k \in 1 .. n - 1, k - 1 \in T PROVE k \in T
  <2>0. (k - 1) + 1 = k /\ k + 1 \in 2 .. n /\ k + 1 \in 1 .. n /\ (k + 1) - 1 = k /\ k \in 0 .. n - 1
    BY <1>0
  <2>1. f[k] \in Seq(S) /\ h[k] = Mapped(f[k], g)
    BY <1>4, <2>0
  <2>2. seqs[k + 1] \in Seq(S) /\ made[k + 1] = Mapped(seqs[k + 1], g)
    BY <1>s, <2>0
  <2>3. f[k + 1] = FlattenStep(f[k], seqs[k + 1]) /\ h[k + 1] = FlattenStep(h[k], made[k + 1])
    BY <1>1, <1>2, <2>0
  <2> DEFINE x == f[k]
             y == seqs[k + 1]
  <2>4. x \in Seq(S) /\ y \in Seq(S)
    BY <2>1, <2>2
  <2>5. f[k + 1] = x \o y /\ h[k + 1] = Mapped(x, g) \o Mapped(y, g)
    BY <2>1, <2>2, <2>3, Zenon DEF FlattenStep
  <2> HIDE DEF x, y
  <2>6. x \o y \in Seq(S) /\ Mapped(x \o y, g) = Mapped(x, g) \o Mapped(y, g)
    <3>1. x \o y \in Seq(S)
      BY <2>4
    <3> QED BY <2>4, <3>1, MappedJoined
  <2>7. f[k + 1] \in Seq(S) /\ h[k + 1] = Mapped(f[k + 1], g)
    BY <2>5, <2>6, Zenon
  <2> QED BY <2>0, <2>7
<1>5. n - 1 \in T
  <2>1. n - 1 \in Nat
    BY <1>0
  <2> HIDE DEF T
  <2> QED BY <1>3, <1>4, <2>1, InductionUpTo
<1>6. (n - 1) + 1 = n
  BY <1>0
<1>7. f[n] \in Seq(S) /\ h[n] = Mapped(f[n], g)
  BY <1>5, <1>6
<1> QED BY <1>1, <1>2, <1>7

------------------------------------------------------------------------------
(* The columns of a plan are those of the output *)

\* What one item contributes to the output, and the column that the planner makes of each part.
OutOf(i) ==
    IF i.what = Star THEN [k \in DOMAIN Fields |-> Item(Column(Fields[k]), Fields[k])]
    ELSE IF IsColumn(i.what) /\ i.alias = NoName THEN <<Item(i.what, i.what.column)>> ELSE <<i>>
OutputOf(m) == FlattenSeq([i \in DOMAIN m.items |-> OutOf(m.items[i])])

ColumnOf(x) ==
    IF IsColumn(x.what) THEN FieldColumn(x.what.column, x.alias)
    ELSE IF x.what.kind = "Literal" THEN ConstColumn(x.what.lit, NameOr(x.alias, "EXPR"))
    ELSE CountColumn(NameOr(x.alias, "EXPR"))

\* All parts there can be.
ItemOuts(i) ==
    IF i.what = Star THEN {Item(Column(f), f) : f \in Columns}
    ELSE IF IsColumn(i.what) /\ i.alias = NoName THEN {Item(i.what, i.what.column)} ELSE {i}
Outs(m) == UNION {ItemOuts(m.items[i]) : i \in DOMAIN m.items}
OutMap(m) == [x \in Outs(m) |-> ColumnOf(x)]

\* What is shown is one of four kinds of things.
LEMMA KindsOfItem ==
    ASSUME NEW i, IsItem(i)
    PROVE  \/ i.what = Star /\ ~IsColumn(i.what) /\ i.what.kind = "Star"
           \/ i.what = CountStar /\ ~IsColumn(i.what) /\ i.what # Star /\ i.what.kind = "CountStar"
           \/ i.what.kind = "Literal" /\ ~IsColumn(i.what) /\ i.what # Star /\ i.what # CountStar
           \/ IsColumn(i.what) /\ i.what # Star /\ i.what # CountStar /\ i.what.kind = "Column"
<1>1. Star.kind = "Star" /\ CountStar.kind = "CountStar"
  BY DEF Star, CountStar
<1>2. i.what = Star \/ i.what = CountStar \/ i.what.kind = "Column" \/ i.what.kind = "Literal"
  BY DEF IsItem
<1> QED BY <1>1, <1>2 DEF IsColumn

\* The fields of an item,
LEMMA PartsOfItem ==
    ASSUME NEW w, NEW a
    PROVE  Item(w, a).what = w /\ Item(w, a).alias = a
BY DEF Item

\* and of a column operand.
LEMMA PartsOfColumn ==
    ASSUME NEW c
    PROVE  Column(c).kind = "Column" /\ Column(c).column = c /\ IsColumn(Column(c))
BY DEF Column, IsColumn

\* The output of one item, and its columns.
LEMMA OutIs ==
    ASSUME NEW i, IsItem(i), NEW S, ItemOuts(i) \subseteq S
    PROVE  OutOf(i) \in Seq(S) /\ ColumnsOfItem(i) = Mapped(OutOf(i), [x \in S |-> ColumnOf(x)])
<1> DEFINE g == [x \in S |-> ColumnOf(x)]
<1>g. \A x \in S : g[x] = ColumnOf(x)
  OBVIOUS
<1> HIDE DEF g
<1>o. \A y : y \in S => <<y>> \in Seq(S) /\ Mapped(<<y>>, g) = <<ColumnOf(y)>>
  <2> TAKE y
  <2> HAVE y \in S
  <2>1. g[y] = ColumnOf(y)
    BY <1>g
  <2>2. Mapped(<<y>>, g) = <<g[y]>>
    BY DEF Mapped
  <2> QED BY <2>1, <2>2
<1>1. CASE i.what = Star
  <2>1. i.what.kind = "Star"
    BY <1>1 DEF Star
  <2> DEFINE o == [k \in DOMAIN Fields |-> Item(Column(Fields[k]), Fields[k])]
  <2>2. OutOf(i) = o
    BY <1>1, Zenon DEF OutOf
  <2>3. ColumnsOfItem(i) = [k \in DOMAIN Fields |-> FieldColumn(Fields[k], Fields[k])]
    BY <2>1 DEF ColumnsOfItem
  <2>4. Len(Fields) \in Nat /\ DOMAIN Fields = 1 .. Len(Fields) /\ \A k \in 1 .. Len(Fields) : Fields[k] \in Columns
    <3>1. Fields \in Seq(Columns)
      BY QueryConstants, Zenon
    <3> QED BY <3>1
  <2>5. \A k \in 1 .. Len(Fields) : Item(Column(Fields[k]), Fields[k]) \in S
    <3>1. \A f \in Columns : Item(Column(f), f) \in ItemOuts(i)
      BY <1>1 DEF ItemOuts
    <3> QED BY <2>4, <3>1
  <2>6. o \in Seq(S) /\ Len(o) = Len(Fields) /\ \A k \in 1 .. Len(Fields) : o[k] = Item(Column(Fields[k]), Fields[k])
    <3>1. o = [k \in 1 .. Len(Fields) |-> Item(Column(Fields[k]), Fields[k])]
      BY <2>4
    <3>2. o \in Seq(S)
      BY <2>4, <2>5, <3>1
    <3>3. Len(o) = Len(Fields)
      BY <2>4, <3>1
    <3> QED BY <3>1, <3>2, <3>3
  <2> HIDE DEF o
  <2>7. \A k \in 1 .. Len(Fields) : g[o[k]] = FieldColumn(Fields[k], Fields[k])
    <3> TAKE k \in 1 .. Len(Fields)
    <3> DEFINE f == Fields[k]
               y == Item(Column(f), f)
    <3>1. o[k] = y /\ y \in S
      BY <2>5, <2>6
    <3>2. y.what = Column(f) /\ y.alias = f
      BY PartsOfItem
    <3>3. ColumnOf(y) = FieldColumn(f, f)
      <4> HIDE DEF y
      <4>1. IsColumn(y.what) /\ y.what.column = f
        BY <3>2, PartsOfColumn
      <4> QED BY <3>2, <4>1 DEF ColumnOf
    <3> HIDE DEF y
    <3> QED BY <1>g, <3>1, <3>3
  <2>8. Mapped(o, g) = [k \in 1 .. Len(Fields) |-> g[o[k]]]
    BY <2>6, Zenon DEF Mapped
  <2>9. [k \in 1 .. Len(Fields) |-> g[o[k]]] = [k \in 1 .. Len(Fields) |-> FieldColumn(Fields[k], Fields[k])]
    BY <2>7, Zenon
  <2> QED BY <2>2, <2>3, <2>4, <2>6, <2>8, <2>9, Zenon DEF g
<1>2. CASE IsColumn(i.what)
  <2>1. i.what # Star /\ i.what.kind = "Column"
    BY <1>2, KindsOfItem
  <2>2. CASE i.alias = NoName
    <3> DEFINE y == Item(i.what, i.what.column)
    <3>1. OutOf(i) = <<y>> /\ y \in S
      <4>1. ItemOuts(i) = {y}
        BY <1>2, <2>1, <2>2, Zenon DEF ItemOuts
      <4>2. OutOf(i) = <<y>>
        BY <1>2, <2>1, <2>2, Zenon DEF OutOf
      <4> HIDE DEF y
      <4> QED BY <4>1, <4>2
    <3>2. ColumnsOfItem(i) = <<FieldColumn(i.what.column, i.what.column)>>
      BY <2>1, <2>2 DEF ColumnsOfItem, NameOr
    <3>3. y.what = i.what /\ y.alias = i.what.column
      BY PartsOfItem
    <3> HIDE DEF y
    <3>4. ColumnOf(y) = FieldColumn(i.what.column, i.what.column)
      BY <1>2, <3>3 DEF ColumnOf
    <3> QED BY <1>o, <3>1, <3>2, <3>4, Zenon DEF g
  <2>3. CASE i.alias # NoName
    <3>1. OutOf(i) = <<i>> /\ i \in S
      <4>1. ItemOuts(i) = {i}
        BY <1>2, <2>1, <2>3, Zenon DEF ItemOuts
      <4>2. OutOf(i) = <<i>>
        BY <1>2, <2>1, <2>3, Zenon DEF OutOf
      <4> QED BY <4>1, <4>2
    <3>2. ColumnsOfItem(i) = <<FieldColumn(i.what.column, i.alias)>>
      BY <2>1, <2>3 DEF ColumnsOfItem, NameOr
    <3>4. ColumnOf(i) = FieldColumn(i.what.column, i.alias)
      BY <1>2 DEF ColumnOf
    <3> QED BY <1>o, <3>1, <3>2, <3>4, Zenon DEF g
  <2> QED BY <2>2, <2>3
<1>3. CASE i.what # Star /\ ~IsColumn(i.what)
  <2>1. OutOf(i) = <<i>> /\ i \in S
    <3>1. ItemOuts(i) = {i}
      BY <1>3, Zenon DEF ItemOuts
    <3>2. OutOf(i) = <<i>>
      BY <1>3, Zenon DEF OutOf
    <3> QED BY <3>1, <3>2
  <2>2. i.what.kind \in {"CountStar", "Literal"}
    BY <1>3, KindsOfItem
  <2>3. CASE i.what.kind = "Literal"
    <3>1. ColumnsOfItem(i) = <<ConstColumn(i.what.lit, NameOr(i.alias, "EXPR"))>>
      BY <2>3 DEF ColumnsOfItem
    <3>2. ColumnOf(i) = ConstColumn(i.what.lit, NameOr(i.alias, "EXPR"))
      BY <1>3, <2>3 DEF ColumnOf
    <3> QED BY <1>o, <2>1, <3>1, <3>2, Zenon DEF g
  <2>4. CASE i.what.kind = "CountStar"
    <3>1. ColumnsOfItem(i) = <<CountColumn(NameOr(i.alias, "EXPR"))>>
      BY <2>4 DEF ColumnsOfItem
    <3>2. ColumnOf(i) = CountColumn(NameOr(i.alias, "EXPR"))
      BY <1>3, <2>4 DEF ColumnOf
    <3> QED BY <1>o, <2>1, <3>1, <3>2, Zenon DEF g
  <2> QED BY <2>2, <2>3, <2>4
<1> QED BY <1>1, <1>2, <1>3

\* The columns of the plan, one for each part of the output.
LEMMA PlanColumnsAre ==
    ASSUME NEW m, IsStatement(m), NEW st, st.items = m.items
    PROVE  /\ OutputOf(m) \in Seq(Outs(m))
           /\ PlanColumns(st) = [i \in DOMAIN OutputOf(m) |-> ColumnOf(OutputOf(m)[i])]
<1> DEFINE n == Len(m.items)
           S == Outs(m)
           g == OutMap(m)
           seqs == [i \in DOMAIN m.items |-> OutOf(m.items[i])]
           made == [i \in DOMAIN m.items |-> ColumnsOfItem(m.items[i])]
<1>1. n \in Nat \ {0} /\ DOMAIN m.items = 1 .. n /\ \A i \in 1 .. n : IsItem(m.items[i])
  <2>1. IsSequence(m.items) /\ m.items # <<>> /\ \A i \in DOMAIN m.items : IsItem(m.items[i])
    BY Zenon DEF IsStatement
  <2>2. n \in Nat /\ m.items = [i \in 1 .. n |-> m.items[i]]
    BY <2>1 DEF IsSequence
  <2>3. DOMAIN m.items = 1 .. n
    BY <2>2
  <2>4. n # 0
    BY <2>1, <2>2
  <2> QED BY <2>1, <2>2, <2>3, <2>4
<1>2. \A i \in 1 .. n : OutOf(m.items[i]) \in Seq(S) /\ ColumnsOfItem(m.items[i]) = Mapped(OutOf(m.items[i]), g)
  <2> TAKE i \in 1 .. n
  <2>1. ItemOuts(m.items[i]) \subseteq S
    BY <1>1 DEF Outs
  <2>2. IsItem(m.items[i])
    BY <1>1
  <2> HIDE DEF S, g, n
  <2>3. OutOf(m.items[i]) \in Seq(S) /\ ColumnsOfItem(m.items[i]) = Mapped(OutOf(m.items[i]), [x \in S |-> ColumnOf(x)])
    BY <2>1, <2>2, OutIs
  <2> QED BY <2>3, Zenon DEF g, S, OutMap
<1>3. /\ seqs = [i \in 1 .. n |-> OutOf(m.items[i])] /\ made = [i \in 1 .. n |-> ColumnsOfItem(m.items[i])]
  BY <1>1
<1>4. Len(seqs) = n /\ Len(made) = n
  BY <1>1, <1>3
<1>5. \A i \in 1 .. n : seqs[i] \in Seq(S) /\ made[i] = Mapped(seqs[i], g)
  BY <1>2, <1>3
<1>6. FlattenSeq(seqs) \in Seq(S) /\ FlattenSeq(made) = Mapped(FlattenSeq(seqs), g)
  <2> HIDE DEF seqs, made, n, S, g
  <2>1. Len(seqs) \in Nat \ {0} /\ Len(made) = Len(seqs)
    BY <1>1, <1>4
  <2>2. \A i \in 1 .. Len(seqs) : seqs[i] \in Seq(S) /\ made[i] = Mapped(seqs[i], g)
    BY <1>4, <1>5
  <2> QED BY <2>1, <2>2, FlattenMapped
<1>7. OutputOf(m) = FlattenSeq(seqs)
  BY Zenon DEF OutputOf
<1>8. PlanColumns(st) = FlattenSeq(made)
  BY Zenon DEF PlanColumns
<1> DEFINE o == OutputOf(m)
<1> HIDE DEF seqs, made, S, g, o
<1>9. o \in Seq(S) /\ PlanColumns(st) = Mapped(o, g)
  BY <1>6, <1>7, <1>8 DEF o
<1>10. DOMAIN o = 1 .. Len(o) /\ \A i \in 1 .. Len(o) : o[i] \in S
  BY <1>9
<1>11. \A i \in 1 .. Len(o) : g[o[i]] = ColumnOf(o[i])
  BY <1>10 DEF g, S, OutMap
<1>12. PlanColumns(st) = [i \in 1 .. Len(o) |-> g[o[i]]]
  BY <1>9, Zenon DEF Mapped
<1>13. PlanColumns(st) = [i \in DOMAIN o |-> ColumnOf(o[i])]
  BY <1>10, <1>11, <1>12, Zenon
<1> QED BY <1>9, <1>13 DEF o, S

\* What the parts of the output show, each from an item.
LEMMA OutsAre ==
    ASSUME NEW m, IsStatement(m), NEW x \in Outs(m)
    PROVE  \E i \in DOMAIN m.items :
              \/ (m.items[i].what = Star \/ IsColumn(m.items[i].what)) /\ IsColumn(x.what) /\ x.what = Column(x.what.column)
              \/ x = m.items[i] /\ x.what.kind = "Literal" /\ ~IsColumn(x.what)
              \/ x = m.items[i] /\ x.what = CountStar /\ x.what.kind = "CountStar" /\ ~IsColumn(x.what)
<1>1. PICK i \in DOMAIN m.items : x \in ItemOuts(m.items[i])
  BY DEF Outs
<1> DEFINE y == m.items[i]
<1>2. IsItem(y)
  BY <1>1 DEF IsStatement
<1> HIDE DEF y
<1>3. x \in ItemOuts(y)
  BY <1>1 DEF y
<1>4. \/ (y.what = Star \/ IsColumn(y.what)) /\ IsColumn(x.what) /\ x.what = Column(x.what.column)
      \/ x = y /\ x.what.kind = "Literal" /\ ~IsColumn(x.what)
      \/ x = y /\ x.what = CountStar /\ x.what.kind = "CountStar" /\ ~IsColumn(x.what)
  <2>1. CASE y.what = Star
    <3>1. PICK f \in Columns : x = Item(Column(f), f)
      BY <1>3, <2>1 DEF ItemOuts
    <3>2. x.what = Column(f)
      BY <3>1, PartsOfItem
    <3> QED BY <2>1, <3>2, PartsOfColumn
  <2>2. CASE IsColumn(y.what)
    <3>0. y.what = Column(y.what.column)
      <4>1. y.what.kind = "Column" /\ y.what # Star /\ y.what # CountStar
        BY <1>2, <2>2, KindsOfItem
      <4> QED BY <1>2, <4>1 DEF IsItem
    <3>1. x = y \/ x = Item(y.what, y.what.column)
      <4>1. y.what # Star
        BY <1>2, <2>2, KindsOfItem
      <4> QED BY <1>3, <2>2, <4>1 DEF ItemOuts
    <3>2. x.what = y.what
      BY <3>1, PartsOfItem
    <3> QED BY <2>2, <3>0, <3>2
  <2>3. CASE y.what # Star /\ ~IsColumn(y.what)
    <3>1. x = y
      BY <1>3, <2>3 DEF ItemOuts
    <3> QED BY <1>2, <2>3, <3>1, KindsOfItem
  <2> QED BY <2>1, <2>2, <2>3
<1> QED BY <1>1, <1>4 DEF y

------------------------------------------------------------------------------
(* The keys of a plan are those of the statement *)

\* What a column of a plan shows, as a part of the output does.
IsColumnFor(c, x) ==
    /\ IsField(c) <=> IsColumn(x.what)
    /\ IsColumn(x.what) => c.field = x.what.column /\ c.name = x.alias
    /\ ~IsColumn(x.what) /\ x.what.kind = "Literal" => c.kind = "Const" /\ c.const = x.what.lit
    /\ ~IsColumn(x.what) /\ x.what.kind # "Literal" => c.kind = "Count"

Columnwise(columns, output) ==
    /\ Len(output) \in Nat /\ DOMAIN output = 1 .. Len(output) /\ DOMAIN columns = 1 .. Len(output)
    /\ columns = [i \in 1 .. Len(output) |-> columns[i]]
    /\ \A i \in 1 .. Len(output) : IsColumnFor(columns[i], output[i])

Resolved(output) == \A i \in DOMAIN output : IsColumn(output[i].what) => resolves(output[i].what)

\* The column that stands for an output of the statement is one for it.
LEMMA ColumnForOut ==
    ASSUME NEW x
    PROVE  IsColumnFor(ColumnOf(x), x)
<1>1. CASE IsColumn(x.what)
  <2>1. ColumnOf(x) = FieldColumn(x.what.column, x.alias)
    BY <1>1 DEF ColumnOf
  <2> DEFINE c == FieldColumn(x.what.column, x.alias)
  <2>2. c.kind = "Field" /\ c.field = x.what.column /\ c.name = x.alias
    BY DEF FieldColumn
  <2> HIDE DEF c
  <2> QED BY <1>1, <2>1, <2>2 DEF IsColumnFor, IsField, c
<1>2. CASE ~IsColumn(x.what) /\ x.what.kind = "Literal"
  <2> DEFINE n == NameOr(x.alias, "EXPR")
             c == ConstColumn(x.what.lit, n)
  <2>1. ColumnOf(x) = c
    BY <1>2 DEF ColumnOf
  <2> HIDE DEF n
  <2>2. c.kind = "Const" /\ c.const = x.what.lit
    BY DEF ConstColumn
  <2> HIDE DEF c
  <2> QED BY <1>2, <2>1, <2>2 DEF IsColumnFor, IsField
<1>3. CASE ~IsColumn(x.what) /\ x.what.kind # "Literal"
  <2> DEFINE n == NameOr(x.alias, "EXPR")
             c == CountColumn(n)
  <2>1. ColumnOf(x) = c
    BY <1>3 DEF ColumnOf
  <2> HIDE DEF n
  <2>2. c.kind = "Count"
    BY DEF CountColumn
  <2> HIDE DEF c
  <2> QED BY <1>3, <2>1, <2>2 DEF IsColumnFor, IsField
<1> QED BY <1>1, <1>2, <1>3

\* The columns of a plan stand, one by one, for the output of its statement.
LEMMA PlanColumnwise ==
    ASSUME NEW m, IsStatement(m), NEW st, st.items = m.items
    PROVE  Columnwise(PlanColumns(st), OutputOf(m))
<1> DEFINE o == OutputOf(m)
           c == PlanColumns(st)
<1>1. o \in Seq(Outs(m)) /\ c = [i \in DOMAIN o |-> ColumnOf(o[i])]
  BY PlanColumnsAre
<1> HIDE DEF o, c
<1>2. Len(o) \in Nat /\ DOMAIN o = 1 .. Len(o)
  BY <1>1
<1>3. c = [i \in 1 .. Len(o) |-> ColumnOf(o[i])]
  BY <1>1, <1>2
<1>4. DOMAIN c = 1 .. Len(o) /\ c = [i \in 1 .. Len(o) |-> c[i]] /\ \A i \in 1 .. Len(o) : c[i] = ColumnOf(o[i])
  BY <1>3
<1>5. \A i \in 1 .. Len(o) : IsColumnFor(c[i], o[i])
  BY <1>4, ColumnForOut
<1> QED BY <1>2, <1>4, <1>5 DEF Columnwise, o, c

\* Min of a set of natural numbers is its least member.
LEMMA MinIsLeast ==
    ASSUME NEW T, T \subseteq Nat, T # {}
    PROVE  Min(T) \in T /\ \A y \in T : Min(T) <= y
<1>1. \E x \in T : \A y \in T : x <= y
  BY LeastElement
<1> QED BY <1>1, Zenon DEF Min

\* Min of a single number is that number.
LEMMA MinOfOne ==
    ASSUME NEW x \in Int
    PROVE  Min({x}) = x
<1>1. \E z \in {x} : \A y \in {x} : z <= y
  OBVIOUS
<1>2. Min({x}) \in {x}
  BY <1>1, Zenon DEF Min
<1> QED BY <1>2

\* The field of a key, of a statement whose columns are those of the output.
LEMMA KeyFieldIs ==
    ASSUME NEW columns, Columnwise(columns, Output), Resolved(Output), NEW k, IsKey(k)
    PROVE  Keyed(k) = IF KeyField(columns, k) = NoName THEN {} ELSE {KeyField(columns, k)}
<1> DEFINE o == Output
           n == Len(o)
           f == KeyField(columns, k)
           fits(i) == IsColumn(o[i].what) /\ IF k.ordinal > 0 THEN i = k.ordinal ELSE o[i].alias = k.name
           found == {i \in DOMAIN o : fits(i)}
<1>1. Keyed(k) = IF found # {} THEN {o[Min(found)].what.column} ELSE {k.name} \cap Columns
  BY Zenon DEF Keyed
<1>2. NoName \notin Columns
  BY QueryConstants
<1>3. /\ n \in Nat /\ DOMAIN o = 1 .. n /\ DOMAIN columns = 1 .. n
      /\ \A i \in 1 .. n : IsField(columns[i]) <=> IsColumn(o[i].what)
      /\ \A i \in 1 .. n : IsColumn(o[i].what) => columns[i].field = o[i].what.column /\ columns[i].name = o[i].alias
  <2> HIDE DEF o
  <2>1. /\ n \in Nat /\ DOMAIN o = 1 .. n /\ DOMAIN columns = 1 .. n
        /\ \A i \in 1 .. n : IsColumnFor(columns[i], o[i])
    BY Zenon DEF Columnwise, o
  <2> QED BY <2>1 DEF IsColumnFor
<1>4. \A i \in 1 .. n : IsColumn(o[i].what) => o[i].what.column \in Columns
  BY <1>3 DEF Resolved, resolves
<1>5. k.ordinal \in Nat
  <2>1. \A t \in DOMAIN Numerals : Numerals[t] \in Nat
    BY ParserConstants, Zenon
  <2> QED BY <2>1 DEF IsKey, Written
<1> HIDE DEF o, n
<1>6. CASE k.ordinal > 0
  <2>1. k.name = NoName
    BY <1>6 DEF IsKey
  <2>2. f = IF k.ordinal \in DOMAIN columns /\ IsField(columns[k.ordinal]) THEN columns[k.ordinal].field ELSE NoName
    BY <1>6, Zenon DEF KeyField
  <2>3. CASE k.ordinal \in 1 .. n /\ IsColumn(o[k.ordinal].what)
    <3>1. found = {k.ordinal}
      BY <1>3, <1>6, <2>3
    <3>2. Min(found) = k.ordinal
      <4> HIDE DEF found
      <4> QED BY <3>1, <1>5, MinOfOne
    <3>3. f = o[k.ordinal].what.column /\ f \in Columns
      BY <1>3, <1>4, <2>2, <2>3
    <3>4. f # NoName
      <4> HIDE DEF f
      <4> QED BY <1>2, <3>3
    <3>5. Keyed(k) = {o[k.ordinal].what.column}
      <4>1. found # {}
        BY <3>1
      <4> HIDE DEF found
      <4> QED BY <1>1, <3>2, <4>1, Zenon
    <3> HIDE DEF f, found
    <3> QED BY <3>3, <3>4, <3>5, Zenon DEF f
  <2>4. CASE ~(k.ordinal \in 1 .. n /\ IsColumn(o[k.ordinal].what))
    <3>1. found = {}
      BY <1>3, <1>6, <2>4
    <3>2. f = NoName
      BY <1>3, <2>2, <2>4
    <3>3. {k.name} \cap Columns = {}
      BY <1>2, <2>1
    <3> HIDE DEF f, found
    <3>4. Keyed(k) = {}
      BY <1>1, <3>1, <3>3, Zenon
    <3> QED BY <3>2, <3>4, Zenon DEF f
  <2> QED BY <2>3, <2>4
<1>7. CASE ~(k.ordinal > 0)
  <2> DEFINE named == {i \in DOMAIN columns : IsField(columns[i]) /\ columns[i].name = k.name}
  <2>1. f = IF named # {} THEN columns[Min(named)].field ELSE IF k.name \in Columns THEN k.name ELSE NoName
    BY <1>7, Zenon DEF KeyField
  <2>2. named = found
    BY <1>3, <1>7
  <2>3. CASE found # {}
    <3> DEFINE j == Min(found)
    <3>1. found \subseteq 1 .. n
      BY <1>3
    <3>2. j \in found
      <4>1. found \subseteq Nat
        BY <1>3, <3>1
      <4> HIDE DEF found
      <4> QED BY <2>3, <4>1, MinIsLeast
    <3>3. j \in 1 .. n /\ IsColumn(o[j].what)
      <4> HIDE DEF j
      <4> QED BY <3>1, <3>2
    <3>4. columns[j].field = o[j].what.column /\ o[j].what.column \in Columns
      <4> HIDE DEF j
      <4> QED BY <1>3, <1>4, <3>3
    <3>5. f = columns[j].field
      <4> HIDE DEF f, found, named
      <4> QED BY <2>1, <2>2, <2>3, Zenon DEF j
    <3>6. Keyed(k) = {o[j].what.column}
      <4> HIDE DEF found
      <4> QED BY <1>1, <2>3, Zenon DEF j
    <3> HIDE DEF f, j, found
    <3>7. f # NoName /\ f = o[j].what.column
      BY <1>2, <3>4, <3>5
    <3> QED BY <3>6, <3>7, Zenon DEF f
  <2>4. CASE found = {}
    <3>1. f = IF k.name \in Columns THEN k.name ELSE NoName
      <4> HIDE DEF f, found, named
      <4> QED BY <2>1, <2>2, <2>4, Zenon
    <3>2. Keyed(k) = {k.name} \cap Columns
      <4> HIDE DEF found
      <4> QED BY <1>1, <2>4, Zenon
    <3> HIDE DEF f, found
    <3>3. Keyed(k) = IF f = NoName THEN {} ELSE {f}
      <4>1. CASE k.name \in Columns
        <5>1. f = k.name /\ f # NoName
          BY <1>2, <3>1, <4>1
        <5> QED BY <3>2, <4>1, <5>1
      <4>2. CASE k.name \notin Columns
        BY <3>1, <3>2, <4>2
      <4> QED BY <4>1, <4>2
    <3> QED BY <3>3, Zenon DEF f
  <2> QED BY <2>3, <2>4
<1> QED BY <1>6, <1>7 DEF f

------------------------------------------------------------------------------
(* What is planned, and what is refused *)

FragOf(w) == IF w = NoWhere THEN const_frag(TRUE) ELSE render[w]
SlotsFor(w) == IF w = NoWhere THEN NoSlots ELSE SlotsOf(w)

\* Why the plan of a query is refused, and what it is otherwise.
SoqlRefused(st, columns, frag, keys) ==
    \/ \E i \in DOMAIN columns : IsField(columns[i]) /\ columns[i].field \notin Columns
    \/ HasCount(st) /\ Len(st.items) # 1
    \/ frag = Rejected
    \/ \E i \in DOMAIN keys : keys[i].field = NoName
Soql(st, markers, columns, frag, keys) ==
    [kind |-> IF HasCount(st) THEN "Count" ELSE "Soql", columns |-> columns, fields |-> SoqlFields(columns),
     where |-> frag, always_empty |-> frag = const_frag(FALSE), order_by |-> keys,
     limit |-> st.limit, offset |-> st.offset, param_count |-> markers,
     slots |-> SlotsFor(st.where)]

\* A plan with a query is refused for one of its reasons, or is that query.
LEMMA SoqlPlanIs ==
    ASSUME NEW st, NEW markers, NEW columns, NEW frag, NEW keys
    PROVE  /\ SoqlPlan(st, markers, columns, frag, keys)
                = IF SoqlRefused(st, columns, frag, keys) THEN Refused ELSE Soql(st, markers, columns, frag, keys)
           /\ Soql(st, markers, columns, frag, keys) # Refused
<1>1. SoqlPlan(st, markers, columns, frag, keys)
        = IF SoqlRefused(st, columns, frag, keys) THEN Refused ELSE Soql(st, markers, columns, frag, keys)
  BY Zenon DEF SoqlPlan, SoqlRefused, Soql, SlotsFor
<1>2. Soql(st, markers, columns, frag, keys) # Refused
  <2> DEFINE k == IF HasCount(st) THEN "Count" ELSE "Soql"
             f == SoqlFields(columns)
             z == frag = const_frag(FALSE)
             x == SlotsFor(st.where)
  <2>1. k \in {"Count", "Soql"}
    OBVIOUS
  <2> HIDE DEF k, f, z, x
  <2> DEFINE r == [kind |-> k, columns |-> columns, fields |-> f, where |-> frag, always_empty |-> z, order_by |-> keys,
                   limit |-> st.limit, offset |-> st.offset, param_count |-> markers, slots |-> x]
  <2>2. r.kind \in {"Count", "Soql"}
    BY <2>1
  <2>3. Refused.kind = "Refused"
    BY DEF Refused
  <2>4. r = Soql(st, markers, columns, frag, keys)
    BY Zenon DEF Soql, k, f, z, x
  <2> HIDE DEF r
  <2> QED BY <2>2, <2>3, <2>4
<1> QED BY <1>1, <1>2

\* A constant plan is no refusal.
LEMMA ConstantPlanIs ==
    ASSUME NEW st, NEW markers
    PROVE  /\ st.where # NoWhere \/ markers > 0 => ConstantPlan(st, markers) = Refused
           /\ (\E i \in DOMAIN st.items : st.items[i].what.kind # "Literal") => ConstantPlan(st, markers) = Refused
           /\ st.where = NoWhere /\ ~(markers > 0) /\ (\A i \in DOMAIN st.items : st.items[i].what.kind = "Literal") =>
                /\ ConstantPlan(st, markers) # Refused
                /\ ConstantPlan(st, markers).kind = "Constant" /\ ConstantPlan(st, markers).columns = PlanColumns(st)
<1> DEFINE c == PlanColumns(st)
           r == [kind |-> "Constant", columns |-> c]
           bad == \E i \in DOMAIN st.items : st.items[i].what.kind # "Literal"
<1>1. ConstantPlan(st, markers) = IF st.where # NoWhere \/ markers > 0 \/ bad THEN Refused ELSE r
  BY Zenon DEF ConstantPlan
<1> HIDE DEF c
<1>2. r.kind = "Constant" /\ r.columns = c
  OBVIOUS
<1>3. Refused.kind = "Refused"
  BY DEF Refused
<1> HIDE DEF r
<1>4. r # Refused
  BY <1>2, <1>3
<1>5. ~bad <=> \A i \in DOMAIN st.items : st.items[i].what.kind = "Literal"
  OBVIOUS
<1> HIDE DEF bad
<1>6. /\ st.where # NoWhere \/ markers > 0 \/ bad => ConstantPlan(st, markers) = Refused
      /\ st.where = NoWhere /\ ~(markers > 0) /\ ~bad => ConstantPlan(st, markers) = r
  BY <1>1, Zenon
<1> QED BY <1>2, <1>4, <1>5, <1>6, Zenon DEF bad, c

\* The plan of a readable statement, and of one that cannot be read.
QueryOf(m) ==
    SoqlPlan(StmtOf(m), Markers(m.where), PlanColumns(StmtOf(m)), FragOf(WhereOf(m)),
             Keys(StmtOf(m), PlanColumns(StmtOf(m))))

\* The fields of the statement that is parsed from a meaning.
LEMMA StmtOfIs ==
    ASSUME NEW m
    PROVE  /\ StmtOf(m).items = m.items /\ StmtOf(m).from = m.from /\ StmtOf(m).where = WhereOf(m)
           /\ StmtOf(m).order_by = m.order_by /\ StmtOf(m).limit = m.limit /\ StmtOf(m).offset = m.offset
BY DEF StmtOf, Stmt

\* build_plan of a spelling that can be read is the plan of the statement it means,
LEMMA ReadableIsPlanned ==
    ASSUME NEW m, IsStatement(m), Readable(m)
    PROVE  build_plan(Spelling(m)) = IF m.from THEN QueryOf(m) ELSE ConstantPlan(StmtOf(m), Markers(m.where))
<1> DEFINE st == StmtOf(m)
           n == Markers(m.where)
           r == parse(Spelling(m))
<1>1. PICK p : r = Read(p, n, st)
  BY StatementIsParsed
<1>2. st.from = m.from /\ st.where = WhereOf(m)
  BY StmtOfIs
<1> HIDE DEF st, n, r
<1>3. r.ok /\ r.n = n /\ r.v = st
  BY <1>1, ReadIs
<1>4. build_plan(Spelling(m)) = Planned(st, n)
  BY <1>3, Zenon DEF build_plan, IfParsed, r
<1>5. Planned(st, n) = IF m.from THEN SoqlPlan(st, n, PlanColumns(st), FragOf(WhereOf(m)), Keys(st, PlanColumns(st)))
                       ELSE ConstantPlan(st, n)
  BY <1>2, Zenon DEF Planned, FragOf
<1> QED BY <1>4, <1>5, Zenon DEF QueryOf, st, n

\* and of one that cannot it is refused.
LEMMA UnreadableIsRefused ==
    ASSUME NEW m, IsStatement(m), ~Readable(m)
    PROVE  build_plan(Spelling(m)) = Refused
<1> DEFINE r == parse(Spelling(m))
<1>1. m.where # <<>> /\ ReadingsOf(m) = {}
  BY DEF Readable
<1>2. CASE ~r.ok
  BY <1>2, Zenon DEF build_plan, IfParsed
<1>3. CASE r.ok
  <2>1. PICK e, o, l, x : r.v = Stmt(m.items, m.from, e, o, l, x) /\ e \in Expr /\ (Supported(e) => e \in ReadingsOf(m))
    BY <1>1, <1>3, StatementIsSound
  <2>2. render[e] = Rejected /\ e # NoWhere
    BY <1>1, <2>1, RefusedIfUnsupported, NoWhereIs
  <2> DEFINE st == Stmt(m.items, m.from, e, o, l, x)
             c == PlanColumns(st)
  <2>3. st.where = e
    BY DEF Stmt
  <2>4. build_plan(Spelling(m)) = Planned(st, r.n)
    BY <1>3, <2>1, Zenon DEF build_plan, IfParsed
  <2> HIDE DEF st, r, c
  <2>5. CASE st.from
    <3>1. SoqlRefused(st, c, Rejected, Keys(st, c))
      BY Zenon DEF SoqlRefused
    <3>2. SoqlPlan(st, r.n, c, Rejected, Keys(st, c)) = Refused
      BY <3>1, SoqlPlanIs, Zenon
    <3>3. Planned(st, r.n) = SoqlPlan(st, r.n, c, Rejected, Keys(st, c))
      BY <2>2, <2>3, <2>5, Zenon DEF Planned, c
    <3> QED BY <2>4, <3>2, <3>3
  <2>6. CASE ~st.from
    <3>1. ConstantPlan(st, r.n) = Refused
      BY <2>2, <2>3, ConstantPlanIs, Zenon
    <3> QED BY <2>4, <2>6, <3>1, Zenon DEF Planned
  <2> QED BY <2>5, <2>6
<1> QED BY <1>2, <1>3

------------------------------------------------------------------------------
(* Refusal *)

\* The output of the statement at hand.
LEMMA OutputIs == Output = OutputOf(meant)
<1>1. \A i \in DOMAIN meant.items :
         (IF meant.items[i].what = Star THEN [k \in DOMAIN Fields |-> Item(Column(Fields[k]), Fields[k])]
          ELSE IF IsColumn(meant.items[i].what) /\ meant.items[i].alias = NoName
            THEN <<Item(meant.items[i].what, meant.items[i].what.column)>> ELSE <<meant.items[i]>>)
           = OutOf(meant.items[i])
  BY Zenon DEF OutOf
<1> QED BY <1>1, Zenon DEF Output, OutputOf

\* The statement counts exactly when the planner finds a count in it.
LEMMA CountsIs ==
    ASSUME IsStatement(meant), NEW st, st.items = meant.items
    PROVE  HasCount(st) <=> Counts
<1>1. \A i \in DOMAIN meant.items : (meant.items[i].what.kind = "CountStar") <=> (meant.items[i].what = CountStar)
  <2> TAKE i \in DOMAIN meant.items
  <2> DEFINE y == meant.items[i]
  <2>1. IsItem(y)
    BY DEF IsStatement
  <2> HIDE DEF y
  <2>2. CountStar.kind = "CountStar"
    BY DEF CountStar
  <2>3. (y.what.kind = "CountStar") <=> (y.what = CountStar)
    <3>1. y.what.kind = "CountStar" => y.what = CountStar
      BY <2>1, KindsOfItem
    <3> QED BY <2>2, <3>1
  <2> QED BY <2>3 DEF y
<1> QED BY <1>1, Zenon DEF HasCount, Counts

\* The keys of the plan, and whether one of them is unknown.
LEMMA KeysUnknown ==
    ASSUME IsStatement(meant), NEW st, st.items = meant.items, st.order_by = meant.order_by,
           Resolved(Output)
    PROVE  (\E i \in DOMAIN Keys(st, PlanColumns(st)) : Keys(st, PlanColumns(st))[i].field = NoName)
              <=> ~Counts /\ \E i \in DOMAIN meant.order_by : Keyed(meant.order_by[i]) = {}
<1> DEFINE c == PlanColumns(st)
           keys == Keys(st, c)
<1>1. Columnwise(c, Output)
  BY PlanColumnwise, OutputIs
<1> HIDE DEF c
<1>2. HasCount(st) <=> Counts
  BY CountsIs
<1>3. CASE Counts
  <2>1. keys = <<>>
    BY <1>2, <1>3, Zenon DEF Keys
  <2> HIDE DEF keys
  <2>2. DOMAIN keys = {}
    BY <2>1
  <2> QED BY <1>3, <2>2 DEF keys, c
<1>4. CASE ~Counts
  <2>1. keys = [i \in DOMAIN meant.order_by |->
                  [field |-> KeyField(c, meant.order_by[i]), desc |-> meant.order_by[i].desc,
                   nulls |-> meant.order_by[i].nulls]]
    BY <1>2, <1>4, Zenon DEF Keys
  <2> HIDE DEF keys
  <2>2. DOMAIN keys = DOMAIN meant.order_by /\ \A i \in DOMAIN meant.order_by : keys[i].field = KeyField(c, meant.order_by[i])
    BY <2>1
  <2>3. \A i \in DOMAIN meant.order_by : (KeyField(c, meant.order_by[i]) = NoName) <=> (Keyed(meant.order_by[i]) = {})
    <3> TAKE i \in DOMAIN meant.order_by
    <3> DEFINE k == meant.order_by[i]
               f == KeyField(c, k)
    <3>1. IsKey(k)
      BY DEF IsStatement
    <3> HIDE DEF k
    <3>2. Keyed(k) = IF KeyField(c, k) = NoName THEN {} ELSE {KeyField(c, k)}
      BY <1>1, <3>1, KeyFieldIs
    <3> HIDE DEF f
    <3>3. Keyed(k) = IF f = NoName THEN {} ELSE {f}
      BY <3>2, Zenon DEF f
    <3>4. (f = NoName) <=> (Keyed(k) = {})
      BY <3>3
    <3> QED BY <3>4 DEF f, k
  <2>4. (\E i \in DOMAIN keys : keys[i].field = NoName) <=> \E i \in DOMAIN meant.order_by : Keyed(meant.order_by[i]) = {}
    BY <2>2, <2>3
  <2> QED BY <1>4, <2>4 DEF keys, c
<1> QED BY <1>3, <1>4

\* Some column of a plan has an unknown field exactly when some output of the statement does not resolve.
LEMMA FieldsUnknown ==
    ASSUME NEW columns, NEW output, Columnwise(columns, output)
    PROVE  (\E i \in DOMAIN columns : IsField(columns[i]) /\ columns[i].field \notin Columns) <=> ~Resolved(output)
<1> DEFINE n == Len(output)
<1>1. /\ DOMAIN output = 1 .. n /\ DOMAIN columns = 1 .. n
      /\ \A i \in 1 .. n : IsField(columns[i]) <=> IsColumn(output[i].what)
      /\ \A i \in 1 .. n : IsColumn(output[i].what) => columns[i].field = output[i].what.column
  <2>1. DOMAIN output = 1 .. n /\ DOMAIN columns = 1 .. n /\ \A i \in 1 .. n : IsColumnFor(columns[i], output[i])
    BY Zenon DEF Columnwise
  <2> HIDE DEF n
  <2> QED BY <2>1 DEF IsColumnFor
<1> HIDE DEF n
<1> QED BY <1>1 DEF Resolved, resolves

\* The condition is refused when SOQL cannot say it.
LEMMA ConditionRefused ==
    ASSUME IsStatement(meant), Readable(meant)
    PROVE  (FragOf(WhereOf(meant)) = Rejected) <=> meant.where # <<>> /\ ~Supported(Condition)
<1>0. Condition = WhereOf(meant)
  BY MeantIs
<1>1. CASE meant.where = <<>>
  <2>1. WhereOf(meant) = NoWhere
    BY <1>1, StatementIsParsed
  <2>2. FragOf(WhereOf(meant)) = const_frag(TRUE)
    BY <2>1, Zenon DEF FragOf
  <2>3. const_frag(TRUE) # Rejected
    <3>1. const_frag(TRUE).is_const /\ ~Rejected.is_const
      BY DEF const_frag, Rejected
    <3> QED BY <3>1
  <2> QED BY <1>1, <2>2, <2>3
<1>2. CASE meant.where # <<>>
  <2> DEFINE e == WhereOf(meant)
  <2>1. e \in Expr /\ e # NoWhere
    BY <1>2, StatementIsParsed
  <2> HIDE DEF e
  <2>2. (render[e] = Rejected) <=> ~Supported(e)
    BY <2>1, RefusedIfUnsupported
  <2>3. FragOf(e) = render[e]
    BY <2>1, Zenon DEF FragOf
  <2> QED BY <1>0, <1>2, <2>2, <2>3 DEF e
<1> QED BY <1>1, <1>2

\* A readable statement over the object is refused exactly when it is not acceptable,
LEMMA QueryRefused ==
    ASSUME IsStatement(meant), Readable(meant), meant.from
    PROVE  (QueryOf(meant) = Refused) <=> ~Acceptable
<1> DEFINE st == StmtOf(meant)
           n == Markers(meant.where)
           c == PlanColumns(st)
           f == FragOf(WhereOf(meant))
           keys == Keys(st, c)
           R1 == \E i \in DOMAIN c : IsField(c[i]) /\ c[i].field \notin Columns
           R2 == HasCount(st) /\ Len(st.items) # 1
           R3 == f = Rejected
           R4 == \E i \in DOMAIN keys : keys[i].field = NoName
           A0 == meant.where # <<>> => Readings # {} /\ Supported(Condition)
           A2 == IF Counts THEN Len(meant.items) = 1 ELSE \A i \in DOMAIN meant.order_by : Keyed(meant.order_by[i]) # {}
           B4 == \E i \in DOMAIN meant.order_by : Keyed(meant.order_by[i]) = {}
<1>1. st.items = meant.items /\ st.order_by = meant.order_by
  BY StmtOfIs
<1>2. Columnwise(c, Output)
  BY <1>1, PlanColumnwise, OutputIs
<1>3. R1 <=> ~Resolved(Output)
  <2> HIDE DEF c
  <2> QED BY <1>2, FieldsUnknown
<1>4. R2 <=> Counts /\ Len(meant.items) # 1
  <2>1. HasCount(st) <=> Counts
    BY <1>1, CountsIs
  <2> QED BY <1>1, <2>1
<1>5. R3 <=> meant.where # <<>> /\ ~Supported(Condition)
  BY ConditionRefused, Zenon
<1>6. Resolved(Output) => (R4 <=> ~Counts /\ B4)
  <2> SUFFICES ASSUME Resolved(Output) PROVE R4 <=> ~Counts /\ B4
    OBVIOUS
  <2> HIDE DEF st
  <2> QED BY <1>1, KeysUnknown
<1>7. (QueryOf(meant) = Refused) <=> (R1 \/ R2 \/ R3 \/ R4)
  <2> HIDE DEF st, n, c, f, keys
  <2>1. SoqlRefused(st, c, f, keys) <=> (R1 \/ R2 \/ R3 \/ R4)
    BY Zenon DEF SoqlRefused
  <2>2. QueryOf(meant) = IF SoqlRefused(st, c, f, keys) THEN Refused ELSE Soql(st, n, c, f, keys)
    BY SoqlPlanIs, Zenon DEF QueryOf, st, n, c, f, keys
  <2>3. Soql(st, n, c, f, keys) # Refused
    BY SoqlPlanIs, Zenon
  <2> QED BY <2>1, <2>2, <2>3, Zenon
<1>8. meant.where # <<>> => Readings # {}
  BY MeantIs DEF Readable
<1>9. A0 <=> ~R3
  <2> HIDE DEF R3
  <2> QED BY <1>5, <1>8
<1>10. A2 <=> ~(Counts /\ Len(meant.items) # 1) /\ ~(~Counts /\ B4)
  OBVIOUS
<1>11. Acceptable <=> A0 /\ Resolved(Output) /\ A2
  <2>1. A0 <=> (meant.where # <<>> => meant.from /\ Readings # {} /\ Supported(Condition))
    OBVIOUS
  <2>2. Acceptable <=> /\ (meant.where # <<>> => meant.from /\ Readings # {} /\ Supported(Condition))
                       /\ Resolved(Output) /\ A2
    BY Zenon DEF Acceptable, Resolved
  <2> HIDE DEF A0, A2
  <2> QED BY <2>1, <2>2, Zenon
<1> HIDE DEF A0, A2, R1, R2, R3, R4, B4
<1> QED BY <1>3, <1>4, <1>6, <1>7, <1>9, <1>10, <1>11

\* and so is one without FROM.
LEMMA ConstantRefused ==
    ASSUME IsStatement(meant), Readable(meant), ~meant.from
    PROVE  (ConstantPlan(StmtOf(meant), Markers(meant.where)) = Refused) <=> ~Acceptable
<1> DEFINE st == StmtOf(meant)
           n == Markers(meant.where)
           literals == \A i \in DOMAIN meant.items : meant.items[i].what.kind = "Literal"
<1>1. st.items = meant.items /\ st.where = WhereOf(meant)
  BY StmtOfIs
<1>2. /\ meant.where = <<>> => st.where = NoWhere /\ n = 0
      /\ meant.where # <<>> => st.where # NoWhere
  BY <1>1, StatementIsParsed
<1>3. Acceptable <=> meant.where = <<>> /\ literals
  BY Zenon DEF Acceptable
<1>4. literals <=> ~\E i \in DOMAIN st.items : st.items[i].what.kind # "Literal"
  <2> HIDE DEF st
  <2> QED BY <1>1
<1>5. literals <=> \A i \in DOMAIN st.items : st.items[i].what.kind = "Literal"
  <2> HIDE DEF st
  <2> QED BY <1>1
<1> HIDE DEF st, n, literals
<1>6. CASE meant.where = <<>> /\ literals
  <2>1. ~(n > 0)
    BY <1>2, <1>6
  <2>2. ConstantPlan(st, n) # Refused
    BY <1>2, <1>5, <1>6, <2>1, ConstantPlanIs, Zenon
  <2> QED BY <1>3, <1>6, <2>2 DEF st, n
<1>7. CASE meant.where # <<>>
  <2>1. ConstantPlan(st, n) = Refused
    BY <1>2, <1>7, ConstantPlanIs, Zenon
  <2> QED BY <1>3, <1>7, <2>1 DEF st, n
<1>8. CASE ~literals
  <2>1. ConstantPlan(st, n) = Refused
    BY <1>4, <1>8, ConstantPlanIs, Zenon
  <2> QED BY <1>3, <1>8, <2>1 DEF st, n
<1> QED BY <1>6, <1>7, <1>8

\* What is refused is what the driver does not support.
LEMMA PlanRefused ==
    ASSUME IsStatement(meant)
    PROVE  (build_plan(Spelling(meant)) = Refused) <=> ~Acceptable
<1>1. CASE Readable(meant) /\ meant.from
  BY <1>1, ReadableIsPlanned, QueryRefused
<1>2. CASE Readable(meant) /\ ~meant.from
  BY <1>2, ReadableIsPlanned, ConstantRefused
<1>3. CASE ~Readable(meant)
  <2>1. build_plan(Spelling(meant)) = Refused
    BY <1>3, UnreadableIsRefused
  <2>2. meant.where # <<>> /\ Readings = {}
    BY <1>3, MeantIs DEF Readable
  <2>3. ~Acceptable
    BY <2>2, Zenon DEF Acceptable
  <2> QED BY <2>1, <2>3
<1> QED BY <1>1, <1>2, <1>3

------------------------------------------------------------------------------
(* The plan that is no refusal *)

SoqlOf(m) ==
    Soql(StmtOf(m), Markers(m.where), PlanColumns(StmtOf(m)), FragOf(WhereOf(m)), Keys(StmtOf(m), PlanColumns(StmtOf(m))))

\* A plan is of a statement that can be read; it is a constant plan, or that of a query.
LEMMA PlanIs ==
    ASSUME NEW m, IsStatement(m), build_plan(Spelling(m)) # Refused
    PROVE  /\ Readable(m)
           /\ m.from => /\ build_plan(Spelling(m)) = SoqlOf(m)
                        /\ ~SoqlRefused(StmtOf(m), PlanColumns(StmtOf(m)), FragOf(WhereOf(m)),
                                        Keys(StmtOf(m), PlanColumns(StmtOf(m))))
           /\ ~m.from => /\ build_plan(Spelling(m)).kind = "Constant"
                         /\ build_plan(Spelling(m)).columns = PlanColumns(StmtOf(m))
                         /\ \A i \in DOMAIN m.items : m.items[i].what.kind = "Literal"
<1> DEFINE b == build_plan(Spelling(m))
           st == StmtOf(m)
           n == Markers(m.where)
           c == PlanColumns(st)
           f == FragOf(WhereOf(m))
           keys == Keys(st, c)
<1>1. Readable(m)
  BY UnreadableIsRefused
<1>2. b = IF m.from THEN QueryOf(m) ELSE ConstantPlan(st, n)
  BY <1>1, ReadableIsPlanned
<1>3. st.items = m.items
  BY StmtOfIs
<1>4. QueryOf(m) = IF SoqlRefused(st, c, f, keys) THEN Refused ELSE Soql(st, n, c, f, keys)
  <2> HIDE DEF st, n, c, f, keys
  <2> QED BY SoqlPlanIs, Zenon DEF QueryOf, st, n, c, f, keys
<1>5. SoqlOf(m) = Soql(st, n, c, f, keys)
  BY Zenon DEF SoqlOf
<1>b. b # Refused
  OBVIOUS
<1> HIDE DEF b, st, n, c, f, keys
<1>6. ASSUME m.from PROVE b = SoqlOf(m) /\ ~SoqlRefused(st, c, f, keys)
  BY <1>2, <1>4, <1>5, <1>6, <1>b, Zenon
<1>7. ASSUME ~m.from PROVE b.kind = "Constant" /\ b.columns = c /\ \A i \in DOMAIN m.items : m.items[i].what.kind = "Literal"
  <2>1. b = ConstantPlan(st, n)
    BY <1>2, <1>7
  <2>2. \A i \in DOMAIN st.items : st.items[i].what.kind = "Literal"
    <3>1. ~\E i \in DOMAIN st.items : st.items[i].what.kind # "Literal"
      BY <1>b, <2>1, ConstantPlanIs, Zenon
    <3> QED BY <3>1
  <2>3. st.where = NoWhere /\ ~(n > 0)
    BY <1>b, <2>1, ConstantPlanIs, Zenon
  <2>4. b.kind = "Constant" /\ b.columns = c
    BY <2>1, <2>2, <2>3, ConstantPlanIs, Zenon DEF c
  <2> QED BY <1>3, <2>2, <2>4
<1> QED BY <1>1, <1>6, <1>7, Zenon DEF b, st, c, f, keys

\* The fields of the query that a statement is planned to.
LEMMA SoqlOfIs ==
    ASSUME NEW m
    PROVE  /\ SoqlOf(m).kind = IF HasCount(StmtOf(m)) THEN "Count" ELSE "Soql"
           /\ SoqlOf(m).columns = PlanColumns(StmtOf(m)) /\ SoqlOf(m).fields = SoqlFields(PlanColumns(StmtOf(m)))
           /\ SoqlOf(m).where = FragOf(WhereOf(m))
           /\ SoqlOf(m).always_empty = (FragOf(WhereOf(m)) = const_frag(FALSE))
           /\ SoqlOf(m).order_by = Keys(StmtOf(m), PlanColumns(StmtOf(m)))
           /\ SoqlOf(m).limit = m.limit /\ SoqlOf(m).offset = m.offset
           /\ SoqlOf(m).param_count = Markers(m.where) /\ SoqlOf(m).slots = SlotsFor(WhereOf(m))
<1> DEFINE st == StmtOf(m)
           n == Markers(m.where)
           c == PlanColumns(st)
           f == FragOf(WhereOf(m))
           keys == Keys(st, c)
           k == IF HasCount(st) THEN "Count" ELSE "Soql"
           g == SoqlFields(c)
           z == f = const_frag(FALSE)
           x == SlotsFor(WhereOf(m))
<1>1. st.where = WhereOf(m) /\ st.limit = m.limit /\ st.offset = m.offset
  BY StmtOfIs
<1> HIDE DEF st, n, c, f, keys, k, g, z, x
<1> DEFINE r == [kind |-> k, columns |-> c, fields |-> g, where |-> f, always_empty |-> z, order_by |-> keys,
                 limit |-> m.limit, offset |-> m.offset, param_count |-> n, slots |-> x]
<1>2. SoqlOf(m) = r
  BY <1>1, Zenon DEF SoqlOf, Soql, st, n, c, f, keys, k, g, z, x
<1>3. /\ r.kind = k /\ r.columns = c /\ r.fields = g /\ r.where = f /\ r.always_empty = z /\ r.order_by = keys
      /\ r.limit = m.limit /\ r.offset = m.offset /\ r.param_count = n /\ r.slots = x
  OBVIOUS
<1> HIDE DEF r
<1> QED BY <1>2, <1>3, Zenon DEF st, n, c, f, keys, k, g, z, x

\* A plan that is no refusal has a slot for each marker.
LEMMA PlanSlots ==
    ASSUME IsStatement(meant), build_plan(Spelling(meant)) # Refused, build_plan(Spelling(meant)).kind # "Constant",
           NEW b, b = build_plan(Spelling(meant))
    PROVE  /\ DOMAIN b.slots = 0 .. b.param_count - 1
           /\ \A i \in DOMAIN b.slots : b.slots[i] \in ComparedWith(Condition, i)
<1>1. meant.from
  BY PlanIs, Zenon
<1>2. Readable(meant) /\ b = SoqlOf(meant)
  BY <1>1, PlanIs, Zenon
<1> DEFINE e == WhereOf(meant)
           n == Markers(meant.where)
<1>3. b.slots = SlotsFor(e) /\ b.param_count = n
  BY <1>2, SoqlOfIs, Zenon
<1>4. Condition = e
  BY MeantIs
<1>5. CASE meant.where = <<>>
  <2>1. e = NoWhere /\ n = 0
    BY <1>2, <1>5, StatementIsParsed
  <2> HIDE DEF e, n
  <2>2. b.slots = NoSlots
    BY <1>3, <2>1, Zenon DEF SlotsFor
  <2>3. DOMAIN b.slots = {}
    BY <2>2 DEF NoSlots
  <2>4. 0 .. b.param_count - 1 = {}
    BY <1>3, <2>1
  <2> QED BY <2>3, <2>4
<1>6. CASE meant.where # <<>>
  <2>1. e \in Expr /\ e # NoWhere /\ MarkersOf(e) = 0 .. n - 1
    BY <1>2, <1>6, StatementIsParsed
  <2>2. render[e] # Rejected
    <3>1. FragOf(e) # Rejected
      BY <1>1, PlanIs, Zenon DEF SoqlRefused
    <3> HIDE DEF e
    <3> QED BY <2>1, <3>1, Zenon DEF FragOf
  <2> HIDE DEF e, n
  <2>3. HasSlots(e)
    BY <2>1, <2>2, EveryMarkerGetsItsSlot
  <2>4. b.slots = SlotsOf(e)
    BY <1>3, <2>1, Zenon DEF SlotsFor
  <2>5. DOMAIN b.slots = 0 .. b.param_count - 1
    BY <1>3, <2>1, <2>3, <2>4 DEF HasSlots
  <2>6. \A i \in DOMAIN b.slots : b.slots[i] \in ComparedWith(e, i)
    BY <2>3, <2>4 DEF HasSlots
  <2> QED BY <1>4, <2>5, <2>6, Zenon
<1> QED BY <1>5, <1>6

------------------------------------------------------------------------------
(* The invariant *)

Stages == {"allocated", "prepared", "executed"}

\* The plan is that of the statement, and the answer that of the plan.
PlanInv ==
    /\ meant \in Statements /\ stage \in Stages
    /\ stage = "allocated" => plan = Refused
    /\ stage # "allocated" => plan = build_plan(Spelling(meant))
AnswerInv ==
    stage = "executed" => plan # Refused /\ params \in Bindings /\ max_rows \in RowLimits /\ answer = Rows(params, max_rows)
IInv == PlanInv /\ AnswerInv

\* Before anything is prepared there is neither plan nor answer to be wrong.
LEMMA InitInv == Init => IInv
BY DEF Init, IInv, PlanInv, AnswerInv, Stages

\* The invariant is about the variables only.
LEMMA StutterInv == IInv /\ UNCHANGED vars => IInv'
<1> SUFFICES ASSUME IInv, UNCHANGED vars PROVE IInv'
  OBVIOUS
<1>1. meant' = meant /\ stage' = stage /\ plan' = plan /\ params' = params /\ max_rows' = max_rows /\ answer' = answer
  BY DEF vars
<1>2. PlanInv'
  BY <1>1 DEF IInv, PlanInv
<1>4. Rows(params, max_rows)' = Rows(params, max_rows)
  BY <1>1, Zenon DEF Rows, RowOf, render_soql
<1>5. AnswerInv'
  BY <1>1, <1>4, Zenon DEF IInv, AnswerInv
<1> QED BY <1>2, <1>5 DEF IInv

\* Prepare plans the statement it is given and drops the answer of the one before.
LEMMA PrepareInv == IInv /\ Prepare => IInv'
<1> SUFFICES ASSUME IInv, Prepare PROVE IInv'
  OBVIOUS
<1>1. meant' = meant /\ stage' = "prepared" /\ plan' = build_plan(Spelling(meant))
  BY Zenon DEF Prepare
<1>2. PlanInv'
  <2>1. meant \in Statements
    BY Zenon DEF IInv, PlanInv
  <2>2. build_plan(Spelling(meant'))  = build_plan(Spelling(meant))
    BY <1>1
  <2>3. stage' \in Stages /\ stage' # "allocated"
    BY <1>1 DEF Stages
  <2> QED BY <1>1, <2>1, <2>2, <2>3, Zenon DEF PlanInv
<1>3. AnswerInv'
  BY <1>1 DEF AnswerInv
<1> QED BY <1>2, <1>3 DEF IInv

\* Execute answers the plan that it finds and leaves the plan alone.
LEMMA ExecuteInv ==
    ASSUME IInv, NEW binding \in Bindings, NEW rows \in RowLimits, Execute(binding, rows)
    PROVE  IInv'
<1>1. /\ meant' = meant /\ plan' = plan /\ stage' = "executed" /\ params' = binding /\ max_rows' = rows
      /\ answer' = Rows(binding, rows) /\ stage # "allocated" /\ plan # Refused
  BY Zenon DEF Execute
<1>2. PlanInv'
  <2>1. meant \in Statements /\ plan = build_plan(Spelling(meant))
    BY <1>1, Zenon DEF IInv, PlanInv
  <2>2. stage' \in Stages /\ stage' # "allocated"
    BY <1>1 DEF Stages
  <2>3. build_plan(Spelling(meant'))  = build_plan(Spelling(meant))
    BY <1>1
  <2> QED BY <1>1, <2>1, <2>2, <2>3, Zenon DEF PlanInv
<1>3. Rows(params, max_rows)' = Rows(binding, rows)
  BY <1>1, Zenon DEF Rows, RowOf, render_soql
<1>4. AnswerInv'
  BY <1>1, <1>3, Zenon DEF AnswerInv
<1> QED BY <1>2, <1>4 DEF IInv

\* In every state the plan is that of the statement that is meant, and an answer that of its plan.
THEOREM AnswersThePlan == Spec => []IInv
<1>1. IInv /\ [Next]_vars => IInv'
  BY PrepareInv, ExecuteInv, StutterInv, Zenon DEF Next
<1> QED BY InitInv, <1>1, PTL DEF Spec

\* Every statement of the documented grammar is parsed to what it means: its columns, its
\* condition with the precedence of NOT, AND and OR and with its markers numbered from left
\* to right, its keys, limit and offset (sql_parser.cpp:113-391).
THEOREM StatementIsUnderstood == Spec => []ParsesWhatIsMeant
<1>1. IInv => ParsesWhatIsMeant
  <2>1. meant \in Statements => IsStatement(meant)
    BY StatementsAssumption, Zenon
  <2>2. IsStatement(meant) /\ (meant.where = <<>> \/ Readings # {}) => IsMeant(parse(Spelling(meant)))
    BY MeantIsParsed, Zenon
  <2> QED BY <2>1, <2>2, Zenon DEF IInv, PlanInv, ParsesWhatIsMeant
<1> QED BY <1>1, AnswersThePlan, PTL

\* build_plan refuses a statement exactly when the driver does not support it: unreadable
\* conditions, what SOQL cannot say, unknown columns, COUNT beside others, keys that name
\* nothing (sql_plan.cpp:282-402); also where folding would have dropped the offending part.
THEOREM UnsupportedIsRefused == Spec => []RejectsUnsupported
<1>1. IInv => RejectsUnsupported
  <2> SUFFICES ASSUME IInv, Planning PROVE (plan = Refused) <=> ~Acceptable
    BY Zenon DEF RejectsUnsupported
  <2>1. stage # "allocated"
    BY DEF Planning
  <2>2. plan = build_plan(Spelling(meant)) /\ meant \in Statements
    BY <2>1, Zenon DEF IInv, PlanInv
  <2>3. IsStatement(meant)
    BY <2>2, StatementsAssumption, Zenon
  <2> QED BY <2>2, <2>3, PlanRefused, Zenon
<1> QED BY <1>1, AnswersThePlan, PTL

\* A plan that is accepted has exactly one slot for each marker of its statement, for the
\* column the marker is compared with, folded away or not (sql_plan.cpp:110-120, :399).
THEOREM MarkersHaveSlots == Spec => []EveryMarkerHasSlot
<1>1. IInv => EveryMarkerHasSlot
  <2> SUFFICES ASSUME IInv, plan # Refused, plan.kind # "Constant"
               PROVE  /\ DOMAIN plan.slots = 0 .. plan.param_count - 1
                      /\ \A i \in DOMAIN plan.slots : plan.slots[i] \in ComparedWith(Condition, i)
    BY Zenon DEF EveryMarkerHasSlot
  <2>1. plan = build_plan(Spelling(meant)) /\ meant \in Statements
    BY Zenon DEF IInv, PlanInv
  <2>2. IsStatement(meant)
    BY <2>1, StatementsAssumption, Zenon
  <2> QED BY <2>1, <2>2, PlanSlots, Zenon
<1> QED BY <1>1, AnswersThePlan, PTL

------------------------------------------------------------------------------
(* The fields of a query *)

IsFields(f, columns, m) == f = [k \in 0 .. m |-> IF k = 0 THEN <<>> ELSE add_field(f[k - 1], columns[k])]

\* For any number of columns there is such a function.
LEMMA FieldsExist ==
    ASSUME NEW columns, NEW top \in Nat
    PROVE  \E f : IsFields(f, columns, top)
<1> DEFINE T == {m \in 0 .. top : \E f : IsFields(f, columns, m)}
<1>1. 0 \in T
  <2> DEFINE f == [k \in 0 .. 0 |-> <<>>]
  <2>1. f = [k \in 0 .. 0 |-> IF k = 0 THEN <<>> ELSE add_field(f[k - 1], columns[k])]
    OBVIOUS
  <2>2. IsFields(f, columns, 0)
    BY <2>1, Zenon DEF IsFields
  <2>3. 0 \in 0 .. top
    OBVIOUS
  <2> QED BY <2>2, <2>3
<1>2. ASSUME NEW m \in 1 .. top, m - 1 \in T PROVE m \in T
  <2>1. PICK f : IsFields(f, columns, m - 1)
    BY <1>2
  <2> DEFINE g == [k \in 0 .. m |-> IF k = 0 THEN <<>> ELSE add_field(f[k - 1], columns[k])]
  <2>2. \A k \in 0 .. m - 1 : k \in 0 .. m /\ g[k] = f[k]
    BY <2>1 DEF IsFields
  <2>3. \A k \in 0 .. m : k # 0 => g[k - 1] = f[k - 1]
    <3>1. \A k \in 0 .. m : k # 0 => k - 1 \in 0 .. m - 1
      OBVIOUS
    <3> HIDE DEF g
    <3> QED BY <2>2, <3>1
  <2>4. \A k \in 0 .. m : (IF k = 0 THEN <<>> ELSE add_field(f[k - 1], columns[k])) = (IF k = 0 THEN <<>> ELSE add_field(g[k - 1], columns[k]))
    <3> HIDE DEF g
    <3> QED BY <2>3, Zenon
  <2>5. g = [k \in 0 .. m |-> IF k = 0 THEN <<>> ELSE add_field(g[k - 1], columns[k])]
    BY <2>4, Zenon
  <2> HIDE DEF g
  <2>6. IsFields(g, columns, m)
    BY <2>5, Zenon DEF IsFields
  <2>7. m \in 0 .. top
    OBVIOUS
  <2> QED BY <2>6, <2>7
<1>3. top \in T
  <2> HIDE DEF T
  <2> QED BY <1>1, <1>2, InductionUpTo
<1> QED BY <1>3

\* The fields of the query are gathered from its columns one by one, Id if there are none.
LEMMA FieldsAre ==
    ASSUME NEW columns, Len(columns) \in Nat
    PROVE  \E f : /\ SoqlFields(columns) = IF f[Len(columns)] = <<>> THEN <<"Id">> ELSE f[Len(columns)]
                  /\ f[0] = <<>> /\ \A k \in 1 .. Len(columns) : f[k] = add_field(f[k - 1], columns[k])
<1>0. \E f : IsFields(f, columns, Len(columns))
  BY FieldsExist
<1> DEFINE f == CHOOSE f : f = [k \in 0 .. Len(columns) |-> IF k = 0 THEN <<>> ELSE add_field(f[k - 1], columns[k])]
<1>1. IsFields(f, columns, Len(columns))
  BY <1>0, Zenon DEF IsFields
<1>2. SoqlFields(columns) = IF f[Len(columns)] = <<>> THEN <<"Id">> ELSE f[Len(columns)]
  BY Zenon DEF SoqlFields
<1> HIDE DEF f
<1>3. f = [k \in 0 .. Len(columns) |-> IF k = 0 THEN <<>> ELSE add_field(f[k - 1], columns[k])]
  BY <1>1, Zenon DEF IsFields
<1>4. f[0] = <<>>
  BY <1>3
<1>5. \A k \in 1 .. Len(columns) : f[k] = add_field(f[k - 1], columns[k])
  BY <1>3
<1> QED BY <1>2, <1>4, <1>5

\* Fields of the first k columns, each once.
Gathered(q, columns, k, U) ==
    /\ q \in Seq(U)
    /\ \A a, b \in 1 .. Len(q) : q[a] = q[b] => a = b
    /\ \A i \in 1 .. k : IsField(columns[i]) => \E a \in 1 .. Len(q) : q[a] = columns[i].field

\* Gathering one more field keeps those gathered and adds that of the column.
LEMMA AddFieldGathers ==
    ASSUME NEW columns, NEW U, NEW q, NEW k \in Nat \ {0}, Gathered(q, columns, k - 1, U), columns[k].field \in U
    PROVE  Gathered(add_field(q, columns[k]), columns, k, U)
<1> DEFINE c == columns[k]
           v == c.field
<1>1. /\ q \in Seq(U) /\ Len(q) \in Nat /\ DOMAIN q = 1 .. Len(q)
      /\ \A a, b \in 1 .. Len(q) : q[a] = q[b] => a = b
      /\ \A i \in 1 .. k - 1 : IsField(columns[i]) => \E a \in 1 .. Len(q) : q[a] = columns[i].field
  BY DEF Gathered
<1>2. \A i \in 1 .. k : i \in 1 .. k - 1 \/ i = k
  OBVIOUS
<1>3. CASE IsField(c) /\ ~\E i \in DOMAIN q : q[i] = v
  <2> DEFINE r == Append(q, v)
  <2>1. add_field(q, c) = r
    BY <1>3, Zenon DEF add_field
  <2>2. v \in U
    OBVIOUS
  <2> HIDE DEF c, v
  <2>3. r \in Seq(U) /\ Len(r) = Len(q) + 1 /\ r[Len(q) + 1] = v /\ \A a \in 1 .. Len(q) : r[a] = q[a]
    BY <1>1, <2>2
  <2> HIDE DEF r
  <2>4. \A a \in 1 .. Len(r) : a \in 1 .. Len(q) \/ a = Len(q) + 1
    BY <1>1, <2>3
  <2>5. \A a \in 1 .. Len(q) : a \in 1 .. Len(r) /\ q[a] # v
    BY <1>1, <1>3, <2>3
  <2>6. \A a, b \in 1 .. Len(r) : r[a] = r[b] => a = b
    BY <1>1, <2>3, <2>4, <2>5
  <2>7. \A i \in 1 .. k : IsField(columns[i]) => \E a \in 1 .. Len(r) : r[a] = columns[i].field
    <3>1. Len(q) + 1 \in 1 .. Len(r)
      BY <1>1, <2>3
    <3>2. \A i \in 1 .. k - 1 : IsField(columns[i]) => \E a \in 1 .. Len(r) : r[a] = columns[i].field
      BY <1>1, <2>3, <2>5
    <3>3. columns[k].field = v
      BY DEF v, c
    <3> QED BY <1>2, <2>3, <3>1, <3>2, <3>3
  <2> QED BY <2>1, <2>3, <2>6, <2>7 DEF Gathered, c
<1>4. CASE ~(IsField(c) /\ ~\E i \in DOMAIN q : q[i] = v)
  <2>1. add_field(q, c) = q
    BY <1>4, Zenon DEF add_field
  <2>2. IsField(c) => \E a \in 1 .. Len(q) : q[a] = v
    BY <1>1, <1>4
  <2>3. \A i \in 1 .. k : IsField(columns[i]) => \E a \in 1 .. Len(q) : q[a] = columns[i].field
    BY <1>1, <1>2, <2>2
  <2> HIDE DEF c, v
  <2> QED BY <1>1, <2>1, <2>3 DEF Gathered, c
<1> QED BY <1>3, <1>4

\* A query asks for the field of each column, and for no field twice (sql_plan.cpp:330-350).
LEMMA FieldsAskedFor ==
    ASSUME NEW columns, Len(columns) \in Nat
    PROVE  /\ IsInjective(SoqlFields(columns))
           /\ \A i \in 1 .. Len(columns) : IsField(columns[i]) => columns[i].field \in ToSet(SoqlFields(columns))
<1> DEFINE n == Len(columns)
           U == {columns[i].field : i \in 1 .. n}
<1>1. PICK f : /\ SoqlFields(columns) = IF f[n] = <<>> THEN <<"Id">> ELSE f[n]
              /\ f[0] = <<>> /\ \A k \in 1 .. n : f[k] = add_field(f[k - 1], columns[k])
  BY FieldsAre
<1>u. \A k \in 1 .. n : columns[k].field \in U
  OBVIOUS
<1>n. n \in Nat
  OBVIOUS
<1> HIDE DEF n, U
<1> DEFINE T == {k \in 0 .. n : Gathered(f[k], columns, k, U)}
<1>2. 0 \in T
  <2>1. Gathered(<<>>, columns, 0, U)
    BY DEF Gathered
  <2> QED BY <1>1, <1>n, <2>1
<1>3. ASSUME NEW k \in 1 .. n, k - 1 \in T PROVE k \in T
  <2>1. Gathered(f[k - 1], columns, k - 1, U)
    BY <1>3
  <2>2. k \in Nat \ {0} /\ columns[k].field \in U /\ k \in 0 .. n
    BY <1>n, <1>u
  <2>3. Gathered(add_field(f[k - 1], columns[k]), columns, k, U)
    BY <2>1, <2>2, AddFieldGathers
  <2> QED BY <1>1, <2>2, <2>3
<1>4. Gathered(f[n], columns, n, U)
  <2>1. n \in T
    <3> HIDE DEF T
    <3> QED BY <1>2, <1>3, <1>n, InductionUpTo
  <2> QED BY <2>1
<1> DEFINE q == f[n]
           z == SoqlFields(columns)
<1>5. /\ q \in Seq(U) /\ Len(q) \in Nat /\ DOMAIN q = 1 .. Len(q)
      /\ \A a, b \in 1 .. Len(q) : q[a] = q[b] => a = b
      /\ \A i \in 1 .. n : IsField(columns[i]) => \E a \in 1 .. Len(q) : q[a] = columns[i].field
  BY <1>4 DEF Gathered
<1>6. z = IF q = <<>> THEN <<"Id">> ELSE q
  BY <1>1
<1> HIDE DEF q, z
<1>7. CASE q = <<>>
  <2>1. DOMAIN z = {1}
    BY <1>6, <1>7
  <2>2. IsInjective(z)
    BY <2>1 DEF IsInjective
  <2>3. \A i \in 1 .. n : ~IsField(columns[i])
    <3>1. Len(q) = 0
      BY <1>7
    <3> QED BY <1>5, <3>1
  <2> QED BY <2>2, <2>3 DEF n, z
<1>8. CASE q # <<>>
  <2>1. z = q
    BY <1>6, <1>8
  <2>2. IsInjective(z)
    BY <1>5, <2>1 DEF IsInjective
  <2>3. \A i \in 1 .. n : IsField(columns[i]) => columns[i].field \in ToSet(z)
    BY <1>5, <2>1 DEF ToSet
  <2> QED BY <2>2, <2>3 DEF n, z
<1> QED BY <1>7, <1>8

------------------------------------------------------------------------------
(* Limits *)

\* Max of two numbers.
LEMMA MaxOfTwo ==
    ASSUME NEW a \in Int, NEW b \in Int
    PROVE  Max({a, b}) \in {a, b} /\ Max({a, b}) >= a /\ Max({a, b}) >= b
<1> DEFINE T == {a, b}
<1>1. \E x \in T : \A y \in T : x >= y
  <2>1. CASE a >= b
    BY <2>1
  <2>2. CASE b >= a
    BY <2>2
  <2> QED BY <2>1, <2>2
<1> HIDE DEF T
<1>2. Max(T) \in T /\ \A y \in T : Max(T) >= y
  BY <1>1, Zenon DEF Max
<1> QED BY <1>2 DEF T

Numbers == Nat \cup {NoLimit}

\* No more rows are returned than there are, and none of none.
LEMMA HeightIs ==
    ASSUME NEW n \in Nat, NEW offset \in Numbers, NEW limit \in Numbers
    PROVE  Height(n, offset, limit) \in 0 .. n
<1>1. Skipped(offset) \in Nat
  BY DEF Skipped, Numbers, NoLimit
<1> DEFINE s == Skipped(offset)
           d == n - s
           m == Max({0, d})
           T == {m} \cup ({limit} \ {NoLimit})
<1> HIDE DEF s
<1>2. d \in Int /\ d <= n
  BY <1>1 DEF s
<1>3. m \in 0 .. n
  <2> HIDE DEF d
  <2>1. m \in {0, d} /\ m >= 0
    BY <1>2, MaxOfTwo
  <2> HIDE DEF m
  <2> QED BY <1>2, <2>1
<1> HIDE DEF m
<1>4. T \subseteq Nat /\ m \in T
  BY <1>3 DEF Numbers
<1>5. Height(n, offset, limit) = Min(T)
  BY Zenon DEF Height, m, d, s
<1> HIDE DEF T
<1>6. Min(T) \in T /\ Min(T) <= m
  BY <1>4, MinIsLeast
<1>7. Min(T) \in 0 .. n
  <2> DEFINE h == Min(T)
  <2>1. h \in Nat /\ h <= m
    BY <1>4, <1>6
  <2> HIDE DEF h
  <2>2. h \in 0 .. n
    BY <1>3, <2>1
  <2> QED BY <2>2 DEF h
<1> QED BY <1>5, <1>7

\* The limit of the query is the smaller of the two (render_soql, sql_plan.cpp:404-424).
LEMMA LimitIsSmaller ==
    ASSUME meant.limit \in Numbers, max_rows \in Nat
    PROVE  RowLimit(meant.limit, max_rows) = LimitMeant /\ LimitMeant \in Numbers
<1> DEFINE l == meant.limit
           r == max_rows
           T == {l, IF r = 0 THEN NoLimit ELSE r} \ {NoLimit}
<1>1. LimitMeant = IF T = {} THEN NoLimit ELSE Min(T)
  BY Zenon DEF LimitMeant
<1> HIDE DEF l, r
<1>2. l \in Numbers /\ r \in Nat
  BY DEF l, r
<1>t. T \subseteq Nat
  BY <1>2 DEF Numbers
<1>3. CASE r = 0 /\ l = NoLimit
  <2>1. T = {}
    BY <1>3
  <2>2. RowLimit(l, r) = NoLimit
    BY <1>3 DEF RowLimit
  <2> HIDE DEF T
  <2>3. LimitMeant = NoLimit
    BY <1>1, <2>1
  <2> QED BY <2>2, <2>3 DEF l, r, Numbers
<1>4. CASE r = 0 /\ l # NoLimit
  <2>1. T = {l} /\ l \in Nat
    BY <1>2, <1>4 DEF Numbers
  <2>2. RowLimit(l, r) = l
    BY <1>4 DEF RowLimit
  <2> HIDE DEF T
  <2>3. LimitMeant = l
    BY <1>1, <2>1, MinOfOne
  <2> QED BY <2>1, <2>2, <2>3 DEF l, r, Numbers
<1>5. CASE r # 0 /\ l = NoLimit
  <2>1. T = {r} /\ r \in Nat
    BY <1>2, <1>5 DEF NoLimit
  <2>2. RowLimit(l, r) = r
    BY <1>2, <1>5 DEF RowLimit
  <2> HIDE DEF T
  <2>3. LimitMeant = r
    BY <1>1, <2>1, MinOfOne
  <2> QED BY <2>1, <2>2, <2>3 DEF l, r, Numbers
<1>6. CASE r # 0 /\ l # NoLimit
  <2>1. T = {l, r} /\ l \in Nat
    BY <1>2, <1>6 DEF Numbers, NoLimit
  <2>2. RowLimit(l, r) = IF r < l THEN r ELSE l
    BY <1>2, <1>6 DEF RowLimit
  <2> HIDE DEF T
  <2>3. T # {} /\ LimitMeant = Min(T)
    BY <1>1, <2>1
  <2>4. Min(T) \in T /\ \A y \in T : Min(T) <= y
    BY <1>t, <2>3, MinIsLeast
  <2>5. LimitMeant = RowLimit(l, r) /\ LimitMeant \in Nat
    BY <1>2, <2>1, <2>2, <2>3, <2>4
  <2> QED BY <2>5 DEF l, r, Numbers
<1> QED BY <1>3, <1>4, <1>5, <1>6

------------------------------------------------------------------------------
(* The rows of an answer *)

\* Without a count, everything in the output is a column or a literal.
LEMMA ShownKinds ==
    ASSUME IsStatement(meant), ~Counts
    PROVE  \A i \in DOMAIN Output : ~IsColumn(Output[i].what) => Output[i].what.kind = "Literal"
<1>1. Output \in Seq(Outs(meant))
  <2> DEFINE st == StmtOf(meant)
  <2>1. st.items = meant.items
    BY StmtOfIs
  <2> HIDE DEF st
  <2> QED BY <2>1, PlanColumnsAre, OutputIs
<1> DEFINE o == Output
<1> HIDE DEF o
<1>2. \A i \in DOMAIN o : o[i] \in Outs(meant)
  BY <1>1 DEF o
<1>3. \A x \in Outs(meant) : ~IsColumn(x.what) => x.what.kind = "Literal"
  <2> TAKE x \in Outs(meant)
  <2>1. PICK i \in DOMAIN meant.items :
           \/ IsColumn(x.what)
           \/ x.what.kind = "Literal"
           \/ x = meant.items[i] /\ x.what = CountStar
    BY OutsAre, Zenon
  <2>2. ~(x = meant.items[i] /\ x.what = CountStar)
    BY <2>1, Zenon DEF Counts
  <2> QED BY <2>1, <2>2, Zenon
<1> QED BY <1>2, <1>3, Zenon DEF o

\* A row of the answer shows what a row of the object has in those fields.
LEMMA RowShows ==
    ASSUME NEW columns, plan.columns = columns, Columnwise(columns, Output), NEW record, NEW row, NEW count,
           \A i \in DOMAIN Output : ~IsColumn(Output[i].what) => Output[i].what.kind = "Literal",
           \A i \in DOMAIN Output : IsColumn(Output[i].what) => record[Output[i].what.column] = row[Output[i].what.column]
    PROVE  RowOf(record, count) = Shown(row)
<1> DEFINE o == Output
           n == Len(o)
           shown(i) == IF IsColumn(o[i].what) THEN row[o[i].what.column] ELSE o[i].what.lit
           cell(c) == IF IsField(c) THEN record[c.field] ELSE IF c.kind = "Const" THEN c.const ELSE count
<1>1. /\ DOMAIN o = 1 .. n /\ DOMAIN columns = 1 .. n /\ \A i \in 1 .. n : IsColumnFor(columns[i], o[i])
  BY Zenon DEF Columnwise
<1>2. /\ \A i \in DOMAIN o : ~IsColumn(o[i].what) => o[i].what.kind = "Literal"
      /\ \A i \in DOMAIN o : IsColumn(o[i].what) => record[o[i].what.column] = row[o[i].what.column]
  OBVIOUS
<1>3. RowOf(record, count) = [i \in DOMAIN columns |-> cell(columns[i])]
  BY Zenon DEF RowOf
<1>4. Shown(row) = [i \in DOMAIN o |-> shown(i)]
  BY Zenon DEF Shown
<1> HIDE DEF o, n
<1>5. \A i \in 1 .. n : cell(columns[i]) = shown(i)
  <2> TAKE i \in 1 .. n
  <2> DEFINE c == columns[i]
             x == o[i]
  <2>1. IsColumnFor(c, x)
    BY <1>1
  <2>2. ~IsColumn(x.what) => x.what.kind = "Literal"
    BY <1>1, <1>2
  <2>3. IsColumn(x.what) => record[x.what.column] = row[x.what.column]
    BY <1>1, <1>2
  <2> HIDE DEF c, x
  <2>4. CASE IsColumn(x.what)
    <3>1. IsField(c) /\ c.field = x.what.column
      BY <2>1, <2>4, Zenon DEF IsColumnFor
    <3>2. cell(c) = row[x.what.column]
      BY <2>3, <2>4, <3>1
    <3> QED BY <2>4, <3>2, Zenon DEF c, x
  <2>5. CASE ~IsColumn(x.what)
    <3>1. ~IsField(c) /\ c.kind = "Const" /\ c.const = x.what.lit
      BY <2>1, <2>2, <2>5, Zenon DEF IsColumnFor
    <3>2. cell(c) = x.what.lit
      BY <3>1
    <3> QED BY <2>5, <3>2, Zenon DEF c, x
  <2> QED BY <2>4, <2>5
<1> HIDE DEF cell, shown
<1>6. [i \in DOMAIN columns |-> cell(columns[i])] = [i \in DOMAIN o |-> shown(i)]
  BY <1>1, <1>5, Zenon
<1> QED BY <1>3, <1>4, <1>6, Zenon DEF shown, cell, o

\* The rows that Salesforce selects are those that the condition is true of.
LEMMA MatchesAre ==
    ASSUME IsStatement(meant), meant \in Statements, Readable(meant), params \in Bindings,
           FragOf(WhereOf(meant)) # Rejected, ~(WhereOf(meant) # NoWhere /\ UnknownUnderNot(WhereOf(meant)))
    PROVE  {row \in Table : Selects(FragOf(WhereOf(meant)), row, params)} = Matches(WhereOf(meant))
<1> DEFINE e == WhereOf(meant)
           f == FragOf(e)
<1>m. Matches(e) = {row \in Table : e = NoWhere \/ Meaning(e, row, params) = "true"}
  BY Zenon DEF Matches
<1>1. CASE meant.where = <<>>
  <2>1. e = NoWhere
    BY <1>1, StatementIsParsed
  <2> HIDE DEF e
  <2>2. f = const_frag(TRUE)
    BY <2>1, Zenon DEF FragOf
  <2>3. const_frag(TRUE).is_const = TRUE /\ const_frag(TRUE).value = TRUE
    BY DEF const_frag
  <2> HIDE DEF f
  <2>4. \A row \in Table : Selects(f, row, params)
    BY <2>2, <2>3 DEF Selects
  <2>5. Matches(e) = Table
    BY <1>m, <2>1
  <2> QED BY <2>4, <2>5 DEF e, f
<1>2. CASE meant.where # <<>>
  <2>1. e \in Expr /\ e # NoWhere /\ MarkersOf(e) = 0 .. Markers(meant.where) - 1
    BY <1>2, StatementIsParsed
  <2>2. ~UnknownUnderNot(e)
    BY <2>1
  <2>3. f # Rejected
    OBVIOUS
  <2> HIDE DEF e
  <2>4. f = render[e]
    BY <2>1, Zenon DEF FragOf
  <2>5. \A row \in Table : Bound(e, row, params)
    <3> TAKE row \in Table
    <3>1. \A c \in Columns : row[c] \in Value
      BY QueryConstants DEF Value
    <3>2. \A i \in 0 .. Markers(meant.where) - 1 : params[i] \in Value
      BY BindingsAssumption, Zenon DEF Value
    <3> QED BY <2>1, <3>1, <3>2 DEF Bound
  <2>6. \A row \in Table : Selects(f, row, params) <=> Meaning(e, row, params) = "true"
    <3> TAKE row \in Table
    <3>1. Kept(e, row, params)
      BY <2>1, <2>3, <2>4, <2>5, FoldingKeepsMeaning
    <3> QED BY <2>2, <2>4, <3>1, Zenon DEF Kept
  <2> HIDE DEF f
  <2> QED BY <1>m, <2>1, <2>6 DEF e, f
<1> QED BY <1>1, <1>2

\* The keys of the plan are those that are meant.
LEMMA KeysAre ==
    ASSUME IsStatement(meant), ~Counts, Resolved(Output), NEW st, st.items = meant.items, st.order_by = meant.order_by,
           ~\E i \in DOMAIN Keys(st, PlanColumns(st)) : Keys(st, PlanColumns(st))[i].field = NoName
    PROVE  Keys(st, PlanColumns(st)) = KeysMeant
<1> DEFINE c == PlanColumns(st)
           keys == Keys(st, c)
           q == meant.order_by
           field(k) == CHOOSE x \in Keyed(k) : TRUE
<1>1. Columnwise(c, Output)
  BY PlanColumnwise, OutputIs
<1>2. ~HasCount(st)
  BY CountsIs
<1>3. keys = [i \in DOMAIN q |-> [field |-> KeyField(c, q[i]), desc |-> q[i].desc, nulls |-> q[i].nulls]]
  BY <1>2, Zenon DEF Keys
<1>4. KeysMeant = [i \in DOMAIN q |-> [field |-> field(q[i]), desc |-> q[i].desc, nulls |-> q[i].nulls]]
  BY Zenon DEF KeysMeant
<1>5. \A i \in DOMAIN keys : keys[i].field # NoName
  OBVIOUS
<1>6. \A i \in DOMAIN q : IsKey(q[i])
  BY DEF IsStatement
<1> HIDE DEF c, keys, q
<1>7. \A i \in DOMAIN q : KeyField(c, q[i]) # NoName
  BY <1>3, <1>5
<1>8. \A i \in DOMAIN q : field(q[i]) = KeyField(c, q[i])
  <2> TAKE i \in DOMAIN q
  <2>1. Keyed(q[i]) = IF KeyField(c, q[i]) = NoName THEN {} ELSE {KeyField(c, q[i])}
    BY <1>1, <1>6, KeyFieldIs
  <2> DEFINE k == KeyField(c, q[i])
             T == Keyed(q[i])
  <2> HIDE DEF k, T
  <2>2. T = {k}
    BY <1>7, <2>1, Zenon DEF k, T
  <2>3. (CHOOSE x \in T : TRUE) = k
    <3>1. (CHOOSE x \in T : TRUE) \in T
      BY <2>2
    <3> QED BY <2>2, <3>1
  <2> QED BY <2>3, Zenon DEF k, T
<1> HIDE DEF field
<1>9. KeysMeant = keys
  BY <1>3, <1>4, <1>8, Zenon
<1> QED BY <1>9 DEF keys, c

\* A plan that is not refused knows its fields and keys, and counts nothing beside others.
LEMMA NotRefused ==
    ASSUME NEW st, NEW columns, NEW frag, NEW keys, ~SoqlRefused(st, columns, frag, keys)
    PROVE  /\ ~\E i \in DOMAIN columns : IsField(columns[i]) /\ columns[i].field \notin Columns
           /\ ~(HasCount(st) /\ Len(st.items) # 1)
           /\ frag # Rejected
           /\ ~\E i \in DOMAIN keys : keys[i].field = NoName
BY Zenon DEF SoqlRefused

\* The answer of a statement without FROM.
LEMMA ConstantAnswer ==
    ASSUME IsStatement(meant), plan = build_plan(Spelling(meant)), plan # Refused, ~meant.from
    PROVE  Rows(params, max_rows) = <<Shown(<<>>)>>
<1> DEFINE st == StmtOf(meant)
           c == PlanColumns(st)
           none == <<>>
<1>1. plan.kind = "Constant" /\ plan.columns = c /\ \A i \in DOMAIN meant.items : meant.items[i].what.kind = "Literal"
  BY PlanIs, Zenon
<1>2. ~Counts
  <2>1. CountStar.kind # "Literal"
    BY DEF CountStar
  <2> QED BY <1>1, <2>1 DEF Counts
<1>3. Columnwise(c, Output)
  <2>1. st.items = meant.items
    BY StmtOfIs
  <2> HIDE DEF st
  <2> QED BY <2>1, PlanColumnwise, OutputIs
<1> HIDE DEF c, none
<1>4. \A i \in DOMAIN Output : ~IsColumn(Output[i].what) => Output[i].what.kind = "Literal"
  BY <1>2, ShownKinds, Zenon
<1>5. RowOf(none, 0) = Shown(none)
  <2>1. \A i \in DOMAIN Output : IsColumn(Output[i].what) => none[Output[i].what.column] = none[Output[i].what.column]
    OBVIOUS
  <2> QED BY <1>1, <1>3, <1>4, <2>1, RowShows
<1>6. Rows(params, max_rows) = <<RowOf(none, 0)>>
  BY <1>1, Zenon DEF Rows, none
<1> QED BY <1>5, <1>6, Zenon DEF none

\* The records that Salesforce answers with.
LEMMA RecordsAre ==
    ASSUME NEW binding, NEW rows, IsInjective(plan.fields)
    PROVE  Records(render_soql(rows), binding)
             = [n \in 1 .. Height(Cardinality({row \in Table : Selects(plan.where, row, binding)}), plan.offset, RowLimit(plan.limit, rows)) |->
                  Restrict(Nth({row \in Table : Selects(plan.where, row, binding)}, Skipped(plan.offset) + n - 1, plan.order_by),
                           ToSet(plan.fields))]
<1> DEFINE l == RowLimit(plan.limit, rows)
           q == render_soql(rows)
           f == plan.fields
           w == plan.where
           k == plan.order_by
           o == plan.offset
<1>1. q = [fields |-> f, where |-> w, order_by |-> k, limit |-> l, offset |-> o]
  BY Zenon DEF render_soql
<1> HIDE DEF l, q, f, w, k, o
<1>2. q.fields = f /\ q.where = w /\ q.order_by = k /\ q.limit = l /\ q.offset = o
  BY <1>1
<1>3. IsInjective(f)
  BY DEF f
<1> DEFINE S == {row \in Table : Selects(w, row, binding)}
<1>4. Records(q, binding) = [n \in 1 .. Height(Cardinality(S), o, l) |-> Restrict(Nth(S, Skipped(o) + n - 1, k), ToSet(f))]
  BY <1>2, <1>3, Zenon DEF Records
<1> QED BY <1>4, Zenon DEF l, q, f, w, k, o

\* A statement that counts has one column, the count.
LEMMA CountAnswer ==
    ASSUME IsStatement(meant), Counts, Len(meant.items) = 1, NEW columns, plan.columns = columns, Columnwise(columns, Output),
           NEW record, NEW count
    PROVE  RowOf(record, count) = <<count>>
<1> DEFINE y == meant.items[1]
           seqs == [i \in DOMAIN meant.items |-> OutOf(meant.items[i])]
<1>1. DOMAIN meant.items = {1}
  <2>1. IsSequence(meant.items)
    BY Zenon DEF IsStatement
  <2>2. meant.items = [i \in 1 .. 1 |-> meant.items[i]]
    BY <2>1 DEF IsSequence
  <2>3. DOMAIN meant.items = 1 .. 1
    BY <2>2
  <2> QED BY <2>3
<1>2. y.what = CountStar
  BY <1>1 DEF Counts
<1>3. IsItem(y)
  BY <1>1 DEF IsStatement
<1>4. y.what # Star /\ ~IsColumn(y.what) /\ y.what.kind # "Literal"
  <2> HIDE DEF y
  <2>1. y.what.kind = "CountStar"
    BY <1>2 DEF CountStar
  <2> QED BY <1>3, <2>1, KindsOfItem
<1>5. OutOf(y) = <<y>>
  BY <1>4, Zenon DEF OutOf
<1>6. Output = <<y>>
  <2>1. seqs = [i \in 1 .. 1 |-> OutOf(meant.items[i])]
    BY <1>1
  <2>2. Len(seqs) = 1 /\ seqs[1] = OutOf(y)
    BY <2>1
  <2>3. Output = FlattenSeq(seqs)
    BY OutputIs, Zenon DEF OutputOf
  <2> HIDE DEF seqs
  <2>4. FlattenSeq(seqs) = seqs[1]
    <3>1. \E f : FlattenSeq(seqs) = f[1] /\ f[1] = seqs[1]
      <4>1. Len(seqs) \in Nat \ {0}
        BY <2>2
      <4>2. \E f : FlattenSeq(seqs) = f[Len(seqs)] /\ f[1] = seqs[1]
        BY <4>1, FlattenIs, Zenon
      <4> QED BY <2>2, <4>2, Zenon
    <3> QED BY <3>1, Zenon
  <2> QED BY <1>5, <2>2, <2>3, <2>4, Zenon
<1> DEFINE o == <<y>>
<1>7. Len(o) = 1 /\ o[1] = y
  OBVIOUS
<1> HIDE DEF o, y
<1>8. Output = o
  BY <1>6 DEF o
<1>9. DOMAIN columns = 1 .. 1 /\ IsColumnFor(columns[1], y)
  <2>1. DOMAIN columns = 1 .. Len(o) /\ \A i \in 1 .. Len(o) : IsColumnFor(columns[i], o[i])
    BY <1>8, Zenon DEF Columnwise
  <2> QED BY <1>7, <2>1
<1>10. ~IsField(columns[1]) /\ columns[1].kind = "Count"
  BY <1>4, <1>9 DEF IsColumnFor
<1> DEFINE cell(c) == IF IsField(c) THEN record[c.field] ELSE IF c.kind = "Const" THEN c.const ELSE count
<1>11. cell(columns[1]) = count
  BY <1>10
<1>12. RowOf(record, count) = [i \in DOMAIN columns |-> cell(columns[i])]
  BY Zenon DEF RowOf
<1> HIDE DEF cell
<1>13. [i \in DOMAIN columns |-> cell(columns[i])] = [i \in 1 .. 1 |-> count]
  <2>1. \A i \in 1 .. 1 : cell(columns[i]) = count
    BY <1>11
  <2> QED BY <1>9, <2>1, Zenon
<1>14. [i \in 1 .. 1 |-> count] = <<count>>
  OBVIOUS
<1> QED BY <1>12, <1>13, <1>14, Zenon DEF cell

\* Limit and offset of a statement are numbers that the parser knows.
LEMMA LimitsAreNumbers ==
    ASSUME IsStatement(meant)
    PROVE  meant.limit \in Numbers /\ meant.offset \in Numbers
<1>1. \A t \in DOMAIN Numerals : Numerals[t] \in Nat
  BY ParserConstants, Zenon
<1>2. Written \subseteq Nat
  BY <1>1 DEF Written
<1>3. {meant.limit, meant.offset} \subseteq Written \cup {NoLimit}
  BY Zenon DEF IsStatement
<1> QED BY <1>2, <1>3 DEF Numbers

\* A row of the object, restricted to the fields of a query, has what it has in each of them.
LEMMA RecordShows ==
    ASSUME IsStatement(meant), ~Counts, NEW columns, plan.columns = columns, Columnwise(columns, Output), NEW row, NEW fields,
           \A i \in 1 .. Len(Output) : IsField(columns[i]) => columns[i].field \in ToSet(fields)
    PROVE  RowOf(Restrict(row, ToSet(fields)), 0) = Shown(row)
<1> DEFINE F == ToSet(fields)
           record == Restrict(row, F)
           o == Output
<1>1. \A i \in DOMAIN o : ~IsColumn(o[i].what) => o[i].what.kind = "Literal"
  BY ShownKinds, Zenon
<1>2. \A i \in DOMAIN o : IsColumn(o[i].what) => o[i].what.column \in F
  <2>1. DOMAIN o = 1 .. Len(o) /\ \A i \in 1 .. Len(o) : IsColumnFor(columns[i], o[i])
    BY Zenon DEF Columnwise
  <2>2. \A i \in 1 .. Len(o) : IsField(columns[i]) => columns[i].field \in F
    OBVIOUS
  <2> HIDE DEF o, F
  <2> QED BY <2>1, <2>2 DEF IsColumnFor
<1> HIDE DEF F
<1>3. \A c \in F : record[c] = row[c]
  BY DEF Restrict
<1> HIDE DEF record
<1>4. \A i \in DOMAIN o : IsColumn(o[i].what) => record[o[i].what.column] = row[o[i].what.column]
  <2> HIDE DEF o
  <2> QED BY <1>2, <1>3
<1>5. RowOf(record, 0) = Shown(row)
  BY <1>1, <1>4, RowShows
<1> QED BY <1>5 DEF record, F

\* The answer of a query.
LEMMA QueryAnswer ==
    ASSUME IsStatement(meant), meant \in Statements, plan = build_plan(Spelling(meant)), plan # Refused, meant.from,
           params \in Bindings, max_rows \in RowLimits, answer = Rows(params, max_rows),
           ~(WhereOf(meant) # NoWhere /\ UnknownUnderNot(WhereOf(meant)))
    PROVE  Answers(Matches(WhereOf(meant)))
<1> DEFINE st == StmtOf(meant)
           c == PlanColumns(st)
           e == WhereOf(meant)
           w == FragOf(e)
           keys == Keys(st, c)
           S == Matches(e)
           all == Cardinality(S)
           skip == Skipped(meant.offset)
           height == Height(all, meant.offset, LimitMeant)
           shown(n) == Shown(Nth(S, skip + n - 1, KeysMeant))
<1>1. Readable(meant) /\ plan = SoqlOf(meant) /\ ~SoqlRefused(st, c, w, keys)
  BY PlanIs, Zenon
<1>2. st.items = meant.items /\ st.order_by = meant.order_by
  BY StmtOfIs
<1>3. Columnwise(c, Output)
  <2> HIDE DEF st
  <2> QED BY <1>2, PlanColumnwise, OutputIs
<1>4. HasCount(st) <=> Counts
  <2> HIDE DEF st
  <2> QED BY <1>2, CountsIs
<1>5. /\ plan.kind = IF HasCount(st) THEN "Count" ELSE "Soql"
      /\ plan.columns = c /\ plan.fields = SoqlFields(c) /\ plan.where = w
      /\ plan.always_empty = (w = const_frag(FALSE)) /\ plan.order_by = keys
      /\ plan.limit = meant.limit /\ plan.offset = meant.offset
  BY <1>1, SoqlOfIs, Zenon
<1>6. /\ ~\E i \in DOMAIN c : IsField(c[i]) /\ c[i].field \notin Columns
      /\ ~(HasCount(st) /\ Len(st.items) # 1)
      /\ w # Rejected
      /\ ~\E i \in DOMAIN keys : keys[i].field = NoName
  <2> HIDE DEF st, c, w, keys
  <2> QED BY <1>1, NotRefused
<1>7. Resolved(Output)
  <2> HIDE DEF c
  <2> QED BY <1>3, <1>6, FieldsUnknown
<1>8. {row \in Table : Selects(plan.where, row, params)} = S
  <2>1. {row \in Table : Selects(w, row, params)} = S
    BY <1>1, <1>6, MatchesAre, Zenon
  <2> QED BY <1>5, <2>1, Zenon
<1>9. all \in Nat
  <2>1. S \subseteq Table
    BY DEF Matches
  <2>2. IsFiniteSet(Table)
    BY QueryConstants, Zenon
  <2> HIDE DEF S
  <2>3. IsFiniteSet(S)
    BY <2>1, <2>2, FS_Subset
  <2> QED BY <2>3, FS_CardinalityType
<1>10. meant.limit \in Numbers /\ meant.offset \in Numbers /\ max_rows \in Nat
  BY LimitsAreNumbers, QueryConstants
<1>11. RowLimit(meant.limit, max_rows) = LimitMeant /\ LimitMeant \in Numbers
  BY <1>10, LimitIsSmaller
<1>12. height \in 0 .. all
  <2> HIDE DEF all
  <2> QED BY <1>9, <1>10, <1>11, HeightIs
<1>13. ~Counts => KeysMeant = keys
  <2> HIDE DEF st
  <2> QED BY <1>2, <1>6, <1>7, KeysAre
<1>14. plan.kind # "Constant" /\ (plan.kind = "Count" <=> Counts)
  BY <1>4, <1>5
<1>15. Len(c) \in Nat /\ Len(c) = Len(Output)
  <2> HIDE DEF c
  <2>1. Len(Output) \in Nat /\ c = [i \in 1 .. Len(Output) |-> c[i]]
    BY <1>3, Zenon DEF Columnwise
  <2> QED BY <2>1
<1>16. IsInjective(plan.fields) /\ \A i \in 1 .. Len(Output) : IsField(c[i]) => c[i].field \in ToSet(plan.fields)
  <2> HIDE DEF c
  <2>1. IsInjective(SoqlFields(c)) /\ \A i \in 1 .. Len(c) : IsField(c[i]) => c[i].field \in ToSet(SoqlFields(c))
    BY <1>15, FieldsAskedFor
  <2> QED BY <1>5, <1>15, <2>1, Zenon
<1> DEFINE records == Records(render_soql(max_rows), params)
           record(n) == Restrict(Nth(S, skip + n - 1, keys), ToSet(plan.fields))
<1>17. records = [n \in 1 .. height |-> record(n)]
  <2> DEFINE T == {row \in Table : Selects(plan.where, row, params)}
  <2>1. records = [n \in 1 .. Height(Cardinality(T), plan.offset, RowLimit(plan.limit, max_rows)) |->
                     Restrict(Nth(T, Skipped(plan.offset) + n - 1, plan.order_by), ToSet(plan.fields))]
    BY <1>16, RecordsAre
  <2>2. T = S
    BY <1>8
  <2> HIDE DEF T, records, S, keys
  <2> QED BY <1>5, <1>11, <2>1, <2>2, Zenon DEF keys
<1> HIDE DEF st, c, w, keys, S, all, skip, records, record
<1>18. height \in Nat /\ DOMAIN records = 1 .. height /\ Len(records) = height
  <2> HIDE DEF height
  <2>1. height \in Nat
    BY <1>9, <1>12
  <2> QED BY <1>17, <2>1
<1>19. answer = IF plan.always_empty THEN <<>>
                ELSE IF plan.kind = "Count" THEN <<RowOf(<<>>, Len(records))>>
                ELSE [i \in DOMAIN records |-> RowOf(records[i], 0)]
  BY <1>14, Zenon DEF Rows, NoRows, records
<1>20. Answers(S) <=> IF Counts THEN plan.always_empty \/ height < all \/ answer = <<<<all>>>>
                      ELSE answer = [n \in 1 .. height |-> shown(n)]
  BY Zenon DEF Answers, all, skip
<1> HIDE DEF height, shown
<1>21. CASE Counts
  <2>1. CASE plan.always_empty
    BY <1>20, <1>21, <2>1, Zenon DEF S, e
  <2>2. CASE height < all
    BY <1>20, <1>21, <2>2, Zenon DEF S, e
  <2>3. CASE ~plan.always_empty /\ ~(height < all)
    <3>1. height = all
      BY <1>9, <1>12, <2>3
    <3>2. answer = <<RowOf(<<>>, all)>>
      BY <1>14, <1>18, <1>19, <1>21, <2>3, <3>1, Zenon
    <3> DEFINE none == <<>>
    <3> HIDE DEF none
    <3>3. Len(meant.items) = 1
      BY <1>2, <1>4, <1>6, <1>21
    <3>4. plan.columns = c
      BY <1>5
    <3>5. RowOf(none, all) = <<all>>
      BY <1>3, <1>21, <3>3, <3>4, CountAnswer
    <3>6. answer = <<<<all>>>>
      BY <3>2, <3>5, Zenon DEF none
    <3> QED BY <1>20, <1>21, <3>6, Zenon DEF S, e
  <2> QED BY <2>1, <2>2, <2>3
<1>22. CASE ~Counts
  <2>1. CASE plan.always_empty
    <3>1. w = const_frag(FALSE)
      BY <1>5, <2>1
    <3>2. \A row \in Table : ~Selects(plan.where, row, params)
      <4>1. const_frag(FALSE).is_const = TRUE /\ const_frag(FALSE).value = FALSE
        BY DEF const_frag
      <4>2. plan.where = const_frag(FALSE)
        BY <1>5, <3>1
      <4> QED BY <4>1, <4>2 DEF Selects
    <3>3. S = {}
      BY <1>8, <3>2
    <3>4. all = 0
      BY <3>3, FS_EmptySet DEF all
    <3>5. height = 0
      BY <1>12, <3>4
    <3>6. answer = <<>>
      BY <1>19, <2>1, Zenon
    <3>7. [n \in 1 .. height |-> shown(n)] = <<>>
      BY <3>5
    <3>8. answer = [n \in 1 .. height |-> shown(n)]
      BY <3>6, <3>7
    <3> QED BY <1>20, <1>22, <3>8, Zenon DEF S, e
  <2>2. CASE ~plan.always_empty
    <3>1. answer = [i \in DOMAIN records |-> RowOf(records[i], 0)]
      BY <1>14, <1>19, <1>22, <2>2, Zenon
    <3>2. \A n \in 1 .. height : RowOf(records[n], 0) = shown(n)
      <4> TAKE n \in 1 .. height
      <4> DEFINE row == Nth(S, skip + n - 1, keys)
      <4>1. records[n] = Restrict(row, ToSet(plan.fields))
        BY <1>17, Zenon DEF record
      <4>2. shown(n) = Shown(row)
        BY <1>13, <1>22, Zenon DEF shown
      <4> HIDE DEF row
      <4>3. plan.columns = c
        BY <1>5
      <4>4. RowOf(Restrict(row, ToSet(plan.fields)), 0) = Shown(row)
        BY <1>3, <1>16, <1>22, <4>3, RecordShows
      <4> QED BY <4>1, <4>2, <4>4, Zenon
    <3>3. answer = [n \in 1 .. height |-> shown(n)]
      BY <1>18, <3>1, <3>2, Zenon
    <3> QED BY <1>20, <1>22, <3>3, Zenon DEF S, e
  <2> QED BY <2>1, <2>2
<1> QED BY <1>21, <1>22

\* Every execution, with any values of the markers and any SQL_ATTR_MAX_ROWS, answers the rows that its
\* statement means (sql_plan.cpp:282-424, odbc_impl.cpp:536-551).
THEOREM QueryIsAnswered == Spec => []AnswersTheQuery
<1>1. IInv => AnswersTheQuery
  <2> SUFFICES ASSUME IInv, Executed PROVE AnswersTheQuery
    BY Zenon DEF AnswersTheQuery
  <2>1. stage = "executed" /\ stage # "allocated"
    BY DEF Executed
  <2>2. meant \in Statements /\ plan = build_plan(Spelling(meant))
    BY <2>1, Zenon DEF IInv, PlanInv
  <2>3. plan # Refused /\ params \in Bindings /\ max_rows \in RowLimits /\ answer = Rows(params, max_rows)
    BY <2>1, Zenon DEF IInv, AnswerInv
  <2>4. IsStatement(meant)
    BY <2>2, StatementsAssumption, Zenon
  <2>5. Condition = WhereOf(meant)
    BY MeantIs
  <2>6. CASE ~meant.from
    <3>1. answer = <<Shown(<<>>)>>
      BY <2>2, <2>3, <2>4, <2>6, ConstantAnswer, Zenon
    <3> QED BY <2>6, <3>1, Zenon DEF AnswersTheQuery
  <2>7. CASE meant.from
    <3>1. CASE WhereOf(meant) # NoWhere /\ UnknownUnderNot(WhereOf(meant))
      BY <2>5, <2>7, <3>1, Zenon DEF AnswersTheQuery
    <3>2. CASE ~(WhereOf(meant) # NoWhere /\ UnknownUnderNot(WhereOf(meant)))
      <4>1. Answers(Matches(WhereOf(meant)))
        BY <2>2, <2>3, <2>4, <2>7, <3>2, QueryAnswer
      <4> QED BY <2>5, <2>7, <4>1, Zenon DEF AnswersTheQuery
    <3> QED BY <3>1, <3>2
  <2> QED BY <2>6, <2>7
<1> QED BY <1>1, AnswersThePlan, PTL
==============================================================================
