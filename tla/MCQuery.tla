------------------------------- MODULE MCQuery -------------------------------
(* Instances of Query for TLC: an object with an Id and two columns. *)
EXTENDS Query, TLC

MCNumerals == [t \in {"0", "1", "2", "3"} |-> CASE t = "0" -> 0 [] t = "1" -> 1 [] t = "2" -> 2 [] t = "3" -> 3]
MCFields == <<"Id", "B", "A">>

\* A row for each pair of values, NULL among them.
Pairs == <<<<2, 1>>, <<Null, 2>>, <<1, 1>>, <<1, Null>>, <<2, 2>>, <<Null, Null>>>>
MCTable == {[c \in Columns |-> CASE c = "Id" -> i [] c = "A" -> Pairs[i][1] [] c = "B" -> Pairs[i][2]] : i \in DOMAIN Pairs}

MCBindings == {[i \in 0 .. 2 |-> <<x, y, x>>[i + 1]] : x \in {1, 2, Null}, y \in {1, 2}}

------------------------------------------------------------------------------
(* Conditions, as tokens *)

Marked == {<<"A", "=", "param">>, <<"param", "<=", "A">>, <<"A", "NOT", "IN", "(", "1", ",", "param", ")">>,
           <<"B", "NOT", "BETWEEN", "param", "AND", "2">>}
Folded == {<<"1", "=", "1">>, <<"1", "<>", "1">>, <<"1", "<", "NULL">>, <<"NULL", "IS", "NOT", "NULL">>}
Plain == {<<"B", "IS", "NOT", "NULL">>, <<"A", "=", "NULL">>, <<"NULL", "<>", "B">>, <<"A", "<", "NULL">>, <<"1", ">=", "A">>,
          <<"A", "NOT", "LIKE", "1">>, <<"B", "IN", "(", "-", "1", ",", "2", ")">>, <<"B", "BETWEEN", "1", "AND", "param">>,
          <<"param", "BETWEEN", "B", "AND", "A">>}
Bad == {<<"A", "=", "B">>, <<"param", "=", "1">>, <<"param", "IS", "NULL">>, <<"1", "IN", "(", "1", ")">>,
        <<"X", "=", "1">>, <<"B", "LIKE", "A">>, <<"X", "IS", "NULL">>, <<"A", "BETWEEN", "B", "AND", "1">>,
        <<"A", "+", "1", "=", "1">>, <<"1", "=", "EXISTS">>}
Atoms == Marked \cup Folded \cup Plain \cup Bad

Junctions == {"AND", "OR"}
Few == {<<"A", "=", "param">>, <<"1", "=", "2">>, <<"B", "NOT", "BETWEEN", "param", "AND", "2">>, <<"NOT", "A", "=", "1">>}

Pair == {a \o <<j>> \o b : a \in Atoms, j \in Junctions, b \in Atoms}
Negated == {<<"NOT">> \o a : a \in Atoms}
           \cup {<<"NOT">> \o a \o <<j>> \o b : a \in Atoms, j \in Junctions, b \in Marked \cup Folded}
           \cup {<<"NOT", "(">> \o a \o <<j>> \o b \o <<")">> : a \in Atoms, j \in Junctions, b \in Marked \cup Folded}
Triple == {a \o <<i>> \o b \o <<j>> \o c : a, b, c \in Few, i, j \in Junctions}
          \cup {<<"(">> \o a \o <<i>> \o b \o <<")", j>> \o c : a, b, c \in Few, i, j \in Junctions}
          \cup {a \o <<i, "(">> \o b \o <<j>> \o c \o <<")">> : a, b, c \in Few, i, j \in Junctions}

\* Conditions with a token left out, or one written twice.
Sane == {<<"(", "NOT", "A", "IN", "(", "1", ",", "param", ")", ")", "OR", "B", "IS", "NOT", "NULL">>,
         <<"NOT", "A", "BETWEEN", "-", "1", "AND", "2", "AND", "(", "B", "LIKE", "param", ")">>}
Broken == {RemoveAt(s, i) : s \in Sane, i \in 1 .. 13} \cup {InsertAt(s, i, s[i]) : s \in Sane, i \in 1 .. 13}

MCConditions == Atoms \cup Pair \cup Negated \cup Triple \cup Sane \cup Broken

------------------------------------------------------------------------------
(* Statements *)

All == [items |-> <<Item(Star, "")>>, from |-> TRUE, where |-> <<>>, order_by |-> <<>>,
        limit |-> NoLimit, offset |-> NoLimit, style |-> "limit"]
Select(c, alias) == Item(Column(c), alias)
Show(v) == Item(Literal(v), "")
Key(name, desc, nulls) == [ordinal |-> 0, name |-> name, desc |-> desc, nulls |-> nulls]
Place(i) == [ordinal |-> i, name |-> "", desc |-> FALSE, nulls |-> ""]

SelectLists == {<<Item(Star, "")>>, <<Select("A", ""), Select("B", "A")>>, <<Select("A", "B"), Select("B", ""), Select("A", "")>>,
          <<Show(1)>>, <<Show(Null), Select("Id", ""), Item(Star, "")>>, <<Item(CountStar, "N")>>,
          <<Item(CountStar, ""), Select("A", "")>>, <<Select("X", "")>>, <<Show(2), Item(Literal(3), "B")>>}
Orders == {<<>>, <<Key("A", FALSE, ""), Key("Id", TRUE, "")>>, <<Key("B", TRUE, "LAST")>>, <<Place(1)>>, <<Place(2), Key("A", FALSE, "LAST")>>,
           <<Key("X", FALSE, "")>>, <<Key("B", FALSE, "FIRST"), Place(3)>>}
Limits == {<<NoLimit, NoLimit, "limit">>, <<2, NoLimit, "top">>, <<0, NoLimit, "top()">>, <<3, 1, "limit">>,
           <<NoLimit, 2, "fetch">>, <<2, 3, "fetch">>, <<3, 2, "top">>}
Wheres == {<<>>, <<"1", "=", "2">>, <<"B", "IS", "NOT", "NULL">>}

Filters == {[All EXCEPT !.where = w] : w \in MCConditions}
Queries ==
    {[items |-> l, from |-> f, where |-> w, order_by |-> o, limit |-> n[1], offset |-> n[2], style |-> n[3]] :
       l \in SelectLists, f \in BOOLEAN, w \in Wheres, o \in Orders, n \in Limits}
MCStatements == Filters \cup Queries

\* Constants only, and their negations: what fold_compare decides.
MCConstantStatements ==
    LET constant == {<<x, "=", y>> : x, y \in {"1", "2", "NULL"}}
    IN  {[All EXCEPT !.where = w] : w \in constant \cup {<<"NOT">> \o e : e \in constant}}
==============================================================================
