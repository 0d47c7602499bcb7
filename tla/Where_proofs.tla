----------------------------- MODULE Where_proofs ----------------------------
(***************************************************************************)
(* Proofs about conditions, from the tokens of a WHERE clause to the       *)
(* fragment of SOQL that it is rendered to.                                *)
(*                                                                         *)
(* The first part is about render of WhereFold, by induction over the      *)
(* trees: what is refused, what folding keeps, and that each marker gets   *)
(* its slot.  The second part is about parse_condition of SqlParser, by    *)
(* induction over spans of tokens: every reading that the documented       *)
(* grammar gives a span is what the parser returns (ReadingIsParsed), and  *)
(* what the parser returns is a reading of it (ParsedIsReading).           *)
(***************************************************************************)
EXTENDS Query, FiniteSetTheorems, WellFoundedInduction, TLAPS

------------------------------------------------------------------------------
(* Induction over the members of a set of natural numbers *)

\* A set of natural numbers that is not empty has a least element.
LEMMA LeastElement ==
    ASSUME NEW T, T \subseteq Nat, T # {}
    PROVE  \E x \in T : \A y \in T : x <= y
<1> DEFINE R == {ss \in Nat \X Nat : ss[1] < ss[2]}
<1>1. OpToRel(<, Nat) = R
  BY DEF OpToRel
<1>2. IsWellFoundedOn(R, Nat)
  BY <1>1, NatLessThanWellFounded
<1>3. PICK x \in T : \A y \in T : ~ (<<y, x>> \in R)
  <2> HIDE DEF R
  <2> QED BY <1>2, WFMin
<1>4. \A y \in T : ~ (y < x)
  BY <1>3
<1> QED BY <1>4

\* A set that has 0, and with each number up to n the next one, has all of them.
LEMMA InductionUpTo ==
    ASSUME NEW n \in Nat, NEW T, 0 \in T, \A k \in 1 .. n : k - 1 \in T => k \in T
    PROVE  n \in T /\ \A k \in 0 .. n : k \in T
<1> DEFINE R == {k \in 0 .. n : k \notin T}
<1>1. SUFFICES ASSUME R # {} PROVE FALSE
  <2>1. n \in 0 .. n
    OBVIOUS
  <2> QED BY <2>1
<1>2. PICK k \in R : \A y \in R : k <= y
  <2>1. R \subseteq Nat
    OBVIOUS
  <2> HIDE DEF R
  <2> QED BY <1>1, <2>1, LeastElement
<1>3. k \in 1 .. n /\ k - 1 \in 0 .. n /\ k - 1 \notin R
  BY <1>2
<1> QED BY <1>2, <1>3

\* A set that has each number when it has the smaller ones has all numbers.
LEMMA StrongInduction ==
    ASSUME NEW T, \A n \in Nat : (\A m \in 0 .. n - 1 : m \in T) => n \in T
    PROVE  \A n \in Nat : n \in T
<1> DEFINE R == {k \in Nat : k \notin T}
<1>1. SUFFICES ASSUME R # {} PROVE FALSE
  OBVIOUS
<1>2. PICK k \in R : \A y \in R : k <= y
  <2>1. R \subseteq Nat
    OBVIOUS
  <2> HIDE DEF R
  <2> QED BY <1>1, <2>1, LeastElement
<1>3. \A m \in 0 .. k - 1 : m \in T
  BY <1>2
<1> QED BY <1>2, <1>3

------------------------------------------------------------------------------
Junctions == {"And", "Or"}

------------------------------------------------------------------------------
(* The trees *)

\* The sets of trees up to a depth, as a function of the depth.
AreTrees(f, n) == f = [k \in 0 .. n |-> IF k = 0 THEN Predicate ELSE Above(f[k - 1])]

\* There is such a function up to any depth.
LEMMA TreesExist == \E f : AreTrees(f, Deepest)
<1> DEFINE T == {n \in 0 .. Deepest : \E f : AreTrees(f, n)}
<1>1. 0 \in T
  <2> DEFINE f == [k \in 0 .. 0 |-> Predicate]
  <2>1. f = [k \in 0 .. 0 |-> IF k = 0 THEN Predicate ELSE Above(f[k - 1])]
    OBVIOUS
  <2>2. AreTrees(f, 0)
    BY <2>1 DEF AreTrees
  <2> QED BY <2>2, DeepestAssumption
<1>2. ASSUME NEW n \in 1 .. Deepest, n - 1 \in T PROVE n \in T
  <2>1. PICK f : AreTrees(f, n - 1)
    BY <1>2
  <2> DEFINE g == [k \in 0 .. n |-> IF k = 0 THEN Predicate ELSE Above(f[k - 1])]
  <2>2. \A k \in 0 .. n - 1 : k \in 0 .. n /\ g[k] = f[k]
    BY <2>1 DEF AreTrees
  <2>3. \A k \in 0 .. n : k # 0 => g[k - 1] = f[k - 1]
    <3>1. \A k \in 0 .. n : k # 0 => k - 1 \in 0 .. n - 1
      OBVIOUS
    <3> HIDE DEF g
    <3> QED BY <2>2, <3>1
  <2>4. g = [k \in 0 .. n |-> IF k = 0 THEN Predicate ELSE Above(g[k - 1])]
    <3>1. \A k \in 0 .. n : (IF k = 0 THEN Predicate ELSE Above(f[k - 1]))
                             = (IF k = 0 THEN Predicate ELSE Above(g[k - 1]))
      <4> HIDE DEF g
      <4> QED BY <2>3
    <3> QED BY <3>1, Zenon
  <2>5. AreTrees(g, n)
    BY <2>4 DEF AreTrees
  <2> QED BY <2>5
<1> HIDE DEF T
<1>3. Deepest \in T
  BY <1>1, <1>2, InductionUpTo, DeepestAssumption
<1> QED BY <1>3 DEF T

\* The sets of trees are what their definition says.
LEMMA TreesAre == AreTrees(Trees, Deepest)
BY TreesExist DEF AreTrees, Trees

\* The kinds of predicates.
LEMMA KindsOfPredicates ==
    ASSUME NEW p \in Predicate
    PROVE  p.kind \in {"Compare", "In", "Like", "IsNull"}
BY DEF Predicate

\* What stands above trees is a predicate, a junction or a negation.
LEMMA KindsAbove ==
    ASSUME NEW S, NEW x \in Above(S)
    PROVE  \/ x \in Predicate
           \/ x.kind \in Junctions /\ x.left \in S /\ x.right \in S
           \/ x.kind = "Not" /\ x.left \in S
BY DEF Above, Junctions

\* More trees have more trees above them.
LEMMA AboveMore ==
    ASSUME NEW S, NEW R, S \subseteq R
    PROVE  Above(S) \subseteq Above(R)
BY DEF Above

\* The trees of a depth are among those of the next.
LEMMA TreesGrow ==
    ASSUME NEW n \in 1 .. Deepest
    PROVE  /\ Trees[n] = Above(Trees[n - 1])
           /\ Trees[n - 1] \subseteq Trees[n]
<1>1. \A k \in 0 .. Deepest : Trees[k] = IF k = 0 THEN Predicate ELSE Above(Trees[k - 1])
  BY TreesAre DEF AreTrees
<1>2. \A k \in 1 .. Deepest : Trees[k] = Above(Trees[k - 1])
  BY <1>1
<1> DEFINE T == {k \in 0 .. Deepest - 1 : Trees[k] \subseteq Trees[k + 1]}
<1>3. 0 \in T
  <2>1. Trees[0] = Predicate /\ Trees[0 + 1] = Above(Trees[0])
    BY <1>1, DeepestAssumption
  <2> QED BY <2>1, DeepestAssumption DEF Above
<1>4. ASSUME NEW k \in 1 .. Deepest - 1, k - 1 \in T PROVE k \in T
  <2>1. Trees[k - 1] \subseteq Trees[k]
    BY <1>4
  <2>2. Trees[k] = Above(Trees[k - 1]) /\ Trees[k + 1] = Above(Trees[k])
    BY <1>2, DeepestAssumption
  <2> QED BY <2>1, <2>2, AboveMore
<1> HIDE DEF T
<1>5. n - 1 \in T
  <2>1. Deepest - 1 \in Nat /\ n - 1 \in 0 .. Deepest - 1
    BY DeepestAssumption
  <2>2. \A k \in 0 .. Deepest - 1 : k \in T
    BY <1>3, <1>4, <2>1, InductionUpTo
  <2> QED BY <2>1, <2>2
<1>6. Trees[n - 1] \subseteq Trees[(n - 1) + 1]
  BY <1>5 DEF T
<1> QED BY <1>2, <1>6

\* Trees of any depth are conditions.
LEMMA TreesAreExpr ==
    ASSUME NEW n \in 0 .. Deepest
    PROVE  Trees[n] \subseteq Expr
<1> DEFINE T == {k \in 0 .. Deepest : Trees[Deepest - k] \subseteq Expr}
<1>1. 0 \in T
  <2>1. Deepest - 0 = Deepest /\ 0 \in 0 .. Deepest
    BY DeepestAssumption
  <2> QED BY <2>1 DEF Expr
<1>2. ASSUME NEW k \in 1 .. Deepest, k - 1 \in T PROVE k \in T
  <2>1. Deepest - k + 1 \in 1 .. Deepest /\ (Deepest - k + 1) - 1 = Deepest - k /\ Deepest - (k - 1) = Deepest - k + 1
    BY DeepestAssumption
  <2>2. Trees[Deepest - k] \subseteq Trees[Deepest - k + 1]
    BY <2>1, TreesGrow
  <2> QED BY <1>2, <2>1, <2>2
<1> HIDE DEF T
<1>3. Deepest - n \in T
  <2>1. Deepest - n \in 0 .. Deepest
    BY DeepestAssumption
  <2> QED BY <1>1, <1>2, <2>1, InductionUpTo, DeepestAssumption
<1>4. Deepest - (Deepest - n) = n
  BY DeepestAssumption
<1> QED BY <1>3, <1>4 DEF T

\* A set of trees of each depth: the predicates, and with the trees of a depth those above.
LEMMA DepthInduction ==
    ASSUME NEW T, 0 \in T, \A n \in 1 .. Deepest : n - 1 \in T => n \in T
    PROVE  Deepest \in T
BY InductionUpTo, DeepestAssumption

\* A set that has the predicates, and what stands above trees that it has, has all conditions.
LEMMA ExprInduction ==
    ASSUME NEW S,
           \A p \in Predicate : p \in S,
           \A x \in Expr : x.kind \in Junctions /\ x.left \in S \cap Expr /\ x.right \in S \cap Expr => x \in S,
           \A x \in Expr : x.kind = "Not" /\ x.left \in S \cap Expr => x \in S
    PROVE  Expr \subseteq S
<1> DEFINE T == {n \in 0 .. Deepest : Trees[n] \subseteq S}
<1>1. 0 \in T
  BY TreesAre, DeepestAssumption DEF AreTrees
<1>2. ASSUME NEW n \in 1 .. Deepest, n - 1 \in T PROVE n \in T
  <2>1. SUFFICES ASSUME NEW x \in Trees[n] PROVE x \in S
    BY DeepestAssumption
  <2>2. n - 1 \in 0 .. Deepest /\ n \in 0 .. Deepest
    BY DeepestAssumption
  <2>3. x \in Above(Trees[n - 1]) /\ x \in Expr /\ Trees[n - 1] \subseteq S \cap Expr
    BY <1>2, <2>1, <2>2, TreesGrow, TreesAreExpr
  <2> QED BY <2>3, KindsAbove
<1> HIDE DEF T
<1>3. Deepest \in T
  BY <1>1, <1>2, DepthInduction
<1> QED BY <1>3 DEF T, Expr

\* A condition is a predicate, or a junction or a negation of conditions.
LEMMA KindsOfExpr ==
    ASSUME NEW x \in Expr
    PROVE  \/ x \in Predicate /\ x.kind \notin Junctions \cup {"Not"}
           \/ x.kind \in Junctions /\ x.left \in Expr /\ x.right \in Expr
           \/ x.kind = "Not" /\ x.left \in Expr
<1>1. CASE Deepest = 0
  <2>1. x \in Predicate
    BY <1>1, TreesAre DEF AreTrees, Expr
  <2> QED BY <2>1, KindsOfPredicates DEF Junctions
<1>2. CASE Deepest # 0
  <2>1. Deepest \in 1 .. Deepest /\ Deepest - 1 \in 0 .. Deepest
    BY <1>2, DeepestAssumption
  <2>2. x \in Above(Trees[Deepest - 1]) /\ Trees[Deepest - 1] \subseteq Expr
    BY <2>1, TreesGrow, TreesAreExpr DEF Expr
  <2> QED BY <2>2, KindsAbove, KindsOfPredicates DEF Junctions
<1> QED BY <1>1, <1>2

\* Predicates are conditions.
LEMMA PredicatesAreExpr == Predicate \subseteq Expr
<1>1. Trees[0] = Predicate /\ 0 \in 0 .. Deepest
  BY TreesAre, DeepestAssumption DEF AreTrees
<1> QED BY <1>1, TreesAreExpr

------------------------------------------------------------------------------
(* Functions on trees *)

\* A function on some trees that makes its value from the tree and the values of what stands
\* below it.
IsFold(f, trees, leaf, neg, join) ==
    f = [x \in trees |-> IF x.kind \in Junctions THEN join[<<x, f[x.left], f[x.right]>>]
                         ELSE IF x.kind = "Not" THEN neg[<<x, f[x.left]>>] ELSE leaf[x]]

\* There is such a function on all conditions.
LEMMA FoldExists ==
    ASSUME NEW V, NEW leaf \in [Expr -> V], NEW neg \in [Expr \X V -> V], NEW join \in [Expr \X V \X V -> V]
    PROVE  \E f \in [Expr -> V] : IsFold(f, Expr, leaf, neg, join)
<1> DEFINE T == {n \in 0 .. Deepest : \E f \in [Trees[n] -> V] : IsFold(f, Trees[n], leaf, neg, join)}
<1>1. 0 \in T
  <2> DEFINE f == [x \in Predicate |-> leaf[x]]
  <2>1. f \in [Predicate -> V]
    BY PredicatesAreExpr
  <2>2. \A x \in Predicate : x.kind \notin Junctions /\ x.kind # "Not"
    BY KindsOfPredicates DEF Junctions
  <2>3. IsFold(f, Predicate, leaf, neg, join)
    BY <2>2, Zenon DEF IsFold
  <2>4. Trees[0] = Predicate /\ 0 \in 0 .. Deepest
    BY TreesAre, DeepestAssumption DEF AreTrees
  <2> HIDE DEF f
  <2> QED BY <2>1, <2>3, <2>4
<1>2. ASSUME NEW n \in 1 .. Deepest, n - 1 \in T PROVE n \in T
  <2>1. PICK f \in [Trees[n - 1] -> V] : IsFold(f, Trees[n - 1], leaf, neg, join)
    BY <1>2
  <2> DEFINE body(h, x) == IF x.kind \in Junctions THEN join[<<x, h[x.left], h[x.right]>>]
                           ELSE IF x.kind = "Not" THEN neg[<<x, h[x.left]>>] ELSE leaf[x]
             g == [x \in Trees[n] |-> body(f, x)]
  <2>2. /\ Trees[n] = Above(Trees[n - 1]) /\ Trees[n - 1] \subseteq Trees[n]
        /\ Trees[n] \subseteq Expr /\ n \in 0 .. Deepest
    BY TreesGrow, TreesAreExpr, DeepestAssumption
  <2>3. \A x \in Trees[n - 1] : g[x] = f[x]
    <3>1. \A x \in Trees[n - 1] : f[x] = body(f, x)
      BY <2>1 DEF IsFold
    <3> HIDE DEF body
    <3> QED BY <2>2, <3>1
  <2>4. \A x \in Trees[n] : \/ x.kind \notin Junctions /\ x.kind # "Not"
                            \/ x.kind \in Junctions /\ x.left \in Trees[n - 1] /\ x.right \in Trees[n - 1]
                            \/ x.kind = "Not" /\ x.left \in Trees[n - 1] /\ x.kind \notin Junctions
    BY <2>2, KindsAbove, KindsOfPredicates DEF Junctions
  <2>5. \A x \in Trees[n] : body(f, x) \in V
    BY <2>2, <2>4
  <2>6. \A x \in Trees[n] : body(f, x) = body(g, x)
    <3> HIDE DEF g
    <3> QED BY <2>3, <2>4
  <2>7. g \in [Trees[n] -> V]
    <3> HIDE DEF body
    <3> QED BY <2>5
  <2>8. IsFold(g, Trees[n], leaf, neg, join)
    <3>1. g = [x \in Trees[n] |-> body(g, x)]
      <4> HIDE DEF body
      <4> QED BY <2>6, Zenon
    <3> HIDE DEF g
    <3> QED BY <3>1 DEF IsFold
  <2> HIDE DEF g
  <2> QED BY <2>2, <2>7, <2>8
<1> HIDE DEF T
<1>3. Deepest \in T
  BY <1>1, <1>2, DepthInduction
<1> QED BY <1>3 DEF T, Expr

------------------------------------------------------------------------------
(* The predicates of a condition *)

ArePredicates(f) ==
    f = [x \in Expr |-> CASE x.kind \in {"And", "Or"} -> f[x.left] \cup f[x.right]
                          [] x.kind = "Not" -> f[x.left]
                          [] OTHER -> {x}]

\* PredicatesOf is the function that its definition says, and gives predicates.
LEMMA PredicatesExist == \E f \in [Expr -> SUBSET Predicate] : ArePredicates(f)
<1> DEFINE V == SUBSET Predicate
           leaf == [x \in Expr |-> {x} \cap Predicate]
           neg == [c \in Expr \X V |-> c[2]]
           join == [c \in Expr \X V \X V |-> c[2] \cup c[3]]
<1>1. leaf \in [Expr -> V] /\ neg \in [Expr \X V -> V] /\ join \in [Expr \X V \X V -> V]
  OBVIOUS
<1> HIDE DEF leaf, neg, join
<1>2. PICK f \in [Expr -> V] : IsFold(f, Expr, leaf, neg, join)
  BY <1>1, FoldExists
<1>3. ASSUME NEW x \in Expr
      PROVE  f[x] = CASE x.kind \in {"And", "Or"} -> f[x.left] \cup f[x.right]
                      [] x.kind = "Not" -> f[x.left]
                      [] OTHER -> {x}
  <2>1. f[x] = IF x.kind \in Junctions THEN join[<<x, f[x.left], f[x.right]>>]
               ELSE IF x.kind = "Not" THEN neg[<<x, f[x.left]>>] ELSE leaf[x]
    BY <1>2 DEF IsFold
  <2>2. CASE x \in Predicate /\ x.kind \notin Junctions \cup {"Not"}
    BY <2>1, <2>2 DEF leaf, Junctions
  <2>3. CASE x.kind \in Junctions /\ x.left \in Expr /\ x.right \in Expr
    <3>1. <<x, f[x.left], f[x.right]>> \in Expr \X V \X V
      BY <2>3
    <3> QED BY <2>1, <2>3, <3>1 DEF join, Junctions
  <2>4. CASE x.kind = "Not" /\ x.left \in Expr
    <3>1. <<x, f[x.left]>> \in Expr \X V
      BY <2>4
    <3> QED BY <2>1, <2>4, <3>1 DEF neg, Junctions
  <2> QED BY <2>2, <2>3, <2>4, KindsOfExpr
<1>4. ArePredicates(f)
  <2>1. f = [x \in Expr |-> f[x]]
    OBVIOUS
  <2> QED BY <1>3, <2>1, Zenon DEF ArePredicates
<1> QED BY <1>4
\* The predicates of a condition are those of its parts.
LEMMA PredicatesAre ==
    ASSUME NEW x \in Expr
    PROVE  /\ PredicatesOf(x) \subseteq Predicate
           /\ x \in Predicate => PredicatesOf(x) = {x}
           /\ x.kind \in Junctions => PredicatesOf(x) = PredicatesOf(x.left) \cup PredicatesOf(x.right)
           /\ x.kind = "Not" => PredicatesOf(x) = PredicatesOf(x.left)
<1> DEFINE F == CHOOSE f : ArePredicates(f)
<1>1. ArePredicates(F)
  BY PredicatesExist
<1>2. \A e : PredicatesOf(e) = F[e]
  BY Zenon DEF PredicatesOf, ArePredicates
<1> HIDE DEF F
<1>3. \A y \in Expr : PredicatesOf(y) = CASE y.kind \in {"And", "Or"} -> PredicatesOf(y.left) \cup PredicatesOf(y.right)
                                           [] y.kind = "Not" -> PredicatesOf(y.left)
                                           [] OTHER -> {y}
  <2>1. \A y \in Expr : F[y] = CASE y.kind \in {"And", "Or"} -> F[y.left] \cup F[y.right]
                                 [] y.kind = "Not" -> F[y.left]
                                 [] OTHER -> {y}
    BY <1>1 DEF ArePredicates
  <2> QED BY <1>2, <2>1
<1>4. \A y \in Predicate : y \in Expr /\ PredicatesOf(y) = {y}
  BY <1>3, PredicatesAreExpr, KindsOfPredicates
<1> DEFINE S == {y \in Expr : PredicatesOf(y) \subseteq Predicate}
<1>5. Expr \subseteq S
  <2>1. \A y \in Predicate : y \in S
    BY <1>4
  <2>2. \A y \in Expr : y.kind \in Junctions /\ y.left \in S /\ y.right \in S => y \in S
    BY <1>3 DEF Junctions
  <2>3. \A y \in Expr : y.kind = "Not" /\ y.left \in S => y \in S
    BY <1>3
  <2> HIDE DEF S
  <2> QED BY <2>1, <2>2, <2>3, ExprInduction
<1> QED BY <1>3, <1>4, <1>5 DEF Junctions
\* A condition is supported when its parts are, and unknown somewhere when a part is.
LEMMA PartsOf ==
    ASSUME NEW x \in Expr
    PROVE  /\ x \in Predicate => (Supported(x) <=> PredicateSupported(x)) /\ (HasUnknown(x) <=> PredicateUnknown(x))
           /\ x.kind \in Junctions =>
                 /\ Supported(x) <=> Supported(x.left) /\ Supported(x.right)
                 /\ HasUnknown(x) <=> HasUnknown(x.left) \/ HasUnknown(x.right)
           /\ x.kind = "Not" => (Supported(x) <=> Supported(x.left)) /\ (HasUnknown(x) <=> HasUnknown(x.left))
<1>1. /\ x \in Predicate => PredicatesOf(x) = {x}
      /\ x.kind \in Junctions => PredicatesOf(x) = PredicatesOf(x.left) \cup PredicatesOf(x.right)
      /\ x.kind = "Not" => PredicatesOf(x) = PredicatesOf(x.left)
  BY PredicatesAre
<1>2. x \in Predicate => (Supported(x) <=> PredicateSupported(x)) /\ (HasUnknown(x) <=> PredicateUnknown(x))
  BY <1>1, Zenon DEF Supported, HasUnknown
<1>3. x.kind \in Junctions =>
         /\ Supported(x) <=> Supported(x.left) /\ Supported(x.right)
         /\ HasUnknown(x) <=> HasUnknown(x.left) \/ HasUnknown(x.right)
  BY <1>1, Zenon DEF Supported, HasUnknown
<1>4. x.kind = "Not" => (Supported(x) <=> Supported(x.left)) /\ (HasUnknown(x) <=> HasUnknown(x.left))
  BY <1>1, Zenon DEF Supported, HasUnknown
<1> QED BY <1>2, <1>3, <1>4

AreUnderNot(f) ==
    f = [x \in Expr |-> CASE x.kind \in {"And", "Or"} -> f[x.left] \cup f[x.right]
                          [] x.kind = "Not" -> PredicatesOf(x.left)
                          [] OTHER -> {}]

\* UnderNot is the function that its definition says.
LEMMA UnderNotExists == \E f : AreUnderNot(f)
<1> DEFINE V == SUBSET Predicate
           leaf == [x \in Expr |-> {}]
           neg == [c \in Expr \X V |-> PredicatesOf(c[1].left) \cap Predicate]
           join == [c \in Expr \X V \X V |-> c[2] \cup c[3]]
<1>1. leaf \in [Expr -> V] /\ neg \in [Expr \X V -> V] /\ join \in [Expr \X V \X V -> V]
  OBVIOUS
<1> HIDE DEF leaf, neg, join
<1>2. PICK f \in [Expr -> V] : IsFold(f, Expr, leaf, neg, join)
  BY <1>1, FoldExists
<1>3. ASSUME NEW x \in Expr
      PROVE  f[x] = CASE x.kind \in {"And", "Or"} -> f[x.left] \cup f[x.right]
                      [] x.kind = "Not" -> PredicatesOf(x.left)
                      [] OTHER -> {}
  <2>1. f[x] = IF x.kind \in Junctions THEN join[<<x, f[x.left], f[x.right]>>]
               ELSE IF x.kind = "Not" THEN neg[<<x, f[x.left]>>] ELSE leaf[x]
    BY <1>2 DEF IsFold
  <2>2. CASE x \in Predicate /\ x.kind \notin Junctions \cup {"Not"}
    BY <2>1, <2>2 DEF leaf, Junctions
  <2>3. CASE x.kind \in Junctions /\ x.left \in Expr /\ x.right \in Expr
    <3>1. <<x, f[x.left], f[x.right]>> \in Expr \X V \X V
      BY <2>3
    <3> QED BY <2>1, <2>3, <3>1 DEF join, Junctions
  <2>4. CASE x.kind = "Not" /\ x.left \in Expr
    <3>1. <<x, f[x.left]>> \in Expr \X V /\ PredicatesOf(x.left) \subseteq Predicate
      BY <2>4, PredicatesAre
    <3> QED BY <2>1, <2>4, <3>1 DEF neg, Junctions
  <2> QED BY <2>2, <2>3, <2>4, KindsOfExpr
<1>4. AreUnderNot(f)
  <2>1. f = [x \in Expr |-> f[x]]
    OBVIOUS
  <2> QED BY <1>3, <2>1, Zenon DEF AreUnderNot
<1> QED BY <1>4

\* An unknown comparison stands under a NOT of a junction when it does of one of its sides, and
\* under a negation when there is one in what is negated.
LEMMA UnknownUnderNotOfParts ==
    ASSUME NEW x \in Expr
    PROVE  /\ x.kind \in Junctions => (UnknownUnderNot(x) <=> UnknownUnderNot(x.left) \/ UnknownUnderNot(x.right))
           /\ x.kind = "Not" => (UnknownUnderNot(x) <=> HasUnknown(x.left))
<1> DEFINE F == CHOOSE f : AreUnderNot(f)
<1>1. AreUnderNot(F)
  BY UnderNotExists
<1>2. \A e : UnderNot(e) = F[e]
  BY Zenon DEF UnderNot, AreUnderNot
<1> HIDE DEF F
<1>3. F[x] = CASE x.kind \in {"And", "Or"} -> F[x.left] \cup F[x.right]
               [] x.kind = "Not" -> PredicatesOf(x.left)
               [] OTHER -> {}
  BY <1>1 DEF AreUnderNot
<1>4. /\ x.kind \in Junctions => UnderNot(x) = UnderNot(x.left) \cup UnderNot(x.right)
      /\ x.kind = "Not" => UnderNot(x) = PredicatesOf(x.left)
  BY <1>2, <1>3 DEF Junctions
<1> QED BY <1>4, Zenon DEF UnknownUnderNot, HasUnknown

------------------------------------------------------------------------------
(* What a condition says of a row *)

Truths == {"true", "false", "unknown"}

\* The operators of three truth values give truth values.
LEMMA TruthsStay ==
    ASSUME NEW s \in Truths, NEW t \in Truths
    PROVE  Not3(t) \in Truths /\ And3(s, t) \in Truths /\ Or3(s, t) \in Truths
BY DEF Truths, Not3, And3, Or3

\* And of two truth values is true when both are, and Or when one is.
LEMMA TrueOfBoth ==
    ASSUME NEW s \in Truths, NEW t \in Truths
    PROVE  /\ (And3(s, t) = "true") <=> (s = "true" /\ t = "true")
           /\ (Or3(s, t) = "true") <=> (s = "true" \/ t = "true")
BY DEF Truths, Not3, And3, Or3

\* With a truth value that is known, And and Or are the other side or are decided.
LEMMA KnownSide ==
    ASSUME NEW t \in Truths, NEW b \in BOOLEAN, NEW c \in BOOLEAN
    PROVE  /\ And3(Truth(b), t) = (IF b THEN t ELSE "false") /\ And3(t, Truth(b)) = (IF b THEN t ELSE "false")
           /\ Or3(Truth(b), t) = (IF b THEN "true" ELSE t) /\ Or3(t, Truth(b)) = (IF b THEN "true" ELSE t)
           /\ And3(Truth(b), Truth(c)) = Truth(b /\ c) /\ Or3(Truth(b), Truth(c)) = Truth(b \/ c)
           /\ Not3(Truth(b)) = Truth(~b)
BY DEF Truths, Not3, And3, Or3, Truth

\* A predicate says one of the three.
LEMMA PredicateIsTruth ==
    ASSUME NEW p \in Predicate, NEW row, NEW binding
    PROVE  PredicateMeaning(p, row, binding) \in Truths
<1>1. \A b : Truth(b) \in Truths
  BY DEF Truth, Truths
<1>2. \A x, op, y : Compare3(x, op, y) \in Truths
  <2>1. "unknown" \in Truths
    BY DEF Truths
  <2> QED BY <1>1, <2>1 DEF Compare3
<1>3. \A x, values : In3(x, values) \in Truths
  BY DEF In3, Truths
<1>4. \A t \in Truths : \A n : Negated3(n, t) \in Truths
  BY TruthsStay DEF Negated3
<1> HIDE DEF Truths
<1>5. p.kind \in {"Compare", "In", "Like", "IsNull"}
  BY KindsOfPredicates
<1> QED BY <1>1, <1>2, <1>3, <1>4, <1>5 DEF PredicateMeaning

AreMeanings(f, row, binding) ==
    f = [x \in Expr |-> CASE x.kind = "And" -> And3(f[x.left], f[x.right])
                          [] x.kind = "Or" -> Or3(f[x.left], f[x.right])
                          [] x.kind = "Not" -> Not3(f[x.left])
                          [] OTHER -> PredicateMeaning(x, row, binding)]

\* Meaning is the function that its definition says.
LEMMA MeaningsExist == ASSUME NEW row, NEW binding PROVE \E f : AreMeanings(f, row, binding)
<1> DEFINE V == Truths
           leaf == [x \in Expr |-> IF x \in Predicate THEN PredicateMeaning(x, row, binding) ELSE "false"]
           neg == [c \in Expr \X V |-> Not3(c[2])]
           join == [c \in Expr \X V \X V |-> IF c[1].kind = "And" THEN And3(c[2], c[3]) ELSE Or3(c[2], c[3])]
<1>1. leaf \in [Expr -> V]
  <2>1. "false" \in V
    BY DEF Truths
  <2> QED BY <2>1, PredicateIsTruth
<1>2. neg \in [Expr \X V -> V] /\ join \in [Expr \X V \X V -> V]
  BY TruthsStay
<1> HIDE DEF leaf, neg, join, V
<1>3. PICK f \in [Expr -> V] : IsFold(f, Expr, leaf, neg, join)
  BY <1>1, <1>2, FoldExists
<1>4. ASSUME NEW x \in Expr
      PROVE  f[x] = CASE x.kind = "And" -> And3(f[x.left], f[x.right])
                      [] x.kind = "Or" -> Or3(f[x.left], f[x.right])
                      [] x.kind = "Not" -> Not3(f[x.left])
                      [] OTHER -> PredicateMeaning(x, row, binding)
  <2>1. f[x] = IF x.kind \in Junctions THEN join[<<x, f[x.left], f[x.right]>>]
               ELSE IF x.kind = "Not" THEN neg[<<x, f[x.left]>>] ELSE leaf[x]
    BY <1>3 DEF IsFold
  <2>2. CASE x \in Predicate /\ x.kind \notin Junctions \cup {"Not"}
    BY <2>1, <2>2 DEF leaf, Junctions
  <2>3. CASE x.kind \in Junctions /\ x.left \in Expr /\ x.right \in Expr
    <3>1. <<x, f[x.left], f[x.right]>> \in Expr \X V \X V
      BY <2>3
    <3> QED BY <2>1, <2>3, <3>1 DEF join, Junctions
  <2>4. CASE x.kind = "Not" /\ x.left \in Expr
    <3>1. <<x, f[x.left]>> \in Expr \X V
      BY <2>4
    <3> QED BY <2>1, <2>4, <3>1 DEF neg, Junctions
  <2> QED BY <2>2, <2>3, <2>4, KindsOfExpr
<1>5. AreMeanings(f, row, binding)
  <2>1. f = [x \in Expr |-> f[x]]
    OBVIOUS
  <2> QED BY <1>4, <2>1, Zenon DEF AreMeanings
<1> QED BY <1>5

\* What a condition says follows from what its parts say, and is one of the three.
LEMMA MeaningIs ==
    ASSUME NEW row, NEW binding, NEW x \in Expr
    PROVE  /\ Meaning(x, row, binding) \in Truths
           /\ x \in Predicate => Meaning(x, row, binding) = PredicateMeaning(x, row, binding)
           /\ x.kind = "And" => Meaning(x, row, binding) = And3(Meaning(x.left, row, binding), Meaning(x.right, row, binding))
           /\ x.kind = "Or" => Meaning(x, row, binding) = Or3(Meaning(x.left, row, binding), Meaning(x.right, row, binding))
           /\ x.kind = "Not" => Meaning(x, row, binding) = Not3(Meaning(x.left, row, binding))
<1> DEFINE F == CHOOSE f : AreMeanings(f, row, binding)
           M(e) == Meaning(e, row, binding)
<1>1. AreMeanings(F, row, binding)
  BY MeaningsExist
<1>2. \A e : M(e) = F[e]
  BY Zenon DEF Meaning, AreMeanings
<1> HIDE DEF F
<1>3. \A y \in Expr : F[y] = CASE y.kind = "And" -> And3(F[y.left], F[y.right])
                               [] y.kind = "Or" -> Or3(F[y.left], F[y.right])
                               [] y.kind = "Not" -> Not3(F[y.left])
                               [] OTHER -> PredicateMeaning(y, row, binding)
  BY <1>1 DEF AreMeanings
<1>4. \A y \in Expr : /\ y.kind = "And" => M(y) = And3(M(y.left), M(y.right))
                      /\ y.kind = "Or" => M(y) = Or3(M(y.left), M(y.right))
                      /\ y.kind = "Not" => M(y) = Not3(M(y.left))
  <2> HIDE DEF M
  <2> QED BY <1>2, <1>3
<1>5. \A y \in Predicate : y \in Expr /\ M(y) = PredicateMeaning(y, row, binding)
  <2> HIDE DEF M
  <2> QED BY <1>2, <1>3, PredicatesAreExpr, KindsOfPredicates
<1> DEFINE S == {y \in Expr : M(y) \in Truths}
<1>6. Expr \subseteq S
  <2> HIDE DEF M
  <2>1. \A y \in Predicate : y \in S
    BY <1>5, PredicateIsTruth
  <2>2. \A y \in Expr : y.kind \in Junctions /\ y.left \in S /\ y.right \in S => y \in S
    BY <1>4, TruthsStay DEF Junctions
  <2>3. \A y \in Expr : y.kind = "Not" /\ y.left \in S => y \in S
    BY <1>4, TruthsStay
  <2> HIDE DEF S
  <2> QED BY <2>1, <2>2, <2>3, ExprInduction
<1> QED BY <1>4, <1>5, <1>6

------------------------------------------------------------------------------
(* What a condition is rendered as *)

IsRender(f, trees) ==
    f = [x \in trees |-> CASE x.kind \in {"And", "Or"} -> Junction(x.kind = "And", f[x.left], f[x.right])
                           [] x.kind = "Not" -> Negation(f[x.left])
                           [] OTHER -> RenderPredicate(x)]

\* There is such a function.  Texts of any depth come out, so it has no set of values before.
LEMMA RenderExists == \E f : IsRender(f, Expr)
<1> DEFINE T == {n \in 0 .. Deepest : \E f : IsRender(f, Trees[n])}
           body(h, x) == CASE x.kind \in {"And", "Or"} -> Junction(x.kind = "And", h[x.left], h[x.right])
                           [] x.kind = "Not" -> Negation(h[x.left])
                           [] OTHER -> RenderPredicate(x)
<1>1. 0 \in T
  <2> DEFINE f == [x \in Predicate |-> RenderPredicate(x)]
  <2>1. \A x \in Predicate : RenderPredicate(x) = body(f, x)
    BY KindsOfPredicates
  <2>2. IsRender(f, Predicate)
    <3>1. f = [x \in Predicate |-> body(f, x)]
      <4> HIDE DEF body
      <4> QED BY <2>1, Zenon
    <3> HIDE DEF f
    <3> QED BY <3>1 DEF IsRender
  <2>3. Trees[0] = Predicate /\ 0 \in 0 .. Deepest
    BY TreesAre, DeepestAssumption DEF AreTrees
  <2> HIDE DEF f
  <2> QED BY <2>2, <2>3
<1>2. ASSUME NEW n \in 1 .. Deepest, n - 1 \in T PROVE n \in T
  <2>1. PICK f : IsRender(f, Trees[n - 1])
    BY <1>2
  <2> DEFINE g == [x \in Trees[n] |-> body(f, x)]
  <2>2. Trees[n] = Above(Trees[n - 1]) /\ Trees[n - 1] \subseteq Trees[n] /\ n \in 0 .. Deepest
    BY TreesGrow, DeepestAssumption
  <2>3. \A x \in Trees[n - 1] : g[x] = f[x]
    <3>1. \A x \in Trees[n - 1] : f[x] = body(f, x)
      BY <2>1 DEF IsRender
    <3> HIDE DEF body
    <3> QED BY <2>2, <3>1
  <2>4. \A x \in Trees[n] : \/ x.kind \notin {"And", "Or"} /\ x.kind # "Not"
                            \/ x.kind \in {"And", "Or"} /\ x.left \in Trees[n - 1] /\ x.right \in Trees[n - 1]
                            \/ x.kind = "Not" /\ x.left \in Trees[n - 1]
    BY <2>2, KindsAbove, KindsOfPredicates DEF Junctions
  <2>5. \A x \in Trees[n] : body(f, x) = body(g, x)
    <3> HIDE DEF g
    <3> QED BY <2>3, <2>4
  <2>6. IsRender(g, Trees[n])
    <3>1. g = [x \in Trees[n] |-> body(g, x)]
      <4> HIDE DEF body
      <4> QED BY <2>5, Zenon
    <3> HIDE DEF g
    <3> QED BY <3>1 DEF IsRender
  <2> HIDE DEF g
  <2> QED BY <2>2, <2>6
<1> HIDE DEF T
<1>3. Deepest \in T
  BY <1>1, <1>2, DepthInduction
<1> QED BY <1>3 DEF T, Expr

\* A condition is rendered from its rendered parts.
LEMMA RenderIs ==
    ASSUME NEW x \in Expr
    PROVE  /\ x \in Predicate => render[x] = RenderPredicate(x)
           /\ x.kind \in Junctions => render[x] = Junction(x.kind = "And", render[x.left], render[x.right])
           /\ x.kind = "Not" => render[x] = Negation(render[x.left])
<1>1. IsRender(render, Expr)
  BY RenderExists, Zenon DEF IsRender, render
<1>2. render[x] = CASE x.kind \in {"And", "Or"} -> Junction(x.kind = "And", render[x.left], render[x.right])
                    [] x.kind = "Not" -> Negation(render[x.left])
                    [] OTHER -> RenderPredicate(x)
  BY <1>1 DEF IsRender
<1>3. x \in Predicate => x.kind \notin {"And", "Or", "Not"}
  BY KindsOfPredicates
<1> QED BY <1>2, <1>3 DEF Junctions

------------------------------------------------------------------------------
(* Refusal *)

\* A constant is no refusal.
LEMMA ConstNotRejected == \A v : const_frag(v) # Rejected
<1>1. ASSUME NEW v PROVE const_frag(v) # Rejected
  <2>1. const_frag(v).is_const = TRUE /\ Rejected.is_const = FALSE
    BY DEF const_frag, Rejected
  <2> QED BY <2>1
<1> QED BY <1>1

\* Nor is the text of a condition.
LEMMA TextNotRejected ==
    ASSUME NEW t, t.kind # "42000"
    PROVE  text_frag(t) # Rejected
<1>1. text_frag(t).text = t /\ Rejected.text.kind = "42000"
  BY DEF text_frag, Rejected
<1> QED BY <1>1

\* The parts of a predicate.
LEMMA PartsOfPredicate ==
    ASSUME NEW p \in Predicate
    PROVE  /\ p.a \in Operand
           /\ p.kind = "Compare" => p.b \in Operand /\ p.op \in Operators
           /\ p.kind = "Like" => p.b \in Operand
           /\ p.kind = "In" => p.list \in Seq(Operand)
           /\ p.kind \in {"Like", "In", "IsNull"} => p.negated \in BOOLEAN
BY DEF Predicate

\* The kinds of operands.
LEMMA KindsOfOperands ==
    ASSUME NEW o \in Operand
    PROVE  /\ o.kind \in {"Column", "Literal", "Param"}
           /\ o.kind = "Column" => o.column \in STRING
           /\ o.kind = "Literal" => o.lit \in Int \cup {Null}
           /\ o.kind = "Param" => o.index \in Nat
BY DEF Operand

\* A comparison with a column in front is refused unless the object has the column and the other
\* side is none.
LEMMA CompareRefused ==
    ASSUME NEW a \in Operand, NEW b \in Operand, NEW op, IsColumn(a)
    PROVE  (RenderCompare(a, op, b) = Rejected) <=> ~(resolves(a) /\ ~IsColumn(b))
<1>1. /\ \A v : const_frag(v) # Rejected
      /\ \A n : text_frag(IsNull(a, n)) # Rejected
      /\ text_frag(Compare(a, op, b)) # Rejected
  BY ConstNotRejected, TextNotRejected DEF IsNull, Compare
<1>2. IsNullLiteral(b) => ~IsColumn(b)
  BY DEF IsNullLiteral, IsColumn
<1> QED BY <1>1, <1>2 DEF RenderCompare

\* A predicate is refused when SOQL cannot say it.
LEMMA PredicateRefused ==
    ASSUME NEW p \in Predicate
    PROVE  (RenderPredicate(p) = Rejected) <=> ~PredicateSupported(p)
<1>1. \A v : const_frag(v) # Rejected
  BY ConstNotRejected
<1>2. text_frag(p) # Rejected
  BY TextNotRejected, KindsOfPredicates
<1>3. CASE p.kind = "Compare"
  <2>1. p.a \in Operand /\ p.b \in Operand
    BY <1>3, PartsOfPredicate
  <2>2. /\ RenderPredicate(p) = IF ~IsColumn(p.a) /\ IsColumn(p.b) THEN RenderCompare(p.b, flip(p.op), p.a)
                                ELSE RenderCompare(p.a, p.op, p.b)
        /\ PredicateSupported(p) <=> \/ p.a.kind = "Literal" /\ p.b.kind = "Literal"
                                     \/ resolves(p.a) /\ ~IsColumn(p.b)
                                     \/ resolves(p.b) /\ ~IsColumn(p.a)
    BY <1>3 DEF RenderPredicate, PredicateSupported
  <2>3. CASE IsColumn(p.a)
    <3>1. (RenderCompare(p.a, p.op, p.b) = Rejected) <=> ~(resolves(p.a) /\ ~IsColumn(p.b))
      BY <2>1, <2>3, CompareRefused
    <3> QED BY <2>2, <2>3, <3>1 DEF IsColumn
  <2>4. CASE ~IsColumn(p.a) /\ IsColumn(p.b)
    <3>1. (RenderCompare(p.b, flip(p.op), p.a) = Rejected) <=> ~(resolves(p.b) /\ ~IsColumn(p.a))
      BY <2>1, <2>4, CompareRefused
    <3> QED BY <2>2, <2>4, <3>1 DEF IsColumn, resolves
  <2>5. CASE ~IsColumn(p.a) /\ ~IsColumn(p.b)
    <3>1. p.a.kind \in {"Literal", "Param"} /\ p.b.kind \in {"Literal", "Param"}
      BY <2>1, <2>5, KindsOfOperands DEF IsColumn
    <3>2. (RenderCompare(p.a, p.op, p.b) = Rejected) <=> "Param" \in {p.a.kind, p.b.kind}
      BY <1>1, <2>5 DEF RenderCompare
    <3> QED BY <2>2, <2>5, <3>1, <3>2 DEF resolves
  <2> QED BY <2>3, <2>4, <2>5
<1>4. CASE p.kind = "IsNull"
  <2>1. p.a.kind \in {"Column", "Literal", "Param"}
    BY PartsOfPredicate, KindsOfOperands
  <2> QED BY <1>1, <1>2, <1>4, <2>1 DEF RenderPredicate, PredicateSupported, resolves, IsColumn
<1>5. CASE p.kind = "Like"
  BY <1>2, <1>5 DEF RenderPredicate, PredicateSupported
<1>6. CASE p.kind = "In"
  BY <1>2, <1>6 DEF RenderPredicate, PredicateSupported
<1> QED BY <1>3, <1>4, <1>5, <1>6, KindsOfPredicates

\* A junction is refused when a side is, and a negation when what it negates is.
LEMMA JunctionRefused ==
    ASSUME NEW l, NEW r, NEW is_and
    PROVE  (Junction(is_and, l, r) = Rejected) <=> (l = Rejected \/ r = Rejected)
<1>1. \A t, u : text_frag(And(t, u)) # Rejected /\ text_frag(Or(t, u)) # Rejected
  BY TextNotRejected DEF And, Or
<1> QED BY <1>1, ConstNotRejected, Zenon DEF Junction

\* A negation is refused when what it negates is.
LEMMA NegationRefused ==
    ASSUME NEW f
    PROVE  (Negation(f) = Rejected) <=> (f = Rejected)
<1>1. \A t : text_frag(Not(t)) # Rejected
  BY TextNotRejected DEF Not
<1> QED BY <1>1, ConstNotRejected, Zenon DEF Negation

\* A condition of any depth is refused exactly when SOQL cannot say one of its predicates, also
\* where folding would remove it (render, sql_plan.cpp:121-197).
THEOREM RefusedIfUnsupported ==
    ASSUME NEW e \in Expr
    PROVE  (render[e] = Rejected) <=> ~Supported(e)
<1> DEFINE S == {x \in Expr : (render[x] = Rejected) <=> ~Supported(x)}
<1>1. \A p \in Predicate : p \in S
  BY PredicatesAreExpr, RenderIs, PartsOf, PredicateRefused
<1>2. ASSUME NEW x \in Expr, x.kind \in Junctions /\ x.left \in S \cap Expr /\ x.right \in S \cap Expr PROVE x \in S
  BY <1>2, RenderIs, PartsOf, JunctionRefused
<1>3. ASSUME NEW x \in Expr, x.kind = "Not" /\ x.left \in S \cap Expr PROVE x \in S
  BY <1>3, RenderIs, PartsOf, NegationRefused
<1> HIDE DEF S
<1>4. Expr \subseteq S
  BY <1>1, <1>2, <1>3, ExprInduction
<1> QED BY <1>4 DEF S

------------------------------------------------------------------------------
(* What is rendered *)

\* A fragment is a constant or the text of one of some trees.
IsFrag(f, trees) == (\E b \in BOOLEAN : f = const_frag(b)) \/ (\E t \in trees : f = text_frag(t))

\* The members of fragments.
LEMMA MembersOfFrags ==
    ASSUME NEW v
    PROVE  /\ const_frag(v).is_const = TRUE /\ const_frag(v).value = v
           /\ text_frag(v).is_const = FALSE /\ text_frag(v).text = v
BY DEF const_frag, text_frag

\* Turned round, an operator is an operator.
LEMMA FlipIsOperator ==
    ASSUME NEW op \in Operators
    PROVE  flip(op) \in Operators
BY DEF flip, Operators

\* A comparison with a column of the object in front is rendered as a constant or a text.
LEMMA CompareGives ==
    ASSUME NEW a \in Operand, NEW b \in Operand, NEW op \in Operators, resolves(a), ~IsColumn(b)
    PROVE  IsFrag(RenderCompare(a, op, b), Predicate)
<1>1. IsNull(a, op = "!=") \in Predicate /\ Compare(a, op, b) \in Predicate
  BY DEF IsNull, Compare, Predicate
<1>2. \/ RenderCompare(a, op, b) = text_frag(IsNull(a, op = "!="))
      \/ RenderCompare(a, op, b) = const_frag(FALSE)
      \/ RenderCompare(a, op, b) = text_frag(Compare(a, op, b))
  BY Zenon DEF RenderCompare, resolves
<1> QED BY <1>1, <1>2, Zenon DEF IsFrag

\* A supported predicate is.
LEMMA PredicateGives ==
    ASSUME NEW p \in Predicate, PredicateSupported(p)
    PROVE  IsFrag(RenderPredicate(p), Predicate)
<1>1. p.a \in Operand
  BY PartsOfPredicate
<1>2. CASE p.kind = "Compare"
  <2>1. p.b \in Operand /\ p.op \in Operators /\ flip(p.op) \in Operators
    BY <1>2, PartsOfPredicate, FlipIsOperator
  <2>2. /\ RenderPredicate(p) = IF ~IsColumn(p.a) /\ IsColumn(p.b) THEN RenderCompare(p.b, flip(p.op), p.a)
                                ELSE RenderCompare(p.a, p.op, p.b)
        /\ \/ p.a.kind = "Literal" /\ p.b.kind = "Literal"
           \/ resolves(p.a) /\ ~IsColumn(p.b)
           \/ resolves(p.b) /\ ~IsColumn(p.a)
    BY <1>2 DEF RenderPredicate, PredicateSupported
  <2>3. CASE p.a.kind = "Literal" /\ p.b.kind = "Literal"
    <3>1. RenderPredicate(p) = const_frag(fold_compare(p.a.lit, p.op, p.b.lit))
      BY <2>2, <2>3 DEF RenderCompare, IsColumn
    <3>2. fold_compare(p.a.lit, p.op, p.b.lit) \in BOOLEAN
      BY DEF fold_compare
    <3> QED BY <3>1, <3>2 DEF IsFrag
  <2>4. CASE resolves(p.a) /\ ~IsColumn(p.b)
    BY <1>1, <2>1, <2>2, <2>4, CompareGives DEF resolves
  <2>5. CASE resolves(p.b) /\ ~IsColumn(p.a)
    BY <1>1, <2>1, <2>2, <2>5, CompareGives DEF resolves
  <2> QED BY <2>2, <2>3, <2>4, <2>5
<1>3. CASE p.kind = "IsNull"
  <2>1. \/ RenderPredicate(p) = text_frag(p)
        \/ RenderPredicate(p) = const_frag(IsNullLiteral(p.a) # p.negated)
    BY <1>3 DEF RenderPredicate, PredicateSupported, resolves, IsColumn
  <2>2. (IsNullLiteral(p.a) # p.negated) \in BOOLEAN
    OBVIOUS
  <2> QED BY <2>1, <2>2 DEF IsFrag
<1>4. CASE p.kind \in {"Like", "In"}
  <2>1. RenderPredicate(p) = text_frag(p)
    BY <1>4 DEF RenderPredicate, PredicateSupported
  <2> QED BY <2>1 DEF IsFrag
<1> QED BY <1>2, <1>3, <1>4, KindsOfPredicates

\* A junction of fragments is a fragment of what stands above them.
LEMMA JunctionGives ==
    ASSUME NEW S, NEW l, NEW r, IsFrag(l, S), IsFrag(r, S), NEW is_and \in BOOLEAN,
           l # Rejected, r # Rejected
    PROVE  IsFrag(Junction(is_and, l, r), Above(S) \cup S)
<1>1. CASE \E b \in BOOLEAN : l = const_frag(b)
  <2>1. PICK b \in BOOLEAN : l = const_frag(b)
    BY <1>1
  <2>2. l.is_const = TRUE /\ l.value = b
    BY <2>1, MembersOfFrags
  <2>3. CASE \E c \in BOOLEAN : r = const_frag(c)
    <3>1. PICK c \in BOOLEAN : r = const_frag(c)
      BY <2>3
    <3>2. r.is_const = TRUE /\ r.value = c
      BY <3>1, MembersOfFrags
    <3>3. Junction(is_and, l, r) = const_frag(IF is_and THEN b /\ c ELSE b \/ c)
      BY <2>2, <3>2 DEF Junction
    <3>4. (IF is_and THEN b /\ c ELSE b \/ c) \in BOOLEAN
      OBVIOUS
    <3> QED BY <3>3, <3>4 DEF IsFrag
  <2>4. CASE \E t \in S : r = text_frag(t)
    <3>1. r.is_const = FALSE
      BY <2>4, MembersOfFrags
    <3>2. Junction(is_and, l, r) = r \/ Junction(is_and, l, r) = l
      BY <2>2, <3>1 DEF Junction
    <3> QED BY <3>2 DEF IsFrag
  <2> QED BY <2>3, <2>4 DEF IsFrag
<1>2. CASE \E t \in S : l = text_frag(t)
  <2>1. PICK t \in S : l = text_frag(t)
    BY <1>2
  <2>2. l.is_const = FALSE /\ l.text = t
    BY <2>1, MembersOfFrags
  <2>3. CASE \E c \in BOOLEAN : r = const_frag(c)
    <3>1. r.is_const = TRUE
      BY <2>3, MembersOfFrags
    <3>2. Junction(is_and, l, r) = r \/ Junction(is_and, l, r) = l
      BY <2>2, <3>1 DEF Junction
    <3> QED BY <3>2 DEF IsFrag
  <2>4. CASE \E u \in S : r = text_frag(u)
    <3>1. PICK u \in S : r = text_frag(u)
      BY <2>4
    <3>2. r.is_const = FALSE /\ r.text = u
      BY <3>1, MembersOfFrags
    <3>3. Junction(is_and, l, r) = text_frag(IF is_and THEN And(t, u) ELSE Or(t, u))
      BY <2>2, <3>2 DEF Junction
    <3>4. And(t, u) \in Above(S) /\ Or(t, u) \in Above(S)
      BY DEF Above, And, Or
    <3> QED BY <3>3, <3>4 DEF IsFrag
  <2> QED BY <2>3, <2>4 DEF IsFrag
<1> QED BY <1>1, <1>2 DEF IsFrag

\* And so is a negation.
LEMMA NegationGives ==
    ASSUME NEW S, NEW f, IsFrag(f, S), f # Rejected
    PROVE  IsFrag(Negation(f), Above(S))
<1>1. CASE \E b \in BOOLEAN : f = const_frag(b)
  <2>1. PICK b \in BOOLEAN : f = const_frag(b)
    BY <1>1
  <2>2. Negation(f) = const_frag(~b)
    BY <2>1, MembersOfFrags DEF Negation
  <2> QED BY <2>2 DEF IsFrag
<1>2. CASE \E t \in S : f = text_frag(t)
  <2>1. PICK t \in S : f = text_frag(t)
    BY <1>2
  <2>2. Negation(f) = text_frag(Not(t))
    BY <2>1, MembersOfFrags DEF Negation
  <2>3. Not(t) \in Above(S)
    BY DEF Above, Not
  <2> QED BY <2>2, <2>3 DEF IsFrag
<1> QED BY <1>1, <1>2 DEF IsFrag

\* A supported condition is rendered as a constant, or as a text no deeper than itself.
LEMMA RenderGives == \A x \in Expr : Supported(x) => IsFrag(render[x], Expr)
<1> DEFINE T == {n \in 0 .. Deepest : \A x \in Trees[n] : Supported(x) => IsFrag(render[x], Trees[n])}
<1>1. 0 \in T
  <2>1. Trees[0] = Predicate /\ 0 \in 0 .. Deepest
    BY TreesAre, DeepestAssumption DEF AreTrees
  <2>2. \A x \in Predicate : Supported(x) => IsFrag(render[x], Predicate)
    BY PredicatesAreExpr, RenderIs, PartsOf, PredicateGives
  <2> QED BY <2>1, <2>2
<1>2. ASSUME NEW n \in 1 .. Deepest, n - 1 \in T PROVE n \in T
  <2>1. /\ Trees[n] = Above(Trees[n - 1]) /\ Trees[n - 1] \subseteq Trees[n]
        /\ Trees[n] \subseteq Expr /\ n \in 0 .. Deepest
    BY TreesGrow, TreesAreExpr, DeepestAssumption
  <2>2. \A x \in Trees[n - 1] : Supported(x) => IsFrag(render[x], Trees[n - 1]) /\ render[x] # Rejected
    BY <1>2, <2>1, RefusedIfUnsupported
  <2>3. ASSUME NEW x \in Trees[n], Supported(x) PROVE IsFrag(render[x], Trees[n])
    <3>1. CASE x \in Predicate
      <4>1. IsFrag(render[x], Predicate) /\ Predicate \subseteq Trees[n]
        BY <2>1, <2>3, <3>1, PredicatesAreExpr, RenderIs, PartsOf, PredicateGives DEF Above
      <4> QED BY <4>1 DEF IsFrag
    <3>2. CASE x.kind \in Junctions /\ x.left \in Trees[n - 1] /\ x.right \in Trees[n - 1]
      <4>1. render[x] = Junction(x.kind = "And", render[x.left], render[x.right])
        BY <2>1, <3>2, RenderIs
      <4>2. Supported(x.left) /\ Supported(x.right)
        BY <2>1, <2>3, <3>2, PartsOf
      <4>3. IsFrag(render[x], Above(Trees[n - 1]) \cup Trees[n - 1])
        <5>1. IsFrag(render[x.left], Trees[n - 1]) /\ render[x.left] # Rejected
          BY <2>2, <3>2, <4>2
        <5>2. IsFrag(render[x.right], Trees[n - 1]) /\ render[x.right] # Rejected
          BY <2>2, <3>2, <4>2
        <5>3. (x.kind = "And") \in BOOLEAN
          OBVIOUS
        <5> DEFINE is_and == x.kind = "And"
                   l == render[x.left]
                   r == render[x.right]
        <5>4. is_and \in BOOLEAN /\ IsFrag(l, Trees[n - 1]) /\ IsFrag(r, Trees[n - 1]) /\ l # Rejected /\ r # Rejected
          BY <5>1, <5>2, <5>3
        <5> HIDE DEF is_and, l, r
        <5>5. IsFrag(Junction(is_and, l, r), Above(Trees[n - 1]) \cup Trees[n - 1])
          BY <5>4, JunctionGives
        <5> QED BY <4>1, <5>5 DEF is_and, l, r
      <4>4. Above(Trees[n - 1]) \cup Trees[n - 1] = Trees[n]
        BY <2>1
      <4> QED BY <4>3, <4>4
    <3>3. CASE x.kind = "Not" /\ x.left \in Trees[n - 1]
      <4>1. render[x] = Negation(render[x.left]) /\ Supported(x.left)
        BY <2>1, <2>3, <3>3, RenderIs, PartsOf
      <4> QED BY <2>1, <2>2, <3>3, <4>1, NegationGives
    <3> QED BY <2>1, <3>1, <3>2, <3>3, KindsAbove
  <2> QED BY <2>1, <2>3
<1> HIDE DEF T
<1>3. Deepest \in T
  BY <1>1, <1>2, DepthInduction
<1> QED BY <1>3 DEF T, Expr

------------------------------------------------------------------------------
(* Folding and meaning *)

Value == Int \cup {Null}

\* The truth value of a fragment.
Value3(f, row, binding) == IF f.is_const THEN Truth(f.value) ELSE Meaning(f.text, row, binding)

\* Of a comparison turned round, the two values are compared the same way.
LEMMA FlipHolds ==
    ASSUME NEW x \in Int, NEW y \in Int, NEW op \in Operators
    PROVE  Holds(y, flip(op), x) = Holds(x, op, y)
<1>1. CASE op = "=" BY <1>1 DEF Holds, flip
<1>2. CASE op = "!=" BY <1>2 DEF Holds, flip
<1>3. CASE op = "<" BY <1>3 DEF Holds, flip
<1>4. CASE op = "<=" BY <1>4 DEF Holds, flip
<1>5. CASE op = ">" BY <1>5 DEF Holds, flip
<1>6. CASE op = ">=" BY <1>6 DEF Holds, flip
<1> QED BY <1>1, <1>2, <1>3, <1>4, <1>5, <1>6 DEF Operators

\* The operators for equality are those that stay so when turned round.
LEMMA FlipKeepsEquality ==
    ASSUME NEW op \in Operators
    PROVE  (flip(op) = "=" <=> op = "=") /\ (flip(op) = "!=" <=> op = "!=")
BY DEF flip, Operators

\* Turned round, a comparison is unknown as before and says the same.
LEMMA FlipCompares ==
    ASSUME NEW x \in Value, NEW y \in Value, NEW op \in Operators
    PROVE  Compare3(y, flip(op), x) = Compare3(x, op, y)
<1>1. CASE Null \in {x, y}
  BY <1>1 DEF Compare3
<1>2. CASE Null \notin {x, y}
  <2>1. x \in Int /\ y \in Int
    BY <1>2 DEF Value
  <2> QED BY <1>2, <2>1, FlipHolds DEF Compare3
<1> QED BY <1>1, <1>2

\* The truth values of constants and of the texts of predicates.
LEMMA ValueOfFrags ==
    ASSUME NEW row, NEW binding
    PROVE  /\ \A b : Value3(const_frag(b), row, binding) = Truth(b)
           /\ \A p \in Predicate : Value3(text_frag(p), row, binding) = PredicateMeaning(p, row, binding)
<1>1. ASSUME NEW b PROVE Value3(const_frag(b), row, binding) = Truth(b)
  BY MembersOfFrags DEF Value3
<1>2. ASSUME NEW p \in Predicate PROVE Value3(text_frag(p), row, binding) = PredicateMeaning(p, row, binding)
  <2>1. p \in Expr
    BY PredicatesAreExpr
  <2>2. text_frag(p).is_const = FALSE /\ text_frag(p).text = p
    BY MembersOfFrags
  <2>3. Meaning(p, row, binding) = PredicateMeaning(p, row, binding)
    BY <2>1, MeaningIs
  <2> QED BY <2>2, <2>3 DEF Value3
<1> QED BY <1>1, <1>2

\* What a comparison of a column means: with a value of NULL equality is a test for NULL.
CompareTruth(x, op, y) ==
    IF op \in {"=", "!="} /\ y = Null THEN Truth((x = y) = (op = "=")) ELSE Compare3(x, op, y)

\* A comparison with a column in front means that.
LEMMA CompareMeans ==
    ASSUME NEW a, NEW b, NEW op, IsColumn(a), ~IsColumn(b), NEW row, NEW binding
    PROVE  PredicateMeaning(Compare(a, op, b), row, binding)
             = CompareTruth(ValueOf(a, row, binding), op, ValueOf(b, row, binding))
<1> DEFINE p == Compare(a, op, b)
<1>1. p.kind = "Compare" /\ p.a = a /\ p.b = b /\ p.op = op
  BY DEF Compare
<1> HIDE DEF p
<1>2. PredicateMeaning(p, row, binding) = CompareTruth(ValueOf(a, row, binding), op, ValueOf(b, row, binding))
  BY <1>1 DEF PredicateMeaning, CompareTruth
<1> QED BY <1>2 DEF p

\* The test for NULL that an equality with the NULL literal is rendered as.
NullTest(a, op) == IsNull(a, op = "!=")

\* So does the test for NULL that stands for an equality with the NULL literal.
LEMMA NullTestMeans ==
    ASSUME NEW a, NEW b, NEW op, NEW row, NEW binding, IsNullLiteral(b), op \in {"=", "!="}
    PROVE  PredicateMeaning(NullTest(a, op), row, binding)
             = CompareTruth(ValueOf(a, row, binding), op, ValueOf(b, row, binding))
<1> DEFINE p == NullTest(a, op)
           x == ValueOf(a, row, binding)
<1>1. p.kind = "IsNull" /\ p.a = a /\ p.negated = (op = "!=")
  BY DEF NullTest, IsNull
<1>2. ValueOf(b, row, binding) = Null
  BY DEF IsNullLiteral, ValueOf
<1> HIDE DEF p
<1>3. PredicateMeaning(p, row, binding) = Truth((x = Null) # (op = "!="))
  BY <1>1 DEF PredicateMeaning
<1>4. ((x = Null) # (op = "!=")) = ((x = Null) = (op = "="))
  OBVIOUS
<1>5. CompareTruth(x, op, Null) = Truth((x = Null) = (op = "="))
  BY DEF CompareTruth
<1> QED BY <1>2, <1>3, <1>4, <1>5 DEF p

\* What a comparison with a column in front is rendered as: one that is unknown whatever the row
\* is folded to false.
RendersAs(a, op, b, row, binding) ==
    IF IsNullLiteral(b) /\ op \notin {"=", "!="}
    THEN /\ RenderCompare(a, op, b) = const_frag(FALSE)
         /\ CompareTruth(ValueOf(a, row, binding), op, ValueOf(b, row, binding)) = "unknown"
    ELSE Value3(RenderCompare(a, op, b), row, binding)
           = CompareTruth(ValueOf(a, row, binding), op, ValueOf(b, row, binding))

\* It is so for a column of the object.
LEMMA RenderCompareMeans ==
    ASSUME NEW a \in Operand, NEW b \in Operand, NEW op \in Operators, resolves(a), ~IsColumn(b),
           NEW row, NEW binding
    PROVE  RendersAs(a, op, b, row, binding)
<1>1. IsColumn(a)
  BY DEF resolves
<1>2. RenderCompare(a, op, b)
        = IF IsNullLiteral(b) THEN IF op \in {"=", "!="} THEN text_frag(NullTest(a, op)) ELSE const_frag(FALSE)
          ELSE text_frag(Compare(a, op, b))
  BY <1>1 DEF RenderCompare, NullTest
<1>3. Compare(a, op, b) \in Predicate /\ NullTest(a, op) \in Predicate
  BY DEF Compare, NullTest, IsNull, Predicate
<1>4. CASE IsNullLiteral(b) /\ op \notin {"=", "!="}
  <2>1. ValueOf(b, row, binding) = Null
    BY <1>4 DEF IsNullLiteral, ValueOf
  <2>2. \A x : CompareTruth(x, op, Null) = "unknown"
    BY <1>4 DEF CompareTruth, Compare3
  <2> QED BY <1>2, <1>4, <2>1, <2>2 DEF RendersAs
<1>5. CASE IsNullLiteral(b) /\ op \in {"=", "!="}
  <2>1. RenderCompare(a, op, b) = text_frag(NullTest(a, op))
    BY <1>2, <1>5
  <2>2. Value3(text_frag(NullTest(a, op)), row, binding) = PredicateMeaning(NullTest(a, op), row, binding)
    BY <1>3, ValueOfFrags
  <2>3. PredicateMeaning(NullTest(a, op), row, binding)
          = CompareTruth(ValueOf(a, row, binding), op, ValueOf(b, row, binding))
    <3>1. IsNullLiteral(b) /\ op \in {"=", "!="}
      BY <1>5
    <3> QED BY <3>1, NullTestMeans
  <2>4. Value3(RenderCompare(a, op, b), row, binding)
          = CompareTruth(ValueOf(a, row, binding), op, ValueOf(b, row, binding))
    BY <2>1, <2>2, <2>3, Zenon
  <2> QED BY <1>5, <2>4 DEF RendersAs
<1>6. CASE ~IsNullLiteral(b)
  <2>1. RenderCompare(a, op, b) = text_frag(Compare(a, op, b))
    BY <1>2, <1>6
  <2>2. Value3(text_frag(Compare(a, op, b)), row, binding) = PredicateMeaning(Compare(a, op, b), row, binding)
    BY <1>3, ValueOfFrags
  <2>3. PredicateMeaning(Compare(a, op, b), row, binding)
          = CompareTruth(ValueOf(a, row, binding), op, ValueOf(b, row, binding))
    BY <1>1, CompareMeans
  <2>4. Value3(RenderCompare(a, op, b), row, binding)
          = CompareTruth(ValueOf(a, row, binding), op, ValueOf(b, row, binding))
    BY <2>1, <2>2, <2>3, Zenon
  <2> QED BY <1>6, <2>4 DEF RendersAs
<1> QED BY <1>4, <1>5, <1>6

\* The values of a row's columns and of the markers of a predicate are numbers or NULL.
ValuesOf(p, row, binding) ==
    /\ \A c \in Columns : row[c] \in Value
    /\ \A i \in MarkersIn(p) : binding[i] \in Value

\* The operands of a supported predicate have such values.
LEMMA OperandsHaveValues ==
    ASSUME NEW p \in Predicate, NEW row, NEW binding, ValuesOf(p, row, binding), NEW o \in OperandsOf(p), o \in Operand,
           IsColumn(o) => resolves(o)
    PROVE  ValueOf(o, row, binding) \in Value
<1>1. o.kind = "Param" => o.index \in MarkersIn(p)
  BY DEF MarkersIn
<1> QED BY <1>1, KindsOfOperands DEF ValuesOf, ValueOf, resolves, IsColumn, Value

\* A supported predicate is rendered as what it means, or as false when it is unknown whatever
\* the row.
LEMMA PredicateFolds ==
    ASSUME NEW p \in Predicate, PredicateSupported(p), NEW row, NEW binding, ValuesOf(p, row, binding)
    PROVE  LET v == Value3(RenderPredicate(p), row, binding)
               m == PredicateMeaning(p, row, binding)
           IN  IF PredicateUnknown(p) THEN v = "false" /\ m = "unknown" ELSE v = m
<1> DEFINE v == Value3(RenderPredicate(p), row, binding)
           m == PredicateMeaning(p, row, binding)
           x == ValueOf(p.a, row, binding)
           y == ValueOf(p.b, row, binding)
<1> SUFFICES IF PredicateUnknown(p) THEN v = "false" /\ m = "unknown" ELSE v = m
  OBVIOUS
<1>1. /\ \A b : Value3(const_frag(b), row, binding) = Truth(b)
      /\ Truth(FALSE) = "false"
      /\ Value3(text_frag(p), row, binding) = m
  BY ValueOfFrags DEF Truth
<1>2. p.a \in Operand /\ p.a \in OperandsOf(p)
  BY PartsOfPredicate DEF OperandsOf
<1>3. CASE p.kind = "Compare"
  <2>1. p.b \in Operand /\ p.op \in Operators /\ flip(p.op) \in Operators /\ p.b \in OperandsOf(p)
    BY <1>3, PartsOfPredicate, FlipIsOperator DEF OperandsOf
  <2>2. /\ RenderPredicate(p) = IF ~IsColumn(p.a) /\ IsColumn(p.b) THEN RenderCompare(p.b, flip(p.op), p.a)
                                ELSE RenderCompare(p.a, p.op, p.b)
        /\ \/ p.a.kind = "Literal" /\ p.b.kind = "Literal"
           \/ resolves(p.a) /\ ~IsColumn(p.b)
           \/ resolves(p.b) /\ ~IsColumn(p.a)
        /\ PredicateUnknown(p) <=> /\ IsNullLiteral(p.a) \/ IsNullLiteral(p.b)
                                   /\ p.op \in {"=", "!="} => ~(IsColumn(p.a) \/ IsColumn(p.b))
        /\ m = IF /\ p.op \in {"=", "!="}
                  /\ \/ IsColumn(p.a) /\ ~IsColumn(p.b) /\ y = Null
                     \/ IsColumn(p.b) /\ ~IsColumn(p.a) /\ x = Null
               THEN Truth((x = y) = (p.op = "=")) ELSE Compare3(x, p.op, y)
    BY <1>3 DEF RenderPredicate, PredicateSupported, PredicateUnknown, PredicateMeaning
  <2> HIDE DEF v, m
  <2>3. CASE p.a.kind = "Literal" /\ p.b.kind = "Literal"
    <3>1. RenderPredicate(p) = const_frag(fold_compare(p.a.lit, p.op, p.b.lit)) /\ ~IsColumn(p.a) /\ ~IsColumn(p.b)
      BY <2>2, <2>3 DEF RenderCompare, IsColumn
    <3>2. v = Truth(fold_compare(x, p.op, y)) /\ m = Compare3(x, p.op, y)
      BY <1>1, <2>2, <2>3, <3>1 DEF v, ValueOf
    <3>3. PredicateUnknown(p) <=> Null \in {x, y}
      BY <2>2, <2>3, <3>1 DEF IsNullLiteral, ValueOf
    <3> HIDE DEF x, y
    <3>4. CASE Null \in {x, y}
      <4>1. ~fold_compare(x, p.op, y)
        BY <3>4 DEF fold_compare
      <4>2. v = "false"
        BY <3>2, <4>1 DEF Truth
      <4> QED BY <3>2, <3>3, <3>4, <4>2 DEF Compare3
    <3>5. CASE Null \notin {x, y}
      <4>1. fold_compare(x, p.op, y) <=> Holds(x, p.op, y)
        BY <3>5 DEF fold_compare
      <4>2. v = Truth(Holds(x, p.op, y))
        BY <3>2, <4>1 DEF Truth
      <4> QED BY <3>2, <3>3, <3>5, <4>2 DEF Compare3
    <3> QED BY <3>4, <3>5
  <2>4. CASE resolves(p.a) /\ ~IsColumn(p.b)
    <3>1. IsColumn(p.a) /\ ~IsNullLiteral(p.a) /\ RenderPredicate(p) = RenderCompare(p.a, p.op, p.b)
      BY <2>2, <2>4 DEF resolves, IsColumn, IsNullLiteral
    <3>2. IF IsNullLiteral(p.b) /\ p.op \notin {"=", "!="}
          THEN RenderPredicate(p) = const_frag(FALSE) /\ CompareTruth(x, p.op, y) = "unknown"
          ELSE v = CompareTruth(x, p.op, y)
      <4>1. RendersAs(p.a, p.op, p.b, row, binding)
        BY <1>2, <2>1, <2>4, RenderCompareMeans
      <4> QED BY <3>1, <4>1 DEF v, RendersAs
    <3>3. PredicateUnknown(p) <=> IsNullLiteral(p.b) /\ p.op \notin {"=", "!="}
      BY <2>2, <3>1
    <3>4. m = CompareTruth(x, p.op, y)
      BY <2>2, <2>4, <3>1 DEF CompareTruth
    <3> HIDE DEF x, y
    <3> QED BY <1>1, <3>2, <3>3, <3>4 DEF v
  <2>5. CASE resolves(p.b) /\ ~IsColumn(p.a)
    <3>1. IsColumn(p.b) /\ ~IsNullLiteral(p.b) /\ RenderPredicate(p) = RenderCompare(p.b, flip(p.op), p.a)
      BY <2>2, <2>5 DEF resolves, IsColumn, IsNullLiteral
    <3>2. IF IsNullLiteral(p.a) /\ flip(p.op) \notin {"=", "!="}
          THEN RenderPredicate(p) = const_frag(FALSE) /\ CompareTruth(y, flip(p.op), x) = "unknown"
          ELSE v = CompareTruth(y, flip(p.op), x)
      <4>1. RendersAs(p.b, flip(p.op), p.a, row, binding)
        BY <1>2, <2>1, <2>5, RenderCompareMeans
      <4> QED BY <3>1, <4>1 DEF v, RendersAs
    <3>3. (flip(p.op) = "=" <=> p.op = "=") /\ (flip(p.op) = "!=" <=> p.op = "!=")
      BY <2>1, FlipKeepsEquality
    <3>4. x \in Value /\ y \in Value
      BY <1>2, <2>1, <2>5, OperandsHaveValues
    <3>5. Compare3(y, flip(p.op), x) = Compare3(x, p.op, y)
      BY <2>1, <3>4, FlipCompares
    <3>6. PredicateUnknown(p) <=> IsNullLiteral(p.a) /\ p.op \notin {"=", "!="}
      BY <2>2, <3>1
    <3>7. m = IF p.op \in {"=", "!="} /\ x = Null THEN Truth((x = y) = (p.op = "=")) ELSE Compare3(x, p.op, y)
      BY <2>2, <2>5, <3>1
    <3>8. ((y = x) = (flip(p.op) = "=")) = ((x = y) = (p.op = "="))
      BY <3>3
    <3> HIDE DEF x, y
    <3>9. m = CompareTruth(y, flip(p.op), x)
      BY <3>3, <3>5, <3>7, <3>8 DEF CompareTruth
    <3> QED BY <1>1, <3>2, <3>3, <3>6, <3>9 DEF v
  <2> QED BY <2>2, <2>3, <2>4, <2>5
<1>4. CASE p.kind = "IsNull"
  <2>1. /\ RenderPredicate(p) = text_frag(p) \/ RenderPredicate(p) = const_frag(IsNullLiteral(p.a) # p.negated)
        /\ RenderPredicate(p) # text_frag(p) => p.a.kind = "Literal"
    BY <1>4 DEF RenderPredicate, PredicateSupported, resolves, IsColumn
  <2>2. ~PredicateUnknown(p)
    BY <1>4 DEF PredicateUnknown
  <2>3. CASE RenderPredicate(p) = text_frag(p)
    BY <1>1, <2>2, <2>3
  <2>4. CASE RenderPredicate(p) = const_frag(IsNullLiteral(p.a) # p.negated) /\ p.a.kind = "Literal"
    <3>1. m = Truth((x = Null) # p.negated)
      BY <1>4 DEF PredicateMeaning
    <3>2. (x = Null) = IsNullLiteral(p.a)
      BY <2>4 DEF ValueOf, IsNullLiteral
    <3> QED BY <1>1, <2>2, <2>4, <3>1, <3>2
  <2> QED BY <2>1, <2>3, <2>4
<1>5. CASE p.kind \in {"Like", "In"}
  <2>1. RenderPredicate(p) = text_frag(p) /\ ~PredicateUnknown(p)
    BY <1>5 DEF RenderPredicate, PredicateSupported, PredicateUnknown
  <2> QED BY <1>1, <2>1
<1> QED BY <1>3, <1>4, <1>5, KindsOfPredicates

\* The truth value of a fragment is one of the three, and the fragment selects a row when it is
\* true.
LEMMA FragIsTruth ==
    ASSUME NEW f, NEW row, NEW binding, IsFrag(f, Expr)
    PROVE  /\ Value3(f, row, binding) \in Truths
           /\ Selects(f, row, binding) <=> Value3(f, row, binding) = "true"
<1>1. CASE \E b \in BOOLEAN : f = const_frag(b)
  <2>1. PICK b \in BOOLEAN : f = const_frag(b)
    BY <1>1
  <2>2. f.is_const = TRUE /\ f.value = b
    BY <2>1, MembersOfFrags
  <2> QED BY <2>2 DEF Value3, Selects, Truth, Truths
<1>2. CASE \E t \in Expr : f = text_frag(t)
  <2>1. PICK t \in Expr : f = text_frag(t)
    BY <1>2
  <2>2. f.is_const = FALSE /\ f.text = t
    BY <2>1, MembersOfFrags
  <2>3. Meaning(t, row, binding) \in Truths
    BY MeaningIs
  <2> QED BY <2>2, <2>3 DEF Value3, Selects
<1> QED BY <1>1, <1>2 DEF IsFrag

\* The text of a fragment is the condition it spells.
LEMMA TextIsExpr ==
    ASSUME NEW t, IsFrag(text_frag(t), Expr)
    PROVE  t \in Expr
<1>1. text_frag(t).is_const = FALSE /\ text_frag(t).text = t
  BY MembersOfFrags
<1>2. \A b : const_frag(b).is_const = TRUE
  BY MembersOfFrags
<1>3. \A u : text_frag(u).text = u
  BY MembersOfFrags
<1> QED BY <1>1, <1>2, <1>3 DEF IsFrag

\* A junction of fragments means the And or the Or of what they mean, whichever of them is a
\* constant.
LEMMA JunctionMeans ==
    ASSUME NEW l, NEW r, NEW is_and \in BOOLEAN, NEW row, NEW binding, l # Rejected, r # Rejected,
           IsFrag(l, Expr), IsFrag(r, Expr), IsFrag(Junction(is_and, l, r), Expr)
    PROVE  Value3(Junction(is_and, l, r), row, binding)
             = IF is_and THEN And3(Value3(l, row, binding), Value3(r, row, binding))
               ELSE Or3(Value3(l, row, binding), Value3(r, row, binding))
<1> DEFINE V(f) == Value3(f, row, binding)
<1>1. V(l) \in Truths /\ V(r) \in Truths
  BY FragIsTruth
<1>2. \A b : V(const_frag(b)) = Truth(b)
  BY ValueOfFrags
<1>3. \A t \in Expr : V(text_frag(t)) = Meaning(t, row, binding)
  BY MembersOfFrags DEF Value3
<1> HIDE DEF V
<1> SUFFICES V(Junction(is_and, l, r)) = IF is_and THEN And3(V(l), V(r)) ELSE Or3(V(l), V(r))
  BY DEF V
<1>4. CASE \E b \in BOOLEAN : l = const_frag(b)
  <2>1. PICK b \in BOOLEAN : l = const_frag(b)
    BY <1>4
  <2>2. l.is_const = TRUE /\ l.value = b /\ V(l) = Truth(b)
    BY <1>2, <2>1, MembersOfFrags
  <2>3. CASE \E c \in BOOLEAN : r = const_frag(c)
    <3>1. PICK c \in BOOLEAN : r = const_frag(c)
      BY <2>3
    <3>2. r.is_const = TRUE /\ r.value = c /\ V(r) = Truth(c)
      BY <1>2, <3>1, MembersOfFrags
    <3>3. Junction(is_and, l, r) = const_frag(IF is_and THEN b /\ c ELSE b \/ c)
      BY <2>2, <3>2 DEF Junction
    <3>4. V(Junction(is_and, l, r)) = Truth(IF is_and THEN b /\ c ELSE b \/ c)
      BY <1>2, <3>3
    <3>5. And3(Truth(b), Truth(c)) = Truth(b /\ c) /\ Or3(Truth(b), Truth(c)) = Truth(b \/ c)
      BY <1>1, KnownSide
    <3> QED BY <2>2, <3>2, <3>4, <3>5
  <2>4. CASE \E t \in Expr : r = text_frag(t)
    <3>1. r.is_const = FALSE
      BY <2>4, MembersOfFrags
    <3>2. Junction(is_and, l, r) = IF b = is_and THEN r ELSE l
      BY <2>2, <3>1 DEF Junction
    <3>3. /\ And3(Truth(b), V(r)) = IF b THEN V(r) ELSE "false"
          /\ Or3(Truth(b), V(r)) = IF b THEN "true" ELSE V(r)
      BY <1>1, KnownSide
    <3>4. Truth(b) = IF b THEN "true" ELSE "false"
      BY DEF Truth
    <3> QED BY <2>2, <3>2, <3>3, <3>4
  <2> QED BY <2>3, <2>4 DEF IsFrag
<1>5. CASE \E t \in Expr : l = text_frag(t)
  <2>1. PICK t \in Expr : l = text_frag(t)
    BY <1>5
  <2>2. l.is_const = FALSE /\ l.text = t /\ V(l) = Meaning(t, row, binding)
    BY <1>3, <2>1, MembersOfFrags
  <2>3. CASE \E c \in BOOLEAN : r = const_frag(c)
    <3>1. PICK c \in BOOLEAN : r = const_frag(c)
      BY <2>3
    <3>2. r.is_const = TRUE /\ r.value = c /\ V(r) = Truth(c)
      BY <1>2, <3>1, MembersOfFrags
    <3>3. Junction(is_and, l, r) = IF c = is_and THEN l ELSE r
      BY <2>2, <3>2 DEF Junction
    <3>4. /\ And3(V(l), Truth(c)) = IF c THEN V(l) ELSE "false"
          /\ Or3(V(l), Truth(c)) = IF c THEN "true" ELSE V(l)
      BY <1>1, KnownSide
    <3>5. Truth(c) = IF c THEN "true" ELSE "false"
      BY DEF Truth
    <3> QED BY <3>2, <3>3, <3>4, <3>5
  <2>4. CASE \E u \in Expr : r = text_frag(u)
    <3>1. PICK u \in Expr : r = text_frag(u)
      BY <2>4
    <3>2. r.is_const = FALSE /\ r.text = u /\ V(r) = Meaning(u, row, binding)
      BY <1>3, <3>1, MembersOfFrags
    <3> DEFINE x == IF is_and THEN And(t, u) ELSE Or(t, u)
    <3>3. Junction(is_and, l, r) = text_frag(x)
      BY <2>2, <3>2 DEF Junction
    <3>4. x \in Expr
      BY <3>3, TextIsExpr
    <3>5. x.kind = (IF is_and THEN "And" ELSE "Or") /\ x.left = t /\ x.right = u
      BY DEF And, Or
    <3> HIDE DEF x
    <3>6. Meaning(x, row, binding) = IF is_and THEN And3(V(l), V(r)) ELSE Or3(V(l), V(r))
      BY <2>2, <3>2, <3>4, <3>5, MeaningIs
    <3> QED BY <1>3, <3>3, <3>4, <3>6
  <2> QED BY <2>3, <2>4 DEF IsFrag
<1> QED BY <1>4, <1>5 DEF IsFrag

\* A negation means the Not of what its fragment means.
LEMMA NegationMeans ==
    ASSUME NEW f, NEW row, NEW binding, f # Rejected, IsFrag(f, Expr), IsFrag(Negation(f), Expr)
    PROVE  Value3(Negation(f), row, binding) = Not3(Value3(f, row, binding))
<1> DEFINE V(g) == Value3(g, row, binding)
<1>1. \A b : V(const_frag(b)) = Truth(b)
  BY ValueOfFrags
<1>2. \A t \in Expr : V(text_frag(t)) = Meaning(t, row, binding)
  BY MembersOfFrags DEF Value3
<1> HIDE DEF V
<1> SUFFICES V(Negation(f)) = Not3(V(f))
  BY DEF V
<1>3. CASE \E b \in BOOLEAN : f = const_frag(b)
  <2>1. PICK b \in BOOLEAN : f = const_frag(b)
    BY <1>3
  <2>2. Negation(f) = const_frag(~b)
    BY <2>1, MembersOfFrags DEF Negation
  <2>3. Not3(Truth(b)) = Truth(~b)
    BY DEF Not3, Truth
  <2> QED BY <1>1, <2>1, <2>2, <2>3
<1>4. CASE \E t \in Expr : f = text_frag(t)
  <2>1. PICK t \in Expr : f = text_frag(t)
    BY <1>4
  <2> DEFINE x == Not(t)
  <2>2. Negation(f) = text_frag(x)
    BY <2>1, MembersOfFrags DEF Negation
  <2>3. x \in Expr
    BY <2>2, TextIsExpr
  <2>4. x.kind = "Not" /\ x.left = t
    BY DEF Not
  <2> HIDE DEF x
  <2>5. Meaning(x, row, binding) = Not3(Meaning(t, row, binding))
    BY <2>3, <2>4, MeaningIs
  <2> QED BY <1>2, <2>1, <2>2, <2>3, <2>5
<1> QED BY <1>3, <1>4 DEF IsFrag

\* The markers of a condition are those of its parts.
LEMMA MarkersAre ==
    ASSUME NEW x \in Expr
    PROVE  /\ x \in Predicate => MarkersOf(x) = MarkersIn(x)
           /\ x.kind \in Junctions => MarkersOf(x) = MarkersOf(x.left) \cup MarkersOf(x.right)
           /\ x.kind = "Not" => MarkersOf(x) = MarkersOf(x.left)
<1>1. /\ x \in Predicate => PredicatesOf(x) = {x}
      /\ x.kind \in Junctions => PredicatesOf(x) = PredicatesOf(x.left) \cup PredicatesOf(x.right)
      /\ x.kind = "Not" => PredicatesOf(x) = PredicatesOf(x.left)
  BY PredicatesAre
<1>2. x \in Predicate => MarkersOf(x) = MarkersIn(x)
  BY <1>1 DEF MarkersOf
<1>3. x.kind \in Junctions => MarkersOf(x) = MarkersOf(x.left) \cup MarkersOf(x.right)
  BY <1>1 DEF MarkersOf
<1>4. x.kind = "Not" => MarkersOf(x) = MarkersOf(x.left)
  BY <1>1, Zenon DEF MarkersOf
<1> QED BY <1>2, <1>3, <1>4

\* The columns of a row and the markers of a condition have numbers or NULL for values.
Bound(e, row, binding) ==
    /\ \A c \in Columns : row[c] \in Value
    /\ \A i \in MarkersOf(e) : binding[i] \in Value

\* What folding keeps: the truth value when nothing in the condition is unknown whatever the row,
\* and whether the row is selected as long as nothing unknown stands under a NOT.
Kept(e, row, binding) ==
    /\ ~HasUnknown(e) => Value3(render[e], row, binding) = Meaning(e, row, binding)
    /\ ~UnknownUnderNot(e) => (Selects(render[e], row, binding) <=> Meaning(e, row, binding) = "true")

\* Of a condition of any depth whose fragment was made, constants were folded away without a row
\* being selected that the condition does not ask for, or one left out, as long as no comparison
\* that is unknown whatever the row stands under a NOT (render, sql_plan.cpp:121-197).
THEOREM FoldingKeepsMeaning ==
    ASSUME NEW e \in Expr, NEW row, NEW binding, render[e] # Rejected, Bound(e, row, binding)
    PROVE  Kept(e, row, binding)
<1> DEFINE V(x) == Value3(render[x], row, binding)
           M(x) == Meaning(x, row, binding)
           S == {x \in Expr : Supported(x) /\ Bound(x, row, binding) => Kept(x, row, binding)}
<1>1. ASSUME NEW p \in Predicate PROVE p \in S
  <2>1. p \in Expr /\ MarkersOf(p) = MarkersIn(p)
    BY PredicatesAreExpr, MarkersAre
  <2>2. SUFFICES ASSUME Supported(p), Bound(p, row, binding) PROVE Kept(p, row, binding)
    BY <2>1
  <2>3. PredicateSupported(p) /\ render[p] = RenderPredicate(p) /\ (HasUnknown(p) <=> PredicateUnknown(p))
    BY <2>1, <2>2, PartsOf, RenderIs
  <2>4. ValuesOf(p, row, binding)
    BY <2>1, <2>2 DEF Bound, ValuesOf
  <2>5. Meaning(p, row, binding) = PredicateMeaning(p, row, binding)
    BY <2>1, MeaningIs
  <2>6. IF PredicateUnknown(p) THEN V(p) = "false" /\ M(p) = "unknown" ELSE V(p) = M(p)
    BY <2>3, <2>4, <2>5, PredicateFolds
  <2>7. IsFrag(render[p], Expr)
    BY <2>1, <2>2, RenderGives
  <2>8. Selects(render[p], row, binding) <=> V(p) = "true"
    BY <2>7, FragIsTruth
  <2> HIDE DEF V, M
  <2>9. ~HasUnknown(p) => V(p) = M(p)
    BY <2>3, <2>6
  <2>10. Selects(render[p], row, binding) <=> M(p) = "true"
    BY <2>6, <2>8
  <2> QED BY <2>9, <2>10 DEF Kept, V, M
<1>2. \A x \in Expr : Supported(x) => /\ IsFrag(render[x], Expr) /\ render[x] # Rejected
                                      /\ V(x) \in Truths /\ (Selects(render[x], row, binding) <=> V(x) = "true")
  BY RenderGives, RefusedIfUnsupported, FragIsTruth
<1>3. ASSUME NEW x \in Expr, x.kind \in Junctions /\ x.left \in S \cap Expr /\ x.right \in S \cap Expr
      PROVE  x \in S
  <2>1. SUFFICES ASSUME Supported(x), Bound(x, row, binding) PROVE Kept(x, row, binding)
    OBVIOUS
  <2>2. Supported(x.left) /\ Supported(x.right)
    BY <1>3, <2>1, PartsOf
  <2>3. Kept(x.left, row, binding) /\ Kept(x.right, row, binding)
    BY <1>3, <2>1, <2>2, MarkersAre DEF Bound
  <2>4. /\ HasUnknown(x) <=> HasUnknown(x.left) \/ HasUnknown(x.right)
        /\ UnknownUnderNot(x) <=> UnknownUnderNot(x.left) \/ UnknownUnderNot(x.right)
    BY <1>3, PartsOf, UnknownUnderNotOfParts
  <2>5. render[x] = Junction(x.kind = "And", render[x.left], render[x.right])
    BY <1>3, RenderIs
  <2>6. V(x) = IF x.kind = "And" THEN And3(V(x.left), V(x.right)) ELSE Or3(V(x.left), V(x.right))
    <3> DEFINE is_and == x.kind = "And"
               l == render[x.left]
               r == render[x.right]
    <3>1. is_and \in BOOLEAN /\ IsFrag(l, Expr) /\ IsFrag(r, Expr) /\ l # Rejected /\ r # Rejected
      BY <1>2, <1>3, <2>2
    <3>2. render[x] = Junction(is_and, l, r) /\ IsFrag(render[x], Expr)
      BY <1>2, <2>1, <2>5
    <3>3. V(x) = Value3(render[x], row, binding) /\ V(x.left) = Value3(l, row, binding) /\ V(x.right) = Value3(r, row, binding)
      OBVIOUS
    <3> HIDE DEF is_and, l, r, V
    <3>4. Value3(Junction(is_and, l, r), row, binding)
             = IF is_and THEN And3(Value3(l, row, binding), Value3(r, row, binding))
               ELSE Or3(Value3(l, row, binding), Value3(r, row, binding))
      BY <3>1, <3>2, JunctionMeans
    <3> QED BY <3>2, <3>3, <3>4 DEF is_and
  <2>7. M(x) = IF x.kind = "And" THEN And3(M(x.left), M(x.right)) ELSE Or3(M(x.left), M(x.right))
    BY <1>3, MeaningIs DEF Junctions
  <2>8. V(x.left) \in Truths /\ V(x.right) \in Truths /\ M(x.left) \in Truths /\ M(x.right) \in Truths
    BY <1>2, <1>3, <2>2, MeaningIs
  <2> HIDE DEF V, M
  <2>9. ~HasUnknown(x) => V(x) = M(x)
    BY <2>3, <2>4, <2>6, <2>7 DEF Kept, V, M
  <2>10. ASSUME ~UnknownUnderNot(x) PROVE V(x) = "true" <=> M(x) = "true"
    <3>1. (V(x.left) = "true" <=> M(x.left) = "true") /\ (V(x.right) = "true" <=> M(x.right) = "true")
      BY <1>2, <1>3, <2>2, <2>3, <2>4, <2>10 DEF Kept, M
    <3> QED BY <2>6, <2>7, <2>8, <3>1, TrueOfBoth
  <2> QED BY <1>2, <2>1, <2>9, <2>10 DEF Kept, V, M
<1>4. ASSUME NEW x \in Expr, x.kind = "Not" /\ x.left \in S \cap Expr PROVE x \in S
  <2>1. SUFFICES ASSUME Supported(x), Bound(x, row, binding) PROVE Kept(x, row, binding)
    OBVIOUS
  <2>2. Supported(x.left) /\ (HasUnknown(x) <=> HasUnknown(x.left)) /\ (UnknownUnderNot(x) <=> HasUnknown(x.left))
    BY <1>4, <2>1, PartsOf, UnknownUnderNotOfParts
  <2>3. Kept(x.left, row, binding)
    BY <1>4, <2>1, <2>2, MarkersAre DEF Bound
  <2>4. render[x] = Negation(render[x.left]) /\ M(x) = Not3(M(x.left))
    BY <1>4, RenderIs, MeaningIs
  <2>5. V(x) = Not3(V(x.left))
    BY <1>2, <1>4, <2>1, <2>2, <2>4, NegationMeans
  <2> HIDE DEF V, M
  <2>6. ~HasUnknown(x.left) => V(x) = M(x)
    BY <2>3, <2>4, <2>5 DEF Kept, V, M
  <2> QED BY <1>2, <2>1, <2>2, <2>6 DEF Kept, V, M
<1> HIDE DEF S
<1>5. Expr \subseteq S
  BY <1>1, <1>3, <1>4, ExprInduction
<1>6. Supported(e)
  BY RefusedIfUnsupported
<1> QED BY <1>5, <1>6 DEF S

------------------------------------------------------------------------------
(* The slots of parameters *)

\* Columns for some markers.
Slots == UNION {[D -> STRING] : D \in SUBSET Nat}

\* Two sides have slots for the markers of either, and each slot is one of a side.
LEMMA SlotsOverwritten ==
    ASSUME NEW s, NEW t
    PROVE  /\ DOMAIN Overwritten(s, t) = DOMAIN s \cup DOMAIN t
           /\ \A i \in DOMAIN Overwritten(s, t) :
                 \/ i \in DOMAIN s /\ Overwritten(s, t)[i] = s[i]
                 \/ i \in DOMAIN t /\ Overwritten(s, t)[i] = t[i]
           /\ s \in Slots /\ t \in Slots => Overwritten(s, t) \in Slots
<1>1. DOMAIN Overwritten(s, t) = DOMAIN s \cup DOMAIN t
  BY DEF Overwritten
<1>2. \A i \in DOMAIN Overwritten(s, t) : \/ i \in DOMAIN s /\ Overwritten(s, t)[i] = s[i]
                                          \/ i \in DOMAIN t /\ Overwritten(s, t)[i] = t[i]
  BY DEF Overwritten
<1>3. ASSUME s \in Slots, t \in Slots PROVE Overwritten(s, t) \in Slots
  <2>1. PICK C \in SUBSET Nat : s \in [C -> STRING]
    BY <1>3 DEF Slots
  <2>2. PICK D \in SUBSET Nat : t \in [D -> STRING]
    BY <1>3 DEF Slots
  <2>3. Overwritten(s, t) \in [C \cup D -> STRING] /\ C \cup D \in SUBSET Nat
    BY <2>1, <2>2 DEF Overwritten
  <2> QED BY <2>3 DEF Slots
<1> QED BY <1>1, <1>2, <1>3

\* A column's slot for an operand.
LEMMA ValuePartIs ==
    ASSUME NEW o \in Operand, NEW c \in STRING
    PROVE  /\ value_part(o, c) \in Slots
           /\ o.kind = "Param" => DOMAIN value_part(o, c) = {o.index} /\ value_part(o, c)[o.index] = c
           /\ o.kind # "Param" => DOMAIN value_part(o, c) = {}
<1>1. CASE o.kind = "Param"
  <2>1. o.index \in Nat
    BY <1>1, KindsOfOperands
  <2>2. value_part(o, c) = [i \in {o.index} |-> c]
    BY <1>1 DEF value_part
  <2>3. value_part(o, c) \in [{o.index} -> STRING] /\ {o.index} \in SUBSET Nat
    BY <2>1, <2>2
  <2> QED BY <1>1, <2>2, <2>3 DEF Slots
<1>2. CASE o.kind # "Param"
  <2>1. value_part(o, c) = NoSlots /\ NoSlots \in [{} -> STRING] /\ {} \in SUBSET Nat
    BY <1>2 DEF value_part, NoSlots
  <2> QED BY <1>2, <2>1 DEF Slots
<1> QED BY <1>1, <1>2

\* A predicate has slots: for its markers, of the column it compares them with.
LEMMA PredicateSlotsAre ==
    ASSUME NEW p \in Predicate
    PROVE  /\ PredicateSlots(p) \in Slots
           /\ PredicateSupported(p) =>
                 /\ DOMAIN PredicateSlots(p) = MarkersIn(p)
                 /\ \A i \in MarkersIn(p) : PredicateSlots(p)[i] \in ColumnsIn(p) \cap Columns
<1>1. NoSlots \in Slots /\ DOMAIN NoSlots = {}
  <2>1. NoSlots \in [{} -> STRING] /\ {} \in SUBSET Nat /\ DOMAIN NoSlots = {}
    BY DEF NoSlots
  <2> QED BY <2>1 DEF Slots
<1>2. p.a \in Operand
  BY PartsOfPredicate
<1>3. ASSUME NEW a \in Operand, NEW b \in Operand, IsColumn(a), OperandsOf(p) = {a, b},
             PredicateSlots(p) = value_part(b, a.column), PredicateSupported(p) => resolves(a) /\ ~IsColumn(b)
      PROVE  /\ PredicateSlots(p) \in Slots
             /\ PredicateSupported(p) =>
                   /\ DOMAIN PredicateSlots(p) = MarkersIn(p)
                   /\ \A i \in MarkersIn(p) : PredicateSlots(p)[i] \in ColumnsIn(p) \cap Columns
  <2>1. a.kind = "Column" /\ a.column \in STRING
    BY <1>3, KindsOfOperands DEF IsColumn
  <2>2. MarkersIn(p) = IF b.kind = "Param" THEN {b.index} ELSE {}
    BY <1>3, <2>1 DEF MarkersIn
  <2>3. a.column \in ColumnsIn(p) /\ (PredicateSupported(p) => a.column \in Columns)
    BY <1>3 DEF ColumnsIn, resolves
  <2>4. PredicateSlots(p) \in Slots
    BY <1>3, <2>1, ValuePartIs
  <2>5. CASE b.kind = "Param"
    <3>1. DOMAIN PredicateSlots(p) = {b.index} /\ PredicateSlots(p)[b.index] = a.column
      BY <1>3, <2>1, <2>5, ValuePartIs
    <3> QED BY <2>2, <2>3, <2>4, <2>5, <3>1
  <2>6. CASE b.kind # "Param"
    <3>1. DOMAIN PredicateSlots(p) = {}
      BY <1>3, <2>1, <2>6, ValuePartIs
    <3> QED BY <2>2, <2>4, <2>6, <3>1
  <2> QED BY <2>5, <2>6
<1>4. ASSUME PredicateSlots(p) = NoSlots, PredicateSupported(p) => MarkersIn(p) = {}
      PROVE  /\ PredicateSlots(p) \in Slots
             /\ PredicateSupported(p) =>
                   /\ DOMAIN PredicateSlots(p) = MarkersIn(p)
                   /\ \A i \in MarkersIn(p) : PredicateSlots(p)[i] \in ColumnsIn(p) \cap Columns
  BY <1>1, <1>4
<1>5. CASE p.kind = "Compare"
  <2>1. p.b \in Operand /\ OperandsOf(p) = {p.a, p.b} /\ OperandsOf(p) = {p.b, p.a}
    BY <1>5, PartsOfPredicate DEF OperandsOf
  <2>2. PredicateSlots(p) = IF IsColumn(p.a) THEN value_part(p.b, p.a.column)
                            ELSE IF IsColumn(p.b) THEN value_part(p.a, p.b.column) ELSE NoSlots
    BY <1>5 DEF PredicateSlots
  <2>3. PredicateSupported(p) <=> \/ p.a.kind = "Literal" /\ p.b.kind = "Literal"
                                  \/ resolves(p.a) /\ ~IsColumn(p.b)
                                  \/ resolves(p.b) /\ ~IsColumn(p.a)
    BY <1>5 DEF PredicateSupported
  <2>4. CASE IsColumn(p.a)
    <3>1. PredicateSupported(p) => resolves(p.a) /\ ~IsColumn(p.b)
      BY <2>3, <2>4 DEF IsColumn
    <3> QED BY <1>2, <1>3, <2>1, <2>2, <2>4, <3>1
  <2>5. CASE ~IsColumn(p.a) /\ IsColumn(p.b)
    <3>1. PredicateSupported(p) => resolves(p.b) /\ ~IsColumn(p.a)
      BY <2>3, <2>5 DEF IsColumn, resolves
    <3> QED BY <1>2, <1>3, <2>1, <2>2, <2>5, <3>1
  <2>6. CASE ~IsColumn(p.a) /\ ~IsColumn(p.b)
    <3>1. PredicateSupported(p) => p.a.kind = "Literal" /\ p.b.kind = "Literal"
      BY <2>3, <2>6 DEF resolves
    <3>2. PredicateSupported(p) => MarkersIn(p) = {}
      BY <2>1, <3>1 DEF MarkersIn
    <3> QED BY <1>4, <2>2, <2>6, <3>2
  <2> QED BY <2>4, <2>5, <2>6
<1>6. CASE p.kind = "IsNull"
  <2>1. PredicateSlots(p) = NoSlots /\ OperandsOf(p) = {p.a}
    BY <1>6 DEF PredicateSlots, OperandsOf
  <2>2. PredicateSupported(p) => p.a.kind # "Param"
    BY <1>6 DEF PredicateSupported, resolves, IsColumn
  <2> QED BY <1>4, <2>1, <2>2 DEF MarkersIn
<1>7. CASE p.kind = "Like"
  <2>1. p.b \in Operand /\ OperandsOf(p) = {p.a, p.b}
    BY <1>7, PartsOfPredicate DEF OperandsOf
  <2>2. /\ PredicateSlots(p) = IF IsColumn(p.a) THEN value_part(p.b, p.a.column) ELSE NoSlots
        /\ PredicateSupported(p) <=> resolves(p.a) /\ ~IsColumn(p.b)
    BY <1>7 DEF PredicateSlots, PredicateSupported
  <2> QED BY <1>1, <1>2, <1>3, <2>1, <2>2 DEF resolves
<1>8. CASE p.kind = "In"
  <2>1. p.list \in Seq(Operand) /\ OperandsOf(p) = {p.a} \cup {p.list[i] : i \in DOMAIN p.list}
    BY <1>8, PartsOfPredicate DEF OperandsOf
  <2>2. PredicateSupported(p) => resolves(p.a)
    BY <1>8 DEF PredicateSupported
  <2>3. CASE ~IsColumn(p.a)
    <3>1. PredicateSlots(p) = NoSlots
      BY <1>8, <2>3 DEF PredicateSlots
    <3> QED BY <1>1, <2>2, <2>3, <3>1 DEF resolves
  <2>4. CASE IsColumn(p.a)
    <3> DEFINE markers == {k \in DOMAIN p.list : p.list[k].kind = "Param"}
               indices == {p.list[k].index : k \in markers}
    <3>1. PredicateSlots(p) = [i \in indices |-> p.a.column]
      BY <1>8, <2>4 DEF PredicateSlots
    <3>2. p.a.column \in STRING /\ p.a.kind = "Column"
      BY <1>2, <2>4, KindsOfOperands DEF IsColumn
    <3>3. indices = MarkersIn(p)
      BY <2>1, <3>2 DEF MarkersIn
    <3>4. indices \in SUBSET Nat
      <4>1. \A k \in DOMAIN p.list : p.list[k] \in Operand
        BY <2>1
      <4>2. \A k \in markers : p.list[k].index \in Nat
        BY <4>1, KindsOfOperands
      <4> HIDE DEF markers
      <4> QED BY <4>2
    <3> HIDE DEF indices
    <3>5. PredicateSlots(p) \in [indices -> STRING]
      BY <3>1, <3>2
    <3>6. p.a.column \in ColumnsIn(p) /\ (PredicateSupported(p) => p.a.column \in Columns)
      BY <2>1, <2>2, <2>4 DEF ColumnsIn, resolves
    <3> QED BY <3>1, <3>3, <3>4, <3>5, <3>6 DEF Slots
  <2> QED BY <2>3, <2>4
<1> QED BY <1>5, <1>6, <1>7, <1>8, KindsOfPredicates

AreSlots(f) ==
    f = [x \in Expr |-> CASE x.kind \in {"And", "Or"} -> Overwritten(f[x.left], f[x.right])
                          [] x.kind = "Not" -> f[x.left]
                          [] OTHER -> PredicateSlots(x)]

\* SlotsOf is the function that its definition says.
LEMMA SlotsExist == \E f : AreSlots(f)
<1> DEFINE leaf == [x \in Expr |-> IF x \in Predicate THEN PredicateSlots(x) ELSE NoSlots]
           neg == [c \in Expr \X Slots |-> c[2]]
           join == [c \in Expr \X Slots \X Slots |-> Overwritten(c[2], c[3])]
<1>1. leaf \in [Expr -> Slots]
  <2>1. NoSlots \in [{} -> STRING] /\ {} \in SUBSET Nat
    BY DEF NoSlots
  <2>2. NoSlots \in Slots
    BY <2>1 DEF Slots
  <2> QED BY <2>2, PredicateSlotsAre
<1>2. neg \in [Expr \X Slots -> Slots]
  OBVIOUS
<1>3. join \in [Expr \X Slots \X Slots -> Slots]
  BY SlotsOverwritten
<1> HIDE DEF leaf, neg, join
<1>4. PICK f \in [Expr -> Slots] : IsFold(f, Expr, leaf, neg, join)
  BY <1>1, <1>2, <1>3, FoldExists
<1>5. ASSUME NEW x \in Expr
      PROVE  f[x] = CASE x.kind \in {"And", "Or"} -> Overwritten(f[x.left], f[x.right])
                      [] x.kind = "Not" -> f[x.left]
                      [] OTHER -> PredicateSlots(x)
  <2>1. f[x] = IF x.kind \in Junctions THEN join[<<x, f[x.left], f[x.right]>>]
               ELSE IF x.kind = "Not" THEN neg[<<x, f[x.left]>>] ELSE leaf[x]
    BY <1>4 DEF IsFold
  <2>2. CASE x \in Predicate /\ x.kind \notin Junctions \cup {"Not"}
    BY <2>1, <2>2 DEF leaf, Junctions
  <2>3. CASE x.kind \in Junctions /\ x.left \in Expr /\ x.right \in Expr
    <3>1. <<x, f[x.left], f[x.right]>> \in Expr \X Slots \X Slots
      BY <2>3
    <3> QED BY <2>1, <2>3, <3>1 DEF join, Junctions
  <2>4. CASE x.kind = "Not" /\ x.left \in Expr
    <3>1. <<x, f[x.left]>> \in Expr \X Slots
      BY <2>4
    <3> QED BY <2>1, <2>4, <3>1 DEF neg, Junctions
  <2> QED BY <2>2, <2>3, <2>4, KindsOfExpr
<1>6. AreSlots(f)
  <2>1. f = [x \in Expr |-> f[x]]
    OBVIOUS
  <2> QED BY <1>5, <2>1, Zenon DEF AreSlots
<1> QED BY <1>6

\* The slots of a condition are those of its parts.
LEMMA SlotsAre ==
    ASSUME NEW x \in Expr
    PROVE  /\ x \in Predicate => SlotsOf(x) = PredicateSlots(x)
           /\ x.kind \in Junctions => SlotsOf(x) = Overwritten(SlotsOf(x.left), SlotsOf(x.right))
           /\ x.kind = "Not" => SlotsOf(x) = SlotsOf(x.left)
<1> DEFINE F == CHOOSE f : AreSlots(f)
<1>1. AreSlots(F)
  BY SlotsExist
<1>2. \A e : SlotsOf(e) = F[e]
  BY Zenon DEF SlotsOf, AreSlots
<1> HIDE DEF F
<1>3. F[x] = CASE x.kind \in {"And", "Or"} -> Overwritten(F[x.left], F[x.right])
               [] x.kind = "Not" -> F[x.left]
               [] OTHER -> PredicateSlots(x)
  BY <1>1 DEF AreSlots
<1> QED BY <1>2, <1>3, KindsOfPredicates DEF Junctions

\* The columns a marker is compared with are those of the parts of a condition.
LEMMA ComparedAre ==
    ASSUME NEW x \in Expr, NEW i
    PROVE  /\ x \in Predicate /\ i \in MarkersIn(x) => ComparedWith(x, i) = ColumnsIn(x)
           /\ x.kind \in Junctions => ComparedWith(x, i) = ComparedWith(x.left, i) \cup ComparedWith(x.right, i)
           /\ x.kind = "Not" => ComparedWith(x, i) = ComparedWith(x.left, i)
<1>1. /\ x \in Predicate => PredicatesOf(x) = {x}
      /\ x.kind \in Junctions => PredicatesOf(x) = PredicatesOf(x.left) \cup PredicatesOf(x.right)
      /\ x.kind = "Not" => PredicatesOf(x) = PredicatesOf(x.left)
  BY PredicatesAre
<1>2. x \in Predicate /\ i \in MarkersIn(x) => ComparedWith(x, i) = ColumnsIn(x)
  BY <1>1 DEF ComparedWith
<1>3. x.kind \in Junctions => ComparedWith(x, i) = ComparedWith(x.left, i) \cup ComparedWith(x.right, i)
  BY <1>1 DEF ComparedWith
<1>4. x.kind = "Not" => ComparedWith(x, i) = ComparedWith(x.left, i)
  BY <1>1, Zenon DEF ComparedWith
<1> QED BY <1>2, <1>3, <1>4

\* The markers of a condition have a slot each, and its column is one of the object that the
\* marker is compared with.
HasSlots(e) ==
    /\ DOMAIN SlotsOf(e) = MarkersOf(e)
    /\ \A i \in MarkersOf(e) : SlotsOf(e)[i] \in ComparedWith(e, i) \cap Columns

\* In a condition of any depth that is not refused every marker gets a slot, also one in a side
\* that a constant decides, so that SQLExecute knows the type of every value it sends
\* (value_part, sql_plan.cpp:110-120).
THEOREM EveryMarkerGetsItsSlot ==
    ASSUME NEW e \in Expr, render[e] # Rejected
    PROVE  HasSlots(e)
<1> DEFINE S == {x \in Expr : Supported(x) => HasSlots(x)}
<1>1. \A p \in Predicate : p \in S
  <2>1. TAKE p \in Predicate
  <2>2. p \in Expr
    BY PredicatesAreExpr
  <2>3. SUFFICES ASSUME Supported(p) PROVE HasSlots(p)
    BY <2>2
  <2>4. PredicateSupported(p) /\ MarkersOf(p) = MarkersIn(p) /\ SlotsOf(p) = PredicateSlots(p)
    BY <2>2, <2>3, PartsOf, MarkersAre, SlotsAre
  <2>5. \A i \in MarkersIn(p) : ComparedWith(p, i) = ColumnsIn(p)
    BY <2>2, ComparedAre
  <2> QED BY <2>4, <2>5, PredicateSlotsAre DEF HasSlots
<1>2. ASSUME NEW x \in Expr, x.kind \in Junctions /\ x.left \in S \cap Expr /\ x.right \in S \cap Expr
      PROVE  x \in S
  <2>1. SUFFICES ASSUME Supported(x) PROVE HasSlots(x)
    OBVIOUS
  <2>2. HasSlots(x.left) /\ HasSlots(x.right)
    BY <1>2, <2>1, PartsOf
  <2>3. /\ SlotsOf(x) = Overwritten(SlotsOf(x.left), SlotsOf(x.right))
        /\ MarkersOf(x) = MarkersOf(x.left) \cup MarkersOf(x.right)
    BY <1>2, SlotsAre, MarkersAre
  <2>4. ASSUME NEW i PROVE ComparedWith(x, i) = ComparedWith(x.left, i) \cup ComparedWith(x.right, i)
    <3>1. x.kind \in Junctions
      BY <1>2
    <3> QED BY <3>1, ComparedAre, Zenon
  <2>5. DOMAIN SlotsOf(x) = MarkersOf(x)
    <3>1. DOMAIN Overwritten(SlotsOf(x.left), SlotsOf(x.right)) = DOMAIN SlotsOf(x.left) \cup DOMAIN SlotsOf(x.right)
      BY Zenon DEF Overwritten
    <3> QED BY <2>2, <2>3, <3>1 DEF HasSlots
  <2>6. ASSUME NEW i \in MarkersOf(x) PROVE SlotsOf(x)[i] \in ComparedWith(x, i) \cap Columns
    <3> DEFINE s == SlotsOf(x.left)
               t == SlotsOf(x.right)
    <3>1. i \in DOMAIN Overwritten(s, t)
      BY <2>3, <2>5, <2>6
    <3>2. \/ i \in DOMAIN s /\ Overwritten(s, t)[i] = s[i]
          \/ i \in DOMAIN t /\ Overwritten(s, t)[i] = t[i]
      <4> HIDE DEF s, t
      <4> QED BY <3>1 DEF Overwritten
    <3>3. CASE i \in DOMAIN s /\ SlotsOf(x)[i] = s[i]
      BY <2>2, <2>4, <3>3 DEF HasSlots
    <3>4. CASE i \in DOMAIN t /\ SlotsOf(x)[i] = t[i]
      BY <2>2, <2>4, <3>4 DEF HasSlots
    <3> QED BY <2>3, <3>2, <3>3, <3>4
  <2> QED BY <2>5, <2>6 DEF HasSlots
<1>3. ASSUME NEW x \in Expr, x.kind = "Not" /\ x.left \in S \cap Expr PROVE x \in S
  <2>1. /\ SlotsOf(x) = SlotsOf(x.left) /\ MarkersOf(x) = MarkersOf(x.left)
        /\ Supported(x) => Supported(x.left)
        /\ \A i : ComparedWith(x, i) = ComparedWith(x.left, i)
    BY <1>3, SlotsAre, MarkersAre, PartsOf, ComparedAre
  <2> QED BY <1>3, <2>1 DEF HasSlots
<1> HIDE DEF S
<1>4. Expr \subseteq S
  BY <1>1, <1>2, <1>3, ExprInduction
<1>5. Supported(e)
  BY RefusedIfUnsupported
<1> QED BY <1>4, <1>5 DEF S

------------------------------------------------------------------------------
(* The parser: tokens, and what is read at a place *)

------------------------------------------------------------------------------
(* The loops and the nested calls of the parser *)

\* The rounds of a list.
IsListRounds(f, s, p, n, m) == f = [k \in 0 .. m |-> IF k = 0 THEN ListFirst(s, p, n) ELSE ListStep(s, f[k - 1])]

\* The rounds of parse_list exist, up to any number of them.
LEMMA ListRoundsExist ==
    ASSUME NEW s, NEW p, NEW n, NEW top \in Nat
    PROVE  \E f : IsListRounds(f, s, p, n, top)
<1> DEFINE T == {m \in 0 .. top : \E f : IsListRounds(f, s, p, n, m)}
<1>1. 0 \in T
  <2> DEFINE f == [k \in 0 .. 0 |-> ListFirst(s, p, n)]
  <2>1. f = [k \in 0 .. 0 |-> IF k = 0 THEN ListFirst(s, p, n) ELSE ListStep(s, f[k - 1])]
    OBVIOUS
  <2>2. IsListRounds(f, s, p, n, 0)
    BY <2>1, Zenon DEF IsListRounds
  <2> QED BY <2>2
<1>2. ASSUME NEW m \in 1 .. top, m - 1 \in T PROVE m \in T
  <2>1. PICK f : IsListRounds(f, s, p, n, m - 1)
    BY <1>2
  <2> DEFINE g == [k \in 0 .. m |-> IF k = 0 THEN ListFirst(s, p, n) ELSE ListStep(s, f[k - 1])]
  <2>2. \A k \in 0 .. m - 1 : k \in 0 .. m /\ g[k] = f[k]
    BY <2>1 DEF IsListRounds
  <2>3. \A k \in 0 .. m : k # 0 => g[k - 1] = f[k - 1]
    <3>1. \A k \in 0 .. m : k # 0 => k - 1 \in 0 .. m - 1
      OBVIOUS
    <3> HIDE DEF g
    <3> QED BY <2>2, <3>1
  <2>4. \A k \in 0 .. m : (IF k = 0 THEN ListFirst(s, p, n) ELSE ListStep(s, f[k - 1])) = (IF k = 0 THEN ListFirst(s, p, n) ELSE ListStep(s, g[k - 1]))
    <3> HIDE DEF g
    <3> QED BY <2>3, Zenon
  <2>5. g = [k \in 0 .. m |-> IF k = 0 THEN ListFirst(s, p, n) ELSE ListStep(s, g[k - 1])]
    BY <2>4, Zenon
  <2> HIDE DEF g
  <2>6. IsListRounds(g, s, p, n, m)
    BY <2>5, Zenon DEF IsListRounds
  <2> QED BY <2>6
<1> HIDE DEF T
<1>3. top \in T
  BY <1>1, <1>2, InductionUpTo
<1> QED BY <1>3 DEF T

\* They are what their definition says.
LEMMA ListRoundsAre ==
    ASSUME NEW s, NEW p, NEW n, Len(s) \in Nat
    PROVE  /\ ListRounds(s, p, n)[0] = ListFirst(s, p, n)
           /\ \A k \in 1 .. Len(s) : ListRounds(s, p, n)[k] = ListStep(s, ListRounds(s, p, n)[k - 1])
<1>1. \E f : IsListRounds(f, s, p, n, Len(s))
  BY ListRoundsExist
<1>2. IsListRounds(ListRounds(s, p, n), s, p, n, Len(s))
  BY <1>1, Zenon DEF ListRounds, IsListRounds
<1> DEFINE f == ListRounds(s, p, n)
<1>3. f = [k \in 0 .. Len(s) |-> IF k = 0 THEN ListFirst(s, p, n) ELSE ListStep(s, f[k - 1])]
  BY <1>2, Zenon DEF IsListRounds
<1> HIDE DEF f
<1>4. f[0] = ListFirst(s, p, n)
  BY <1>3
<1>5. \A k \in 1 .. Len(s) : f[k] = ListStep(s, f[k - 1])
  BY <1>3
<1> QED BY <1>4, <1>5 DEF f

\* The rounds of AND.
IsAndRounds(f, s, below, p, n, m) == f = [k \in 0 .. m |-> IF k = 0 THEN parse_not(s, below, p, n) ELSE AndStep(s, below, f[k - 1])]

\* So do those of parse_and over one level of nesting,
LEMMA AndRoundsExist ==
    ASSUME NEW s, NEW below, NEW p, NEW n, NEW top \in Nat
    PROVE  \E f : IsAndRounds(f, s, below, p, n, top)
<1> DEFINE T == {m \in 0 .. top : \E f : IsAndRounds(f, s, below, p, n, m)}
<1>1. 0 \in T
  <2> DEFINE f == [k \in 0 .. 0 |-> parse_not(s, below, p, n)]
  <2>1. f = [k \in 0 .. 0 |-> IF k = 0 THEN parse_not(s, below, p, n) ELSE AndStep(s, below, f[k - 1])]
    OBVIOUS
  <2>2. IsAndRounds(f, s, below, p, n, 0)
    BY <2>1, Zenon DEF IsAndRounds
  <2> QED BY <2>2
<1>2. ASSUME NEW m \in 1 .. top, m - 1 \in T PROVE m \in T
  <2>1. PICK f : IsAndRounds(f, s, below, p, n, m - 1)
    BY <1>2
  <2> DEFINE g == [k \in 0 .. m |-> IF k = 0 THEN parse_not(s, below, p, n) ELSE AndStep(s, below, f[k - 1])]
  <2>2. \A k \in 0 .. m - 1 : k \in 0 .. m /\ g[k] = f[k]
    BY <2>1 DEF IsAndRounds
  <2>3. \A k \in 0 .. m : k # 0 => g[k - 1] = f[k - 1]
    <3>1. \A k \in 0 .. m : k # 0 => k - 1 \in 0 .. m - 1
      OBVIOUS
    <3> HIDE DEF g
    <3> QED BY <2>2, <3>1
  <2>4. \A k \in 0 .. m : (IF k = 0 THEN parse_not(s, below, p, n) ELSE AndStep(s, below, f[k - 1])) = (IF k = 0 THEN parse_not(s, below, p, n) ELSE AndStep(s, below, g[k - 1]))
    <3> HIDE DEF g
    <3> QED BY <2>3, Zenon
  <2>5. g = [k \in 0 .. m |-> IF k = 0 THEN parse_not(s, below, p, n) ELSE AndStep(s, below, g[k - 1])]
    BY <2>4, Zenon
  <2> HIDE DEF g
  <2>6. IsAndRounds(g, s, below, p, n, m)
    BY <2>5, Zenon DEF IsAndRounds
  <2> QED BY <2>6
<1> HIDE DEF T
<1>3. top \in T
  BY <1>1, <1>2, InductionUpTo
<1> QED BY <1>3 DEF T

\* They are what their definition says.
LEMMA AndRoundsAre ==
    ASSUME NEW s, NEW below, NEW p, NEW n, Len(s) \in Nat
    PROVE  /\ AndRounds(s, below, p, n)[0] = parse_not(s, below, p, n)
           /\ \A k \in 1 .. Len(s) : AndRounds(s, below, p, n)[k] = AndStep(s, below, AndRounds(s, below, p, n)[k - 1])
<1>1. \E f : IsAndRounds(f, s, below, p, n, Len(s))
  BY AndRoundsExist
<1>2. IsAndRounds(AndRounds(s, below, p, n), s, below, p, n, Len(s))
  BY <1>1, Zenon DEF AndRounds, IsAndRounds
<1> DEFINE f == AndRounds(s, below, p, n)
<1>3. f = [k \in 0 .. Len(s) |-> IF k = 0 THEN parse_not(s, below, p, n) ELSE AndStep(s, below, f[k - 1])]
  BY <1>2, Zenon DEF IsAndRounds
<1> HIDE DEF f
<1>4. f[0] = parse_not(s, below, p, n)
  BY <1>3
<1>5. \A k \in 1 .. Len(s) : f[k] = AndStep(s, below, f[k - 1])
  BY <1>3
<1> QED BY <1>4, <1>5 DEF f

\* The rounds of OR.
IsOrRounds(f, s, below, p, n, m) == f = [k \in 0 .. m |-> IF k = 0 THEN parse_and(s, below, p, n) ELSE OrStep(s, below, f[k - 1])]

\* those of parse_or,
LEMMA OrRoundsExist ==
    ASSUME NEW s, NEW below, NEW p, NEW n, NEW top \in Nat
    PROVE  \E f : IsOrRounds(f, s, below, p, n, top)
<1> DEFINE T == {m \in 0 .. top : \E f : IsOrRounds(f, s, below, p, n, m)}
<1>1. 0 \in T
  <2> DEFINE f == [k \in 0 .. 0 |-> parse_and(s, below, p, n)]
  <2>1. f = [k \in 0 .. 0 |-> IF k = 0 THEN parse_and(s, below, p, n) ELSE OrStep(s, below, f[k - 1])]
    OBVIOUS
  <2>2. IsOrRounds(f, s, below, p, n, 0)
    BY <2>1, Zenon DEF IsOrRounds
  <2> QED BY <2>2
<1>2. ASSUME NEW m \in 1 .. top, m - 1 \in T PROVE m \in T
  <2>1. PICK f : IsOrRounds(f, s, below, p, n, m - 1)
    BY <1>2
  <2> DEFINE g == [k \in 0 .. m |-> IF k = 0 THEN parse_and(s, below, p, n) ELSE OrStep(s, below, f[k - 1])]
  <2>2. \A k \in 0 .. m - 1 : k \in 0 .. m /\ g[k] = f[k]
    BY <2>1 DEF IsOrRounds
  <2>3. \A k \in 0 .. m : k # 0 => g[k - 1] = f[k - 1]
    <3>1. \A k \in 0 .. m : k # 0 => k - 1 \in 0 .. m - 1
      OBVIOUS
    <3> HIDE DEF g
    <3> QED BY <2>2, <3>1
  <2>4. \A k \in 0 .. m : (IF k = 0 THEN parse_and(s, below, p, n) ELSE OrStep(s, below, f[k - 1])) = (IF k = 0 THEN parse_and(s, below, p, n) ELSE OrStep(s, below, g[k - 1]))
    <3> HIDE DEF g
    <3> QED BY <2>3, Zenon
  <2>5. g = [k \in 0 .. m |-> IF k = 0 THEN parse_and(s, below, p, n) ELSE OrStep(s, below, g[k - 1])]
    BY <2>4, Zenon
  <2> HIDE DEF g
  <2>6. IsOrRounds(g, s, below, p, n, m)
    BY <2>5, Zenon DEF IsOrRounds
  <2> QED BY <2>6
<1> HIDE DEF T
<1>3. top \in T
  BY <1>1, <1>2, InductionUpTo
<1> QED BY <1>3 DEF T

\* They are what their definition says.
LEMMA OrRoundsAre ==
    ASSUME NEW s, NEW below, NEW p, NEW n, Len(s) \in Nat
    PROVE  /\ OrRounds(s, below, p, n)[0] = parse_and(s, below, p, n)
           /\ \A k \in 1 .. Len(s) : OrRounds(s, below, p, n)[k] = OrStep(s, below, OrRounds(s, below, p, n)[k - 1])
<1>1. \E f : IsOrRounds(f, s, below, p, n, Len(s))
  BY OrRoundsExist
<1>2. IsOrRounds(OrRounds(s, below, p, n), s, below, p, n, Len(s))
  BY <1>1, Zenon DEF OrRounds, IsOrRounds
<1> DEFINE f == OrRounds(s, below, p, n)
<1>3. f = [k \in 0 .. Len(s) |-> IF k = 0 THEN parse_and(s, below, p, n) ELSE OrStep(s, below, f[k - 1])]
  BY <1>2, Zenon DEF IsOrRounds
<1> HIDE DEF f
<1>4. f[0] = parse_and(s, below, p, n)
  BY <1>3
<1>5. \A k \in 1 .. Len(s) : f[k] = OrStep(s, below, f[k - 1])
  BY <1>3
<1> QED BY <1>4, <1>5 DEF f

\* The levels of nested calls.
IsNested(f, s, m) == f = [k \in 0 .. m |-> IF k = 0 THEN [c \in Calls |-> Error] ELSE Calling(s, f[k - 1])]

\* and the levels of parentheses.
LEMMA NestedExist ==
    ASSUME NEW s, NEW top \in Nat
    PROVE  \E f : IsNested(f, s, top)
<1> DEFINE T == {m \in 0 .. top : \E f : IsNested(f, s, m)}
<1>1. 0 \in T
  <2> DEFINE f == [k \in 0 .. 0 |-> [c \in Calls |-> Error]]
  <2>1. f = [k \in 0 .. 0 |-> IF k = 0 THEN [c \in Calls |-> Error] ELSE Calling(s, f[k - 1])]
    OBVIOUS
  <2>2. IsNested(f, s, 0)
    BY <2>1, Zenon DEF IsNested
  <2> QED BY <2>2
<1>2. ASSUME NEW m \in 1 .. top, m - 1 \in T PROVE m \in T
  <2>1. PICK f : IsNested(f, s, m - 1)
    BY <1>2
  <2> DEFINE g == [k \in 0 .. m |-> IF k = 0 THEN [c \in Calls |-> Error] ELSE Calling(s, f[k - 1])]
  <2>2. \A k \in 0 .. m - 1 : k \in 0 .. m /\ g[k] = f[k]
    BY <2>1 DEF IsNested
  <2>3. \A k \in 0 .. m : k # 0 => g[k - 1] = f[k - 1]
    <3>1. \A k \in 0 .. m : k # 0 => k - 1 \in 0 .. m - 1
      OBVIOUS
    <3> HIDE DEF g
    <3> QED BY <2>2, <3>1
  <2>4. \A k \in 0 .. m : (IF k = 0 THEN [c \in Calls |-> Error] ELSE Calling(s, f[k - 1])) = (IF k = 0 THEN [c \in Calls |-> Error] ELSE Calling(s, g[k - 1]))
    <3> HIDE DEF g
    <3> QED BY <2>3, Zenon
  <2>5. g = [k \in 0 .. m |-> IF k = 0 THEN [c \in Calls |-> Error] ELSE Calling(s, g[k - 1])]
    BY <2>4, Zenon
  <2> HIDE DEF g
  <2>6. IsNested(g, s, m)
    BY <2>5, Zenon DEF IsNested
  <2> QED BY <2>6
<1> HIDE DEF T
<1>3. top \in T
  BY <1>1, <1>2, InductionUpTo
<1> QED BY <1>3 DEF T

\* They are what their definition says.
LEMMA NestedAre ==
    ASSUME NEW s, Len(s) \in Nat
    PROVE  /\ Nested(s)[0] = [c \in Calls |-> Error]
           /\ \A k \in 1 .. Len(s) : Nested(s)[k] = Calling(s, Nested(s)[k - 1])
<1>1. \E f : IsNested(f, s, Len(s))
  BY NestedExist
<1>2. IsNested(Nested(s), s, Len(s))
  BY <1>1, Zenon DEF Nested, IsNested
<1> DEFINE f == Nested(s)
<1>3. f = [k \in 0 .. Len(s) |-> IF k = 0 THEN [c \in Calls |-> Error] ELSE Calling(s, f[k - 1])]
  BY <1>2, Zenon DEF IsNested
<1> HIDE DEF f
<1>4. f[0] = [c \in Calls |-> Error]
  BY <1>3
<1>5. \A k \in 1 .. Len(s) : f[k] = Calling(s, f[k - 1])
  BY <1>3
<1> QED BY <1>4, <1>5 DEF f

------------------------------------------------------------------------------
(* The grammar *)

GrammarOf(s, reads, c) ==
    CASE c[1] = "list" -> Lists(s, reads, c[2], c[3])
      [] c[1] = "not" -> Negations(s, reads, c[2], c[3])
      [] c[1] = "and" -> Conjunctions(s, reads, c[2], c[3])
      [] c[1] = "or" -> Disjunctions(s, reads, c[2], c[3])

AreReadings(f, s) == f = [c \in Spans(s) |-> GrammarOf(s, f, c)]

\* How much there is to read in a span.
Width(i, j) == IF i <= j THEN j + 1 - i ELSE 0
Rank(kind) == CASE kind = "list" -> 0 [] kind = "not" -> 1 [] kind = "and" -> 2 [] kind = "or" -> 3
Measure(c) == 4 * Width(c[2], c[3]) + Rank(c[1])

\* Readings of a span need those of spans with less to read only.
AgreeBelow(f, g, s, m) == \A b \in Spans(s) : Measure(b) < m => f[b] = g[b]

\* The measure of a span: its width first, then the place of its kind in the grammar.
LEMMA MeasuresAre ==
    ASSUME NEW s, Len(s) \in Nat, NEW kind \in {"list", "not", "and", "or"},
           NEW i \in 1 .. Len(s) + 1, NEW j \in 0 .. Len(s)
    PROVE  /\ <<kind, i, j>> \in Spans(s)
           /\ Measure(<<kind, i, j>>) = 4 * Width(i, j) + Rank(kind)
           /\ Width(i, j) \in Nat /\ Rank(kind) \in 0 .. 3
BY DEF Spans, Measure, Width, Rank

\* A span with less to read.
LessToRead(s, b, c) == b \in Spans(s) /\ Measure(b) < Measure(c)

\* The two sides of a token inside a span are narrower than the span.
LEMMA WidthsBelow ==
    ASSUME NEW n \in Nat, NEW i \in 1 .. n + 1, NEW j \in 0 .. n, NEW k \in i .. j
    PROVE  /\ k - 1 \in 0 .. n /\ Width(i, k - 1) < Width(i, j)
           /\ k + 1 \in 1 .. n + 1 /\ Width(k + 1, j) < Width(i, j)
BY DEF Width

\* A narrower span has the smaller measure, whatever the kinds,
LEMMA NarrowerIsLess ==
    ASSUME NEW s, Len(s) \in Nat, NEW i \in 1 .. Len(s) + 1, NEW j \in 0 .. Len(s),
           NEW a \in 1 .. Len(s) + 1, NEW b \in 0 .. Len(s), Width(a, b) < Width(i, j)
    PROVE  \A k1, k2 \in {"list", "not", "and", "or"} : LessToRead(s, <<k1, a, b>>, <<k2, i, j>>)
<1> TAKE k1, k2 \in {"list", "not", "and", "or"}
<1>1. Measure(<<k1, a, b>>) = 4 * Width(a, b) + Rank(k1) /\ Width(a, b) \in Nat /\ Rank(k1) \in 0 .. 3 /\ <<k1, a, b>> \in Spans(s)
  BY MeasuresAre
<1>2. Measure(<<k2, i, j>>) = 4 * Width(i, j) + Rank(k2) /\ Width(i, j) \in Nat /\ Rank(k2) \in 0 .. 3
  BY MeasuresAre
<1> QED BY <1>1, <1>2 DEF LessToRead

\* and of spans of one width "not" comes before "and" before "or".
LEMMA SameIsLess ==
    ASSUME NEW s, Len(s) \in Nat, NEW i \in 1 .. Len(s) + 1, NEW j \in 0 .. Len(s)
    PROVE  LessToRead(s, <<"and", i, j>>, <<"or", i, j>>) /\ LessToRead(s, <<"not", i, j>>, <<"and", i, j>>)
<1>1. \A k \in {"not", "and", "or"} :
        Measure(<<k, i, j>>) = 4 * Width(i, j) + Rank(k) /\ Width(i, j) \in Nat /\ <<k, i, j>> \in Spans(s)
  BY MeasuresAre
<1>2. Rank("not") = 1 /\ Rank("and") = 2 /\ Rank("or") = 3
  BY DEF Rank
<1> QED BY <1>1, <1>2 DEF LessToRead

\* The readings of a list are those of narrower spans,
LEMMA ListsAgree ==
    ASSUME NEW s, Len(s) \in Nat, NEW i \in 1 .. Len(s) + 1, NEW j \in 0 .. Len(s),
           NEW f, NEW g, AgreeBelow(f, g, s, Measure(<<"list", i, j>>))
    PROVE  Lists(s, f, i, j) = Lists(s, g, i, j)
<1> DEFINE P == Places(s, ",", i, j)
           A(h, k) == Longer(h[<<"list", i, k - 1>>], Operands(s, k + 1, j))
<1>1. ASSUME NEW k \in i .. j PROVE f[<<"list", i, k - 1>>] = g[<<"list", i, k - 1>>]
  <2>1. k - 1 \in 0 .. Len(s) /\ Width(i, k - 1) < Width(i, j)
    BY <1>1, WidthsBelow
  <2>2. LessToRead(s, <<"list", i, k - 1>>, <<"list", i, j>>)
    BY <2>1, NarrowerIsLess
  <2> QED BY <2>2 DEF AgreeBelow, LessToRead
<1>3. P \subseteq i .. j
  BY DEF Places
<1>4. \A k \in P : A(f, k) = A(g, k)
  <2>1. \A k \in P : f[<<"list", i, k - 1>>] = g[<<"list", i, k - 1>>]
    BY <1>1, <1>3, Zenon
  <2> HIDE DEF P
  <2> QED BY <2>1
<1>5. {A(f, k) : k \in P} = {A(g, k) : k \in P}
  <2> HIDE DEF A, P
  <2> QED BY <1>4
<1>6. \A h : Lists(s, h, i, j) = {<<o>> : o \in Operands(s, i, j)} \cup UNION {A(h, k) : k \in P}
  BY DEF Lists
<1> HIDE DEF A, P
<1> QED BY <1>5, <1>6

\* so are those of conjunctions,
LEMMA ConjunctionsAgree ==
    ASSUME NEW s, Len(s) \in Nat, NEW i \in 1 .. Len(s) + 1, NEW j \in 0 .. Len(s),
           NEW f, NEW g, AgreeBelow(f, g, s, Measure(<<"and", i, j>>))
    PROVE  Conjunctions(s, f, i, j) = Conjunctions(s, g, i, j)
<1> DEFINE P == Places(s, "AND", i, j)
           A(h, k) == {And(l, r) : l \in h[<<"and", i, k - 1>>], r \in h[<<"not", k + 1, j>>]}
<1>1. ASSUME NEW k \in i .. j
      PROVE  f[<<"and", i, k - 1>>] = g[<<"and", i, k - 1>>] /\ f[<<"not", k + 1, j>>] = g[<<"not", k + 1, j>>]
  <2>1. /\ k - 1 \in 0 .. Len(s) /\ Width(i, k - 1) < Width(i, j)
        /\ k + 1 \in 1 .. Len(s) + 1 /\ Width(k + 1, j) < Width(i, j)
    BY <1>1, WidthsBelow
  <2>2. LessToRead(s, <<"and", i, k - 1>>, <<"and", i, j>>) /\ LessToRead(s, <<"not", k + 1, j>>, <<"and", i, j>>)
    BY <2>1, NarrowerIsLess
  <2> QED BY <2>2 DEF AgreeBelow, LessToRead
<1>2. f[<<"not", i, j>>] = g[<<"not", i, j>>]
  BY SameIsLess DEF AgreeBelow, LessToRead
<1>3. P \subseteq i .. j
  BY DEF Places
<1>4. \A k \in P : A(f, k) = A(g, k)
  BY <1>1, <1>3
<1>5. {A(f, k) : k \in P} = {A(g, k) : k \in P}
  <2> HIDE DEF A, P
  <2> QED BY <1>4
<1>6. \A h : Conjunctions(s, h, i, j) = h[<<"not", i, j>>] \cup UNION {A(h, k) : k \in P}
  BY DEF Conjunctions
<1> HIDE DEF A, P
<1> QED BY <1>2, <1>5, <1>6

\* of disjunctions,
LEMMA DisjunctionsAgree ==
    ASSUME NEW s, Len(s) \in Nat, NEW i \in 1 .. Len(s) + 1, NEW j \in 0 .. Len(s),
           NEW f, NEW g, AgreeBelow(f, g, s, Measure(<<"or", i, j>>))
    PROVE  Disjunctions(s, f, i, j) = Disjunctions(s, g, i, j)
<1> DEFINE P == Places(s, "OR", i, j)
           A(h, k) == {Or(l, r) : l \in h[<<"or", i, k - 1>>], r \in h[<<"and", k + 1, j>>]}
<1>1. ASSUME NEW k \in i .. j
      PROVE  f[<<"or", i, k - 1>>] = g[<<"or", i, k - 1>>] /\ f[<<"and", k + 1, j>>] = g[<<"and", k + 1, j>>]
  <2>1. /\ k - 1 \in 0 .. Len(s) /\ Width(i, k - 1) < Width(i, j)
        /\ k + 1 \in 1 .. Len(s) + 1 /\ Width(k + 1, j) < Width(i, j)
    BY <1>1, WidthsBelow
  <2>2. LessToRead(s, <<"or", i, k - 1>>, <<"or", i, j>>) /\ LessToRead(s, <<"and", k + 1, j>>, <<"or", i, j>>)
    BY <2>1, NarrowerIsLess
  <2> QED BY <2>2 DEF AgreeBelow, LessToRead
<1>2. f[<<"and", i, j>>] = g[<<"and", i, j>>]
  BY SameIsLess DEF AgreeBelow, LessToRead
<1>3. P \subseteq i .. j
  BY DEF Places
<1>4. \A k \in P : A(f, k) = A(g, k)
  BY <1>1, <1>3
<1>5. {A(f, k) : k \in P} = {A(g, k) : k \in P}
  <2> HIDE DEF A, P
  <2> QED BY <1>4
<1>6. \A h : Disjunctions(s, h, i, j) = h[<<"and", i, j>>] \cup UNION {A(h, k) : k \in P}
  BY DEF Disjunctions
<1> HIDE DEF A, P
<1> QED BY <1>2, <1>5, <1>6

\* of what stands behind an operand,
LEMMA PredicatesAgree ==
    ASSUME NEW s, Len(s) \in Nat, NEW i \in 1 .. Len(s) + 1, NEW j \in 0 .. Len(s), NEW a, NEW k \in i .. j,
           NEW f, NEW g, AgreeBelow(f, g, s, Measure(<<"not", i, j>>))
    PROVE  Predicates(s, f, a, k + 1, j) = Predicates(s, g, a, k + 1, j)
<1>1. ASSUME NEW q \in i .. j, q + 1 <= j PROVE f[<<"list", q + 2, j - 1>>] = g[<<"list", q + 2, j - 1>>]
  <2>1. q + 2 \in 1 .. Len(s) + 1 /\ j - 1 \in 0 .. Len(s) /\ Width(q + 2, j - 1) < Width(i, j)
    BY <1>1 DEF Width
  <2>2. LessToRead(s, <<"list", q + 2, j - 1>>, <<"not", i, j>>)
    BY <2>1, NarrowerIsLess
  <2> QED BY <2>2 DEF AgreeBelow, LessToRead
<1>2. ASSUME NEW q \in {k + 1, k + 2}, NEW n PROVE Negatables(s, f, a, n, q, j) = Negatables(s, g, a, n, q, j)
  <2>1. q < j => f[<<"list", q + 2, j - 1>>] = g[<<"list", q + 2, j - 1>>]
    <3>1. q < j => q \in i .. j /\ q + 1 <= j
      BY <1>2
    <3> QED BY <1>1, <3>1
  <2> QED BY <2>1 DEF Negatables
<1>3. \A n : Negatables(s, f, a, n, k + 1, j) = Negatables(s, g, a, n, k + 1, j)
  BY <1>2
<1>4. \A n : Negatables(s, f, a, n, (k + 1) + 1, j) = Negatables(s, g, a, n, (k + 1) + 1, j)
  <2>1. (k + 1) + 1 = k + 2
    OBVIOUS
  <2> QED BY <1>2, <2>1
<1> QED BY <1>3, <1>4, Zenon DEF Predicates

\* and of negations and parentheses.
LEMMA NegationsAgree ==
    ASSUME NEW s, Len(s) \in Nat, NEW i \in 1 .. Len(s) + 1, NEW j \in 0 .. Len(s),
           NEW f, NEW g, AgreeBelow(f, g, s, Measure(<<"not", i, j>>))
    PROVE  Negations(s, f, i, j) = Negations(s, g, i, j)
<1> DEFINE K == {x \in {i, i + 1} : x <= j /\ s[i] # "EXISTS"}
           A(h, k) == UNION {Predicates(s, h, a, k + 1, j) : a \in Operands(s, i, k)}
<1>1. ASSUME i <= j PROVE f[<<"not", i + 1, j>>] = g[<<"not", i + 1, j>>]
  <2>1. i + 1 \in 1 .. Len(s) + 1 /\ Width(i + 1, j) < Width(i, j)
    BY <1>1 DEF Width
  <2>2. LessToRead(s, <<"not", i + 1, j>>, <<"not", i, j>>)
    BY <2>1, NarrowerIsLess
  <2> QED BY <2>2 DEF AgreeBelow, LessToRead
<1>2. ASSUME i < j PROVE f[<<"or", i + 1, j - 1>>] = g[<<"or", i + 1, j - 1>>]
  <2>1. i + 1 \in 1 .. Len(s) + 1 /\ j - 1 \in 0 .. Len(s) /\ Width(i + 1, j - 1) < Width(i, j)
    BY <1>2 DEF Width
  <2>2. LessToRead(s, <<"or", i + 1, j - 1>>, <<"not", i, j>>)
    BY <2>1, NarrowerIsLess
  <2> QED BY <2>2 DEF AgreeBelow, LessToRead
<1>3. \A k \in K : A(f, k) = A(g, k)
  <2> TAKE k \in K
  <2>1. k \in i .. j
    OBVIOUS
  <2>2. \A a : Predicates(s, f, a, k + 1, j) = Predicates(s, g, a, k + 1, j)
    BY <2>1, PredicatesAgree
  <2>3. {Predicates(s, f, a, k + 1, j) : a \in Operands(s, i, k)} = {Predicates(s, g, a, k + 1, j) : a \in Operands(s, i, k)}
    BY <2>2
  <2> QED BY <2>3
<1>4. {A(f, k) : k \in K} = {A(g, k) : k \in K}
  <2> HIDE DEF A, K
  <2> QED BY <1>3
<1> QED BY <1>1, <1>2, <1>4, Zenon DEF Negations

\* Together: the grammar of a span looks at spans of smaller measure only.
LEMMA ReadingsAgree ==
    ASSUME NEW s, Len(s) \in Nat, NEW c \in Spans(s), NEW f, NEW g, AgreeBelow(f, g, s, Measure(c))
    PROVE  GrammarOf(s, f, c) = GrammarOf(s, g, c)
<1> PICK kind \in {"list", "not", "and", "or"}, i \in 1 .. Len(s) + 1, j \in 0 .. Len(s) : c = <<kind, i, j>>
  BY DEF Spans
<1>1. c[1] = kind /\ c[2] = i /\ c[3] = j
  OBVIOUS
<1>2. kind = "list" => Lists(s, f, i, j) = Lists(s, g, i, j)
  BY ListsAgree
<1>3. kind = "not" => Negations(s, f, i, j) = Negations(s, g, i, j)
  BY NegationsAgree
<1>4. kind = "and" => Conjunctions(s, f, i, j) = Conjunctions(s, g, i, j)
  BY ConjunctionsAgree
<1>5. kind = "or" => Disjunctions(s, f, i, j) = Disjunctions(s, g, i, j)
  BY DisjunctionsAgree
<1> QED BY <1>1, <1>2, <1>3, <1>4, <1>5 DEF GrammarOf

\* There are readings as the grammar says.
LEMMA ReadingsExist ==
    ASSUME NEW s, Len(s) \in Nat
    PROVE  \E f : AreReadings(f, s)
<1> DEFINE top == 4 * (Len(s) + 1) + 3
           upto(f, m) == \A c \in Spans(s) : Measure(c) < m => f[c] = GrammarOf(s, f, c)
           T == {m \in 0 .. top + 1 : \E f : upto(f, m)}
<1>0. \A c \in Spans(s) : Measure(c) \in 0 .. top
  <2> TAKE c \in Spans(s)
  <2> PICK kind \in {"list", "not", "and", "or"}, i \in 1 .. Len(s) + 1, j \in 0 .. Len(s) : c = <<kind, i, j>>
    BY DEF Spans
  <2>1. Width(i, j) <= Len(s) + 1
    BY DEF Width
  <2> QED BY <2>1, MeasuresAre
<1>1. 0 \in T
  BY <1>0
<1>2. ASSUME NEW m \in 1 .. top + 1, m - 1 \in T PROVE m \in T
  <2>1. PICK f : upto(f, m - 1)
    BY <1>2
  <2> DEFINE g == [c \in Spans(s) |-> IF Measure(c) < m - 1 THEN f[c] ELSE GrammarOf(s, f, c)]
  <2>2. \A c \in Spans(s) : g[c] = IF Measure(c) < m - 1 THEN f[c] ELSE GrammarOf(s, f, c)
    OBVIOUS
  <2> HIDE DEF g
  <2>3. ASSUME NEW c \in Spans(s), Measure(c) < m PROVE g[c] = GrammarOf(s, g, c)
    <3>1. g[c] = GrammarOf(s, f, c)
      BY <2>1, <2>2
    <3>2. AgreeBelow(f, g, s, Measure(c))
      <4>1. \A b \in Spans(s) : Measure(b) < Measure(c) => Measure(b) < m - 1
        BY <1>0, <2>3
      <4> QED BY <2>2, <4>1 DEF AgreeBelow
    <3> QED BY <3>1, <3>2, ReadingsAgree
  <2>4. upto(g, m)
    BY <2>3
  <2> QED BY <2>4
<1> HIDE DEF T
<1>3. top + 1 \in T
  <2>1. top + 1 \in Nat
    OBVIOUS
  <2> HIDE DEF top
  <2> QED BY <1>1, <1>2, <2>1, InductionUpTo
<1>4. PICK f : upto(f, top + 1)
  BY <1>3 DEF T
<1>5. \A c \in Spans(s) : f[c] = GrammarOf(s, f, c)
  <2>1. \A c \in Spans(s) : Measure(c) < top + 1
    BY <1>0
  <2> HIDE DEF top
  <2> QED BY <1>4, <2>1
<1> DEFINE g == [c \in Spans(s) |-> f[c]]
<1>6. \A c \in Spans(s) : g[c] = f[c]
  OBVIOUS
<1>7. \A c \in Spans(s) : f[c] = GrammarOf(s, g, c)
  <2> HIDE DEF g
  <2> TAKE c \in Spans(s)
  <2>1. AgreeBelow(f, g, s, Measure(c))
    BY <1>6 DEF AgreeBelow
  <2>2. GrammarOf(s, f, c) = GrammarOf(s, g, c)
    BY <2>1, ReadingsAgree
  <2> QED BY <1>5, <2>2
<1>8. g = [c \in Spans(s) |-> GrammarOf(s, g, c)]
  BY <1>7, Zenon
<1> HIDE DEF g
<1>9. AreReadings(g, s)
  BY <1>8, Zenon DEF AreReadings
<1> QED BY <1>9

\* The readings of each span are what the grammar says.
LEMMA GrammarIs ==
    ASSUME NEW s, Len(s) \in Nat, NEW i \in 1 .. Len(s) + 1, NEW j \in 0 .. Len(s)
    PROVE  /\ Grammar(s)[<<"list", i, j>>] = Lists(s, Grammar(s), i, j)
           /\ Grammar(s)[<<"not", i, j>>] = Negations(s, Grammar(s), i, j)
           /\ Grammar(s)[<<"and", i, j>>] = Conjunctions(s, Grammar(s), i, j)
           /\ Grammar(s)[<<"or", i, j>>] = Disjunctions(s, Grammar(s), i, j)
<1> DEFINE f == Grammar(s)
<1>1. AreReadings(f, s)
  <2>1. \E h : AreReadings(h, s)
    BY ReadingsExist
  <2> QED BY <2>1, Zenon DEF Grammar, AreReadings, GrammarOf
<1> HIDE DEF f
<1>2. \A c \in Spans(s) : f[c] = GrammarOf(s, f, c)
  BY <1>1, Zenon DEF AreReadings
<1>3. \A kind \in {"list", "not", "and", "or"} : <<kind, i, j>> \in Spans(s)
  BY MeasuresAre
<1>4. \A kind \in {"list", "not", "and", "or"} : f[<<kind, i, j>>] = GrammarOf(s, f, <<kind, i, j>>)
  BY <1>2, <1>3
<1>5. /\ GrammarOf(s, f, <<"list", i, j>>) = Lists(s, f, i, j)
      /\ GrammarOf(s, f, <<"not", i, j>>) = Negations(s, f, i, j)
      /\ GrammarOf(s, f, <<"and", i, j>>) = Conjunctions(s, f, i, j)
      /\ GrammarOf(s, f, <<"or", i, j>>) = Disjunctions(s, f, i, j)
  BY DEF GrammarOf
<1> QED BY <1>4, <1>5 DEF f

------------------------------------------------------------------------------
(* Tokens *)

\* How many of the tokens before place i are in a set.
Count(s, T, i) == Cardinality({k \in 1 .. i - 1 : s[k] \in T})

\* Counting tokens of a kind: from none before the first, one more behind each of them.
LEMMA CountsAre ==
    ASSUME NEW s, NEW T
    PROVE  /\ \A i \in Nat \ {0} : Count(s, T, i) \in Nat
           /\ Count(s, T, 1) = 0
           /\ \A i \in Nat \ {0} : Count(s, T, i + 1) = Count(s, T, i) + IF s[i] \in T THEN 1 ELSE 0
<1> DEFINE C(i) == {k \in 1 .. i - 1 : s[k] \in T}
<1>1. \A i \in Nat \ {0} : IsFiniteSet(C(i)) /\ Cardinality(C(i)) \in Nat
  <2> TAKE i \in Nat \ {0}
  <2>1. IsFiniteSet(1 .. i - 1) /\ C(i) \subseteq 1 .. i - 1
    BY FS_Interval
  <2>2. IsFiniteSet(C(i))
    BY <2>1, FS_Subset
  <2> QED BY <2>2, FS_CardinalityType
<1>2. C(1) = {}
  OBVIOUS
<1>3. Cardinality(C(1)) = 0
  BY <1>2, FS_EmptySet
<1>4. ASSUME NEW i \in Nat \ {0} PROVE Cardinality(C(i + 1)) = Cardinality(C(i)) + IF s[i] \in T THEN 1 ELSE 0
  <2>1. C(i + 1) = IF s[i] \in T THEN C(i) \cup {i} ELSE C(i)
    <3>1. (i + 1) - 1 = i /\ 1 .. i = (1 .. i - 1) \cup {i}
      OBVIOUS
    <3>2. C(i + 1) = {k \in (1 .. i - 1) \cup {i} : s[k] \in T}
      BY <3>1
    <3> QED BY <3>2
  <2>2. i \notin C(i)
    OBVIOUS
  <2> HIDE DEF C
  <2> QED BY <1>1, <2>1, <2>2, FS_AddElement
<1> QED BY <1>1, <1>3, <1>4 DEF Count

\* Markers are counted as they are read.
LEMMA MarkersCount ==
    ASSUME NEW s
    PROVE  /\ \A i \in Nat \ {0} : Marker(s, i) \in Nat
           /\ Marker(s, 1) = 0
           /\ \A i \in Nat \ {0} : Marker(s, i + 1) = Marker(s, i) + IF s[i] = "param" THEN 1 ELSE 0
<1>1. \A i : Marker(s, i) = Count(s, {"param"}, i)
  BY DEF Marker, Count
<1> QED BY <1>1, CountsAre

\* What is known of the words of the language.
LEMMA WordsAre ==
    /\ \A t \in Reserved \cup OtherKeywords : IsWord(t)
    /\ \A t \in DOMAIN Numerals : t \in STRING /\ Numerals[t] \in Nat /\ t \notin Punctuation /\ t \notin Reserved /\ t \notin OtherKeywords
    /\ \A t \in Punctuation : ~IsWord(t)
<1>1. \A t \in Reserved \cup OtherKeywords : t \notin Punctuation
  <2> DEFINE signs == {"=", "!=", "<>", "<", "<=", ">", ">=", "+", "-", "*", "/", "(", ")", ",", ".", ";", "end", "param"}
  <2>1. \A t \in Punctuation : t \in signs
    BY DEF Punctuation, Comparisons, Arithmetic
  <2>2. \A t \in signs : t \notin Reserved
    BY DEF Reserved
  <2>3. \A t \in signs : t \notin OtherKeywords
    BY DEF OtherKeywords
  <2> HIDE DEF signs
  <2> QED BY <2>1, <2>2, <2>3
<1> QED BY <1>1, ParserConstants DEF IsWord, Symbols

\* The places of a text.
LEMMA TokensAre ==
    ASSUME NEW s \in Seq(STRING)
    PROVE  /\ Len(s) \in Nat /\ DOMAIN s = 1 .. Len(s)
           /\ \A i \in 1 .. Len(s) : tok(s, i) = s[i] /\ tok(s, i) \in STRING
           /\ \A i : i \notin 1 .. Len(s) => tok(s, i) = "end"
BY DEF tok

------------------------------------------------------------------------------
(* Operands *)

\* Tokens that an operand cannot stand before.
Stops == {"+", "-", "*", "(", "ESCAPE"}

\* An operand that the grammar sees is read.
LEMMA OperandIsRead ==
    ASSUME NEW s \in Seq(STRING), NEW i \in 1 .. Len(s), NEW j \in i .. Len(s), NEW o \in Operands(s, i, j),
           tok(s, j + 1) \notin Stops
    PROVE  /\ parse_operand(s, i, Marker(s, i)) = Read(j + 1, Marker(s, j + 1), o)
           /\ s[i] \notin {"NOT", "(", "SELECT", "AND", "OR", "IN", "LIKE", "BETWEEN", "IS"} \cup Comparisons
           /\ j \in {i, i + 1}
<1>1. tok(s, i) = s[i] /\ tok(s, j) = s[j] /\ Len(s) \in Nat
  BY TokensAre
<1>2. /\ Marker(s, i + 1) = Marker(s, i) + (IF s[i] = "param" THEN 1 ELSE 0)
      /\ Marker(s, (i + 1) + 1) = Marker(s, i + 1) + (IF s[i + 1] = "param" THEN 1 ELSE 0)
      /\ Marker(s, i) \in Nat
  <2>1. i \in Nat \ {0} /\ i + 1 \in Nat \ {0}
    BY <1>1
  <2> QED BY <2>1, MarkersCount
<1>3. tok(s, j + 1) \notin {"+", "-", "*", "("}
  BY DEF Stops
<1>4. CASE i = j
  <2>1. CASE s[i] = "param"
    <3>1. o = Param(Marker(s, i))
      BY <1>4, <2>1 DEF Operands
    <3>2. parse_operand(s, i, Marker(s, i)) = Unless(s, Read(i + 1, Marker(s, i) + 1, o), {"+", "-", "*"})
      BY <1>1, <2>1, <3>1 DEF parse_operand
    <3>3. Marker(s, i + 1) = Marker(s, i) + 1
      BY <1>2, <2>1
    <3> QED BY <1>3, <1>4, <2>1, <3>2, <3>3 DEF Unless, Read, Comparisons
  <2>2. CASE s[i] = "NULL"
    <3>1. o = Literal(Null)
      BY <1>4, <2>2 DEF Operands
    <3>2. is_literal_start(s, i) /\ parse_literal(s, i, Marker(s, i)) = Read(i + 1, Marker(s, i), o)
      BY <1>1, <2>2, <3>1 DEF is_literal_start, parse_literal
    <3>3. parse_operand(s, i, Marker(s, i)) = Unless(s, Read(i + 1, Marker(s, i), o), {"+", "-", "*"})
      BY <1>1, <2>2, <3>2 DEF parse_operand
    <3>4. Marker(s, i + 1) = Marker(s, i)
      BY <1>2, <2>2
    <3> QED BY <1>3, <1>4, <2>2, <3>3, <3>4 DEF Unless, Read, Comparisons
  <2>3. CASE s[i] \in DOMAIN Numerals
    <3>0. s[i] \notin Punctuation /\ s[i] \notin Reserved
      BY <2>3, WordsAre
    <3>1. s[i] \notin {"param", "NULL", "-", "+", "NOT", "(", "SELECT", "AND", "OR", "IN", "LIKE", "BETWEEN", "IS"} \cup Comparisons
      BY <3>0 DEF Punctuation, Reserved, Arithmetic
    <3>2. o = Literal(Numerals[s[i]])
      BY <1>4, <2>3, <3>1 DEF Operands
    <3>3. is_literal_start(s, i) /\ parse_literal(s, i, Marker(s, i)) = Read(i + 1, Marker(s, i), o)
      BY <1>1, <2>3, <3>1, <3>2 DEF is_literal_start, parse_literal
    <3>4. parse_operand(s, i, Marker(s, i)) = Unless(s, Read(i + 1, Marker(s, i), o), {"+", "-", "*"})
      BY <1>1, <3>1, <3>3 DEF parse_operand
    <3>5. Marker(s, i + 1) = Marker(s, i)
      BY <1>2, <3>1
    <3> QED BY <1>3, <1>4, <3>1, <3>4, <3>5 DEF Unless, Read
  <2>4. CASE s[i] \notin {"param", "NULL"} \cup DOMAIN Numerals
    <3>1. IsName(s[i]) /\ o = Column(s[i])
      BY <1>4, <2>4 DEF Operands
    <3>2. s[i] \notin Punctuation /\ s[i] \notin Reserved /\ IsWord(s[i])
      BY <3>1, WordsAre DEF IsName
    <3>3. s[i] \notin {"-", "+", "NOT", "(", "SELECT", "AND", "OR", "IN", "LIKE", "BETWEEN", "IS"} \cup Comparisons
      BY <3>2 DEF Punctuation, Reserved, Arithmetic
    <3>4. ~is_literal_start(s, i)
      BY <1>1, <2>4, <3>3 DEF is_literal_start
    <3>5. parse_operand(s, i, Marker(s, i)) = Unless(s, Read(i + 1, Marker(s, i), o), {"+", "-", "*"})
      BY <1>1, <1>3, <1>4, <2>4, <3>1, <3>2, <3>3, <3>4 DEF parse_operand
    <3>6. Marker(s, i + 1) = Marker(s, i)
      BY <1>2, <2>4
    <3> QED BY <1>3, <1>4, <3>3, <3>5, <3>6 DEF Unless, Read
  <2> QED BY <2>1, <2>2, <2>3, <2>4
<1>5. CASE i # j
  <2>1. j = i + 1 /\ s[j] \in DOMAIN Numerals /\ s[i] \in {"-", "+"} /\ o = Literal(IF s[i] = "-" THEN -Numerals[s[j]] ELSE Numerals[s[j]])
    BY <1>5 DEF Operands
  <2>2. s[i + 1] # "param"
    <3>1. s[j] \notin Punctuation
      BY <2>1, WordsAre
    <3> QED BY <2>1, <3>1 DEF Punctuation
  <2>3. is_literal_start(s, i) /\ parse_literal(s, i, Marker(s, i)) = Read(i + 2, Marker(s, i), o)
    BY <1>1, <2>1 DEF is_literal_start, parse_literal
  <2>4. parse_operand(s, i, Marker(s, i)) = Unless(s, Read(i + 2, Marker(s, i), o), {"+", "-", "*"})
    BY <1>1, <2>1, <2>3 DEF parse_operand
  <2>5. Marker(s, j + 1) = Marker(s, i) /\ j + 1 = i + 2
    BY <1>2, <2>1, <2>2
  <2> QED BY <1>3, <2>1, <2>4, <2>5 DEF Unless, Read, Comparisons
<1> QED BY <1>4, <1>5

\* A round that changes nothing is the last.
LEMMA ListRoundsStay ==
    ASSUME NEW s, NEW p, NEW n, Len(s) \in Nat, NEW m \in 0 .. Len(s), ListStep(s, ListRounds(s, p, n)[m]) = ListRounds(s, p, n)[m]
    PROVE  ListRounds(s, p, n)[Len(s)] = ListRounds(s, p, n)[m]
<1> DEFINE R == ListRounds(s, p, n)
           T == {k \in 0 .. Len(s) - m : R[m + k] = R[m]}
<1>0. Len(s) \in Nat
  OBVIOUS
<1> USE <1>0
<1>1. \A k \in 1 .. Len(s) : R[k] = ListStep(s, R[k - 1])
  BY ListRoundsAre
<1>2. ListStep(s, R[m]) = R[m]
  OBVIOUS
<1> HIDE DEF R
<1>3. 0 \in T
  OBVIOUS
<1>4. ASSUME NEW k \in 1 .. Len(s) - m, k - 1 \in T PROVE k \in T
  <2>1. R[m + (k - 1)] = R[m] /\ m + k \in 1 .. Len(s) /\ (m + k) - 1 = m + (k - 1)
    BY <1>4
  <2>2. R[m + k] = ListStep(s, R[m + (k - 1)])
    BY <1>1, <2>1
  <2> QED BY <1>2, <2>1, <2>2
<1>5. Len(s) - m \in T
  <2>1. Len(s) - m \in Nat
    OBVIOUS
  <2> HIDE DEF T
  <2> QED BY <1>3, <1>4, <2>1, InductionUpTo
<1>6. m + (Len(s) - m) = Len(s)
  OBVIOUS
<1> QED BY <1>5, <1>6 DEF R

\* A round that changes nothing is the last.
LEMMA AndRoundsStay ==
    ASSUME NEW s, NEW below, NEW p, NEW n, Len(s) \in Nat, NEW m \in 0 .. Len(s), AndStep(s, below, AndRounds(s, below, p, n)[m]) = AndRounds(s, below, p, n)[m]
    PROVE  AndRounds(s, below, p, n)[Len(s)] = AndRounds(s, below, p, n)[m]
<1> DEFINE R == AndRounds(s, below, p, n)
           T == {k \in 0 .. Len(s) - m : R[m + k] = R[m]}
<1>0. Len(s) \in Nat
  OBVIOUS
<1> USE <1>0
<1>1. \A k \in 1 .. Len(s) : R[k] = AndStep(s, below, R[k - 1])
  BY AndRoundsAre
<1>2. AndStep(s, below, R[m]) = R[m]
  OBVIOUS
<1> HIDE DEF R
<1>3. 0 \in T
  OBVIOUS
<1>4. ASSUME NEW k \in 1 .. Len(s) - m, k - 1 \in T PROVE k \in T
  <2>1. R[m + (k - 1)] = R[m] /\ m + k \in 1 .. Len(s) /\ (m + k) - 1 = m + (k - 1)
    BY <1>4
  <2>2. R[m + k] = AndStep(s, below, R[m + (k - 1)])
    BY <1>1, <2>1
  <2> QED BY <1>2, <2>1, <2>2
<1>5. Len(s) - m \in T
  <2>1. Len(s) - m \in Nat
    OBVIOUS
  <2> HIDE DEF T
  <2> QED BY <1>3, <1>4, <2>1, InductionUpTo
<1>6. m + (Len(s) - m) = Len(s)
  OBVIOUS
<1> QED BY <1>5, <1>6 DEF R

\* A round that changes nothing is the last.
LEMMA OrRoundsStay ==
    ASSUME NEW s, NEW below, NEW p, NEW n, Len(s) \in Nat, NEW m \in 0 .. Len(s), OrStep(s, below, OrRounds(s, below, p, n)[m]) = OrRounds(s, below, p, n)[m]
    PROVE  OrRounds(s, below, p, n)[Len(s)] = OrRounds(s, below, p, n)[m]
<1> DEFINE R == OrRounds(s, below, p, n)
           T == {k \in 0 .. Len(s) - m : R[m + k] = R[m]}
<1>0. Len(s) \in Nat
  OBVIOUS
<1> USE <1>0
<1>1. \A k \in 1 .. Len(s) : R[k] = OrStep(s, below, R[k - 1])
  BY OrRoundsAre
<1>2. OrStep(s, below, R[m]) = R[m]
  OBVIOUS
<1> HIDE DEF R
<1>3. 0 \in T
  OBVIOUS
<1>4. ASSUME NEW k \in 1 .. Len(s) - m, k - 1 \in T PROVE k \in T
  <2>1. R[m + (k - 1)] = R[m] /\ m + k \in 1 .. Len(s) /\ (m + k) - 1 = m + (k - 1)
    BY <1>4
  <2>2. R[m + k] = OrStep(s, below, R[m + (k - 1)])
    BY <1>1, <2>1
  <2> QED BY <1>2, <2>1, <2>2
<1>5. Len(s) - m \in T
  <2>1. Len(s) - m \in Nat
    OBVIOUS
  <2> HIDE DEF T
  <2> QED BY <1>3, <1>4, <2>1, InductionUpTo
<1>6. m + (Len(s) - m) = Len(s)
  OBVIOUS
<1> QED BY <1>5, <1>6 DEF R

------------------------------------------------------------------------------
(* What is read *)

\* A comma is none of the words and signs it must not be mistaken for.
LEMMA CommaIs == Comma \notin {"param", "AND", "OR", "NOT", "BETWEEN", ")", "+", "-", "*", "("}
BY Zenon DEF Comma

\* What a successful and a failed read are, and what Made makes of them.
LEMMA ReadIs ==
    ASSUME NEW p, NEW n, NEW v
    PROVE  /\ Read(p, n, v).ok /\ Read(p, n, v).p = p /\ Read(p, n, v).n = n /\ Read(p, n, v).v = v
           /\ \A w : Made(Read(p, n, v), w) = Read(p, n, w)
           /\ ~Error.ok /\ \A w : Made(Error, w) = Error
           /\ Read(p, n, v) # Error
BY DEF Read, Made, Error

\* A round that reads.
LEMMA ListStepReads ==
    ASSUME NEW s, NEW p, NEW n, NEW l, NEW q, NEW m, NEW o,
           tok(s, p) = Comma, parse_operand(s, p + 1, n) = Read(q, m, o)
    PROVE  ListStep(s, Read(p, n, l)) = Read(q, m, Append(l, o))
BY ReadIs DEF ListStep, WithOperand

\* One round of the loop in parse_and, where AND stands and its right side can be read.
LEMMA AndStepReads ==
    ASSUME NEW s, NEW below, NEW p, NEW n, NEW l, NEW q, NEW m, NEW r,
           tok(s, p) = "AND", parse_not(s, below, p + 1, n) = Read(q, m, r)
    PROVE  AndStep(s, below, Read(p, n, l)) = Read(q, m, And(l, r))
BY ReadIs DEF AndStep, WithAnd

\* One round of the loop in parse_or.
LEMMA OrStepReads ==
    ASSUME NEW s, NEW below, NEW p, NEW n, NEW l, NEW q, NEW m, NEW r,
           tok(s, p) = "OR", parse_and(s, below, p + 1, n) = Read(q, m, r)
    PROVE  OrStep(s, below, Read(p, n, l)) = Read(q, m, Or(l, r))
BY ReadIs DEF OrStep, WithOr

\* A round that has nothing to read.
LEMMA StepsStay ==
    ASSUME NEW s, NEW below, NEW l
    PROVE  /\ tok(s, l.p) # Comma \/ ~l.ok => ListStep(s, l) = l
           /\ tok(s, l.p) # "AND" \/ ~l.ok => AndStep(s, below, l) = l
           /\ tok(s, l.p) # "OR" \/ ~l.ok => OrStep(s, below, l) = l
BY Zenon DEF ListStep, AndStep, OrStep

------------------------------------------------------------------------------
(* Who is in the readings of a span *)

\* The grammar in these words.
LEMMA ListHas ==
    ASSUME NEW s, Len(s) \in Nat, NEW i \in 1 .. Len(s) + 1, NEW j \in 0 .. Len(s), NEW e
    PROVE  e \in Grammar(s)[<<"list", i, j>>] <=>
             \/ \E o \in Operands(s, i, j) : e = <<o>>
             \/ \E k \in Places(s, Comma, i, j) :
                  \E l \in Grammar(s)[<<"list", i, k - 1>>], o \in Operands(s, k + 1, j) : e = Append(l, o)
<1> DEFINE G == Grammar(s)
<1>1. G[<<"list", i, j>>] = Lists(s, G, i, j)
  BY GrammarIs
<1> HIDE DEF G
<1>2. SUFFICES (e \in Lists(s, G, i, j)) <=>
        \/ \E o \in Operands(s, i, j) : e = <<o>>
        \/ \E k \in Places(s, Comma, i, j) : \E l \in G[<<"list", i, k - 1>>], o \in Operands(s, k + 1, j) : e = Append(l, o)
  BY <1>1 DEF G
<1> DEFINE A(k) == Longer(G[<<"list", i, k - 1>>], Operands(s, k + 1, j))
           P == Places(s, Comma, i, j)
<1>3. Lists(s, G, i, j) = {<<o>> : o \in Operands(s, i, j)} \cup UNION {A(k) : k \in P}
  BY Zenon DEF Lists, Comma
<1>4. \A k : e \in A(k) <=> \E l \in G[<<"list", i, k - 1>>], o \in Operands(s, k + 1, j) : e = Append(l, o)
  BY DEF Longer
<1> HIDE DEF A
<1>5. e \in Lists(s, G, i, j) <=> (\E o \in Operands(s, i, j) : e = <<o>>) \/ \E k \in P : e \in A(k)
  <2> HIDE DEF P
  <2> QED BY <1>3
<1> QED BY <1>4, <1>5

\* The grammar at "not": NOT, parentheses, or an operand and its predicate.
LEMMA NotHas ==
    ASSUME NEW s, Len(s) \in Nat, NEW i \in 1 .. Len(s) + 1, NEW j \in 0 .. Len(s), NEW e
    PROVE  e \in Grammar(s)[<<"not", i, j>>] <=>
             \/ i <= j /\ s[i] = "NOT" /\ \E x \in Grammar(s)[<<"not", i + 1, j>>] : e = Not(x)
             \/ i < j /\ s[i] = "(" /\ s[j] = ")" /\ e \in Grammar(s)[<<"or", i + 1, j - 1>>]
             \/ \E k \in {i, i + 1} : k <= j /\ s[i] # "EXISTS" /\
                  \E a \in Operands(s, i, k) : e \in Predicates(s, Grammar(s), a, k + 1, j)
<1>1. i \in Int /\ j \in Int
  OBVIOUS
<1> DEFINE G == Grammar(s)
<1>2. G[<<"not", i, j>>] = Negations(s, G, i, j)
  BY GrammarIs
<1> HIDE DEF G
<1>3. SUFFICES (e \in Negations(s, G, i, j)) <=>
        \/ i <= j /\ s[i] = "NOT" /\ \E x \in G[<<"not", i + 1, j>>] : e = Not(x)
        \/ i < j /\ s[i] = "(" /\ s[j] = ")" /\ e \in G[<<"or", i + 1, j - 1>>]
        \/ \E k \in {i, i + 1} : k <= j /\ s[i] # "EXISTS" /\ \E a \in Operands(s, i, k) : e \in Predicates(s, G, a, k + 1, j)
  BY <1>2 DEF G
<1> DEFINE A(k) == UNION {Predicates(s, G, a, k + 1, j) : a \in Operands(s, i, k)}
           P == {x \in {i, i + 1} : x <= j /\ s[i] # "EXISTS"}
           N == {Not(x) : x \in G[<<"not", i + 1, j>>]}
<1>4. Negations(s, G, i, j) = (IF i <= j /\ s[i] = "NOT" THEN N ELSE {})
            \cup (IF i < j /\ s[i] = "(" /\ s[j] = ")" THEN G[<<"or", i + 1, j - 1>>] ELSE {})
            \cup UNION {A(k) : k \in P}
  BY DEF Negations
<1>5. \A k : e \in A(k) <=> \E a \in Operands(s, i, k) : e \in Predicates(s, G, a, k + 1, j)
  OBVIOUS
<1>6. e \in N <=> \E x \in G[<<"not", i + 1, j>>] : e = Not(x)
  OBVIOUS
<1> HIDE DEF A, N
<1>7. e \in Negations(s, G, i, j) <=>
        \/ i <= j /\ s[i] = "NOT" /\ e \in N
        \/ i < j /\ s[i] = "(" /\ s[j] = ")" /\ e \in G[<<"or", i + 1, j - 1>>]
        \/ \E k \in P : e \in A(k)
  <2> HIDE DEF P
  <2> QED BY <1>4
<1> QED BY <1>1, <1>5, <1>6, <1>7

IsAnd(s, i, j, e) ==
    \E k \in Places(s, "AND", i, j) :
        \E l \in Grammar(s)[<<"and", i, k - 1>>], r \in Grammar(s)[<<"not", k + 1, j>>] : e = And(l, r)

\* The grammar at "and": one negation, or a conjunction and one more.
LEMMA AndHas ==
    ASSUME NEW s, Len(s) \in Nat, NEW i \in 1 .. Len(s) + 1, NEW j \in 0 .. Len(s), NEW e
    PROVE  e \in Grammar(s)[<<"and", i, j>>] <=>
             e \in Grammar(s)[<<"not", i, j>>] \/ IsAnd(s, i, j, e)
<1> DEFINE G == Grammar(s)
<1>1. G[<<"and", i, j>>] = Conjunctions(s, G, i, j)
  BY GrammarIs
<1> HIDE DEF G
<1>2. SUFFICES (e \in Conjunctions(s, G, i, j)) <=>
        \/ e \in G[<<"not", i, j>>]
        \/ \E k \in Places(s, "AND", i, j) : \E l \in G[<<"and", i, k - 1>>], r \in G[<<"not", k + 1, j>>] : e = And(l, r)
  BY <1>1 DEF G, IsAnd
<1> DEFINE A(k) == {And(l, r) : l \in G[<<"and", i, k - 1>>], r \in G[<<"not", k + 1, j>>]}
           P == Places(s, "AND", i, j)
<1>3. Conjunctions(s, G, i, j) = G[<<"not", i, j>>] \cup UNION {A(k) : k \in P}
  BY DEF Conjunctions
<1>4. \A k : e \in A(k) <=> \E l \in G[<<"and", i, k - 1>>], r \in G[<<"not", k + 1, j>>] : e = And(l, r)
  OBVIOUS
<1> HIDE DEF A
<1>5. e \in Conjunctions(s, G, i, j) <=> e \in G[<<"not", i, j>>] \/ \E k \in P : e \in A(k)
  <2> HIDE DEF P
  <2> QED BY <1>3
<1> QED BY <1>4, <1>5

IsOr(s, i, j, e) ==
    \E k \in Places(s, "OR", i, j) :
        \E l \in Grammar(s)[<<"or", i, k - 1>>], r \in Grammar(s)[<<"and", k + 1, j>>] : e = Or(l, r)

\* The grammar at "or": one conjunction, or a disjunction and one more.
LEMMA OrHas ==
    ASSUME NEW s, Len(s) \in Nat, NEW i \in 1 .. Len(s) + 1, NEW j \in 0 .. Len(s), NEW e
    PROVE  e \in Grammar(s)[<<"or", i, j>>] <=>
             e \in Grammar(s)[<<"and", i, j>>] \/ IsOr(s, i, j, e)
<1> DEFINE G == Grammar(s)
<1>1. G[<<"or", i, j>>] = Disjunctions(s, G, i, j)
  BY GrammarIs
<1> HIDE DEF G
<1>2. SUFFICES (e \in Disjunctions(s, G, i, j)) <=>
        \/ e \in G[<<"and", i, j>>]
        \/ \E k \in Places(s, "OR", i, j) : \E l \in G[<<"or", i, k - 1>>], r \in G[<<"and", k + 1, j>>] : e = Or(l, r)
  BY <1>1 DEF G, IsOr
<1> DEFINE A(k) == {Or(l, r) : l \in G[<<"or", i, k - 1>>], r \in G[<<"and", k + 1, j>>]}
           P == Places(s, "OR", i, j)
<1>3. Disjunctions(s, G, i, j) = G[<<"and", i, j>>] \cup UNION {A(k) : k \in P}
  BY DEF Disjunctions
<1>4. \A k : e \in A(k) <=> \E l \in G[<<"or", i, k - 1>>], r \in G[<<"and", k + 1, j>>] : e = Or(l, r)
  OBVIOUS
<1> HIDE DEF A
<1>5. e \in Disjunctions(s, G, i, j) <=> e \in G[<<"and", i, j>>] \/ \E k \in P : e \in A(k)
  <2> HIDE DEF P
  <2> QED BY <1>3
<1> QED BY <1>4, <1>5

\* Nothing is read from a span that ends before it begins.
LEMMA NothingToRead ==
    ASSUME NEW s, Len(s) \in Nat, NEW i \in 1 .. Len(s) + 1, NEW j \in 0 .. Len(s), i > j
    PROVE  \A kind \in {"list", "not", "and", "or"} : Grammar(s)[<<kind, i, j>>] = {}
<1>1. \A t : Places(s, t, i, j) = {}
  BY DEF Places
<1>2. Operands(s, i, j) = {}
  BY DEF Operands
<1>3. \A e : e \notin Grammar(s)[<<"list", i, j>>]
  BY <1>1, <1>2, ListHas
<1>4. \A e : e \notin Grammar(s)[<<"not", i, j>>]
  <2>1. ~(i <= j) /\ ~(i < j) /\ \A k \in {i, i + 1} : ~(k <= j)
    OBVIOUS
  <2>2. i \in 1 .. Len(s) + 1 /\ j \in 0 .. Len(s) /\ Len(s) \in Nat
    OBVIOUS
  <2>3. SUFFICES ASSUME NEW e \in Grammar(s)[<<"not", i, j>>] PROVE FALSE
    OBVIOUS
  <2>4. \/ i <= j /\ s[i] = "NOT" /\ \E x \in Grammar(s)[<<"not", i + 1, j>>] : e = Not(x)
        \/ i < j /\ s[i] = "(" /\ s[j] = ")" /\ e \in Grammar(s)[<<"or", i + 1, j - 1>>]
        \/ \E k \in {i, i + 1} : k <= j /\ s[i] # "EXISTS" /\
             \E a \in Operands(s, i, k) : e \in Predicates(s, Grammar(s), a, k + 1, j)
    BY NotHas
  <2> QED BY <2>1, <2>4, Zenon
<1>5. \A e : e \notin Grammar(s)[<<"and", i, j>>]
  BY <1>1, <1>4, AndHas DEF IsAnd
<1>6. \A e : e \notin Grammar(s)[<<"or", i, j>>]
  BY <1>1, <1>5, OrHas DEF IsOr
<1> QED BY <1>3, <1>4, <1>5, <1>6

------------------------------------------------------------------------------
(* What the grammar sees is read *)

\* After some round a list is what the grammar sees up to there.
ListIsReadAt(s, i, j) ==
    \A l \in Grammar(s)[<<"list", i, j>>] :
        tok(s, j + 1) \in {Comma, ")"} => \E m \in 0 .. j - i : ListRounds(s, i, Marker(s, i))[m] = Read(j + 1, Marker(s, j + 1), l)

\* parse_list reads a list when it reads every shorter one from the same place,
LEMMA ListIsReadStep ==
    ASSUME NEW s \in Seq(STRING), NEW i \in 1 .. Len(s), NEW j \in i .. Len(s),
           \A h \in i .. j - 1 : ListIsReadAt(s, i, h)
    PROVE  ListIsReadAt(s, i, j)
<1>0. Len(s) \in Nat /\ i \in 1 .. Len(s) + 1 /\ j \in 0 .. Len(s) /\ j + 1 \in 1 .. Len(s) + 1
  BY TokensAre
<1>1. SUFFICES ASSUME NEW l \in Grammar(s)[<<"list", i, j>>], tok(s, j + 1) \in {Comma, ")"}
               PROVE  \E m \in 0 .. j - i : ListRounds(s, i, Marker(s, i))[m] = Read(j + 1, Marker(s, j + 1), l)
  BY DEF ListIsReadAt
<1>2. \/ \E o \in Operands(s, i, j) : l = <<o>>
      \/ \E k \in Places(s, Comma, i, j) : \E h \in Grammar(s)[<<"list", i, k - 1>>], o \in Operands(s, k + 1, j) : l = Append(h, o)
  <2>1. i \in 1 .. Len(s) + 1 /\ j \in 0 .. Len(s)
    BY <1>0
  <2> QED BY <1>0, <1>1, <2>1, ListHas
<1>3. tok(s, j + 1) \notin Stops
  BY <1>1, Zenon DEF Stops, Comma
<1>4. /\ ListRounds(s, i, Marker(s, i))[0] = ListFirst(s, i, Marker(s, i))
      /\ \A k \in 1 .. Len(s) : ListRounds(s, i, Marker(s, i))[k] = ListStep(s, ListRounds(s, i, Marker(s, i))[k - 1])
  BY <1>0, ListRoundsAre
<1>5. ASSUME NEW o \in Operands(s, i, j), l = <<o>>
      PROVE  ListRounds(s, i, Marker(s, i))[0] = Read(j + 1, Marker(s, j + 1), l) /\ 0 \in 0 .. j - i
  <2>1. parse_operand(s, i, Marker(s, i)) = Read(j + 1, Marker(s, j + 1), o)
    BY <1>3, OperandIsRead
  <2>2. 0 \in 0 .. j - i
    BY <1>0
  <2> QED BY <1>4, <1>5, <2>1, <2>2 DEF ListFirst, Made, Read, OneOperand
<1>6. ASSUME NEW k \in Places(s, Comma, i, j), NEW h \in Grammar(s)[<<"list", i, k - 1>>], NEW o \in Operands(s, k + 1, j),
             l = Append(h, o)
      PROVE  \E m \in 0 .. j - i : ListRounds(s, i, Marker(s, i))[m] = Read(j + 1, Marker(s, j + 1), l)
  <2>1. k \in i .. j /\ s[k] = Comma
    BY DEF Places
  <2>2. k \in 1 .. Len(s) /\ k \in Nat \ {0} /\ k - 1 \in 0 .. Len(s)
    BY <1>0, <2>1
  <2>3. tok(s, k) = Comma
    BY <2>1, <2>2, TokensAre
  <2>4. k - 1 \in i .. j - 1 /\ (k - 1) + 1 = k
    <3>1. i > k - 1 => Grammar(s)[<<"list", i, k - 1>>] = {}
      BY <1>0, <2>2, NothingToRead
    <3>2. i <= k - 1
      BY <1>0, <2>2, <3>1
    <3> QED BY <1>0, <2>1, <3>2
  <2>5. k + 1 \in 1 .. Len(s) /\ j \in k + 1 .. Len(s)
    <3>1. k + 1 > j => Operands(s, k + 1, j) = {}
      BY <1>0, <2>2 DEF Operands
    <3> QED BY <1>0, <2>2, <3>1
  <2>6. ListIsReadAt(s, i, k - 1)
    BY <2>4
  <2>7. PICK m \in 0 .. (k - 1) - i : ListRounds(s, i, Marker(s, i))[m] = Read(k, Marker(s, k), h)
    BY <2>3, <2>4, <2>6, Zenon DEF ListIsReadAt
  <2>8. Marker(s, k + 1) = Marker(s, k)
    <3>1. Marker(s, k + 1) = Marker(s, k) + 0 /\ Marker(s, k) \in Nat
      BY <2>1, <2>2, MarkersCount, CommaIs
    <3> QED BY <3>1
  <2>9. parse_operand(s, k + 1, Marker(s, k)) = Read(j + 1, Marker(s, j + 1), o)
    BY <1>3, <2>5, <2>8, OperandIsRead
  <2>10. m + 1 \in 1 .. Len(s) /\ m + 1 \in 0 .. j - i /\ (m + 1) - 1 = m
    <3>1. m \in 0 .. (k - 1) - i
      OBVIOUS
    <3> QED BY <1>0, <2>1, <3>1
  <2>11. ListRounds(s, i, Marker(s, i))[m + 1] = ListStep(s, Read(k, Marker(s, k), h))
    BY <1>4, <2>7, <2>10
  <2>12. ListStep(s, Read(k, Marker(s, k), h)) = Read(j + 1, Marker(s, j + 1), l)
    BY <1>6, <2>3, <2>9, ListStepReads
  <2> QED BY <2>10, <2>11, <2>12
<1> QED BY <1>2, <1>5, <1>6

\* What holds of a place if it holds of all between the first and it holds of all.
LEMMA PlaceInduction ==
    ASSUME NEW i \in Int, NEW n \in Int, NEW T, \A j \in i .. n : (\A h \in i .. j - 1 : h \in T) => j \in T
    PROVE  \A j \in i .. n : j \in T
<1> DEFINE R == {w \in Nat : i + w <= n => i + w \in T}
<1>1. ASSUME NEW w \in Nat, \A v \in 0 .. w - 1 : v \in R PROVE w \in R
  <2>1. \A v \in 0 .. w - 1 : i + v <= n => i + v \in T
    BY <1>1
  <2>2. ASSUME i + w <= n, NEW h \in i .. (i + w) - 1 PROVE h \in T
    <3>1. h - i \in 0 .. w - 1 /\ i + (h - i) = h /\ h <= n
      BY <1>1, <2>2
    <3> HIDE DEF R
    <3>2. i + (h - i) \in T
      BY <2>1, <3>1
    <3> QED BY <3>1, <3>2
  <2>3. i + w <= n => i + w \in i .. n
    OBVIOUS
  <2> QED BY <2>2, <2>3
<1> HIDE DEF R
<1>2. \A w \in Nat : w \in R
  BY <1>1, StrongInduction
<1>3. TAKE j \in i .. n
<1>4. j - i \in Nat /\ i + (j - i) = j /\ j <= n
  OBVIOUS
<1> QED BY <1>2, <1>4 DEF R

\* so that it reads every list.
LEMMA ListIsRead ==
    ASSUME NEW s \in Seq(STRING), NEW i \in 1 .. Len(s)
    PROVE  \A j \in i .. Len(s) : ListIsReadAt(s, i, j)
<1> DEFINE T == {j \in i .. Len(s) : ListIsReadAt(s, i, j)}
<1>0. Len(s) \in Int /\ i \in Int
  BY TokensAre
<1>1. ASSUME NEW j \in i .. Len(s), \A h \in i .. j - 1 : h \in T PROVE j \in T
  <2>1. \A h \in i .. j - 1 : ListIsReadAt(s, i, h)
    BY <1>1, Zenon
  <2> HIDE DEF T
  <2>2. ListIsReadAt(s, i, j)
    BY <2>1, ListIsReadStep
  <2> QED BY <2>2 DEF T
<1>2. \A j \in i .. Len(s) : j \in T
  <2> HIDE DEF T
  <2> QED BY <1>0, <1>1, PlaceInduction
<1> QED BY <1>2

\* Words that can stand first in a predicate but not in an operand.
NotOperands == {"NOT", "(", "SELECT", "AND", "OR", "IN", "LIKE", "BETWEEN", "IS"} \cup Comparisons

\* A token that is no marker leaves the number of markers as it is.
LEMMA MarkerStays ==
    ASSUME NEW s, NEW k \in Nat, k > 0, s[k] # "param"
    PROVE  Marker(s, k + 1) = Marker(s, k)
<1>1. Marker(s, k + 1) = Marker(s, k) + 0 /\ Marker(s, k) \in Nat
  BY MarkersCount
<1> QED BY <1>1

\* expect takes the token it waits for.
LEMMA ExpectReads ==
    ASSUME NEW s, NEW p, NEW n, NEW v, NEW t, tok(s, p) = t
    PROVE  Expect(s, Read(p, n, v), t) = Read(p + 1, n, v)
BY ReadIs DEF Expect

\* An operand needs a token.
LEMMA OperandsHaveTokens ==
    ASSUME NEW s, NEW i \in Int, NEW j \in Int, i > j
    PROVE  Operands(s, i, j) = {}
BY DEF Operands

\* A list in its parentheses, from q on.
LEMMA ParenthesesAreRead ==
    ASSUME NEW s \in Seq(STRING), NEW q \in 1 .. Len(s), NEW j \in q .. Len(s), q < j, s[q] = "(", s[j] = ")",
           NEW l \in Grammar(s)[<<"list", q + 1, j - 1>>]
    PROVE  parse_list(s, q, Marker(s, q)) = Read(j + 1, Marker(s, j + 1), l)
<1>1. Len(s) \in Nat
  BY TokensAre
<1>2. tok(s, q) = "(" /\ tok(s, j) = ")"
  <2>1. q \in 1 .. Len(s) /\ j \in 1 .. Len(s)
    BY <1>1
  <2> QED BY <2>1, TokensAre
<1>3. q + 1 \in 1 .. Len(s) /\ j - 1 \in q + 1 .. Len(s) /\ (j - 1) + 1 = j
  <2>1. q + 1 > j - 1 => Grammar(s)[<<"list", q + 1, j - 1>>] = {}
    <3>1. q + 1 \in 1 .. Len(s) + 1 /\ j - 1 \in 0 .. Len(s)
      BY <1>1
    <3> QED BY <1>1, <3>1, NothingToRead
  <2> QED BY <1>1, <2>1
<1>4. Marker(s, q + 1) = Marker(s, q) /\ Marker(s, j + 1) = Marker(s, j)
  <2>1. q \in Nat /\ q > 0 /\ j \in Nat /\ j > 0
    BY <1>1
  <2> QED BY <2>1, MarkerStays
<1>5. ListIsReadAt(s, q + 1, j - 1)
  BY <1>3, ListIsRead
<1>6. PICK m \in 0 .. (j - 1) - (q + 1) : ListRounds(s, q + 1, Marker(s, q))[m] = Read(j, Marker(s, j), l)
  BY <1>2, <1>3, <1>4, <1>5, Zenon DEF ListIsReadAt
<1>7. ListStep(s, Read(j, Marker(s, j), l)) = Read(j, Marker(s, j), l)
  <2>1. tok(s, j) # Comma
    BY <1>2, CommaIs
  <2> DEFINE r == Read(j, Marker(s, j), l)
  <2>2. r.p = j
    BY ReadIs
  <2> HIDE DEF r
  <2>3. ListStep(s, r) = r
    BY <2>1, <2>2, StepsStay
  <2> QED BY <2>3 DEF r
<1>8. ListRounds(s, q + 1, Marker(s, q))[Len(s)] = Read(j, Marker(s, j), l)
  <2>1. m \in 0 .. Len(s)
    BY <1>1, <1>3, <1>6
  <2> QED BY <1>1, <1>6, <1>7, <2>1, ListRoundsStay
<1> QED BY <1>2, <1>4, <1>8, ReadIs DEF parse_list, Expect

\* What stands from the word at q on, behind the operand a.
LEMMA NegatableIsRead ==
    ASSUME NEW s \in Seq(STRING), NEW q \in Nat \ {0}, NEW j \in 0 .. Len(s), NEW a, NEW negated,
           NEW e \in Negatables(s, Grammar(s), a.v, negated, q, j), a.n = Marker(s, q),
           tok(s, j + 1) \notin Stops
    PROVE  /\ parse_negatable(s, a, negated, q) = Read(j + 1, Marker(s, j + 1), e)
           /\ q \in 1 .. Len(s) /\ s[q] \in {"LIKE", "IN", "BETWEEN"}
<1>1. Len(s) \in Nat
  BY TokensAre
<1>2. q <= j /\ s[q] \in {"LIKE", "IN", "BETWEEN"}
  BY <1>1 DEF Negatables
<1>3. q \in 1 .. Len(s) /\ j \in 1 .. Len(s) /\ j \in q .. Len(s)
  BY <1>1, <1>2
<1>4. tok(s, q) = s[q]
  BY <1>3, TokensAre
<1>5. Marker(s, q + 1) = Marker(s, q)
  BY <1>2, MarkerStays
<1>6. CASE s[q] = "LIKE"
  <2>1. PICK b \in Operands(s, q + 1, j) : e = Like(a.v, negated, b)
    BY <1>2, <1>6 DEF Negatables
  <2>2. q + 1 \in 1 .. Len(s) /\ j \in q + 1 .. Len(s)
    <3>1. q + 1 > j => Operands(s, q + 1, j) = {}
      BY <1>1, OperandsHaveTokens
    <3> QED BY <1>1, <1>3, <3>1
  <2>3. parse_operand(s, q + 1, a.n) = Read(j + 1, Marker(s, j + 1), b)
    BY <1>5, <2>2, OperandIsRead
  <2>4. Unless(s, Read(j + 1, Marker(s, j + 1), b), {"ESCAPE"}) = Read(j + 1, Marker(s, j + 1), b)
    BY ReadIs DEF Unless, Stops
  <2> QED BY <1>2, <1>3, <1>4, <1>6, <2>1, <2>3, <2>4, ReadIs DEF parse_negatable, WithIn, WithLike
<1>7. CASE s[q] = "IN"
  <2>1. PICK l \in Grammar(s)[<<"list", q + 2, j - 1>>] : e = In(a.v, negated, l)
    BY <1>2, <1>7 DEF Negatables
  <2>2. q < j /\ s[q + 1] = "(" /\ s[j] = ")"
    BY <1>2, <1>7 DEF Negatables
  <2>3. q + 1 \in 1 .. Len(s) /\ j \in q + 1 .. Len(s) /\ q + 2 = (q + 1) + 1
    BY <1>1, <1>3, <2>2
  <2>4. q + 1 < j
    <3>1. q + 1 # j
      BY <2>2
    <3> QED BY <1>1, <2>3, <3>1
  <2>5. parse_list(s, q + 1, a.n) = Read(j + 1, Marker(s, j + 1), l)
    BY <1>5, <2>1, <2>2, <2>3, <2>4, ParenthesesAreRead
  <2> QED BY <1>2, <1>3, <1>4, <1>7, <2>1, <2>5, ReadIs DEF parse_negatable, WithIn, WithLike
<1>8. CASE s[q] = "BETWEEN"
  <2>1. e \in Betweens(s, a.v, negated, q + 1, j)
    BY <1>2, <1>8 DEF Negatables
  <2>2. PICK k \in Places(s, "AND", q + 1, j) :
               \E lo \in Operands(s, q + 1, k - 1), hi \in Operands(s, k + 1, j) : e = Between(a.v, negated, lo, hi)
    <3> DEFINE A(k) == {Between(a.v, negated, lo, hi) : lo \in Operands(s, q + 1, k - 1), hi \in Operands(s, k + 1, j)}
               P == Places(s, "AND", q + 1, j)
    <3>1. Betweens(s, a.v, negated, q + 1, j) = UNION {A(k) : k \in P}
      BY DEF Betweens
    <3>2. \E k \in P : e \in A(k)
      <4> HIDE DEF A, P
      <4> QED BY <2>1, <3>1
    <3> QED BY <3>2
  <2>3. PICK lo \in Operands(s, q + 1, k - 1), hi \in Operands(s, k + 1, j) : e = Between(a.v, negated, lo, hi)
    BY <2>2
  <2>4. k \in q + 1 .. j
    BY <2>2 DEF Places
  <2>5. s[k] = "AND"
    BY <2>2 DEF Places
  <2>6. k \in 1 .. Len(s) /\ k \in Nat /\ k > 0 /\ (k - 1) + 1 = k
    BY <1>1, <1>3, <2>4
  <2>7. tok(s, k) = "AND" /\ tok(s, k) \notin Stops
    BY <2>5, <2>6, TokensAre DEF Stops
  <2>8. Marker(s, k + 1) = Marker(s, k)
    BY <2>5, <2>6, MarkerStays
  <2>9. q + 1 \in 1 .. Len(s) /\ k - 1 \in q + 1 .. Len(s)
    <3>1. q + 1 > k - 1 => Operands(s, q + 1, k - 1) = {}
      BY <2>6, OperandsHaveTokens
    <3> QED BY <1>1, <1>3, <2>6, <3>1
  <2>10. k + 1 \in 1 .. Len(s) /\ j \in k + 1 .. Len(s)
    <3>1. k + 1 > j => Operands(s, k + 1, j) = {}
      BY <2>6, OperandsHaveTokens
    <3> QED BY <1>1, <1>3, <2>6, <3>1
  <2>11. parse_operand(s, q + 1, a.n) = Read(k, Marker(s, k), lo)
    <3>1. parse_operand(s, q + 1, Marker(s, q + 1)) = Read((k - 1) + 1, Marker(s, (k - 1) + 1), lo)
      BY <2>6, <2>7, <2>9, OperandIsRead
    <3> QED BY <1>5, <2>6, <3>1
  <2>12. parse_operand(s, k + 1, Marker(s, k)) = Read(j + 1, Marker(s, j + 1), hi)
    BY <2>8, <2>10, OperandIsRead
  <2>13. Expect(s, Read(k, Marker(s, k), lo), "AND") = Read(k + 1, Marker(s, k), lo)
    BY <2>7, ReadIs DEF Expect
  <2>14. parse_upper(s, a, negated, Read(k + 1, Marker(s, k), lo)) = Read(j + 1, Marker(s, j + 1), e)
    BY <2>3, <2>12, ReadIs DEF parse_upper
  <2> QED BY <1>2, <1>3, <1>4, <1>8, <2>11, <2>13, <2>14 DEF parse_negatable, WithIn, WithLike
<1> QED BY <1>2, <1>6, <1>7, <1>8

\* What stands behind the first operand of a predicate.
LEMMA RestIsRead ==
    ASSUME NEW s \in Seq(STRING), NEW i \in Nat \ {0}, NEW j \in 0 .. Len(s), NEW a,
           NEW e \in Predicates(s, Grammar(s), a, i, j), tok(s, j + 1) \notin Stops
    PROVE  /\ parse_rest(s, Read(i, Marker(s, i), a)) = Read(j + 1, Marker(s, j + 1), e)
           /\ tok(s, i) \notin Stops
<1>1. Len(s) \in Nat
  BY TokensAre
<1> DEFINE r == Read(i, Marker(s, i), a)
<1>2. r.ok /\ r.p = i /\ r.n = Marker(s, i) /\ r.v = a
  BY ReadIs
<1> HIDE DEF r
<1>3. \/ i <= j /\ s[i] \in Comparisons /\ \E b \in Operands(s, i + 1, j) : e = Compare(a, Negatable(s[i]), b)
      \/ j = i + 1 /\ s[i] = "IS" /\ s[j] = "NULL" /\ e = IsNull(a, FALSE)
      \/ j = i + 2 /\ s[i] = "IS" /\ s[i + 1] = "NOT" /\ s[j] = "NULL" /\ e = IsNull(a, TRUE)
      \/ e \in Negatables(s, Grammar(s), a, FALSE, i, j)
      \/ i <= j /\ s[i] = "NOT" /\ e \in Negatables(s, Grammar(s), a, TRUE, i + 1, j)
  BY DEF Predicates
<1>4. CASE i <= j /\ s[i] \in Comparisons /\ \E b \in Operands(s, i + 1, j) : e = Compare(a, Negatable(s[i]), b)
  <2>1. PICK b \in Operands(s, i + 1, j) : e = Compare(a, Negatable(s[i]), b)
    BY <1>4
  <2>2. i \in 1 .. Len(s) /\ i > 0
    BY <1>1, <1>4
  <2>3. tok(s, i) = s[i]
    BY <2>2, TokensAre
  <2>4. Marker(s, i + 1) = Marker(s, i)
    BY <1>4, <2>2, MarkerStays DEF Comparisons
  <2>5. i + 1 \in 1 .. Len(s) /\ j \in i + 1 .. Len(s)
    <3>1. i + 1 > j => Operands(s, i + 1, j) = {}
      BY <1>1, OperandsHaveTokens
    <3> QED BY <1>1, <2>2, <3>1
  <2>6. parse_operand(s, i + 1, Marker(s, i)) = Read(j + 1, Marker(s, j + 1), b)
    BY <2>4, <2>5, OperandIsRead
  <2>7. parse_rest(s, r) = Made(Read(j + 1, Marker(s, j + 1), b), Compare(a, Negatable(s[i]), b))
    <3>1. parse_operand(s, r.p + 1, r.n) = Read(j + 1, Marker(s, j + 1), b)
      BY <1>2, <2>6
    <3>2. tok(s, r.p) = s[i] /\ s[i] \in Comparisons
      BY <1>2, <1>4, <2>3
    <3> QED BY <1>2, <3>1, <3>2, ReadIs DEF parse_rest, WithCompare
  <2>8. tok(s, i) \notin Stops
    BY <1>4, <2>3 DEF Stops, Comparisons
  <2> QED BY <2>1, <2>7, <2>8, ReadIs DEF r
<1>5. CASE j = i + 1 /\ s[i] = "IS" /\ s[j] = "NULL" /\ e = IsNull(a, FALSE)
  <2>1. i \in 1 .. Len(s) /\ i + 1 \in 1 .. Len(s) /\ i > 0 /\ i + 1 > 0 /\ i + 1 \in Nat
    BY <1>1, <1>5
  <2>2. tok(s, i) = "IS" /\ tok(s, i + 1) = "NULL"
    BY <1>5, <2>1, TokensAre
  <2>3. Marker(s, i + 1) = Marker(s, i) /\ Marker(s, (i + 1) + 1) = Marker(s, i + 1)
    BY <1>5, <2>1, MarkerStays
  <2>4. parse_rest(s, r) = Expect(s, Read(i + 1, Marker(s, i), IsNull(a, FALSE)), "NULL")
    BY <1>2, <2>2 DEF parse_rest, Comparisons, WithCompare
  <2>5. tok(s, i) \notin Stops
    BY <2>2 DEF Stops
  <2>6. Expect(s, Read(i + 1, Marker(s, i), IsNull(a, FALSE)), "NULL") = Read((i + 1) + 1, Marker(s, i), IsNull(a, FALSE))
    <3>1. ASSUME NEW v PROVE Expect(s, Read(i + 1, Marker(s, i), v), "NULL") = Read((i + 1) + 1, Marker(s, i), v)
      BY <2>2, ExpectReads
    <3> QED BY <3>1, Zenon
  <2>7. Marker(s, j + 1) = Marker(s, i) /\ (i + 1) + 1 = j + 1 /\ e = IsNull(a, FALSE)
    BY <1>5, <2>3
  <2> QED BY <2>4, <2>5, <2>6, <2>7 DEF r
<1>6. CASE j = i + 2 /\ s[i] = "IS" /\ s[i + 1] = "NOT" /\ s[j] = "NULL" /\ e = IsNull(a, TRUE)
  <2>1. i \in 1 .. Len(s) /\ i + 1 \in 1 .. Len(s) /\ i > 0 /\ i + 1 > 0 /\ i + 1 \in Nat /\ i + 2 \in 1 .. Len(s)
        /\ i + 2 > 0 /\ i + 2 \in Nat /\ (i + 1) + 1 = i + 2
    BY <1>1, <1>6
  <2>2. tok(s, i) = "IS" /\ tok(s, i + 1) = "NOT" /\ tok(s, i + 2) = "NULL"
    BY <1>6, <2>1, TokensAre
  <2>3. Marker(s, i + 1) = Marker(s, i) /\ Marker(s, (i + 1) + 1) = Marker(s, i + 1) /\ Marker(s, (i + 2) + 1) = Marker(s, i + 2)
    BY <1>6, <2>1, MarkerStays
  <2>4. parse_rest(s, r) = Expect(s, Read(i + 2, Marker(s, i), IsNull(a, TRUE)), "NULL")
    BY <1>2, <2>2 DEF parse_rest, Comparisons, WithCompare
  <2>5. tok(s, i) \notin Stops
    BY <2>2 DEF Stops
  <2>6. Expect(s, Read(i + 2, Marker(s, i), IsNull(a, TRUE)), "NULL") = Read((i + 2) + 1, Marker(s, i), IsNull(a, TRUE))
    <3>1. ASSUME NEW v PROVE Expect(s, Read(i + 2, Marker(s, i), v), "NULL") = Read((i + 2) + 1, Marker(s, i), v)
      BY <2>2, ExpectReads
    <3> QED BY <3>1, Zenon
  <2>7. Marker(s, j + 1) = Marker(s, i) /\ (i + 2) + 1 = j + 1 /\ e = IsNull(a, TRUE)
    BY <1>6, <2>1, <2>3
  <2> QED BY <2>4, <2>5, <2>6, <2>7 DEF r
<1>7. CASE e \in Negatables(s, Grammar(s), a, FALSE, i, j)
  <2>1. parse_negatable(s, r, FALSE, i) = Read(j + 1, Marker(s, j + 1), e) /\ i \in 1 .. Len(s) /\ s[i] \in {"LIKE", "IN", "BETWEEN"}
    <3>1. e \in Negatables(s, Grammar(s), r.v, FALSE, i, j)
      BY <1>2, <1>7
    <3>2. ASSUME NEW negated, e \in Negatables(s, Grammar(s), r.v, negated, i, j)
          PROVE  parse_negatable(s, r, negated, i) = Read(j + 1, Marker(s, j + 1), e) /\ i \in 1 .. Len(s) /\ s[i] \in {"LIKE", "IN", "BETWEEN"}
      BY <1>2, <3>2, NegatableIsRead
    <3> QED BY <3>1, <3>2, Zenon
  <2>2. tok(s, i) \in {"LIKE", "IN", "BETWEEN"}
    BY <2>1, TokensAre
  <2>3. tok(s, i) \notin Stops
    BY <2>2 DEF Stops
  <2> QED BY <1>2, <2>1, <2>2, <2>3 DEF r, parse_rest, Comparisons, WithCompare
<1>8. CASE i <= j /\ s[i] = "NOT" /\ e \in Negatables(s, Grammar(s), a, TRUE, i + 1, j)
  <2>0. i \in 1 .. Len(s) /\ i > 0 /\ i + 1 \in Nat \ {0}
    BY <1>1, <1>8
  <2>1. Marker(s, i + 1) = Marker(s, i)
    BY <1>8, <2>0, MarkerStays
  <2>2. parse_negatable(s, r, TRUE, i + 1) = Read(j + 1, Marker(s, j + 1), e)
    <3>1. e \in Negatables(s, Grammar(s), r.v, TRUE, i + 1, j)
      BY <1>2, <1>8
    <3>2. r.n = Marker(s, i + 1)
      BY <1>2, <2>1
    <3>3. ASSUME NEW negated, e \in Negatables(s, Grammar(s), r.v, negated, i + 1, j)
          PROVE  parse_negatable(s, r, negated, i + 1) = Read(j + 1, Marker(s, j + 1), e)
      BY <2>0, <3>2, <3>3, NegatableIsRead
    <3> QED BY <3>1, <3>3, Zenon
  <2>3. tok(s, i) = "NOT"
    BY <1>8, <2>0, TokensAre
  <2>4. tok(s, i) \notin Stops
    BY <2>3 DEF Stops
  <2> QED BY <1>2, <2>2, <2>3, <2>4 DEF r, parse_rest, Comparisons, WithCompare
<1> QED BY <1>3, <1>4, <1>5, <1>6, <1>7, <1>8 DEF r

\* What the grammar sees in a span is read from its first token on, given enough levels.
NotIsReadAt(s, i, j) ==
    \A e \in Grammar(s)[<<"not", i, j>>], d \in 0 .. Len(s) :
        tok(s, j + 1) \notin Stops /\ j - i <= d =>
            parse_not(s, Nested(s)[d], i, Marker(s, i)) = Read(j + 1, Marker(s, j + 1), e) /\ s[i] # "SELECT"

AndIsReadAt(s, i, j) ==
    \A e \in Grammar(s)[<<"and", i, j>>], d \in 0 .. Len(s) :
        tok(s, j + 1) \notin Stops /\ j - i <= d =>
            (\E m \in 0 .. j - i : AndRounds(s, Nested(s)[d], i, Marker(s, i))[m] = Read(j + 1, Marker(s, j + 1), e)) /\ s[i] # "SELECT"

OrIsReadAt(s, i, j) ==
    \A e \in Grammar(s)[<<"or", i, j>>], d \in 0 .. Len(s) :
        tok(s, j + 1) \notin Stops /\ tok(s, j + 1) # "AND" /\ j - i <= d =>
            (\E m \in 0 .. j - i : OrRounds(s, Nested(s)[d], i, Marker(s, i))[m] = Read(j + 1, Marker(s, j + 1), e)) /\ s[i] # "SELECT"

\* Arithmetic of the rounds: a round inside a span has a next one inside it.
LEMMA RoundsFit ==
    ASSUME NEW n \in Nat, NEW i \in 1 .. n, NEW j \in i .. n, NEW k \in 1 .. n, k + 1 <= j, NEW m \in 0 .. (k - 1) - i
    PROVE  m + 1 \in 1 .. n /\ m + 1 \in 0 .. j - i /\ (m + 1) - 1 = m
OBVIOUS

\* All calls at a level.
LEMMA CallsAre ==
    ASSUME NEW s, Len(s) \in Nat, NEW d \in 1 .. Len(s), NEW p \in Nat, NEW n \in Nat
    PROVE  /\ Nested(s)[d][<<"not", p, n>>] = parse_not(s, Nested(s)[d - 1], p, n)
           /\ Nested(s)[d][<<"or", p, n>>] = parse_or(s, Nested(s)[d - 1], p, n)
<1>1. Nested(s)[d] = Calling(s, Nested(s)[d - 1])
  BY NestedAre
<1>2. <<"not", p, n>> \in Calls /\ <<"or", p, n>> \in Calls
  BY DEF Calls
<1> DEFINE below == Nested(s)[d - 1]
<1> HIDE DEF below
<1>3. Calling(s, below)[<<"not", p, n>>] = parse_not(s, below, p, n)
  BY <1>2 DEF Calling
<1>4. Calling(s, below)[<<"or", p, n>>] = parse_or(s, below, p, n)
  BY <1>2 DEF Calling
<1> QED BY <1>1, <1>3, <1>4 DEF below

\* The last round of AND, and of OR.
LEMMA AndIsReadWhole ==
    ASSUME NEW s \in Seq(STRING), NEW i \in 1 .. Len(s), NEW j \in i .. Len(s), AndIsReadAt(s, i, j),
           NEW e \in Grammar(s)[<<"and", i, j>>], NEW d \in 0 .. Len(s), j - i <= d,
           tok(s, j + 1) \notin Stops, tok(s, j + 1) # "AND"
    PROVE  parse_and(s, Nested(s)[d], i, Marker(s, i)) = Read(j + 1, Marker(s, j + 1), e) /\ s[i] # "SELECT"
<1> DEFINE below == Nested(s)[d]
           r == Read(j + 1, Marker(s, j + 1), e)
<1>0. Len(s) \in Nat
  BY TokensAre
<1>1. s[i] # "SELECT" /\ \E m \in 0 .. j - i : AndRounds(s, below, i, Marker(s, i))[m] = r
  BY DEF AndIsReadAt
<1>2. PICK m \in 0 .. j - i : AndRounds(s, below, i, Marker(s, i))[m] = r
  BY <1>1
<1>3. r.p = j + 1
  BY ReadIs
<1> HIDE DEF below, r
<1>4. AndStep(s, below, r) = r
  BY <1>3, StepsStay
<1>5. m \in 0 .. Len(s)
  BY <1>0
<1>6. AndRounds(s, below, i, Marker(s, i))[Len(s)] = r
  BY <1>0, <1>2, <1>4, <1>5, AndRoundsStay
<1> QED BY <1>1, <1>6 DEF parse_and, below, r

\* A disjunction that no AND or OR follows is read to its end by parse_or, at any deeper level.
LEMMA OrIsReadWhole ==
    ASSUME NEW s \in Seq(STRING), NEW i \in 1 .. Len(s), NEW j \in i .. Len(s), OrIsReadAt(s, i, j),
           NEW e \in Grammar(s)[<<"or", i, j>>], NEW d \in 0 .. Len(s), j - i <= d,
           tok(s, j + 1) \notin Stops, tok(s, j + 1) # "AND", tok(s, j + 1) # "OR"
    PROVE  parse_or(s, Nested(s)[d], i, Marker(s, i)) = Read(j + 1, Marker(s, j + 1), e) /\ s[i] # "SELECT"
<1> DEFINE below == Nested(s)[d]
           r == Read(j + 1, Marker(s, j + 1), e)
<1>0. Len(s) \in Nat
  BY TokensAre
<1>1. s[i] # "SELECT" /\ \E m \in 0 .. j - i : OrRounds(s, below, i, Marker(s, i))[m] = r
  BY DEF OrIsReadAt
<1>2. PICK m \in 0 .. j - i : OrRounds(s, below, i, Marker(s, i))[m] = r
  BY <1>1
<1>3. r.p = j + 1
  BY ReadIs
<1> HIDE DEF below, r
<1>4. OrStep(s, below, r) = r
  BY <1>3, StepsStay
<1>5. m \in 0 .. Len(s)
  BY <1>0
<1>6. OrRounds(s, below, i, Marker(s, i))[Len(s)] = r
  BY <1>0, <1>2, <1>4, <1>5, OrRoundsStay
<1> QED BY <1>1, <1>6 DEF parse_or, below, r

\* A negation, a condition in parentheses, and a predicate.
LEMMA NotIsRead ==
    ASSUME NEW s \in Seq(STRING), NEW i \in 1 .. Len(s), NEW j \in i .. Len(s),
           \A a \in i .. j : \A b \in a .. j : b - a < j - i => NotIsReadAt(s, a, b) /\ OrIsReadAt(s, a, b)
    PROVE  NotIsReadAt(s, i, j)
<1>0. Len(s) \in Nat /\ i \in 1 .. Len(s) + 1 /\ j \in 0 .. Len(s) /\ i \in Nat /\ i > 0
  BY TokensAre
<1>1. SUFFICES ASSUME NEW e \in Grammar(s)[<<"not", i, j>>], NEW d \in 0 .. Len(s), tok(s, j + 1) \notin Stops, j - i <= d
               PROVE  parse_not(s, Nested(s)[d], i, Marker(s, i)) = Read(j + 1, Marker(s, j + 1), e) /\ s[i] # "SELECT"
  BY DEF NotIsReadAt
<1>2. tok(s, i) = s[i] /\ tok(s, j) = s[j]
  <2>1. j \in 1 .. Len(s)
    BY <1>0
  <2> QED BY <2>1, TokensAre
<1> DEFINE below == Nested(s)[d]
<1>3. \/ i <= j /\ s[i] = "NOT" /\ \E x \in Grammar(s)[<<"not", i + 1, j>>] : e = Not(x)
      \/ i < j /\ s[i] = "(" /\ s[j] = ")" /\ e \in Grammar(s)[<<"or", i + 1, j - 1>>]
      \/ \E k \in {i, i + 1} : k <= j /\ s[i] # "EXISTS" /\ \E a \in Operands(s, i, k) : e \in Predicates(s, Grammar(s), a, k + 1, j)
  <2>1. i \in 1 .. Len(s) + 1 /\ j \in 0 .. Len(s)
    BY <1>0
  <2> QED BY <1>0, <2>1, NotHas
<1>4. ASSUME s[i] = "NOT", NEW x \in Grammar(s)[<<"not", i + 1, j>>], e = Not(x)
      PROVE  parse_not(s, below, i, Marker(s, i)) = Read(j + 1, Marker(s, j + 1), e) /\ s[i] # "SELECT"
  <2>1. i + 1 <= j
    <3>1. i + 1 > j => Grammar(s)[<<"not", i + 1, j>>] = {}
      <4>1. i + 1 \in 1 .. Len(s) + 1 /\ j \in 0 .. Len(s)
        BY <1>0
      <4> QED BY <1>0, <4>1, NothingToRead
    <3> QED BY <1>0, <3>1
  <2>2. i + 1 \in i .. j /\ j \in i + 1 .. j /\ j - (i + 1) < j - i /\ d \in 1 .. Len(s) /\ d - 1 \in 0 .. Len(s)
        /\ j - (i + 1) <= d - 1 /\ i + 1 \in Nat
    BY <1>0, <1>1, <2>1
  <2>3. NotIsReadAt(s, i + 1, j)
    BY <2>2
  <2>4. parse_not(s, Nested(s)[d - 1], i + 1, Marker(s, i + 1)) = Read(j + 1, Marker(s, j + 1), x)
    BY <1>1, <2>2, <2>3 DEF NotIsReadAt
  <2>5. Marker(s, i + 1) = Marker(s, i) /\ Marker(s, i) \in Nat
    <3>1. i \in Nat \ {0}
      BY <1>0
    <3> QED BY <1>0, <1>4, <3>1, MarkerStays, MarkersCount
  <2>6. below[<<"not", i + 1, Marker(s, i)>>] = Read(j + 1, Marker(s, j + 1), x)
    <3>1. Len(s) \in Nat /\ d \in 1 .. Len(s) /\ i + 1 \in Nat /\ Marker(s, i) \in Nat
      BY <1>0, <2>2, <2>5
    <3>2. below[<<"not", i + 1, Marker(s, i)>>] = parse_not(s, Nested(s)[d - 1], i + 1, Marker(s, i))
      BY <3>1, CallsAre
    <3> QED BY <2>4, <2>5, <3>2
  <2> HIDE DEF below
  <2> QED BY <1>2, <1>4, <2>6, ReadIs DEF parse_not
<1>5. ASSUME i < j, s[i] = "(", s[j] = ")", e \in Grammar(s)[<<"or", i + 1, j - 1>>]
      PROVE  parse_not(s, below, i, Marker(s, i)) = Read(j + 1, Marker(s, j + 1), e) /\ s[i] # "SELECT"
  <2>1. i + 1 <= j - 1
    <3>1. i + 1 > j - 1 => Grammar(s)[<<"or", i + 1, j - 1>>] = {}
      <4>1. i + 1 \in 1 .. Len(s) + 1 /\ j - 1 \in 0 .. Len(s)
        BY <1>0, <1>5
      <4> QED BY <1>0, <4>1, NothingToRead
    <3>2. ~(i + 1 > j - 1)
      BY <1>5, <3>1
    <3> QED BY <1>0, <3>2
  <2>2. i + 1 \in i .. j /\ j - 1 \in i + 1 .. j /\ (j - 1) - (i + 1) < j - i /\ d \in 1 .. Len(s) /\ d - 1 \in 0 .. Len(s)
        /\ (j - 1) - (i + 1) <= d - 1 /\ i + 1 \in Nat /\ (j - 1) + 1 = j
    BY <1>0, <1>1, <2>1
  <2>3. i + 1 \in 1 .. Len(s) /\ j - 1 \in i + 1 .. Len(s)
    BY <1>0, <2>1
  <2>4. OrIsReadAt(s, i + 1, j - 1)
    BY <2>2
  <2>5. tok(s, j) \notin Stops /\ tok(s, j) # "AND" /\ tok(s, j) # "OR"
    BY <1>2, <1>5 DEF Stops
  <2>6. parse_or(s, Nested(s)[d - 1], i + 1, Marker(s, i + 1)) = Read(j, Marker(s, j), e) /\ s[i + 1] # "SELECT"
    <3>1. tok(s, (j - 1) + 1) \notin Stops /\ tok(s, (j - 1) + 1) # "AND" /\ tok(s, (j - 1) + 1) # "OR"
      BY <2>2, <2>5
    <3>2. parse_or(s, Nested(s)[d - 1], i + 1, Marker(s, i + 1)) = Read((j - 1) + 1, Marker(s, (j - 1) + 1), e) /\ s[i + 1] # "SELECT"
      BY <1>5, <2>2, <2>3, <2>4, <3>1, OrIsReadWhole
    <3> QED BY <2>2, <3>2
  <2>7. Marker(s, i + 1) = Marker(s, i) /\ Marker(s, i) \in Nat /\ Marker(s, j + 1) = Marker(s, j)
    <3>1. i \in Nat \ {0} /\ j \in Nat /\ j > 0
      BY <1>0, <1>5
    <3> QED BY <1>0, <1>5, <3>1, MarkerStays, MarkersCount
  <2>8. below[<<"or", i + 1, Marker(s, i)>>] = Read(j, Marker(s, j), e)
    <3>1. Len(s) \in Nat /\ d \in 1 .. Len(s) /\ i + 1 \in Nat /\ Marker(s, i) \in Nat
      BY <1>0, <2>2, <2>7
    <3>2. below[<<"or", i + 1, Marker(s, i)>>] = parse_or(s, Nested(s)[d - 1], i + 1, Marker(s, i))
      BY <3>1, CallsAre
    <3> QED BY <2>6, <2>7, <3>2
  <2>9. Expect(s, Read(j, Marker(s, j), e), ")") = Read(j + 1, Marker(s, j), e)
    BY <1>2, <1>5, ExpectReads
  <2>10. tok(s, i) = "(" /\ tok(s, i + 1) # "SELECT"
    BY <1>2, <1>5, <2>3, <2>6, TokensAre
  <2> HIDE DEF below
  <2>11. parse_predicate(s, below, i, Marker(s, i)) = Read(j + 1, Marker(s, j), e)
    BY <2>8, <2>9, <2>10 DEF parse_predicate
  <2> QED BY <1>5, <2>7, <2>10, <2>11 DEF parse_not
<1>6. ASSUME NEW k \in {i, i + 1}, k <= j, s[i] # "EXISTS", NEW a \in Operands(s, i, k), e \in Predicates(s, Grammar(s), a, k + 1, j)
      PROVE  parse_not(s, below, i, Marker(s, i)) = Read(j + 1, Marker(s, j + 1), e) /\ s[i] # "SELECT"
  <2>1. k \in i .. Len(s) /\ k + 1 \in Nat \ {0} /\ j \in 0 .. Len(s)
    BY <1>0, <1>6
  <2>2. /\ parse_rest(s, Read(k + 1, Marker(s, k + 1), a)) = Read(j + 1, Marker(s, j + 1), e)
        /\ tok(s, k + 1) \notin Stops
    BY <1>1, <1>6, <2>1, RestIsRead
  <2>3. /\ parse_operand(s, i, Marker(s, i)) = Read(k + 1, Marker(s, k + 1), a)
        /\ s[i] \notin {"NOT", "(", "SELECT"}
    BY <2>1, <2>2, OperandIsRead
  <2> HIDE DEF below
  <2> QED BY <1>2, <1>6, <2>2, <2>3 DEF parse_not, parse_predicate
<1> QED BY <1>3, <1>4, <1>5, <1>6

\* parse_and reads a span if the spans it is made of are read,
LEMMA AndIsRead ==
    ASSUME NEW s \in Seq(STRING), NEW i \in 1 .. Len(s), NEW j \in i .. Len(s), NotIsReadAt(s, i, j),
           \A k \in i .. j : (i <= k - 1 => AndIsReadAt(s, i, k - 1)) /\ (k + 1 <= j => NotIsReadAt(s, k + 1, j))
    PROVE  AndIsReadAt(s, i, j)
<1>0. Len(s) \in Nat /\ i \in 1 .. Len(s) + 1 /\ j \in 0 .. Len(s) /\ i \in Nat /\ i > 0
  BY TokensAre
<1>1. SUFFICES ASSUME NEW e \in Grammar(s)[<<"and", i, j>>], NEW d \in 0 .. Len(s), tok(s, j + 1) \notin Stops, j - i <= d
               PROVE  (\E m \in 0 .. j - i : AndRounds(s, Nested(s)[d], i, Marker(s, i))[m] = Read(j + 1, Marker(s, j + 1), e)) /\ s[i] # "SELECT"
  BY DEF AndIsReadAt
<1> DEFINE below == Nested(s)[d]
           M == Marker(s, i)
<1>2. \/ e \in Grammar(s)[<<"not", i, j>>]
      \/ \E k \in Places(s, "AND", i, j) :
           \E l \in Grammar(s)[<<"and", i, k - 1>>], r \in Grammar(s)[<<"not", k + 1, j>>] : e = And(l, r)
  <2>1. i \in 1 .. Len(s) + 1 /\ j \in 0 .. Len(s)
    BY <1>0
  <2>2. Len(s) \in Nat /\ e \in Grammar(s)[<<"and", i, j>>]
    BY <1>0, <1>1
  <2>3. e \in Grammar(s)[<<"not", i, j>>] \/ IsAnd(s, i, j, e)
    BY <2>1, <2>2, AndHas
  <2> QED BY <2>3 DEF IsAnd
<1>3. /\ AndRounds(s, below, i, M)[0] = parse_not(s, below, i, M)
      /\ \A k \in 1 .. Len(s) : AndRounds(s, below, i, M)[k] = AndStep(s, below, AndRounds(s, below, i, M)[k - 1])
  BY <1>0, AndRoundsAre
<1>4. ASSUME e \in Grammar(s)[<<"not", i, j>>]
      PROVE  (\E m \in 0 .. j - i : AndRounds(s, below, i, M)[m] = Read(j + 1, Marker(s, j + 1), e)) /\ s[i] # "SELECT"
  <2>1. parse_not(s, below, i, M) = Read(j + 1, Marker(s, j + 1), e) /\ s[i] # "SELECT"
    BY <1>1, <1>4 DEF NotIsReadAt
  <2>2. 0 \in 0 .. j - i
    BY <1>0
  <2> QED BY <1>3, <2>1, <2>2
<1>5. ASSUME NEW k \in Places(s, "AND", i, j), NEW l \in Grammar(s)[<<"and", i, k - 1>>],
             NEW r \in Grammar(s)[<<"not", k + 1, j>>], e = And(l, r)
      PROVE  (\E m \in 0 .. j - i : AndRounds(s, below, i, M)[m] = Read(j + 1, Marker(s, j + 1), e)) /\ s[i] # "SELECT"
  <2>1. k \in i .. j
    BY DEF Places
  <2>2. s[k] = "AND"
    BY DEF Places
  <2>3. k \in 1 .. Len(s) /\ k \in Nat /\ k > 0 /\ k - 1 \in 0 .. Len(s) /\ k + 1 \in 1 .. Len(s) + 1 /\ (k - 1) + 1 = k /\ j \in 0 .. Len(s)
    BY <1>0, <2>1
  <2>4. tok(s, k) = "AND" /\ tok(s, k) \notin Stops
    BY <2>2, <2>3, TokensAre DEF Stops
  <2>5. Marker(s, k + 1) = Marker(s, k)
    BY <2>2, <2>3, MarkerStays
  <2>6. i <= k - 1 /\ k + 1 <= j
    <3>1. i > k - 1 => Grammar(s)[<<"and", i, k - 1>>] = {}
      BY <1>0, <2>3, NothingToRead
    <3>2. k + 1 > j => Grammar(s)[<<"not", k + 1, j>>] = {}
      BY <1>0, <2>3, NothingToRead
    <3>3. ~(i > k - 1) /\ ~(k + 1 > j)
      BY <3>1, <3>2
    <3> QED BY <1>0, <2>3, <3>3
  <2>7. AndIsReadAt(s, i, k - 1) /\ NotIsReadAt(s, k + 1, j)
    BY <2>1, <2>6
  <2>8. (k - 1) - i <= d /\ j - (k + 1) <= d
    BY <1>0, <1>1, <2>3, <2>6
  <2>9. s[i] # "SELECT" /\ \E m \in 0 .. (k - 1) - i : AndRounds(s, below, i, M)[m] = Read(k, Marker(s, k), l)
    <3>1. tok(s, (k - 1) + 1) \notin Stops /\ tok(s, (k - 1) + 1) = "AND"
      BY <2>3, <2>4
    <3>2. s[i] # "SELECT" /\ \E m \in 0 .. (k - 1) - i : AndRounds(s, below, i, M)[m] = Read((k - 1) + 1, Marker(s, (k - 1) + 1), l)
      BY <2>7, <2>8, <3>1 DEF AndIsReadAt
    <3> QED BY <2>3, <3>2
  <2>10. PICK m \in 0 .. (k - 1) - i : AndRounds(s, below, i, M)[m] = Read(k, Marker(s, k), l)
    BY <2>9
  <2>11. parse_not(s, below, k + 1, Marker(s, k)) = Read(j + 1, Marker(s, j + 1), r)
    BY <1>1, <2>5, <2>7, <2>8 DEF NotIsReadAt
  <2>12. m + 1 \in 1 .. Len(s) /\ m + 1 \in 0 .. j - i /\ (m + 1) - 1 = m
    <3>1. k + 1 <= j /\ k \in 1 .. Len(s)
      BY <2>3, <2>6
    <3> QED BY <1>0, <3>1, RoundsFit
  <2> HIDE DEF below, M
  <2>13. AndRounds(s, below, i, M)[m + 1] = AndStep(s, below, Read(k, Marker(s, k), l))
    BY <1>3, <2>10, <2>12
  <2>14. AndStep(s, below, Read(k, Marker(s, k), l)) = Read(j + 1, Marker(s, j + 1), And(l, r))
    BY <2>4, <2>11, AndStepReads
  <2> QED BY <1>5, <2>9, <2>12, <2>13, <2>14
<1> QED BY <1>2, <1>4, <1>5

\* so does parse_or,
LEMMA OrIsRead ==
    ASSUME NEW s \in Seq(STRING), NEW i \in 1 .. Len(s), NEW j \in i .. Len(s), AndIsReadAt(s, i, j),
           \A k \in i .. j : (i <= k - 1 => OrIsReadAt(s, i, k - 1)) /\ (k + 1 <= j => AndIsReadAt(s, k + 1, j))
    PROVE  OrIsReadAt(s, i, j)
<1>0. Len(s) \in Nat /\ i \in 1 .. Len(s) + 1 /\ j \in 0 .. Len(s) /\ i \in Nat /\ i > 0
  BY TokensAre
<1>1. SUFFICES ASSUME NEW e \in Grammar(s)[<<"or", i, j>>], NEW d \in 0 .. Len(s), tok(s, j + 1) \notin Stops, tok(s, j + 1) # "AND", j - i <= d
               PROVE  (\E m \in 0 .. j - i : OrRounds(s, Nested(s)[d], i, Marker(s, i))[m] = Read(j + 1, Marker(s, j + 1), e)) /\ s[i] # "SELECT"
  BY DEF OrIsReadAt
<1> DEFINE below == Nested(s)[d]
           M == Marker(s, i)
<1>2. \/ e \in Grammar(s)[<<"and", i, j>>]
      \/ \E k \in Places(s, "OR", i, j) :
           \E l \in Grammar(s)[<<"or", i, k - 1>>], r \in Grammar(s)[<<"and", k + 1, j>>] : e = Or(l, r)
  <2>1. i \in 1 .. Len(s) + 1 /\ j \in 0 .. Len(s)
    BY <1>0
  <2>2. Len(s) \in Nat /\ e \in Grammar(s)[<<"or", i, j>>]
    BY <1>0, <1>1
  <2>3. e \in Grammar(s)[<<"and", i, j>>] \/ IsOr(s, i, j, e)
    BY <2>1, <2>2, OrHas
  <2> QED BY <2>3 DEF IsOr
<1>3. /\ OrRounds(s, below, i, M)[0] = parse_and(s, below, i, M)
      /\ \A k \in 1 .. Len(s) : OrRounds(s, below, i, M)[k] = OrStep(s, below, OrRounds(s, below, i, M)[k - 1])
  BY <1>0, OrRoundsAre
<1>4. ASSUME e \in Grammar(s)[<<"and", i, j>>]
      PROVE  (\E m \in 0 .. j - i : OrRounds(s, below, i, M)[m] = Read(j + 1, Marker(s, j + 1), e)) /\ s[i] # "SELECT"
  <2>1. parse_and(s, below, i, M) = Read(j + 1, Marker(s, j + 1), e) /\ s[i] # "SELECT"
    BY <1>1, <1>4, AndIsReadWhole
  <2>2. 0 \in 0 .. j - i
    BY <1>0
  <2> QED BY <1>3, <2>1, <2>2
<1>5. ASSUME NEW k \in Places(s, "OR", i, j), NEW l \in Grammar(s)[<<"or", i, k - 1>>],
             NEW r \in Grammar(s)[<<"and", k + 1, j>>], e = Or(l, r)
      PROVE  (\E m \in 0 .. j - i : OrRounds(s, below, i, M)[m] = Read(j + 1, Marker(s, j + 1), e)) /\ s[i] # "SELECT"
  <2>1. k \in i .. j
    BY DEF Places
  <2>2. s[k] = "OR"
    BY DEF Places
  <2>3. k \in 1 .. Len(s) /\ k \in Nat /\ k > 0 /\ k - 1 \in 0 .. Len(s) /\ k + 1 \in 1 .. Len(s) + 1 /\ (k - 1) + 1 = k /\ j \in 0 .. Len(s)
    BY <1>0, <2>1
  <2>4. tok(s, k) = "OR" /\ tok(s, k) \notin Stops
    BY <2>2, <2>3, TokensAre DEF Stops
  <2>5. Marker(s, k + 1) = Marker(s, k)
    BY <2>2, <2>3, MarkerStays
  <2>6. i <= k - 1 /\ k + 1 <= j
    <3>1. i > k - 1 => Grammar(s)[<<"or", i, k - 1>>] = {}
      BY <1>0, <2>3, NothingToRead
    <3>2. k + 1 > j => Grammar(s)[<<"and", k + 1, j>>] = {}
      BY <1>0, <2>3, NothingToRead
    <3>3. ~(i > k - 1) /\ ~(k + 1 > j)
      BY <3>1, <3>2
    <3> QED BY <1>0, <2>3, <3>3
  <2>7. OrIsReadAt(s, i, k - 1) /\ AndIsReadAt(s, k + 1, j)
    BY <2>1, <2>6
  <2>8. (k - 1) - i <= d /\ j - (k + 1) <= d
    BY <1>0, <1>1, <2>3, <2>6
  <2>9. s[i] # "SELECT" /\ \E m \in 0 .. (k - 1) - i : OrRounds(s, below, i, M)[m] = Read(k, Marker(s, k), l)
    <3>1. tok(s, (k - 1) + 1) \notin Stops /\ tok(s, (k - 1) + 1) = "OR"
      BY <2>3, <2>4
    <3>2. s[i] # "SELECT" /\ \E m \in 0 .. (k - 1) - i : OrRounds(s, below, i, M)[m] = Read((k - 1) + 1, Marker(s, (k - 1) + 1), l)
      BY <2>7, <2>8, <3>1 DEF OrIsReadAt
    <3> QED BY <2>3, <3>2
  <2>10. PICK m \in 0 .. (k - 1) - i : OrRounds(s, below, i, M)[m] = Read(k, Marker(s, k), l)
    BY <2>9
  <2>11. parse_and(s, below, k + 1, Marker(s, k)) = Read(j + 1, Marker(s, j + 1), r)
    <3>1. k + 1 \in 1 .. Len(s) /\ j \in k + 1 .. Len(s)
      BY <1>0, <2>3, <2>6
    <3> QED BY <1>1, <2>5, <2>7, <2>8, <3>1, AndIsReadWhole
  <2>12. m + 1 \in 1 .. Len(s) /\ m + 1 \in 0 .. j - i /\ (m + 1) - 1 = m
    <3>1. k + 1 <= j /\ k \in 1 .. Len(s)
      BY <2>3, <2>6
    <3> QED BY <1>0, <3>1, RoundsFit
  <2> HIDE DEF below, M
  <2>13. OrRounds(s, below, i, M)[m + 1] = OrStep(s, below, Read(k, Marker(s, k), l))
    BY <1>3, <2>10, <2>12
  <2>14. OrStep(s, below, Read(k, Marker(s, k), l)) = Read(j + 1, Marker(s, j + 1), Or(l, r))
    BY <2>4, <2>11, OrStepReads
  <2> QED BY <1>5, <2>9, <2>12, <2>13, <2>14
<1> QED BY <1>2, <1>4, <1>5

\* so that by induction over their widths all spans are read with each of their readings.
LEMMA SpansAreRead ==
    ASSUME NEW s \in Seq(STRING)
    PROVE  \A i \in 1 .. Len(s) : \A j \in i .. Len(s) : NotIsReadAt(s, i, j) /\ AndIsReadAt(s, i, j) /\ OrIsReadAt(s, i, j)
<1> DEFINE All(i, j) == NotIsReadAt(s, i, j) /\ AndIsReadAt(s, i, j) /\ OrIsReadAt(s, i, j)
           T == {w \in Nat : \A i \in 1 .. Len(s) : \A j \in i .. Len(s) : j - i = w => All(i, j)}
<1>0. Len(s) \in Nat
  BY TokensAre
<1>1. ASSUME NEW w \in Nat, \A v \in 0 .. w - 1 : v \in T,
             NEW i \in 1 .. Len(s), NEW j \in i .. Len(s), j - i = w
      PROVE  All(i, j)
  <2>1. ASSUME NEW a \in i .. j, NEW b \in a .. j, b - a < j - i PROVE All(a, b)
    <3>1. a \in 1 .. Len(s) /\ b \in a .. Len(s) /\ b - a \in 0 .. w - 1
      <4> HIDE DEF T
      <4> QED BY <1>0, <1>1, <2>1
    <3>2. b - a \in T
      BY <1>1, <3>1, Zenon
    <3> QED BY <3>1, <3>2
  <2> HIDE DEF T
  <2>2. NotIsReadAt(s, i, j)
    BY <2>1, NotIsRead
  <2>3. ASSUME NEW k \in i .. j
        PROVE  (i <= k - 1 => All(i, k - 1)) /\ (k + 1 <= j => All(k + 1, j))
    <3>1. /\ i <= k - 1 => i \in i .. j /\ k - 1 \in i .. j /\ (k - 1) - i < j - i
          /\ k + 1 <= j => k + 1 \in i .. j /\ j \in k + 1 .. j /\ j - (k + 1) < j - i
      BY <1>0
    <3> HIDE DEF All
    <3> QED BY <2>1, <3>1
  <2>4. AndIsReadAt(s, i, j)
    BY <2>2, <2>3, AndIsRead
  <2>5. OrIsReadAt(s, i, j)
    BY <2>3, <2>4, OrIsRead
  <2> QED BY <2>2, <2>4, <2>5
<1>2. \A w \in Nat : (\A v \in 0 .. w - 1 : v \in T) => w \in T
  <2> HIDE DEF All
  <2> QED BY <1>1
<1>3. \A w \in Nat : w \in T
  <2> HIDE DEF T
  <2> QED BY <1>2, StrongInduction
<1>4. TAKE i \in 1 .. Len(s)
<1>5. TAKE j \in i .. Len(s)
<1>6. j - i \in Nat
  BY <1>0
<1>7. j - i \in T
  BY <1>3, <1>6
<1> QED BY <1>7

\* A condition that the grammar sees is what the parser reads, if a word that ends it stands behind it.
\* So it has no other reading.
THEOREM ReadingIsParsed ==
    ASSUME NEW s \in Seq(STRING), NEW i \in 1 .. Len(s), NEW j \in i .. Len(s), NEW e \in Conditions(s, i, j),
           tok(s, j + 1) \notin Stops \cup {"AND", "OR"}
    PROVE  parse_condition(s, i, Marker(s, i)) = Read(j + 1, Marker(s, j + 1), e)
<1>1. Len(s) \in Nat
  BY TokensAre
<1>2. Len(s) \in 0 .. Len(s) /\ j - i <= Len(s)
  BY <1>1
<1>3. OrIsReadAt(s, i, j)
  BY SpansAreRead
<1>4. e \in Grammar(s)[<<"or", i, j>>]
  BY DEF Conditions
<1>5. parse_or(s, Nested(s)[Len(s)], i, Marker(s, i)) = Read(j + 1, Marker(s, j + 1), e)
  BY <1>2, <1>3, <1>4, OrIsReadWhole
<1> QED BY <1>5 DEF parse_condition

------------------------------------------------------------------------------
(* What is read is in the grammar *)

\* Counts grow.
LEMMA CountsGrow ==
    ASSUME NEW s, NEW T, NEW i \in Nat \ {0}, NEW j \in Nat \ {0}, i <= j
    PROVE  Count(s, T, i) \in Nat /\ Count(s, T, j) \in Nat /\ Count(s, T, i) <= Count(s, T, j)
<1> DEFINE R == {k \in 0 .. j - i : Count(s, T, i) <= Count(s, T, i + k)}
<1>1. \A k \in Nat \ {0} : Count(s, T, k) \in Nat /\ Count(s, T, k + 1) \in Nat /\ Count(s, T, k) <= Count(s, T, k + 1)
  <2> TAKE k \in Nat \ {0}
  <2>1. k + 1 \in Nat \ {0}
    OBVIOUS
  <2>2. Count(s, T, k) \in Nat /\ Count(s, T, k + 1) \in Nat
    BY <2>1, CountsAre
  <2>3. Count(s, T, k + 1) = Count(s, T, k) + IF s[k] \in T THEN 1 ELSE 0
    BY CountsAre
  <2> QED BY <2>2, <2>3
<1>2. 0 \in R
  BY <1>1
<1>3. ASSUME NEW k \in 1 .. j - i, k - 1 \in R PROVE k \in R
  <2>1. i + (k - 1) \in Nat \ {0} /\ (i + (k - 1)) + 1 = i + k
    OBVIOUS
  <2>2. Count(s, T, i + (k - 1)) \in Nat /\ Count(s, T, i + k) \in Nat /\ Count(s, T, i + (k - 1)) <= Count(s, T, i + k)
    BY <1>1, <2>1
  <2>3. Count(s, T, i) <= Count(s, T, i + (k - 1)) /\ Count(s, T, i) \in Nat
    BY <1>1, <1>3
  <2>4. Count(s, T, i) <= Count(s, T, i + k)
    BY <2>2, <2>3
  <2> QED BY <2>4
<1>4. j - i \in Nat /\ i + (j - i) = j
  OBVIOUS
<1>5. j - i \in R
  <2> HIDE DEF R
  <2> QED BY <1>2, <1>3, <1>4, InductionUpTo
<1> QED BY <1>1, <1>4, <1>5

\* The markers in front of a later token are at least those in front of an earlier one.
LEMMA MarkersGrow ==
    ASSUME NEW s, NEW i \in Nat \ {0}, NEW j \in Nat \ {0}, i <= j
    PROVE  Marker(s, i) \in Nat /\ Marker(s, j) \in Nat /\ Marker(s, i) <= Marker(s, j)
<1>1. \A k : Marker(s, k) = Count(s, {"param"}, k)
  BY DEF Marker, Count
<1> QED BY <1>1, CountsGrow

\* A text that has no more connectives than a tree can have.
Connected(s, i) == Count(s, Connectives, i)
IsText(s) == s \in Seq(STRING) /\ Connected(s, Len(s) + 1) <= Deepest

\* The connectives in front of a later token are at least those in front of an earlier one, and of all
\* of them a text has at most Deepest.
LEMMA ConnectedAre ==
    ASSUME NEW s, IsText(s), NEW i \in 1 .. Len(s) + 1, NEW j \in i .. Len(s) + 1
    PROVE  /\ Connected(s, i) \in Nat /\ Connected(s, j) \in Nat
           /\ Connected(s, i) <= Connected(s, j) /\ Connected(s, j) <= Deepest
           /\ Connected(s, j) - Connected(s, i) \in 0 .. Deepest
           /\ i <= Len(s) /\ s[i] \in Connectives => Connected(s, i + 1) = Connected(s, i) + 1
           /\ i <= Len(s) /\ s[i] \notin Connectives => Connected(s, i + 1) = Connected(s, i)
<1>1. Len(s) \in Nat
  BY TokensAre DEF IsText
<1>2. i \in Nat \ {0} /\ j \in Nat \ {0} /\ Len(s) + 1 \in Nat \ {0} /\ i <= j /\ j <= Len(s) + 1
  BY <1>1
<1>3. Connected(s, i) \in Nat /\ Connected(s, j) \in Nat /\ Connected(s, i) <= Connected(s, j)
  BY <1>2, CountsGrow DEF Connected
<1>4. Connected(s, j) <= Connected(s, Len(s) + 1) /\ Connected(s, Len(s) + 1) \in Nat
  BY <1>2, CountsGrow DEF Connected
<1>5. Connected(s, Len(s) + 1) <= Deepest /\ Deepest \in Nat
  BY DeepestAssumption DEF IsText
<1>6. Connected(s, i + 1) = Connected(s, i) + IF s[i] \in Connectives THEN 1 ELSE 0
  <2>1. Count(s, Connectives, i + 1) = Count(s, Connectives, i) + IF s[i] \in Connectives THEN 1 ELSE 0
    <3> DEFINE C == Connectives
    <3> HIDE DEF C
    <3>1. \A k \in Nat \ {0} : Count(s, C, k + 1) = Count(s, C, k) + IF s[k] \in C THEN 1 ELSE 0
      BY CountsAre, Zenon
    <3>2. Count(s, C, i + 1) = Count(s, C, i) + IF s[i] \in C THEN 1 ELSE 0
      BY <1>2, <3>1
    <3> QED BY <3>2 DEF C
  <2> QED BY <2>1 DEF Connected
<1>7. Connected(s, j) <= Deepest
  BY <1>3, <1>4, <1>5
<1>8. Connected(s, j) - Connected(s, i) \in 0 .. Deepest
  BY <1>3, <1>5, <1>7
<1> QED BY <1>3, <1>6, <1>7, <1>8

\* Two ranges in a row.
LEMMA RangesJoin ==
    ASSUME NEW a \in Nat, NEW b \in Nat, NEW c \in Nat, a <= b, b <= c
    PROVE  (a .. b - 1) \cup (b .. c - 1) = a .. c - 1
OBVIOUS

\* A marker has its own range.
LEMMA RangeOfOne ==
    ASSUME NEW a \in Nat
    PROVE  a .. (a + 1) - 1 = {a} /\ a .. a - 1 = {}
OBVIOUS

------------------------------------------------------------------------------
(* Operands that are read *)

\* The number of the marker that an operand is.
MarkerOf(o) == IF o.kind = "Param" THEN {o.index} ELSE {}
\* A word that no column has as its name.
WrongOperand(o) == IsColumn(o) /\ ~IsName(o.column)
\* No word of another clause.
Free(s, i, j) == \A k \in i .. j : s[k] \notin ClauseWords

OperandFound(s, p, r) ==
    r.ok => /\ r.p \in p + 1 .. Len(s) + 1 /\ r.n = Marker(s, r.p)
            /\ r.v \in Operand /\ MarkerOf(r.v) = Marker(s, p) .. Marker(s, r.p) - 1
            /\ WrongOperand(r.v) \/ (r.v \in Operands(s, p, r.p - 1) /\ Free(s, p, r.p - 1))

\* The words that are not of another clause.
LEMMA ClauseWordsAre ==
    /\ \A t : IsName(t) \/ t \in DOMAIN Numerals => t \notin ClauseWords
    /\ \A t \in {"param", "NULL", "+", "-", "*", "(", ")", "AND", "OR", "NOT", "IN", "LIKE", "BETWEEN", "IS"} \cup Comparisons :
         t \notin ClauseWords
    /\ Comma \notin ClauseWords
<1> DEFINE reserved == {"GROUP", "HAVING", "ORDER", "LIMIT", "OFFSET", "FETCH"}
           signs == {";", "end"}
<1>1. \A t \in ClauseWords : t \in reserved \/ t \in signs
  BY Zenon DEF ClauseWords
<1>2. reserved \subseteq Reserved
  BY DEF Reserved
<1>3. signs \subseteq Punctuation
  BY Zenon DEF Punctuation
<1>4. \A t : IsName(t) \/ t \in DOMAIN Numerals => t \notin ClauseWords
  <2> HIDE DEF reserved, signs
  <2> QED BY <1>1, <1>2, <1>3, WordsAre DEF IsName
<1>5. \A t \in {"param", "NULL", "+", "-", "*", "(", ")", "AND", "OR", "NOT", "IN", "LIKE", "BETWEEN", "IS", "=", "!=", "<>", "<", "<=", ">", ">="} :
        t \notin ClauseWords
  BY Zenon DEF ClauseWords
<1>6. Comma \notin ClauseWords
  BY Zenon DEF ClauseWords, Comma
<1> HIDE DEF reserved, signs
<1> QED BY <1>4, <1>5, <1>6 DEF Comparisons

\* Unless passes a result on, or turns it into an error before one of the given tokens.
LEMMA UnlessIs ==
    ASSUME NEW s, NEW r, NEW ts
    PROVE  Unless(s, r, ts) = r \/ (r.ok /\ tok(s, r.p) \in ts /\ Unless(s, r, ts) = Error)
BY DEF Unless

\* Where there is a token, there is a place.
LEMMA PlaceOfToken ==
    ASSUME NEW s \in Seq(STRING), NEW p \in Nat, tok(s, p) # "end"
    PROVE  p \in 1 .. Len(s) /\ tok(s, p) = s[p] /\ s[p] \in STRING
BY TokensAre

\* The end token is neither a word nor a number.
LEMMA EndIsNoWord == ~IsWord("end") /\ "end" \notin DOMAIN Numerals
<1>1. "end" \in Punctuation
  BY Zenon DEF Punctuation
<1> QED BY <1>1, WordsAre

\* What is left of a reading of one or two tokens.
LEMMA OperandFoundHere ==
    ASSUME NEW s \in Seq(STRING), NEW p \in 1 .. Len(s), NEW q \in {p + 1, p + 2}, q <= Len(s) + 1,
           NEW v \in Operand, s[p] # "param", v.kind # "Param", q = p + 2 => s[p + 1] # "param",
           WrongOperand(v) \/ (v \in Operands(s, p, q - 1) /\ Free(s, p, q - 1))
    PROVE  OperandFound(s, p, Read(q, Marker(s, p), v))
<1>0. Len(s) \in Nat /\ p \in Nat \ {0} /\ p > 0 /\ p + 1 \in Nat /\ p + 1 > 0 /\ (p + 1) + 1 = p + 2
  BY TokensAre
<1>1. Marker(s, p) \in Nat
  BY <1>0, MarkersCount
<1>2. Marker(s, p + 1) = Marker(s, p)
  BY <1>0, MarkerStays
<1>3. Marker(s, q) = Marker(s, p)
  <2>1. q = p + 2 => Marker(s, (p + 1) + 1) = Marker(s, p + 1)
    BY <1>0, MarkerStays
  <2> QED BY <1>0, <1>2, <2>1
<1>4. MarkerOf(v) = {}
  BY DEF MarkerOf
<1>5. q \in p + 1 .. Len(s) + 1
  BY <1>0
<1>6. Marker(s, p) .. Marker(s, q) - 1 = {}
  BY <1>1, <1>3
<1> DEFINE r == Read(q, Marker(s, p), v)
<1>7. r.p = q /\ r.n = Marker(s, p) /\ r.v = v
  BY ReadIs
<1> HIDE DEF r
<1>8. OperandFound(s, p, r)
  BY <1>3, <1>4, <1>5, <1>6, <1>7 DEF OperandFound
<1> QED BY <1>8 DEF r

\* What parse_operand returns is an operand its tokens spell, with their markers.
LEMMA OperandIsFound ==
    ASSUME NEW s \in Seq(STRING), NEW p \in 1 .. Len(s) + 1
    PROVE  OperandFound(s, p, parse_operand(s, p, Marker(s, p)))
<1> DEFINE M == Marker(s, p)
           u == IF tok(s, p) = "param" THEN Read(p + 1, M + 1, Param(M))
                ELSE IF is_literal_start(s, p) THEN parse_literal(s, p, M)
                ELSE IF IsWord(tok(s, p)) /\ tok(s, p) # "SELECT" /\ tok(s, p + 1) # "("
                  THEN Read(p + 1, M, Column(tok(s, p)))
                ELSE Error
<1>0. Len(s) \in Nat /\ p \in Nat /\ p > 0 /\ p + 1 \in Nat /\ p \in Nat \ {0}
  BY TokensAre
<1>1. parse_operand(s, p, M) = Unless(s, u, {"+", "-", "*"})
  BY DEF parse_operand
<1>2. M \in Nat
  BY <1>0, MarkersCount
<1> HIDE DEF M
<1>3. SUFFICES OperandFound(s, p, u)
  <2>1. \A t : OperandFound(s, p, t) => OperandFound(s, p, Unless(s, t, {"+", "-", "*"}))
    BY UnlessIs, ReadIs DEF OperandFound
  <2> HIDE DEF u
  <2> QED BY <1>1, <2>1 DEF M
<1>4. CASE tok(s, p) = "param"
  <2>1. p \in 1 .. Len(s) /\ s[p] = "param"
    BY <1>0, <1>4, PlaceOfToken
  <2>2. Marker(s, p + 1) = M + 1
    BY <1>0, <2>1, MarkersCount DEF M
  <2>3. u = Read(p + 1, M + 1, Param(M))
    BY <1>4
  <2>4. Param(M) \in Operand /\ MarkerOf(Param(M)) = {M}
    BY <1>2 DEF Param, Operand, MarkerOf
  <2>5. Operands(s, p, p) = {Param(M)}
    BY <2>1 DEF Operands, M
  <2>6. M .. (M + 1) - 1 = {M} /\ (p + 1) - 1 = p /\ p + 1 \in p + 1 .. Len(s) + 1 /\ \A k \in p .. p : k = p
    BY <1>0, <1>2, <2>1
  <2>7. Free(s, p, p)
    BY <2>1, <2>6, ClauseWordsAre DEF Free
  <2>8. OperandFound(s, p, Read(p + 1, M + 1, Param(M)))
    <3> DEFINE r == Read(p + 1, M + 1, Param(M))
    <3>1. r.p = p + 1 /\ r.n = M + 1 /\ r.v = Param(M) /\ r.p - 1 = p
      BY <2>6, ReadIs
    <3> HIDE DEF r
    <3>2. OperandFound(s, p, r)
      <4>1. r.n = Marker(s, r.p) /\ r.v \in Operand
        BY <2>2, <2>4, <3>1
      <4>2. MarkerOf(r.v) = Marker(s, p) .. Marker(s, r.p) - 1
        BY <2>2, <2>4, <2>6, <3>1 DEF M
      <4>3. r.v \in Operands(s, p, r.p - 1) /\ Free(s, p, r.p - 1)
        BY <2>5, <2>7, <3>1
      <4> QED BY <2>6, <3>1, <4>1, <4>2, <4>3 DEF OperandFound
    <3> QED BY <3>2 DEF r
  <2> QED BY <2>3, <2>8
<1>5. CASE tok(s, p) # "param" /\ is_literal_start(s, p)
  <2>1. u = parse_literal(s, p, M)
    BY <1>5
  <2> HIDE DEF u
  <2>2. \/ tok(s, p) \in DOMAIN Numerals \/ tok(s, p) = "NULL"
        \/ tok(s, p) \in {"-", "+"} /\ tok(s, p + 1) \in DOMAIN Numerals
    BY <1>5 DEF is_literal_start
  <2>3. p \in 1 .. Len(s) /\ tok(s, p) = s[p]
    BY <1>0, <2>2, PlaceOfToken, EndIsNoWord
  <2>4. p \in p .. p /\ (\A k \in p .. p : k = p) /\ (p + 1) - 1 = p /\ p + 1 <= Len(s) + 1
    BY <1>0, <2>3
  <2>5. \A t \in DOMAIN Numerals : Literal(Numerals[t]) \in Operand /\ Literal(-Numerals[t]) \in Operand
    BY WordsAre DEF Literal, Operand
  <2>6. CASE tok(s, p) = "NULL"
    <3>1. u = Read(p + 1, M, Literal(Null)) /\ Literal(Null) \in Operand /\ Literal(Null).kind # "Param"
      BY <2>1, <2>6 DEF parse_literal, Literal, Operand
    <3>2. Literal(Null) \in Operands(s, p, p)
      BY <2>3, <2>6 DEF Operands
    <3>3. Free(s, p, p)
      BY <2>3, <2>4, <2>6, ClauseWordsAre DEF Free
    <3> DEFINE L == Literal(Null)
    <3>3a. u = Read(p + 1, M, L) /\ L \in Operand /\ L.kind # "Param" /\ L \in Operands(s, p, p)
      BY <3>1, <3>2
    <3> HIDE DEF L
    <3>3b. s[p] # "param" /\ p + 1 \in {p + 1, p + 2} /\ p + 1 # p + 2
      BY <1>0, <2>3, <2>6
    <3>4. OperandFound(s, p, Read(p + 1, M, L))
      BY <1>0, <2>3, <2>4, <3>3, <3>3a, <3>3b, OperandFoundHere DEF M
    <3> QED BY <3>3a, <3>4
  <2>7. CASE tok(s, p) \in DOMAIN Numerals
    <3> DEFINE L == Literal(Numerals[s[p]])
    <3>0. tok(s, p) \notin {"NULL", "-", "+", "param"}
      <4>1. \A t \in {"-", "+", "param"} : t \in Punctuation
        BY Zenon DEF Punctuation, Arithmetic
      <4>2. "NULL" \in Reserved
        BY DEF Reserved
      <4> QED BY <2>7, <4>1, <4>2, WordsAre
    <3>1. u = Read(p + 1, M, L) /\ L.kind # "Param"
      BY <2>1, <2>3, <3>0 DEF parse_literal, Literal
    <3>2. L \in Operands(s, p, p)
      BY <2>3, <2>7, <3>0 DEF Operands
    <3>3. Free(s, p, p)
      BY <2>3, <2>4, <2>7, ClauseWordsAre DEF Free
    <3>4. L \in Operand
      BY <2>3, <2>5, <2>7
    <3> HIDE DEF L
    <3>5. OperandFound(s, p, Read(p + 1, M, L))
      BY <1>0, <2>3, <2>4, <3>0, <3>1, <3>2, <3>3, <3>4, OperandFoundHere DEF M
    <3> QED BY <3>1, <3>5
  <2>8. CASE tok(s, p) \in {"-", "+"} /\ tok(s, p + 1) \in DOMAIN Numerals
    <3> DEFINE L == Literal(IF s[p] = "-" THEN -Numerals[s[p + 1]] ELSE Numerals[s[p + 1]])
    <3>1. p + 1 \in 1 .. Len(s) /\ tok(s, p + 1) = s[p + 1]
      BY <1>0, <2>8, PlaceOfToken, EndIsNoWord
    <3>2. u = Read(p + 2, M, L) /\ L.kind # "Param"
      BY <2>1, <2>3, <2>8, <3>1 DEF parse_literal, Literal
    <3>3. L \in Operands(s, p, p + 1)
      BY <1>0, <2>3, <2>8, <3>1 DEF Operands
    <3>4. Free(s, p, p + 1)
      <4>1. \A k \in p .. p + 1 : k = p \/ k = p + 1
        BY <1>0
      <4> QED BY <2>3, <2>8, <3>1, <4>1, ClauseWordsAre DEF Free
    <3>5. L \in Operand
      BY <2>5, <2>8, <3>1
    <3>6. s[p + 1] # "param"
      <4>1. "param" \in Punctuation
        BY Zenon DEF Punctuation
      <4> QED BY <2>8, <3>1, <4>1, WordsAre
    <3> HIDE DEF L
    <3>7. p + 2 \in {p + 1, p + 2} /\ p + 2 <= Len(s) + 1 /\ (p + 2) - 1 = p + 1
      BY <1>0, <3>1
    <3>8. OperandFound(s, p, Read(p + 2, M, L))
      BY <2>3, <2>8, <3>2, <3>3, <3>4, <3>5, <3>6, <3>7, OperandFoundHere DEF M
    <3> QED BY <3>2, <3>8
  <2> QED BY <2>2, <2>6, <2>7, <2>8
<1>6. CASE tok(s, p) # "param" /\ ~is_literal_start(s, p) /\ IsWord(tok(s, p)) /\ tok(s, p) # "SELECT" /\ tok(s, p + 1) # "("
  <2>1. u = Read(p + 1, M, Column(tok(s, p)))
    BY <1>6
  <2> HIDE DEF u
  <2>2. tok(s, p) # "NULL" /\ tok(s, p) \notin DOMAIN Numerals
    BY <1>6 DEF is_literal_start
  <2>3. p \in 1 .. Len(s) /\ tok(s, p) = s[p] /\ s[p] \in STRING
    BY <1>0, <1>6, PlaceOfToken, EndIsNoWord
  <2>4. (\A k \in p .. p : k = p) /\ (p + 1) - 1 = p /\ p + 1 <= Len(s) + 1
    BY <1>0, <2>3
  <2>5. Column(s[p]) \in Operand /\ Column(s[p]).kind # "Param" /\ Column(s[p]).column = s[p] /\ IsColumn(Column(s[p]))
    BY <2>3 DEF Column, Operand, IsColumn
  <2>6. WrongOperand(Column(s[p])) \/ (Column(s[p]) \in Operands(s, p, p) /\ Free(s, p, p))
    <3>1. CASE IsName(s[p])
      <4>1. Free(s, p, p)
        BY <2>4, <3>1, ClauseWordsAre DEF Free
      <4>2. Column(s[p]) \in Operands(s, p, p)
        BY <1>6, <2>2, <2>3, <3>1 DEF Operands
      <4> QED BY <4>1, <4>2
    <3> QED BY <2>5, <3>1 DEF WrongOperand
  <2>7. OperandFound(s, p, Read(p + 1, M, Column(s[p])))
    BY <1>0, <1>6, <2>3, <2>4, <2>5, <2>6, OperandFoundHere DEF M
  <2> QED BY <2>1, <2>3, <2>7
<1>7. CASE tok(s, p) # "param" /\ ~is_literal_start(s, p) /\ ~(IsWord(tok(s, p)) /\ tok(s, p) # "SELECT" /\ tok(s, p + 1) # "(")
  <2>1. u = Error
    BY <1>7
  <2> HIDE DEF u
  <2> QED BY <2>1, ReadIs DEF OperandFound
<1> QED BY <1>4, <1>5, <1>6, <1>7

------------------------------------------------------------------------------
(* Trees of the depth that their text has connectives for *)

\* Trees of a depth are among those of any greater one.
LEMMA TreesMore ==
    ASSUME NEW m \in 0 .. Deepest, NEW n \in m .. Deepest
    PROVE  Trees[m] \subseteq Trees[n]
<1> DEFINE T == {k \in 0 .. Deepest - m : Trees[m] \subseteq Trees[m + k]}
<1>0. Deepest \in Nat /\ Deepest - m \in Nat
  BY DeepestAssumption
<1>1. 0 \in T
  <2>1. m + 0 = m
    OBVIOUS
  <2> QED BY <1>0, <2>1
<1>2. ASSUME NEW k \in 1 .. Deepest - m, k - 1 \in T PROVE k \in T
  <2>1. m + k \in 1 .. Deepest /\ (m + k) - 1 = m + (k - 1)
    BY <1>0
  <2>2. Trees[m + (k - 1)] \subseteq Trees[m + k]
    BY <2>1, TreesGrow
  <2> QED BY <1>2, <2>2
<1>3. n - m \in T
  <2>1. n - m \in 0 .. Deepest - m
    BY <1>0
  <2> HIDE DEF T
  <2> QED BY <1>0, <1>1, <1>2, <2>1, InductionUpTo
<1>4. m + (n - m) = n
  OBVIOUS
<1> QED BY <1>3, <1>4

\* A predicate is a tree of any depth.
LEMMA TreesPredicate ==
    ASSUME NEW n \in 0 .. Deepest
    PROVE  Predicate \subseteq Trees[n]
<1>1. 0 \in 0 .. Deepest /\ n \in 0 .. Deepest /\ n >= 0
  BY DeepestAssumption
<1>2. Trees[0] = Predicate
  BY <1>1, TreesAre DEF AreTrees
<1>3. Trees[0] \subseteq Trees[n]
  BY <1>1, TreesMore
<1> QED BY <1>2, <1>3

\* A negation takes one connective.
LEMMA TreesNot ==
    ASSUME NEW m \in Nat, NEW n \in 0 .. Deepest, n >= m + 1, NEW x \in Trees[m]
    PROVE  Not(x) \in Trees[n] /\ x \in Expr /\ Not(x) \in Expr
<1>1. m \in 0 .. Deepest /\ m + 1 \in 1 .. Deepest /\ (m + 1) - 1 = m /\ m + 1 \in 0 .. Deepest /\ n \in m + 1 .. Deepest
  BY DeepestAssumption
<1>2. Trees[m + 1] = Above(Trees[m])
  BY <1>1, TreesGrow
<1>3. Not(x) \in Above(Trees[m])
  BY DEF Not, Above
<1>4. Trees[m + 1] \subseteq Trees[n]
  BY <1>1, TreesMore
<1> QED BY <1>1, <1>2, <1>3, <1>4, TreesAreExpr

\* A junction takes one connective.
LEMMA TreesJoin ==
    ASSUME NEW a \in Nat, NEW b \in Nat, NEW n \in 0 .. Deepest, n >= a + b + 1, NEW l \in Trees[a], NEW r \in Trees[b]
    PROVE  /\ And(l, r) \in Trees[n] /\ Or(l, r) \in Trees[n]
           /\ l \in Expr /\ r \in Expr /\ And(l, r) \in Expr /\ Or(l, r) \in Expr
<1> DEFINE m == a + b
<1>1. a \in 0 .. Deepest /\ b \in 0 .. Deepest /\ m \in a .. Deepest /\ m \in b .. Deepest
      /\ m + 1 \in 1 .. Deepest /\ (m + 1) - 1 = m /\ m + 1 \in 0 .. Deepest /\ n \in m + 1 .. Deepest /\ m \in 0 .. Deepest
  BY DeepestAssumption
<1> HIDE DEF m
<1>2. l \in Trees[m] /\ r \in Trees[m]
  <2>1. Trees[a] \subseteq Trees[m] /\ Trees[b] \subseteq Trees[m]
    BY <1>1, TreesMore
  <2> QED BY <2>1
<1>3. Trees[m + 1] = Above(Trees[m])
  BY <1>1, TreesGrow
<1>4. And(l, r) \in Above(Trees[m]) /\ Or(l, r) \in Above(Trees[m])
  BY <1>2 DEF And, Or, Above
<1>5. Trees[m + 1] \subseteq Trees[n]
  BY <1>1, TreesMore
<1> QED BY <1>1, <1>3, <1>4, <1>5, TreesAreExpr

\* What a junction and a negation ask for and have markers of.
LEMMA JunctionParts ==
    ASSUME NEW l, NEW r, And(l, r) \in Expr, Or(l, r) \in Expr
    PROVE  /\ Supported(And(l, r)) <=> Supported(l) /\ Supported(r)
           /\ Supported(Or(l, r)) <=> Supported(l) /\ Supported(r)
           /\ MarkersOf(And(l, r)) = MarkersOf(l) \cup MarkersOf(r)
           /\ MarkersOf(Or(l, r)) = MarkersOf(l) \cup MarkersOf(r)
<1>1. And(l, r).kind \in Junctions /\ And(l, r).left = l /\ And(l, r).right = r
  BY DEF And, Junctions
<1>2. Or(l, r).kind \in Junctions /\ Or(l, r).left = l /\ Or(l, r).right = r
  BY DEF Or, Junctions
<1>3. Supported(And(l, r)) <=> Supported(l) /\ Supported(r)
  <2> DEFINE x == And(l, r)
  <2>1. x \in Expr /\ x.kind \in Junctions /\ x.left = l /\ x.right = r
    BY <1>1
  <2> HIDE DEF x
  <2>2. Supported(x) <=> Supported(l) /\ Supported(r)
    BY <2>1, PartsOf
  <2> QED BY <2>2 DEF x
<1>4. Supported(Or(l, r)) <=> Supported(l) /\ Supported(r)
  <2> DEFINE x == Or(l, r)
  <2>1. x \in Expr /\ x.kind \in Junctions /\ x.left = l /\ x.right = r
    BY <1>2
  <2> HIDE DEF x
  <2>2. Supported(x) <=> Supported(l) /\ Supported(r)
    BY <2>1, PartsOf
  <2> QED BY <2>2 DEF x
<1>5. MarkersOf(And(l, r)) = MarkersOf(l) \cup MarkersOf(r)
  <2> DEFINE x == And(l, r)
  <2>1. x \in Expr /\ x.kind \in Junctions /\ x.left = l /\ x.right = r
    BY <1>1
  <2> HIDE DEF x
  <2>2. MarkersOf(x) = MarkersOf(l) \cup MarkersOf(r)
    BY <2>1, MarkersAre
  <2> QED BY <2>2 DEF x
<1>6. MarkersOf(Or(l, r)) = MarkersOf(l) \cup MarkersOf(r)
  <2> DEFINE x == Or(l, r)
  <2>1. x \in Expr /\ x.kind \in Junctions /\ x.left = l /\ x.right = r
    BY <1>2
  <2> HIDE DEF x
  <2>2. MarkersOf(x) = MarkersOf(l) \cup MarkersOf(r)
    BY <2>1, MarkersAre
  <2> QED BY <2>2 DEF x
<1> QED BY <1>3, <1>4, <1>5, <1>6

\* NOT supports and marks what stands under it.
LEMMA NegationParts ==
    ASSUME NEW e, Not(e) \in Expr
    PROVE  (Supported(Not(e)) <=> Supported(e)) /\ MarkersOf(Not(e)) = MarkersOf(e)
<1> DEFINE x == Not(e)
<1>1. x \in Expr /\ x.kind = "Not" /\ x.left = e
  BY DEF Not
<1> HIDE DEF x
<1>2. (Supported(x) <=> Supported(e)) /\ MarkersOf(x) = MarkersOf(e)
  BY <1>1, PartsOf, MarkersAre
<1> QED BY <1>2 DEF x

\* What a predicate asks for and has markers of.
LEMMA PredicateParts ==
    ASSUME NEW e \in Predicate
    PROVE  e \in Expr /\ (Supported(e) <=> PredicateSupported(e)) /\ MarkersOf(e) = MarkersIn(e)
BY PredicatesAreExpr, PartsOf, MarkersAre

------------------------------------------------------------------------------
(* The predicates that are read *)

MarkersOfList(l) == UNION {MarkerOf(l[i]) : i \in DOMAIN l}

\* The markers of operands.
LEMMA OperandMarkers ==
    ASSUME NEW P
    PROVE  {o.index : o \in {x \in P : x.kind = "Param"}} = UNION {MarkerOf(x) : x \in P}
BY DEF MarkerOf

\* No column has a reserved word for its name.
LEMMA WrongUnresolved ==
    ASSUME NEW o, WrongOperand(o)
    PROVE  ~resolves(o) /\ IsColumn(o) /\ o.kind # "Literal"
BY QueryConstants DEF WrongOperand, resolves, IsColumn

\* A comparison of two operands is a predicate with the markers of both, and is supported only if both are;
LEMMA CompareFits ==
    ASSUME NEW a \in Operand, NEW op \in Operators, NEW b \in Operand
    PROVE  /\ Compare(a, op, b) \in Predicate
           /\ MarkersOf(Compare(a, op, b)) = MarkerOf(a) \cup MarkerOf(b)
           /\ Supported(Compare(a, op, b)) => ~WrongOperand(a) /\ ~WrongOperand(b)
<1> DEFINE e == Compare(a, op, b)
<1>1. e \in Predicate /\ e.kind = "Compare" /\ e.a = a /\ e.b = b
  BY DEF Compare, Predicate
<1> HIDE DEF e
<1>2. OperandsOf(e) = {a, b}
  BY <1>1 DEF OperandsOf
<1>3. MarkersIn(e) = MarkerOf(a) \cup MarkerOf(b)
  <2>1. MarkersIn(e) = UNION {MarkerOf(x) : x \in {a, b}}
    BY <1>2, OperandMarkers DEF MarkersIn
  <2> QED BY <2>1
<1>4. PredicateSupported(e) => ~WrongOperand(a) /\ ~WrongOperand(b)
  BY <1>1, WrongUnresolved DEF PredicateSupported
<1>5. e \in Predicate /\ MarkersOf(e) = MarkerOf(a) \cup MarkerOf(b) /\ (Supported(e) => ~WrongOperand(a) /\ ~WrongOperand(b))
  BY <1>1, <1>3, <1>4, PredicateParts
<1> QED BY <1>5 DEF e

\* so is LIKE,
LEMMA LikeFits ==
    ASSUME NEW a \in Operand, NEW negated \in BOOLEAN, NEW b \in Operand
    PROVE  /\ Like(a, negated, b) \in Predicate
           /\ MarkersOf(Like(a, negated, b)) = MarkerOf(a) \cup MarkerOf(b)
           /\ Supported(Like(a, negated, b)) => ~WrongOperand(a) /\ ~WrongOperand(b)
<1> DEFINE e == Like(a, negated, b)
<1>1. e \in Predicate /\ e.kind = "Like" /\ e.a = a /\ e.b = b
  BY DEF Like, Predicate
<1> HIDE DEF e
<1>2. OperandsOf(e) = {a, b}
  BY <1>1 DEF OperandsOf
<1>3. MarkersIn(e) = MarkerOf(a) \cup MarkerOf(b)
  <2>1. MarkersIn(e) = UNION {MarkerOf(x) : x \in {a, b}}
    BY <1>2, OperandMarkers DEF MarkersIn
  <2> QED BY <2>1
<1>4. PredicateSupported(e) => ~WrongOperand(a) /\ ~WrongOperand(b)
  BY <1>1, WrongUnresolved DEF PredicateSupported
<1>5. e \in Predicate /\ MarkersOf(e) = MarkerOf(a) \cup MarkerOf(b) /\ (Supported(e) => ~WrongOperand(a) /\ ~WrongOperand(b))
  BY <1>1, <1>3, <1>4, PredicateParts
<1> QED BY <1>5 DEF e

\* so is IS NULL with its one operand,
LEMMA IsNullFits ==
    ASSUME NEW a \in Operand, NEW negated \in BOOLEAN
    PROVE  /\ IsNull(a, negated) \in Predicate
           /\ MarkersOf(IsNull(a, negated)) = MarkerOf(a)
           /\ Supported(IsNull(a, negated)) => ~WrongOperand(a)
<1> DEFINE e == IsNull(a, negated)
<1>1. e \in Predicate /\ e.kind = "IsNull" /\ e.a = a
  BY DEF IsNull, Predicate
<1> HIDE DEF e
<1>2. OperandsOf(e) = {a}
  BY <1>1 DEF OperandsOf
<1>3. MarkersIn(e) = MarkerOf(a)
  <2>1. MarkersIn(e) = UNION {MarkerOf(x) : x \in {a}}
    BY <1>2, OperandMarkers DEF MarkersIn
  <2> QED BY <2>1
<1>4. PredicateSupported(e) => ~WrongOperand(a)
  BY <1>1, WrongUnresolved DEF PredicateSupported
<1>5. e \in Predicate /\ MarkersOf(e) = MarkerOf(a) /\ (Supported(e) => ~WrongOperand(a))
  BY <1>1, <1>3, <1>4, PredicateParts
<1> QED BY <1>5 DEF e

\* and IN with those of its list.
LEMMA InFits ==
    ASSUME NEW a \in Operand, NEW negated \in BOOLEAN, NEW l \in Seq(Operand)
    PROVE  /\ In(a, negated, l) \in Predicate
           /\ MarkersOf(In(a, negated, l)) = MarkerOf(a) \cup MarkersOfList(l)
           /\ Supported(In(a, negated, l)) => ~WrongOperand(a) /\ \A i \in DOMAIN l : ~WrongOperand(l[i])
<1> DEFINE e == In(a, negated, l)
<1>1. e \in Predicate /\ e.kind = "In" /\ e.a = a /\ e.list = l
  BY DEF In, Predicate
<1> HIDE DEF e
<1>2. OperandsOf(e) = {a} \cup {l[i] : i \in DOMAIN l}
  BY <1>1 DEF OperandsOf
<1>3. MarkersIn(e) = MarkerOf(a) \cup MarkersOfList(l)
  <2> DEFINE P == {a} \cup {l[i] : i \in DOMAIN l}
  <2>1. MarkersIn(e) = UNION {MarkerOf(x) : x \in P}
    BY <1>2, OperandMarkers DEF MarkersIn
  <2>2. UNION {MarkerOf(x) : x \in P} = MarkerOf(a) \cup UNION {MarkerOf(l[i]) : i \in DOMAIN l}
    OBVIOUS
  <2> QED BY <2>1, <2>2 DEF MarkersOfList
<1>4. PredicateSupported(e) => ~WrongOperand(a) /\ \A i \in DOMAIN l : ~WrongOperand(l[i])
  BY <1>1, WrongUnresolved DEF PredicateSupported
<1>5. e \in Predicate /\ MarkersOf(e) = MarkerOf(a) \cup MarkersOfList(l)
      /\ (Supported(e) => ~WrongOperand(a) /\ \A i \in DOMAIN l : ~WrongOperand(l[i]))
  BY <1>1, <1>3, <1>4, PredicateParts
<1> QED BY <1>5 DEF e

\* The range of a BETWEEN takes two connectives.
LEMMA BetweenFits ==
    ASSUME NEW a \in Operand, NEW negated \in BOOLEAN, NEW lo \in Operand, NEW hi \in Operand, NEW n \in 0 .. Deepest, n >= 2
    PROVE  /\ Between(a, negated, lo, hi) \in Trees[n]
           /\ MarkersOf(Between(a, negated, lo, hi)) = MarkerOf(a) \cup (MarkerOf(lo) \cup MarkerOf(hi))
           /\ Supported(Between(a, negated, lo, hi)) => ~WrongOperand(a) /\ ~WrongOperand(lo) /\ ~WrongOperand(hi)
<1> DEFINE l == Compare(a, ">=", lo)
           h == Compare(a, "<=", hi)
<1>1. /\ l \in Predicate /\ MarkersOf(l) = MarkerOf(a) \cup MarkerOf(lo)
      /\ Supported(l) => ~WrongOperand(a) /\ ~WrongOperand(lo)
  BY CompareFits DEF Operators
<1>2. /\ h \in Predicate /\ MarkersOf(h) = MarkerOf(a) \cup MarkerOf(hi)
      /\ Supported(h) => ~WrongOperand(a) /\ ~WrongOperand(hi)
  BY CompareFits DEF Operators
<1>3. Between(a, negated, lo, hi) = IF negated THEN Not(And(l, h)) ELSE And(l, h)
  BY DEF Between
<1> HIDE DEF l, h
<1>4. Predicate \subseteq Trees[0] /\ 0 \in Nat /\ 1 \in Nat /\ 1 \in 0 .. Deepest /\ 1 >= 0 + 0 + 1 /\ n >= 1 + 1 /\ n \in 1 .. Deepest
  BY DeepestAssumption, TreesPredicate
<1>5. And(l, h) \in Trees[1] /\ And(l, h) \in Expr /\ Or(l, h) \in Expr
  BY <1>1, <1>2, <1>4, TreesJoin
<1>6. (Supported(And(l, h)) <=> Supported(l) /\ Supported(h)) /\ MarkersOf(And(l, h)) = MarkersOf(l) \cup MarkersOf(h)
  BY <1>5, JunctionParts
<1> DEFINE b == And(l, h)
<1>7. b \in Trees[1] /\ (Supported(b) <=> Supported(l) /\ Supported(h)) /\ MarkersOf(b) = MarkersOf(l) \cup MarkersOf(h)
  BY <1>5, <1>6
<1>8. Between(a, negated, lo, hi) = IF negated THEN Not(b) ELSE b
  BY <1>3
<1> HIDE DEF b
<1>9. Not(b) \in Trees[n] /\ Not(b) \in Expr
  BY <1>4, <1>7, TreesNot
<1>10. (Supported(Not(b)) <=> Supported(b)) /\ MarkersOf(Not(b)) = MarkersOf(b)
  BY <1>9, NegationParts
<1>11. b \in Trees[n]
  <2>1. Trees[1] \subseteq Trees[n]
    BY <1>4, TreesMore
  <2> QED BY <1>7, <2>1
<1>12. MarkersOf(b) = MarkerOf(a) \cup (MarkerOf(lo) \cup MarkerOf(hi))
  BY <1>1, <1>2, <1>7
<1>13. Supported(b) => ~WrongOperand(a) /\ ~WrongOperand(lo) /\ ~WrongOperand(hi)
  BY <1>1, <1>2, <1>7
<1>14. CASE negated
  BY <1>8, <1>9, <1>10, <1>12, <1>13, <1>14
<1>15. CASE ~negated
  BY <1>8, <1>11, <1>12, <1>13, <1>15
<1> QED BY <1>14, <1>15

------------------------------------------------------------------------------
(* Readings are of the grammar *)

ListFound(s, p, r) ==
    r.ok => /\ r.p \in p + 1 .. Len(s) + 1 /\ r.n = Marker(s, r.p)
            /\ r.v \in Seq(Operand) /\ MarkersOfList(r.v) = Marker(s, p) .. Marker(s, r.p) - 1
            /\ (\A i \in DOMAIN r.v : ~WrongOperand(r.v[i])) =>
                  r.v \in Grammar(s)[<<"list", p, r.p - 1>>] /\ Free(s, p, r.p - 1)

\* A list of one operand, and one with another operand behind it.
LEMMA ListOfOne ==
    ASSUME NEW o \in Operand
    PROVE  /\ <<o>> \in Seq(Operand) /\ MarkersOfList(<<o>>) = MarkerOf(o)
           /\ (\A i \in DOMAIN <<o>> : ~WrongOperand(<<o>>[i])) => ~WrongOperand(o)
<1>1. DOMAIN <<o>> = {1} /\ <<o>>[1] = o
  OBVIOUS
<1>2. MarkersOfList(<<o>>) = MarkerOf(o)
  BY <1>1 DEF MarkersOfList
<1> QED BY <1>1, <1>2

\* A list with one more operand has one more operand's markers.
LEMMA ListOfMore ==
    ASSUME NEW l \in Seq(Operand), NEW o \in Operand
    PROVE  /\ Append(l, o) \in Seq(Operand) /\ MarkersOfList(Append(l, o)) = MarkersOfList(l) \cup MarkerOf(o)
           /\ (\A i \in DOMAIN Append(l, o) : ~WrongOperand(Append(l, o)[i])) =>
                 (\A i \in DOMAIN l : ~WrongOperand(l[i])) /\ ~WrongOperand(o)
<1> DEFINE a == Append(l, o)
<1>0. a \in Seq(Operand)
  OBVIOUS
<1>1. DOMAIN l = 1 .. Len(l) /\ Len(l) \in Nat /\ DOMAIN a = DOMAIN l \cup {Len(l) + 1}
      /\ a[Len(l) + 1] = o /\ \A i \in DOMAIN l : a[i] = l[i]
  OBVIOUS
<1> HIDE DEF a
<1>2. MarkersOfList(a) = MarkersOfList(l) \cup MarkerOf(o)
  BY <1>1 DEF MarkersOfList
<1>3. (\A i \in DOMAIN a : ~WrongOperand(a[i])) => (\A i \in DOMAIN l : ~WrongOperand(l[i])) /\ ~WrongOperand(o)
  BY <1>1
<1> QED BY <1>0, <1>2, <1>3 DEF a

\* Two free spans with a free word between them.
LEMMA FreeJoins ==
    ASSUME NEW s, NEW i \in Int, NEW j \in Int, NEW k \in Int, Free(s, i, j - 1), s[j] \notin ClauseWords, Free(s, j + 1, k)
    PROVE  Free(s, i, k)
<1>1. \A x \in i .. k : x \in i .. j - 1 \/ x = j \/ x \in j + 1 .. k
  OBVIOUS
<1> QED BY <1>1 DEF Free

\* Places of a span, in the small.
LEMMA PlacesFit ==
    ASSUME NEW n \in Nat, NEW p \in 1 .. n + 1, NEW q \in p + 1 .. n + 1
    PROVE  /\ q - 1 \in p .. n /\ q \in Nat \ {0} /\ p \in Nat \ {0} /\ (q - 1) + 1 = q /\ q - 1 \in 0 .. n
           /\ q \in 1 .. n + 1 /\ p \in 1 .. n
OBVIOUS

\* Arithmetic of places: a list, a comma and an operand.
LEMMA PlacesJoin ==
    ASSUME NEW n \in Nat, NEW p \in 1 .. n + 1, NEW l \in p + 1 .. n + 1, NEW q \in (l + 1) + 1 .. n + 1
    PROVE  /\ q \in Nat \ {0} /\ l <= q /\ q - 1 \in 0 .. n /\ l \in p .. q - 1 /\ q \in p + 1 .. n + 1
           /\ q - 1 \in Int /\ l \in Int /\ p \in Int
OBVIOUS

\* What the rounds of parse_list return is a list its tokens spell,
LEMMA ListIsFound ==
    ASSUME NEW s \in Seq(STRING), NEW p \in 1 .. Len(s) + 1
    PROVE  ListFound(s, p, ListRounds(s, p, Marker(s, p))[Len(s)])
<1> DEFINE rounds == ListRounds(s, p, Marker(s, p))
           T == {k \in 0 .. Len(s) : ListFound(s, p, rounds[k])}
<1>0. Len(s) \in Nat /\ p \in Nat \ {0}
  BY TokensAre
<1>1. rounds[0] = ListFirst(s, p, Marker(s, p)) /\ \A k \in 1 .. Len(s) : rounds[k] = ListStep(s, rounds[k - 1])
  BY <1>0, ListRoundsAre
<1>2. 0 \in T
  <2> DEFINE o == parse_operand(s, p, Marker(s, p))
  <2>1. OperandFound(s, p, o)
    BY OperandIsFound
  <2>2. rounds[0] = Made(o, <<o.v>>)
    BY <1>1 DEF ListFirst, OneOperand
  <2> HIDE DEF o, rounds
  <2>3. CASE o.ok
    <3>1. o.p \in p + 1 .. Len(s) + 1 /\ o.n = Marker(s, o.p) /\ o.v \in Operand
      BY <2>1, <2>3 DEF OperandFound
    <3> DEFINE r == rounds[0]
    <3>2. r.ok /\ r.p = o.p /\ r.n = o.n /\ r.v = <<o.v>>
      BY <2>2, <2>3, ReadIs DEF Made
    <3> HIDE DEF r
    <3>3. MarkersOfList(r.v) = Marker(s, p) .. Marker(s, r.p) - 1 /\ r.v \in Seq(Operand)
      BY <2>1, <2>3, <3>1, <3>2, ListOfOne DEF OperandFound
    <3>4. ASSUME \A i \in DOMAIN r.v : ~WrongOperand(r.v[i])
          PROVE  r.v \in Grammar(s)[<<"list", p, r.p - 1>>] /\ Free(s, p, r.p - 1)
      <4>1. ~WrongOperand(o.v)
        BY <3>1, <3>2, <3>4, ListOfOne
      <4>2. o.v \in Operands(s, p, o.p - 1) /\ Free(s, p, o.p - 1)
        BY <2>1, <2>3, <4>1 DEF OperandFound
      <4>3. o.p - 1 \in 0 .. Len(s)
        BY <1>0, <3>1
      <4>4. <<o.v>> \in Grammar(s)[<<"list", p, o.p - 1>>]
        BY <1>0, <4>2, <4>3, ListHas
      <4> QED BY <3>2, <4>2, <4>4
    <3>5. ListFound(s, p, r)
      BY <3>1, <3>2, <3>3, <3>4 DEF ListFound
    <3> QED BY <1>0, <3>5 DEF r
  <2>4. CASE ~o.ok
    <3>1. ~rounds[0].ok
      BY <2>2, <2>4, ReadIs DEF Made
    <3> QED BY <1>0, <3>1 DEF ListFound
  <2> QED BY <2>3, <2>4
<1>3. ASSUME NEW k \in 1 .. Len(s), k - 1 \in T PROVE k \in T
  <2> DEFINE l == rounds[k - 1]
             o == parse_operand(s, l.p + 1, l.n)
  <2>1. rounds[k] = IF l.ok /\ tok(s, l.p) = Comma THEN Made(o, Append(l.v, o.v)) ELSE l
    BY <1>1 DEF ListStep, WithOperand
  <2>2. ListFound(s, p, l)
    BY <1>3
  <2> HIDE DEF rounds, l
  <2>3. CASE ~(l.ok /\ tok(s, l.p) = Comma)
    <3>1. rounds[k] = l
      BY <2>1, <2>3
    <3> QED BY <2>2, <3>1
  <2>4. CASE l.ok /\ tok(s, l.p) = Comma
    <3>1. l.p \in p + 1 .. Len(s) + 1 /\ l.n = Marker(s, l.p) /\ l.v \in Seq(Operand)
          /\ MarkersOfList(l.v) = Marker(s, p) .. Marker(s, l.p) - 1
      BY <2>2, <2>4 DEF ListFound
    <3>2. tok(s, l.p) # "end"
      <4>1. Comma # "end"
        BY Zenon DEF Comma
      <4> QED BY <2>4, <4>1
    <3>3. l.p \in 1 .. Len(s) /\ s[l.p] = Comma
      <4>1. l.p \in Nat
        BY <1>0, <3>1
      <4> QED BY <2>4, <3>2, <4>1, PlaceOfToken
    <3>4. l.p + 1 \in 1 .. Len(s) + 1 /\ l.p \in Nat /\ l.p > 0 /\ l.p \in Nat \ {0} /\ l.p + 1 \in Nat \ {0} /\ p <= l.p
      BY <1>0, <3>1, <3>3
    <3>5. Marker(s, l.p + 1) = Marker(s, l.p)
      BY <3>3, <3>4, MarkerStays, CommaIs
    <3>6. OperandFound(s, l.p + 1, o)
      BY <3>1, <3>4, <3>5, OperandIsFound
    <3> HIDE DEF o
    <3>7. CASE ~o.ok
      <4>1. rounds[k] = Error
        BY <2>1, <2>4, <3>7 DEF Made
      <4> QED BY <1>0, <4>1, ReadIs DEF ListFound
    <3>8. CASE o.ok
      <4>1. o.p \in (l.p + 1) + 1 .. Len(s) + 1 /\ o.n = Marker(s, o.p) /\ o.v \in Operand
            /\ MarkerOf(o.v) = Marker(s, l.p + 1) .. Marker(s, o.p) - 1
        BY <3>6, <3>8 DEF OperandFound
      <4> DEFINE r == rounds[k]
      <4>2. r.ok /\ r.p = o.p /\ r.n = o.n /\ r.v = Append(l.v, o.v)
        <5>1. rounds[k] = Read(o.p, o.n, Append(l.v, o.v))
          BY <2>1, <2>4, <3>8 DEF Made
        <5> DEFINE v == Append(l.v, o.v)
        <5> HIDE DEF v
        <5>2. Read(o.p, o.n, v).ok /\ Read(o.p, o.n, v).p = o.p /\ Read(o.p, o.n, v).n = o.n /\ Read(o.p, o.n, v).v = v
          BY ReadIs
        <5> QED BY <5>1, <5>2, Zenon DEF v
      <4> HIDE DEF r
      <4>3. r.v \in Seq(Operand) /\ MarkersOfList(r.v) = MarkersOfList(l.v) \cup MarkerOf(o.v)
        BY <3>1, <4>1, <4>2, ListOfMore
      <4>4. o.p \in Nat \ {0} /\ l.p <= o.p /\ o.p - 1 \in 0 .. Len(s) /\ l.p \in p .. o.p - 1 /\ o.p \in p + 1 .. Len(s) + 1
            /\ o.p - 1 \in Int /\ l.p \in Int /\ p \in Int
        BY <1>0, <3>1, <3>4, <4>1, PlacesJoin
      <4>5. MarkersOfList(r.v) = Marker(s, p) .. Marker(s, r.p) - 1
        <5>1. Marker(s, p) \in Nat /\ Marker(s, l.p) \in Nat /\ Marker(s, p) <= Marker(s, l.p)
          BY <1>0, <3>4, MarkersGrow
        <5>2. Marker(s, o.p) \in Nat /\ Marker(s, l.p) <= Marker(s, o.p)
          BY <3>4, <4>4, MarkersGrow
        <5>3. MarkersOfList(r.v) = (Marker(s, p) .. Marker(s, l.p) - 1) \cup (Marker(s, l.p) .. Marker(s, o.p) - 1)
          BY <3>1, <3>5, <4>1, <4>3
        <5> QED BY <4>2, <5>1, <5>2, <5>3, RangesJoin
      <4>6. ASSUME \A i \in DOMAIN r.v : ~WrongOperand(r.v[i])
            PROVE  r.v \in Grammar(s)[<<"list", p, r.p - 1>>] /\ Free(s, p, r.p - 1)
        <5>1. (\A i \in DOMAIN l.v : ~WrongOperand(l.v[i])) /\ ~WrongOperand(o.v)
          BY <3>1, <4>1, <4>2, <4>6, ListOfMore
        <5>2. o.v \in Operands(s, l.p + 1, o.p - 1) /\ Free(s, l.p + 1, o.p - 1)
          BY <3>6, <3>8, <5>1 DEF OperandFound
        <5>3. l.v \in Grammar(s)[<<"list", p, l.p - 1>>] /\ Free(s, p, l.p - 1)
          BY <2>2, <2>4, <5>1 DEF ListFound
        <5>4. l.p \in Places(s, Comma, p, o.p - 1)
          BY <3>3, <4>4 DEF Places
        <5>5. Append(l.v, o.v) \in Grammar(s)[<<"list", p, o.p - 1>>]
          BY <1>0, <4>4, <5>2, <5>3, <5>4, ListHas
        <5>6. Free(s, p, o.p - 1)
          BY <3>3, <4>4, <5>2, <5>3, FreeJoins, ClauseWordsAre
        <5> QED BY <4>2, <5>5, <5>6
      <4>7. ListFound(s, p, r)
        BY <4>1, <4>2, <4>3, <4>4, <4>5, <4>6 DEF ListFound
      <4> QED BY <1>0, <4>7 DEF r
    <3> QED BY <3>7, <3>8
  <2> QED BY <2>3, <2>4
<1>4. Len(s) \in T
  <2> HIDE DEF T
  <2> QED BY <1>0, <1>2, <1>3, InductionUpTo
<1> QED BY <1>4

\* What follows a word at place q, behind the operand a.
NegatableFound(s, q, a, negated, r) ==
    r.ok => /\ r.p \in q + 1 .. Len(s) + 1 /\ r.n = Marker(s, r.p)
            /\ r.v \in Trees[Connected(s, r.p) - Connected(s, q)]
            /\ MarkersOf(r.v) = MarkerOf(a) \cup (Marker(s, q) .. Marker(s, r.p) - 1)
            /\ Supported(r.v) =>
                 ~WrongOperand(a) /\ r.v \in Negatables(s, Grammar(s), a, negated, q, r.p - 1) /\ Free(s, q, r.p - 1)

\* A parenthesised list.
ParenthesesFound(s, q, r) ==
    r.ok => /\ r.p \in q + 3 .. Len(s) + 1 /\ r.n = Marker(s, r.p)
            /\ s[q] = "(" /\ s[r.p - 1] = ")"
            /\ r.v \in Seq(Operand) /\ MarkersOfList(r.v) = Marker(s, q) .. Marker(s, r.p) - 1
            /\ (\A i \in DOMAIN r.v : ~WrongOperand(r.v[i])) =>
                  r.v \in Grammar(s)[<<"list", q + 1, r.p - 2>>] /\ Free(s, q, r.p - 1)

\* and what parse_list returns stands in parentheses.
LEMMA ParenthesesAreFound ==
    ASSUME NEW s \in Seq(STRING), NEW q \in 1 .. Len(s) + 1
    PROVE  ParenthesesFound(s, q, parse_list(s, q, Marker(s, q)))
<1> DEFINE r == parse_list(s, q, Marker(s, q))
           l == ListRounds(s, q + 1, Marker(s, q))[Len(s)]
<1>0. Len(s) \in Nat /\ q \in Nat
  BY TokensAre
<1>1. SUFFICES ASSUME r.ok PROVE ParenthesesFound(s, q, r)
  BY DEF ParenthesesFound
<1>2. tok(s, q) = "(" /\ r = Expect(s, l, ")")
  BY <1>1, ReadIs DEF parse_list
<1>3. q \in 1 .. Len(s) /\ s[q] = "("
  BY <1>0, <1>2, PlaceOfToken
<1>4. q + 1 \in 1 .. Len(s) + 1 /\ Marker(s, q + 1) = Marker(s, q)
  <2>1. q > 0
    BY <1>0, <1>3
  <2> QED BY <1>0, <1>3, <2>1, MarkerStays
<1>5. ListFound(s, q + 1, l)
  BY <1>4, ListIsFound
<1> HIDE DEF r, l
<1>6. l.ok /\ tok(s, l.p) = ")" /\ r.ok /\ r.p = l.p + 1 /\ r.n = l.n /\ r.v = l.v
  BY <1>1, <1>2, ReadIs DEF Expect
<1>7. l.p \in (q + 1) + 1 .. Len(s) + 1 /\ l.n = Marker(s, l.p) /\ l.v \in Seq(Operand)
      /\ MarkersOfList(l.v) = Marker(s, q + 1) .. Marker(s, l.p) - 1
  BY <1>5, <1>6 DEF ListFound
<1>8. l.p \in 1 .. Len(s) /\ s[l.p] = ")"
  <2>1. l.p \in Nat
    BY <1>0, <1>7
  <2> QED BY <1>6, <2>1, PlaceOfToken
<1>9. l.p > 0 /\ l.p \in Nat /\ r.p \in q + 3 .. Len(s) + 1 /\ r.p - 1 = l.p /\ r.p - 2 = l.p - 1
      /\ q \in Int /\ q + 1 \in Int /\ l.p \in Int /\ l.p - 1 \in Int /\ (q + 1) - 1 = q
  BY <1>0, <1>6, <1>7, <1>8
<1>10. Marker(s, l.p + 1) = Marker(s, l.p)
  BY <1>8, <1>9, MarkerStays
<1>11. ASSUME \A i \in DOMAIN r.v : ~WrongOperand(r.v[i])
       PROVE  r.v \in Grammar(s)[<<"list", q + 1, r.p - 2>>] /\ Free(s, q, r.p - 1)
  <2>1. l.v \in Grammar(s)[<<"list", q + 1, l.p - 1>>] /\ Free(s, q + 1, l.p - 1)
    BY <1>5, <1>6, <1>11 DEF ListFound
  <2>2. \A k \in q .. l.p : k = q \/ k = l.p \/ k \in q + 1 .. l.p - 1
    BY <1>9
  <2>3. Free(s, q, l.p)
    BY <1>3, <1>8, <2>1, <2>2, ClauseWordsAre DEF Free
  <2> QED BY <1>6, <1>9, <2>1, <2>3
<1> QED BY <1>3, <1>4, <1>6, <1>7, <1>8, <1>9, <1>10, <1>11 DEF ParenthesesFound

------------------------------------------------------------------------------
(* Readings of predicates *)

\* A word that is expected stands at a place and is no marker.
LEMMA WordAt ==
    ASSUME NEW s \in Seq(STRING), NEW q \in 1 .. Len(s) + 1, tok(s, q) # "end", tok(s, q) # "param"
    PROVE  q \in 1 .. Len(s) /\ s[q] = tok(s, q) /\ Marker(s, q + 1) = Marker(s, q) /\ q + 1 \in 1 .. Len(s) + 1
<1>1. Len(s) \in Nat /\ q \in Nat /\ q > 0
  BY TokensAre
<1>2. q \in 1 .. Len(s) /\ s[q] = tok(s, q)
  BY <1>1, PlaceOfToken
<1>3. Marker(s, q + 1) = Marker(s, q)
  BY <1>1, <1>2, MarkerStays
<1> QED BY <1>1, <1>2, <1>3

\* The markers of two spans in a row.
LEMMA MarkersJoin ==
    ASSUME NEW s, NEW i \in Nat \ {0}, NEW j \in Nat \ {0}, NEW k \in Nat \ {0}, i <= j, j <= k
    PROVE  (Marker(s, i) .. Marker(s, j) - 1) \cup (Marker(s, j) .. Marker(s, k) - 1) = Marker(s, i) .. Marker(s, k) - 1
<1>1. Marker(s, i) \in Nat /\ Marker(s, j) \in Nat /\ Marker(s, i) <= Marker(s, j)
  BY MarkersGrow
<1>2. Marker(s, k) \in Nat /\ Marker(s, j) <= Marker(s, k)
  BY MarkersGrow
<1> QED BY <1>1, <1>2, RangesJoin

\* A free span with a free word before it.
LEMMA FreeFrom ==
    ASSUME NEW s, NEW i \in Int, NEW k \in Int, s[i] \notin ClauseWords, Free(s, i + 1, k)
    PROVE  Free(s, i, k)
<1>1. \A x \in i .. k : x = i \/ x \in i + 1 .. k
  OBVIOUS
<1> QED BY <1>1 DEF Free

\* The predicates of the depth that a span has connectives for.
LEMMA PredicateOfSpan ==
    ASSUME NEW s, IsText(s), NEW i \in 1 .. Len(s) + 1, NEW j \in i .. Len(s) + 1, NEW e \in Predicate
    PROVE  e \in Trees[Connected(s, j) - Connected(s, i)]
<1>1. Connected(s, j) - Connected(s, i) \in 0 .. Deepest
  BY ConnectedAre
<1> DEFINE n == Connected(s, j) - Connected(s, i)
<1> HIDE DEF n
<1>2. Predicate \subseteq Trees[n]
  BY <1>1, TreesPredicate DEF n
<1> QED BY <1>2 DEF n

\* What parse_negatable returns behind LIKE is a predicate its tokens spell;
LEMMA LikeIsFound ==
    ASSUME NEW s, IsText(s), NEW q \in 1 .. Len(s) + 1, NEW a \in Operand, NEW negated \in BOOLEAN, tok(s, q) = "LIKE"
    PROVE  LET b == Unless(s, parse_operand(s, q + 1, Marker(s, q)), {"ESCAPE"})
           IN  NegatableFound(s, q, a, negated, Made(b, Like(a, negated, b.v)))
<1> DEFINE o == parse_operand(s, q + 1, Marker(s, q))
           b == Unless(s, o, {"ESCAPE"})
           e == Like(a, negated, b.v)
           r == Made(b, e)
<1>0. s \in Seq(STRING) /\ Len(s) \in Nat
  BY TokensAre DEF IsText
<1>1. q \in 1 .. Len(s) /\ s[q] = "LIKE" /\ Marker(s, q + 1) = Marker(s, q) /\ q + 1 \in 1 .. Len(s) + 1
  BY <1>0, WordAt
<1>2. OperandFound(s, q + 1, o)
  BY <1>0, <1>1, OperandIsFound
<1>3. b = o \/ b = Error
  BY UnlessIs
<1> HIDE DEF o, b
<1>4. CASE ~b.ok
  <2>1. ~r.ok
    BY <1>4, ReadIs DEF Made
  <2> QED BY <2>1 DEF NegatableFound, b, o
<1>5. CASE b.ok
  <2>1. OperandFound(s, q + 1, b)
    BY <1>2, <1>3, <1>5, ReadIs
  <2>2. b.p \in (q + 1) + 1 .. Len(s) + 1 /\ b.n = Marker(s, b.p) /\ b.v \in Operand
        /\ MarkerOf(b.v) = Marker(s, q + 1) .. Marker(s, b.p) - 1
    BY <1>5, <2>1 DEF OperandFound
  <2>3. e \in Predicate /\ MarkersOf(e) = MarkerOf(a) \cup MarkerOf(b.v) /\ (Supported(e) => ~WrongOperand(a) /\ ~WrongOperand(b.v))
    BY <2>2, LikeFits
  <2>4. r.ok /\ r.p = b.p /\ r.n = b.n /\ r.v = e
    <3> HIDE DEF e
    <3> QED BY <1>5, ReadIs DEF Made
  <2>5. r.p \in q + 1 .. Len(s) + 1 /\ r.p \in q .. Len(s) + 1 /\ q <= r.p - 1 /\ r.p - 1 \in Int
    BY <1>0, <1>1, <2>2, <2>4
  <2>6. e = Like(a, negated, b.v)
    OBVIOUS
  <2> HIDE DEF r, e
  <2>7. r.v \in Trees[Connected(s, r.p) - Connected(s, q)]
    BY <2>3, <2>4, <2>5, PredicateOfSpan
  <2>8. ASSUME Supported(r.v)
        PROVE  ~WrongOperand(a) /\ r.v \in Negatables(s, Grammar(s), a, negated, q, r.p - 1) /\ Free(s, q, r.p - 1)
    <3>1. ~WrongOperand(a) /\ ~WrongOperand(b.v)
      BY <2>3, <2>4, <2>8
    <3>2. b.v \in Operands(s, q + 1, r.p - 1) /\ Free(s, q + 1, r.p - 1)
      BY <1>5, <2>1, <2>4, <3>1 DEF OperandFound
    <3>3. e \in Negatables(s, Grammar(s), a, negated, q, r.p - 1)
      BY <1>1, <2>5, <2>6, <3>2 DEF Negatables
    <3>4. Free(s, q, r.p - 1)
      BY <1>1, <2>5, <3>2, FreeFrom, ClauseWordsAre
    <3> QED BY <2>4, <3>1, <3>3, <3>4
  <2>9. MarkersOf(r.v) = MarkerOf(a) \cup (Marker(s, q) .. Marker(s, r.p) - 1)
    BY <1>1, <2>2, <2>3, <2>4
  <2>10. NegatableFound(s, q, a, negated, r)
    BY <2>2, <2>4, <2>5, <2>7, <2>8, <2>9 DEF NegatableFound
  <2> QED BY <2>10 DEF r, e, b, o
<1> QED BY <1>4, <1>5

\* so it is behind IN,
LEMMA InIsFound ==
    ASSUME NEW s, IsText(s), NEW q \in 1 .. Len(s) + 1, NEW a \in Operand, NEW negated \in BOOLEAN, tok(s, q) = "IN"
    PROVE  LET b == parse_list(s, q + 1, Marker(s, q))
           IN  NegatableFound(s, q, a, negated, Made(b, In(a, negated, b.v)))
<1> DEFINE b == parse_list(s, q + 1, Marker(s, q))
           e == In(a, negated, b.v)
           r == Made(b, e)
<1>0. s \in Seq(STRING) /\ Len(s) \in Nat
  BY TokensAre DEF IsText
<1>1. q \in 1 .. Len(s) /\ s[q] = "IN" /\ Marker(s, q + 1) = Marker(s, q) /\ q + 1 \in 1 .. Len(s) + 1
  BY <1>0, WordAt
<1>2. ParenthesesFound(s, q + 1, b)
  BY <1>0, <1>1, ParenthesesAreFound
<1> HIDE DEF b
<1>4. CASE ~b.ok
  <2>1. ~r.ok
    BY <1>4, ReadIs DEF Made
  <2> QED BY <2>1 DEF NegatableFound, b
<1>5. CASE b.ok
  <2>2. b.p \in (q + 1) + 3 .. Len(s) + 1 /\ b.n = Marker(s, b.p) /\ b.v \in Seq(Operand)
        /\ MarkersOfList(b.v) = Marker(s, q + 1) .. Marker(s, b.p) - 1 /\ s[q + 1] = "(" /\ s[b.p - 1] = ")"
    BY <1>2, <1>5 DEF ParenthesesFound
  <2>3. e \in Predicate /\ MarkersOf(e) = MarkerOf(a) \cup MarkersOfList(b.v)
        /\ (Supported(e) => ~WrongOperand(a) /\ \A i \in DOMAIN b.v : ~WrongOperand(b.v[i]))
    BY <2>2, InFits
  <2>4. r.ok /\ r.p = b.p /\ r.n = b.n /\ r.v = e
    <3> HIDE DEF e
    <3> QED BY <1>5, ReadIs DEF Made
  <2>5. r.p \in q + 1 .. Len(s) + 1 /\ r.p \in q .. Len(s) + 1 /\ q < r.p - 1 /\ q <= r.p - 1 /\ r.p - 1 \in Int
        /\ (r.p - 1) - 1 = r.p - 2 /\ (q + 1) + 1 = q + 2
    BY <1>0, <1>1, <2>2, <2>4
  <2>6. e = In(a, negated, b.v)
    OBVIOUS
  <2> HIDE DEF r, e
  <2>7. r.v \in Trees[Connected(s, r.p) - Connected(s, q)]
    BY <2>3, <2>4, <2>5, PredicateOfSpan
  <2>8. ASSUME Supported(r.v)
        PROVE  ~WrongOperand(a) /\ r.v \in Negatables(s, Grammar(s), a, negated, q, r.p - 1) /\ Free(s, q, r.p - 1)
    <3>1. ~WrongOperand(a) /\ \A i \in DOMAIN b.v : ~WrongOperand(b.v[i])
      BY <2>3, <2>4, <2>8
    <3>2. b.v \in Grammar(s)[<<"list", (q + 1) + 1, r.p - 2>>] /\ Free(s, q + 1, r.p - 1)
      BY <1>2, <1>5, <2>4, <3>1 DEF ParenthesesFound
    <3>3. b.v \in Grammar(s)[<<"list", q + 2, (r.p - 1) - 1>>]
      BY <2>5, <3>2
    <3>4. e \in Negatables(s, Grammar(s), a, negated, q, r.p - 1)
      BY <1>1, <2>2, <2>4, <2>5, <2>6, <3>3 DEF Negatables
    <3>5. Free(s, q, r.p - 1)
      BY <1>1, <2>5, <3>2, FreeFrom, ClauseWordsAre
    <3> QED BY <2>4, <3>1, <3>4, <3>5
  <2>9. MarkersOf(r.v) = MarkerOf(a) \cup (Marker(s, q) .. Marker(s, r.p) - 1)
    BY <1>1, <2>2, <2>3, <2>4
  <2>10. NegatableFound(s, q, a, negated, r)
    BY <2>2, <2>4, <2>5, <2>7, <2>8, <2>9 DEF NegatableFound
  <2> QED BY <2>10 DEF r, e, b
<1> QED BY <1>4, <1>5

\* The word AND of a BETWEEN and its two operands.
LEMMA BetweensHave ==
    ASSUME NEW s, NEW a, NEW negated, NEW i, NEW j, NEW k \in Places(s, "AND", i, j),
           NEW lo \in Operands(s, i, k - 1), NEW hi \in Operands(s, k + 1, j)
    PROVE  Between(a, negated, lo, hi) \in Betweens(s, a, negated, i, j)
<1> DEFINE B == {Between(a, negated, x, y) : x \in Operands(s, i, k - 1), y \in Operands(s, k + 1, j)}
           A(h) == {Between(a, negated, x, y) : x \in Operands(s, i, h - 1), y \in Operands(s, h + 1, j)}
           P == Places(s, "AND", i, j)
<1>1. Betweens(s, a, negated, i, j) = UNION {A(h) : h \in P}
  BY DEF Betweens
<1>2. Between(a, negated, lo, hi) \in A(k)
  OBVIOUS
<1> HIDE DEF A, P
<1>3. k \in P
  BY DEF P
<1> QED BY <1>1, <1>2, <1>3

\* (arithmetic of places: an operand, AND and an operand)
LEMMA PlacesBetween ==
    ASSUME NEW n \in Nat, NEW q \in 1 .. n, NEW l \in (q + 1) + 1 .. n + 1, NEW h \in (l + 1) + 1 .. n + 1
    PROVE  /\ q \in Nat \ {0} /\ l \in Nat \ {0} /\ h \in Nat \ {0} /\ q + 1 \in Nat \ {0} /\ q + 1 <= l /\ l <= h
           /\ q \in Int /\ h - 1 \in Int /\ l \in q + 1 .. h - 1 /\ q <= h - 1 /\ h \in q + 1 .. n + 1
           /\ h \in l + 1 .. n + 1 /\ l \in q + 1 .. n + 1 /\ q + 1 \in Int /\ l \in Int /\ h \in q .. n + 1
           /\ h \in l .. n + 1 /\ l \in 1 .. n + 1
OBVIOUS

\* and behind BETWEEN,
LEMMA BetweenIsFound ==
    ASSUME NEW s, IsText(s), NEW q \in 1 .. Len(s) + 1, NEW a, a.v \in Operand, a.ok, NEW negated \in BOOLEAN, tok(s, q) = "BETWEEN"
    PROVE  NegatableFound(s, q, a.v, negated,
                          parse_upper(s, a, negated, Expect(s, parse_operand(s, q + 1, Marker(s, q)), "AND")))
<1> DEFINE lo == parse_operand(s, q + 1, Marker(s, q))
           and == Expect(s, lo, "AND")
           hi == parse_operand(s, and.p, and.n)
           e == Between(a.v, negated, and.v, hi.v)
           r == parse_upper(s, a, negated, and)
<1>0. s \in Seq(STRING) /\ Len(s) \in Nat
  BY TokensAre DEF IsText
<1>1. q \in 1 .. Len(s) /\ s[q] = "BETWEEN" /\ Marker(s, q + 1) = Marker(s, q) /\ q + 1 \in 1 .. Len(s) + 1
  BY <1>0, WordAt
<1>2. OperandFound(s, q + 1, lo)
  BY <1>0, <1>1, OperandIsFound
<1>3. r = IF and.ok THEN Made(hi, e) ELSE Error
  BY DEF parse_upper
<1>4. and = IF lo.ok /\ tok(s, lo.p) = "AND" THEN Read(lo.p + 1, lo.n, lo.v) ELSE Error
  BY DEF Expect
<1>h. hi = parse_operand(s, and.p, and.n)
  OBVIOUS
<1>e. e = Between(a.v, negated, and.v, hi.v)
  OBVIOUS
<1> HIDE DEF lo, and, hi, e, r
<1>5. CASE ~r.ok
  <2>1. NegatableFound(s, q, a.v, negated, r)
    BY <1>5 DEF NegatableFound
  <2> QED BY <2>1 DEF r, and, lo
<1>6. CASE r.ok
  <2>1. and.ok /\ hi.ok /\ r = Read(hi.p, hi.n, e)
    BY <1>3, <1>6, ReadIs DEF Made
  <2>2. lo.ok /\ tok(s, lo.p) = "AND" /\ and = Read(lo.p + 1, lo.n, lo.v)
    BY <1>4, <2>1, ReadIs
  <2>3. and.p = lo.p + 1 /\ and.n = lo.n /\ and.v = lo.v
    BY <2>2, ReadIs
  <2>4. lo.p \in (q + 1) + 1 .. Len(s) + 1 /\ lo.n = Marker(s, lo.p) /\ lo.v \in Operand
        /\ MarkerOf(lo.v) = Marker(s, q + 1) .. Marker(s, lo.p) - 1
    BY <1>2, <2>2 DEF OperandFound
  <2>5. lo.p \in 1 .. Len(s) + 1
    BY <1>0, <1>1, <2>4
  <2>6. lo.p \in 1 .. Len(s) /\ s[lo.p] = "AND" /\ Marker(s, lo.p + 1) = Marker(s, lo.p) /\ lo.p + 1 \in 1 .. Len(s) + 1
    BY <1>0, <2>2, <2>5, WordAt
  <2>7. OperandFound(s, lo.p + 1, hi)
    BY <1>0, <1>h, <2>3, <2>4, <2>6, OperandIsFound
  <2>8. hi.p \in (lo.p + 1) + 1 .. Len(s) + 1 /\ hi.n = Marker(s, hi.p) /\ hi.v \in Operand
        /\ MarkerOf(hi.v) = Marker(s, lo.p + 1) .. Marker(s, hi.p) - 1
    BY <2>1, <2>7 DEF OperandFound
  <2>9. r.p = hi.p /\ r.n = hi.n /\ r.v = e
    BY <2>1, ReadIs
  <2>10. /\ q \in Nat \ {0} /\ lo.p \in Nat \ {0} /\ hi.p \in Nat \ {0} /\ q + 1 \in Nat \ {0} /\ q + 1 <= lo.p /\ lo.p <= hi.p
         /\ q \in Int /\ hi.p - 1 \in Int /\ lo.p \in q + 1 .. hi.p - 1 /\ q <= hi.p - 1 /\ hi.p \in q + 1 .. Len(s) + 1
         /\ hi.p \in lo.p + 1 .. Len(s) + 1 /\ lo.p \in q + 1 .. Len(s) + 1 /\ q + 1 \in Int /\ lo.p \in Int /\ hi.p \in q .. Len(s) + 1
         /\ hi.p \in lo.p .. Len(s) + 1 /\ lo.p \in 1 .. Len(s) + 1
    BY <1>0, <1>1, <2>4, <2>8, PlacesBetween
  <2>11. MarkerOf(lo.v) \cup MarkerOf(hi.v) = Marker(s, q) .. Marker(s, hi.p) - 1
    <3>1. (Marker(s, q + 1) .. Marker(s, lo.p) - 1) \cup (Marker(s, lo.p) .. Marker(s, hi.p) - 1) = Marker(s, q + 1) .. Marker(s, hi.p) - 1
      BY <2>10, MarkersJoin
    <3> QED BY <1>1, <2>4, <2>6, <2>8, <3>1
  <2> DEFINE n == Connected(s, hi.p) - Connected(s, q)
  <2>12. n \in 0 .. Deepest /\ n >= 2
    <3>1. Connected(s, q + 1) = Connected(s, q) + 1 /\ Connected(s, q) \in Nat
      BY <1>1, <2>10, ConnectedAre DEF Connectives
    <3>2. Connected(s, lo.p + 1) = Connected(s, lo.p) + 1 /\ Connected(s, lo.p) \in Nat
      <4> DEFINE i == lo.p
      <4>1. i \in 1 .. Len(s) + 1
        BY <2>10
      <4>2. i \in i .. Len(s) + 1
        BY <1>0, <4>1
      <4>3. i <= Len(s) /\ s[i] \in Connectives
        BY <1>0, <2>6 DEF Connectives
      <4> HIDE DEF i
      <4>4. Connected(s, i + 1) = Connected(s, i) + 1 /\ Connected(s, i) \in Nat
        BY <4>1, <4>2, <4>3, ConnectedAre
      <4> QED BY <4>4 DEF i
    <3>3. Connected(s, q + 1) <= Connected(s, lo.p) /\ Connected(s, q + 1) \in Nat
      BY <1>1, <2>10, ConnectedAre
    <3>4. Connected(s, lo.p + 1) <= Connected(s, hi.p) /\ Connected(s, hi.p) \in Nat
      BY <2>6, <2>10, ConnectedAre
    <3>5. Connected(s, hi.p) - Connected(s, q) \in 0 .. Deepest
      BY <2>10, ConnectedAre
    <3> QED BY <3>1, <3>2, <3>3, <3>4, <3>5
  <2> HIDE DEF n
  <2>13. /\ e \in Trees[n] /\ MarkersOf(e) = MarkerOf(a.v) \cup (MarkerOf(lo.v) \cup MarkerOf(hi.v))
         /\ Supported(e) => ~WrongOperand(a.v) /\ ~WrongOperand(lo.v) /\ ~WrongOperand(hi.v)
    <3>1. e = Between(a.v, negated, lo.v, hi.v)
      BY <1>e, <2>3
    <3>2. lo.v \in Operand /\ hi.v \in Operand
      BY <2>4, <2>8
    <3> DEFINE x == lo.v
               y == hi.v
               z == a.v
    <3>3. x \in Operand /\ y \in Operand /\ z \in Operand
      BY <3>2
    <3> HIDE DEF x, y, z
    <3>4. /\ Between(z, negated, x, y) \in Trees[n] /\ MarkersOf(Between(z, negated, x, y)) = MarkerOf(z) \cup (MarkerOf(x) \cup MarkerOf(y))
          /\ Supported(Between(z, negated, x, y)) => ~WrongOperand(z) /\ ~WrongOperand(x) /\ ~WrongOperand(y)
      BY <2>12, <3>3, BetweenFits
    <3> QED BY <3>1, <3>4 DEF x, y, z
  <2>14. ASSUME Supported(r.v)
         PROVE  ~WrongOperand(a.v) /\ r.v \in Negatables(s, Grammar(s), a.v, negated, q, r.p - 1) /\ Free(s, q, r.p - 1)
    <3>1. ~WrongOperand(a.v) /\ ~WrongOperand(lo.v) /\ ~WrongOperand(hi.v)
      BY <2>9, <2>13, <2>14
    <3>2. lo.v \in Operands(s, q + 1, lo.p - 1) /\ Free(s, q + 1, lo.p - 1)
      BY <1>2, <2>2, <3>1 DEF OperandFound
    <3>3. hi.v \in Operands(s, lo.p + 1, hi.p - 1) /\ Free(s, lo.p + 1, hi.p - 1)
      BY <2>1, <2>7, <3>1 DEF OperandFound
    <3>4. lo.p \in Places(s, "AND", q + 1, hi.p - 1)
      BY <2>6, <2>10 DEF Places
    <3>5. e \in Betweens(s, a.v, negated, q + 1, hi.p - 1)
      BY <1>e, <2>3, <3>2, <3>3, <3>4, BetweensHave
    <3>6. e \in Negatables(s, Grammar(s), a.v, negated, q, hi.p - 1)
      BY <1>1, <2>10, <3>5 DEF Negatables
    <3>7. Free(s, q + 1, hi.p - 1)
      BY <2>6, <2>10, <3>2, <3>3, FreeJoins, ClauseWordsAre
    <3>8. Free(s, q, hi.p - 1)
      BY <1>1, <2>10, <3>7, FreeFrom, ClauseWordsAre
    <3> QED BY <2>9, <3>1, <3>6, <3>8
  <2>15. NegatableFound(s, q, a.v, negated, r)
    BY <2>8, <2>9, <2>10, <2>11, <2>13, <2>14 DEF NegatableFound, n
  <2> QED BY <2>15 DEF r, and, lo
<1> QED BY <1>5, <1>6

\* and thus behind any of the three.
LEMMA NegatableIsFound ==
    ASSUME NEW s, IsText(s), NEW q \in 1 .. Len(s) + 1, NEW a, a.ok, a.v \in Operand, a.n = Marker(s, q), NEW negated \in BOOLEAN
    PROVE  NegatableFound(s, q, a.v, negated, parse_negatable(s, a, negated, q))
<1> DEFINE r == parse_negatable(s, a, negated, q)
           b == parse_operand(s, q + 1, Marker(s, q))
           like == Unless(s, b, {"ESCAPE"})
           list == parse_list(s, q + 1, Marker(s, q))
<1>1. CASE tok(s, q) = "IN"
  <2>1. r = Made(list, In(a.v, negated, list.v))
    BY <1>1 DEF parse_negatable, WithIn
  <2>2. NegatableFound(s, q, a.v, negated, Made(list, In(a.v, negated, list.v)))
    BY <1>1, InIsFound
  <2> QED BY <2>1, <2>2
<1>2. CASE tok(s, q) = "LIKE"
  <2>1. r = Made(like, Like(a.v, negated, like.v))
    BY <1>2 DEF parse_negatable, WithLike
  <2>2. NegatableFound(s, q, a.v, negated, Made(like, Like(a.v, negated, like.v)))
    BY <1>2, LikeIsFound
  <2> QED BY <2>1, <2>2
<1>3. CASE tok(s, q) = "BETWEEN"
  <2>1. r = parse_upper(s, a, negated, Expect(s, b, "AND"))
    BY <1>3 DEF parse_negatable
  <2>2. NegatableFound(s, q, a.v, negated, parse_upper(s, a, negated, Expect(s, b, "AND")))
    BY <1>3, BetweenIsFound
  <2> QED BY <2>1, <2>2
<1>4. CASE tok(s, q) \notin {"IN", "LIKE", "BETWEEN"}
  <2>1. r = Error
    BY <1>4 DEF parse_negatable
  <2> HIDE DEF r
  <2> QED BY <2>1, ReadIs DEF NegatableFound, r
<1> QED BY <1>1, <1>2, <1>3, <1>4

------------------------------------------------------------------------------
(* Readings of what follows the first operand *)

RestFound(s, i, a, r) ==
    r.ok => /\ r.p \in i + 1 .. Len(s) + 1 /\ r.n = Marker(s, r.p)
            /\ r.v \in Trees[Connected(s, r.p) - Connected(s, i)]
            /\ MarkersOf(r.v) = MarkerOf(a) \cup (Marker(s, i) .. Marker(s, r.p) - 1)
            /\ Supported(r.v) =>
                 ~WrongOperand(a) /\ r.v \in Predicates(s, Grammar(s), a, i, r.p - 1) /\ Free(s, i, r.p - 1)

\* The parts of Predicates.
LEMMA PredicatesHave ==
    ASSUME NEW s, NEW a, NEW i, NEW j, NEW e
    PROVE  /\ i <= j /\ s[i] \in Comparisons /\ (\E b \in Operands(s, i + 1, j) : e = Compare(a, Negatable(s[i]), b))
                => e \in Predicates(s, Grammar(s), a, i, j)
           /\ j = i + 1 /\ s[i] = "IS" /\ s[j] = "NULL" /\ e = IsNull(a, FALSE) => e \in Predicates(s, Grammar(s), a, i, j)
           /\ j = i + 2 /\ s[i] = "IS" /\ s[i + 1] = "NOT" /\ s[j] = "NULL" /\ e = IsNull(a, TRUE)
                => e \in Predicates(s, Grammar(s), a, i, j)
           /\ e \in Negatables(s, Grammar(s), a, FALSE, i, j) => e \in Predicates(s, Grammar(s), a, i, j)
           /\ i <= j /\ s[i] = "NOT" /\ e \in Negatables(s, Grammar(s), a, TRUE, i + 1, j)
                => e \in Predicates(s, Grammar(s), a, i, j)
BY DEF Predicates

\* What parse_rest returns behind a comparison sign is a comparison its tokens spell,
LEMMA ComparisonIsFound ==
    ASSUME NEW s, IsText(s), NEW i \in 1 .. Len(s) + 1, NEW a \in Operand, tok(s, i) \in Comparisons
    PROVE  LET b == parse_operand(s, i + 1, Marker(s, i))
           IN  RestFound(s, i, a, Made(b, Compare(a, Negatable(tok(s, i)), b.v)))
<1> DEFINE b == parse_operand(s, i + 1, Marker(s, i))
           op == Negatable(tok(s, i))
           e == Compare(a, op, b.v)
           r == Made(b, e)
<1>0. s \in Seq(STRING) /\ Len(s) \in Nat
  BY TokensAre DEF IsText
<1>1. i \in 1 .. Len(s) /\ s[i] = tok(s, i) /\ Marker(s, i + 1) = Marker(s, i) /\ i + 1 \in 1 .. Len(s) + 1
  <2>1. tok(s, i) # "end" /\ tok(s, i) # "param"
    BY DEF Comparisons
  <2> QED BY <1>0, <2>1, WordAt
<1>2. OperandFound(s, i + 1, b)
  BY <1>0, <1>1, OperandIsFound
<1>3. op \in Operators
  BY DEF Negatable, Comparisons, Operators
<1>o. op = Negatable(s[i])
  BY <1>1
<1> HIDE DEF b, op
<1>4. CASE ~b.ok
  <2>1. ~r.ok
    BY <1>4, ReadIs DEF Made
  <2> QED BY <2>1 DEF RestFound, b, op
<1>5. CASE b.ok
  <2>2. b.p \in (i + 1) + 1 .. Len(s) + 1 /\ b.n = Marker(s, b.p) /\ b.v \in Operand
        /\ MarkerOf(b.v) = Marker(s, i + 1) .. Marker(s, b.p) - 1
    BY <1>2, <1>5 DEF OperandFound
  <2>3. e \in Predicate /\ MarkersOf(e) = MarkerOf(a) \cup MarkerOf(b.v) /\ (Supported(e) => ~WrongOperand(a) /\ ~WrongOperand(b.v))
    BY <1>3, <2>2, CompareFits
  <2>4. r.ok /\ r.p = b.p /\ r.n = b.n /\ r.v = e
    <3> HIDE DEF e
    <3> QED BY <1>5, ReadIs DEF Made
  <2>5. r.p \in i + 1 .. Len(s) + 1 /\ r.p \in i .. Len(s) + 1 /\ i <= r.p - 1 /\ r.p - 1 \in Int /\ i \in Int
    BY <1>0, <1>1, <2>2, <2>4
  <2>6. e = Compare(a, Negatable(s[i]), b.v)
    BY <1>o
  <2> HIDE DEF r, e
  <2>7. r.v \in Trees[Connected(s, r.p) - Connected(s, i)]
    BY <2>3, <2>4, <2>5, PredicateOfSpan
  <2>8. ASSUME Supported(r.v)
        PROVE  ~WrongOperand(a) /\ r.v \in Predicates(s, Grammar(s), a, i, r.p - 1) /\ Free(s, i, r.p - 1)
    <3>1. ~WrongOperand(a) /\ ~WrongOperand(b.v)
      BY <2>3, <2>4, <2>8
    <3>2. b.v \in Operands(s, i + 1, r.p - 1) /\ Free(s, i + 1, r.p - 1)
      BY <1>2, <1>5, <2>4, <3>1 DEF OperandFound
    <3>3. e \in Predicates(s, Grammar(s), a, i, r.p - 1)
      BY <1>1, <2>5, <2>6, <3>2, PredicatesHave
    <3>4. s[i] \notin ClauseWords
      BY <1>1, ClauseWordsAre
    <3>5. Free(s, i, r.p - 1)
      BY <2>5, <3>2, <3>4, FreeFrom
    <3> QED BY <2>4, <3>1, <3>3, <3>5
  <2>9. MarkersOf(r.v) = MarkerOf(a) \cup (Marker(s, i) .. Marker(s, r.p) - 1)
    BY <1>1, <2>2, <2>3, <2>4
  <2>10. RestFound(s, i, a, r)
    BY <2>2, <2>4, <2>5, <2>7, <2>8, <2>9 DEF RestFound
  <2> QED BY <2>10 DEF r, e, b, op
<1> QED BY <1>4, <1>5

\* IS NULL and IS NOT NULL, of which NULL stands at place q.
LEMMA NullIsFound ==
    ASSUME NEW s, IsText(s), NEW i \in 1 .. Len(s), NEW q \in i + 1 .. i + 2, NEW a \in Operand, NEW negated \in BOOLEAN,
           tok(s, i) = "IS", q = i + 2 => tok(s, i + 1) = "NOT",
           \A e : e = IsNull(a, negated) /\ s[q] = "NULL" => e \in Predicates(s, Grammar(s), a, i, q)
    PROVE  RestFound(s, i, a, Expect(s, Read(q, Marker(s, i), IsNull(a, negated)), "NULL"))
<1> DEFINE e == IsNull(a, negated)
           r == Expect(s, Read(q, Marker(s, i), e), "NULL")
<1>0. s \in Seq(STRING) /\ Len(s) \in Nat
  BY TokensAre DEF IsText
<1>1. e \in Predicate /\ MarkersOf(e) = MarkerOf(a) /\ (Supported(e) => ~WrongOperand(a))
  BY IsNullFits
<1>2. \A x : x = e /\ s[q] = "NULL" => x \in Predicates(s, Grammar(s), a, i, q)
  OBVIOUS
<1> HIDE DEF e
<1>3. CASE tok(s, q) # "NULL"
  <2>1. r = Error
    BY <1>3, ReadIs DEF Expect
  <2>2. RestFound(s, i, a, r)
    BY <2>1, ReadIs DEF RestFound
  <2> QED BY <2>2 DEF r, e
<1>4. CASE tok(s, q) = "NULL"
  <2>1. r = Read(q + 1, Marker(s, i), e)
    BY <1>4, ExpectReads
  <2>2. r.ok /\ r.p = q + 1 /\ r.n = Marker(s, i) /\ r.v = e
    BY <2>1, ReadIs
  <2> HIDE DEF r
  <2>3. q \in Nat /\ q > 0 /\ i \in Nat /\ i > 0 /\ i + 1 \in Nat /\ i + 1 > 0 /\ (i + 1) + 1 = i + 2 /\ (q = i + 1 \/ q = i + 2)
    BY <1>0
  <2>4. q \in 1 .. Len(s) /\ s[q] = "NULL"
    BY <1>0, <1>4, <2>3, PlaceOfToken
  <2>5. s[i] = "IS" /\ (q = i + 2 => s[i + 1] = "NOT")
    <3>1. q = i + 2 => i + 1 \in 1 .. Len(s)
      BY <1>0, <2>3, <2>4
    <3> QED BY <1>0, <3>1, TokensAre
  <2>6. Marker(s, i + 1) = Marker(s, i) /\ Marker(s, q + 1) = Marker(s, q) /\ (q = i + 2 => Marker(s, (i + 1) + 1) = Marker(s, i + 1))
    BY <2>3, <2>4, <2>5, MarkerStays
  <2>7. Marker(s, q + 1) = Marker(s, i) /\ Marker(s, i) \in Nat
    BY <2>3, <2>6, MarkersCount
  <2>8. q + 1 \in i + 1 .. Len(s) + 1 /\ q + 1 \in i .. Len(s) + 1 /\ i \in 1 .. Len(s) + 1 /\ (q + 1) - 1 = q
    BY <1>0, <2>3, <2>4
  <2>9. r.v \in Trees[Connected(s, r.p) - Connected(s, i)]
    BY <1>1, <2>2, <2>8, PredicateOfSpan
  <2>10. Free(s, i, q)
    <3>1. \A k \in i .. q : k = i \/ k = q \/ (k = i + 1 /\ q = i + 2)
      BY <2>3
    <3> QED BY <2>4, <2>5, <3>1, ClauseWordsAre DEF Free
  <2>11. e \in Predicates(s, Grammar(s), a, i, q)
    BY <1>2, <2>4
  <2>12. Marker(s, i) .. Marker(s, r.p) - 1 = {}
    BY <2>2, <2>7
  <2>13. RestFound(s, i, a, r)
    BY <1>1, <2>2, <2>7, <2>8, <2>9, <2>10, <2>11, <2>12 DEF RestFound
  <2> QED BY <2>13 DEF r, e
<1> QED BY <1>3, <1>4

\* and so it is behind any token.
LEMMA RestIsFound ==
    ASSUME NEW s, IsText(s), NEW i \in 1 .. Len(s) + 1, NEW a, a.ok, a.p = i, a.n = Marker(s, i), a.v \in Operand
    PROVE  RestFound(s, i, a.v, parse_rest(s, a))
<1> DEFINE r == parse_rest(s, a)
<1>0. s \in Seq(STRING) /\ Len(s) \in Nat
  BY TokensAre DEF IsText
<1>n. ASSUME NEW q \in 1 .. Len(s) + 1, a.n = Marker(s, q)
      PROVE  \A negated \in BOOLEAN : NegatableFound(s, q, a.v, negated, parse_negatable(s, a, negated, q))
  BY <1>n, NegatableIsFound
<1>1. CASE tok(s, i) \in Comparisons
  <2> DEFINE b == parse_operand(s, i + 1, Marker(s, i))
  <2>1. r = Made(b, Compare(a.v, Negatable(tok(s, i)), b.v))
    BY <1>1 DEF parse_rest, WithCompare
  <2>2. RestFound(s, i, a.v, Made(b, Compare(a.v, Negatable(tok(s, i)), b.v)))
    BY <1>1, ComparisonIsFound
  <2> QED BY <2>1, <2>2
<1>2. CASE tok(s, i) = "IS"
  <2>0. i \in 1 .. Len(s) /\ s[i] = "IS"
    BY <1>0, <1>2, WordAt
  <2> DEFINE negated == tok(s, i + 1) = "NOT"
             q == i + (IF negated THEN 2 ELSE 1)
  <2>1. r = Expect(s, Read(q, Marker(s, i), IsNull(a.v, negated)), "NULL")
    BY <1>2 DEF parse_rest, Comparisons, WithCompare
  <2>2. CASE tok(s, i + 1) = "NOT"
    <3>1. r = Expect(s, Read(i + 2, Marker(s, i), IsNull(a.v, TRUE)), "NULL")
      BY <1>2, <2>2 DEF parse_rest, Comparisons, WithCompare
    <3>2. \A e : e = IsNull(a.v, TRUE) /\ s[i + 2] = "NULL" => e \in Predicates(s, Grammar(s), a.v, i, i + 2)
      <4>1. (i + 1) \in 1 .. Len(s) + 1
        BY <1>0, <2>0
      <4>2. s[i + 1] = "NOT"
        BY <1>0, <2>2, <4>1, WordAt
      <4> QED BY <2>0, <4>2, PredicatesHave
    <3>3. i + 2 \in i + 1 .. i + 2
      BY <1>0, <2>0
    <3>4. \A n \in BOOLEAN :
             (\A e : e = IsNull(a.v, n) /\ s[i + 2] = "NULL" => e \in Predicates(s, Grammar(s), a.v, i, i + 2))
               => RestFound(s, i, a.v, Expect(s, Read(i + 2, Marker(s, i), IsNull(a.v, n)), "NULL"))
      BY <1>2, <2>0, <2>2, <3>3, NullIsFound
    <3>5. RestFound(s, i, a.v, Expect(s, Read(i + 2, Marker(s, i), IsNull(a.v, TRUE)), "NULL"))
      BY <3>2, <3>4, Zenon
    <3> QED BY <3>1, <3>5, Zenon
  <2>3. CASE tok(s, i + 1) # "NOT"
    <3>1. r = Expect(s, Read(i + 1, Marker(s, i), IsNull(a.v, FALSE)), "NULL")
      BY <1>2, <2>3 DEF parse_rest, Comparisons, WithCompare
    <3>2. \A e : e = IsNull(a.v, FALSE) /\ s[i + 1] = "NULL" => e \in Predicates(s, Grammar(s), a.v, i, i + 1)
      BY <2>0, PredicatesHave
    <3>3. i + 1 \in i + 1 .. i + 2 /\ i + 1 # i + 2
      BY <1>0, <2>0
    <3>4. \A n \in BOOLEAN :
             (\A e : e = IsNull(a.v, n) /\ s[i + 1] = "NULL" => e \in Predicates(s, Grammar(s), a.v, i, i + 1))
               => RestFound(s, i, a.v, Expect(s, Read(i + 1, Marker(s, i), IsNull(a.v, n)), "NULL"))
      BY <1>2, <2>0, <3>3, NullIsFound
    <3>5. RestFound(s, i, a.v, Expect(s, Read(i + 1, Marker(s, i), IsNull(a.v, FALSE)), "NULL"))
      BY <3>2, <3>4, Zenon
    <3> QED BY <3>1, <3>5, Zenon
  <2> QED BY <2>2, <2>3
<1>3. CASE tok(s, i) = "NOT"
  <2>1. r = parse_negatable(s, a, TRUE, i + 1)
    BY <1>3 DEF parse_rest, Comparisons, WithCompare
  <2>2. i \in 1 .. Len(s) /\ s[i] = "NOT" /\ Marker(s, i + 1) = Marker(s, i) /\ i + 1 \in 1 .. Len(s) + 1
    BY <1>0, <1>3, WordAt
  <2>3. \A negated \in BOOLEAN : NegatableFound(s, i + 1, a.v, negated, parse_negatable(s, a, negated, i + 1))
    BY <1>n, <2>2
  <2>4. NegatableFound(s, i + 1, a.v, TRUE, r)
    BY <2>1, <2>3, Zenon
  <2> HIDE DEF r
  <2>5. r.ok => /\ r.p \in (i + 1) + 1 .. Len(s) + 1 /\ r.n = Marker(s, r.p)
                /\ r.v \in Trees[Connected(s, r.p) - Connected(s, i + 1)]
                /\ MarkersOf(r.v) = MarkerOf(a.v) \cup (Marker(s, i + 1) .. Marker(s, r.p) - 1)
                /\ Supported(r.v) => ~WrongOperand(a.v) /\ r.v \in Negatables(s, Grammar(s), a.v, TRUE, i + 1, r.p - 1) /\ Free(s, i + 1, r.p - 1)
    BY <2>4, Zenon DEF NegatableFound
  <2>6. ASSUME r.ok PROVE RestFound(s, i, a.v, r)
    <3>1. r.p \in i + 1 .. Len(s) + 1 /\ r.p \in i .. Len(s) + 1 /\ r.p - 1 \in Int /\ i \in Int /\ i <= r.p - 1 /\ r.p \in i + 1 .. Len(s) + 1
          /\ i \in i .. Len(s) + 1 /\ i + 1 \in i .. Len(s) + 1
      BY <1>0, <2>2, <2>5, <2>6
    <3>2. r.v \in Trees[Connected(s, r.p) - Connected(s, i)]
      <4> DEFINE m == Connected(s, r.p) - Connected(s, i + 1)
                 n == Connected(s, r.p) - Connected(s, i)
      <4>1. Connected(s, i) <= Connected(s, i + 1) /\ Connected(s, i) \in Nat /\ Connected(s, i + 1) \in Nat
        BY <3>1, ConnectedAre
      <4>2. n \in 0 .. Deepest /\ m \in 0 .. Deepest /\ Connected(s, r.p) \in Nat
        BY <2>2, <3>1, ConnectedAre
      <4>3. n \in m .. Deepest
        BY <4>1, <4>2, DeepestAssumption
      <4>4. r.v \in Trees[m]
        BY <2>5, <2>6
      <4> HIDE DEF m, n
      <4>5. r.v \in Trees[n]
        BY <4>2, <4>3, <4>4, TreesMore
      <4> QED BY <4>5 DEF n
    <3>3. ASSUME Supported(r.v) PROVE r.v \in Predicates(s, Grammar(s), a.v, i, r.p - 1) /\ Free(s, i, r.p - 1) /\ ~WrongOperand(a.v)
      <4>1. ~WrongOperand(a.v) /\ r.v \in Negatables(s, Grammar(s), a.v, TRUE, i + 1, r.p - 1) /\ Free(s, i + 1, r.p - 1)
        BY <2>5, <2>6, <3>3
      <4>2. r.v \in Predicates(s, Grammar(s), a.v, i, r.p - 1)
        BY <2>2, <3>1, <4>1, PredicatesHave
      <4>3. Free(s, i, r.p - 1)
        BY <2>2, <3>1, <4>1, FreeFrom, ClauseWordsAre
      <4> QED BY <4>1, <4>2, <4>3
    <3> QED BY <2>2, <2>5, <2>6, <3>1, <3>2, <3>3 DEF RestFound
  <2>7. RestFound(s, i, a.v, r)
    BY <2>6 DEF RestFound
  <2> QED BY <2>7 DEF r
<1>4. CASE tok(s, i) \notin Comparisons \cup {"IS", "NOT"}
  <2>1. r = parse_negatable(s, a, FALSE, i)
    BY <1>4 DEF parse_rest, WithCompare
  <2>2. \A negated \in BOOLEAN : NegatableFound(s, i, a.v, negated, parse_negatable(s, a, negated, i))
    BY <1>n
  <2>3. NegatableFound(s, i, a.v, FALSE, r)
    BY <2>1, <2>2, Zenon
  <2> HIDE DEF r
  <2>4. r.ok => /\ r.p \in i + 1 .. Len(s) + 1 /\ r.n = Marker(s, r.p)
                /\ r.v \in Trees[Connected(s, r.p) - Connected(s, i)]
                /\ MarkersOf(r.v) = MarkerOf(a.v) \cup (Marker(s, i) .. Marker(s, r.p) - 1)
                /\ Supported(r.v) => ~WrongOperand(a.v) /\ r.v \in Negatables(s, Grammar(s), a.v, FALSE, i, r.p - 1) /\ Free(s, i, r.p - 1)
    BY <2>3, Zenon DEF NegatableFound
  <2>5. r.ok /\ Supported(r.v) => r.v \in Predicates(s, Grammar(s), a.v, i, r.p - 1)
    BY <2>4, PredicatesHave
  <2>6. RestFound(s, i, a.v, r)
    BY <2>4, <2>5 DEF RestFound
  <2> QED BY <2>6 DEF r
<1> QED BY <1>1, <1>2, <1>3, <1>4

------------------------------------------------------------------------------
(* Readings of conditions *)

Found(s, kind, p, r) ==
    r.ok => /\ r.p \in p + 1 .. Len(s) + 1 /\ r.n = Marker(s, r.p)
            /\ r.v \in Trees[Connected(s, r.p) - Connected(s, p)]
            /\ MarkersOf(r.v) = Marker(s, p) .. Marker(s, r.p) - 1
            /\ Supported(r.v) => r.v \in Grammar(s)[<<kind, p, r.p - 1>>] /\ Free(s, p, r.p - 1)

\* A call that is found has what Found says.
LevelFound(s, below) ==
    \A p \in 1 .. Len(s) + 1 :
        Found(s, "not", p, below[<<"not", p, Marker(s, p)>>]) /\ Found(s, "or", p, below[<<"or", p, Marker(s, p)>>])

\* An error claims nothing.
LEMMA ErrorIsFound == \A s, kind, p : Found(s, kind, p, Error)
BY ReadIs DEF Found

\* A predicate, from its first operand on.
LEMMA PredicateIsFound ==
    ASSUME NEW s, IsText(s), NEW p \in 1 .. Len(s) + 1, tok(s, p) # "EXISTS"
    PROVE  Found(s, "not", p, parse_rest(s, parse_operand(s, p, Marker(s, p))))
<1> DEFINE a == parse_operand(s, p, Marker(s, p))
           r == parse_rest(s, a)
<1>0. s \in Seq(STRING) /\ Len(s) \in Nat
  BY TokensAre DEF IsText
<1>1. OperandFound(s, p, a)
  BY <1>0, OperandIsFound
<1>2. CASE ~a.ok
  <2>1. r = Error
    BY <1>2 DEF parse_rest, WithCompare
  <2> HIDE DEF r
  <2> QED BY <2>1, ErrorIsFound DEF r
<1>3. CASE a.ok
  <2> HIDE DEF a
  <2>1. a.p \in p + 1 .. Len(s) + 1 /\ a.n = Marker(s, a.p) /\ a.v \in Operand /\ MarkerOf(a.v) = Marker(s, p) .. Marker(s, a.p) - 1
    BY <1>1, <1>3 DEF OperandFound
  <2>2. a.p \in 1 .. Len(s) + 1
    BY <1>0, <2>1
  <2>3. RestFound(s, a.p, a.v, r)
    BY <1>3, <2>1, <2>2, RestIsFound
  <2> HIDE DEF r
  <2>4. ASSUME r.ok PROVE Found(s, "not", p, r)
    <3>1. r.p \in a.p + 1 .. Len(s) + 1 /\ r.n = Marker(s, r.p) /\ r.v \in Trees[Connected(s, r.p) - Connected(s, a.p)]
          /\ MarkersOf(r.v) = MarkerOf(a.v) \cup (Marker(s, a.p) .. Marker(s, r.p) - 1)
      BY <2>3, <2>4 DEF RestFound
    <3>2. r.p \in p + 1 .. Len(s) + 1 /\ r.p \in p .. Len(s) + 1 /\ r.p \in a.p .. Len(s) + 1 /\ a.p \in p .. Len(s) + 1
          /\ p \in Nat \ {0} /\ a.p \in Nat \ {0} /\ r.p \in Nat \ {0} /\ p <= a.p /\ a.p <= r.p
          /\ r.p - 1 \in 0 .. Len(s) /\ a.p - 1 \in Int /\ a.p - 1 < r.p - 1 /\ (a.p - 1) + 1 = a.p /\ p \in 1 .. Len(s)
      BY <1>0, <2>1, <2>2, <3>1
    <3>3. MarkersOf(r.v) = Marker(s, p) .. Marker(s, r.p) - 1
      <4>1. (Marker(s, p) .. Marker(s, a.p) - 1) \cup (Marker(s, a.p) .. Marker(s, r.p) - 1) = Marker(s, p) .. Marker(s, r.p) - 1
        BY <3>2, MarkersJoin
      <4> QED BY <2>1, <3>1, <4>1
    <3>4. r.v \in Trees[Connected(s, r.p) - Connected(s, p)]
      <4> DEFINE m == Connected(s, r.p) - Connected(s, a.p)
                 n == Connected(s, r.p) - Connected(s, p)
      <4>1. Connected(s, p) <= Connected(s, a.p) /\ Connected(s, p) \in Nat /\ Connected(s, a.p) \in Nat
        BY <3>2, ConnectedAre
      <4>2. m \in 0 .. Deepest /\ Connected(s, r.p) \in Nat
        BY <2>2, <3>2, ConnectedAre
      <4>3. n \in 0 .. Deepest
        BY <3>2, ConnectedAre
      <4>4. n \in m .. Deepest
        BY <4>1, <4>2, <4>3, DeepestAssumption
      <4>5. r.v \in Trees[m]
        BY <3>1
      <4> HIDE DEF m, n
      <4>6. r.v \in Trees[n]
        BY <4>2, <4>4, <4>5, TreesMore
      <4> QED BY <4>6 DEF n
    <3>5. ASSUME Supported(r.v) PROVE r.v \in Grammar(s)[<<"not", p, r.p - 1>>] /\ Free(s, p, r.p - 1)
      <4>1. ~WrongOperand(a.v) /\ r.v \in Predicates(s, Grammar(s), a.v, a.p, r.p - 1) /\ Free(s, a.p, r.p - 1)
        BY <2>3, <2>4, <3>5 DEF RestFound
      <4>2. a.v \in Operands(s, p, a.p - 1) /\ Free(s, p, a.p - 1)
        BY <1>1, <1>3, <4>1 DEF OperandFound
      <4>3. a.p - 1 \in {p, p + 1}
        BY <2>1, <3>2, <4>2 DEF Operands
      <4>4. s[p] # "EXISTS"
        BY <1>0, <3>2, TokensAre
      <4>5. r.v \in Predicates(s, Grammar(s), a.v, (a.p - 1) + 1, r.p - 1)
        BY <3>2, <4>1
      <4>6. r.v \in Grammar(s)[<<"not", p, r.p - 1>>]
        <5> DEFINE k == a.p - 1
                   j == r.p - 1
        <5>1. k \in {p, p + 1} /\ k <= j /\ a.v \in Operands(s, p, k) /\ r.v \in Predicates(s, Grammar(s), a.v, k + 1, j) /\ j \in 0 .. Len(s)
          BY <3>2, <4>2, <4>3, <4>5
        <5> HIDE DEF k, j
        <5>2. r.v \in Grammar(s)[<<"not", p, j>>]
          BY <1>0, <4>4, <5>1, NotHas
        <5> QED BY <5>2 DEF j
      <4>7. Free(s, p, r.p - 1)
        <5>1. \A x \in p .. r.p - 1 : x \in p .. a.p - 1 \/ x \in a.p .. r.p - 1
          BY <3>2
        <5> QED BY <4>1, <4>2, <5>1 DEF Free
      <4> QED BY <4>6, <4>7
    <3> QED BY <3>1, <3>2, <3>3, <3>4, <3>5 DEF Found
  <2>5. Found(s, "not", p, r)
    BY <2>4 DEF Found
  <2> QED BY <2>5 DEF r, a
<1> QED BY <1>2, <1>3

\* A parenthesised condition.
LEMMA NestedIsFound ==
    ASSUME NEW s, IsText(s), NEW p \in 1 .. Len(s) + 1, NEW c, tok(s, p) = "(", Found(s, "or", p + 1, c)
    PROVE  Found(s, "not", p, Expect(s, c, ")"))
<1> DEFINE r == Expect(s, c, ")")
<1>0. s \in Seq(STRING) /\ Len(s) \in Nat
  BY TokensAre DEF IsText
<1>1. p \in 1 .. Len(s) /\ s[p] = "(" /\ Marker(s, p + 1) = Marker(s, p) /\ p + 1 \in 1 .. Len(s) + 1
  BY <1>0, WordAt
<1>2. CASE ~(c.ok /\ tok(s, c.p) = ")")
  <2>1. r = Error
    BY <1>2 DEF Expect
  <2> HIDE DEF r
  <2> QED BY <2>1, ErrorIsFound DEF r
<1>3. CASE c.ok /\ tok(s, c.p) = ")"
  <2>1. r = Read(c.p + 1, c.n, c.v)
    BY <1>3 DEF Expect
  <2>2. r.ok /\ r.p = c.p + 1 /\ r.n = c.n /\ r.v = c.v
    BY <2>1, ReadIs
  <2> HIDE DEF r
  <2>3. c.p \in (p + 1) + 1 .. Len(s) + 1 /\ c.n = Marker(s, c.p) /\ c.v \in Trees[Connected(s, c.p) - Connected(s, p + 1)]
        /\ MarkersOf(c.v) = Marker(s, p + 1) .. Marker(s, c.p) - 1
    BY <1>3 DEF Found
  <2>4. c.p \in 1 .. Len(s) + 1
    BY <1>0, <1>1, <2>3
  <2>5. c.p \in 1 .. Len(s) /\ s[c.p] = ")" /\ Marker(s, c.p + 1) = Marker(s, c.p) /\ c.p + 1 \in 1 .. Len(s) + 1
    BY <1>0, <1>3, <2>4, WordAt
  <2>6. r.p \in p + 1 .. Len(s) + 1 /\ r.p - 1 = c.p /\ p < c.p /\ c.p \in 0 .. Len(s) /\ c.p \in Int /\ p \in Int /\ p + 1 \in Int
        /\ (r.p - 1) - 1 = c.p - 1 /\ p \in p .. Len(s) + 1 /\ c.p \in c.p .. Len(s) + 1
    BY <1>0, <1>1, <2>2, <2>3, <2>5
  <2>7. Connected(s, p + 1) = Connected(s, p)
    <3>1. p \in p .. Len(s) + 1
      BY <2>6
    <3>2. p <= Len(s) /\ s[p] \notin Connectives
      BY <1>0, <1>1 DEF Connectives
    <3> QED BY <3>1, <3>2, ConnectedAre
  <2>8. Connected(s, c.p + 1) = Connected(s, c.p)
    <3> DEFINE i == c.p
    <3>1. i \in 1 .. Len(s) + 1
      BY <2>4
    <3>2. i \in i .. Len(s) + 1
      BY <2>6
    <3>3. i <= Len(s) /\ s[i] \notin Connectives
      BY <1>0, <2>5 DEF Connectives
    <3> HIDE DEF i
    <3>4. Connected(s, i + 1) = Connected(s, i)
      BY <3>1, <3>2, <3>3, ConnectedAre
    <3> QED BY <3>4 DEF i
  <2>9. r.v \in Trees[Connected(s, r.p) - Connected(s, p)]
    BY <2>2, <2>3, <2>7, <2>8
  <2>10. MarkersOf(r.v) = Marker(s, p) .. Marker(s, r.p) - 1
    BY <1>1, <2>2, <2>3, <2>5
  <2>11. ASSUME Supported(r.v) PROVE r.v \in Grammar(s)[<<"not", p, r.p - 1>>] /\ Free(s, p, r.p - 1)
    <3>1. c.v \in Grammar(s)[<<"or", p + 1, c.p - 1>>] /\ Free(s, p + 1, c.p - 1)
      BY <1>3, <2>2, <2>11 DEF Found
    <3>2. c.v \in Grammar(s)[<<"not", p, c.p>>]
      BY <1>0, <1>1, <2>5, <2>6, <3>1, NotHas
    <3>3. \A k \in p .. c.p : k = p \/ k = c.p \/ k \in p + 1 .. c.p - 1
      BY <2>6
    <3>4. Free(s, p, c.p)
      BY <1>1, <2>5, <3>1, <3>3, ClauseWordsAre DEF Free
    <3> QED BY <2>2, <2>6, <3>2, <3>4
  <2>12. Found(s, "not", p, r)
    BY <2>2, <2>3, <2>5, <2>6, <2>9, <2>10, <2>11 DEF Found
  <2> QED BY <2>12 DEF r
<1> QED BY <1>2, <1>3

\* A negated condition.
LEMMA NegatedIsFound ==
    ASSUME NEW s, IsText(s), NEW p \in 1 .. Len(s) + 1, NEW c, tok(s, p) = "NOT", Found(s, "not", p + 1, c)
    PROVE  Found(s, "not", p, Made(c, Not(c.v)))
<1> DEFINE r == Made(c, Not(c.v))
<1>0. s \in Seq(STRING) /\ Len(s) \in Nat
  BY TokensAre DEF IsText
<1>1. p \in 1 .. Len(s) /\ s[p] = "NOT" /\ Marker(s, p + 1) = Marker(s, p) /\ p + 1 \in 1 .. Len(s) + 1
  BY <1>0, WordAt
<1>2. CASE ~c.ok
  <2>1. r = Error
    BY <1>2 DEF Made
  <2> HIDE DEF r
  <2> QED BY <2>1, ErrorIsFound DEF r
<1>3. CASE c.ok
  <2>1. r = Read(c.p, c.n, Not(c.v))
    BY <1>3 DEF Made
  <2>2. r.ok /\ r.p = c.p /\ r.n = c.n /\ r.v = Not(c.v)
    BY <2>1, ReadIs
  <2> HIDE DEF r
  <2>3. c.p \in (p + 1) + 1 .. Len(s) + 1 /\ c.n = Marker(s, c.p) /\ c.v \in Trees[Connected(s, c.p) - Connected(s, p + 1)]
        /\ MarkersOf(c.v) = Marker(s, p + 1) .. Marker(s, c.p) - 1
    BY <1>3 DEF Found
  <2>4. c.p \in p + 1 .. Len(s) + 1 /\ c.p \in p .. Len(s) + 1 /\ p <= c.p - 1 /\ c.p - 1 \in Int /\ c.p - 1 \in 0 .. Len(s)
        /\ p \in p .. Len(s) + 1 /\ p <= Len(s) /\ p \in Int
    BY <1>0, <1>1, <2>3
  <2>5. Connected(s, p + 1) = Connected(s, p) + 1 /\ Connected(s, p) \in Nat
    BY <1>1, <2>4, ConnectedAre DEF Connectives
  <2> DEFINE m == Connected(s, c.p) - Connected(s, p + 1)
             n == Connected(s, c.p) - Connected(s, p)
  <2>6. m \in 0 .. Deepest /\ Connected(s, c.p) \in Nat
    BY <1>1, <2>4, ConnectedAre
  <2>7. n \in 0 .. Deepest
    BY <2>4, ConnectedAre
  <2>8. m \in Nat /\ n >= m + 1
    BY <2>5, <2>6, <2>7
  <2>9. c.v \in Trees[m]
    BY <2>3
  <2>10. Not(c.v) \in Trees[n] /\ Not(c.v) \in Expr
    <3> HIDE DEF m, n
    <3> QED BY <2>7, <2>8, <2>9, TreesNot
  <2>11. (Supported(Not(c.v)) <=> Supported(c.v)) /\ MarkersOf(Not(c.v)) = MarkersOf(c.v)
    BY <2>10, NegationParts
  <2>12. ASSUME Supported(r.v) PROVE r.v \in Grammar(s)[<<"not", p, r.p - 1>>] /\ Free(s, p, r.p - 1)
    <3>1. c.v \in Grammar(s)[<<"not", p + 1, c.p - 1>>] /\ Free(s, p + 1, c.p - 1)
      BY <1>3, <2>2, <2>11, <2>12 DEF Found
    <3>2. Not(c.v) \in Grammar(s)[<<"not", p, c.p - 1>>]
      BY <1>0, <1>1, <2>4, <3>1, NotHas
    <3>3. Free(s, p, c.p - 1)
      BY <1>1, <2>4, <3>1, FreeFrom, ClauseWordsAre
    <3> QED BY <2>2, <3>2, <3>3
  <2>13. Found(s, "not", p, r)
    BY <1>1, <2>2, <2>3, <2>4, <2>10, <2>11, <2>12 DEF Found
  <2> QED BY <2>13 DEF r
<1> QED BY <1>2, <1>3

\* What parse_not returns is a reading of its tokens, if the level below returns readings.
LEMMA NotIsFound ==
    ASSUME NEW s, IsText(s), NEW below, LevelFound(s, below), NEW p \in 1 .. Len(s) + 1
    PROVE  Found(s, "not", p, parse_not(s, below, p, Marker(s, p)))
<1>0. s \in Seq(STRING) /\ Len(s) \in Nat
  BY TokensAre DEF IsText
<1>1. ASSUME tok(s, p) = "NOT" \/ tok(s, p) = "("
      PROVE  Marker(s, p + 1) = Marker(s, p) /\ p + 1 \in 1 .. Len(s) + 1
  BY <1>0, <1>1, WordAt
<1>2. CASE tok(s, p) = "NOT"
  <2> DEFINE c == below[<<"not", p + 1, Marker(s, p)>>]
  <2>1. Found(s, "not", p + 1, c)
    BY <1>1, <1>2 DEF LevelFound
  <2>2. parse_not(s, below, p, Marker(s, p)) = Made(c, Not(c.v))
    BY <1>2 DEF parse_not
  <2> QED BY <1>2, <2>1, <2>2, NegatedIsFound
<1>3. CASE tok(s, p) = "("
  <2> DEFINE c == below[<<"or", p + 1, Marker(s, p)>>]
  <2>1. Found(s, "or", p + 1, c)
    BY <1>1, <1>3 DEF LevelFound
  <2>2. \/ parse_not(s, below, p, Marker(s, p)) = Expect(s, c, ")")
        \/ parse_not(s, below, p, Marker(s, p)) = Error
    BY <1>3 DEF parse_not, parse_predicate
  <2>3. Found(s, "not", p, Expect(s, c, ")"))
    BY <1>3, <2>1, NestedIsFound
  <2> QED BY <2>2, <2>3, ErrorIsFound
<1>4. CASE tok(s, p) = "EXISTS"
  <2>1. parse_not(s, below, p, Marker(s, p)) = Error
    BY <1>4 DEF parse_not, parse_predicate
  <2> QED BY <2>1, ErrorIsFound
<1>5. CASE tok(s, p) \notin {"NOT", "(", "EXISTS"}
  <2>1. parse_not(s, below, p, Marker(s, p)) = parse_rest(s, parse_operand(s, p, Marker(s, p)))
    BY <1>5 DEF parse_not, parse_predicate
  <2>2. Found(s, "not", p, parse_rest(s, parse_operand(s, p, Marker(s, p))))
    BY <1>5, PredicateIsFound
  <2> QED BY <2>1, <2>2
<1> QED BY <1>2, <1>3, <1>4, <1>5

------------------------------------------------------------------------------
(* Readings of junctions *)

\* Arithmetic of places: one side, a connective and the other side.
LEMMA PlacesJunction ==
    ASSUME NEW n \in Nat, NEW p \in 1 .. n + 1, NEW l \in p + 1 .. n + 1, NEW r \in (l + 1) + 1 .. n + 1
    PROVE  /\ r \in p + 1 .. n + 1 /\ l \in p .. r - 1 /\ r - 1 \in 0 .. n /\ p \in 1 .. n
           /\ p \in Nat \ {0} /\ l \in Nat \ {0} /\ r \in Nat \ {0} /\ p <= l /\ l <= r /\ l \in p .. n + 1 /\ r \in l + 1 .. n + 1
           /\ r \in p .. n + 1 /\ l \in Int /\ p \in Int /\ r - 1 \in Int /\ l \in l .. n + 1 /\ l \in 1 .. n + 1
OBVIOUS

\* What a junction of two spans has, whichever it is.
Joined(s, k1, k2, p, l, r, e) ==
    /\ r.p \in p + 1 .. Len(s) + 1 /\ r.n = Marker(s, r.p)
    /\ e \in Trees[Connected(s, r.p) - Connected(s, p)]
    /\ MarkersOf(e) = Marker(s, p) .. Marker(s, r.p) - 1
    /\ l.p \in p .. r.p - 1 /\ r.p - 1 \in 0 .. Len(s) /\ p \in 1 .. Len(s)
    /\ Supported(e) => /\ l.v \in Grammar(s)[<<k1, p, l.p - 1>>] /\ r.v \in Grammar(s)[<<k2, l.p + 1, r.p - 1>>]
                       /\ Free(s, p, r.p - 1)

\* Readings of two sides around AND or OR are joined to a reading of the whole.
LEMMA JunctionIsFound ==
    ASSUME NEW s, IsText(s), NEW p \in 1 .. Len(s) + 1, NEW l, NEW r, NEW k1, NEW k2,
           l.ok, r.ok, l.p \in 1 .. Len(s), s[l.p] \in {"AND", "OR"},
           Found(s, k1, p, l), Found(s, k2, l.p + 1, r), NEW e \in {And(l.v, r.v), Or(l.v, r.v)}
    PROVE  Joined(s, k1, k2, p, l, r, e)
<1>0. s \in Seq(STRING) /\ Len(s) \in Nat
  BY TokensAre DEF IsText
<1>1. l.p \in p + 1 .. Len(s) + 1 /\ l.n = Marker(s, l.p) /\ l.v \in Trees[Connected(s, l.p) - Connected(s, p)]
      /\ MarkersOf(l.v) = Marker(s, p) .. Marker(s, l.p) - 1
  BY DEF Found
<1>2. r.p \in (l.p + 1) + 1 .. Len(s) + 1 /\ r.n = Marker(s, r.p) /\ r.v \in Trees[Connected(s, r.p) - Connected(s, l.p + 1)]
      /\ MarkersOf(r.v) = Marker(s, l.p + 1) .. Marker(s, r.p) - 1
  BY DEF Found
<1> DEFINE i == l.p
           j == r.p
<1>3. /\ j \in p + 1 .. Len(s) + 1 /\ i \in p .. j - 1 /\ j - 1 \in 0 .. Len(s) /\ p \in 1 .. Len(s)
      /\ p \in Nat \ {0} /\ i \in Nat \ {0} /\ j \in Nat \ {0} /\ p <= i /\ i <= j /\ i \in p .. Len(s) + 1 /\ j \in i + 1 .. Len(s) + 1
      /\ j \in p .. Len(s) + 1 /\ i \in Int /\ p \in Int /\ j - 1 \in Int /\ i \in i .. Len(s) + 1 /\ i \in 1 .. Len(s) + 1
  BY <1>0, <1>1, <1>2, PlacesJunction
<1>4. i \in 1 .. Len(s) /\ s[i] \in {"AND", "OR"}
  OBVIOUS
<1> HIDE DEF i, j
<1>5. Marker(s, i + 1) = Marker(s, i)
  <2>1. i > 0 /\ i \in Nat
    BY <1>3
  <2> QED BY <1>4, <2>1, MarkerStays
<1>6. Connected(s, i + 1) = Connected(s, i) + 1 /\ Connected(s, i) \in Nat
  <2>1. i \in i .. Len(s) + 1
    BY <1>3
  <2>2. i \in 1 .. Len(s) + 1
    BY <1>3
  <2>3. i <= Len(s) /\ s[i] \in Connectives
    BY <1>0, <1>4 DEF Connectives
  <2> QED BY <2>1, <2>2, <2>3, ConnectedAre
<1> DEFINE a == Connected(s, i) - Connected(s, p)
           b == Connected(s, j) - Connected(s, i + 1)
           n == Connected(s, j) - Connected(s, p)
<1>7. a \in 0 .. Deepest /\ Connected(s, p) \in Nat
  BY <1>3, ConnectedAre
<1>8. b \in 0 .. Deepest /\ Connected(s, j) \in Nat
  <2>1. i + 1 \in 1 .. Len(s) + 1
    BY <1>0, <1>4
  <2> QED BY <1>3, <2>1, ConnectedAre
<1>9. n \in 0 .. Deepest
  BY <1>3, ConnectedAre
<1>10. a \in Nat /\ b \in Nat /\ n >= a + b + 1
  BY <1>6, <1>7, <1>8
<1>11. l.v \in Trees[a] /\ r.v \in Trees[b]
  BY <1>1, <1>2 DEF i, j
<1>12. And(l.v, r.v) \in Trees[n] /\ Or(l.v, r.v) \in Trees[n] /\ And(l.v, r.v) \in Expr /\ Or(l.v, r.v) \in Expr
  <2> HIDE DEF a, b, n
  <2> QED BY <1>9, <1>10, <1>11, TreesJoin
<1>13. /\ Supported(And(l.v, r.v)) <=> Supported(l.v) /\ Supported(r.v)
       /\ Supported(Or(l.v, r.v)) <=> Supported(l.v) /\ Supported(r.v)
       /\ MarkersOf(And(l.v, r.v)) = MarkersOf(l.v) \cup MarkersOf(r.v)
       /\ MarkersOf(Or(l.v, r.v)) = MarkersOf(l.v) \cup MarkersOf(r.v)
  BY <1>12, JunctionParts
<1>14. (Supported(e) <=> Supported(l.v) /\ Supported(r.v)) /\ MarkersOf(e) = MarkersOf(l.v) \cup MarkersOf(r.v) /\ e \in Trees[n]
  <2>1. CASE e = And(l.v, r.v)
    BY <1>12, <1>13, <2>1
  <2>2. CASE e = Or(l.v, r.v)
    BY <1>12, <1>13, <2>2
  <2> QED BY <2>1, <2>2
<1>15. MarkersOf(e) = Marker(s, p) .. Marker(s, j) - 1
  <2>1. (Marker(s, p) .. Marker(s, i) - 1) \cup (Marker(s, i) .. Marker(s, j) - 1) = Marker(s, p) .. Marker(s, j) - 1
    BY <1>3, MarkersJoin
  <2>2. MarkersOf(l.v) = Marker(s, p) .. Marker(s, i) - 1 /\ MarkersOf(r.v) = Marker(s, i) .. Marker(s, j) - 1
    BY <1>1, <1>2, <1>5 DEF i, j
  <2> QED BY <1>14, <2>1, <2>2
<1>16. ASSUME Supported(e)
       PROVE  /\ l.v \in Grammar(s)[<<k1, p, i - 1>>] /\ r.v \in Grammar(s)[<<k2, i + 1, j - 1>>] /\ Free(s, p, j - 1)
  <2>1. l.v \in Grammar(s)[<<k1, p, i - 1>>] /\ Free(s, p, i - 1)
    BY <1>14, <1>16 DEF Found, i
  <2>2. r.v \in Grammar(s)[<<k2, i + 1, j - 1>>] /\ Free(s, i + 1, j - 1)
    BY <1>14, <1>16 DEF Found, i, j
  <2>3. s[i] \notin ClauseWords
    BY <1>4, ClauseWordsAre
  <2>4. Free(s, p, j - 1)
    BY <1>3, <2>1, <2>2, <2>3, FreeJoins
  <2> QED BY <2>1, <2>2, <2>4
<1>17. r.p = j /\ l.p = i /\ n = Connected(s, j) - Connected(s, p)
  BY DEF i, j
<1> HIDE DEF n
<1> QED BY <1>2, <1>3, <1>14, <1>15, <1>16, <1>17 DEF Joined

\* A reading of a part is one of the whole.
LEMMA PartIsFound ==
    ASSUME NEW s, IsText(s), NEW p \in 1 .. Len(s) + 1, NEW r
    PROVE  /\ Found(s, "not", p, r) => Found(s, "and", p, r)
           /\ Found(s, "and", p, r) => Found(s, "or", p, r)
<1>0. Len(s) \in Nat
  BY TokensAre DEF IsText
<1>1. r.p \in p + 1 .. Len(s) + 1 => r.p - 1 \in 0 .. Len(s)
  BY <1>0
<1>2. Found(s, "not", p, r) => Found(s, "and", p, r)
  <2>1. r.p \in p + 1 .. Len(s) + 1 /\ r.v \in Grammar(s)[<<"not", p, r.p - 1>>] => r.v \in Grammar(s)[<<"and", p, r.p - 1>>]
    BY <1>0, <1>1, AndHas
  <2> QED BY <2>1 DEF Found
<1>3. Found(s, "and", p, r) => Found(s, "or", p, r)
  <2>1. r.p \in p + 1 .. Len(s) + 1 /\ r.v \in Grammar(s)[<<"and", p, r.p - 1>>] => r.v \in Grammar(s)[<<"or", p, r.p - 1>>]
    BY <1>0, <1>1, OrHas
  <2> QED BY <2>1 DEF Found
<1> QED BY <1>2, <1>3

\* A round reads one more part behind the word AND.
LEMMA AndRoundIsFound ==
    ASSUME NEW s, IsText(s), NEW p \in 1 .. Len(s) + 1, NEW below, NEW l, Found(s, "and", p, l),
           \A q \in 1 .. Len(s) + 1 : Found(s, "not", q, parse_not(s, below, q, Marker(s, q)))
    PROVE  Found(s, "and", p, AndStep(s, below, l))
<1> DEFINE x == AndStep(s, below, l)
           r == parse_not(s, below, l.p + 1, l.n)
<1>0. s \in Seq(STRING) /\ Len(s) \in Nat
  BY TokensAre DEF IsText
<1>1. x = IF l.ok /\ tok(s, l.p) = "AND" THEN Made(r, And(l.v, r.v)) ELSE l
  BY DEF AndStep, WithAnd
<1> HIDE DEF x
<1>2. CASE ~(l.ok /\ tok(s, l.p) = "AND")
  BY <1>1, <1>2 DEF x
<1>3. CASE l.ok /\ tok(s, l.p) = "AND"
  <2>1. l.p \in p + 1 .. Len(s) + 1 /\ l.n = Marker(s, l.p)
    BY <1>3 DEF Found
  <2>2. l.p \in 1 .. Len(s) + 1
    BY <1>0, <2>1
  <2>3. l.p \in 1 .. Len(s) /\ s[l.p] = "AND" /\ Marker(s, l.p + 1) = Marker(s, l.p) /\ l.p + 1 \in 1 .. Len(s) + 1
    BY <1>0, <1>3, <2>2, WordAt
  <2>4. Found(s, "not", l.p + 1, r)
    BY <2>1, <2>3
  <2> HIDE DEF r
  <2>5. CASE ~r.ok
    <3>1. x = Error
      BY <1>1, <1>3, <2>5 DEF Made
    <3> QED BY <3>1, ErrorIsFound DEF x
  <2>6. CASE r.ok
    <3> DEFINE e == And(l.v, r.v)
    <3>1. x = Read(r.p, r.n, e)
      BY <1>1, <1>3, <2>6 DEF Made
    <3>2. e \in {And(l.v, r.v), Or(l.v, r.v)}
      OBVIOUS
    <3>3. e = And(l.v, r.v)
      OBVIOUS
    <3> HIDE DEF e
    <3>4. x.ok /\ x.p = r.p /\ x.n = r.n /\ x.v = e
      BY <3>1, ReadIs
    <3>5. Joined(s, "and", "not", p, l, r, e)
      BY <1>3, <2>3, <2>4, <2>6, <3>2, JunctionIsFound
    <3>6. ASSUME Supported(e) PROVE e \in Grammar(s)[<<"and", p, r.p - 1>>]
      <4> DEFINE j == r.p - 1
                 i == l.p
      <4>1. l.v \in Grammar(s)[<<"and", p, i - 1>>] /\ r.v \in Grammar(s)[<<"not", i + 1, j>>] /\ i \in p .. j /\ j \in 0 .. Len(s)
        BY <3>5, <3>6 DEF Joined
      <4>2. i \in Places(s, "AND", p, j)
        BY <2>3, <4>1 DEF Places
      <4> HIDE DEF i, j
      <4>3. IsAnd(s, p, j, e)
        BY <3>3, <4>1, <4>2 DEF IsAnd
      <4>4. e \in Grammar(s)[<<"and", p, j>>]
        BY <1>0, <4>1, <4>3, AndHas
      <4> QED BY <4>4 DEF j
    <3>7. Found(s, "and", p, x)
      BY <3>4, <3>5, <3>6 DEF Joined, Found
    <3> QED BY <3>7 DEF x
  <2> QED BY <2>5, <2>6
<1> QED BY <1>2, <1>3

\* What parse_and returns is a reading of its tokens,
LEMMA AndIsFound ==
    ASSUME NEW s, IsText(s), NEW below, LevelFound(s, below), NEW p \in 1 .. Len(s) + 1
    PROVE  Found(s, "and", p, parse_and(s, below, p, Marker(s, p)))
<1> DEFINE rounds == AndRounds(s, below, p, Marker(s, p))
           T == {k \in 0 .. Len(s) : Found(s, "and", p, rounds[k])}
<1>0. s \in Seq(STRING) /\ Len(s) \in Nat
  BY TokensAre DEF IsText
<1>1. rounds[0] = parse_not(s, below, p, Marker(s, p)) /\ \A k \in 1 .. Len(s) : rounds[k] = AndStep(s, below, rounds[k - 1])
  BY <1>0, AndRoundsAre
<1>2. \A q \in 1 .. Len(s) + 1 : Found(s, "not", q, parse_not(s, below, q, Marker(s, q)))
  BY NotIsFound
<1>3. 0 \in T
  <2> HIDE DEF rounds
  <2>1. Found(s, "not", p, rounds[0])
    BY <1>1, <1>2
  <2>2. Found(s, "and", p, rounds[0])
    BY <2>1, PartIsFound
  <2> QED BY <1>0, <2>2
<1>4. ASSUME NEW k \in 1 .. Len(s), k - 1 \in T PROVE k \in T
  <2> HIDE DEF rounds
  <2>1. Found(s, "and", p, rounds[k - 1])
    BY <1>4
  <2>2. Found(s, "and", p, AndStep(s, below, rounds[k - 1]))
    BY <1>2, <2>1, AndRoundIsFound
  <2> QED BY <1>0, <1>1, <2>2
<1>5. Len(s) \in T
  <2> HIDE DEF T
  <2> QED BY <1>0, <1>3, <1>4, InductionUpTo
<1> QED BY <1>5 DEF parse_and

\* A round reads one more part behind the word OR.
LEMMA OrRoundIsFound ==
    ASSUME NEW s, IsText(s), NEW p \in 1 .. Len(s) + 1, NEW below, NEW l, Found(s, "or", p, l),
           \A q \in 1 .. Len(s) + 1 : Found(s, "and", q, parse_and(s, below, q, Marker(s, q)))
    PROVE  Found(s, "or", p, OrStep(s, below, l))
<1> DEFINE x == OrStep(s, below, l)
           r == parse_and(s, below, l.p + 1, l.n)
<1>0. s \in Seq(STRING) /\ Len(s) \in Nat
  BY TokensAre DEF IsText
<1>1. x = IF l.ok /\ tok(s, l.p) = "OR" THEN Made(r, Or(l.v, r.v)) ELSE l
  BY DEF OrStep, WithOr
<1> HIDE DEF x
<1>2. CASE ~(l.ok /\ tok(s, l.p) = "OR")
  BY <1>1, <1>2 DEF x
<1>3. CASE l.ok /\ tok(s, l.p) = "OR"
  <2>1. l.p \in p + 1 .. Len(s) + 1 /\ l.n = Marker(s, l.p)
    BY <1>3 DEF Found
  <2>2. l.p \in 1 .. Len(s) + 1
    BY <1>0, <2>1
  <2>3. l.p \in 1 .. Len(s) /\ s[l.p] = "OR" /\ Marker(s, l.p + 1) = Marker(s, l.p) /\ l.p + 1 \in 1 .. Len(s) + 1
    BY <1>0, <1>3, <2>2, WordAt
  <2>4. Found(s, "and", l.p + 1, r)
    BY <2>1, <2>3
  <2> HIDE DEF r
  <2>5. CASE ~r.ok
    <3>1. x = Error
      BY <1>1, <1>3, <2>5 DEF Made
    <3> QED BY <3>1, ErrorIsFound DEF x
  <2>6. CASE r.ok
    <3> DEFINE e == Or(l.v, r.v)
    <3>1. x = Read(r.p, r.n, e)
      BY <1>1, <1>3, <2>6 DEF Made
    <3>2. e \in {And(l.v, r.v), Or(l.v, r.v)}
      OBVIOUS
    <3>3. e = Or(l.v, r.v)
      OBVIOUS
    <3> HIDE DEF e
    <3>4. x.ok /\ x.p = r.p /\ x.n = r.n /\ x.v = e
      BY <3>1, ReadIs
    <3>5. Joined(s, "or", "and", p, l, r, e)
      BY <1>3, <2>3, <2>4, <2>6, <3>2, JunctionIsFound
    <3>6. ASSUME Supported(e) PROVE e \in Grammar(s)[<<"or", p, r.p - 1>>]
      <4> DEFINE j == r.p - 1
                 i == l.p
      <4>1. l.v \in Grammar(s)[<<"or", p, i - 1>>] /\ r.v \in Grammar(s)[<<"and", i + 1, j>>] /\ i \in p .. j /\ j \in 0 .. Len(s)
        BY <3>5, <3>6 DEF Joined
      <4>2. i \in Places(s, "OR", p, j)
        BY <2>3, <4>1 DEF Places
      <4> HIDE DEF i, j
      <4>3. IsOr(s, p, j, e)
        BY <3>3, <4>1, <4>2 DEF IsOr
      <4>4. e \in Grammar(s)[<<"or", p, j>>]
        BY <1>0, <4>1, <4>3, OrHas
      <4> QED BY <4>4 DEF j
    <3>7. Found(s, "or", p, x)
      BY <3>4, <3>5, <3>6 DEF Joined, Found
    <3> QED BY <3>7 DEF x
  <2> QED BY <2>5, <2>6
<1> QED BY <1>2, <1>3

\* and what parse_or returns.
LEMMA OrIsFound ==
    ASSUME NEW s, IsText(s), NEW below, LevelFound(s, below), NEW p \in 1 .. Len(s) + 1
    PROVE  Found(s, "or", p, parse_or(s, below, p, Marker(s, p)))
<1> DEFINE rounds == OrRounds(s, below, p, Marker(s, p))
           T == {k \in 0 .. Len(s) : Found(s, "or", p, rounds[k])}
<1>0. s \in Seq(STRING) /\ Len(s) \in Nat
  BY TokensAre DEF IsText
<1>1. rounds[0] = parse_and(s, below, p, Marker(s, p)) /\ \A k \in 1 .. Len(s) : rounds[k] = OrStep(s, below, rounds[k - 1])
  BY <1>0, OrRoundsAre
<1>2. \A q \in 1 .. Len(s) + 1 : Found(s, "and", q, parse_and(s, below, q, Marker(s, q)))
  BY AndIsFound
<1>3. 0 \in T
  <2> HIDE DEF rounds
  <2>1. Found(s, "and", p, rounds[0])
    BY <1>1, <1>2
  <2>2. Found(s, "or", p, rounds[0])
    BY <2>1, PartIsFound
  <2> QED BY <1>0, <2>2
<1>4. ASSUME NEW k \in 1 .. Len(s), k - 1 \in T PROVE k \in T
  <2> HIDE DEF rounds
  <2>1. Found(s, "or", p, rounds[k - 1])
    BY <1>4
  <2>2. Found(s, "or", p, OrStep(s, below, rounds[k - 1]))
    BY <1>2, <2>1, OrRoundIsFound
  <2> QED BY <1>0, <1>1, <2>2
<1>5. Len(s) \in T
  <2> HIDE DEF T
  <2> QED BY <1>0, <1>3, <1>4, InductionUpTo
<1> QED BY <1>5 DEF parse_or

\* All calls at any level.
LEMMA LevelsAreFound ==
    ASSUME NEW s, IsText(s)
    PROVE  LevelFound(s, Nested(s)[Len(s)])
<1> DEFINE T == {d \in 0 .. Len(s) : LevelFound(s, Nested(s)[d])}
<1>0. s \in Seq(STRING) /\ Len(s) \in Nat
  BY TokensAre DEF IsText
<1>m. \A p \in 1 .. Len(s) + 1 : p \in Nat /\ Marker(s, p) \in Nat
  <2>1. \A p \in 1 .. Len(s) + 1 : p \in Nat \ {0}
    BY <1>0
  <2> QED BY <2>1, MarkersCount
<1>1. 0 \in T
  <2>1. Nested(s)[0] = [c \in Calls |-> Error]
    BY <1>0, NestedAre
  <2>2. \A p \in 1 .. Len(s) + 1 : <<"not", p, Marker(s, p)>> \in Calls /\ <<"or", p, Marker(s, p)>> \in Calls
    BY <1>m DEF Calls
  <2>3. LevelFound(s, Nested(s)[0])
    BY <2>1, <2>2, ErrorIsFound DEF LevelFound
  <2> QED BY <1>0, <2>3
<1>2. ASSUME NEW d \in 1 .. Len(s), d - 1 \in T PROVE d \in T
  <2>1. LevelFound(s, Nested(s)[d - 1])
    BY <1>2
  <2>2. ASSUME NEW p \in 1 .. Len(s) + 1
        PROVE  Found(s, "not", p, Nested(s)[d][<<"not", p, Marker(s, p)>>]) /\ Found(s, "or", p, Nested(s)[d][<<"or", p, Marker(s, p)>>])
    <3>1. p \in Nat /\ Marker(s, p) \in Nat
      BY <1>m
    <3>2. /\ Nested(s)[d][<<"not", p, Marker(s, p)>>] = parse_not(s, Nested(s)[d - 1], p, Marker(s, p))
          /\ Nested(s)[d][<<"or", p, Marker(s, p)>>] = parse_or(s, Nested(s)[d - 1], p, Marker(s, p))
      BY <1>0, <3>1, CallsAre
    <3>3. Found(s, "not", p, parse_not(s, Nested(s)[d - 1], p, Marker(s, p)))
      BY <2>1, NotIsFound
    <3>4. Found(s, "or", p, parse_or(s, Nested(s)[d - 1], p, Marker(s, p)))
      BY <2>1, OrIsFound
    <3> QED BY <3>2, <3>3, <3>4
  <2>3. LevelFound(s, Nested(s)[d])
    BY <2>2 DEF LevelFound
  <2> QED BY <1>0, <2>3
<1>3. Len(s) \in T
  <2> HIDE DEF T
  <2> QED BY <1>0, <1>1, <1>2, InductionUpTo
<1> QED BY <1>3

\* What the parser reads as a condition, from any place of any text whose connectives a tree has the
\* depth for, ends behind that place, has the markers of the text it was read from, and is in the
\* grammar, without a word of another clause, unless the planner refuses it (parse_or and the functions
\* below it, sql_parser.cpp:290-391).
THEOREM ParsedIsReading ==
    ASSUME NEW s, IsText(s), NEW i \in 1 .. Len(s) + 1, parse_condition(s, i, Marker(s, i)).ok
    PROVE  LET r == parse_condition(s, i, Marker(s, i))
           IN  /\ r.p \in i + 1 .. Len(s) + 1 /\ r.n = Marker(s, r.p)
               /\ r.v \in Expr /\ MarkersOf(r.v) = Marker(s, i) .. Marker(s, r.p) - 1
               /\ Supported(r.v) => r.v \in Conditions(s, i, r.p - 1) /\ Free(s, i, r.p - 1)
<1> DEFINE r == parse_condition(s, i, Marker(s, i))
<1>0. s \in Seq(STRING) /\ Len(s) \in Nat
  BY TokensAre DEF IsText
<1>1. Found(s, "or", i, r)
  BY LevelsAreFound, OrIsFound DEF parse_condition
<1>o. r.ok
  OBVIOUS
<1> HIDE DEF r
<1>2. /\ r.p \in i + 1 .. Len(s) + 1 /\ r.n = Marker(s, r.p)
      /\ r.v \in Trees[Connected(s, r.p) - Connected(s, i)] /\ MarkersOf(r.v) = Marker(s, i) .. Marker(s, r.p) - 1
      /\ Supported(r.v) => r.v \in Conditions(s, i, r.p - 1) /\ Free(s, i, r.p - 1)
  BY <1>1, <1>o DEF Found, Conditions
<1>3. r.p \in i .. Len(s) + 1
  BY <1>0, <1>2
<1> DEFINE n == Connected(s, r.p) - Connected(s, i)
<1>4. n \in 0 .. Deepest
  BY <1>3, ConnectedAre
<1>5. r.v \in Trees[n]
  BY <1>2
<1> HIDE DEF n
<1>6. r.v \in Expr
  BY <1>4, <1>5, TreesAreExpr
<1> QED BY <1>2, <1>6 DEF r
==============================================================================
