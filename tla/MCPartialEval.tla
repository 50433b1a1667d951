--------------------------- MODULE MCPartialEval ---------------------------
(***************************************************************************)
(* Instances of PartialEval for TLC: families of small expressions over    *)
(* two booleans x and y, a number n, a map m and a list l.                 *)
(***************************************************************************)
EXTENDS PartialEval

Or(a, b)      == Call("or", <<a, b>>)
And(a, b)     == Call("and", <<a, b>>)
Not(a)        == Call("not", <<a>>)
Cond(c, a, b) == Call("cond", <<c, a, b>>)
Eq(a, b)      == Call("equals", <<a, b>>)
In(a, b)      == Call("in", <<a, b>>)
X  == Ident("x")
Y  == Ident("y")
N  == Ident("n")
MA == Select(Ident("m"), "a")
\* n < 1 / n fails when n is zero
Fails == Call("less", <<N, Call("divide", <<Lit(Num(1)), N>>)>>)

Atoms  == {X, MA, Fails, Lit(True), Lit(False)}
Pairs  == {Or(a, b) : a \in Atoms, b \in Atoms} \cup {And(a, b) : a \in Atoms, b \in Atoms}
Strict == {Not(a) : a \in Atoms} \cup {Eq(X, a) : a \in Atoms} \cup {Eq(a, Y) : a \in Atoms}
          \cup {In(a, MkList(<<>>, {})) : a \in Atoms}
          \cup {In(Y, MkList(<<a>>, {})) : a \in Atoms}
Conds  == {Cond(c, a, b) : c \in {X, Y, Fails}, a \in {MA, Fails, Lit(True)}, b \in {X, Lit(False)}}
Small  == Pairs \cup Strict \cup Conds
LogicExprs ==
    Small \cup {Or(Y, e) : e \in Small} \cup {And(e, Y) : e \in Strict \cup Conds}
          \cup {Cond(e, Y, MA) : e \in Pairs}

Truth(x, y, n, a) ==
    ("x" :> Bool(x)) @@ ("y" :> Bool(y)) @@ ("n" :> Num(n))
    @@ ("m" :> Map([f \in {"a"} |-> Bool(a)])) 
LogicTruths == {Truth(x, y, n, a) : x \in BOOLEAN, y \in BOOLEAN, n \in {0, 1}, a \in BOOLEAN}
LogicPatterns == {Pattern("x", <<>>), Pattern("n", <<>>), Pattern("m", <<"a">>)}

\* Comprehensions, bindings, indexing and list literals with optional elements.
I == Ident("i")
L == Ident("l")
Opt(e) == Call("optional.of", <<e>>)
Ranges     == {L, MkList(<<X, Y>>, {}), MkList(<<Lit(None), Opt(X), Y, L>>, {1, 2}),
               MkList(<<Opt(Y), Opt(Fails), X>>, {1, 2}), MkList(<<Lit(None), Opt(Ident("o")), X>>, {1, 2}),
               MapTo(L, "i", And(I, X)), Filter(L, "x", Eq(X, Y))}
Predicates == {I, X, And(I, Fails), Or(Select(Ident("m"), "a"), I), Index(Ident("l"), N),
               In(I, L), Exists(L, "x", Eq(X, I)), Bind("v", I, And(Ident("v"), X))}
Loops      == {All(r, "i", p) : r \in Ranges, p \in Predicates}
              \cup {Exists(r, "i", p) : r \in Ranges, p \in Predicates}
              \cup {In(Y, MapTo(r, "i", p)) : r \in Ranges, p \in Predicates}
              \cup {Eq(Filter(r, "i", p), MkList(<<X>>, {})) : r \in Ranges, p \in Predicates}
Bindings   == {Bind("v", e, And(Ident("v"), f)) : e \in Predicates \ {I}, f \in Atoms}
              \cup {Or(X, Bind("x", Y, e)) : e \in Atoms}
Indexed    == {Index(b, k) : b \in {L, MkList(<<X, Y>>, {}), Cond(X, L, MkList(<<Y>>, {})), Ident("o")},
                             k \in {N, Lit(Num(0)), Cond(Y, N, Lit(Num(1))), Call("divide", <<N, N>>)}}
              \cup {Index(Ident("m"), Lit(Name("b"))), Has(Ident("m"), "b"),
                    Select(Cond(Has(Ident("m"), "a"), Ident("m"), Ident("o")), "b")}
FoldExprs  == Loops \cup Bindings \cup Indexed
              \cup {And(e, X) : e \in Bindings} \cup {Or(Not(e), Y) : e \in Indexed}

FoldTruth(x, y, n, a, l) ==
    ("x" :> Bool(x)) @@ ("y" :> Bool(y)) @@ ("n" :> Num(n)) @@ ("o" :> Msg("o"))
    @@ ("m" :> Map([f \in a |-> True])) @@ ("l" :> List(l))
FoldTruths == {FoldTruth(x, TRUE, 0, {"a"}, l) : x \in BOOLEAN, l \in {<<>>, <<True, False>>}}
              \cup {FoldTruth(x, FALSE, 1, {"b"}, <<False>>) : x \in BOOLEAN}
              \cup {FoldTruth(TRUE, TRUE, 0, {}, <<True, False>>)}
FoldPatterns == {Pattern("x", <<>>), Pattern("l", <<>>), Pattern("m", <<"a", "c">>)}

\* The smaller ones of them are also evaluated again after a residual was made.
AllExprs    == LogicExprs \cup FoldExprs
TruthsOf(e) == IF e \in LogicExprs THEN LogicTruths ELSE FoldTruths
PatternsOf(e) == IF e \in LogicExprs THEN LogicPatterns ELSE FoldPatterns

\* A comprehension over a variable that may be known once and unknown later.
MacroExprs == {All(L, "i", Or(I, X))}
=============================================================================
