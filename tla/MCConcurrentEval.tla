-------------------------- MODULE MCConcurrentEval --------------------------
(***************************************************************************)
(* Instances of ConcurrentEval for TLC: two small expressions, written as *)
(* sequences of nodes in post-order.                                       *)
(***************************************************************************)
EXTENDS ConcurrentEval

\* The node records of an expression, in post-order.
Leaf(kind)          == [kind |-> kind, args |-> {}, first |-> 0, id |-> 0, key |-> ""]
Var(id)             == [Leaf("attr") EXCEPT !.id = id]
CallOf(key)         == [Leaf("async") EXCEPT !.key = key]
Op(kind, args, first) == [Leaf(kind) EXCEPT !.args = args, !.first = first]

KindOf(e)  == [n \in DOMAIN e |-> e[n].kind]
ArgsOf(e)  == [n \in DOMAIN e |-> e[n].args]
FirstOf(e) == [n \in DOMAIN e |-> IF e[n].first = 0 THEN n ELSE e[n].first]
IdOf(e)    == [n \in DOMAIN e |-> e[n].id]
KeyOf(e)   == [n \in {m \in DOMAIN e : e[m].kind = "async"} |-> e[n].key]

\* a() || b() || c()
AnyExpr == <<CallOf("a"), CallOf("b"), CallOf("c"), Op("or", {1, 2, 3}, 1)>>
AnyKind == KindOf(AnyExpr)
AnyArgs == ArgsOf(AnyExpr)
AnyFirst == FirstOf(AnyExpr)
AnyId   == IdOf(AnyExpr)
AnyKey  == KeyOf(AnyExpr)

\* x && (a() || e() || t) && c(b()) == [1, 1].map(i, d(i)), with x an unknown attribute and
\* t a variable that is true: two calls that are not needed, and one call of d with the
\* same arguments twice, at one node.  x is the first node of the expression and has its
\* first id, a() is the first call that is registered: both are number 1.
ChainExpr == <<Var(1), CallOf("a"), CallOf("e"), Leaf("true"), Op("or", {2, 3, 4}, 2),
               CallOf("b"), [CallOf("c") EXCEPT !.args = {6}, !.first = 6],
               CallOf("d"), CallOf("d"), Op("fold", {8, 9}, 8),
               Op("strict", {7, 10}, 6), Op("and", {1, 5, 11}, 1)>>
ChainKind == KindOf(ChainExpr)
ChainArgs == ArgsOf(ChainExpr)
ChainFirst == FirstOf(ChainExpr)
ChainId   == IdOf(ChainExpr)
ChainKey  == KeyOf(ChainExpr)

ABC == {"a", "b", "c"}
ABCDE == ABC \cup {"d", "e"}

Booleans     == {True, False}
FalseOrError == {False, Err}
=============================================================================
