------------------------------- MODULE Prune -------------------------------
(***************************************************************************)
(* PruneAst: replace the subexpressions whose value the recorded state     *)
(* knows by literals and simplify the operators around them.               *)
(*                                                                         *)
(* Macro calls are tracked: for each macro, what is printed and parsed     *)
(* again is not its expansion but its macro call, found by its id.  Within *)
(* a macro call another one is only referred to by its id.                 *)
(*                                                                         *)
(* A pruner has the recorded state (literals made on the way are added to  *)
(* it), the macro calls, and whether a type assertion has failed; a result *)
(* is the new expression with the pruner afterwards.                       *)
(***************************************************************************)
EXTENDS Interpreter

Pruner(st, macros) == [st |-> st, macros |-> macros, panic |-> FALSE]
Pruned(e, p)       == [e |-> e, p |-> p]

Value(id, p)     == IF id \in DOMAIN p.st THEN p.st[id] ELSE Unk
Recorded(e, p)   == e.id \in DOMAIN p.st
\* maybeValue: the value is recorded and final.
Known(e, p)      == Final(Value(e.id, p))

-----------------------------------------------------------------------------
(* Macro calls. *)
IsMacro(e)   == e.op \in {"fold", "bind", "has"}
Expanded(id) == [op |-> "expanded", id |-> id, args |-> <<>>]

RECURSIVE Abbreviate(_), Track(_)
\* buildMacroCallArg: other macros, as far as calls and lists lead to them, by their ids.
Abbreviate(e) ==
    CASE IsMacro(e) -> Expanded(e.id)
      [] e.op \in {"call", "index", "list"} ->
            [e EXCEPT !.args = [i \in DOMAIN e.args |-> Abbreviate(e.args[i])]]
      [] OTHER -> e

\* The macro calls of a parsed expression.
Track(e) ==
    LET call == [e EXCEPT !.args = [i \in DOMAIN e.args |-> Abbreviate(e.args[i])]]
        own  == IF IsMacro(e) THEN e.id :> call ELSE Nothing
    IN FoldLeft(LAMBDA macros, a : Track(a) @@ macros, own, e.args)

-----------------------------------------------------------------------------
(* Literals. *)
RECURSIVE HasLiteral(_), Spell(_)
\* maybeCreateLiteral succeeds for every value without a message in it; an optional is a
\* literal whatever it holds.
HasLiteral(v) ==
    CASE Is("msg", v)  -> FALSE
      [] Is("list", v) -> \A i \in DOMAIN v.list : HasLiteral(v.list[i])
      [] Is("map", v)  -> \A f \in DOMAIN v.map : HasLiteral(v.map[f])
      [] OTHER         -> TRUE

\* The expression a value is written as: a list by its elements, an optional as a constant.
Spell(v) == IF Is("list", v) THEN MkList([i \in DOMAIN v.list |-> Spell(v.list[i])], {}) ELSE Lit(v)

Literal(e, v, p) == Pruned([Spell(v) EXCEPT !.id = e.id], [p EXCEPT !.st = (e.id :> v) @@ @])

-----------------------------------------------------------------------------
(* Calls. *)
FirstKnown(c, p) == CHOOSE i \in {1, 2} : Known(c.args[i], p) /\ (i = 1 \/ ~Known(c.args[1], p))

\* Mutated: the known argument is kept instead of the other one.
SimplifyJunctionKept(c, p) ==
    LET i == FirstKnown(c, p)
        v == Value(c.args[i].id, p)
    IN IF v = Absorbing(c.fn) THEN Literal(c, v, p) ELSE Pruned(c.args[i], p)

\* maybePruneOr and maybePruneAnd: the first of two arguments that is known decides, or
\* leaves the other one.
SimplifyJunction(c, p) ==
    LET i == FirstKnown(c, p)
        v == Value(c.args[i].id, p)
    IN IF v = Absorbing(c.fn) THEN Literal(c, v, p) ELSE Pruned(c.args[3 - i], p)

\* Mutated: an error counts as known.
CondRecorded(c, p) == Recorded(c.args[1], p) /\ Value(c.args[1].id, p) # Unk
CondKnown(c, p)    == Known(c.args[1], p)

Empty(v) == v \in {List(<<>>), Map(<<>>)}

\* maybePruneFunction, for a call that was executed.
Simplify(c, p) ==
    LET known(i) == Known(c.args[i], p)
        val(i)   == Value(c.args[i].id, p)
    IN CASE ~Recorded(c, p) -> Pruned(c, p)
         [] c.fn \in {"or", "and"} /\ (known(1) \/ known(2)) -> SimplifyJunction(c, p)
         [] c.fn = "cond" /\ CondKnown(c, p) ->
               IF ~Is("bool", val(1)) THEN Pruned(c, [p EXCEPT !.panic = TRUE])
               ELSE Pruned(c.args[IF val(1) = True THEN 2 ELSE 3], p)
         [] c.fn = "in" /\ known(2) /\ Empty(val(2)) -> Literal(c, False, p)
         [] c.fn = "not" /\ known(1) /\ Is("bool", val(1)) -> Literal(c, Bool(~val(1).bool), p)
         [] OTHER -> Pruned(c, p)

-----------------------------------------------------------------------------
RECURSIVE PruneExpr(_, _)

\* Prune the arguments that are in the set, from left to right.
PruneArgs(e, parts, p) ==
    FoldLeftDomain(LAMBDA acc, i :
                      IF i \notin parts THEN acc
                      ELSE LET a == PruneExpr(e.args[i], acc.p) IN
                           Pruned([acc.e EXCEPT !.args[i] = a.e], a.p),
                   Pruned(e, p), e.args)

\* An optional element whose value is known: nothing if the optional is empty, its value
\* if that has a literal.
OptionalOf(e, p) ==
    LET v == Value(e.id, p) IN
    IF ~Is("opt", v) THEN "kept"
    ELSE IF v.opt = <<>> THEN "dropped"
    ELSE IF HasLiteral(v.opt[1]) THEN "inlined" ELSE "kept"

\* Mutated: the element stays optional at the index it had.
KeepOptionalOld(acc, i) == i

\* The index of an element that stays optional, in the list pruned so far.
KeepOptional(acc, i) == Len(acc.e.args) + 1

\* The elements of a list literal are pruned from left to right; empty optional elements
\* go away, which shifts the indices of the optional elements after them.
PruneList(e, p) ==
    FoldLeftDomain(LAMBDA acc, i :
        LET x    == e.args[i]
            kind == IF i \in e.opt THEN OptionalOf(x, acc.p) ELSE "plain"
            a    == IF kind = "inlined" THEN Literal(x, Value(x.id, acc.p).opt[1], acc.p)
                    ELSE PruneExpr(x, acc.p)
        IN IF kind = "dropped" THEN acc
           ELSE Pruned([acc.e EXCEPT !.args = Append(@, a.e),
                                     !.opt = IF kind = "kept" THEN @ \cup {KeepOptional(acc, i)} ELSE @],
                       a.p),
        Pruned([e EXCEPT !.args = <<>>, !.opt = {}], p), e.args)

\* Mutated: the arguments that run in a loop are pruned too.
MacroPartsLoop(call, e) == DOMAIN call.args

\* What is pruned of a macro call: the target of a comprehension, since the state holds
\* only its last iteration; all of cel.bind and has, unless only referred to.
MacroParts(call, e) ==
    CASE call.op = "fold"   -> {1}
      [] e.op = "expanded" -> {}
      [] OTHER             -> DOMAIN call.args

PruneMacro(e, p) ==
    LET call == p.macros[e.id]
        a == PruneArgs(call, MacroParts(call, e), p)
    IN [a.p EXCEPT !.macros[e.id] = a.e]

\* Of an expansion only the range of the comprehension is pruned.
PrunableParts(e) ==
    CASE e.op = "fold" -> {1}
      [] e.op = "bind" -> {}
      [] OTHER         -> DOMAIN e.args

PruneExpr(e, p) ==
    IF Known(e, p) /\ HasLiteral(Value(e.id, p))
    THEN Literal(e, Value(e.id, p), [p EXCEPT !.macros = Restrict(@, DOMAIN @ \ {e.id})])
    ELSE LET q == IF e.id \in DOMAIN p.macros THEN PruneMacro(e, p) ELSE p IN
         IF e.op = "list" THEN PruneList(e, q)
         ELSE LET a == PruneArgs(e, PrunableParts(e), q) IN
              IF e.op = "call" THEN Simplify(a.e, a.p) ELSE a

PruneAst(e, macros, st) == PruneExpr(e, Pruner(st, macros))

-----------------------------------------------------------------------------
(***************************************************************************)
(* AstToString of a pruned expression, and what is parsed from the string: *)
(* macro calls instead of expansions, and optional constants as calls.     *)
(* An expansion without a macro call and an optional of something else     *)
(* than a scalar have no source form.                                      *)
(***************************************************************************)
RECURSIVE ConstUnparses(_), Unparses(_, _), Unparse(_, _)
ConstUnparses(v) == IF Is("opt", v) THEN v = None \/ ConstUnparses(v.opt[1])
                    ELSE ~Is("list", v) /\ ~Is("msg", v)

Printed(e, macros) == IF e.id \in DOMAIN macros THEN macros[e.id] ELSE e

Unparses(e, macros) ==
    LET x == Printed(e, macros) IN
    /\ x.op = "lit" => ConstUnparses(x.val)
    /\ x.op \in {"fold", "bind", "expanded"} => e.id \in DOMAIN macros
    /\ \A i \in DOMAIN x.args : Unparses(x.args[i], macros)

Unparse(e, macros) ==
    LET x == Printed(e, macros) IN
    IF x.op = "lit" /\ Is("opt", x.val) /\ x.val # None
    THEN Call("optional.of", <<Unparse(Lit(x.val.opt[1]), macros)>>)
    ELSE [x EXCEPT !.args = [i \in DOMAIN x.args |-> Unparse(x.args[i], macros)]]
=============================================================================
