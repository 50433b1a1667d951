---------------------------- MODULE ParserHelper ----------------------------
(***************************************************************************)
(* What the two parsers of CEL share, beside the nodes of the AST and the  *)
(* trees of chains (LogicManager): the ids that are given to the nodes,    *)
(* and the expansion of the standard macros.                               *)
(*                                                                         *)
(* A parse in progress is a record whose fields are those of the parser's  *)
(* worker that a step may change:                                          *)
(*   toks, pos   the tokens of the source and the index of peekTok         *)
(*   next, calls the next id and the macro calls of the source info        *)
(*   e, es       the expression, or the list of expressions, just parsed   *)
(*   errors      how many errors were reported                             *)
(*   tripped     the recursion limit was exceeded                          *)
(*   depth       recursionDepth, parsed lastParsedDepth                    *)
(*   opt         the options of the parser                                 *)
(***************************************************************************)
EXTENDS LogicManager, SequencesExt

CONSTANT RecoveryLimit      \* errorRecoveryLimit

-----------------------------------------------------------------------------
Unspecified(id)    == Node("none", id, <<>>, <<>>)

Start(toks, opt) ==
    [toks |-> toks, pos |-> 1, next |-> 1, calls |-> {}, e |-> Unspecified(0), es |-> <<>>,
     errors |-> 0, tripped |-> FALSE, depth |-> 0, parsed |-> 0, opt |-> opt]

Accepted(st) == st.errors = 0 /\ ~st.tripped

-----------------------------------------------------------------------------
(* Ids. *)
Alloc(st)        == [st EXCEPT !.next = @ + 1]
\* Mutated: an id is given back although later ones are in use.
DeleteIdAlways(st, id) == [st EXCEPT !.next = id]
DeleteId(st, id) == IF id = st.next - 1 THEN [st EXCEPT !.next = @ - 1] ELSE st
With(st, e)      == [st EXCEPT !.e = e]
NoExpr(st)       == With(Alloc(st), Unspecified(st.next))

\* The new nodes of an expansion (those with id 0) are numbered as they are built:
\* the children of a node before the node.
RECURSIVE Number(_, _)
Number(e, next) ==
    IF e.id # 0 THEN [e |-> e, next |-> next]
    ELSE LET r == FoldSeq(LAMBDA a, acc : LET x == Number(a, acc.next)
                                          IN [es |-> Append(acc.es, x.e), next |-> x.next],
                          [es |-> <<>>, next |-> next], e.args)
         IN [e |-> [e EXCEPT !.args = r.es, !.id = r.next], next |-> r.next + 1]

-----------------------------------------------------------------------------
\* logicManager.toExpr
ToExpr(st, fn, terms, ops) ==
    CASE Len(terms) = 1  -> terms[1]
      [] st.opt.variadic -> Call(ops[1], fn, terms)
      [] OTHER           -> BalancedTree(fn, terms, ops)

-----------------------------------------------------------------------------
(* The standard macros: what the expander makes of the target and the arguments. *)
Lit(v)      == Node("lit", 0, <<v>>, <<>>)
Accu        == Node("ident", 0, <<"@result">>, <<>>)
New(fn, as) == Call(0, fn, as)
NewList(as) == Node("list", 0, <<>>, as)
Fold(target, v, init, cond, step, result) ==
    Node("fold", 0, v.name, <<target, init, cond, step, result>>)
Collect(x)  == New("+", <<Accu, NewList(<<x>>)>>)

MakeHas(as) == Node("test", 0, as[1].name, as[1].args)
MakeAll(target, as) ==
    Fold(target, as[1], Lit("true"), New("@nsf", <<Accu>>), New("&&", <<Accu, as[2]>>), Accu)
MakeExists(target, as) ==
    Fold(target, as[1], Lit("false"), New("@nsf", <<New("!_", <<Accu>>)>>),
         New("||", <<Accu, as[2]>>), Accu)
MakeExistsOne(target, as) ==
    Fold(target, as[1], Lit("0"), Lit("true"),
         New("?:", <<as[2], New("+", <<Accu, Lit("1")>>), Accu>>), New("==", <<Accu, Lit("1")>>))
MakeMap(target, as) ==
    Fold(target, as[1], NewList(<<>>), Lit("true"),
         IF Len(as) = 3 THEN New("?:", <<as[2], Collect(as[3]), Accu>>) ELSE Collect(as[2]), Accu)
MakeFilter(target, as) ==
    Fold(target, as[1], NewList(<<>>), Lit("true"), New("?:", <<as[2], Collect(as[1]), Accu>>), Accu)

Expansion(fn, target, as) ==
    CASE fn = <<"has">>        -> MakeHas(as)
      [] fn = <<"all">>        -> MakeAll(target, as)
      [] fn = <<"exists">>     -> MakeExists(target, as)
      [] fn = <<"exists_one">> -> MakeExistsOne(target, as)
      [] fn = <<"map">>        -> MakeMap(target, as)
      [] fn = <<"filter">>     -> MakeFilter(target, as)

\* makeMacroKey: name, number of arguments and whether there is a target.
IsMacro(fn, n, member) ==
    \/ fn = <<"has">> /\ n = 1 /\ ~member
    \/ fn \in {<<"all">>, <<"exists">>, <<"exists_one">>, <<"map">>, <<"filter">>} /\ n = 2 /\ member
    \/ fn = <<"map">> /\ n = 3 /\ member
Malformed(fn, as) ==
    IF fn = <<"has">> THEN as[1].kind \notin {"select", "test"}
    ELSE as[1].kind # "ident" \/ as[1].name = <<"@result">>

\* buildMacroCallArg: a macro in an argument is replaced by a node with its id.
RECURSIVE MacroCallArg(_, _)
MacroCallArg(calls, e) ==
    IF \E c \in calls : c.id = e.id THEN Unspecified(e.id)
    ELSE IF e.kind \in {"call", "member", "list"}
         THEN [e EXCEPT !.args = [i \in DOMAIN @ |-> MacroCallArg(calls, @[i])]]
    ELSE e

\* reportError: there is no expression, and beyond the limit there are no more tokens.
Report(st) ==
    IF st.errors > RecoveryLimit THEN NoExpr(st)
    ELSE LET s == NoExpr([st EXCEPT !.errors = @ + 1])
         IN IF s.errors > RecoveryLimit THEN [s EXCEPT !.pos = Len(s.toks) + 1] ELSE s

\* globalCallOrMacro and receiverCallOrMacro: the target, if any, is the first of args.
TooManyNodes(st) == st.next - 1 > st.opt.nodes
Expanded(st, id, call, grown) ==
    LET made   == With([st EXCEPT !.next = grown.next], grown.e)
        record == [call EXCEPT !.id = grown.e.id,
                               !.args = [i \in DOMAIN @ |-> MacroCallArg(st.calls, @[i])]]
    IN IF TooManyNodes(made) THEN Report(DeleteId(made, id))
       ELSE DeleteId([made EXCEPT !.calls = @ \cup {record}], id)

CallOrMacro(st, id, fn, member, args) ==
    LET as   == IF member THEN Tail(args) ELSE args
        call == Node(IF member THEN "member" ELSE "call", id, fn, args)
    IN IF ~st.opt.macros \/ ~IsMacro(fn, Len(as), member) THEN With(st, call)
       ELSE IF TooManyNodes(st) \/ Malformed(fn, as) THEN Report(DeleteId(st, id))
       ELSE Expanded(st, id, call, Number(Expansion(fn, args[1], as), st.next))
=============================================================================
