----------------------------- MODULE PrattParser -----------------------------
(***************************************************************************)
(* The hand-written parser: tokens to AST, by operator precedence.  Each   *)
(* operator takes a parse in progress and returns it with the expression   *)
(* it parsed as e and the depth of that expression as parsed.              *)
(***************************************************************************)
EXTENDS ParserHelper

Prec == [op \in {"||", "&&", "<", "in", "+", "-", "*"} |->
            CASE op = "||" -> 1 [] op = "&&" -> 2 [] op \in {"<", "in"} -> 3
              [] op \in {"+", "-"} -> 4 [] op = "*" -> 5]
Larger(m, n) == IF m > n THEN m ELSE n

Reserved == {"as", "import"}
Names    == {"a", "b", "has", "all", "exists", "exists_one", "map", "filter"} \cup Reserved
Literals == {"1", "'s'", "true"}

-----------------------------------------------------------------------------
(* The token stream. *)
AtEnd(st)   == [st EXCEPT !.pos = Len(st.toks) + 1]
Peek(st)    == IF st.pos > Len(st.toks) THEN "end" ELSE st.toks[st.pos]
Lost(st)    == st.errors > RecoveryLimit
Stopped(st) == st.tripped \/ Lost(st)
Advance(st) == IF Lost(st) \/ Peek(st) = "end" THEN AtEnd(st) ELSE [st EXCEPT !.pos = @ + 1]

RECURSIVE Synchronize(_)
Synchronize(st) ==
    IF Stopped(st) THEN AtEnd(st)
    ELSE IF Peek(st) \in {"end", ",", ")", "]", "}"} THEN st
    ELSE Synchronize(Advance(st))

\* The tokens that repeat op are skipped.
RECURSIVE SkipRun(_, _)
SkipRun(st, op) == IF Peek(st) = op THEN SkipRun(Advance(st), op) ELSE st

\* expect: the token is consumed, or an error reported and tokens skipped.  The
\* expression parsed so far stays.
Expect(st, tok) ==
    IF Peek(st) = tok THEN Advance(st)
    ELSE IF Stopped(st) THEN st
    ELSE With(Synchronize(Report(st)), st.e)

\* Mutated: the deepest expression that is allowed trips the limit.
CheckRecursionEarly(st, depth) ==
    IF depth >= st.opt.max /\ ~st.tripped THEN AtEnd([st EXCEPT !.tripped = TRUE]) ELSE st

CheckRecursion(st, depth) ==
    IF depth > st.opt.max /\ ~st.tripped THEN AtEnd([st EXCEPT !.tripped = TRUE]) ELSE st

\* The expression is d deep, as parsed.
Deepened(st, d) == CheckRecursion([st EXCEPT !.parsed = d], d)

\* isStructCreationAhead: from the token after an identifier, names to a brace.
RECURSIVE StructAheadAt(_, _)
StructAheadAt(toks, pos) ==
    IF pos > Len(toks) THEN FALSE
    ELSE IF toks[pos] = "{" THEN TRUE
    ELSE /\ toks[pos] = "." /\ pos < Len(toks) /\ toks[pos + 1] \in Names
         /\ StructAheadAt(toks, pos + 2)

\* extractStructName: the name, and the ids of its parts given back.
RECURSIVE StructName(_)
StructName(e) ==
    IF e.kind = "ident" THEN e.name ELSE StructName(e.args[1]) \o <<".">> \o e.name
RECURSIVE DeleteName(_, _)
DeleteName(st, e) ==
    IF e.kind = "ident" THEN DeleteId(st, e.id)
    ELSE DeleteName(DeleteId(st, e.id), e.args[1])

-----------------------------------------------------------------------------
\* One method of the parser calls another: where they are mutually recursive they do so
\* through Parse.  arg is the least precedence of an operator, or whether what was parsed
\* may be the name of a struct.
RECURSIVE Parse(_, _, _)

ParseExpr(st) ==
    IF Stopped(st) THEN NoExpr(st)
    ELSE IF st.depth + 1 > st.opt.max THEN NoExpr(CheckRecursion(st, st.depth + 1))
    ELSE [Parse("binary", [st EXCEPT !.depth = @ + 1], 0) EXCEPT !.depth = @ - 1]

\* parseElementExpr: as deep as the deepest element so far.
Element(st) ==
    LET r == Parse("expr", st, 0) IN [r EXCEPT !.parsed = Larger(@, st.parsed)]

-----------------------------------------------------------------------------
(* Primary expressions. *)
\* Each of the open parentheses is closed, from the innermost one; between two of them
\* the expression inside goes on as an operand.
RECURSIVE Parens(_, _, _)
Parens(st, open, i) ==
    LET s == Expect(st, ")")
        t == IF Peek(s) \in {".", "[", "{"} THEN Parse("tail", s, FALSE) ELSE s
    IN IF i = open THEN s
       ELSE Parens(IF Peek(s) = ")" THEN s ELSE Parse("operators", t, 0), open, i + 1)

Nested(st) ==
    LET in   == SkipRun(st, "(")
        open == in.pos - st.pos
        s    == CheckRecursion(in, st.depth + open - 1)
    IN IF Stopped(st) THEN NoExpr(st)
       ELSE IF st.depth + open - 1 > st.opt.max THEN NoExpr(s)
       ELSE [Parens(Parse("binary", [s EXCEPT !.depth = @ + 1], 0), open, 1) EXCEPT !.depth = @ - 1]

\* Elements of a list, from the one after es.
OptionalMark(st) == IF Peek(st) = "?" THEN Advance(st) ELSE st
RECURSIVE Elements(_, _, _)
Elements(st, es, opt) ==
    LET marked == Peek(st) = "?"
        r      == Element(OptionalMark(st))
        all    == Append(es, r.e)
        opts   == IF marked THEN opt \cup {Len(all)} ELSE opt
    IN IF Peek(st) \in {"]", "end"} THEN [st EXCEPT !.es = es, !.e = [Unspecified(0) EXCEPT !.opt = opt]]
       ELSE IF Peek(r) = "," THEN Elements(Advance(r), all, opts)
       ELSE [r EXCEPT !.es = all, !.e = [Unspecified(0) EXCEPT !.opt = opts]]
ListCreation(st) ==
    LET r == Elements([Alloc(Advance(st)) EXCEPT !.parsed = 0], <<>>, {})
    IN With(Expect(r, "]"), [Node("list", st.next, <<>>, r.es) EXCEPT !.opt = r.e.opt])

\* Entries of a map, or fields of a struct.
RECURSIVE Entries(_, _, _)
Entries(st, isStruct, es) ==
    LET mark  == OptionalMark(st)
        opt   == IF Peek(st) = "?" THEN {1} ELSE {}
        key   == IF isStruct THEN Advance(mark) ELSE Element(Alloc(mark))
        value == Parse("value", key, isStruct)
        entry == IF isStruct THEN Node("field", key.next, <<Peek(mark)>>, <<value.e>>)
                 ELSE Node("entry", mark.next, <<>>, <<key.e, value.e>>)
        all   == Append(es, [entry EXCEPT !.opt = opt])
    IN IF Peek(st) \in {"}", "end"} THEN [st EXCEPT !.es = es]
       ELSE IF isStruct /\ Peek(mark) \notin Names
       THEN [Synchronize(Report(Advance(mark))) EXCEPT !.es = es]
       ELSE IF Peek(key) # ":" THEN [Expect(key, ":") EXCEPT !.es = es]
       ELSE IF Peek(value) = "," THEN Entries(Advance(value), isStruct, all)
       ELSE [value EXCEPT !.es = all]
MapCreation(st) ==
    LET r == Entries([Alloc(Advance(st)) EXCEPT !.parsed = 0], FALSE, <<>>)
    IN With(Expect(r, "}"), Node("map", st.next, <<>>, r.es))

\* Arguments of a call, from the one after es.
RECURSIVE Arguments(_, _, _)
Arguments(st, close, es) ==
    LET r   == Element(st)
        all == Append(es, r.e)
    IN IF es = <<>> /\ Peek(st) \in {close, "end"} THEN [Expect(st, close) EXCEPT !.es = es]
       ELSE IF Peek(r) # "," THEN [Expect(r, close) EXCEPT !.es = all]
       ELSE IF Peek(Advance(r)) = close
            THEN [Expect(Report(Advance(r)), close) EXCEPT !.es = all]
       ELSE Arguments(Advance(r), close, all)

IdentOrCall(st) ==
    LET dot  == Peek(st) = "."
        at   == IF dot THEN Advance(st) ELSE st
        id   == Peek(at)
        name == IF dot THEN <<".", id>> ELSE <<id>>
        s0   == Advance(at)
        s    == IF id \in Reserved /\ ~StructAheadAt(s0.toks, s0.pos) THEN Report(s0) ELSE s0
        args == Parse("arguments", [Alloc(Advance(s)) EXCEPT !.parsed = 0], ")")
    IN IF id \notin Names THEN NoExpr(Report(s0))
       ELSE IF Peek(s) = "(" THEN CallOrMacro(args, s.next, name, FALSE, args.es)
       ELSE With(Alloc(s), Node("ident", s.next, name, <<>>))

Primary(st) ==
    LET tok == Peek(st) IN
    CASE tok = "("                       -> Nested(st)
      [] tok = "["                       -> ListCreation(st)
      [] tok = "{"                       -> MapCreation(st)
      [] tok \in Literals                -> With(Alloc(Advance(st)), Node("lit", st.next, <<tok>>, <<>>))
      [] tok = "." \/ tok \in Names      -> IdentOrCall(st)
      [] OTHER                           -> NoExpr(Report(Advance(st)))

-----------------------------------------------------------------------------
(* Selections, member calls, indexes and struct creations after st.e, which is *)
(* st.parsed deep; canBe says whether st.e may still be the name of a struct.  *)
CallOf(st, s, name) ==
    LET args == Parse("arguments", [Alloc(Advance(s)) EXCEPT !.parsed = 0], ")")
    IN Deepened(CallOrMacro(args, s.next, name, TRUE, <<st.e>> \o args.es),
                Larger(st.parsed, args.parsed) + 1)
\* The field whose name is at the token of at.
FieldOf(st, at, name, opt, canBe) ==
    LET s    == Advance(at)
        d    == st.parsed + 1
        pick == Call(s.next + 1, ".?", <<st.e, Node("lit", s.next, name, <<>>)>>)
        sel  == With(Alloc(s), Node("select", s.next, name, <<st.e>>))
    IN IF opt THEN Parse("tail", Deepened(With(Alloc(Alloc(s)), pick), d), FALSE)
       ELSE IF Peek(s) = "(" THEN Parse("tail", CallOf(st, s, name), FALSE)
       ELSE Parse("tail", IF canBe THEN [sel EXCEPT !.parsed = d] ELSE Deepened(sel, d), canBe)
Field(st, canBe) ==
    LET dot == Advance(st)
        opt == Peek(dot) = "?"
        at  == IF opt THEN Advance(dot) ELSE dot
        bad == With(Synchronize(Report(Advance(at))), st.e)
    IN IF Peek(at) \in Names THEN FieldOf(st, at, <<Peek(at)>>, opt, canBe)
       ELSE IF canBe THEN CheckRecursion(bad, st.parsed) ELSE bad

Index(st) ==
    LET open == Alloc(Advance(st))
        opt  == Peek(open) = "?"
        i    == Parse("expr", IF opt THEN Advance(open) ELSE open, 0)
        s    == Expect(i, "]")
        d    == Larger(st.parsed, i.parsed) + 1
    IN Deepened(With(s, Call(st.next, IF opt THEN "[?]" ELSE "[]", <<st.e, i.e>>)), d)

StructCreation(st) ==
    LET freed == DeleteName(st, st.e)
        body  == Entries([Alloc(Advance(freed)) EXCEPT !.parsed = 0], TRUE, <<>>)
    IN With(Expect(body, "}"), Node("struct", freed.next, StructName(st.e), body.es))

SelectorTail(st, canBe) ==
    LET tok == Peek(st) IN
    IF st.tripped THEN st
    ELSE CASE tok = "."             -> Field(st, canBe)
           [] tok = "["             -> Parse("tail", Index(st), FALSE)
           [] tok = "{" /\ canBe    -> Parse("tail", StructCreation(st), FALSE)
           [] OTHER                 -> IF canBe THEN CheckRecursion(st, st.parsed) ELSE st

\* parseMember
Member(st) ==
    LET p == Parse("primary", [st EXCEPT !.parsed = 0], 0)
        isName == p.e.kind = "ident" /\ Peek(st) # "("
    IN Parse("tail", p, isName)

-----------------------------------------------------------------------------
(* Unary operators: a run of one operator is dropped, or folded into one. *)
Negative(st, id) == With(Advance(st), Node("lit", id, <<"-", Peek(st)>>, <<>>))

Unary(st) ==
    LET op   == Peek(st)
        run  == SkipRun(st, op)
        n    == run.pos - st.pos
        id   == st.next
        kept == IF n % 2 = 0 THEN run ELSE Alloc(run)
        neg  == Advance(kept)
        arg  == IF op = "!" /\ Peek(kept) = "-"
                THEN IF Peek(neg) = "1"
                     THEN Parse("tail", [Negative(Alloc(neg), kept.next) EXCEPT !.parsed = 0], FALSE)
                     ELSE Parse("member", Report(Alloc(neg)), 0)
                ELSE Parse("member", kept, 0)
        lit  == [Negative(Alloc(run), id) EXCEPT !.parsed = 0]
    IN IF op = "-" /\ n = 1 /\ Peek(run) = "1"
       THEN IF Peek(lit) \in {".", "[", "{"} THEN Parse("tail", lit, FALSE) ELSE lit
       ELSE IF arg.tripped THEN NoExpr(arg)
       ELSE IF n % 2 = 0 THEN arg
       ELSE CallOrMacro(arg, id, <<op \o "_">>, FALSE, <<arg.e>>)

\* parseSelectorChain
SelectorChain(st) == IF Peek(st) \in {"!", "-"} THEN Unary(st) ELSE Parse("member", st, 0)

-----------------------------------------------------------------------------
(* Binary operators and the conditional. *)
Binary(st, min) == Parse("operators", SelectorChain(st), min)

\* parseBinaryAndTernaryFromLhs: st.e is lhs, and st.parsed is its depth.
Ternary(st) ==
    LET q == Alloc(Advance(st))
        t == Parse("binary", q, 1)
        c == Expect(t, ":")
        f == Parse("expr", c, 0)
        d == Larger(Larger(st.parsed, t.parsed), f.parsed) + 1
    IN IF Peek(t) # ":" THEN [c EXCEPT !.e = st.e, !.parsed = st.parsed]
       ELSE Deepened(With(f, Call(st.next, "?:", <<st.e, t.e, f.e>>)), d)

RECURSIVE LogicalChain(_, _, _, _, _)
LogicalChain(st, op, terms, ops, depth) ==
    IF Stopped(st) \/ Peek(st) # op
    THEN [st EXCEPT !.e = ToExpr(st, op, terms, ops), !.parsed = depth]
    ELSE LET r == Parse("binary", Advance(st), Prec[op] + 1)
         IN LogicalChain(Alloc(r), op, Append(terms, r.e), Append(ops, r.next),
                         Larger(depth, r.parsed))

\* Mutated: an operator takes those of its own precedence into its right operand.
OperatorsRight(st, min) ==
    LET op == Peek(st)
        r  == Parse("binary", Alloc(Advance(st)), Prec[op])
        d  == Larger(st.parsed, r.parsed) + 1
    IN IF Stopped(st) THEN st
       ELSE IF op = "?" /\ min = 0 THEN Parse("operators", Ternary(st), min)
       ELSE IF op \notin DOMAIN Prec THEN st
       ELSE IF Prec[op] < min THEN st
       ELSE IF op \in {"||", "&&"}
            THEN Parse("operators", LogicalChain(st, op, <<st.e>>, <<>>, st.parsed), min)
       ELSE Parse("operators", Deepened(With(r, Call(st.next, op, <<st.e, r.e>>)), d), min)

Operators(st, min) ==
    LET op == Peek(st)
        r  == Parse("binary", Alloc(Advance(st)), Prec[op] + 1)
        d  == Larger(st.parsed, r.parsed) + 1
    IN IF Stopped(st) THEN st
       ELSE IF op = "?" /\ min = 0 THEN Parse("operators", Ternary(st), min)
       ELSE IF op \notin DOMAIN Prec THEN st
       ELSE IF Prec[op] < min THEN st
       ELSE IF op \in {"||", "&&"}
            THEN Parse("operators", LogicalChain(st, op, <<st.e>>, <<>>, st.parsed), min)
       ELSE Parse("operators", Deepened(With(r, Call(st.next, op, <<st.e, r.e>>)), d), min)

-----------------------------------------------------------------------------
Parse(method, st, arg) ==
    CASE method = "expr"      -> ParseExpr(st)
      [] method = "binary"    -> Binary(st, arg)
      [] method = "operators" -> Operators(st, arg)
      [] method = "arguments" -> Arguments(st, arg, <<>>)
      [] method = "value"     -> Element(IF arg THEN Alloc(Expect(st, ":")) ELSE Expect(st, ":"))
      [] method = "member"    -> Member(st)
      [] method = "tail"      -> SelectorTail(st, arg)
      [] method = "primary"   -> Primary(st)

\* parse: an error if tokens are left.
PrattParse(toks, opt) ==
    LET r == Parse("expr", Start(toks, opt), 0)
    IN IF ~Stopped(r) /\ Peek(r) # "end" THEN Report(r) ELSE r
=============================================================================
