-------------------------------- MODULE Text --------------------------------
(***************************************************************************)
(* The text of an expression under edit.  Token after token is typed; the  *)
(* text is parsed by the hand-written parser, with the default options and *)
(* under tight limits, and what was parsed is written back by the unparser *)
(* and parsed again.  The parse trees that the grammar gives to the text   *)
(* are the reference.                                                      *)
(***************************************************************************)
EXTENDS PrattParser, CelGrammar, FiniteSets

CONSTANTS Families,     \* records [alphabet, size]: what is typed, up to size tokens
          Pasted,       \* parse trees of whole expressions that are pasted
          MaxDepth      \* maxRecursionDepth of the parser under tight limits

U == INSTANCE Unparser

VARIABLES family,       \* of the text
          toks,         \* the tokens
          trees,        \* their parse trees
          parse,        \* the result of the hand-written parser
          tight,        \* and under tight limits
          again         \* and of the text that the unparser makes of the result
vars == <<family, toks, trees, parse, tight, again>>

Options  == [max |-> 250, variadic |-> FALSE, macros |-> TRUE, nodes |-> 100000]
Tight    == [Options EXCEPT !.max = MaxDepth]
\* The sentences of each family, and the beginnings of sentences.
Corpus   == {LET L == Language(f.alphabet, f.size)
             IN [alphabet |-> f.alphabet, lang |-> L, viable |-> UNION {Prefixes(p.s) : p \in L}]
             : f \in Families}
SentencesOf(f) == (CHOOSE c \in Corpus : c.alphabet = f.alphabet).lang
Viable(f)    == (CHOOSE c \in Corpus : c.alphabet = f.alphabet).viable
RECURSIVE Yield(_)
Yield(tree) ==
    IF tree.kids = <<>> THEN <<tree.label>>
    ELSE FlattenSeq([i \in DOMAIN tree.kids |-> Yield(tree.kids[i])])

Reparsed(p) == IF Accepted(p) THEN PrattParse(U!Unparse(p.calls, p.e), Options) ELSE p

\* One token beyond what may still become an expression, and a delimiter after it.
Typable(tok) ==
    \/ toks \in Viable(family)
    \/ Front(toks) \in Viable(family) /\ tok \in {",", ")", "]", "}"}

Init ==
    /\ \/ family \in Families /\ toks = <<>> /\ trees = {}
       \/ /\ family = [alphabet |-> {}, size |-> 0]
          /\ \E t \in Pasted : toks = Yield(t) /\ trees = {t}
    /\ parse = PrattParse(toks, Options)
    /\ tight = PrattParse(toks, Tight)
    /\ again = Reparsed(parse)

Type(tok) ==
    /\ Len(toks) < family.size
    /\ Typable(tok)
    /\ toks'  = Append(toks, tok)
    /\ trees' = {p.t : p \in {q \in SentencesOf(family) : q.s = toks'}}
    /\ parse' = PrattParse(toks', Options)
    /\ tight' = PrattParse(toks', Tight)
    /\ again' = Reparsed(parse')
    /\ UNCHANGED family

Next == \E tok \in family.alphabet : Type(tok)
Spec == Init /\ [][Next]_vars

-----------------------------------------------------------------------------
\* A list, map or message with nothing but a comma between its brackets.
RECURSIVE HasLoneComma(_)
HasLoneComma(t) ==
    \/ t.label \in {"CreateList", "CreateStruct"} /\ IsLoneComma(t, 1)
    \/ t.label = "CreateMessage" /\ IsLoneComma(t, 2)
    \/ \E i \in DOMAIN t.kids : HasLoneComma(t.kids[i])

(* The hand-written parser accepts what the grammar and the visitor accept, except lists,   *)
(* maps and messages of a comma alone, all of which it refuses (of [,] parser_test.go       *)
(* expects this, in TestEnablePrattParserDefault); what it accepts has the same AST, with   *)
(* the same ids and the same macro calls.                                                   *)
ParsersAgree ==
    /\ Cardinality(trees) <= 1
    /\ \A t \in trees :
          LET a == AntlrParse(t, Options) IN
          /\ Accepted(parse) <=> Accepted(a) /\ ~HasLoneComma(t)
          /\ Accepted(parse) => parse.e = a.e /\ parse.calls = a.calls /\ parse.next = a.next
    /\ trees = {} => ~Accepted(parse)

\* The parts of an expression, itself included.
RECURSIVE Parts(_)
Parts(e) == <<e>> \o FlattenSeq([i \in DOMAIN e.args |-> Parts(e.args[i])])

(* No two parts of an AST have the same id, whichever ids were given back on the way; each *)
(* macro call is recorded under one id, and the calls inside it under smaller ones.        *)
UniqueIds ==
    Accepted(parse) =>
        LET ids   == [i \in DOMAIN Parts(parse.e) |-> Parts(parse.e)[i].id]
            holes(c) == {x.id : x \in {y \in ToSet(Parts(c)) : y.kind = "none"}}
        IN /\ IsInjective(ids)
           /\ ToSet(ids) \subseteq 1..(parse.next - 1)
           /\ \A c, d \in parse.calls : c.id = d.id => c = d
           /\ \A c \in parse.calls :
                 holes(c) \subseteq {d.id : d \in parse.calls} \cap 1..(c.id - 1)

\* The AST without ids, with chains of && and || flat and with signed numbers as literals.
RECURSIVE Norm(_)
Norm(e) ==
    LET as      == [i \in DOMAIN e.args |-> Norm(e.args[i])]
        same(x) == x.kind = "call" /\ x.name = e.name
    IN IF e.kind = "call" /\ e.name[1] \in {"&&", "||"}
       THEN [e EXCEPT !.id = 0,
                      !.args = FlattenSeq([i \in DOMAIN as |-> IF same(as[i]) THEN as[i].args
                                                               ELSE <<as[i]>>])]
       ELSE IF e.kind = "call" /\ e.name[1] = "-_" /\ as[1].kind = "lit" /\ as[1].name = <<"1">>
       THEN Node("lit", 0, <<"-", "1">>, <<>>)
       ELSE [e EXCEPT !.id = 0, !.args = as]

(* What the unparser writes parses back to the same AST: its parentheses keep the operator *)
(* precedence (the comments of Unparse and isAmbiguousUnaryOperand).                        *)
UnparseReparses ==
    Accepted(parse) => Accepted(again) /\ Norm(again.e) = Norm(parse.e)

\* The operands of the selections, calls and indexes, and the first thing in such a chain.
Chained(e) ==
    \/ e.kind \in {"select", "test", "member"}
    \/ e.kind = "call" /\ e.name[1] \in {"[]", "[?]", ".?"}
RECURSIVE FirstOf(_)
FirstOf(e) == IF Chained(e) THEN FirstOf(e.args[1]) ELSE e
IsUnary(e) == e.kind = "call" /\ e.name[1] \in {"!_", "-_"}
Plain(e) ==
    \A x \in ToSet(Parts(e)) :
        /\ Chained(x) => ~IsUnary(x.args[1])
        /\ x.kind = "call" /\ x.name[1] = "-_" /\ Chained(x.args[1]) =>
              FirstOf(x.args[1]).name \notin {<<"1">>, <<"-", "1">>}

(* UnparseReparses for the expressions in which no unary operation is selected from and no *)
(* selection from a number is negated.                                                     *)
RoundTrip == Accepted(parse) /\ Plain(parse.e) => UnparseReparses

-----------------------------------------------------------------------------
\* The depth of a parse tree, as the comment of checkRecursion counts it, and the nesting of
\* its brackets and conditionals.
Deepest(S) == CHOOSE n \in S : \A m \in S : m <= n
RECURSIVE Depth(_), Nesting(_)
Depth(t) ==
    (IF t.label \in {"Expr", "Binary", "Select", "OptSelect", "MemberCall", "Index", "OptIndex"}
     THEN 1 ELSE 0)
    + Deepest({0} \cup {Depth(t.kids[i]) : i \in DOMAIN t.kids})
Nesting(t) ==
    (IF t.label \in {"Nested", "Args", "Index", "OptIndex", "CreateList", "CreateStruct",
                     "CreateMessage", "Expr"} THEN 1 ELSE 0)
    + Deepest({0} \cup {Nesting(t.kids[i]) : i \in DOMAIN t.kids})

(* A parser with a recursion limit accepts no expression that is deeper, and every *)
(* expression that is within the limit and not as deeply nested; where it accepts, *)
(* the limit changes nothing.                                                      *)
LimitsExact ==
    \A t \in trees :
        /\ Accepted(tight) => Depth(t) <= MaxDepth /\ tight.e = parse.e
        /\ Accepted(parse) /\ Depth(t) <= MaxDepth /\ Nesting(t) < MaxDepth => Accepted(tight)

\* The terms of the chains, from left to right, and the height of a balanced tree of them.
RECURSIVE LeavesOf(_, _), HeightOf(_, _)
LeavesOf(e, op) ==
    IF e.kind = "call" /\ e.name[1] = op
    THEN FlattenSeq([i \in DOMAIN e.args |-> LeavesOf(e.args[i], op)]) ELSE <<e>>
HeightOf(e, op) ==
    IF e.kind = "call" /\ e.name[1] = op
    THEN 1 + Deepest({HeightOf(e.args[i], op) : i \in DOMAIN e.args}) ELSE 0

(* The tree that a chain becomes has each of its terms once, in the order of the source, *)
(* and no deeper than the logarithm of their number.                                     *)
Balanced ==
    \A t \in trees :
        t.label = "Chain" /\ Accepted(parse) =>
            LET op    == t.kids[2].label
                terms == Terms(t, op)
                bare  == {i \in DOMAIN terms : terms[i].label # "Nested"}
            IN bare = DOMAIN terms =>
               /\ [i \in DOMAIN LeavesOf(parse.e, op) |-> LeavesOf(parse.e, op)[i].name]
                     = [i \in DOMAIN terms |-> AntlrParse(terms[i], Options).e.name]
               /\ 2 ^ (HeightOf(parse.e, op) - 1) < Len(terms)
=============================================================================
