----------------------------- MODULE CelGrammar -----------------------------
(***************************************************************************)
(* The reference: the grammar of CEL as data, the parse trees it gives to  *)
(* token sequences, and the AST that the visitor of the generated parser   *)
(* makes of a parse tree.                                                  *)
(*                                                                         *)
(* A rule is a set of alternatives, which have the labels of the grammar   *)
(* file.  An alternative that is one nonterminal leaves no node, as the    *)
(* visitor unnests it.  The rules that ANTLR makes left-associative, and   *)
(* the starred ones, are written left-recursive; an optional part is two   *)
(* alternatives.                                                           *)
(***************************************************************************)
EXTENDS ParserHelper

LOCAL Alt(label, rhs) == [label |-> label, rhs |-> rhs]
LOCAL Unit(nt)        == Alt("unit", <<nt>>)

Keywords == {"as", "import"}           \* reserved words that the lexer reads as identifiers
Class(symbol) ==
    CASE symbol = "IDENTIFIER" -> {"a", "b", "has", "all", "exists", "exists_one", "map", "filter"} \cup Keywords
      [] symbol = "NUM_INT"    -> {"1"}
      [] symbol = "CONSTANT"   -> {"'s'", "true"}
      [] symbol = "RELOP"      -> {"<", "in"}
      [] symbol = "ADDOP"      -> {"+", "-"}
      [] symbol = "MULOP"      -> {"*"}
      [] OTHER                 -> {symbol}

expr           == {Unit("conditionalOr"),
                   Alt("Expr", <<"conditionalOr", "?", "conditionalOr", ":", "expr">>)}
conditionalOr  == {Unit("conditionalAnd"), Alt("Chain", <<"conditionalOr", "||", "conditionalAnd">>)}
conditionalAnd == {Unit("relation"), Alt("Chain", <<"conditionalAnd", "&&", "relation">>)}
relation       == {Unit("calc"), Alt("Binary", <<"relation", "RELOP", "calc">>)}
calc           == {Unit("product"), Alt("Binary", <<"calc", "ADDOP", "product">>)}
product        == {Unit("unary"), Alt("Binary", <<"product", "MULOP", "unary">>)}
unary          == {Unit("member"), Alt("LogicalNot", <<"nots", "member">>),
                   Alt("Negate", <<"minuses", "member">>)}
nots           == {Alt("Run", <<"!">>), Alt("Run", <<"nots", "!">>)}
minuses        == {Alt("Run", <<"-">>), Alt("Run", <<"minuses", "-">>)}
selection      == {Alt("Select", <<"member", ".", "IDENTIFIER">>),
                   Alt("OptSelect", <<"member", ".", "?", "IDENTIFIER">>)}
memberCall     == {Alt("MemberCall", <<"member", ".", "IDENTIFIER", "arguments">>)}
index          == {Alt("Index", <<"member", "[", "expr", "]">>),
                   Alt("OptIndex", <<"member", "[", "?", "expr", "]">>)}
member         == {Unit("primary")} \cup selection \cup memberCall \cup index
ident          == {Alt("Ident", <<"rooted">>)}
globalCall     == {Alt("GlobalCall", <<"rooted", "arguments">>)}
nested         == {Alt("Nested", <<"(", "expr", ")">>)}
createList     == {Alt("CreateList", <<"[", "]">>), Alt("CreateList", <<"[", ",", "]">>),
                   Alt("CreateList", <<"[", "listInit", "]">>),
                   Alt("CreateList", <<"[", "listInit", ",", "]">>)}
createStruct   == {Alt("CreateStruct", <<"{", "}">>), Alt("CreateStruct", <<"{", ",", "}">>),
                   Alt("CreateStruct", <<"{", "mapInitializerList", "}">>),
                   Alt("CreateStruct", <<"{", "mapInitializerList", ",", "}">>)}
createMessage  == {Alt("CreateMessage", <<"qualified", "{", "}">>),
                   Alt("CreateMessage", <<"qualified", "{", ",", "}">>),
                   Alt("CreateMessage", <<"qualified", "{", "fieldInitializerList", "}">>),
                   Alt("CreateMessage", <<"qualified", "{", "fieldInitializerList", ",", "}">>)}
literal        == {Alt("Literal", <<"NUM_INT">>), Alt("Literal", <<"-", "NUM_INT">>),
                   Alt("Literal", <<"CONSTANT">>)}
primary        == ident \cup globalCall \cup nested \cup createList \cup createStruct
                  \cup createMessage \cup literal
rooted         == {Alt("Name", <<"IDENTIFIER">>), Alt("Name", <<".", "IDENTIFIER">>)}
qualified      == {Unit("rooted"), Alt("Name", <<"qualified", ".", "IDENTIFIER">>)}
arguments      == {Alt("Args", <<"(", ")">>), Alt("Args", <<"(", "exprList", ")">>)}
exprList       == {Unit("expr"), Alt("List", <<"exprList", ",", "expr">>)}
listInit       == {Unit("optExpr"), Alt("List", <<"listInit", ",", "optExpr">>)}
optExpr        == {Unit("expr"), Alt("Optional", <<"?", "expr">>)}
mapEntry       == {Alt("Entry", <<"optExpr", ":", "expr">>)}
mapInitializerList   == {Unit("mapEntry"), Alt("List", <<"mapInitializerList", ",", "mapEntry">>)}
optField       == {Alt("Field", <<"IDENTIFIER", ":", "expr">>),
                   Alt("OptField", <<"?", "IDENTIFIER", ":", "expr">>)}
fieldInitializerList == {Unit("optField"),
                         Alt("List", <<"fieldInitializerList", ",", "optField">>)}

\* Every rule after those that it uses at its own length.
Rules == <<[nt |-> "rooted", alts |-> rooted], [nt |-> "qualified", alts |-> qualified],
           [nt |-> "arguments", alts |-> arguments], [nt |-> "primary", alts |-> primary],
           [nt |-> "member", alts |-> member], [nt |-> "nots", alts |-> nots],
           [nt |-> "minuses", alts |-> minuses], [nt |-> "unary", alts |-> unary],
           [nt |-> "product", alts |-> product], [nt |-> "calc", alts |-> calc],
           [nt |-> "relation", alts |-> relation],
           [nt |-> "conditionalAnd", alts |-> conditionalAnd],
           [nt |-> "conditionalOr", alts |-> conditionalOr], [nt |-> "expr", alts |-> expr],
           [nt |-> "exprList", alts |-> exprList], [nt |-> "optExpr", alts |-> optExpr],
           [nt |-> "listInit", alts |-> listInit], [nt |-> "mapEntry", alts |-> mapEntry],
           [nt |-> "mapInitializerList", alts |-> mapInitializerList],
           [nt |-> "optField", alts |-> optField],
           [nt |-> "fieldInitializerList", alts |-> fieldInitializerList]>>
Nonterminals == {Rules[i].nt : i \in DOMAIN Rules}

-----------------------------------------------------------------------------
(***************************************************************************)
(* The parses of up to n tokens of an alphabet: table[nt][k] is the set of *)
(* the sentences of k tokens of a nonterminal with their parse trees.      *)
(***************************************************************************)
LOCAL Leaf(tok) == [label |-> tok, kids |-> <<>>]

RECURSIVE Sentences(_, _, _, _)
Sentences(table, alphabet, rhs, k) ==
    IF rhs = <<>> THEN IF k = 0 THEN {[s |-> <<>>, kids |-> <<>>]} ELSE {}
    ELSE IF k < Len(rhs) THEN {}
    ELSE LET first(i) == IF Head(rhs) \in Nonterminals THEN table[Head(rhs)][i]
                         ELSE IF i = 1
                              THEN {[s |-> <<tok>>, t |-> Leaf(tok)] : tok \in Class(Head(rhs)) \cap alphabet}
                         ELSE {}
             most == IF Head(rhs) \in Nonterminals THEN k - Len(rhs) + 1 ELSE 1
         IN UNION {{[s |-> a.s \o b.s, kids |-> <<a.t>> \o b.kids] :
                       a \in first(i), b \in Sentences(table, alphabet, Tail(rhs), k - i)}
                   : i \in 1..most}

\* A prefix of minus signs is read as far as it goes, and one minus sign before a number is
\* its sign: ANTLR takes the first of the alternatives that are possible.
RECURSIVE RunLength(_)
RunLength(run) == IF Len(run.kids) = 1 THEN 1 ELSE 1 + RunLength(run.kids[1])
Preferred(label, p) ==
    label = "Negate" => LET n == RunLength(p.kids[1])
                        IN p.s[n + 1] # "-" /\ (n = 1 => p.s[2] # "1")

Parses(table, alphabet, alts, k) ==
    UNION {IF a.label = "unit" /\ a.rhs[1] \in Nonterminals THEN table[a.rhs[1]][k]
           ELSE {[s |-> p.s, t |-> [label |-> a.label, kids |-> p.kids]] :
                   p \in {q \in Sentences(table, alphabet, a.rhs, k) : Preferred(a.label, q)}}
           : a \in alts}

\* One token more.
Longer(table, alphabet) ==
    FoldLeft(LAMBDA T, r : [T EXCEPT ![r.nt] = Append(@, Parses(T, alphabet, r.alts, Len(@) + 1))],
             table, Rules)
RECURSIVE Grow(_, _, _)
Grow(table, alphabet, n) ==
    IF Len(table["expr"]) = n THEN table ELSE Grow(Longer(table, alphabet), alphabet, n)
Language(alphabet, n) ==
    LET table == Grow([nt \in Nonterminals |-> <<>>], alphabet, n)
    IN UNION {table["expr"][k] : k \in 1..n}

-----------------------------------------------------------------------------
(***************************************************************************)
(* The visitor, on a parse in progress of which only the ids, the macro    *)
(* calls and the errors matter.                                            *)
(***************************************************************************)
\* The members of a left-recursive list, in order.
RECURSIVE ListOf(_)
ListOf(t) == IF t.label = "List" THEN Append(ListOf(t.kids[1]), t.kids[3]) ELSE <<t>>
\* The terms of a chain of one operator.
RECURSIVE Terms(_, _)
Terms(t, op) ==
    IF t.label = "Chain" /\ t.kids[2].label = op
    THEN Append(Terms(t.kids[1], op), t.kids[3]) ELSE <<t>>
RECURSIVE NameOf(_)
NameOf(t) ==
    IF t.label # "Name" THEN <<t.label>> ELSE FlattenSeq([i \in DOMAIN t.kids |-> NameOf(t.kids[i])])
\* What is between the brackets, the first of which is child i: nothing, a comma alone, or a
\* list, which a comma may follow.
IsLoneComma(t, i) == t.kids[i + 1].label = ","
Between(t, i) == IF Len(t.kids) = i + 1 \/ IsLoneComma(t, i) THEN <<>> ELSE ListOf(t.kids[i + 1])
InnerArgs(t) == Between(t, 1)

RECURSIVE Visit(_, _)
\* visitSlice: the expressions in es.
VisitAll(st, ts) ==
    FoldLeft(LAMBDA acc, t : LET r == Visit(acc, t) IN [r EXCEPT !.es = Append(acc.es, r.e)],
             [st EXCEPT !.es = <<>>], ts)

\* Visit: the first child, which comes before the id of the node itself.
VisitFirst(st, t) == Visit(st, t.kids[1])

VisitExpr(st, t) ==
    LET c == VisitFirst(st, t)
        r == VisitAll(Alloc(c), <<t.kids[3], t.kids[5]>>)
    IN CallOrMacro(r, c.next, <<"?:">>, FALSE, <<c.e>> \o r.es)

\* VisitConditionalOr and VisitConditionalAnd
VisitChain(st, t) ==
    LET op    == t.kids[2].label
        terms == Terms(t, op)
        first == Visit(st, terms[1])
        rest  == FoldLeft(LAMBDA acc, term :
                              LET r == Visit(acc.st, term)
                              IN [st |-> Alloc(r), es |-> Append(acc.es, r.e),
                                  ops |-> Append(acc.ops, r.next)],
                          [st |-> first, es |-> <<first.e>>, ops |-> <<>>], Tail(terms))
    IN With(rest.st, ToExpr(st, op, rest.es, rest.ops))

\* VisitRelation and VisitCalc
VisitBinary(st, t) ==
    LET l == VisitFirst(st, t)
        r == Visit(Alloc(l), t.kids[3])
    IN CallOrMacro(r, l.next, <<t.kids[2].label>>, FALSE, <<l.e, r.e>>)

\* VisitLogicalNot and VisitNegate
VisitPrefix(st, t, op) ==
    IF RunLength(t.kids[1]) % 2 = 0 THEN Visit(st, t.kids[2])
    ELSE LET r == Visit(Alloc(st), t.kids[2]) IN CallOrMacro(r, st.next, <<op>>, FALSE, <<r.e>>)

VisitSelect(st, t) ==
    LET o == VisitFirst(st, t)
    IN With(Alloc(o), Node("select", o.next, <<t.kids[3].label>>, <<o.e>>))
VisitOptSelect(st, t) ==
    LET o == VisitFirst(st, t)
    IN With(Alloc(Alloc(o)),
            Call(o.next + 1, ".?", <<o.e, Node("lit", o.next, <<t.kids[4].label>>, <<>>)>>))
VisitMemberCall(st, t) ==
    LET o == VisitFirst(st, t)
        r == VisitAll(Alloc(o), InnerArgs(t.kids[4]))
    IN CallOrMacro(r, o.next, <<t.kids[3].label>>, TRUE, <<o.e>> \o r.es)
VisitIndex(st, t, op, sub) ==
    LET o == VisitFirst(st, t)
        i == Visit(Alloc(o), sub)
    IN CallOrMacro(i, o.next, <<op>>, FALSE, <<o.e, i.e>>)

VisitIdent(st, t) ==
    LET name == NameOf(t.kids[1]) IN
    IF Last(name) \in Keywords THEN Report(st)
    ELSE With(Alloc(st), Node("ident", st.next, name, <<>>))
VisitGlobalCall(st, t) ==
    LET name == NameOf(t.kids[1])
        r    == VisitAll(Alloc(st), InnerArgs(t.kids[2]))
    IN IF Last(name) \in Keywords THEN Report(st) ELSE CallOrMacro(r, st.next, name, FALSE, r.es)

\* VisitCreateList and visitListInit
VisitCreateList(st, t) ==
    LET items  == InnerArgs(t)
        opt(i) == items[i].label = "Optional"
        r      == VisitAll(Alloc(st), [i \in DOMAIN items |-> IF opt(i) THEN items[i].kids[2]
                                                             ELSE items[i]])
    IN With(r, [Node("list", st.next, <<>>, r.es) EXCEPT !.opt = {i \in DOMAIN items : opt(i)}])

VisitCreateStruct(st, t) ==
    LET r == VisitAll(Alloc(st), InnerArgs(t)) IN With(r, Node("map", st.next, <<>>, r.es))
\* VisitMapInitializerList, for one entry
VisitEntry(st, t) ==
    LET opt == t.kids[1].label = "Optional"
        r   == VisitAll(Alloc(st), <<IF opt THEN t.kids[1].kids[2] ELSE t.kids[1], t.kids[3]>>)
    IN With(r, [Node("entry", st.next, <<>>, r.es) EXCEPT !.opt = IF opt THEN {1} ELSE {}])

VisitCreateMessage(st, t) ==
    LET r == VisitAll(Alloc(st), Between(t, 2))
    IN With(r, Node("struct", st.next, NameOf(t.kids[1]), r.es))
\* VisitIFieldInitializerList, for one field
VisitField(st, t, name, opt) ==
    LET r == Visit(Alloc(st), Last(t.kids))
    IN With(r, [Node("field", st.next, <<name.label>>, <<r.e>>) EXCEPT !.opt = opt])

VisitLiteral(st, t) ==
    With(Alloc(st), Node("lit", st.next, [i \in DOMAIN t.kids |-> t.kids[i].label], <<>>))

Visit(st, t) ==
    CASE t.label = "Expr"          -> VisitExpr(st, t)
      [] t.label = "Chain"         -> VisitChain(st, t)
      [] t.label = "Binary"        -> VisitBinary(st, t)
      [] t.label = "LogicalNot"    -> VisitPrefix(st, t, "!_")
      [] t.label = "Negate"        -> VisitPrefix(st, t, "-_")
      [] t.label = "Select"        -> VisitSelect(st, t)
      [] t.label = "OptSelect"     -> VisitOptSelect(st, t)
      [] t.label = "MemberCall"    -> VisitMemberCall(st, t)
      [] t.label = "Index"         -> VisitIndex(st, t, "[]", t.kids[3])
      [] t.label = "OptIndex"      -> VisitIndex(st, t, "[?]", t.kids[4])
      [] t.label = "Ident"         -> VisitIdent(st, t)
      [] t.label = "GlobalCall"    -> VisitGlobalCall(st, t)
      [] t.label = "Nested"        -> Visit(st, t.kids[2])
      [] t.label = "CreateList"    -> VisitCreateList(st, t)
      [] t.label = "CreateStruct"  -> VisitCreateStruct(st, t)
      [] t.label = "Entry"         -> VisitEntry(st, t)
      [] t.label = "CreateMessage" -> VisitCreateMessage(st, t)
      [] t.label = "Field"         -> VisitField(st, t, t.kids[1], {})
      [] t.label = "OptField"      -> VisitField(st, t, t.kids[2], {1})
      [] t.label = "Literal"       -> VisitLiteral(st, t)

AntlrParse(tree, opt) == Visit(Start(<<>>, opt), tree)
=============================================================================
