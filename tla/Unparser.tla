------------------------------ MODULE Unparser ------------------------------
(***************************************************************************)
(* The unparser: from an AST, and the macro calls of its source info, back *)
(* to tokens.                                                              *)
(***************************************************************************)
EXTENDS Integers, SequencesExt

BinaryOperators == {"||", "&&", "<", "in", "+", "-", "*"}

\* The tightest operators have the lowest precedence, and a plain function 0.
Precedence(op) ==
    CASE op = "?:"                   -> 8
      [] op = "||"                   -> 7
      [] op = "&&"                   -> 6
      [] op \in {"<", "in"}          -> 5
      [] op \in {"+", "-"}           -> 4
      [] op = "*"                    -> 3
      [] op \in {"!_", "-_"}         -> 2
      [] op \in {"[]", "[?]", ".?"}  -> 1
      [] OTHER                       -> 0

IsCall(e) == e.kind \in {"call", "member"}
Fn(e)     == e.name[1]
Arity(e)  == IF e.kind = "member" THEN Len(e.args) - 1 ELSE Len(e.args)

IsSamePrecedence(op, e)   == IsCall(e) /\ Precedence(op) = Precedence(Fn(e))
IsComplexOperator(e)      == IsCall(e) /\ Arity(e) >= 2
IsComplexWithRespectTo(op, e) == IsComplexOperator(e) /\ Precedence(op) < Precedence(Fn(e))
IsBinaryOrTernary(e) ==
    IsComplexOperator(e) /\ (Fn(e) \in BinaryOperators \/ IsSamePrecedence("?:", e))
IsLeftRecursive(op)       == op \notin {"&&", "||"}
IsAmbiguousUnaryOperand(e) ==
    \/ IsCall(e) /\ Fn(e) \in {"!_", "-_"}
    \/ e.kind = "lit" /\ e.name[1] = "-"

\* Mutated: the right operand of a left-recursive operator of the same precedence is bare.
RhsParenLower(op, rhs) == IsComplexWithRespectTo(op, rhs)

RhsParen(op, rhs) ==
    IsComplexWithRespectTo(op, rhs) \/ (IsLeftRecursive(op) /\ IsSamePrecedence(op, rhs))

Commas(parts) ==
    IF parts = <<>> THEN <<>>
    ELSE FoldLeft(LAMBDA acc, part : acc \o <<",">> \o part, parts[1], Tail(parts))

RECURSIVE Visit(_, _)
Unparse(calls, e) == Visit(calls, e)

\* visitMaybeNested
Nested(calls, e, nested) ==
    IF nested THEN <<"(">> \o Visit(calls, e) \o <<")">> ELSE Visit(calls, e)

VisitCallConditional(calls, e) ==
    LET arg(i) == Nested(calls, e.args[i],
                         IsSamePrecedence("?:", e.args[i]) \/ IsComplexOperator(e.args[i]))
    IN arg(1) \o <<"?">> \o arg(2) \o <<":">> \o arg(3)

\* Only the first two operands are written.
VisitCallBinary(calls, e) ==
    Nested(calls, e.args[1], IsComplexWithRespectTo(Fn(e), e.args[1])) \o e.name
    \o Nested(calls, e.args[2], RhsParen(Fn(e), e.args[2]))

VisitCallUnary(calls, e) ==
    <<IF Fn(e) = "-_" THEN "-" ELSE "!">>
    \o Nested(calls, e.args[1], IsComplexOperator(e.args[1]) \/ IsAmbiguousUnaryOperand(e.args[1]))

VisitCallIndex(calls, e) ==
    Nested(calls, e.args[1], IsBinaryOrTernary(e.args[1]))
    \o (IF Fn(e) = "[?]" THEN <<"[", "?">> ELSE <<"[">>) \o Visit(calls, e.args[2]) \o <<"]">>

VisitSelect(calls, operand, dot, field) ==
    Nested(calls, operand, IsBinaryOrTernary(operand)) \o dot \o field

VisitCallFunc(calls, e) ==
    LET target == IF e.kind = "member"
                  THEN Nested(calls, e.args[1], IsBinaryOrTernary(e.args[1])) \o <<".">> ELSE <<>>
        as     == IF e.kind = "member" THEN Tail(e.args) ELSE e.args
    IN target \o e.name \o <<"(">> \o Commas([i \in DOMAIN as |-> Visit(calls, as[i])]) \o <<")">>

VisitCall(calls, e) ==
    LET op == Fn(e) IN
    CASE op = "?:"               -> VisitCallConditional(calls, e)
      [] op = ".?"               -> VisitSelect(calls, e.args[1], <<".", "?">>, e.args[2].name)
      [] op \in {"[]", "[?]"}    -> VisitCallIndex(calls, e)
      [] op \in {"!_", "-_"}     -> VisitCallUnary(calls, e)
      [] op \in BinaryOperators  -> VisitCallBinary(calls, e)
      [] OTHER                   -> VisitCallFunc(calls, e)

\* Elements of a list, entries of a map and fields of a message, with their optional mark.
VisitElements(calls, e) ==
    LET mark(i) == IF i \in e.opt \/ (e.kind # "list" /\ e.args[i].opt # {}) THEN <<"?">> ELSE <<>>
        elem(x) == CASE x.kind = "entry" -> Visit(calls, x.args[1]) \o <<":">> \o Visit(calls, x.args[2])
                     [] x.kind = "field" -> x.name \o <<":">> \o Visit(calls, x.args[1])
                     [] OTHER            -> Visit(calls, x)
    IN Commas([i \in DOMAIN e.args |-> mark(i) \o elem(e.args[i])])

\* A comprehension that is no macro call cannot be written.
Unsupported == <<"unsupported">>

Visit(calls, e) ==
    IF \E c \in calls : c.id = e.id
    THEN Visit(calls, [(CHOOSE c \in calls : c.id = e.id) EXCEPT !.id = 0])
    ELSE CASE e.kind \in {"call", "member"} -> VisitCall(calls, e)
           [] e.kind \in {"lit", "ident"}   -> e.name
           [] e.kind = "list"   -> <<"[">> \o VisitElements(calls, e) \o <<"]">>
           [] e.kind = "map"    -> <<"{">> \o VisitElements(calls, e) \o <<"}">>
           [] e.kind = "struct" -> e.name \o <<"{">> \o VisitElements(calls, e) \o <<"}">>
           [] e.kind = "select" -> VisitSelect(calls, e.args[1], <<".">>, e.name)
           [] e.kind = "test"   -> <<"has", "(">> \o Visit(calls, e.args[1]) \o <<".">> \o e.name \o <<")">>
           [] OTHER             -> Unsupported
=============================================================================
