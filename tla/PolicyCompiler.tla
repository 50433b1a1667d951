--------------------------- MODULE PolicyCompiler ---------------------------
(***************************************************************************)
(* From the rules of a policy to compiled rules, and from these to one     *)
(* expression.  A rule has variables and matches, in order; a match has a  *)
(* condition, and an output or a rule of its own.  In the expression the   *)
(* matches are conditionals, and the variables, and what is nested too     *)
(* deeply, slots of a cel.@block around it.  An expression is a node of    *)
(* Checker.                                                                *)
(***************************************************************************)
EXTENDS TypeMapping

CONSTANTS MaxNestedExpressions,  \* the limit on variables and nested rules
          EnvVariables,          \* the variables of the environment, with their types
          EnvFunctions           \* its functions, with their overloads

ASSUME LimitAssumption == MaxNestedExpressions \in Nat \ {0}

Node(kind, name, args) == [kind |-> kind, name |-> name, args |-> args, type |-> NoType]
Literal(x)      == Node("lit", <<x>>, <<>>)
Ident(name)     == Node("ident", name, <<>>)
Call(f, args)   == Node("call", f, args)
Member(f, args) == Node("member", f, args)
List(args)      == Node("list", <<>>, args)
TrueExpr        == Literal("true")
IsTrue(e)       == e.kind = "lit" /\ e.name = <<"true">>
IsFalse(e)      == e.kind = "lit" /\ e.name = <<"false">>

OptionalOf(t) == OpaqueOf("optional_type", <<t>>)

Env(declared) == INSTANCE Checker WITH Variables <- declared, Functions <- EnvFunctions,
                                       Container <- <<>>, Aliases <- [x \in {} |-> <<>>]
\* An expression that does not check has an error for its type.
Checked(r) ==
    [e |-> IF r.c.failed THEN [r.e EXCEPT !.type = ErrorT] ELSE r.e, failed |-> r.c.failed]
CompileSource(declared, e) == Checked(Env(declared)!CheckExpr(e))

-----------------------------------------------------------------------------
(* Rules and matches. *)
EmptyRule(semantic)    == [semantic |-> semantic, variables |-> <<>>, matches |-> <<>>]
OutputMatch(cond, out) == [cond |-> cond, output |-> <<out>>, rule |-> <<>>]
RuleMatch(cond, rule)  == [cond |-> cond, output |-> <<>>, rule |-> <<rule>>]
HasOutput(m) == m.output # <<>>
Output(m)    == m.output[1]
NestedRule(m) == m.rule[1]

RECURSIVE OutputType(_), HasOptionalOutput(_), HasOptionalOutputAtLast(_)
MatchOutputType(m) == IF HasOutput(m) THEN Output(m).type ELSE OutputType(NestedRule(m))
\* The type of the first match, all of which agree.
OutputType(r) ==
    IF r.matches = <<>> THEN Dyn
    ELSE IF r.semantic = "aggregate" THEN ListOf(MatchOutputType(r.matches[1]))
    ELSE MatchOutputType(r.matches[1])

MayGiveNothing(m) == ~HasOutput(m) /\ HasOptionalOutput(NestedRule(m))
\* Mutant: a rule has no output only if its last match may give none.
HasOptionalOutputAtLast(r) ==
    /\ r.semantic # "aggregate" /\ r.matches # <<>>
    /\ MayGiveNothing(Last(r.matches)) \/ ~IsTrue(Last(r.matches).cond)
\* Whether the rule may end without an output.  This is decided by the first match that is
\* conditional, with a rule that may do so, or unconditional, with something that may not.
HasOptionalOutput(r) ==
    LET i == SelectInSeq(r.matches, LAMBDA m : MayGiveNothing(m) # IsTrue(m.cond))
    IN /\ r.semantic # "aggregate"
       /\ IF i = 0 THEN r.matches # <<>> ELSE MayGiveNothing(r.matches[i])

-----------------------------------------------------------------------------
(* Compilation: what is declared, how many variables and rules there were, and what has    *)
(* been reported.                                                                          *)
Compiler == [declared |-> EnvVariables, nested |-> 0, issues |-> {}]
Report(c, issue, when) == [c EXCEPT !.issues = IF when THEN @ \cup {issue} ELSE @]
Counted(c) == Report([c EXCEPT !.nested = @ + 1], "nesting", c.nested = MaxNestedExpressions)

VariableName(x) == <<"variables", x>>
\* A variable is visible from its declaration on; a name may be declared again with its type.
Declare(c, name, type) ==
    LET clash == name \in DOMAIN c.declared /\ ~IsExactType(c.declared[name], type)
        with(d) == [n \in DOMAIN d \cup {name} |-> IF n = name THEN type ELSE d[n]]
    IN Report([c EXCEPT !.declared = IF clash THEN @ ELSE with(@)],
              "declaration", clash)
WithVariable(r, v, s) ==
    LET t == IF s.failed THEN Dyn ELSE s.e.type
    IN [r EXCEPT !.c = Counted(Declare(Report(@, "expression", s.failed), VariableName(v.name), t)),
                 !.rule.variables = Append(@, [name |-> v.name, expr |-> s.e, type |-> t])]

CompileVariable(r, v) == WithVariable(r, v, CompileSource(r.c.declared, v.expr))

\* One type may be assigned to the other.
RECURSIVE IsAssignableType(_, _)
IsAssignableType(t, from) ==
    \/ IsDyn(t) /\ from.kind # "error"
    \/ /\ t.kind = from.kind /\ t.name = from.name /\ Len(t.params) = Len(from.params)
       /\ \A i \in DOMAIN t.params : IsAssignableType(t.params[i], from.params[i])
MatchOutputTypesAgree(r) ==
    LET types == SelectSeq([i \in DOMAIN r.matches |-> MatchOutputType(r.matches[i])],
                           LAMBDA t : t.kind # "error")
    IN \A i \in DOMAIN types :
          IsAssignableType(types[1], types[i]) \/ IsAssignableType(types[i], types[1])

\* Mutant: a rule without a condition is taken to give an output.
IsUnconditional(m) == IsTrue(m.cond)
IsExhaustive(m) == IsTrue(m.cond) /\ ~MayGiveNothing(m)
\* The matches are looked at from the last to the first that hides others.
HidesOthers(r) == {i \in DOMAIN r.matches \ {Len(r.matches)} :
                        r.semantic = "match" /\ IsExhaustive(r.matches[i])}
IsNever(r)     == \E i \in DOMAIN r.matches :
                        IsFalse(r.matches[i].cond) /\ \A j \in HidesOthers(r) : j <= i

Validated(r) ==
    [r EXCEPT !.c = Report(Report(Report(@, "types", ~MatchOutputTypesAgree(r.rule)),
                                  "unreachable", HidesOthers(r.rule) # {}),
                           "never", IsNever(r.rule))]

\* A nested rule does not leave its variables behind.
WithMatch(r, c, m) ==
    [r EXCEPT !.c = [c EXCEPT !.declared = r.c.declared], !.rule.matches = Append(@, m)]
WithOutput(r, cond, out) ==
    WithMatch(r, Report(r.c, "expression", cond.failed \/ out.failed), OutputMatch(cond.e, out.e))
WithRule(r, cond, nested) ==
    WithMatch(r, Counted(Report(nested.c, "expression", cond.failed)), RuleMatch(cond.e, nested.rule))

RECURSIVE CompileRule(_, _, _)
CompileMatch(r, m, aggregated) ==
    IF HasOutput(m)
    THEN WithOutput(r, CompileSource(r.c.declared, m.cond), CompileSource(r.c.declared, Output(m)))
    ELSE WithRule(r, CompileSource(r.c.declared, m.cond),
                  CompileRule(r.c, NestedRule(m), aggregated))
CompileRule(c, r, aggregateAncestor) ==
    LET isAggregate == r.semantic = "aggregate"
        start == [c |-> Report(c, "aggregate", aggregateAncestor /\ isAggregate),
                  rule |-> EmptyRule(r.semantic)]
        vars  == FoldLeft(LAMBDA x, v : The({CompileVariable(y, v) : y \in {x}}),
                          start, r.variables)
    IN Validated(FoldLeft(LAMBDA x, m : The({CompileMatch(y, m, aggregateAncestor \/ isAggregate) :
                                                y \in {x}}),
                          vars, r.matches))

-----------------------------------------------------------------------------
(* Composition. *)
IndexVar(n)     == <<"@index" \o ToString(n)>>
OptionalNone    == Call(<<"optional", "none">>, <<>>)
OptionalOfCall(e) == Call(<<"optional", "of">>, <<e>>)
Conditional(c, t, f) == Call(<<"?:">>, <<c, t, f>>)
IsOptionalNone(e) == e.kind = "call" /\ e.name = OptionalNone.name

\* A step of a composition; none is <<>>.
Step(optional, cond, out) == [optional |-> optional, cond |-> cond, out |-> out]
IsConditional(s) == ~IsTrue(s.cond)

\* What is left of a non-optional step before step next.
CombineNonOptional(s, next) ==
    IF ~IsConditional(s) THEN s
    ELSE IF next.optional
    THEN Step(TRUE, TrueExpr, Conditional(s.cond, OptionalOfCall(s.out), next.out))
    ELSE Step(FALSE, TrueExpr, Conditional(s.cond, s.out, next.out))
CombineOptional(s, next) ==
    IF next.optional
    THEN IF IsConditional(s) THEN Step(TRUE, TrueExpr, Conditional(s.cond, s.out, next.out))
         ELSE IF ~IsOptionalNone(next.out)
         THEN Step(TRUE, TrueExpr, Member(<<"or">>, <<s.out, next.out>>))
         ELSE s
    ELSE IF IsConditional(s)
    THEN Step(TRUE, TrueExpr, Conditional(s.cond, s.out, OptionalOfCall(next.out)))
    ELSE Step(FALSE, TrueExpr, Member(<<"orValue">>, <<s.out, next.out>>))
Combine(s, next) ==
    IF next = <<>> THEN s
    ELSE IF s.optional THEN CombineOptional(s, next[1]) ELSE CombineNonOptional(s, next[1])
CombineAggregate(s, rest) ==
    LET part == IF IsConditional(s) THEN Conditional(s.cond, s.out, List(<<>>)) ELSE s.out
    IN Step(FALSE, TrueExpr, IF rest.out.kind = "list" /\ rest.out.args = <<>> THEN part
                             ELSE Call(<<"+">>, <<part, rest.out>>))
BaseStep(returnList, optional) ==
    IF returnList THEN <<Step(FALSE, TrueExpr, List(<<>>))>>
    ELSE IF optional THEN <<Step(TRUE, TrueExpr, OptionalNone)>>
    ELSE <<>>

-----------------------------------------------------------------------------
(* Variables: each has a slot, and a scope maps the names that are visible to slots.  The  *)
(* scopes are one sequence, with the innermost declarations last.                          *)
\* Mutant: the outermost declaration of a name.
LookupOutermost(scopes, name) == SelectInSeq(scopes, LAMBDA s : s.name = name)
LookupLocal(scopes, name) == SelectLastInSeq(scopes, LAMBDA s : s.name = name)
RECURSIVE RewriteVariableNames(_, _)
RewriteVariableNames(e, scopes) ==
    IF e.kind = "ident" /\ e.name[1] = "variables"
    THEN LET i == LookupLocal(scopes, e.name)
         IN IF i = 0 THEN e ELSE [e EXCEPT !.name = IndexVar(scopes[i].slot)]
    ELSE [e EXCEPT !.args = [i \in DOMAIN e.args |-> RewriteVariableNames(e.args[i], scopes)]]

Slot(e, type) == [expr |-> e, type |-> type]
RegisterVariable(x, v) ==
    [x EXCEPT !.slots  = Append(@, Slot(RewriteVariableNames(v.expr, x.scopes), v.type)),
              !.scopes = Append(@, [name |-> VariableName(v.name), slot |-> Len(x.slots)])]

\* The composition so far: slots, scopes, the step that the matches behind have been combined
\* to, and whether there was none.
RECURSIVE OptimizeRule(_, _, _)
MatchStep(x, m, returnList) ==
    LET out == IF returnList THEN List(<<Output(m)>>) ELSE Output(m)
        y   == OptimizeRule(x, NestedRule(m), returnList)
    IN IF HasOutput(m) THEN [x |-> x, step |-> Step(FALSE, m.cond, out)]
       ELSE [x |-> y, step |-> Step(HasOptionalOutput(NestedRule(m)), m.cond, y.expr)]
Prepend(a, m, isAggregate, returnList) ==
    LET r == MatchStep(a.x, m, returnList)
    IN [x |-> r.x, out |-> <<IF isAggregate THEN CombineAggregate(r.step, a.out[1])
                             ELSE Combine(r.step, a.out)>>]
OptimizeRule(x, r, asList) ==
    LET isAggregate == r.semantic = "aggregate"
        returnList  == isAggregate \/ asList
        entered == FoldLeft(RegisterVariable, x, r.variables)
        done    == FoldRight(LAMBDA m, a : Prepend(a, m, isAggregate, returnList), r.matches,
                             [x |-> entered, out |-> BaseStep(returnList, HasOptionalOutput(r))])
    IN [done.x EXCEPT !.scopes = x.scopes,
                      !.panic  = @ \/ done.out = <<>>,
                      !.expr   = IF done.out = <<>> THEN TrueExpr
                                 ELSE RewriteVariableNames(done.out[1].out, entered.scopes)]

\* The environment of a block, the block, and the check of a result.
SlotVariables(slots) ==
    [n \in DOMAIN EnvVariables \cup {IndexVar(i - 1) : i \in DOMAIN slots} |->
        IF n \in DOMAIN EnvVariables THEN EnvVariables[n]
        ELSE slots[CHOOSE i \in DOMAIN slots : n = IndexVar(i - 1)].type]
Block(slots, e) ==
    IF slots = <<>> THEN e
    ELSE Call(<<"cel.@block">>, <<List([i \in DOMAIN slots |-> slots[i].expr]), e>>)
CheckedBlock(slots, r) == [ast |-> r.e, slots |-> slots, failed |-> r.failed]
Composed(slots, e) == CheckedBlock(slots, CompileSource(SlotVariables(slots), Block(slots, e)))
\* recoverOriginalSource, too, needs a match.
Composition == [slots |-> <<>>, scopes |-> <<>>, expr |-> TrueExpr, panic |-> FALSE]
Panics(r) == r.matches = <<>> \/ OptimizeRule(Composition, r, FALSE).panic
Compose(r) ==
    LET x == OptimizeRule(Composition, r, FALSE)
    IN Composed(x.slots, x.expr)

-----------------------------------------------------------------------------
(* Unnesting.  A node is the sequence of positions that leads to it.                       *)
RECURSIVE NodeAt(_, _), Replaced(_, _, _), Paths(_), Height(_)
NodeAt(e, p) == IF p = <<>> THEN e ELSE NodeAt(e.args[p[1]], Tail(p))
Replaced(e, p, f) == IF p = <<>> THEN f ELSE [e EXCEPT !.args[p[1]] = Replaced(@, Tail(p), f)]
\* The nodes, each after its parts.
Paths(e) ==
    Append(FlattenSeq([i \in DOMAIN e.args |->
                          LET below == Paths(e.args[i])
                          IN [j \in DOMAIN below |-> <<i>> \o below[j]]]), <<>>)
Height(e) ==
    IF e.args = <<>> /\ e.kind \in {"lit", "ident"} THEN 0
    ELSE 1 + FoldLeft(LAMBDA h, a : LET k == Height(a) IN IF k > h THEN k ELSE h, 0, e.args)

\* The range of a comprehension may be unnested, what is evaluated in its loop may not.
InLoop(e, p) == \E k \in 0..(Len(p) - 1) : NodeAt(e, SubSeq(p, 1, k)).kind = "fold" /\ p[k + 1] # 1
\* The heights after amount was taken off from p and those above, as far as there is as much.
RECURSIVE ReduceHeight(_, _, _)
ReduceHeight(heights, p, amount) ==
    IF heights[p] < amount THEN heights
    ELSE LET h == [heights EXCEPT ![p] = @ - amount]
         IN IF p = <<>> THEN h ELSE ReduceHeight(h, Front(p), amount)

UnnestAt(x, p, limit) ==
    IF InLoop(x.whole, p) \/ x.heights[p] < limit THEN x
    ELSE LET e == NodeAt(x.expr, p)
         IN [x EXCEPT !.heights = ReduceHeight(@, p, limit),
                      !.slots   = Append(@, Slot(e, e.type)),
                      !.expr    = Replaced(@, p, Ident(IndexVar(Len(x.slots))))]
\* Lower nodes first; the last of them, which is the root if that is a call, stays.
MaybeUnnestRule(slots, e, limit) ==
    LET paths   == Paths(e)
        heights == [p \in ToSet(paths) |-> Height(NodeAt(e, p))]
        calls   == SelectSeq(paths, LAMBDA p : /\ NodeAt(e, p).kind \in {"call", "member"}
                                               /\ heights[p] >= limit)
        sorted  == FlattenSeq([h \in 1..(Height(e) + 1) |->
                                  SelectSeq(calls, LAMBDA p : heights[p] = h - 1)])
    IN FoldLeft(LAMBDA x, p : UnnestAt(x, p, limit),
                [whole |-> e, expr |-> e, slots |-> slots, heights |-> heights],
                IF sorted = <<>> THEN <<>> ELSE Front(sorted))

Unnest(c, limit) ==
    LET e == IF c.slots = <<>> THEN c.ast ELSE c.ast.args[2]
        x == MaybeUnnestRule(c.slots, e, limit)
    IN IF x.slots = <<>> THEN c ELSE Composed(x.slots, x.expr)
=============================================================================
