------------------------------- MODULE Policy -------------------------------
(***************************************************************************)
(* A policy is read, compiled and composed, and what is nested deeply is   *)
(* unnested.  Decide says what a rule means; the expression must come to   *)
(* it, for every input.                                                    *)
(***************************************************************************)
EXTENDS PolicyCompiler

CONSTANTS Variable,         \* for each match, the variable of its condition
          OtherConditions,  \* for each match, other conditions; each has a variable of its own
          OtherOutputs,     \* outputs that are not a number of their own
          References,       \* outputs that refer to variables
          Definitions,      \* what variables are defined as, with their names
          OtherDefinitions, \* the same, for less usual ones
          UnnestHeights,    \* the heights to unnest at
          MaxSize, MaxDepth \* bounds: a variable counts once, a match and what is unusual twice

VARIABLES source,   \* the root rule of the policy
          extras,   \* the number of extras in it
          stage,    \* how far it has come: "read", "compiled", "composed", "unnested"
          compiled, \* the compiled rule and the issues
          result    \* the expression
vars == <<source, extras, stage, compiled, result>>

-----------------------------------------------------------------------------
(* Evaluation. *)
Value(kind, name, parts) == [kind |-> kind, name |-> name, parts |-> parts]
Bool(b)    == Value("bool", IF b THEN "true" ELSE "false", <<>>)
Error      == Value("error", "", <<>>)
None       == Value("optional", "none", <<>>)
Some(v)    == Value("optional", "of", <<v>>)
ListV(vs)  == Value("list", "", vs)
IsError(v) == v.kind = "error"

\* The value of e, where env maps names to values, and those of slots to expressions' values.
RECURSIVE Exec(_, _)
Strict(vs, v) == IF \E i \in DOMAIN vs : IsError(vs[i]) THEN Error ELSE v
Absorbing(vs, b) == IF \E i \in DOMAIN vs : vs[i] = Bool(b) THEN Bool(b) ELSE Strict(vs, Bool(~b))
Bound(env, name, v) == [n \in DOMAIN env \cup {name} |-> IF n = name THEN v ELSE env[n]]
RECURSIVE Loop(_, _, _, _)
Loop(e, env, range, accu) ==
    LET inner == Bound(env, <<e.name[3]>>, accu)
    IN IF range = <<>> \/ Exec(e.args[3], inner) = Bool(FALSE) THEN Exec(e.args[5], inner)
       ELSE Loop(e, env, Tail(range), Exec(e.args[4], Bound(inner, <<e.name[1]>>, range[1])))
ExecCall(f, vs) ==
    CASE f \in {<<"optional", "of">>} -> Strict(vs, Some(vs[1]))
      [] f = <<"optional", "none">> -> None
      [] f = <<"&&">>   -> Absorbing(vs, FALSE)
      [] f = <<"||">>   -> Absorbing(vs, TRUE)
      [] f = <<"!">>    -> Strict(vs, Bool(vs[1] = Bool(FALSE)))
      [] f = <<"@nsf">> -> Bool(vs[1] # Bool(FALSE))
      [] f = <<"+">>    -> Strict(vs, IF vs[1].kind = "list" THEN ListV(vs[1].parts \o vs[2].parts)
                                      ELSE Value("string", vs[1].name \o vs[2].name, <<>>))
\* orValue, or: the second is evaluated if the first has no value.
ExecOr(e, first, env) ==
    IF IsError(first) THEN Error
    ELSE IF first = None THEN Exec(e.args[2], env)
    ELSE IF e.name = <<"or">> THEN first ELSE first.parts[1]
ExecConditional(e, cond, env) ==
    IF cond.kind # "bool" THEN Error ELSE Exec(e.args[IF cond = Bool(TRUE) THEN 2 ELSE 3], env)
\* Slots are evaluated when they are read; what one has read stays, errors included, and it
\* reads those before it only, so that the order makes no difference.
ExecBlock(slots, e, env) ==
    LET WithSlot(x, i) == Bound(x, IndexVar(i - 1), Exec(slots[i], x))
    IN Exec(e, FoldLeft(WithSlot, env, [i \in DOMAIN slots |-> i]))
ExecAll(es, env) == [i \in DOMAIN es |-> Exec(es[i], env)]
Exec(e, env) ==
    CASE e.kind = "lit"   -> Value(e.type.kind, e.name[1], <<>>)
      [] e.kind = "ident" -> env[e.name]
      [] e.kind = "list"  -> LET vs == ExecAll(e.args, env) IN Strict(vs, ListV(vs))
      [] e.kind = "fold"  -> LET range == Exec(e.args[1], env) IN
                             IF IsError(range) THEN Error
                             ELSE Loop(e, env, range.parts, Exec(e.args[2], env))
      [] e.kind = "member" -> ExecOr(e, Exec(e.args[1], env), env)
      [] e.kind = "call" /\ e.name = <<"?:">> -> ExecConditional(e, Exec(e.args[1], env), env)
      [] e.kind = "call" /\ e.name = <<"cel.@block">> -> ExecBlock(e.args[1].args, e.args[2], env)
      [] OTHER -> ExecCall(e.name, ExecAll(e.args, env))

-----------------------------------------------------------------------------
(* What a rule means: its value, or nothing, and the matches that are entered on the way,  *)
(* given as the positions that lead to them.                                               *)
Nothing == Value("nothing", "", <<>>)
Decision(v, entered) == [v |-> v, entered |-> entered]
Entered(r, env) ==
    FoldLeft(LAMBDA x, v : Bound(x, VariableName(v.name), Exec(v.expr, x)), env, r.variables)

RECURSIVE Decide(_, _), FirstOf(_, _, _)
\* The decision of a match whose condition is true.
DecideMatch(m, i, env) ==
    LET d == IF HasOutput(m) THEN Decision(Exec(Output(m), env), {}) ELSE Decide(NestedRule(m), env)
    IN [d EXCEPT !.entered = {<<i>>} \cup {<<i>> \o p : p \in @}]
\* First match: a condition that is true settles it, except that a rule without a condition is
\* left for the next match if it gives nothing.
FirstOf(r, i, env) ==
    IF i > Len(r.matches) THEN Decision(Nothing, {})
    ELSE LET m == r.matches[i]
             c == Exec(m.cond, env)
             d == DecideMatch(m, i, env)
             rest == FirstOf(r, i + 1, env)
         IN IF IsError(c) THEN Decision(Error, {})
            ELSE IF c = Bool(FALSE) THEN rest
            ELSE IF d.v = Nothing /\ IsTrue(m.cond) THEN [rest EXCEPT !.entered = @ \cup d.entered]
            ELSE d
\* Aggregate: the outputs of all matches whose condition is true, in order.
AllOf(r, env) ==
    LET ds == [i \in DOMAIN r.matches |->
                  LET c == Exec(r.matches[i].cond, env)
                  IN IF IsError(c) THEN Decision(Error, {})
                     ELSE IF c = Bool(FALSE) THEN Decision(Nothing, {})
                     ELSE DecideMatch(r.matches[i], i, env)]
        vs == SelectSeq([i \in DOMAIN ds |-> ds[i].v], LAMBDA v : v # Nothing)
    IN Decision(Strict(vs, ListV(vs)), UNION {ds[i].entered : i \in DOMAIN ds})
Decide(r, env) ==
    IF r.semantic = "aggregate" THEN AllOf(r, Entered(r, env)) ELSE FirstOf(r, 1, Entered(r, env))

\* What the expression for r should come to.
Expected(r, env) ==
    LET v == Decide(r, env).v
    IN IF ~HasOptionalOutput(r) \/ IsError(v) THEN v ELSE IF v = Nothing THEN None ELSE Some(v)
ExpectedType(r) == IF HasOptionalOutput(r) THEN OptionalOf(OutputType(r)) ELSE OutputType(r)

-----------------------------------------------------------------------------
(* Reading a policy: what comes next belongs to the root, or to the last rule below it.    *)
RECURSIVE OpenRules(_), RuleAt(_, _), WithRuleAt(_, _, _), MatchCount(_)
OpenRules(r) ==
    IF r.matches = <<>> \/ HasOutput(Last(r.matches)) THEN 0
    ELSE 1 + OpenRules(NestedRule(Last(r.matches)))
RuleAt(r, d) == IF d = 0 THEN r ELSE RuleAt(NestedRule(Last(r.matches)), d - 1)
WithRuleAt(r, d, new) ==
    IF d = 0 THEN new
    ELSE [r EXCEPT !.matches[Len(r.matches)].rule = <<WithRuleAt(@[1], d - 1, new)>>]
MatchCount(r) == FoldLeft(LAMBDA n, m : n + 1 + (IF HasOutput(m) THEN 0 ELSE MatchCount(NestedRule(m))),
                          0, r.matches)

Number == MatchCount(source) + 1
Read(d, r, cost) ==
    /\ stage = "read"
    /\ source' = WithRuleAt(source, d, r)
    /\ extras' = extras + cost
    /\ 2 * MatchCount(source') + extras' <= MaxSize
    /\ UNCHANGED <<stage, compiled, result>>
ReadVariable ==
    \E d \in 0..OpenRules(source), v \in Definitions \cup OtherDefinitions :
        /\ RuleAt(source, d).matches = <<>>
        /\ Read(d, [RuleAt(source, d) EXCEPT !.variables = Append(@, v)],
                IF v \in Definitions THEN 1 ELSE 2)
ReadMatch(d, m, cost) ==
    Read(d, [RuleAt(source, d) EXCEPT !.matches = Append(@, m)], cost)

\* Conditions, and outputs, with what they cost.
ConditionChoices == {<<TrueExpr, 0>>, <<Ident(Variable[Number]), 0>>}
                    \cup {<<c, 2>> : c \in OtherConditions[Number]}
OutputChoices(d) ==
    {<<Literal("o" \o ToString(Number)), 0>>} \cup {<<o, 2>> : o \in OtherOutputs}
    \cup {<<o, 0>> : o \in {x \in References : \E k \in 0..d : RuleAt(source, k).variables # <<>>}}
RuleChoices      == {<<EmptyRule("match"), 0>>, <<EmptyRule("aggregate"), 2>>}

ReadOutput ==
    /\ 2 * Number <= MaxSize
    /\ \E d \in 0..OpenRules(source) : \E c \in ConditionChoices, o \in OutputChoices(d) :
          ReadMatch(d, OutputMatch(c[1], o[1]), c[2] + o[2])
ReadRule ==
    /\ 2 * Number <= MaxSize
    /\ \E d \in 0..OpenRules(source), c \in ConditionChoices, r \in RuleChoices :
          d < MaxDepth /\ ReadMatch(d, RuleMatch(c[1], r[1]), c[2] + r[2])
Compile ==
    /\ stage = "read"
    /\ LET r == CompileRule(Compiler, source, FALSE)
       IN compiled' = [rule |-> r.rule, issues |-> r.c.issues]
    /\ stage' = "compiled"
    /\ UNCHANGED <<source, extras, result>>
ComposeRule ==
    /\ stage = "compiled" /\ compiled.issues = {} /\ ~Panics(compiled.rule)
    /\ result' = Compose(compiled.rule)
    /\ stage' = "composed"
    /\ UNCHANGED <<source, extras, compiled>>
UnnestRule(h) ==
    /\ stage = "composed" /\ ~result.failed
    /\ result' = Unnest(result, h)
    /\ stage' = "unnested"
    /\ UNCHANGED <<source, extras, compiled>>

Init ==
    /\ source \in {EmptyRule("match"), EmptyRule("aggregate")}
    /\ extras = 0 /\ stage = "read"
    /\ compiled = [rule |-> EmptyRule("match"), issues |-> {}]
    /\ result = [ast |-> TrueExpr, slots |-> <<>>, failed |-> FALSE]
Next ==
    \/ ReadVariable \/ ReadOutput \/ ReadRule
    \/ Compile \/ ComposeRule
    \/ \E h \in UnnestHeights : UnnestRule(h)
Spec == Init /\ [][Next]_vars

-----------------------------------------------------------------------------
(* Properties. *)
\* Each condition is true or false, or fails; fewer than two fail.
Inputs(values) ==
    {[n \in DOMAIN EnvVariables |->
         LET is == {i \in DOMAIN f : Variable[i] = n}
         IN IF is = {} THEN Bool(FALSE) ELSE f[CHOOSE i \in is : TRUE]] :
     f \in {g \in [1..MatchCount(source) -> values] :
               \A i, j \in DOMAIN g : g[i] = Error /\ g[j] = Error => i = j}}

\* Below an aggregate, a first-match rule that has a rule that may give nothing: what is made
\* for the two are lists, and they are put together as if the latter were an optional.
RECURSIVE ListFallsThrough(_, _)
ListFallsThrough(r, asList) ==
    \E i \in DOMAIN r.matches :
        LET m == r.matches[i] IN
        /\ ~HasOutput(m)
        /\ \/ asList /\ r.semantic = "match" /\ MayGiveNothing(m)
           \/ ListFallsThrough(NestedRule(m), asList \/ r.semantic = "aggregate")

\* What Compose makes of a policy, and what is unnested of it, decides as the policy does, on
\* every input: it gives the output of the first match that gives one, those of all matches
\* under an aggregate, an optional where there may be none, and fails where a condition that
\* is looked at fails, and only there.
DecisionKept ==
    stage \in {"composed", "unnested"} /\ ~result.failed =>
        \A input \in Inputs({Bool(TRUE), Bool(FALSE), Error}) :
            Exec(result.ast, input) = Expected(compiled.rule, input)

RECURSIVE HasMatches(_)
HasMatches(r) == r.matches # <<>> /\ \A i \in DOMAIN r.matches :
                    HasOutput(r.matches[i]) \/ HasMatches(NestedRule(r.matches[i]))
RECURSIVE BoolConditions(_)
BoolConditions(r) == \A i \in DOMAIN r.matches :
    /\ r.matches[i].cond.type = BoolT
    /\ HasOutput(r.matches[i]) \/ BoolConditions(NestedRule(r.matches[i]))

\* What the compiler has accepted can be composed, and unnested, to an expression that checks
\* and has the type that is expected of the rule. Left out are conditions that are not of type
\* bool, which the compiler accepts, rules without a match, which Compose does not expect,
\* and the lists of ListFallsThrough.
Composes ==
    HasMatches(source) /\ BoolConditions(compiled.rule) =>
    /\ stage = "compiled" /\ compiled.issues = {} => ~Panics(compiled.rule)
    /\ stage \in {"composed", "unnested"} /\ ~ListFallsThrough(compiled.rule, FALSE) =>
          ~result.failed /\ IsExactType(result.ast.type, ExpectedType(compiled.rule))

\* The positions that lead to the matches of r.
RECURSIVE Matches(_)
Matches(r) == UNION {{<<i>>} \cup (IF HasOutput(r.matches[i]) THEN {}
                                   ELSE {<<i>> \o p : p \in Matches(NestedRule(r.matches[i]))}) :
                     i \in DOMAIN r.matches}
\* The validation of reachability refuses a policy if and only if it has a match that no input
\* leads to. (Each condition of the inputs may be true or false whatever the others are; one
\* that is not of type bool can be neither.)
Reachable ==
    stage = "compiled" /\ compiled.issues \subseteq {"unreachable", "never"} /\ HasMatches(source)
    /\ BoolConditions(compiled.rule) =>
        (compiled.issues = {}
         <=> Matches(compiled.rule) \subseteq
                UNION {Decide(compiled.rule, input).entered :
                          input \in Inputs({Bool(TRUE), Bool(FALSE)})})
=============================================================================
