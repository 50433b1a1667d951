------------------------------ MODULE Attributes ------------------------------
(***************************************************************************)
(* Programs as they are planned with the checker's references or without   *)
(* them.  A name is planned as an attribute: the variables it may stand    *)
(* for, in the order of resolution, each with the qualifiers left to be    *)
(* applied; what it stands for is found out when it is resolved.           *)
(***************************************************************************)
EXTENDS Checker

CONSTANT Input          \* the variables of an evaluation: a function from names to values

Value(kind, n, s, elems) == [kind |-> kind, n |-> n, s |-> s, elems |-> elems]
Num(n)    == Value("int", n, "", <<>>)
Str(s)    == Value("string", 0, s, <<>>)
BoolV(b)  == Value("bool", IF b THEN 1 ELSE 0, "", <<>>)
Null      == Value("null", 0, "", <<>>)
ListV(vs) == Value("list", 0, "", vs)
MapV(kvs) == Value("map", 0, "", kvs)             \* keys and values by turns
Err(s)    == Value("err", 0, s, <<>>)
NoOverload == Err("no such overload")
NoAttribute == Err("no such attribute")
NoKey     == Err("no such key")
IsErr(v)  == v.kind = "err"
\* The errors that no well-typed expression should meet.
TypeErrors == {NoOverload, NoAttribute}

Entries(v)  == 1..(Len(v.elems) \div 2)
KeyOf(v, i) == v.elems[2 * i - 1]
ValOf(v, i) == v.elems[2 * i]
EntryOf(v, k)  == SelectInSeq([i \in Entries(v) |-> KeyOf(v, i)], LAMBDA x : x = k)
\* The last of the entries with one key is kept.
MapOfEntries(vs) ==
    LET kept == {i \in 1..Len(vs) : \A j \in (i + 1)..Len(vs) :
                                       (i % 2 = 1 /\ j % 2 = 1) => vs[i] # vs[j]}
        is   == SelectSeq([i \in 1..Len(vs) |-> i],
                          LAMBDA i : (IF i % 2 = 1 THEN i ELSE i - 1) \in kept)
    IN MapV([j \in DOMAIN is |-> vs[is[j]]])

LitValue(name) ==
    CASE name[1] \in {"true", "false"} -> BoolV(name[1] = "true")
      [] name[1] = "null"              -> Null
      [] name[1] \in {"0", "1"}        -> Num(IF name[1] = "0" THEN 0 ELSE 1)
      [] OTHER                         -> Str(name[1])

-----------------------------------------------------------------------------
(* Functions. *)
Size(v) == CASE v.kind = "list" -> Num(Len(v.elems))
             [] v.kind = "map"  -> Num(Len(v.elems) \div 2)
             [] v.kind = "string" -> Num(1)
             [] OTHER -> NoOverload
Sum(v, w) ==
    IF v.kind # w.kind THEN NoOverload
    ELSE CASE v.kind = "int"    -> Num(v.n + w.n)
           [] v.kind = "string" -> Str(v.s \o w.s)
           [] v.kind = "list"   -> ListV(v.elems \o w.elems)
           [] OTHER             -> NoOverload
In(v, w) ==
    CASE w.kind = "list" -> BoolV(Contains(w.elems, v))
      [] w.kind = "map"  -> BoolV(EntryOf(w, v) # 0)
      [] OTHER           -> NoOverload
And(v, w) ==
    IF BoolV(FALSE) \in {v, w} THEN BoolV(FALSE)
    ELSE IF v.kind = "bool" /\ w.kind = "bool" THEN BoolV(TRUE)
    ELSE IF IsErr(v) THEN v ELSE IF IsErr(w) THEN w ELSE NoOverload
\* The functions of the environment: pick(A, A, int), pick(A, A, string) and c.g(A).
Apply(fn, vs) ==
    CASE fn = <<"+">>    -> Sum(vs[1], vs[2])
      [] fn = <<"==">>   -> BoolV(vs[1] = vs[2])
      [] fn = <<"in">>   -> In(vs[1], vs[2])
      [] fn = <<"size">> -> Size(vs[1])
      [] fn = <<"dyn">>  -> vs[1]
      [] fn = <<"type">> -> Value("type", 0, vs[1].kind, <<>>)
      [] fn = <<"pick">> -> IF vs[3].kind \in {"int", "string"} THEN vs[1] ELSE NoOverload
      [] OTHER           -> vs[1]
\* A strict function answers the first of its arguments that is an error.
Strict(fn, vs) ==
    IF \E i \in DOMAIN vs : IsErr(vs[i]) THEN SelectSeq(vs, IsErr)[1] ELSE Apply(fn, vs)

-----------------------------------------------------------------------------
(* A scope: whether the program is checked, and the loop variables, the innermost last. *)
Scope(checked) == [checked |-> checked, locals |-> <<>>]
Bound(s, x, v) == [s EXCEPT !.locals = Append(@, [name |-> x, value |-> v])]
IsLocalVar(s, name) == \E i \in DOMAIN s.locals : name = <<s.locals[i].name>>
LocalValue(s, name) ==
    s.locals[SelectLastInSeq(s.locals, LAMBDA l : name = <<l.name>>)].value
\* The variables of the evaluation, whatever hides them.
InputScope(s) == [s EXCEPT !.locals = <<>>]
Resolves(s, name) == IsLocalVar(s, name) \/ name \in DOMAIN Input
ResolveName(s, name) == IF IsLocalVar(s, name) THEN LocalValue(s, name) ELSE Input[name]

(* An attribute: its alternatives, and the operand of one that is no name.  The alternatives *)
(* of a name of an unchecked program are extended with each field that is selected from it.  *)
Alternative(names, quals) ==
    [names |-> [i \in DOMAIN names |-> Unrooted(names[i])],
     rooted |-> \E i \in DOMAIN names : IsRooted(names[i]), quals |-> quals]
NoExpr == Node("none", <<>>, <<>>)
AbsoluteAttribute(name) == [maybe |-> FALSE, alts |-> <<Alternative(<<name>>, <<>>)>>, e |-> NoExpr]
MaybeAttribute(name) ==
    [maybe |-> TRUE, e |-> NoExpr,
     alts |-> <<Alternative(IF IsRooted(name) THEN <<name>> ELSE ResolveCandidateNames(name), <<>>)>>]
RelativeAttribute(e) == [maybe |-> FALSE, alts |-> <<Alternative(<<>>, <<>>)>>, e |-> e]

IsString(q) == q.e.kind = "lit" /\ LitValue(q.e.name).kind = "string"
AddQualifier(attr, q) ==
    LET alts  == [i \in DOMAIN attr.alts |-> [attr.alts[i] EXCEPT !.quals = Append(@, q)]]
        first == attr.alts[1]
        names == [i \in DOMAIN first.names |-> Append(first.names[i], q.e.name[1])]
    IN [attr EXCEPT !.alts = IF attr.maybe /\ IsString(q) /\ first.quals = <<>>
                             THEN <<Alternative(names, <<>>)>> \o alts ELSE alts]

\* planIdent, planSelect, planCallIndex and planCallConditional.
IsChained(e) == e.kind \in {"select", "test"} \/ (e.kind = "call" /\ e.name = <<"[]">>)
IsCond(e)    == e.kind = "call" /\ e.name = <<"?:">>
IsAttr(e)    == e.kind = "ident" \/ IsChained(e) \/ IsCond(e)
Qualifier(e) == [test |-> e.kind = "test", of |-> e,
                 e |-> IF e.kind = "call" THEN e.args[2] ELSE Node("lit", e.name, <<>>)]
RECURSIVE Plan(_, _)
\* Mutant: loop variables are planned like any other name.
PlanNoLocals(e, s) ==
    IF IsChained(e) THEN AddQualifier(Plan(e.args[1], s), Qualifier(e))
    ELSE IF e.kind # "ident" THEN RelativeAttribute(e)
    ELSE IF s.checked THEN AbsoluteAttribute(e.name) ELSE MaybeAttribute(e.name)
Plan(e, s) ==
    IF IsChained(e) THEN AddQualifier(Plan(e.args[1], s), Qualifier(e))
    ELSE IF e.kind # "ident" THEN RelativeAttribute(e)
    ELSE IF s.checked \/ IsLocalVar(s, e.name) THEN AbsoluteAttribute(e.name)
    ELSE MaybeAttribute(e.name)

\* resolveFunction: the call that a member call is, if its target begins a function's name.
PlannedCall(e, s) ==
    LET fn == IF s.checked \/ ~IsQualified(e.args[1]) THEN NoFunction
              ELSE LookupFunction(QualifiedName(e.args[1]) \o e.name)
    IN IF e.kind = "member" /\ fn # NoFunction THEN Node("call", fn, Tail(e.args))
       ELSE IF s.checked \/ LookupFunction(e.name) = NoFunction THEN e
       ELSE [e EXCEPT !.name = LookupFunction(e.name)]

-----------------------------------------------------------------------------
(* Exec: what an expression evaluates to in a scope.  To resolve an attribute, its *)
(* alternatives are tried until one is no missing variable.                        *)
RECURSIVE Exec(_, _)

\* A qualifier that is applied to v, with key k.
Qualify(v, k, test) ==
    IF IsErr(v) THEN v
    ELSE IF IsErr(k) THEN k
    ELSE IF v.kind = "map"
    THEN IF test THEN BoolV(EntryOf(v, k) # 0) ELSE IF EntryOf(v, k) # 0 THEN ValOf(v, EntryOf(v, k)) ELSE NoKey
    ELSE IF v.kind = "list" /\ k.kind # "int" THEN NoOverload
    ELSE IF test THEN BoolV(FALSE)
    ELSE IF v.kind = "list" /\ k.n \in 0..(Len(v.elems) - 1) THEN v.elems[k.n + 1]
    ELSE NoKey
ApplyQualifiers(v, quals, s) ==
    FoldLeft(LAMBDA w, q : IF IsErr(w) THEN w ELSE Qualify(w, Exec(q.e, s), q.test), v, quals)

\* The first of the names that is a variable; rooted names are not looked for in the loops, and
\* neither are the names in their qualifiers.
ResolveAlternative(alt, s) ==
    LET scope == IF alt.rooted THEN InputScope(s) ELSE s
        i     == SelectInSeq(alt.names, LAMBDA n : Resolves(scope, n))
    IN IF i = 0 THEN NoAttribute
       ELSE ApplyQualifiers(ResolveName(scope, alt.names[i]), alt.quals, scope)
ResolveNamed(attr, s) ==
    FoldLeft(LAMBDA v, alt : IF v = NoAttribute THEN ResolveAlternative(alt, s) ELSE v,
             NoAttribute, attr.alts)

\* The qualifiers of a conditional are those of either branch.
Qualified(e, quals) == FoldLeft(LAMBDA x, q : [q.of EXCEPT !.args[1] = x], e, quals)
Resolve(attr, s) ==
    LET quals == attr.alts[1].quals
        branch(c) == IF IsErr(c) THEN c
                     ELSE IF c.kind # "bool" THEN NoOverload
                     ELSE Exec(Qualified(attr.e.args[IF c.n = 1 THEN 2 ELSE 3], quals), s)
    IN IF attr.e = NoExpr THEN ResolveNamed(attr, s)
       ELSE IF IsCond(attr.e) THEN branch(Exec(attr.e.args[1], s))
       ELSE ApplyQualifiers(Exec(attr.e, s), quals, s)

ExecCall(e, s) ==
    LET vs == [i \in DOMAIN e.args |-> Exec(e.args[i], s)]
    IN IF e.name = <<"&&">> THEN And(vs[1], vs[2])
       ELSE IF e.name = <<"@nsf">> THEN IF vs[1].kind = "bool" THEN vs[1] ELSE BoolV(TRUE)
       ELSE Strict(e.name, vs)

ExecAll(e, s) ==
    LET vs == [i \in DOMAIN e.args |-> Exec(e.args[i], s)]
    IN IF \E i \in DOMAIN vs : IsErr(vs[i]) THEN SelectSeq(vs, IsErr)[1]
       ELSE IF e.kind = "list" THEN ListV(vs) ELSE MapOfEntries(vs)

\* What the loop variables are in each turn.
Turns(v, two) ==
    IF v.kind = "list"
    THEN [i \in DOMAIN v.elems |-> IF two THEN <<Num(i - 1), v.elems[i]>> ELSE <<v.elems[i]>>]
    ELSE [i \in Entries(v) |-> IF two THEN <<KeyOf(v, i), ValOf(v, i)>> ELSE <<KeyOf(v, i)>>]
LoopVarsBound(e, s, turn) ==
    LET t == Bound(s, e.name[1], turn[1]) IN IF Len(turn) = 2 THEN Bound(t, e.name[2], turn[2]) ELSE t
Turn(e, r, s) ==
    LET c == Exec(e.args[3], s)
    IN IF c = BoolV(TRUE) THEN [r EXCEPT !.v = Exec(e.args[4], s)]
       ELSE [done |-> TRUE, v |-> IF IsErr(c) THEN c ELSE r.v, failed |-> IsErr(c)]
Loop(e, s, range, init) ==
    IF IsErr(range) THEN range
    ELSE IF range.kind \notin {"list", "map"} THEN NoOverload
    ELSE LET step(r, turn) ==
                 IF r.done THEN r
                 ELSE Turn(e, r, LoopVarsBound(e, Bound(s, e.name[3], r.v), turn))
             r == FoldLeft(step, [done |-> FALSE, v |-> init, failed |-> FALSE],
                           Turns(range, e.name[2] # ""))
         IN IF r.failed THEN r.v ELSE Exec(e.args[5], Bound(s, e.name[3], r.v))

Exec(e, s) ==
    CASE e.kind = "lit"  -> LitValue(e.name)
      [] e.kind \in {"list", "map"} -> ExecAll(e, s)
      [] e.kind = "fold" -> Loop(e, s, Exec(e.args[1], s), Exec(e.args[2], s))
      [] IsAttr(e)       -> Resolve(Plan(e, s), s)
      [] OTHER           -> ExecCall(PlannedCall(e, s), s)
=============================================================================
