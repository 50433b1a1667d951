------------------------------- MODULE Checker -------------------------------
(***************************************************************************)
(* The type checker.  An expression is a record with its kind, its name,   *)
(* the sequence of its parts and, once it is checked, its type; checking   *)
(* it also rewrites its names to the ones that they resolve to.            *)
(***************************************************************************)
EXTENDS TypeMapping, TLC

(***************************************************************************)
(* Names in a container: a name is the sequence of its simple names, and   *)
(* a rooted name begins with an empty one.                                 *)
(***************************************************************************)
CONSTANTS Container,    \* the name of the container, <<>> if there is none
          Aliases       \* a function from simple names to the names they stand for

\* aliasAs refuses an alias that is the first name of the container.
ASSUME AliasesAssumption == Container # <<>> => Head(Container) \notin DOMAIN Aliases

IsRooted(name) == Head(name) = ""
Unrooted(name) == IF IsRooted(name) THEN Tail(name) ELSE name
Rooted(name)   == <<"">> \o name

IsAlias(name)  == Head(name) \in DOMAIN Aliases
Expanded(name) == Aliases[Head(name)] \o Tail(name)

\* The names that a name may stand for: in the container, in each that encloses it, in none.
ResolveCandidateNames(name) ==
    IF IsAlias(Unrooted(name)) THEN <<Expanded(Unrooted(name))>>
    ELSE IF IsRooted(name) THEN <<Tail(name)>>
    ELSE [i \in 1..(Len(Container) + 1) |-> SubSeq(Container, 1, Len(Container) + 1 - i) \o name]

-----------------------------------------------------------------------------
CONSTANTS Variables,    \* a function from the names of the declared variables to their types
          Functions     \* and from those of the functions to sequences of overloads

Node(kind, name, args) == [kind |-> kind, name |-> name, args |-> args, type |-> NoType]
Overload(member, typeParams, params, result) ==
    [member |-> member, typeParams |-> typeParams, params |-> params, result |-> result]

\* The checker: its mapping, the number of its free type variables, whether it has reported
\* an error, its local scopes, the innermost last, and whether each test that failed so far
\* left no trace.
NewChecker == [m |-> NewMapping, free |-> 0, failed |-> FALSE, scopes |-> <<>>, exact |-> TRUE]
Fail(c) == [c EXCEPT !.failed = TRUE]

Result(c, e, t) == [c |-> c, e |-> [e EXCEPT !.type = t]]
TypeVar(n) == ParamT("v" \o ToString(n))

Tested(c, m) == [c EXCEPT !.m = m, !.exact = @ /\ (m.ok \/ m.sub = c.m.sub)]
TestAssignable(c, t1, t2) == Tested(c, IsAssignable(c.m, t1, t2))
TestAssignableList(c, l1, l2) == Tested(c, IsAssignableList(c.m, l1, l2))

FailUnlessOk(c) == IF c.m.ok THEN c ELSE Fail(c)
AssertType(c, e, t) == FailUnlessOk(TestAssignable(c, t, e.type))

-----------------------------------------------------------------------------
(* Scopes and names. *)
IsLocal(c, name) ==
    /\ Len(Unrooted(name)) = 1
    /\ \E i \in DOMAIN c.scopes : Unrooted(name)[1] \in DOMAIN c.scopes[i]
LocalType(c, x) ==
    LET i == SelectLastInSeq(c.scopes, LAMBDA s : x \in DOMAIN s) IN c.scopes[i][x]
Declare(scope, x, t) == [y \in DOMAIN scope \cup {x} |-> IF y = x THEN t ELSE scope[y]]
EnterScope(c, scope) == [c EXCEPT !.scopes = Append(@, scope)]
ExitScope(c) == [c EXCEPT !.scopes = Front(@)]

FirstDeclared(names, declared) == SelectInSeq(names, LAMBDA n : n \in declared)

NotFound == [found |-> FALSE, name |-> <<>>, type |-> ErrorT]
\* Mutant: the name of a variable that a local one hides is not rooted.
ResolveIdentUnrooted(c, first, name) ==
    IF IsLocal(c, first) /\ ~IsRooted(first)
    THEN IF first = name THEN [found |-> TRUE, name |-> name, type |-> LocalType(c, name[1])]
         ELSE NotFound
    ELSE LET names == ResolveCandidateNames(name)
             i     == FirstDeclared(names, DOMAIN Variables)
         IN IF i = 0 THEN NotFound
            ELSE [found |-> TRUE, type |-> Variables[names[i]], name |-> names[i]]
\* resolveSimpleIdent and resolveQualifiedIdent: first is the identifier that the name
\* begins with.  A variable that a local one hides gets a rooted name.
ResolveIdent(c, first, name) ==
    IF IsLocal(c, first) /\ ~IsRooted(first)
    THEN IF first = name THEN [found |-> TRUE, name |-> name, type |-> LocalType(c, name[1])]
         ELSE NotFound
    ELSE LET names == ResolveCandidateNames(name)
             i     == FirstDeclared(names, DOMAIN Variables)
         IN IF i = 0 THEN NotFound
            ELSE [found |-> TRUE, type |-> Variables[names[i]],
                  name  |-> IF IsLocal(c, first) THEN Rooted(names[i]) ELSE names[i]]

NoFunction == <<"?">>
LookupFunction(name) ==
    LET names == ResolveCandidateNames(name)
        i     == FirstDeclared(names, DOMAIN Functions)
    IN IF i = 0 THEN NoFunction ELSE names[i]

\* ToQualifiedName: the names of a chain of selections from an identifier.
RECURSIVE IsQualified(_), QualifiedName(_), FirstIdent(_)
IsQualified(e)   == e.kind = "ident" \/ (e.kind = "select" /\ IsQualified(e.args[1]))
QualifiedName(e) == IF e.kind = "ident" THEN e.name ELSE QualifiedName(e.args[1]) \o e.name
FirstIdent(e)    == IF e.kind = "ident" THEN e.name ELSE FirstIdent(e.args[1])

-----------------------------------------------------------------------------
(* Calls. *)
\* The overload with fresh variables for its type parameters.
Instance(o, free) ==
    LET fresh == [sub |-> [n \in ToSet(o.typeParams) |->
                              TypeVar(free + SelectInSeq(o.typeParams, LAMBDA p : p = n) - 1)]]
    IN Substitute(fresh, OpaqueOf("function", <<o.result>> \o o.params), FALSE)

\* What one more overload makes of the resolution r; the first that matches gives the type.
Merged(old, new) ==
    IF old = NoType THEN new
    ELSE IF ~IsDyn(old) /\ ~IsExactType(new, old) THEN Dyn ELSE old
Matched(c, r, fn) ==
    IF ~c.m.ok THEN [c |-> c, type |-> r.type]
    ELSE [c |-> c, type |-> Merged(r.type, Substitute(c.m, fn.params[1], FALSE))]
TryInstance(r, c, fn, types) == Matched(TestAssignableList(c, types, Tail(fn.params)), r, fn)
TryOverload(r, o, types, member) ==
    IF o.member # member THEN r
    ELSE TryInstance(r, [r.c EXCEPT !.free = @ + Len(o.typeParams)], Instance(o, r.c.free), types)

TypesOf(es) == [i \in DOMAIN es |-> es[i].type]

\* && and || have any number of arguments.
CheckLogical(c, d, e) ==
    Result([d EXCEPT !.failed = c.failed \/ d.failed], e, IF d.failed THEN ErrorT ELSE BoolT)
Resolution(r, e) ==
    IF r.type = NoType THEN Result(Fail(r.c), e, ErrorT) ELSE Result(r.c, e, r.type)
ResolveOverload(c, e, fn, member) ==
    IF fn \in {<<"&&">>, <<"||">>}
    THEN CheckLogical(c, FoldLeft(LAMBDA x, a : FailUnlessOk(TestAssignable(x, a.type, BoolT)),
                                  [c EXCEPT !.failed = FALSE], e.args), e)
    ELSE Resolution(FoldLeft(LAMBDA x, o : TryOverload(x, o, TypesOf(e.args), member),
                             [c |-> c, type |-> NoType], Functions[fn]), e)

\* A global call gets the name of the function that was found.
CallOrError(c, e, fn, member) ==
    IF fn = NoFunction THEN Result(Fail(c), e, ErrorT)
    ELSE ResolveOverload(c, IF member THEN e ELSE [e EXCEPT !.name = fn], fn, member)

-----------------------------------------------------------------------------
\* Mutant: types that are not assignable are joined to the first of them.
JoinedFirst(c, old, new) == [c |-> c, type |-> IF c.m.ok THEN MostGeneral(old, new) ELSE old]
\* joinTypes; the aggregate literals may be heterogeneous.
Joined(c, old, new) == [c |-> c, type |-> IF c.m.ok THEN MostGeneral(old, new) ELSE Dyn]
JoinTypes(c, old, new) ==
    IF old = NoType THEN [c |-> c, type |-> new] ELSE Joined(TestAssignable(c, old, new), old, new)

\* Optional types are declared, but not the optional syntax.
IsOptional(t) == t.kind = "opaque" /\ t.name = "optional_type"
Unwrapped(t)  == IF IsOptional(t) THEN t.params[1] ELSE t
Wrapped(t, of) == IF IsOptional(of) THEN OpaqueOf("optional_type", <<t>>) ELSE t

\* The type of a field of something of type t.
CheckField(c, e, of, t) ==
    LET done(d, f) == Result(d, e, IF e.kind = "test" THEN BoolT
                                   ELSE Substitute(d.m, Wrapped(f, of), FALSE))
    IN IF t.kind = "map" THEN done(c, t.params[2])
       ELSE IF t.kind = "param" THEN done(TestAssignable(c, Dyn, t), Dyn)
       ELSE IF IsDynOrError(t) THEN done(c, Dyn)
       ELSE done(Fail(c), Dyn)

CheckIdent(e, c, r) ==
    IF r.found THEN Result(c, Node("ident", r.name, <<>>), r.type)
    ELSE Result(Fail(c), e, ErrorT)

\* The types of the loop variables over a range of type t.
LoopScope(x, y, t1, t2) ==
    IF y = "" THEN Declare([z \in {} |-> NoType], x, t1)
    ELSE Declare(Declare([z \in {} |-> NoType], x, t1), y, t2)
LoopVars(e, t) ==
    LET x == e.name[1]
        y == e.name[2]
    IN IF t.kind = "list"
       THEN IF y = "" THEN LoopScope(x, y, t.params[1], NoType)
                      ELSE LoopScope(x, y, IntT, t.params[1])
       ELSE IF t.kind = "map" THEN LoopScope(x, y, t.params[1], t.params[2])
       ELSE IF t.kind \in {"dyn", "error", "param"} THEN LoopScope(x, y, Dyn, Dyn)
       ELSE LoopScope(x, y, ErrorT, ErrorT)
EnterLoop(c, e, t) ==
    LET d == IF t.kind \in {"dyn", "error", "param"} THEN TestAssignable(c, Dyn, t)
             ELSE IF t.kind \in {"list", "map"} THEN c ELSE Fail(c)
    IN EnterScope(d, LoopVars(e, t))

LitType(name) ==
    CASE name[1] \in {"true", "false"} -> BoolT
      [] name[1] = "null"              -> NullT
      [] name[1] \in {"0", "1"}        -> IntT
      [] OTHER                         -> StringT

-----------------------------------------------------------------------------
(* check: one case for each kind of expression, each of which checks the parts. *)
RECURSIVE Check(_, _)

\* The parts of a literal in order; every stride-th of them has a common type.
CheckParts(c, es, stride) ==
    LET join(r, s, k) ==
            LET j == JoinTypes(s.c, r.types[k], s.e.type)
            IN [c |-> j.c, es |-> Append(r.es, s.e), types |-> [r.types EXCEPT ![k] = j.type]]
    IN FoldLeft(LAMBDA r, e : join(r, Check(r.c, e), 1 + (Len(r.es) % stride)),
                [c |-> c, es |-> <<>>, types |-> [i \in 1..stride |-> NoType]], es)

\* The elements of an empty literal have a type of their own.
ListResult(r, e) ==
    IF e.args = <<>> THEN Result([r.c EXCEPT !.free = @ + 1], e, ListOf(TypeVar(r.c.free)))
    ELSE Result(r.c, [e EXCEPT !.args = r.es], ListOf(r.types[1]))
MapResult(r, e) ==
    IF e.args = <<>>
    THEN Result([r.c EXCEPT !.free = @ + 2], e, MapOf(TypeVar(r.c.free), TypeVar(r.c.free + 1)))
    ELSE Result(r.c, [e EXCEPT !.args = r.es], MapOf(r.types[1], r.types[2]))

\* Each argument has its own type.
CheckArgs(c, es) ==
    LET next(r, s) == [c |-> s.c, es |-> Append(r.es, s.e)]
    IN FoldLeft(LAMBDA r, e : next(r, Check(r.c, e)), [c |-> c, es |-> <<>>], es)

CheckSelect(c, e) ==
    LET r == IF e.kind = "select" /\ IsQualified(e)
             THEN ResolveIdent(c, FirstIdent(e), QualifiedName(e)) ELSE NotFound
        after(s, t) == CheckField(s.c, [e EXCEPT !.args[1] = s.e], t, Unwrapped(t))
        operand(s)  == after(s, Substitute(s.c.m, s.e.type, FALSE))
    IN IF r.found THEN CheckIdent(e, c, r) ELSE operand(Check(c, e.args[1]))

CheckCall(r, e) == CallOrError(r.c, [e EXCEPT !.args = r.es], LookupFunction(e.name), FALSE)

\* A target that begins the qualified name of a function is no target.
Namespaced(e) ==
    IF IsQualified(e.args[1]) THEN LookupFunction(QualifiedName(e.args[1]) \o e.name) ELSE NoFunction
AfterTarget(s, e, args) ==
    CallOrError(s.c, [e EXCEPT !.args = <<s.e>> \o args], LookupFunction(e.name), TRUE)
CheckMember(r, e) ==
    IF Namespaced(e) # NoFunction
    THEN CallOrError(r.c, Node("call", Namespaced(e), r.es), Namespaced(e), FALSE)
    ELSE AfterTarget(Check(r.c, e.args[1]), e, r.es)

\* A comprehension: its range, initial value, condition, step and result.
AfterResult(s, e, done) ==
    Result(ExitScope(s.c), [e EXCEPT !.args = Append(done, s.e)], Substitute(s.c.m, s.e.type, FALSE))
AfterStep(s, e, done, accu) ==
    The({AfterResult(t, e, Append(done, s.e)) :
            t \in {Check(ExitScope(AssertType(s.c, s.e, accu)), e.args[5])}})
AfterCond(s, e, done, accu) ==
    The({AfterStep(t, e, Append(done, s.e), accu) :
            t \in {Check(AssertType(s.c, s.e, BoolT), e.args[4])}})
AfterInit(s, e, range) ==
    LET inner == EnterLoop(EnterScope(s.c, (e.name[3] :> s.e.type)), e,
                           Substitute(s.c.m, range.type, FALSE))
    IN The({AfterCond(t, e, <<range, s.e>>, s.e.type) : t \in {Check(inner, e.args[3])}})
AfterRange(s, e) == The({AfterInit(t, e, s.e) : t \in {Check(s.c, e.args[2])}})

Check(c, e) ==
    CASE e.kind = "lit"    -> Result(c, e, LitType(e.name))
      [] e.kind = "ident"  -> CheckIdent(e, c, ResolveIdent(c, e.name, e.name))
      [] e.kind \in {"select", "test"} -> CheckSelect(c, e)
      [] e.kind = "list"   -> ListResult(CheckParts(c, e.args, 1), e)
      [] e.kind = "map"    -> MapResult(CheckParts(c, e.args, 2), e)
      [] e.kind = "call"   -> CheckCall(CheckArgs(c, e.args), e)
      [] e.kind = "member" -> CheckMember(CheckArgs(c, Tail(e.args)), e)
      [] e.kind = "fold"   -> AfterRange(Check(c, e.args[1]), e)

\* Check: at the end the type parameters get what they stand for, or dyn.
RECURSIVE Settled(_, _)
Settled(m, e) ==
    [e EXCEPT !.type = Substitute(m, e.type, TRUE),
              !.args = [i \in DOMAIN e.args |-> Settled(m, e.args[i])]]
AllSettled(r) == [r EXCEPT !.e = Settled(r.c.m, r.e)]
CheckExpr(e)  == AllSettled(Check(NewChecker, e))
=============================================================================
