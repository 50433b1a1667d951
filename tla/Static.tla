-------------------------------- MODULE Static --------------------------------
(***************************************************************************)
(* Expressions from the checker to their evaluation.  An expression grows  *)
(* from an atom, each step putting it into a larger one; it is checked,    *)
(* planned with what the checker found out and without it, and evaluated.  *)
(***************************************************************************)
EXTENDS Attributes

CONSTANTS Families,     \* records [atoms, contexts, size]: the expressions to start with, the
                        \* expressions with a hole to put them in, and how often
          Free          \* the variable that a context may bind

VARIABLES family,       \* of the expression
          steps,        \* how often it was put into a larger one
          expr,         \* as it was parsed
          check,        \* the result of the checker
          values        \* what the checked and the parsed expression evaluate to
vars == <<family, steps, expr, check, values>>

Hole == Node("hole", <<>>, <<>>)
RECURSIVE Plug(_, _)
Plug(ctx, e) ==
    IF ctx = Hole THEN e ELSE [ctx EXCEPT !.args = [i \in DOMAIN ctx.args |-> Plug(ctx.args[i], e)]]

Accepted(r) == ~r.c.failed
ValuesOf(e, r) ==
    IF Accepted(r) THEN [checked |-> Exec(r.e, Scope(TRUE)), parsed |-> Exec(e, Scope(FALSE))]
    ELSE [checked |-> Null, parsed |-> Null]

Init ==
    /\ family \in Families
    /\ expr \in family.atoms
    /\ steps = 0
    /\ check = CheckExpr(expr)
    /\ values = ValuesOf(expr, check)

\* The expression is legal in some context: one that binds the free variable.
Extensible == ~Check([NewChecker EXCEPT !.scopes = <<(Free :> Dyn)>>], expr).c.failed
Put(ctx) ==
    /\ steps < family.size
    /\ Extensible
    /\ steps' = steps + 1
    /\ expr'  = Plug(ctx, expr)
    /\ check' = CheckExpr(expr')
    /\ values' = ValuesOf(expr', check')
    /\ UNCHANGED family
Next == \E ctx \in family.contexts : Put(ctx)
Spec == Init /\ [][Next]_vars

-----------------------------------------------------------------------------
RECURSIVE Parts(_)
Parts(e) == {e} \cup UNION {Parts(e.args[i]) : i \in DOMAIN e.args}

(* No type parameter comes to stand for a type that mentions it, however many tests bind it, *)
(* or substitute would not end; and a test that fails leaves the substitutions as they were, *)
(* whatever it added before it failed.                                                       *)
SubstitutionKept == ~check.c.m.cyclic /\ check.c.exact

-----------------------------------------------------------------------------
RECURSIVE Conforms(_, _)
\* v is a value of type t.
Conforms(v, t) ==
    CASE IsDyn(t)         -> TRUE
      [] t.kind = "list"  -> v.kind = "list" /\ \A i \in DOMAIN v.elems : Conforms(v.elems[i], t.params[1])
      [] t.kind = "map"   -> v.kind = "map" /\ \A i \in Entries(v) :
                                Conforms(KeyOf(v, i), t.params[1]) /\ Conforms(ValOf(v, i), t.params[2])
      [] OTHER            -> v.kind = t.kind

\* What the fields and keys of e are taken from.
RECURSIVE BasesOf(_)
BasesOf(e) ==
    IF IsChained(e) THEN BasesOf(e.args[1])
    ELSE IF IsCond(e) THEN BasesOf(e.args[2]) \cup BasesOf(e.args[3])
    ELSE {e}
IsIndex(e) == e.kind = "call" /\ e.name = <<"[]">>
\* A rooted name is indexed by something that is computed.
RootedKey(e) ==
    \E x \in Parts(e) : /\ IsIndex(x) /\ x.args[2].kind # "lit"
                       /\ \E b \in BasesOf(x) : b.kind = "ident" /\ IsRooted(b.name)

RECURSIVE IsLoose(_)
IsLoose(t) == t.kind \in {"dyn", "wrapper"} \/ \E i \in DOMAIN t.params : IsLoose(t.params[i])
\* Nothing in the expression is nullable or dynamically typed, before the free parameters are
\* made so.
Strictly ==
    LET r == Check(NewChecker, expr)
    IN \A x \in Parts(r.e) : ~IsLoose(Substitute(check.c.m, x.type, FALSE))

(* Without dyn and null, an expression evaluates to a value of the type that the checker found, *)
(* or fails for want of a key, but never for want of an overload or of a variable.              *)
Sound ==
    Accepted(check) /\ Strictly /\ ~RootedKey(expr) =>
        /\ IsErr(values.checked) \/ Conforms(values.checked, check.e.type)
        /\ values.checked \notin TypeErrors

-----------------------------------------------------------------------------
RootedAlias(e) == \E x \in Parts(e) : x.kind = "ident" /\ IsRooted(x.name) /\ IsAlias(Tail(x.name))

\* The names that an expression spells with its fields and keys, and whether one of them is a
\* variable that the checker does not look for.
RECURSIVE Spelled(_)
Spelled(e) ==
    IF e.kind = "ident" THEN {e.name}
    ELSE IF IsCond(e) THEN Spelled(e.args[2]) \cup Spelled(e.args[3])
    ELSE IF e.kind \in {"select", "test"} THEN {Append(n, e.name[1]) : n \in Spelled(e.args[1])}
    ELSE IF IsIndex(e) /\ e.args[2].kind = "lit" THEN {Append(n, e.args[2].name[1]) : n \in Spelled(e.args[1])}
    ELSE {}
SpellsVariable(e) ==
    \E x \in Parts(e) : /\ IsChained(x) /\ ~IsQualified(x)
                       /\ \E n \in Spelled(x) :
                             \E i \in DOMAIN ResolveCandidateNames(n) :
                                ResolveCandidateNames(n)[i] \in DOMAIN Variables

(* A program means the same with the checker's references and without them. Left out are an *)
(* index of a name with a leading dot by something computed (RootedKey), an alias with a     *)
(* leading dot, which only the checker expands (RootedAlias), and chains that without the    *)
(* checker find a variable it does not look for (SpellsVariable).                            *)
UncheckedAgrees ==
    Accepted(check) /\ ~RootedKey(expr) /\ ~RootedAlias(expr) /\ ~SpellsVariable(expr)
        => values.checked = values.parsed

\* The expression with a loop variable that is called otherwise.
RECURSIVE Renamed(_, _, _), Fresh(_, _)
Renamed(e, x, y) ==
    IF e.kind = "ident" THEN IF e.name = <<x>> THEN [e EXCEPT !.name = <<y>>] ELSE e
    ELSE [e EXCEPT !.args = [i \in DOMAIN e.args |->
             IF e.kind = "fold" /\ i \in {3, 4} /\ x \in {e.name[1], e.name[2]} THEN e.args[i]
             ELSE Renamed(e.args[i], x, y)]]
Fresh(e, n) ==
    LET as == [i \in DOMAIN e.args |-> Fresh(e.args[i], n + 1)]
        y  == "z" \o ToString(n)
    IN IF e.kind # "fold" THEN [e EXCEPT !.args = as]
       ELSE [e EXCEPT !.name[1] = y,
                      !.args = [i \in DOMAIN as |-> IF i \in {3, 4} THEN Renamed(as[i], e.name[1], y)
                                                    ELSE as[i]]]
\* A loop variable has the name that the qualified name of a function begins with.
FunctionPrefix(e) ==
    \E f \in Parts(e) : f.kind = "fold" /\ \E x \in Parts(f) :
        /\ x.kind = "member" /\ IsQualified(x.args[1])
        /\ FirstIdent(x.args[1]) = <<f.name[1]>>
        /\ LookupFunction(QualifiedName(x.args[1]) \o x.name) # NoFunction
(* The name of a loop variable makes no difference: what it hides stays within reach of rooted *)
(* and of qualified names, and it hides nothing else but functions.                            *)
Hygienic ==
    LET f == Fresh(expr, 0)
        r == CheckExpr(f)
    IN ~FunctionPrefix(expr) /\ ~RootedKey(expr) =>
          /\ Accepted(r) = Accepted(check)
          /\ Accepted(r) => r.e.type = check.e.type /\ ValuesOf(f, r) = values
=============================================================================
