---------------------------- MODULE Interpreter ----------------------------
(***************************************************************************)
(* The interpreter of planned expressions as a function: what Exec returns *)
(* for an expression under an activation, and what the state observer has  *)
(* recorded by then.                                                       *)
(*                                                                         *)
(* A value is a record with one field, named for its kind.  An expression  *)
(* is a record with its kind (op), its id and the sequence of its          *)
(* subexpressions (args).  Errors are not told apart, nor are unknowns.    *)
(***************************************************************************)
EXTENDS Integers, SequencesExt

-----------------------------------------------------------------------------
(* Values. *)
Bool(b) == [bool |-> b]
Num(n)  == [int |-> n]
List(s) == [list |-> s]
Map(f)  == [map |-> f]             \* from names to values
Some(v) == [opt |-> <<v>>]
None    == [opt |-> <<>>]
Msg(m)  == [msg |-> m]             \* a protobuf message: it has no literal
Err     == [err |-> "err"]
Unk     == [unk |-> "unk"]
True    == Bool(TRUE)
False   == Bool(FALSE)
Name(f) == [name |-> f]            \* the constant key of a field selection

Is(kind, v) == kind \in DOMAIN v
Final(v)    == v \notin {Err, Unk}

-----------------------------------------------------------------------------
(* Expressions. *)
Lit(v)          == [op |-> "lit", id |-> <<>>, args |-> <<>>, val |-> v]
Ident(x)        == [op |-> "ident", id |-> <<>>, args |-> <<>>, name |-> x]
Select(e, f)    == [op |-> "select", id |-> <<>>, args |-> <<e>>, field |-> f]
Has(e, f)       == [op |-> "has", id |-> <<>>, args |-> <<e>>, field |-> f]
Index(e, k)     == [op |-> "index", id |-> <<>>, args |-> <<e, k>>]
Call(fn, args)  == [op |-> "call", id |-> <<>>, args |-> args, fn |-> fn]
MkList(es, opt) == [op |-> "list", id |-> <<>>, args |-> es, opt |-> opt]
Fold(range, x, init, cond, step, result) ==
    [op |-> "fold", id |-> <<>>, args |-> <<range, init, cond, step, result>>, iter |-> x]
Bind(x, init, result) ==
    [op |-> "bind", id |-> <<>>, args |-> <<init, result>>, iter |-> x]

Accu == Ident("@result")

\* range.all(x, p), range.exists(x, p), range.map(x, t) and range.filter(x, p)
All(range, x, p) ==
    Fold(range, x, Lit(True), Call("notStrictlyFalse", <<Accu>>), Call("and", <<Accu, p>>), Accu)
Exists(range, x, p) ==
    Fold(range, x, Lit(False), Call("notStrictlyFalse", <<Call("not", <<Accu>>)>>),
         Call("or", <<Accu, p>>), Accu)
MapTo(range, x, t) ==
    Fold(range, x, MkList(<<>>, {}), Lit(True), Call("add", <<Accu, MkList(<<t>>, {})>>), Accu)
Filter(range, x, p) ==
    Fold(range, x, MkList(<<>>, {}), Lit(True),
         Call("cond", <<p, Call("add", <<Accu, MkList(<<Ident(x)>>, {})>>), Accu>>), Accu)

\* The ids of a freshly parsed expression are distinct: the path of each node.
RECURSIVE Parse(_, _)
Parse(e, path) ==
    [e EXCEPT !.id = path,
              !.args = [i \in DOMAIN e.args |-> Parse(e.args[i], Append(path, i))]]

-----------------------------------------------------------------------------
(***************************************************************************)
(* Operators on values.                                                    *)
(***************************************************************************)
\* Mutated: an error hides an unknown.
JunctionErrorFirst(vs, absorbing) ==
    LET S == ToSet(vs) IN
    IF absorbing \in S THEN absorbing
    ELSE IF \E v \in S : ~Is("bool", v) /\ v # Unk THEN Err
    ELSE IF Unk \in S THEN Unk
    ELSE IF absorbing = True THEN False ELSE True

\* Mutated: the last term decides whether an absorbing value was met.
JunctionLastWins(vs, absorbing) ==
    LET S == ToSet(vs) IN
    IF Last(vs) = absorbing THEN absorbing
    ELSE IF Unk \in S THEN Unk
    ELSE IF \E v \in S : ~Is("bool", v) THEN Err
    ELSE IF absorbing = True THEN False ELSE True

\* || and && over the values of the terms that were executed.
Junction(vs, absorbing) ==
    LET S == ToSet(vs) IN
    IF absorbing \in S THEN absorbing
    ELSE IF Unk \in S THEN Unk
    ELSE IF \E v \in S : ~Is("bool", v) THEN Err
    ELSE IF absorbing = True THEN False ELSE True

Absorbing(fn) == IF fn = "or" THEN True ELSE False

\* The implementations of the functions, on values that are neither errors nor unknowns.
Impl(fn, vs) ==
    CASE fn = "not" /\ Is("bool", vs[1]) -> Bool(~vs[1].bool)
      [] fn = "less" /\ Is("int", vs[1]) /\ Is("int", vs[2]) -> Bool(vs[1].int < vs[2].int)
      [] fn = "divide" /\ Is("int", vs[1]) /\ Is("int", vs[2]) /\ vs[2].int # 0 ->
            Num(vs[1].int \div vs[2].int)
      [] fn = "add" /\ Is("list", vs[1]) /\ Is("list", vs[2]) -> List(vs[1].list \o vs[2].list)
      [] fn = "in" /\ Is("list", vs[2]) -> Bool(Contains(vs[2].list, vs[1]))
      [] fn = "optional.of" -> Some(vs[1])
      [] fn = "dyn" -> vs[1]
      [] OTHER -> Err

\* A unary or binary strict call answers the first argument that is no final value.
StrictCall(fn, vs) ==
    IF \A i \in DOMAIN vs : Final(vs[i]) THEN Impl(fn, vs)
    ELSE SelectSeq(vs, LAMBDA v : ~Final(v))[1]

\* Equality is heterogeneous and an error wins over an unknown.
Equals(vs) ==
    IF Err \in ToSet(vs) THEN Err
    ELSE IF Unk \in ToSet(vs) THEN Unk
    ELSE Bool(vs[1] = vs[2])

NotStrictlyFalse(v) == IF Is("bool", v) THEN v ELSE True

\* The elements an optional or plain list element contributes, and whether it is legal.
BadElem(opt, i, v)  == v = Err \/ (i \in opt /\ Final(v) /\ ~Is("opt", v))
ElemsOf(opt, i, v)  == IF i \in opt /\ Is("opt", v) THEN v.opt ELSE <<v>>
ListOf(opt, vs) ==
    IF \E i \in DOMAIN vs : BadElem(opt, i, vs[i]) THEN Err
    ELSE IF Unk \in ToSet(vs) THEN Unk
    ELSE List(FlattenSeq([i \in DOMAIN vs |-> ElemsOf(opt, i, vs[i])]))

\* Qualify: one step of field selection or indexing by a value.
Qualify(v, key) ==
    CASE v = Unk \/ key = Unk -> Unk
      [] Is("map", v) /\ Is("name", key) /\ key.name \in DOMAIN v.map -> v.map[key.name]
      [] Is("list", v) /\ Is("int", key) /\ key.int \in 0..(Len(v.list) - 1) ->
            v.list[key.int + 1]
      [] OTHER -> Err
\* The presence test of the last field of has().
Present(v, key) ==
    CASE v = Unk -> Unk
      [] Is("list", v) -> Err
      [] OTHER -> Bool(Is("map", v) /\ key.name \in DOMAIN v.map)

-----------------------------------------------------------------------------
(***************************************************************************)
(* Activations.  env.vars maps variables to values, env.locals the         *)
(* variables of the enclosing comprehensions to results (a value with the  *)
(* state that computing it recorded), env.unknown is the set of unknown    *)
(* attribute patterns, env.exhaustive disables short-circuiting.           *)
(***************************************************************************)
Result(v, st) == [v |-> v, st |-> st]
Nothing == <<>>                        \* no state recorded
Pattern(x, quals) == [var |-> x, quals |-> quals]

Wildcard == "*"
MatchesQual(q, key) == q = Wildcard \/ (Is("name", key) /\ key.name = q)

\* Mutated: a pattern longer than the attribute does not match.
MatchesPrefix(p, x, keys) ==
    /\ p.var = x /\ Len(p.quals) <= Len(keys)
    /\ \A i \in DOMAIN p.quals : MatchesQual(p.quals[i], keys[i])

\* An unknown pattern matches an attribute if one is a prefix of the other.
Matches(p, x, keys) ==
    /\ p.var = x
    /\ \A i \in DOMAIN p.quals : i <= Len(keys) => MatchesQual(p.quals[i], keys[i])

-----------------------------------------------------------------------------
(***************************************************************************)
(* Exec.  Results are [v |-> value, st |-> recorded state], where the      *)
(* state maps ids to values and a later record replaces an earlier one.    *)
(***************************************************************************)
RECURSIVE Exec(_, _), Run(_, _), ResolveAttr(_, _, _), ApplyQuals(_, _, _, _), Loop(_, _, _, _, _)

\* The planner folds a chain of selections and indexings into qualifiers of one attribute.
Chained(e)   == e.op \in {"select", "has", "index"}
IsAttr(e, env) == Chained(e) \/ e.op = "ident" \/
                  (e.op = "call" /\ e.fn = "cond" /\ ~env.exhaustive)
RECURSIVE Base(_), Quals(_)
Base(e)  == IF Chained(e) THEN Base(e.args[1]) ELSE e
Qual(e)  == [id |-> e.id, test |-> e.op = "has",
             key |-> IF e.op = "index" THEN e.args[2] ELSE Lit(Name(e.field))]
Quals(e) == IF Chained(e) THEN Append(Quals(e.args[1]), Qual(e)) ELSE <<>>

Merge(rs) == FoldLeft(LAMBDA st, r : r.st @@ st, Nothing, rs)

\* Execute args in order, up to the first whose value satisfies Stop.
Executed(args, env, Stop(_, _)) ==
    LET rs == [i \in DOMAIN args |-> Exec(args[i], env)]
        n  == CHOOSE n \in 0..Len(rs) :
                 /\ \A i \in 1..n : Stop(i, rs[i].v) => i = n
                 /\ n = Len(rs) \/ (n > 0 /\ Stop(n, rs[n].v))
    IN SubSeq(rs, 1, n)
Values(rs) == [i \in DOMAIN rs |-> rs[i].v]

IsErr(i, v) == v = Err

\* A qualifier that is a constant is not executed; one that is an attribute is resolved
\* without being observed; any other expression is executed.
KeyOf(k, env) ==
    IF k.op = "lit" THEN Result(k.val, Nothing)
    ELSE IF IsAttr(k, env) THEN ResolveAttr(Base(k), Quals(k), env)
    ELSE Exec(k, env)

\* An exhaustive conditional resolves both branches.
RunCond(e, env) ==
    LET c == Exec(e.args[1], env)
        branch(i) == IF IsAttr(e.args[i], env) THEN Run(e.args[i], env) ELSE Exec(e.args[i], env)
        both == branch(3).st @@ branch(2).st
        chosen == IF c.v = True THEN branch(2) ELSE branch(3)
    IN IF env.exhaustive
       THEN Result(IF Is("bool", c.v) THEN chosen.v ELSE IF Final(c.v) THEN Err ELSE c.v,
                   both @@ c.st)
       ELSE IF Is("bool", c.v) THEN Result(chosen.v, chosen.st @@ c.st)
       ELSE Result(IF Final(c.v) THEN Err ELSE c.v, c.st)

RunCall(e, env) ==
    IF e.fn \in {"or", "and"}
    THEN LET stop(i, v) == v = Absorbing(e.fn) /\ ~env.exhaustive
             rs == Executed(e.args, env, stop)
         IN Result(Junction(Values(rs), Absorbing(e.fn)), Merge(rs))
    ELSE IF e.fn = "cond" THEN RunCond(e, env)
    ELSE IF e.fn = "notStrictlyFalse"
    THEN LET r == Exec(e.args[1], env) IN Result(NotStrictlyFalse(r.v), r.st)
    ELSE LET rs == Executed(e.args, env, IsErr) IN
         Result(IF e.fn = "equals" THEN Equals(Values(rs)) ELSE StrictCall(e.fn, Values(rs)),
                Merge(rs))

RunList(e, env) ==
    LET stop(i, v) == BadElem(e.opt, i, v)
        rs == Executed(e.args, env, stop)
    IN Result(ListOf(e.opt, Values(rs)), Merge(rs))

Local(env, x, r) == [env EXCEPT !.locals = (x :> r) @@ @]

\* The accumulator is initialised, outside the scope of the loop, when it is first used:
\* reading it records the state of its initialiser.
Loop(e, env, xs, accu, st) ==
    LET scope == Local(env, "@result", accu)
        final == Exec(e.args[5], scope)
    IN IF xs = <<>> THEN Result(final.v, final.st @@ st)
       ELSE LET inner == Local(scope, e.iter, Result(Head(xs), Nothing))
                c == Exec(e.args[3], inner)
                s == Exec(e.args[4], inner)
            IN IF ~env.exhaustive /\ c.v = Err THEN Result(Err, c.st @@ st)
               ELSE IF ~env.exhaustive /\ c.v # True THEN Result(final.v, final.st @@ c.st @@ st)
               ELSE Loop(e, env, Tail(xs), Result(s.v, Nothing), s.st @@ c.st @@ st)

RunFold(e, env) ==
    LET range == Exec(e.args[1], env) IN
    IF ~Final(range.v) THEN range
    ELSE IF ~Is("list", range.v) THEN Result(Err, range.st)
    ELSE Loop(e, env, range.v.list, Exec(e.args[2], env), range.st)

\* Qualifiers are applied one after the other; each one's value is observed.
ApplyQuals(v, quals, env, st) ==
    IF quals = <<>> \/ v = Err THEN Result(v, st)
    ELSE LET q == Head(quals)
             k == KeyOf(q.key, env)
             w == IF k.v = Err THEN Err ELSE IF q.test THEN Present(v, k.v) ELSE Qualify(v, k.v)
         IN ApplyQuals(w, Tail(quals), env, (q.id :> w) @@ k.st @@ st)

\* A variable: unknown patterns come first, unless the name is local to a comprehension.
ResolveVariable(x, quals, env) ==
    LET local == x \in DOMAIN env.locals
        pats  == IF local THEN {} ELSE {p \in env.unknown : p.var = x}
        keys  == [i \in DOMAIN quals |-> KeyOf(quals[i].key, env)]
        found == IF local THEN env.locals[x]
                 ELSE IF x \in DOMAIN env.vars THEN Result(env.vars[x], Nothing)
                 ELSE Result(Err, Nothing)
    IN IF pats # {} /\ Err \in ToSet(Values(keys)) THEN Result(Err, Merge(keys))
       ELSE IF \E p \in pats : Matches(p, x, Values(keys)) THEN Result(Unk, Merge(keys))
       ELSE IF found.v = Unk THEN found
       ELSE ApplyQuals(found.v, quals, env, found.st)

\* Resolve an attribute: a variable, a conditional, or any other expression, qualified.
ResolveAttr(base, quals, env) ==
    IF base.op = "ident" THEN ResolveVariable(base.name, quals, env)
    ELSE IF quals # <<>> /\ IsAttr(base, env)
    THEN LET c == Exec(base.args[1], env)
             b == base.args[IF c.v = True THEN 2 ELSE 3]
             r == IF IsAttr(b, env) THEN ResolveAttr(Base(b), Quals(b) \o quals, env)
                  ELSE LET o == Exec(b, env) IN
                       IF o.v = Unk THEN o ELSE ApplyQuals(o.v, quals, env, o.st)
         IN IF Is("bool", c.v) THEN Result(r.v, r.st @@ c.st)
            ELSE Result(IF Final(c.v) THEN Err ELSE c.v, c.st)
    ELSE LET o == IF IsAttr(base, env) THEN Run(base, env) ELSE Exec(base, env) IN
         IF o.v = Unk THEN o ELSE ApplyQuals(o.v, quals, env, o.st)

\* What the node computes, ...
Run(e, env) ==
    CASE e.op = "lit"  -> Result(e.val, Nothing)
      [] e.op = "call" -> RunCall(e, env)
      [] e.op = "list" -> RunList(e, env)
      [] e.op = "fold" -> RunFold(e, env)
      [] e.op = "bind" -> Exec(e.args[2], Local(env, e.iter, Exec(e.args[1], env)))
      [] OTHER         -> ResolveAttr(Base(e), Quals(e), env)

\* ... and its observation.
Exec(e, env) == LET r == Run(e, env) IN Result(r.v, (e.id :> r.v) @@ r.st)
=============================================================================
