----------------------------- MODULE CostTracker -----------------------------
(***************************************************************************)
(* What an expression is charged while it is evaluated (interpreter/       *)
(* interpretable.go, attributes.go and common/cost/tracker.go). An         *)
(* environment has the sizing strategy, the values of the variables, those *)
(* that are bound, and the outcome of all tests on contents.               *)
(***************************************************************************)
EXTENDS CostModel
LOCAL INSTANCE Folds
LOCAL INSTANCE SequencesExt

(***************************************************************************)
(* Outcomes: the value, the charges, those that come before the one of the *)
(* attribute itself, whether the expression is an attribute and what it    *)
(* starts from, and the bound variables that were read.                    *)
(***************************************************************************)
Outcome(v, cost, bare, root, reads) ==
  [v |-> v, cost |-> cost, bare |-> bare, root |-> root, reads |-> reads]
Computed(v, cost, reads) == Outcome(v, cost, cost, "none", reads)
\* An attribute is charged when it is resolved, other than a conditional.
Resolved(v, bare, root, reads) ==
  Outcome(v, bare + (IF root = "cond" THEN 0 ELSE 1), bare, root, reads)
IsAttribute(o) == o.root # "none"
Failed(o) == o.v = ErrV
Holds(o) == o.v = True
\* The charges of an operand that is resolved as part of another attribute.
Embedded(o) == IF IsAttribute(o) THEN o.bare ELSE o.cost

-----------------------------------------------------------------------------
(* Values.                                                                 *)

Position == [a |-> 1, b |-> 2]      \* where the fields of a map are
FieldOf(m, name) ==
  IF m.kind = "map" /\ Position[name] \in DOMAIN m.items THEN <<m.items[Position[name]]>> ELSE <<>>
\* An index into a list, and the lookup of a key whose text is not known.
ItemOf(c, key, verdict) ==
  IF c.kind = "list" THEN IF key.n + 1 \in DOMAIN c.items THEN <<c.items[key.n + 1]>> ELSE <<>>
  ELSE IF verdict /\ c.kind = "map" /\ c.items # <<>> THEN <<c.items[1]>> ELSE <<>>

\* Elements are appended in place to the list that a loop accumulates, other lists are joined.
Join(a, b, inPlace) ==
  IF a.items = <<>> /\ ~inPlace THEN b ELSE IF b.items = <<>> THEN a
  ELSE [a EXCEPT !.items = @ \o b.items, !.joins = IF inPlace THEN @ ELSE @ + b.joins + 1]

IsZero(v) ==
  CASE v.kind \in {"string", "bytes"} -> v.b = 0
    [] v.kind \in Containers -> v.items = <<>>
    [] v.kind \in Scalars    -> v.n = 0
    [] OTHER -> FALSE

Apply(e, vs, verdict) ==
  CASE e.name = "not"        -> BoolV(vs[1] # True)
    [] e.name = "size"       -> IntV(LengthOf(vs[1]))
    [] e.name = "bytes"      -> Value("bytes", vs[1].n, vs[1].b, <<>>, <<>>, 0)
    [] e.name = "string"     -> StringV(vs[1].n, vs[1].b)
    [] e.name = "add_string" -> StringV(vs[1].n + vs[2].n, vs[1].b + vs[2].b)
    [] e.name = "add_bytes"  -> Value("bytes", vs[1].n + vs[2].n, vs[1].b + vs[2].b, <<>>, <<>>, 0)
    [] e.name = "add_list"   -> Join(vs[1], vs[2], e.args[1].op = "var" /\ e.args[1].name = Accumulator)
    [] e.name = "none"       -> NoneV
    [] e.name = "of"         -> SomeV(vs[1])
    [] e.name = "ofNonZeroValue" -> IF IsZero(vs[1]) THEN NoneV ELSE SomeV(vs[1])
    [] e.name = "value"      -> IF vs[1].items = <<>> THEN ErrV ELSE vs[1].items[1]
    [] OTHER                 -> BoolV(verdict)

-----------------------------------------------------------------------------
(* Calls.                                                                  *)

CallOf(e, vs, strategy) ==
  LET member == e.name \in Members
  IN [strategy |-> strategy, target |-> IF member THEN vs[1] ELSE ErrV,
      args |-> IF member THEN Tail(vs) ELSE vs]

ReadsOf(kids, n) == UNION {kids[i].reads : i \in 1 .. n}
SumTo(kids, n) == FoldLeft(LAMBDA sum, o : sum + o.cost, 0, SubSeq(kids, 1, n))

\* Operands are evaluated up to the first that fails, and the operation is charged if none
\* does: equality and negation are even then.
Strict(kids, v, own, ownIfFailed) ==
  LET bad == {i \in DOMAIN kids : Failed(kids[i])}
      n   == IF bad = {} THEN Len(kids) ELSE CHOOSE i \in bad : \A j \in bad : i <= j
  IN IF bad = {} THEN Computed(v, SumTo(kids, n) + own, ReadsOf(kids, n))
     ELSE Computed(ErrV, SumTo(kids, n) + ownIfFailed, ReadsOf(kids, n))

\* An operand qualified by a name or by what another expression comes to. A qualifier of
\* something that failed, or of an empty optional, is not reached.
Qualified(o, found, optional, test, key) ==
  LET reached == ~Failed(o) /\ o.v # NoneV
      bare  == Embedded(o) + (IF reached THEN 1 + Embedded(key) ELSE 0)
      reads == o.reads \union (IF reached THEN key.reads ELSE {})
      v == IF ~reached THEN o.v
           ELSE IF Failed(key) THEN ErrV
           ELSE IF test THEN BoolV(found # <<>>)
           ELSE IF optional THEN IF found = <<>> THEN NoneV ELSE SomeV(found[1])
           ELSE IF found = <<>> THEN ErrV ELSE found[1]
      \* a presence test charges the attribute whatever it starts from
      outcome == Resolved(v, bare, IF IsAttribute(o) THEN o.root ELSE "rel", reads)
  IN IF test THEN [outcome EXCEPT !.cost = bare + 1] ELSE outcome

Nowhere == Computed(True, 0, {})
Indexed(e, kids, verdict) ==
  Qualified(kids[1], ItemOf(kids[1].v, kids[2].v, verdict), e.name = "optindex", FALSE, kids[2])

\* The first operand, and the second when the first leaves it open.
Branches(first, open, rest, v) ==
  IF open THEN Computed(v, first.cost + rest.cost, first.reads \union rest.reads)
  ELSE Computed(first.v, first.cost, first.reads)
Both(a, b, decides) ==
  IF a.v = decides \/ b.v = decides THEN decides
  ELSE IF Failed(a) \/ Failed(b) THEN ErrV ELSE a.v

Conditional(c, branch) ==
  IF Failed(c) THEN Resolved(ErrV, c.cost, "cond", c.reads)
  ELSE Resolved(branch.v, c.cost + Embedded(branch), "cond", c.reads \union branch.reads)

TrackedCall(e, kids, env) ==
  LET own == TrackCall(e.name, CallOf(e, [i \in DOMAIN kids |-> kids[i].v], env.strategy))
      v   == Apply(e, [i \in DOMAIN kids |-> kids[i].v], env.verdict)
  IN CASE e.name \in {"index", "optindex"} -> Indexed(e, kids, env.verdict)
       [] e.name = "optselect" ->
            Qualified(kids[1], FieldOf(kids[1].v, e.args[2].name), TRUE, FALSE, Nowhere)
       [] e.name = "conditional" ->
            Conditional(kids[1], IF Holds(kids[1]) THEN kids[2] ELSE kids[3])
       [] e.name = "logical_and" ->
            Branches(kids[1], kids[1].v # BoolV(FALSE), kids[2], Both(kids[1], kids[2], BoolV(FALSE)))
       [] e.name = "logical_or" ->
            Branches(kids[1], kids[1].v # True, kids[2], Both(kids[1], kids[2], True))
       [] e.name = "or" -> Branches(kids[1], kids[1].v = NoneV, kids[2], kids[2].v)
       [] e.name = "orValue" ->
            LET o == Branches(kids[1], kids[1].v = NoneV, kids[2], kids[2].v)
            IN IF kids[1].v = NoneV \/ Failed(kids[1]) THEN o ELSE [o EXCEPT !.v = kids[1].v.items[1]]
       [] e.name = "not_strictly_false" ->
            Computed(BoolV(kids[1].v # BoolV(FALSE)), kids[1].cost + 1, kids[1].reads)
       [] OTHER -> Strict(kids, v, own, IF e.name \in {"equals", "not"} THEN 1 ELSE 0)

-----------------------------------------------------------------------------
(* Bound variables are given their value when they are first read, and     *)
(* what that costs is charged then.                                        *)

Holding(env, name, v) == [env EXCEPT !.locals = (name :> v) @@ @]
Lazily(name, init, o) ==
  IF name \in o.reads
  THEN Computed(o.v, o.cost + init.cost, (o.reads \ {name}) \union init.reads)
  ELSE Computed(o.v, o.cost, o.reads)

(***************************************************************************)
(* A loop goes on while its condition holds, and fails with a condition    *)
(* that does. A step sets the accumulator, so that only what comes before  *)
(* the end of the first can read its initial value.                        *)
(***************************************************************************)
LoopVars(e, range, i) ==
  LET key == IF range.kind = "map" THEN range.keys[i] ELSE IntV(i - 1)
  IN IF Len(e.vars) = 2 THEN (e.vars[1] :> key) @@ (e.vars[2] :> range.items[i])
     ELSE e.vars[1] :> (IF range.kind = "map" THEN key ELSE range.items[i])
Started(init) ==
  [accu |-> init.v, cost |-> 0, reads |-> {}, fresh |-> TRUE, going |-> TRUE, failed |-> FALSE]
Stepped(loop, cond, step, init, name) ==
  LET first(o) == IF loop.fresh THEN Lazily(name, init, o) ELSE o
      \* read by the condition, the initial value is there when the step reads it
      c == first(cond)
      s == IF name \in cond.reads THEN step ELSE first(step)
      went == Holds(cond)
  IN [accu  |-> IF went THEN step.v ELSE loop.accu,
      cost  |-> loop.cost + c.cost + (IF went THEN s.cost ELSE 0),
      reads |-> loop.reads \union c.reads \union (IF went THEN s.reads ELSE {}),
      fresh |-> loop.fresh /\ ~went /\ name \notin cond.reads,
      going |-> went, failed |-> Failed(cond)]
Finished(range, loop, result, init, name) ==
  LET r == IF loop.fresh THEN Lazily(name, init, result) ELSE result
  IN IF Failed(range) THEN Computed(ErrV, range.cost, range.reads)
     ELSE IF loop.failed THEN Computed(ErrV, range.cost + loop.cost,
                                       (range.reads \union loop.reads) \ {name})
     ELSE Computed(r.v, range.cost + loop.cost + r.cost,
                   (range.reads \union loop.reads \union r.reads) \ {name})

Tracked(e, kids, env) ==
  LET local == e.name \in DOMAIN env.locals
      created == IF e.op = "list" THEN 10 ELSE 30
      vs == [i \in DOMAIN kids |-> kids[i].v]
      every(odd) == SelectSeq([i \in DOMAIN vs |-> <<i, vs[i]>>], LAMBDA p : p[1] % 2 = odd)
      seconds(ps) == [i \in DOMAIN ps |-> ps[i][2]]
  IN CASE e.op = "lit"    -> Computed(e.val, 0, {})
       [] e.op = "var"    -> Resolved(IF local THEN env.locals[e.name] ELSE env.vars[e.name], 0, "var",
                                      IF local THEN {e.name} ELSE {})
       [] e.op = "select" -> Qualified(kids[1], FieldOf(kids[1].v, e.name), FALSE, FALSE, Nowhere)
       [] e.op = "has"    -> Qualified(kids[1], FieldOf(kids[1].v, e.name), FALSE, TRUE, Nowhere)
       [] e.op = "call"   -> TrackedCall(e, kids, env)
       [] e.op = "list"   -> Strict(kids, ListV(vs), created, 0)
       [] e.op = "map"    -> Strict(kids, MapV(seconds(every(1)), seconds(every(0))), created, 0)

RECURSIVE Track(_, _)
Track(e, env) ==
  LET kid(i, scope) == Track(e.args[i], scope)
      range == kid(1, env)
      init  == kid(2, env)
      iterate(loop, i) ==
        LET scope == [env EXCEPT !.locals =
                        LoopVars(e, range.v, i) @@ (e.name :> loop.accu) @@ @]
        IN IF loop.going THEN Stepped(loop, kid(3, scope), kid(4, scope), init, e.name) ELSE loop
      loop == FoldLeft(iterate, Started(init), [i \in DOMAIN range.v.items |-> i])
  IN CASE e.op = "bind" -> Lazily(e.name, range, kid(2, Holding(env, e.name, range.v)))
       [] e.op = "fold" -> Finished(range, loop, kid(5, Holding(env, e.name, loop.accu)), init, e.name)
       [] OTHER -> Tracked(e, [i \in DOMAIN e.args |-> kid(i, env)], env)
=============================================================================
