---------------------------- MODULE Accumulators ----------------------------
(***************************************************************************)
(* Lists on the heap and the comprehensions that build them                *)
(* (common/types/list.go, interpreter/interpretable.go, planner.go).  The  *)
(* accumulator of a comprehension of the standard shape is a mutable list, *)
(* to which each turn appends in place, and whose buffer becomes the       *)
(* result.  Everything else on the heap must never change.                 *)
(***************************************************************************)
EXTENDS Integers, Sequences, SequencesExt

\* A value is a number, or a reference to a list of the heap; an expression is a
\* record of a kind and of its arguments.
Num(n) == [ref |-> 0, n |-> n]
Ref(a) == [ref |-> a, n |-> 0]

Slice(elems)       == [kind |-> "slice", elems |-> elems, prev |-> Num(0), next |-> Num(0)]
MutableList(elems) == [kind |-> "mutable", elems |-> elems, prev |-> Num(0), next |-> Num(0)]
ConcatList(p, q)   == [kind |-> "concat", elems |-> <<>>, prev |-> p, next |-> q]

\* The elements of a list, through the lists it is a concatenation of.
RECURSIVE Elems(_, _)
Elems(heap, v) ==
    LET l == heap[v.ref]
    IN IF l.kind = "concat" THEN Elems(heap, l.prev) \o Elems(heap, l.next) ELSE l.elems

Size(heap, v) == Len(Elems(heap, v))

\* A value together with the heap it is on.
On(heap, v) == [heap |-> heap, v |-> v]
New(heap, list) == On(Append(heap, list), Ref(Len(heap) + 1))

NewConcatList(heap, p, q) ==
    IF Size(heap, p) = 0 THEN On(heap, q)
    ELSE IF Size(heap, q) = 0 THEN On(heap, p) ELSE New(heap, ConcatList(p, q))
AddInto(heap, p, q) ==
    IF heap[p.ref].kind = "mutable"
    THEN On([heap EXCEPT ![p.ref].elems = @ \o Elems(heap, q)], p)
    ELSE NewConcatList(heap, p, q)
ToImmutableList(heap, v) ==
    New([heap EXCEPT ![v.ref].elems = <<>>], Slice(heap[v.ref].elems))

-----------------------------------------------------------------------------
\* Expressions: fields a kind does not have are empty.
Expr(kind, names, args) == [kind |-> kind, names |-> names, args |-> args]
Ident(name)   == Expr("ident", <<name>>, <<>>)
List(args)    == Expr("list", <<>>, args)
Plus(e, f)    == Expr("add", <<>>, <<e, f>>)
Cond(c, e, f) == Expr("cond", <<>>, <<c, e, f>>)
Fold(accuVar, iterVar, range, init, step, result) ==
    Expr("fold", <<accuVar, iterVar>>, <<range, init, step, result>>)

\* Names that no source can spell begin with '@': the accumulators of the macros do.
Reserved == {"@result"}

IsAppend(e, accuVar) ==
    /\ e.kind = "add" /\ e.args[1] = Ident(accuVar)
    /\ e.args[2].kind = "list" /\ Len(e.args[2].args) = 1
IsOptimizableListAppend(e) ==
    /\ e.args[4] = Ident(e.names[1])
    /\ e.args[2] = List(<<>>)
    /\ IsAppend(IF e.args[3].kind = "cond" THEN e.args[3].args[2] ELSE e.args[3], e.names[1])

IsMutableAccuOfAnyName(e) == e.names[1] # e.names[2] /\ IsOptimizableListAppend(e)  \* mutated
IsMutableAccuSafe(e) ==
    /\ e.names[1] \in Reserved /\ e.names[1] # e.names[2]
    /\ IsOptimizableListAppend(e)

\* An evaluation: the heap, the folders of the comprehensions it is in, innermost
\* last, the variables, whether it is exhaustive, and the value it has come to.
Folder(e) ==
    [fold |-> e, accu |-> Num(0), iter |-> Num(0), initialized |-> FALSE, mutableValue |-> FALSE,
     computeResult |-> FALSE]
Top(s) == s.folders[Len(s.folders)]
SetTop(s, f) == [s EXCEPT !.folders[Len(s.folders)] = f]
Become(s, at) == [s EXCEPT !.heap = at.heap, !.v = at.v]

RECURSIVE Exec(_, _)

\* The values of es, in their order.
ExecAll(es, s) ==
    FoldLeft(LAMBDA r, e : LET t == Exec(e, r.s) IN [s |-> t, vs |-> Append(r.vs, t.v)],
             [s |-> s, vs |-> <<>>], es)

\* The first use of the accumulator evaluates its initial value, outside the loop.
Initialised(s, f) ==
    LET t == Exec(f.fold.args[2], s)
        mutable == IsMutableAccuSafe(f.fold) /\ ~s.exhaustive /\ Size(t.heap, t.v) = 0
        at == IF mutable THEN New(t.heap, MutableList(<<>>)) ELSE On(t.heap, t.v)
    IN Become([t EXCEPT !.folders = Append(@, [f EXCEPT !.initialized = TRUE, !.accu = at.v,
                                                        !.mutableValue = mutable])], at)
Declares(f, name) ==
    name = f.fold.names[1] \/ (~f.computeResult /\ name = f.fold.names[2])
ResolveName(name, s) ==
    LET scopes == {i \in DOMAIN s.folders : Declares(s.folders[i], name)}
        i == CHOOSE j \in scopes : \A k \in scopes : k <= j
        f == s.folders[i]
        inner == SubSeq(s.folders, i + 1, Len(s.folders))
        t == Initialised([s EXCEPT !.folders = SubSeq(@, 1, i - 1)], f)
    IN IF scopes = {} THEN [s EXCEPT !.v = s.vars[name]]
       ELSE IF name # f.fold.names[1] THEN [s EXCEPT !.v = f.iter]
       ELSE IF f.initialized THEN [s EXCEPT !.v = f.accu]
       ELSE [t EXCEPT !.folders = @ \o inner]

FoldEntry(s, elem) ==
    LET t == Exec(Top(s).fold.args[3], SetTop(s, [Top(s) EXCEPT !.iter = elem]))
    IN SetTop(t, [Top(t) EXCEPT !.accu = t.v, !.initialized = TRUE])
EvalResult(s) ==
    LET t == Exec(Top(s).fold.args[4], SetTop(s, [Top(s) EXCEPT !.computeResult = TRUE]))
    IN IF Top(t).mutableValue /\ t.heap[t.v.ref].kind = "mutable"
       THEN Become(t, ToImmutableList(t.heap, t.v)) ELSE t
ExecFold(e, s) ==
    LET t == EvalResult(FoldLeft(FoldEntry, [s EXCEPT !.folders = Append(@, Folder(e))],
                                 Elems(s.heap, s.v)))
    IN [t EXCEPT !.folders = Front(@)]

ExecCond(e, s) ==
    LET c == Exec(e.args[1], s)
        t == Exec(e.args[2], c)
        f == Exec(e.args[3], IF s.exhaustive THEN t ELSE c)
        holds == c.v.n % 2 = 1   \* a condition asks whether its operand is an odd number
    IN IF ~holds THEN f
       ELSE IF s.exhaustive THEN [f EXCEPT !.v = t.v] ELSE t

Exec(e, s) ==
    IF e.kind = "ident" THEN ResolveName(e.names[1], s)
    ELSE IF e.kind = "cond" THEN ExecCond(e, s)
    ELSE IF e.kind = "fold" THEN ExecFold(e, Exec(e.args[1], s))
    ELSE LET r == ExecAll(e.args, s)
         IN Become(r.s, IF e.kind = "list" THEN New(r.s.heap, Slice(r.vs))
                        ELSE AddInto(r.s.heap, r.vs[1], r.vs[2]))

-----------------------------------------------------------------------------
(* What the expressions mean, where lists are values.                      *)

NumberD(n) == [n |-> n, elems |-> <<>>]
ListD(elems) == [n |-> -2, elems |-> elems]

\* The value that a reference stands for, to a depth no value of the runs has.
RECURSIVE Denote(_, _, _)
Denote(heap, v, depth) ==
    IF v.ref = 0 THEN NumberD(v.n)
    ELSE IF depth = 0 THEN NumberD(-4)
    ELSE ListD([i \in DOMAIN Elems(heap, v) |-> Denote(heap, Elems(heap, v)[i], depth - 1)])

Bind(env, name, d) == [x \in DOMAIN env \union {name} |-> IF x = name THEN d ELSE env[x]]
RECURSIVE Meaning(_, _)
Meaning(e, env) ==
    IF e.kind = "ident" THEN env[e.names[1]]
    ELSE IF e.kind = "list" THEN ListD([i \in DOMAIN e.args |-> Meaning(e.args[i], env)])
    ELSE IF e.kind = "add"
         THEN ListD(Meaning(e.args[1], env).elems \o Meaning(e.args[2], env).elems)
    ELSE IF e.kind = "cond"
         THEN Meaning(e.args[IF Meaning(e.args[1], env).n % 2 = 1 THEN 2 ELSE 3], env)
    ELSE LET turn(accu, x) ==
                 Meaning(e.args[3], Bind(Bind(env, e.names[2], x), e.names[1], accu))
             accumulated == FoldLeft(turn, Meaning(e.args[2], env), Meaning(e.args[1], env).elems)
         IN Meaning(e.args[4], Bind(env, e.names[1], accumulated))
=============================================================================
