----------------------------- MODULE CostModel -----------------------------
(***************************************************************************)
(* What calls cost and how large their results are: the quantities of      *)
(* common/cost/model.go over the operands of a call, estimated from the    *)
(* sizes the operands may have and tracked from the values they have, and  *)
(* the models of the standard functions (standard.go).                     *)
(***************************************************************************)
EXTENDS CostAlgebra, Sequences, FiniteSets
LOCAL INSTANCE SequencesExt

(***************************************************************************)
(* Values. Of a string only its code points (n) and bytes (b) matter; a    *)
(* boolean or an integer is in n; joins counts the concatenations that a   *)
(* list was made by.                                                       *)
(***************************************************************************)
Value(kind, n, b, keys, items, joins) ==
  [kind |-> kind, n |-> n, b |-> b, keys |-> keys, items |-> items, joins |-> joins]
StringV(n, b)     == Value("string", n, b, <<>>, <<>>, 0)
BytesV(n)         == Value("bytes", n, n, <<>>, <<>>, 0)
IntV(i)           == Value("int", i, 0, <<>>, <<>>, 0)
BoolV(x)          == Value("bool", IF x THEN 1 ELSE 0, 0, <<>>, <<>>, 0)
ListV(items)      == Value("list", 0, 0, <<>>, items, 0)
MapV(keys, items) == Value("map", 0, 0, keys, items, 0)
SomeV(v)          == Value("opt", 1, 0, <<>>, <<v>>, 0)
NoneV             == Value("opt", 0, 0, <<>>, <<>>, 0)
ErrV              == Value("err", 0, 0, <<>>, <<>>, 0)
True == BoolV(TRUE)

\* The size of a value to the default strategy: the length of a string in code points,
\* the number of elements or entries, an optional one more than what it holds.
RECURSIVE LengthOf(_)
LengthOf(v) ==
  CASE v.kind = "string" -> v.n
    [] v.kind = "bytes"  -> v.b
    [] v.kind \in {"list", "map"} -> Len(v.items)
    [] v.kind = "opt" /\ v.items # <<>> -> 1 + LengthOf(v.items[1])
    [] OTHER -> 1

\* The size to the aggregate strategy: all of what a value holds.
RECURSIVE AggregateOf(_)
AggregateOf(v) ==
  LET all(vs) == FoldLeft(LAMBDA sum, x : sum + AggregateOf(x), 0, vs)
  IN IF v.kind \in {"string", "bytes"} THEN Most(1, v.b)
     ELSE 1 + v.joins + all(v.items \o v.keys)

SizeOf(strategy, v) == IF strategy = "default" THEN LengthOf(v) ELSE AggregateOf(v)

(***************************************************************************)
(* Size estimates: a range for the value, and where they are known one for *)
(* its keys and one for its elements, values or content.                   *)
(***************************************************************************)
Sized(s, key, elem) == [min |-> s.min, max |-> s.max, key |-> key, elem |-> elem]
Plain(lo, hi) == Sized(Span(lo, hi), <<>>, <<>>)
Unknown == Plain(0, Top)
OrUnknown(size) == IF size = <<>> THEN Unknown ELSE size[1]

RECURSIVE UnionSize(_, _)
MergePart(a, b) ==
  IF a = <<>> THEN b ELSE IF b = <<>> THEN a ELSE <<UnionSize(a[1], b[1])>>
UnionSize(a, b) ==
  Sized(UnionSpan(a, b), MergePart(a.key, b.key), MergePart(a.elem, b.elem))

AtLeastOneSize(s) ==
  [s EXCEPT !.min = Most(s.min, 1), !.max = Most(s.max, 1)]

\* The number of entries of a container of a size, and the size of one of n entries. To the
\* aggregate strategy the largest entry bounds their number from below.
EntrySize(s) ==
  LET elem == IF s.elem = <<>> THEN Plain(1, Top) ELSE AtLeastOneSize(s.elem[1])
  IN IF s.key = <<>> THEN elem ELSE AddSpan(AtLeastOneSize(s.key[1]), elem)
CountBounds(strategy, s) ==
  LET largest == EntrySize(s).max
      count   == IF s.min > 1 /\ largest # Top
                 THEN (s.min - 1 + largest - 1) \div largest ELSE 0
  IN IF strategy = "default" THEN Span(s.min, s.max) ELSE Span(Least(count, s.max), s.max)
ContainerSpan(strategy, n, entry) ==
  IF strategy = "default" THEN Span(n.min, n.max)
  ELSE AddSpan(Exactly(1), MultiplySpan(n, AtLeastOneSize(entry)))

OptionalSize(s) == Sized(AddSpan(Exactly(1), s), <<>>, <<s>>)

(***************************************************************************)
(* Quantities.                                                             *)
(***************************************************************************)
Quantity(q, of, n, p, d) == [q |-> q, of |-> of, n |-> n, p |-> p, d |-> d]
Const(n)       == Quantity("const", <<>>, n, 1, 1)
Arg(i)         == Quantity("arg", <<>>, i, 1, 1)
Target         == Quantity("target", <<>>, 0, 1, 1)
ElemOf(x)      == Quantity("elem", <<x>>, 0, 1, 1)
SumOf(x, y)    == Quantity("sum", <<x, y>>, 0, 1, 1)
MulOf(x, y)    == Quantity("mul", <<x, y>>, 0, 1, 1)
ScaleOf(x, p, d) == Quantity("scale", <<x>>, 0, p, d)
MinOf(x, y)    == Quantity("min", <<x, y>>, 0, 1, 1)
UnionOf(x, y)  == Quantity("union", <<x, y>>, 0, 1, 1)
RangedOf(x, y) == Quantity("ranged", <<x, y>>, 0, 1, 1)
AtMostOf(x)    == RangedOf(Const(0), x)
OptionalOf(x)  == Quantity("optional", <<x>>, 0, 1, 1)

\* A product of scaled quantities is rounded once: the factors are moved out of it.
RECURSIVE Normalize(_)
Normalize(x) ==
  LET of == [i \in DOMAIN x.of |-> Normalize(x.of[i])]
      inner == [i \in DOMAIN of |-> IF of[i].q = "scale" THEN of[i].of[1] ELSE of[i]]
      p == FoldLeft(LAMBDA m, y : IF y.q = "scale" THEN m * y.p ELSE m, x.p, of)
      d == FoldLeft(LAMBDA m, y : IF y.q = "scale" THEN m * y.d ELSE m, x.d, of)
      scaled == \E i \in DOMAIN of : of[i].q = "scale"
  IN IF x.q = "scale" THEN ScaleOf(inner[1], p, d)
     ELSE IF x.q = "mul" /\ scaled THEN ScaleOf([x EXCEPT !.of = inner], p, d)
     ELSE [x EXCEPT !.of = of]

\* Whether what a quantity measures may be a container: the size of a string says nothing
\* of elements, a list of which nothing is known may have any.
HoldsElements(type) == type \notin {"string", "bytes", "int", "bool"}
RECURSIVE Carries(_, _)
Carries(x, c) ==
  CASE x.q = "arg"    -> HoldsElements(c.args[x.n + 1].holds)
    [] x.q = "target" -> HoldsElements(c.target.holds)
    [] x.q \in {"elem", "optional"} -> TRUE
    [] OTHER -> \E i \in DOMAIN x.of : Carries(x.of[i], c)

\* mutated: operands that state no parts add nothing to them.
CombineStatedParts(span, x, sizes, c) ==
  LET merged(part(_)) == FoldLeft(MergePart, <<>>, [i \in DOMAIN sizes |-> part(sizes[i])])
  IN Sized(span, merged(LAMBDA s : s.key), merged(LAMBDA s : s.elem))

(***************************************************************************)
(* The parts of a combined size: an operand that may hold elements of      *)
(* which nothing is known makes the parts unknown, one that cannot leaves  *)
(* them to the others.                                                     *)
(***************************************************************************)
CombineParts(span, x, sizes, c) ==
  LET holds(s)   == IF c.strategy = "default" THEN s.max > 0 ELSE s.max > 1
      silent(i)  == holds(sizes[i]) /\ sizes[i].key = <<>> /\ sizes[i].elem = <<>>
                      /\ Carries(x.of[i], c)
      elemOf(i)  == IF sizes[i].elem = <<>> /\ (silent(i) \/ (sizes[i].key # <<>> /\ holds(sizes[i])))
                    THEN <<Unknown>> ELSE sizes[i].elem
      keyOf(i)   == IF silent(i) THEN <<Unknown>> ELSE sizes[i].key
      merged(part(_)) == FoldLeft(MergePart, <<>>, [i \in DOMAIN sizes |-> part(i)])
      anyElem == \E i \in DOMAIN sizes : sizes[i].elem # <<>>
      anyKey  == \E i \in DOMAIN sizes : sizes[i].key # <<>>
  IN Sized(span, IF anyKey THEN merged(keyOf) ELSE <<>>, IF anyElem THEN merged(elemOf) ELSE <<>>)

\* The estimate of a quantity, from the sizes that the operands of a call may have.
RECURSIVE EstimateOf(_, _)
EstimateOf(x, c) ==
  LET of == [i \in DOMAIN x.of |-> EstimateOf(x.of[i], c)]
  IN CASE x.q = "const"  -> Plain(x.n, x.n)
       [] x.q = "arg"    -> OrUnknown(c.args[x.n + 1].size)
       [] x.q = "target" -> OrUnknown(c.target.size)
       [] x.q = "elem"   -> OrUnknown(of[1].elem)
       [] x.q = "scale"  -> Sized(ScaleSpan(of[1], x.p, x.d), of[1].key, of[1].elem)
       [] x.q = "optional" -> OptionalSize(of[1])
       [] x.q = "sum"    -> CombineParts(AddSpan(of[1], of[2]), x, of, c)
       [] x.q = "mul"    -> CombineParts(MultiplySpan(of[1], of[2]), x, of, c)
       [] x.q = "min"    -> CombineParts(MinSpan(of[1], of[2]), x, of, c)
       [] x.q = "union"  -> CombineParts(UnionSpan(of[1], of[2]), x, of, c)
       [] x.q = "ranged" -> CombineParts(RangedSpan(of[1], of[2]), x, of, c)

\* The same quantity of the values of a call. The largest element stands for the elements.
RECURSIVE TrackOf(_, _)
TrackOf(x, c) ==
  LET of == [i \in DOMAIN x.of |-> TrackOf(x.of[i], c)]
      value == IF x.q = "arg" THEN c.args[x.n + 1] ELSE c.target
  IN CASE x.q = "const"  -> x.n
       [] x.q \in {"arg", "target"} -> SizeOf(c.strategy, value)
       [] x.q = "scale"  -> Scaled(of[1], x.p, x.d)
       [] x.q = "sum"    -> SafeAdd(of[1], of[2])
       [] x.q = "mul"    -> SafeMultiply(of[1], of[2])
       [] x.q = "min"    -> Least(of[1], of[2])

(***************************************************************************)
(* The models of the standard functions, by the overload of a call: what   *)
(* it costs, how large its result is, and whether it costs nothing beyond  *)
(* its arguments.                                                          *)
(***************************************************************************)
Model(cost, size) == [cost |-> cost, size |-> size, free |-> FALSE]
Free(size) == [cost |-> Const(0), size |-> size, free |-> TRUE]

Models ==
  LET tenth(x) == ScaleOf(x, 1, 10)
      scan == Model(tenth(MinOf(Arg(0), Arg(1))), <<>>)
      affix == Model(tenth(MinOf(Target, Arg(0))), <<>>)
      join == SumOf(Arg(0), Arg(1))
  IN [index      |-> Model(Const(1), <<ElemOf(Arg(0))>>),
      startsWith |-> affix,
      endsWith   |-> affix,
      bytes      |-> Model(tenth(Arg(0)), <<RangedOf(Arg(0), ScaleOf(Arg(0), 4, 1))>>),
      string     |-> Model(tenth(Arg(0)), <<RangedOf(ScaleOf(Arg(0), 1, 4), Arg(0))>>),
      in_list    |-> Model(Arg(1), <<>>),
      or         |-> Free(<<UnionOf(Target, Arg(0))>>),
      orValue    |-> Free(<<UnionOf(ElemOf(Target), Arg(0))>>),
      none       |-> Model(Const(1), <<OptionalOf(Const(0))>>),
      of         |-> Model(Const(1), <<OptionalOf(Arg(0))>>),
      ofNonZeroValue |-> Model(Const(1), <<OptionalOf(AtMostOf(Arg(0)))>>),
      value      |-> Model(Const(1), <<ElemOf(Target)>>),
      less       |-> scan,
      equals     |-> scan,
      add_string |-> Model(tenth(join), <<join>>),
      add_bytes  |-> Model(tenth(join), <<join>>),
      add_list   |-> Model(Const(1), <<join>>),
      matches    |-> Model(MulOf(tenth(SumOf(Target, Const(1))), ScaleOf(Arg(0), 1, 4)), <<>>),
      contains   |-> Model(MulOf(tenth(Target), tenth(Arg(0))), <<>>),
      logical_and |-> Free(<<>>),
      logical_or |-> Free(<<>>),
      conditional |-> Free(<<UnionOf(Arg(1), Arg(2))>>)]

MinCallCost == 1
Floor(m, cost) == IF m.free THEN cost ELSE Most(cost, MinCallCost)

\* A call costs at least one, and in the aggregate no result is smaller than one. A call
\* that has no model costs one.
EstimateCall(f, c) ==
  IF f \notin DOMAIN Models THEN [cost |-> Exactly(1), size |-> <<>>]
  ELSE LET m == Models[f]
           cost == EstimateOf(Normalize(m.cost), c)
           size == EstimateOf(Normalize(m.size[1]), c)
       IN [cost |-> Span(Floor(m, cost.min), Floor(m, cost.max)),
           size |-> IF m.size = <<>> THEN <<>>
                    ELSE IF c.strategy = "aggregate" /\ size.max = 0
                         THEN <<[size EXCEPT !.max = 1]>> ELSE <<size>>]
TrackCall(f, c) ==
  IF f \notin DOMAIN Models THEN 1 ELSE Floor(Models[f], TrackOf(Normalize(Models[f].cost), c))

-----------------------------------------------------------------------------
(***************************************************************************)
(* Checked expressions as the cost of a program sees them. The overload of *)
(* a call is its name, the receiver of a member call its first argument.   *)
(* Types are sequences, <<"list", "string">>: a map is of strings to what  *)
(* follows.                                                                *)
(***************************************************************************)
Inside(type) == Tail(type)
Containers == {"list", "map"}
Scalars == {"bool", "int"}

Expr(op, name, args, type) ==
  [op |-> op, name |-> name, args |-> args, type |-> type, val |-> ErrV, vars |-> <<>>]
Lit(v)               == [Expr("lit", "", <<>>, <<v.kind>>) EXCEPT !.val = v]
Var(name, type)      == Expr("var", name, <<>>, type)
Select(e, field)     == Expr("select", field, <<e>>, Inside(e.type))
Has(e, field)        == Expr("has", field, <<e>>, <<"bool">>)
Call(f, args, type)  == Expr("call", f, args, type)
List(args)           == Expr("list", "", args, <<"list">> \o args[1].type)
Nothing(type)        == Expr("list", "", <<>>, type)
Entries(args)        == Expr("map", "", args, <<"map">> \o args[2].type)
Bind(name, init, result) == Expr("bind", name, <<init, result>>, result.type)
\* range.fold(vars, condition, step) from init to result, in the accumulator
Accumulator == "@result"
Fold(vars, range, init, cond, step, result) ==
  [Expr("fold", Accumulator, <<range, init, cond, step, result>>, result.type)
     EXCEPT !.vars = vars]

Members == {"startsWith", "endsWith", "contains", "matches", "or", "orValue", "value"}
Lazy == {"logical_and", "logical_or", "conditional", "or", "orValue"}
IndexLike == {"index", "optindex", "optselect"}
IsCall(e, f) == e.op = "call" /\ e.name = f

(***************************************************************************)
(* Expressions that are resolved as one attribute: a variable, the result  *)
(* of a conditional, or what they are qualified by.                        *)
(***************************************************************************)
IsAttributeChain(e) ==
  e.op \in {"var", "select", "has"} \/ (e.op = "call" /\ e.name \in IndexLike \union {"conditional"})

RECURSIVE AttributeChainRoot(_)
AttributeChainRoot(e) ==
  IF e.op = "select" \/ (e.op = "call" /\ e.name \in IndexLike)
  THEN AttributeChainRoot(e.args[1]) ELSE e

\* Whether every evaluation of an expression reads a variable.
RECURSIVE MustReadVar(_, _)
MustReadVar(e, name) ==
  LET reads(i) == MustReadVar(e.args[i], name)
  IN CASE e.op = "var"  -> e.name = name
       [] e.op = "bind" -> \/ e.name # name /\ reads(2)
                           \/ MustReadVar(e.args[2], e.name) /\ reads(1)
       [] e.op = "fold" -> reads(1) \/ reads(2)
       [] e.op = "call" /\ e.name \in Lazy -> reads(1)
       [] OTHER -> \E i \in DOMAIN e.args : reads(i)
============================================================================
