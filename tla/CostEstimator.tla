---------------------------- MODULE CostEstimator ----------------------------
(***************************************************************************)
(* The estimate of what a checked expression costs (common/cost/           *)
(* estimator.go): a range for the cost of every subexpression, the path    *)
(* from a variable to what it denotes, and a range for its size, which is  *)
(* found among the hints of the host by that path or else by the type.     *)
(* An environment has the sizing strategy, the hints, and the variables    *)
(* that are bound.                                                         *)
(***************************************************************************)
EXTENDS CostModel
LOCAL INSTANCE Folds
LOCAL INSTANCE SequencesExt

Extended(path, step) == IF path = <<>> THEN <<>> ELSE Append(path, step)
\* A host hints what is at a path, and says nothing of a scalar: a presence test has the path
\* of what it tests, and is none.
Hinted(path, type, env) ==
  IF path \in DOMAIN env.hints /\ type[1] \notin Scalars THEN <<env.hints[path]>> ELSE <<>>

\* Values of these types have the same size all.
TypeSize(type) ==
  IF type[1] \in Scalars THEN <<Plain(1, 1)>>
  ELSE IF type[1] = "opt" /\ type[2] \in Scalars THEN <<OptionalSize(Plain(1, 1))>>
  ELSE <<>>

(***************************************************************************)
(* Containers. Their length comes from the expression or a hint, the sizes *)
(* of keys and elements from the expression, the hint, or further hints    *)
(* for what the path leads to. A part that nothing is said of is nil, and  *)
(* unknown once the container may have elements.                           *)
(***************************************************************************)
RECURSIVE SizeAt(_, _, _, _)

ChildSize(path, type, env, current) ==
  LET lacks == current = <<>> \/ (current[1].elem = <<>> /\ type[1] \in Containers)
      found == IF lacks /\ path # <<>> THEN SizeAt(path, type, env, FALSE) ELSE <<>>
  IN IF found \notin {<<>>, <<Unknown>>}
     THEN IF current = <<>> THEN found
          ELSE <<[current[1] EXCEPT !.key = found[1].key, !.elem = found[1].elem]>>
     ELSE IF current = <<>> THEN TypeSize(type) ELSE current

\* The size of a container from its length and the sizes of its parts.
Combined(strategy, n, keyed, key, elem) ==
  LET part(p)  == IF p = <<>> /\ n.max > 0 THEN <<Unknown>> ELSE p
      bound(p) == IF p = <<>> THEN Span(1, Top) ELSE AtLeastOneSize(p[1])
      entry == IF keyed THEN AddSpan(bound(key), bound(elem)) ELSE bound(elem)
  IN Sized(ContainerSpan(strategy, n, entry), IF keyed THEN part(key) ELSE <<>>, part(elem))

ContainerSize(given, path, type, env, isExpr) ==
  LET keyed == type[1] = "map"
      n     == IF given.n # <<>> THEN given.n ELSE Hinted(path, type, env)
      stated(p, q) == IF p = <<>> /\ n # <<>> THEN q ELSE p
      child(step, t, p) ==
        IF n = <<>> \/ n[1].max > 0 THEN ChildSize(Extended(path, step), t, env, p) ELSE p
      key == IF ~keyed THEN <<>> ELSE
             child("@keys", <<"string">>, stated(given.key, IF n = <<>> THEN <<>> ELSE n[1].key))
      elem == child(IF keyed THEN "@values" ELSE "@items", Inside(type),
                    stated(given.elem, IF n = <<>> THEN <<>> ELSE n[1].elem))
      known(p) == IF p = <<>> THEN <<Unknown>> ELSE p
  IN IF n # <<>> THEN <<Combined(env.strategy, n[1], keyed, key, elem)>>
     ELSE IF key # <<>> \/ elem # <<>>
     THEN <<Sized(Span(0, Top), IF keyed THEN known(key) ELSE <<>>, known(elem))>>
     ELSE IF isExpr THEN <<Combined(env.strategy, Unknown, keyed, <<>>, <<>>)>> ELSE <<>>

NothingGiven == [n |-> <<>>, key |-> <<>>, elem |-> <<>>]
SizeAt(path, type, env, isExpr) ==
  IF type[1] \in Containers THEN ContainerSize(NothingGiven, path, type, env, isExpr)
  ELSE IF Hinted(path, type, env) # <<>> THEN Hinted(path, type, env) ELSE TypeSize(type)

\* The length and parts of a list or map that is written out.
Written(e, kids) ==
  LET sizes == [i \in DOMAIN kids |-> OrUnknown(kids[i].size)]
      union(indices) ==
        FoldLeft(LAMBDA u, i : IF i \in indices THEN MergePart(u, <<sizes[i]>>) ELSE u,
                 <<>>, [i \in DOMAIN kids |-> i])
      even == {i \in DOMAIN kids : i % 2 = 0}
  IN IF e.op = "list" THEN [n |-> <<Plain(Len(kids), Len(kids))>>, key |-> <<>>,
                            elem |-> union(DOMAIN kids)]
     ELSE [n |-> <<Plain(Len(kids) \div 2, Len(kids) \div 2)>>, key |-> union(DOMAIN kids \ even),
           elem |-> union(even)]

-----------------------------------------------------------------------------
(* Calls.                                                                  *)

NoOperand == [size |-> <<>>, holds |-> "none"]
Operands(e, kids, strategy) ==
  LET node(i) == [size |-> kids[i].size, holds |-> e.args[i].type[1]]
      member  == e.name \in Members
  IN [strategy |-> strategy,
      target   |-> IF member THEN node(1) ELSE NoOperand,
      args     |-> [i \in 1 .. Len(kids) - (IF member THEN 1 ELSE 0) |->
                      node(IF member THEN i + 1 ELSE i)]]

\* mutated: every operand is taken to be a variable.
NoRelativeAttributeCost(operand) == Exactly(0)
\* Of a computed value the first qualifier is resolved apart.
RelativeAttributeCost(operand) == Exactly(IF IsAttributeChain(operand) THEN 0 ELSE 1)

\* A presence test qualifies the branch of a conditional that is computed.
RECURSIVE BranchQualifierCost(_)
BranchQualifierCost(operand) ==
  LET root == AttributeChainRoot(operand)
      branch(e) == IF ~IsAttributeChain(e) \/ e.op = "has" THEN Exactly(1)
                   ELSE BranchQualifierCost(e)
  IN IF IsCall(root, "conditional") THEN UnionSpan(branch(root.args[2]), branch(root.args[3]))
     ELSE Exactly(0)

\* Within a conditional, a branch that is a variable is resolved at no cost of its own.
ConditionalBranchCost(branch, cost) ==
  IF IsAttributeChain(branch) /\ AttributeChainRoot(branch).op = "var" /\ branch.op # "has"
  THEN Span(SafeSubtract(cost.min, 1), SafeSubtract(cost.max, 1)) ELSE cost

ArgCost(e, costs, all) ==
  CASE e.name \in {"logical_and", "logical_or"} ->
         Span(costs[1].min, SafeAdd(costs[1].max, costs[2].max))
    [] e.name \in {"or", "orValue"} -> AddSpan(costs[1], Span(0, costs[2].max))
    [] e.name = "conditional" ->
         AddSpan(costs[1], UnionSpan(ConditionalBranchCost(e.args[2], costs[2]),
                                     ConditionalBranchCost(e.args[3], costs[3])))
    [] e.name \in IndexLike -> AddSpan(RelativeAttributeCost(e.args[1]), all)
    [] OTHER -> all

IndexStep(e) == IF e.args[1].type[1] = "list" THEN "@items" ELSE "@values"

\* What an index selects is sized by the hints for its path, or as the elements are of the
\* container it indexes.
CallSize(e, kids, env) ==
  LET model  == EstimateCall(e.name, Operands(e, kids, env.strategy)).size
      inside == IF kids[1].size = <<>> THEN <<>> ELSE kids[1].size[1].elem
      hinted == SizeAt(Extended(kids[1].path, IndexStep(e)), Inside(e.type), env, FALSE)
      chosen == IF kids[1].path = <<>> /\ inside # <<>> THEN inside ELSE hinted
  IN IF e.name = "optindex"
     THEN IF chosen = <<>> THEN <<>> ELSE <<OptionalSize(chosen[1])>>
     ELSE IF model # <<>> THEN model ELSE SizeAt(<<>>, e.type, env, TRUE)

-----------------------------------------------------------------------------
(* Loops.                                                                  *)

\* What the variables of a loop range over.
IterVar(range, type, step, env) ==
  LET size == OrUnknown(range.size)
  IN [path |-> Extended(range.path, step),
      size |-> CASE step = "@indices" -> <<Plain(1, 1)>>
                 [] step = "@keys"    -> size.key
                 [] OTHER             -> size.elem]
IterSteps(e) ==
  LET list == e.args[1].type[1] = "list"
  IN IF Len(e.vars) = 1 THEN <<IF list THEN "@items" ELSE "@keys">>
     ELSE <<IF list THEN "@indices" ELSE "@keys", IF list THEN "@items" ELSE "@values">>

\* The scope of the next operand of an expression when the earlier ones have been costed: the
\* range and the initial value are outside, the result sees the accumulator alone.
Bound(env, name, kid) ==
  [env EXCEPT !.locals = (name :> [path |-> kid.path, size |-> kid.size]) @@ @]
ScopeOf(e, done, env) ==
  LET steps == IterSteps(e)
      bound(scope, i) == Bound(scope, e.vars[i], IterVar(done[1], e.args[1].type, steps[i], env))
  IN IF e.op = "bind" /\ Len(done) = 1 THEN Bound(env, e.name, done[1])
     ELSE IF e.op = "fold" /\ Len(done) \in {2, 3}
     THEN FoldLeft(bound, Bound(env, e.name, done[2]), [i \in DOMAIN steps |-> i])
     ELSE IF e.op = "fold" /\ Len(done) = 4 THEN Bound(env, e.name, done[2]) ELSE env

\* An accumulated container has at most an entry for each iteration, and none for those that
\* a conditional step leaves out.
FoldSize(e, kids, env) ==
  LET range == OrUnknown(kids[1].size)
      step  == kids[4].size
      init  == e.args[2].op
      count == CountBounds(env.strategy, range)
      n     == IF IsCall(e.args[4], "conditional") THEN Span(0, count.max) ELSE count
      elem  == IF step # <<>> /\ step[1].elem # <<>> THEN step[1].elem ELSE range.elem
      key   == IF init = "list" THEN <<>>
               ELSE IF step # <<>> /\ step[1].key # <<>> THEN step[1].key ELSE range.key
      entry == IF key = <<>> THEN OrUnknown(elem) ELSE AddSpan(OrUnknown(elem), key[1])
  IN CASE init = "lit" -> kids[2].size
       [] init \in {"list", "map"} ->
            <<Sized(ContainerSpan(env.strategy, n, entry), key, elem)>>
       [] OTHER -> SizeAt(<<>>, e.type, env, TRUE)

-----------------------------------------------------------------------------
(* Expressions.                                                            *)

ListCreateBaseCost == 10
MapCreateBaseCost == 30

EstimatedCost(e, kids, env) ==
  LET costs == [i \in DOMAIN kids |-> kids[i].cost]
      all   == FoldLeft(AddSpan, Exactly(0), costs)
      count == CountBounds(env.strategy, OrUnknown(kids[1].size))
  IN CASE e.op = "lit"    -> Exactly(0)
       [] e.op = "var"    -> Exactly(1)
       [] e.op = "select" -> AddSpan(AddSpan(Exactly(1), all), RelativeAttributeCost(e.args[1]))
       [] e.op = "has"    -> AddSpan(AddSpan(AddSpan(Exactly(1), all), RelativeAttributeCost(e.args[1])),
                                     BranchQualifierCost(e.args[1]))
       [] e.op = "call"   -> AddSpan(ArgCost(e, costs, all),
                                     EstimateCall(e.name, Operands(e, kids, env.strategy)).cost)
       [] e.op = "list"   -> AddSpan(all, Exactly(ListCreateBaseCost))
       [] e.op = "map"    -> AddSpan(all, Exactly(MapCreateBaseCost))
       [] e.op = "bind"   -> IF MustReadVar(e.args[2], e.name) THEN all
                             ELSE AddSpan(Span(0, costs[1].max), costs[2])
       [] e.op = "fold"   -> AddSpan(AddSpan(costs[1], costs[2]),
                                     AddSpan(costs[5], MultiplySpan(count, AddSpan(costs[3], costs[4]))))

EstimatedPath(e, kids, env) ==
  CASE e.op = "var" -> IF e.name \in DOMAIN env.locals THEN env.locals[e.name].path ELSE <<e.name>>
    [] e.op \in {"select", "has"} -> Extended(kids[1].path, e.name)
    [] e.op = "call" /\ e.name \in {"index", "optindex"} -> Extended(kids[1].path, IndexStep(e))
    [] e.op = "bind" -> kids[2].path
    [] OTHER -> <<>>

EstimatedSize(e, kids, path, env) ==
  LET local == e.op = "var" /\ e.name \in DOMAIN env.locals
  IN IF local /\ env.locals[e.name].size # <<>> THEN env.locals[e.name].size
     ELSE CASE e.op = "lit"  -> LET n == SizeOf(env.strategy, e.val) IN <<Plain(n, n)>>
            [] e.op \in Containers -> ContainerSize(Written(e, kids), <<>>, e.type, env, TRUE)
            [] e.op = "call" -> CallSize(e, kids, env)
            [] e.op = "bind" -> IF kids[2].size # <<>> THEN kids[2].size
                                ELSE SizeAt(path, e.type, env, TRUE)
            [] e.op = "fold" -> FoldSize(e, kids, env)
            [] OTHER -> SizeAt(path, e.type, env, TRUE)

Estimated(e, kids, path, env) ==
  [cost |-> EstimatedCost(e, kids, env), path |-> path,
   size |-> EstimatedSize(e, kids, path, env)]

RECURSIVE Estimate(_, _)
Estimate(e, env) ==
  LET kids == FoldLeft(LAMBDA done, arg : Append(done, Estimate(arg, ScopeOf(e, done, env))),
                       <<>>, e.args)
  IN Estimated(e, kids, EstimatedPath(e, kids, env), env)
=============================================================================
