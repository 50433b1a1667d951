-------------------------------- MODULE Cost ---------------------------------
(***************************************************************************)
(* A host that limits what expressions may cost: it is told the sizes that *)
(* inputs may have, estimates what a program costs, and runs it on inputs  *)
(* of those sizes while the charges are tracked. The program is written by *)
(* putting an expression into ever larger ones. A second part of the       *)
(* machine is the arithmetic of both sides alone (CostAlgebra).            *)
(***************************************************************************)
EXTENDS CostEstimator, CostTracker, CostAlgebra
Sets == INSTANCE FiniteSetsExt

CONSTANTS
    Strategies,     \* the sizing strategies, among "default" and "aggregate"
    HintModes,      \* what the host is told of the inputs: "paths", "roots", "items", "none"
    Inputs,         \* the values that the variables may have
    Atoms,          \* the expressions that programs start from
    Contexts(_),    \* those that an expression is put into
    MaxDepth,       \* how often one is
    MaxOperations   \* of an expression over sizes

VARIABLES
    part,           \* what this behaviour is about
    host,           \* the strategy and hints of the host
    program, depth,
    estimate,       \* what the host estimates of the program
    outcome         \* and what a run of it came to
hostVars == <<host, program, depth, estimate, outcome>>
costVars == <<part, hostVars, algebraVars>>

-----------------------------------------------------------------------------
(* Hints.                                                                  *)

\* The values of the inputs, by the paths that lead to them.
RECURSIVE Reached(_, _)
Reached(v, path) ==
  LET at(vs, step) == UNION {Reached(vs[i], Append(path, step)) : i \in DOMAIN vs}
      fields == {f \in DOMAIN Position : FieldOf(v, f) # <<>>}
  IN {<<path, v>>} \union
       CASE v.kind = "list" -> at(v.items, "@items")
         [] v.kind = "map"  -> at(v.items, "@values") \union at(v.keys, "@keys") \union
                               UNION {at(FieldOf(v, f), f) : f \in fields}
         [] OTHER -> {}
All == UNION {UNION {Reached(input[x], <<x>>) : x \in DOMAIN input} : input \in Inputs}
Paths == {r[1] : r \in All}
ValuesAt(path) == {r[2] : r \in {q \in All : q[1] = path}}

RangeOf(amounts) == Span(Sets!Min(amounts), Sets!Max(amounts))

\* By its path, a container is hinted its length, whatever the strategy.
HintAt(path, strategy) ==
  LET amounts == {IF v.kind \in Containers THEN LengthOf(v) ELSE SizeOf(strategy, v) :
                    v \in ValuesAt(path)}
  IN Sized(RangeOf(amounts), <<>>, <<>>)

\* Its elements may be hinted along with it, in the sizes of the strategy.
RECURSIVE FullSize(_, _)
FullSize(path, strategy) ==
  LET inside(step) == LET p == Append(path, step)
                      IN IF p \in Paths THEN <<FullSize(p, strategy)>> ELSE <<>>
  IN Sized(RangeOf({SizeOf(strategy, v) : v \in ValuesAt(path)}),
           inside("@keys"), inside("@items") \o inside("@values"))
RootHint(path, strategy) ==
  LET full == FullSize(path, strategy)
  IN [HintAt(path, strategy) EXCEPT !.key = full.key, !.elem = full.elem]

HintsOf(mode, strategy) ==
  CASE mode = "paths" -> [p \in Paths |-> HintAt(p, strategy)]
    [] mode = "items" -> [p \in {q \in Paths : Len(q) > 1} |-> HintAt(p, strategy)]
    [] mode = "roots" -> [p \in {q \in Paths : Len(q) = 1} |-> RootHint(p, strategy)]
    [] mode = "none"  -> <<>>

-----------------------------------------------------------------------------
NotYet == [cost |-> Exactly(0), path |-> <<>>, size |-> <<>>]
NotRun == Computed(ErrV, 0, {})

Write == /\ part = "program" /\ estimate = NotYet /\ depth < MaxDepth
         /\ \E e \in Contexts(program) : program' = e
         /\ depth' = depth + 1
         /\ UNCHANGED <<part, host, estimate, outcome, algebraVars>>

Compile == /\ part = "program" /\ estimate = NotYet
           /\ estimate' = Estimate(program, [strategy |-> host.strategy, hints |-> host.hints,
                                             locals |-> <<>>])
           /\ UNCHANGED <<part, host, program, depth, outcome, algebraVars>>

Run == /\ part = "program" /\ estimate # NotYet /\ outcome = NotRun
       /\ \E input \in Inputs, verdict \in BOOLEAN :
             outcome' = Track(program, [strategy |-> host.strategy, vars |-> input,
                                        locals |-> <<>>, verdict |-> verdict])
       /\ UNCHANGED <<part, host, program, depth, estimate, algebraVars>>

Calculate == /\ part = "algebra" /\ depth < MaxOperations
             /\ AlgebraNext
             /\ depth' = depth + 1
             /\ UNCHANGED <<part, host, program, estimate, outcome>>

Init == \/ /\ part = "program"
           /\ \E s \in Strategies, mode \in HintModes :
                 host = [strategy |-> s, hints |-> HintsOf(mode, s)]
           /\ program \in Atoms /\ depth = 0 /\ estimate = NotYet /\ outcome = NotRun
           /\ tracked = 0 /\ estimated = Exactly(0)
        \/ /\ part = "algebra" /\ AlgebraInit
           /\ host = [strategy |-> "default", hints |-> <<>>]
           /\ program = Lit(IntV(0)) /\ depth = 0 /\ estimate = NotYet /\ outcome = NotRun
Next == Write \/ Compile \/ Run \/ Calculate
Spec == Init /\ [][Next]_costVars

-----------------------------------------------------------------------------
HasRun == outcome # NotRun

\* A presence test on the variable or field that a conditional chooses is estimated a unit
\* short: the branch is taken to be paid for by its root, which the conditional makes no
\* charge for.
RECURSIVE TestsBranch(_)
TestsBranch(e) ==
  LET root == AttributeChainRoot(e.args[1])
      unpaid(branch) == IsAttributeChain(branch) /\ branch.op # "has"
  IN \/ /\ e.op = "has" /\ IsCall(root, "conditional")
        /\ \E i \in {2, 3} : unpaid(root.args[i])
     \/ \E i \in DOMAIN e.args : TestsBranch(e.args[i])

\* A run is charged at most what the program was estimated to cost, however the sizes
\* of the inputs came to be known and whatever the run skips, repeats or fails at.
CostBounded ==
  HasRun /\ ~TestsBranch(program) => outcome.cost <= estimate.cost.max

RECURSIVE Fits(_, _, _)
Fits(v, size, strategy) ==
  LET parts(vs, s) == s # <<>> => \A i \in DOMAIN vs : Fits(vs[i], s[1], strategy)
  IN /\ SizeOf(strategy, v) <= size.max
     /\ strategy = "default" /\ v.kind # "opt" => size.min <= SizeOf(strategy, v)
     /\ parts(v.items, size.elem) /\ parts(v.keys, size.key)

\* A result is of a size that it was estimated to have, and so are its elements, its keys
\* and what optionals hold, through every operation that passes them on. Only the upper
\* bound is kept for optionals, which are estimated as holding something, and by the
\* aggregate strategy, to which a list that is joined to an empty one has no second header.
SizeBounded ==
  HasRun /\ ~Failed(outcome) /\ estimate.size # <<>> =>
      Fits(outcome.v, estimate.size[1], host.strategy)
=============================================================================
