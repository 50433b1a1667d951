------------------------------- MODULE Values --------------------------------
(***************************************************************************)
(* The values of expressions, one part at a time: a value that goes        *)
(* through the operators of a calculator, a number that is converted from  *)
(* type to type and compared with all others, two maps of which one grows  *)
(* (all Numeric), and the lists of a host that runs programs on the        *)
(* results of earlier ones (Accumulators).                                 *)
(***************************************************************************)
EXTENDS Numeric, Accumulators

CONSTANTS
    Programs,      \* the expressions that a host runs
    MaxRuns,       \* programs run one after the other
    MaxDepth       \* lists in lists that the programs can build

VARIABLES
    part,        \* what this behaviour is about
    heap, vars,  \* the lists, and the variables that hold references to them
    means,       \* what each variable was given as its value
    runs         \* programs run so far

listVars  == <<heap, vars, means, runs>>
valueVars == <<part, acc, exact, number, grown, other, heap, vars, means, runs>>

-----------------------------------------------------------------------------
(* Lists.                                                                  *)

RunProgram ==
    /\ part = "list" /\ runs < MaxRuns
    /\ \E e \in Programs, exhaustive \in BOOLEAN :
          LET t == Exec(e, [heap |-> heap, vars |-> vars, folders |-> <<>>,
                            exhaustive |-> exhaustive, v |-> Num(0)])
          IN /\ heap' = t.heap
             /\ vars' = [vars EXCEPT !["r"] = t.v]
             /\ means' = [means EXCEPT !["r"] = Meaning(e, means)]
    /\ runs' = runs + 1
    /\ UNCHANGED <<part, calcVars, numberVars, mapVars>>

\* A list never changes: every variable of the host holds what the expression that it
\* came from means, where lists are values and nothing is appended in place, whatever
\* programs run afterwards on the same lists.
Immutable == \A x \in DOMAIN vars : Denote(heap, vars[x], MaxDepth) = means[x]

-----------------------------------------------------------------------------
Idle(p) ==
    /\ part = p
    /\ p # "calculator" => acc = [kind |-> "none", ok |-> FALSE, n |-> 0] /\ exact = Undefined
    /\ p # "number" => number = ErrorV
    /\ p # "map" => grown = Map("any", <<>>) /\ other = Map("any", <<>>)
    /\ heap = <<Slice(<<Num(1), Num(2)>>)>>
    /\ vars = [x \in {"x", "r"} |-> Ref(1)]
    /\ means = [x \in {"x", "r"} |-> ListD(<<NumberD(1), NumberD(2)>>)]
    /\ runs = 0

Init ==
    \/ Idle("calculator") /\ CalcInit
    \/ Idle("number") /\ number \in Numbers
    \/ Idle("map") /\ grown \in {m \in Maps : Clean(m)} /\ other \in Maps
    \/ Idle("list")
Next ==
    \/ part = "calculator" /\ CalcNext /\ UNCHANGED <<part, numberVars, mapVars, listVars>>
    \/ part = "number" /\ ConvertNumber /\ UNCHANGED <<part, calcVars, listVars>>
    \/ part = "map" /\ InsertEntry /\ UNCHANGED <<part, calcVars, listVars>>
    \/ RunProgram
Spec == Init /\ [][Next]_valueVars
=============================================================================
