------------------------------ MODULE CostPaths ------------------------------
(***************************************************************************)
(* The paths that the cost estimator records for the nodes of an           *)
(* expression (common/cost/estimator.go), which is where a host is asked   *)
(* for the size of a node. A path is a slice of a buffer: it is extended   *)
(* by append, which writes into the buffer when that has room.             *)
(***************************************************************************)
EXTENDS Naturals, Sequences
Seqs == INSTANCE SequencesExt

CONSTANTS
    Variables, Fields,
    MaxScope,       \* loops in loops
    MaxOperands,    \* operands that have been costed and whose call has not
    MaxLength       \* of a path

VARIABLES
    buffers,        \* the buffers of slices, with as many places as they have room for
    operands,       \* the nodes that have been costed and whose parent has not
    scope           \* the variables of the loops that are being costed, innermost last
pathVars == <<buffers, operands, scope>>

\* A node has a slice, the buffer and the length of it, and the path that it is of.
Node(buffer, means) == [buffer |-> buffer, means |-> means]
Free == "free"
Read(node) == SubSeq(buffers[node.buffer], 1, Len(node.means))

\* What append makes of a node's slice: nothing is copied unless the buffer is full.
Room(n) == IF n = 0 THEN 1 ELSE 2 * n
Appended(node, step) ==
    LET n == Len(node.means)
        full == Len(buffers[node.buffer]) = n
        grown == Read(node) \o [i \in 1 .. Room(n) - n |-> IF i = 1 THEN step ELSE Free]
    IN IF full THEN [buffers |-> Append(buffers, grown),
                     node |-> Node(Len(buffers) + 1, Append(node.means, step))]
       ELSE [buffers |-> [buffers EXCEPT ![node.buffer][n + 1] = step],
             node |-> Node(node.buffer, Append(node.means, step))]

Costed == operands # <<>>
Top == operands[Len(operands)]
Rest == SubSeq(operands, 1, Len(operands) - 1)

-----------------------------------------------------------------------------
CostIdent == /\ Len(operands) < MaxOperands
             /\ \/ \E x \in Variables :
                      /\ buffers' = Append(buffers, <<x>>)
                      /\ operands' = Append(operands, Node(Len(buffers) + 1, <<x>>))
                \/ \E local \in Seqs!ToSet(scope) :
                      operands' = Append(operands, local) /\ UNCHANGED buffers
             /\ UNCHANGED scope

\* A selection, or an index, of the node that was costed last.
CostSelect == /\ Costed /\ Len(Top.means) < MaxLength
              /\ \E step \in Fields \union {"@items"} :
                    LET after == Appended(Top, step)
                    IN buffers' = after.buffers /\ operands' = Append(Rest, after.node)
              /\ UNCHANGED scope

\* A loop over the node that was costed last: what is costed next is its body.
PushIterSingle == /\ Costed /\ Len(Top.means) < MaxLength /\ Len(scope) < MaxScope
                  /\ \E step \in {"@items", "@keys"} :
                        LET after == Appended(Top, step)
                        IN buffers' = after.buffers /\ scope' = Append(scope, after.node)
                  /\ operands' = Rest

\* The host is asked of all operands once the last has been costed.
CostCall == Costed /\ operands' = <<>> /\ UNCHANGED <<buffers, scope>>

Init == buffers = <<>> /\ operands = <<>> /\ scope = <<>>
Next == CostIdent \/ CostSelect \/ PushIterSingle \/ CostCall
Spec == Init /\ [][Next]_pathVars

\* The path of a node says how the node is reached: its variable, and the fields and
\* elements that lead on from there.
PathsKept == \A i \in DOMAIN operands : Read(operands[i]) = operands[i].means
=============================================================================
