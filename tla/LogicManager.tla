---------------------------- MODULE LogicManager ----------------------------
(***************************************************************************)
(* The nodes of the AST, and the trees that chains of && and || become: a  *)
(* logicManager collects the terms of a chain and the ids of the operators *)
(* between them, and makes a tree of calls of it that is no deeper than it *)
(* must be, or a single call with all of the terms.                        *)
(***************************************************************************)
EXTENDS Integers, Sequences

(* Nodes.  The name is a sequence of tokens: that of a variable, field, literal or *)
(* message, or the function or operator of a call.  The target of a member call is *)
(* its first argument.  opt is the set of the optional elements of a list, and     *)
(* says whether an entry is optional.                                              *)
Node(kind, id, name, args) ==
    [kind |-> kind, id |-> id, name |-> name, args |-> args, opt |-> {}]
Call(id, op, args) == Node("call", id, <<op>>, args)

-----------------------------------------------------------------------------
\* A part of the operators: the first and the last of them.
Spans(ops) == {s \in (1..Len(ops)) \X (1..Len(ops)) : s[1] <= s[2]}
Mid(s) == (s[1] + s[2] + 1) \div 2

\* Mutated: the term at the split is doubled where the right part is one term.
BalancedTreeDoubled(fn, terms, ops) ==
    LET tree[s \in Spans(ops)] ==
            LET mid   == Mid(s)
                left  == IF mid = s[1] THEN terms[mid] ELSE tree[<<s[1], mid - 1>>]
                right == IF mid = s[2] THEN terms[mid] ELSE tree[<<mid + 1, s[2]>>]
            IN Call(ops[mid], fn, <<left, right>>)
    IN tree[<<1, Len(ops)>>]

\* balancedTree: of the operators of a span and the terms around them, given the trees of
\* smaller spans.
TreeOf(fn, terms, ops, tree, s) ==
    LET mid   == Mid(s)
        left  == IF mid = s[1] THEN terms[mid] ELSE tree[<<s[1], mid - 1>>]
        right == IF mid = s[2] THEN terms[mid + 1] ELSE tree[<<mid + 1, s[2]>>]
    IN Call(ops[mid], fn, <<left, right>>)
Trees(fn, terms, ops) ==
    LET tree[s \in Spans(ops)] == TreeOf(fn, terms, ops, tree, s) IN tree
BalancedTree(fn, terms, ops) == Trees(fn, terms, ops)[<<1, Len(ops)>>]
=============================================================================
