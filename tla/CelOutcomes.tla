---------------------------- MODULE CelOutcomes ----------------------------
(***************************************************************************)
(* The four kinds of outcome an evaluation step of the interpreter can     *)
(* have and the way the operators of CEL combine them.  The data of a      *)
(* value is abstracted to a boolean: it is all that short-circuiting and   *)
(* equality tell apart.  Errors are not told apart.                        *)
(*                                                                         *)
(* An unknown carries the causes that make it unknown (types.Unknown, a    *)
(* map from int64 id to attribute trails).  A cause is a record:           *)
(*   src = "attr"     an attribute trail with a variable name, id is the   *)
(*                    id of the expression node;                           *)
(*   src = "call"     the unspecified trail under the callID of a pending  *)
(*                    asynchronous call;                                   *)
(*   src = "foreign"  the unspecified trail under an id that comes from    *)
(*                    user code (types.NewUnknown(id, nil)).               *)
(***************************************************************************)
EXTENDS Integers

Sources == {"attr", "call", "foreign"}
Causes  == [src : Sources, id : Int]
Tags    == {"true", "false", "err", "unk"}

Val(tag)   == [tag |-> tag, unk |-> {}]
Unk(cause) == [tag |-> "unk", unk |-> cause]

True  == Val("true")
False == Val("false")
Err   == Val("err")

Outcome == [tag : Tags, unk : SUBSET Causes]

\* Mutated: every trail is asked for, instead of some.
AllUnknownFunctions(v) == \A u \in v.unk : u.src # "attr"

\* HasUnknownFunction: some trail of the unknown is the unspecified one.
HasUnknownFunction(v) == \E u \in v.unk : u.src # "attr"

\* IDs: the ids of an unknown, whatever the kind of their trails.
IDs(v) == {u.id : u \in v.unk}

\* MergeUnknowns, over all the unknowns of a set of outcomes.
MergeUnknowns(S) == Unk(UNION {v.unk : v \in S})

IsUnknown(v) == v.tag = "unk"

\* Logical operators: the absorbing value wins, then unknowns (merged), then an
\* error, then the neutral value.
Logical(S, absorbing, neutral) ==
    IF absorbing \in S THEN absorbing
    ELSE IF \E v \in S : IsUnknown(v) THEN MergeUnknowns(S)
    ELSE IF Err \in S THEN Err
    ELSE neutral

\* Equality, list literals and calls evaluate their arguments up to the first error: it
\* wins, then unknowns (merged), then the value of the operator.
Strict(S, value) ==
    IF Err \in S THEN Err
    ELSE IF \E v \in S : IsUnknown(v) THEN MergeUnknowns(S)
    ELSE value

\* Equality of all the operands.
AllEqual(S) == IF \A v, w \in S : v = w THEN True ELSE False
=============================================================================
