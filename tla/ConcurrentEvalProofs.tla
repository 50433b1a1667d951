------------------------ MODULE ConcurrentEvalProofs ------------------------
(***************************************************************************)
(* Proofs about ConcurrentEval for every expression, launch limit, channel *)
(* capacity, drain strategy and set of answers, and that it implements     *)
(* EvalPromise.                                                            *)
(***************************************************************************)
EXTENDS ConcurrentEval, FiniteSetTheorems, SequenceTheorems, WellFoundedInduction, TLAPS

GoroutineStates == {"none", "run", "release", "deactivate", "check", "send", "exit"}

-----------------------------------------------------------------------------
(***************************************************************************)
(* Outcomes.                                                               *)
(***************************************************************************)
\* NotSeen is no outcome, and neither is any other record with its tag.
LEMMA NotSeenIsNoOutcome == NotSeen \notin Outcome
BY DEF NotSeen, Outcome, Tags

\* The constant outcomes are outcomes, without causes.
LEMMA ConstantOutcomes ==
    /\ True \in Outcome /\ False \in Outcome /\ Err \in Outcome
    /\ True.unk = {} /\ False.unk = {} /\ Err.unk = {}
BY DEF True, False, Err, Val, Outcome, Tags

\* Merging outcomes gives an outcome whose causes are theirs.
LEMMA MergeType ==
    ASSUME NEW S \in SUBSET Outcome
    PROVE  /\ MergeUnknowns(S) \in Outcome
           /\ \A u \in MergeUnknowns(S).unk : \E v \in S : u \in v.unk
BY DEF MergeUnknowns, Unk, Outcome, Tags

\* Strict operators answer an outcome whose causes are those of an argument.
LEMMA StrictType ==
    ASSUME NEW S \in SUBSET Outcome, NEW value \in Outcome, value.unk = {}
    PROVE  /\ Strict(S, value) \in Outcome
           /\ \A u \in Strict(S, value).unk : \E v \in S : u \in v.unk
BY MergeType, ConstantOutcomes DEF Strict

\* So do the logical operators.
LEMMA LogicalType ==
    ASSUME NEW S \in SUBSET Outcome,
           NEW absorbing \in {True, False}, NEW neutral \in {True, False}
    PROVE  /\ Logical(S, absorbing, neutral) \in Outcome
           /\ \A u \in Logical(S, absorbing, neutral).unk : \E v \in S : u \in v.unk
BY MergeType, ConstantOutcomes DEF Logical

\* A node that is neither a call nor an attribute has the causes of its arguments.
LEMMA CombineInherits ==
    ASSUME NEW n \in Node, Kind[n] \notin {"async", "attr"}, NEW S \in SUBSET Outcome
    PROVE  \A u \in Combine(n, S).unk : \E v \in S : u \in v.unk
<1>1. Kind[n] \in Kinds
  BY TreeAssumption
<1>2. CASE Kind[n] = "true" \/ Kind[n] = "false"
  BY <1>2, ConstantOutcomes DEF Combine
<1>3. CASE Kind[n] = "or"
  BY <1>3, LogicalType DEF Combine
<1>4. CASE Kind[n] = "and"
  BY <1>4, LogicalType DEF Combine
<1>5. CASE Kind[n] = "strict" \/ Kind[n] = "fold"
  <2>1. PICK value : value = AllEqual(S) /\ value \in Outcome /\ value.unk = {}
    BY ConstantOutcomes DEF AllEqual
  <2>2. Combine(n, S) = Strict(S, value)
    BY <1>5, <2>1 DEF Combine
  <2> QED
    BY <2>1, <2>2, StrictType
<1> QED
  BY <1>1, <1>2, <1>3, <1>4, <1>5 DEF Kinds

\* A node that is no call answers an outcome; a cause is that of an argument or an
\* attribute.
LEMMA CombineType ==
    ASSUME NEW n \in Node, Kind[n] # "async", NEW S \in SUBSET Outcome
    PROVE  /\ Combine(n, S) \in Outcome
           /\ \A u \in Combine(n, S).unk : u.src = "attr" \/ \E v \in S : u \in v.unk
<1>1. Kind[n] \in Kinds /\ ExprId[n] \in Nat
  BY TreeAssumption
<1>2. CASE Kind[n] = "attr"
  BY <1>1, <1>2 DEF Combine, Unk, Outcome, Tags, Causes, Sources
<1>3. CASE Kind[n] = "true" \/ Kind[n] = "false"
  BY <1>3, ConstantOutcomes DEF Combine
<1>4. CASE Kind[n] = "or"
  BY <1>4, LogicalType DEF Combine
<1>5. CASE Kind[n] = "and"
  BY <1>5, LogicalType DEF Combine
<1>6. CASE Kind[n] = "strict" \/ Kind[n] = "fold"
  <2>1. AllEqual(S) \in Outcome /\ AllEqual(S).unk = {}
    BY ConstantOutcomes DEF AllEqual
  <2>2. Combine(n, S) = Strict(S, AllEqual(S))
    BY <1>6 DEF Combine
  <2>3. /\ Strict(S, AllEqual(S)) \in Outcome
        /\ \A u \in Strict(S, AllEqual(S)).unk : \E v \in S : u \in v.unk
    <3> DEFINE value == AllEqual(S)
    <3> HIDE DEF value
    <3>1. value \in Outcome /\ value.unk = {}
      BY <2>1 DEF value
    <3> QED
      BY <3>1, StrictType DEF value
  <2> QED
    BY <2>2, <2>3
<1> QED
  BY <1>1, <1>2, <1>3, <1>4, <1>5, <1>6 DEF Kinds
-----------------------------------------------------------------------------
(***************************************************************************)
(* Type correctness.                                                       *)
(***************************************************************************)
TypeInv == TypeOK /\ PassState

USE DEF passVars, callVars, gateVars, ctxVars

\* The arguments of a node are outcomes.
LEMMA ArgOutcomesType ==
    ASSUME TypeOK, NEW n \in Node
    PROVE  ArgOutcomes(n) \in SUBSET Outcome
<1>1. Args[n] \subseteq Node
  BY TreeAssumption
<1> QED
  BY <1>1 DEF ArgOutcomes, Operands, TypeOK

\* The root is always evaluated: no node encloses it.
LEMMA RootReached == Reached(N)
BY TreeAssumption DEF Reached, Node

LEMMA InitType == Init => TypeInv
<1> SUFFICES ASSUME Init PROVE TypeInv
  OBVIOUS
<1>1. N \in Nat \ {0} /\ Buffer \in Nat \ {0}
  BY TreeAssumption, LimitAssumption
<1>2. completions \in Seq(Calls) /\ Len(completions) = 0
  BY EmptySeq DEF Init
<1>3. resCh \in Seq([kind : {"final", "ctx", "panic"}, val : Outcome])
  BY EmptySeq DEF Init
<1>4. /\ seen \in [Node -> Outcome \cup {NotSeen}]
      /\ callID \in [Calls -> 0..nextCallID]
      /\ result \in [Calls -> Outcome \cup {NoResult}]
      /\ started \in [Calls -> BOOLEAN]
      /\ gp \in [Calls -> GoroutineStates]
      /\ pos \in 1..(N + 1)
  BY <1>1 DEF Init, GoroutineStates
<1>5. TypeOK
  <2>1. pc = "exec" /\ out = NotSeen /\ todo = {} /\ batch = {} /\ passes = 1
    BY DEF Init
  <2>2. nextCallID = 0 /\ sem = 0 /\ active = 0 /\ cancelled \in BOOLEAN /\ closed = FALSE
    BY DEF Init
  <2>3. Len(completions) <= Buffer
    BY <1>1, <1>2
  <2>4. cancelled \in BOOLEAN /\ closed \in BOOLEAN
    BY <2>2
  <2>5. passes \in Nat \ {0} /\ nextCallID \in Nat /\ sem \in Nat /\ active \in Int
    BY <2>1, <2>2
  <2> QED
    BY <1>2, <1>3, <1>4, <2>1, <2>3, <2>4, <2>5 DEF TypeOK, GoroutineStates
<1>6. PassState
  BY <1>1 DEF Init, PassState
<1> QED
  BY <1>5, <1>6 DEF TypeInv

\* Registering a call keeps ids below the counter.
LEMMA GetOrCreateType ==
    ASSUME TypeOK, NEW c \in Calls, GetOrCreate(c)
    PROVE  /\ nextCallID' \in Nat /\ callID' \in [Calls -> 0..nextCallID']
           /\ callID'[c] \in Nat \ {0}
<1>1. nextCallID \in Nat /\ callID \in [Calls -> 0..nextCallID]
  BY DEF TypeOK
<1>2. CASE callID[c] = 0
  BY <1>1, <1>2 DEF GetOrCreate
<1>3. CASE callID[c] # 0
  <2>1. callID' = callID /\ nextCallID' = nextCallID
    BY <1>3 DEF GetOrCreate
  <2> QED
    BY <1>1, <1>3, <2>1
<1> QED
  BY <1>2, <1>3

\* A node that is reached gets an outcome.
LEMMA ExecNodeSees ==
    ASSUME TypeInv, ExecNode, Reached(pos)
    PROVE  /\ seen' \in [Node -> Outcome \cup {NotSeen}] /\ seen'[pos] \in Outcome
           /\ nextCallID' \in Nat /\ callID' \in [Calls -> 0..nextCallID']
<1> USE DEF TypeInv
<1>1. pos \in Node
  BY TreeAssumption DEF ExecNode, TypeOK, Node
<1>2. ArgOutcomes(pos) \in SUBSET Outcome
  BY <1>1, ArgOutcomesType
<1>3. CASE Kind[pos] = "async"
  <2>1. ExecAsync(pos) /\ Key[pos] \in Calls
    BY <1>1, <1>3, CallAssumption DEF ExecNode
  <2> DEFINE S == ArgOutcomes(pos)
  <2>2. CASE Err \in S \/ \E v \in S : IsUnknown(v)
    <3>1. Strict(S, Err) \in Outcome
      BY <1>2, StrictType, ConstantOutcomes
    <3> QED
      BY <1>1, <2>1, <2>2, <3>1 DEF ExecAsync, TypeOK
  <2>3. CASE ~(Err \in S \/ \E v \in S : IsUnknown(v))
    <3>1. ComputeResult(pos, Key[pos])
      BY <2>1, <2>3 DEF ExecAsync
    <3>2. /\ nextCallID' \in Nat /\ callID' \in [Calls -> 0..nextCallID']
          /\ callID'[Key[pos]] \in Nat
      BY <2>1, <3>1, GetOrCreateType DEF ComputeResult
    <3>3. PendingOutcome(callID'[Key[pos]]) \in Outcome
      BY <3>2 DEF PendingOutcome, Unk, Outcome, Tags, Causes, Sources
    <3>4. result[Key[pos]] # NoResult => result[Key[pos]] \in Outcome
      BY <2>1 DEF TypeOK
    <3> QED
      BY <1>1, <3>1, <3>2, <3>3, <3>4 DEF ComputeResult, TypeOK
  <2> QED
    BY <2>2, <2>3
<1>4. CASE Kind[pos] # "async"
  <2>1. ExecOther(pos)
    BY <1>1, <1>4 DEF ExecNode
  <2>2. Combine(pos, ArgOutcomes(pos)) \in Outcome
    BY <1>1, <1>2, <1>4, CombineType
  <2> QED
    BY <1>1, <2>1, <2>2, ConstantOutcomes DEF ExecOther, TypeOK
<1> QED
  BY <1>3, <1>4

LEMMA ExecNodeType ==
    ASSUME TypeInv, ExecNode
    PROVE  TypeInv'
<1> USE DEF TypeInv
<1>1. pc = "exec" /\ pc' = "exec" /\ pos \in Node /\ pos' = pos + 1 /\ N \in Nat \ {0}
  BY TreeAssumption DEF ExecNode, TypeOK, Node
<1>2. CASE ~Reached(pos)
  <2>1. TypeOK'
    BY <1>1, <1>2 DEF ExecNode, TypeOK
  <2>2. pos # N
    BY <1>2, RootReached
  <2>3. PassState'
    BY <1>1, <2>2 DEF PassState, Node
  <2> QED
    BY <2>1, <2>3
<1>3. CASE Reached(pos)
  <2>1. /\ seen' \in [Node -> Outcome \cup {NotSeen}] /\ seen'[pos] \in Outcome
        /\ nextCallID' \in Nat /\ callID' \in [Calls -> 0..nextCallID']
    BY <1>3, ExecNodeSees
  <2>2. TypeOK'
    BY <1>1, <2>1 DEF ExecNode, TypeOK, Node
  <2>3. PassState'
    BY <1>1, <2>1, NotSeenIsNoOutcome DEF PassState, Node
  <2> QED
    BY <2>2, <2>3
<1> QED
  BY <1>2, <1>3

\* A result sent on the channel is a well-formed record.
LEMMA DeliverType ==
    ASSUME TypeOK, NEW kind \in {"final", "ctx", "panic"}, NEW v \in Outcome, Deliver(kind, v)
    PROVE  /\ resCh' \in Seq([kind : {"final", "ctx", "panic"}, val : Outcome])
           /\ pc' = "close"
<1> DEFINE R == [kind : {"final", "ctx", "panic"}, val : Outcome]
<1> DEFINE r == [kind |-> kind, val |-> v]
<1>1. resCh \in Seq(R) /\ r \in R
  BY DEF TypeOK
<1> HIDE DEF R, r
<1>2. Append(resCh, r) \in Seq(R)
  BY <1>1
<1> QED
  BY <1>2 DEF Deliver, R, r

LEMMA FinishPassType ==
    ASSUME TypeInv, FinishPass
    PROVE  TypeInv'
<1> USE DEF TypeInv
<1>1. pc = "exec" /\ pos = N + 1 /\ N \in Nat \ {0} /\ N \in Node
  BY TreeAssumption DEF FinishPass, Node
<1>2. seen[N] \in Outcome
  BY <1>1 DEF PassState, TypeOK
<1>3. pos' = 1 /\ out' = seen[N] /\ seen' = [n \in Node |-> NotSeen]
  BY DEF FinishPass
<1>4. /\ pc' \in {"dispatch", "close"}
      /\ todo' \subseteq Int
      /\ resCh' \in Seq([kind : {"final", "ctx", "panic"}, val : Outcome])
  <2>1. CASE Unresolved(seen[N])
    <3>1. IDs(seen[N]) \subseteq Int
      BY <1>2 DEF IDs, Outcome, Causes
    <3> QED
      BY <2>1, <3>1 DEF FinishPass, TypeOK
  <2>2. CASE ~Unresolved(seen[N])
    BY <1>2, <2>2, DeliverType DEF FinishPass, TypeOK
  <2> QED
    BY <2>1, <2>2
<1>5. TypeOK'
  BY <1>1, <1>2, <1>3, <1>4 DEF FinishPass, TypeOK
<1>6. PassState'
  BY <1>3, <1>4 DEF PassState
<1> QED
  BY <1>5, <1>6

LEMMA DispatchType ==
    ASSUME TypeInv, Dispatch
    PROVE  TypeInv'
<1> USE DEF TypeInv
<1>1. todo' \subseteq todo
  BY DEF Dispatch
<1>2. /\ sem' \in Nat /\ active' \in Int
      /\ started' \in [Calls -> BOOLEAN] /\ gp' \in [Calls -> GoroutineStates]
  <2>1. CASE UNCHANGED <<sem, active, started, gp>>
    BY <2>1 DEF TypeOK, GoroutineStates
  <2>2. ASSUME NEW c \in Calls, Launch(c)
        PROVE  /\ sem' \in Nat /\ active' \in Int
               /\ started' \in [Calls -> BOOLEAN] /\ gp' \in [Calls -> GoroutineStates]
    <3>1. CASE ResultOrUnknownIsNil(c) /\ SlotFree
      <4>1. TryAcquire /\ started' = [started EXCEPT ![c] = TRUE] /\ gp' = [gp EXCEPT ![c] = "run"]
        BY <2>2, <3>1 DEF Launch
      <4>2. sem' \in Nat /\ active' \in Int
        BY <4>1 DEF TypeOK, TryAcquire
      <4> QED
        BY <4>1, <4>2 DEF TypeOK, GoroutineStates
    <3>2. CASE ~(ResultOrUnknownIsNil(c) /\ SlotFree)
      BY <2>2, <3>2 DEF TypeOK, GoroutineStates, Launch
    <3> QED
      BY <3>1, <3>2
  <2> QED
    BY <2>1, <2>2 DEF Dispatch
<1>3. TypeOK'
  BY <1>1, <1>2 DEF Dispatch, TypeOK, GoroutineStates
<1> QED
  BY <1>3 DEF Dispatch, PassState

\* The other steps of the evaluator.
LEMMA EvaluatorType ==
    ASSUME TypeInv, Evaluator
    PROVE  TypeInv'
<1> USE DEF TypeInv
<1>1. CASE ExecNode
  BY <1>1, ExecNodeType
<1>2. CASE ExecPanics
  <2>1. Deliver("panic", Err)
    BY <1>2 DEF ExecPanics
  <2> QED
    BY <1>2, <2>1, DeliverType, ConstantOutcomes DEF ExecPanics, TypeOK, PassState
<1>3. CASE FinishPass
  BY <1>3, FinishPassType
<1>4. CASE Dispatch
  BY <1>4, DispatchType
<1>5. CASE DispatchDone
  BY <1>5 DEF DispatchDone, TypeOK, PassState
<1>6. CASE AwaitCompletion
  <2>1. /\ Head(completions) \in Calls /\ Tail(completions) \in Seq(Calls)
        /\ Len(Tail(completions)) = Len(completions) - 1 /\ Len(completions) \in Nat
    BY <1>6, HeadTailProperties, LenProperties DEF AwaitCompletion, ReceiveCompletion, TypeOK
  <2>2. Buffer \in Nat
    BY LimitAssumption
  <2>3. batch' \subseteq Calls /\ completions' \in Seq(Calls) /\ Len(completions') <= Buffer
    BY <1>6, <2>1, <2>2 DEF AwaitCompletion, ReceiveCompletion, TypeOK
  <2> QED
    BY <1>6, <2>3 DEF AwaitCompletion, ReceiveCompletion, TypeOK, PassState
<1>7. CASE Decide \/ DrainTimeout
  <2>1. pc' \in {"exec", "drain"} /\ batch' \subseteq Calls /\ passes' \in Nat \ {0}
    BY <1>7 DEF Decide, DrainTimeout, StartPass, TypeOK
  <2> QED
    <3>1. TypeOK'
      BY <1>7, <2>1 DEF Decide, DrainTimeout, TypeOK
    <3>2. PassState'
      BY <1>7, TreeAssumption DEF Decide, DrainTimeout, PassState
    <3> QED
      BY <3>1, <3>2
<1>8. CASE AwaitCancelled
  <2>1. Deliver("ctx", Err)
    BY <1>8 DEF AwaitCancelled
  <2> QED
    BY <1>8, <2>1, DeliverType, ConstantOutcomes DEF AwaitCancelled, TypeOK, PassState
<1>9. CASE Close
  BY <1>9 DEF Close, TypeOK, PassState
<1> QED
  BY <1>1, <1>2, <1>3, <1>4, <1>5, <1>6, <1>7, <1>8, <1>9 DEF Evaluator

\* The steps of a goroutine.
LEMMA GoroutineType ==
    ASSUME TypeInv, NEW c \in Calls, Goroutine(c)
    PROVE  TypeInv'
<1> USE DEF TypeInv
<1>1. CASE CallReturns(c) \/ CallCancelled(c)
  <2>1. result' \in [Calls -> Outcome \cup {NoResult}]
    <3>1. PICK v \in Outcome \cup {NoResult} : result' = [result EXCEPT ![c] = v]
      BY <1>1, CallAssumption, ConstantOutcomes DEF CallReturns, CallCancelled
    <3> QED
      BY <3>1 DEF TypeOK
  <2> QED
    BY <1>1, <2>1, ZenonT(40) DEF CallReturns, CallCancelled, TypeOK, PassState
<1>2. CASE ReleaseSlot(c)
  BY <1>2 DEF ReleaseSlot, TypeOK, PassState
<1>3. CASE Deactivate(c)
  BY <1>3 DEF Deactivate, TypeOK, PassState
<1>4. CASE CheckContext(c)
  BY <1>4 DEF CheckContext, TypeOK, PassState
<1>5. CASE SendCompletion(c)
  <2>1. /\ completions' \in Seq(Calls)
        /\ Len(completions') = Len(completions) + 1 /\ Len(completions) \in Nat
    BY <1>5, LenProperties DEF SendCompletion, TypeOK
  <2>2. Buffer \in Nat
    BY LimitAssumption
  <2>3. Len(completions') <= Buffer
    BY <1>5, <2>1, <2>2 DEF SendCompletion
  <2> QED
    BY <1>5, <2>1, <2>3 DEF SendCompletion, TypeOK, PassState
<1>6. CASE SendAbandoned(c)
  BY <1>6 DEF SendAbandoned, TypeOK, PassState
<1> QED
  BY <1>1, <1>2, <1>3, <1>4, <1>5, <1>6 DEF Goroutine, Signal

LEMMA StepType == TypeInv /\ [Next]_vars => TypeInv'
<1> SUFFICES ASSUME TypeInv, [Next]_vars PROVE TypeInv'
  OBVIOUS
<1>1. CASE Evaluator
  BY <1>1, EvaluatorType
<1>2. ASSUME NEW c \in Calls, Goroutine(c) PROVE TypeInv'
  BY <1>2, GoroutineType
<1>3. CASE Cancel
  BY <1>3 DEF Cancel, TypeInv, TypeOK, PassState
<1>4. CASE UNCHANGED vars
  BY <1>4 DEF vars, TypeInv, TypeOK, PassState
<1> QED
  BY <1>1, <1>2, <1>3, <1>4 DEF Next, Terminated

\* The state of ConcurrentEval, its tracker, gate and channels, is always well typed.
THEOREM TypeCorrect == Spec => []TypeOK
<1>1. TypeInv => TypeOK
  BY DEF TypeInv
<1> QED
  BY InitType, StepType, <1>1, PTL DEF Spec

-----------------------------------------------------------------------------
(***************************************************************************)
(* The gate counts the goroutines.                                         *)
(***************************************************************************)
\* The calls whose goroutine is in one of the states X.
Having(f, X) == {c \in Calls : f[c] \in X}

\* When one goroutine moves, the number of goroutines in X changes by at most one.
LEMMA HavingMoves ==
    ASSUME NEW f \in [Calls -> GoroutineStates], NEW c \in Calls,
           NEW v \in GoroutineStates, NEW X
    PROVE  LET g == [f EXCEPT ![c] = v] IN
           /\ Cardinality(Having(f, X)) \in Nat
           /\ v \in X /\ f[c] \notin X
                => Cardinality(Having(g, X)) = Cardinality(Having(f, X)) + 1
           /\ v \notin X /\ f[c] \in X
                => /\ Cardinality(Having(f, X)) > 0
                   /\ Cardinality(Having(g, X)) = Cardinality(Having(f, X)) - 1
           /\ (v \in X <=> f[c] \in X) => Having(g, X) = Having(f, X)
<1> DEFINE g == [f EXCEPT ![c] = v]
<1>1. IsFiniteSet(Having(f, X)) /\ Cardinality(Having(f, X)) \in Nat
  BY CallAssumption, FS_Subset, FS_CardinalityType DEF Having
<1>2. ASSUME v \in X, f[c] \notin X
      PROVE  Cardinality(Having(g, X)) = Cardinality(Having(f, X)) + 1
  <2>1. Having(g, X) = Having(f, X) \cup {c} /\ c \notin Having(f, X)
    BY <1>2 DEF Having
  <2> QED
    BY <1>1, <2>1, FS_AddElement
<1>3. ASSUME v \notin X, f[c] \in X
      PROVE  /\ Cardinality(Having(f, X)) > 0
             /\ Cardinality(Having(g, X)) = Cardinality(Having(f, X)) - 1
  <2>1. Having(g, X) = Having(f, X) \ {c} /\ c \in Having(f, X)
    BY <1>3 DEF Having
  <2>2. Cardinality(Having(g, X)) = Cardinality(Having(f, X)) - 1
    BY <1>1, <2>1, FS_RemoveElement, ZenonT(40)
  <2>3. Cardinality(Having(f, X)) # 0
    BY <1>1, <2>1, FS_EmptySet
  <2> QED
    BY <1>1, <2>2, <2>3
<1>4. (v \in X <=> f[c] \in X) => Having(g, X) = Having(f, X)
  BY DEF Having
<1> QED
  BY <1>1, <1>2, <1>3, <1>4

HoldStates   == {"run", "release"}
ActiveStates == {"run", "release", "deactivate"}

Accounts ==
    /\ Max > 0 => sem = Cardinality(Having(gp, HoldStates)) /\ sem <= Max
    /\ active = Cardinality(Having(gp, ActiveStates))

\* GateAccounting in terms of Having, in both states of a step.
LEMMA AccountingByStates == (GateAccounting <=> Accounts) /\ (GateAccounting <=> Accounts)'
BY DEF Accounts, GateAccounting, Having, HoldsSlot, CountsActive, HoldStates, ActiveStates

AccountInv == TypeInv /\ GateAccounting /\ CallStates

LEMMA InitAccount == Init => AccountInv
<1> SUFFICES ASSUME Init PROVE AccountInv
  OBVIOUS
<1>1. Having(gp, HoldStates) = {} /\ Having(gp, ActiveStates) = {}
  BY DEF Init, Having, HoldStates, ActiveStates
<1>2. GateAccounting
  <2>1. Cardinality(Having(gp, HoldStates)) = 0 /\ Cardinality(Having(gp, ActiveStates)) = 0
    BY <1>1, FS_EmptySet
  <2> QED
    BY <2>1, AccountingByStates, LimitAssumption DEF Init, Accounts
<1>3. CallStates
  BY DEF Init, CallStates
<1> QED
  BY <1>2, <1>3, InitType DEF AccountInv

\* A launch takes a slot and starts a call that has not run.
LEMMA LaunchAccount ==
    ASSUME AccountInv, NEW c \in Calls, Launch(c), UNCHANGED result
    PROVE  GateAccounting' /\ CallStates'
<1> USE DEF AccountInv
<1>1. CASE ResultOrUnknownIsNil(c) /\ SlotFree
  <2>1. /\ gp \in [Calls -> GoroutineStates] /\ gp' = [gp EXCEPT ![c] = "run"]
        /\ started' = [started EXCEPT ![c] = TRUE] /\ started \in [Calls -> BOOLEAN]
        /\ gp[c] = "none" /\ result[c] = NoResult /\ TryAcquire /\ sem \in Nat /\ active \in Int
    BY <1>1 DEF Launch, ResultOrUnknownIsNil, CallStates, TypeInv, TypeOK, GoroutineStates
  <2>2. /\ Cardinality(Having(gp', HoldStates)) = Cardinality(Having(gp, HoldStates)) + 1
        /\ Cardinality(Having(gp', ActiveStates)) = Cardinality(Having(gp, ActiveStates)) + 1
    <3>1. /\ "run" \in HoldStates /\ gp[c] \notin HoldStates
          /\ "run" \in ActiveStates /\ gp[c] \notin ActiveStates /\ "run" \in GoroutineStates
      BY <2>1 DEF HoldStates, ActiveStates, GoroutineStates
    <3> QED
      BY <2>1, <3>1, HavingMoves, ZenonT(40)
  <2>3. GateAccounting'
    BY <1>1, <2>1, <2>2, AccountingByStates, LimitAssumption DEF TryAcquire, SlotFree, Accounts
  <2>4. CallStates'
    BY <2>1 DEF CallStates
  <2> QED
    BY <2>3, <2>4
<1>2. CASE ~(ResultOrUnknownIsNil(c) /\ SlotFree)
  BY <1>2 DEF Launch, GateAccounting, CallStates, HoldsSlot, CountsActive
<1> QED
  BY <1>1, <1>2

\* A goroutine that moves from f to v changes the counters as its states say.
LEMMA MoveAccount ==
    ASSUME AccountInv, NEW c \in Calls, NEW v \in GoroutineStates \ {"none", "run"},
           gp[c] # "none", gp' = [gp EXCEPT ![c] = v], UNCHANGED started,
           \A d \in Calls \ {c} : result'[d] = result[d],
           /\ gp[c] \in HoldStates /\ v \in HoldStates => UNCHANGED sem
           /\ gp[c] \notin HoldStates => v \notin HoldStates /\ UNCHANGED sem
           /\ gp[c] \in HoldStates /\ v \notin HoldStates
                 => sem' = IF Max > 0 /\ sem > 0 THEN sem - 1 ELSE sem,
           /\ gp[c] \in ActiveStates /\ v \in ActiveStates => UNCHANGED active
           /\ gp[c] \notin ActiveStates => v \notin ActiveStates /\ UNCHANGED active
           /\ gp[c] \in ActiveStates /\ v \notin ActiveStates => active' = active - 1
    PROVE  GateAccounting' /\ CallStates'
<1> USE DEF AccountInv
<1>1. /\ gp \in [Calls -> GoroutineStates] /\ started \in [Calls -> BOOLEAN]
      /\ sem \in Nat /\ active \in Int /\ Max \in Int
  BY LimitAssumption DEF TypeInv, TypeOK, GoroutineStates
<1>2. Accounts
  BY AccountingByStates
<1>m. ASSUME NEW X
      PROVE  /\ v \notin X /\ gp[c] \in X
                  => /\ Cardinality(Having(gp, X)) > 0
                     /\ Cardinality(Having(gp', X)) = Cardinality(Having(gp, X)) - 1
             /\ (v \in X <=> gp[c] \in X) => Having(gp', X) = Having(gp, X)
  <2>1. gp'[c] = v /\ \A b \in Calls \ {c} : gp'[b] = gp[b]
    BY <1>1
  <2>2. ASSUME v \notin X, gp[c] \in X
        PROVE  /\ Cardinality(Having(gp, X)) > 0
               /\ Cardinality(Having(gp', X)) = Cardinality(Having(gp, X)) - 1
    <3>1. IsFiniteSet(Having(gp, X)) /\ Cardinality(Having(gp, X)) \in Nat
      BY CallAssumption, FS_Subset, FS_CardinalityType DEF Having
    <3>2. Having(gp', X) = Having(gp, X) \ {c} /\ c \in Having(gp, X)
      BY <2>1, <2>2 DEF Having
    <3>3. Cardinality(Having(gp', X)) = Cardinality(Having(gp, X)) - 1
      BY <3>1, <3>2, FS_RemoveElement, ZenonT(40)
    <3>4. Cardinality(Having(gp, X)) # 0
      BY <3>1, <3>2, FS_EmptySet
    <3> QED
      BY <3>1, <3>3, <3>4
  <2>3. ASSUME v \in X <=> gp[c] \in X
        PROVE  Having(gp', X) = Having(gp, X)
    BY <2>1, <2>3 DEF Having
  <2> QED
    BY <2>2, <2>3
<1>3. active' = Cardinality(Having(gp', ActiveStates))
  <2>1. CASE gp[c] \in ActiveStates /\ v \notin ActiveStates
    <3>1. Cardinality(Having(gp', ActiveStates)) = Cardinality(Having(gp, ActiveStates)) - 1
      BY <2>1, <1>m
    <3> QED
      BY <1>2, <2>1, <3>1 DEF Accounts
  <2>2. CASE ~(gp[c] \in ActiveStates /\ v \notin ActiveStates)
    <3>1. Having(gp', ActiveStates) = Having(gp, ActiveStates) /\ active' = active
      BY <2>2, <1>m
    <3> QED
      BY <1>2, <3>1 DEF Accounts
  <2> QED
    BY <2>1, <2>2
<1>4. Max > 0 => sem' = Cardinality(Having(gp', HoldStates)) /\ sem' <= Max
  <2>1. CASE gp[c] \in HoldStates /\ v \notin HoldStates
    <3>1. /\ Cardinality(Having(gp, HoldStates)) > 0
          /\ Cardinality(Having(gp', HoldStates)) = Cardinality(Having(gp, HoldStates)) - 1
      BY <2>1, <1>m
    <3> QED
      BY <1>1, <1>2, <2>1, <3>1 DEF Accounts
  <2>2. CASE ~(gp[c] \in HoldStates /\ v \notin HoldStates)
    <3>1. Having(gp', HoldStates) = Having(gp, HoldStates) /\ sem' = sem
      BY <2>2, <1>m
    <3> QED
      BY <1>2, <3>1 DEF Accounts
  <2> QED
    BY <2>1, <2>2
<1>5. CallStates'
  BY <1>1 DEF CallStates
<1> QED
  BY <1>3, <1>4, <1>5, AccountingByStates DEF Accounts

LEMMA GoroutineAccount ==
    ASSUME AccountInv, NEW c \in Calls, Goroutine(c)
    PROVE  GateAccounting' /\ CallStates'
<1> USE DEF HoldStates, ActiveStates, GoroutineStates
<1>1. result \in [Calls -> Outcome \cup {NoResult}]
  BY DEF AccountInv, TypeInv, TypeOK
<1>2. CASE CallReturns(c) \/ CallCancelled(c)
  <2>1. /\ gp[c] = "run" /\ gp' = [gp EXCEPT ![c] = "release"]
        /\ UNCHANGED <<started, sem, active>> /\ \A d \in Calls \ {c} : result'[d] = result[d]
    BY <1>1, <1>2 DEF CallReturns, CallCancelled
  <2> QED
    BY <2>1, MoveAccount
<1>3. CASE ReleaseSlot(c)
  BY <1>3, MoveAccount DEF ReleaseSlot
<1>4. CASE Deactivate(c)
  BY <1>4, MoveAccount DEF Deactivate
<1>5. CASE CheckContext(c)
  <2>1. PICK v \in {"exit", "send"} : gp' = [gp EXCEPT ![c] = v]
    BY <1>5 DEF CheckContext
  <2> QED
    BY <1>5, <2>1, MoveAccount DEF CheckContext
<1>6. CASE SendCompletion(c)
  BY <1>6, MoveAccount DEF SendCompletion
<1>7. CASE SendAbandoned(c)
  BY <1>7, MoveAccount DEF SendAbandoned
<1> QED
  BY <1>2, <1>3, <1>4, <1>5, <1>6, <1>7 DEF Goroutine, Signal

LEMMA StepAccount == AccountInv /\ [Next]_vars => AccountInv'
<1> SUFFICES ASSUME AccountInv, [Next]_vars PROVE GateAccounting' /\ CallStates'
  BY StepType DEF AccountInv
<1>1. CASE UNCHANGED <<started, result, gp, sem, active>>
  BY <1>1 DEF AccountInv, GateAccounting, CallStates, HoldsSlot, CountsActive
<1>2. CASE Evaluator
  <2>1. CASE Dispatch
    BY <1>1, <2>1, LaunchAccount DEF Dispatch
  <2>2. CASE ~Dispatch
    BY <1>1, <1>2, <2>2 DEF Evaluator, ExecNode, ExecPanics, FinishPass, DispatchDone,
        AwaitCompletion, ReceiveCompletion, Decide, DrainTimeout, AwaitCancelled, Close
  <2> QED
    BY <2>1, <2>2
<1>3. ASSUME NEW c \in Calls, Goroutine(c) PROVE GateAccounting' /\ CallStates'
  BY <1>3, GoroutineAccount
<1>4. CASE Cancel
  BY <1>1, <1>4 DEF Cancel
<1>5. CASE UNCHANGED vars
  BY <1>1, <1>5 DEF vars
<1> QED
  BY <1>2, <1>3, <1>4, <1>5 DEF Next, Terminated

LEMMA AccountInvariant == Spec => []AccountInv
BY InitAccount, StepAccount, PTL DEF Spec

\* No slot of the launch limiter leaks, none is given back twice, and activeCalls is the
\* number of goroutines that have not reported to the gate.
THEOREM GateAccounted == Spec => []GateAccounting
<1>1. AccountInv => GateAccounting
  BY DEF AccountInv
<1> QED
  BY AccountInvariant, <1>1, PTL

-----------------------------------------------------------------------------
(***************************************************************************)
(* Calls run once, and DrainAll waits for all of them.                     *)
(***************************************************************************)
\* Where the goroutines and the results can change: a launch in Dispatch, and the steps
\* of a goroutine that has been launched.
LEMMA GoroutineStarts ==
    ASSUME AccountInv, Next, NEW c \in Calls
    PROVE  /\ gp'[c] = "run" => gp[c] = "run" \/ (gp[c] = "none" /\ Dispatch)
           /\ result'[c] # result[c] => gp[c] = "run"
<1>1. gp \in [Calls -> GoroutineStates] /\ result \in [Calls -> Outcome \cup {NoResult}]
  BY DEF AccountInv, TypeInv, TypeOK, GoroutineStates
<1>2. CASE Dispatch
  <2>1. CASE UNCHANGED gp
    BY <1>2, <2>1 DEF Dispatch
  <2>2. ASSUME NEW d \in Calls, ResultOrUnknownIsNil(d), gp' = [gp EXCEPT ![d] = "run"]
        PROVE  gp'[c] = "run" => gp[c] \in {"run", "none"}
    BY <1>1, <2>2 DEF ResultOrUnknownIsNil, AccountInv, CallStates
  <2> QED
    BY <1>2, <2>1, <2>2 DEF Dispatch, Launch
<1>3. ASSUME NEW d \in Calls, Goroutine(d)
      PROVE  /\ gp'[c] = "run" => gp[c] = "run"
             /\ result'[c] # result[c] => gp[c] = "run"
  BY <1>1, <1>3 DEF Goroutine, Signal, CallReturns, CallCancelled, ReleaseSlot, Deactivate,
      CheckContext, SendCompletion, SendAbandoned
<1>4. CASE Evaluator /\ ~Dispatch
  <2>1. gp' = gp /\ result' = result
    BY <1>4 DEF Evaluator, ExecNode, ExecPanics, FinishPass, DispatchDone,
        AwaitCompletion, Decide, DrainTimeout, AwaitCancelled, Close
  <2> QED
    BY <2>1
<1>5. CASE Cancel \/ Terminated
  <2>1. gp' = gp /\ result' = result
    BY <1>5 DEF Cancel, Terminated, vars
  <2> QED
    BY <2>1
<1> QED
  BY <1>2, <1>3, <1>4, <1>5 DEF Next

\* An implementation runs at most once per call and the result it publishes is final,
\* whatever the passes, completions and cancellations around it.
THEOREM CallsRunOnce == Spec => OneRunPerCall
<1> DEFINE Once == \A c \in Calls : /\ gp'[c] = "run" => gp[c] \in {"none", "run"}
                                    /\ result[c] # NoResult => result'[c] = result[c]
<1>1. AccountInv /\ [Next]_vars => [Once]_vars
  <2>1. AccountInv /\ Next => Once
    BY GoroutineStarts DEF AccountInv, CallStates
  <2> QED
    BY <2>1
<1> QED
  BY AccountInvariant, <1>1, PTL DEF Spec, OneRunPerCall

DrainInv == AccountInv /\ DrainAllComplete

\* When the gate counts nothing, nothing runs.
LEMMA InactiveStopped ==
    ASSUME AccountInv, active = 0, NEW c \in Calls
    PROVE  gp[c] \notin ActiveStates
<1>1. Cardinality(Having(gp, ActiveStates)) = 0 /\ IsFiniteSet(Having(gp, ActiveStates))
  <2>1. Accounts
    BY AccountingByStates DEF AccountInv
  <2>2. IsFiniteSet(Having(gp, ActiveStates))
    BY CallAssumption, FS_Subset DEF Having
  <2> QED
    BY <2>1, <2>2 DEF Accounts
<1>2. Having(gp, ActiveStates) = {}
  BY <1>1, FS_EmptySet
<1> QED
  BY <1>2 DEF Having

LEMMA StepDrain == DrainInv /\ [Next]_vars => DrainInv'
<1> SUFFICES ASSUME DrainInv, [Next]_vars, Strategy = "all", pc' = "exec",
                    NEW c \in Calls, started'[c]
             PROVE  gp'[c] # "run"
  BY StepAccount DEF DrainInv, DrainAllComplete
<1> USE DEF DrainInv
<1>1. CASE Next /\ pc = "exec"
  <2>1. ~Dispatch
    BY <1>1 DEF Dispatch
  <2>2. gp[c] # "run"
    BY <1>1 DEF DrainAllComplete, AccountInv, CallStates
  <2> QED
    BY <1>1, <2>1, <2>2, GoroutineStarts
<1>2. CASE Next /\ pc # "exec"
  <2>1. Decide \/ DrainTimeout
    BY <1>2 DEF Next, Evaluator, ExecNode, ExecPanics, FinishPass, Dispatch, DispatchDone,
        AwaitCompletion, AwaitCancelled, Close, Deliver, Goroutine, Signal, CallReturns,
        CallCancelled, ReleaseSlot, Deactivate, CheckContext, SendCompletion, SendAbandoned,
        Cancel, Terminated, vars
  <2>2. Decide /\ active = 0
    BY <2>1 DEF Decide, DrainTimeout, TimedWait, Reevaluate
  <2>3. gp[c] # "run"
    BY <2>2, InactiveStopped DEF ActiveStates
  <2> QED
    BY <2>2, <2>3 DEF Decide
<1>3. CASE UNCHANGED vars
  BY <1>3 DEF vars, DrainAllComplete
<1> QED
  BY <1>1, <1>2, <1>3

\* Under DrainAll a pass never runs while a launched call is unresolved.
THEOREM DrainAllWaits == Spec => []DrainAllComplete
<1>1. Init => DrainInv
  BY InitAccount DEF Init, DrainInv, DrainAllComplete
<1>2. DrainInv => DrainAllComplete
  BY DEF DrainInv
<1> QED
  BY <1>1, <1>2, StepDrain, PTL DEF Spec

-----------------------------------------------------------------------------
(***************************************************************************)
(* No lost wakeup.                                                         *)
(***************************************************************************)
LEMMA InitWake == Init => WakeInv
<1> SUFFICES ASSUME Init PROVE WakeInv
  OBVIOUS
<1>1. TypeInv /\ GateAccounting /\ CallStates
  BY InitAccount DEF AccountInv
<1>2. DistinctIds /\ ProperResults
  BY DEF Init, DistinctIds, ProperResults
<1>3. SeenOutstanding
  BY DEF Init, SeenOutstanding, NotSeen
<1>4. DispatchWakes /\ WaitWakes
  BY DEF Init, DispatchWakes, WaitWakes
<1> QED
  BY <1>1, <1>2, <1>3, <1>4 DEF WakeInv, TypeInv

\* WakeInv gives the invariants proved before.
LEMMA WakeAccount == WakeInv => AccountInv
BY DEF WakeInv, AccountInv, TypeInv

\* Ids stay unique.
LEMMA StepIds ==
    ASSUME WakeInv, [Next]_vars
    PROVE  DistinctIds'
<1>1. callID \in [Calls -> 0..nextCallID] /\ nextCallID \in Nat /\ DistinctIds
  BY DEF WakeInv, TypeOK
<1>2. CASE UNCHANGED callID
  BY <1>1, <1>2 DEF DistinctIds
<1>3. ASSUME NEW c \in Calls, GetOrCreate(c) PROVE DistinctIds'
  <2>1. CASE callID[c] = 0
    <3>1. \A d \in Calls : callID[d] # nextCallID + 1
      BY <1>1
    <3>2. callID' = [callID EXCEPT ![c] = nextCallID + 1]
      BY <1>3, <2>1 DEF GetOrCreate
    <3> QED
      BY <1>1, <3>1, <3>2 DEF DistinctIds
  <2>2. CASE callID[c] # 0
    BY <1>2, <1>3, <2>2 DEF GetOrCreate
  <2> QED
    BY <2>1, <2>2
<1>4. CASE ExecNode
  <2>1. pos \in Node
    BY <1>4, TreeAssumption DEF ExecNode, WakeInv, TypeOK, Node
  <2>2. CASE ~Reached(pos) \/ Kind[pos] # "async"
    BY <1>2, <1>4, <2>2 DEF ExecNode, ExecOther
  <2>3. CASE Reached(pos) /\ Kind[pos] = "async"
    <3>1. ExecAsync(pos) /\ Key[pos] \in Calls
      BY <1>4, <2>1, <2>3, CallAssumption DEF ExecNode
    <3> QED
      BY <1>2, <1>3, <3>1 DEF ExecAsync, ComputeResult
  <2> QED
    BY <2>2, <2>3
<1>5. CASE [Next]_vars /\ ~ExecNode
  BY <1>2, <1>5 DEF Next, Evaluator, ExecPanics, FinishPass, Dispatch, DispatchDone,
      AwaitCompletion, Decide, DrainTimeout, AwaitCancelled, Close, Goroutine, Signal,
      CallReturns, CallCancelled, ReleaseSlot, Deactivate, CheckContext, SendCompletion,
      SendAbandoned, Cancel, Terminated, vars
<1> QED
  BY <1>4, <1>5

\* Under ProperAnswers no result names a call.
LEMMA StepResults ==
    ASSUME ProperAnswers, WakeInv, [Next]_vars
    PROVE  ProperResults'
<1>1. /\ gp \in [Calls -> GoroutineStates] /\ result \in [Calls -> Outcome \cup {NoResult}]
      /\ CallStates /\ ProperResults /\ Err \in Outcome /\ Err.unk = {} /\ NoResult \notin Outcome
  BY ConstantOutcomes, CallAssumption DEF WakeInv, TypeOK, GoroutineStates
<1>2. CASE UNCHANGED <<gp, result>>
  BY <1>1, <1>2 DEF ProperResults
<1>3. CASE Dispatch
  <2>1. ASSUME NEW d \in Calls, gp' = [gp EXCEPT ![d] = "run"], result' = result
        PROVE  ProperResults'
    BY <1>1, <2>1 DEF ProperResults
  <2> QED
    BY <1>2, <1>3, <2>1 DEF Dispatch, Launch
<1>4. ASSUME NEW d \in Calls, Goroutine(d) PROVE ProperResults'
  <2>1. CASE CallReturns(d) \/ CallCancelled(d)
    <3>1. PICK v \in Outcomes \cup {Err} :
            result' = [result EXCEPT ![d] = v] /\ gp' = [gp EXCEPT ![d] = "release"]
      BY <2>1 DEF CallReturns, CallCancelled
    <3>2. v # NoResult /\ \A u \in v.unk : u.src = "attr"
      BY <1>1, <3>1 DEF ProperAnswers
    <3> QED
      BY <1>1, <3>1, <3>2 DEF ProperResults
  <2>2. CASE Signal(d)
    <3>1. PICK v \in GoroutineStates :
            /\ result' = result /\ gp' = [gp EXCEPT ![d] = v] /\ gp[d] \notin {"none", "run"}
      BY <2>2 DEF Signal, ReleaseSlot, Deactivate, CheckContext, SendCompletion, SendAbandoned,
          GoroutineStates
    <3> QED
      BY <1>1, <3>1 DEF ProperResults
  <2> QED
    BY <1>4, <2>1, <2>2 DEF Goroutine
<1>5. CASE Evaluator /\ ~Dispatch
  BY <1>2, <1>5 DEF Evaluator, ExecNode, ExecPanics, FinishPass, DispatchDone,
      AwaitCompletion, Decide, DrainTimeout, AwaitCancelled, Close
<1>6. CASE Cancel \/ UNCHANGED vars
  BY <1>2, <1>6 DEF Cancel, vars
<1> QED
  BY <1>3, <1>4, <1>5, <1>6 DEF Next, Terminated

\* A goroutine of the call c moves, or the channel grows.
LEMMA SignalLive ==
    ASSUME TypeInv, NEW c \in Calls, NEW d \in Calls, Goroutine(d), Live(c)
    PROVE  Live(c)' \/ CtxDone'
<1>1. gp \in [Calls -> GoroutineStates] /\ completions \in Seq(Calls)
  BY DEF TypeInv, TypeOK, GoroutineStates
<1>2. ASSUME NEW v \in GoroutineStates \ {"none", "exit"}, gp' = [gp EXCEPT ![d] = v],
             UNCHANGED completions
      PROVE  Live(c)'
  BY <1>1, <1>2 DEF Live, Signalled
<1>3. CASE SendCompletion(d)
  <2>1. /\ completions' = Append(completions, d) /\ gp' = [gp EXCEPT ![d] = "exit"]
        /\ Len(completions) \in Nat /\ Len(completions') = Len(completions) + 1
        /\ completions'[Len(completions) + 1] = d
        /\ \A i \in 1..Len(completions) : completions'[i] = completions[i]
    BY <1>1, <1>3, AppendProperties, LenProperties DEF SendCompletion
  <2>2. CASE c = d
    <3>1. Signalled(c)'
      BY <2>1, <2>2 DEF Signalled
    <3> QED
      BY <3>1 DEF Live
  <2>3. CASE c # d
    <3>1. Signalled(c) => Signalled(c)'
      BY <2>1 DEF Signalled
    <3>2. gp'[c] = gp[c]
      BY <1>1, <2>1, <2>3
    <3> QED
      BY <3>1, <3>2 DEF Live
  <2> QED
    BY <2>2, <2>3
<1>4. CASE SendAbandoned(d) \/ (CheckContext(d) /\ CtxDone)
  BY <1>4 DEF SendAbandoned, CheckContext, CtxDone
<1>5. CASE CallReturns(d) \/ CallCancelled(d) \/ ReleaseSlot(d) \/ Deactivate(d)
  BY <1>2, <1>5 DEF CallReturns, CallCancelled, ReleaseSlot, Deactivate, GoroutineStates
<1>6. CASE CheckContext(d) /\ ~CtxDone
  BY <1>2, <1>6 DEF CheckContext, GoroutineStates
<1> QED
  BY <1>3, <1>4, <1>5, <1>6 DEF Goroutine, Signal

\* Launching a call makes it live; the others stay as they are.
LEMMA LaunchLive ==
    ASSUME TypeInv, Dispatch, NEW c \in Calls
    PROVE  /\ Live(c) => Live(c)'
           /\ started'[c] /\ ~started[c] => Live(c)'
<1>1. gp \in [Calls -> GoroutineStates] /\ started \in [Calls -> BOOLEAN]
      /\ completions' = completions
  BY DEF TypeInv, TypeOK, GoroutineStates, Dispatch
<1>2. CASE UNCHANGED <<started, gp>>
  BY <1>1, <1>2 DEF Live, Signalled
<1>3. ASSUME NEW d \in Calls, started' = [started EXCEPT ![d] = TRUE],
             gp' = [gp EXCEPT ![d] = "run"]
      PROVE  /\ Live(c) => Live(c)'
             /\ started'[c] /\ ~started[c] => Live(c)'
  BY <1>1, <1>3 DEF Live, Signalled
<1> QED
  BY <1>2, <1>3 DEF Dispatch, Launch

\* Only the evaluator taking a completion makes a call stop being outstanding.
LEMMA StaysOutstanding ==
    ASSUME TypeInv, Next, ~AwaitCompletion
    PROVE  /\ CtxDone => CtxDone'
           /\ \A c \in Calls : Live(c) => Live(c)' \/ CtxDone'
           /\ \A c \in Calls : Outstanding(c) => Outstanding(c)'
           /\ Wakeable => Wakeable'
<1>1. CtxDone => CtxDone'
  BY DEF CtxDone, Next, Evaluator, ExecNode, ExecPanics, FinishPass, Dispatch, DispatchDone,
      AwaitCompletion, Decide, DrainTimeout, AwaitCancelled, Close, Goroutine, Signal,
      CallReturns, CallCancelled, ReleaseSlot, Deactivate, CheckContext, SendCompletion,
      SendAbandoned, Cancel, Terminated, vars
<1>2. ASSUME NEW c \in Calls
      PROVE  /\ Live(c) => Live(c)' \/ CtxDone'
             /\ started'[c] /\ ~started[c] => Live(c)'
  <2>1. CASE UNCHANGED <<gp, completions, started>>
    BY <2>1 DEF Live, Signalled
  <2>2. CASE Dispatch
    BY <2>2, LaunchLive
  <2>3. ASSUME NEW d \in Calls, Goroutine(d)
        PROVE  /\ Live(c) => Live(c)' \/ CtxDone'
               /\ started'[c] /\ ~started[c] => Live(c)'
    <3>1. started' = started
      BY <2>3 DEF Goroutine, Signal, CallReturns, CallCancelled, ReleaseSlot, Deactivate,
          CheckContext, SendCompletion, SendAbandoned
    <3> QED
      BY <2>3, <3>1, SignalLive
  <2>4. CASE Evaluator /\ ~Dispatch
    BY <2>1, <2>4 DEF Evaluator, ExecNode, ExecPanics, FinishPass, DispatchDone,
        Decide, DrainTimeout, AwaitCancelled, Close
  <2>5. CASE Cancel \/ Terminated
    BY <2>1, <2>5 DEF Cancel, Terminated, vars
  <2> QED
    BY <2>2, <2>3, <2>4, <2>5 DEF Next
<1> QED
  BY <1>1, <1>2 DEF Outstanding, Wakeable

\* The causes of an outcome are attributes or outstanding calls.
CausesOutstanding(v) ==
    \A u \in v.unk : u.src # "attr" =>
        \E c \in Calls : callID[c] = u.id /\ u.id # 0 /\ Outstanding(c)

\* The same in the state after a step.
NextOutstanding(v) ==
    \A u \in v.unk : u.src # "attr" =>
        \E c \in Calls : callID'[c] = u.id /\ u.id # 0 /\ Outstanding(c)'

\* Evaluating a node names only outstanding calls.
LEMMA ExecNodeOutstanding ==
    ASSUME WakeInv, ExecNode
    PROVE  SeenOutstanding'
<1>1. /\ pc = "exec" /\ pos \in Node /\ \A n \in Node : CausesOutstanding(seen[n])
      /\ seen \in [Node -> Outcome \cup {NotSeen}] /\ Args[pos] \subseteq Node
  <2>1. pc = "exec" /\ pos \in Node
    BY TreeAssumption DEF ExecNode, WakeInv, TypeOK, Node
  <2>2. \A n \in Node : CausesOutstanding(seen[n])
    BY <2>1 DEF WakeInv, SeenOutstanding, CausesOutstanding
  <2> QED
    BY <2>1, <2>2, TreeAssumption DEF WakeInv, TypeOK
<1>2. /\ callID \in [Calls -> 0..nextCallID] /\ nextCallID \in Nat
      /\ result \in [Calls -> Outcome \cup {NoResult}] /\ started \in [Calls -> BOOLEAN]
      /\ gp \in [Calls -> GoroutineStates] /\ TypeInv /\ CallStates /\ ProperResults
  BY DEF WakeInv, TypeInv, TypeOK, GoroutineStates
<1>3. \A c \in Calls : Outstanding(c)' <=> Outstanding(c)
  BY DEF ExecNode, Outstanding, Live, Signalled, CtxDone
<1>4. ASSUME NEW v, UNCHANGED callID, CausesOutstanding(v)
      PROVE  NextOutstanding(v)
  BY <1>3, <1>4 DEF CausesOutstanding, NextOutstanding
<1>5. ASSUME NEW c \in Calls, GetOrCreate(c), NEW v, CausesOutstanding(v)
      PROVE  NextOutstanding(v)
  <2>1. \A d \in Calls : callID[d] # 0 => callID'[d] = callID[d]
    BY <1>2, <1>5 DEF GetOrCreate
  <2> QED
    BY <1>2, <1>3, <1>5, <2>1 DEF CausesOutstanding, NextOutstanding
<1>6. \A w \in ArgOutcomes(pos) : CausesOutstanding(w)
  BY <1>1 DEF ArgOutcomes, Operands
<1>7. ArgOutcomes(pos) \in SUBSET Outcome
  BY <1>1, <1>2, ArgOutcomesType DEF TypeInv
<1>8. ASSUME NEW v, seen' = [seen EXCEPT ![pos] = v], NextOutstanding(v),
             \A n \in Node : NextOutstanding(seen[n])
      PROVE  SeenOutstanding'
  BY <1>1, <1>8 DEF SeenOutstanding, NextOutstanding
<1>9. CASE ~Reached(pos)
  <2>1. UNCHANGED <<seen, callID>>
    BY <1>9 DEF ExecNode
  <2> QED
    BY <1>1, <1>3, <2>1 DEF SeenOutstanding, CausesOutstanding
<1>10. CASE Reached(pos) /\ Kind[pos] # "async"
  <2>1. ExecOther(pos) /\ UNCHANGED callID
    BY <1>10 DEF ExecNode, ExecOther
  <2>2. PICK v : /\ seen' = [seen EXCEPT ![pos] = v]
                 /\ v = Combine(pos, ArgOutcomes(pos)) \/ v = Err
    BY <2>1 DEF ExecOther
  <2>3. CausesOutstanding(v)
    BY <1>1, <1>6, <1>7, <1>10, <2>2, CombineType, ConstantOutcomes DEF CausesOutstanding
  <2> QED
    BY <1>1, <1>4, <1>8, <2>1, <2>2, <2>3
<1>11. CASE Reached(pos) /\ Kind[pos] = "async"
  <2>1. ExecAsync(pos) /\ Key[pos] \in Calls
    BY <1>1, <1>11, CallAssumption DEF ExecNode
  <2> DEFINE S == ArgOutcomes(pos)
  <2>2. CASE Err \in S \/ \E v \in S : IsUnknown(v)
    <3>1. seen' = [seen EXCEPT ![pos] = Strict(S, Err)] /\ UNCHANGED callID
      BY <2>1, <2>2 DEF ExecAsync
    <3>2. CausesOutstanding(Strict(S, Err))
      BY <1>6, <1>7, StrictType, ConstantOutcomes DEF CausesOutstanding
    <3> QED
      BY <1>1, <1>4, <1>8, <3>1, <3>2
  <2>3. CASE ~(Err \in S \/ \E v \in S : IsUnknown(v))
    <3>0. PICK c \in Calls : c = Key[pos]
      BY <2>1
    <3>1. ComputeResult(pos, c) /\ GetOrCreate(c)
      BY <2>1, <2>3, <3>0 DEF ExecAsync, ComputeResult
    <3>2. \A n \in Node : NextOutstanding(seen[n])
      BY <1>1, <1>5, <2>1, <3>1
    <3>3. CASE result[c] # NoResult
      <4>1. NextOutstanding(result[c])
        BY <1>2, <2>1, <3>3 DEF ProperResults, NextOutstanding
      <4> QED
        BY <1>8, <3>1, <3>2, <3>3, <4>1 DEF ComputeResult
    <3>4. CASE result[c] = NoResult
      <4>1. Outstanding(c)'
        BY <1>2, <1>3, <2>1, <3>4 DEF ProperResults, CallStates, Outstanding, Live
      <4>2. callID'[c] # 0
        BY <1>2, <2>1, <3>1, GetOrCreateType DEF TypeInv
      <4>3. NextOutstanding(PendingOutcome(callID'[c]))
        BY <2>1, <4>1, <4>2 DEF NextOutstanding, PendingOutcome, Unk
      <4> QED
        BY <1>8, <3>1, <3>2, <3>4, <4>3 DEF ComputeResult
    <3> QED
      BY <3>3, <3>4
  <2> QED
    BY <2>2, <2>3
<1> QED
  BY <1>9, <1>10, <1>11

LEMMA StepSeen ==
    ASSUME WakeInv, [Next]_vars
    PROVE  SeenOutstanding'
<1>1. CASE ExecNode
  BY <1>1, ExecNodeOutstanding
<1>2. CASE Decide \/ DrainTimeout
  <2>1. seen' = [n \in Node |-> NotSeen]
    BY <1>2 DEF Decide, DrainTimeout, WakeInv, PassState
  <2> QED
    BY <2>1 DEF SeenOutstanding, NotSeen
<1>3. CASE UNCHANGED <<seen, callID>> /\ (pc' = "exec" => pc = "exec") /\ Next /\ ~AwaitCompletion
  <2>1. \A c \in Calls : Outstanding(c) => Outstanding(c)'
    BY <1>3, StaysOutstanding DEF WakeInv, TypeInv
  <2> QED
    BY <1>3, <2>1 DEF WakeInv, SeenOutstanding
<1>4. CASE FinishPass \/ AwaitCompletion
  BY <1>4, TreeAssumption DEF FinishPass, Deliver, AwaitCompletion, SeenOutstanding
<1>5. CASE Next /\ ~(ExecNode \/ Decide \/ DrainTimeout \/ FinishPass \/ AwaitCompletion)
  <2>1. UNCHANGED <<seen, callID>> /\ (pc' = "exec" => pc = "exec")
    BY <1>5 DEF Next, Evaluator, ExecPanics, Dispatch, DispatchDone, AwaitCancelled, Close,
        Deliver, Goroutine, Signal, CallReturns, CallCancelled, ReleaseSlot, Deactivate,
        CheckContext, SendCompletion, SendAbandoned, Cancel, Terminated, vars
  <2> QED
    BY <1>3, <1>5, <2>1
<1>6. CASE UNCHANGED vars
  BY <1>6 DEF vars, WakeInv, SeenOutstanding, Outstanding, Live, Signalled, CtxDone
<1> QED
  BY <1>1, <1>2, <1>4, <1>5, <1>6

\* A call that cannot be launched for want of a slot finds another one running.
LEMMA NoSlotIsLive ==
    ASSUME WakeInv, ~SlotFree
    PROVE  Wakeable
<1>1. sem = Cardinality(Having(gp, HoldStates)) /\ sem # 0
  <2>1. Accounts
    BY AccountingByStates DEF WakeInv
  <2> QED
    BY <2>1, LimitAssumption DEF SlotFree, Accounts
<1>2. Having(gp, HoldStates) # {}
  BY <1>1, FS_EmptySet
<1> QED
  BY <1>2 DEF Having, HoldStates, Wakeable, Live

\* Dispatching an id keeps the promise that somebody will wake the evaluator.
LEMMA DispatchKeepsWake ==
    ASSUME WakeInv, Dispatch
    PROVE  DispatchWakes'
<1>1. CASE Wakeable
  <2>1. Wakeable'
    BY <1>1, StaysOutstanding DEF WakeInv, TypeInv, Dispatch, AwaitCompletion, Next, Evaluator
  <2> QED
    BY <2>1 DEF DispatchWakes
<1>2. CASE ~Wakeable
  <2>1. PICK c \in Calls : callID[c] # 0 /\ callID[c] \in todo /\ ~started[c]
    BY <1>2 DEF WakeInv, DispatchWakes, Dispatch
  <2>2. PICK id \in todo :
          /\ todo' = todo \ {id} /\ callID' = callID
          /\ (\E d \in Calls : HasID(d, id))
                => \E d \in Calls : HasID(d, id) /\ Launch(d)
    BY DEF Dispatch
  <2>3. CASE callID[c] = id
    <3>1. HasID(c, id)
      BY <2>1, <2>3 DEF HasID, WakeInv, TypeOK
    <3>2. \E d \in Calls : HasID(d, id) /\ Launch(d)
      BY <2>2, <3>1
    <3>3. Launch(c)
      BY <2>1, <2>3, <3>2 DEF HasID, WakeInv, DistinctIds
    <3>4. ResultOrUnknownIsNil(c) /\ SlotFree
      BY <1>2, <2>1, NoSlotIsLive DEF ResultOrUnknownIsNil, WakeInv, CallStates
    <3>5. gp' = [gp EXCEPT ![c] = "run"] /\ gp \in [Calls -> GoroutineStates]
      BY <3>3, <3>4 DEF Launch, WakeInv, TypeOK, GoroutineStates
    <3>6. Live(c)'
      BY <3>5 DEF Live
    <3> QED
      BY <3>6 DEF DispatchWakes, Wakeable
  <2>4. CASE callID[c] # id
    <3>1. callID'[c] # 0 /\ callID'[c] \in todo'
      BY <2>1, <2>2, <2>4
    <3>2. started'[c] => Live(c)'
      BY <2>1, LaunchLive DEF WakeInv, TypeInv
    <3> QED
      BY <3>1, <3>2 DEF DispatchWakes, Wakeable
  <2> QED
    BY <2>3, <2>4
<1> QED
  BY <1>1, <1>2

LEMMA StepWakes ==
    ASSUME WakeInv, [Next]_vars
    PROVE  DispatchWakes' /\ WaitWakes'
<1> USE DEF DispatchWakes, WaitWakes
<1>1. CASE Dispatch
  BY <1>1, DispatchKeepsWake DEF Dispatch
<1>2. CASE FinishPass
  <2>1. pc' \in {"dispatch", "close"}
    BY <1>2 DEF FinishPass, Deliver
  <2>2. ASSUME Unresolved(seen[N])
        PROVE  Wakeable' \/ \E c \in Calls : callID'[c] # 0 /\ callID'[c] \in todo' /\ ~started'[c]
    <3>1. N \in Node
      BY TreeAssumption DEF Node
    <3>2. PICK u \in seen[N].unk : u.src # "attr"
      BY <2>2 DEF Unresolved, HasUnknownFunction
    <3>3. PICK c \in Calls : callID[c] = u.id /\ u.id # 0 /\ Outstanding(c)
      BY <1>2, <3>1, <3>2 DEF FinishPass, WakeInv, SeenOutstanding
    <3>4. u.id \in todo'
      BY <1>2, <2>2, <3>2 DEF FinishPass, IDs
    <3>5. callID' = callID /\ started' = started /\ (Live(c)' <=> Live(c)) /\ (CtxDone' <=> CtxDone)
      BY <1>2 DEF FinishPass, Live, Signalled, CtxDone
    <3> QED
      BY <3>3, <3>4, <3>5 DEF Outstanding, Wakeable
  <2>3. ~Unresolved(seen[N]) => pc' = "close"
    BY <1>2 DEF FinishPass, Deliver
  <2> QED
    BY <2>1, <2>2, <2>3
<1>3. CASE DispatchDone
  <2>1. Wakeable /\ pc' = "await"
    BY <1>3 DEF DispatchDone, WakeInv
  <2>2. Wakeable'
    BY <1>3, <2>1 DEF DispatchDone, Wakeable, Live, Signalled, CtxDone
  <2> QED
    BY <2>1, <2>2
<1>4. CASE Decide
  <2>1. CASE active = 0
    BY <1>4, <2>1 DEF Decide, Reevaluate, StartPass
  <2>2. CASE active # 0
    <3>1. Having(gp, ActiveStates) # {}
      <4>1. Accounts
        BY AccountingByStates DEF WakeInv
      <4> QED
        BY <2>2, <4>1, FS_EmptySet DEF Accounts
    <3>2. Wakeable
      BY <3>1 DEF Having, ActiveStates, Wakeable, Live
    <3>3. Wakeable'
      BY <1>4, <3>2 DEF Decide, Wakeable, Live, Signalled, CtxDone
    <3> QED
      BY <1>4, <3>3 DEF Decide, StartPass
  <2> QED
    BY <2>1, <2>2
<1>5. CASE ExecNode \/ ExecPanics \/ AwaitCompletion \/ DrainTimeout \/ AwaitCancelled \/ Close
  BY <1>5 DEF ExecNode, ExecPanics, AwaitCompletion, DrainTimeout, AwaitCancelled, Close,
      StartPass, Deliver
<1>6. CASE (\E c \in Calls : Goroutine(c)) \/ Cancel
  <2>1. pc' = pc /\ todo' = todo /\ callID' = callID /\ started' = started
    BY <1>6 DEF Goroutine, Signal, CallReturns, CallCancelled, ReleaseSlot, Deactivate,
        CheckContext, SendCompletion, SendAbandoned, Cancel
  <2>2. pc = pc' /\ ~AwaitCompletion
    BY <2>1 DEF AwaitCompletion
  <2>3. Wakeable => Wakeable'
    BY <1>6, <2>2, StaysOutstanding DEF WakeInv, TypeInv, Next
  <2> QED
    BY <2>1, <2>3 DEF WakeInv
<1>7. CASE UNCHANGED vars
  BY <1>7 DEF vars, WakeInv, Wakeable, Live, Signalled, CtxDone
<1> QED
  BY <1>1, <1>2, <1>3, <1>4, <1>5, <1>6, <1>7 DEF Next, Evaluator, Terminated

LEMMA StepWake == ProperAnswers /\ WakeInv /\ [Next]_vars => WakeInv'
<1> SUFFICES ASSUME ProperAnswers, WakeInv, [Next]_vars PROVE WakeInv'
  OBVIOUS
<1>1. AccountInv'
  BY WakeAccount, StepAccount
<1> QED
  BY <1>1, StepIds, StepResults, StepSeen, StepWakes DEF WakeInv, AccountInv, TypeInv

\* The evaluator never blocks without a bound on a channel nobody will write to, whatever
\* the expression, the launch limit, the capacity of the channel and the drain strategy,
\* if implementations answer and answer no unknown functions.
THEOREM NoWakeupIsLost ==
    ASSUME ProperAnswers
    PROVE  Spec => []NoLostWakeup
<1>1. WakeInv => NoLostWakeup
  BY DEF WakeInv, WaitWakes, NoLostWakeup, Wakeable
<1>2. WakeInv /\ [Next]_vars => WakeInv'
  BY StepWake, ProperAnswers
<1> QED
  BY InitWake, <1>1, <1>2, PTL DEF Spec

-----------------------------------------------------------------------------
(***************************************************************************)
(* Every pass but the first is paid for by a completion.                   *)
(***************************************************************************)
\* The calls whose completion the evaluator has taken, or that gave up signalling.
Used == {c \in Calls : gp[c] = "exit" /\ ~Signalled(c)}

\* A call signals once, as the last step of its goroutine.
QueueOnce ==
    /\ \A i, j \in 1..Len(completions) : completions[i] = completions[j] => i = j
    /\ \A i \in 1..Len(completions) : gp[completions[i]] = "exit"

\* Between the completion and the pass it triggers, the next pass is paid for.
Paid ==
    passes <= IF pc \in {"decide", "drain"} THEN Cardinality(Used) ELSE 1 + Cardinality(Used)

PaidInv == AccountInv /\ QueueOnce /\ Paid

LEMMA UsedFinite == IsFiniteSet(Used) /\ Cardinality(Used) \in Nat
BY CallAssumption, FS_Subset, FS_CardinalityType DEF Used

\* A goroutine that moves before it has exited takes nothing away from what is used.
LEMMA MovePays ==
    ASSUME PaidInv, NEW c \in Calls, gp[c] # "exit", NEW v \in GoroutineStates,
           gp' = [gp EXCEPT ![c] = v], UNCHANGED completions
    PROVE  QueueOnce' /\ Used \subseteq Used'
<1>1. gp \in [Calls -> GoroutineStates] /\ completions \in Seq(Calls) /\ QueueOnce
  BY DEF PaidInv, AccountInv, TypeInv, TypeOK, GoroutineStates
<1>2. \A i \in 1..Len(completions) : completions[i] \in Calls
  BY <1>1
<1>3. QueueOnce'
  BY <1>1, <1>2 DEF QueueOnce
<1> QED
  BY <1>1, <1>3 DEF Used, Signalled

\* A call that signals was not used, and is not used before it is received.
LEMMA SendPays ==
    ASSUME PaidInv, NEW c \in Calls, SendCompletion(c)
    PROVE  QueueOnce' /\ Used \subseteq Used'
<1>1. gp \in [Calls -> GoroutineStates] /\ completions \in Seq(Calls) /\ QueueOnce
  BY DEF PaidInv, AccountInv, TypeInv, TypeOK, GoroutineStates
<1>2. gp[c] = "send" /\ gp' = [gp EXCEPT ![c] = "exit"]
  BY DEF SendCompletion
<1> DEFINE L == Len(completions)
<1>3. /\ L \in Nat /\ Len(completions') = L + 1 /\ completions'[L + 1] = c
      /\ \A i \in 1..L : completions'[i] = completions[i] /\ completions[i] \in Calls
  BY <1>1, AppendProperties, LenProperties DEF SendCompletion
<1>4. \A i \in 1..L : completions[i] # c
  BY <1>1, <1>2 DEF QueueOnce
<1> HIDE DEF L
<1>5. ASSUME NEW i \in 1..(L + 1) PROVE i = L + 1 \/ i \in 1..L
  BY <1>3
<1>6. \A i \in 1..L : gp[completions[i]] = "exit"
  BY <1>1 DEF QueueOnce, L
<1>7. \A i, j \in 1..L : completions[i] = completions[j] => i = j
  BY <1>1 DEF QueueOnce, L
<1>8. \A i \in 1..(L + 1) : gp'[completions'[i]] = "exit"
  BY <1>1, <1>2, <1>3, <1>5, <1>6
<1>9. \A i, j \in 1..(L + 1) : completions'[i] = completions'[j] => i = j
  BY <1>3, <1>4, <1>5, <1>7
<1>10. QueueOnce'
  BY <1>3, <1>8, <1>9 DEF QueueOnce
<1>11. ASSUME NEW d \in Used PROVE d \in Used'
  <2>1. gp[d] = "exit" /\ d # c /\ d \in Calls /\ \A i \in 1..L : completions[i] # d
    BY <1>2 DEF Used, Signalled, L
  <2>2. \A i \in 1..(L + 1) : completions'[i] # d
    BY <1>3, <1>5, <2>1
  <2> QED
    BY <1>1, <1>2, <1>3, <2>1, <2>2 DEF Used, Signalled
<1> QED
  BY <1>10, <1>11

\* A call whose completion is received becomes used.
LEMMA ReceivePays ==
    ASSUME PaidInv, completions # <<>>, completions' = Tail(completions), UNCHANGED gp
    PROVE  QueueOnce' /\ \E c : c \notin Used /\ Used \cup {c} \subseteq Used'
<1>1. completions \in Seq(Calls) /\ QueueOnce
  BY DEF PaidInv, AccountInv, TypeInv, TypeOK
<1> DEFINE L == Len(completions)
<1>0. PICK c : c = completions[1]
  OBVIOUS
<1>2. /\ L \in Nat \ {0} /\ Len(completions') = L - 1
      /\ \A i \in 1..(L - 1) : completions'[i] = completions[i + 1]
  BY <1>1, HeadTailProperties, LenProperties
<1>3. \A i \in 1..L : completions[i] \in Calls /\ gp[completions[i]] = "exit"
  BY <1>1 DEF QueueOnce
<1>4. \A i, j \in 1..L : completions[i] = completions[j] => i = j
  BY <1>1 DEF QueueOnce
<1> HIDE DEF L
<1>5. \A i \in 1..(L - 1) : i + 1 \in 1..L /\ 1 \in 1..L /\ i + 1 # 1
  BY <1>2
<1>6. \A i \in 1..(L - 1) : gp'[completions'[i]] = "exit" /\ completions'[i] # c
  BY <1>0, <1>2, <1>3, <1>4, <1>5
<1>7. ASSUME NEW i \in 1..(L - 1), NEW j \in 1..(L - 1), completions'[i] = completions'[j]
      PROVE  i = j
  <2>1. i + 1 = j + 1
    BY <1>2, <1>4, <1>5, <1>7
  <2> QED
    BY <1>2, <2>1
<1>8. QueueOnce'
  BY <1>2, <1>6, <1>7 DEF QueueOnce
<1>9. c \in Calls /\ gp[c] = "exit" /\ c \notin Used /\ c \in Used'
  <2>1. 1 \in 1..L
    BY <1>2
  <2>2. c \in Calls /\ gp[c] = "exit" /\ Signalled(c)
    BY <1>0, <1>3, <2>1 DEF Signalled, L
  <2>3. ~Signalled(c)'
    BY <1>2, <1>6 DEF Signalled
  <2> QED
    BY <2>2, <2>3 DEF Used
<1>10. ASSUME NEW d \in Used PROVE d \in Used'
  <2>1. d \in Calls /\ gp[d] = "exit" /\ \A i \in 1..L : completions[i] # d
    BY DEF Used, Signalled, L
  <2>2. \A i \in 1..(L - 1) : completions'[i] # d
    BY <1>2, <1>5, <2>1
  <2> QED
    BY <1>2, <2>1, <2>2 DEF Used, Signalled
<1> QED
  BY <1>8, <1>9, <1>10

LEMMA StepPaid == PaidInv /\ [Next]_vars => PaidInv'
<1> SUFFICES ASSUME PaidInv, [Next]_vars PROVE QueueOnce' /\ Paid'
  BY StepAccount DEF PaidInv
<1>1. /\ IsFiniteSet(Used) /\ Cardinality(Used) \in Nat
      /\ IsFiniteSet(Used') /\ Cardinality(Used') \in Nat
  <2>1. IsFiniteSet(Used') /\ Cardinality(Used') \in Nat
    BY CallAssumption, FS_Subset, FS_CardinalityType DEF Used
  <2> QED
    BY <2>1, UsedFinite
<1>2. passes \in Nat /\ Paid /\ gp \in [Calls -> GoroutineStates] /\ QueueOnce
  BY DEF PaidInv, AccountInv, TypeInv, TypeOK, GoroutineStates
<1>3. Used \subseteq Used' => Cardinality(Used) <= Cardinality(Used')
  BY <1>1, FS_Subset
<1>4. UNCHANGED <<gp, completions>> => Used' = Used /\ QueueOnce'
  BY <1>2 DEF Used, Signalled, QueueOnce
<1>5. ASSUME Used \subseteq Used', UNCHANGED <<pc, passes>> PROVE Paid'
  BY <1>1, <1>2, <1>3, <1>5 DEF Paid
<1>6. CASE AwaitCompletion
  <2>1. /\ completions # <<>> /\ completions' = Tail(completions) /\ gp' = gp
        /\ pc \in {"await", "drain"} /\ pc' = "decide" /\ passes' = passes
    BY <1>6 DEF AwaitCompletion, ReceiveCompletion
  <2>2. PICK c : c \notin Used /\ Used \cup {c} \subseteq Used'
    BY <2>1, ReceivePays
  <2>3. Cardinality(Used \cup {c}) = Cardinality(Used) + 1 /\ IsFiniteSet(Used \cup {c})
    BY <1>1, <2>2, FS_AddElement
  <2>4. Cardinality(Used) + 1 <= Cardinality(Used')
    BY <1>1, <2>2, <2>3, FS_Subset
  <2>5. Paid'
    BY <1>1, <1>2, <2>1, <2>4 DEF Paid
  <2> QED
    BY <2>1, <2>5, ReceivePays
<1>7. CASE Decide \/ DrainTimeout
  <2>1. /\ UNCHANGED <<gp, completions>> /\ pc \in {"decide", "drain"}
        /\ \/ pc' = "drain" /\ passes' = passes
           \/ pc' = "exec" /\ passes' = passes + 1
    BY <1>7 DEF Decide, DrainTimeout, StartPass
  <2>2. Paid'
    BY <1>1, <1>2, <1>4, <2>1 DEF Paid
  <2> QED
    BY <1>4, <2>1, <2>2
<1>8. CASE Dispatch
  <2>1. UNCHANGED <<pc, passes, completions>>
    BY <1>8 DEF Dispatch
  <2>2. CASE UNCHANGED gp
    BY <1>4, <1>5, <2>1, <2>2
  <2>3. ASSUME NEW c \in Calls, ResultOrUnknownIsNil(c), gp' = [gp EXCEPT ![c] = "run"]
        PROVE  QueueOnce' /\ Paid'
    <3>1. gp[c] # "exit"
      BY <2>3 DEF PaidInv, AccountInv, CallStates, ResultOrUnknownIsNil
    <3> QED
      BY <1>5, <2>1, <2>3, <3>1, MovePays DEF GoroutineStates
  <2> QED
    BY <1>8, <2>2, <2>3 DEF Dispatch, Launch
<1>9. ASSUME NEW c \in Calls, Goroutine(c) PROVE QueueOnce' /\ Paid'
  <2>1. UNCHANGED <<pc, passes>>
    BY <1>9 DEF Goroutine, Signal, CallReturns, CallCancelled, ReleaseSlot, Deactivate,
        CheckContext, SendCompletion, SendAbandoned
  <2>2. CASE SendCompletion(c)
    BY <1>5, <2>1, <2>2, SendPays
  <2>3. CASE ~SendCompletion(c)
    <3>1. gp[c] # "exit" /\ UNCHANGED completions
          /\ \E v \in GoroutineStates : gp' = [gp EXCEPT ![c] = v]
      BY <1>9, <2>3 DEF Goroutine, Signal, CallReturns, CallCancelled, ReleaseSlot,
          Deactivate, CheckContext, SendAbandoned, GoroutineStates
    <3> QED
      BY <1>5, <2>1, <3>1, MovePays
  <2> QED
    BY <2>2, <2>3
<1>10. CASE \/ ExecNode \/ ExecPanics \/ FinishPass \/ DispatchDone \/ AwaitCancelled \/ Close
            \/ Cancel \/ UNCHANGED vars
  <2>1. /\ UNCHANGED <<gp, completions, passes>>
        /\ pc' = pc \/ pc' \notin {"decide", "drain"}
    BY <1>10 DEF ExecNode, ExecPanics, FinishPass, DispatchDone, AwaitCancelled, Close,
        Cancel, Deliver, vars
  <2>2. Paid'
    BY <1>1, <1>2, <1>4, <2>1 DEF Paid
  <2> QED
    BY <1>4, <2>1, <2>2
<1> QED
  BY <1>6, <1>7, <1>8, <1>9, <1>10 DEF Next, Evaluator, Terminated

\* A pass after the first is paid for by a completion taken from the channel, whatever the
\* drain strategy and however stale the completion: the evaluator cannot spin.
THEOREM PassesArePaid == Spec => []PassesPaid
<1>1. Init => PaidInv
  <2> SUFFICES ASSUME Init PROVE QueueOnce /\ Paid
    BY InitAccount DEF PaidInv
  <2>1. pc = "exec" /\ passes = 1 /\ Len(completions) = 0
    BY EmptySeq DEF Init
  <2> QED
    BY <2>1, UsedFinite DEF QueueOnce, Paid
<1>2. PaidInv => PassesPaid
  <2> SUFFICES ASSUME PaidInv PROVE PassesPaid
    OBVIOUS
  <2>1. passes \in Nat
    BY DEF PaidInv, AccountInv, TypeInv, TypeOK
  <2>2. Cardinality(Used) \in Nat /\ Paid
    BY UsedFinite DEF PaidInv
  <2>3. passes <= 1 + Cardinality(Used)
    BY <2>1, <2>2 DEF Paid
  <2> QED
    BY <2>3 DEF PassesPaid, Used
<1> QED
  BY <1>1, <1>2, StepPaid, PTL DEF Spec

-----------------------------------------------------------------------------
(***************************************************************************)
(* Only calls that a cause of the last result has the number of.           *)
(***************************************************************************)
\* Every cause the evaluator or a call state holds is a pending call, an attribute of the
\* expression or part of an answer, and the ids to dispatch are those of the last outcome.
Known(u) == u.src = "call" \/ OtherCause(u)

CausesKnown ==
    /\ \A u \in out.unk : Known(u)
    /\ \A n \in Node : \A u \in seen[n].unk : Known(u)
    /\ \A c \in Calls : result[c] # NoResult => \A u \in result[c].unk : Known(u)

LaunchInv ==
    /\ TypeInv
    /\ CausesKnown
    /\ pc = "dispatch" => todo \subseteq IDs(out)

\* The causes of a node are those of its arguments, an attribute, or a pending call.
LEMMA ExecNodeKnown ==
    ASSUME LaunchInv, ExecNode
    PROVE  \A n \in Node : \A u \in seen'[n].unk : Known(u)
<1>1. /\ pos \in Node /\ seen \in [Node -> Outcome \cup {NotSeen}] /\ Args[pos] \subseteq Node
      /\ \A n \in Node : \A u \in seen[n].unk : Known(u)
  <2>1. pos \in Node
    BY TreeAssumption DEF ExecNode, LaunchInv, TypeInv, TypeOK, Node
  <2>2. seen \in [Node -> Outcome \cup {NotSeen}]
    BY DEF LaunchInv, TypeInv, TypeOK
  <2> QED
    BY <2>1, <2>2, TreeAssumption DEF LaunchInv, CausesKnown
<1>2. /\ ArgOutcomes(pos) \in SUBSET Outcome
      /\ \A w \in ArgOutcomes(pos) : \A u \in w.unk : Known(u)
  BY <1>1, ArgOutcomesType DEF ArgOutcomes, Operands, LaunchInv, TypeInv
<1>3. ASSUME NEW v, seen' = [seen EXCEPT ![pos] = v], \A u \in v.unk : Known(u)
      PROVE  \A n \in Node : \A u \in seen'[n].unk : Known(u)
  BY <1>1, <1>3
<1>4. CASE ~Reached(pos)
  BY <1>1, <1>4 DEF ExecNode
<1>5. CASE Reached(pos) /\ Kind[pos] # "async"
  <2>1. PICK v : /\ seen' = [seen EXCEPT ![pos] = v]
                 /\ v = Combine(pos, ArgOutcomes(pos)) \/ v = Err
    BY <1>5 DEF ExecNode, ExecOther
  <2>2. CASE Kind[pos] = "attr"
    <3>1. \A u \in Combine(pos, ArgOutcomes(pos)).unk : u = [src |-> "attr", id |-> ExprId[pos]]
      BY <2>2 DEF Combine, Unk
    <3>2. \A u \in Combine(pos, ArgOutcomes(pos)).unk : Known(u)
      BY <1>1, <2>2, <3>1 DEF Known, OtherCause
    <3> QED
      BY <1>3, <2>1, <3>2, ConstantOutcomes
  <2>3. CASE Kind[pos] # "attr"
    <3>1. \A u \in Combine(pos, ArgOutcomes(pos)).unk :
             \E w \in ArgOutcomes(pos) : u \in w.unk
      BY <1>1, <1>2, <1>5, <2>3, CombineInherits
    <3> QED
      BY <1>2, <1>3, <2>1, <3>1, ConstantOutcomes
  <2> QED
    BY <2>2, <2>3
<1>6. CASE Reached(pos) /\ Kind[pos] = "async"
  <2>1. ExecAsync(pos)
    BY <1>6 DEF ExecNode
  <2>0. PICK c \in Calls : c = Key[pos]
    BY <1>1, <1>6, CallAssumption
  <2> DEFINE S == ArgOutcomes(pos)
  <2>2. CASE Err \in S \/ \E v \in S : IsUnknown(v)
    <3>1. seen' = [seen EXCEPT ![pos] = Strict(S, Err)]
      BY <2>1, <2>2 DEF ExecAsync
    <3>2. \A u \in Strict(S, Err).unk : Known(u)
      BY <1>2, StrictType, ConstantOutcomes
    <3> QED
      BY <1>3, <3>1, <3>2
  <2>3. CASE ~(Err \in S \/ \E v \in S : IsUnknown(v))
    <3>1. ComputeResult(pos, c)
      BY <2>0, <2>1, <2>3 DEF ExecAsync
    <3>2. CASE result[c] # NoResult
      <4>1. \A u \in result[c].unk : Known(u)
        BY <3>2 DEF LaunchInv, CausesKnown
      <4> QED
        BY <1>3, <3>1, <3>2, <4>1 DEF ComputeResult
    <3>3. CASE result[c] = NoResult
      <4>1. PICK id : id = callID'[c]
        OBVIOUS
      <4>2. \A u \in PendingOutcome(id).unk : Known(u)
        BY DEF PendingOutcome, Unk, Known
      <4>3. seen' = [seen EXCEPT ![pos] = PendingOutcome(id)]
        BY <3>1, <3>3, <4>1 DEF ComputeResult
      <4> QED
        BY <1>3, <4>2, <4>3
    <3> QED
      BY <3>2, <3>3
  <2> QED
    BY <2>2, <2>3
<1> QED
  BY <1>4, <1>5, <1>6

LEMMA StepKnown ==
    ASSUME LaunchInv, [Next]_vars
    PROVE  CausesKnown' /\ (pc' = "dispatch" => todo' \subseteq IDs(out'))
<1>1. CausesKnown /\ (pc = "dispatch" => todo \subseteq IDs(out))
  BY DEF LaunchInv
<1>2. CASE ExecNode
  <2>1. UNCHANGED <<pc, out, result>> /\ pc = "exec"
    BY <1>2 DEF ExecNode
  <2> QED
    BY <1>1, <1>2, <2>1, ExecNodeKnown DEF CausesKnown
<1>3. CASE FinishPass
  <2>1. /\ out' = seen[N] /\ N \in Node /\ result' = result
        /\ seen' = [n \in Node |-> NotSeen]
        /\ pc' = "dispatch" => todo' = IDs(seen[N])
    BY <1>3, TreeAssumption DEF FinishPass, Deliver, Node
  <2>2. \A n \in Node : \A u \in seen'[n].unk : Known(u)
    BY <2>1 DEF NotSeen
  <2> QED
    BY <1>1, <2>1, <2>2 DEF CausesKnown
<1>4. ASSUME NEW c \in Calls, CallReturns(c) \/ CallCancelled(c)
      PROVE  CausesKnown' /\ (pc' = "dispatch" => todo' \subseteq IDs(out'))
  <2>1. PICK v \in Outcomes \cup {Err} : result' = [result EXCEPT ![c] = v]
    BY <1>4 DEF CallReturns, CallCancelled
  <2>2. v # NoResult => \A u \in v.unk : Known(u)
    BY <2>1, ConstantOutcomes DEF Known, OtherCause
  <2>3. UNCHANGED <<pc, out, seen, todo>> /\ result \in [Calls -> Outcome \cup {NoResult}]
    BY <1>4 DEF CallReturns, CallCancelled, LaunchInv, TypeInv, TypeOK
  <2>4. ASSUME NEW d \in Calls, result'[d] # NoResult
        PROVE  \A u \in result'[d].unk : Known(u)
    BY <1>1, <2>1, <2>2, <2>3, <2>4 DEF CausesKnown
  <2> QED
    BY <1>1, <2>3, <2>4 DEF CausesKnown
<1>5. CASE Dispatch
  BY <1>1, <1>5 DEF Dispatch, CausesKnown
<1>6. CASE UNCHANGED <<out, seen, result, todo>> /\ (pc' = "dispatch" => pc = "dispatch")
  BY <1>1, <1>6 DEF CausesKnown
<1>7. CASE Evaluator
  BY <1>2, <1>3, <1>5, <1>6, <1>7 DEF Evaluator, ExecPanics, DispatchDone, AwaitCompletion,
      Decide, DrainTimeout, AwaitCancelled, Close, Deliver, StartPass
<1>8. ASSUME NEW c \in Calls, Goroutine(c)
      PROVE  CausesKnown' /\ (pc' = "dispatch" => todo' \subseteq IDs(out'))
  BY <1>4, <1>6, <1>8 DEF Goroutine, Signal, ReleaseSlot, Deactivate, CheckContext,
      SendCompletion, SendAbandoned
<1>9. CASE Cancel \/ UNCHANGED vars
  BY <1>6, <1>9 DEF Cancel, vars
<1> QED
  BY <1>7, <1>8, <1>9 DEF Next, Terminated

\* The step that launches a call.
LEMMA LaunchStep ==
    ASSUME LaunchInv, Next, NEW c \in Calls, ~started[c], started'[c]
    PROVE  \E u \in out.unk : u.id = callID[c] /\ (u.src = "call" \/ OtherCause(u))
<1>1. Dispatch
  BY DEF Next, Evaluator, ExecNode, ExecPanics, FinishPass, DispatchDone, AwaitCompletion,
      Decide, DrainTimeout, AwaitCancelled, Close, Goroutine, Signal, CallReturns,
      CallCancelled, ReleaseSlot, Deactivate, CheckContext, SendCompletion, SendAbandoned,
      Cancel, Terminated, vars
<1>2. callID[c] \in todo /\ callID[c] > 0
  <2>1. PICK id \in todo, d \in Calls : HasID(d, id) /\ Launch(d)
    BY <1>1 DEF Dispatch
  <2>2. d = c
    BY <2>1 DEF Launch, LaunchInv, TypeInv, TypeOK
  <2> QED
    BY <2>1, <2>2 DEF HasID
<1>3. PICK u \in out.unk : u.id = callID[c]
  BY <1>1, <1>2 DEF LaunchInv, IDs, Dispatch
<1> QED
  BY <1>3 DEF LaunchInv, CausesKnown, Known

\* A call that is launched is a cause of the last unknown result or has the number of an
\* unknown attribute, or of an unknown answer, that is: whatever the expression, the numbers
\* of its nodes and the answers, a call whose outcome was absorbed is launched only on a clash.
THEOREM LaunchesAreExplained == Spec => LaunchExplained
<1> DEFINE Explained ==
      \A c \in Calls :
          ~started[c] /\ started'[c] =>
              \E u \in out.unk : u.id = callID[c] /\ (u.src = "call" \/ OtherCause(u))
<1>1. Init => LaunchInv
  BY InitType DEF Init, LaunchInv, CausesKnown, NotSeen
<1>2. LaunchInv /\ [Next]_vars => LaunchInv'
  BY StepType, StepKnown DEF LaunchInv
<1>3. LaunchInv /\ [Next]_vars => [Explained]_vars
  BY LaunchStep
<1> QED
  BY <1>1, <1>2, <1>3, PTL DEF Spec, LaunchExplained

-----------------------------------------------------------------------------
(***************************************************************************)
(* ConcurrentEval implements EvalPromise, for every expression, whatever   *)
(* the calls answer and however late: a result that is published early is  *)
(* the value the expression has when every call has been answered.         *)
(***************************************************************************)
USE DEF passVars, callVars, gateVars, ctxVars

-----------------------------------------------------------------------------
(* What the expression denotes. *)
\* D gives the first m nodes their outcomes.
Solves(answer, D, m) ==
    D = [n \in 1..m |-> Complete(answer, n, Operands(n, D))]

\* What a node takes from its arguments depends on the outcomes of those only.
LEMMA SameOperands ==
    ASSUME NEW n, NEW s, NEW t, \A k \in Args[n] : s[k] = t[k]
    PROVE  Operands(n, s) = Operands(n, t)
BY DEF Operands, Overtaken

\* Outside a comprehension nothing is overtaken.
LEMMA PlainOperands ==
    ASSUME NEW n, NEW s, Kind[n] # "fold"
    PROVE  Operands(n, s) = {s[k] : k \in Args[n]}
BY DEF Operands, Overtaken

\* A set of numbers has a least element.
LEMMA LeastNumber ==
    ASSUME NEW S \in SUBSET Nat, S # {}
    PROVE  \E m \in S : \A k \in S : m <= k
<1> DEFINE R == {p \in Nat \X Nat : p[1] < p[2]}
<1>1. IsWellFoundedOn(R, Nat)
  BY NatLessThanWellFounded DEF OpToRel
<1>2. PICK m \in S : \A k \in S : <<k, m>> \notin R
  <2> HIDE DEF R
  <2> QED
    BY <1>1, WFMin
<1>3. ASSUME NEW k \in S PROVE m <= k
  <2>1. k \in Nat /\ m \in Nat /\ <<k, m>> \notin R
    BY <1>2
  <2>2. <<k, m>>[1] = k /\ <<k, m>>[2] = m
    OBVIOUS
  <2>3. ~(k < m)
    BY <2>1, <2>2
  <2> QED
    BY <2>1, <2>3
<1> QED
  BY <1>3

\* The outcome of a node needs those of earlier nodes only, so outcomes can be given to
\* one node after the other.
LEMMA SolvesNext ==
    ASSUME NEW answer, NEW D, NEW m \in Nat, m + 1 \in Node, Solves(answer, D, m)
    PROVE  \E E : Solves(answer, E, m + 1)
<1> DEFINE E == [n \in 1..(m + 1) |-> IF n = m + 1 THEN Complete(answer, n, Operands(n, D))
                                      ELSE D[n]]
<1>1. D = [n \in 1..m |-> Complete(answer, n, Operands(n, D))]
  BY DEF Solves
<1>2. \A k \in 1..m : E[k] = D[k]
  OBVIOUS
<1>3. \A n \in 1..(m + 1) : n \in Node /\ Args[n] \subseteq 1..m
  <2> SUFFICES ASSUME NEW n \in 1..(m + 1)
               PROVE  n \in Node /\ Args[n] \subseteq 1..m
    OBVIOUS
  <2>1. N \in Nat /\ Args \in [Node -> SUBSET Node] /\ \A a \in Node : \A k \in Args[a] : k < a
    BY TreeAssumption
  <2>2. n \in Node
    BY <2>1 DEF Node
  <2>3. ASSUME NEW k \in Args[n] PROVE k \in 1..m
    <3>1. k \in Node /\ k < n
      BY <2>1, <2>2
    <3> QED
      BY <3>1, <2>1 DEF Node
  <2> QED
    BY <2>2, <2>3
<1> HIDE DEF E
<1>4. \A n \in 1..(m + 1) : Operands(n, E) = Operands(n, D)
  BY <1>2, <1>3, SameOperands
<1>5. \A n \in 1..(m + 1) : E[n] = Complete(answer, n, Operands(n, E))
  <2> SUFFICES ASSUME NEW n \in 1..(m + 1)
               PROVE  E[n] = Complete(answer, n, Operands(n, E))
    OBVIOUS
  <2>1. E[n] = Complete(answer, n, Operands(n, D))
    <3>1. CASE n = m + 1
      BY <3>1 DEF E
    <3>2. CASE n # m + 1
      <4>1. n \in 1..m
        BY <3>2
      <4>2. D[n] = Complete(answer, n, Operands(n, D))
        BY <1>1, <4>1
      <4> QED
        BY <4>1, <4>2, <1>2
    <3> QED
      BY <3>1, <3>2
  <2> QED
    BY <2>1, <1>4
<1>6. E = [n \in 1..(m + 1) |-> E[n]]
  BY DEF E
<1>7. Solves(answer, E, m + 1)
  BY <1>5, <1>6 DEF Solves
<1> QED
  BY <1>7

LEMMA EvaluationExists ==
    ASSUME NEW answer
    PROVE  \E D : Solves(answer, D, N)
<1> DEFINE Unsolved == {m \in Nat : m <= N /\ ~\E D : Solves(answer, D, m)}
<1>1. SUFFICES Unsolved = {}
  BY TreeAssumption
<1>2. SUFFICES ASSUME Unsolved # {} PROVE FALSE
  OBVIOUS
<1>3. PICK m \in Unsolved : \A k \in Unsolved : m <= k
  <2>1. Unsolved \subseteq Nat
    OBVIOUS
  <2> HIDE DEF Unsolved
  <2> QED
    BY <1>2, <2>1, LeastNumber
<1>4. CASE m = 0
  <2>1. Solves(answer, [n \in 1..0 |-> 0], 0)
    BY DEF Solves
  <2> QED
    BY <1>4, <2>1
<1>5. CASE m # 0
  <2>1. m - 1 \in Nat /\ m - 1 <= N /\ m - 1 \notin Unsolved
    BY <1>3, <1>5, TreeAssumption
  <2>2. PICK D : Solves(answer, D, m - 1)
    BY <2>1
  <2>3. (m - 1) + 1 \in Node /\ (m - 1) + 1 = m
    BY <1>5, TreeAssumption DEF Node
  <2> QED
    BY <2>1, <2>2, <2>3, SolvesNext
<1> QED
  BY <1>4, <1>5

\* Every node has the outcome that is computed from those of its arguments.
LEMMA EvaluationEquation ==
    ASSUME NEW answer
    PROVE  \A n \in Node :
              Evaluation(answer)[n] = Complete(answer, n, Operands(n, Evaluation(answer)))
<1>1. Evaluation(answer) = CHOOSE D : Solves(answer, D, N)
  BY DEF Evaluation, Solves, Node
<1>2. Solves(answer, Evaluation(answer), N)
  BY <1>1, EvaluationExists
<1> QED
  BY <1>2 DEF Solves, Node

-----------------------------------------------------------------------------
(* The meaning of what a pass has seen. *)
\* The context is done, and an error or an unknown may come from an interruption.
Disturbed(v) == cancelled /\ (v = Err \/ IsUnknown(v))

\* An outcome of a pass is final already, unless it waits for a call or was disturbed.
Sound(n) ==
    \/ Unresolved(seen[n]) \/ Disturbed(seen[n])
    \/ \A a \in Promise!Full : Evaluation(a)[n] = seen[n]

\* A node that the pass has left out is one that an earlier argument has decided against.
PassMeaning ==
    pc = "exec" =>
        \A n \in Node :
            /\ n >= pos => seen[n] = NotSeen
            /\ n < pos /\ seen[n] = NotSeen => ~Reached(n)
            /\ seen[n] # NotSeen => Sound(n)

\* One result is sent, before the channel is closed.
ResultState ==
    /\ pc \notin {"close", "done"} => resCh = <<>> /\ ~closed
    /\ pc = "close" => resCh # <<>> /\ ~closed

PromiseInv == AccountInv /\ PassMeaning /\ ResultState

-----------------------------------------------------------------------------
(* Combining outcomes: s[k] is what the pass has seen of an argument of node n, D[k]    *)
(* what it denotes.                                                                    *)
Taken(n, s) == Operands(n, s) \ {NotSeen}
Agree(n, s, D) ==
    \A k \in Args[n] : s[k] # NotSeen => Unresolved(s[k]) \/ Disturbed(s[k]) \/ D[k] = s[k]

\* The error of argument k decides node n.
Decides(n, s, k) == s[k] = Err /\ ~Overtaken(n, s, k)

\* The arguments before the first error that decides have been seen.
SeenUpToError(n, s) ==
    \A k \in Args[n] : (\A j \in Args[n] : j < k => ~Decides(n, s, j)) => s[k] # NotSeen

LEMMA ConstantTags ==
    /\ True.tag = "true" /\ False.tag = "false" /\ Err.tag = "err"
    /\ \A c : Unk(c).tag = "unk" /\ Unk(c).unk = c
BY DEF True, False, Err, Val, Unk

\* If nothing is unresolved or disturbed, the arguments denote what has been seen.
LEMMA AgreeAll ==
    ASSUME NEW n, NEW s, NEW D, Agree(n, s, D), \A k \in Args[n] : s[k] # NotSeen,
           \A k \in Args[n] : ~Unresolved(s[k]) /\ ~Disturbed(s[k])
    PROVE  Operands(n, D) = Taken(n, s)
<1>1. \A k \in Args[n] : D[k] = s[k]
  BY DEF Agree
<1>2. Operands(n, D) = Operands(n, s)
  BY <1>1, SameOperands
<1> QED
  BY <1>2 DEF Taken, Operands

\* A merged unknown has the causes of all.
LEMMA MergedSound ==
    ASSUME NEW S, NEW u \in S, IsUnknown(u)
    PROVE  /\ IsUnknown(MergeUnknowns(S))
           /\ cancelled => Disturbed(MergeUnknowns(S))
           /\ \A v \in S : Unresolved(v) => Unresolved(MergeUnknowns(S))
<1>1. MergeUnknowns(S).tag = "unk" /\ MergeUnknowns(S).unk = UNION {v.unk : v \in S}
  BY ConstantTags DEF MergeUnknowns
<1>2. IsUnknown(MergeUnknowns(S))
  BY <1>1 DEF IsUnknown
<1>3. ASSUME NEW v \in S, Unresolved(v) PROVE HasUnknownFunction(MergeUnknowns(S))
  <2>1. PICK c \in v.unk : c.src # "attr"
    BY <1>3 DEF Unresolved, HasUnknownFunction
  <2>2. c \in MergeUnknowns(S).unk
    BY <1>1, <2>1
  <2> QED
    BY <2>1, <2>2 DEF HasUnknownFunction
<1> QED
  BY <1>2, <1>3 DEF Disturbed, Unresolved

\* The first error that decides a node decides it in every completion of the answers,
\* unless the context is done.
LEMMA ErrorSound ==
    ASSUME NEW n \in Node, NEW s, NEW D, Agree(n, s, D), SeenUpToError(n, s),
           Err \in Taken(n, s), ~cancelled
    PROVE  Err \in Operands(n, D)
<1>0. Args[n] \subseteq Nat
  BY TreeAssumption DEF Node
<1> DEFINE B == {k \in Args[n] : Decides(n, s, k)}
<1>1. B # {} /\ B \subseteq Nat
  BY <1>0 DEF Taken, Operands, Decides
<1>2. PICK k \in B : \A j \in B : k <= j
  <2> HIDE DEF B
  <2> QED
    BY <1>1, LeastNumber
<1>3. k \in Args[n] /\ s[k] = Err /\ ~Overtaken(n, s, k) /\ k \in Nat
  BY <1>0, <1>2 DEF Decides
<1>4. ~Unresolved(Err) /\ ~Disturbed(Err) /\ Err # NotSeen
  BY ConstantTags DEF Unresolved, Disturbed, IsUnknown, NotSeen
<1>5. D[k] = Err
  BY <1>3, <1>4 DEF Agree
<1>6. ASSUME NEW j \in Args[n], j < k, IsUnknown(D[j]) PROVE IsUnknown(s[j])
  <2>1. \A i \in Args[n] : i < j => ~Decides(n, s, i)
    BY <1>0, <1>2, <1>3, <1>6
  <2>2. s[j] # NotSeen
    BY <2>1 DEF SeenUpToError
  <2> QED
    BY <1>6, <2>2 DEF Agree, Unresolved, Disturbed
<1>7. ~Overtaken(n, D, k)
  BY <1>3, <1>6 DEF Overtaken
<1> QED
  BY <1>3, <1>5, <1>7 DEF Operands

\* If no error decides the node, every argument has been seen, and an unknown argument is
\* an operand.
LEMMA NoErrorSeen ==
    ASSUME NEW n, NEW s, SeenUpToError(n, s), Err \notin Taken(n, s)
    PROVE  /\ \A k \in Args[n] : s[k] # NotSeen
           /\ \A k \in Args[n] : IsUnknown(s[k]) => s[k] \in Taken(n, s)
<1>1. Err # NotSeen /\ ~IsUnknown(Err) /\ ~IsUnknown(NotSeen)
  BY ConstantTags DEF IsUnknown, NotSeen
<1>2. \A k \in Args[n] : ~Decides(n, s, k)
  BY <1>1 DEF Taken, Operands, Decides
<1> QED
  BY <1>1, <1>2 DEF SeenUpToError, Taken, Operands, Overtaken

LEMMA StrictSound ==
    ASSUME NEW n \in Node, NEW s, NEW D, Agree(n, s, D), SeenUpToError(n, s),
           Err \in Taken(n, s) \/ \E v \in Taken(n, s) : IsUnknown(v),
           NEW w, NEW x
    PROVE  LET v == Strict(Taken(n, s), w) IN
           Unresolved(v) \/ Disturbed(v) \/ v = Strict(Operands(n, D), x)
<1> DEFINE S == Taken(n, s)
           T == Operands(n, D)
<1>1. CASE Err \in S
  <2>1. Strict(S, w) = Err
    BY <1>1 DEF Strict
  <2>2. CASE cancelled
    BY <2>1, <2>2 DEF Disturbed
  <2>3. CASE ~cancelled
    <3>1. Err \in T
      BY <1>1, <2>3, ErrorSound
    <3> QED
      BY <2>1, <3>1 DEF Strict
  <2> QED
    BY <2>2, <2>3
<1>2. CASE Err \notin S
  <2>0. /\ \A k \in Args[n] : s[k] # NotSeen
        /\ \A k \in Args[n] : IsUnknown(s[k]) => s[k] \in S
    BY <1>2, NoErrorSeen
  <2>1. PICK u \in S : IsUnknown(u)
    BY <1>2
  <2> HIDE DEF S, T
  <2>2. Strict(S, w) = MergeUnknowns(S)
    BY <1>2, <2>1 DEF Strict
  <2>3. CASE cancelled \/ \E v \in S : Unresolved(v)
    BY <2>1, <2>2, <2>3, MergedSound DEF S
  <2>4. CASE ~cancelled /\ ~\E v \in S : Unresolved(v)
    <3>1. \A k \in Args[n] : ~Unresolved(s[k]) /\ ~Disturbed(s[k])
      BY <2>0, <2>4 DEF Disturbed, Unresolved
    <3>2. T = S
      BY <2>0, <3>1, AgreeAll DEF S, T
    <3> QED
      BY <1>2, <2>1, <2>2, <3>2 DEF Strict, S, T
  <2> QED
    BY <2>3, <2>4
<1> QED
  BY <1>1, <1>2

LEMMA ValuesAgree ==
    ASSUME NEW n, NEW s, NEW D, Agree(n, s, D), SeenUpToError(n, s),
           Err \notin Taken(n, s), \A v \in Taken(n, s) : ~IsUnknown(v)
    PROVE  Operands(n, D) = Taken(n, s)
<1>1. /\ \A k \in Args[n] : s[k] # NotSeen
      /\ \A k \in Args[n] : ~IsUnknown(s[k])
  BY NoErrorSeen
<1>2. \A k \in Args[n] : s[k] # Err
  BY <1>1 DEF Taken, Operands, Overtaken
<1>3. \A k \in Args[n] : ~Unresolved(s[k]) /\ ~Disturbed(s[k])
  BY <1>1, <1>2 DEF Unresolved, Disturbed
<1> QED
  BY <1>1, <1>3, AgreeAll

LEMMA LogicalSound ==
    ASSUME NEW n, Kind[n] # "fold", NEW s, NEW D, Agree(n, s, D), NEW x \in {True, False}, NEW y,
           x \notin Taken(n, s) => \A k \in Args[n] : s[k] # NotSeen
    PROVE  LET v == Logical(Taken(n, s), x, y) IN
           Unresolved(v) \/ Disturbed(v) \/ v = Logical(Operands(n, D), x, y)
<1> DEFINE K == Args[n]
           S == Taken(n, s)
           T == Operands(n, D)
<1>p. T = {D[k] : k \in K} /\ S = {s[k] : k \in K} \ {NotSeen}
  BY PlainOperands DEF Taken
<1>0. ~Unresolved(x) /\ ~Disturbed(x)
  BY ConstantTags DEF Unresolved, Disturbed, IsUnknown
<1>1. CASE x \in S
  <2>1. Logical(S, x, y) = x
    BY <1>1 DEF Logical
  <2>2. PICK k \in K : s[k] = x /\ s[k] # NotSeen
    BY <1>1, <1>p
  <2>3. D[k] = x
    BY <1>0, <2>2 DEF Agree
  <2>4. x \in T
    BY <1>p, <2>2, <2>3
  <2> QED
    BY <2>1, <2>4 DEF Logical
<1>2. CASE x \notin S
  <2> HIDE DEF K, S, T
  <2>1. CASE \E v \in S : Unresolved(v) \/ Disturbed(v)
    <3>1. CASE \E v \in S : IsUnknown(v)
      <4>1. Logical(S, x, y) = MergeUnknowns(S)
        BY <1>2, <3>1 DEF Logical
      <4>2. cancelled \/ \E v \in S : Unresolved(v)
        BY <2>1 DEF Disturbed
      <4> QED
        BY <3>1, <4>1, <4>2, MergedSound DEF S
    <3>2. CASE ~\E v \in S : IsUnknown(v)
      <4>1. Err \in S /\ cancelled
        BY <2>1, <3>2 DEF Unresolved, Disturbed
      <4>2. Logical(S, x, y) = Err
        BY <1>2, <3>2, <4>1 DEF Logical
      <4> QED
        BY <4>1, <4>2 DEF Disturbed, S
    <3> QED
      BY <3>1, <3>2
  <2>2. CASE ~\E v \in S : Unresolved(v) \/ Disturbed(v)
    <3>0. \A k \in Args[n] : s[k] # NotSeen
      BY <1>2 DEF S
    <3>1. \A k \in Args[n] : s[k] \in S
      BY <1>p, <3>0 DEF K
    <3>2. T = S
      BY <2>2, <3>0, <3>1, AgreeAll DEF S, T
    <3> QED
      BY <3>2 DEF S, T
  <2> QED
    BY <2>1, <2>2
<1> QED
  BY <1>1, <1>2

-----------------------------------------------------------------------------
(* A node of a pass. *)
\* When no argument before k has stopped the node, k has been evaluated.
LEMMA ArgsSeen ==
    ASSUME TypeOK, PassMeaning, pc = "exec", pos \in Node, Reached(pos), NEW k \in Args[pos],
           \A d \in Args[pos] :
               d < k => ~Stops(Kind[pos], seen[d]) \/ Overtaken(pos, seen, d)
    PROVE  seen[k] # NotSeen
<1> SUFFICES ASSUME seen[k] = NotSeen PROVE FALSE
  OBVIOUS
<1>1. k \in Node /\ k < pos
  BY TreeAssumption
<1>2. ~Reached(k)
  BY <1>1 DEF PassMeaning
<1>3. PICK a \in Node : /\ First[a] <= k /\ k < a
                        /\ \E d \in Args[a] :
                              d < k /\ Stops(Kind[a], seen[d]) /\ ~Overtaken(a, seen, d)
  BY <1>2 DEF Reached
<1>4. PICK d \in Args[a] : d < k /\ Stops(Kind[a], seen[d]) /\ ~Overtaken(a, seen, d)
  BY <1>3
<1>5. First[a] \in Int /\ a \in Int /\ d \in Int /\ k \in Int /\ pos \in Int
  BY <1>1, TreeAssumption DEF Node
<1>6. CASE a < pos
  <2>1. a \in (k + 1)..(pos - 1)
    BY <1>3, <1>5, <1>6
  <2>2. k < First[a]
    BY <2>1, TreeAssumption
  <2> QED
    BY <1>3, <1>5, <2>2
<1>7. CASE a = pos
  BY <1>4, <1>7
<1>8. CASE pos < a
  BY <1>1, <1>3, <1>4, <1>5, <1>8 DEF Reached
<1> QED
  BY <1>5, <1>6, <1>7, <1>8

\* A call, an equality and a comprehension are stopped by errors alone.
LEMMA ErrorsStop ==
    ASSUME TypeOK, PassMeaning, pc = "exec", pos \in Node, Reached(pos),
           Kind[pos] \in {"async", "strict", "fold"}
    PROVE  SeenUpToError(pos, seen)
<1> SUFFICES ASSUME NEW k \in Args[pos],
                    \A j \in Args[pos] : j < k => ~Decides(pos, seen, j)
             PROVE  seen[k] # NotSeen
  BY DEF SeenUpToError
<1>1. \A d \in Args[pos] : d < k => ~Stops(Kind[pos], seen[d]) \/ Overtaken(pos, seen, d)
  BY DEF Stops, Decides
<1> QED
  BY <1>1, ArgsSeen

\* The outcome that a reached node gets is sound: v is what ExecNode stores.
LEMMA ArgsAgree ==
    ASSUME TypeOK, PassMeaning, pc = "exec", pos \in Node, NEW a \in Promise!Full
    PROVE  Agree(pos, seen, Evaluation(a))
<1>1. Args[pos] \subseteq Node
  BY TreeAssumption
<1> QED
  BY <1>1 DEF Agree, PassMeaning, Sound

LEMMA CombineSound ==
    ASSUME TypeOK, PassMeaning, pc = "exec", pos \in Node, Reached(pos),
           Kind[pos] # "async", NEW a \in Promise!Full
    PROVE  LET v == Combine(pos, ArgOutcomes(pos)) IN
           Unresolved(v) \/ Disturbed(v) \/ v = Evaluation(a)[pos]
<1> DEFINE K == Args[pos]
           D == Evaluation(a)
           S == ArgOutcomes(pos)
           T == Operands(pos, D)
           Kept(v) == Unresolved(v) \/ Disturbed(v) \/ v = D[pos]
<1> SUFFICES Kept(Combine(pos, S))
  OBVIOUS
<1>1. Agree(pos, seen, D)
  BY ArgsAgree
<1>2. D[pos] = Combine(pos, T)
  <2>1. D[pos] = Complete(a, pos, T)
    BY EvaluationEquation
  <2> QED
    BY <2>1 DEF Complete
<1>3. S = Taken(pos, seen)
  BY DEF ArgOutcomes, Taken
<1> HIDE DEF D
<1>4. Kind[pos] # "fold" => \A k \in K : seen[k] # NotSeen => seen[k] \in S
  BY PlainOperands DEF ArgOutcomes
<1>5. Err # NotSeen /\ True # NotSeen /\ False # NotSeen
  BY DEF NotSeen, Err, True, False, Val
<1>6. CASE Kind[pos] \in {"attr", "true", "false"}
  <2>1. Combine(pos, S) = Combine(pos, T)
    BY <1>6 DEF Combine
  <2> QED
    BY <1>2, <2>1
<1>7. CASE Kind[pos] = "or"
  <2>1. Combine(pos, S) = Logical(S, True, False) /\ Combine(pos, T) = Logical(T, True, False)
    BY <1>7 DEF Combine
  <2>2. True \notin S => \A k \in K : seen[k] # NotSeen
    <3>1. True \notin S => \A k \in K : ~Stops(Kind[pos], seen[k])
      BY <1>4, <1>5, <1>7 DEF Stops
    <3> QED
      BY <3>1, ArgsSeen
  <2>p. Kind[pos] # "fold"
    BY <1>7
  <2> HIDE DEF S, Kept
  <2>3. LET v == Logical(S, True, False) IN
        Unresolved(v) \/ Disturbed(v) \/ v = Logical(T, True, False)
    BY <1>1, <1>3, <2>2, <2>p, LogicalSound
  <2> QED
    BY <1>2, <2>1, <2>3 DEF Kept
<1>8. CASE Kind[pos] = "and"
  <2>1. Combine(pos, S) = Logical(S, False, True) /\ Combine(pos, T) = Logical(T, False, True)
    BY <1>8 DEF Combine
  <2>2. False \notin S => \A k \in K : seen[k] # NotSeen
    <3>1. False \notin S => \A k \in K : ~Stops(Kind[pos], seen[k])
      BY <1>4, <1>5, <1>8 DEF Stops
    <3> QED
      BY <3>1, ArgsSeen
  <2>p. Kind[pos] # "fold"
    BY <1>8
  <2> HIDE DEF S, Kept
  <2>3. LET v == Logical(S, False, True) IN
        Unresolved(v) \/ Disturbed(v) \/ v = Logical(T, False, True)
    BY <1>1, <1>3, <2>2, <2>p, LogicalSound
  <2> QED
    BY <1>2, <2>1, <2>3 DEF Kept
<1>9. CASE Kind[pos] \in {"strict", "fold"}
  <2>1. /\ Combine(pos, S) = Strict(S, AllEqual(S))
        /\ Combine(pos, T) = Strict(T, AllEqual(T))
    BY <1>9 DEF Combine
  <2>2. SeenUpToError(pos, seen)
    BY <1>9, ErrorsStop
  <2> HIDE DEF K, S, Kept
  <2>3. CASE Err \in S \/ \E v \in S : IsUnknown(v)
    <3>1. LET v == Strict(S, AllEqual(S)) IN
          Unresolved(v) \/ Disturbed(v) \/ v = Strict(T, AllEqual(T))
      BY <1>1, <1>3, <2>2, <2>3, StrictSound
    <3> QED
      BY <1>2, <2>1, <3>1 DEF Kept
  <2>4. CASE ~(Err \in S \/ \E v \in S : IsUnknown(v))
    <3>1. T = S
      BY <1>1, <1>3, <2>2, <2>4, ValuesAgree
    <3> QED
      BY <1>2, <3>1 DEF Kept
  <2> QED
    BY <2>3, <2>4
<1>10. Kind[pos] \in Kinds
  BY TreeAssumption
<1> QED
  BY <1>6, <1>7, <1>8, <1>9, <1>10 DEF Kinds

\* A call: its answer, once it has one, is the one of every completion of the answers.
LEMMA AsyncSound ==
    ASSUME TypeOK, PassMeaning, pc = "exec", pos \in Node, Reached(pos),
           Kind[pos] = "async", ExecAsync(pos), NEW a \in Promise!Full
    PROVE  LET v == seen'[pos] IN
           Unresolved(v) \/ Disturbed(v) \/ v = Evaluation(a)[pos]
<1> DEFINE K == Args[pos]
           D == Evaluation(a)
           S == ArgOutcomes(pos)
           T == Operands(pos, D)
           c == Key[pos]
           Kept(v) == Unresolved(v) \/ Disturbed(v) \/ v = D[pos]
<1> SUFFICES Kept(seen'[pos])
  OBVIOUS
<1>1. Agree(pos, seen, D)
  BY ArgsAgree
<1>2. D[pos] = Strict(T, a[c])
  <2>1. D[pos] = Complete(a, pos, T)
    BY EvaluationEquation
  <2> QED
    BY <2>1 DEF Complete
<1>3. S = Taken(pos, seen)
  BY DEF ArgOutcomes, Taken
<1> HIDE DEF D
<1>4. SeenUpToError(pos, seen)
  BY ErrorsStop
<1>5. c \in Calls /\ seen \in [Node -> Outcome \cup {NotSeen}]
  BY CallAssumption DEF TypeOK
<1> HIDE DEF K, S, c, Kept
<1>6. CASE Err \in S \/ \E v \in S : IsUnknown(v)
  <2>1. seen'[pos] = Strict(S, Err)
    BY <1>5, <1>6 DEF ExecAsync, S
  <2>2. LET v == Strict(S, Err) IN Unresolved(v) \/ Disturbed(v) \/ v = Strict(T, a[c])
    BY <1>1, <1>3, <1>4, <1>6, StrictSound
  <2> QED
    BY <1>2, <2>1, <2>2 DEF Kept
<1>7. CASE ~(Err \in S \/ \E v \in S : IsUnknown(v))
  <2>1. T = S
    BY <1>1, <1>3, <1>4, <1>7, ValuesAgree
  <2>2. D[pos] = a[c]
    BY <1>2, <1>7, <2>1 DEF Strict
  <2>3. seen'[pos] = IF result[c] # NoResult THEN result[c] ELSE PendingOutcome(callID'[c])
    BY <1>5, <1>7 DEF ExecAsync, ComputeResult, S, c
  <2>4. CASE result[c] # NoResult
    <3>1. a[c] = result[c]
      BY <1>5, <2>4 DEF Promise!Full
    <3> QED
      BY <2>2, <2>3, <2>4, <3>1 DEF Kept
  <2>5. CASE result[c] = NoResult
    <3> DEFINE u == [src |-> "call", id |-> callID'[c]]
    <3>1. PendingOutcome(callID'[c]) = Unk({u}) /\ u.src = "call"
      BY DEF PendingOutcome
    <3> HIDE DEF u
    <3>2. Unresolved(Unk({u}))
      BY <3>1, ConstantTags DEF Unresolved, IsUnknown, HasUnknownFunction
    <3> QED
      BY <2>3, <2>5, <3>1, <3>2 DEF Kept
  <2> QED
    BY <2>4, <2>5
<1> QED
  BY <1>6, <1>7

LEMMA ExecNodeMeaning ==
    ASSUME TypeInv, PassMeaning, ExecNode
    PROVE  PassMeaning'
<1>1. /\ pc = "exec" /\ pos \in Node /\ pos' = pos + 1 /\ cancelled' = cancelled
      /\ result' = result /\ TypeOK /\ seen[pos] = NotSeen
  <2>1. pos \in 1..(N + 1) /\ pos <= N /\ N \in Nat
    BY TreeAssumption DEF ExecNode, TypeInv, TypeOK
  <2>2. pos \in Node
    BY <2>1 DEF Node
  <2>3. pc = "exec" /\ pos' = pos + 1 /\ result' = result /\ cancelled' = cancelled
    BY DEF ExecNode
  <2> QED
    BY <2>2, <2>3 DEF PassMeaning, TypeInv, Node
<1>2. \A n \in Node : n # pos => seen'[n] = seen[n]
  BY <1>1 DEF ExecNode, ExecAsync, ComputeResult, ExecOther, TypeOK
<1>3. Promise!Full' = Promise!Full
  BY <1>1 DEF Promise!Full
<1>4. \A n \in Node : n <= pos => (Reached(n)' <=> Reached(n))
  <2>1. \A a \in Node : Args[a] \subseteq Node
    BY TreeAssumption
  <2>2. \A n \in Node : n <= pos => \A d \in Node : d < n => seen'[d] = seen[d]
    BY <1>1, <1>2 DEF Node
  <2>3. \A n, a \in Node : n <= pos =>
           \A d \in Args[a] : d < n => (Overtaken(a, seen', d) <=> Overtaken(a, seen, d))
    <3> SUFFICES ASSUME NEW n \in Node, NEW a \in Node, n <= pos, NEW d \in Args[a], d < n
                 PROVE  Overtaken(a, seen', d) <=> Overtaken(a, seen, d)
      OBVIOUS
    <3>1. \A j \in Args[a] : j < d => j < n
      BY <2>1 DEF Node
    <3> QED
      BY <2>1, <2>2, <3>1 DEF Overtaken
  <2> QED
    BY <2>1, <2>2, <2>3 DEF Reached
<1>5. \A n \in Node :
         Sound(n)' <=> \/ Unresolved(seen'[n]) \/ Disturbed(seen'[n])
                       \/ \A a \in Promise!Full : Evaluation(a)[n] = seen'[n]
  BY <1>1, <1>3 DEF Sound, Disturbed
<1>6. PICK p \in Node : p = pos
  BY <1>1
<1>7. CASE ~Reached(pos)
  <2>1. seen' = seen
    BY <1>1, <1>7 DEF ExecNode
  <2>2. \A n \in Node : Sound(n)' <=> Sound(n)
    BY <2>1, <1>5 DEF Sound
  <2> QED
    BY <1>1, <1>4, <1>6, <1>7, <2>1, <2>2 DEF PassMeaning, Node
<1>8. CASE Reached(pos)
  <2>1. Sound(p)'
    <3>1. CASE Kind[pos] = "async"
      <4>1. ExecAsync(pos)
        BY <1>1, <1>8, <3>1 DEF ExecNode
      <4>2. \A a \in Promise!Full : Unresolved(seen'[pos]) \/ Disturbed(seen'[pos])
                                       \/ seen'[pos] = Evaluation(a)[pos]
        BY <1>1, <1>8, <3>1, <4>1, AsyncSound
      <4> QED
        BY <1>5, <1>6, <4>2
    <3>2. CASE Kind[pos] # "async"
      <4>1. ExecOther(pos)
        BY <1>1, <1>8, <3>2 DEF ExecNode
      <4>2. CASE seen' = [seen EXCEPT ![pos] = Combine(pos, ArgOutcomes(pos))]
        <5>1. seen'[pos] = Combine(pos, ArgOutcomes(pos))
          BY <1>1, <4>2 DEF TypeOK
        <5>2. \A a \in Promise!Full : Unresolved(seen'[pos]) \/ Disturbed(seen'[pos])
                                         \/ seen'[pos] = Evaluation(a)[pos]
          BY <1>1, <1>8, <3>2, <5>1, CombineSound
        <5> QED
          BY <1>5, <1>6, <5>2
      <4>3. CASE Interrupted(pos) /\ seen' = [seen EXCEPT ![pos] = Err]
        <5>1. seen'[pos] = Err /\ cancelled
          BY <1>1, <4>3 DEF TypeOK, Interrupted
        <5> QED
          BY <1>5, <1>6, <5>1 DEF Disturbed
      <4> QED
        BY <4>1, <4>2, <4>3 DEF ExecOther
    <3> QED
      BY <3>1, <3>2
  <2>2. seen'[p] # NotSeen
    BY <1>6, <1>8, ExecNodeSees, NotSeenIsNoOutcome
  <2>3. \A n \in Node : n # p => (Sound(n)' <=> Sound(n))
    BY <1>2, <1>5, <1>6 DEF Sound
  <2>4. \A n \in Node : /\ n < p <=> n < pos' /\ n # p
                        /\ n >= pos' => n # p /\ n >= p
    BY <1>1, <1>6 DEF Node
  <2> SUFFICES ASSUME NEW n \in Node
               PROVE  /\ n >= pos' => seen'[n] = NotSeen
                      /\ n < pos' /\ seen'[n] = NotSeen => ~Reached(n)'
                      /\ seen'[n] # NotSeen => Sound(n)'
    BY DEF PassMeaning
  <2>5. CASE n = p
    BY <2>1, <2>2, <2>4, <2>5
  <2>6. CASE n # p
    <3>1. seen'[n] = seen[n]
      BY <1>2, <1>6, <2>6
    <3>2. n < p => n <= pos
      BY <1>1, <1>6 DEF Node
    <3> QED
      BY <1>1, <1>4, <1>6, <2>3, <2>4, <2>6, <3>1, <3>2 DEF PassMeaning
  <2> QED
    BY <2>5, <2>6
<1> QED
  BY <1>7, <1>8

-----------------------------------------------------------------------------
(* The other steps. *)
\* Answers and cancellation narrow what is possible: what has been seen stays sound.
LEMMA MeaningKept ==
    ASSUME PassMeaning, UNCHANGED <<pos, seen>>, pc' = "exec" => pc = "exec",
           cancelled => cancelled', \A c \in Calls : result[c] # NoResult => result'[c] = result[c]
    PROVE  PassMeaning'
<1>1. Promise!Full' \subseteq Promise!Full
  BY DEF Promise!Full
<1>2. \A n \in Node : Sound(n) => Sound(n)'
  BY <1>1 DEF Sound, Disturbed
<1>3. \A n \in Node : Reached(n)' <=> Reached(n)
  BY DEF Reached
<1> QED
  BY <1>2, <1>3 DEF PassMeaning

LEMMA StepMeaning ==
    ASSUME AccountInv, PassMeaning, [Next]_vars
    PROVE  PassMeaning'
<1>0. TypeInv /\ TypeOK /\ PassState /\ CallStates
  BY DEF AccountInv, TypeInv
<1>1. CASE ExecNode
  BY <1>0, <1>1, ExecNodeMeaning
<1>2. CASE Decide \/ DrainTimeout
  <2>1. pos' = 1 /\ seen' = [n \in Node |-> NotSeen]
    BY <1>0, <1>2 DEF Decide, DrainTimeout, PassState
  <2> QED
    BY <2>1 DEF PassMeaning, Node
<1>3. CASE ExecPanics \/ FinishPass \/ Dispatch \/ DispatchDone \/ AwaitCompletion
           \/ AwaitCancelled \/ Close
  <2>1. pc' # "exec"
    BY <1>3 DEF ExecPanics, FinishPass, Dispatch, DispatchDone, AwaitCompletion,
        AwaitCancelled, Close, Deliver
  <2> QED
    BY <2>1 DEF PassMeaning
<1>4. ASSUME NEW c \in Calls, Goroutine(c) PROVE PassMeaning'
  <2>1. UNCHANGED <<pc, pos, seen, cancelled>>
    BY <1>4 DEF Goroutine, Signal, CallReturns, CallCancelled, ReleaseSlot, Deactivate,
        CheckContext, SendCompletion, SendAbandoned
  <2>2. \A d \in Calls : result[d] # NoResult => result'[d] = result[d]
    BY <1>0, <1>4 DEF Goroutine, Signal, CallReturns, CallCancelled, ReleaseSlot, Deactivate,
        CheckContext, SendCompletion, SendAbandoned, TypeOK, CallStates
  <2> QED
    BY <2>1, <2>2, MeaningKept
<1>5. CASE Cancel \/ Terminated \/ UNCHANGED vars
  <2>1. UNCHANGED <<pc, pos, seen, result>> /\ (cancelled => cancelled')
    BY <1>5 DEF Cancel, Terminated, vars
  <2> QED
    BY <2>1, MeaningKept
<1> QED
  BY <1>1, <1>2, <1>3, <1>4, <1>5 DEF Next, Evaluator

LEMMA StepResultState ==
    ASSUME AccountInv, ResultState, [Next]_vars
    PROVE  ResultState'
<1>0. TypeOK
  BY DEF AccountInv, TypeInv
<1>1. CASE ExecPanics \/ AwaitCancelled \/ (FinishPass /\ ~Unresolved(seen[N]))
  <2>1. PICK kind, v : Deliver(kind, v) /\ closed' = closed
    BY <1>1 DEF ExecPanics, AwaitCancelled, FinishPass
  <2>2. resCh = <<>> /\ ~closed
    BY <1>1 DEF ResultState, ExecPanics, AwaitCancelled, FinishPass
  <2>3. resCh' # <<>> /\ pc' = "close"
    BY <2>1, <2>2 DEF Deliver
  <2> QED
    BY <2>1, <2>2, <2>3 DEF ResultState
<1>2. CASE ExecNode \/ (FinishPass /\ Unresolved(seen[N])) \/ Dispatch \/ DispatchDone
           \/ AwaitCompletion \/ Decide \/ DrainTimeout
  <2>1. pc \notin {"close", "done"} /\ pc' \notin {"close", "done"} /\ UNCHANGED <<resCh, closed>>
    BY <1>2 DEF ExecNode, FinishPass, Dispatch, DispatchDone, AwaitCompletion, Decide,
        DrainTimeout, StartPass
  <2> QED
    BY <2>1 DEF ResultState
<1>3. CASE Close
  BY <1>3 DEF Close, ResultState
<1>4. ASSUME NEW c \in Calls, Goroutine(c) PROVE ResultState'
  <2>1. UNCHANGED <<pc, resCh, closed>>
    BY <1>4 DEF Goroutine, Signal, CallReturns, CallCancelled, ReleaseSlot, Deactivate,
        CheckContext, SendCompletion, SendAbandoned
  <2> QED
    BY <2>1 DEF ResultState
<1>5. CASE Cancel \/ Terminated \/ UNCHANGED vars
  BY <1>5 DEF Cancel, Terminated, vars, ResultState
<1> QED
  BY <1>1, <1>2, <1>3, <1>4, <1>5 DEF Next, Evaluator

LEMMA InitPromise == Init => PromiseInv
<1> SUFFICES ASSUME Init PROVE PassMeaning /\ ResultState
  BY InitAccount DEF PromiseInv
<1>1. PassMeaning
  BY DEF Init, PassMeaning, Node
<1>2. ResultState
  BY DEF Init, ResultState
<1> QED
  BY <1>1, <1>2

LEMMA StepPromise == PromiseInv /\ [Next]_vars => PromiseInv'
BY StepAccount, StepMeaning, StepResultState DEF PromiseInv

-----------------------------------------------------------------------------
(* Each step is a step of the promise, or leaves it as it is. *)
\* What a complete pass publishes is determined.
LEMMA FinalDetermined ==
    ASSUME PromiseInv, FinishPass, ~Unresolved(seen[N])
    PROVE  Promise!Determined(seen[N]) \/ (cancelled /\ seen[N].tag \in {"err", "unk"})
<1>1. N \in Node /\ pc = "exec" /\ seen[N] # NotSeen
  BY TreeAssumption DEF PromiseInv, AccountInv, TypeInv, PassState, FinishPass, Node
<1>2. Sound(N)
  BY <1>1 DEF PromiseInv, PassMeaning
<1> QED
  BY <1>2, ConstantTags DEF Sound, Disturbed, IsUnknown, Promise!Determined, Denote

\* EvalPromise and ConcurrentEval mean the same error.
LEMMA SameErr == Promise!Err = Err
BY DEF Promise!Err, Promise!Val, Err, Val

LEMMA PublishStep ==
    ASSUME PromiseInv, NEW kind, NEW v, Deliver(kind, v), resCh = <<>>, ~closed,
           \/ kind = "final" /\ Promise!Determined(v)
           \/ kind = "final" /\ cancelled /\ v.tag \in {"err", "unk"}
           \/ kind = "ctx" /\ cancelled /\ v = Err
           \/ kind = "panic" /\ MayPanic /\ v = Err,
           UNCHANGED <<result, cancelled, closed>>
    PROVE  Promise!PNext
<1> DEFINE r == [kind |-> kind, val |-> v]
<1>1. r.kind = kind /\ r.val = v /\ resCh' = <<r>>
  BY DEF Deliver
<1> HIDE DEF r
<1>2. resCh' # <<>> /\ resCh'[1] = r
  BY <1>1
<1>3. \/ r.kind = "final" /\ Promise!Determined(r.val)
      \/ r.kind = "final" /\ cancelled /\ r.val.tag \in {"err", "unk"}
      \/ r.kind = "ctx" /\ cancelled /\ r.val = Err
      \/ r.kind = "panic" /\ MayPanic /\ r.val = Err
  <2> HIDE DEF Promise!Determined
  <2>1. CASE kind = "final" /\ Promise!Determined(v)
    BY <1>1, <2>1
  <2>2. CASE kind = "final" /\ cancelled /\ v.tag \in {"err", "unk"}
    BY <1>1, <2>2
  <2>3. CASE kind = "ctx" /\ cancelled /\ v = Err
    BY <1>1, <2>3
  <2>4. CASE kind = "panic" /\ MayPanic /\ v = Err
    BY <1>1, <2>4
  <2> QED
    BY <2>1, <2>2, <2>3, <2>4
<1>4. Promise!Publish(r)
  BY <1>1, <1>3, SameErr DEF Promise!Publish
<1> QED
  BY <1>2, <1>4 DEF Promise!PNext

LEMMA StepsPromise == PromiseInv /\ [Next]_vars => [Promise!PNext]_(Promise!pvars)
<1> SUFFICES ASSUME PromiseInv, [Next]_vars
             PROVE  Promise!PNext \/ UNCHANGED <<result, cancelled, resCh, closed>>
  BY DEF Promise!pvars
<1>0. TypeOK /\ CallStates /\ ResultState
  BY DEF PromiseInv, AccountInv, TypeInv
<1>1. CASE FinishPass /\ ~Unresolved(seen[N])
  <2>1. Deliver("final", seen[N]) /\ UNCHANGED <<result, cancelled, closed>>
    BY <1>1 DEF FinishPass
  <2>2. resCh = <<>> /\ ~closed
    BY <1>0, <1>1 DEF ResultState, FinishPass
  <2> QED
    BY <1>1, <2>1, <2>2, FinalDetermined, PublishStep
<1>2. CASE ExecPanics
  <2>1. Deliver("panic", Err) /\ MayPanic /\ UNCHANGED <<result, cancelled, closed>>
    BY <1>2 DEF ExecPanics
  <2>2. resCh = <<>> /\ ~closed
    BY <1>0, <1>2 DEF ResultState, ExecPanics
  <2> QED
    BY <2>1, <2>2, PublishStep
<1>3. CASE AwaitCancelled
  <2>1. Deliver("ctx", Err) /\ cancelled /\ UNCHANGED <<result, cancelled, closed>>
    BY <1>3 DEF AwaitCancelled
  <2>2. resCh = <<>> /\ ~closed
    BY <1>0, <1>3 DEF ResultState, AwaitCancelled
  <2> QED
    BY <2>1, <2>2, PublishStep
<1>4. CASE Close
  <2>1. Promise!Finish
    BY <1>0, <1>4 DEF Close, ResultState, Promise!Finish
  <2> QED
    BY <2>1 DEF Promise!PNext
<1>5. ASSUME NEW c \in Calls, CallReturns(c) \/ CallCancelled(c) PROVE Promise!PNext
  <2>1. result[c] = NoResult
    BY <1>0, <1>5 DEF CallStates, CallReturns, CallCancelled
  <2>2. \E v \in Outcomes \cup IF cancelled \/ closed THEN {Err} ELSE {} :
           result' = [result EXCEPT ![c] = v]
    BY <1>5 DEF CallReturns, CallCancelled, CtxDone
  <2>3. UNCHANGED <<cancelled, resCh, closed>>
    BY <1>5 DEF CallReturns, CallCancelled
  <2>4. Promise!Answer(c)
    BY <2>1, <2>2, <2>3, SameErr DEF Promise!Answer
  <2> QED
    BY <2>4 DEF Promise!PNext
<1>6. CASE Cancel
  BY <1>6 DEF Cancel, Promise!PNext, Promise!CancelContext
<1>7. CASE ExecNode \/ (FinishPass /\ Unresolved(seen[N])) \/ Dispatch \/ DispatchDone
           \/ AwaitCompletion \/ Decide \/ DrainTimeout
  BY <1>7 DEF ExecNode, FinishPass, Dispatch, DispatchDone, AwaitCompletion, Decide,
      DrainTimeout
<1>8. ASSUME NEW c \in Calls, Signal(c) PROVE UNCHANGED <<result, cancelled, resCh, closed>>
  BY <1>8 DEF Signal, ReleaseSlot, Deactivate, CheckContext, SendCompletion, SendAbandoned
<1>9. CASE Terminated \/ UNCHANGED vars
  BY <1>9 DEF Terminated, vars
<1> QED
  BY <1>1, <1>2, <1>3, <1>4, <1>5, <1>6, <1>7, <1>8, <1>9 DEF Next, Evaluator, Goroutine

(* ConcurrentEval keeps the promise of EvalPromise: what it publishes is the value of the *)
(* expression whatever the calls that have not been answered would answer, it publishes   *)
(* one result and closes the channel after it.                                            *)
THEOREM ImplementsPromise == Spec => KeepsPromise
<1>1. Init => Promise!PInit
  BY DEF Init, Promise!PInit
<1> QED
  BY <1>1, InitPromise, StepPromise, StepsPromise, PTL DEF Spec, KeepsPromise, Promise!PSpec
=============================================================================
