--------------------------- MODULE ConcurrentEval ---------------------------
(***************************************************************************)
(* prog.ConcurrentEval: one evaluator goroutine evaluates an expression in *)
(* passes; each asynchronous call that a pass cannot resolve is launched,  *)
(* under a launch limit, on a goroutine of its own; completions come back  *)
(* on a bounded channel and a drain strategy decides when to run the next  *)
(* pass.  The context may be cancelled at any moment.                      *)
(*                                                                         *)
(* The expression is a tree whose nodes are numbered 1..N in post-order,   *)
(* which is the order in which the interpreter completes them: the root is *)
(* N and the subtree of node a is First[a]..a.                             *)
(***************************************************************************)
EXTENDS CelOutcomes, Sequences, FiniteSets

CONSTANTS
    N,          (* number of nodes of the expression                           *)
    Kind,       (* Node -> kind of the node                                    *)
    Args,       (* Node -> set of its argument nodes                           *)
    First,      (* Node -> first node of its subtree                           *)
    ExprId,     (* Node -> id of the AST node, the cause of an unknown attribute *)
    Calls,      (* identities of asynchronous calls: (AST node, arguments)     *)
    Key,        (* async node -> the call it makes                             *)
    Outcomes,   (* what an async implementation may return                     *)
    NoResult,   (* the nil ref.Val                                             *)
    Max,        (* launch limit, unlimited when not positive                   *)
    Buffer,     (* capacity of the completion channel                          *)
    Strategy,   (* drain strategy: "none", "ready" or "all"                    *)
    Debounce,   (* debounce of the "ready" strategy, 0 for none                *)
    MayPanic    (* whether an evaluation pass may panic (cost limit)           *)

Node  == 1..N
Kinds == {"async", "attr", "true", "false", "or", "and", "strict", "fold"}

ASSUME TreeAssumption ==
    /\ N \in Nat \ {0}
    /\ Kind \in [Node -> Kinds]
    /\ Args \in [Node -> SUBSET Node]
    /\ First \in [Node -> Node]
    /\ ExprId \in [Node -> Nat]
    /\ \A n \in Node : \A k \in Args[n] :
          /\ k < n /\ First[n] <= k
          /\ \A a \in (k + 1)..(n - 1) : k < First[a]    (* subtrees are nested *)
ASSUME CallAssumption ==
    /\ IsFiniteSet(Calls)
    /\ Key \in [{n \in Node : Kind[n] = "async"} -> Calls]
    /\ Outcomes \subseteq Outcome \cup {NoResult}
    /\ NoResult \notin Outcome
ASSUME LimitAssumption ==
    /\ Max \in Int
    /\ Buffer \in Nat \ {0}
    /\ Strategy \in {"none", "ready", "all"}
    /\ Debounce \in Nat
    /\ MayPanic \in BOOLEAN

VARIABLES
    pc,          (* where the evaluator is in ConcurrentEval                   *)
    pos,         (* next node of the pass                                      *)
    seen,        (* outcomes of the nodes evaluated in this pass               *)
    out,         (* outcome of the last complete pass                          *)
    todo,        (* ids still to be dispatched                                 *)
    batch,       (* calls whose completion was drained since the last pass     *)
    passes,      (* passes started (history)                                   *)
    callID,      (* tracker: call -> its id, 0 when not registered             *)
    nextCallID,  (* tracker: last id given                                     *)
    started,     (* call states: started                                       *)
    result,      (* call states: result, NoResult while nil                    *)
    gp,          (* goroutine of a call                                        *)
    sem,         (* slots taken in the semaphore                               *)
    active,      (* activeCalls of the gate                                    *)
    completions, (* the completion channel                                     *)
    cancelled,   (* the caller's context is done                               *)
    closed,      (* frame.Close has cancelled the context of the evaluation    *)
    resCh        (* results sent on the result channel                         *)

passVars == <<pos, seen, out, todo, batch, passes>>
callVars == <<callID, nextCallID, started, result>>
gateVars == <<sem, active, completions>>
ctxVars  == <<cancelled, closed>>
vars     == <<pc, passVars, callVars, gp, gateVars, ctxVars, resCh>>

\* The context that the calls run under is derived from the caller's.
CtxDone == cancelled \/ closed

-----------------------------------------------------------------------------
(***************************************************************************)
(* One pass of the interpreter.                                            *)
(***************************************************************************)
NotSeen == [tag |-> "none", unk |-> {}]

\* The outcome of an argument that makes the interpreter skip the later ones.
Stops(kind, v) ==
    \/ kind = "or" /\ v = True
    \/ kind = "and" /\ v = False
    \/ kind \in {"async", "strict", "fold"} /\ v = Err

\* The turns of a comprehension add to @result one after the other: once @result is
\* unknown it stays so, and the error of a later turn is dropped.
Overtaken(n, s, k) ==
    Kind[n] = "fold" /\ s[k] = Err /\ \E j \in Args[n] : j < k /\ IsUnknown(s[j])

\* What a node takes from its arguments, whose outcomes s gives.
Operands(n, s) == {s[k] : k \in {j \in Args[n] : ~Overtaken(n, s, j)}}

\* No enclosing node has been decided by an argument evaluated before n.
Reached(n) ==
    \A a \in Node : First[a] <= n /\ n < a =>
        \A d \in Args[a] : d < n => ~Stops(Kind[a], seen[d]) \/ Overtaken(a, seen, d)

ArgOutcomes(n) == Operands(n, seen) \ {NotSeen}

\* What a node other than an async call computes from its arguments.
Combine(n, S) ==
    CASE Kind[n] = "attr"            -> Unk({[src |-> "attr", id |-> ExprId[n]]})
      [] Kind[n] = "true"            -> True
      [] Kind[n] = "false"           -> False
      [] Kind[n] = "or"              -> Logical(S, True, False)
      [] Kind[n] = "and"             -> Logical(S, False, True)
      [] Kind[n] \in {"strict", "fold"} -> Strict(S, AllEqual(S))

\* getOrCreate: the call is registered under the next id if it is new.
GetOrCreate(c) ==
    IF callID[c] = 0
    THEN /\ nextCallID' = nextCallID + 1
         /\ callID' = [callID EXCEPT ![c] = nextCallID + 1]
    ELSE UNCHANGED <<callID, nextCallID>>

PendingOutcome(id) == Unk({[src |-> "call", id |-> id]})

\* ComputeResult: register the call, then answer its result or an unknown.
ComputeResult(n, c) ==
    /\ GetOrCreate(c)
    /\ seen' = [seen EXCEPT ![n] = IF result[c] # NoResult THEN result[c]
                                   ELSE PendingOutcome(callID'[c])]

ExecAsync(n) ==
    LET S == ArgOutcomes(n) IN
    IF Err \in S \/ \E v \in S : IsUnknown(v)
    THEN /\ seen' = [seen EXCEPT ![n] = Strict(S, Err)]
         /\ UNCHANGED <<callID, nextCallID>>
    ELSE ComputeResult(n, Key[n])

InterruptedEarly(n) == Kind[n] = "fold"  \* mutated: interrupted by a live context

\* A comprehension polls the interrupt channel of the context.
Interrupted(n) == Kind[n] = "fold" /\ cancelled

ExecOther(n) ==
    /\ \/ seen' = [seen EXCEPT ![n] = Combine(n, ArgOutcomes(n))]
       \/ Interrupted(n) /\ seen' = [seen EXCEPT ![n] = Err]
    /\ UNCHANGED <<callID, nextCallID>>

ExecNode ==
    /\ pc = "exec" /\ pos <= N
    /\ pos' = pos + 1
    /\ IF ~Reached(pos) THEN UNCHANGED <<seen, callID, nextCallID>>
       ELSE IF Kind[pos] = "async" THEN ExecAsync(pos)
       ELSE ExecOther(pos)
    /\ UNCHANGED <<pc, out, todo, batch, passes, started, result, gp, gateVars,
                   ctxVars, resCh>>

-----------------------------------------------------------------------------
(***************************************************************************)
(* The loop of ConcurrentEval around the passes.                           *)
(***************************************************************************)
StartPass ==
    /\ pc' = "exec"
    /\ passes' = passes + 1
    /\ batch' = {}

\* Send on the result channel and leave the loop.
Deliver(kind, v) ==
    /\ resCh' = Append(resCh, [kind |-> kind, val |-> v])
    /\ pc' = "close"

ExecPanics ==
    /\ MayPanic /\ pc = "exec"
    /\ Deliver("panic", Err)
    /\ UNCHANGED <<passVars, callVars, gp, gateVars, ctxVars>>

\* Mutated: the test of HasUnknownFunction is inverted.
UnresolvedInverted(v) == IsUnknown(v) /\ ~HasUnknownFunction(v)

Unresolved(v) == IsUnknown(v) /\ HasUnknownFunction(v)

FinishPass ==
    /\ pc = "exec" /\ pos = N + 1
    /\ out' = seen[N]
    /\ pos' = 1
    /\ seen' = [n \in Node |-> NotSeen]
    /\ IF Unresolved(seen[N])
       THEN /\ pc' = "dispatch"
            /\ todo' = IDs(seen[N])
            /\ resCh' = resCh
       ELSE /\ Deliver("final", seen[N])
            /\ todo' = todo
    /\ UNCHANGED <<batch, passes, callVars, gp, gateVars, ctxVars>>

SlotFreeOffByOne == Max > 0 => sem <= Max  \* mutated: one slot too many

\* TryAcquire: a slot of the semaphore, if there is one to take.
SlotFree == Max > 0 => sem < Max

TryAcquire ==
    /\ sem' = IF Max > 0 THEN sem + 1 ELSE sem
    /\ active' = active + 1

ResultNotRead(c) == TRUE  \* mutated: launch does not look at the state of the call

ResultOrUnknownIsNil(c) == result[c] = NoResult /\ ~started[c]

Launch(c) ==
    IF ResultOrUnknownIsNil(c) /\ SlotFree
    THEN /\ TryAcquire
         /\ started' = [started EXCEPT ![c] = TRUE]
         /\ gp' = [gp EXCEPT ![c] = "run"]
    ELSE UNCHANGED <<sem, active, started, gp>>

HasAnyID(c, id) == callID[c] # 0  \* mutated: every registered call is dispatched

HasID(c, id) == id > 0 /\ callID[c] = id

\* DispatchPendingAsyncCalls, one id per step, in increasing order.
Dispatch ==
    /\ pc = "dispatch" /\ todo # {}
    /\ \E id \in todo :
       /\ \A other \in todo : id <= other
       /\ todo' = todo \ {id}
       /\ IF \E c \in Calls : HasID(c, id)
          THEN \E c \in Calls : HasID(c, id) /\ Launch(c)
          ELSE UNCHANGED <<sem, active, started, gp>>
    /\ UNCHANGED <<pc, pos, seen, out, batch, passes, callID, nextCallID, result,
                   completions, ctxVars, resCh>>

DispatchDone ==
    /\ pc = "dispatch" /\ todo = {}
    /\ pc' = "await"
    /\ UNCHANGED <<passVars, callVars, gp, gateVars, ctxVars, resCh>>

\* Mutated: the completion stays in the channel.
ReceivePeek ==
    /\ completions # <<>>
    /\ batch' = batch \cup {Head(completions)}
    /\ UNCHANGED gateVars

\* The evaluator takes the oldest completion.
ReceiveCompletion ==
    /\ completions # <<>>
    /\ batch' = batch \cup {Head(completions)}
    /\ completions' = Tail(completions)
    /\ UNCHANGED <<sem, active>>

AwaitCompletion ==
    /\ pc \in {"await", "drain"}
    /\ ReceiveCompletion
    /\ pc' = "decide"
    /\ UNCHANGED <<pos, seen, out, todo, passes, callVars, gp, ctxVars, resCh>>

ReevaluateEarly == active = 0 \/ batch # {}  \* mutated: "all" does not wait for all

\* NextAction of the three strategies.
Reevaluate ==
    \/ active = 0
    \/ Strategy = "none" /\ batch # {}
TimedWait == Strategy = "ready" /\ batch # {} /\ Debounce > 0

\* Load the number of active calls and consult the strategy.
Decide ==
    /\ pc = "decide"
    /\ IF Reevaluate
       THEN StartPass
       ELSE /\ pc' = "drain"
            /\ UNCHANGED <<passes, batch>>
    /\ UNCHANGED <<pos, seen, out, todo, callVars, gp, gateVars, ctxVars, resCh>>

DrainTimeout ==
    /\ pc = "drain" /\ TimedWait
    /\ StartPass
    /\ UNCHANGED <<pos, seen, out, todo, callVars, gp, gateVars, ctxVars, resCh>>

\* Mutated: only the second select of the loop looks at the context.
AwaitCancelledLate ==
    /\ pc = "drain" /\ cancelled
    /\ Deliver("ctx", Err)
    /\ UNCHANGED <<passVars, callVars, gp, gateVars, ctxVars>>

AwaitCancelled ==
    /\ pc \in {"await", "drain"} /\ cancelled
    /\ Deliver("ctx", Err)
    /\ UNCHANGED <<passVars, callVars, gp, gateVars, ctxVars>>

\* The deferred frame.Close and close(resCh).
Close ==
    /\ pc = "close"
    /\ pc' = "done"
    /\ closed' = TRUE
    /\ UNCHANGED <<passVars, callVars, gp, gateVars, cancelled, resCh>>

-----------------------------------------------------------------------------
(***************************************************************************)
(* The goroutine of a launched call.                                       *)
(***************************************************************************)
\* The implementation answers.  A nil answer leaves the result nil.
CallReturns(c) ==
    /\ gp[c] = "run"
    /\ \E v \in Outcomes : result' = [result EXCEPT ![c] = v]
    /\ gp' = [gp EXCEPT ![c] = "release"]
    /\ UNCHANGED <<pc, passVars, callID, nextCallID, started, gateVars, ctxVars, resCh>>

\* Mutated: the result is set again when the context is done after the answer.
CallCancelledTwice(c) ==
    /\ gp[c] \in {"run", "release"} /\ CtxDone
    /\ result' = [result EXCEPT ![c] = Err]
    /\ gp' = [gp EXCEPT ![c] = "release"]
    /\ UNCHANGED <<pc, passVars, callID, nextCallID, started, gateVars, ctxVars, resCh>>

\* The context is done first.
CallCancelled(c) ==
    /\ gp[c] = "run" /\ CtxDone
    /\ result' = [result EXCEPT ![c] = Err]
    /\ gp' = [gp EXCEPT ![c] = "release"]
    /\ UNCHANGED <<pc, passVars, callID, nextCallID, started, gateVars, ctxVars, resCh>>

\* Mutated: the slot is never given back.
ReleaseSlotLeaks(c) ==
    /\ gp[c] = "release"
    /\ gp' = [gp EXCEPT ![c] = "deactivate"]
    /\ UNCHANGED <<pc, passVars, callVars, gateVars, ctxVars, resCh>>

\* Complete, first half: Release gives the slot back, ...
ReleaseSlot(c) ==
    /\ gp[c] = "release"
    /\ sem' = IF Max > 0 /\ sem > 0 THEN sem - 1 ELSE sem
    /\ gp' = [gp EXCEPT ![c] = "deactivate"]
    /\ UNCHANGED <<pc, passVars, callVars, active, completions, ctxVars, resCh>>

\* ... then decrements the number of active calls.
Deactivate(c) ==
    /\ gp[c] = "deactivate"
    /\ active' = active - 1
    /\ gp' = [gp EXCEPT ![c] = "check"]
    /\ UNCHANGED <<pc, passVars, callVars, sem, completions, ctxVars, resCh>>

\* Mutated: no completion is ever signalled.
CheckContextSilent(c) ==
    /\ gp[c] = "check"
    /\ gp' = [gp EXCEPT ![c] = "exit"]
    /\ UNCHANGED <<pc, passVars, callVars, gateVars, ctxVars, resCh>>

\* Complete, second half: no signal if the context is done, ...
CheckContext(c) ==
    /\ gp[c] = "check"
    /\ gp' = [gp EXCEPT ![c] = IF CtxDone THEN "exit" ELSE "send"]
    /\ UNCHANGED <<pc, passVars, callVars, gateVars, ctxVars, resCh>>

\* ... otherwise send the id or give up when the context is done.
SendCompletion(c) ==
    /\ gp[c] = "send" /\ Len(completions) < Buffer
    /\ completions' = Append(completions, c)
    /\ gp' = [gp EXCEPT ![c] = "exit"]
    /\ UNCHANGED <<pc, passVars, callVars, sem, active, ctxVars, resCh>>

SendStuck(c) == FALSE  \* mutated: the send does not select on the context

SendAbandoned(c) ==
    /\ gp[c] = "send" /\ CtxDone
    /\ gp' = [gp EXCEPT ![c] = "exit"]
    /\ UNCHANGED <<pc, passVars, callVars, gateVars, ctxVars, resCh>>

Signal(c) ==
    \/ ReleaseSlot(c) \/ Deactivate(c) \/ CheckContext(c)
    \/ SendCompletion(c) \/ SendAbandoned(c)

\* The caller's deadline expires or the caller cancels.
Cancel ==
    /\ ~cancelled
    /\ cancelled' = TRUE
    /\ UNCHANGED <<pc, passVars, callVars, gp, gateVars, closed, resCh>>

-----------------------------------------------------------------------------
Init ==
    /\ pc = "exec" /\ pos = 1 /\ seen = [n \in Node |-> NotSeen]
    /\ out = NotSeen /\ todo = {} /\ batch = {} /\ passes = 1
    /\ callID = [c \in Calls |-> 0] /\ nextCallID = 0
    /\ started = [c \in Calls |-> FALSE] /\ result = [c \in Calls |-> NoResult]
    /\ gp = [c \in Calls |-> "none"]
    /\ sem = 0 /\ active = 0 /\ completions = <<>>
    /\ cancelled \in BOOLEAN /\ closed = FALSE
    /\ resCh = <<>>

Evaluator ==
    \/ ExecNode \/ ExecPanics \/ FinishPass
    \/ Dispatch \/ DispatchDone
    \/ AwaitCompletion \/ Decide \/ DrainTimeout \/ AwaitCancelled
    \/ Close

Goroutine(c) == CallReturns(c) \/ CallCancelled(c) \/ Signal(c)

\* Everything has come to rest.
Terminated ==
    /\ pc = "done" /\ \A c \in Calls : gp[c] \in {"none", "exit"}
    /\ UNCHANGED vars

Next ==
    \/ Evaluator
    \/ \E c \in Calls : Goroutine(c)
    \/ Cancel
    \/ Terminated

Spec == Init /\ [][Next]_vars

\* The Go scheduler runs every goroutine that can run; it says nothing of when an
\* implementation answers.
SchedulerFairness ==
    /\ WF_vars(Evaluator)
    /\ \A c \in Calls : WF_vars(Signal(c))

\* An implementation that answers in finite time.
ImplementationFairness == \A c \in Calls : WF_vars(CallReturns(c))

SchedulerSpec == Spec /\ SchedulerFairness
FairSpec      == SchedulerSpec /\ ImplementationFairness

-----------------------------------------------------------------------------
(***************************************************************************)
(* Properties.                                                             *)
(***************************************************************************)
\* The state is well typed: the evaluator's locals, the tracker, the gate and the
\* channels of one ConcurrentEval.
TypeOK ==
    /\ pc \in {"exec", "dispatch", "await", "decide", "drain", "close", "done"}
    /\ pos \in 1..(N + 1)
    /\ seen \in [Node -> Outcome \cup {NotSeen}]
    /\ out \in Outcome \cup {NotSeen}
    /\ todo \subseteq Int
    /\ batch \subseteq Calls
    /\ passes \in Nat \ {0}
    /\ callID \in [Calls -> 0..nextCallID]
    /\ nextCallID \in Nat
    /\ started \in [Calls -> BOOLEAN]
    /\ result \in [Calls -> Outcome \cup {NoResult}]
    /\ gp \in [Calls -> {"none", "run", "release", "deactivate", "check", "send", "exit"}]
    /\ sem \in Nat /\ active \in Int
    /\ completions \in Seq(Calls) /\ Len(completions) <= Buffer
    /\ cancelled \in BOOLEAN /\ closed \in BOOLEAN
    /\ resCh \in Seq([kind : {"final", "ctx", "panic"}, val : Outcome])

Signalled(c) == \E i \in 1..Len(completions) : completions[i] = c

\* A call whose completion can still reach the evaluator.
Live(c) == gp[c] \notin {"none", "exit"} \/ Signalled(c)

\* The evaluator never blocks without a bound on a channel nobody will write to: when it
\* waits for a completion, some launched call has still to signal (or has signalled),
\* or the context is done.  This is why TryAcquire may fail without blocking, and why
\* Release comes before the send on the completion channel.
NoLostWakeup ==
    pc = "await" \/ (pc = "drain" /\ ~TimedWait)
        => CtxDone \/ \E c \in Calls : Live(c)

HoldsSlot(c)  == gp[c] \in {"run", "release"}
CountsActive(c) == gp[c] \in {"run", "release", "deactivate"}

\* The gate's two counters agree with the goroutines: no slot leaks and none is given
\* back twice, on the normal and on the cancelled path, so that the implementations
\* running at any time never exceed the launch limit.
GateAccounting ==
    /\ Max > 0 => sem = Cardinality({c \in Calls : HoldsSlot(c)}) /\ sem <= Max
    /\ active = Cardinality({c \in Calls : CountsActive(c)})

\* No implementation is run a second time and a published result never changes, however
\* late a completion arrives relative to the pass that asked for the call.
OneRunPerCall ==
    [][\A c \in Calls :
          /\ gp'[c] = "run" => gp[c] \in {"none", "run"}
          /\ result[c] # NoResult => result'[c] = result[c]]_vars

\* The causes that are no pending call: the unknown attributes of the expression, and
\* what the implementations answer.
OtherCause(u) ==
    \/ \E n \in Node : Kind[n] = "attr" /\ u = [src |-> "attr", id |-> ExprId[n]]
    \/ \E v \in Outcomes \ {NoResult} : u \in v.unk

\* "Launch only the async calls required by the unknown result", as far as it is true:
\* the only calls launched without being a cause of the last unknown are those whose
\* number is also the id of another cause of it: a call that a pass has registered but
\* whose outcome was absorbed is otherwise left alone, in this pass and in every later one.
LaunchExplained ==
    [][\A c \in Calls :
          ~started[c] /\ started'[c] =>
              \E u \in out.unk : u.id = callID[c] /\ (u.src = "call" \/ OtherCause(u))]_vars

\* DrainAll: a pass never runs while a launched call is unresolved.
DrainAllComplete ==
    Strategy = "all" /\ pc = "exec" => \A c \in Calls : started[c] => gp[c] # "run"

\* A pass after the first one is paid for by a completion taken from the channel, so
\* stale completions cannot make the evaluator spin.
PassesPaid ==
    passes <= 1 + Cardinality({c \in Calls : gp[c] = "exit" /\ ~Signalled(c)})

\* If implementations answer, ConcurrentEval delivers its result.
ResultDelivered == <>(pc = "done")

\* Cancellation ends ConcurrentEval even when an implementation never answers.
CancelEnds == cancelled ~> pc = "done"

\* A goroutine whose implementation has answered goes away, whether or not the evaluator
\* is still there to take its completion.
NoGoroutineLeak ==
    \A c \in Calls : gp[c] \in {"release", "deactivate", "check", "send"} ~> gp[c] = "exit"

-----------------------------------------------------------------------------
(***************************************************************************)
(* The inductive invariant behind GateAccounting and NoLostWakeup.         *)
(***************************************************************************)
\* A complete pass has an outcome for the root; between passes nothing is kept.
PassState ==
    /\ pc = "exec" /\ pos = N + 1 => seen[N] # NotSeen
    /\ pc \in {"dispatch", "await", "decide", "drain"} =>
          pos = 1 /\ seen = [n \in Node |-> NotSeen]

\* The state of a call and its goroutine agree, and results appear only at the end.
CallStates ==
    \A c \in Calls :
        /\ started[c] <=> gp[c] # "none"
        /\ gp[c] \in {"none", "run"} => result[c] = NoResult

\* callIDs are unique.
DistinctIds == \A c, d \in Calls : callID[c] = callID[d] /\ callID[c] # 0 => c = d

\* An assumption on the implementations: they answer, and the unknowns they answer are
\* about attributes.
ProperAnswers == \A v \in Outcomes : v \in Outcome /\ \A u \in v.unk : u.src = "attr"

\* Under ProperAnswers a goroutine that has left its implementation has a result,
\* which names no call.
ProperResults ==
    \A c \in Calls :
        /\ gp[c] \notin {"none", "run"} => result[c] # NoResult
        /\ result[c] # NoResult => \A u \in result[c].unk : u.src = "attr"

\* Something will still wake the evaluator.
Wakeable == CtxDone \/ \E c \in Calls : Live(c)

\* The evaluator has not yet used the completion of the call.
Outstanding(c) == ~started[c] \/ Live(c) \/ CtxDone

\* Each call that makes a node of the pass unknown is outstanding: no completion is
\* taken from the channel during a pass.
SeenOutstanding ==
    pc = "exec" =>
        \A n \in Node : \A u \in seen[n].unk :
            u.src # "attr" => \E c \in Calls :
                                 callID[c] = u.id /\ u.id # 0 /\ Outstanding(c)

\* During dispatch somebody can wake the evaluator already, or a call is still to launch.
DispatchWakes ==
    pc = "dispatch" =>
        Wakeable \/ \E c \in Calls : callID[c] # 0 /\ callID[c] \in todo /\ ~started[c]

WaitWakes == pc \in {"await", "drain"} => Wakeable

\* The inductive invariant as a whole.
WakeInv ==
    /\ TypeOK /\ PassState /\ GateAccounting /\ CallStates /\ DistinctIds
    /\ ProperResults /\ SeenOutstanding /\ DispatchWakes /\ WaitWakes

-----------------------------------------------------------------------------
(***************************************************************************)
(* What the expression denotes once every call has an answer.              *)
(***************************************************************************)
\* The outcome of a node, of the outcomes of its arguments.
Complete(answer, n, S) ==
    IF Kind[n] = "async" THEN Strict(S, answer[Key[n]]) ELSE Combine(n, S)

Evaluation(answer) ==
    LET D[n \in Node] == Complete(answer, n, Operands(n, D)) IN D

Denote(answer) == Evaluation(answer)[N]

Promise == INSTANCE EvalPromise WITH answers <- result, results <- resCh

\* Each result ConcurrentEval publishes is the one the expression has whatever the calls
\* that were never answered would have returned, exactly one is published, and the
\* channel is closed after it: stopping early, sampling a call before and after it
\* completes in one pass, and late completions are invisible.
KeepsPromise == Promise!PSpec
=============================================================================
