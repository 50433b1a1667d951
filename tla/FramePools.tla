---------------------------- MODULE FramePools ----------------------------
(***************************************************************************)
(* Execution frames and what hangs on them: frames, evaluation contexts    *)
(* and call trackers are taken from process-wide pools by evaluations that *)
(* run side by side, and are reset and put back when they end, while       *)
(* goroutines of asynchronous calls may still be running.                  *)
(*                                                                         *)
(* What a field holds is abstracted to the evaluations it comes from: {}   *)
(* is nil or empty, {e} is a value of e.                                   *)
(***************************************************************************)
EXTENDS Integers, Sequences, FiniteSets, SequencesExt

CONSTANTS
    Evals,      (* evaluations: Eval, ContextEval or ConcurrentEval           *)
    Frames, Contexts, Trackers,   (* the objects the pools can hand out       *)
    Nil,
    Inputs,     (* kinds of input of an evaluation                            *)
    MaxDepth,   (* bound on nested comprehensions                             *)
    MaxCalls    (* bound on the calls an evaluation launches                  *)

ASSUME NilAssumption == Nil \notin Contexts \cup Trackers \cup Evals
ASSUME InputsAssumption ==
    Inputs \subseteq {"empty", "map", "activation", "functions", "conflict", "invalid"}
ASSUME BoundsAssumption == MaxDepth \in Nat \ {0} /\ MaxCalls \in Nat

VARIABLES
    pc,          (* where an evaluation is                                    *)
    stack,       (* its frames, the root first                                *)
    frame,       (* contents of the frames                                    *)
    context,     (* contents of the evaluation contexts                       *)
    tracker,     (* calls in the trackers                                     *)
    framePool, contextPool, trackerPool,  (* copies of an object in its pool  *)
    gate,        (* gate of an evaluation -> its number of active calls       *)
    running      (* calls launched that have not completed                    *)

pools == <<framePool, contextPool, trackerPool>>
vars  == <<pc, stack, frame, context, tracker, pools, gate, running>>

NewFrame   == [vars |-> {}, lazy |-> {}, scope |-> {}, functions |-> {}, ctx |-> Nil]
NewContext == [interrupt |-> {}, interrupted |-> {}, state |-> {}, gate |-> Nil,
               tracker |-> Nil]

Root(e) == stack[e][1]
Top(e)  == stack[e][Len(stack[e])]
Ctx(e)  == frame[Root(e)].ctx
Held(e) == Range(stack[e])

Get(pool, x) == [pool EXCEPT ![x] = @ - 1]
Put(pool, x) == [pool EXCEPT ![x] = @ + 1]

-----------------------------------------------------------------------------
(***************************************************************************)
(* Making the frame of an evaluation.                                      *)
(***************************************************************************)
\* NewExecutionFrame for the inputs it accepts.  Fields the kind of input does not need
\* are left as they come from the pool.
NewExecutionFrame(e) ==
    /\ pc[e] = "new"
    /\ \E f \in Frames, input \in Inputs \ {"conflict", "invalid"} :
          /\ framePool[f] > 0
          /\ framePool' = Get(framePool, f)
          /\ frame' =
                [frame EXCEPT ![f] =
                    CASE input = "empty" -> @
                      [] input = "map" -> [@ EXCEPT !.vars = {e}]
                      [] input = "activation" -> [@ EXCEPT !.scope = {e}, !.functions = {}]
                      [] input = "functions" -> [@ EXCEPT !.scope = {e}, !.functions = {e}]]
          /\ stack' = [stack EXCEPT ![e] = <<f>>]
    /\ pc' = [pc EXCEPT ![e] = "framed"]
    /\ UNCHANGED <<context, tracker, contextPool, trackerPool, gate, running>>

\* For an activation that supplies late-bound functions twice, or an input of no known
\* type, the frame goes back to the pool at once; the activation has been stored by then.
NewExecutionFrameFails(e) ==
    /\ pc[e] = "new"
    /\ \E f \in Frames, input \in Inputs \cap {"conflict", "invalid"} :
          /\ framePool[f] > 0
          /\ frame' = IF input = "conflict" THEN [frame EXCEPT ![f].scope = {e}] ELSE frame
    /\ pc' = [pc EXCEPT ![e] = "done"]
    /\ UNCHANGED <<stack, context, tracker, pools, gate, running>>

\* Mutated: the frame keeps the values of lazy variables.
ResetFrameKeepsLazy(f) ==
    [f EXCEPT !.vars = {}, !.scope = {}, !.functions = {}, !.ctx = Nil]

\* Close and Pop reset the fields one by one, the lazy values only with their variables.
ResetFrame(f) ==
    [f EXCEPT !.vars = {}, !.scope = {}, !.functions = {}, !.ctx = Nil,
              !.lazy = IF f.vars # {} THEN {} ELSE @]

\* Mutated: a closed context keeps its reference to the tracker it has released.
CloseContextKeepsTracker(c) ==
    IF c = Nil THEN UNCHANGED <<context, tracker, contextPool, trackerPool>>
    ELSE LET t == context[c].tracker IN
         /\ context' = [context EXCEPT ![c] = [NewContext EXCEPT !.tracker = t]]
         /\ contextPool' = Put(contextPool, c)
         /\ IF t = Nil THEN UNCHANGED <<tracker, trackerPool>>
            ELSE tracker' = [tracker EXCEPT ![t] = {}] /\ trackerPool' = Put(trackerPool, t)

\* Close, for the shared context: cancel, clear, release the tracker.
CloseContext(c) ==
    IF c = Nil THEN UNCHANGED <<context, tracker, contextPool, trackerPool>>
    ELSE LET t == context[c].tracker IN
         /\ context' = [context EXCEPT ![c] = NewContext]
         /\ contextPool' = Put(contextPool, c)
         /\ IF t = Nil THEN UNCHANGED <<tracker, trackerPool>>
            ELSE tracker' = [tracker EXCEPT ![t] = {}] /\ trackerPool' = Put(trackerPool, t)

\* Close of the root frame.  The frames above it, if a panic left any, do not come back to
\* the pool: they are collected, and the pool makes new ones in their place.
CloseFrame(e) ==
    /\ CloseContext(Ctx(e))
    /\ frame' = [f \in Frames |-> IF f = Root(e) THEN ResetFrame(frame[f])
                                 ELSE IF f \in Held(e) THEN NewFrame ELSE frame[f]]
    /\ framePool' = [f \in Frames |-> framePool[f] + (IF f \in Held(e) THEN 1 ELSE 0)]
    /\ stack' = [stack EXCEPT ![e] = <<>>]
    /\ pc' = [pc EXCEPT ![e] = "done"]
    /\ UNCHANGED <<gate, running>>

\* The default variables of the program, if it has any, and if they may supply functions.
SetDefaultVars(e) ==
    /\ pc[e] = "framed"
    /\ \E defaults \in {"none", "vars", "functions"} :
          /\ defaults = "functions" => frame[Root(e)].functions = {}
          /\ frame' = [frame EXCEPT
                ![Root(e)].scope = IF defaults = "none" THEN @ ELSE @ \cup {e},
                ![Root(e)].functions = IF defaults = "functions" THEN {e} ELSE @]
    /\ pc' = [pc EXCEPT ![e] = "ready"]
    /\ UNCHANGED <<stack, context, tracker, pools, gate, running>>

SetDefaultVarsFails(e) ==
    /\ pc[e] = "framed" /\ frame[Root(e)].functions # {}
    /\ CloseFrame(e)

\* Mutated: the gate is a part of the pooled context.
GateOfContext(e, c) == c

\* Each evaluation has a gate of its own, which the goroutines of its calls keep.
GateOf(e, c) == e

\* SetContext, for ContextEval and ConcurrentEval.
SetContext(e) ==
    /\ pc[e] = "ready" /\ Ctx(e) = Nil
    /\ \E c \in Contexts, t \in Trackers :
          /\ contextPool[c] > 0 /\ trackerPool[t] > 0
          /\ contextPool' = Get(contextPool, c) /\ trackerPool' = Get(trackerPool, t)
          /\ frame' = [frame EXCEPT ![Root(e)].ctx = c]
          /\ context' = [context EXCEPT ![c] =
                [@ EXCEPT !.tracker = t, !.gate = GateOf(e, c), !.interrupt = {e},
                          !.interrupted = {}]]
          /\ gate' = [gate EXCEPT ![GateOf(e, c)] = 0]
    /\ pc' = [pc EXCEPT ![e] = "exec"]
    /\ UNCHANGED <<stack, tracker, framePool, running>>

\* Eval without a context.
Start(e) ==
    /\ pc[e] = "ready"
    /\ pc' = [pc EXCEPT ![e] = "exec"]
    /\ UNCHANGED <<stack, frame, context, tracker, pools, gate, running>>

-----------------------------------------------------------------------------
(***************************************************************************)
(* Executing.                                                              *)
(***************************************************************************)
\* InitState of an observer: the state a context already has is used again, which is how
\* the passes of a concurrent evaluation share theirs.
InitState(e) ==
    /\ pc[e] = "exec" /\ Len(stack[e]) = 1
    /\ IF Ctx(e) # Nil
       THEN /\ context' = [context EXCEPT ![Ctx(e)].state = IF @ = {} THEN {e} ELSE @]
            /\ UNCHANGED <<frame, contextPool>>
       ELSE \E c \in Contexts :
              /\ contextPool[c] > 0
              /\ contextPool' = Get(contextPool, c)
              /\ frame' = [frame EXCEPT ![Root(e)].ctx = c]
              /\ context' = [context EXCEPT ![c].state = {e}]
    /\ UNCHANGED <<pc, stack, tracker, framePool, trackerPool, gate, running>>

\* The scope is a folder, which refers to the frame below.
Pushed(f, e) ==
    [f EXCEPT !.ctx = frame[Top(e)].ctx, !.scope = {e}, !.functions = frame[Top(e)].functions]

Push(e) ==
    /\ pc[e] = "exec" /\ Len(stack[e]) < MaxDepth
    /\ \E f \in Frames :
          /\ framePool[f] > 0
          /\ framePool' = Get(framePool, f)
          /\ frame' = [frame EXCEPT ![f] = Pushed(@, e)]
          /\ stack' = [stack EXCEPT ![e] = Append(@, f)]
    /\ UNCHANGED <<pc, context, tracker, contextPool, trackerPool, gate, running>>

Pop(e) ==
    /\ pc[e] = "exec" /\ Len(stack[e]) > 1
    /\ frame' = [frame EXCEPT ![Top(e)] = ResetFrame(@)]
    /\ framePool' = Put(framePool, Top(e))
    /\ stack' = [stack EXCEPT ![e] = Front(@)]
    /\ UNCHANGED <<pc, context, tracker, contextPool, trackerPool, gate, running>>

\* A comprehension of two variables over a range of no known type leaves its folder and
\* frame unreleased, to be collected.
AbandonFold(e) ==
    /\ pc[e] = "exec" /\ Len(stack[e]) > 1
    /\ frame' = [frame EXCEPT ![Top(e)] = NewFrame]
    /\ framePool' = Put(framePool, Top(e))
    /\ stack' = [stack EXCEPT ![e] = Front(@)]
    /\ UNCHANGED <<pc, context, tracker, contextPool, trackerPool, gate, running>>

\* A lazy variable of the input is resolved and kept.
ResolveLazy(e) ==
    /\ pc[e] = "exec" /\ frame[Root(e)].vars # {}
    /\ frame' = [frame EXCEPT ![Root(e)].lazy = @ \cup frame[Root(e)].vars]
    /\ UNCHANGED <<pc, stack, context, tracker, pools, gate, running>>

\* The channel of the caller's context is polled and found closed.
CheckInterrupt(e) ==
    /\ pc[e] = "exec" /\ Ctx(e) # Nil
    /\ context' = [context EXCEPT ![Ctx(e)].interrupted = @ \cup context[Ctx(e)].interrupt]
    /\ UNCHANGED <<pc, stack, frame, tracker, pools, gate, running>>

\* ComputeResult registers a call with the tracker.
Register(e) ==
    /\ pc[e] = "exec" /\ Ctx(e) # Nil /\ context[Ctx(e)].tracker # Nil
    /\ tracker' = [tracker EXCEPT ![context[Ctx(e)].tracker] = @ \cup {e}]
    /\ UNCHANGED <<pc, stack, frame, context, pools, gate, running>>

RunningOf(e) == {r \in running : r.eval = e}

\* DispatchPendingAsyncCalls launches it, between two passes.
Launch(e) ==
    /\ pc[e] = "exec" /\ Len(stack[e]) = 1 /\ Ctx(e) # Nil
    /\ context[Ctx(e)].tracker # Nil /\ tracker[context[Ctx(e)].tracker] # {}
    /\ \E n \in 1..MaxCalls :
          /\ \A r \in RunningOf(e) : r.n # n
          /\ running' = running \cup {[eval |-> e, n |-> n, gate |-> context[Ctx(e)].gate]}
    /\ gate' = [gate EXCEPT ![context[Ctx(e)].gate] = @ + 1]
    /\ UNCHANGED <<pc, stack, frame, context, tracker, pools>>

\* The goroutine of a call ends, during the evaluation or after it.
Complete(r) ==
    /\ running' = running \ {r}
    /\ gate' = [gate EXCEPT ![r.gate] = @ - 1]
    /\ UNCHANGED <<pc, stack, frame, context, tracker, pools>>

\* The evaluation returns or panics; the deferred Close runs.
Close(e) == pc[e] = "exec" /\ CloseFrame(e)

-----------------------------------------------------------------------------
Init ==
    /\ pc = [e \in Evals |-> "new"] /\ stack = [e \in Evals |-> <<>>]
    /\ frame = [f \in Frames |-> NewFrame]
    /\ context = [c \in Contexts |-> NewContext]
    /\ tracker = [t \in Trackers |-> {}]
    /\ framePool = [f \in Frames |-> 1]
    /\ contextPool = [c \in Contexts |-> 1] /\ trackerPool = [t \in Trackers |-> 1]
    /\ gate = [g \in Evals \cup Contexts |-> 0] /\ running = {}

Evaluate(e) ==
    \/ NewExecutionFrame(e) \/ NewExecutionFrameFails(e)
    \/ SetDefaultVars(e) \/ SetDefaultVarsFails(e) \/ SetContext(e) \/ Start(e)
    \/ InitState(e) \/ Push(e) \/ Pop(e) \/ AbandonFold(e) \/ ResolveLazy(e)
    \/ CheckInterrupt(e) \/ Register(e) \/ Launch(e) \/ Close(e)

Terminated ==
    /\ \A e \in Evals : pc[e] = "done"
    /\ running = {}
    /\ UNCHANGED vars

Next ==
    \/ \E e \in Evals : Evaluate(e)
    \/ \E r \in running : Complete(r)
    \/ Terminated

Spec == Init /\ [][Next]_vars

-----------------------------------------------------------------------------
(***************************************************************************)
(* Properties.                                                             *)
(***************************************************************************)
Frame == [vars : SUBSET Evals, lazy : SUBSET Evals, scope : SUBSET Evals,
          functions : SUBSET Evals, ctx : Contexts \cup {Nil}]
Context == [interrupt : SUBSET Evals, interrupted : SUBSET Evals, state : SUBSET Evals,
            gate : Evals \cup Contexts \cup {Nil}, tracker : Trackers \cup {Nil}]

\* e holds the context c.
HoldsContext(e, c) == stack[e] # <<>> /\ Ctx(e) = c

\* The number of active calls that the evaluator of e reads counts the calls of e, however
\* late the goroutines of an earlier evaluation with the same context end.
GateOwn(e) ==
    \A c \in Contexts :
        HoldsContext(e, c) /\ context[c].gate # Nil =>
            gate[context[c].gate] = Cardinality(RunningOf(e))

\* All that an evaluation reads through its frames, variables, lazy values, functions, the
\* context they share and its counter, comes from that evaluation: nothing crosses over by
\* way of a pool.
OwnState ==
    \A e \in Evals :
        /\ \A f \in Held(e) :
              /\ frame[f].vars \cup frame[f].lazy \cup frame[f].scope \cup frame[f].functions
                    \subseteq {e}
              /\ frame[f].ctx = Ctx(e)
        /\ \A c \in Contexts :
              HoldsContext(e, c) =>
                  /\ context[c].interrupt \cup context[c].interrupted \cup context[c].state
                        \subseteq {e}
                  /\ context[c].tracker # Nil => tracker[context[c].tracker] \subseteq {e}
        /\ GateOwn(e)

\* An object a pool has handed out has one holder and is not in the pool, and every object
\* without a holder is there: none is given out twice, none is lost.
Exclusive ==
    /\ \A f \in Frames :
          /\ (framePool[f] = 0) = (\E e \in Evals : f \in Held(e))
          /\ \A d, e \in Evals : f \in Held(e) /\ f \in Held(d) => d = e
    /\ \A e \in Evals : IsInjective(stack[e])
    /\ \A c \in Contexts :
          /\ (contextPool[c] = 0) = (\E e \in Evals : HoldsContext(e, c))
          /\ \A d, e \in Evals : HoldsContext(e, c) /\ HoldsContext(d, c) => d = e
    /\ \A t \in Trackers :
          /\ (trackerPool[t] = 0) = (\E c \in Contexts : context[c].tracker = t)
          /\ \A b, c \in Contexts : context[b].tracker = t /\ context[c].tracker = t => b = c
=============================================================================
