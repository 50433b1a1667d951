-------------------------- MODULE FramePoolsProofs --------------------------
(***************************************************************************)
(* Theorems about FramePools, for any number of evaluations and of pooled  *)
(* objects: no object has two holders, and what an evaluation reads is its *)
(* own.                                                                    *)
(***************************************************************************)
EXTENDS FramePools, FiniteSetTheorems, TLAPS

Call == [eval : Evals, n : Nat, gate : Evals]

TypeOK ==
    /\ pc \in [Evals -> {"new", "framed", "ready", "exec", "done"}]
    /\ stack \in [Evals -> Seq(Frames)]
    /\ frame \in [Frames -> Frame]
    /\ context \in [Contexts -> Context]
    /\ tracker \in [Trackers -> SUBSET Evals]
    /\ framePool \in [Frames -> {0, 1}]
    /\ contextPool \in [Contexts -> {0, 1}]
    /\ trackerPool \in [Trackers -> {0, 1}]

\* An evaluation has frames while it is under way, and only the root before it executes.
StackState ==
    \A e \in Evals :
        /\ pc[e] \in {"framed", "ready", "exec"} <=> Len(stack[e]) > 0
        /\ pc[e] \in {"framed", "ready"} => Len(stack[e]) = 1

FramesOut ==
    \A f \in Frames :
        /\ framePool[f] = 0 <=> \E e \in Evals : \E i \in 1..Len(stack[e]) : stack[e][i] = f
        /\ \A d, e \in Evals : \A i \in 1..Len(stack[d]), j \in 1..Len(stack[e]) :
              stack[d][i] = f /\ stack[e][j] = f => d = e /\ i = j
        /\ framePool[f] = 1 => frame[f].ctx = Nil

\* e holds c, by its root.
Holds(e, c) == Len(stack[e]) > 0 /\ frame[stack[e][1]].ctx = c

ContextsOut ==
    \A c \in Contexts :
        /\ contextPool[c] = 0 <=> \E e \in Evals : Holds(e, c)
        /\ \A d, e \in Evals : Holds(d, c) /\ Holds(e, c) => d = e
        /\ contextPool[c] = 1 => context[c].tracker = Nil

TrackersOut ==
    \A t \in Trackers :
        /\ trackerPool[t] = 0 <=> \E c \in Contexts : context[c].tracker = t
        /\ \A b, c \in Contexts : context[b].tracker = t /\ context[c].tracker = t => b = c

HoldInv == TypeOK /\ StackState /\ FramesOut /\ ContextsOut /\ TrackersOut

-----------------------------------------------------------------------------
(* What the fields hold. *)
\* Objects in their pools are as good as new.
PooledClean ==
    /\ \A f \in Frames : framePool[f] = 1 => frame[f] = NewFrame
    /\ \A c \in Contexts : contextPool[c] = 1 => context[c] = NewContext
    /\ \A t \in Trackers : trackerPool[t] = 1 => tracker[t] = {}

\* The contents of a frame are those of e, and lazy values come with their variables.
OwnFrame(e, f) ==
    /\ f.vars \subseteq {e} /\ f.lazy \subseteq f.vars
    /\ f.scope \subseteq {e} /\ f.functions \subseteq {e}

\* Only the root has variables, and every frame has the context of the root.
FramesOwn(e) ==
    \A i \in 1..Len(stack[e]) :
        /\ OwnFrame(e, frame[stack[e][i]])
        /\ i # 1 => frame[stack[e][i]].vars = {}
        /\ frame[stack[e][i]].ctx = frame[stack[e][1]].ctx

OwnContext(e, c) ==
    /\ c.interrupt \subseteq {e} /\ c.interrupted \subseteq {e} /\ c.state \subseteq {e}
    /\ c.gate \in {Nil, e} /\ (c.tracker # Nil => c.gate = e)

ContextsOwn(e) ==
    \A c \in Contexts :
        Holds(e, c) =>
            /\ OwnContext(e, context[c])
            /\ context[c].tracker # Nil => tracker[context[c].tracker] \subseteq {e}

\* The gate of an evaluation counts the calls it has launched.
GatesOwn ==
    /\ gate \in [Evals \cup Contexts -> Int]
    /\ running \subseteq Call /\ IsFiniteSet(running)
    /\ \A r \in running : r.gate = r.eval /\ pc[r.eval] \in {"exec", "done"}
    /\ \A e \in Evals : gate[e] = Cardinality(RunningOf(e))

OwnInv ==
    /\ HoldInv /\ PooledClean /\ GatesOwn
    /\ \A e \in Evals : FramesOwn(e) /\ ContextsOwn(e)

-----------------------------------------------------------------------------
LEMMA InitHold == Init => HoldInv
<1> SUFFICES ASSUME Init PROVE HoldInv
  OBVIOUS
<1> USE NilAssumption DEF Init, NewFrame, NewContext
<1>1. TypeOK
  BY DEF TypeOK, Frame, Context
<1>2. StackState
  BY DEF StackState
<1>3. FramesOut /\ ContextsOut /\ TrackersOut
  BY SMTT(40) DEF FramesOut, ContextsOut, Holds, TrackersOut
<1> QED
  BY <1>1, <1>2, <1>3 DEF HoldInv

\* What a frame is reset to is typed, and has no context.
LEMMA ResetFrameType ==
    ASSUME NEW f \in Frame
    PROVE  ResetFrame(f) \in Frame /\ ResetFrame(f).ctx = Nil
BY DEF ResetFrame, Frame

\* Fields that are set keep the type of a frame, and its context.
LEMMA FrameWith ==
    ASSUME NEW f \in Frame, NEW s \in SUBSET Evals, NEW g \in SUBSET Evals
    PROVE  /\ [f EXCEPT !.scope = s, !.functions = g] \in Frame
           /\ [f EXCEPT !.scope = s, !.functions = g].ctx = f.ctx
           /\ [f EXCEPT !.scope = s] \in Frame /\ [f EXCEPT !.scope = s].ctx = f.ctx
           /\ [f EXCEPT !.vars = s] \in Frame /\ [f EXCEPT !.vars = s].ctx = f.ctx
           /\ [f EXCEPT !.lazy = s] \in Frame /\ [f EXCEPT !.lazy = s].ctx = f.ctx
BY DEF Frame

LEMMA FrameWithScope ==
    ASSUME NEW f \in Frame, NEW s \in SUBSET Evals, NEW g \in SUBSET Evals
    PROVE  /\ [f EXCEPT !.scope = s, !.functions = g] \in Frame
           /\ [f EXCEPT !.scope = s, !.functions = g].ctx = f.ctx
BY DEF Frame

LEMMA ContextWith ==
    ASSUME NEW c \in Context, NEW s \in SUBSET Evals
    PROVE  /\ [c EXCEPT !.interrupted = s] \in Context
           /\ [c EXCEPT !.state = s] \in Context
           /\ [c EXCEPT !.interrupted = s].tracker = c.tracker
           /\ [c EXCEPT !.state = s].tracker = c.tracker
BY DEF Context

\* A pool has one copy of an object or none.
LEMMA PoolTyped ==
    ASSUME NEW S, NEW pool \in [S -> {0, 1}], NEW x \in S
    PROVE  /\ pool[x] > 0 => Get(pool, x) \in [S -> {0, 1}]
           /\ pool[x] = 0 => Put(pool, x) \in [S -> {0, 1}]
BY DEF Get, Put

LEMMA NewTyped == NewFrame \in Frame /\ NewContext \in Context
BY DEF NewFrame, NewContext, Frame, Context

-----------------------------------------------------------------------------
(* Steps that take or put back no object. *)
LEMMA FieldsKeepHold ==
    ASSUME HoldInv, TypeOK', UNCHANGED <<stack, pools>>,
           \A e \in Evals : pc'[e] = pc[e] \/ (pc[e] = "framed" /\ pc'[e] = "ready")
                            \/ (pc[e] = "ready" /\ pc'[e] = "exec")
                            \/ (pc[e] = "new" /\ pc'[e] = "done"),
           \A f \in Frames : frame'[f].ctx = frame[f].ctx,
           \A c \in Contexts : context'[c].tracker = context[c].tracker
    PROVE  HoldInv'
<1> USE DEF HoldInv, pools
<1>1. StackState'
  BY DEF StackState, TypeOK
<1>2. FramesOut'
  BY DEF FramesOut
<1>3. \A e \in Evals, c \in Contexts : Holds(e, c)' <=> Holds(e, c)
  BY DEF Holds, TypeOK
<1>4. ContextsOut'
  BY <1>3 DEF ContextsOut
<1>5. TrackersOut'
  BY DEF TrackersOut
<1> QED
  BY <1>1, <1>2, <1>4, <1>5

LEMMA FieldSteps ==
    ASSUME HoldInv, NEW e \in Evals,
           \/ NewExecutionFrameFails(e) \/ SetDefaultVars(e) \/ Start(e) \/ ResolveLazy(e)
           \/ CheckInterrupt(e) \/ Register(e) \/ Launch(e)
    PROVE  HoldInv'
<1>0. TypeOK /\ StackState
  BY DEF HoldInv
<1> USE DEF pools
<1>r. Len(stack[e]) > 0 => Root(e) \in Frames /\ frame[Root(e)] \in Frame
  BY <1>0 DEF Root, TypeOK
<1>s. ASSUME NEW f \in Frames, NEW r \in Frame, r.ctx = frame[f].ctx,
             frame' = [frame EXCEPT ![f] = r]
      PROVE  frame' \in [Frames -> Frame] /\ \A g \in Frames : frame'[g].ctx = frame[g].ctx
  BY <1>0, <1>s DEF TypeOK
<1>1. CASE NewExecutionFrameFails(e)
  <2>1. PICK f \in Frames, input \in Inputs :
           frame' = IF input = "conflict" THEN [frame EXCEPT ![f].scope = {e}] ELSE frame
    BY <1>1 DEF NewExecutionFrameFails
  <2>2. frame[f] \in Frame
    BY <1>0 DEF TypeOK
  <2> DEFINE r == [frame[f] EXCEPT !.scope = {e}]
  <2>a. r \in Frame /\ r.ctx = frame[f].ctx
    BY <2>2, FrameWith
  <2>b. frame' = [frame EXCEPT ![f] = r] \/ frame' = frame
    BY <2>1
  <2> HIDE DEF r
  <2>3. frame' \in [Frames -> Frame] /\ \A g \in Frames : frame'[g].ctx = frame[g].ctx
    BY <1>0, <1>s, <2>a, <2>b DEF TypeOK
  <2>4. TypeOK'
    BY <1>0, <1>1, <2>3 DEF NewExecutionFrameFails, TypeOK
  <2> QED
    BY <1>0, <1>1, <2>3, <2>4, FieldsKeepHold DEF NewExecutionFrameFails, TypeOK
<1>2. CASE SetDefaultVars(e)
  <2>1. Root(e) \in Frames /\ frame[Root(e)] \in Frame
    BY <1>0, <1>r, <1>2 DEF SetDefaultVars, StackState
  <2>2. PICK defaults \in {"none", "vars", "functions"} :
           frame' = [frame EXCEPT
              ![Root(e)].scope = IF defaults = "none" THEN @ ELSE @ \cup {e},
              ![Root(e)].functions = IF defaults = "functions" THEN {e} ELSE @]
    BY <1>2 DEF SetDefaultVars
  <2> DEFINE r == frame[Root(e)]
             s == IF defaults = "none" THEN r.scope ELSE r.scope \cup {e}
             g == IF defaults = "functions" THEN {e} ELSE r.functions
  <2>3. s \in SUBSET Evals /\ g \in SUBSET Evals
    BY <2>1 DEF Frame
  <2>4. frame' = [frame EXCEPT ![Root(e)] = [r EXCEPT !.scope = s, !.functions = g]]
    BY <2>1, <2>2
  <2> DEFINE q == [r EXCEPT !.scope = s, !.functions = g]
  <2>r. r \in Frame
    BY <2>1
  <2> HIDE DEF r, s, g
  <2>q. q \in Frame /\ q.ctx = r.ctx
    BY <2>r, <2>3, FrameWithScope
  <2> HIDE DEF q
  <2> USE DEF r
  <2>5. frame' \in [Frames -> Frame] /\ \A f \in Frames : frame'[f].ctx = frame[f].ctx
    BY <1>s, <2>1, <2>4, <2>q DEF q
  <2>6. TypeOK'
    BY <1>0, <1>2, <2>5 DEF SetDefaultVars, TypeOK
  <2> QED
    BY <1>0, <1>2, <2>5, <2>6, FieldsKeepHold DEF SetDefaultVars, TypeOK
<1>3. CASE Start(e)
  <2>1. TypeOK'
    BY <1>0, <1>3 DEF Start, TypeOK
  <2> QED
    BY <1>0, <1>3, <2>1, FieldsKeepHold DEF Start, TypeOK
<1>4. CASE ResolveLazy(e)
  <2>1. Root(e) \in Frames /\ frame[Root(e)] \in Frame
    BY <1>0, <1>r, <1>4 DEF ResolveLazy, StackState
  <2> DEFINE r == frame[Root(e)]
             z == r.lazy \cup r.vars
  <2>2. z \in SUBSET Evals
    BY <2>1 DEF Frame
  <2>3. frame' = [frame EXCEPT ![Root(e)] = [r EXCEPT !.lazy = z]]
    BY <1>4, <2>1 DEF ResolveLazy
  <2> HIDE DEF z
  <2>4. frame' \in [Frames -> Frame] /\ \A f \in Frames : frame'[f].ctx = frame[f].ctx
    BY <1>s, <2>1, <2>2, <2>3, FrameWith, ZenonT(40)
  <2>5. TypeOK'
    BY <1>0, <1>4, <2>4 DEF ResolveLazy, TypeOK
  <2> QED
    BY <1>4, <2>4, <2>5, FieldsKeepHold DEF ResolveLazy
<1>5. CASE CheckInterrupt(e)
  <2>1. Ctx(e) \in Contexts /\ context[Ctx(e)] \in Context
    BY <1>0, <1>r, <1>5 DEF CheckInterrupt, StackState, Ctx, Frame, TypeOK
  <2> DEFINE c == context[Ctx(e)]
             i == c.interrupted \cup c.interrupt
  <2>2. i \in SUBSET Evals
    BY <2>1 DEF Context
  <2>3. context' = [context EXCEPT ![Ctx(e)] = [c EXCEPT !.interrupted = i]]
    BY <1>5, <2>1 DEF CheckInterrupt
  <2> HIDE DEF i
  <2>4. /\ context' \in [Contexts -> Context]
        /\ \A d \in Contexts : context'[d].tracker = context[d].tracker
    BY <1>0, <2>1, <2>2, <2>3, ContextWith, ZenonT(40) DEF TypeOK
  <2>5. TypeOK'
    BY <1>0, <1>5, <2>4 DEF CheckInterrupt, TypeOK
  <2> QED
    BY <1>5, <2>4, <2>5, FieldsKeepHold DEF CheckInterrupt
<1>6. CASE Register(e)
  <2>1. tracker' \in [Trackers -> SUBSET Evals]
    BY <1>0, <1>6 DEF Register, TypeOK
  <2>2. TypeOK'
    BY <1>0, <1>6, <2>1 DEF Register, TypeOK
  <2> QED
    BY <1>6, <2>2, FieldsKeepHold DEF Register
<1>7. CASE Launch(e)
  <2>1. TypeOK'
    BY <1>0, <1>7 DEF Launch, TypeOK
  <2> QED
    BY <1>7, <2>1, FieldsKeepHold DEF Launch
<1> QED
  BY <1>1, <1>2, <1>3, <1>4, <1>5, <1>6, <1>7

-----------------------------------------------------------------------------
(* Steps that take or put back a frame. *)
LEMMA TakeFrame ==
    ASSUME HoldInv, TypeOK', StackState', NEW e \in Evals, NEW f \in Frames,
           framePool[f] > 0, framePool' = Get(framePool, f),
           stack' = [stack EXCEPT ![e] = Append(@, f)],
           \A g \in Frames : g # f => frame'[g].ctx = frame[g].ctx,
           Len(stack[e]) = 0 => frame'[f].ctx = Nil,
           UNCHANGED <<contextPool, trackerPool, context>>
    PROVE  HoldInv'
<1>0. TypeOK /\ StackState /\ FramesOut /\ ContextsOut /\ TrackersOut
  BY DEF HoldInv
<1>1. framePool[f] = 1 /\ framePool'[f] = 0
  BY <1>0 DEF TypeOK, Get
<1>2. \A g \in Frames : g # f => framePool'[g] = framePool[g]
  BY <1>0 DEF TypeOK, Get
<1>3. \A d \in Evals : \A i \in 1..Len(stack[d]) : stack[d][i] # f
  BY <1>0, <1>1 DEF FramesOut
<1>4. /\ stack[e] \in Seq(Frames) /\ stack'[e] = Append(stack[e], f)
      /\ \A d \in Evals : d # e => stack'[d] = stack[d]
  BY <1>0 DEF TypeOK
<1>5. /\ Len(stack[e]) \in Nat /\ Len(stack'[e]) = Len(stack[e]) + 1
      /\ stack'[e][Len(stack[e]) + 1] = f
      /\ \A i \in 1..Len(stack[e]) : stack'[e][i] = stack[e][i]
  BY <1>4
<1>6. FramesOut'
  <2> SUFFICES ASSUME NEW g \in Frames
               PROVE  /\ framePool'[g] = 0 <=>
                            \E d \in Evals : \E i \in 1..Len(stack'[d]) : stack'[d][i] = g
                      /\ \A c, d \in Evals : \A i \in 1..Len(stack'[c]), j \in 1..Len(stack'[d]) :
                            stack'[c][i] = g /\ stack'[d][j] = g => c = d /\ i = j
                      /\ framePool'[g] = 1 => frame'[g].ctx = Nil
    BY DEF FramesOut
  <2>1. CASE g = f
    BY <2>1, <1>1, <1>3, <1>4, <1>5
  <2>2. CASE g # f
    BY <2>2, <1>0, <1>2, <1>4, <1>5, SMTT(40) DEF FramesOut
  <2> QED
    BY <2>1, <2>2
<1>7. \A d \in Evals, c \in Contexts : Holds(d, c)' <=> Holds(d, c)
  <2> SUFFICES ASSUME NEW d \in Evals, NEW c \in Contexts
               PROVE  Holds(d, c)' <=> Holds(d, c)
    OBVIOUS
  <2>1. CASE Len(stack[d]) = 0
    BY <2>1, <1>4, <1>5, NilAssumption DEF Holds
  <2>2. CASE Len(stack[d]) # 0
    <3>1. stack'[d][1] = stack[d][1] /\ Len(stack'[d]) > 0 /\ Len(stack[d]) > 0
      BY <2>2, <1>0, <1>4, <1>5 DEF TypeOK
    <3>2. stack[d][1] # f /\ stack[d][1] \in Frames
      BY <1>0, <3>1, <1>3 DEF TypeOK
    <3> QED
      BY <3>1, <3>2 DEF Holds
  <2> QED
    BY <2>1, <2>2
<1>8. ContextsOut'
  BY <1>0, <1>7 DEF ContextsOut
<1>9. TrackersOut'
  BY <1>0 DEF TrackersOut
<1> QED
  BY <1>6, <1>8, <1>9 DEF HoldInv

LEMMA DropFrame ==
    ASSUME HoldInv, TypeOK', StackState', NEW e \in Evals, Len(stack[e]) > 1,
           framePool' = Put(framePool, Top(e)),
           stack' = [stack EXCEPT ![e] = Front(@)],
           \A g \in Frames : g # Top(e) => frame'[g].ctx = frame[g].ctx,
           frame'[Top(e)].ctx = Nil,
           UNCHANGED <<contextPool, trackerPool, context>>
    PROVE  HoldInv'
<1> DEFINE f == Top(e)
<1>0. TypeOK /\ StackState /\ FramesOut /\ ContextsOut /\ TrackersOut
  BY DEF HoldInv
<1>4. /\ stack[e] \in Seq(Frames) /\ stack'[e] = Front(stack[e])
      /\ \A d \in Evals : d # e => stack'[d] = stack[d]
  BY <1>0 DEF TypeOK
<1>5. /\ Len(stack[e]) \in Nat /\ Len(stack'[e]) = Len(stack[e]) - 1
      /\ f \in Frames /\ stack[e][Len(stack[e])] = f
      /\ \A i \in 1..Len(stack'[e]) : stack'[e][i] = stack[e][i]
  BY <1>4 DEF Front, Top
<1>1. framePool[f] = 0 /\ framePool'[f] = 1
  <2>1. framePool[f] = 0
    BY <1>0, <1>5 DEF FramesOut
  <2> QED
    BY <2>1, <1>0, <1>5 DEF TypeOK, Put
<1>2. \A g \in Frames : g # f => framePool'[g] = framePool[g]
  BY <1>0 DEF TypeOK, Put
<1>3. \A d \in Evals : \A i \in 1..Len(stack'[d]) : stack'[d][i] # f
  BY <1>0, <1>4, <1>5 DEF FramesOut
<1>6. FramesOut'
  <2> SUFFICES ASSUME NEW g \in Frames
               PROVE  /\ framePool'[g] = 0 <=>
                            \E d \in Evals : \E i \in 1..Len(stack'[d]) : stack'[d][i] = g
                      /\ \A c, d \in Evals : \A i \in 1..Len(stack'[c]), j \in 1..Len(stack'[d]) :
                            stack'[c][i] = g /\ stack'[d][j] = g => c = d /\ i = j
                      /\ framePool'[g] = 1 => frame'[g].ctx = Nil
    BY DEF FramesOut
  <2>1. CASE g = f
    BY <2>1, <1>1, <1>3
  <2>2. CASE g # f
    <3> HIDE DEF f
    <3>1. \A d \in Evals : \A i \in 1..Len(stack[d]) : stack[d][i] = g => i \in 1..Len(stack'[d])
      BY <2>2, <1>4, <1>5
    <3>2. \A d \in Evals : \A i \in 1..Len(stack'[d]) : i \in 1..Len(stack[d]) /\ stack'[d][i] = stack[d][i]
      BY <1>4, <1>5
    <3> QED
      BY <2>2, <1>0, <1>2, <3>1, <3>2, SMTT(40) DEF FramesOut, f
  <2> QED
    BY <2>1, <2>2
<1>7. \A d \in Evals, c \in Contexts : Holds(d, c)' <=> Holds(d, c)
  <2> SUFFICES ASSUME NEW d \in Evals, NEW c \in Contexts
               PROVE  Holds(d, c)' <=> Holds(d, c)
    OBVIOUS
  <2>1. CASE Len(stack[d]) = 0
    BY <2>1, <1>4, <1>5 DEF Holds
  <2>2. CASE Len(stack[d]) # 0
    <3>1. stack'[d][1] = stack[d][1] /\ Len(stack'[d]) > 0 /\ Len(stack[d]) > 0
      BY <2>2, <1>0, <1>4, <1>5, SMTT(40) DEF TypeOK
    <3>2. stack[d][1] # f /\ stack[d][1] \in Frames
      BY <1>0, <3>1, <1>3 DEF TypeOK
    <3> QED
      BY <3>1, <3>2 DEF Holds
  <2> QED
    BY <2>1, <2>2
<1>8. ContextsOut'
  BY <1>0, <1>7 DEF ContextsOut
<1>9. TrackersOut'
  BY <1>0 DEF TrackersOut
<1> QED
  BY <1>6, <1>8, <1>9 DEF HoldInv

-----------------------------------------------------------------------------
(* Steps that take a context, with or without a tracker. *)
LEMMA TakeContext ==
    ASSUME HoldInv, TypeOK', StackState', NEW e \in Evals, NEW c \in Contexts,
           Len(stack[e]) = 1, frame[Root(e)].ctx = Nil,
           contextPool[c] > 0, contextPool' = Get(contextPool, c),
           UNCHANGED <<stack, framePool>>,
           frame'[Root(e)].ctx = c,
           \A g \in Frames : g # Root(e) => frame'[g].ctx = frame[g].ctx,
           \A d \in Contexts : d # c => context'[d].tracker = context[d].tracker,
           \/ context'[c].tracker = context[c].tracker /\ trackerPool' = trackerPool
           \/ \E t \in Trackers : /\ trackerPool[t] > 0 /\ trackerPool' = Get(trackerPool, t)
                                  /\ context'[c].tracker = t
    PROVE  HoldInv'
<1> DEFINE f == Root(e)
<1>0. TypeOK /\ StackState /\ FramesOut /\ ContextsOut /\ TrackersOut
  BY DEF HoldInv
<1>1. /\ contextPool[c] = 1 /\ contextPool'[c] = 0
      /\ \A d \in Contexts : d # c => contextPool'[d] = contextPool[d]
  BY <1>0 DEF TypeOK, Get
<1>2. context[c].tracker = Nil /\ \A d \in Evals : ~Holds(d, c)
  BY <1>0, <1>1 DEF ContextsOut
<1>3. f \in Frames /\ framePool[f] = 0
  <2>0. stack[e] \in Seq(Frames) /\ Len(stack[e]) > 0
    BY <1>0 DEF TypeOK
  <2>1. f \in Frames
    BY <2>0 DEF Root
  <2>2. 1 \in 1..Len(stack[e]) /\ stack[e][1] = f
    BY DEF Root
  <2> HIDE DEF f
  <2> QED
    BY <2>1, <2>2, <1>0 DEF FramesOut
<1>4. FramesOut'
  <2>1. \A g \in Frames : framePool'[g] = 1 => frame'[g].ctx = Nil
    BY <1>0, <1>3 DEF FramesOut
  <2> QED
    BY <2>1, <1>0 DEF FramesOut
<1>5. \A d \in Evals : d # e /\ Len(stack[d]) > 0 => stack[d][1] # f /\ stack[d][1] \in Frames
  <2> SUFFICES ASSUME NEW d \in Evals, d # e, Len(stack[d]) > 0
               PROVE  stack[d][1] # f /\ stack[d][1] \in Frames
    OBVIOUS
  <2>1. stack[d][1] \in Frames /\ 1 \in 1..Len(stack[d]) /\ 1 \in 1..Len(stack[e])
    BY <1>0 DEF TypeOK
  <2>2. stack[e][1] = f
    BY DEF Root
  <2> HIDE DEF f
  <2> QED
    BY <2>1, <2>2, <1>0, <1>3 DEF FramesOut
<1>6. \A d \in Evals, b \in Contexts : Holds(d, b)' <=> IF d = e THEN b = c ELSE Holds(d, b)
  BY <1>5 DEF Holds, Root
<1>7. \A b \in Contexts : ~Holds(e, b)
  BY NilAssumption DEF Holds, Root
<1>8. ContextsOut'
  <2> SUFFICES ASSUME NEW b \in Contexts
               PROVE  /\ contextPool'[b] = 0 <=> \E d \in Evals : Holds(d, b)'
                      /\ \A d, g \in Evals : Holds(d, b)' /\ Holds(g, b)' => d = g
                      /\ contextPool'[b] = 1 => context'[b].tracker = Nil
    BY DEF ContextsOut
  <2>1. CASE b = c
    BY <2>1, <1>1, <1>2, <1>6
  <2>2. CASE b # c
    BY <2>2, <1>0, <1>1, <1>6, <1>7 DEF ContextsOut
  <2> QED
    BY <2>1, <2>2
<1>9. TrackersOut'
  <2>1. CASE context'[c].tracker = context[c].tracker /\ trackerPool' = trackerPool
    BY <2>1, <1>0 DEF TrackersOut
  <2>2. ASSUME NEW t \in Trackers, trackerPool[t] > 0, trackerPool' = Get(trackerPool, t),
               context'[c].tracker = t
        PROVE  TrackersOut'
    <3>1. /\ trackerPool[t] = 1 /\ trackerPool'[t] = 0
          /\ \A u \in Trackers : u # t => trackerPool'[u] = trackerPool[u]
      BY <2>2, <1>0 DEF TypeOK, Get
    <3>2. \A b \in Contexts : context[b].tracker # t
      BY <3>1, <1>0 DEF TrackersOut
    <3> SUFFICES ASSUME NEW u \in Trackers
                 PROVE  /\ trackerPool'[u] = 0 <=> \E b \in Contexts : context'[b].tracker = u
                        /\ \A b, d \in Contexts :
                              context'[b].tracker = u /\ context'[d].tracker = u => b = d
      BY DEF TrackersOut
    <3>3. CASE u = t
      BY <3>1, <3>2, <3>3, <2>2
    <3>4. CASE u # t
      BY <3>1, <3>4, <2>2, <1>0, <1>2, NilAssumption DEF TrackersOut
    <3> QED
      BY <3>3, <3>4
  <2> QED
    BY <2>1, <2>2
<1> QED
  BY <1>4, <1>8, <1>9 DEF HoldInv

-----------------------------------------------------------------------------
(* Closing the root frame. *)
\* What CloseContext makes of the pools of contexts and trackers.
LEMMA CloseContextType ==
    ASSUME TypeOK, NEW c \in Contexts \cup {Nil}, CloseContext(c),
           c # Nil => contextPool[c] = 0,
           c # Nil /\ context[c].tracker # Nil => trackerPool[context[c].tracker] = 0
    PROVE  /\ context' = [d \in Contexts |-> IF d = c THEN NewContext ELSE context[d]]
           /\ contextPool' = [d \in Contexts |-> IF d = c THEN 1 ELSE contextPool[d]]
           /\ \A t \in Trackers : trackerPool'[t] = IF c # Nil /\ context[c].tracker = t THEN 1 ELSE trackerPool[t]
           /\ \A t \in Trackers : tracker'[t] = IF c # Nil /\ context[c].tracker = t THEN {} ELSE tracker[t]
           /\ tracker' \in [Trackers -> SUBSET Evals] /\ trackerPool' \in [Trackers -> {0, 1}]
<1> USE NilAssumption DEF TypeOK, CloseContext, Put
<1>1. CASE c = Nil
  BY <1>1
<1>2. CASE c # Nil
  <2>1. context[c].tracker \in Trackers \cup {Nil}
    BY <1>2 DEF Context
  <2>2. /\ context' = [d \in Contexts |-> IF d = c THEN NewContext ELSE context[d]]
        /\ contextPool' = [d \in Contexts |-> IF d = c THEN 1 ELSE contextPool[d]]
    BY <1>2
  <2>3. CASE context[c].tracker = Nil
    BY <1>2, <2>2, <2>3
  <2>4. CASE context[c].tracker # Nil
    <3> DEFINE t == context[c].tracker
    <3>1. /\ tracker' = [tracker EXCEPT ![t] = {}] /\ trackerPool' = [trackerPool EXCEPT ![t] = @ + 1]
          /\ t \in Trackers /\ trackerPool[t] = 0
      BY <1>2, <2>1, <2>4
    <3> HIDE DEF t
    <3>2. \A u \in Trackers : /\ trackerPool'[u] = IF t = u THEN 1 ELSE trackerPool[u]
                              /\ tracker'[u] = IF t = u THEN {} ELSE tracker[u]
      BY <3>1
    <3>3. tracker' \in [Trackers -> SUBSET Evals] /\ trackerPool' \in [Trackers -> {0, 1}]
      BY <3>1
    <3> QED
      BY <1>2, <2>2, <3>2, <3>3 DEF t
  <2> QED
    BY <2>3, <2>4
<1> QED
  BY <1>1, <1>2

\* Every object that an evaluation holds is given back, and none else changes.
LEMMA CloseFrameEffect ==
    ASSUME HoldInv, NEW e \in Evals, Len(stack[e]) > 0, CloseFrame(e)
    PROVE  LET c == Ctx(e)
               t == context[c].tracker IN
           /\ TypeOK' /\ c \in Contexts \cup {Nil}
           /\ c # Nil => t \in Trackers \cup {Nil}
           /\ context' = [d \in Contexts |-> IF d = c THEN NewContext ELSE context[d]]
           /\ contextPool' = [d \in Contexts |-> IF d = c THEN 1 ELSE contextPool[d]]
           /\ \A u \in Trackers : trackerPool'[u] = IF c # Nil /\ t = u THEN 1 ELSE trackerPool[u]
           /\ \A u \in Trackers : tracker'[u] = IF c # Nil /\ t = u THEN {} ELSE tracker[u]
           /\ \A f \in Frames : framePool'[f] = IF f \in Held(e) THEN 1 ELSE framePool[f]
           /\ \A f \in Frames : frame'[f] = IF f = Root(e) THEN ResetFrame(frame[f])
                                            ELSE IF f \in Held(e) THEN NewFrame ELSE frame[f]
           /\ Root(e) \in Held(e) /\ Held(e) \subseteq Frames
           /\ stack' = [stack EXCEPT ![e] = <<>>]
           /\ pc' = [pc EXCEPT ![e] = "done"]
<1> DEFINE c == Ctx(e)
           t == context[c].tracker
<1>0. TypeOK /\ StackState /\ FramesOut /\ ContextsOut /\ TrackersOut
  BY DEF HoldInv
<1>1. stack[e] \in Seq(Frames) /\ 1 \in 1..Len(stack[e])
  BY <1>0 DEF TypeOK
<1>2. Root(e) \in Held(e) /\ Held(e) = {stack[e][i] : i \in 1..Len(stack[e])} /\ Held(e) \subseteq Frames
  BY <1>1 DEF Root, Held, Range
<1>3. frame[Root(e)] \in Frame /\ c \in Contexts \cup {Nil}
  BY <1>0, <1>2 DEF TypeOK, Ctx, Frame
<1>4. c # Nil => contextPool[c] = 0 /\ context[c] \in Context
  BY <1>0, <1>1, <1>3 DEF ContextsOut, Holds, Ctx, Root, TypeOK
<1>5. c # Nil /\ t # Nil => t \in Trackers /\ trackerPool[t] = 0
  BY <1>0, <1>3, <1>4 DEF TrackersOut, Context
<1>6. CloseContext(c)
  BY DEF CloseFrame
<1> HIDE DEF c
<1>7. /\ context' = [d \in Contexts |-> IF d = c THEN NewContext ELSE context[d]]
      /\ contextPool' = [d \in Contexts |-> IF d = c THEN 1 ELSE contextPool[d]]
      /\ \A u \in Trackers : trackerPool'[u] = IF c # Nil /\ t = u THEN 1 ELSE trackerPool[u]
      /\ \A u \in Trackers : tracker'[u] = IF c # Nil /\ t = u THEN {} ELSE tracker[u]
      /\ tracker' \in [Trackers -> SUBSET Evals] /\ trackerPool' \in [Trackers -> {0, 1}]
  BY <1>0, <1>3, <1>4, <1>5, <1>6, CloseContextType
<1>8. \A f \in Frames : framePool'[f] = IF f \in Held(e) THEN 1 ELSE framePool[f]
  <2>1. \A f \in Held(e) : framePool[f] = 0
    BY <1>0, <1>2 DEF FramesOut
  <2>2. framePool' = [f \in Frames |-> framePool[f] + (IF f \in Held(e) THEN 1 ELSE 0)]
    BY DEF CloseFrame
  <2> QED
    BY <2>1, <2>2, <1>0 DEF TypeOK
<1>9. \A f \in Frames : frame'[f] = IF f = Root(e) THEN ResetFrame(frame[f])
                                    ELSE IF f \in Held(e) THEN NewFrame ELSE frame[f]
  BY DEF CloseFrame
<1>10. stack' = [stack EXCEPT ![e] = <<>>] /\ pc' = [pc EXCEPT ![e] = "done"]
  BY DEF CloseFrame
<1>11. frame' \in [Frames -> Frame]
  <2>1. DOMAIN frame' = Frames /\ frame' = [f \in Frames |-> frame'[f]]
    BY DEF CloseFrame
  <2> QED
    BY <2>1, <1>0, <1>3, <1>9, ResetFrameType, NewTyped, ZenonT(40) DEF TypeOK
<1>12. context' \in [Contexts -> Context] /\ contextPool' \in [Contexts -> {0, 1}]
  BY <1>0, <1>7, NewTyped DEF TypeOK
<1>13. framePool' \in [Frames -> {0, 1}]
  <2>1. framePool' = [f \in Frames |-> framePool'[f]]
    BY DEF CloseFrame
  <2> QED
    BY <2>1, <1>0, <1>8 DEF TypeOK
<1>14. stack' \in [Evals -> Seq(Frames)] /\ pc' \in [Evals -> {"new", "framed", "ready", "exec", "done"}]
  BY <1>0, <1>10 DEF TypeOK
<1>15. TypeOK'
  BY <1>7, <1>11, <1>12, <1>13, <1>14 DEF TypeOK
<1>16. c # Nil => t \in Trackers \cup {Nil}
  BY <1>5
<1> QED
  BY <1>2, <1>3, <1>7, <1>8, <1>9, <1>10, <1>15, <1>16 DEF c

LEMMA CloseFrameHold ==
    ASSUME HoldInv, NEW e \in Evals, Len(stack[e]) > 0, CloseFrame(e)
    PROVE  HoldInv'
<1> DEFINE c == Ctx(e)
           t == context[c].tracker
<1>0. TypeOK /\ StackState /\ FramesOut /\ ContextsOut /\ TrackersOut
  BY DEF HoldInv
<1>1. /\ TypeOK' /\ c \in Contexts \cup {Nil}
      /\ context' = [d \in Contexts |-> IF d = c THEN NewContext ELSE context[d]]
      /\ contextPool' = [d \in Contexts |-> IF d = c THEN 1 ELSE contextPool[d]]
      /\ \A u \in Trackers : trackerPool'[u] = IF c # Nil /\ t = u THEN 1 ELSE trackerPool[u]
      /\ \A f \in Frames : framePool'[f] = IF f \in Held(e) THEN 1 ELSE framePool[f]
      /\ \A f \in Frames : frame'[f] = IF f = Root(e) THEN ResetFrame(frame[f])
                                       ELSE IF f \in Held(e) THEN NewFrame ELSE frame[f]
      /\ Root(e) \in Held(e) /\ Held(e) \subseteq Frames
      /\ stack' = [stack EXCEPT ![e] = <<>>] /\ pc' = [pc EXCEPT ![e] = "done"]
  BY CloseFrameEffect
<1>c. c = frame[stack[e][1]].ctx /\ stack[e][1] \in Frames
  BY <1>1 DEF Ctx, Root
<1> HIDE DEF c, t
<1>2. Held(e) = {stack[e][i] : i \in 1..Len(stack[e])}
  BY <1>0 DEF Held, Range, TypeOK
<1>3. Len(stack'[e]) = 0 /\ pc'[e] = "done" /\ \A d \in Evals : d # e => stack'[d] = stack[d] /\ pc'[d] = pc[d]
  BY <1>0, <1>1 DEF TypeOK
<1>4. StackState'
  BY <1>0, <1>3 DEF StackState
<1>5. \A d \in Evals : d # e => \A i \in 1..Len(stack[d]) : stack[d][i] \notin Held(e) /\ stack[d][i] \in Frames
  <2>1. \A d \in Evals : stack[d] \in Seq(Frames)
    BY <1>0 DEF TypeOK
  <2> QED
    BY <2>1, <1>0, <1>1, <1>2, SMTT(40) DEF FramesOut
<1>6. FramesOut'
  <2> SUFFICES ASSUME NEW g \in Frames
               PROVE  /\ framePool'[g] = 0 <=>
                            \E d \in Evals : \E i \in 1..Len(stack'[d]) : stack'[d][i] = g
                      /\ \A b, d \in Evals : \A i \in 1..Len(stack'[b]), j \in 1..Len(stack'[d]) :
                            stack'[b][i] = g /\ stack'[d][j] = g => b = d /\ i = j
                      /\ framePool'[g] = 1 => frame'[g].ctx = Nil
    BY DEF FramesOut
  <2>1. CASE g \in Held(e)
    <3>1. frame'[g].ctx = Nil
      BY <2>1, <1>1, <1>0, ResetFrameType DEF NewFrame, TypeOK
    <3> QED
      BY <3>1, <2>1, <1>1, <1>3, <1>5
  <2>2. CASE g \notin Held(e)
    BY <2>2, <1>0, <1>1, <1>2, <1>3, SMTT(40) DEF FramesOut
  <2> QED
    BY <2>1, <2>2
<1>7. \A d \in Evals, b \in Contexts : Holds(d, b)' <=> d # e /\ Holds(d, b)
  <2> SUFFICES ASSUME NEW d \in Evals, NEW b \in Contexts
               PROVE  Holds(d, b)' <=> d # e /\ Holds(d, b)
    OBVIOUS
  <2>1. CASE d = e
    BY <2>1, <1>3 DEF Holds
  <2>2. CASE d # e /\ Len(stack[d]) > 0
    <3>1. 1 \in 1..Len(stack[d])
      BY <2>2, <1>0 DEF TypeOK
    <3> QED
      BY <3>1, <2>2, <1>1, <1>3, <1>5 DEF Holds
  <2>3. CASE d # e /\ ~(Len(stack[d]) > 0)
    BY <2>3, <1>3 DEF Holds
  <2> QED
    BY <2>1, <2>2, <2>3
<1>8. \A b \in Contexts : Holds(e, b) <=> b = c
  BY <1>c, NilAssumption DEF Holds
<1>9. ContextsOut'
  <2> SUFFICES ASSUME NEW b \in Contexts
               PROVE  /\ contextPool'[b] = 0 <=> \E d \in Evals : Holds(d, b)'
                      /\ \A d, g \in Evals : Holds(d, b)' /\ Holds(g, b)' => d = g
                      /\ contextPool'[b] = 1 => context'[b].tracker = Nil
    BY DEF ContextsOut
  <2>1. CASE b = c
    BY <2>1, <1>0, <1>1, <1>7, <1>8 DEF ContextsOut, NewContext
  <2>2. CASE b # c
    BY <2>2, <1>0, <1>1, <1>7, <1>8 DEF ContextsOut
  <2> QED
    BY <2>1, <2>2
<1>10. TrackersOut'
  <2>1. \A b \in Contexts : context'[b].tracker = IF b = c THEN Nil ELSE context[b].tracker
    BY <1>1 DEF NewContext
  <2> SUFFICES ASSUME NEW u \in Trackers
               PROVE  /\ trackerPool'[u] = 0 <=> \E b \in Contexts : context'[b].tracker = u
                      /\ \A b, d \in Contexts :
                            context'[b].tracker = u /\ context'[d].tracker = u => b = d
    BY DEF TrackersOut
  <2>2. CASE c # Nil /\ t = u
    BY <2>1, <2>2, <1>0, <1>1, NilAssumption DEF TrackersOut, t
  <2>3. CASE ~(c # Nil /\ t = u)
    BY <2>1, <2>3, <1>0, <1>1, NilAssumption DEF TrackersOut, t
  <2> QED
    BY <2>2, <2>3
<1> QED
  BY <1>1, <1>4, <1>6, <1>9, <1>10 DEF HoldInv

-----------------------------------------------------------------------------
(* Each action, and the theorem. *)
LEMMA NewExecutionFrameHold ==
    ASSUME HoldInv, NEW e \in Evals, NewExecutionFrame(e)
    PROVE  HoldInv'
<1>0. TypeOK /\ StackState /\ FramesOut
  BY DEF HoldInv
<1>1. PICK f \in Frames, input \in Inputs \ {"conflict", "invalid"} :
         /\ framePool[f] > 0
         /\ framePool' = Get(framePool, f)
         /\ frame' =
               [frame EXCEPT ![f] =
                   CASE input = "empty" -> @
                     [] input = "map" -> [@ EXCEPT !.vars = {e}]
                     [] input = "activation" -> [@ EXCEPT !.scope = {e}, !.functions = {}]
                     [] input = "functions" -> [@ EXCEPT !.scope = {e}, !.functions = {e}]]
         /\ stack' = [stack EXCEPT ![e] = <<f>>]
  BY DEF NewExecutionFrame
<1>2. frame[f] \in Frame /\ {} \in SUBSET Evals /\ {e} \in SUBSET Evals
  BY <1>0 DEF TypeOK
<1>3. PICK r \in Frame : r.ctx = frame[f].ctx /\ frame' = [frame EXCEPT ![f] = r]
  <2>1. input \in {"empty", "map", "activation", "functions"}
    BY InputsAssumption
  <2>2. CASE input = "empty"
    BY <2>2, <1>1, <1>2
  <2>3. CASE input = "map"
    <3> DEFINE q == [frame[f] EXCEPT !.vars = {e}]
    <3>1. frame' = [frame EXCEPT ![f] = q]
      BY <2>3, <1>1
    <3>2. q \in Frame /\ q.ctx = frame[f].ctx
      BY <1>2, FrameWith
    <3> HIDE DEF q
    <3> QED
      BY <3>1, <3>2
  <2>4. CASE input = "activation"
    <3> DEFINE q == [frame[f] EXCEPT !.scope = {e}, !.functions = {}]
    <3>1. frame' = [frame EXCEPT ![f] = q]
      BY <2>4, <1>1
    <3>2. q \in Frame /\ q.ctx = frame[f].ctx
      BY <1>2, FrameWithScope
    <3> HIDE DEF q
    <3> QED
      BY <3>1, <3>2
  <2>5. CASE input = "functions"
    <3> DEFINE q == [frame[f] EXCEPT !.scope = {e}, !.functions = {e}]
    <3>1. frame' = [frame EXCEPT ![f] = q]
      BY <2>5, <1>1
    <3>2. q \in Frame /\ q.ctx = frame[f].ctx
      BY <1>2, FrameWithScope
    <3> HIDE DEF q
    <3> QED
      BY <3>1, <3>2
  <2> QED
    BY <2>1, <2>2, <2>3, <2>4, <2>5
<1>4. framePool[f] = 1 /\ r.ctx = Nil
  BY <1>0, <1>1, <1>3 DEF TypeOK, FramesOut
<1>5. stack[e] = <<>> /\ stack' = [stack EXCEPT ![e] = Append(@, f)]
  <2>1. pc[e] = "new" /\ stack[e] \in Seq(Frames) /\ ~(Len(stack[e]) > 0)
    BY <1>0 DEF NewExecutionFrame, TypeOK, StackState
  <2>2. stack[e] = <<>>
    BY <2>1
  <2>3. Append(stack[e], f) = <<f>>
    BY <2>2
  <2> QED
    BY <2>2, <2>3, <1>1
<1>6. TypeOK'
  <2>1. framePool' \in [Frames -> {0, 1}]
    BY <1>0, <1>1, PoolTyped DEF TypeOK
  <2>2. frame' \in [Frames -> Frame]
    BY <1>0, <1>3 DEF TypeOK
  <2>3. <<f>> \in Seq(Frames)
    OBVIOUS
  <2>4. stack' \in [Evals -> Seq(Frames)]
    BY <1>0, <1>1, <2>3 DEF TypeOK
  <2>5. pc' \in [Evals -> {"new", "framed", "ready", "exec", "done"}]
    BY <1>0 DEF TypeOK, NewExecutionFrame
  <2> QED
    BY <1>0, <2>1, <2>2, <2>4, <2>5 DEF NewExecutionFrame, TypeOK
<1>7. StackState'
  BY <1>0, <1>1 DEF NewExecutionFrame, TypeOK, StackState
<1>8. \A g \in Frames : g # f => frame'[g].ctx = frame[g].ctx
  BY <1>3
<1>9. frame'[f].ctx = Nil
  BY <1>0, <1>3, <1>4 DEF TypeOK
<1> QED
  BY <1>1, <1>5, <1>6, <1>7, <1>8, <1>9, TakeFrame DEF NewExecutionFrame

LEMMA PushHold ==
    ASSUME HoldInv, NEW e \in Evals, Push(e)
    PROVE  HoldInv'
<1>0. TypeOK /\ StackState
  BY DEF HoldInv
<1>1. PICK f \in Frames :
         /\ framePool[f] > 0
         /\ framePool' = Get(framePool, f)
         /\ frame' = [frame EXCEPT ![f] = Pushed(@, e)]
         /\ stack' = [stack EXCEPT ![e] = Append(@, f)]
  BY DEF Push
<1>2. stack[e] \in Seq(Frames) /\ Len(stack[e]) > 0 /\ Top(e) \in Frames
  BY <1>0 DEF Push, TypeOK, StackState, Top
<1>3. Pushed(frame[f], e) \in Frame
  <2>1. frame[f] \in Frame /\ frame[Top(e)] \in Frame
    BY <1>0, <1>2 DEF TypeOK
  <2> QED
    BY <2>1 DEF Pushed, Frame
<1>4. TypeOK'
  BY <1>0, <1>1, <1>2, <1>3 DEF Push, TypeOK, Get
<1>5. StackState'
  BY <1>0, <1>1, <1>2 DEF Push, TypeOK, StackState
<1>6. \A g \in Frames : g # f => frame'[g].ctx = frame[g].ctx
  BY <1>1
<1>7. ~(Len(stack[e]) = 0)
  BY <1>2
<1>8. UNCHANGED <<contextPool, trackerPool, context>>
  BY DEF Push
<1> QED
  BY <1>1, <1>4, <1>5, <1>6, <1>7, <1>8, TakeFrame

LEMMA PopHold ==
    ASSUME HoldInv, NEW e \in Evals, Pop(e) \/ AbandonFold(e)
    PROVE  HoldInv'
<1>0. TypeOK /\ StackState
  BY DEF HoldInv
<1>1. /\ pc[e] = "exec" /\ Len(stack[e]) > 1
      /\ framePool' = Put(framePool, Top(e)) /\ stack' = [stack EXCEPT ![e] = Front(@)]
      /\ UNCHANGED <<pc, context, tracker, contextPool, trackerPool, gate, running>>
  BY DEF Pop, AbandonFold
<1>2. stack[e] \in Seq(Frames) /\ Top(e) \in Frames /\ frame[Top(e)] \in Frame
  BY <1>0, <1>1 DEF TypeOK, Top
<1>3. PICK r \in Frame : r.ctx = Nil /\ frame' = [frame EXCEPT ![Top(e)] = r]
  <2>1. frame' = [frame EXCEPT ![Top(e)] = ResetFrame(frame[Top(e)])]
        \/ frame' = [frame EXCEPT ![Top(e)] = NewFrame]
    BY DEF Pop, AbandonFold
  <2>2. NewFrame.ctx = Nil
    BY DEF NewFrame
  <2> QED
    BY <1>2, <2>1, <2>2, ResetFrameType, NewTyped
<1>4. Front(stack[e]) \in Seq(Frames) /\ Len(Front(stack[e])) = Len(stack[e]) - 1
  BY <1>1, <1>2 DEF Front
<1>5. framePool[Top(e)] = 0
  <2>1. Len(stack[e]) \in 1..Len(stack[e]) /\ stack[e][Len(stack[e])] = Top(e)
    BY <1>1, <1>2 DEF Top
  <2> QED
    BY <2>1, <1>2 DEF HoldInv, FramesOut
<1>6. framePool' \in [Frames -> {0, 1}]
  BY <1>0, <1>1, <1>2, <1>5, PoolTyped DEF TypeOK
<1>7. TypeOK'
  BY <1>0, <1>1, <1>3, <1>4, <1>6 DEF TypeOK
<1>8. StackState'
  BY <1>0, <1>1, <1>2, <1>4 DEF TypeOK, StackState
<1>9. frame'[Top(e)].ctx = Nil /\ \A g \in Frames : g # Top(e) => frame'[g].ctx = frame[g].ctx
  BY <1>0, <1>2, <1>3 DEF TypeOK
<1> QED
  BY <1>1, <1>7, <1>8, <1>9, DropFrame

LEMMA ContextHold ==
    ASSUME HoldInv, NEW e \in Evals, SetContext(e) \/ InitState(e)
    PROVE  HoldInv'
<1>0. TypeOK /\ StackState
  BY DEF HoldInv
<1>1. Len(stack[e]) = 1 /\ Root(e) \in Frames /\ frame[Root(e)] \in Frame
  <2>1. stack[e] \in Seq(Frames)
    BY <1>0 DEF TypeOK
  <2>2. SetContext(e) => Len(stack[e]) = 1
    BY <1>0 DEF SetContext, StackState
  <2>3. InitState(e) => Len(stack[e]) = 1
    BY DEF InitState
  <2>4. Len(stack[e]) = 1
    BY <2>2, <2>3
  <2>5. Root(e) \in Frames
    BY <2>1, <2>4 DEF Root
  <2>6. frame[Root(e)] \in Frame
    BY <2>5, <1>0 DEF TypeOK
  <2> QED
    BY <2>4, <2>5, <2>6
<1>2. ASSUME NEW c \in Contexts, frame' = [frame EXCEPT ![Root(e)].ctx = c]
      PROVE  /\ frame' \in [Frames -> Frame] /\ frame'[Root(e)].ctx = c
             /\ \A g \in Frames : g # Root(e) => frame'[g].ctx = frame[g].ctx
  <2>1. [frame[Root(e)] EXCEPT !.ctx = c] \in Frame /\ [frame[Root(e)] EXCEPT !.ctx = c].ctx = c
    BY <1>1 DEF Frame
  <2> QED
    BY <1>0, <1>1, <1>2, <2>1 DEF TypeOK
<1>3. CASE SetContext(e)
  <2>1. PICK c \in Contexts, t \in Trackers :
           /\ contextPool[c] > 0 /\ trackerPool[t] > 0
           /\ contextPool' = Get(contextPool, c) /\ trackerPool' = Get(trackerPool, t)
           /\ frame' = [frame EXCEPT ![Root(e)].ctx = c]
           /\ context' = [context EXCEPT ![c] =
                 [@ EXCEPT !.tracker = t, !.gate = GateOf(e, c), !.interrupt = {e},
                           !.interrupted = {}]]
    BY <1>3 DEF SetContext
  <2> DEFINE r == [context[c] EXCEPT !.tracker = t, !.gate = GateOf(e, c), !.interrupt = {e},
                                     !.interrupted = {}]
  <2>2. context[c] \in Context
    BY <1>0 DEF TypeOK
  <2>3. r \in Context /\ r.tracker = t
    BY <2>2 DEF Context, GateOf
  <2>4. context' = [context EXCEPT ![c] = r]
    BY <2>1
  <2> HIDE DEF r
  <2>5. context' \in [Contexts -> Context] /\ context'[c].tracker = t
        /\ \A d \in Contexts : d # c => context'[d].tracker = context[d].tracker
    BY <1>0, <2>3, <2>4 DEF TypeOK
  <2>6. TypeOK'
    <3>1. contextPool' \in [Contexts -> {0, 1}] /\ trackerPool' \in [Trackers -> {0, 1}]
      BY <1>0, <2>1, PoolTyped DEF TypeOK
    <3>2. frame' \in [Frames -> Frame]
      BY <1>2, <2>1
    <3>3. pc' \in [Evals -> {"new", "framed", "ready", "exec", "done"}]
      BY <1>0, <1>3 DEF TypeOK, SetContext
    <3>4. UNCHANGED <<stack, tracker, framePool>>
      BY <1>3 DEF SetContext
    <3> QED
      BY <1>0, <3>1, <3>2, <3>3, <3>4, <2>5 DEF TypeOK
  <2>7. StackState'
    BY <1>0, <1>1, <1>3 DEF SetContext, StackState, TypeOK
  <2>8. frame[Root(e)].ctx = Nil /\ UNCHANGED <<stack, framePool>>
    BY <1>3 DEF SetContext, Ctx
  <2> QED
    BY <1>1, <1>2, <2>1, <2>5, <2>6, <2>7, <2>8, TakeContext, ZenonT(40)
<1>4. CASE InitState(e) /\ Ctx(e) # Nil
  <2> DEFINE c == Ctx(e)
             s == IF context[c].state = {} THEN {e} ELSE context[c].state
  <2>1. c \in Contexts /\ context[c] \in Context
    BY <1>0, <1>1, <1>4 DEF Ctx, Frame, TypeOK
  <2>2. s \in SUBSET Evals
    BY <2>1 DEF Context
  <2>3. context' = [context EXCEPT ![c] = [context[c] EXCEPT !.state = s]]
    BY <1>4, <2>1 DEF InitState
  <2> HIDE DEF s
  <2>4. /\ [context[c] EXCEPT !.state = s] \in Context
        /\ [context[c] EXCEPT !.state = s].tracker = context[c].tracker
    BY <2>1, <2>2, ContextWith
  <2> HIDE DEF c
  <2>5. /\ context' \in [Contexts -> Context]
        /\ \A d \in Contexts : context'[d].tracker = context[d].tracker
    BY <1>0, <2>1, <2>3, <2>4 DEF TypeOK
  <2>6. UNCHANGED <<pc, stack, frame, tracker, pools>>
    BY <1>4 DEF InitState, pools
  <2>7. TypeOK'
    BY <1>0, <2>5, <2>6 DEF TypeOK, pools
  <2> QED
    BY <2>5, <2>6, <2>7, FieldsKeepHold
<1>5. CASE InitState(e) /\ ~(Ctx(e) # Nil)
  <2>1. PICK c \in Contexts :
           /\ contextPool[c] > 0
           /\ contextPool' = Get(contextPool, c)
           /\ frame' = [frame EXCEPT ![Root(e)].ctx = c]
           /\ context' = [context EXCEPT ![c].state = {e}]
    BY <1>5 DEF InitState
  <2>2. context[c] \in Context
    BY <1>0 DEF TypeOK
  <2>3. /\ [context[c] EXCEPT !.state = {e}] \in Context
        /\ [context[c] EXCEPT !.state = {e}].tracker = context[c].tracker
    BY <2>2, ContextWith
  <2>4. context' = [context EXCEPT ![c] = [context[c] EXCEPT !.state = {e}]]
    BY <2>1
  <2>5. /\ context' \in [Contexts -> Context]
        /\ \A d \in Contexts : context'[d].tracker = context[d].tracker
    BY <1>0, <2>3, <2>4 DEF TypeOK
  <2>6. UNCHANGED <<pc, stack, tracker, framePool, trackerPool>>
    BY <1>5 DEF InitState
  <2>7. TypeOK'
    <3>1. contextPool' \in [Contexts -> {0, 1}]
      BY <1>0, <2>1, PoolTyped DEF TypeOK
    <3>2. frame' \in [Frames -> Frame]
      BY <1>2, <2>1
    <3>3. UNCHANGED tracker
      BY <1>5 DEF InitState
    <3> QED
      BY <1>0, <3>1, <3>2, <3>3, <2>5, <2>6 DEF TypeOK
  <2>8. StackState' /\ frame[Root(e)].ctx = Nil
    BY <1>0, <1>5, <2>6 DEF StackState, Ctx
  <2> QED
    BY <1>1, <1>2, <2>1, <2>5, <2>6, <2>7, <2>8, TakeContext
<1> QED
  BY <1>3, <1>4, <1>5

LEMMA CompleteHold ==
    ASSUME HoldInv, NEW r \in running, Complete(r)
    PROVE  HoldInv'
<1>1. TypeOK'
  BY DEF HoldInv, TypeOK, Complete, pools
<1> QED
  BY <1>1, FieldsKeepHold DEF Complete

LEMMA StepHold == HoldInv /\ [Next]_vars => HoldInv'
<1> SUFFICES ASSUME HoldInv, [Next]_vars PROVE HoldInv'
  OBVIOUS
<1>0. TypeOK /\ StackState
  BY DEF HoldInv
<1>1. ASSUME NEW e \in Evals, Evaluate(e) PROVE HoldInv'
  <2>1. CASE SetDefaultVarsFails(e) \/ Close(e)
    <3>1. CloseFrame(e) /\ Len(stack[e]) > 0
      BY <2>1, <1>0 DEF SetDefaultVarsFails, Close, StackState
    <3> QED
      BY <3>1, CloseFrameHold
  <2> QED
    BY <1>1, <2>1, FieldSteps, NewExecutionFrameHold, PushHold, PopHold, ContextHold DEF Evaluate
<1>2. CASE UNCHANGED vars
  <2>1. TypeOK'
    BY <1>0, <1>2 DEF TypeOK, vars, pools
  <2> QED
    BY <1>2, <2>1, FieldsKeepHold DEF vars
<1> QED
  BY <1>1, <1>2, CompleteHold DEF Next, Terminated

LEMMA HoldInvariant == Spec => []HoldInv
BY InitHold, StepHold, PTL DEF Spec

(* An object that a pool has handed out has one holder and is not in the pool; an object *)
(* without a holder is there.                                                            *)
THEOREM PoolsExclusive == Spec => []Exclusive
<1>1. HoldInv => Exclusive
  <2> SUFFICES ASSUME HoldInv PROVE Exclusive
    OBVIOUS
  <2>0. TypeOK /\ FramesOut /\ ContextsOut /\ TrackersOut
    BY DEF HoldInv
  <2>1. \A e \in Evals : stack[e] \in Seq(Frames) /\ DOMAIN stack[e] = 1..Len(stack[e])
    BY <2>0 DEF TypeOK
  <2>2. \A e \in Evals, c \in Contexts : HoldsContext(e, c) <=> Holds(e, c)
    BY <2>1 DEF HoldsContext, Holds, Ctx, Root
  <2>3. \A e \in Evals : \A f : f \in Held(e) <=> \E i \in 1..Len(stack[e]) : stack[e][i] = f
    BY <2>1 DEF Held, Range
  <2>4. \A f \in Frames :
           /\ (framePool[f] = 0) = (\E e \in Evals : f \in Held(e))
           /\ \A d, e \in Evals : f \in Held(e) /\ f \in Held(d) => d = e
    <3> SUFFICES ASSUME NEW f \in Frames
                 PROVE  /\ (framePool[f] = 0) = (\E e \in Evals : f \in Held(e))
                        /\ \A d, e \in Evals : f \in Held(e) /\ f \in Held(d) => d = e
      OBVIOUS
    <3>1. framePool[f] = 0 <=> \E e \in Evals : f \in Held(e)
      BY <2>0, <2>3 DEF FramesOut
    <3>2. \A d, e \in Evals : f \in Held(e) /\ f \in Held(d) => d = e
      BY <2>0, <2>3 DEF FramesOut
    <3>3. (framePool[f] = 0) = (\E e \in Evals : f \in Held(e))
      BY <3>1
    <3> QED
      BY <3>2, <3>3
  <2>5. \A e \in Evals : IsInjective(stack[e])
    BY <2>0, <2>1 DEF FramesOut, IsInjective
  <2>6. \A c \in Contexts :
           /\ (contextPool[c] = 0) = (\E e \in Evals : HoldsContext(e, c))
           /\ \A d, e \in Evals : HoldsContext(e, c) /\ HoldsContext(d, c) => d = e
    BY <2>0, <2>2 DEF ContextsOut
  <2> QED
    BY <2>0, <2>4, <2>5, <2>6 DEF Exclusive, TrackersOut
<1> QED
  BY <1>1, HoldInvariant, PTL

-----------------------------------------------------------------------------
(* What an evaluation reads is its own: a step of e leaves the objects of the others as *)
(* they are.                                                                            *)
OthersKept(e) ==
    /\ \A d \in Evals : d # e => stack'[d] = stack[d]
    /\ \A f \in Frames : framePool[f] = 0 /\ f \notin Held(e) => frame'[f] = frame[f]
    /\ \A c \in Contexts : contextPool[c] = 0 /\ ~Holds(e, c) => context'[c] = context[c]
    /\ \A t \in Trackers :
          trackerPool[t] = 0 /\ (\A c \in Contexts : Holds(e, c) => context[c].tracker # t)
              => tracker'[t] = tracker[t]

LEMMA OthersOwn ==
    ASSUME OwnInv, NEW e \in Evals, OthersKept(e), NEW d \in Evals, d # e
    PROVE  FramesOwn(d)' /\ ContextsOwn(d)'
<1>0. TypeOK /\ FramesOut /\ ContextsOut /\ TrackersOut /\ FramesOwn(d) /\ ContextsOwn(d)
  BY DEF OwnInv, HoldInv
<1>1. stack'[d] = stack[d] /\ stack[d] \in Seq(Frames) /\ stack[e] \in Seq(Frames)
  BY <1>0 DEF OthersKept, TypeOK
<1>2. \A i \in 1..Len(stack[d]) : frame'[stack[d][i]] = frame[stack[d][i]]
  <2> SUFFICES ASSUME NEW i \in 1..Len(stack[d]) PROVE frame'[stack[d][i]] = frame[stack[d][i]]
    OBVIOUS
  <2>1. stack[d][i] \in Frames
    BY <1>1
  <2>2. framePool[stack[d][i]] = 0
    BY <2>1, <1>0 DEF FramesOut
  <2>3. Held(e) = {stack[e][j] : j \in 1..Len(stack[e])}
    BY <1>1 DEF Held, Range
  <2>4. stack[d][i] \notin Held(e)
    BY <2>1, <2>3, <1>0 DEF FramesOut
  <2> QED
    BY <2>1, <2>2, <2>4 DEF OthersKept
<1>3. FramesOwn(d)'
  <2> SUFFICES ASSUME NEW i \in 1..Len(stack'[d])
               PROVE  /\ OwnFrame(d, frame'[stack'[d][i]])
                      /\ i # 1 => frame'[stack'[d][i]].vars = {}
                      /\ frame'[stack'[d][i]].ctx = frame'[stack'[d][1]].ctx
    BY DEF FramesOwn, OwnFrame
  <2>1. i \in 1..Len(stack[d]) /\ 1 \in 1..Len(stack[d])
    BY <1>1
  <2>2. stack'[d][i] = stack[d][i] /\ stack'[d][1] = stack[d][1]
    BY <1>1
  <2>3. /\ frame'[stack[d][i]] = frame[stack[d][i]]
        /\ frame'[stack[d][1]] = frame[stack[d][1]]
    BY <2>1, <1>2
  <2> QED
    BY <2>1, <2>2, <2>3, <1>0, ZenonT(40) DEF FramesOwn
<1>4. ContextsOwn(d)'
  <2> SUFFICES ASSUME NEW c \in Contexts, Holds(d, c)'
               PROVE  /\ OwnContext(d, context'[c])
                      /\ context'[c].tracker # Nil => tracker'[context'[c].tracker] \subseteq {d}
    BY DEF ContextsOwn, OwnContext
  <2>1. Holds(d, c)
    BY <1>1, <1>2 DEF Holds
  <2>2. contextPool[c] = 0 /\ ~Holds(e, c)
    BY <2>1, <1>0 DEF ContextsOut
  <2>3. context'[c] = context[c]
    BY <2>2 DEF OthersKept
  <2>4. ASSUME context[c].tracker # Nil PROVE tracker'[context[c].tracker] \subseteq {d}
    <3>1. context[c].tracker \in Trackers
      BY <2>4, <1>0 DEF TypeOK, Context
    <3>2. trackerPool[context[c].tracker] = 0
      BY <3>1, <1>0 DEF TrackersOut
    <3>3. \A b \in Contexts : Holds(e, b) => context[b].tracker # context[c].tracker
      BY <2>2, <3>1, <1>0 DEF TrackersOut
    <3>4. tracker'[context[c].tracker] = tracker[context[c].tracker]
      BY <3>1, <3>2, <3>3 DEF OthersKept
    <3> QED
      BY <2>1, <2>4, <3>4, <1>0 DEF ContextsOwn
  <2> QED
    BY <2>1, <2>3, <2>4, <1>0 DEF ContextsOwn
<1> QED
  BY <1>3, <1>4

\* What is left to show of a step of e.
LEMMA OwnStep ==
    ASSUME OwnInv, HoldInv', PooledClean', GatesOwn', NEW e \in Evals, OthersKept(e),
           FramesOwn(e)', ContextsOwn(e)'
    PROVE  OwnInv'
BY OthersOwn DEF OwnInv

LEMMA GatesKept ==
    ASSUME GatesOwn, UNCHANGED <<gate, running>>,
           \A e \in Evals : pc[e] \in {"exec", "done"} => pc'[e] \in {"exec", "done"}
    PROVE  GatesOwn'
<1>1. \A r \in running : r.eval \in Evals
  BY DEF GatesOwn, Call
<1> QED
  BY <1>1 DEF GatesOwn, RunningOf

\* The root of an evaluation under way, and the context it holds.
LEMMA RootOwn ==
    ASSUME OwnInv, NEW e \in Evals, Len(stack[e]) > 0
    PROVE  /\ Root(e) \in Frames /\ frame[Root(e)] \in Frame /\ OwnFrame(e, frame[Root(e)])
           /\ framePool[Root(e)] = 0 /\ Root(e) \in Held(e)
           /\ Ctx(e) \in Contexts \cup {Nil}
           /\ \A c \in Contexts : Holds(e, c) <=> c = Ctx(e)
           /\ Ctx(e) # Nil => /\ context[Ctx(e)] \in Context /\ OwnContext(e, context[Ctx(e)])
                              /\ contextPool[Ctx(e)] = 0
           /\ Ctx(e) # Nil /\ context[Ctx(e)].tracker # Nil =>
                 /\ context[Ctx(e)].tracker \in Trackers
                 /\ trackerPool[context[Ctx(e)].tracker] = 0
                 /\ tracker[context[Ctx(e)].tracker] \subseteq {e}
<1>0. TypeOK /\ FramesOut /\ ContextsOut /\ TrackersOut /\ FramesOwn(e) /\ ContextsOwn(e)
  BY DEF OwnInv, HoldInv
<1>1. stack[e] \in Seq(Frames) /\ 1 \in 1..Len(stack[e])
  BY <1>0 DEF TypeOK
<1>2. Root(e) \in Frames /\ frame[Root(e)] \in Frame /\ Root(e) \in Held(e)
  BY <1>0, <1>1 DEF Root, TypeOK, Held, Range
<1>3. OwnFrame(e, frame[Root(e)])
  BY <1>0, <1>1 DEF FramesOwn, Root
<1>4. framePool[Root(e)] = 0
  BY <1>0, <1>1, <1>2 DEF FramesOut, Root
<1>5. Ctx(e) \in Contexts \cup {Nil}
  BY <1>2 DEF Ctx, Frame
<1>6. \A c \in Contexts : Holds(e, c) <=> c = Ctx(e)
  BY DEF Holds, Ctx, Root
<1>7. Ctx(e) # Nil => /\ context[Ctx(e)] \in Context /\ OwnContext(e, context[Ctx(e)])
                      /\ contextPool[Ctx(e)] = 0
  BY <1>0, <1>5, <1>6 DEF TypeOK, ContextsOwn, ContextsOut
<1>8. Ctx(e) # Nil /\ context[Ctx(e)].tracker # Nil =>
         /\ context[Ctx(e)].tracker \in Trackers
         /\ trackerPool[context[Ctx(e)].tracker] = 0
         /\ tracker[context[Ctx(e)].tracker] \subseteq {e}
  <2>1. Ctx(e) # Nil /\ context[Ctx(e)].tracker # Nil => context[Ctx(e)].tracker \in Trackers
    BY <1>7 DEF Context
  <2> QED
    BY <2>1, <1>0, <1>5, <1>6 DEF TrackersOut, ContextsOwn
<1> QED
  BY <1>2, <1>3, <1>4, <1>5, <1>6, <1>7, <1>8

-----------------------------------------------------------------------------
(* Steps that take or put back no object. *)
\* A step of e that sets fields of its root only.
LEMMA RootStep ==
    ASSUME OwnInv, HoldInv', NEW e \in Evals, Len(stack[e]) > 0, NEW r,
           OwnFrame(e, r), r.vars = frame[Root(e)].vars, r.ctx = frame[Root(e)].ctx,
           frame' = [frame EXCEPT ![Root(e)] = r],
           UNCHANGED <<stack, context, tracker, pools, gate, running>>,
           \A d \in Evals : pc[d] \in {"exec", "done"} => pc'[d] \in {"exec", "done"}
    PROVE  OwnInv'
<1>0. TypeOK /\ FramesOut /\ PooledClean /\ FramesOwn(e) /\ ContextsOwn(e) /\ GatesOwn
  BY DEF OwnInv, HoldInv
<1>1. Root(e) \in Frames /\ framePool[Root(e)] = 0 /\ Root(e) \in Held(e)
  BY RootOwn
<1>2. frame'[Root(e)] = r /\ \A f \in Frames : f # Root(e) => frame'[f] = frame[f]
  BY <1>0, <1>1 DEF TypeOK
<1>3. UNCHANGED <<stack, context, tracker, framePool, contextPool, trackerPool>>
  BY DEF pools
<1>4. OthersKept(e)
  BY <1>1, <1>2, <1>3 DEF OthersKept
<1>5. PooledClean'
  BY <1>0, <1>1, <1>2, <1>3 DEF PooledClean
<1>6. GatesOwn'
  BY <1>0, GatesKept
<1>7. \A i \in 1..Len(stack[e]) : stack[e][i] \in Frames /\ (stack[e][i] = Root(e) => i = 1)
  <2>1. \A i \in 1..Len(stack[e]) : stack[e][i] \in Frames
    BY <1>0 DEF TypeOK
  <2>2. 1 \in 1..Len(stack[e])
    BY <1>0 DEF TypeOK
  <2> QED
    BY <2>1, <2>2, <1>0, <1>1 DEF FramesOut, Root
<1>8. FramesOwn(e)'
  <2> SUFFICES ASSUME NEW i \in 1..Len(stack[e])
               PROVE  /\ OwnFrame(e, frame'[stack[e][i]])
                      /\ i # 1 => frame'[stack[e][i]].vars = {}
                      /\ frame'[stack[e][i]].ctx = frame'[stack[e][1]].ctx
    BY <1>3, ZenonT(40) DEF FramesOwn, OwnFrame
  <2>1. frame'[stack[e][1]].ctx = frame[stack[e][1]].ctx
    BY <1>2 DEF Root
  <2>2. CASE i = 1
    BY <2>1, <2>2, <1>2 DEF Root
  <2>3. CASE i # 1
    <3>1. frame'[stack[e][i]] = frame[stack[e][i]]
      BY <2>3, <1>2, <1>7
    <3> QED
      BY <3>1, <2>1, <2>3, <1>0 DEF FramesOwn
  <2> QED
    BY <2>2, <2>3
<1>9. \A c \in Contexts : Holds(e, c)' <=> Holds(e, c)
  BY <1>2, <1>3 DEF Holds, Root
<1>10. ContextsOwn(e)'
  BY <1>0, <1>3, <1>9 DEF ContextsOwn, OwnContext
<1> QED
  BY <1>4, <1>5, <1>6, <1>8, <1>10, OwnStep

\* A step of e that sets fields of its context and its tracker only.
LEMMA ContextStep ==
    ASSUME OwnInv, HoldInv', NEW e \in Evals, Len(stack[e]) > 0,
           Ctx(e) # Nil, OwnContext(e, context'[Ctx(e)]),
           context'[Ctx(e)].tracker = context[Ctx(e)].tracker,
           \A c \in Contexts : c # Ctx(e) => context'[c] = context[c],
           context[Ctx(e)].tracker # Nil => tracker'[context[Ctx(e)].tracker] \subseteq {e},
           \A t \in Trackers : t # context[Ctx(e)].tracker => tracker'[t] = tracker[t],
           UNCHANGED <<stack, frame, pools>>, GatesOwn'
    PROVE  OwnInv'
<1>0. TypeOK /\ ContextsOut /\ TrackersOut /\ PooledClean /\ FramesOwn(e) /\ ContextsOwn(e)
  BY DEF OwnInv, HoldInv
<1>1. /\ Ctx(e) \in Contexts /\ contextPool[Ctx(e)] = 0
      /\ \A c \in Contexts : Holds(e, c) <=> c = Ctx(e)
      /\ context[Ctx(e)].tracker # Nil => trackerPool[context[Ctx(e)].tracker] = 0
  BY RootOwn
<1>2. UNCHANGED <<stack, frame, framePool, contextPool, trackerPool>>
  BY DEF pools
<1>3. OthersKept(e)
  BY <1>1, <1>2 DEF OthersKept
<1>4. PooledClean'
  BY <1>0, <1>1, <1>2, NilAssumption DEF PooledClean
<1>5. FramesOwn(e)'
  BY <1>0, <1>2 DEF FramesOwn, OwnFrame
<1>6. \A c \in Contexts : Holds(e, c)' <=> c = Ctx(e)
  BY <1>1, <1>2 DEF Holds
<1>7. ContextsOwn(e)'
  BY <1>6 DEF ContextsOwn, OwnContext
<1> QED
  BY <1>3, <1>4, <1>5, <1>7, OwnStep

\* A step of e that changes where it is, or the counts of its calls, and nothing it reads.
LEMMA StillStep ==
    ASSUME OwnInv, HoldInv', NEW e \in Evals,
           UNCHANGED <<stack, frame, context, tracker, pools>>, GatesOwn'
    PROVE  OwnInv'
<1>1. UNCHANGED <<stack, frame, context, tracker, framePool, contextPool, trackerPool>>
  BY DEF pools
<1>2. PooledClean'
  BY <1>1 DEF OwnInv, PooledClean
<1>3. OthersKept(e)
  BY <1>1 DEF OthersKept
<1>4. FramesOwn(e)'
  BY <1>1, ZenonT(40) DEF OwnInv, FramesOwn, OwnFrame
<1>5. \A c \in Contexts : Holds(e, c)' <=> Holds(e, c)
  BY <1>1 DEF Holds
<1>6. ContextsOwn(e)'
  BY <1>1, <1>5 DEF OwnInv, ContextsOwn, OwnContext
<1> QED
  BY <1>2, <1>3, <1>4, <1>6, OwnStep

LEMMA FieldOwn ==
    ASSUME OwnInv, HoldInv', "conflict" \notin Inputs, NEW e \in Evals,
           \/ NewExecutionFrameFails(e) \/ SetDefaultVars(e) \/ Start(e) \/ ResolveLazy(e)
           \/ CheckInterrupt(e) \/ Register(e)
    PROVE  OwnInv'
<1>0. TypeOK /\ StackState /\ GatesOwn
  BY DEF OwnInv, HoldInv
<1>1. CASE NewExecutionFrameFails(e)
  <2>1. UNCHANGED <<stack, frame, context, tracker, pools, gate, running>>
    BY <1>1 DEF NewExecutionFrameFails
  <2>2. \A d \in Evals : pc[d] \in {"exec", "done"} => pc'[d] \in {"exec", "done"}
    BY <1>0, <1>1 DEF NewExecutionFrameFails, TypeOK
  <2> QED
    BY <1>0, <2>1, <2>2, GatesKept, StillStep
<1>2. CASE Start(e)
  <2>1. UNCHANGED <<stack, frame, context, tracker, pools, gate, running>>
    BY <1>2 DEF Start
  <2>2. \A d \in Evals : pc[d] \in {"exec", "done"} => pc'[d] \in {"exec", "done"}
    BY <1>0, <1>2 DEF Start, TypeOK
  <2> QED
    BY <1>0, <2>1, <2>2, GatesKept, StillStep
<1>3. CASE SetDefaultVars(e)
  <2>0. Len(stack[e]) > 0
    BY <1>0, <1>3 DEF SetDefaultVars, StackState
  <2>1. PICK defaults \in {"none", "vars", "functions"} :
           frame' = [frame EXCEPT
              ![Root(e)].scope = IF defaults = "none" THEN @ ELSE @ \cup {e},
              ![Root(e)].functions = IF defaults = "functions" THEN {e} ELSE @]
    BY <1>3 DEF SetDefaultVars
  <2> DEFINE f == Root(e)
             r == frame[f]
             s == IF defaults = "none" THEN r.scope ELSE r.scope \cup {e}
             g == IF defaults = "functions" THEN {e} ELSE r.functions
             q == [r EXCEPT !.scope = s, !.functions = g]
  <2>2. f \in Frames /\ r \in Frame /\ OwnFrame(e, r)
    BY <2>0, RootOwn
  <2>3. s \in SUBSET {e} /\ g \in SUBSET {e}
    BY <2>2 DEF OwnFrame
  <2>4. frame' = [frame EXCEPT ![f] = q]
    BY <2>1, <2>2
  <2> HIDE DEF s, g
  <2>5. OwnFrame(e, q) /\ q.vars = r.vars /\ q.ctx = r.ctx
    <3> HIDE DEF r
    <3> QED
      BY <2>2, <2>3 DEF OwnFrame, Frame
  <2>6. UNCHANGED <<stack, context, tracker, pools, gate, running>>
    BY <1>3 DEF SetDefaultVars
  <2>7. \A d \in Evals : pc[d] \in {"exec", "done"} => pc'[d] \in {"exec", "done"}
    BY <1>0, <1>3 DEF SetDefaultVars, TypeOK
  <2> HIDE DEF q
  <2> QED
    BY <2>0, <2>4, <2>5, <2>6, <2>7, RootStep
<1>4. CASE ResolveLazy(e)
  <2>0. Len(stack[e]) > 0
    BY <1>0, <1>4 DEF ResolveLazy, StackState
  <2> DEFINE f == Root(e)
             r == frame[f]
             z == r.lazy \cup r.vars
             q == [r EXCEPT !.lazy = z]
  <2>2. f \in Frames /\ r \in Frame /\ OwnFrame(e, r)
    BY <2>0, RootOwn
  <2>4. frame' = [frame EXCEPT ![f] = q]
    BY <1>4, <2>2 DEF ResolveLazy
  <2>5. OwnFrame(e, q) /\ q.vars = r.vars /\ q.ctx = r.ctx
    <3>1. z \in SUBSET r.vars
      BY <2>2 DEF OwnFrame
    <3> HIDE DEF z, r
    <3> QED
      BY <2>2, <3>1 DEF OwnFrame, Frame
  <2>6. UNCHANGED <<pc, stack, context, tracker, pools, gate, running>>
    BY <1>4 DEF ResolveLazy
  <2> HIDE DEF q
  <2> QED
    BY <2>0, <2>4, <2>5, <2>6, RootStep
<1>5. CASE CheckInterrupt(e)
  <2>0. Len(stack[e]) > 0
    BY <1>0, <1>5 DEF CheckInterrupt, StackState
  <2> DEFINE c == Ctx(e)
             i == context[c].interrupted \cup context[c].interrupt
             q == [context[c] EXCEPT !.interrupted = i]
  <2>1. /\ c # Nil /\ c \in Contexts /\ context[c] \in Context /\ OwnContext(e, context[c])
        /\ context[c].tracker # Nil => tracker[context[c].tracker] \subseteq {e}
    BY <1>5, <2>0, RootOwn DEF CheckInterrupt
  <2>2. i \subseteq {e}
    BY <2>1 DEF OwnContext
  <2>3. context' = [context EXCEPT ![c] = q]
    BY <1>5, <2>1 DEF CheckInterrupt
  <2> HIDE DEF i
  <2>4. OwnContext(e, q) /\ q.tracker = context[c].tracker
    BY <2>1, <2>2 DEF OwnContext, Context
  <2> HIDE DEF q
  <2>5. context'[c] = q /\ \A d \in Contexts : d # c => context'[d] = context[d]
    BY <1>0, <2>1, <2>3 DEF TypeOK
  <2>6. UNCHANGED <<pc, stack, frame, tracker, pools, gate, running>>
    BY <1>5 DEF CheckInterrupt
  <2>7. GatesOwn'
    BY <1>0, <2>6, GatesKept
  <2> QED
    BY <2>0, <2>1, <2>4, <2>5, <2>6, <2>7, ContextStep
<1>6. CASE Register(e)
  <2>0. Len(stack[e]) > 0
    BY <1>0, <1>6 DEF Register, StackState
  <2> DEFINE t == context[Ctx(e)].tracker
  <2>1. /\ Ctx(e) # Nil /\ OwnContext(e, context[Ctx(e)])
        /\ t \in Trackers /\ tracker[t] \subseteq {e}
    BY <1>6, <2>0, RootOwn DEF Register
  <2>2. tracker' = [tracker EXCEPT ![t] = tracker[t] \cup {e}]
    BY <1>6 DEF Register
  <2> HIDE DEF t
  <2>3. tracker'[t] \subseteq {e} /\ \A u \in Trackers : u # t => tracker'[u] = tracker[u]
    BY <1>0, <2>1, <2>2 DEF TypeOK
  <2>4. UNCHANGED <<pc, stack, frame, context, pools, gate, running>>
    BY <1>6 DEF Register
  <2>5. GatesOwn'
    BY <1>0, <2>4, GatesKept
  <2> QED
    BY <2>0, <2>1, <2>3, <2>4, <2>5, ContextStep DEF t
<1> QED
  BY <1>1, <1>2, <1>3, <1>4, <1>5, <1>6

-----------------------------------------------------------------------------
(* The count of the calls of an evaluation. *)
LEMMA LaunchGates ==
    ASSUME OwnInv, NEW e \in Evals, Launch(e)
    PROVE  GatesOwn'
<1>0. TypeOK /\ StackState /\ GatesOwn
  BY DEF OwnInv, HoldInv
<1>1. Len(stack[e]) > 0 /\ pc[e] = "exec" /\ Ctx(e) # Nil /\ context[Ctx(e)].tracker # Nil
  BY DEF Launch
<1>2. context[Ctx(e)].gate = e
  BY <1>1, RootOwn DEF OwnContext
<1>3. PICK n \in 1..MaxCalls :
         /\ \A r \in RunningOf(e) : r.n # n
         /\ running' = running \cup {[eval |-> e, n |-> n, gate |-> e]}
  BY <1>2 DEF Launch
<1> DEFINE r == [eval |-> e, n |-> n, gate |-> e]
<1>4. r \in Call /\ r.eval = e /\ r.gate = e /\ r.n = n
  BY <1>3, BoundsAssumption DEF Call
<1>5. running' = running \cup {r}
  BY <1>3
<1> HIDE DEF r
<1>6. r \notin RunningOf(e) /\ r \notin running
  BY <1>3, <1>4 DEF RunningOf
<1>7. gate' = [gate EXCEPT ![e] = gate[e] + 1]
  BY <1>2 DEF Launch
<1>8. \A d \in Evals : RunningOf(d)' = IF d = e THEN RunningOf(e) \cup {r} ELSE RunningOf(d)
  BY <1>4, <1>5 DEF RunningOf
<1>9. \A d \in Evals : IsFiniteSet(RunningOf(d))
  BY <1>0, FS_Subset DEF GatesOwn, RunningOf
<1>10. \A d \in Evals : gate'[d] = Cardinality(RunningOf(d)')
  <2>1. Cardinality(RunningOf(e) \cup {r}) = Cardinality(RunningOf(e)) + 1
    BY <1>6, <1>9, FS_AddElement
  <2> QED
    BY <2>1, <1>0, <1>7, <1>8 DEF GatesOwn
<1>11. IsFiniteSet(running')
  BY <1>0, <1>5, FS_AddElement DEF GatesOwn
<1>12. gate' \in [Evals \cup Contexts -> Int]
  BY <1>0, <1>7 DEF GatesOwn
<1>13. \A q \in running' : q.gate = q.eval /\ pc[q.eval] \in {"exec", "done"}
  BY <1>0, <1>1, <1>4, <1>5 DEF GatesOwn
<1>14. running' \subseteq Call /\ pc' = pc
  BY <1>0, <1>4, <1>5 DEF GatesOwn, Launch
<1> QED
  BY <1>10, <1>11, <1>12, <1>13, <1>14 DEF GatesOwn

LEMMA CompleteGates ==
    ASSUME OwnInv, NEW r \in running, Complete(r)
    PROVE  GatesOwn'
<1>0. GatesOwn
  BY DEF OwnInv
<1> DEFINE e == r.eval
<1>1. e \in Evals /\ r.gate = e /\ r \in RunningOf(e)
  BY <1>0 DEF GatesOwn, Call, RunningOf
<1>2. running' = running \ {r} /\ gate' = [gate EXCEPT ![e] = gate[e] - 1] /\ pc' = pc
  BY <1>1 DEF Complete
<1>3. \A d \in Evals : RunningOf(d)' = IF d = e THEN RunningOf(e) \ {r} ELSE RunningOf(d)
  BY <1>2 DEF RunningOf
<1> HIDE DEF e
<1>4. IsFiniteSet(RunningOf(e))
  BY <1>0, FS_Subset DEF GatesOwn, RunningOf
<1>5. \A d \in Evals : gate'[d] = Cardinality(RunningOf(d)')
  <2>1. Cardinality(RunningOf(e) \ {r}) = Cardinality(RunningOf(e)) - 1
    BY <1>1, <1>4, FS_RemoveElement
  <2> QED
    BY <2>1, <1>0, <1>1, <1>2, <1>3 DEF GatesOwn
<1>6. IsFiniteSet(running')
  BY <1>0, <1>2, FS_Subset DEF GatesOwn
<1>7. gate' \in [Evals \cup Contexts -> Int]
  BY <1>0, <1>1, <1>2 DEF GatesOwn
<1> QED
  BY <1>0, <1>2, <1>5, <1>6, <1>7 DEF GatesOwn

-----------------------------------------------------------------------------
(* Steps that take or put back objects. *)
LEMMA NewExecutionFrameOwn ==
    ASSUME OwnInv, HoldInv', NEW e \in Evals, NewExecutionFrame(e)
    PROVE  OwnInv'
<1>0. TypeOK /\ StackState /\ FramesOut /\ PooledClean /\ GatesOwn
  BY DEF OwnInv, HoldInv
<1>1. PICK f \in Frames, input \in Inputs \ {"conflict", "invalid"} :
         /\ framePool[f] > 0
         /\ framePool' = Get(framePool, f)
         /\ frame' =
               [frame EXCEPT ![f] =
                   CASE input = "empty" -> @
                     [] input = "map" -> [@ EXCEPT !.vars = {e}]
                     [] input = "activation" -> [@ EXCEPT !.scope = {e}, !.functions = {}]
                     [] input = "functions" -> [@ EXCEPT !.scope = {e}, !.functions = {e}]]
         /\ stack' = [stack EXCEPT ![e] = <<f>>]
  BY DEF NewExecutionFrame
<1>2. framePool[f] = 1 /\ frame[f] = NewFrame
  BY <1>0, <1>1 DEF TypeOK, PooledClean
<1>3. PICK r : OwnFrame(e, r) /\ r.ctx = Nil /\ frame' = [frame EXCEPT ![f] = r]
  <2>1. input \in {"empty", "map", "activation", "functions"}
    BY InputsAssumption
  <2>2. CASE input = "empty"
    BY <2>2, <1>1, <1>2 DEF OwnFrame, NewFrame
  <2>3. CASE input = "map"
    <3>1. frame' = [frame EXCEPT ![f] = [NewFrame EXCEPT !.vars = {e}]]
      BY <2>3, <1>1, <1>2
    <3>2. OwnFrame(e, [NewFrame EXCEPT !.vars = {e}]) /\ [NewFrame EXCEPT !.vars = {e}].ctx = Nil
      BY DEF OwnFrame, NewFrame
    <3> QED
      BY <3>1, <3>2
  <2>4. CASE input = "activation"
    <3>1. frame' = [frame EXCEPT ![f] = [NewFrame EXCEPT !.scope = {e}, !.functions = {}]]
      BY <2>4, <1>1, <1>2
    <3>2. /\ OwnFrame(e, [NewFrame EXCEPT !.scope = {e}, !.functions = {}])
          /\ [NewFrame EXCEPT !.scope = {e}, !.functions = {}].ctx = Nil
      BY DEF OwnFrame, NewFrame
    <3> QED
      BY <3>1, <3>2
  <2>5. CASE input = "functions"
    <3>1. frame' = [frame EXCEPT ![f] = [NewFrame EXCEPT !.scope = {e}, !.functions = {e}]]
      BY <2>5, <1>1, <1>2
    <3>2. /\ OwnFrame(e, [NewFrame EXCEPT !.scope = {e}, !.functions = {e}])
          /\ [NewFrame EXCEPT !.scope = {e}, !.functions = {e}].ctx = Nil
      BY DEF OwnFrame, NewFrame
    <3> QED
      BY <3>1, <3>2
  <2> QED
    BY <2>1, <2>2, <2>3, <2>4, <2>5
<1>4. frame'[f] = r /\ \A g \in Frames : g # f => frame'[g] = frame[g]
  BY <1>0, <1>3 DEF TypeOK
<1>5. framePool'[f] = 0 /\ \A g \in Frames : g # f => framePool'[g] = framePool[g]
  BY <1>0, <1>1, <1>2 DEF TypeOK, Get
<1>6. UNCHANGED <<context, tracker, contextPool, trackerPool, gate, running>>
  BY DEF NewExecutionFrame
<1>7. stack'[e] = <<f>> /\ \A d \in Evals : d # e => stack'[d] = stack[d]
  BY <1>0, <1>1 DEF TypeOK
<1>8. PooledClean'
  BY <1>0, <1>4, <1>5, <1>6 DEF PooledClean
<1>9. GatesOwn'
  <2>1. \A d \in Evals : pc[d] \in {"exec", "done"} => pc'[d] \in {"exec", "done"}
    BY <1>0 DEF NewExecutionFrame, TypeOK
  <2> QED
    BY <2>1, <1>0, <1>6, GatesKept
<1>10. OthersKept(e)
  BY <1>2, <1>4, <1>6, <1>7 DEF OthersKept
<1>11. FramesOwn(e)'
  <2>1. \A i \in 1..Len(stack'[e]) : i = 1 /\ stack'[e][i] = f
    BY <1>7
  <2> QED
    BY <2>1, <1>3, <1>4, <1>7 DEF FramesOwn, OwnFrame
<1>12. ContextsOwn(e)'
  <2>1. frame'[stack'[e][1]].ctx = Nil
    BY <1>3, <1>4, <1>7
  <2>2. \A c \in Contexts : ~Holds(e, c)'
    BY <2>1, NilAssumption DEF Holds
  <2> QED
    BY <2>2 DEF ContextsOwn
<1> QED
  BY <1>8, <1>9, <1>10, <1>11, <1>12, OwnStep

LEMMA PushOwn ==
    ASSUME OwnInv, HoldInv', NEW e \in Evals, Push(e)
    PROVE  OwnInv'
<1>0. TypeOK /\ StackState /\ FramesOut /\ PooledClean /\ GatesOwn /\ FramesOwn(e) /\ ContextsOwn(e)
  BY DEF OwnInv, HoldInv
<1>1. PICK f \in Frames :
         /\ framePool[f] > 0
         /\ framePool' = Get(framePool, f)
         /\ frame' = [frame EXCEPT ![f] = Pushed(@, e)]
         /\ stack' = [stack EXCEPT ![e] = Append(@, f)]
  BY DEF Push
<1>2. framePool[f] = 1 /\ frame[f] = NewFrame
  BY <1>0, <1>1 DEF TypeOK, PooledClean
<1>3. stack[e] \in Seq(Frames) /\ Len(stack[e]) > 0
  BY <1>0 DEF Push, TypeOK, StackState
<1>4. /\ OwnFrame(e, frame[Top(e)]) /\ frame[Top(e)].ctx = frame[stack[e][1]].ctx
  <2>1. Len(stack[e]) \in 1..Len(stack[e])
    BY <1>3
  <2> QED
    BY <2>1, <1>0 DEF FramesOwn, Top
<1> DEFINE r == Pushed(NewFrame, e)
<1>5. OwnFrame(e, r) /\ r.vars = {} /\ r.ctx = frame[stack[e][1]].ctx
  BY <1>4 DEF Pushed, NewFrame, OwnFrame
<1>6. frame' = [frame EXCEPT ![f] = r]
  BY <1>1, <1>2
<1> HIDE DEF r
<1>7. frame'[f] = r /\ \A g \in Frames : g # f => frame'[g] = frame[g]
  BY <1>0, <1>6 DEF TypeOK
<1>8. framePool'[f] = 0 /\ \A g \in Frames : g # f => framePool'[g] = framePool[g]
  BY <1>0, <1>1, <1>2 DEF TypeOK, Get
<1>9. UNCHANGED <<pc, context, tracker, contextPool, trackerPool, gate, running>>
  BY DEF Push
<1>10. /\ stack'[e] = Append(stack[e], f) /\ Len(stack'[e]) = Len(stack[e]) + 1
       /\ stack'[e][Len(stack[e]) + 1] = f
       /\ \A i \in 1..Len(stack[e]) : stack'[e][i] = stack[e][i]
       /\ \A d \in Evals : d # e => stack'[d] = stack[d]
  BY <1>0, <1>1, <1>3 DEF TypeOK
<1>11. \A i \in 1..Len(stack[e]) : frame'[stack[e][i]] = frame[stack[e][i]]
  <2>1. \A i \in 1..Len(stack[e]) : stack[e][i] \in Frames /\ stack[e][i] # f
    BY <1>0, <1>2, <1>3 DEF FramesOut
  <2> QED
    BY <2>1, <1>7
<1>12. 1 \in 1..Len(stack[e]) /\ stack'[e][1] = stack[e][1]
  BY <1>3, <1>10
<1>13. PooledClean'
  BY <1>0, <1>7, <1>8, <1>9 DEF PooledClean
<1>14. GatesOwn'
  BY <1>0, <1>9, GatesKept
<1>15. OthersKept(e)
  BY <1>2, <1>7, <1>9, <1>10 DEF OthersKept
<1>16. FramesOwn(e)'
  <2> SUFFICES ASSUME NEW i \in 1..Len(stack'[e])
               PROVE  /\ OwnFrame(e, frame'[stack'[e][i]])
                      /\ i # 1 => frame'[stack'[e][i]].vars = {}
                      /\ frame'[stack'[e][i]].ctx = frame'[stack'[e][1]].ctx
    BY DEF FramesOwn, OwnFrame
  <2>1. frame'[stack'[e][1]] = frame[stack[e][1]]
    BY <1>11, <1>12
  <2>2. CASE i = Len(stack[e]) + 1
    BY <2>1, <2>2, <1>5, <1>7, <1>10
  <2>3. CASE i # Len(stack[e]) + 1
    <3>1. i \in 1..Len(stack[e])
      BY <2>3, <1>3, <1>10
    <3>2. frame'[stack'[e][i]] = frame[stack[e][i]]
      BY <3>1, <1>10, <1>11
    <3> QED
      BY <2>1, <3>1, <3>2, <1>0 DEF FramesOwn
  <2> QED
    BY <2>2, <2>3
<1>17. \A c \in Contexts : Holds(e, c)' <=> Holds(e, c)
  BY <1>3, <1>10, <1>11, <1>12 DEF Holds
<1>18. ContextsOwn(e)'
  BY <1>0, <1>9, <1>17 DEF ContextsOwn, OwnContext
<1> QED
  BY <1>13, <1>14, <1>15, <1>16, <1>18, OwnStep

\* A frame that is reset is as good as new.
LEMMA ResetFrameNew ==
    ASSUME NEW f \in Frame, f.lazy \subseteq f.vars
    PROVE  ResetFrame(f) = NewFrame
<1> DEFINE z == IF f.vars # {} THEN {} ELSE f.lazy
<1>1. z = {}
  OBVIOUS
<1>2. ResetFrame(f) = [f EXCEPT !.vars = {}, !.scope = {}, !.functions = {}, !.ctx = Nil,
                                !.lazy = z]
  BY DEF ResetFrame
<1> HIDE DEF z
<1> QED
  BY <1>1, <1>2 DEF NewFrame, Frame

LEMMA PopOwn ==
    ASSUME OwnInv, HoldInv', NEW e \in Evals, Pop(e) \/ AbandonFold(e)
    PROVE  OwnInv'
<1>0. TypeOK /\ FramesOut /\ PooledClean /\ GatesOwn /\ FramesOwn(e) /\ ContextsOwn(e)
  BY DEF OwnInv, HoldInv
<1>1. /\ Len(stack[e]) > 1
      /\ framePool' = Put(framePool, Top(e)) /\ stack' = [stack EXCEPT ![e] = Front(@)]
      /\ UNCHANGED <<pc, context, tracker, contextPool, trackerPool, gate, running>>
  BY DEF Pop, AbandonFold
<1> DEFINE f == Top(e)
<1>2. /\ stack[e] \in Seq(Frames) /\ Len(stack[e]) \in 1..Len(stack[e]) /\ 1 \in 1..Len(stack[e])
      /\ stack[e][Len(stack[e])] = f /\ f \in Frames
  BY <1>0, <1>1 DEF TypeOK, Top
<1>3. frame[f] \in Frame /\ OwnFrame(e, frame[f])
  BY <1>0, <1>2 DEF TypeOK, FramesOwn
<1>4. frame' = [frame EXCEPT ![f] = NewFrame]
  <2>1. ResetFrame(frame[f]) = NewFrame
    BY <1>3, ResetFrameNew DEF OwnFrame
  <2>2. frame' = [frame EXCEPT ![f] = ResetFrame(frame[f])] \/ frame' = [frame EXCEPT ![f] = NewFrame]
    BY DEF Pop, AbandonFold
  <2> QED
    BY <2>1, <2>2
<1>5. /\ Len(stack'[e]) = Len(stack[e]) - 1
      /\ \A i \in 1..Len(stack'[e]) : i \in 1..Len(stack[e]) /\ stack'[e][i] = stack[e][i]
      /\ 1 \in 1..Len(stack'[e])
      /\ \A d \in Evals : d # e => stack'[d] = stack[d]
  BY <1>0, <1>1, <1>2 DEF TypeOK, Front
<1>6. f \in Held(e)
  BY <1>2 DEF Held, Range
<1> HIDE DEF f
<1>7. \A i \in 1..Len(stack'[e]) : stack[e][i] \in Frames /\ stack[e][i] # f
  <2> SUFFICES ASSUME NEW i \in 1..Len(stack'[e]) PROVE stack[e][i] \in Frames /\ stack[e][i] # f
    OBVIOUS
  <2>1. i \in 1..Len(stack[e]) /\ i # Len(stack[e])
    BY <1>2, <1>5
  <2>2. stack[e][i] \in Frames
    BY <2>1, <1>2
  <2> QED
    BY <2>1, <2>2, <1>0, <1>2 DEF FramesOut
<1>8. frame'[f] = NewFrame /\ \A g \in Frames : g # f => frame'[g] = frame[g]
  BY <1>0, <1>2, <1>4 DEF TypeOK
<1>9. \A g \in Frames : g # f => framePool'[g] = framePool[g]
  BY <1>0, <1>1 DEF TypeOK, Put, f
<1>10. PooledClean'
  BY <1>0, <1>1, <1>8, <1>9 DEF PooledClean
<1>11. GatesOwn'
  BY <1>0, <1>1, GatesKept
<1>12. OthersKept(e)
  BY <1>1, <1>5, <1>6, <1>8 DEF OthersKept
<1>13. FramesOwn(e)'
  <2> SUFFICES ASSUME NEW i \in 1..Len(stack'[e])
               PROVE  /\ OwnFrame(e, frame'[stack'[e][i]])
                      /\ i # 1 => frame'[stack'[e][i]].vars = {}
                      /\ frame'[stack'[e][i]].ctx = frame'[stack'[e][1]].ctx
    BY DEF FramesOwn, OwnFrame
  <2>1. frame'[stack'[e][1]] = frame[stack[e][1]] /\ frame'[stack'[e][i]] = frame[stack[e][i]]
    BY <1>5, <1>7, <1>8
  <2> QED
    BY <2>1, <1>0, <1>5 DEF FramesOwn
<1>14. \A c \in Contexts : Holds(e, c)' <=> Holds(e, c)
  BY <1>1, <1>2, <1>5, <1>7, <1>8 DEF Holds
<1>15. ContextsOwn(e)'
  BY <1>0, <1>1, <1>14 DEF ContextsOwn, OwnContext
<1> QED
  BY <1>10, <1>11, <1>12, <1>13, <1>15, OwnStep

\* A step in which e takes a context, fresh from the pool.
LEMMA TakeContextOwn ==
    ASSUME OwnInv, HoldInv', NEW e \in Evals, Len(stack[e]) = 1, Ctx(e) = Nil,
           NEW c \in Contexts, contextPool[c] = 1, contextPool' = Get(contextPool, c),
           frame' = [frame EXCEPT ![Root(e)].ctx = c],
           OwnContext(e, context'[c]),
           \A d \in Contexts : d # c => context'[d] = context[d],
           \/ context'[c].tracker = Nil /\ UNCHANGED trackerPool
           \/ /\ context'[c].tracker \in Trackers /\ trackerPool[context'[c].tracker] = 1
              /\ trackerPool' = Get(trackerPool, context'[c].tracker),
           UNCHANGED <<stack, tracker, framePool>>, GatesOwn'
    PROVE  OwnInv'
<1>0. TypeOK /\ FramesOut /\ PooledClean /\ FramesOwn(e)
  BY DEF OwnInv, HoldInv
<1> DEFINE f == Root(e)
           r == [frame[f] EXCEPT !.ctx = c]
<1>1. /\ f \in Frames /\ frame[f] \in Frame /\ OwnFrame(e, frame[f])
      /\ framePool[f] = 0 /\ f \in Held(e) /\ \A b \in Contexts : Holds(e, b) <=> b = Ctx(e)
  <2>1. Len(stack[e]) > 0
    OBVIOUS
  <2> QED
    BY <2>1, RootOwn
<1>2. frame' = [frame EXCEPT ![f] = r]
  BY <1>1
<1>3. OwnFrame(e, r) /\ r.ctx = c
  BY <1>1 DEF OwnFrame, Frame
<1> HIDE DEF r
<1>4. frame'[f] = r /\ \A g \in Frames : g # f => frame'[g] = frame[g]
  BY <1>0, <1>1, <1>2 DEF TypeOK
<1>5. contextPool'[c] = 0 /\ \A d \in Contexts : d # c => contextPool'[d] = contextPool[d]
  BY <1>0 DEF TypeOK, Get
<1>6. \A t \in Trackers : trackerPool'[t] = 1 => trackerPool[t] = 1
  BY <1>0 DEF TypeOK, Get
<1>7. PooledClean'
  BY <1>0, <1>1, <1>4, <1>5, <1>6 DEF PooledClean
<1>8. OthersKept(e)
  BY <1>1, <1>4 DEF OthersKept
<1>9. stack[e][1] = f /\ stack'[e] = stack[e]
  BY DEF Root
<1> HIDE DEF f
<1>10. FramesOwn(e)'
  <2>1. \A i \in 1..Len(stack'[e]) : i = 1
    <3>1. 1..Len(stack'[e]) = 1..1
      BY <1>9
    <3> QED
      BY <3>1
  <2>2. OwnFrame(e, frame'[f])
    BY <1>3, <1>4
  <2> QED
    BY <2>1, <2>2, <1>9 DEF FramesOwn, OwnFrame
<1>11. \A b \in Contexts : Holds(e, b)' <=> b = c
  BY <1>3, <1>4, <1>9 DEF Holds
<1>12. ContextsOwn(e)'
  <2>1. context'[c].tracker # Nil => tracker[context'[c].tracker] \subseteq {e}
    BY <1>0 DEF PooledClean
  <2> QED
    BY <2>1, <1>11 DEF ContextsOwn, OwnContext
<1> QED
  BY <1>7, <1>8, <1>10, <1>12, OwnStep

LEMMA SetContextOwn ==
    ASSUME OwnInv, HoldInv', NEW e \in Evals, SetContext(e)
    PROVE  OwnInv'
<1>0. TypeOK /\ StackState /\ PooledClean /\ GatesOwn
  BY DEF OwnInv, HoldInv
<1>1. PICK c \in Contexts, t \in Trackers :
         /\ contextPool[c] > 0 /\ trackerPool[t] > 0
         /\ contextPool' = Get(contextPool, c) /\ trackerPool' = Get(trackerPool, t)
         /\ frame' = [frame EXCEPT ![Root(e)].ctx = c]
         /\ context' = [context EXCEPT ![c] =
               [@ EXCEPT !.tracker = t, !.gate = GateOf(e, c), !.interrupt = {e},
                         !.interrupted = {}]]
         /\ gate' = [gate EXCEPT ![GateOf(e, c)] = 0]
  BY DEF SetContext
<1>2. contextPool[c] = 1 /\ trackerPool[t] = 1 /\ context[c] = NewContext
  BY <1>0, <1>1 DEF TypeOK, PooledClean
<1> DEFINE q == [NewContext EXCEPT !.tracker = t, !.gate = e, !.interrupt = {e}, !.interrupted = {}]
<1>3. context' = [context EXCEPT ![c] = q]
  BY <1>1, <1>2 DEF GateOf
<1>4. OwnContext(e, q) /\ q.tracker = t
  BY DEF OwnContext, NewContext
<1> HIDE DEF q
<1>5. context'[c] = q /\ \A d \in Contexts : d # c => context'[d] = context[d]
  BY <1>0, <1>3 DEF TypeOK
<1>6. /\ Len(stack[e]) = 1 /\ Ctx(e) = Nil /\ pc[e] = "ready"
      /\ UNCHANGED <<stack, tracker, framePool, running>>
      /\ pc' = [pc EXCEPT ![e] = "exec"]
  BY <1>0 DEF SetContext, StackState
<1>7. GatesOwn'
  <2>1. gate' = [gate EXCEPT ![e] = 0]
    BY <1>1 DEF GateOf
  <2>2. \A r \in running : r.eval \in Evals /\ r.eval # e
    BY <1>0, <1>6 DEF GatesOwn, Call
  <2>3. RunningOf(e) = {} /\ \A d \in Evals : RunningOf(d)' = RunningOf(d)
    BY <2>2, <1>6 DEF RunningOf
  <2>4. Cardinality(RunningOf(e)) = 0
    BY <2>3, FS_EmptySet
  <2>5. \A d \in Evals : gate'[d] = Cardinality(RunningOf(d)')
    BY <2>1, <2>3, <2>4, <1>0 DEF GatesOwn
  <2>6. gate' \in [Evals \cup Contexts -> Int]
    BY <2>1, <1>0 DEF GatesOwn
  <2>7. \A r \in running : pc'[r.eval] = pc[r.eval]
    BY <2>2, <1>0, <1>6 DEF TypeOK
  <2> QED
    BY <2>5, <2>6, <2>7, <1>0, <1>6 DEF GatesOwn
<1> QED
  BY <1>1, <1>2, <1>4, <1>5, <1>6, <1>7, TakeContextOwn

LEMMA InitStateOwn ==
    ASSUME OwnInv, HoldInv', NEW e \in Evals, InitState(e)
    PROVE  OwnInv'
<1>0. TypeOK /\ PooledClean /\ GatesOwn
  BY DEF OwnInv, HoldInv
<1>1. /\ Len(stack[e]) = 1
      /\ UNCHANGED <<pc, stack, tracker, framePool, trackerPool, gate, running>>
  BY DEF InitState
<1>len. Len(stack[e]) > 0
  BY <1>1
<1>2. GatesOwn'
  BY <1>0, <1>1, GatesKept
<1>3. CASE Ctx(e) # Nil
  <2> DEFINE c == Ctx(e)
             s == IF context[c].state = {} THEN {e} ELSE context[c].state
             q == [context[c] EXCEPT !.state = s]
  <2>1. /\ c \in Contexts /\ context[c] \in Context /\ OwnContext(e, context[c])
        /\ context[c].tracker # Nil => tracker[context[c].tracker] \subseteq {e}
    BY <1>len, <1>3, RootOwn
  <2>2. s \subseteq {e}
    BY <2>1 DEF OwnContext
  <2>3. context' = [context EXCEPT ![c] = q]
    BY <1>3, <2>1 DEF InitState
  <2> HIDE DEF s
  <2>4. OwnContext(e, q) /\ q.tracker = context[c].tracker
    BY <2>1, <2>2 DEF OwnContext, Context
  <2> HIDE DEF q
  <2>5. context'[c] = q /\ \A d \in Contexts : d # c => context'[d] = context[d]
    BY <1>0, <2>1, <2>3 DEF TypeOK
  <2>6. UNCHANGED <<stack, frame, pools>>
    BY <1>1, <1>3 DEF InitState, pools
  <2> QED
    <3> HIDE DEF c
    <3>1. \A u \in Trackers : u # context[c].tracker => tracker'[u] = tracker[u]
      BY <1>1
    <3>2. context[c].tracker # Nil => tracker'[context[c].tracker] \subseteq {e}
      BY <1>1, <2>1
    <3>3. OwnContext(e, context'[c]) /\ context'[c].tracker = context[c].tracker
      BY <2>4, <2>5
    <3> QED
      BY <1>len, <1>2, <1>3, <2>5, <2>6, <3>1, <3>2, <3>3, ContextStep DEF c
<1>4. CASE Ctx(e) = Nil
  <2>1. PICK c \in Contexts :
           /\ contextPool[c] > 0
           /\ contextPool' = Get(contextPool, c)
           /\ frame' = [frame EXCEPT ![Root(e)].ctx = c]
           /\ context' = [context EXCEPT ![c].state = {e}]
    BY <1>4 DEF InitState
  <2>2. contextPool[c] = 1 /\ context[c] = NewContext
    BY <1>0, <2>1 DEF TypeOK, PooledClean
  <2> DEFINE q == [NewContext EXCEPT !.state = {e}]
  <2>3. OwnContext(e, q) /\ q.tracker = Nil
    BY DEF OwnContext, NewContext
  <2>4. context' = [context EXCEPT ![c] = q]
    BY <2>1, <2>2
  <2> HIDE DEF q
  <2>5. context'[c] = q /\ \A d \in Contexts : d # c => context'[d] = context[d]
    BY <1>0, <2>4 DEF TypeOK
  <2> QED
    BY <1>1, <1>2, <1>4, <2>1, <2>2, <2>3, <2>5, TakeContextOwn
<1> QED
  BY <1>3, <1>4

LEMMA CloseFrameOwn ==
    ASSUME OwnInv, HoldInv', NEW e \in Evals, Len(stack[e]) > 0, CloseFrame(e)
    PROVE  OwnInv'
<1> DEFINE c == Ctx(e)
           t == context[c].tracker
<1>0. HoldInv /\ TypeOK /\ FramesOut /\ PooledClean /\ GatesOwn /\ FramesOwn(e)
  BY DEF OwnInv, HoldInv
<1>1. /\ c \in Contexts \cup {Nil}
      /\ context' = [d \in Contexts |-> IF d = c THEN NewContext ELSE context[d]]
      /\ contextPool' = [d \in Contexts |-> IF d = c THEN 1 ELSE contextPool[d]]
      /\ \A u \in Trackers : trackerPool'[u] = IF c # Nil /\ t = u THEN 1 ELSE trackerPool[u]
      /\ \A u \in Trackers : tracker'[u] = IF c # Nil /\ t = u THEN {} ELSE tracker[u]
      /\ \A f \in Frames : framePool'[f] = IF f \in Held(e) THEN 1 ELSE framePool[f]
      /\ \A f \in Frames : frame'[f] = IF f = Root(e) THEN ResetFrame(frame[f])
                                       ELSE IF f \in Held(e) THEN NewFrame ELSE frame[f]
      /\ Root(e) \in Held(e)
      /\ stack' = [stack EXCEPT ![e] = <<>>] /\ pc' = [pc EXCEPT ![e] = "done"]
  BY <1>0, CloseFrameEffect
<1>2. \A b \in Contexts : Holds(e, b) <=> b = c
  BY RootOwn
<1>3. ResetFrame(frame[Root(e)]) = NewFrame
  <2>1. frame[Root(e)] \in Frame /\ frame[Root(e)].lazy \subseteq frame[Root(e)].vars
    BY RootOwn DEF OwnFrame
  <2> QED
    BY <2>1, ResetFrameNew
<1> HIDE DEF c, t
<1>4. \A f \in Frames : frame'[f] = IF f \in Held(e) THEN NewFrame ELSE frame[f]
  BY <1>1, <1>3
<1>5. PooledClean'
  BY <1>0, <1>1, <1>4 DEF PooledClean
<1>6. stack'[e] = <<>> /\ \A d \in Evals : d # e => stack'[d] = stack[d]
  BY <1>0, <1>1 DEF TypeOK
<1>7. OthersKept(e)
  BY <1>1, <1>2, <1>4, <1>6, NilAssumption DEF OthersKept, t
<1>8. GatesOwn'
  <2>1. \A d \in Evals : pc[d] \in {"exec", "done"} => pc'[d] \in {"exec", "done"}
    BY <1>0, <1>1 DEF TypeOK
  <2>2. UNCHANGED <<gate, running>>
    BY DEF CloseFrame
  <2> QED
    BY <2>1, <2>2, <1>0, GatesKept
<1>9. Len(stack'[e]) = 0
  BY <1>6
<1>10. FramesOwn(e)' /\ ContextsOwn(e)'
  BY <1>9 DEF FramesOwn, ContextsOwn, Holds
<1> QED
  BY <1>5, <1>7, <1>8, <1>10, OwnStep

-----------------------------------------------------------------------------
LEMMA InitOwn == Init => OwnInv
<1> SUFFICES ASSUME Init PROVE OwnInv
  OBVIOUS
<1>1. PooledClean
  BY DEF Init, PooledClean
<1>2. GatesOwn
  <2>1. \A e \in Evals : RunningOf(e) = {}
    BY DEF Init, RunningOf
  <2>2. Cardinality({}) = 0
    BY FS_EmptySet
  <2>3. IsFiniteSet(running)
    BY FS_EmptySet DEF Init
  <2>4. running = {} /\ gate = [g \in Evals \cup Contexts |-> 0]
    BY DEF Init
  <2>5. \A e \in Evals : gate[e] = Cardinality(RunningOf(e))
    BY <2>1, <2>2, <2>4
  <2> QED
    BY <2>3, <2>4, <2>5 DEF GatesOwn
<1>3. \A e \in Evals : FramesOwn(e) /\ ContextsOwn(e)
  BY DEF Init, FramesOwn, ContextsOwn, Holds
<1> QED
  BY <1>1, <1>2, <1>3, InitHold DEF OwnInv

LEMMA StepOwn ==
    ASSUME "conflict" \notin Inputs, OwnInv, [Next]_vars
    PROVE  OwnInv'
<1>0. HoldInv /\ HoldInv' /\ TypeOK /\ StackState
  BY StepHold DEF OwnInv, HoldInv
<1>1. ASSUME NEW e \in Evals, Evaluate(e) PROVE OwnInv'
  <2>1. CASE SetDefaultVarsFails(e) \/ Close(e)
    <3>1. CloseFrame(e) /\ Len(stack[e]) > 0
      BY <2>1, <1>0 DEF SetDefaultVarsFails, Close, StackState
    <3> QED
      BY <3>1, <1>0, CloseFrameOwn
  <2>2. CASE Launch(e)
    <3>1. UNCHANGED <<stack, frame, context, tracker, pools>>
      BY <2>2 DEF Launch
    <3> QED
      BY <2>2, <3>1, <1>0, LaunchGates, StillStep
  <2>3. CASE SetContext(e) \/ InitState(e)
    BY <2>3, <1>0, SetContextOwn, InitStateOwn
  <2>4. CASE NewExecutionFrame(e) \/ Push(e) \/ Pop(e) \/ AbandonFold(e)
    BY <2>4, <1>0, NewExecutionFrameOwn, PushOwn, PopOwn
  <2> QED
    BY <1>0, <1>1, <2>1, <2>2, <2>3, <2>4, FieldOwn DEF Evaluate
<1>2. ASSUME NEW r \in running, Complete(r) PROVE OwnInv'
  <2>1. GatesOwn' /\ r.eval \in Evals
    BY <1>2, CompleteGates DEF OwnInv, GatesOwn, Call
  <2>2. UNCHANGED <<stack, frame, context, tracker, pools>>
    BY <1>2 DEF Complete
  <2> QED
    BY <2>1, <2>2, <1>0, StillStep
<1>3. CASE UNCHANGED vars
  <2>1. UNCHANGED <<pc, stack, frame, context, tracker, pools, gate, running>>
    BY <1>3 DEF vars
  <2>2. GatesOwn'
    BY <2>1, GatesKept DEF OwnInv
  <2>3. CASE Evals = {}
    BY <2>1, <2>2, <2>3, <1>0 DEF OwnInv, PooledClean, pools
  <2>4. CASE Evals # {}
    BY <2>1, <2>2, <2>4, <1>0, StillStep
  <2> QED
    BY <2>3, <2>4
<1> QED
  BY <1>1, <1>2, <1>3 DEF Next, Terminated

(* Nothing crosses over between evaluations by way of a pool, unless an activation that *)
(* supplies its functions twice is among the inputs: such a frame goes back as it is.   *)
THEOREM OwnStateKept ==
    ASSUME "conflict" \notin Inputs
    PROVE  Spec => []OwnState
<1>1. OwnInv => OwnState
  <2> SUFFICES ASSUME OwnInv PROVE OwnState
    OBVIOUS
  <2>0. TypeOK /\ GatesOwn
    BY DEF OwnInv, HoldInv
  <2> SUFFICES ASSUME NEW e \in Evals
               PROVE  /\ \A f \in Held(e) :
                            /\ frame[f].vars \cup frame[f].lazy \cup frame[f].scope
                                  \cup frame[f].functions \subseteq {e}
                            /\ frame[f].ctx = Ctx(e)
                      /\ \A c \in Contexts :
                            HoldsContext(e, c) =>
                                /\ context[c].interrupt \cup context[c].interrupted
                                      \cup context[c].state \subseteq {e}
                                /\ context[c].tracker # Nil =>
                                      tracker[context[c].tracker] \subseteq {e}
                      /\ GateOwn(e)
    BY DEF OwnState
  <2>1. stack[e] \in Seq(Frames) /\ FramesOwn(e) /\ ContextsOwn(e)
    BY <2>0 DEF TypeOK, OwnInv
  <2>2. Held(e) = {stack[e][i] : i \in 1..Len(stack[e])}
    BY <2>1 DEF Held, Range
  <2>3. \A c \in Contexts : HoldsContext(e, c) => Holds(e, c)
    BY <2>1 DEF HoldsContext, Holds, Ctx, Root
  <2>4. \A f \in Held(e) :
           /\ frame[f].vars \cup frame[f].lazy \cup frame[f].scope
                 \cup frame[f].functions \subseteq {e}
           /\ frame[f].ctx = Ctx(e)
    BY <2>1, <2>2 DEF FramesOwn, OwnFrame, Ctx, Root
  <2>5. \A c \in Contexts :
           HoldsContext(e, c) =>
               /\ context[c].interrupt \cup context[c].interrupted \cup context[c].state
                     \subseteq {e}
               /\ context[c].tracker # Nil => tracker[context[c].tracker] \subseteq {e}
    BY <2>1, <2>3 DEF ContextsOwn, OwnContext
  <2>6. GateOwn(e)
    BY <2>0, <2>1, <2>3 DEF GateOwn, ContextsOwn, OwnContext, GatesOwn
  <2> QED
    BY <2>4, <2>5, <2>6
<1>2. OwnInv /\ [Next]_vars => OwnInv'
  BY StepOwn
<1> QED
  BY <1>1, <1>2, InitOwn, PTL DEF Spec
=============================================================================
