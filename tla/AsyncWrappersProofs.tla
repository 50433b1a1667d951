------------------------ MODULE AsyncWrappersProofs ------------------------
(***************************************************************************)
(* Theorems about AsyncWrappers, for every set of attempt limits.          *)
(***************************************************************************)
EXTENDS AsyncWrappers, TLAPS

USE LimitsAssumption, AnswersAssumption

\* Where the loop is tells what has become of the attempts so far: those before the
\* current one have ended with a retryable error, and so has the current one when the
\* loop is back at its head.
LoopInv ==
    /\ \A i \in Attempts : i > attempt => run[i] = "none"
    /\ loop \in {"backoff", "call", "wait"} => attempt > 0
    /\ loop \in {"backoff", "call"} => run[attempt] = "none"
    /\ \A i \in Attempts :
          (i < attempt \/ (i = attempt /\ loop = "next")) =>
              run[i] = "sent" /\ res[i].kind = "retryable"

\* An answer of fn that has been taken is in the channel of the last attempt.
Settled(r) ==
    r.kind \in {"value", "fatal", "retryable"} =>
        loop = "done" /\ attempt > 0 /\ run[attempt] = "sent"

\* What Retry holds as its last error, and what has been returned so far.
ErrInv ==
    /\ attempt = 0 => lastErr = Nil
    /\ loop = "next" /\ attempt > 0 => lastErr = res[attempt]
    /\ loop # "done" => loopRes = None
    /\ loop # "done" /\ answer # None => ctxDone \/ 0 \in expired
    /\ Settled(loopRes) /\ Settled(answer) /\ Settled(result)
    /\ \A i \in Attempts : run[i] \in {"send", "sent"} =>
          res[i].kind \in {"value", "retryable", "fatal"}

IInv == TypeOK /\ LoopInv /\ ErrInv /\ AnswerExplained

LEMMA InitInv == Init => IInv
  BY DEF Init, IInv, TypeOK, LoopInv, ErrInv, AnswerExplained, Explained, Settled, Attempts,
         Out, None, Nil, Outs, Kinds

LEMMA MaxIsInt ==
  TypeOK => conf.max \in Int /\ attempt \in Int /\ (attempt = 0 \/ attempt \in Attempts)
<1> SUFFICES ASSUME TypeOK
             PROVE conf.max \in Int /\ attempt \in Int /\ (attempt = 0 \/ attempt \in Attempts)
  OBVIOUS
<1>1. conf.max \in Limits
  BY DEF TypeOK
<1>2. conf.max \in Int
  BY <1>1, LimitsAssumption
<1>3. attempt = 0 \/ attempt \in Attempts
  BY DEF TypeOK
<1>4. QED
  BY <1>2, <1>3 DEF Attempts

\* Each kind of step keeps the invariant.
LEMMA LoopStep == IInv /\ RetryLoop => IInv'
<1> SUFFICES ASSUME IInv, RetryLoop PROVE IInv'
  OBVIOUS
<1> USE DEF IInv, TypeOK, Attempts
<1>1. CASE NextAttempt
  <2>1. CASE attempt < conf.max
    <3>1. attempt + 1 \in 1..conf.max /\ attempt' = attempt + 1 /\ loop = "next"
      BY <1>1, <2>1, MaxIsInt DEF NextAttempt
    <3> HIDE DEF Attempts
    <3>2. loop' = (IF attempt = 0 THEN "call" ELSE "backoff") /\ loopRes' = loopRes
          /\ conf' = conf /\ ctxDone' = ctxDone /\ expired' = expired /\ lastErr' = lastErr
          /\ run' = run /\ res' = res /\ answer' = answer /\ result' = result
      BY <1>1, <2>1 DEF NextAttempt
    <3>3. Attempts' = Attempts /\ attempt' \in Attempts
      BY <3>1, <3>2 DEF Attempts
    <3>4. TypeOK'
      BY <3>2, <3>3
    <3> USE DEF Attempts
    <3>5. LoopInv'
      BY <3>1, <3>2, MaxIsInt DEF LoopInv
    <3>6. ErrInv'
      BY <3>1, <3>2, MaxIsInt DEF ErrInv, Settled
    <3>7. AnswerExplained'
      BY <3>1, <3>2 DEF AnswerExplained, Explained, ErrInv, Settled
    <3>8. QED
      BY <3>4, <3>5, <3>6, <3>7
  <2>2. CASE ~(attempt < conf.max)
    <3>1. TypeOK'
      BY <1>1, <2>2 DEF NextAttempt, Return
    <3>2. LoopInv'
      BY <1>1, <2>2 DEF NextAttempt, Return, LoopInv
    <3>3. loopRes' = lastErr /\ loop' = "done" /\ attempt' = attempt /\ loop = "next"
      BY <1>1, <2>2 DEF NextAttempt, Return
    <3>4. Settled(lastErr)'
      <4>1. CASE attempt = 0
        BY <1>1, <3>3, <4>1 DEF NextAttempt, ErrInv, Settled, Nil, Out
      <4>2. CASE attempt \in Attempts
        <5>1. run[attempt] = "sent" /\ attempt > 0
          BY <3>3, <4>2, MaxIsInt DEF LoopInv
        <5>2. QED
          BY <1>1, <3>3, <5>1 DEF NextAttempt, Settled
      <4>3. QED
        BY <4>1, <4>2, MaxIsInt
    <3>5. ErrInv'
      BY <1>1, <3>3, <3>4 DEF NextAttempt, ErrInv, Settled
    <3>6. Explained(lastErr)'
      <4>1. CASE attempt = 0
        <5>1. lastErr = Out("nil", 0) /\ conf.max <= 0
          BY <2>2, <4>1, MaxIsInt DEF ErrInv, Nil
        <5>2. QED
          BY <1>1, <5>1 DEF NextAttempt, Explained, Out
      <4>2. CASE attempt \in Attempts
        <5>1. attempt = conf.max /\ lastErr = res[attempt] /\ lastErr.kind = "retryable"
          BY <2>2, <3>3, <4>2, MaxIsInt DEF ErrInv, LoopInv
        <5>2. QED
          BY <1>1, <3>3, <5>1 DEF NextAttempt, Explained
      <4>3. QED
        BY <4>1, <4>2, MaxIsInt
    <3>7. AnswerExplained'
      BY <1>1, <3>3, <3>6 DEF NextAttempt, AnswerExplained, Explained, ErrInv, Settled
    <3>8. QED
      BY <3>1, <3>2, <3>5, <3>7
  <2>3. QED
    BY <2>1, <2>2
<1>2. CASE BackoffFires
  BY <1>2 DEF BackoffFires, LoopInv, ErrInv, Settled, AnswerExplained, Explained
<1>3. CASE BackoffCancelled
  <2>1. TypeOK'
    BY <1>3 DEF BackoffCancelled, Return, Out, Outs, Kinds
  <2>2. LoopInv' /\ ErrInv'
    BY <1>3 DEF BackoffCancelled, Return, Out, LoopInv, ErrInv, Settled
  <2>3. AnswerExplained'
    <3>1. Explained(Out("cancelled", 0))'
      BY <1>3 DEF BackoffCancelled, LoopDone, Explained, Out, ErrInv
    <3>2. QED
      BY <1>3, <3>1 DEF BackoffCancelled, Return, AnswerExplained, Explained, ErrInv, Settled
  <2>4. QED
    BY <2>1, <2>2, <2>3
<1>4. CASE CallFn
  BY <1>4 DEF CallFn, LoopInv, ErrInv, Settled, AnswerExplained, Explained
<1>5. CASE AttemptAnswers
  BY <1>5 DEF AttemptAnswers, Take, Return, IsErr, IsRetryable, LoopInv, ErrInv, Settled,
              AnswerExplained, Explained
<1>6. CASE AttemptTimesOut
  <2>1. lastErr' = Out("timeout", attempt) /\ Return(Out("timeout", attempt))
    BY <1>6 DEF AttemptTimesOut, Take, IsErr, IsRetryable, Out
  <2>2. TypeOK'
    BY <1>6, <2>1 DEF AttemptTimesOut, Take, Return, Out, Outs, Kinds
  <2>3. LoopInv' /\ ErrInv'
    BY <1>6, <2>1 DEF AttemptTimesOut, Take, Return, Out, LoopInv, ErrInv, Settled
  <2>4. AnswerExplained'
    <3>1. Explained(Out("timeout", attempt))'
      BY <1>6, <2>1
         DEF AttemptTimesOut, Take, Return, AttemptDone, LoopDone, Explained, Out, ErrInv
    <3>2. QED
      BY <1>6, <2>1, <3>1
         DEF AttemptTimesOut, Take, Return, AnswerExplained, Explained, ErrInv, Settled
  <2>5. QED
    BY <2>2, <2>3, <2>4
<1>7. QED
  BY <1>1, <1>2, <1>3, <1>4, <1>5, <1>6 DEF RetryLoop

LEMMA FnStep == IInv /\ (\E i \in Attempts : FnReturns(i) \/ Send(i)) => IInv'
<1> SUFFICES ASSUME IInv, NEW i \in Attempts, FnReturns(i) \/ Send(i) PROVE IInv'
  OBVIOUS
<1> USE DEF IInv, TypeOK, Attempts
<1>1. CASE FnReturns(i)
  <2>1. PICK kind \in Answers : res' = [res EXCEPT ![i] = Out(kind, i)]
    BY <1>1 DEF FnReturns
  <2>2. run[i] = "run" /\ run' = [run EXCEPT ![i] = "send"]
    BY <1>1 DEF FnReturns
  <2>3. TypeOK'
    BY <1>1, <2>1, <2>2 DEF FnReturns, Out, Outs, Kinds
  <2>4. LoopInv'
    BY <1>1, <2>1, <2>2 DEF FnReturns, LoopInv
  <2>5. ErrInv'
    BY <1>1, <2>1, <2>2 DEF FnReturns, ErrInv, LoopInv, Settled, Out
  <2>6. AnswerExplained'
    BY <1>1, <2>1, <2>2 DEF FnReturns, AnswerExplained, Explained, ErrInv, Settled
  <2>7. QED
    BY <2>3, <2>4, <2>5, <2>6
<1>2. CASE Send(i)
  BY <1>2 DEF Send, LoopInv, ErrInv, Settled, AnswerExplained, Explained
<1>3. QED
  BY <1>1, <1>2

LEMMA CallerStep == IInv /\ Caller => IInv'
<1> SUFFICES ASSUME IInv, Caller PROVE IInv'
  OBVIOUS
<1> USE DEF IInv, TypeOK, Attempts, LoopInv, ErrInv, Settled, AnswerExplained, Explained
<1>1. CASE LoopAnswers
  BY <1>1 DEF LoopAnswers
<1>2. CASE OuterTimesOut
  BY <1>2 DEF OuterTimesOut, LoopDone, Out, Outs, Kinds
<1>3. CASE Publish
  BY <1>3 DEF Publish, Out, Outs, Kinds
<1>4. QED
  BY <1>1, <1>2, <1>3 DEF Caller

LEMMA ClockStep == IInv /\ (Timers \/ Cancel) => IInv'
<1> SUFFICES ASSUME IInv, Timers \/ Cancel PROVE IInv'
  OBVIOUS
<1> USE DEF IInv, TypeOK, Attempts, LoopInv, ErrInv, Settled, AnswerExplained, Explained
<1>1. CASE OuterDeadline
  BY <1>1 DEF OuterDeadline
<1>2. CASE AttemptDeadline
  BY <1>2 DEF AttemptDeadline
<1>3. CASE Cancel
  BY <1>3 DEF Cancel
<1>4. QED
  BY <1>1, <1>2, <1>3 DEF Timers

LEMMA Stutter == IInv /\ UNCHANGED vars => IInv'
  BY DEF IInv, TypeOK, Attempts, LoopInv, ErrInv, Settled, AnswerExplained, Explained, vars

LEMMA Inductive == Spec => []IInv
<1>1. IInv /\ [Next]_vars => IInv'
  BY LoopStep, FnStep, CallerStep, ClockStep, Stutter DEF Next, Terminated
<1>2. QED
  BY InitInv, <1>1, PTL DEF Spec

\* fn is run again only after a retryable error of the run before (Retry of async.go),
\* whatever the limit, the deadlines and the cancellations.
THEOREM RetriesJustified == Spec => []RetryJustified
<1>1. IInv => RetryJustified
  <2> SUFFICES ASSUME IInv, NEW i \in Attempts, i > 1, run[i] # "none"
               PROVE  run[i - 1] = "sent" /\ res[i - 1].kind = "retryable"
    BY DEF RetryJustified
  <2>1. conf.max \in Int /\ attempt \in Int
    BY MaxIsInt DEF IInv
  <2>2. i <= attempt
    BY <2>1 DEF IInv, LoopInv, Attempts
  <2>3. i - 1 \in Attempts /\ i - 1 < attempt
    BY <2>1, <2>2 DEF Attempts
  <2>4. QED
    BY <2>3 DEF IInv, LoopInv
<1>2. QED
  BY Inductive, <1>1, PTL

\* What Timeout, Retry and the goroutine of the call return is explained by what happened;
\* in particular the implementation answers, if it is allowed an attempt at all.
THEOREM AnswersExplained == Spec => []AnswerExplained
<1>1. IInv => AnswerExplained
  BY DEF IInv
<1>2. QED
  BY Inductive, <1>1, PTL

\* The wrappers are well typed and begin no more attempts than allowed.
THEOREM WrappersTyped == Spec => []TypeOK
<1>1. IInv => TypeOK
  BY DEF IInv
<1>2. QED
  BY Inductive, <1>1, PTL
=============================================================================
