--------------------------- MODULE AsyncWrappers ---------------------------
(***************************************************************************)
(* One asynchronous call whose implementation is wrapped as                *)
(* Timeout(Retry(Timeout(fn))): either Timeout may be left out, and a      *)
(* limit of one attempt is no Retry at all.  The retry loop runs on the    *)
(* goroutine of the call, or on the goroutine of the outer Timeout; each   *)
(* attempt runs fn on that goroutine, or on the goroutine of the inner     *)
(* Timeout.  fn need not look at its context.                              *)
(***************************************************************************)
EXTENDS Integers

CONSTANTS
    Limits,     (* values of RetryAttempts, of any sign                       *)
    Answers     (* what fn may answer: "value", "retryable" or "fatal"        *)

ASSUME LimitsAssumption  == Limits \subseteq Int
ASSUME AnswersAssumption == Answers \subseteq {"value", "retryable", "fatal"}

VARIABLES
    conf,       (* maxAttempts, and which Timeouts there are                  *)
    ctxDone,    (* the context of the evaluation is done                      *)
    expired,    (* deadlines that have passed: of attempts, 0 for the outer   *)
    loop,       (* where the retry loop is                                    *)
    attempt,    (* attempts begun                                             *)
    lastErr,    (* the error of the last attempt, Nil before                  *)
    run,        (* attempt -> state of the execution of fn                    *)
    res,        (* attempt -> what fn answered                                *)
    loopRes,    (* what Retry returned                                        *)
    answer,     (* what the wrapped implementation returned                   *)
    result      (* what the call published                                    *)

vars == <<conf, ctxDone, expired, loop, attempt, lastErr, run, res, loopRes,
          answer, result>>

Attempts == 1..conf.max

Out(kind, i) == [kind |-> kind, attempt |-> i]
None         == Out("none", 0)
Nil          == Out("nil", 0)

-----------------------------------------------------------------------------
\* The context of the loop: derived from the evaluation's, with the outer deadline, and
\* cancelled when the outer Timeout returns.
LoopDone == ctxDone \/ (conf.outer /\ (0 \in expired \/ answer # None))

\* The context of the attempt in progress.
AttemptDone == LoopDone \/ attempt \in expired

IsErr(r) == r.kind \in {"retryable", "fatal", "timeout"}

\* Mutated: a timeout counts as an error worth another attempt.
RetriesTimeouts(r) == r.kind \in {"retryable", "timeout"}

\* errors.As finds a RetryableError; an error that Timeout makes wraps none.
IsRetryable(r) == r.kind = "retryable"

Return(r) == loop' = "done" /\ loopRes' = r

\* The head of the loop: another attempt, after a pause unless it is the first.
NextAttempt ==
    /\ loop = "next"
    /\ IF attempt < conf.max
       THEN /\ attempt' = attempt + 1
            /\ loop' = IF attempt = 0 THEN "call" ELSE "backoff"
            /\ UNCHANGED loopRes
       ELSE Return(lastErr) /\ UNCHANGED attempt
    /\ UNCHANGED <<conf, ctxDone, expired, lastErr, run, res, answer, result>>

BackoffFires ==
    /\ loop = "backoff" /\ loop' = "call"
    /\ UNCHANGED <<conf, ctxDone, expired, attempt, lastErr, run, res, loopRes,
                   answer, result>>

BackoffCancelled ==
    /\ loop = "backoff" /\ LoopDone
    /\ Return(Out("cancelled", 0))
    /\ UNCHANGED <<conf, ctxDone, expired, attempt, lastErr, run, res, answer, result>>

CallFn ==
    /\ loop = "call" /\ loop' = "wait"
    /\ run' = [run EXCEPT ![attempt] = "run"]
    /\ UNCHANGED <<conf, ctxDone, expired, attempt, lastErr, res, loopRes, answer, result>>

\* Mutated: the error is not kept for the end of the loop.
TakeForgets(r) ==
    /\ IF IsRetryable(r) THEN loop' = "next" /\ UNCHANGED loopRes ELSE Return(r)
    /\ UNCHANGED <<conf, ctxDone, expired, attempt, lastErr, run, res, answer, result>>

\* The loop has the outcome of its attempt.
Take(r) ==
    /\ lastErr' = IF IsErr(r) THEN r ELSE lastErr
    /\ IF IsRetryable(r) THEN loop' = "next" /\ UNCHANGED loopRes ELSE Return(r)
    /\ UNCHANGED <<conf, ctxDone, expired, attempt, run, res, answer, result>>

AttemptAnswers ==
    /\ loop = "wait" /\ run[attempt] = "sent"
    /\ Take(res[attempt])

\* Mutated: Timeout selects on the context it was given, not on the one it made.
AttemptTimesOutParent ==
    /\ loop = "wait" /\ conf.inner /\ LoopDone
    /\ Take(Out("timeout", attempt))

\* The inner Timeout returns without the answer.
AttemptTimesOut ==
    /\ loop = "wait" /\ conf.inner /\ AttemptDone
    /\ Take(Out("timeout", attempt))

-----------------------------------------------------------------------------
\* fn answers, whether or not anybody still waits for it.
FnReturns(i) ==
    /\ run[i] = "run"
    /\ \E kind \in Answers : res' = [res EXCEPT ![i] = Out(kind, i)]
    /\ run' = [run EXCEPT ![i] = "send"]
    /\ UNCHANGED <<conf, ctxDone, expired, loop, attempt, lastErr, loopRes, answer, result>>

\* Mutated: the channel of the attempt has no room.
SendUnbuffered(i) ==
    /\ run[i] = "send" /\ loop = "wait" /\ attempt = i
    /\ run' = [run EXCEPT ![i] = "sent"]
    /\ UNCHANGED <<conf, ctxDone, expired, loop, attempt, lastErr, res, loopRes,
                   answer, result>>

\* Its goroutine leaves the answer in the channel of the attempt, which has room for it.
Send(i) ==
    /\ run[i] = "send"
    /\ run' = [run EXCEPT ![i] = "sent"]
    /\ UNCHANGED <<conf, ctxDone, expired, loop, attempt, lastErr, res, loopRes,
                   answer, result>>

-----------------------------------------------------------------------------
\* The wrapped implementation returns what the loop returned, ...
LoopAnswers ==
    /\ answer = None /\ loop = "done"
    /\ answer' = loopRes
    /\ UNCHANGED <<conf, ctxDone, expired, loop, attempt, lastErr, run, res, loopRes, result>>

\* ... or the outer Timeout returns without it.
OuterTimesOut ==
    /\ answer = None /\ conf.outer /\ LoopDone
    /\ answer' = Out("timeout", 0)
    /\ UNCHANGED <<conf, ctxDone, expired, loop, attempt, lastErr, run, res, loopRes, result>>

\* The goroutine of the call, once the implementation has returned: the channel holds the
\* answer, and if the context is done as well, either may be selected.
Publish ==
    /\ answer # None /\ result = None
    /\ \/ result' = answer
       \/ ctxDone /\ result' = Out("cancelled", 0)
    /\ UNCHANGED <<conf, ctxDone, expired, loop, attempt, lastErr, run, res, loopRes, answer>>

-----------------------------------------------------------------------------
OuterDeadline ==
    /\ conf.outer /\ 0 \notin expired
    /\ expired' = expired \cup {0}
    /\ UNCHANGED <<conf, ctxDone, loop, attempt, lastErr, run, res, loopRes, answer, result>>

\* The deadline of an attempt counts from its start.
AttemptDeadline ==
    /\ conf.inner /\ loop = "wait" /\ attempt \notin expired
    /\ expired' = expired \cup {attempt}
    /\ UNCHANGED <<conf, ctxDone, loop, attempt, lastErr, run, res, loopRes, answer, result>>

Cancel ==
    /\ ~ctxDone /\ ctxDone' = TRUE
    /\ UNCHANGED <<conf, expired, loop, attempt, lastErr, run, res, loopRes, answer, result>>

-----------------------------------------------------------------------------
Init ==
    /\ conf \in [max : Limits, outer : BOOLEAN, inner : BOOLEAN]
    /\ ctxDone \in BOOLEAN /\ expired = {}
    /\ loop = "next" /\ attempt = 0 /\ lastErr = Nil /\ loopRes = None
    /\ run = [i \in Attempts |-> "none"] /\ res = [i \in Attempts |-> None]
    /\ answer = None /\ result = None

RetryLoop == NextAttempt \/ BackoffFires \/ BackoffCancelled \/ CallFn
             \/ AttemptAnswers \/ AttemptTimesOut
Caller    == LoopAnswers \/ OuterTimesOut \/ Publish
Timers    == OuterDeadline \/ AttemptDeadline

\* Published, and no goroutine of the call is left.
Terminated ==
    /\ result # None /\ loop = "done" /\ \A i \in Attempts : run[i] \in {"none", "sent"}
    /\ UNCHANGED vars

Next ==
    \/ RetryLoop \/ Caller \/ Timers \/ Cancel
    \/ \E i \in Attempts : FnReturns(i) \/ Send(i)
    \/ Terminated

Spec == Init /\ [][Next]_vars

\* Timers fire and the scheduler runs what can run.  Nothing makes fn answer.
FairSpec ==
    /\ Spec
    /\ WF_vars(RetryLoop) /\ WF_vars(Caller)
    /\ WF_vars(OuterDeadline) /\ WF_vars(AttemptDeadline)
    /\ WF_vars(\E i \in Attempts : Send(i))

-----------------------------------------------------------------------------
(***************************************************************************)
(* Properties.                                                             *)
(***************************************************************************)
Kinds == {"none", "nil", "value", "retryable", "fatal", "timeout", "cancelled"}
Outs  == [kind : Kinds, attempt : Nat]

\* The state is well typed, and Retry never begins more attempts than RetryAttempts says.
TypeOK ==
    /\ conf \in [max : Limits, outer : BOOLEAN, inner : BOOLEAN]
    /\ ctxDone \in BOOLEAN
    /\ expired \subseteq Attempts \cup {0}
    /\ loop \in {"next", "backoff", "call", "wait", "done"}
    /\ attempt \in Attempts \cup {0}
    /\ run \in [Attempts -> {"none", "run", "send", "sent"}]
    /\ res \in [Attempts -> Outs]
    /\ lastErr \in Outs /\ loopRes \in Outs /\ answer \in Outs /\ result \in Outs

\* fn is run again only after its run before has ended with a retryable error: a call never
\* has two runs of fn at once, and a side effect is not repeated because an answer was late.
RetryJustified ==
    \A i \in Attempts :
        i > 1 /\ run[i] # "none" =>
            run[i - 1] = "sent" /\ res[i - 1].kind = "retryable"

\* What may be returned, and when: an answer is that of the last attempt, a retryable error
\* only after as many attempts as allowed, a timeout after a deadline or a cancellation,
\* and nil, which the evaluator cannot use, only if no attempt is allowed.
Explained(r) ==
    /\ r.kind \in {"value", "fatal"} => loop = "done" /\ r = res[attempt]
    /\ r.kind = "retryable" => attempt = conf.max /\ r = res[attempt]
    /\ r.kind = "timeout"   => ctxDone \/ 0 \in expired \/ r.attempt \in expired
    /\ r.kind = "cancelled" => ctxDone \/ 0 \in expired
    /\ r.kind = "nil"       => conf.max <= 0

AnswerExplained == Explained(loopRes) /\ Explained(answer) /\ Explained(result)

\* A Timeout bounds the call even if fn never answers and never looks at its context: the
\* call publishes a result, and with a Timeout on each attempt the loop ends as well.
TimeoutBounds ==
    /\ (conf.outer \/ conf.inner) ~> (result # None)
    /\ conf.inner ~> (loop = "done")

\* A late answer does not keep the goroutine of its attempt alive: its send never waits for
\* a receiver that has gone.
NoStuckSender == []<>(\A i \in Attempts : run[i] # "send")
=============================================================================
