---------------------------- MODULE EvalPromise ----------------------------
(***************************************************************************)
(* What ConcurrentEval promises, without passes, gates or channels: calls  *)
(* are answered one by one, each once; at some point one result is         *)
(* published, and it is the value the expression has whatever the calls    *)
(* still missing would answer; then the result channel is closed.  A done  *)
(* context may replace the value by an error.                              *)
(***************************************************************************)
EXTENDS CelOutcomes, Sequences

CONSTANTS Calls, Outcomes, NoResult, MayPanic,
          Denote(_)   (* the value of the expression when every call has an answer *)

VARIABLES answers, cancelled, results, closed

pvars == <<answers, cancelled, results, closed>>

Full == {a \in [Calls -> Outcomes \cup {Err}] :
            \A c \in Calls : answers[c] = NoResult \/ a[c] = answers[c]}

\* v does not depend on the calls that are not answered yet.
Determined(v) == \A a \in Full : Denote(a) = v

PInit ==
    /\ answers = [c \in Calls |-> NoResult]
    /\ cancelled \in BOOLEAN
    /\ results = <<>>
    /\ closed = FALSE

Answer(c) ==
    /\ answers[c] = NoResult
    /\ \E v \in Outcomes \cup IF cancelled \/ closed THEN {Err} ELSE {} :
          answers' = [answers EXCEPT ![c] = v]
    /\ UNCHANGED <<cancelled, results, closed>>

Publish(r) ==
    /\ results = <<>> /\ ~closed
    /\ \/ r.kind = "final" /\ Determined(r.val)
       \* a comprehension was interrupted: the error may be absorbed by an unknown
       \/ r.kind = "final" /\ cancelled /\ r.val.tag \in {"err", "unk"}
       \/ r.kind = "ctx" /\ cancelled /\ r.val = Err
       \/ r.kind = "panic" /\ MayPanic /\ r.val = Err
    /\ results' = <<r>>
    /\ UNCHANGED <<answers, cancelled, closed>>

Finish ==
    /\ results # <<>> /\ ~closed
    /\ closed' = TRUE
    /\ UNCHANGED <<answers, cancelled, results>>

CancelContext ==
    /\ ~cancelled
    /\ cancelled' = TRUE
    /\ UNCHANGED <<answers, results, closed>>

\* The results that can be published by this step: the one it does publish.
PNext ==
    \/ \E c \in Calls : Answer(c)
    \/ results' # <<>> /\ Publish(results'[1])
    \/ Finish
    \/ CancelContext

PSpec == PInit /\ [][PNext]_pvars
=============================================================================
