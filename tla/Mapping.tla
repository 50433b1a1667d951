------------------------------- MODULE Mapping -------------------------------
(***************************************************************************)
(* The substitutions of type parameters that the checker collects while it *)
(* works its way through an expression, and the log from which a failed    *)
(* attempt to add to them is undone.                                       *)
(***************************************************************************)
EXTENDS Naturals, Sequences

Type(kind, name, params) == [kind |-> kind, name |-> name, params |-> params]
NoType == Type("none", "", <<>>)

(* A mapping m: what each parameter stands for, and the log of what each add replaced; ok *)
(* is the answer of the last test.  A parameter that would come to stand for a type that  *)
(* mentions it is noted in cyclic, and is not bound.                                      *)
NewMapping == [sub |-> [n \in {} |-> NoType], undo |-> <<>>, recording |-> FALSE, ok |-> TRUE,
               cyclic |-> FALSE]

Bind(sub, n, t) == [k \in DOMAIN sub \cup {n} |-> IF k = n THEN t ELSE sub[k]]
Drop(sub, n)    == [k \in DOMAIN sub \ {n} |-> sub[k]]

\* What an add of n replaces, and the add.
Entry(sub, n) == [key |-> n, had |-> n \in DOMAIN sub,
                  prev |-> IF n \in DOMAIN sub THEN sub[n] ELSE NoType]
AddTo(m, n, to) == [m EXCEPT !.sub  = Bind(m.sub, n, to),
                             !.undo = IF m.recording THEN Append(@, Entry(m.sub, n)) ELSE @]

\* What an undo entry restores.
Restore(e, sub) == IF e.had THEN Bind(sub, e.key, e.prev) ELSE Drop(sub, e.key)
\* Mutant: the log is undone from its start.
RollbackForward(m) ==
    LET redone[i \in 0..Len(m.undo)] ==
            IF i = 0 THEN m.sub ELSE Restore(m.undo[i], redone[i - 1])
    IN [m EXCEPT !.sub = redone[Len(m.undo)]]
\* The log from its end to its start: the substitution when all from i on is undone.
Undone(undo, sub) ==
    LET undone[i \in 1..(Len(undo) + 1)] ==
            IF i = Len(undo) + 1 THEN sub ELSE Restore(undo[i], undone[i + 1])
    IN undone
Rollback(m) == [m EXCEPT !.sub = Undone(m.undo, m.sub)[1]]

Answer(m, ok) == [m EXCEPT !.ok = ok]
\* The start and the end of an attempt.
Started(m) == [m EXCEPT !.recording = TRUE]
Ended(m)   == [(IF m.ok THEN m ELSE Rollback(m)) EXCEPT !.undo = <<>>, !.recording = FALSE]
=============================================================================
