---------------------------- MODULE PartialEval ----------------------------
(***************************************************************************)
(* Partial evaluation in stages: a program is evaluated while some of its  *)
(* attributes are unknown, the residual of the evaluation is compiled and  *)
(* evaluated again, and between two stages attributes become known.  Any   *)
(* stage may run with short-circuiting disabled.                           *)
(*                                                                         *)
(* truth holds the values all variables have in the end; while an          *)
(* attribute is unknown its value is there but must not be looked at.      *)
(***************************************************************************)
EXTENDS Prune, FiniteSets

CONSTANTS
    Exprs,       (* expressions to start from                                *)
    Truths(_),   (* values the variables of an expression may have:          *)
                 (* functions from names                                     *)
    Patterns(_), (* attribute patterns that may be unknown                   *)
    Reused       (* the expressions that are evaluated again after a         *)
                 (* residual was made of them                                *)

VARIABLES
    orig,      (* the expression compiled first                              *)
    truth,     (* the values of the variables                                *)
    cur,       (* the expression of this stage                               *)
    macros,    (* the macro calls of its Ast                                 *)
    unknown,   (* the unknown attribute patterns of this stage               *)
    last,      (* result of the evaluation of this stage                     *)
    phase      (* "compiled" or "evaluated"                                  *)

vars == <<orig, truth, cur, macros, unknown, last, phase>>

NotRun == Result(Unk, Nothing)

Activation(t, unk, exhaustive) ==
    [vars |-> t, locals |-> Nothing, unknown |-> unk, exhaustive |-> exhaustive]

Init ==
    /\ orig \in Exprs
    /\ truth \in Truths(orig)
    /\ cur = Parse(orig, <<1>>)
    /\ macros = Track(cur)
    /\ unknown \in SUBSET Patterns(orig)
    /\ last = NotRun
    /\ phase = "compiled"

\* Program.Eval under PartialVars, with state tracking.
Eval ==
    /\ phase = "compiled"
    /\ \E exhaustive \in BOOLEAN : last' = Exec(cur, Activation(truth, unknown, exhaustive))
    /\ phase' = "evaluated"
    /\ UNCHANGED <<orig, truth, cur, macros, unknown>>

Residual == PruneAst(cur, macros, last.st)

\* Env.ResidualAst: prune, print, and parse again what was printed.  What has no source
\* form is an error, and the caller still has the expression of the last stage.
ResidualAst ==
    /\ phase = "evaluated" /\ ~Residual.p.panic
    /\ LET calls == Residual.p.macros IN
       IF Unparses(Residual.e, calls)
       THEN cur' = Parse(Unparse(Residual.e, calls), <<1>>) /\ macros' = Track(cur')
       ELSE macros' = calls /\ UNCHANGED cur
    /\ last' = NotRun /\ phase' = "compiled"
    /\ UNCHANGED <<orig, truth, unknown>>

\* The caller goes on with the first Ast after it has made a residual of it (the result
\* was unknown), with other values and unknowns: the macro calls were pruned in place.
ReuseAst ==
    /\ orig \in Reused /\ cur = Parse(orig, <<1>>)
    /\ phase = "evaluated" /\ last.v = Unk /\ ~Residual.p.panic
    /\ truth' \in Truths(orig) /\ unknown' \in SUBSET Patterns(orig)
    /\ macros' = Residual.p.macros
    /\ last' = NotRun /\ phase' = "compiled"
    /\ UNCHANGED <<orig, cur>>

\* The caller has learnt an attribute before the next stage.
Learn ==
    /\ phase = "compiled"
    /\ \E p \in unknown : unknown' = unknown \ {p}
    /\ UNCHANGED <<orig, truth, cur, macros, last, phase>>

Next == Eval \/ ResidualAst \/ ReuseAst \/ Learn

Spec == Init /\ [][Next]_vars

-----------------------------------------------------------------------------
(***************************************************************************)
(* Properties.                                                             *)
(***************************************************************************)
Full(e, t) == Exec(Parse(e, <<1>>), Activation(t, {}, FALSE)).v

\* A field of a variable that a pattern makes unknown as a whole or in part.
Hidden(x, f) == \E p \in unknown : p.var = x /\ p.quals[1] \in {f, Wildcard}

\* What the activation tells of the values t while the patterns are unknown.
Visible(t) ==
    [x \in {y \in DOMAIN t : Pattern(y, <<>>) \notin unknown} |->
        IF ~Is("map", t[x]) THEN t[x]
        ELSE Map([f \in {g \in DOMAIN t[x].map : ~Hidden(x, g)} |-> t[x].map[f]])]

\* The result and the recorded state of a partial evaluation are the same for all values
\* that the unknown attributes may turn out to have: matching unknown patterns against
\* attributes of any shape (longer, shorter, indexed, shadowed by a loop variable) never
\* lets a hidden value through.
NoPeeking ==
    phase = "evaluated" =>
        \A t \in Truths(orig) : Visible(t) = Visible(truth) =>
            \E exhaustive \in BOOLEAN : last = Exec(cur, Activation(t, unknown, exhaustive))

\* A result that partial evaluation does not report as unknown is the result of the full
\* evaluation, errors included, and it never reports an unknown when nothing is unknown.
KnownIsFinal ==
    phase = "evaluated" =>
        /\ last.v # Unk => last.v = Full(cur, truth)
        /\ unknown = {} => last.v # Unk

\* After any number of stages the residual has the value of the original expression, unless
\* that is an error (a residual may be defined where the original fails: x in [] is false).
ResidualFaithful == Full(orig, truth) # Err => Full(cur, truth) = Full(orig, truth)

\* An index into a conditional: the planner moves it into the branches when it short-circuits,
\* and there an error in the key comes before an unknown attribute, not after it.
RECURSIVE IndexesCond(_)
IndexesCond(e) ==
    \/ e.op = "index" /\ Base(e).op = "call" /\ Base(e).fn = "cond"
    \/ \E i \in DOMAIN e.args : IndexesCond(e.args[i])

\* Short-circuiting is invisible: with and without it every stage has the same value.
ExhaustiveAgrees ==
    phase = "evaluated" /\ ~IndexesCond(cur) =>
        \A exhaustive \in BOOLEAN :
            Exec(cur, Activation(truth, unknown, exhaustive)).v = last.v

\* Pruning never fails a type assertion.
NoPanic == phase = "evaluated" => ~Residual.p.panic
=============================================================================
