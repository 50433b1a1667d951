---------------------------- MODULE CostAlgebra ----------------------------
(***************************************************************************)
(* The saturating arithmetic of cost and size estimates (common/cost): an  *)
(* amount is a number up to Top, Top itself stands for every amount the    *)
(* 64 bits cannot tell, and an estimate is the range of amounts from .min  *)
(* to .max.                                                                *)
(*                                                                         *)
(* The cost of a call is an expression over the sizes of its operands      *)
(* (common/cost/model.go). It is worked out twice, from the sizes that are *)
(* estimated before the program runs and from the sizes that it meets when *)
(* it does. Here such an expression grows by one operation at a time, and  *)
(* both results are kept.                                                  *)
(***************************************************************************)
EXTENDS Integers

CONSTANT Top        \* the largest amount: math.MaxUint64 in the code

ASSUME TopAssumption == Top \in Nat \ {0}

Amount == 0..Top

Least(x, y) == IF x <= y THEN x ELSE y
Most(x, y) == IF x <= y THEN y ELSE x

(***************************************************************************)
(* Sums and products past Top are Top. Nothing is known of a difference    *)
(* from Top, so it stays Top.                                              *)
(***************************************************************************)
SafeAdd(x, y) == IF x > Top - y THEN Top ELSE x + y

SafeSubtract(x, y) ==
  IF x = Top THEN Top ELSE IF x > y THEN x - y ELSE 0

SafeMultiply(x, y) == IF y # 0 /\ x > Top \div y THEN Top ELSE x * y

\* x scaled by the factor p / q, rounded up.
Scaled(x, p, q) ==
  IF x = 0 \/ x = Top THEN x ELSE Least(Top, (x * p + q - 1) \div q)

(***************************************************************************)
(* The same operations on ranges: each bound is computed from the bounds   *)
(* that push it furthest.                                                  *)
(***************************************************************************)
Span(lo, hi) == [min |-> lo, max |-> hi]
Exactly(x) == Span(x, x)

AddSpan(a, b) == Span(SafeAdd(a.min, b.min), SafeAdd(a.max, b.max))
\* mutated: bounds subtracted from like bounds.
SubtractLikeBounds(a, b) == Span(SafeSubtract(a.min, b.min), SafeSubtract(a.max, b.max))
SubtractSpan(a, b) == Span(SafeSubtract(a.min, b.max), SafeSubtract(a.max, b.min))
MultiplySpan(a, b) == Span(SafeMultiply(a.min, b.min), SafeMultiply(a.max, b.max))
ScaleSpan(a, p, q) == Span(Scaled(a.min, p, q), Scaled(a.max, p, q))
UnionSpan(a, b) == Span(Least(a.min, b.min), Most(a.max, b.max))
MinSpan(a, b) == Span(Least(a.min, b.min), Least(a.max, b.max))
MaxSpan(a, b) == Span(Most(a.min, b.min), Most(a.max, b.max))

\* lo may exceed hi, which is the amount that is charged
RangedSpan(lo, hi) == Span(Least(lo.min, hi.max), hi.max)

Encloses(a, x) == a.min <= x /\ x <= a.max

-----------------------------------------------------------------------------
CONSTANTS
    Samples,        \* the amounts that operands have and estimates are bounded by
    Factors         \* the factors amounts are scaled by, as pairs <<p, q>>

ASSUME SamplesAssumption == Samples \subseteq Amount
ASSUME FactorsAssumption == Factors \subseteq (Nat \ {0}) \X (Nat \ {0})

VARIABLES
    tracked,        \* the amount of the expression at runtime
    estimated       \* the range it was estimated to be in
algebraVars == <<tracked, estimated>>

\* Every estimate that an operand of size x may have.
SpansOf(x) == {s \in [min : Samples, max : Samples] : Encloses(s, x)}

Becomes(x, s) == tracked' = x /\ estimated' = s

Sum == \E y \in Samples : \E s \in SpansOf(y) :
          Becomes(SafeAdd(tracked, y), AddSpan(estimated, s))
Sub == \E y \in Samples : \E s \in SpansOf(y) :
          \/ Becomes(SafeSubtract(tracked, y), SubtractSpan(estimated, s))
          \/ Becomes(SafeSubtract(y, tracked), SubtractSpan(s, estimated))
Mul == \E y \in Samples : \E s \in SpansOf(y) :
          Becomes(SafeMultiply(tracked, y), MultiplySpan(estimated, s))
Scale == \E f \in Factors :
          Becomes(Scaled(tracked, f[1], f[2]), ScaleSpan(estimated, f[1], f[2]))
Smaller == \E y \in Samples : \E s \in SpansOf(y) :
          Becomes(Least(tracked, y), MinSpan(estimated, s))
Larger == \E y \in Samples : \E s \in SpansOf(y) :
          Becomes(Most(tracked, y), MaxSpan(estimated, s))
\* Either of two values is the result; the larger of the two is charged.
Union == \E y \in Samples : \E s \in SpansOf(y) :
          Becomes(Most(tracked, y), UnionSpan(estimated, s))
\* The size is anything from the one amount to the other, the greater, which is the one
\* that is charged: a model that states them the other way round is not estimated well.
Ranged == \E y \in Samples : \E s \in SpansOf(y) :
          \/ tracked <= y /\ Becomes(y, RangedSpan(estimated, s))
          \/ y <= tracked /\ Becomes(tracked, RangedSpan(s, estimated))
AtLeastOne ==
    Becomes(Most(tracked, 1), Span(Most(estimated.min, 1), Most(estimated.max, 1)))

AlgebraInit == \E x \in Samples : \E s \in SpansOf(x) : tracked = x /\ estimated = s
AlgebraNext == Sum \/ Sub \/ Mul \/ Scale \/ Smaller \/ Larger \/ Union \/ Ranged \/ AtLeastOne
AlgebraSpec == AlgebraInit /\ [][AlgebraNext]_algebraVars

\* What an expression over sizes comes to at runtime is within its estimate whenever
\* every operand is within its own, at every bound of the 64 bits.
Enclosed == Encloses(estimated, tracked)
============================================================================
