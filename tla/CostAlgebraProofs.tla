------------------------- MODULE CostAlgebraProofs -------------------------
(***************************************************************************)
(* For every largest amount, all operands and all factors: an expression   *)
(* over sizes never comes to more, or to less, than it was estimated to.   *)
(***************************************************************************)
EXTENDS CostAlgebra, TLAPS

LEMMA TopIsNat == Top \in Nat /\ Top > 0 /\ Amount = 0..Top
  BY TopAssumption DEF Amount

LEMMA DivMod ==
    ASSUME NEW x \in Nat, NEW y \in Nat, y > 0
    PROVE  /\ x \div y \in Nat /\ x % y \in Nat /\ x % y < y
           /\ x = y * (x \div y) + (x % y)
  OBVIOUS

LEMMA TimesMonotone ==
    ASSUME NEW a \in Int, NEW b \in Int, NEW y \in Nat, a <= b
    PROVE  a * y <= b * y /\ y * a <= y * b
  OBVIOUS

\* A quotient does not fall as what is divided rises.
LEMMA DivMonotone ==
    ASSUME NEW x \in Nat, NEW z \in Nat, x <= z, NEW y \in Nat, y > 0
    PROVE  x \div y <= z \div y
  <1> DEFINE a == x \div y
             b == z \div y
  <1>1. a \in Nat /\ b \in Nat /\ y * a <= x /\ z < y * b + y
    BY DivMod
  <1>2. SUFFICES ASSUME a > b PROVE FALSE
    BY <1>1
  <1>3. y * (b + 1) <= y * a
    BY <1>1, <1>2, TimesMonotone
  <1>4. y * (b + 1) = y * b + y
    BY <1>1
  <1> QED BY <1>1, <1>3, <1>4

-----------------------------------------------------------------------------
(* Every operation stays within the amounts and keeps their order.         *)

LEMMA AddMonotone ==
    ASSUME NEW x \in Amount, NEW y \in Amount, NEW u \in Amount, NEW v \in Amount,
           x <= u, y <= v
    PROVE  /\ SafeAdd(x, y) \in Amount /\ SafeAdd(u, v) \in Amount
           /\ SafeAdd(x, y) <= SafeAdd(u, v)
  BY TopIsNat DEF SafeAdd

\* What is taken away counts the other way round.
LEMMA SubtractMonotone ==
    ASSUME NEW x \in Amount, NEW y \in Amount, NEW u \in Amount, NEW v \in Amount,
           x <= u, v <= y
    PROVE  /\ SafeSubtract(x, y) \in Amount /\ SafeSubtract(u, v) \in Amount
           /\ SafeSubtract(x, y) <= SafeSubtract(u, v)
  BY TopIsNat DEF SafeSubtract

\* The guard of a multiplication compares a factor with a quotient: it holds exactly
\* when the product is past Top.
LEMMA MultiplyIs ==
    ASSUME NEW x \in Amount, NEW y \in Amount
    PROVE  /\ SafeMultiply(x, y) = IF x * y > Top THEN Top ELSE x * y
           /\ x * y \in Nat
  <1>1. x \in Nat /\ y \in Nat /\ x * y \in Nat
    BY TopIsNat
  <1>2. CASE y = 0
    BY <1>1, <1>2, TopIsNat DEF SafeMultiply
  <1>3. CASE y > 0
    <2> DEFINE q == Top \div y
    <2>1. q \in Nat /\ y * q <= Top /\ Top < y * q + y
      BY <1>1, <1>3, TopIsNat, DivMod
    <2>2. ASSUME x > q PROVE x * y > Top
      <3>1. y * (q + 1) <= y * x
        BY <1>1, <2>1, <2>2, TimesMonotone
      <3>2. y * (q + 1) = y * q + y /\ y * x = x * y
        BY <1>1, <2>1
      <3> QED BY <1>1, <2>1, <3>1, <3>2, TopIsNat
    <2>3. ASSUME ~(x > q) PROVE ~(x * y > Top)
      <3>1. y * x <= y * q
        BY <1>1, <2>1, <2>3, TimesMonotone
      <3>2. y * x = x * y
        BY <1>1
      <3> QED BY <1>1, <2>1, <3>1, <3>2, TopIsNat
    <2> QED BY <1>1, <1>3, <2>2, <2>3 DEF SafeMultiply
  <1> QED BY <1>1, <1>2, <1>3

LEMMA MultiplyMonotone ==
    ASSUME NEW x \in Amount, NEW y \in Amount, NEW u \in Amount, NEW v \in Amount,
           x <= u, y <= v
    PROVE  /\ SafeMultiply(x, y) \in Amount /\ SafeMultiply(u, v) \in Amount
           /\ SafeMultiply(x, y) <= SafeMultiply(u, v)
  <1>1. x \in Nat /\ y \in Nat /\ u \in Nat /\ v \in Nat
    BY TopIsNat
  <1>2. x * y <= u * y /\ u * y <= u * v
    BY <1>1, TimesMonotone
  <1>3. x * y <= u * v
    BY <1>1, <1>2
  <1> QED BY <1>1, <1>3, MultiplyIs, TopIsNat

LEMMA ScaleMonotone ==
    ASSUME NEW x \in Amount, NEW u \in Amount, x <= u,
           NEW p \in Nat \ {0}, NEW q \in Nat \ {0}
    PROVE  /\ Scaled(x, p, q) \in Amount /\ Scaled(u, p, q) \in Amount
           /\ Scaled(x, p, q) <= Scaled(u, p, q)
  <1> DEFINE up(n) == (n * p + q - 1) \div q
  <1>1. x \in Nat /\ u \in Nat /\ x * p \in Nat /\ u * p \in Nat /\ x * p <= u * p
    BY TopIsNat, TimesMonotone
  <1>2. x * p + q - 1 \in Nat /\ u * p + q - 1 \in Nat /\ x * p + q - 1 <= u * p + q - 1
    BY <1>1
  <1>3. up(x) \in Nat /\ up(u) \in Nat /\ up(x) <= up(u)
    BY <1>2, DivMod, DivMonotone
  <1> HIDE DEF up
  <1>4. /\ Scaled(x, p, q) = IF x = 0 \/ x = Top THEN x ELSE Least(Top, up(x))
        /\ Scaled(u, p, q) = IF u = 0 \/ u = Top THEN u ELSE Least(Top, up(u))
    BY DEF Scaled, up
  <1> QED BY <1>1, <1>3, <1>4, TopIsNat DEF Least

-----------------------------------------------------------------------------
(* The algebra.                                                            *)

Spans == [min : Amount, max : Amount]

AlgebraInv == tracked \in Amount /\ estimated \in Spans /\ Enclosed

LEMMA OperandOf ==
    ASSUME NEW y \in Samples, NEW s \in SpansOf(y)
    PROVE  /\ y \in Amount /\ s \in Spans
           /\ s.min \in Amount /\ s.max \in Amount /\ s.min <= y /\ y <= s.max
  BY SamplesAssumption DEF SpansOf, Spans, Encloses

\* What a step has to show of the expression it makes.
LEMMA Keeps ==
    ASSUME NEW x \in Amount, NEW lo \in Amount, NEW hi \in Amount, lo <= x, x <= hi,
           Becomes(x, Span(lo, hi))
    PROVE  AlgebraInv'
  BY DEF Becomes, AlgebraInv, Enclosed, Encloses, Span, Spans

LEMMA Unfolded ==
    ASSUME AlgebraInv
    PROVE  /\ tracked \in Amount /\ estimated.min \in Amount /\ estimated.max \in Amount
           /\ estimated.min <= tracked /\ tracked <= estimated.max
  BY DEF AlgebraInv, Enclosed, Encloses, Spans

LEMMA SumKeeps == ASSUME AlgebraInv, Sum PROVE AlgebraInv'
  <1>1. PICK y \in Samples : \E s \in SpansOf(y) :
            Becomes(SafeAdd(tracked, y), AddSpan(estimated, s))
    BY DEF Sum
  <1>2. PICK s \in SpansOf(y) : Becomes(SafeAdd(tracked, y), AddSpan(estimated, s))
    BY <1>1
  <1>3. /\ tracked \in Amount /\ estimated.min \in Amount /\ estimated.max \in Amount
        /\ estimated.min <= tracked /\ tracked <= estimated.max
        /\ y \in Amount /\ s.min \in Amount /\ s.max \in Amount /\ s.min <= y /\ y <= s.max
    BY Unfolded, OperandOf
  <1> DEFINE x == SafeAdd(tracked, y)
             lo == SafeAdd(estimated.min, s.min)
             hi == SafeAdd(estimated.max, s.max)
  <1>4. x \in Amount /\ lo \in Amount /\ hi \in Amount /\ lo <= x /\ x <= hi
    <2>1. lo \in Amount /\ lo <= x
      BY <1>3, AddMonotone
    <2>2. x \in Amount /\ hi \in Amount /\ x <= hi
      BY <1>3, AddMonotone
    <2> QED BY <2>1, <2>2
  <1>5. Becomes(x, Span(lo, hi))
    BY <1>2 DEF AddSpan
  <1> QED BY <1>4, <1>5, Keeps

LEMMA SubKeeps == ASSUME AlgebraInv, Sub PROVE AlgebraInv'
  <1>1. PICK y \in Samples : \E s \in SpansOf(y) :
            \/ Becomes(SafeSubtract(tracked, y), SubtractSpan(estimated, s))
            \/ Becomes(SafeSubtract(y, tracked), SubtractSpan(s, estimated))
    BY DEF Sub
  <1>2. PICK s \in SpansOf(y) :
            \/ Becomes(SafeSubtract(tracked, y), SubtractSpan(estimated, s))
            \/ Becomes(SafeSubtract(y, tracked), SubtractSpan(s, estimated))
    BY <1>1
  <1>3. /\ tracked \in Amount /\ estimated.min \in Amount /\ estimated.max \in Amount
        /\ estimated.min <= tracked /\ tracked <= estimated.max
        /\ y \in Amount /\ s.min \in Amount /\ s.max \in Amount /\ s.min <= y /\ y <= s.max
    BY Unfolded, OperandOf
  <1>4. CASE Becomes(SafeSubtract(tracked, y), SubtractSpan(estimated, s))
    <2> DEFINE x  == SafeSubtract(tracked, y)
               lo == SafeSubtract(estimated.min, s.max)
               hi == SafeSubtract(estimated.max, s.min)
    <2>1. x \in Amount /\ lo \in Amount /\ hi \in Amount /\ lo <= x /\ x <= hi
      <3>1. lo \in Amount /\ lo <= x
        BY <1>3, SubtractMonotone
      <3>2. x \in Amount /\ hi \in Amount /\ x <= hi
        BY <1>3, SubtractMonotone
      <3> QED BY <3>1, <3>2
    <2>2. Becomes(x, Span(lo, hi))
      BY <1>4 DEF SubtractSpan
    <2> QED BY <2>1, <2>2, Keeps
  <1>5. CASE Becomes(SafeSubtract(y, tracked), SubtractSpan(s, estimated))
    <2> DEFINE x  == SafeSubtract(y, tracked)
               lo == SafeSubtract(s.min, estimated.max)
               hi == SafeSubtract(s.max, estimated.min)
    <2>1. x \in Amount /\ lo \in Amount /\ hi \in Amount /\ lo <= x /\ x <= hi
      <3>1. lo \in Amount /\ lo <= x
        BY <1>3, SubtractMonotone
      <3>2. x \in Amount /\ hi \in Amount /\ x <= hi
        BY <1>3, SubtractMonotone
      <3> QED BY <3>1, <3>2
    <2>2. Becomes(x, Span(lo, hi))
      BY <1>5 DEF SubtractSpan
    <2> QED BY <2>1, <2>2, Keeps
  <1> QED BY <1>2, <1>4, <1>5

LEMMA MulKeeps == ASSUME AlgebraInv, Mul PROVE AlgebraInv'
  <1>1. PICK y \in Samples : \E s \in SpansOf(y) :
            Becomes(SafeMultiply(tracked, y), MultiplySpan(estimated, s))
    BY DEF Mul
  <1>2. PICK s \in SpansOf(y) : Becomes(SafeMultiply(tracked, y), MultiplySpan(estimated, s))
    BY <1>1
  <1>3. /\ tracked \in Amount /\ estimated.min \in Amount /\ estimated.max \in Amount
        /\ estimated.min <= tracked /\ tracked <= estimated.max
        /\ y \in Amount /\ s.min \in Amount /\ s.max \in Amount /\ s.min <= y /\ y <= s.max
    BY Unfolded, OperandOf
  <1> DEFINE x == SafeMultiply(tracked, y)
             lo == SafeMultiply(estimated.min, s.min)
             hi == SafeMultiply(estimated.max, s.max)
  <1>4. x \in Amount /\ lo \in Amount /\ hi \in Amount /\ lo <= x /\ x <= hi
    <2>1. lo \in Amount /\ lo <= x
      BY <1>3, MultiplyMonotone
    <2>2. x \in Amount /\ hi \in Amount /\ x <= hi
      BY <1>3, MultiplyMonotone
    <2> QED BY <2>1, <2>2
  <1>5. Becomes(x, Span(lo, hi))
    BY <1>2 DEF MultiplySpan
  <1> QED BY <1>4, <1>5, Keeps

LEMMA ScaleKeeps == ASSUME AlgebraInv, Scale PROVE AlgebraInv'
  <1>1. PICK f \in Factors :
            Becomes(Scaled(tracked, f[1], f[2]), ScaleSpan(estimated, f[1], f[2]))
    BY DEF Scale
  <1>2. f[1] \in Nat \ {0} /\ f[2] \in Nat \ {0}
    BY FactorsAssumption
  <1>3. /\ tracked \in Amount /\ estimated.min \in Amount /\ estimated.max \in Amount
        /\ estimated.min <= tracked /\ tracked <= estimated.max
    BY Unfolded
  <1> DEFINE x  == Scaled(tracked, f[1], f[2])
             lo == Scaled(estimated.min, f[1], f[2])
             hi == Scaled(estimated.max, f[1], f[2])
  <1>4. x \in Amount /\ lo \in Amount /\ hi \in Amount /\ lo <= x /\ x <= hi
    <2>1. lo \in Amount /\ lo <= x
      BY <1>2, <1>3, ScaleMonotone
    <2>2. x \in Amount /\ hi \in Amount /\ x <= hi
      BY <1>2, <1>3, ScaleMonotone
    <2> QED BY <2>1, <2>2
  <1>5. Becomes(x, Span(lo, hi))
    BY <1>1 DEF ScaleSpan
  <1> QED BY <1>4, <1>5, Keeps

LEMMA ChoiceKeeps == ASSUME AlgebraInv, Smaller \/ Larger \/ Union PROVE AlgebraInv'
  <1>1. PICK y \in Samples : \E s \in SpansOf(y) :
            \/ Becomes(Least(tracked, y), MinSpan(estimated, s))
            \/ Becomes(Most(tracked, y), MaxSpan(estimated, s))
            \/ Becomes(Most(tracked, y), UnionSpan(estimated, s))
    BY DEF Smaller, Larger, Union
  <1>2. PICK s \in SpansOf(y) :
            \/ Becomes(Least(tracked, y), MinSpan(estimated, s))
            \/ Becomes(Most(tracked, y), MaxSpan(estimated, s))
            \/ Becomes(Most(tracked, y), UnionSpan(estimated, s))
    BY <1>1
  <1>3. /\ tracked \in Amount /\ estimated.min \in Amount /\ estimated.max \in Amount
        /\ estimated.min <= tracked /\ tracked <= estimated.max
        /\ y \in Amount /\ s.min \in Amount /\ s.max \in Amount /\ s.min <= y /\ y <= s.max
    BY Unfolded, OperandOf
  <1> DEFINE lo == Least(estimated.min, s.min)
             hi == Most(estimated.max, s.max)
             least == Least(estimated.max, s.max)
             most == Most(estimated.min, s.min)
  <1>4. /\ lo \in Amount /\ hi \in Amount /\ least \in Amount /\ most \in Amount
        /\ Least(tracked, y) \in Amount /\ Most(tracked, y) \in Amount
        /\ lo <= Least(tracked, y) /\ Least(tracked, y) <= least
        /\ lo <= Most(tracked, y) /\ most <= Most(tracked, y) /\ Most(tracked, y) <= hi
    BY <1>3, TopIsNat, SMTT(40) DEF Least, Most
  <1>5. CASE Becomes(Least(tracked, y), MinSpan(estimated, s))
    <2>1. Becomes(Least(tracked, y), Span(lo, least))
      BY <1>5 DEF MinSpan
    <2> QED BY <1>4, <2>1, Keeps
  <1>6. CASE Becomes(Most(tracked, y), MaxSpan(estimated, s))
    <2>1. Becomes(Most(tracked, y), Span(most, hi))
      BY <1>6 DEF MaxSpan
    <2> QED BY <1>4, <2>1, Keeps
  <1>7. CASE Becomes(Most(tracked, y), UnionSpan(estimated, s))
    <2>1. Becomes(Most(tracked, y), Span(lo, hi))
      BY <1>7 DEF UnionSpan
    <2> QED BY <1>4, <2>1, Keeps
  <1> QED BY <1>2, <1>5, <1>6, <1>7

LEMMA RangedKeeps == ASSUME AlgebraInv, Ranged PROVE AlgebraInv'
  <1>1. PICK y \in Samples : \E s \in SpansOf(y) :
            \/ tracked <= y /\ Becomes(y, RangedSpan(estimated, s))
            \/ y <= tracked /\ Becomes(tracked, RangedSpan(s, estimated))
    BY DEF Ranged
  <1>2. PICK s \in SpansOf(y) :
            \/ tracked <= y /\ Becomes(y, RangedSpan(estimated, s))
            \/ y <= tracked /\ Becomes(tracked, RangedSpan(s, estimated))
    BY <1>1
  <1>3. /\ tracked \in Amount /\ estimated.min \in Amount /\ estimated.max \in Amount
        /\ estimated.min <= tracked /\ tracked <= estimated.max
        /\ y \in Amount /\ s.min \in Amount /\ s.max \in Amount /\ s.min <= y /\ y <= s.max
    BY Unfolded, OperandOf
  <1> DEFINE a == Least(estimated.min, s.max)
             b == Least(s.min, estimated.max)
  <1>4. /\ a \in Amount /\ b \in Amount
        /\ tracked <= y => a <= y
        /\ y <= tracked => b <= tracked
    BY <1>3, TopIsNat DEF Least
  <1>5. CASE tracked <= y /\ Becomes(y, RangedSpan(estimated, s))
    <2>1. Becomes(y, Span(a, s.max))
      BY <1>5 DEF RangedSpan
    <2> QED BY <1>3, <1>4, <1>5, <2>1, Keeps
  <1>6. CASE y <= tracked /\ Becomes(tracked, RangedSpan(s, estimated))
    <2>1. Becomes(tracked, Span(b, estimated.max))
      BY <1>6 DEF RangedSpan
    <2> QED BY <1>3, <1>4, <1>6, <2>1, Keeps
  <1> QED BY <1>2, <1>5, <1>6

LEMMA AtLeastOneKeeps == ASSUME AlgebraInv, AtLeastOne PROVE AlgebraInv'
  <1>1. /\ tracked \in Amount /\ estimated.min \in Amount /\ estimated.max \in Amount
        /\ estimated.min <= tracked /\ tracked <= estimated.max
    BY Unfolded
  <1> DEFINE x == Most(tracked, 1)
             lo == Most(estimated.min, 1)
             hi == Most(estimated.max, 1)
  <1>2. x \in Amount /\ lo \in Amount /\ hi \in Amount /\ lo <= x /\ x <= hi
    BY <1>1, TopIsNat DEF Most
  <1>3. Becomes(x, Span(lo, hi))
    BY DEF AtLeastOne
  <1> QED BY <1>2, <1>3, Keeps

\* The bounds of a cost estimate hold for every expression over sizes, whatever the
\* width of an amount: sums and products stop at Top and a difference from Top stays
\* there, on both sides alike.
THEOREM AlgebraSound == AlgebraSpec => []Enclosed
  <1>1. AlgebraInit => AlgebraInv
    BY SamplesAssumption DEF AlgebraInit, AlgebraInv, Enclosed, SpansOf, Spans
  <1>2. AlgebraInv /\ [AlgebraNext]_algebraVars => AlgebraInv'
    <2>1. ASSUME AlgebraInv, UNCHANGED algebraVars PROVE AlgebraInv'
      BY <2>1 DEF AlgebraInv, Enclosed, algebraVars
    <2> QED
      BY <2>1, SumKeeps, SubKeeps, MulKeeps, ScaleKeeps, ChoiceKeeps, RangedKeeps, AtLeastOneKeeps
      DEF AlgebraNext
  <1>3. AlgebraInv => Enclosed
    BY DEF AlgebraInv
  <1> QED BY <1>1, <1>2, <1>3, PTL DEF AlgebraSpec
============================================================================
