--------------------------- MODULE NumericProofs ---------------------------
(***************************************************************************)
(* Of the operators and conversions: for every width, every length of a    *)
(* second and every range of timestamps, no sequence of them gives an      *)
(* inexact result, and none fails that has a result of its type.           *)
(* Of comparisons: for every width of integers, every mantissa shorter     *)
(* than them and every map, numbers of different types are ordered as the  *)
(* numbers they are, and a map finds a key of any type by the number it    *)
(* is.                                                                     *)
(***************************************************************************)
EXTENDS Numeric, FiniteSetTheorems, TLAPS


-----------------------------------------------------------------------------
(* Division.                                                               *)

LEMMA ModSmall ==
    ASSUME NEW m \in Nat, m > 0, NEW a \in Nat, a < m PROVE a % m = a
  OBVIOUS

LEMMA DivMod ==
    ASSUME NEW x \in Int, NEW y \in Nat, y > 0
    PROVE  /\ x \div y \in Int /\ x % y \in Nat /\ x % y < y
           /\ x = y * (x \div y) + (x % y)
  OBVIOUS

LEMMA TimesMonotone ==
    ASSUME NEW a \in Int, NEW b \in Int, NEW y \in Nat, a <= b PROVE a * y <= b * y
  OBVIOUS

LEMMA TimesNegated ==
    ASSUME NEW a \in Int, NEW b \in Int
    PROVE  (-a) * b = -(a * b) /\ a * (-b) = -(a * b)
  OBVIOUS

LEMMA TimesDistributes ==
    ASSUME NEW a \in Int, NEW b \in Int, NEW y \in Int PROVE (a - b) * y = a * y - b * y
  OBVIOUS

\* The guards of multiplication compare a factor with a quotient.
LEMMA QuotientBounds ==
    ASSUME NEW a \in Nat, NEW b \in Nat, b > 0, NEW c \in Nat
    PROVE  a > c \div b <=> a * b > c
  <1> DEFINE q == c \div b
             r == c % b
  <1>1. q \in Int /\ r \in Nat /\ r < b /\ c = b * q + r
    BY DivMod
  <1>2. ASSUME a > q PROVE a * b > c
    <2>1. (q + 1) * b <= a * b
      BY <1>1, <1>2, TimesMonotone
    <2>2. (q + 1) * b = b * q + b
      BY <1>1
    <2> QED BY <1>1, <2>1, <2>2
  <1>3. ASSUME ~(a > q) PROVE ~(a * b > c)
    <2>1. a * b <= q * b
      BY <1>1, <1>3, TimesMonotone
    <2>2. q * b = b * q
      BY <1>1
    <2> QED BY <1>1, <2>1, <2>2
  <1> QED BY <1>2, <1>3

LEMMA NatQuotient ==
    ASSUME NEW a \in Nat, NEW b \in Nat, b > 0
    PROVE  /\ a \div b \in Nat /\ a \div b <= a
           /\ b > 1 /\ a > 0 => a \div b < a
  <1> DEFINE q == a \div b
             r == a % b
  <1>1. q \in Int /\ r \in Nat /\ r < b /\ a = b * q + r
    BY DivMod
  <1>2. q >= 0
    <2>1. ASSUME q <= -1 PROVE FALSE
      <3>1. q * b <= (-1) * b
        BY <1>1, <2>1, TimesMonotone
      <3> QED BY <1>1, <3>1
    <2> QED BY <1>1, <2>1
  <1>3. q <= q * b
    BY <1>1, <1>2, TimesMonotone
  <1>4. ASSUME b > 1, a > 0 PROVE q < a
    <2>1. CASE q = 0 BY <1>4, <2>1
    <2>2. CASE q > 0
      <3>1. 2 * q <= b * q
        BY <1>1, <1>4, <2>2, TimesMonotone
      <3> QED BY <1>1, <2>2, <3>1
    <2> QED BY <1>1, <1>2, <2>1, <2>2
  <1> QED BY <1>1, <1>2, <1>3, <1>4

\* The quotient and the remainder of the machine, from those of magnitudes.
LEMMA QuoRem ==
    ASSUME NEW x \in Int, NEW y \in Int, y # 0
    PROVE  /\ Quo(x, y) \in Int /\ Rem(x, y) \in Int
           /\ x = y * Quo(x, y) + Rem(x, y)
           /\ y > 0 => -y < Rem(x, y) /\ Rem(x, y) < y
           /\ y < 0 => y < Rem(x, y) /\ Rem(x, y) < -y
           /\ x >= 0 => Rem(x, y) >= 0
           /\ x <= 0 => Rem(x, y) <= 0
  <1>1. CASE y > 0 /\ x >= 0
    <2>1. x \div y \in Int /\ x % y \in Nat /\ x % y < y /\ x = y * (x \div y) + (x % y)
      BY <1>1, DivMod
    <2>2. Quo(x, y) = x \div y /\ Rem(x, y) = x - y * (x \div y)
      BY <1>1 DEF Quo, Rem
    <2>3. Rem(x, y) = x % y
      BY <2>1, <2>2
    <2>4. x = 0 => Rem(x, y) <= 0
      BY <1>1, <2>3
    <2> QED BY <1>1, <2>1, <2>2, <2>3, <2>4
  <1>2. CASE y > 0 /\ x < 0
    <2> DEFINE q == (-x) \div y
    <2>1. q \in Int /\ (-x) % y \in Nat /\ (-x) % y < y /\ -x = y * q + ((-x) % y)
      BY <1>2, DivMod
    <2>2. Quo(x, y) = -q /\ Rem(x, y) = x - y * (-q)
      BY <1>2 DEF Quo, Rem
    <2>3. y * (-q) = -(y * q)
      BY <2>1, TimesNegated
    <2>4. Rem(x, y) = -((-x) % y)
      BY <2>1, <2>2, <2>3
    <2> QED BY <1>2, <2>1, <2>2, <2>3, <2>4
  <1>3. CASE y < 0 /\ x >= 0
    <2>1. PICK d \in Nat : d = -y /\ d > 0
      BY <1>3
    <2> DEFINE q == x \div d
               r == x % d
    <2>2. q \in Int /\ r \in Nat /\ r < d /\ x = d * q + r
      BY <1>3, <2>1, DivMod
    <2>3. Quo(x, y) = -q /\ Rem(x, y) = x - y * (-q)
      BY <1>3, <2>1 DEF Quo, Rem
    <2> HIDE DEF q, r
    <2>4. y = -d /\ y * (-q) = d * q
      BY <2>1, <2>2
    <2>5. Rem(x, y) = r
      BY <2>2, <2>3, <2>4
    <2>6. x = 0 => r <= 0
      <3>1. CASE q <= 0 /\ x = 0
        <4>1. ASSUME q <= -1 PROVE FALSE
          <5>1. q * d <= (-1) * d
            BY <2>2, <4>1, TimesMonotone
          <5> QED BY <2>2, <3>1, <5>1
        <4> QED BY <2>2, <3>1, <4>1
      <3>2. CASE q >= 1 /\ x = 0
        <4>1. 1 * d <= q * d
          BY <2>2, <3>2, TimesMonotone
        <4> QED BY <2>2, <3>2, <4>1
      <3> QED BY <2>2, <3>1, <3>2
    <2> QED BY <1>3, <2>1, <2>2, <2>3, <2>4, <2>5, <2>6
  <1>4. CASE y < 0 /\ x < 0
    <2>1. PICK d \in Nat : d = -y /\ d > 0
      BY <1>4
    <2> DEFINE q == (-x) \div d
               r == (-x) % d
    <2>2. q \in Int /\ r \in Nat /\ r < d /\ -x = d * q + r
      BY <1>4, <2>1, DivMod
    <2>3. Quo(x, y) = q /\ Rem(x, y) = x - y * q
      BY <1>4, <2>1 DEF Quo, Rem
    <2> HIDE DEF q, r
    <2>4. y * q = -(d * q)
      BY <2>1, <2>2
    <2>5. Rem(x, y) = -r
      BY <2>2, <2>3, <2>4
    <2> QED BY <1>4, <2>1, <2>2, <2>3, <2>4, <2>5
  <1> QED BY <1>1, <1>2, <1>3, <1>4

-----------------------------------------------------------------------------
(* The checked operators.                                                  *)

\* The result r is e if S has it, and an error if not.
Checked(r, e, S) ==
    /\ r \in [ok : BOOLEAN, n : Int]
    /\ r.ok => r.n = e /\ e \in S
    /\ ~r.ok => e \notin S

LEMMA Ranges ==
    /\ MaxInt \in Nat /\ MaxInt > 0 /\ MinInt = -MaxInt - 1 /\ MaxUint = 2 * MaxInt + 1
    /\ MinInt \in Int /\ MaxUint \in Nat
    /\ \A n : n \in IntRange <=> n \in Int /\ MinInt <= n /\ n <= MaxInt
    /\ \A n : n \in UintRange <=> n \in Int /\ 0 <= n /\ n <= MaxUint
  BY WidthAssumption DEF MinInt, MaxUint, IntRange, UintRange

\* What is in range does not wrap around.
LEMMA InRange ==
    /\ \A n \in IntRange : WrapInt(n) = n
    /\ \A n \in UintRange : WrapUint(n) = n
  <1>1. ASSUME NEW n \in IntRange PROVE WrapInt(n) = n
    <2>1. n + MaxInt + 1 \in Nat /\ n + MaxInt + 1 < MaxUint + 1 /\ MaxUint + 1 \in Nat
      BY Ranges
    <2>2. (n + MaxInt + 1) % (MaxUint + 1) = n + MaxInt + 1
      BY <2>1, ModSmall
    <2> QED BY <2>2, Ranges DEF WrapInt
  <1>2. ASSUME NEW n \in UintRange PROVE WrapUint(n) = n
    <2>1. n \in Nat /\ n < MaxUint + 1 /\ MaxUint + 1 \in Nat
      BY Ranges
    <2> QED BY <2>1, ModSmall DEF WrapUint
  <1> QED BY <1>1, <1>2

LEMMA Unwrapped ==
    /\ \A n \in IntRange : Checked(Int64(n), n, IntRange)
    /\ \A n \in UintRange : Checked(Uint64(n), n, UintRange)
  BY InRange, Ranges DEF Checked, Int64, Uint64

LEMMA Refused == \A e, S : e \notin S => Checked(Fail, e, S)
  BY DEF Checked, Fail

LEMMA AddSubtract ==
    ASSUME NEW x \in IntRange, NEW y \in IntRange
    PROVE  /\ Checked(AddInt64Checked(x, y), x + y, IntRange)
           /\ Checked(SubtractInt64Checked(x, y), x - y, IntRange)
           /\ Checked(NegateInt64Checked(x), -x, IntRange)
  <1>1. Checked(AddInt64Checked(x, y), x + y, IntRange)
    <2>1. y > 0 => WrapInt(MaxInt - y) = MaxInt - y
      BY InRange, Ranges
    <2>2. y < 0 => WrapInt(MinInt - y) = MinInt - y
      BY InRange, Ranges
    <2> QED BY <2>1, <2>2, Ranges, Unwrapped, Refused DEF AddInt64Checked
  <1>2. Checked(SubtractInt64Checked(x, y), x - y, IntRange)
    <2>1. y < 0 => WrapInt(MaxInt + y) = MaxInt + y
      BY InRange, Ranges
    <2>2. y > 0 => WrapInt(MinInt + y) = MinInt + y
      BY InRange, Ranges
    <2> QED BY <2>1, <2>2, Ranges, Unwrapped, Refused DEF SubtractInt64Checked
  <1>3. Checked(NegateInt64Checked(x), -x, IntRange)
    BY Ranges, Unwrapped, Refused DEF NegateInt64Checked
  <1> QED BY <1>1, <1>2, <1>3

LEMMA AddSubtractUint ==
    ASSUME NEW x \in UintRange, NEW y \in UintRange
    PROVE  /\ Checked(AddUint64Checked(x, y), x + y, UintRange)
           /\ Checked(SubtractUint64Checked(x, y), x - y, UintRange)
  <1>1. Checked(AddUint64Checked(x, y), x + y, UintRange)
    <2>1. WrapUint(MaxUint - y) = MaxUint - y
      BY InRange, Ranges
    <2> QED BY <2>1, Ranges, Unwrapped, Refused DEF AddUint64Checked
  <1>2. Checked(SubtractUint64Checked(x, y), x - y, UintRange)
    BY Ranges, Unwrapped, Refused DEF SubtractUint64Checked
  <1> QED BY <1>1, <1>2

\* The six guards of multiplication, by the signs of the factors.
LEMMA Multiplication ==
    ASSUME NEW x \in IntRange, NEW y \in IntRange
    PROVE  Checked(MultiplyInt64Checked(x, y), x * y, IntRange)
  <1> DEFINE guard == \/ x = -1 /\ y = MinInt
                      \/ y = -1 /\ x = MinInt
                      \/ x > 0 /\ y > 0 /\ x > Quo(MaxInt, y)
                      \/ x > 0 /\ y < 0 /\ y < Quo(MinInt, x)
                      \/ x < 0 /\ y > 0 /\ x < Quo(MinInt, y)
                      \/ x < 0 /\ y < 0 /\ y < Quo(MaxInt, x)
  <1> SUFFICES guard <=> x * y \notin IntRange
    BY Unwrapped, Refused DEF MultiplyInt64Checked
  <1>0. x \in Int /\ y \in Int /\ x * y \in Int
    BY Ranges
  <1>1. CASE x = 0 \/ y = 0
    <2>1. x * y = 0 /\ ~guard
      BY <1>0, <1>1, Ranges
    <2> QED BY <1>0, <2>1, Ranges
  <1>2. CASE x > 0 /\ y > 0
    <2>1. Quo(MaxInt, y) = MaxInt \div y
      BY <1>2, Ranges DEF Quo
    <2>2. x > MaxInt \div y <=> x * y > MaxInt
      BY <1>0, <1>2, Ranges, QuotientBounds
    <2>3. 0 * y <= x * y
      BY <1>0, <1>2, TimesMonotone
    <2>4. guard <=> x * y > MaxInt
      BY <1>0, <1>2, <2>1, <2>2, Ranges
    <2> QED BY <1>0, <2>3, <2>4, Ranges
  <1>3. CASE x > 0 /\ y < 0
    <2>1. PICK d \in Nat : d = -y /\ d > 0
      BY <1>0, <1>3
    <2>2. Quo(MinInt, x) = -((MaxInt + 1) \div x)
      BY <1>0, <1>3, Ranges DEF Quo
    <2>3. d > (MaxInt + 1) \div x <=> d * x > MaxInt + 1
      BY <1>0, <1>3, <2>1, Ranges, QuotientBounds
    <2>4. y = -d /\ x * y = -(d * x)
      BY <1>0, <2>1
    <2>5. (MaxInt + 1) \div x \in Int
      BY <1>0, <1>3, Ranges, DivMod
    <2>6. guard <=> d * x > MaxInt + 1
      <3>1. y < Quo(MinInt, x) <=> d > (MaxInt + 1) \div x
        BY <1>0, <2>1, <2>2, <2>4, <2>5
      <3>2. y = -1 => x # MinInt
        BY <1>3, Ranges
      <3> QED BY <1>0, <1>3, <2>3, <3>1, <3>2
    <2>7. 0 * x <= d * x
      BY <1>0, <1>3, <2>1, TimesMonotone
    <2> QED BY <1>0, <2>1, <2>4, <2>6, <2>7, Ranges
  <1>4. CASE x < 0 /\ y > 0
    <2>1. PICK c \in Nat : c = -x /\ c > 0
      BY <1>0, <1>4
    <2>2. Quo(MinInt, y) = -((MaxInt + 1) \div y)
      BY <1>0, <1>4, Ranges DEF Quo
    <2>3. c > (MaxInt + 1) \div y <=> c * y > MaxInt + 1
      BY <1>0, <1>4, <2>1, Ranges, QuotientBounds
    <2>4. x = -c /\ x * y = -(c * y)
      BY <1>0, <2>1
    <2>5. (MaxInt + 1) \div y \in Int
      BY <1>0, <1>4, Ranges, DivMod
    <2>6. guard <=> c * y > MaxInt + 1
      <3>1. x < Quo(MinInt, y) <=> c > (MaxInt + 1) \div y
        BY <1>0, <2>1, <2>2, <2>4, <2>5
      <3>2. x = -1 => y # MinInt
        BY <1>4, Ranges
      <3> QED BY <1>0, <1>4, <2>3, <3>1, <3>2
    <2>7. 0 * y <= c * y
      BY <1>0, <1>4, <2>1, TimesMonotone
    <2> QED BY <1>0, <2>1, <2>4, <2>6, <2>7, Ranges
  <1>5. CASE x < 0 /\ y < 0
    <2>1. PICK c \in Nat : c = -x /\ c > 0
      BY <1>0, <1>5
    <2>2. PICK d \in Nat : d = -y /\ d > 0
      BY <1>0, <1>5
    <2>3. Quo(MaxInt, x) = -(MaxInt \div c)
      BY <1>0, <1>5, <2>1, Ranges DEF Quo
    <2>4. d > MaxInt \div c <=> d * c > MaxInt
      BY <2>1, <2>2, Ranges, QuotientBounds
    <2>5. x = -c /\ y = -d /\ x * y = d * c
      <3>1. x = -c /\ y = -d
        BY <1>0, <2>1, <2>2
      <3>2. (-c) * (-d) = -((-c) * d) /\ (-c) * d = -(c * d)
        BY TimesNegated
      <3> QED BY <3>1, <3>2
    <2>6. MaxInt \div c \in Int
      BY <2>1, Ranges, DivMod
    <2>7. guard <=> d * c > MaxInt
      <3>1. y < Quo(MaxInt, x) <=> d > MaxInt \div c
        BY <1>0, <2>2, <2>3, <2>5, <2>6
      <3>2. (x = -1 /\ y = MinInt) \/ (y = -1 /\ x = MinInt) => d * c > MaxInt
        BY <2>1, <2>2, <2>5, Ranges
      <3> QED BY <1>0, <1>5, <2>4, <3>1, <3>2
    <2>8. 0 * c <= d * c
      BY <2>1, <2>2, TimesMonotone
    <2> QED BY <1>0, <2>5, <2>7, <2>8, Ranges
  <1> QED BY <1>0, <1>1, <1>2, <1>3, <1>4, <1>5

LEMMA MultiplicationUint ==
    ASSUME NEW x \in UintRange, NEW y \in UintRange
    PROVE  Checked(MultiplyUint64Checked(x, y), x * y, UintRange)
  <1> DEFINE guard == y # 0 /\ x > Quo(MaxUint, y)
  <1> SUFFICES guard <=> x * y \notin UintRange
    BY Unwrapped, Refused DEF MultiplyUint64Checked
  <1>0. x \in Nat /\ y \in Nat /\ x * y \in Int
    BY Ranges
  <1>1. CASE y = 0
    BY <1>0, <1>1, Ranges
  <1>2. CASE y > 0
    <2>1. Quo(MaxUint, y) = MaxUint \div y
      BY <1>2, Ranges DEF Quo
    <2>2. x > MaxUint \div y <=> x * y > MaxUint
      BY <1>0, <1>2, Ranges, QuotientBounds
    <2>3. 0 * y <= x * y
      BY <1>0, TimesMonotone
    <2> QED BY <1>0, <1>2, <2>1, <2>2, <2>3, Ranges
  <1> QED BY <1>0, <1>1, <1>2

\* The only quotient out of range is that of the least integer by minus one.
LEMMA QuoInRange ==
    ASSUME NEW x \in IntRange, NEW y \in IntRange, y # 0
    PROVE  IF x = MinInt /\ y = -1 THEN Quo(x, y) = MaxInt + 1 ELSE Quo(x, y) \in IntRange
  <1>0. x \in Int /\ y \in Int
    BY Ranges
  <1>1. CASE y > 0 /\ x >= 0
    <2>1. x \div y \in Nat /\ x \div y <= x
      BY <1>0, <1>1, NatQuotient
    <2>2. Quo(x, y) = x \div y
      BY <1>1 DEF Quo
    <2> QED BY <1>0, <1>1, <2>1, <2>2, Ranges
  <1>2. CASE y > 0 /\ x < 0
    <2>1. (-x) \div y \in Nat /\ (-x) \div y <= -x
      BY <1>0, <1>2, NatQuotient
    <2>2. Quo(x, y) = -((-x) \div y)
      BY <1>0, <1>2 DEF Quo
    <2> QED BY <1>0, <1>2, <2>1, <2>2, Ranges
  <1>3. CASE y < 0 /\ x >= 0
    <2>0. PICK d \in Nat : d = -y /\ d > 0
      BY <1>0, <1>3
    <2>1. x \div d \in Nat /\ x \div d <= x
      BY <1>0, <1>3, <2>0, NatQuotient
    <2>2. Quo(x, y) = -(x \div d)
      BY <1>0, <1>3, <2>0, -y = d DEF Quo
    <2> QED BY <1>0, <1>3, <2>1, <2>2, Ranges
  <1>4. CASE y < 0 /\ x < 0
    <2>0. PICK d \in Nat : d = -y /\ d > 0
      BY <1>0, <1>4
    <2>1. PICK c \in Nat : c = -x /\ c > 0
      BY <1>0, <1>4
    <2>2. Quo(x, y) = c \div d
      BY <1>0, <1>4, <2>0, <2>1, -y = d, -x = c DEF Quo
    <2>3. CASE d > 1
      <3>1. c \div d \in Nat /\ c \div d < c
        BY <2>0, <2>1, <2>3, NatQuotient
      <3>2. y # -1
        BY <1>0, <2>0, <2>3
      <3> QED BY <1>0, <2>1, <2>2, <3>1, <3>2, Ranges
    <2>4. CASE d = 1
      <3>1. c \div d = c
        <4>1. c \div 1 \in Int /\ c % 1 \in Nat /\ c % 1 < 1 /\ c = 1 * (c \div 1) + (c % 1)
          BY <2>1, DivMod
        <4> QED BY <2>1, <2>4, <4>1
      <3>2. y = -1
        BY <1>0, <2>0, <2>4
      <3> QED BY <1>0, <2>1, <2>2, <3>1, <3>2, Ranges
    <2> QED BY <2>0, <2>3, <2>4
  <1> QED BY <1>0, <1>1, <1>2, <1>3, <1>4

\* What Exact asks of a result.
Meets(r, e, S) ==
    /\ r \in [ok : BOOLEAN, n : Int]
    /\ e \in [def : BOOLEAN, n : Int]
    /\ r.ok => e.def /\ e.n = r.n /\ r.n \in S
    /\ ~r.ok => (e.def => e.n \notin S)

LEMMA CheckedMeets ==
    ASSUME NEW r, NEW e \in Int, NEW S, Checked(r, e, S)
    PROVE  Meets(r, Exactly(e), S)
  BY DEF Checked, Meets, Exactly

LEMMA Division ==
    ASSUME NEW x \in IntRange, NEW y \in IntRange
    PROVE  /\ Meets(DivideInt64Checked(x, y), Quotient(x, y), IntRange)
           /\ Meets(ModuloInt64Checked(x, y), Remainder(x, y), IntRange)
  <1>1. CASE y = 0
    BY <1>1 DEF Meets, DivideInt64Checked, ModuloInt64Checked, Quotient, Remainder, Fail, Undefined
  <1>2. CASE y # 0 /\ x = MinInt /\ y = -1
    <2>1. Quo(x, y) = MaxInt + 1
      BY <1>2, QuoInRange
    <2>2. MaxInt + 1 \in Int /\ MaxInt + 1 \notin IntRange
      BY Ranges
    <2> QED
      BY <1>2, <2>1, <2>2
      DEF Meets, DivideInt64Checked, ModuloInt64Checked, Quotient, Remainder, Fail, Undefined, Exactly
  <1>3. CASE y # 0 /\ ~(x = MinInt /\ y = -1)
    <2>1. Quo(x, y) \in IntRange
      BY <1>3, QuoInRange
    <2>2. Rem(x, y) \in IntRange
      <3>1. /\ Rem(x, y) \in Int
            /\ y > 0 => -y < Rem(x, y) /\ Rem(x, y) < y
            /\ y < 0 => y < Rem(x, y) /\ Rem(x, y) < -y
        BY <1>3, Ranges, QuoRem
      <3> QED BY <1>3, <3>1, Ranges
    <2>3. Quo(x, y) \in Int /\ Rem(x, y) \in Int /\ Quo(x, y) # MaxInt + 1
      BY <2>1, <2>2, Ranges
    <2>4. /\ DivideInt64Checked(x, y) = Int64(Quo(x, y)) /\ Quotient(x, y) = Exactly(Quo(x, y))
          /\ ModuloInt64Checked(x, y) = Int64(Rem(x, y)) /\ Remainder(x, y) = Exactly(Rem(x, y))
      BY <1>3, <2>3 DEF DivideInt64Checked, ModuloInt64Checked, Quotient, Remainder
    <2> QED BY <2>1, <2>2, <2>3, <2>4, Unwrapped, CheckedMeets
  <1> QED BY <1>1, <1>2, <1>3

LEMMA DivisionUint ==
    ASSUME NEW x \in UintRange, NEW y \in UintRange
    PROVE  /\ Meets(DivideUint64Checked(x, y),
                    IF y = 0 THEN Undefined ELSE Exactly(x \div y), UintRange)
           /\ Meets(ModuloUint64Checked(x, y),
                    IF y = 0 THEN Undefined ELSE Exactly(x % y), UintRange)
  <1>1. CASE y = 0
    BY <1>1 DEF Meets, DivideUint64Checked, ModuloUint64Checked, Fail, Undefined
  <1>2. CASE y # 0
    <2>1. x \in Nat /\ y \in Nat /\ y > 0
      BY <1>2, Ranges
    <2>2. x \div y \in Nat /\ x \div y <= x
      BY <2>1, NatQuotient
    <2>3. x % y \in Nat /\ x % y < y /\ x = y * (x \div y) + (x % y)
      BY <2>1, DivMod
    <2>4. Quo(x, y) = x \div y /\ Rem(x, y) = x % y
      <3>1. Quo(x, y) = x \div y
        BY <2>1 DEF Quo
      <3>2. Rem(x, y) = x - y * (x \div y)
        BY <3>1 DEF Rem
      <3>3. y * (x \div y) \in Int
        BY <2>1, <2>2
      <3> QED BY <2>1, <2>3, <3>1, <3>2, <3>3
    <2>5. x \div y \in UintRange /\ x % y \in UintRange
      BY <2>1, <2>2, <2>3, Ranges
    <2>6. Checked(Uint64(x \div y), x \div y, UintRange) /\ Checked(Uint64(x % y), x % y, UintRange)
      BY <2>5, Unwrapped
    <2>7. x \div y \in Int /\ x % y \in Int
      BY <2>2, <2>3
    <2>8. /\ Meets(Uint64(x \div y), Exactly(x \div y), UintRange)
          /\ Meets(Uint64(x % y), Exactly(x % y), UintRange)
      BY <2>6, <2>7, CheckedMeets
    <2> QED BY <1>2, <2>4, <2>8 DEF DivideUint64Checked, ModuloUint64Checked
  <1> QED BY <1>1, <1>2

-----------------------------------------------------------------------------
(* Durations and timestamps.                                               *)

LEMMA Clock ==
    /\ Second \in Nat /\ Second > 1
    /\ MinUnixTime \in Int /\ MaxUnixTime \in Int
    /\ -MaxInt <= MinUnixTime /\ MinUnixTime <= 0 /\ 0 <= MaxUnixTime /\ MaxUnixTime < MaxInt
    /\ MinUnixTime * Second \in Int /\ MaxUnixTime * Second \in Int
    /\ \A n : n \in TimeRange <=> /\ n \in Int /\ MinUnixTime * Second <= n
                                  /\ n <= MaxUnixTime * Second + Second - 1
  BY SecondAssumption, UnixAssumption DEF TimeRange

LEMMA TimeOfExact ==
    ASSUME NEW sec \in Int, NEW nsec \in Int, 0 <= nsec, nsec < Second
    PROVE  Checked(TimeOf(sec, nsec), sec * Second + nsec, TimeRange)
  <1>0. sec * Second \in Int
    BY Clock
  <1>1. CASE sec < MinUnixTime
    <2>1. (sec + 1) * Second <= MinUnixTime * Second
      BY <1>1, Clock, TimesMonotone
    <2>2. (sec + 1) * Second = sec * Second + Second
      BY Clock
    <2>3. sec * Second + nsec \notin TimeRange
      BY <1>0, <2>1, <2>2, Clock
    <2> QED BY <1>1, <2>3, Refused DEF TimeOf
  <1>2. CASE sec > MaxUnixTime
    <2>1. (MaxUnixTime + 1) * Second <= sec * Second
      BY <1>2, Clock, TimesMonotone
    <2>2. (MaxUnixTime + 1) * Second = MaxUnixTime * Second + Second
      BY Clock
    <2>3. sec * Second + nsec \notin TimeRange
      BY <1>0, <2>1, <2>2, Clock
    <2> QED BY <1>2, <2>3, Refused DEF TimeOf
  <1>3. CASE ~(sec < MinUnixTime \/ sec > MaxUnixTime)
    <2>1. MinUnixTime * Second <= sec * Second /\ sec * Second <= MaxUnixTime * Second
      BY <1>3, Clock, TimesMonotone
    <2>2. sec * Second + nsec \in TimeRange /\ sec * Second + nsec \in Int
      BY <1>0, <2>1, Clock
    <2> QED BY <1>3, <2>2 DEF TimeOf, Checked
  <1> QED BY <1>1, <1>2, <1>3, Clock

\* Seconds that an int cannot hold are those of no timestamp, whatever their carry.
LEMMA FarAway ==
    ASSUME NEW sec \in Int, sec \notin IntRange, NEW nsec \in Int, -Second < nsec, nsec < 2 * Second
    PROVE  sec * Second + nsec \notin TimeRange
  <1>0. sec * Second \in Int
    BY Clock
  <1>1. CASE sec > MaxInt
    <2>1. (MaxUnixTime + 2) * Second <= sec * Second
      BY <1>1, Clock, Ranges, TimesMonotone
    <2>2. (MaxUnixTime + 2) * Second = MaxUnixTime * Second + 2 * Second
      BY Clock
    <2> QED BY <1>0, <2>1, <2>2, Clock
  <1>2. CASE sec < MinInt
    <2>1. sec * Second <= (MinUnixTime - 2) * Second
      BY <1>2, Clock, Ranges, TimesMonotone
    <2>2. (MinUnixTime - 2) * Second = MinUnixTime * Second - 2 * Second
      BY Clock
    <2> QED BY <1>0, <2>1, <2>2, Clock
  <1> QED BY <1>1, <1>2, Ranges

LEMMA Carry ==
    ASSUME NEW n \in Int, -Second < n, n < 2 * Second
    PROVE  /\ n < 0 => Quo(n, Second) = 0 /\ Rem(n, Second) = n
           /\ n >= Second => Quo(n, Second) = 1 /\ Rem(n, Second) = n - Second
  <1> DEFINE q == Quo(n, Second)
             r == Rem(n, Second)
  <1>1. /\ q \in Int /\ r \in Int /\ n = Second * q + r
        /\ -Second < r /\ r < Second /\ (n >= 0 => r >= 0) /\ (n <= 0 => r <= 0)
    BY Clock, QuoRem
  <1> HIDE DEF q, r
  <1>2. q * Second = Second * q
    BY <1>1, Clock
  <1>3. q >= 1 => Second <= q * Second
    <2>1. q >= 1 => 1 * Second <= q * Second
      BY <1>1, Clock, TimesMonotone
    <2> QED BY <2>1, Clock
  <1>4. q >= 2 => 2 * Second <= q * Second
    BY <1>1, Clock, TimesMonotone
  <1>5. q <= -1 => q * Second <= -Second
    <2>1. q <= -1 => q * Second <= (-1) * Second
      BY <1>1, Clock, TimesMonotone
    <2> QED BY <2>1, Clock
  <1>6. q = 0 => Second * q = 0
    BY Clock
  <1>7. q = 1 => Second * q = Second
    BY Clock
  <1>8. ASSUME n < 0 PROVE q = 0 /\ r = n
    <2>1. q = 0
      BY <1>1, <1>2, <1>3, <1>5, <1>8, Clock
    <2> QED BY <1>1, <1>6, <2>1
  <1>9. ASSUME n >= Second PROVE q = 1 /\ r = n - Second
    <2>1. q = 1
      BY <1>1, <1>2, <1>4, <1>5, <1>6, <1>9, Clock
    <2> QED BY <1>1, <1>7, <2>1, Clock
  <1> QED BY <1>8, <1>9 DEF q, r

LEMMA BorrowedExact ==
    ASSUME NEW sec \in IntRange, NEW nsec \in Int, -Second < nsec, nsec < Second
    PROVE  Checked(Borrowed(sec, nsec), sec * Second + nsec, TimeRange)
  <1>0. sec \in Int /\ sec * Second \in Int
    BY Ranges, Clock
  <1>1. CASE nsec >= 0
    BY <1>0, <1>1, TimeOfExact DEF Borrowed
  <1>2. CASE nsec < 0
    <2>1. -1 \in IntRange /\ sec + (-1) = sec - 1
      BY <1>0, Ranges
    <2>2. Checked(AddInt64Checked(sec, -1), sec - 1, IntRange)
      BY <2>1, AddSubtract
    <2>3. (sec - 1) * Second + (nsec + Second) = sec * Second + nsec
      BY <1>0, Clock
    <2>4. CASE AddInt64Checked(sec, -1).ok
      <3>1. AddInt64Checked(sec, -1).n = sec - 1
        BY <2>2, <2>4 DEF Checked
      <3>2. Borrowed(sec, nsec) = TimeOf(sec - 1, nsec + Second)
        BY <1>2, <2>4, <3>1 DEF Borrowed
      <3>3. sec - 1 \in Int /\ nsec + Second \in Int /\ 0 <= nsec + Second /\ nsec + Second < Second
        BY <1>0, <1>2, Clock
      <3>4. Checked(TimeOf(sec - 1, nsec + Second), (sec - 1) * Second + (nsec + Second), TimeRange)
        BY <3>3, TimeOfExact
      <3> QED BY <2>3, <3>2, <3>4
    <2>5. CASE ~AddInt64Checked(sec, -1).ok
      <3>1. sec - 1 \notin IntRange
        BY <2>2, <2>5 DEF Checked
      <3>2. sec - 1 \in Int /\ nsec + Second \in Int /\ -Second < nsec + Second /\ nsec + Second < 2 * Second
        BY <1>0, <1>2, Clock
      <3>3. (sec - 1) * Second + (nsec + Second) \notin TimeRange
        BY <3>1, <3>2, FarAway
      <3>4. Borrowed(sec, nsec) = Fail
        BY <1>2, <2>5 DEF Borrowed
      <3> QED BY <2>3, <3>3, <3>4, Refused
    <2> QED BY <2>4, <2>5
  <1> QED BY <1>1, <1>2

LEMMA NormalisedExact ==
    ASSUME NEW sec \in IntRange, NEW nsec \in Int, -Second < nsec, nsec < 2 * Second
    PROVE  Checked(Normalised(sec, nsec), sec * Second + nsec, TimeRange)
  <1>0. sec \in Int /\ sec * Second \in Int
    BY Ranges, Clock
  <1>1. CASE 0 <= nsec /\ nsec < Second
    BY <1>0, <1>1, Clock, TimeOfExact DEF Normalised
  <1>2. CASE nsec < 0
    <2>1. Quo(nsec, Second) = 0 /\ Rem(nsec, Second) = nsec
      BY <1>2, Carry
    <2>2. 0 \in IntRange /\ sec + 0 = sec
      BY <1>0, Ranges
    <2>3. Checked(Carried(sec, nsec), sec, IntRange)
      BY <2>1, <2>2, AddSubtract DEF Carried
    <2>4. Carried(sec, nsec).ok /\ Carried(sec, nsec).n = sec
      BY <2>3 DEF Checked
    <2>5. Normalised(sec, nsec) = Borrowed(sec, nsec)
      BY <1>2, <2>1, <2>4 DEF Normalised
    <2> QED BY <1>2, <2>5, Clock, BorrowedExact
  <1>3. CASE nsec >= Second
    <2>1. Quo(nsec, Second) = 1 /\ Rem(nsec, Second) = nsec - Second
      BY <1>3, Carry
    <2>2. 1 \in IntRange
      BY Ranges
    <2>3. Checked(Carried(sec, nsec), sec + 1, IntRange)
      BY <2>1, <2>2, AddSubtract DEF Carried
    <2>4. (sec + 1) * Second + (nsec - Second) = sec * Second + nsec
      BY <1>0, Clock
    <2>5. CASE Carried(sec, nsec).ok
      <3>1. Carried(sec, nsec).n = sec + 1 /\ sec + 1 \in IntRange
        BY <2>3, <2>5 DEF Checked
      <3>2. Normalised(sec, nsec) = Borrowed(sec + 1, nsec - Second)
        BY <1>3, <2>1, <2>5, <3>1 DEF Normalised
      <3>3. nsec - Second \in Int /\ -Second < nsec - Second /\ nsec - Second < Second
        BY <1>3, Clock
      <3>4. Checked(Borrowed(sec + 1, nsec - Second), (sec + 1) * Second + (nsec - Second), TimeRange)
        BY <3>1, <3>3, BorrowedExact
      <3> QED BY <2>4, <3>2, <3>4
    <2>6. CASE ~Carried(sec, nsec).ok
      <3>1. sec + 1 \notin IntRange
        BY <2>3, <2>6 DEF Checked
      <3>2. sec + 1 \in Int /\ nsec - Second \in Int /\ -Second < nsec - Second /\ nsec - Second < 2 * Second
        BY <1>0, <1>3, Clock
      <3>3. (sec + 1) * Second + (nsec - Second) \notin TimeRange
        BY <3>1, <3>2, FarAway
      <3>4. Normalised(sec, nsec) = Fail
        BY <1>3, <2>6 DEF Normalised
      <3> QED BY <2>4, <3>3, <3>4, Refused
    <2> QED BY <2>5, <2>6
  <1> QED BY <1>1, <1>2, <1>3, Clock

LEMMA Split ==
    ASSUME NEW t \in TimeRange
    PROVE  /\ t \in Int
           /\ Seconds(t) \in IntRange /\ Seconds(t) \in Int /\ Nanoseconds(t) \in Int
           /\ MinUnixTime <= Seconds(t) /\ Seconds(t) <= MaxUnixTime
           /\ 0 <= Nanoseconds(t) /\ Nanoseconds(t) < Second
           /\ t = Seconds(t) * Second + Nanoseconds(t)
  <1> DEFINE s == Seconds(t)
             f == Nanoseconds(t)
  <1>1. t \in Int /\ s \in Int /\ f \in Nat /\ f < Second /\ t = Second * s + f
    <2>1. t \in Int /\ Second \in Nat /\ Second > 0
      BY Clock
    <2> QED BY <2>1, DivMod DEF Seconds, Nanoseconds
  <1> HIDE DEF s, f
  <1>2. Second * s = s * Second
    BY <1>1, Clock
  <1>3. ASSUME s < MinUnixTime PROVE FALSE
    <2>1. (s + 1) * Second <= MinUnixTime * Second
      BY <1>1, <1>3, Clock, TimesMonotone
    <2>2. (s + 1) * Second = s * Second + Second
      BY <1>1, Clock
    <2>3. s * Second \in Int
      BY <1>1, Clock
    <2> QED BY <1>1, <1>2, <2>1, <2>2, <2>3, Clock
  <1>4. ASSUME s > MaxUnixTime PROVE FALSE
    <2>1. (MaxUnixTime + 1) * Second <= s * Second
      BY <1>1, <1>4, Clock, TimesMonotone
    <2>2. (MaxUnixTime + 1) * Second = MaxUnixTime * Second + Second
      BY Clock
    <2>3. s * Second \in Int
      BY <1>1, Clock
    <2> QED BY <1>1, <1>2, <2>1, <2>2, <2>3, Clock
  <1>5. s \in IntRange
    BY <1>1, <1>3, <1>4, Clock, Ranges
  <1> QED BY <1>1, <1>2, <1>3, <1>4, <1>5, Clock DEF s, f

LEMMA AddTimeDuration ==
    ASSUME NEW t \in TimeRange, NEW y \in IntRange
    PROVE  Checked(AddTimeDurationChecked(t, y), t + y, TimeRange)
  <1> DEFINE s == Seconds(t)
             f == Nanoseconds(t)
             q == Quo(y, Second)
             r == Rem(y, Second)
             sum == AddInt64Checked(s, q)
  <1>1. /\ t \in Int /\ s \in IntRange /\ s \in Int /\ f \in Int /\ 0 <= f /\ f < Second
        /\ t = s * Second + f
    BY Split
  <1>2. y \in Int /\ Second \in IntRange /\ Second # 0 /\ Second # -1 /\ Second > 0 /\ Second \in Int
    BY Ranges, SecondAssumption
  <1>3. q \in Int /\ r \in Int /\ y = Second * q + r /\ -Second < r /\ r < Second
    BY <1>2, QuoRem
  <1>4. q \in IntRange
    BY <1>2, QuoInRange
  <1>5. Checked(sum, s + q, IntRange)
    BY <1>1, <1>4, AddSubtract
  <1>6. AddTimeDurationChecked(t, y) = IF sum.ok THEN Normalised(sum.n, f + r) ELSE Fail
    BY DEF AddTimeDurationChecked
  <1> HIDE DEF s, f, q, r, sum
  <1>7. f + r \in Int /\ -Second < f + r /\ f + r < 2 * Second
    BY <1>1, <1>2, <1>3
  <1>8. (s + q) * Second + (f + r) = t + y /\ s + q \in Int
    <2>1. (s + q) * Second = s * Second + Second * q
      BY <1>1, <1>2, <1>3
    <2>2. s * Second \in Int /\ Second * q \in Int
      BY <1>1, <1>2, <1>3
    <2> QED BY <1>1, <1>3, <2>1, <2>2
  <1>9. CASE sum.ok
    <2>1. sum.n = s + q /\ s + q \in IntRange
      BY <1>5, <1>9 DEF Checked
    <2>2. Checked(Normalised(s + q, f + r), (s + q) * Second + (f + r), TimeRange)
      BY <1>7, <2>1, NormalisedExact
    <2> QED BY <1>6, <1>8, <1>9, <2>1, <2>2
  <1>10. CASE ~sum.ok
    <2>1. s + q \notin IntRange
      BY <1>5, <1>10 DEF Checked
    <2>2. t + y \notin TimeRange
      BY <1>7, <1>8, <2>1, FarAway
    <2> QED BY <1>6, <1>10, <2>2, Refused
  <1> QED BY <1>9, <1>10

LEMMA SubtractTimeDuration ==
    ASSUME NEW t \in TimeRange, NEW y \in IntRange
    PROVE  Meets(SubtractTimeDurationChecked(t, y),
                 IF y = MinInt THEN Undefined ELSE Exactly(t - y), TimeRange)
  <1>1. Checked(NegateInt64Checked(y), -y, IntRange)
    BY AddSubtract
  <1>2. t \in Int /\ y \in Int
    BY Split, Ranges
  <1>3. CASE y = MinInt
    <2>1. ~NegateInt64Checked(y).ok
      BY <1>3 DEF NegateInt64Checked, Fail
    <2>2. SubtractTimeDurationChecked(t, y) = Fail
      BY <2>1 DEF SubtractTimeDurationChecked
    <2> QED BY <1>3, <2>2 DEF Meets, Fail, Undefined
  <1>4. CASE y # MinInt
    <2>1. -y \in IntRange
      BY <1>2, <1>4, Ranges
    <2>2. NegateInt64Checked(y).ok /\ NegateInt64Checked(y).n = -y
      BY <1>1, <2>1 DEF Checked
    <2>3. SubtractTimeDurationChecked(t, y) = AddTimeDurationChecked(t, -y)
      BY <2>2 DEF SubtractTimeDurationChecked
    <2>4. Checked(AddTimeDurationChecked(t, -y), t + (-y), TimeRange) /\ t + (-y) = t - y /\ t - y \in Int
      BY <1>2, <2>1, AddTimeDuration
    <2>5. Checked(SubtractTimeDurationChecked(t, y), t - y, TimeRange)
      BY <2>3, <2>4
    <2> QED BY <1>4, <2>4, <2>5, CheckedMeets
  <1> QED BY <1>3, <1>4

LEMMA SubtractTime ==
    ASSUME NEW t \in TimeRange, NEW u \in TimeRange
    PROVE  Meets(SubtractTimeChecked(t, u), Between(t, u), IntRange)
  <1> DEFINE s == Seconds(t) - Seconds(u)
             f == Nanoseconds(t) - Nanoseconds(u)
             sec == SubtractInt64Checked(Seconds(t), Seconds(u))
             tsec == MultiplyInt64Checked(s, Second)
  <1>1. /\ t \in Int /\ Seconds(t) \in Int /\ Seconds(t) \in IntRange /\ Nanoseconds(t) \in Int
        /\ 0 <= Nanoseconds(t) /\ Nanoseconds(t) < Second /\ t = Seconds(t) * Second + Nanoseconds(t)
    BY Split
  <1>2. /\ u \in Int /\ Seconds(u) \in Int /\ Seconds(u) \in IntRange /\ Nanoseconds(u) \in Int
        /\ 0 <= Nanoseconds(u) /\ Nanoseconds(u) < Second /\ u = Seconds(u) * Second + Nanoseconds(u)
    BY Split
  <1>3. Second \in IntRange /\ Second \in Nat /\ Second > 1
    BY Ranges, SecondAssumption
  <1>4. s \in Int /\ f \in Int /\ -Second < f /\ f < Second /\ s * Second \in Int
    BY <1>1, <1>2, <1>3
  <1>5. s * Second + f = t - u
    <2>1. s * Second = Seconds(t) * Second - Seconds(u) * Second
      BY <1>1, <1>2, <1>3, TimesDistributes
    <2>2. Seconds(t) * Second \in Int /\ Seconds(u) * Second \in Int
      BY <1>1, <1>2, <1>3
    <2>3. t - u = (Seconds(t) * Second - Seconds(u) * Second) + f
      <3> DEFINE a == Seconds(t) * Second
                 b == Seconds(u) * Second
      <3>1. a \in Int /\ b \in Int /\ t = a + Nanoseconds(t) /\ u = b + Nanoseconds(u)
        BY <1>1, <1>2, <2>2
      <3> HIDE DEF a, b
      <3>2. t - u = (a - b) + f
        BY <1>1, <1>2, <3>1
      <3> QED BY <3>2 DEF a, b
    <2> HIDE DEF s, f
    <2> QED BY <2>1, <2>3
  <1>6. Checked(sec, s, IntRange)
    BY <1>1, <1>2, AddSubtract
  <1>7. SubtractTimeChecked(t, u) = IF sec.ok THEN Scaled(sec.n, f) ELSE Fail
    BY DEF SubtractTimeChecked
  <1>8. Between(t, u) = IF s * Second \in IntRange THEN Exactly(t - u) ELSE Undefined
    BY DEF Between
  <1>9. Meets(Fail, Undefined, IntRange)
    BY DEF Meets, Fail, Undefined
  <1>10. f \in IntRange
    BY <1>3, <1>4, Ranges
  <1>11. CASE s \notin IntRange
    <2>1. s * Second \notin IntRange
      <3>1. CASE s > MaxInt
        <4>1. (MaxInt + 1) * Second <= s * Second
          BY <1>3, <1>4, <3>1, Ranges, TimesMonotone
        <4>2. 1 * (MaxInt + 1) <= Second * (MaxInt + 1)
          BY <1>3, Ranges, TimesMonotone
        <4>3. Second * (MaxInt + 1) = (MaxInt + 1) * Second
          BY <1>3, Ranges
        <4>4. Second * (MaxInt + 1) \in Int
          BY <1>3, Ranges
        <4>5. MaxInt + 1 <= s * Second
          BY <1>4, <4>1, <4>2, <4>3, <4>4, Ranges
        <4> QED BY <1>4, <4>5, Ranges
      <3>2. CASE s < MinInt
        <4>1. s * Second <= (-1 - MaxInt) * Second
          BY <1>3, <1>4, <3>2, Ranges, TimesMonotone
        <4>2. 2 * (MaxInt + 1) <= Second * (MaxInt + 1)
          BY <1>3, Ranges, TimesMonotone
        <4>3. (-1 - MaxInt) * Second = -(Second * (MaxInt + 1))
          BY <1>3, Ranges
        <4>4. Second * (MaxInt + 1) \in Int
          BY <1>3, Ranges
        <4>5. s * Second <= -(2 * (MaxInt + 1))
          BY <1>4, <4>1, <4>2, <4>3, <4>4, Ranges
        <4> QED BY <1>4, <4>5, Ranges
      <3>3. s > MaxInt \/ s < MinInt
        BY <1>4, <1>11, Ranges
      <3> QED BY <3>1, <3>2, <3>3
    <2>2. ~sec.ok
      BY <1>6, <1>11 DEF Checked
    <2> HIDE DEF s, f, sec
    <2> QED BY <1>7, <1>8, <1>9, <2>1, <2>2
  <1>12. CASE s \in IntRange
    <2>1. sec.ok /\ sec.n = s
      BY <1>6, <1>12 DEF Checked
    <2>2. Checked(tsec, s * Second, IntRange)
      BY <1>3, <1>12, Multiplication
    <2>3. SubtractTimeChecked(t, u) = IF tsec.ok THEN AddInt64Checked(tsec.n, f) ELSE Fail
      BY <1>7, <2>1 DEF Scaled
    <2>4. CASE s * Second \in IntRange
      <3>1. tsec.ok /\ tsec.n = s * Second
        BY <2>2, <2>4 DEF Checked
      <3>2. Checked(AddInt64Checked(s * Second, f), s * Second + f, IntRange)
        BY <1>10, <2>4, AddSubtract
      <3>3. Checked(SubtractTimeChecked(t, u), t - u, IntRange) /\ t - u \in Int
        BY <1>1, <1>2, <1>5, <2>3, <3>1, <3>2
      <3> QED BY <1>8, <2>4, <3>3, CheckedMeets
    <2>5. CASE s * Second \notin IntRange
      <3>1. ~tsec.ok
        BY <2>2, <2>5 DEF Checked
      <3> QED BY <1>8, <1>9, <2>3, <2>5, <3>1
    <2> QED BY <2>4, <2>5
  <1> QED BY <1>11, <1>12

-----------------------------------------------------------------------------
(* The calculator.                                                         *)

CalcInv ==
    /\ acc \in [kind : Kinds, ok : BOOLEAN, n : Int]
    /\ exact \in [def : BOOLEAN, n : Int]
    /\ Exact

LEMMA Ranged ==
    /\ ValuesOf("int") = IntRange /\ ValuesOf("duration") = IntRange
    /\ ValuesOf("uint") = UintRange /\ ValuesOf("timestamp") = TimeRange
    /\ \A kind \in Kinds : ValuesOf(kind) \subseteq Int
    /\ Kinds = {"int", "uint", "duration", "timestamp"}
  <1>1. IntRange \subseteq Int /\ UintRange \subseteq Int /\ TimeRange \subseteq Int
    BY Ranges, Clock
  <1> QED BY <1>1 DEF ValuesOf, Kinds

LEMMA Given ==
    ASSUME NEW kind \in Kinds, NEW r, NEW e, Meets(r, e, ValuesOf(kind)), Give(kind, r, e)
    PROVE  CalcInv'
  BY Ranged DEF Meets, Give, CalcInv, Exact, ValuesOf, IntRange, UintRange, TimeRange, MinInt, MaxUint

LEMMA Held ==
    ASSUME CalcInv, NEW kind \in Kinds, Is(kind)
    PROVE  acc.n \in ValuesOf(kind) /\ acc.n \in Int
  BY Ranged DEF CalcInv, Exact, Is

LEMMA AddKeeps == CalcInv /\ Add => CalcInv'
  <1> SUFFICES ASSUME CalcInv, Add PROVE CalcInv'
    OBVIOUS
  <1>1. ASSUME NEW y \in IntRange, NEW kind \in {"int", "duration"}, Is(kind),
               Give(kind, AddInt64Checked(acc.n, y), Exactly(acc.n + y))
        PROVE  CalcInv'
    <2>1. acc.n \in IntRange /\ acc.n + y \in Int /\ kind \in Kinds /\ ValuesOf(kind) = IntRange
      BY <1>1, Held, Ranged, Ranges
    <2>2. Meets(AddInt64Checked(acc.n, y), Exactly(acc.n + y), IntRange)
      BY <2>1, AddSubtract, CheckedMeets
    <2> QED BY <1>1, <2>1, <2>2, Given
  <1>2. ASSUME NEW y \in UintRange, Is("uint"),
               Give("uint", AddUint64Checked(acc.n, y), Exactly(acc.n + y))
        PROVE  CalcInv'
    <2>1. acc.n \in UintRange /\ acc.n + y \in Int
      BY <1>2, Held, Ranged, Ranges
    <2>2. Meets(AddUint64Checked(acc.n, y), Exactly(acc.n + y), UintRange)
      BY <2>1, AddSubtractUint, CheckedMeets
    <2> QED BY <1>2, <2>2, Given, Ranged
  <1>3. ASSUME NEW t \in TimeRange, Is("duration"),
               Give("timestamp", AddTimeDurationChecked(t, acc.n), Exactly(t + acc.n))
        PROVE  CalcInv'
    <2>1. acc.n \in IntRange /\ t + acc.n \in Int
      BY <1>3, Held, Ranged, Ranges, Clock
    <2>2. Meets(AddTimeDurationChecked(t, acc.n), Exactly(t + acc.n), TimeRange)
      BY <2>1, AddTimeDuration, CheckedMeets
    <2> QED BY <1>3, <2>2, Given, Ranged
  <1>4. ASSUME NEW y \in IntRange, Is("timestamp"),
               Give("timestamp", AddTimeDurationChecked(acc.n, y), Exactly(acc.n + y))
        PROVE  CalcInv'
    <2>1. acc.n \in TimeRange /\ acc.n + y \in Int
      BY <1>4, Held, Ranged, Ranges, Clock
    <2>2. Meets(AddTimeDurationChecked(acc.n, y), Exactly(acc.n + y), TimeRange)
      BY <2>1, AddTimeDuration, CheckedMeets
    <2> QED BY <1>4, <2>2, Given, Ranged
  <1> QED BY <1>1, <1>2, <1>3, <1>4 DEF Add

LEMMA SubtractKeeps == CalcInv /\ Subtract => CalcInv'
  <1> SUFFICES ASSUME CalcInv, Subtract PROVE CalcInv'
    OBVIOUS
  <1>1. ASSUME NEW y \in IntRange, NEW kind \in {"int", "duration"}, Is(kind),
               Give(kind, SubtractInt64Checked(acc.n, y), Exactly(acc.n - y))
        PROVE  CalcInv'
    <2>1. acc.n \in IntRange /\ acc.n - y \in Int /\ kind \in Kinds /\ ValuesOf(kind) = IntRange
      BY <1>1, Held, Ranged, Ranges
    <2>2. Meets(SubtractInt64Checked(acc.n, y), Exactly(acc.n - y), IntRange)
      BY <2>1, AddSubtract, CheckedMeets
    <2> QED BY <1>1, <2>1, <2>2, Given
  <1>2. ASSUME NEW y \in UintRange, Is("uint"),
               Give("uint", SubtractUint64Checked(acc.n, y), Exactly(acc.n - y))
        PROVE  CalcInv'
    <2>1. acc.n \in UintRange /\ acc.n - y \in Int
      BY <1>2, Held, Ranged, Ranges
    <2>2. Meets(SubtractUint64Checked(acc.n, y), Exactly(acc.n - y), UintRange)
      BY <2>1, AddSubtractUint, CheckedMeets
    <2> QED BY <1>2, <2>2, Given, Ranged
  <1>3. ASSUME NEW y \in IntRange, Is("timestamp"),
               Give("timestamp", SubtractTimeDurationChecked(acc.n, y),
                    IF y = MinInt THEN Undefined ELSE Exactly(acc.n - y))
        PROVE  CalcInv'
    <2>1. acc.n \in TimeRange
      BY <1>3, Held, Ranged
    <2>2. Meets(SubtractTimeDurationChecked(acc.n, y),
                IF y = MinInt THEN Undefined ELSE Exactly(acc.n - y), TimeRange)
      BY <2>1, SubtractTimeDuration
    <2> QED BY <1>3, <2>2, Given, Ranged
  <1>4. ASSUME NEW t \in TimeRange, Is("timestamp"),
               Give("duration", SubtractTimeChecked(acc.n, t), Between(acc.n, t))
        PROVE  CalcInv'
    <2>1. acc.n \in TimeRange
      BY <1>4, Held, Ranged
    <2>2. Meets(SubtractTimeChecked(acc.n, t), Between(acc.n, t), IntRange)
      BY <2>1, SubtractTime
    <2> QED BY <1>4, <2>2, Given, Ranged
  <1> QED BY <1>1, <1>2, <1>3, <1>4 DEF Subtract

LEMMA NegateKeeps == CalcInv /\ Negate => CalcInv'
  <1> SUFFICES ASSUME CalcInv, NEW kind \in {"int", "duration"}, Is(kind),
                      Give(kind, NegateInt64Checked(acc.n), Exactly(-acc.n))
               PROVE  CalcInv'
    BY DEF Negate
  <1>1. acc.n \in IntRange /\ -acc.n \in Int /\ kind \in Kinds /\ ValuesOf(kind) = IntRange
    BY Held, Ranged, Ranges
  <1>2. Meets(NegateInt64Checked(acc.n), Exactly(-acc.n), IntRange)
    BY <1>1, AddSubtract, CheckedMeets
  <1> QED BY <1>1, <1>2, Given

LEMMA MultiplyKeeps == CalcInv /\ Multiply => CalcInv'
  <1> SUFFICES ASSUME CalcInv, Multiply PROVE CalcInv'
    OBVIOUS
  <1>1. ASSUME NEW y \in IntRange, Is("int"),
               Give("int", MultiplyInt64Checked(acc.n, y), Exactly(acc.n * y))
        PROVE  CalcInv'
    <2>1. acc.n \in IntRange /\ acc.n * y \in Int
      BY <1>1, Held, Ranged, Ranges
    <2>2. Meets(MultiplyInt64Checked(acc.n, y), Exactly(acc.n * y), IntRange)
      BY <2>1, Multiplication, CheckedMeets
    <2> QED BY <1>1, <2>2, Given, Ranged
  <1>2. ASSUME NEW y \in UintRange, Is("uint"),
               Give("uint", MultiplyUint64Checked(acc.n, y), Exactly(acc.n * y))
        PROVE  CalcInv'
    <2>1. acc.n \in UintRange /\ acc.n * y \in Int
      BY <1>2, Held, Ranged, Ranges
    <2>2. Meets(MultiplyUint64Checked(acc.n, y), Exactly(acc.n * y), UintRange)
      BY <2>1, MultiplicationUint, CheckedMeets
    <2> QED BY <1>2, <2>2, Given, Ranged
  <1> QED BY <1>1, <1>2 DEF Multiply

LEMMA DivideKeeps == CalcInv /\ (Divide \/ Modulo) => CalcInv'
  <1> SUFFICES ASSUME CalcInv, Divide \/ Modulo PROVE CalcInv'
    OBVIOUS
  <1>1. ASSUME NEW y \in IntRange, Is("int"),
               \/ Give("int", DivideInt64Checked(acc.n, y), Quotient(acc.n, y))
               \/ Give("int", ModuloInt64Checked(acc.n, y), Remainder(acc.n, y))
        PROVE  CalcInv'
    <2>1. acc.n \in IntRange
      BY <1>1, Held, Ranged
    <2>2. /\ Meets(DivideInt64Checked(acc.n, y), Quotient(acc.n, y), IntRange)
          /\ Meets(ModuloInt64Checked(acc.n, y), Remainder(acc.n, y), IntRange)
      BY <2>1, Division
    <2> QED BY <1>1, <2>2, Given, Ranged
  <1>2. ASSUME NEW y \in UintRange, Is("uint"),
               \/ Give("uint", DivideUint64Checked(acc.n, y),
                       IF y = 0 THEN Undefined ELSE Exactly(acc.n \div y))
               \/ Give("uint", ModuloUint64Checked(acc.n, y),
                       IF y = 0 THEN Undefined ELSE Exactly(acc.n % y))
        PROVE  CalcInv'
    <2>1. acc.n \in UintRange
      BY <1>2, Held, Ranged
    <2>2. /\ Meets(DivideUint64Checked(acc.n, y),
                   IF y = 0 THEN Undefined ELSE Exactly(acc.n \div y), UintRange)
          /\ Meets(ModuloUint64Checked(acc.n, y),
                   IF y = 0 THEN Undefined ELSE Exactly(acc.n % y), UintRange)
      BY <2>1, DivisionUint
    <2> QED BY <1>2, <2>2, Given, Ranged
  <1> QED BY <1>1, <1>2 DEF Divide, Modulo

LEMMA ConvertKeeps == CalcInv /\ Convert => CalcInv'
  <1> SUFFICES ASSUME CalcInv, Convert PROVE CalcInv'
    OBVIOUS
  <1>1. ASSUME Is("int"), Give("uint", Int64ToUint64Checked(acc.n), Exactly(acc.n)) PROVE CalcInv'
    <2>1. acc.n \in IntRange /\ acc.n \in Int
      BY <1>1, Held, Ranged
    <2>2. Checked(Int64ToUint64Checked(acc.n), acc.n, UintRange)
      BY <2>1, Ranges, Unwrapped, Refused DEF Int64ToUint64Checked
    <2> QED BY <1>1, <2>1, <2>2, CheckedMeets, Given, Ranged
  <1>2. ASSUME Is("uint"), Give("int", Uint64ToInt64Checked(acc.n), Exactly(acc.n)) PROVE CalcInv'
    <2>1. acc.n \in UintRange /\ acc.n \in Int
      BY <1>2, Held, Ranged
    <2>2. Checked(Uint64ToInt64Checked(acc.n), acc.n, IntRange)
      BY <2>1, Ranges, Unwrapped, Refused DEF Uint64ToInt64Checked
    <2> QED BY <1>2, <2>1, <2>2, CheckedMeets, Given, Ranged
  <1>3. ASSUME Is("int"), Give("timestamp", TimeOf(acc.n, 0), Exactly(acc.n * Second)) PROVE CalcInv'
    <2>1. acc.n \in Int /\ acc.n * Second \in Int /\ acc.n * Second + 0 = acc.n * Second
      BY <1>3, Held, Ranged, Clock
    <2>2. Checked(TimeOf(acc.n, 0), acc.n * Second + 0, TimeRange)
      BY <2>1, Clock, TimeOfExact
    <2>3. Meets(TimeOf(acc.n, 0), Exactly(acc.n * Second), TimeRange)
      BY <2>1, <2>2, CheckedMeets
    <2> QED BY <1>3, <2>3, Given, Ranged
  <1>4. ASSUME Is("timestamp"), Give("int", Int64(Seconds(acc.n)), Exactly(Seconds(acc.n)))
        PROVE  CalcInv'
    <2>1. acc.n \in TimeRange
      BY <1>4, Held, Ranged
    <2>2. Seconds(acc.n) \in IntRange /\ Seconds(acc.n) \in Int
      BY <2>1, Split
    <2>3. Meets(Int64(Seconds(acc.n)), Exactly(Seconds(acc.n)), IntRange)
      BY <2>2, Unwrapped, CheckedMeets
    <2> QED BY <1>4, <2>3, Given, Ranged
  <1>5. ASSUME Is("duration"), Give("int", Int64(acc.n), Exactly(acc.n)) PROVE CalcInv'
    <2>1. acc.n \in IntRange /\ acc.n \in Int
      BY <1>5, Held, Ranged
    <2>2. Meets(Int64(acc.n), Exactly(acc.n), IntRange)
      BY <2>1, Unwrapped, CheckedMeets
    <2> QED BY <1>5, <2>2, Given, Ranged
  <1> QED BY <1>1, <1>2, <1>3, <1>4, <1>5 DEF Convert

(***************************************************************************)
(* The results of checked arithmetic and of conversions are exact, after   *)
(* any number of steps, and an error is given only where there is no       *)
(* result of the type: for every width, second and range of timestamps.    *)
(***************************************************************************)
THEOREM Exactness == CalcSpec => []Exact
  <1>1. CalcInit => CalcInv
    BY Ranged DEF CalcInit, CalcInv, Exact, Exactly
  <1>2. CalcInv /\ [CalcNext]_calcVars => CalcInv'
    <2>1. CASE UNCHANGED calcVars
      BY <2>1 DEF CalcInv, Exact, calcVars, ValuesOf, IntRange, UintRange, TimeRange, MinInt, MaxUint
    <2> QED
      BY <2>1, AddKeeps, SubtractKeeps, NegateKeeps, MultiplyKeeps, DivideKeeps, ConvertKeeps
      DEF CalcNext
  <1>3. CalcInv => Exact
    BY DEF CalcInv
  <1> QED BY <1>1, <1>2, <1>3, PTL DEF CalcSpec


-----------------------------------------------------------------------------
(* Powers of two.                                                          *)

LEMMA LeastNatural ==
    ASSUME NEW S \in SUBSET Nat, S # {}
    PROVE  \E m \in S : \A k \in S : m <= k
<1> DEFINE R == {p \in Nat \X Nat : p[1] < p[2]}
<1>1. IsWellFoundedOn(R, Nat)
  BY NatLessThanWellFounded DEF OpToRel
<1>2. PICK m \in S : \A k \in S : <<k, m>> \notin R
  <2> HIDE DEF R
  <2> QED
    BY <1>1, WFMin
<1>3. ASSUME NEW k \in S PROVE m <= k
  <2>1. k \in Nat /\ m \in Nat /\ <<k, m>> \notin R /\ <<k, m>>[1] = k /\ <<k, m>>[2] = m
    BY <1>2
  <2> QED
    BY <2>1
<1> QED
  BY <1>3

\* The subsets of a set with e elements are 2 ^ e.
LEMMA PowerCounts ==
    ASSUME NEW e \in Nat
    PROVE  /\ IsFiniteSet(SUBSET (1..e)) /\ 2 ^ e \in Nat
           /\ Cardinality(SUBSET (1..e)) = 2 ^ e
<1>1. IsFiniteSet(1..e) /\ Cardinality(1..e) = e
  BY FS_Interval
<1> QED
  BY <1>1, FS_SUBSET, FS_CardinalityType

LEMMA PowerZero == 2 ^ 0 = 1
<1>1. SUBSET (1..0) = {{}}
  OBVIOUS
<1>2. Cardinality({{}}) = 1
  BY FS_Singleton
<1> QED
  BY <1>1, <1>2, PowerCounts

\* Of the subsets of 1..e+1, as many have e + 1 as have not.
LEMMA PowerNext ==
    ASSUME NEW e \in Nat
    PROVE  2 ^ (e + 1) = 2 * 2 ^ e
<1> DEFINE Without == SUBSET (1..e)
           With    == {T \in SUBSET (1..(e + 1)) : e + 1 \in T}
           f       == [T \in Without |-> T \cup {e + 1}]
<1>1. f \in Bijection(Without, With)
  <2>1. f \in [Without -> With]
    OBVIOUS
  <2>2. \A a, b \in Without : f[a] = f[b] => a = b
    OBVIOUS
  <2>3. ASSUME NEW t \in With PROVE \E s \in Without : f[s] = t
    <3>1. t \ {e + 1} \in Without /\ f[t \ {e + 1}] = t
      OBVIOUS
    <3> QED
      BY <3>1
  <2> HIDE DEF f, Without, With
  <2> QED
    BY <2>1, <2>2, <2>3 DEF Bijection, Injection, Surjection, IsInjective
<1>2. IsFiniteSet(Without) /\ Cardinality(Without) = 2 ^ e /\ 2 ^ e \in Nat
  BY PowerCounts
<1>3. IsFiniteSet(With) /\ Cardinality(With) = 2 ^ e
  <2> HIDE DEF f, Without, With
  <2> QED
    BY <1>1, <1>2, FS_Bijection DEF ExistsBijection
<1>4. Without \cup With = SUBSET (1..(e + 1)) /\ Without \cap With = {}
  OBVIOUS
<1>5. PICK n \in Nat : n = 2 ^ e
  BY <1>2
<1>6. Cardinality(Without \cup With) = n + n
  <2>1. Cardinality(Without \cap With) = 0
    BY <1>4, FS_EmptySet
  <2> HIDE DEF Without, With
  <2>2. Cardinality(Without) = n /\ Cardinality(With) = n
    BY <1>2, <1>3, <1>5
  <2>3. Cardinality(Without \cup With)
          = Cardinality(Without) + Cardinality(With) - Cardinality(Without \cap With)
    BY <1>2, <1>3, FS_Union
  <2> QED
    BY <2>1, <2>2, <2>3
<1>7. 2 ^ (e + 1) = n + n
  <2>1. e + 1 \in Nat
    OBVIOUS
  <2>2. Cardinality(SUBSET (1..(e + 1))) = 2 ^ (e + 1)
    BY <2>1, PowerCounts
  <2> HIDE DEF Without, With
  <2> QED
    BY <1>4, <1>6, <2>2
<1> QED
  BY <1>5, <1>7

LEMMA PowerAdds ==
    ASSUME NEW e \in Nat, NEW f \in Nat
    PROVE  2 ^ (e + f) = 2 ^ e * 2 ^ f
<1> DEFINE Bad == {k \in Nat : 2 ^ (e + k) # 2 ^ e * 2 ^ k}
<1> SUFFICES ASSUME Bad # {} PROVE FALSE
  OBVIOUS
<1>1. PICK m \in Bad : \A k \in Bad : m <= k
  <2>1. Bad \in SUBSET Nat
    OBVIOUS
  <2> HIDE DEF Bad
  <2> QED
    BY <2>1, LeastNatural
<1>2. 2 ^ e \in Nat
  BY PowerCounts
<1>3. m # 0
  <2>1. e + 0 = e /\ 2 ^ e * 1 = 2 ^ e
    BY <1>2
  <2> QED
    BY <1>1, <2>1, PowerZero
<1> DEFINE p == m - 1
<1>4. p \in Nat /\ p + 1 = m /\ (e + p) + 1 = e + m /\ p \notin Bad
  BY <1>1, <1>3
<1>5. 2 ^ (e + p) = 2 ^ e * 2 ^ p /\ 2 ^ p \in Nat
  BY <1>4, PowerCounts
<1>6. 2 ^ (e + m) = 2 * 2 ^ (e + p) /\ 2 ^ m = 2 * 2 ^ p
  BY <1>4, PowerNext
<1>7. 2 * (2 ^ e * 2 ^ p) = 2 ^ e * (2 * 2 ^ p)
  <2>1. \A a, b \in Nat : 2 * (a * b) = a * (2 * b)
    OBVIOUS
  <2> QED
    BY <1>2, <1>5, <2>1
<1> QED
  BY <1>1, <1>5, <1>6, <1>7

LEMMA PowerPositive ==
    ASSUME NEW e \in Nat
    PROVE  2 ^ e \in Nat /\ 2 ^ e > 0
<1>1. SUBSET (1..e) # {}
  OBVIOUS
<1>2. Cardinality(SUBSET (1..e)) # 0
  BY <1>1, PowerCounts, FS_EmptySet
<1>3. 2 ^ e # 0 /\ 2 ^ e \in Nat
  BY <1>2, PowerCounts
<1> QED
  BY <1>3

\* A larger power is a multiple of a smaller one.
LEMMA PowerDivides ==
    ASSUME NEW e \in Nat, NEW f \in Nat, e <= f
    PROVE  \E k \in Nat : k > 0 /\ 2 ^ f = k * 2 ^ e
<1>1. f - e \in Nat /\ (f - e) + e = f
  OBVIOUS
<1>2. 2 ^ f = 2 ^ (f - e) * 2 ^ e
  BY <1>1, PowerAdds
<1> QED
  BY <1>1, <1>2, PowerPositive
-----------------------------------------------------------------------------
(* Doubles.                                                                *)

LEMMA MantissasEven ==
    /\ Mantissas \in Nat /\ Mantissas > 0 /\ Exponents \in Nat
    /\ \E half \in Nat : half > 0 /\ Mantissas = 2 * half
<1>1. Precision - 1 \in Nat /\ (Precision - 1) + 1 = Precision /\ Exponents \in Nat
  BY PrecisionAssumption
<1>2. Mantissas = 2 * 2 ^ (Precision - 1)
  BY <1>1, PowerNext DEF Mantissas
<1> QED
  BY <1>1, <1>2, PowerPositive

\* A double is a mantissa times a power of two; the infinities are a greater power.
LEMMA DoubleForm ==
    ASSUME NEW d \in Doubles
    PROVE  /\ d \in Int
           /\ \E k \in Int, f \in Nat :
                 /\ d = k * 2 ^ f
                 /\ f > Exponents \/ (-Mantissas < k /\ k < Mantissas)
<1>1. CASE d \in Finite
  <2>1. PICK k \in -Mantissas + 1 .. Mantissas - 1, f \in 0 .. Exponents : d = k * 2 ^ f
    BY <1>1 DEF Finite
  <2>2. k \in Int /\ f \in Nat /\ -Mantissas < k /\ k < Mantissas /\ 2 ^ f \in Nat
    BY MantissasEven, PowerPositive
  <2> QED
    BY <2>1, <2>2
<1>2. CASE d \in {Infinity, -Infinity}
  <2>1. Exponents + 1 \in Nat /\ Exponents + 1 > Exponents
    BY MantissasEven
  <2>2. 2 ^ (Exponents + 1) \in Nat
    BY <2>1, PowerPositive
  <2>3. d = Mantissas * 2 ^ (Exponents + 1) \/ d = (-Mantissas) * 2 ^ (Exponents + 1)
    BY <1>2, <2>2, MantissasEven, TimesNegated DEF Infinity
  <2>4. Mantissas \in Int /\ -Mantissas \in Int
    BY MantissasEven
  <2>5. d \in Int
    BY <2>2, <2>3, <2>4
  <2> QED
    BY <2>1, <2>3, <2>4, <2>5
<1> QED
  BY <1>1, <1>2 DEF Doubles

\* The unit of h is the least power of two with which its mantissa is short enough.
UnitOf(h, e) ==
    /\ Abs(h) < Mantissas * 2 ^ e
    /\ e > 0 => Abs(h) >= Mantissas * 2 ^ (e - 1)

LEMMA UlpIs ==
    ASSUME NEW h \in Int, Abs(h) < Mantissas * 2 ^ Exponents
    PROVE  \E e \in 0 .. Exponents : Ulp(h) = 2 ^ e /\ UnitOf(h, e)
<1> DEFINE Short == {e \in 0 .. Exponents : Abs(h) < Mantissas * 2 ^ e}
           Powers == {2 ^ e : e \in 0 .. Exponents}
           Unit(u) == Abs(h) < Mantissas * u /\ (u = 1 \/ Abs(h) >= Mantissas * (u \div 2))
<1>0. Abs(h) \in Nat
  BY DEF Abs
<1>1. PICK e \in Short : \A k \in Short : e <= k
  <2>1. Short \in SUBSET Nat /\ Exponents \in Short
    BY MantissasEven
  <2> HIDE DEF Short
  <2> QED
    BY <2>1, LeastNatural
<1>2. ASSUME NEW k \in 0 .. Exponents, k > 0
      PROVE  2 ^ k \div 2 = 2 ^ (k - 1) /\ 2 ^ k # 1
  <2>1. k - 1 \in Nat /\ (k - 1) + 1 = k
    BY <1>2
  <2>2. 2 ^ k = 2 * 2 ^ (k - 1) /\ 2 ^ (k - 1) \in Nat
    BY <2>1, PowerNext, PowerPositive
  <2> QED
    BY <2>2
<1>3. Unit(2 ^ e)
  <2>1. CASE e = 0
    BY <1>1, <2>1, PowerZero
  <2>2. CASE e > 0
    <3>1. e - 1 \in 0 .. Exponents /\ e - 1 \notin Short
      BY <1>1, <2>2, MantissasEven
    <3>2. e - 1 \in Nat
      BY <3>1
    <3>3. Abs(h) >= Mantissas * 2 ^ (e - 1)
      BY <1>0, <3>1, <3>2, MantissasEven, PowerPositive
    <3> QED
      BY <1>1, <1>2, <2>2, <3>3
  <2> QED
    BY <1>1, <2>1, <2>2
<1>4. Ulp(h) \in Powers /\ Unit(Ulp(h))
  <2>1. 2 ^ e \in Powers /\ Ulp(h) = CHOOSE u \in Powers : Unit(u)
    BY <1>1 DEF Ulp
  <2> HIDE DEF Powers, Unit
  <2> QED
    BY <1>3, <2>1
<1>5. PICK k \in 0 .. Exponents : Ulp(h) = 2 ^ k
  BY <1>4
<1>6. UnitOf(h, k)
  BY <1>2, <1>4, <1>5 DEF UnitOf
<1> QED
  BY <1>5, <1>6
-----------------------------------------------------------------------------
(* Rounding.                                                               *)

\* No double lies between two neighbouring multiples of the unit of h.
LEMMA Gap ==
    ASSUME NEW h \in Int, NEW e \in 0 .. Exponents, UnitOf(h, e), NEW d \in Doubles,
           NEW u \in Nat, u = 2 ^ e, NEW m \in Int, NEW r \in Nat, 0 < r, r < u,
           h = u * m + r
    PROVE  d <= u * m \/ d >= u * (m + 1)
<1>0. e \in Nat /\ u > 0 /\ u * m \in Int /\ u * (m + 1) = u * m + u /\ Mantissas \in Nat
  <2>1. \A a \in Nat, b \in Int : a * b \in Int /\ a * (b + 1) = a * b + a
    OBVIOUS
  <2> QED
    BY <2>1, MantissasEven
<1>1. d \in Int
  BY DoubleForm
<1>2. PICK k \in Int, f \in Nat :
         /\ d = k * 2 ^ f
         /\ f > Exponents \/ (-Mantissas < k /\ k < Mantissas)
  BY DoubleForm
<1>3. \* Two multiples of u.
      ASSUME NEW q \in Int, d = q * u PROVE d <= u * m \/ d >= u * (m + 1)
  <2>1. q <= m \/ q >= m + 1
    OBVIOUS
  <2>2. q <= m => q * u <= m * u
    BY TimesMonotone
  <2>3. q >= m + 1 => (m + 1) * u <= q * u
    BY TimesMonotone
  <2>4. m * u = u * m /\ (m + 1) * u = u * (m + 1)
    OBVIOUS
  <2> QED
    BY <1>0, <1>1, <1>3, <2>1, <2>2, <2>3, <2>4
<1>4. CASE e <= f
  <2>1. PICK p \in Nat : 2 ^ f = p * 2 ^ e
    BY <1>0, <1>4, PowerDivides
  <2>2. d = k * (p * u) /\ k * (p * u) = (k * p) * u /\ k * p \in Int
    <3>1. \A a, b, c \in Int : a * (b * c) = (a * b) * c /\ a * b \in Int
      OBVIOUS
    <3> QED
      BY <1>2, <2>1, <3>1
  <2> QED
    BY <1>3, <2>2
<1>5. CASE f < e
  <2>1. e - 1 \in Nat /\ (e - 1) + 1 = e /\ f <= e - 1 /\ e > 0 /\ f <= Exponents
    BY <1>0, <1>5, MantissasEven
  <2> DEFINE w == 2 ^ (e - 1)
  <2>2. w \in Nat /\ w > 0 /\ u = 2 * w
    BY <2>1, PowerNext, PowerPositive
  <2>3. PICK p \in Nat : p > 0 /\ w = p * 2 ^ f
    BY <2>1, PowerDivides
  <2>4. 2 ^ f \in Nat /\ 2 ^ f <= w
    <3>1. \A a, b \in Nat : a > 0 => b <= a * b
      OBVIOUS
    <3> QED
      BY <2>3, <3>1, PowerPositive
  <2>5. PICK half \in Nat : half > 0 /\ Mantissas = 2 * half
    BY MantissasEven
  <2> HIDE DEF w
  <2>6. \* The bound of smaller doubles is a multiple of u.
        Mantissas * w = half * u /\ half * u \in Nat
    <3>1. \A a, b \in Nat : (2 * a) * b = a * (2 * b) /\ a * (2 * b) \in Nat
      OBVIOUS
    <3> QED
      BY <2>2, <2>5, <3>1
  <2>7. d < half * u /\ d > -(half * u)
    <3>1. \A a \in Int, b, c, g \in Nat :
             -g < a /\ a < g /\ b <= c /\ c > 0 => a * b < g * c /\ a * b > -(g * c)
      <4> SUFFICES ASSUME NEW a \in Int, NEW b \in Nat, NEW c \in Nat, NEW g \in Nat,
                          -g < a, a < g, b <= c, c > 0
                   PROVE  a * b < g * c /\ a * b > -(g * c)
        OBVIOUS
      <4>1. g - 1 \in Nat /\ a <= g - 1 /\ -(g - 1) <= a
        OBVIOUS
      <4>2. a * b <= (g - 1) * b /\ (-(g - 1)) * b <= a * b
        BY <4>1, TimesMonotone
      <4>3. b * (g - 1) <= c * (g - 1)
        BY <4>1, TimesMonotone
      <4>4. (-(g - 1)) * b = -((g - 1) * b) /\ (g - 1) * b = b * (g - 1)
            /\ c * (g - 1) = g * c - c
        BY <4>1
      <4>5. a * b \in Int /\ g * c \in Int /\ b * (g - 1) \in Int
        BY <4>1
      <4> QED
        BY <4>2, <4>3, <4>4, <4>5
    <3> QED
      BY <1>2, <2>1, <2>2, <2>4, <2>6, <3>1, MantissasEven
  <2>8. Abs(h) >= half * u
    BY <2>1, <2>6 DEF UnitOf, w
  <2>9. CASE h >= 0
    <3>1. half * u <= h
      BY <2>8, <2>9 DEF Abs
    <3>2. half <= m
      <4>1. half > m => u * (m + 1) <= u * half
        <5>1. half > m => (m + 1) * u <= half * u
          BY TimesMonotone
        <5> QED
          BY <5>1
      <4>2. u * half = half * u
        OBVIOUS
      <4> QED
        BY <1>0, <2>6, <3>1, <4>1, <4>2
    <3>3. half * u <= u * m
      BY <3>2, TimesMonotone
    <3> QED
      BY <1>0, <1>1, <2>6, <2>7, <3>3
  <2>10. CASE h < 0
    <3>1. h <= -(half * u)
      BY <2>6, <2>8, <2>10 DEF Abs
    <3>2. m + 1 <= -half
      <4>1. m >= -half => (-half) * u <= m * u
        BY TimesMonotone
      <4>2. (-half) * u = -(half * u) /\ m * u = u * m
        BY TimesNegated
      <4> QED
        BY <1>0, <2>6, <3>1, <4>1, <4>2
    <3>3. (m + 1) * u <= (-half) * u
      BY <3>2, TimesMonotone
    <3>4. (-half) * u = -(half * u) /\ (m + 1) * u = u * (m + 1)
      BY TimesNegated
    <3> QED
      BY <1>0, <1>1, <2>6, <2>7, <3>3, <3>4
  <2> QED
    BY <2>9, <2>10
<1> QED
  BY <1>0, <1>4, <1>5

LEMMA Rounded ==
    ASSUME NEW h \in Int, NEW u \in Nat, u > 0
    PROVE  /\ RoundTo(h, u) \in {u * (h \div u), u * (h \div u + 1)}
           /\ h % u = 0 => RoundTo(h, u) = h
<1> DEFINE m == h \div u
           r == h % u
<1>1. m \in Int /\ r \in Nat /\ h = u * m + r
  BY DivMod
<1>2. RoundTo(h, u) = (IF 2 * r > u \/ (2 * r = u /\ m % 2 = 1) THEN m + 1 ELSE m) * u
  BY DEF RoundTo
<1> HIDE DEF m, r
<1>3. m * u = u * m /\ (m + 1) * u = u * (m + 1) /\ u * m \in Int
  BY <1>1
<1>4. RoundTo(h, u) \in {u * m, u * (m + 1)}
  BY <1>2, <1>3
<1>5. r = 0 => RoundTo(h, u) = h
  BY <1>1, <1>2, <1>3
<1> QED
  BY <1>4, <1>5 DEF m, r

\* The integers whose double is taken.
Integral == MinInt .. MaxUint

\* Doubles of integers are far from infinite.
LEMMA Bounded ==
    ASSUME NEW n \in Integral
    PROVE  /\ 2 * n \in Int
           /\ Abs(2 * n) < (Mantissas - 1) * 2 ^ Exponents
           /\ Abs(2 * n) < Mantissas * 2 ^ Exponents
<1>1. PICK k \in -Mantissas + 1 .. Mantissas - 1, e \in 0 .. Exponents :
         4 * (MaxInt + 1) = k * 2 ^ e
  BY DoubleAssumption DEF Finite
<1>2. k \in Int /\ e \in Nat /\ e <= Exponents /\ Exponents \in Nat
      /\ k <= Mantissas - 1 /\ Mantissas - 1 \in Nat
  BY MantissasEven
<1> DEFINE small == 2 ^ e
           large == 2 ^ Exponents
<1>3. small \in Nat /\ large \in Nat /\ small > 0 /\ large > 0
  BY <1>2, PowerPositive
<1>4. PICK p \in Nat : p > 0 /\ large = p * small
  BY <1>2, PowerDivides
<1> HIDE DEF small, large
<1>5. small <= large
  <2>1. \A a, b \in Nat : a > 0 => b <= a * b
    OBVIOUS
  <2> QED
    BY <1>3, <1>4, <2>1
<1>6. k * small <= (Mantissas - 1) * small /\ (Mantissas - 1) * small <= (Mantissas - 1) * large
  <2>1. k * small <= (Mantissas - 1) * small
    BY <1>2, <1>3, TimesMonotone
  <2>2. small * (Mantissas - 1) <= large * (Mantissas - 1)
    BY <1>2, <1>3, <1>5, TimesMonotone
  <2>3. \A a, b \in Int : a * b = b * a
    OBVIOUS
  <2> QED
    BY <1>2, <1>3, <2>1, <2>2, <2>3
<1>7. 4 * (MaxInt + 1) <= (Mantissas - 1) * large
  <2>1. 4 * (MaxInt + 1) = k * small
    BY <1>1 DEF small
  <2>2. 4 * (MaxInt + 1) \in Int /\ (Mantissas - 1) * small \in Int
        /\ (Mantissas - 1) * large \in Int
    BY <1>2, <1>3, Ranges
  <2> QED
    BY <1>6, <2>1, <2>2
<1>8. 2 * n \in Int /\ Abs(2 * n) \in Int /\ Abs(2 * n) < 4 * (MaxInt + 1)
  BY Ranges DEF Integral, Abs
<1>9. (Mantissas - 1) * large \in Int /\ Mantissas * large = (Mantissas - 1) * large + large
  <2>1. \A a, b \in Int : (a - 1) * b \in Int /\ a * b = (a - 1) * b + b
    OBVIOUS
  <2> QED
    BY <1>3, <2>1, MantissasEven
<1>10. Abs(2 * n) < (Mantissas - 1) * large /\ Abs(2 * n) < Mantissas * large
  <2>1. 4 * (MaxInt + 1) \in Int
    BY Ranges
  <2> QED
    BY <1>3, <1>7, <1>8, <1>9, <2>1
<1> QED
  BY <1>8, <1>10 DEF large

\* What the double of an integer is: its unit, and the multiples of it around 2 * n.
LEMMA DoubleIs ==
    ASSUME NEW n \in Integral
    PROVE  \E e \in 0 .. Exponents, u \in Nat, m \in Int, r \in Nat :
              /\ u = 2 ^ e /\ u > 0 /\ UnitOf(2 * n, e)
              /\ r < u /\ 2 * n = u * m + r
              /\ Double(n) \in {u * m, u * (m + 1)}
              /\ r = 0 => Double(n) = 2 * n
              /\ u * m \in Int /\ u * (m + 1) = u * m + u
<1>1. 2 * n \in Int /\ Abs(2 * n) < Mantissas * 2 ^ Exponents
  BY Bounded
<1>2. PICK e \in 0 .. Exponents : Ulp(2 * n) = 2 ^ e /\ UnitOf(2 * n, e)
  BY <1>1, UlpIs
<1>3. PICK u \in Nat : u = 2 ^ e /\ u > 0
  <2>1. e \in Nat
    OBVIOUS
  <2> QED
    BY <2>1, PowerPositive
<1> DEFINE m == (2 * n) \div u
           r == (2 * n) % u
<1>4. m \in Int /\ r \in Nat /\ r < u /\ 2 * n = u * m + r
  BY <1>1, <1>3, DivMod
<1>5. /\ Double(n) \in {u * m, u * (m + 1)}
      /\ r = 0 => Double(n) = 2 * n
  BY <1>1, <1>2, <1>3, Rounded DEF Double
<1> HIDE DEF m, r
<1>6. u * m \in Int /\ u * (m + 1) = u * m + u
  BY <1>4
<1> QED
  BY <1>2, <1>3, <1>4, <1>5, <1>6

\* Rounding is monotone between a double and an integer, and what is a double stays.
LEMMA Nearest ==
    ASSUME NEW n \in Integral
    PROVE  /\ Double(n) \in Int
           /\ \A d \in Doubles :
                 /\ d < Double(n) => d < 2 * n
                 /\ d > Double(n) => d > 2 * n
                 /\ d = 2 * n => Double(n) = d
<1>0. n \in Int /\ 2 * n \in Int
  BY Ranges DEF Integral
<1>1. PICK e \in 0 .. Exponents, u \in Nat, m \in Int, r \in Nat :
              /\ u = 2 ^ e /\ u > 0 /\ UnitOf(2 * n, e)
              /\ r < u /\ 2 * n = u * m + r
              /\ Double(n) \in {u * m, u * (m + 1)}
              /\ r = 0 => Double(n) = 2 * n
              /\ u * m \in Int /\ u * (m + 1) = u * m + u
  BY DoubleIs
<1>2. Double(n) \in Int
  BY <1>1
<1>3. ASSUME NEW d \in Doubles
      PROVE  /\ d < Double(n) => d < 2 * n
             /\ d > Double(n) => d > 2 * n
             /\ d = 2 * n => Double(n) = d
  <2>1. d \in Int
    BY DoubleForm
  <2>2. CASE r = 0
    BY <1>0, <1>1, <2>1, <2>2
  <2>3. CASE r # 0
    <3>1. d <= u * m \/ d >= u * (m + 1)
      BY <1>0, <1>1, <2>3, Gap
    <3> QED
      BY <1>0, <1>1, <2>1, <2>3, <3>1
  <2> QED
    BY <2>2, <2>3
<1> QED
  BY <1>2, <1>3

\* The double of an integer is even, as it is counted in halves.
LEMMA DoubleEven ==
    ASSUME NEW n \in Integral
    PROVE  \E q \in Int : Double(n) = 2 * q
<1>0. n \in Int /\ 2 * n \in Int
  BY Ranges DEF Integral
<1>1. PICK e \in 0 .. Exponents, u \in Nat, m \in Int, r \in Nat :
              /\ u = 2 ^ e /\ u > 0 /\ UnitOf(2 * n, e)
              /\ r < u /\ 2 * n = u * m + r
              /\ Double(n) \in {u * m, u * (m + 1)}
              /\ r = 0 => Double(n) = 2 * n
              /\ u * m \in Int /\ u * (m + 1) = u * m + u
  BY DoubleIs
<1>2. CASE e = 0
  <2>1. u = 1 /\ r = 0
    BY <1>1, <1>2, PowerZero
  <2> QED
    BY <1>0, <1>1, <2>1
<1>3. CASE e > 0
  <2>1. e - 1 \in Nat /\ (e - 1) + 1 = e
    BY <1>3
  <2>2. PICK w \in Nat : u = 2 * w
    BY <1>1, <2>1, PowerNext, PowerPositive
  <2>3. ASSUME NEW k \in Int PROVE u * k = 2 * (w * k) /\ w * k \in Int
    BY <2>2
  <2>4. u * m = 2 * (w * m) /\ w * m \in Int
    BY <2>3
  <2>5. u * (m + 1) = 2 * (w * (m + 1)) /\ w * (m + 1) \in Int
    BY <2>3
  <2> QED
    BY <1>1, <2>4, <2>5
<1> QED
  BY <1>2, <1>3

LEMMA DoubleInDoubles ==
    ASSUME NEW n \in Integral
    PROVE  Double(n) \in Doubles
<1>0. n \in Int /\ 2 * n \in Int
  BY Ranges DEF Integral
<1>1. PICK e \in 0 .. Exponents, u \in Nat, m \in Int, r \in Nat :
              /\ u = 2 ^ e /\ u > 0 /\ UnitOf(2 * n, e)
              /\ r < u /\ 2 * n = u * m + r
              /\ Double(n) \in {u * m, u * (m + 1)}
              /\ r = 0 => Double(n) = 2 * n
              /\ u * m \in Int /\ u * (m + 1) = u * m + u
  BY DoubleIs
<1>2. PICK half \in Nat : half > 0 /\ Mantissas = 2 * half
  BY MantissasEven
<1> DEFINE bound == Mantissas * u
<1>3. -bound < 2 * n /\ 2 * n < bound /\ bound \in Nat
  BY <1>0, <1>1, MantissasEven DEF UnitOf, Abs
<1>4. \* The neighbours are no further than the bound.
      -Mantissas <= m /\ m < Mantissas
  <2>1. m >= Mantissas => Mantissas * u <= m * u
    BY MantissasEven, TimesMonotone
  <2>2. m + 1 <= -Mantissas => (m + 1) * u <= (-Mantissas) * u
    BY MantissasEven, TimesMonotone
  <2>3. (-Mantissas) * u = -(Mantissas * u) /\ m * u = u * m /\ (m + 1) * u = u * m + u
    BY <1>1, TimesNegated, MantissasEven
  <2> QED
    BY <1>0, <1>1, <1>3, <2>1, <2>2, <2>3, MantissasEven
<1>5. PICK k \in Int : Double(n) = k * u /\ -Mantissas <= k /\ k <= Mantissas
  <2>1. u * m = m * u /\ u * (m + 1) = (m + 1) * u /\ m + 1 \in Int
    OBVIOUS
  <2>2. Double(n) = u * m \/ Double(n) = u * (m + 1)
    BY <1>1
  <2>3. -Mantissas <= m + 1 /\ m + 1 <= Mantissas /\ m <= Mantissas
    BY <1>4, MantissasEven
  <2> QED
    BY <1>4, <2>1, <2>2, <2>3
<1>6. CASE -Mantissas < k /\ k < Mantissas
  <2>1. k \in -Mantissas + 1 .. Mantissas - 1
    BY <1>6, MantissasEven
  <2> QED
    BY <1>1, <1>5, <2>1 DEF Doubles, Finite
<1>7. CASE k = Mantissas \/ k = -Mantissas
  <2>1. e < Exponents
    <3> SUFFICES ASSUME e = Exponents PROVE FALSE
      BY MantissasEven
    <3>1. Abs(2 * n) < (Mantissas - 1) * u
      BY <1>1, Bounded
    <3>2. (Mantissas - 1) * u = Mantissas * u - u
      BY MantissasEven
    <3>3. -(Mantissas * u) + u < 2 * n /\ 2 * n < Mantissas * u - u
      BY <1>0, <1>3, <3>1, <3>2 DEF Abs
    <3>4. (-Mantissas) * u = -(Mantissas * u)
      BY TimesNegated, MantissasEven
    <3>5. Double(n) - 2 * n <= u /\ 2 * n - Double(n) < u
      BY <1>0, <1>1
    <3> QED
      BY <1>0, <1>1, <1>3, <1>5, <1>7, <3>3, <3>4, <3>5
  <2>2. e + 1 \in 0 .. Exponents /\ 2 ^ (e + 1) = 2 * u
    BY <1>1, <2>1, PowerNext, MantissasEven
  <2>3. Double(n) = half * (2 * u) \/ Double(n) = (-half) * (2 * u)
    <3>1. \A a, b \in Nat : (2 * a) * b = a * (2 * b) /\ (-(2 * a)) * b = (-a) * (2 * b)
      OBVIOUS
    <3> QED
      BY <1>2, <1>5, <1>7, <3>1
  <2>4. half \in -Mantissas + 1 .. Mantissas - 1 /\ -half \in -Mantissas + 1 .. Mantissas - 1
    BY <1>2
  <2> QED
    BY <2>2, <2>3, <2>4 DEF Doubles, Finite
<1> QED
  BY <1>5, <1>6, <1>7, MantissasEven
-----------------------------------------------------------------------------
(* Comparisons and conversions.                                            *)

LEMMA Ends ==
    /\ IntRange \subseteq Integral /\ UintRange \subseteq Integral
    /\ {MinInt, MaxInt, MaxUint} \subseteq Integral
    /\ Double(MinInt) = 2 * MinInt /\ Double(MaxInt) = 2 * (MaxInt + 1)
<1>1. {MinInt, MaxInt, MaxUint} \subseteq Integral
  BY Ranges DEF Integral
<1>2. 2 * MinInt \in Doubles
  <2>1. PICK k \in -Mantissas + 1 .. Mantissas - 1, e \in 0 .. Exponents :
           2 * (MaxInt + 1) = k * 2 ^ e
    BY DoubleAssumption DEF Finite
  <2>2. -k \in -Mantissas + 1 .. Mantissas - 1 /\ k \in Int /\ e \in Nat
    BY MantissasEven
  <2>3. (-k) * 2 ^ e = -(k * 2 ^ e)
    BY <2>2, PowerPositive, TimesNegated
  <2>4. 2 * MinInt = (-k) * 2 ^ e
    BY <2>1, <2>3, Ranges
  <2> QED
    BY <2>2, <2>4 DEF Doubles, Finite
<1>3. Double(MinInt) = 2 * MinInt
  BY <1>1, <1>2, Nearest
<1> QED
  BY <1>1, <1>3, DoubleAssumption, Ranges DEF Integral

\* A double beyond the ints is even.
LEMMA LargeEven ==
    ASSUME NEW d \in Doubles, d > 2 * MaxInt \/ d < 2 * MinInt
    PROVE  \E q \in Int : d = 2 * q
<1>1. PICK k \in Int, f \in Nat :
         /\ d = k * 2 ^ f
         /\ f > Exponents \/ (-Mantissas < k /\ k < Mantissas)
  BY DoubleForm
<1>2. f # 0
  <2> SUFFICES ASSUME f = 0 PROVE FALSE
    OBVIOUS
  <2>1. d = k /\ -Mantissas < k /\ k < Mantissas
    BY <1>1, PowerZero, MantissasEven
  <2> QED
    BY <2>1, Ranges, MantissasEven, DoubleAssumption
<1>3. f - 1 \in Nat /\ (f - 1) + 1 = f
  BY <1>2
<1>4. PICK w \in Nat : 2 ^ f = 2 * w
  BY <1>3, PowerNext, PowerPositive
<1>5. k * (2 * w) = 2 * (k * w) /\ k * w \in Int
  OBVIOUS
<1> QED
  BY <1>1, <1>4, <1>5

LEMMA HalfOf ==
    ASSUME NEW h \in Int
    PROVE  /\ Quo(h, 2) \in Int
           /\ h >= 0 => 2 * Quo(h, 2) <= h /\ h <= 2 * Quo(h, 2) + 1
           /\ h <= 0 => 2 * Quo(h, 2) - 1 <= h /\ h <= 2 * Quo(h, 2)
           /\ \A q \in Int : h = 2 * q => Quo(h, 2) = q
<1>1. /\ Quo(h, 2) \in Int /\ Rem(h, 2) \in Int
      /\ h = 2 * Quo(h, 2) + Rem(h, 2) /\ -2 < Rem(h, 2) /\ Rem(h, 2) < 2
      /\ h >= 0 => Rem(h, 2) >= 0
      /\ h <= 0 => Rem(h, 2) <= 0
  BY QuoRem
<1> QED
  BY <1>1

LEMMA NumberCases ==
    ASSUME NEW x \in Numbers
    PROVE  \/ x = NaN
           \/ x = IntV(x.n) /\ x.kind = "int" /\ x.n \in IntRange
           \/ x = UintV(x.n) /\ x.kind = "uint" /\ x.n \in UintRange
           \/ x = DoubleV(x.n) /\ x.kind = "double" /\ x.n \in Doubles
BY DEF Numbers, IntV, UintV, DoubleV, Number

LEMMA NumberFields ==
    /\ NaN.kind = "nan" /\ ErrorV.kind = "error"
    /\ \A n : /\ IntV(n).kind = "int" /\ IntV(n).n = n
              /\ UintV(n).kind = "uint" /\ UintV(n).n = n
              /\ DoubleV(n).kind = "double" /\ DoubleV(n).n = n
<1>1. NaN.kind = "nan" /\ ErrorV.kind = "error"
  BY DEF NaN, ErrorV, Number
<1>2. ASSUME NEW n
      PROVE  /\ IntV(n).kind = "int" /\ IntV(n).n = n
             /\ UintV(n).kind = "uint" /\ UintV(n).n = n
             /\ DoubleV(n).kind = "double" /\ DoubleV(n).n = n
  BY DEF IntV, UintV, DoubleV, Number
<1> QED
  BY <1>1, <1>2

\* c orders a and b, where a tie is one between equal numbers unless it is tied.
Orders(c, a, b, tied) ==
    /\ c \in {-1, 0, 1}
    /\ c = -1 => a < b
    /\ c = 1 => a > b
    /\ c = 0 => a = b \/ tied

LEMMA SignOrders ==
    ASSUME NEW a \in Int, NEW b \in Int
    PROVE  Orders(Sign(a - b), a, b, FALSE) /\ (Sign(a - b) = 0 <=> a = b)
BY DEF Sign, Orders

LEMMA DoubleIntOrders ==
    ASSUME NEW d \in Doubles, NEW i \in IntRange
    PROVE  Orders(CompareDoubleInt(d, i), d, 2 * i, Double(i) = d)
<1>1. d \in Int /\ i \in Int /\ MinInt <= i /\ i <= MaxInt /\ MinInt \in Int /\ MaxInt \in Int
  BY DoubleForm, Ranges
<1>2. \A n \in {i, MinInt, MaxInt} :
         Double(n) \in Int /\ (d < Double(n) => d < 2 * n) /\ (d > Double(n) => d > 2 * n)
  BY Ends, Nearest
<1>3. CASE d < Double(MinInt)
  BY <1>1, <1>2, <1>3 DEF CompareDoubleInt, Orders
<1>4. CASE ~(d < Double(MinInt)) /\ d > Double(MaxInt)
  BY <1>1, <1>2, <1>4 DEF CompareDoubleInt, Orders
<1>5. CASE ~(d < Double(MinInt)) /\ ~(d > Double(MaxInt))
  <2>1. CompareDoubleInt(d, i) = Sign(d - Double(i))
    BY <1>5 DEF CompareDoubleInt
  <2> QED
    BY <1>1, <1>2, <2>1, SignOrders DEF Orders
<1> QED
  BY <1>3, <1>4, <1>5

LEMMA DoubleUintOrders ==
    ASSUME NEW d \in Doubles, NEW i \in UintRange
    PROVE  Orders(CompareDoubleUint(d, i), d, 2 * i, Double(i) = d)
<1>1. d \in Int /\ i \in Int /\ 0 <= i /\ i <= MaxUint /\ MaxUint \in Int
  BY DoubleForm, Ranges
<1>2. \A n \in {i, MaxUint} :
         Double(n) \in Int /\ (d < Double(n) => d < 2 * n) /\ (d > Double(n) => d > 2 * n)
  BY Ends, Nearest
<1>3. CASE d < 0
  BY <1>1, <1>3 DEF CompareDoubleUint, Orders
<1>4. CASE ~(d < 0) /\ d > Double(MaxUint)
  BY <1>1, <1>2, <1>4 DEF CompareDoubleUint, Orders
<1>5. CASE ~(d < 0) /\ ~(d > Double(MaxUint))
  <2>1. CompareDoubleUint(d, i) = Sign(d - Double(i))
    BY <1>5 DEF CompareDoubleUint
  <2> QED
    BY <1>1, <1>2, <2>1, SignOrders, ZenonT(40) DEF Orders
<1> QED
  BY <1>3, <1>4, <1>5

LEMMA IntUintOrders ==
    ASSUME NEW i \in IntRange, NEW u \in UintRange
    PROVE  Orders(CompareIntUint(i, u), 2 * i, 2 * u, FALSE)
<1>1. i \in Int /\ u \in Int /\ i <= MaxInt /\ 0 <= u /\ MaxInt \in Int
  BY Ranges
<1>2. CASE i < 0 \/ u > MaxInt
  BY <1>1, <1>2 DEF CompareIntUint, Orders
<1>3. CASE ~(i < 0 \/ u > MaxInt)
  <2>1. i - u \in IntRange
    BY <1>1, <1>3, Ranges
  <2>2. WrapInt(i - u) = i - u
    BY <2>1, Unwrapped DEF Checked, Int64
  <2>3. CompareIntUint(i, u) = Sign(i - u)
    BY <1>3, <2>2 DEF CompareIntUint
  <2>4. Orders(Sign(i - u), i, u, FALSE)
    BY <1>1, SignOrders
  <2> QED
    BY <1>1, <2>3, <2>4 DEF Orders
<1> QED
  BY <1>2, <1>3

\* What comparison makes of the order of d and a, when it is the other way round.
LEMMA OrdersFlip ==
    ASSUME NEW c, NEW a \in Int, NEW b \in Int, NEW tied \in BOOLEAN, Orders(c, a, b, tied)
    PROVE  Orders(-c, b, a, tied)
BY DEF Orders

\* The numbers that are ordered, and when a tie is one of rounding.
Tied(x, y) ==
    \/ x.kind # "double" /\ y.kind = "double" /\ Double(x.n) = y.n
    \/ y.kind # "double" /\ x.kind = "double" /\ Double(y.n) = x.n

LEMMA HalvesType ==
    ASSUME NEW x \in Numbers, x # NaN
    PROVE  /\ Halves(x) \in Int /\ x.n \in Int
           /\ x.kind = "double" => Halves(x) = x.n
           /\ x.kind # "double" => Halves(x) = 2 * x.n
<1>1. x.n \in Int
  BY NumberCases, DoubleForm, Ranges
<1> QED
  BY <1>1 DEF Halves

LEMMA CompareOrders ==
    ASSUME NEW x \in Numbers, NEW y \in Numbers, x # NaN, y # NaN
    PROVE  Orders(Compare(x, y), Halves(x), Halves(y), Tied(x, y))
<1>0. Halves(x) \in Int /\ Halves(y) \in Int /\ x.n \in Int /\ y.n \in Int
  BY HalvesType
<1>1. CASE x.kind = y.kind
  <2>1. Compare(x, y) = Sign(x.n - y.n)
    BY <1>1 DEF Compare
  <2>2. Orders(Sign(x.n - y.n), x.n, y.n, FALSE)
    BY <1>0, SignOrders
  <2> QED
    BY <1>0, <1>1, <2>1, <2>2, HalvesType DEF Orders
<1>2. CASE x.kind = "double" /\ y.kind = "int"
  <2>1. x.n \in Doubles /\ y.n \in IntRange
    BY <1>2, NumberCases, NumberFields
  <2>2. Compare(x, y) = CompareDoubleInt(x.n, y.n)
    BY <1>2 DEF Compare
  <2>3. Tied(x, y) <=> Double(y.n) = x.n
    BY <1>2 DEF Tied
  <2> QED
    BY <1>2, <2>1, <2>2, <2>3, DoubleIntOrders, HalvesType DEF Orders
<1>3. CASE x.kind = "int" /\ y.kind = "double"
  <2>1. y.n \in Doubles /\ x.n \in IntRange
    BY <1>3, NumberCases, NumberFields
  <2>2. Compare(x, y) = -CompareDoubleInt(y.n, x.n)
    BY <1>3 DEF Compare
  <2>3. Tied(x, y) <=> Double(x.n) = y.n
    BY <1>3 DEF Tied
  <2> QED
    BY <1>0, <1>3, <2>1, <2>2, <2>3, DoubleIntOrders, HalvesType, OrdersFlip DEF Orders
<1>4. CASE x.kind = "double" /\ y.kind = "uint"
  <2>1. x.n \in Doubles /\ y.n \in UintRange
    BY <1>4, NumberCases, NumberFields
  <2>2. Compare(x, y) = CompareDoubleUint(x.n, y.n)
    BY <1>4 DEF Compare
  <2>3. Tied(x, y) <=> Double(y.n) = x.n
    BY <1>4 DEF Tied
  <2> QED
    BY <1>4, <2>1, <2>2, <2>3, DoubleUintOrders, HalvesType DEF Orders
<1>5. CASE x.kind = "uint" /\ y.kind = "double"
  <2>1. y.n \in Doubles /\ x.n \in UintRange
    BY <1>5, NumberCases, NumberFields
  <2>2. Compare(x, y) = -CompareDoubleUint(y.n, x.n)
    BY <1>5 DEF Compare
  <2>3. Tied(x, y) <=> Double(x.n) = y.n
    BY <1>5 DEF Tied
  <2> QED
    BY <1>0, <1>5, <2>1, <2>2, <2>3, DoubleUintOrders, HalvesType, OrdersFlip DEF Orders
<1>6. CASE x.kind = "int" /\ y.kind = "uint"
  <2>1. x.n \in IntRange /\ y.n \in UintRange
    BY <1>6, NumberCases, NumberFields
  <2>2. Compare(x, y) = CompareIntUint(x.n, y.n)
    BY <1>6 DEF Compare
  <2> QED
    BY <1>6, <2>1, <2>2, IntUintOrders, HalvesType DEF Orders
<1>7. CASE x.kind = "uint" /\ y.kind = "int"
  <2>1. y.n \in IntRange /\ x.n \in UintRange
    BY <1>7, NumberCases, NumberFields
  <2>2. Compare(x, y) = -CompareIntUint(y.n, x.n)
    BY <1>7 DEF Compare
  <2> QED
    BY <1>0, <1>7, <2>1, <2>2, IntUintOrders, HalvesType, OrdersFlip DEF Orders
<1> QED
  BY <1>1, <1>2, <1>3, <1>4, <1>5, <1>6, <1>7, NumberCases

LEMMA Comparisons ==
    ASSUME NEW x \in Numbers, NEW y \in Numbers
    PROVE  ComparedExactly(x, y)
<1>1. CASE x = NaN \/ y = NaN
  BY <1>1 DEF ComparedExactly, Compare
<1>2. CASE x # NaN /\ y # NaN
  <2>1. Orders(Compare(x, y), Halves(x), Halves(y), Tied(x, y))
    BY <1>2, CompareOrders
  <2>2. Halves(x) \in Int /\ Halves(y) \in Int
    BY <1>2, HalvesType
  <2>3. Compare(x, y) = 0 => SameNumber(x, y) \/ Tied(x, y)
    BY <1>2, <2>1 DEF Orders, SameNumber
  <2>4. Compare(x, y) # 0 => Compare(x, y) = Sign(Halves(x) - Halves(y))
    BY <2>1, <2>2 DEF Orders, Sign
  <2> QED
    BY <1>2, <2>3, <2>4 DEF ComparedExactly, Tied
<1> QED
  BY <1>1, <1>2

\* The conversion of a double drops its half, unless it lies beyond the ends of the range.
LEMMA DoubleToInt ==
    ASSUME NEW d \in Doubles
    PROVE  /\ DoubleToInt64Checked(d).ok <=> 2 * MinInt < d /\ d < 2 * (MaxInt + 1)
           /\ DoubleToInt64Checked(d).ok =>
                 DoubleToInt64Checked(d).n = Quo(d, 2) /\ Quo(d, 2) \in IntRange
           /\ ~DoubleToInt64Checked(d).ok =>
                 Quo(d, 2) \notin IntRange \/ d \in {Double(MinInt), Double(MaxInt)}
<1>0. d \in Int /\ MaxInt \in Int /\ MinInt = -MaxInt - 1 /\ MaxInt > 0
  BY DoubleForm, Ranges
<1>1. CASE 2 * MinInt < d /\ d < 2 * (MaxInt + 1)
  <2>1. Quo(d, 2) \in IntRange
    BY <1>0, <1>1, HalfOf, Ranges
  <2>2. DoubleToInt64Checked(d) = Int64(Quo(d, 2))
    BY <1>0, <1>1, Ends DEF DoubleToInt64Checked
  <2>3. Checked(Int64(Quo(d, 2)), Quo(d, 2), IntRange)
    BY <2>1, Unwrapped
  <2> QED
    BY <1>1, <2>1, <2>2, <2>3 DEF Checked
<1>2. CASE ~(2 * MinInt < d /\ d < 2 * (MaxInt + 1))
  <2>1. DoubleToInt64Checked(d) = Fail
    BY <1>0, <1>2, Ends DEF DoubleToInt64Checked
  <2>2. Quo(d, 2) \notin IntRange \/ d \in {Double(MinInt), Double(MaxInt)}
    <3> SUFFICES ASSUME d # 2 * MinInt, d # 2 * (MaxInt + 1) PROVE Quo(d, 2) \notin IntRange
      BY Ends
    <3>1. d < 2 * MinInt \/ d > 2 * MaxInt
      BY <1>0, <1>2
    <3>2. PICK q \in Int : d = 2 * q
      BY <3>1, LargeEven
    <3>3. Quo(d, 2) = q
      BY <1>0, <3>2, HalfOf
    <3> QED
      BY <1>0, <1>2, <3>2, <3>3, Ranges
  <2> QED
    BY <1>2, <2>1, <2>2 DEF Fail
<1> QED
  BY <1>1, <1>2

LEMMA DoubleToUint ==
    ASSUME NEW d \in Doubles
    PROVE  /\ DoubleToUint64Checked(d).ok <=> 0 <= d /\ d < 2 * (MaxUint + 1)
           /\ DoubleToUint64Checked(d).ok =>
                 DoubleToUint64Checked(d).n = Quo(d, 2) /\ Quo(d, 2) \in UintRange
           /\ ~DoubleToUint64Checked(d).ok => Quo(d, 2) \notin UintRange \/ d < 0
<1>0. d \in Int /\ MaxUint \in Nat
  BY DoubleForm, Ranges
<1>1. CASE 0 <= d /\ d < 2 * (MaxUint + 1)
  <2>1. Quo(d, 2) \in UintRange
    BY <1>0, <1>1, HalfOf, Ranges
  <2>2. DoubleToUint64Checked(d) = Uint64(Quo(d, 2))
    BY <1>0, <1>1 DEF DoubleToUint64Checked
  <2>3. Checked(Uint64(Quo(d, 2)), Quo(d, 2), UintRange)
    BY <2>1, Unwrapped
  <2> QED
    BY <1>1, <2>1, <2>2, <2>3 DEF Checked
<1>2. CASE ~(0 <= d /\ d < 2 * (MaxUint + 1))
  <2>1. DoubleToUint64Checked(d) = Fail
    BY <1>0, <1>2 DEF DoubleToUint64Checked
  <2>2. Quo(d, 2) \notin UintRange \/ d < 0
    BY <1>0, <1>2, HalfOf, Ranges
  <2> QED
    BY <1>2, <2>1, <2>2 DEF Fail
<1> QED
  BY <1>1, <1>2

\* Ints and uints are converted to one another where both have the number.
LEMMA IntegerConversions ==
    /\ \A i \in IntRange : Checked(Int64ToUint64Checked(i), i, UintRange)
    /\ \A u \in UintRange : Checked(Uint64ToInt64Checked(u), u, IntRange)
<1>1. ASSUME NEW i \in IntRange PROVE Checked(Int64ToUint64Checked(i), i, UintRange)
  <2>1. CASE i < 0
    BY <2>1, Refused, Ranges DEF Int64ToUint64Checked
  <2>2. CASE ~(i < 0)
    <3>1. i \in UintRange
      BY <2>2, Ranges
    <3> QED
      BY <2>2, <3>1, Unwrapped DEF Int64ToUint64Checked
  <2> QED
    BY <2>1, <2>2
<1>2. ASSUME NEW u \in UintRange PROVE Checked(Uint64ToInt64Checked(u), u, IntRange)
  <2>1. CASE u > MaxInt
    BY <2>1, Refused, Ranges DEF Uint64ToInt64Checked
  <2>2. CASE ~(u > MaxInt)
    <3>1. u \in IntRange
      BY <2>2, Ranges
    <3> QED
      BY <2>2, <3>1, Unwrapped DEF Uint64ToInt64Checked
  <2> QED
    BY <2>1, <2>2
<1> QED
  BY <1>1, <1>2

\* A conversion that goes by a checked result r: the number it gives, or an error.
LEMMA ByChecked ==
    ASSUME NEW x \in Numbers, x # NaN, NEW kind \in {"int", "uint"}, x.kind # kind,
           NEW r, r = (IF x.kind = "double"
                       THEN IF kind = "int" THEN DoubleToInt64Checked(x.n)
                                            ELSE DoubleToUint64Checked(x.n)
                       ELSE IF kind = "int" THEN Uint64ToInt64Checked(x.n)
                                            ELSE Int64ToUint64Checked(x.n))
    PROVE  ConvertToType(x, kind) = IF r.ok THEN Number(kind, r.n) ELSE ErrorV
BY DEF ConvertToType

LEMMA Conversions ==
    ASSUME NEW x \in Numbers, NEW kind \in {"int", "uint"}
    PROVE  /\ ConvertedExactly(x, kind)
           /\ ConvertToType(x, kind) \in Numbers \cup {ErrorV}
<1> DEFINE y == ConvertToType(x, kind)
           range == IF kind = "int" THEN IntRange ELSE UintRange
           Ends2 == {Double(MinInt), Double(MaxInt), Infinity, -Infinity}
<1>0. ASSUME NEW n PROVE Number(kind, n) # ErrorV /\ Number(kind, n).n = n
  BY DEF Number, ErrorV
<1>1. \A n \in range : Number(kind, n) \in Numbers
  BY DEF Numbers, IntV, UintV
<1>2. CASE x = NaN
  <2>1. y = ErrorV
    BY <1>2, NumberFields DEF ConvertToType
  <2> QED
    BY <1>2, <2>1 DEF ConvertedExactly
<1>3. CASE x # NaN /\ x.kind = kind
  <2>1. y = x /\ x.n \in range /\ x.n \in Int
    BY <1>3, NumberCases, Ranges DEF ConvertToType
  <2>2. Halves(x) = 2 * x.n
    BY <1>3, HalvesType
  <2>3. Quo(Halves(x), 2) = x.n
    BY <2>1, <2>2, HalfOf
  <2>4. x # ErrorV
    BY <1>3, NumberFields
  <2> QED
    BY <1>3, <2>1, <2>3, <2>4 DEF ConvertedExactly
<1>4. CASE x # NaN /\ x.kind # kind /\ x.kind # "double"
  <2>1. PICK r : /\ y = IF r.ok THEN Number(kind, r.n) ELSE ErrorV
                 /\ Checked(r, x.n, range)
    <3>1. CASE kind = "int"
      <4>1. x.n \in UintRange /\ Checked(Uint64ToInt64Checked(x.n), x.n, IntRange)
        BY <1>4, <3>1, NumberCases, IntegerConversions
      <4>2. y = IF Uint64ToInt64Checked(x.n).ok THEN Number(kind, Uint64ToInt64Checked(x.n).n)
                ELSE ErrorV
        BY <1>4, <3>1, ByChecked
      <4> QED
        BY <3>1, <4>1, <4>2
    <3>2. CASE kind = "uint"
      <4>1. x.n \in IntRange /\ Checked(Int64ToUint64Checked(x.n), x.n, UintRange)
        BY <1>4, <3>2, NumberCases, IntegerConversions
      <4>2. y = IF Int64ToUint64Checked(x.n).ok THEN Number(kind, Int64ToUint64Checked(x.n).n)
                ELSE ErrorV
        BY <1>4, <3>2, ByChecked
      <4> QED
        BY <3>2, <4>1, <4>2
    <3> QED
      BY <3>1, <3>2
  <2>2. Halves(x) = 2 * x.n /\ x.n \in Int
    BY <1>4, HalvesType
  <2>3. Quo(Halves(x), 2) = x.n
    BY <2>2, HalfOf
  <2>4. /\ y # ErrorV => y.n = x.n /\ x.n \in range /\ y \in Numbers
        /\ y = ErrorV => x.n \notin range
    BY <1>0, <1>1, <2>1 DEF Checked
  <2> QED
    BY <1>4, <2>3, <2>4 DEF ConvertedExactly
<1>5. CASE x # NaN /\ x.kind # kind /\ x.kind = "double"
  <2>1. x.n \in Doubles /\ Halves(x) = x.n
    BY <1>5, NumberCases, HalvesType
  <2>2. /\ y # ErrorV => y.n = Quo(x.n, 2) /\ Quo(x.n, 2) \in range /\ y \in Numbers
        /\ y = ErrorV => \/ Quo(x.n, 2) \notin range
                         \/ x.n \in Ends2 \/ (kind = "uint" /\ x.n < 0)
    <3>1. CASE kind = "int"
      <4>1. y = IF DoubleToInt64Checked(x.n).ok THEN Number(kind, DoubleToInt64Checked(x.n).n)
                ELSE ErrorV
        BY <1>5, <3>1, ByChecked
      <4> QED
        BY <1>0, <1>1, <2>1, <3>1, <4>1, DoubleToInt
    <3>2. CASE kind = "uint"
      <4>1. y = IF DoubleToUint64Checked(x.n).ok THEN Number(kind, DoubleToUint64Checked(x.n).n)
                ELSE ErrorV
        BY <1>5, <3>2, ByChecked
      <4> QED
        BY <1>0, <1>1, <2>1, <3>2, <4>1, DoubleToUint
    <3> QED
      BY <3>1, <3>2
  <2> QED
    BY <1>5, <2>1, <2>2 DEF ConvertedExactly
<1> QED
  BY <1>2, <1>3, <1>4, <1>5

LEMMA ToDouble ==
    ASSUME NEW x \in Numbers
    PROVE  ConvertToType(x, "double") \in Numbers
<1>1. CASE x = NaN \/ x.kind = "double"
  BY <1>1 DEF ConvertToType
<1>2. CASE x # NaN /\ x.kind # "double"
  <2>1. ConvertToType(x, "double") = DoubleV(Double(x.n))
    BY <1>2 DEF ConvertToType
  <2>2. x.n \in Integral
    BY <1>2, NumberCases, Ends
  <2> QED
    BY <2>1, <2>2, DoubleInDoubles DEF Numbers
<1> QED
  BY <1>1, <1>2

NumberTyped == number \in Numbers \cup {ErrorV}

LEMMA StepNumber == NumberTyped /\ [NumericNext]_<<numberVars, mapVars>> => NumberTyped'
<1> SUFFICES ASSUME NumberTyped, [NumericNext]_<<numberVars, mapVars>> PROVE NumberTyped'
  OBVIOUS
<1>1. CASE ConvertNumber
  <2>1. PICK kind \in NumberTypes : number' = ConvertToType(number, kind)
    BY <1>1 DEF ConvertNumber
  <2>2. number \in Numbers
    BY <1>1 DEF ConvertNumber, NumberTyped
  <2> QED
    BY <2>1, <2>2, Conversions, ToDouble DEF NumberTyped, NumberTypes
<1>2. CASE InsertEntry \/ UNCHANGED <<numberVars, mapVars>>
  BY <1>2 DEF InsertEntry, numberVars, NumberTyped
<1> QED
  BY <1>1, <1>2 DEF NumericNext

\* Whatever a number has been converted from, it is compared with every number of every
\* type as the number it is, but for ties of an integer and the double it rounds to, and
\* it is converted to integers by dropping its half (compare.go, overflow.go).
THEOREM OrderIsCoherent == NumericSpec => []OrderCoherent
<1>1. NumericInit => NumberTyped
  BY DEF NumericInit, NumberTyped
<1>2. NumberTyped => OrderCoherent
  BY Comparisons, Conversions DEF NumberTyped, OrderCoherent
<1> QED
  BY <1>1, <1>2, StepNumber, PTL DEF NumericSpec
-----------------------------------------------------------------------------
(* The keys that are tried for a number.                                   *)

InSeq(x, s) == \E i \in 1..Len(s) : s[i] = x

LEMMA InConcat ==
    ASSUME NEW S, NEW a \in Seq(S), NEW b \in Seq(S), NEW x
    PROVE  /\ a \o b \in Seq(S)
           /\ InSeq(x, a \o b) <=> InSeq(x, a) \/ InSeq(x, b)
<1>1. /\ a \o b \in Seq(S) /\ Len(a \o b) = Len(a) + Len(b)
      /\ Len(a) \in Nat /\ Len(b) \in Nat
      /\ \A i \in 1..Len(a) + Len(b) :
            (a \o b)[i] = IF i <= Len(a) THEN a[i] ELSE b[i - Len(a)]
  OBVIOUS
<1>2. ASSUME InSeq(x, a \o b) PROVE InSeq(x, a) \/ InSeq(x, b)
  <2>1. PICK i \in 1..Len(a) + Len(b) : (a \o b)[i] = x
    BY <1>1, <1>2 DEF InSeq
  <2>2. CASE i <= Len(a)
    BY <1>1, <2>1, <2>2 DEF InSeq
  <2>3. CASE ~(i <= Len(a))
    <3>1. i - Len(a) \in 1..Len(b) /\ b[i - Len(a)] = x
      BY <1>1, <2>1, <2>3
    <3> QED
      BY <3>1 DEF InSeq
  <2> QED
    BY <2>2, <2>3
<1>3. ASSUME InSeq(x, a) PROVE InSeq(x, a \o b)
  <2>1. PICK i \in 1..Len(a) : a[i] = x
    BY <1>3 DEF InSeq
  <2>2. i \in 1..Len(a \o b) /\ (a \o b)[i] = x
    BY <1>1, <2>1
  <2> QED
    BY <2>2 DEF InSeq
<1>4. ASSUME InSeq(x, b) PROVE InSeq(x, a \o b)
  <2>1. PICK i \in 1..Len(b) : b[i] = x
    BY <1>4 DEF InSeq
  <2>2. Len(a) + i \in 1..Len(a \o b) /\ (a \o b)[Len(a) + i] = x
    BY <1>1, <2>1
  <2> QED
    BY <2>2 DEF InSeq
<1> QED
  BY <1>1, <1>2, <1>3, <1>4

LEMMA InOne ==
    ASSUME NEW x, NEW y
    PROVE  ~InSeq(x, <<>>) /\ (InSeq(x, <<y>>) <=> x = y)
<1>1. Len(<<y>>) = 1 /\ <<y>>[1] = y /\ Len(<<>>) = 0
  OBVIOUS
<1> QED
  BY <1>1 DEF InSeq

\* What a lookup finds is the entry of a key that is tried.
LEMMA LookupFinds ==
    ASSUME NEW m, NEW S, NEW ks \in Seq(S)
    PROVE  \/ /\ Lookup(m, ks) = NotFound
              /\ \A x : InSeq(x, ks) => x \notin DOMAIN m.entries
           \/ \E x \in DOMAIN m.entries :
                 InSeq(x, ks) /\ Lookup(m, ks) = [found |-> TRUE, val |-> m.entries[x]]
<1> DEFINE hits == {i \in DOMAIN ks : ks[i] \in DOMAIN m.entries}
           first == CHOOSE i \in hits : \A j \in hits : i <= j
<1>1. DOMAIN ks = 1..Len(ks) /\ Len(ks) \in Nat
  OBVIOUS
<1>2. CASE hits = {}
  <2>1. Lookup(m, ks) = NotFound
    BY <1>2 DEF Lookup
  <2>2. \A x : InSeq(x, ks) => x \notin DOMAIN m.entries
    BY <1>1, <1>2 DEF InSeq
  <2> QED
    BY <2>1, <2>2
<1>3. CASE hits # {}
  <2>1. Lookup(m, ks) = [found |-> TRUE, val |-> m.entries[ks[first]]]
    BY <1>3 DEF Lookup
  <2>2. hits \in SUBSET Nat
    BY <1>1
  <2>3. first \in hits
    <3> HIDE DEF hits
    <3>1. \E i \in hits : \A j \in hits : i <= j
      BY <1>3, <2>2, LeastNatural
    <3> QED
      BY <3>1
  <2> HIDE DEF first
  <2>4. ks[first] \in DOMAIN m.entries /\ InSeq(ks[first], ks)
    BY <1>1, <2>3 DEF InSeq
  <2> QED
    BY <2>1, <2>4
<1> QED
  BY <1>2, <1>3

\* The double of an integer that is the double itself is twice that integer.
LEMMA LosslessIs ==
    ASSUME NEW d \in Doubles, NEW r, NEW S \in SUBSET Integral,
           r.ok => r.n = Quo(d, 2) /\ Quo(d, 2) \in S
    PROVE  /\ Lossless(r, d).ok => Lossless(r, d).n \in S /\ d = 2 * Lossless(r, d).n
           /\ \A n \in S : d = 2 * n /\ r.ok => Lossless(r, d).ok /\ Lossless(r, d).n = n
<1>0. d \in Int
  BY DoubleForm
<1>1. ASSUME Lossless(r, d).ok
      PROVE  Lossless(r, d).n \in S /\ d = 2 * Lossless(r, d).n
  <2>1. Lossless(r, d) = r /\ r.ok /\ Double(r.n) = d
    BY <1>1 DEF Lossless, Fail
  <2>2. r.n \in S /\ r.n \in Integral /\ r.n = Quo(d, 2)
    BY <2>1
  <2>3. PICK q \in Int : d = 2 * q
    BY <2>1, <2>2, DoubleEven
  <2>4. Quo(d, 2) = q
    BY <1>0, <2>3, HalfOf
  <2> QED
    BY <2>1, <2>2, <2>3, <2>4
<1>2. ASSUME NEW n \in S, d = 2 * n, r.ok
      PROVE  Lossless(r, d).ok /\ Lossless(r, d).n = n
  <2>1. n \in Integral /\ n \in Int
    BY Ranges DEF Integral
  <2>2. r.n = n
    BY <1>0, <1>2, <2>1, HalfOf
  <2>3. Double(n) = d
    BY <1>2, <2>1, Nearest
  <2> QED
    BY <1>2, <2>2, <2>3 DEF Lossless
<1> QED
  BY <1>1, <1>2

LEMMA SameAs ==
    ASSUME NEW k \in Numbers, k # NaN, NEW n \in Int
    PROVE  /\ SameNumber(IntV(n), k) <=> Halves(k) = 2 * n
           /\ SameNumber(UintV(n), k) <=> Halves(k) = 2 * n
           /\ SameNumber(k, IntV(n)) <=> Halves(k) = 2 * n
<1>1. IntV(n) # NaN /\ UintV(n) # NaN /\ Halves(IntV(n)) = 2 * n /\ Halves(UintV(n)) = 2 * n
  BY NumberFields DEF Halves
<1> QED
  BY <1>1 DEF SameNumber

LEMMA IntKeys ==
    ASSUME NEW k \in Numbers
    PROVE  /\ ToInt64Key(k) \in Seq(Numbers)
           /\ \A x : InSeq(x, ToInt64Key(k)) => SameNumber(x, k)
           /\ k # LeastDouble => \A n \in IntRange :
                 SameNumber(IntV(n), k) => InSeq(IntV(n), ToInt64Key(k))
<1>1. CASE k = NaN
  <2>1. ToInt64Key(k) = <<>>
    BY <1>1, NumberFields DEF ToInt64Key
  <2>2. \A x : ~InSeq(x, ToInt64Key(k)) /\ ~SameNumber(x, k)
    BY <1>1, <2>1, InOne DEF SameNumber
  <2>3. ToInt64Key(k) \in Seq(Numbers)
    BY <2>1
  <2> QED
    BY <2>2, <2>3
<1>2. CASE k # NaN /\ k.kind = "int"
  <2>1. ToInt64Key(k) = <<k>> /\ k = IntV(k.n) /\ k.n \in Int /\ Halves(k) = 2 * k.n
    BY <1>2, NumberCases, HalvesType DEF ToInt64Key
  <2>2. ASSUME NEW n \in IntRange, SameNumber(IntV(n), k) PROVE IntV(n) = k
    BY <1>2, <2>1, <2>2, SameAs, Ranges
  <2>3. SameNumber(k, k) /\ <<k>> \in Seq(Numbers)
    BY <1>2 DEF SameNumber
  <2>4. \A x : InSeq(x, ToInt64Key(k)) <=> x = k
    BY <2>1, InOne
  <2>5. \A x : InSeq(x, ToInt64Key(k)) => SameNumber(x, k)
    BY <2>3, <2>4
  <2>6. \A n \in IntRange : SameNumber(IntV(n), k) => InSeq(IntV(n), ToInt64Key(k))
    BY <2>2, <2>4
  <2>7. ToInt64Key(k) \in Seq(Numbers)
    BY <2>1, <2>3
  <2> QED
    BY <2>5, <2>6, <2>7
<1> DEFINE r == IF k.kind = "uint" THEN Uint64ToInt64Checked(k.n)
                ELSE DoubleToInt64Lossless(k.n)
<1>3. ASSUME k # NaN, k.kind # "int"
      PROVE  /\ r.ok => r.n \in IntRange /\ Halves(k) = 2 * r.n
             /\ k # LeastDouble =>
                   \A n \in IntRange : Halves(k) = 2 * n => r.ok /\ r.n = n
  <2>1. CASE k.kind = "uint"
    <3>1. Checked(r, k.n, IntRange)
      BY <1>3, <2>1, NumberCases, IntegerConversions
    <3>2. Halves(k) = 2 * k.n /\ k.n \in Int
      BY <1>3, <2>1, HalvesType
    <3> QED
      BY <3>1, <3>2, Ranges DEF Checked
  <2>2. CASE k.kind # "uint"
    <3>1. k = DoubleV(k.n) /\ k.n \in Doubles /\ Halves(k) = k.n /\ k.n \in Int
      BY <1>3, <2>2, NumberCases, HalvesType
    <3>2. r = Lossless(DoubleToInt64Checked(k.n), k.n)
      BY <2>2 DEF DoubleToInt64Lossless
    <3>3. IntRange \in SUBSET Integral
      BY Ends
    <3>4. /\ r.ok => r.n \in IntRange /\ k.n = 2 * r.n
          /\ \A n \in IntRange :
                k.n = 2 * n /\ DoubleToInt64Checked(k.n).ok => r.ok /\ r.n = n
      <4>1. PICK c : c = DoubleToInt64Checked(k.n)
        OBVIOUS
      <4>2. c.ok => c.n = Quo(k.n, 2) /\ Quo(k.n, 2) \in IntRange
        BY <3>1, <4>1, DoubleToInt
      <4>3. r = Lossless(c, k.n)
        BY <3>2, <4>1
      <4>4. /\ Lossless(c, k.n).ok =>
                  Lossless(c, k.n).n \in IntRange /\ k.n = 2 * Lossless(c, k.n).n
            /\ \A n \in IntRange : k.n = 2 * n /\ c.ok =>
                  Lossless(c, k.n).ok /\ Lossless(c, k.n).n = n
        BY <3>1, <3>3, <4>2, LosslessIs
      <4> HIDE DEF r
      <4> QED
        BY <4>1, <4>3, <4>4
    <3>5. ASSUME NEW n \in IntRange, k.n = 2 * n, k # LeastDouble
          PROVE  DoubleToInt64Checked(k.n).ok
      <4>1. k.n # 2 * MinInt
        BY <3>1, <3>5 DEF LeastDouble
      <4>2. 2 * MinInt < k.n /\ k.n < 2 * (MaxInt + 1)
        BY <3>5, <4>1, Ranges
      <4> QED
        BY <3>1, <4>2, DoubleToInt
    <3> QED
      BY <3>1, <3>4, <3>5
  <2> QED
    BY <2>1, <2>2
<1>4. CASE k # NaN /\ k.kind # "int"
  <2>1. ToInt64Key(k) = IF r.ok THEN <<IntV(r.n)>> ELSE <<>>
    BY <1>4, NumberCases DEF ToInt64Key, As, IntV
  <2> HIDE DEF r
  <2>2. \A n \in IntRange : IntV(n) \in Numbers /\ n \in Int
    BY Ranges DEF Numbers
  <2>3. ToInt64Key(k) \in Seq(Numbers)
    BY <1>3, <1>4, <2>1, <2>2
  <2>4. ASSUME NEW x, InSeq(x, ToInt64Key(k)) PROVE SameNumber(x, k)
    <3>1. r.ok /\ x = IntV(r.n)
      BY <2>1, <2>4, InOne
    <3>2. r.n \in Int /\ Halves(k) = 2 * r.n
      BY <1>3, <1>4, <2>2, <3>1
    <3> QED
      BY <1>4, <3>1, <3>2, SameAs
  <2>5. ASSUME k # LeastDouble, NEW n \in IntRange, SameNumber(IntV(n), k)
        PROVE  InSeq(IntV(n), ToInt64Key(k))
    <3>1. Halves(k) = 2 * n
      BY <1>4, <2>2, <2>5, SameAs
    <3>2. r.ok /\ r.n = n
      BY <1>3, <1>4, <2>5, <3>1
    <3> QED
      BY <2>1, <3>2, InOne
  <2> QED
    BY <2>3, <2>4, <2>5
<1> QED
  BY <1>1, <1>2, <1>4

LEMMA UintKeys ==
    ASSUME NEW k \in Numbers
    PROVE  /\ ToUint64Key(k) \in Seq(Numbers)
           /\ \A x : InSeq(x, ToUint64Key(k)) => SameNumber(x, k)
           /\ \A n \in UintRange :
                 SameNumber(UintV(n), k) => InSeq(UintV(n), ToUint64Key(k))
<1>1. CASE k = NaN
  <2>1. ToUint64Key(k) = <<>>
    BY <1>1, NumberFields DEF ToUint64Key
  <2>2. \A x : ~InSeq(x, ToUint64Key(k)) /\ ~SameNumber(x, k)
    BY <1>1, <2>1, InOne DEF SameNumber
  <2>3. ToUint64Key(k) \in Seq(Numbers)
    BY <2>1
  <2> QED
    BY <2>2, <2>3
<1>2. CASE k # NaN /\ k.kind = "uint"
  <2>1. ToUint64Key(k) = <<k>> /\ k = UintV(k.n) /\ k.n \in Int /\ Halves(k) = 2 * k.n
    BY <1>2, NumberCases, HalvesType DEF ToUint64Key
  <2>2. ASSUME NEW n \in UintRange, SameNumber(UintV(n), k) PROVE UintV(n) = k
    BY <1>2, <2>1, <2>2, SameAs, Ranges
  <2>3. SameNumber(k, k) /\ <<k>> \in Seq(Numbers)
    BY <1>2 DEF SameNumber
  <2>4. \A x : InSeq(x, ToUint64Key(k)) <=> x = k
    BY <2>1, InOne
  <2>5. \A x : InSeq(x, ToUint64Key(k)) => SameNumber(x, k)
    BY <2>3, <2>4
  <2>6. \A n \in UintRange : SameNumber(UintV(n), k) => InSeq(UintV(n), ToUint64Key(k))
    BY <2>2, <2>4
  <2>7. ToUint64Key(k) \in Seq(Numbers)
    BY <2>1, <2>3
  <2> QED
    BY <2>5, <2>6, <2>7
<1> DEFINE r == IF k.kind = "int" THEN Int64ToUint64Checked(k.n)
                ELSE DoubleToUint64Lossless(k.n)
<1>3. ASSUME k # NaN, k.kind # "uint"
      PROVE  /\ r.ok => r.n \in UintRange /\ Halves(k) = 2 * r.n
             /\ \A n \in UintRange : Halves(k) = 2 * n => r.ok /\ r.n = n
  <2>1. CASE k.kind = "int"
    <3>1. Checked(r, k.n, UintRange)
      BY <1>3, <2>1, NumberCases, IntegerConversions
    <3>2. Halves(k) = 2 * k.n /\ k.n \in Int
      BY <1>3, <2>1, HalvesType
    <3> QED
      BY <3>1, <3>2, Ranges DEF Checked
  <2>2. CASE k.kind # "int"
    <3>1. k.n \in Doubles /\ Halves(k) = k.n /\ k.n \in Int
      BY <1>3, <2>2, NumberCases, HalvesType
    <3>2. r = Lossless(DoubleToUint64Checked(k.n), k.n)
      BY <2>2 DEF DoubleToUint64Lossless
    <3>3. UintRange \in SUBSET Integral
      BY Ends
    <3>4. /\ r.ok => r.n \in UintRange /\ k.n = 2 * r.n
          /\ \A n \in UintRange :
                k.n = 2 * n /\ DoubleToUint64Checked(k.n).ok => r.ok /\ r.n = n
      <4>1. PICK c : c = DoubleToUint64Checked(k.n)
        OBVIOUS
      <4>2. c.ok => c.n = Quo(k.n, 2) /\ Quo(k.n, 2) \in UintRange
        BY <3>1, <4>1, DoubleToUint
      <4>3. r = Lossless(c, k.n)
        BY <3>2, <4>1
      <4>4. /\ Lossless(c, k.n).ok =>
                  Lossless(c, k.n).n \in UintRange /\ k.n = 2 * Lossless(c, k.n).n
            /\ \A n \in UintRange : k.n = 2 * n /\ c.ok =>
                  Lossless(c, k.n).ok /\ Lossless(c, k.n).n = n
        BY <3>1, <3>3, <4>2, LosslessIs
      <4> HIDE DEF r
      <4> QED
        BY <4>1, <4>3, <4>4
    <3>5. ASSUME NEW n \in UintRange, k.n = 2 * n PROVE DoubleToUint64Checked(k.n).ok
      <4>1. 0 <= k.n /\ k.n < 2 * (MaxUint + 1)
        BY <3>5, Ranges
      <4> QED
        BY <3>1, <4>1, DoubleToUint
    <3> QED
      BY <3>1, <3>4, <3>5
  <2> QED
    BY <2>1, <2>2
<1>4. CASE k # NaN /\ k.kind # "uint"
  <2>1. ToUint64Key(k) = IF r.ok THEN <<UintV(r.n)>> ELSE <<>>
    BY <1>4, NumberCases DEF ToUint64Key, As, UintV
  <2> HIDE DEF r
  <2>2. \A n \in UintRange : UintV(n) \in Numbers /\ n \in Int
    BY Ranges DEF Numbers
  <2>3. ToUint64Key(k) \in Seq(Numbers)
    BY <1>3, <1>4, <2>1, <2>2
  <2>4. ASSUME NEW x, InSeq(x, ToUint64Key(k)) PROVE SameNumber(x, k)
    <3>1. r.ok /\ x = UintV(r.n)
      BY <2>1, <2>4, InOne
    <3>2. r.n \in Int /\ Halves(k) = 2 * r.n
      BY <1>3, <1>4, <2>2, <3>1
    <3> QED
      BY <1>4, <3>1, <3>2, SameAs
  <2>5. ASSUME NEW n \in UintRange, SameNumber(UintV(n), k)
        PROVE  InSeq(UintV(n), ToUint64Key(k))
    <3>1. Halves(k) = 2 * n
      BY <1>4, <2>2, <2>5, SameAs
    <3>2. r.ok /\ r.n = n
      BY <1>3, <1>4, <3>1
    <3> QED
      BY <2>1, <3>2, InOne
  <2> QED
    BY <2>3, <2>4, <2>5
<1> QED
  BY <1>1, <1>2, <1>4

-----------------------------------------------------------------------------
(* Maps.                                                                   *)

MapTyped(m) ==
    /\ m.keyed \in {"any", "int", "uint"}
    /\ DOMAIN m.entries \subseteq MapKeys
    /\ m.keyed \in {"int", "uint"} => \A k \in DOMAIN m.entries : k.kind = m.keyed

\* The keys that Find looks up.
Tried(m, k) ==
    IF m.keyed = "any"
    THEN <<k>> \o (IF k.kind = "int" THEN <<>> ELSE ToInt64Key(k))
               \o (IF k.kind = "uint" THEN <<>> ELSE ToUint64Key(k))
    ELSE IF m.keyed = "int" THEN ToInt64Key(k) ELSE ToUint64Key(k)

LEMMA KeyCases ==
    ASSUME NEW j \in MapKeys
    PROVE  /\ j \in Numbers /\ j # NaN /\ j # LeastDouble
           /\ \/ j.kind = "int" /\ j = IntV(j.n) /\ j.n \in IntRange
              \/ j.kind = "uint" /\ j = UintV(j.n) /\ j.n \in UintRange
<1>1. j \in {IntV(n) : n \in IntRange} \union {UintV(n) : n \in UintRange}
  BY MapAssumption
<1>2. j \in Numbers
  BY <1>1 DEF Numbers
<1>3. \/ j.kind = "int" /\ j = IntV(j.n) /\ j.n \in IntRange
      \/ j.kind = "uint" /\ j = UintV(j.n) /\ j.n \in UintRange
  BY <1>1, NumberFields
<1> QED
  BY <1>2, <1>3, NumberFields DEF LeastDouble

\* Every key that is tried and that a map can have is the number, and the key of the
\* number that a map has is tried.
LEMMA TriedKeys ==
    ASSUME NEW m, MapTyped(m), NEW k \in Numbers
    PROVE  /\ Find(m, k) = Lookup(m, Tried(m, k)) /\ Tried(m, k) \in Seq(Numbers)
           /\ \A x \in MapKeys : InSeq(x, Tried(m, k)) => SameNumber(x, k)
           /\ k # LeastDouble => \A j \in DOMAIN m.entries :
                 SameNumber(j, k) => InSeq(j, Tried(m, k))
<1> DEFINE A == IF k.kind = "int" THEN <<>> ELSE ToInt64Key(k)
           B == IF k.kind = "uint" THEN <<>> ELSE ToUint64Key(k)
<1>1. Find(m, k) = Lookup(m, Tried(m, k))
  BY DEF Find, FindRefValKey, Tried
<1>2. /\ \A j \in DOMAIN m.entries : j \in MapKeys
      /\ \A j \in MapKeys : j.kind = "int" =>
            j = IntV(j.n) /\ j.n \in IntRange
      /\ \A j \in MapKeys : j.kind = "uint" =>
            j = UintV(j.n) /\ j.n \in UintRange
      /\ \A j \in MapKeys : j.kind \in {"int", "uint"} /\ j # NaN
  BY KeyCases DEF MapTyped
<1>3. CASE m.keyed = "int"
  <2>1. Tried(m, k) = ToInt64Key(k)
    BY <1>3 DEF Tried
  <2>2. \A j \in DOMAIN m.entries : j = IntV(j.n) /\ j.n \in IntRange
    BY <1>2, <1>3 DEF MapTyped
  <2> QED
    BY <1>1, <2>1, <2>2, IntKeys
<1>4. CASE m.keyed = "uint"
  <2>1. Tried(m, k) = ToUint64Key(k)
    BY <1>4 DEF Tried
  <2>2. \A j \in DOMAIN m.entries : j = UintV(j.n) /\ j.n \in UintRange
    BY <1>2, <1>4 DEF MapTyped
  <2> QED
    BY <1>1, <2>1, <2>2, UintKeys
<1>5. CASE m.keyed = "any"
  <2>1. Tried(m, k) = <<k>> \o A \o B
    BY <1>5 DEF Tried
  <2>2. A \in Seq(Numbers) /\ B \in Seq(Numbers) /\ <<k>> \in Seq(Numbers)
    BY IntKeys, UintKeys
  <2>3. <<k>> \o A \in Seq(Numbers) /\ (<<k>> \o A) \o B \in Seq(Numbers)
    BY <2>2
  <2>4. ASSUME NEW x
        PROVE  InSeq(x, Tried(m, k)) <=> x = k \/ InSeq(x, A) \/ InSeq(x, B)
    <3>1. InSeq(x, <<k>> \o A) <=> InSeq(x, <<k>>) \/ InSeq(x, A)
      BY <2>2, InConcat
    <3>2. InSeq(x, (<<k>> \o A) \o B) <=> InSeq(x, <<k>> \o A) \/ InSeq(x, B)
      BY <2>2, <2>3, InConcat, ZenonT(40)
    <3>3. InSeq(x, <<k>>) <=> x = k
      BY InOne
    <3> QED
      BY <2>1, <3>1, <3>2, <3>3
  <2>5. ASSUME NEW x \in MapKeys, InSeq(x, Tried(m, k)) PROVE SameNumber(x, k)
    <3>1. CASE x = k
      BY <1>2, <3>1 DEF SameNumber
    <3>2. CASE InSeq(x, A) \/ InSeq(x, B)
      BY <3>2, InOne, IntKeys, UintKeys
    <3> QED
      BY <2>4, <2>5, <3>1, <3>2
  <2>6. ASSUME k # LeastDouble, NEW j \in DOMAIN m.entries, SameNumber(j, k)
        PROVE  InSeq(j, Tried(m, k))
    <3>0. k # NaN /\ Halves(k) \in Int /\ k.n \in Int
      BY <2>6, HalvesType DEF SameNumber
    <3>1. CASE j.kind = "int"
      <4>1. j = IntV(j.n) /\ j.n \in IntRange /\ j.n \in Int
        BY <1>2, <3>1, Ranges
      <4>2. CASE k.kind = "int"
        <5>1. k = IntV(k.n) /\ Halves(k) = 2 * k.n
          BY <3>0, <4>2, NumberCases, HalvesType
        <5>2. Halves(k) = 2 * j.n
          BY <2>6, <3>0, <4>1, SameAs
        <5>3. j.n = k.n
          BY <3>0, <4>1, <5>1, <5>2
        <5> QED
          BY <2>4, <4>1, <5>1, <5>3
      <4>3. CASE k.kind # "int"
        <5>1. InSeq(j, ToInt64Key(k))
          BY <2>6, <4>1, IntKeys
        <5> QED
          BY <2>4, <4>3, <5>1
      <4> QED
        BY <4>2, <4>3
    <3>2. CASE j.kind = "uint"
      <4>1. j = UintV(j.n) /\ j.n \in UintRange /\ j.n \in Int
        BY <1>2, <3>2, Ranges
      <4>2. CASE k.kind = "uint"
        <5>1. k = UintV(k.n) /\ Halves(k) = 2 * k.n
          BY <3>0, <4>2, NumberCases, HalvesType
        <5>2. Halves(k) = 2 * j.n
          BY <2>6, <3>0, <4>1, SameAs
        <5>3. j.n = k.n
          BY <3>0, <4>1, <5>1, <5>2
        <5> QED
          BY <2>4, <4>1, <5>1, <5>3
      <4>3. CASE k.kind # "uint"
        <5>1. InSeq(j, ToUint64Key(k))
          BY <2>6, <4>1, UintKeys
        <5> QED
          BY <2>4, <4>3, <5>1
      <4> QED
        BY <4>2, <4>3
    <3> QED
      BY <1>2, <3>1, <3>2
  <2> QED
    BY <1>1, <2>1, <2>3, <2>5, <2>6
<1> QED
  BY <1>3, <1>4, <1>5 DEF MapTyped

\* A key finds the entry of its number, and finds nothing only if there is none.
LEMMA FindsNumber ==
    ASSUME NEW m, MapTyped(m), NEW k \in Numbers
    PROVE  \/ /\ Find(m, k) = NotFound
              /\ k # LeastDouble => \A j \in DOMAIN m.entries : ~SameNumber(j, k)
           \/ \E j \in DOMAIN m.entries :
                 SameNumber(j, k) /\ Find(m, k) = [found |-> TRUE, val |-> m.entries[j]]
<1>1. \A j \in DOMAIN m.entries : j \in MapKeys
  BY DEF MapTyped
<1>2. /\ Find(m, k) = Lookup(m, Tried(m, k)) /\ Tried(m, k) \in Seq(Numbers)
      /\ \A x \in MapKeys : InSeq(x, Tried(m, k)) => SameNumber(x, k)
      /\ k # LeastDouble => \A j \in DOMAIN m.entries :
            SameNumber(j, k) => InSeq(j, Tried(m, k))
  BY TriedKeys
<1> QED
  BY <1>1, <1>2, LookupFinds

LEMMA SameEquivalence ==
    /\ \A x, y : SameNumber(x, y) => SameNumber(y, x)
    /\ \A x, y, z : SameNumber(x, y) /\ SameNumber(y, z) => SameNumber(x, z)
BY DEF SameNumber

LEMMA FindsRightly ==
    ASSUME NEW m, MapTyped(m), NEW k \in Numbers
    PROVE  FoundRightly(m, k)
<1>1. CASE Find(m, k) = NotFound
  <2>0. NotFound.found = FALSE
    BY DEF NotFound
  <2>1. ~Find(m, k).found
    BY <1>1, <2>0
  <2>2. k # LeastDouble => \A j \in DOMAIN m.entries : ~SameNumber(j, k)
    BY <2>1, FindsNumber
  <2> QED
    BY <2>1, <2>2 DEF FoundRightly
<1>2. ASSUME NEW j \in DOMAIN m.entries, SameNumber(j, k),
             Find(m, k) = [found |-> TRUE, val |-> m.entries[j]]
      PROVE  FoundRightly(m, k)
  BY <1>2 DEF FoundRightly
<1> QED
  BY <1>1, <1>2, FindsNumber

LEMMA FastPathAgrees ==
    ASSUME NEW m, MapTyped(m), NEW i \in IntRange
    PROVE  QualifyInt(m, i) = Find(m, IntV(i))
<1>1. i \in Int /\ IntV(i).kind = "int" /\ IntV(i).n = i
  BY NumberFields, Ranges
<1>2. CASE m.keyed = "uint"
  BY <1>2 DEF QualifyInt, FindInt64Key, NotFound
<1>3. CASE m.keyed = "int"
  <2>1. FindInt64Key(m, i) = Lookup(m, <<IntV(i)>> \o <<>>)
    BY <1>3 DEF FindInt64Key
  <2>2. Find(m, IntV(i)) = Lookup(m, <<IntV(i)>>)
    BY <1>1, <1>3 DEF Find, ToInt64Key
  <2>3. <<IntV(i)>> \o <<>> = <<IntV(i)>>
    OBVIOUS
  <2> QED
    BY <2>1, <2>2, <2>3 DEF QualifyInt
<1>4. CASE m.keyed = "any"
  <2> DEFINE rest == IF i >= 0 THEN <<UintV(i)>> ELSE <<>>
  <2>1. FindInt64Key(m, i) = Lookup(m, <<IntV(i)>> \o rest)
    BY <1>4 DEF FindInt64Key
  <2>2. ToUint64Key(IntV(i)) = rest
    <3>1. Checked(Int64ToUint64Checked(i), i, UintRange)
      BY IntegerConversions
    <3>2. Int64ToUint64Checked(i).ok <=> i >= 0
      BY <1>1, <3>1, Ranges DEF Checked
    <3>3. Int64ToUint64Checked(i).ok => Int64ToUint64Checked(i).n = i
      BY <3>1 DEF Checked
    <3>4. ToUint64Key(IntV(i)) = As("uint", Int64ToUint64Checked(i))
      BY <1>1 DEF ToUint64Key
    <3> QED
      BY <3>2, <3>3, <3>4 DEF As, UintV
  <2>3. Find(m, IntV(i)) = Lookup(m, <<IntV(i)>> \o <<>> \o rest)
    BY <1>1, <1>4, <2>2 DEF Find, FindRefValKey
  <2>4. <<IntV(i)>> \o <<>> = <<IntV(i)>>
    OBVIOUS
  <2> HIDE DEF rest
  <2> QED
    BY <2>1, <2>3, <2>4 DEF QualifyInt
<1> QED
  BY <1>2, <1>3, <1>4 DEF MapTyped

\* An insert keeps the keys apart.
LEMMA InsertKeepsClean ==
    ASSUME NEW m, MapTyped(m), Clean(m), NEW k \in MapKeys, NEW v
    PROVE  MapTyped(InsertMapKeyValue(m, k, v)) /\ Clean(InsertMapKeyValue(m, k, v))
<1>1. CASE Find(m, k).found
  BY <1>1 DEF InsertMapKeyValue
<1>2. CASE ~Find(m, k).found
  <2> DEFINE n == Extended(m, k, v)
  <2>1. InsertMapKeyValue(m, k, v) = n
    BY <1>2 DEF InsertMapKeyValue
  <2>2. n.keyed = "any" /\ DOMAIN n.entries = DOMAIN m.entries \cup {k}
    BY DEF Extended, Map
  <2>3. MapTyped(n)
    BY <2>2 DEF MapTyped
  <2>4. \A j \in DOMAIN m.entries : ~SameNumber(j, k)
    BY <1>2, FindsNumber, KeyCases
  <2>5. Clean(n)
    BY <2>2, <2>4, SameEquivalence DEF Clean
  <2> QED
    BY <2>1, <2>3, <2>5
<1> QED
  BY <1>1, <1>2

\* Maps without doubled keys are equal when they have the same entries.
LEMMA EqualIsSame ==
    ASSUME NEW m, NEW o, MapTyped(m), MapTyped(o), Clean(m), Clean(o)
    PROVE  MapEqual(m, o) <=> SameEntries(m, o)
<1> DEFINE M == DOMAIN m.entries
           O == DOMAIN o.entries
<1>0. IsFiniteSet(M) /\ IsFiniteSet(O)
  BY MapAssumption, FS_Subset DEF MapTyped
<1>1. \A j \in M \cup O : j \in Numbers /\ j # NaN /\ j # LeastDouble
  BY KeyCases DEF MapTyped
<1>2. ASSUME NEW j \in M
      PROVE  Find(o, j) = [found |-> TRUE, val |-> m.entries[j]]
                <=> \E k \in O : SameNumber(j, k) /\ m.entries[j] = o.entries[k]
  <2>1. ASSUME Find(o, j) = [found |-> TRUE, val |-> m.entries[j]]
        PROVE  \E k \in O : SameNumber(j, k) /\ m.entries[j] = o.entries[k]
    <3>1. Find(o, j).found /\ Find(o, j).val = m.entries[j]
      BY <2>1
    <3>2. FoundRightly(o, j)
      BY <1>1, FindsRightly
    <3> QED
      BY <3>1, <3>2, SameEquivalence DEF FoundRightly
  <2>2. ASSUME NEW k \in O, SameNumber(j, k), m.entries[j] = o.entries[k]
        PROVE  Find(o, j) = [found |-> TRUE, val |-> m.entries[j]]
    <3>1. SameNumber(k, j)
      BY <2>2, SameEquivalence
    <3>2. PICK i \in O : SameNumber(i, j)
                         /\ Find(o, j) = [found |-> TRUE, val |-> o.entries[i]]
      BY <1>1, <3>1, FindsNumber
    <3>3. i = k
      BY <2>2, <3>2, SameEquivalence DEF Clean
    <3> QED
      BY <2>2, <3>2, <3>3
  <2> QED
    BY <2>1, <2>2
<1> DEFINE Into == \A j \in M : \E k \in O : SameNumber(j, k) /\ m.entries[j] = o.entries[k]
           Back == \A k \in O : \E j \in M : SameNumber(k, j) /\ o.entries[k] = m.entries[j]
<1>3. SameEntries(m, o) <=> Into /\ Back
  BY DEF SameEntries
<1>4. MapEqual(m, o) <=> Cardinality(M) = Cardinality(O) /\ Into
  BY <1>2 DEF MapEqual
<1>5. ASSUME Into, Cardinality(M) = Cardinality(O) PROVE Back
  <2> DEFINE f == [j \in M |-> CHOOSE k \in O : SameNumber(j, k) /\ m.entries[j] = o.entries[k]]
  <2>1. \A j \in M : f[j] \in O /\ SameNumber(j, f[j]) /\ m.entries[j] = o.entries[f[j]]
    BY <1>5
  <2>2. f \in [M -> O]
    BY <2>1
  <2> HIDE DEF f
  <2>3. \A a, b \in M : f[a] = f[b] => a = b
    BY <2>1, SameEquivalence DEF Clean
  <2> HIDE DEF M, O
  <2>4. f \in Injection(M, O)
    BY <2>2, <2>3 DEF Injection, IsInjective
  <2>5. f \in Surjection(M, O)
    BY <1>0, <1>5, <2>4, FS_Injection
  <2>6. \A k \in O : \E j \in M : f[j] = k
    BY <2>5 DEF Surjection
  <2> QED
    BY <2>1, <2>6, SameEquivalence
<1>6. ASSUME Into, Back PROVE Cardinality(M) = Cardinality(O)
  <2> DEFINE f == [j \in M |-> CHOOSE k \in O : SameNumber(j, k)]
             g == [k \in O |-> CHOOSE j \in M : SameNumber(k, j)]
  <2>1. \A j \in M : f[j] \in O /\ SameNumber(j, f[j])
    BY <1>6
  <2>2. \A k \in O : g[k] \in M /\ SameNumber(k, g[k])
    BY <1>6
  <2>3. f \in [M -> O] /\ g \in [O -> M]
    BY <2>1, <2>2
  <2> HIDE DEF f, g
  <2>4. \A a, b \in M : f[a] = f[b] => a = b
    BY <2>1, SameEquivalence DEF Clean
  <2>5. \A a, b \in O : g[a] = g[b] => a = b
    BY <2>2, SameEquivalence DEF Clean
  <2> HIDE DEF M, O
  <2>6. f \in Injection(M, O) /\ g \in Injection(O, M)
    BY <2>3, <2>4, <2>5 DEF Injection, IsInjective
  <2>7. Cardinality(M) <= Cardinality(O) /\ Cardinality(O) <= Cardinality(M)
    BY <1>0, <2>6, FS_Injection
  <2>8. Cardinality(M) \in Nat /\ Cardinality(O) \in Nat
    BY <1>0, FS_CardinalityType
  <2> QED
    BY <2>7, <2>8
<1> HIDE DEF M, O, Into, Back
<1> QED
  BY <1>3, <1>4, <1>5, <1>6

LEMMA SameEntriesSymmetric ==
    ASSUME NEW m, NEW o
    PROVE  SameEntries(m, o) <=> SameEntries(o, m)
BY DEF SameEntries

\* A list is indexed by the number that the index is.
LEMMA IndexIsNumber ==
    ASSUME NEW x \in Numbers, NEW size \in 0 .. MaxEntries + 1
    PROVE  Get(size, x).ok <=> \E i \in 0 .. size - 1 : SameNumber(x, IntV(i))
<1>0. /\ size \in Int /\ size - 1 <= MaxInt /\ MaxInt \in Int
      /\ \A i \in 0 .. size - 1 : i \in Int /\ i \in IntRange /\ 0 <= i /\ i < size
  BY MapAssumption, Ranges
<1>1. ASSUME x # NaN
      PROVE  /\ GetOrError(x).ok =>
                   GetOrError(x).n \in IntRange /\ Halves(x) = 2 * GetOrError(x).n
             /\ \A i \in IntRange : Halves(x) = 2 * i /\ i >= 0 =>
                   GetOrError(x).ok /\ GetOrError(x).n = i
  <2>1. CASE x.kind = "int"
    <3>1. GetOrError(x) = [ok |-> TRUE, n |-> x.n] /\ x.n \in IntRange /\ x.n \in Int
          /\ Halves(x) = 2 * x.n
      BY <1>1, <2>1, NumberCases, NumberFields, HalvesType DEF GetOrError
    <3> QED
      BY <3>1, Ranges
  <2>2. CASE x.kind = "uint"
    <3>1. GetOrError(x) = Uint64ToInt64Checked(x.n) /\ x.n \in UintRange /\ x.n \in Int
          /\ Halves(x) = 2 * x.n
      BY <1>1, <2>2, NumberCases, NumberFields, HalvesType DEF GetOrError
    <3>2. Checked(Uint64ToInt64Checked(x.n), x.n, IntRange)
      BY <3>1, IntegerConversions
    <3> QED
      BY <3>1, <3>2, Ranges DEF Checked
  <2>3. CASE x.kind = "double"
    <3>1. GetOrError(x) = Lossless(DoubleToInt64Checked(x.n), x.n) /\ x.n \in Doubles
          /\ Halves(x) = x.n
      BY <1>1, <2>3, NumberCases, NumberFields, HalvesType
         DEF GetOrError, DoubleToInt64Lossless
    <3>2. PICK c : c = DoubleToInt64Checked(x.n)
      OBVIOUS
    <3>3. c.ok => c.n = Quo(x.n, 2) /\ Quo(x.n, 2) \in IntRange
      BY <3>1, <3>2, DoubleToInt
    <3>4. IntRange \in SUBSET Integral
      BY Ends
    <3>5. /\ Lossless(c, x.n).ok =>
                Lossless(c, x.n).n \in IntRange /\ x.n = 2 * Lossless(c, x.n).n
          /\ \A n \in IntRange : x.n = 2 * n /\ c.ok =>
                Lossless(c, x.n).ok /\ Lossless(c, x.n).n = n
      BY <3>1, <3>3, <3>4, LosslessIs
    <3>6. ASSUME NEW i \in IntRange, x.n = 2 * i, i >= 0 PROVE c.ok
      <4>1. 2 * MinInt < x.n /\ x.n < 2 * (MaxInt + 1)
        BY <3>6, Ranges
      <4> QED
        BY <3>1, <3>2, <4>1, DoubleToInt
    <3> QED
      BY <3>1, <3>2, <3>5, <3>6
  <2> QED
    BY <1>1, <2>1, <2>2, <2>3, NumberCases
<1>2. CASE x = NaN
  <2>1. GetOrError(x) = Fail
    BY <1>2, NumberFields DEF GetOrError
  <2> QED
    BY <1>2, <2>1 DEF Get, Fail, SameNumber
<1>3. CASE x # NaN
  <2>1. Get(size, x).ok <=> GetOrError(x).ok /\ 0 <= GetOrError(x).n /\ GetOrError(x).n < size
    BY DEF Get, Fail
  <2>2. \A i \in 0 .. size - 1 : SameNumber(x, IntV(i)) <=> Halves(x) = 2 * i
    BY <1>0, <1>3, SameAs
  <2>3. ASSUME Get(size, x).ok PROVE \E i \in 0 .. size - 1 : SameNumber(x, IntV(i))
    <3>1. GetOrError(x).n \in 0 .. size - 1 /\ Halves(x) = 2 * GetOrError(x).n
      BY <1>0, <1>1, <1>3, <2>1, <2>3, Ranges
    <3> QED
      BY <2>2, <3>1
  <2>4. ASSUME NEW i \in 0 .. size - 1, SameNumber(x, IntV(i)) PROVE Get(size, x).ok
    <3>1. Halves(x) = 2 * i
      BY <2>2, <2>4
    <3> QED
      BY <1>0, <1>1, <1>3, <2>1, <3>1
  <2> QED
    BY <2>3, <2>4
<1> QED
  BY <1>2, <1>3

-----------------------------------------------------------------------------
MapsTyped == MapTyped(grown) /\ MapTyped(other) /\ Clean(grown)

LEMMA InitMaps == NumericInit => MapsTyped
<1>1. ASSUME NEW m \in Maps PROVE MapTyped(m)
  <2>1. CASE m = Map("any", <<>>)
    BY <2>1 DEF MapTyped, Map
  <2>2. CASE m \in MapsKeyed("any", MapKeys)
    BY <2>2 DEF MapsKeyed, MapTyped, Map
  <2>3. CASE m \in MapsKeyed("int", {k \in MapKeys : k.kind = "int"})
    BY <2>3 DEF MapsKeyed, MapTyped, Map
  <2>4. CASE m \in MapsKeyed("uint", {k \in MapKeys : k.kind = "uint"})
    BY <2>4 DEF MapsKeyed, MapTyped, Map
  <2> QED
    BY <2>1, <2>2, <2>3, <2>4 DEF Maps
<1> QED
  BY <1>1 DEF NumericInit, MapsTyped

LEMMA StepMaps == MapsTyped /\ [NumericNext]_<<numberVars, mapVars>> => MapsTyped'
<1> SUFFICES ASSUME MapsTyped, [NumericNext]_<<numberVars, mapVars>> PROVE MapsTyped'
  OBVIOUS
<1>1. CASE InsertEntry
  <2>1. PICK k \in MapKeys, v \in MapVals : grown' = InsertMapKeyValue(grown, k, v)
    BY <1>1 DEF InsertEntry
  <2>2. other' = other
    BY <1>1 DEF InsertEntry
  <2>3. MapTyped(grown') /\ Clean(grown')
    BY <2>1, InsertKeepsClean DEF MapsTyped
  <2> QED
    BY <2>2, <2>3 DEF MapsTyped
<1>2. CASE ConvertNumber \/ UNCHANGED <<numberVars, mapVars>>
  <2>1. grown' = grown /\ other' = other
    BY <1>2 DEF ConvertNumber, mapVars
  <2> QED
    BY <2>1 DEF MapsTyped
<1> QED
  BY <1>1, <1>2 DEF NumericNext

\* Whatever keys have been inserted into a map, a key of any numeric type finds the entry
\* of the number it is and no other, by every path; no two keys are one number; maps are
\* equal when they have the same entries; a list is indexed alike (map.go, list.go).
THEOREM LookupsAgree == NumericSpec => []LookupAgrees
<1>1. NumericInit => NumberTyped
  BY DEF NumericInit, NumberTyped
<1>2. ASSUME NumberTyped, MapsTyped PROVE LookupAgrees
  <2>1. \A k \in Numbers : FoundRightly(grown, k)
    BY <1>2, FindsRightly DEF MapsTyped
  <2>2. \A i \in IntRange : QualifyInt(grown, i) = Find(grown, IntV(i))
    BY <1>2, FastPathAgrees DEF MapsTyped
  <2>3. ASSUME Clean(other)
        PROVE  /\ MapEqual(grown, other) <=> SameEntries(grown, other)
               /\ MapEqual(other, grown) <=> SameEntries(grown, other)
    BY <1>2, <2>3, EqualIsSame, SameEntriesSymmetric DEF MapsTyped
  <2>4. number # ErrorV => \A size \in 0 .. MaxEntries + 1 :
           Get(size, number).ok <=> \E i \in 0 .. size - 1 : SameNumber(number, IntV(i))
    BY <1>2, IndexIsNumber DEF NumberTyped
  <2> QED
    BY <1>2, <2>1, <2>2, <2>3, <2>4 DEF LookupAgrees, MapsTyped
<1> QED
  BY <1>1, <1>2, InitMaps, StepNumber, StepMaps, PTL DEF NumericSpec
=============================================================================
