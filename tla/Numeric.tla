------------------------------ MODULE Numeric -------------------------------
(***************************************************************************)
(* Numbers of a fixed width, in two parts.                                 *)
(*                                                                         *)
(* Checked arithmetic on integers (common/types/overflow.go).  The code    *)
(* never computes in a wider type: each guard is written so that it does   *)
(* not overflow itself, and all of it wraps around as the machine does.  A *)
(* duration is an int of ticks, a timestamp a number of ticks since the    *)
(* epoch, split at whole seconds.  A value goes through any sequence of    *)
(* the operators and conversions that are made of it (int.go, uint.go,     *)
(* duration.go, timestamp.go), and beside it goes what the same sequence   *)
(* gives without bounds.  An error absorbs what follows.                   *)
(*                                                                         *)
(* Ints, uints and doubles compared and converted across types (compare.go,*)
(* double.go, overflow.go), and what a map finds for a key and a list for  *)
(* an index when the key is a number of another type (map.go, list.go).  A *)
(* double is counted in halves and has a mantissa of Precision bits, fewer *)
(* than an int: Double(i) rounds to the nearest, a tie to the even         *)
(* mantissa.  A map that comes from an expression is keyed by values of    *)
(* any type; one that comes from Go is keyed by int64 or by uint64.  A     *)
(* number is converted from type to type, and a map grows by keys.         *)
(***************************************************************************)
EXTENDS Integers, FiniteSets, Sequences

CONSTANTS
    MaxInt,        \* math.MaxInt64
    Second,        \* time.Second, in ticks
    MinUnixTime,   \* first and last second of a timestamp
    MaxUnixTime

ASSUME WidthAssumption == MaxInt \in Nat \ {0}
ASSUME SecondAssumption == Second \in Nat /\ Second > 1 /\ Second <= MaxInt
ASSUME UnixAssumption ==
    /\ MinUnixTime \in Int /\ MaxUnixTime \in Int
    /\ -MaxInt <= MinUnixTime /\ MinUnixTime <= 0
    /\ 0 <= MaxUnixTime /\ MaxUnixTime < MaxInt

MinInt  == -MaxInt - 1
MaxUint == 2 * MaxInt + 1
IntRange  == MinInt .. MaxInt
UintRange == 0 .. MaxUint

\* What a register of the width holds after an operation of the machine.
WrapInt(n)  == ((n + MaxInt + 1) % (MaxUint + 1)) - MaxInt - 1
WrapUint(n) == n % (MaxUint + 1)

Fail    == [ok |-> FALSE, n |-> 0]
Int64(n)  == [ok |-> TRUE, n |-> WrapInt(n)]
Uint64(n) == [ok |-> TRUE, n |-> WrapUint(n)]

\* The division of the machine rounds towards zero.
Quo(x, y) ==
    IF y > 0 THEN IF x >= 0 THEN x \div y ELSE -((-x) \div y)
    ELSE IF x >= 0 THEN -(x \div (-y)) ELSE (-x) \div (-y)
Rem(x, y) == x - y * Quo(x, y)

AddInt64Unsigned(x, y) ==  \* mutated: the guard of unsigned addition
    IF y > 0 /\ x > WrapInt(MaxInt - y) THEN Fail ELSE Int64(x + y)

AddInt64Checked(x, y) ==
    IF (y > 0 /\ x > WrapInt(MaxInt - y)) \/ (y < 0 /\ x < WrapInt(MinInt - y))
    THEN Fail ELSE Int64(x + y)

SubtractInt64Checked(x, y) ==
    IF (y < 0 /\ x > WrapInt(MaxInt + y)) \/ (y > 0 /\ x < WrapInt(MinInt + y))
    THEN Fail ELSE Int64(x - y)

NegateInt64Checked(x) == IF x = MinInt THEN Fail ELSE Int64(-x)

MultiplyInt64Checked(x, y) ==
    IF \/ x = -1 /\ y = MinInt
       \/ y = -1 /\ x = MinInt
       \/ x > 0 /\ y > 0 /\ x > Quo(MaxInt, y)
       \/ x > 0 /\ y < 0 /\ y < Quo(MinInt, x)
       \/ x < 0 /\ y > 0 /\ x < Quo(MinInt, y)
       \/ x < 0 /\ y < 0 /\ y < Quo(MaxInt, x)
    THEN Fail ELSE Int64(x * y)

DivideInt64Checked(x, y) ==
    IF y = 0 \/ (x = MinInt /\ y = -1) THEN Fail ELSE Int64(Quo(x, y))
ModuloInt64Checked(x, y) ==
    IF y = 0 \/ (x = MinInt /\ y = -1) THEN Fail ELSE Int64(Rem(x, y))

AddUint64Checked(x, y)      == IF y > 0 /\ x > WrapUint(MaxUint - y) THEN Fail ELSE Uint64(x + y)
SubtractUint64Checked(x, y) == IF y > x THEN Fail ELSE Uint64(x - y)
MultiplyUint64Checked(x, y) == IF y # 0 /\ x > Quo(MaxUint, y) THEN Fail ELSE Uint64(x * y)
DivideUint64Checked(x, y)   == IF y = 0 THEN Fail ELSE Uint64(Quo(x, y))
ModuloUint64Checked(x, y)   == IF y = 0 THEN Fail ELSE Uint64(Rem(x, y))

Int64ToUint64Checked(v) == IF v < 0 THEN Fail ELSE Uint64(v)
Uint64ToInt64Checked(v) == IF v > MaxInt THEN Fail ELSE Int64(v)

\* Truncate and Sub split a time at the second below it.
Seconds(t)     == t \div Second
Nanoseconds(t) == t % Second

TimeOf(sec, nsec) ==
    IF sec < MinUnixTime \/ sec > MaxUnixTime THEN Fail
    ELSE [ok |-> TRUE, n |-> sec * Second + nsec]

\* Seconds first, then the ticks, whose carry goes to the seconds, with one more
\* second borrowed when they are negative.
Carried(sec, nsec) == AddInt64Checked(sec, Quo(nsec, Second))
Borrowed(sec, nsec) ==
    LET borrow == AddInt64Checked(sec, -1)
    IN IF nsec >= 0 THEN TimeOf(sec, nsec)
       ELSE IF borrow.ok THEN TimeOf(borrow.n, nsec + Second) ELSE Fail
Normalised(sec, nsec) ==
    LET carry == Carried(sec, nsec)
    IN IF ~(nsec < 0 \/ nsec >= Second) THEN TimeOf(sec, nsec)
       ELSE IF carry.ok THEN Borrowed(carry.n, Rem(nsec, Second)) ELSE Fail
AddTimeDurationChecked(x, y) ==
    LET sum == AddInt64Checked(Seconds(x), Quo(y, Second))
    IN IF sum.ok THEN Normalised(sum.n, Nanoseconds(x) + Rem(y, Second)) ELSE Fail

Scaled(sec, nsec) ==
    LET tsec == MultiplyInt64Checked(sec, Second)
    IN IF tsec.ok THEN AddInt64Checked(tsec.n, nsec) ELSE Fail
SubtractTimeChecked(x, y) ==
    LET sec == SubtractInt64Checked(Seconds(x), Seconds(y))
    IN IF sec.ok THEN Scaled(sec.n, Nanoseconds(x) - Nanoseconds(y)) ELSE Fail

SubtractTimeDurationChecked(x, y) ==
    LET neg == NegateInt64Checked(y)
    IN IF neg.ok THEN AddTimeDurationChecked(x, neg.n) ELSE Fail

-----------------------------------------------------------------------------
VARIABLES
    acc,    \* the value: its kind, and what it is unless it is an error
    exact   \* the unbounded result, if there is one
calcVars == <<acc, exact>>

TimeRange == MinUnixTime * Second .. MaxUnixTime * Second + Second - 1
ValuesOf(kind) ==
    IF kind = "uint" THEN UintRange ELSE IF kind = "timestamp" THEN TimeRange ELSE IntRange
Kinds == {"int", "uint", "duration", "timestamp"}

Undefined == [def |-> FALSE, n |-> 0]
Exactly(n) == [def |-> TRUE, n |-> n]

\* The result of an operator on kind operands, and what it should be.
Give(kind, r, e) == acc' = [kind |-> kind, ok |-> r.ok, n |-> r.n] /\ exact' = e
Is(kind) == acc.ok /\ acc.kind = kind

\* The time between two times exists if its whole seconds do, counted from the
\* second of the one to the second of the other.
Between(x, t) ==
    IF (Seconds(x) - Seconds(t)) * Second \in IntRange THEN Exactly(x - t) ELSE Undefined

Add ==
    \/ Is("int")  /\ \E y \in IntRange  : Give("int", AddInt64Checked(acc.n, y), Exactly(acc.n + y))
    \/ Is("uint") /\ \E y \in UintRange : Give("uint", AddUint64Checked(acc.n, y), Exactly(acc.n + y))
    \/ Is("duration") /\ \E y \in IntRange :
          Give("duration", AddInt64Checked(acc.n, y), Exactly(acc.n + y))
    \/ Is("duration") /\ \E t \in TimeRange :
          Give("timestamp", AddTimeDurationChecked(t, acc.n), Exactly(t + acc.n))
    \/ Is("timestamp") /\ \E y \in IntRange :
          Give("timestamp", AddTimeDurationChecked(acc.n, y), Exactly(acc.n + y))

Subtract ==
    \/ Is("int")  /\ \E y \in IntRange  : Give("int", SubtractInt64Checked(acc.n, y), Exactly(acc.n - y))
    \/ Is("uint") /\ \E y \in UintRange : Give("uint", SubtractUint64Checked(acc.n, y), Exactly(acc.n - y))
    \/ Is("duration") /\ \E y \in IntRange :
          Give("duration", SubtractInt64Checked(acc.n, y), Exactly(acc.n - y))
    \/ Is("timestamp") /\ \E y \in IntRange :
          \* A duration is negated first: the least one cannot be subtracted from any time.
          Give("timestamp", SubtractTimeDurationChecked(acc.n, y),
               IF y = MinInt THEN Undefined ELSE Exactly(acc.n - y))
    \/ Is("timestamp") /\ \E t \in TimeRange :
          Give("duration", SubtractTimeChecked(acc.n, t), Between(acc.n, t))

Negate ==
    \E kind \in {"int", "duration"} :
        Is(kind) /\ Give(kind, NegateInt64Checked(acc.n), Exactly(-acc.n))

Multiply ==
    \/ Is("int")  /\ \E y \in IntRange  : Give("int", MultiplyInt64Checked(acc.n, y), Exactly(acc.n * y))
    \/ Is("uint") /\ \E y \in UintRange : Give("uint", MultiplyUint64Checked(acc.n, y), Exactly(acc.n * y))

\* A remainder goes with a quotient: where there is none, there is no remainder.
Quotient(x, y)  == IF y = 0 THEN Undefined ELSE Exactly(Quo(x, y))
Remainder(x, y) == IF y = 0 \/ Quo(x, y) = MaxInt + 1 THEN Undefined ELSE Exactly(Rem(x, y))
Divide ==
    \/ Is("int")  /\ \E y \in IntRange  : Give("int", DivideInt64Checked(acc.n, y), Quotient(acc.n, y))
    \/ Is("uint") /\ \E y \in UintRange :
          Give("uint", DivideUint64Checked(acc.n, y),
               IF y = 0 THEN Undefined ELSE Exactly(acc.n \div y))
Modulo ==
    \/ Is("int")  /\ \E y \in IntRange  : Give("int", ModuloInt64Checked(acc.n, y), Remainder(acc.n, y))
    \/ Is("uint") /\ \E y \in UintRange :
          Give("uint", ModuloUint64Checked(acc.n, y),
               IF y = 0 THEN Undefined ELSE Exactly(acc.n % y))

\* int(), uint(), timestamp(): a time counts its whole seconds, a duration its ticks.
Convert ==
    \/ Is("int")  /\ Give("uint", Int64ToUint64Checked(acc.n), Exactly(acc.n))
    \/ Is("uint") /\ Give("int", Uint64ToInt64Checked(acc.n), Exactly(acc.n))
    \/ Is("int")  /\ Give("timestamp", TimeOf(acc.n, 0), Exactly(acc.n * Second))
    \/ Is("timestamp") /\ Give("int", Int64(Seconds(acc.n)), Exactly(Seconds(acc.n)))
    \/ Is("duration")  /\ Give("int", Int64(acc.n), Exactly(acc.n))

CalcInit ==
    \E kind \in Kinds : \E n \in ValuesOf(kind) :
        acc = [kind |-> kind, ok |-> TRUE, n |-> n] /\ exact = Exactly(n)
CalcNext == Add \/ Subtract \/ Negate \/ Multiply \/ Divide \/ Modulo \/ Convert
CalcSpec == CalcInit /\ [][CalcNext]_calcVars

\* A result is the exact one, for every sequence of operations; an error means that
\* there is none, or none that fits its type.
Exact ==
    IF acc.ok THEN exact.def /\ exact.n = acc.n /\ acc.n \in ValuesOf(acc.kind)
    ELSE exact.def => exact.n \notin ValuesOf(acc.kind)

-----------------------------------------------------------------------------
(* Numbers of different types, and maps. *)
CONSTANTS
    Precision,   \* bits of a mantissa
    Exponents,   \* a double is a mantissa times one of 2^0, ..., 2^Exponents halves
    MapKeys,     \* the ints and uints that are keys
    MapVals,
    MaxEntries   \* entries of a map at first

VARIABLES
    number,        \* a number that is converted from type to type
    grown, other   \* a map that keys are inserted into, and one it is compared with
numberVars == <<number>>
mapVars    == <<grown, other>>

ASSUME PrecisionAssumption == Precision \in Nat \ {0} /\ Exponents \in Nat

Mantissas == 2 ^ Precision
Finite    == {m * 2 ^ e : m \in -Mantissas + 1 .. Mantissas - 1, e \in 0 .. Exponents}
Infinity  == Mantissas * 2 ^ (Exponents + 1)

Number(kind, n) == [kind |-> kind, n |-> n]
NaN    == Number("nan", 0)
ErrorV == Number("error", 0)
IntV(n)    == Number("int", n)
UintV(n)   == Number("uint", n)
DoubleV(h) == Number("double", h)
Doubles == Finite \union {Infinity, -Infinity}
Numbers ==
    {IntV(n) : n \in IntRange} \union {UintV(n) : n \in UintRange}
        \union {DoubleV(h) : h \in Doubles} \union {NaN}

Abs(n)  == IF n < 0 THEN -n ELSE n
Sign(n) == IF n < 0 THEN -1 ELSE IF n > 0 THEN 1 ELSE 0

\* Double(i): the double nearest to an integer.
Ulp(h) == CHOOSE u \in {2 ^ e : e \in 0 .. Exponents} :
              Abs(h) < Mantissas * u /\ (u = 1 \/ Abs(h) >= Mantissas * (u \div 2))
RoundTo(h, u) ==
    LET m == h \div u
        r == h % u
    IN (IF 2 * r > u \/ (2 * r = u /\ m % 2 = 1) THEN m + 1 ELSE m) * u
Double(n) == RoundTo(2 * n, Ulp(2 * n))

\* The powers of two at which the ranges end are doubles, an int has more bits than a
\* mantissa, and the greatest int rounds up.
ASSUME DoubleAssumption ==
    /\ {2 * (MaxInt + 1), 4 * (MaxInt + 1)} \subseteq Finite
    /\ Mantissas <= MaxInt + 1
    /\ Double(MaxInt) = 2 * (MaxInt + 1)
ASSUME MapAssumption ==
    /\ IsFiniteSet(MapKeys)
    /\ MapKeys \subseteq {IntV(n) : n \in IntRange} \union {UintV(n) : n \in UintRange}
    /\ MaxEntries \in Nat /\ MaxEntries <= MaxInt

-----------------------------------------------------------------------------
\* int(d), uint(d): towards zero, within bounds that are themselves doubles.
DoubleToInt64Checked(h) ==
    IF h <= Double(MinInt) \/ h >= Double(MaxInt) THEN Fail ELSE Int64(Quo(h, 2))
DoubleToUint64Checked(h) ==
    IF h < 0 \/ h >= 2 * (MaxUint + 1) THEN Fail ELSE Uint64(Quo(h, 2))

\* The same number in another type, if it has it.
Lossless(r, h) == IF r.ok /\ Double(r.n) = h THEN r ELSE Fail
DoubleToInt64Lossless(h)  == Lossless(DoubleToInt64Checked(h), h)
DoubleToUint64Lossless(h) == Lossless(DoubleToUint64Checked(h), h)

-----------------------------------------------------------------------------
CompareDoubleInt(d, i) ==
    IF d < Double(MinInt) THEN -1
    ELSE IF d > Double(MaxInt) THEN 1 ELSE Sign(d - Double(i))
CompareDoubleUint(d, u) ==
    IF d < 0 THEN -1
    ELSE IF d > Double(MaxUint) THEN 1 ELSE Sign(d - Double(u))

CompareIntUintByDifference(i, u) == Sign(WrapInt(i - u))  \* mutated: no range check before it
CompareIntUint(i, u) == IF i < 0 \/ u > MaxInt THEN -1 ELSE Sign(WrapInt(i - u))

Unordered == 2
Compare(x, y) ==
    LET kinds == <<x.kind, y.kind>>
    IN IF x = NaN \/ y = NaN THEN Unordered
       ELSE IF x.kind = y.kind THEN Sign(x.n - y.n)
       ELSE IF kinds = <<"double", "int">>  THEN CompareDoubleInt(x.n, y.n)
       ELSE IF kinds = <<"int", "double">>  THEN -CompareDoubleInt(y.n, x.n)
       ELSE IF kinds = <<"double", "uint">> THEN CompareDoubleUint(x.n, y.n)
       ELSE IF kinds = <<"uint", "double">> THEN -CompareDoubleUint(y.n, x.n)
       ELSE IF kinds = <<"int", "uint">>    THEN CompareIntUint(x.n, y.n)
       ELSE -CompareIntUint(y.n, x.n)

Equal(x, y) == x # NaN /\ y # NaN /\ Compare(x, y) = 0

ConvertToType(x, kind) ==
    LET as(r) == IF r.ok THEN Number(kind, r.n) ELSE ErrorV
    IN IF x.kind = kind THEN x
       ELSE IF x = NaN THEN IF kind = "double" THEN NaN ELSE ErrorV
       ELSE IF kind = "double" THEN DoubleV(Double(x.n))
       ELSE IF x.kind = "double"
            THEN as(IF kind = "int" THEN DoubleToInt64Checked(x.n) ELSE DoubleToUint64Checked(x.n))
       ELSE as(IF kind = "int" THEN Uint64ToInt64Checked(x.n) ELSE Int64ToUint64Checked(x.n))

-----------------------------------------------------------------------------
(* Maps and lists.                                                         *)

Map(keyed, entries) == [keyed |-> keyed, entries |-> entries]
NotFound == [found |-> FALSE, val |-> ""]

\* The entry of the first of ks that the map of Go has.
Lookup(m, ks) ==
    LET hits == {i \in DOMAIN ks : ks[i] \in DOMAIN m.entries}
    IN IF hits = {} THEN NotFound
       ELSE [found |-> TRUE, val |-> m.entries[ks[CHOOSE i \in hits : \A j \in hits : i <= j]]]

As(kind, r) == IF r.ok THEN <<Number(kind, r.n)>> ELSE <<>>
ToInt64Key(k) ==
    IF k.kind = "int" THEN <<k>>
    ELSE IF k.kind = "uint" THEN As("int", Uint64ToInt64Checked(k.n))
    ELSE IF k.kind = "double" THEN As("int", DoubleToInt64Lossless(k.n)) ELSE <<>>
ToUint64Key(k) ==
    IF k.kind = "uint" THEN <<k>>
    ELSE IF k.kind = "int" THEN As("uint", Int64ToUint64Checked(k.n))
    ELSE IF k.kind = "double" THEN As("uint", DoubleToUint64Lossless(k.n)) ELSE <<>>

FindRefValKey(m, k) ==
    Lookup(m, <<k>> \o (IF k.kind = "int" THEN <<>> ELSE ToInt64Key(k))
                    \o (IF k.kind = "uint" THEN <<>> ELSE ToUint64Key(k)))
Find(m, k) ==
    IF m.keyed = "any" THEN FindRefValKey(m, k)
    ELSE Lookup(m, IF m.keyed = "int" THEN ToInt64Key(k) ELSE ToUint64Key(k))

FindInt64Key(m, i) ==
    IF m.keyed = "uint" THEN NotFound
    ELSE Lookup(m, <<IntV(i)>> \o (IF m.keyed = "any" /\ i >= 0 THEN <<UintV(i)>> ELSE <<>>))
\* A constant index of an expression: the fast path, then the general one.
QualifyInt(m, i) ==
    LET fast == FindInt64Key(m, i) IN IF fast.found THEN fast ELSE Find(m, IntV(i))

MapEqual(m, o) ==
    /\ Cardinality(DOMAIN m.entries) = Cardinality(DOMAIN o.entries)
    /\ \A k \in DOMAIN m.entries : Find(o, k) = [found |-> TRUE, val |-> m.entries[k]]

Extended(m, k, v) ==
    Map("any", [x \in DOMAIN m.entries \union {k} |-> IF x = k THEN v ELSE m.entries[x]])
InsertUnlessSame(m, k, v) ==  \* mutated: only the very same key counts as present
    IF k \in DOMAIN m.entries THEN m ELSE Extended(m, k, v)
\* A key that the map already finds is an error, and the map is what it was.
InsertMapKeyValue(m, k, v) == IF Find(m, k).found THEN m ELSE Extended(m, k, v)

\* The position, from 0, that an index means in a list.
GetOrError(k) ==
    IF k.kind = "int" THEN [ok |-> TRUE, n |-> k.n]
    ELSE IF k.kind = "uint" THEN Uint64ToInt64Checked(k.n)
    ELSE IF k.kind = "double" THEN DoubleToInt64Lossless(k.n) ELSE Fail
Get(size, k) ==
    LET ind == GetOrError(k)
    IN IF ind.ok /\ 0 <= ind.n /\ ind.n < size THEN ind ELSE Fail

-----------------------------------------------------------------------------
NumberTypes == {"int", "uint", "double"}
ConvertNumber ==
    /\ number # ErrorV
    /\ \E kind \in NumberTypes : number' = ConvertToType(number, kind)
    /\ UNCHANGED mapVars

\* Twice the number that x is, in halves as doubles are.
Halves(x) == IF x.kind = "double" THEN x.n ELSE 2 * x.n
SameNumber(x, y) == x # NaN /\ y # NaN /\ Halves(x) = Halves(y)

\* A comparison that is not a tie is the one of the numbers themselves, a tie is
\* between equal numbers or an integer and the double it rounds to.
ComparedExactly(x, y) ==
    LET order == Compare(x, y)
        rounded(i, d) == i.kind # "double" /\ d.kind = "double" /\ Double(i.n) = d.n
    IN IF NaN \in {x, y} THEN order = Unordered
       ELSE IF order = 0 THEN SameNumber(x, y) \/ rounded(x, y) \/ rounded(y, x)
       ELSE order = Sign(Halves(x) - Halves(y))

\* A conversion to an integer drops the half, or there is no such integer, or the
\* double is where the range of the type ends.
ConvertedExactly(x, kind) ==
    LET y == ConvertToType(x, kind)
        range == IF kind = "int" THEN IntRange ELSE UintRange
        ends  == {Double(MinInt), Double(MaxInt), Infinity, -Infinity}
    IN IF x = NaN THEN y = ErrorV
       ELSE IF y # ErrorV THEN y.n = Quo(Halves(x), 2) /\ y.n \in range
       ELSE \/ Quo(Halves(x), 2) \notin range
            \/ x.kind = "double" /\ (x.n \in ends \/ (kind = "uint" /\ x.n < 0))

\* Numbers of any types are ordered as the numbers they are: no comparison says
\* that one is less when it is not, whatever rounding it needs, and conversions
\* lose the half of a double and nothing else.
OrderCoherent ==
    number # ErrorV =>
        /\ \A y \in Numbers : ComparedExactly(number, y)
        /\ \A kind \in {"int", "uint"} : ConvertedExactly(number, kind)

-----------------------------------------------------------------------------
\* No two keys are the same number.
Clean(m) == \A j, k \in DOMAIN m.entries : SameNumber(j, k) => j = k

MapsKeyed(keyed, keys) ==
    UNION {{Map(keyed, entries) : entries \in [ks -> MapVals]} :
              ks \in {s \in SUBSET keys : Cardinality(s) \in {1, MaxEntries}}}
Maps ==
    {Map("any", <<>>)} \union MapsKeyed("any", MapKeys)
        \union MapsKeyed("int", {k \in MapKeys : k.kind = "int"})
        \union MapsKeyed("uint", {k \in MapKeys : k.kind = "uint"})

InsertEntry ==
    /\ \E k \in MapKeys, v \in MapVals : grown' = InsertMapKeyValue(grown, k, v)
    /\ UNCHANGED <<numberVars, other>>

\* The least double is refused as an int although it is one (overflow.go).
LeastDouble == DoubleV(2 * MinInt)

FoundRightly(m, k) ==
    LET found == Find(m, k)
    IN /\ found.found => \E j \in DOMAIN m.entries : SameNumber(j, k) /\ m.entries[j] = found.val
       /\ (\E j \in DOMAIN m.entries : SameNumber(j, k)) /\ k # LeastDouble => found.found

SameEntries(m, n) ==
    \A p \in {<<m, n>>, <<n, m>>} : \A j \in DOMAIN p[1].entries : \E k \in DOMAIN p[2].entries :
        SameNumber(j, k) /\ p[1].entries[j] = p[2].entries[k]

\* A key of any numeric type finds the entry of the number it is and no other, by the
\* general path and by the fast one of an index; maps are equal, either way round,
\* when they map the same numbers to the same values; an insert never adds a number
\* the map has.  A list is indexed by the same rules.
LookupAgrees ==
    /\ \A k \in Numbers : FoundRightly(grown, k)
    /\ \A i \in IntRange : QualifyInt(grown, i) = Find(grown, IntV(i))
    /\ Clean(grown)
    /\ Clean(other) =>
          /\ MapEqual(grown, other) <=> SameEntries(grown, other)
          /\ MapEqual(other, grown) <=> SameEntries(grown, other)
    /\ number # ErrorV =>
          \A size \in 0 .. MaxEntries + 1 :
              Get(size, number).ok <=> \E i \in 0 .. size - 1 : SameNumber(number, IntV(i))

-----------------------------------------------------------------------------
NumericInit == number \in Numbers /\ grown \in {m \in Maps : Clean(m)} /\ other \in Maps
NumericNext == ConvertNumber \/ InsertEntry
NumericSpec == NumericInit /\ [][NumericNext]_<<numberVars, mapVars>>
=============================================================================
