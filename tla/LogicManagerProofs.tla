------------------------- MODULE LogicManagerProofs -------------------------
(***************************************************************************)
(* Proofs about the trees that chains of && and || become, for chains of   *)
(* every length.                                                           *)
(***************************************************************************)
EXTENDS LogicManager, SequenceTheorems, WellFoundedInduction, TLAPS

-----------------------------------------------------------------------------
(* The trees of the spans of a chain exist. *)

\* Every set of numbers has a smallest.
LEMMA SmallestNumber ==
    ASSUME NEW S, S \subseteq Nat, S # {}
    PROVE  \E m \in S : \A k \in S : m <= k
<1> DEFINE R == {p \in Nat \X Nat : p[1] < p[2]}
<1>1. IsWellFoundedOn(R, Nat)
  BY NatLessThanWellFounded DEF OpToRel
<1>2. PICK m \in S : \A k \in S : <<k, m>> \notin R
  <2> HIDE DEF R
  <2> QED
    BY <1>1, WFMin
<1>3. ASSUME NEW k \in S PROVE m <= k
  <2>1. k \in Nat /\ m \in Nat /\ <<k, m>> \notin R
    BY <1>2
  <2>2. <<k, m>>[1] = k /\ <<k, m>>[2] = m
    OBVIOUS
  <2>3. ~(k < m)
    BY <2>1, <2>2
  <2> QED
    BY <2>1, <2>3
<1> QED
  BY <1>3

LEMMA SpanBounds ==
    ASSUME NEW ops, Len(ops) \in Nat, NEW s \in Spans(ops)
    PROVE  s[1] \in 1..Len(ops) /\ s[2] \in 1..Len(ops) /\ s[1] <= s[2]
BY DEF Spans

\* The middle of a span is in it, and the spans on both sides of it are shorter.
LEMMA MidInSpan ==
    ASSUME NEW ops, Len(ops) \in Nat, NEW s \in Spans(ops)
    PROVE  /\ s[1] \in 1..Len(ops) /\ s[2] \in 1..Len(ops) /\ s[1] <= s[2]
           /\ Mid(s) \in Nat /\ s[1] <= Mid(s) /\ Mid(s) <= s[2]
           /\ Mid(s) # s[1] => <<s[1], Mid(s) - 1>> \in Spans(ops)
           /\ Mid(s) # s[2] => <<Mid(s) + 1, s[2]>> \in Spans(ops)
<1>1. s[1] \in 1..Len(ops) /\ s[2] \in 1..Len(ops) /\ s[1] <= s[2]
  BY SpanBounds
<1>2. Mid(s) \in Nat /\ s[1] <= Mid(s) /\ Mid(s) <= s[2]
  BY <1>1 DEF Mid
<1>3. ASSUME NEW a \in 1..Len(ops), NEW b \in 1..Len(ops), a <= b
      PROVE  <<a, b>> \in Spans(ops)
  BY <1>3 DEF Spans
<1>4. Mid(s) # s[1] => <<s[1], Mid(s) - 1>> \in Spans(ops)
  <2>1. Mid(s) # s[1] => Mid(s) - 1 \in 1..Len(ops) /\ s[1] <= Mid(s) - 1
    BY <1>1, <1>2
  <2> QED
    BY <2>1, <1>1, <1>3
<1>5. Mid(s) # s[2] => <<Mid(s) + 1, s[2]>> \in Spans(ops)
  <2>1. Mid(s) # s[2] => Mid(s) + 1 \in 1..Len(ops) /\ Mid(s) + 1 <= s[2]
    BY <1>1, <1>2
  <2> QED
    BY <2>1, <1>1, <1>3
<1> QED
  BY <1>1, <1>2, <1>4, <1>5

\* The spans of at most m operators, and the trees of them.
UpTo(ops, m) == {s \in Spans(ops) : s[2] - s[1] < m}
Solves(fn, terms, ops, T, m) ==
    T = [s \in UpTo(ops, m) |-> TreeOf(fn, terms, ops, T, s)]

\* The tree of a span needs those of shorter spans only.
LEMMA TreeOfShorter ==
    ASSUME NEW fn, NEW terms, NEW ops, Len(ops) \in Nat, NEW s \in Spans(ops), NEW T, NEW E,
           \A t \in Spans(ops) : t[2] - t[1] < s[2] - s[1] => E[t] = T[t]
    PROVE  TreeOf(fn, terms, ops, E, s) = TreeOf(fn, terms, ops, T, s)
<1>0. /\ s[1] \in Int /\ s[2] \in Int /\ Mid(s) \in Int
      /\ s[1] <= s[2] /\ s[1] <= Mid(s) /\ Mid(s) <= s[2]
  <2>1. /\ s[1] \in 1..Len(ops) /\ s[2] \in 1..Len(ops) /\ s[1] <= s[2]
        /\ Mid(s) \in Nat /\ s[1] <= Mid(s) /\ Mid(s) <= s[2]
    BY MidInSpan
  <2> QED
    BY <2>1
<1>1. Mid(s) # s[1] => E[<<s[1], Mid(s) - 1>>] = T[<<s[1], Mid(s) - 1>>]
  <2> SUFFICES ASSUME Mid(s) # s[1]
               PROVE  E[<<s[1], Mid(s) - 1>>] = T[<<s[1], Mid(s) - 1>>]
    OBVIOUS
  <2> DEFINE t == <<s[1], Mid(s) - 1>>
  <2>1. t \in Spans(ops) /\ t[1] = s[1] /\ t[2] = Mid(s) - 1
    BY MidInSpan
  <2>2. Mid(s) - 1 - s[1] < s[2] - s[1]
    BY <1>0
  <2> HIDE DEF t
  <2>3. E[t] = T[t]
    BY <2>1, <2>2
  <2> QED
    BY <2>3 DEF t
<1>2. Mid(s) # s[2] => E[<<Mid(s) + 1, s[2]>>] = T[<<Mid(s) + 1, s[2]>>]
  <2> SUFFICES ASSUME Mid(s) # s[2]
               PROVE  E[<<Mid(s) + 1, s[2]>>] = T[<<Mid(s) + 1, s[2]>>]
    OBVIOUS
  <2> DEFINE t == <<Mid(s) + 1, s[2]>>
  <2>1. t \in Spans(ops) /\ t[1] = Mid(s) + 1 /\ t[2] = s[2]
    BY MidInSpan
  <2>2. s[2] - (Mid(s) + 1) < s[2] - s[1]
    BY <1>0
  <2> HIDE DEF t
  <2>3. E[t] = T[t]
    BY <2>1, <2>2
  <2> QED
    BY <2>3 DEF t
<1> QED
  BY <1>1, <1>2 DEF TreeOf

LEMMA SolvesNext ==
    ASSUME NEW fn, NEW terms, NEW ops, Len(ops) \in Nat, NEW m \in Nat, NEW T,
           Solves(fn, terms, ops, T, m)
    PROVE  \E E : Solves(fn, terms, ops, E, m + 1)
<1> DEFINE E == [s \in UpTo(ops, m + 1) |-> TreeOf(fn, terms, ops, T, s)]
<1>1. \A s \in Spans(ops) : s[1] \in Int /\ s[2] \in Int
  BY SpanBounds
<1>2. \A s \in UpTo(ops, m) : s \in UpTo(ops, m + 1) /\ T[s] = TreeOf(fn, terms, ops, T, s)
  BY <1>1 DEF UpTo, Solves
<1>3. \A s \in UpTo(ops, m) : E[s] = T[s]
  BY <1>2
<1>4. ASSUME NEW s \in UpTo(ops, m + 1)
      PROVE  TreeOf(fn, terms, ops, E, s) = TreeOf(fn, terms, ops, T, s)
  <2> HIDE DEF E
  <2>1. s \in Spans(ops) /\ s[2] - s[1] < m + 1
    BY DEF UpTo
  <2>2. ASSUME NEW t \in Spans(ops), t[2] - t[1] < s[2] - s[1] PROVE E[t] = T[t]
    <3>1. t[2] - t[1] < m
      BY <1>1, <2>1, <2>2
    <3> QED
      BY <3>1, <1>3 DEF UpTo
  <2> QED
    BY <2>1, <2>2, TreeOfShorter
<1>5. E = [s \in UpTo(ops, m + 1) |-> TreeOf(fn, terms, ops, E, s)]
  BY <1>4
<1> QED
  BY <1>5 DEF Solves

LEMMA TreesExist ==
    ASSUME NEW fn, NEW terms, NEW ops, Len(ops) \in Nat
    PROVE  \E T : Solves(fn, terms, ops, T, Len(ops))
<1> DEFINE Unsolved == {m \in Nat : ~\E T : Solves(fn, terms, ops, T, m)}
<1>1. SUFFICES ASSUME Unsolved # {} PROVE FALSE
  OBVIOUS
<1>2. PICK m \in Unsolved : \A k \in Unsolved : m <= k
  <2> Unsolved \subseteq Nat
    OBVIOUS
  <2> HIDE DEF Unsolved
  <2> QED
    BY <1>1, SmallestNumber
<1>3. CASE m = 0
  <2>1. UpTo(ops, 0) = {}
    <3>1. \A s \in Spans(ops) : s[1] \in Int /\ s[2] \in Int /\ s[1] <= s[2]
      BY SpanBounds
    <3> QED
      BY <3>1 DEF UpTo
  <2>2. Solves(fn, terms, ops, [s \in {} |-> 0], 0)
    BY <2>1 DEF Solves
  <2> QED
    BY <1>3, <2>2
<1>4. CASE m # 0
  <2>1. m - 1 \in Nat /\ m - 1 \notin Unsolved /\ (m - 1) + 1 = m
    BY <1>2, <1>4
  <2>2. PICK T : Solves(fn, terms, ops, T, m - 1)
    BY <2>1
  <2> QED
    BY <2>1, <2>2, SolvesNext
<1> QED
  BY <1>3, <1>4

\* The tree of a span is made as TreeOf says.
LEMMA TreesEquation ==
    ASSUME NEW fn, NEW terms, NEW ops, Len(ops) \in Nat, NEW s \in Spans(ops)
    PROVE  Trees(fn, terms, ops)[s] = TreeOf(fn, terms, ops, Trees(fn, terms, ops), s)
<1>1. UpTo(ops, Len(ops)) = Spans(ops)
  <2>1. \A t \in Spans(ops) : t[1] \in 1..Len(ops) /\ t[2] \in 1..Len(ops)
    BY SpanBounds
  <2>2. \A t \in Spans(ops) : t[2] - t[1] < Len(ops)
    BY <2>1
  <2> QED
    BY <2>2 DEF UpTo
<1>2. Trees(fn, terms, ops)
        = CHOOSE T : T = [t \in Spans(ops) |-> TreeOf(fn, terms, ops, T, t)]
  BY DEF Trees
<1>3. \E T : T = [t \in Spans(ops) |-> TreeOf(fn, terms, ops, T, t)]
  <2>1. PICK T : Solves(fn, terms, ops, T, Len(ops))
    BY TreesExist
  <2> QED
    BY <1>1, <2>1 DEF Solves
<1>4. Trees(fn, terms, ops)
        = [t \in Spans(ops) |-> TreeOf(fn, terms, ops, Trees(fn, terms, ops), t)]
  BY <1>2, <1>3
<1> QED
  BY <1>4

\* The two parts of the tree of a span: the term beside its middle, or the tree of the
\* operators on that side.
LeftOf(fn, terms, ops, s) ==
    IF Mid(s) = s[1] THEN terms[Mid(s)] ELSE Trees(fn, terms, ops)[<<s[1], Mid(s) - 1>>]
RightOf(fn, terms, ops, s) ==
    IF Mid(s) = s[2] THEN terms[Mid(s) + 1] ELSE Trees(fn, terms, ops)[<<Mid(s) + 1, s[2]>>]

\* What holds of a span if it holds of the parts of it holds of all spans.
LEMMA SpanInduction ==
    ASSUME NEW ops, Len(ops) \in Nat, NEW Good,
           \A s \in Spans(ops) :
              /\ Mid(s) # s[1] => <<s[1], Mid(s) - 1>> \in Good
              /\ Mid(s) # s[2] => <<Mid(s) + 1, s[2]>> \in Good
              => s \in Good
    PROVE  Spans(ops) \subseteq Good
<1> DEFINE Sizes == {s[2] - s[1] : s \in Spans(ops) \ Good}
<1>1. SUFFICES ASSUME Spans(ops) \ Good # {} PROVE FALSE
  OBVIOUS
<1>2. Sizes \subseteq Nat
  <2>1. \A s \in Spans(ops) : s[1] \in 1..Len(ops) /\ s[2] \in 1..Len(ops) /\ s[1] <= s[2]
    BY SpanBounds
  <2>2. \A s \in Spans(ops) : s[2] - s[1] \in Nat
    BY <2>1
  <2> QED
    BY <2>2
<1>3. PICK n \in Sizes : \A k \in Sizes : n <= k
  <2>1. Sizes # {}
    BY <1>1
  <2> HIDE DEF Sizes
  <2> QED
    BY <2>1, <1>2, SmallestNumber
<1>4. PICK s \in Spans(ops) \ Good : n = s[2] - s[1]
  BY <1>3
<1>5. ASSUME NEW t \in Spans(ops), t[2] - t[1] < n PROVE t \in Good
  <2>1. t \notin Good => t[2] - t[1] \in Sizes
    OBVIOUS
  <2>2. t[2] - t[1] \in Sizes => n <= t[2] - t[1] /\ t[2] - t[1] \in Nat /\ n \in Nat
    BY <1>2, <1>3
  <2> HIDE DEF Sizes
  <2> QED
    BY <2>1, <2>2, <1>5
<1>6. /\ s[1] \in Int /\ s[2] \in Int /\ Mid(s) \in Int
      /\ s[1] <= Mid(s) /\ Mid(s) <= s[2]
  <2>1. /\ s[1] \in 1..Len(ops) /\ s[2] \in 1..Len(ops) /\ Mid(s) \in Nat
        /\ s[1] <= Mid(s) /\ Mid(s) <= s[2]
    BY <1>4, MidInSpan
  <2> QED
    BY <2>1
<1>7. Mid(s) # s[1] => <<s[1], Mid(s) - 1>> \in Good
  <2> SUFFICES ASSUME Mid(s) # s[1] PROVE <<s[1], Mid(s) - 1>> \in Good
    OBVIOUS
  <2>1. <<s[1], Mid(s) - 1>> \in Spans(ops)
    BY <1>4, MidInSpan
  <2>2. Mid(s) - 1 - s[1] < n
    BY <1>4, <1>6
  <2> QED
    BY <2>1, <2>2, <1>5
<1>8. Mid(s) # s[2] => <<Mid(s) + 1, s[2]>> \in Good
  <2> SUFFICES ASSUME Mid(s) # s[2] PROVE <<Mid(s) + 1, s[2]>> \in Good
    OBVIOUS
  <2>1. <<Mid(s) + 1, s[2]>> \in Spans(ops)
    BY <1>4, MidInSpan
  <2>2. s[2] - (Mid(s) + 1) < n
    BY <1>4, <1>6
  <2> QED
    BY <2>1, <2>2, <1>5
<1> QED
  BY <1>4, <1>7, <1>8

-----------------------------------------------------------------------------
(* What the tree of a chain means, and how deep it is. *)

LEMMA MidBounds ==
    ASSUME NEW ops, Len(ops) \in Nat, NEW s \in Spans(ops)
    PROVE  /\ s[1] \in Int /\ s[2] \in Int /\ Mid(s) \in Int
           /\ s[1] \in 1..Len(ops) /\ s[2] \in 1..Len(ops) /\ Mid(s) \in 1..Len(ops)
           /\ s[1] <= Mid(s) /\ Mid(s) <= s[2] /\ s[2] - s[1] + 1 >= 1
           /\ Mid(s) \in 1..(Len(ops) + 1) /\ Mid(s) + 1 \in 1..(Len(ops) + 1)
           /\ s[2] + 1 \in 1..(Len(ops) + 1) /\ Mid(s) - 1 + 1 = Mid(s)
<1> DEFINE m == Mid(s)
<1>1. /\ s[1] \in 1..Len(ops) /\ s[2] \in 1..Len(ops) /\ m \in Nat
      /\ s[1] <= m /\ m <= s[2]
  BY MidInSpan
<1> HIDE DEF m
<1>2. s[1] \in Int /\ s[2] \in Int /\ m \in Int
  BY <1>1
<1>3. m \in 1..Len(ops) /\ s[2] - s[1] + 1 >= 1 /\ m - 1 + 1 = m
  BY <1>1, <1>2
<1>4. /\ m \in 1..(Len(ops) + 1) /\ m + 1 \in 1..(Len(ops) + 1)
      /\ s[2] + 1 \in 1..(Len(ops) + 1)
  BY <1>1, <1>2, <1>3
<1> QED
  BY <1>1, <1>2, <1>3, <1>4 DEF m

\* E is a set of expressions with the terms of a chain and every call of fn on its members.
Closed(E, fn, terms, ops) ==
    /\ \A i \in 1..(Len(ops) + 1) : terms[i] \in E
    /\ \A l \in E, r \in E, i \in 1..Len(ops) : Call(ops[i], fn, <<l, r>>) \in E

LEMMA TreeIsCall ==
    ASSUME NEW fn, NEW terms, NEW ops, Len(ops) \in Nat, NEW s \in Spans(ops)
    PROVE  Trees(fn, terms, ops)[s]
             = Call(ops[Mid(s)], fn, <<LeftOf(fn, terms, ops, s), RightOf(fn, terms, ops, s)>>)
BY TreesEquation DEF TreeOf, LeftOf, RightOf

LEMMA WholeSpan ==
    ASSUME NEW ops, Len(ops) \in Nat \ {0}
    PROVE  <<1, Len(ops)>> \in Spans(ops)
BY DEF Spans

LEMMA PartsInE ==
    ASSUME NEW fn, NEW terms, NEW ops, Len(ops) \in Nat, NEW E, Closed(E, fn, terms, ops),
           NEW s \in Spans(ops)
    PROVE  /\ LeftOf(fn, terms, ops, s) \in E /\ RightOf(fn, terms, ops, s) \in E
           /\ Trees(fn, terms, ops)[s] \in E
<1> DEFINE T == Trees(fn, terms, ops)
           Good == {t \in Spans(ops) : T[t] \in E}
<1>1. ASSUME NEW t \in Spans(ops),
             Mid(t) # t[1] => <<t[1], Mid(t) - 1>> \in Good,
             Mid(t) # t[2] => <<Mid(t) + 1, t[2]>> \in Good
      PROVE  LeftOf(fn, terms, ops, t) \in E /\ RightOf(fn, terms, ops, t) \in E /\ t \in Good
  <2>1. Mid(t) \in 1..Len(ops)
    BY MidBounds
  <2>2. Mid(t) \in 1..(Len(ops) + 1) /\ Mid(t) + 1 \in 1..(Len(ops) + 1)
    BY MidBounds
  <2>3. LeftOf(fn, terms, ops, t) \in E
    BY <1>1, <2>2 DEF LeftOf, Closed
  <2>4. RightOf(fn, terms, ops, t) \in E
    BY <1>1, <2>2 DEF RightOf, Closed
  <2>5. Call(ops[Mid(t)], fn, <<LeftOf(fn, terms, ops, t), RightOf(fn, terms, ops, t)>>) \in E
    BY <2>1, <2>3, <2>4 DEF Closed
  <2>6. T[t] \in E
    BY <2>5, TreeIsCall
  <2> QED
    BY <2>3, <2>4, <2>6
<1>2. Spans(ops) \subseteq Good
  <2> HIDE DEF Good
  <2> QED
    BY <1>1, SpanInduction
<1>3. \A t \in Spans(ops) : /\ Mid(t) # t[1] => <<t[1], Mid(t) - 1>> \in Good
                            /\ Mid(t) # t[2] => <<Mid(t) + 1, t[2]>> \in Good
  <2> HIDE DEF Good
  <2> QED
    BY <1>2, MidInSpan
<1>4. s \in Good
  BY <1>2
<1> QED
  BY <1>1, <1>3, <1>4

\* C is a chain's values from the left: of its first term, of its first two terms, ...
LeftToRight(C, F, M, terms, ops) ==
    /\ C[1] = M[terms[1]]
    /\ \A i \in 1..Len(ops) : C[i + 1] = F[<<C[i], ops[i], M[terms[i + 1]]>>]

\* F combines two values at an operator of the chain, in a way that is associative.
Associative(F, V, ops) ==
    /\ \A x \in V, y \in V, i \in 1..Len(ops) : F[<<x, ops[i], y>>] \in V
    /\ \A x \in V, y \in V, z \in V, i \in 1..Len(ops), j \in 1..Len(ops) :
          F[<<F[<<x, ops[i], y>>], ops[j], z>>] = F[<<x, ops[i], F[<<y, ops[j], z>>]>>]
\* M is a meaning of expressions in which a call of fn combines the meanings of its parts.
Means(M, F, E, fn, ops) ==
    \A l \in E, r \in E, i \in 1..Len(ops) :
       M[Call(ops[i], fn, <<l, r>>)] = F[<<M[l], ops[i], M[r]>>]

\* Where each operator of the chain combines two values in a way that is associative (F,
\* of a value, the operator's id and a value), the tree that balancedTree makes of a chain
\* has the value of the chain read from left to right, whatever its length.
THEOREM ChainMeansTheSame ==
    ASSUME NEW fn, NEW terms, NEW ops, Len(ops) \in Nat \ {0},
           NEW E, Closed(E, fn, terms, ops),
           NEW V, NEW F, Associative(F, V, ops),
           NEW M \in [E -> V], Means(M, F, E, fn, ops),
           NEW C \in [1..(Len(ops) + 1) -> V], LeftToRight(C, F, M, terms, ops)
    PROVE  M[BalancedTree(fn, terms, ops)] = C[Len(ops) + 1]
<1> DEFINE n == Len(ops)
           T == Trees(fn, terms, ops)
           \* v is the value of the terms from a to b.
           Is(v, a, b) == /\ v \in V
                          /\ a = 1 => v = C[b]
                          /\ a # 1 => F[<<C[a - 1], ops[a - 1], v>>] = C[b]
           Good == {s \in Spans(ops) : Is(M[T[s]], s[1], s[2] + 1)}
<1>1. ASSUME NEW k \in 1..(n + 1) PROVE Is(M[terms[k]], k, k)
  <2>1. terms[k] \in E
    BY DEF Closed
  <2>2. CASE k = 1
    BY <2>1, <2>2 DEF LeftToRight
  <2>3. CASE k # 1
    <3> DEFINE i == k - 1
    <3>1. i \in 1..n /\ i + 1 = k
      BY <2>3
    <3> HIDE DEF i
    <3>2. C[i + 1] = F[<<C[i], ops[i], M[terms[i + 1]]>>]
      BY <3>1 DEF LeftToRight
    <3>3. C[k] = F[<<C[i], ops[i], M[terms[k]]>>]
      BY <3>1, <3>2
    <3> QED
      BY <2>1, <2>3, <3>3 DEF i
  <2> QED
    BY <2>2, <2>3
<1>2. ASSUME NEW a \in 1..n, NEW m \in 1..n, NEW b \in 1..(n + 1), NEW x, NEW y,
             a <= m, Is(x, a, m), Is(y, m + 1, b)
      PROVE  Is(F[<<x, ops[m], y>>], a, b)
  <2>1. x \in V /\ y \in V /\ F[<<x, ops[m], y>>] \in V
    BY <1>2 DEF Associative
  <2>2. m \in Int /\ m + 1 # 1 /\ m + 1 - 1 = m
    OBVIOUS
  <2>3. F[<<C[m], ops[m], y>>] = C[b]
    BY <1>2, <2>2
  <2>4. CASE a = 1
    BY <1>2, <2>1, <2>3, <2>4
  <2>5. CASE a # 1
    <3>1. a - 1 \in 1..n /\ a - 1 \in 1..(n + 1)
      BY <2>5
    <3>2. C[a - 1] \in V
      BY <3>1
    <3>3. F[<<C[a - 1], ops[a - 1], F[<<x, ops[m], y>>]>>]
            = F[<<F[<<C[a - 1], ops[a - 1], x>>], ops[m], y>>]
      <4> DEFINE k == a - 1
                 c == C[a - 1]
      <4>1. k \in 1..Len(ops) /\ m \in 1..Len(ops) /\ c \in V
        BY <3>1, <3>2
      <4> HIDE DEF k, c
      <4>2. F[<<F[<<c, ops[k], x>>], ops[m], y>>] = F[<<c, ops[k], F[<<x, ops[m], y>>]>>]
        BY <4>1, <2>1, SMTT(40) DEF Associative
      <4> QED
        BY <4>2 DEF k, c
    <3>4. F[<<C[a - 1], ops[a - 1], x>>] = C[m]
      BY <1>2, <2>5
    <3> QED
      BY <2>1, <2>3, <2>5, <3>3, <3>4
  <2> QED
    BY <2>4, <2>5
<1> HIDE DEF Is
<1>3. ASSUME NEW s \in Spans(ops),
             Mid(s) # s[1] => <<s[1], Mid(s) - 1>> \in Good,
             Mid(s) # s[2] => <<Mid(s) + 1, s[2]>> \in Good
      PROVE  s \in Good
  <2> DEFINE l == LeftOf(fn, terms, ops, s)
             r == RightOf(fn, terms, ops, s)
             m == Mid(s)
  <2>1. /\ s[1] \in 1..n /\ s[2] \in 1..n /\ m \in 1..n
        /\ s[1] <= m /\ m <= s[2] /\ m + 1 \in 1..(n + 1) /\ s[2] + 1 \in 1..(n + 1)
        /\ m \in 1..(n + 1) /\ m - 1 + 1 = m
    BY MidBounds
  <2>2. l \in E /\ r \in E
    BY PartsInE
  <2>3. Is(M[l], s[1], m)
    <3>1. CASE m = s[1]
      <4>1. l = terms[m]
        BY <3>1 DEF LeftOf
      <4> HIDE DEF l, m
      <4> QED
        BY <4>1, <3>1, <2>1, <1>1
    <3>2. CASE m # s[1]
      <4> DEFINE t == <<s[1], m - 1>>
      <4>1. l = T[t] /\ t \in Good /\ t[1] = s[1] /\ t[2] = m - 1
        BY <3>2, <1>3 DEF LeftOf
      <4> HIDE DEF l, t, m, T
      <4>2. Is(M[T[t]], t[1], t[2] + 1)
        BY <4>1
      <4> QED
        BY <4>1, <4>2, <2>1
    <3> QED
      BY <3>1, <3>2
  <2>4. Is(M[r], m + 1, s[2] + 1)
    <3>1. CASE m = s[2]
      <4>1. r = terms[m + 1]
        BY <3>1 DEF RightOf
      <4> HIDE DEF r, m
      <4> QED
        BY <4>1, <3>1, <2>1, <1>1
    <3>2. CASE m # s[2]
      <4> DEFINE t == <<m + 1, s[2]>>
      <4>1. r = T[t] /\ t \in Good /\ t[1] = m + 1 /\ t[2] = s[2]
        BY <3>2, <1>3 DEF RightOf
      <4> HIDE DEF r, t, m, T
      <4>2. Is(M[T[t]], t[1], t[2] + 1)
        BY <4>1
      <4> QED
        BY <4>1, <4>2, <2>1
    <3> QED
      BY <3>1, <3>2
  <2>5. M[T[s]] = F[<<M[l], ops[m], M[r]>>]
    <3>1. T[s] = Call(ops[m], fn, <<l, r>>)
      BY TreeIsCall
    <3> HIDE DEF l, r, m, T
    <3> QED
      BY <2>1, <2>2, <3>1 DEF Means
  <2> HIDE DEF l, r, m, T, n
  <2>6. Is(F[<<M[l], ops[m], M[r]>>], s[1], s[2] + 1)
    BY <1>2, <2>1, <2>3, <2>4
  <2> QED
    BY <2>5, <2>6
<1>4. Spans(ops) \subseteq Good
  <2> HIDE DEF Good
  <2> QED
    BY <1>3, SpanInduction
<1>5. <<1, n>> \in Good
  BY <1>4, WholeSpan
<1> QED
  BY <1>5 DEF Is, BalancedTree

\* M reads a call of fn as its first part, the operator's id and its second part.
Reads(M, E, fn, ops) ==
    \A l \in E, r \in E, i \in 1..Len(ops) :
       M[Call(ops[i], fn, <<l, r>>)] = M[l] \o <<ops[i]>> \o M[r]
\* C is what was typed of a chain, from the left.
TypedAs(C, M, terms, ops) ==
    /\ C[1] = M[terms[1]]
    /\ \A i \in 1..Len(ops) : C[i + 1] = C[i] \o <<ops[i]>> \o M[terms[i + 1]]

\* \o, for the provers, which do not find their way through nested ones.
Cat(s, t) == s \o t

LEMMA CatInSeq ==
    ASSUME NEW S, NEW s \in Seq(S), NEW t \in Seq(S)
    PROVE  Cat(s, t) \in Seq(S)
BY ConcatProperties DEF Cat

LEMMA CatAssociative ==
    ASSUME NEW S, NEW s \in Seq(S), NEW t \in Seq(S), NEW u \in Seq(S)
    PROVE  Cat(Cat(s, t), u) = Cat(s, Cat(t, u))
BY ConcatAssociative, SMTT(40) DEF Cat

LEMMA CatTwice ==
    ASSUME NEW S, NEW x \in Seq(S), NEW i \in Seq(S), NEW y \in Seq(S), NEW j \in Seq(S),
           NEW z \in Seq(S)
    PROVE  Cat(Cat(Cat(Cat(x, i), y), j), z) = Cat(Cat(x, i), Cat(Cat(y, j), z))
<1>1. Cat(x, i) \in Seq(S) /\ Cat(y, j) \in Seq(S)
  BY CatInSeq
<1>2. Cat(Cat(Cat(x, i), y), j) = Cat(Cat(x, i), Cat(y, j))
  BY <1>1, CatAssociative
<1>3. Cat(Cat(Cat(x, i), Cat(y, j)), z) = Cat(Cat(x, i), Cat(Cat(y, j), z))
  BY <1>1, CatAssociative
<1> QED
  BY <1>2, <1>3

\* That value for reading: a reading of a call of fn reads its first part, the operator's
\* id and its second part.  The tree of a chain reads as the chain from left to right:
\* balancedTree drops no term and no id, and puts none in another's place.
THEOREM ChainInOrder ==
    ASSUME NEW fn, NEW terms, NEW ops, Len(ops) \in Nat \ {0},
           NEW E, Closed(E, fn, terms, ops),
           NEW X, \A i \in 1..Len(ops) : ops[i] \in X,
           NEW M \in [E -> Seq(X)], Reads(M, E, fn, ops),
           NEW C \in [1..(Len(ops) + 1) -> Seq(X)], TypedAs(C, M, terms, ops)
    PROVE  M[BalancedTree(fn, terms, ops)] = C[Len(ops) + 1]
<1> DEFINE V == Seq(X)
           F == [t \in V \X X \X V |-> Cat(Cat(t[1], <<t[2]>>), t[3])]
<1>1. ASSUME NEW x \in V, NEW y \in V, NEW i \in X
      PROVE  F[<<x, i, y>>] = Cat(Cat(x, <<i>>), y) /\ F[<<x, i, y>>] \in V
  <2>1. F[<<x, i, y>>] = Cat(Cat(x, <<i>>), y)
    OBVIOUS
  <2>2. <<i>> \in Seq(X)
    OBVIOUS
  <2>3. Cat(x, <<i>>) \in Seq(X)
    BY <2>2, CatInSeq
  <2>4. Cat(Cat(x, <<i>>), y) \in Seq(X)
    BY <2>3, CatInSeq
  <2> QED
    BY <2>1, <2>4
<1> HIDE DEF F
<1>2. ASSUME NEW x \in V, NEW y \in V, NEW z \in V, NEW i \in X, NEW j \in X
      PROVE  F[<<F[<<x, i, y>>], j, z>>] = F[<<x, i, F[<<y, j, z>>]>>]
  <2>1. <<i>> \in Seq(X) /\ <<j>> \in Seq(X)
    OBVIOUS
  <2>2. Cat(Cat(Cat(Cat(x, <<i>>), y), <<j>>), z) = Cat(Cat(x, <<i>>), Cat(Cat(y, <<j>>), z))
    <3> DEFINE p == <<i>>
               q == <<j>>
    <3>1. /\ x \in Seq(X) /\ y \in Seq(X) /\ z \in Seq(X)
          /\ p \in Seq(X) /\ q \in Seq(X)
      BY <2>1
    <3> HIDE DEF p, q, V
    <3>2. Cat(Cat(Cat(Cat(x, p), y), q), z) = Cat(Cat(x, p), Cat(Cat(y, q), z))
      BY <3>1, CatTwice
    <3> QED
      BY <3>2 DEF p, q
  <2>3. /\ F[<<x, i, y>>] \in V /\ F[<<x, i, y>>] = Cat(Cat(x, <<i>>), y)
        /\ F[<<y, j, z>>] \in V /\ F[<<y, j, z>>] = Cat(Cat(y, <<j>>), z)
    BY <1>1
  <2>4. F[<<F[<<x, i, y>>], j, z>>] = Cat(Cat(F[<<x, i, y>>], <<j>>), z)
    BY <1>1, <2>3
  <2>5. F[<<x, i, F[<<y, j, z>>]>>] = Cat(Cat(x, <<i>>), F[<<y, j, z>>])
    BY <1>1, <2>3
  <2> QED
    BY <2>2, <2>3, <2>4, <2>5
<1>3. \A i \in 1..(Len(ops) + 1) : M[terms[i]] \in V /\ C[i] \in V
  BY DEF Closed
<1>4. LeftToRight(C, F, M, terms, ops)
  <2>1. ASSUME NEW i \in 1..Len(ops)
        PROVE  C[i + 1] = F[<<C[i], ops[i], M[terms[i + 1]]>>]
    <3>1. i \in 1..(Len(ops) + 1) /\ i + 1 \in 1..(Len(ops) + 1)
      OBVIOUS
    <3>2. C[i] \in V /\ M[terms[i + 1]] \in V /\ ops[i] \in X
      BY <3>1, <1>3
    <3>3. F[<<C[i], ops[i], M[terms[i + 1]]>>]
            = Cat(Cat(C[i], <<ops[i]>>), M[terms[i + 1]])
      BY <3>2, <1>1
    <3>4. C[i + 1] = Cat(Cat(C[i], <<ops[i]>>), M[terms[i + 1]])
      BY DEF TypedAs, Cat
    <3> QED
      BY <3>3, <3>4
  <2> QED
    BY <2>1 DEF LeftToRight, TypedAs
<1>5. Associative(F, V, ops)
  <2>1. \A x \in V, y \in V, i \in 1..Len(ops) : F[<<x, ops[i], y>>] \in V
    BY <1>1
  <2>2. \A x \in V, y \in V, z \in V, i \in 1..Len(ops), j \in 1..Len(ops) :
           F[<<F[<<x, ops[i], y>>], ops[j], z>>] = F[<<x, ops[i], F[<<y, ops[j], z>>]>>]
    BY <1>2
  <2> QED
    BY <2>1, <2>2 DEF Associative
<1>6. Means(M, F, E, fn, ops)
  <2>1. ASSUME NEW l \in E, NEW r \in E, NEW i \in 1..Len(ops)
        PROVE  M[Call(ops[i], fn, <<l, r>>)] = F[<<M[l], ops[i], M[r]>>]
    <3>1. M[l] \in V /\ M[r] \in V /\ ops[i] \in X
      OBVIOUS
    <3>2. F[<<M[l], ops[i], M[r]>>] = Cat(Cat(M[l], <<ops[i]>>), M[r])
      BY <3>1, <1>1
    <3>3. M[Call(ops[i], fn, <<l, r>>)] = Cat(Cat(M[l], <<ops[i]>>), M[r])
      BY DEF Reads, Cat
    <3> QED
      BY <3>2, <3>3
  <2> QED
    BY <2>1 DEF Means
<1>7. M \in [E -> V] /\ C \in [1..(Len(ops) + 1) -> V]
  OBVIOUS
<1> HIDE DEF V
<1> QED
  BY <1>4, <1>5, <1>6, <1>7, ChainMeansTheSame, SMTT(40)

\* The powers of two: of one function, as a set.
PowersOfTwo == {P \in [Nat -> Nat] : P[0] = 1 /\ \A k \in Nat : P[k + 1] = 2 * P[k]}
\* H is the height of expressions: a call of fn is one higher than the higher of its parts.
Heights(H, E, fn, ops) ==
    \A l \in E, r \in E, i \in 1..Len(ops) :
       H[Call(ops[i], fn, <<l, r>>)] = 1 + (IF H[l] < H[r] THEN H[r] ELSE H[l])

\* None of the terms is higher than h.
NoHigher(H, terms, ops, h) == \A i \in 1..(Len(ops) + 1) : H[terms[i]] <= h

LEMMA MidHalves ==
    ASSUME NEW ops, Len(ops) \in Nat, NEW s \in Spans(ops),
           NEW p \in Nat, s[2] - s[1] + 1 < 2 * p
    PROVE  Mid(s) - s[1] < p /\ s[2] - Mid(s) < p
<1>1. s[1] \in Int /\ s[2] \in Int
  BY SpanBounds
<1> QED
  BY <1>1, SMTT(40) DEF Mid

\* balancedTree makes no tree deeper than it must be: with fewer than 2^k operators, the
\* tree of a chain is at most k deeper than its deepest term (P[k] is 2^k, H the height).
THEOREM ChainIsShallow ==
    ASSUME NEW fn, NEW terms, NEW ops, Len(ops) \in Nat \ {0},
           NEW E, Closed(E, fn, terms, ops),
           NEW P \in PowersOfTwo,
           NEW H \in [E -> Nat], Heights(H, E, fn, ops),
           NEW h \in Nat, NoHigher(H, terms, ops, h),
           NEW k \in Nat, Len(ops) < P[k]
    PROVE  H[BalancedTree(fn, terms, ops)] <= h + k
<1> DEFINE T == Trees(fn, terms, ops)
           Good == {s \in Spans(ops) :
                       \A j \in Nat : s[2] - s[1] + 1 < P[j] => H[T[s]] <= h + j}
<1>1. ASSUME NEW s \in Spans(ops),
             Mid(s) # s[1] => <<s[1], Mid(s) - 1>> \in Good,
             Mid(s) # s[2] => <<Mid(s) + 1, s[2]>> \in Good,
             NEW j \in Nat, s[2] - s[1] + 1 < P[j]
      PROVE  H[T[s]] <= h + j
  <2> DEFINE l == LeftOf(fn, terms, ops, s)
             r == RightOf(fn, terms, ops, s)
             m == Mid(s)
             g == j - 1
  <2> HIDE DEF Good
  <2>1. /\ s[1] \in Int /\ s[2] \in Int /\ m \in Int
        /\ m \in 1..Len(ops) /\ s[2] - s[1] + 1 >= 1
        /\ m \in 1..(Len(ops) + 1) /\ m + 1 \in 1..(Len(ops) + 1)
    BY MidBounds
  <2>i. s[1] \in Int /\ s[2] \in Int /\ m \in Int
    BY <2>1
  <2>2. l \in E /\ r \in E
    BY PartsInE
  <2>3. g \in Nat /\ g + 1 = j
    <3>1. j # 0
      <4>1. P[0] = 1 /\ s[2] - s[1] + 1 < P[j]
        BY <1>1 DEF PowersOfTwo
      <4> QED
        BY <4>1, <2>1
    <3> QED
      BY <3>1
  <2> HIDE DEF g
  <2>4. P[g] \in Nat /\ s[2] - s[1] + 1 < 2 * P[g]
    <3>1. P[g] \in Nat /\ P[g + 1] = 2 * P[g]
      BY <2>3 DEF PowersOfTwo
    <3> QED
      BY <3>1, <2>3, <1>1
  <2>5. m - s[1] < P[g] /\ s[2] - m < P[g]
    BY <2>4, MidHalves
  <2>6. ASSUME NEW t \in Good, t[2] - t[1] + 1 < P[g] PROVE H[T[t]] <= h + g
    BY <2>3, <2>6 DEF Good
  <2> HIDE DEF m
  <2>7. H[l] <= h + g
    <3>1. CASE m = s[1]
      <4>1. l = terms[m]
        BY <3>1 DEF LeftOf, m
      <4>2. H[terms[m]] \in Nat /\ H[terms[m]] <= h
        BY <2>1 DEF Closed, NoHigher
      <4> HIDE DEF l
      <4> QED
        BY <4>1, <4>2, <2>3
    <3>2. CASE m # s[1]
      <4> DEFINE t == <<s[1], m - 1>>
      <4>1. l = T[t] /\ t \in Good
        BY <3>2, <1>1 DEF LeftOf, m
      <4>2. t[2] - t[1] + 1 < P[g]
        <5>1. t[1] = s[1] /\ t[2] = m - 1
          OBVIOUS
        <5>2. (m - 1) - s[1] + 1 = m - s[1]
          <6> HIDE DEF t
          <6> QED
            BY <2>i, SMTT(40)
        <5> HIDE DEF t
        <5> QED
          BY <5>1, <5>2, <2>5
      <4> HIDE DEF l, t, T
      <4> QED
        BY <4>1, <4>2, <2>6
    <3> QED
      BY <3>1, <3>2
  <2>8. H[r] <= h + g
    <3>1. CASE m = s[2]
      <4>1. r = terms[m + 1]
        BY <3>1 DEF RightOf, m
      <4>2. H[terms[m + 1]] \in Nat /\ H[terms[m + 1]] <= h
        BY <2>1 DEF Closed, NoHigher
      <4> HIDE DEF r
      <4> QED
        BY <4>1, <4>2, <2>3
    <3>2. CASE m # s[2]
      <4> DEFINE t == <<m + 1, s[2]>>
      <4>1. r = T[t] /\ t \in Good
        BY <3>2, <1>1 DEF RightOf, m
      <4>2. t[2] - t[1] + 1 < P[g]
        <5>1. t[1] = m + 1 /\ t[2] = s[2]
          OBVIOUS
        <5>2. s[2] - (m + 1) + 1 = s[2] - m
          <6> HIDE DEF t
          <6> QED
            BY <2>i, SMTT(40)
        <5> HIDE DEF t
        <5> QED
          BY <5>1, <5>2, <2>5
      <4> HIDE DEF r, t, T
      <4> QED
        BY <4>1, <4>2, <2>6
    <3> QED
      BY <3>1, <3>2
  <2>9. H[T[s]] = 1 + (IF H[l] < H[r] THEN H[r] ELSE H[l])
    <3>1. T[s] = Call(ops[m], fn, <<l, r>>)
      BY TreeIsCall DEF m
    <3> HIDE DEF l, r, T
    <3> QED
      BY <2>1, <2>2, <3>1, SMTT(40) DEF Heights
  <2>10. H[l] \in Nat /\ H[r] \in Nat
    BY <2>2
  <2> HIDE DEF l, r, T
  <2> QED
    BY <2>3, <2>7, <2>8, <2>9, <2>10
<1>2. \A s \in Spans(ops) :
         /\ Mid(s) # s[1] => <<s[1], Mid(s) - 1>> \in Good
         /\ Mid(s) # s[2] => <<Mid(s) + 1, s[2]>> \in Good
         => s \in Good
  <2> SUFFICES ASSUME NEW s \in Spans(ops),
                      Mid(s) # s[1] => <<s[1], Mid(s) - 1>> \in Good,
                      Mid(s) # s[2] => <<Mid(s) + 1, s[2]>> \in Good
               PROVE  s \in Good
    OBVIOUS
  <2>1. \A j \in Nat : s[2] - s[1] + 1 < P[j] => H[T[s]] <= h + j
    BY <1>1
  <2> QED
    BY <2>1
<1>3. Spans(ops) \subseteq Good
  <2> HIDE DEF Good
  <2> QED
    BY <1>2, SpanInduction
<1>4. <<1, Len(ops)>> \in Good
  BY <1>3, WholeSpan
<1>5. <<1, Len(ops)>>[2] - <<1, Len(ops)>>[1] + 1 = Len(ops)
  OBVIOUS
<1>6. H[T[<<1, Len(ops)>>]] <= h + k
  BY <1>4, <1>5
<1> QED
  BY <1>6 DEF BalancedTree
=============================================================================
