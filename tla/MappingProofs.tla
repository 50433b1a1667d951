---------------------------- MODULE MappingProofs ----------------------------
(***************************************************************************)
(* A failed attempt to add to the substitutions leaves them as they were,  *)
(* for any number of parameters and types and any number of adds.          *)
(***************************************************************************)
EXTENDS Mapping, WellFoundedInduction, TLAPS

-----------------------------------------------------------------------------
\* u is the substitutions that undoing a log from its end goes through.
Solves(u, undo, sub) ==
    u = [i \in 1..(Len(undo) + 1) |->
            IF i = Len(undo) + 1 THEN sub ELSE Restore(undo[i], u[i + 1])]

\* Every set of numbers has a smallest.
LEMMA SmallestNumber ==
    ASSUME NEW S, S \subseteq Nat, S # {}
    PROVE  \E m \in S : \A k \in S : m <= k
<1> DEFINE R == {p \in Nat \X Nat : p[1] < p[2]}
<1>1. IsWellFoundedOn(R, Nat)
  BY NatLessThanWellFounded DEF OpToRel
<1>2. PICK m \in S : \A k \in S : <<k, m>> \notin R
  <2> HIDE DEF R
  <2> QED
    BY <1>1, WFMin
<1>3. ASSUME NEW k \in S PROVE m <= k
  <2>1. k \in Nat /\ m \in Nat /\ <<k, m>> \notin R
    BY <1>2
  <2>2. <<k, m>>[1] = k /\ <<k, m>>[2] = m
    OBVIOUS
  <2>3. ~(k < m)
    BY <2>1, <2>2
  <2> QED
    BY <2>1, <2>3
<1> QED
  BY <1>3

\* There is one way to undo a log: two ways would differ first somewhere near its end.
LEMMA OneUndoing ==
    ASSUME NEW undo, Len(undo) \in Nat, NEW sub, NEW u, NEW v,
           Solves(u, undo, sub), Solves(v, undo, sub)
    PROVE  u[1] = v[1]
<1> DEFINE n == Len(undo) + 1
           Differ == {k \in 0..(n - 1) : u[n - k] # v[n - k]}
<1>1. SUFFICES ASSUME Differ # {} PROVE FALSE
  <2>1. n - 1 \in 0..(n - 1) /\ n - (n - 1) = 1
    OBVIOUS
  <2>2. u[1] # v[1] => n - 1 \in Differ
    BY <2>1
  <2> QED
    BY <2>2
<1>2. PICK d \in Differ : \A k \in Differ : d <= k
  <2> Differ \subseteq Nat
    OBVIOUS
  <2> HIDE DEF Differ
  <2> QED
    BY <1>1, SmallestNumber
<1>3. \A i \in 1..n : /\ u[i] = IF i = n THEN sub ELSE Restore(undo[i], u[i + 1])
                      /\ v[i] = IF i = n THEN sub ELSE Restore(undo[i], v[i + 1])
  BY DEF Solves
<1> DEFINE i == n - d
<1>4. d \in Nat /\ i \in 1..n /\ u[i] # v[i]
  BY <1>2
<1>5. CASE d = 0
  <2>1. i = n
    BY <1>5
  <2> HIDE DEF i
  <2> QED
    BY <2>1, <1>3, <1>4
<1>6. CASE d # 0
  <2>1. d - 1 \in 0..(n - 1) /\ d - 1 < d /\ n - (d - 1) = i + 1 /\ i # n
    BY <1>2, <1>6
  <2>2. d - 1 \notin Differ
    BY <1>2, <1>4, <2>1
  <2>3. u[i + 1] = v[i + 1]
    BY <2>1, <2>2
  <2> HIDE DEF i
  <2> QED
    BY <2>1, <2>3, <1>3, <1>4
<1> QED
  BY <1>4, <1>5, <1>6

LEMMA RollbackIs ==
    ASSUME NEW undo, Len(undo) \in Nat, NEW sub, NEW u, Solves(u, undo, sub)
    PROVE  Undone(undo, sub)[1] = u[1]
<1>1. Undone(undo, sub) = CHOOSE v : Solves(v, undo, sub)
  BY DEF Undone, Solves
<1>2. Solves(Undone(undo, sub), undo, sub)
  BY <1>1
<1> QED
  BY <1>2, OneUndoing

\* The entry of an add undoes it.
LEMMA RestoreUndoesBind ==
    ASSUME NEW D, NEW T, NEW sub \in [D -> T], NEW n, NEW t
    PROVE  Restore(Entry(sub, n), Bind(sub, n, t)) = sub
<1>1. CASE n \in D
  <2>1. Restore(Entry(sub, n), Bind(sub, n, t)) = Bind(Bind(sub, n, t), n, sub[n])
    BY <1>1 DEF Restore, Entry
  <2> QED
    BY <1>1, <2>1 DEF Bind
<1>2. CASE n \notin D
  <2>1. Restore(Entry(sub, n), Bind(sub, n, t)) = Drop(Bind(sub, n, t), n)
    BY <1>2 DEF Restore, Entry
  <2> QED
    BY <1>2, <2>1 DEF Bind, Drop
<1> QED
  BY <1>1, <1>2

-----------------------------------------------------------------------------
Entries(Names, Types) == [key : Names, had : BOOLEAN, prev : Types \cup {NoType}]
\* The mappings of some of the names to types.
Mappings(Names, Types) ==
    [sub : UNION {[D -> Types] : D \in SUBSET Names}, undo : Seq(Entries(Names, Types)),
     recording : BOOLEAN, ok : BOOLEAN, cyclic : BOOLEAN]

\* A step of a test: it adds to the mapping, or notes that it may not, or answers.
Tests(m, n, Names, Types) ==
    \/ \E k \in Names, t \in Types : n = AddTo(m, k, t)
    \/ n = [m EXCEPT !.cyclic = TRUE]
    \/ \E ok \in BOOLEAN : n = Answer(m, ok)

\* What is undone from m is sub.
Undoes(m, sub) == \E u : Solves(u, m.undo, m.sub) /\ u[1] = sub

LEMMA BindType ==
    ASSUME NEW Names, NEW Types, NEW sub \in UNION {[D -> Types] : D \in SUBSET Names},
           NEW k \in Names, NEW t \in Types
    PROVE  /\ Bind(sub, k, t) \in UNION {[D -> Types] : D \in SUBSET Names}
           /\ Entry(sub, k) \in Entries(Names, Types)
<1>1. PICK D \in SUBSET Names : sub \in [D -> Types]
  OBVIOUS
<1>2. Bind(sub, k, t) \in [D \cup {k} -> Types]
  BY <1>1 DEF Bind
<1>3. D \cup {k} \in SUBSET Names
  OBVIOUS
<1>4. Entry(sub, k) \in Entries(Names, Types)
  BY <1>1 DEF Entry, Entries
<1> QED
  BY <1>2, <1>3, <1>4

LEMMA AddUndoes ==
    ASSUME NEW Names, NEW Types, NEW m \in Mappings(Names, Types), m.recording,
           NEW sub, Undoes(m, sub), NEW k \in Names, NEW t \in Types
    PROVE  /\ AddTo(m, k, t) \in Mappings(Names, Types) /\ AddTo(m, k, t).recording
           /\ Undoes(AddTo(m, k, t), sub)
<1> DEFINE n == AddTo(m, k, t)
           e == Entry(m.sub, k)
           to == Bind(m.sub, k, t)
           len == Len(m.undo)
<1>1. /\ m.sub \in UNION {[D -> Types] : D \in SUBSET Names}
      /\ m.undo \in Seq(Entries(Names, Types))
  BY DEF Mappings
<1>2. to \in UNION {[D -> Types] : D \in SUBSET Names} /\ e \in Entries(Names, Types)
  BY <1>1, BindType
<1>3. n = [m EXCEPT !.sub = to, !.undo = Append(m.undo, e)]
  BY DEF AddTo, Mappings
<1>4. n.sub = to /\ n.undo = Append(m.undo, e) /\ n.recording /\ n \in Mappings(Names, Types)
  <2>1. Append(m.undo, e) \in Seq(Entries(Names, Types))
    BY <1>1, <1>2
  <2> DEFINE log == Append(m.undo, e)
  <2> HIDE DEF to, e, n, log
  <2>2. n = [m EXCEPT !.sub = to, !.undo = log]
    BY <1>3 DEF log
  <2>3. n.sub = to /\ n.undo = log /\ n.recording
    BY <2>2 DEF Mappings
  <2>4. n \in Mappings(Names, Types)
    BY <1>2, <2>1, <2>2 DEF Mappings, log
  <2> QED
    BY <2>3, <2>4 DEF log
<1>5. /\ len \in Nat /\ Len(Append(m.undo, e)) = len + 1
      /\ \A i \in 1..len : Append(m.undo, e)[i] = m.undo[i]
      /\ Append(m.undo, e)[len + 1] = e
  <2> HIDE DEF e
  <2> QED
    BY <1>1, <1>2
<1>6. Restore(e, to) = m.sub
  BY <1>1, RestoreUndoesBind
<1>7. PICK u : Solves(u, m.undo, m.sub) /\ u[1] = sub
  BY DEF Undoes
<1> DEFINE v == [i \in 1..(len + 2) |-> IF i = len + 2 THEN to ELSE u[i]]
           log == Append(m.undo, e)
<1> HIDE DEF to, e, n, len, log
<1>8. u = [i \in 1..(len + 1) |->
             IF i = len + 1 THEN m.sub ELSE Restore(m.undo[i], u[i + 1])]
  BY <1>7 DEF Solves, len
<1>9. \A i \in 1..(len + 2) :
         v[i] = IF i = len + 2 THEN to ELSE Restore(log[i], v[i + 1])
  <2> SUFFICES ASSUME NEW i \in 1..(len + 2)
               PROVE  v[i] = IF i = len + 2 THEN to ELSE Restore(log[i], v[i + 1])
    OBVIOUS
  <2>1. CASE i = len + 2
    BY <2>1
  <2>2. CASE i = len + 1
    <3>1. i # len + 2 /\ v[i] = u[i] /\ v[i + 1] = to
      BY <2>2, <1>5
    <3>2. u[i] = m.sub
      BY <2>2, <1>5, <1>8
    <3>3. log[i] = e
      BY <2>2, <1>5 DEF log
    <3> QED
      BY <3>1, <3>2, <3>3, <1>6
  <2>3. CASE i # len + 1 /\ i # len + 2
    <3>0. len \in Nat
      BY <1>5
    <3>1. i \in 1..len
      BY <2>3, <3>0
    <3>2. i + 1 \in 1..(len + 2) /\ i + 1 # len + 2 /\ i \in 1..(len + 1)
      BY <3>1, <3>0
    <3>3. v[i] = u[i] /\ v[i + 1] = u[i + 1]
      BY <2>3, <3>2
    <3>4. u[i] = Restore(m.undo[i], u[i + 1])
      BY <2>3, <3>2, <1>8
    <3>5. log[i] = m.undo[i]
      BY <3>1, <1>5 DEF log
    <3> QED
      BY <2>3, <3>3, <3>4, <3>5
  <2> QED
    BY <2>1, <2>2, <2>3
<1>10. v = [i \in 1..(len + 2) |-> IF i = len + 2 THEN to ELSE Restore(log[i], v[i + 1])]
  <2> DEFINE w == [i \in 1..(len + 2) |->
                     IF i = len + 2 THEN to ELSE Restore(log[i], v[i + 1])]
  <2>1. v = [i \in 1..(len + 2) |-> v[i]]
    OBVIOUS
  <2>2. \A i \in 1..(len + 2) : v[i] = w[i]
    BY <1>9
  <2> HIDE DEF v
  <2> QED
    BY <2>1, <2>2
<1>11. v[1] = sub
  <2>1. 1 \in 1..(len + 2) /\ 1 # len + 2
    BY <1>5
  <2> QED
    BY <2>1, <1>7
<1>12. Solves(v, log, to)
  <2>1. Len(log) + 1 = len + 2
    BY <1>5 DEF log
  <2> HIDE DEF v
  <2> QED
    BY <2>1, <1>10 DEF Solves
<1>13. Undoes(n, sub)
  <2> HIDE DEF v
  <2> QED
    BY <1>4, <1>11, <1>12 DEF Undoes, log
<1> QED
  BY <1>4, <1>13 DEF n

\* attempt: whatever a test adds, and however often, a mapping that records nothing when
\* the test starts is the same again when the test has said no.
THEOREM FailedAttemptUndone ==
    ASSUME NEW Names, NEW Types, NEW m \in Mappings(Names, Types), m.undo = <<>>,
           NEW last \in Nat, NEW h, h[0] = Started(m),
           \A i \in 0..(last - 1) : Tests(h[i], h[i + 1], Names, Types),
           ~h[last].ok
    PROVE  /\ Ended(h[last]).sub = m.sub
           /\ Ended(h[last]).undo = <<>> /\ ~Ended(h[last]).recording
<1> DEFINE Good(i) == /\ h[i] \in Mappings(Names, Types) /\ h[i].recording
                      /\ Undoes(h[i], m.sub)
           Bad == {i \in 0..last : ~Good(i)}
<1>1. Good(0)
  <2>1. /\ h[0] \in Mappings(Names, Types) /\ h[0].recording
        /\ h[0].sub = m.sub /\ h[0].undo = <<>>
    BY DEF Started, Mappings
  <2> DEFINE u == [i \in 1..1 |-> m.sub]
  <2>2. u = [i \in 1..(Len(<<>>) + 1) |->
               IF i = Len(<<>>) + 1 THEN m.sub ELSE Restore(<<>>[i], u[i + 1])]
    <3>1. Len(<<>>) + 1 = 1
      OBVIOUS
    <3> QED
      BY <3>1
  <2>3. u[1] = m.sub
    OBVIOUS
  <2> HIDE DEF u
  <2> QED
    BY <2>1, <2>2, <2>3 DEF Undoes, Solves
<1>2. ASSUME NEW i \in 0..(last - 1), Good(i) PROVE Good(i + 1)
  <2>1. CASE \E k \in Names, t \in Types : h[i + 1] = AddTo(h[i], k, t)
    BY <1>2, <2>1, AddUndoes
  <2>2. CASE h[i + 1] = [h[i] EXCEPT !.cyclic = TRUE]
    <3>1. /\ h[i + 1] \in Mappings(Names, Types) /\ h[i + 1].recording
          /\ h[i + 1].sub = h[i].sub /\ h[i + 1].undo = h[i].undo
      BY <1>2, <2>2 DEF Mappings
    <3> QED
      BY <1>2, <3>1 DEF Undoes
  <2>3. CASE \E ok \in BOOLEAN : h[i + 1] = Answer(h[i], ok)
    <3>1. PICK ok \in BOOLEAN : h[i + 1] = [h[i] EXCEPT !.ok = ok]
      BY <2>3 DEF Answer
    <3>2. /\ h[i + 1] \in Mappings(Names, Types) /\ h[i + 1].recording
          /\ h[i + 1].sub = h[i].sub /\ h[i + 1].undo = h[i].undo
      BY <1>2, <3>1 DEF Mappings
    <3> QED
      BY <1>2, <3>2 DEF Undoes
  <2> QED
    BY <2>1, <2>2, <2>3 DEF Tests
<1> HIDE DEF Good
<1>3. Good(last)
  <2>1. SUFFICES ASSUME Bad # {} PROVE FALSE
    <3>1. last \in 0..last
      OBVIOUS
    <3> QED
      BY <3>1
  <2>2. PICK b \in Bad : \A k \in Bad : b <= k
    <3> Bad \subseteq Nat
      OBVIOUS
    <3> HIDE DEF Bad
    <3> QED
      BY <2>1, SmallestNumber
  <2>3. b # 0
    BY <1>1
  <2>4. b - 1 \in 0..(last - 1) /\ b - 1 \in 0..last /\ (b - 1) + 1 = b /\ ~(b <= b - 1)
    BY <2>3
  <2>5. Good(b - 1)
    BY <2>2, <2>4
  <2> QED
    BY <1>2, <2>4, <2>5
<1>4. h[last] \in Mappings(Names, Types) /\ Undoes(h[last], m.sub)
  BY <1>3 DEF Good
<1>5. PICK u : Solves(u, h[last].undo, h[last].sub) /\ u[1] = m.sub
  BY <1>4 DEF Undoes
<1>6. Len(h[last].undo) \in Nat
  BY <1>4 DEF Mappings
<1>7. Undone(h[last].undo, h[last].sub)[1] = m.sub
  BY <1>5, <1>6, RollbackIs
<1>8. Ended(h[last]) = [Rollback(h[last]) EXCEPT !.undo = <<>>, !.recording = FALSE]
  BY DEF Ended
<1>9. Rollback(h[last]) = [h[last] EXCEPT !.sub = m.sub]
  BY <1>7 DEF Rollback
<1> QED
  BY <1>4, <1>8, <1>9 DEF Mappings
=============================================================================
