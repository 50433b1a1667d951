---------------------------- MODULE TypeMapping ----------------------------
(***************************************************************************)
(* Types, and the assignability test of two of them, which adds to the     *)
(* substitutions of type parameters (Mapping) and, when it fails, takes    *)
(* back what it has added.                                                 *)
(***************************************************************************)
EXTENDS Mapping, SequencesExt

\* The element of a set of one: TLC evaluates {f(y) : y \in {x}} beginning with x.
The(S) == CHOOSE x \in S : TRUE

Simple(k)  == Type(k, k, <<>>)
Dyn        == Simple("dyn")
ErrorT     == Simple("error")
BoolT      == Simple("bool")
IntT       == Simple("int")
StringT    == Simple("string")
NullT      == Simple("null")
ListOf(t)  == Type("list", "list", <<t>>)
MapOf(k, v) == Type("map", "map", <<k, v>>)
OpaqueOf(n, ps) == Type("opaque", n, ps)
TypeOf(t)  == Type("type", "type", <<t>>)
ParamT(n)  == Type("param", n, <<>>)
\* google.protobuf.Int64Value: as int, and null may be assigned to it.
WrapperT   == [Simple("int") EXCEPT !.kind = "wrapper"]

\* The kind that the code sees.
Kind(t)    == IF t.kind = "wrapper" THEN "int" ELSE t.kind
IsDyn(t)   == t.kind = "dyn"
IsDynOrError(t) == t.kind \in {"dyn", "error"}
Primitive  == {"bool", "int", "string"}
Structured == {"list", "map", "opaque"}

RECURSIVE IsExactType(_, _)
IsExactType(t, u) ==
    /\ Kind(t) = Kind(u)
    /\ t.name = u.name
    /\ Len(t.params) = Len(u.params)
    /\ \A i \in DOMAIN t.params : IsExactType(t.params[i], u.params[i])

RECURSIVE IsEqualOrLessSpecific(_, _)
IsEqualOrLessSpecific(t, u) ==
    \/ IsDyn(t) \/ t.kind = "param"
    \/ /\ ~IsDyn(u) /\ u.kind # "param"
       /\ Kind(t) = Kind(u)
       /\ IF t.kind = "type"
          THEN \/ t.params = <<>>
               \/ u.params # <<>> /\ IsEqualOrLessSpecific(t.params[1], u.params[1])
          ELSE /\ t.name = u.name
               /\ Len(t.params) = Len(u.params)
               /\ \A i \in DOMAIN t.params : IsEqualOrLessSpecific(t.params[i], u.params[i])

MostGeneral(t, u) == IF IsEqualOrLessSpecific(t, u) THEN t ELSE u

RECURSIVE HasTypeParam(_)
HasTypeParam(t) == t.kind = "param" \/ \E i \in DOMAIN t.params : HasTypeParam(t.params[i])

-----------------------------------------------------------------------------
Found(m, t) == t.kind = "param" /\ t.name \in DOMAIN m.sub
Find(m, t)  == m.sub[t.name]

\* The parameters that t mentions, directly or through the mapping.
RECURSIVE Mentions(_, _)
Mentions(m, t) ==
    (IF t.kind = "param" THEN {t.name} ELSE {})
    \cup (IF Found(m, t) THEN Mentions(m, Find(m, t)) ELSE {})
    \cup UNION {Mentions(m, t.params[i]) : i \in DOMAIN t.params}

Add(m, from, to) == IF from.name \in Mentions(m, to) THEN [m EXCEPT !.cyclic = TRUE]
                    ELSE AddTo(m, from.name, to)

\* Mutant: the occurs check does not look at what the parameters stand for.
RECURSIVE NotSpelledIn(_, _, _)
NotSpelledIn(m, t, u) ==
    ~IsExactType(t, u) /\ \A i \in DOMAIN u.params : NotSpelledIn(m, t, u.params[i])
(* The occurs check: t, a parameter, is not within u. *)
RECURSIVE NotReferencedIn(_, _, _)
NotReferencedIn(m, t, u) ==
    /\ ~IsExactType(t, u)
    /\ Found(m, u) => NotReferencedIn(m, t, Find(m, u))
    /\ \A i \in DOMAIN u.params : NotReferencedIn(m, t, u.params[i])

LegacyNullable(t) == t.kind \in {"opaque"}
AssignableNull(t) == LegacyNullable(t) \/ t.kind \in {"null", "wrapper"}

\* The mapping after t2, a parameter, was tried as a substitution for t1; hasSub is in "found".
RECURSIVE Assign(_, _, _), AssignList(_, _, _)
\* t2 stands for u already, which m shows t1 to be assignable to.
Widen(m, t1, t2, u) ==
    IF ~m.ok THEN m
    ELSE LET new == MostGeneral(t1, u) IN
         IF NotReferencedIn(m, t2, new) THEN Add(m, t2, new) ELSE m
ValidSubstitution(m, t1, t2) ==
    IF IsExactType(t1, t2) THEN Answer(m, TRUE)
    ELSE IF ~Found(m, t2)
    THEN IF NotReferencedIn(m, t2, t1) THEN Answer(Add(m, t2, t1), TRUE) ELSE Answer(m, FALSE)
    ELSE IF IsExactType(t1, Find(m, t2)) THEN Answer(m, TRUE)
    ELSE Widen(Assign(m, t1, Find(m, t2)), t1, t2, Find(m, t2))

\* t1 is assignable to t2, neither of them a parameter.
AssignTypes(m, t1, t2) ==
    IF IsDynOrError(t1) \/ IsDynOrError(t2) THEN Answer(m, TRUE)
    ELSE IF t1.kind = "null" THEN Answer(m, AssignableNull(t2))
    ELSE IF t2.kind = "null" THEN Answer(m, AssignableNull(t1))
    ELSE IF Kind(t1) \in Primitive THEN Answer(m, Kind(t1) = Kind(t2))
    ELSE IF t1.kind = "type"
    THEN IF t2.kind # "type" THEN Answer(m, FALSE)
         ELSE IF t1.params = <<>> \/ t2.params = <<>> THEN Answer(m, t2.params = <<>>)
         ELSE IF HasTypeParam(t1) \/ HasTypeParam(t2) THEN Assign(m, t1.params[1], t2.params[1])
         ELSE Answer(m, TRUE)
    ELSE IF t1.kind \in Structured /\ t1.kind = t2.kind /\ t1.name = t2.name
    THEN AssignList(m, t1.params, t2.params)
    ELSE Answer(m, FALSE)

AssignFrom(m, t1, t2) ==
    IF t1.kind = "param" THEN ValidSubstitution(m, t2, t1) ELSE AssignTypes(m, t1, t2)
\* had: t2 stood for something before n, the attempt to make it stand for t1.
AfterAttempt(n, had, t1, t2) == IF n.ok \/ had THEN n ELSE AssignFrom(n, t1, t2)
(* internalIsAssignable: a substitution is looked for from t2 first, and from t1 only if t2 *)
(* has none.                                                                                *)
Assign(m, t1, t2) ==
    IF t2.kind # "param" THEN AssignFrom(m, t1, t2)
    ELSE AfterAttempt(ValidSubstitution(m, t1, t2), Found(m, t2), t1, t2)

AssignList(m, l1, l2) ==
    IF Len(l1) # Len(l2) THEN Answer(m, FALSE)
    ELSE FoldLeft(LAMBDA n, i : IF n.ok THEN Assign(n, l1[i], l2[i]) ELSE n,
                  Answer(m, TRUE), [i \in DOMAIN l1 |-> i])

(* isAssignable, isAssignableList: the mapping is left as it was if the answer is no. *)
IsAssignable(m, t1, t2) == Ended(Assign(Started(m), t1, t2))
IsAssignableList(m, l1, l2) == Ended(AssignList(Started(m), l1, l2))

(* The type with its parameters replaced by what they stand for, and by dyn if nothing. *)
RECURSIVE Substitute(_, _, _)
Substitute(m, t, toDyn) ==
    IF Found(m, t) THEN Substitute(m, Find(m, t), toDyn)
    ELSE IF t.kind = "param" THEN IF toDyn THEN Dyn ELSE t
    ELSE [t EXCEPT !.params = [i \in DOMAIN t.params |-> Substitute(m, t.params[i], toDyn)]]
=============================================================================
