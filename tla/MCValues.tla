------------------------------ MODULE MCValues -------------------------------
EXTENDS Values

MCMinUnixTime == -3
MCMapKeys == {IntV(-1), IntV(1), IntV(MaxInt), UintV(1), UintV(MaxUint)}

\* The names of an accumulator: the one of the macros, and the one of a macro of the
\* host, which the expression that the macro is given can spell.
Names == {"@result", "acc"}
Item == Ident("i")
Inner == Fold("@result", "j", Ident("x"), List(<<>>),
              Plus(Ident("@result"), List(<<Item>>)), Ident("@result"))
Elements(accu, range) ==
    {Item, List(<<Item>>), Ident("r"), Inner}
        \union {e \in {Ident("acc")} : accu = "acc" /\ range = Ident("x")}
Steps(accu, elem) ==
    LET append == Plus(Ident(accu), List(<<elem>>))
    IN {append, Cond(Item, append, Ident(accu)), Plus(List(<<elem>>), Ident(accu)),
        Plus(append, List(<<elem>>))}
FoldsOf(accu, range) ==
    {Fold(accu, "i", range, List(<<>>), step, Ident(accu)) :
        step \in UNION {Steps(accu, elem) : elem \in Elements(accu, range)}}
Folds(range) == UNION {FoldsOf(accu, range) : accu \in Names}

\* cel.bind(b, e, b + b): a comprehension over nothing, of which b is the accumulator.
Bound(e) == Fold("b", "#unused", List(<<>>), e, Ident("b"), Plus(Ident("b"), Ident("b")))
MCPrograms ==
    Folds(Ident("x")) \union Folds(Ident("r"))
        \union {Bound(e) : e \in Folds(Ident("x"))}
        \union {Plus(Ident("r"), Ident("x")), List(<<Ident("r")>>)}
=============================================================================
