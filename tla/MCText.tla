------------------------------- MODULE MCText -------------------------------
(* The alphabets that are typed, and the expressions that are pasted. *)
EXTENDS Text

MCFamilies == {
    [alphabet |-> {"a", "1", "-", "!", "*", "&&", "?", ":", "(", ")"}, size |-> 6],
    [alphabet |-> {"a", "as", ".", "[", "]", "{", "}", ":", ",", "?"}, size |-> 7],
    [alphabet |-> {"a", "-", "1", ".", "<", "[", "]", "(", ")"}, size |-> 6],
    [alphabet |-> {"a", "-", "*", "<", "(", ")"}, size |-> 7],
    [alphabet |-> {"a", "has", "all", ".", "(", ")", ","}, size |-> 8] }


Leaf(tok)  == [label |-> tok, kids |-> <<>>]
Branch(label, kids) == [label |-> label, kids |-> kids]
Word(x)    == Branch("Ident", <<Branch("Name", <<Leaf(x)>>)>>)
Sel(t)     == Branch("Select", <<t, Leaf("."), Leaf("b")>>)
Args1(t)   == Branch("Args", <<Leaf("("), t, Leaf(")")>>)
Args2(t, u) == Args1(Branch("List", <<t, Leaf(","), u>>))
Macro(recv, fn, args) == Branch("MemberCall", <<recv, Leaf("."), Leaf(fn), args>>)
HasOf(t)   == Branch("GlobalCall", <<Branch("Name", <<Leaf("has")>>), Args1(t)>>)
Both(t, u) == Branch("Chain", <<t, Leaf("&&"), u>>)
ListOf1(t) == Branch("CreateList", <<Leaf("["), t, Leaf("]")>>)

Simple == {Word("a"), HasOf(Sel(Word("a"))), ListOf1(Word("b"))}
Grown(S) ==
    {HasOf(Sel(t)) : t \in S} \cup {HasOf(HasOf(Sel(t))) : t \in S}
    \cup {Macro(t, fn, Args2(Word("a"), u)) : t \in S, u \in S, fn \in {"all", "filter", "exists", "exists_one"}}
    \cup {Macro(t, "map", Args1(Branch("List", <<Branch("List", <<Word("a"), Leaf(","), u>>), Leaf(","), t>>)))
          : t \in S, u \in S}
Macros == Grown(Simple) \cup
          Grown({HasOf(HasOf(Sel(Word("a")))), Macro(HasOf(Sel(Word("b"))), "map", Args2(Word("a"), HasOf(Sel(Word("a")))))})

RECURSIVE ChainOf(_, _)
ChainOf(op, n) ==
    LET term == Word(IF n % 2 = 0 THEN "a" ELSE "b") IN
    IF n = 1 THEN term
    ELSE Branch("Chain", <<ChainOf(op, n - 1), Leaf(op),
                           IF n % 3 = 0 THEN Branch("Literal", <<Leaf("1")>>) ELSE term>>)
MCPasted == Macros \cup {ChainOf(op, n) : op \in {"&&", "||"}, n \in 2..9}
=============================================================================
