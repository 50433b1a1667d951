------------------------------ MODULE MCStatic ------------------------------
(* The environment, and the expressions that are put together. *)
EXTENDS Static

A == ParamT("A")
B == ParamT("B")
MCFunctions ==
    (<<"+">>  :> <<Overload(FALSE, <<>>, <<IntT, IntT>>, IntT),
                   Overload(FALSE, <<"A">>, <<ListOf(A), ListOf(A)>>, ListOf(A)),
                   Overload(FALSE, <<>>, <<StringT, StringT>>, StringT)>>)
    @@ (<<"==">> :> <<Overload(FALSE, <<"A">>, <<A, A>>, BoolT)>>)
    @@ (<<"?:">> :> <<Overload(FALSE, <<"A">>, <<BoolT, A, A>>, A)>>)
    @@ (<<"[]">> :> <<Overload(FALSE, <<"A">>, <<ListOf(A), IntT>>, A),
                      Overload(FALSE, <<"A", "B">>, <<MapOf(A, B), A>>, B)>>)
    @@ (<<"in">> :> <<Overload(FALSE, <<"A">>, <<A, ListOf(A)>>, BoolT),
                      Overload(FALSE, <<"A", "B">>, <<A, MapOf(A, B)>>, BoolT)>>)
    @@ (<<"size">> :> <<Overload(FALSE, <<"A">>, <<ListOf(A)>>, IntT),
                        Overload(TRUE, <<"A">>, <<ListOf(A)>>, IntT),
                        Overload(FALSE, <<"A", "B">>, <<MapOf(A, B)>>, IntT),
                        Overload(TRUE, <<"A", "B">>, <<MapOf(A, B)>>, IntT),
                        Overload(FALSE, <<>>, <<StringT>>, IntT),
                        Overload(TRUE, <<>>, <<StringT>>, IntT)>>)
    @@ (<<"&&">> :> <<Overload(FALSE, <<>>, <<BoolT, BoolT>>, BoolT)>>)
    @@ (<<"@nsf">> :> <<Overload(FALSE, <<>>, <<BoolT>>, BoolT)>>)
    @@ (<<"dyn">> :> <<Overload(FALSE, <<"A">>, <<A>>, Dyn)>>)
    @@ (<<"type">> :> <<Overload(FALSE, <<"A">>, <<A>>, TypeOf(A))>>)
    @@ (<<"pick">> :> <<Overload(FALSE, <<"A">>, <<A, A, IntT>>, A),
                        Overload(FALSE, <<"A">>, <<A, A, StringT>>, A)>>)
    @@ (<<"c", "g">> :> <<Overload(FALSE, <<"A">>, <<A>>, A)>>)

MCContainer == <<"c">>
MCAliases   == ("s" :> <<"p", "q">>)
MCVariables ==
    (<<"a">> :> MapOf(StringT, IntT)) @@ (<<"c", "b">> :> ListOf(IntT)) @@ (<<"b">> :> IntT)
    @@ (<<"p", "q">> :> MapOf(StringT, ListOf(IntT))) @@ (<<"c", "a", "y">> :> StringT)
    @@ (<<"d">> :> Dyn) @@ (<<"w">> :> WrapperT)
MCInput ==
    (<<"a">> :> MapV(<<Str("x"), Num(3)>>)) @@ (<<"c", "b">> :> ListV(<<Num(1), Num(5)>>))
    @@ (<<"b">> :> Num(0)) @@ (<<"p", "q">> :> MapV(<<Str("x"), ListV(<<Num(0), Num(6)>>)>>))
    @@ (<<"c", "a", "y">> :> Str("y")) @@ (<<"d">> :> ListV(<<Num(1)>>)) @@ (<<"w">> :> Null)

Lit(x)     == Node("lit", <<x>>, <<>>)
Ident(n)   == Node("ident", n, <<>>)
Sel(e, f)  == Node("select", <<f>>, <<e>>)
Has(e, f)  == Node("test", <<f>>, <<e>>)
Call(f, args) == Node("call", <<f>>, args)
Member(f, args) == Node("member", <<f>>, args)
L(args)    == Node("list", <<>>, args)
M(args)    == Node("map", <<>>, args)
Accu       == Ident(<<"@result">>)
MapOver(r, x, t) ==
    Node("fold", <<x, "", "@result">>, <<r, L(<<>>), Lit("true"), Call("+", <<Accu, L(<<t>>)>>), Accu>>)
AllOver(r, x, p) ==
    Node("fold", <<x, "", "@result">>,
         <<r, Lit("true"), Call("@nsf", <<Accu>>), Call("&&", <<Accu, p>>), Accu>>)
List2(r, x, y, t) ==
    Node("fold", <<x, y, "@result">>, <<r, L(<<>>), Lit("true"), Call("+", <<Accu, L(<<t>>)>>), Accu>>)

I == Ident(<<"i">>)
One == L(<<Lit("1")>>)
Zero == L(<<Lit("0")>>)
\* Literals, parameters of types, and the overloads that bind them; and names, loop variables that
\* hide them, and what is selected from them.  A few of each are put together more often.
MCFamilies == {
    [size |-> 2,
     atoms |-> {Lit("1"), Lit("x"), Lit("null"), Ident(<<"w">>), L(<<>>), M(<<>>), I},
     contexts |->
        {L(<<Hole>>), L(<<Hole, Lit("1")>>), L(<<L(<<>>), Hole>>), M(<<Lit("1"), Hole>>),
         M(<<Hole, Hole>>), M(<<I, Hole>>),
         Call("+", <<Hole, Hole>>), Call("+", <<L(<<>>), Hole>>), Call("==", <<Hole, I>>),
         Call("==", <<L(<<>>), Hole>>),
         Call("?:", <<Lit("true"), Hole, L(<<>>)>>), Call("[]", <<Hole, Lit("0")>>),
         Call("[]", <<Hole, I>>),
         Call("in", <<I, Hole>>), Call("type", <<Hole>>), Member("size", <<Hole>>),
         Call("pick", <<Hole, Call("dyn", <<Hole>>), Lit("x")>>), Call("pick", <<L(<<>>), L(<<Hole>>),
         Hole>>),
         Sel(Hole, "x"), MapOver(Hole, "i", I), MapOver(L(<<>>), "i", Hole), MapOver(One, "i", Hole)}],
    [size |-> 4,
     atoms |-> {L(<<>>), I},
     contexts |->
        {L(<<Hole>>), L(<<Hole, Lit("1")>>), M(<<I, Hole>>), Call("pick", <<L(<<>>), L(<<Hole>>),
         Hole>>),
         Call("==", <<Hole, I>>), MapOver(Hole, "i", I), MapOver(L(<<>>),
         "i", Hole), Call("+", <<L(<<>>), Hole>>)}],
    [size |-> 2,
     atoms |-> {I, Ident(<<"a">>), Ident(<<"b">>), Ident(<<"d">>), Ident(<<"s">>), Ident(<<"", "d">>), Ident(<<"", "s">>),
                Sel(Ident(<<"c">>), "b"), Sel(Ident(<<"", "c">>), "b"), Sel(Ident(<<"", "a">>), "x")},
     contexts |->
        {Sel(Hole, "x"), Sel(Hole, "y"), Has(Hole, "x"), Call("[]", <<Hole, Lit("0")>>),
         Call("[]", <<Hole, Lit("x")>>), Call("[]", <<Hole, I>>),
         L(<<Hole>>), Call("+", <<Hole, One>>), Call("?:", <<Lit("true"), Hole, Hole>>),
         Member("g", <<Ident(<<"c">>), Hole>>), Call("g", <<Hole>>), Call("dyn", <<Hole>>),
         MapOver(Zero, "i", Hole), MapOver(One, "b", Hole), MapOver(Zero, "a", Hole),
         MapOver(Zero, "s", Hole), MapOver(Zero, "d", Hole), MapOver(Zero, "c", Hole),
         AllOver(Hole, "a", Call("==", <<Ident(<<"a">>),
         I>>)), List2(Hole, "i", "a", L(<<I, Ident(<<"a">>)>>)), List2(One, "i", "b", Hole)}],
    [size |-> 4,
     atoms |-> {Sel(Ident(<<"c">>), "b"), Sel(Ident(<<"", "c">>), "b"), Ident(<<"b">>)},
     contexts |->
        {Call("[]", <<Hole, I>>), Call("+", <<Ident(<<"b">>), Hole>>), Member("g", <<Ident(<<"c">>),
         Hole>>),
         MapOver(Zero, "i", Hole), MapOver(One, "b", Hole), List2(One, "i", "c", Hole),
         MapOver(Hole, "b", Ident(<<"b">>))}]}
=============================================================================
