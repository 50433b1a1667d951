------------------------------- MODULE MCCost --------------------------------
EXTENDS Cost

MCSamples == {0, 1, 10, Top}
MCFactors == {<<1, 10>>, <<4, 1>>}

Short == StringV(1, 1)
Long == StringV(12, 15)
MapA(v) == MapV(<<Short>>, <<v>>)
MapAB(v, w) == MapV(<<Short, Long>>, <<v, w>>)
MCInputs ==
  {[s |-> StringV(0, 0), l |-> ListV(<<>>), m |-> MapV(<<>>, <<>>), c |-> BoolV(TRUE),
    ll |-> ListV(<<ListV(<<>>)>>), ml |-> MapV(<<>>, <<>>)],
   [s |-> StringV(20, 30), l |-> ListV(<<Short, Long>>), m |-> MapAB(Long, Short), c |-> BoolV(TRUE),
    ll |-> ListV(<<ListV(<<Long>>), ListV(<<Short, Short, Long>>)>>),
    ml |-> MapAB(ListV(<<Long, Long>>), ListV(<<>>))],
   [s |-> StringV(7, 9), l |-> ListV(<<Long>>), m |-> MapA(Short), c |-> BoolV(FALSE),
    ll |-> ListV(<<>>), ml |-> MapA(ListV(<<Short>>))]}

Str == <<"string">>
S == Var("s", Str)
L == Var("l", <<"list", "string">>)
M == Var("m", <<"map", "string">>)
C == Var("c", <<"bool">>)
LL == Var("ll", <<"list", "list", "string">>)
ML == Var("ml", <<"map", "list", "string">>)
MCAtoms == {S, L, M, LL, ML}

Text == Lit(StringV(5, 6))
Bool == <<"bool">>
Zero == Lit(IntV(0))
Cond(c, a, b) == Call("conditional", <<c, a, b>>, a.type)
Test(e) == Call("contains", <<e, S>>, Bool)
W(type) == Var("w", type)

\* The macros, over a range, with what they do to each element.
Accu(type) == Var(Accumulator, type)
MapMacro(vars, range, elem, test) ==
  LET type == <<"list">> \o elem.type
      append == Call("add_list", <<Accu(type), List(<<elem>>)>>, type)
  IN Fold(vars, range, Nothing(type), Lit(True),
          IF test = <<>> THEN append ELSE Cond(test[1], append, Accu(type)), Accu(type))
Exists(vars, range, test) ==
  Fold(vars, range, Lit(BoolV(FALSE)),
       Call("not_strictly_false", <<Call("not", <<Accu(Bool)>>, Bool)>>, Bool),
       Call("logical_or", <<Accu(Bool), test>>, Bool), Accu(Bool))
AllMacro(vars, range, test) ==
  Fold(vars, range, Lit(True), Call("not_strictly_false", <<Accu(Bool)>>, Bool),
       Call("logical_and", <<Accu(Bool), test>>, Bool), Accu(Bool))

Common(e) ==
  {List(<<e>>), List(<<e, e>>), Entries(<<Text, e>>), Cond(C, e, e),
   Call("equals", <<e, e>>, Bool), Call("of", <<e>>, <<"opt">> \o e.type),
   Call("ofNonZeroValue", <<e>>, <<"opt">> \o e.type),
   Bind("w", e, S), Bind("w", e, List(<<W(e.type), W(e.type)>>)),
   Bind("w", e, Cond(C, W(e.type), e))}
OfString(e) ==
  {Call("add_string", <<e, S>>, Str), Call("add_string", <<Text, e>>, Str),
   Call("startsWith", <<S, e>>, Bool), Call("endsWith", <<e, S>>, Bool), Test(e),
   Call("matches", <<S, e>>, Bool), Call("matches", <<e, Text>>, Bool), Call("less", <<e, S>>, Bool),
   Cond(C, e, Text), Cond(C, S, e),
   Call("bytes", <<e>>, <<"bytes">>), Call("size", <<e>>, <<"int">>),
   Call("in_list", <<e, L>>, Bool), Call("index", <<M, e>>, Str), Call("index", <<ML, e>>, L.type),
   List(<<e, Text>>), Bind("w", e, Call("add_string", <<W(Str), W(Str)>>, Str)),
   MapMacro(<<"i">>, L, Call("add_string", <<Var("i", Str), e>>, Str), <<>>)}
OfList(e) ==
  LET item == Var("i", Inside(e.type))
  IN {Call("index", <<e, Zero>>, Inside(e.type)),
      Call("optindex", <<e, Zero>>, <<"opt">> \o Inside(e.type)),
      Call("add_list", <<e, e>>, e.type), Call("size", <<e>>, <<"int">>),
      MapMacro(<<"i">>, e, item, <<>>), MapMacro(<<"i">>, e, List(<<item>>), <<C>>),
      MapMacro(<<"k", "i">>, e, item, <<>>),
      Exists(<<"i">>, e, Call("equals", <<item, item>>, Bool)),
      AllMacro(<<"i">>, e, Call("equals", <<item, List(<<item>>)>>, Bool))}
     \union (IF item.type = Str
             THEN {Call("add_list", <<e, List(<<Text>>)>>, e.type), Call("in_list", <<S, e>>, Bool),
                   AllMacro(<<"i">>, e, Test(item)), Exists(<<"i">>, e, Test(item)),
                   MapMacro(<<"i">>, e, item, <<Test(item)>>)}
             ELSE IF item.type[1] = "list"
             THEN {MapMacro(<<"i">>, e, Call("index", <<item, Zero>>, Inside(item.type)), <<>>)}
             ELSE {})
OfMap(e) ==
  LET type == Inside(e.type)
      key == Var("k", Str)
  IN {Select(e, "a"), Has(e, "b"), Call("index", <<e, Text>>, type),
      Call("optindex", <<e, S>>, <<"opt">> \o type),
      Call("optselect", <<e, Var("b", Str)>>, <<"opt">> \o type),
      MapMacro(<<"k">>, e, key, <<>>), MapMacro(<<"k">>, e, Call("index", <<e, key>>, type), <<>>),
      MapMacro(<<"k", "v">>, e, Var("v", type), <<Test(key)>>),
      AllMacro(<<"k">>, e, Test(key)), Select(Cond(C, e, e), "a"), Has(Cond(C, e, e), "a")}
OfBool(e) ==
  {Call("not", <<e>>, Bool), Call("logical_and", <<e, C>>, Bool), Call("logical_or", <<C, e>>, Bool),
   Call("logical_and", <<Test(S), e>>, Bool), Cond(e, S, Text), Cond(e, L, Nothing(L.type))}
OfOptional(e) ==
  LET none == Call("none", <<>>, e.type)
  IN {Call("value", <<e>>, Inside(e.type)), Call("or", <<e, none>>, e.type), Call("or", <<none, e>>, e.type)}
     \union (IF Inside(e.type) = Str THEN {Call("orValue", <<e, Text>>, Str)} ELSE {})

MCContexts(e) ==
  Common(e) \union
    CASE e.type = Str -> OfString(e)
      [] e.type[1] = "list" -> OfList(e)
      [] e.type[1] = "map"  -> OfMap(e)
      [] e.type[1] = "bool" -> OfBool(e)
      [] e.type[1] = "opt"  -> OfOptional(e)
      [] e.type[1] = "bytes" -> {Call("string", <<e>>, Str), Call("add_bytes", <<e, e>>, e.type)}
      [] e.type[1] = "int"  -> {Call("index", <<L, e>>, Str)}
=============================================================================
