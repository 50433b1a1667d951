------------------------------ MODULE MCPolicy ------------------------------
(* Bounds and the expressions that policies are written with. *)
EXTENDS Policy

MCVariable == [i \in 1..(MaxSize \div 2) |-> <<"c" \o ToString(i)>>]
MCEnvVariables == [n \in {<<"c" \o ToString(i)>> : i \in 1..5} |-> BoolT]
\* The functions that rules are composed with, and those of conditions.
TypeT == ParamT("T")
ListT == ListOf(TypeT)
OptionalT == OptionalOf(TypeT)
Signature(member, params, type) ==
    [member |-> member, typeParams |-> <<"T">>, params |-> params, result |-> type]
MCEnvFunctions ==
    [f \in {<<"?:">>, <<"+">>, <<"optional", "of">>, <<"optional", "none">>, <<"or">>, <<"orValue">>,
            <<"cel.@block">>, <<"&&">>, <<"||">>, <<"!">>, <<"@nsf">>} |->
        CASE f = <<"?:">>               -> <<Signature(FALSE, <<BoolT, TypeT, TypeT>>, TypeT)>>
          [] f = <<"+">>                -> <<Signature(FALSE, <<StringT, StringT>>, StringT),
                                             Signature(FALSE, <<ListT, ListT>>, ListT)>>
          [] f = <<"optional", "of">>   -> <<Signature(FALSE, <<TypeT>>, OptionalT)>>
          [] f = <<"optional", "none">> -> <<Signature(FALSE, <<>>, OptionalT)>>
          [] f = <<"or">>               -> <<Signature(TRUE, <<OptionalT, OptionalT>>, OptionalT)>>
          [] f = <<"orValue">>          -> <<Signature(TRUE, <<OptionalT, TypeT>>, TypeT)>>
          [] f = <<"cel.@block">>       -> <<Signature(FALSE, <<ListOf(Dyn), TypeT>>, TypeT)>>
          [] f \in {<<"!">>, <<"@nsf">>} -> <<Signature(FALSE, <<BoolT>>, BoolT)>>
          [] OTHER                      -> <<Signature(FALSE, <<BoolT, BoolT>>, BoolT)>>]


X == Node("select", <<"x">>, <<Ident(<<"variables">>)>>)
All(c) ==
    LET accu == Ident(<<"@result">>)
    IN Node("fold", <<"i", "", "@result">>,
            <<List(<<c>>), Literal("true"), Call(<<"@nsf">>, <<accu>>),
              Call(<<"&&">>, <<accu, Ident(<<"i">>)>>), accu>>)
Not(e) == Call(<<"!">>, <<e>>)
MCOtherConditions == [i \in 1..(MaxSize \div 2) |->
    {Literal("false"), Literal("s"), All(Not(Not(Ident(<<"c" \o ToString(i)>>))))}]
MCOtherOutputs == {Literal("0")}
MCReferences == {X}
MCDefinitions == {[name |-> "x", expr |-> e] :
                     e \in {Literal("p"), Call(<<"+">>, <<X, Literal("q")>>)}}
MCOtherDefinitions == {[name |-> "x", expr |-> Literal("0")]}
=============================================================================
