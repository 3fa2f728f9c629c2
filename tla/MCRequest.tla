----------------------------- MODULE MCRequest -----------------------------
(***************************************************************************)
(* Request for TLC: an application's routes, request lines, and return     *)
(* values with nesting up to depth two.                                    *)
(***************************************************************************)
EXTENDS Request

Literal(text) == Segment("literal", "", text)
Param(name) == Segment("param", name, "")

Declare(method, path, arguments, is_async) ==
    [method |-> method, path |-> path, arguments |-> arguments,
     is_async |-> is_async]

AppDeclarations == {
    Declare("GET", <<Literal("items"), Param("id")>>, [id |-> "int"], TRUE),
    Declare("POST", <<Literal("items"), Param("id")>>, [id |-> "float"],
            FALSE),
    Declare("GET", <<Literal("items"), Literal("all")>>, <<>>, FALSE),
    Declare("GET", <<Param("kind"), Param("on")>>,
            [kind |-> "str", on |-> "bool"], FALSE),
    Declare("GET", <<Param("low"), Param("high")>>,
            [low |-> "int", high |-> "int"], TRUE),
    Declare("GET", <<Literal("items"), Segment("escaped", "id", "{id}")>>,
            [id |-> "int"], TRUE),
    Declare("GET", <<Segment("escaped", "kind", "{kind}"), Param("id")>>,
            [kind |-> "str", id |-> "int"], FALSE),
    Declare("POST", <<Param("id"), Param("id")>>, [id |-> "int"], TRUE),
    Declare("GET", <<Literal("items"), Param("id")>>, [key |-> "int"], TRUE),
    Declare("GET", <<Param("id")>>, [id |-> "bytes"], FALSE)}

ClientTargets ==
    {[method |-> method, path |-> path] :
        method \in {"GET", "POST"},
        path \in {<<"items">>, <<"items", "all">>, <<"items", "{id}">>,
                  <<"items", "+7">>, <<"items", "0.5">>, <<"0", "1">>,
                  <<"7", "TRUE">>, <<"x", "x">>, <<"{kind}", "x">>,
                  <<"items", "9223372036854775808">>}}

Texts == {<<>>, <<"a">>, <<"quote">>, <<"backslash">>, <<"newline", "a">>,
          <<"control">>, <<"backslash", "quote">>, <<"surrogate">>}
Strings == {Scalar("str", text) : text \in Texts}
Scalars == Strings \cup
    {Scalar("None", <<>>), Scalar("bool", <<"true">>),
     Scalar("bool", <<"false">>), Scalar("int", <<"7">>),
     Scalar("int", <<"9223372036854775808">>), Scalar("float", <<"0.5">>),
     Scalar("float", <<"7.0">>), Scalar("float", <<"nan">>),
     Scalar("other", <<>>)}
Keys == {Scalar("str", <<"a">>), Scalar("str", <<"quote">>),
         Scalar("int", <<"7">>)}
Flat ==
    {Container(type, <<>>) : type \in {"list", "tuple", "dict"}}
    \cup {Container("list", <<v>>) : v \in Scalars}
    \cup {Container("tuple", <<v, Scalar("bool", <<"false">>)>>) :
              v \in Scalars}
    \cup {Container("dict", <<Entry(k, v)>>) : k \in Keys, v \in Scalars}
Nested ==
    {Container("list", <<v, Scalar("int", <<"7">>), v>>) : v \in Flat}
    \cup {Container("dict", <<Entry(Scalar("str", <<"a">>), v),
                              Entry(Scalar("str", <<"b">>), v)>>) : v \in Flat}
HandlerValues == Scalars \cup Flat \cup Nested
Depth(value) == IF value \in Scalars THEN 0 ELSE IF value \in Flat THEN 1
                ELSE 2
=============================================================================
