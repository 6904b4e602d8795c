--------------------------- MODULE MCHttpValidator ---------------------------
(* Documents whose templates compete: compound against bare parameters, with
   parameters side by side, literals spelt two ways, the same path under two
   methods, two segments that pull apart.  Alone, and two behind one validator, apart and
   with a path that both have. *)
EXTENDS HttpValidator, TLC

Characters ==
  ("%" :> 37) @@ ("-" :> 45) @@ ("." :> 46) @@ ("/" :> 47) @@ ("0" :> 48) @@ ("2" :> 50) @@
  ("3" :> 51) @@ ("8" :> 56) @@ ("9" :> 57) @@ ("A" :> 65) @@ ("C" :> 67) @@ ("F" :> 70) @@
  ("a" :> 97) @@ ("b" :> 98) @@ ("i" :> 105) @@ ("r" :> 114) @@ ("v" :> 118) @@ ("x" :> 120) @@
  ("y" :> 121) @@ ("z" :> 122) @@ ("{" :> 123) @@ ("}" :> 125) @@ ("eacute" :> 233) @@
  ("high" :> 55357) @@ ("low" :> 56832)

Escapes ==
  ("%2F" :> <<"%", "2", "F">>) @@ ("%C3%A9" :> <<"%", "C", "3", "%", "A", "9">>) @@
  ("%zz" :> <<"%", "z", "z">>) @@
  ("%F0%9F%98%80" :> <<"%", "F", "0", "%", "9", "F", "%", "9", "8", "%", "8", "0">>)

MCWire == [c \in DOMAIN Characters |-> <<c>>] @@ Escapes
MCStands ==
  [c \in DOMAIN Characters \ {"%"} |-> <<c>>] @@
  ("%2F" :> <<"/">>) @@ ("%C3%A9" :> <<"eacute">>) @@ ("%F0%9F%98%80" :> <<"high", "low">>)
MCAstral == {"%F0%9F%98%80"}
MCCode == Characters

Segment(names, literals) == [names |-> names, literals |-> literals]
Text1(text) == Segment(<<>>, <<text>>)
Param(name) == Segment(<<name>>, <<<<>>, <<>>>>)
Pair(a, sep, b) == Segment(<<a, b>>, <<<<>>, sep, <<>>>>)
After(text, name) == Segment(<<name>>, <<text, <<>>>>)
Route(segments, methods) == [segments |-> segments, methods |-> methods]

X == <<"x">>
Y == <<"y">>
Z == <<"z">>

Rates == Route(<<Pair(X, <<"-">>, Y)>>, {"GET"})
Rate == Route(<<Param(<<"r", "-", "i">>)>>, {"GET"})
Export == Route(<<Pair(X, <<".">>, Y)>>, {"GET"})
Upload == Route(<<Param(X)>>, {"POST"})
Fixed == Route(<<Text1(<<"a", ".", "b">>)>>, {"POST"})
Three == Route(<<Segment(<<X, Y, Z>>, <<<<"v">>, <<>>, <<"-">>, <<"b">>>>)>>, {"GET", "HEAD"})
Version == Route(<<After(<<"v">>, X)>>, {"GET"})
Accent == Route(<<After(<<"eacute", "-">>, X)>>, {"GET"})
Escaped(method) == Route(<<After(<<"%C3%A9", "-">>, Y)>>, {method})
Inner == Route(<<Text1(<<"a">>), Param(X)>>, {"GET"})
Outer == Route(<<Param(Y), Text1(<<"b">>)>>, {"POST"})
Probe == Route(<<Param(Y)>>, {"HEAD"})
Within == Route(<<Text1(<<"a">>), Param(X)>>, {"POST"})
Without == Route(<<Param(Y), Text1(<<"b">>)>>, {"HEAD"})

Token == [plain |-> <<"v", "a">>, rates |-> <<"a", "-", "b">>, file |-> <<"a", ".", "b">>,
          dots |-> <<".", ".", "-", "-", "b">>, version |-> <<"v", "a", "-", "b">>,
          dashes |-> <<"v", "a", "b", "-", "-", "b", "b">>,
          astral |-> <<"v", "%F0%9F%98%80", "-", "a", "b">>,
          slash |-> <<"%F0%9F%98%80", ".", "%2F">>, invalid |-> <<"%zz", ".", "a">>,
          accent |-> <<"eacute", "-", "a">>, escaped |-> <<"%C3%A9", "-", "%2F", "b">>]

Deep == {<<<<"a">>, <<"b">>>>, <<<<"a">>, <<"x">>>>, <<<<"x">>, <<"b">>>>}

Made(names) == [method : Methods, path : {<<Token[n]>> : n \in names}]

MCRequests == Made(DOMAIN Token) \union [method : Methods, path : Deep]
MCFetches == [method : {"GET", "POST"}, path : {<<Token.rates>>}]
MCLimits == {2, Infinity}

Bad(i, r, side) ==
  [member |-> i, op |-> [route |-> r, method |-> CHOOSE m \in r.methods : TRUE], side |-> side]
World(members, malformed, disjoint, requests) ==
  [members |-> members, malformed |-> malformed, disjoint |-> disjoint, requests |-> requests]

MCWorlds ==
  {World(<<{Rates, Rate, Upload}>>, bad, FALSE, Made({"rates", "file"})) :
     bad \in {{}, {Bad(1, Rates, "request")}, {Bad(1, Rate, "request"), Bad(1, Rates, "response")}}}
  \union {World(<<{Export, Upload, Fixed}, {Three, Version}>>, {Bad(2, Version, "request")}, FALSE,
                Made({"file", "dots", "version", "dashes", "astral", "slash", "invalid"}))}
  \union {World(<<{Accent, Escaped("POST")}, {Inner, Outer}>>, {Bad(1, Accent, "response")}, disjoint,
                Made({"accent", "escaped"}) \union [method : Methods, path : Deep]) :
            disjoint \in BOOLEAN}
  \union {World(<<{Rates, Rate}, {Probe}>>, {}, disjoint, Made({"rates", "file"})) :
            disjoint \in BOOLEAN}
  \union {World(<<{Within}, {Without}>>, {}, FALSE, [method : Methods, path : Deep])}
  \union {World(<<{Accent, Escaped("GET")}>>, {}, FALSE, {}), World(<<{Rate, Probe}>>, {}, FALSE, {}),
          World(<<{Upload}>>, {}, FALSE, Made({"rates"}))}
=============================================================================
