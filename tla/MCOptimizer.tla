---------------------------- MODULE MCOptimizer -----------------------------
\* Scripts for Optimizer.  The variables a and b hold what a script is given, c
\* is one that it sets.
EXTENDS Optimizer

a == <<"cv", 0>>
b == <<"cv", 1>>
c3 == <<"cv", 2>>
yes == <<"const", True>>
no  == <<"const", False>>
Str(t) == <<"const", Text(t)>>
Assign(v, e) == <<"expr", <<"assign", v[2], e>>>>

Given == {[v \in 0 .. 2 |-> IF v = 0 THEN p ELSE IF v = 1 THEN q ELSE Null] :
            p \in {False, Text("p")}, q \in {False, Text("q")}}
  \cup {[v \in 0 .. 2 |-> <<"array", <<"m", "n", "o">>[v + 1]>>]}

e1 == <<"echo", Str("1")>>
e2 == <<"echo", Str("2")>>
none == <<"none", 0>>
Then(p, q) == <<"seq", p, q>>

\* if (condition) echo 1; else echo 2;
Simple == {a, yes, no} \cup {<<"not", e>> : e \in {a, no}}
  \cup {<<o, e, f>> : o \in {"and", "or"}, e \in {a, b, yes, no}, f \in {a, b, no}}
  \cup {<<"eq", a, b>>, <<"eq", a, yes>>, <<"eq", a, <<"not", b>>>>, <<"ne", yes, a>>, <<"bool", a>>, 
          <<"bool", <<"eq", a, b>>>>}
Conditions == Simple \cup {<<"not", e>> : e \in Simple}
  \cup {<<o, e, f>> : o \in {"and", "or"}, e \in Simple, f \in {a, b, <<"not", a>>, <<"and", a, b>>,
                                                             <<"eq", a, <<"not", b>>>>}}
  \cup {<<"if", e, f, g>> : e \in Simple, f \in {b, yes}, g \in {a, no}}
  \cup {<<"elvis", e, f>> : e \in Simple, f \in {b, no}}
Branches == {<<"if", e, e1, e2>> : e \in Conditions}

\* Loops that print something each time round, after something else is done.
Leaving == {none, <<"break", 1>>, <<"if", b, <<"break", 1>>, none>>,
            <<"if", <<"not", b>>, <<"continue", 1>>, none>>,
            <<"if", a, e1, <<"continue", 1>>>>}
Tests == {a, b, <<"and", a, b>>, <<"or", a, <<"not", b>>>>, yes}
Bodies == {Then(e1, Then(s, Assign(v, no))) : s \in Leaving, v \in {a, b}}
Loops == {Then(e2, <<w, e, s>>) : w \in {"while", "do", "for"}, e \in Tests, s \in Bodies}
  \cup {Then(e2, <<"for", e, Then(<<"if", yes, e1, none>>, s)>>) : e \in Tests, s \in Bodies}
Nested == {Then(e2, <<w, e, <<v, f, Then(e1, s)>>>>) :
             w, v \in {"while", "do"}, e, f \in {a, b},
             s \in Leaving \cup {<<"break", 2>>,
                                 <<"if", b, <<"break", 2>>, <<"if", a, <<"continue", 2>>, none>>>>}}

\* switch, alone and in a loop
Switch(es, s) == {<<"switch", e, v, s>> : e \in es, v \in {True, Text("p")}}
Switches ==
  UNION {Switch({a, yes, <<"not", a>>, <<"and", a, b>>, <<"or", a, no>>, <<"concat", a, b>>,
                 <<"eq", yes, yes>>, <<"print", a>>}, Then(e1, s)) : s \in {none, <<"break", 1>>}}
  \cup {Then(e2, <<"while", e, Then(e1, s)>>) : e \in {a, yes},
          s \in UNION {Switch({a, <<"not", b>>, <<"concat", a, b>>, <<"eq", yes, yes>>}, t) :
                         t \in {<<"break", 2>>, <<"continue", 2>>,
                                <<"if", b, <<"break", 2>>, <<"continue", 2>>>>}}}

\* Strings
Pieces == {a, Str("x"), Str(""), yes, <<"inc", a>>, <<"text", a>>, <<"print", a>>,
           <<"print", Str("x")>>, <<"text", yes>>}
  \cup {<<"quoted", Text(p), q>> : p \in {"", "x"}, q \in {a, Str("y"), Str("")}}
Pairs == {<<"concat", p, q>> : p \in Pieces, q \in {a, Str("x"), Str(""), <<"text", b>>,
                                                    <<"quoted", Text("x"), a>>}}
Texts == {<<o, e>> : o \in {"echo", "return", "expr"}, e \in Pieces \cup Pairs}
  \cup {<<"echo", <<"concat", e, f>>>> : e \in Pairs, f \in {b, Str("x"), Str("")}}
  \cup {Then(<<"echo", e>>, <<"echo", f>>) : e, f \in Pieces}
  \cup {Then(Assign(v, e), <<"echo", v>>) : v \in {a, c3}, e \in Pairs}

\* $v = $v op expr
Sums == {Then(Assign(c3, <<"add", e, f>>), <<"echo", c3>>) : e, f \in {a, c3, Str("1")}}
  \cup {Then(Assign(a, <<"concat", a, f>>), <<"echo", a>>) :
          f \in {b, <<"assign", 2, b>>, <<"concat", b, a>>, Str("1")}}

Scripts == {Compiled(p) : p \in Branches \cup Loops \cup Nested \cup Switches \cup Texts \cup Sums}

\* All passes; pass 10 in place of pass 5; pass 5 with nothing prepared for it.
SomeLevels == {{1, 2, 3, 5, 9, 10}, {1, 2, 3, 9, 10}, {1, 3, 5}}

\* A loop that the script begins with.
AllPasses  == {{1, 2, 3, 5, 9, 10}}
LoopsFirst == {Compiled(<<w, e, Then(e1, s)>>) : w \in {"while", "do", "for"}, e \in Tests, s \in Leaving}
=============================================================================
