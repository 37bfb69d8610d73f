--------------------------- MODULE MCStoredScript ---------------------------
(***************************************************************************)
(* Scripts as PHP's compiler leaves them in memory, from what they         *)
(* declare: functions, and classes of which the ones with a parent in the  *)
(* script are bound to it, so that they share its methods' code, its       *)
(* static members and its constants.                                       *)
(***************************************************************************)
EXTENDS StoredScript

Obj(kind, size, p, n) ==
    [kind |-> kind, size |-> size, p |-> p, n |-> n, text |-> "", mangled |-> FALSE]
At(a, kind, size, p, n) == {<<a, Obj(kind, size, p, n)>>}
Str(a, text) == {<<a, String(text)>>}
Sub(a, name) == Append(a, name)
Num(a, name, i) == a \o <<name, ToString(i)>>

\* A hash table at a: its value, its objects; entries are <<text, data>>.
TableOf(a, entries) ==
    [list |-> [i \in DOMAIN entries |-> Num(a, "bucket", i)],
     ar |-> IF entries = <<>> THEN Null ELSE Sub(a, "arBuckets")]
InTable(a, entries, size) ==
    UNION {LET b == Num(a, "bucket", i)
               key == {<<Sub(b, "key"), [String(entries[i][1]) EXCEPT !.mangled = entries[i][1] = "~c"]>>}
           IN  key \cup At(b, "bucket", 2, [key |-> Sub(b, "key"), data |-> entries[i][2]], 0) :
           i \in DOMAIN entries}
    \cup (IF entries = <<>> THEN {} ELSE At(Sub(a, "arBuckets"), "buckets", size, <<>>, 0))

\* A zval: a string, an array of one string, or neither.
Zval(z, what, n) ==
    CASE what = "number" -> At(z, "zval", 1, [val |-> Null], n)
      [] what = "array" ->
           LET h == Sub(z, "ht") e == <<<<"k", Sub(z, "element")>>>>
           IN  At(z, "zval", 1, [val |-> h], n) \cup At(h, "ht", 3, [ht |-> TableOf(h, e)], 0)
               \cup InTable(h, e, 8) \cup At(Sub(z, "element"), "zval", 1, [val |-> Sub(z, "str")], 1)
               \cup Str(Sub(z, "str"), "k")
      [] OTHER -> At(z, "zval", 1, [val |-> Sub(z, "str")], n) \cup Str(Sub(z, "str"), what)

\* An op_array at a whose code is at c, shared by users op_arrays.
Code(c, name, users) ==
    UNION {At(Sub(c, "refcount"), "count", 1, <<>>, users),
           At(Sub(c, "literals"), "literals", 2, <<Sub(c, "lit1"), Null>>, 0),
           Str(Sub(c, "lit1"), name),
           At(Sub(c, "opcodes"), "opcodes", 4,
              [constant |-> Sub(c, "literals"), jmp_addr |-> Sub(c, "opcodes")], 0),
           Str(Sub(c, "function_name"), name),
           At(Sub(c, "arg_info"), "names", 2, <<Sub(c, "arg1"), Null>>, 0),
           Str(Sub(c, "arg1"), "x"),
           At(Sub(c, "vars"), "names", 1, <<Sub(c, "var1")>>, 0), Str(Sub(c, "var1"), "x"),
           At(Sub(c, "brk_cont_array"), "plain", 3, <<>>, 0),
           Str(Sub(c, "doc_comment"), "doc")}

OpArray(c, statics, scope, prototype) ==
    [refcount |-> Sub(c, "refcount"), filename |-> <<"filename">>,
     literals |-> Sub(c, "literals"), opcodes |-> Sub(c, "opcodes"), run_time_cache |-> Null,
     function_name |-> Sub(c, "function_name"), arg_info |-> Sub(c, "arg_info"),
     brk_cont_array |-> Sub(c, "brk_cont_array"), static_variables |-> statics,
     scope |-> scope, doc_comment |-> Sub(c, "doc_comment"), try_catch_array |-> Null,
     vars |-> Sub(c, "vars"), prototype |-> prototype]

(***************************************************************************)
(* A class is [name, key, parent, methods, static, comment, rules]: its    *)
(* parent's name or "", its own methods, whether it has a static member.   *)
(* The first method of a class without a parent has static variables; a    *)
(* method "__construct" is the constructor.                                *)
(***************************************************************************)
Named(classes, name) == CHOOSE c \in ToSet(classes) : c.name = name

RECURSIVE Line(_, _), All(_, _)
\* The class and its ancestors; its methods in the order of its table.
Line(classes, c) ==
    IF c.parent = "" THEN <<c>> ELSE <<c>> \o Line(classes, Named(classes, c.parent))
All(classes, c) ==
    IF c.parent = "" THEN c.methods
    ELSE c.methods \o SelectSeq(All(classes, Named(classes, c.parent)),
                                LAMBDA m1 : m1 \notin ToSet(c.methods))
\* Who declares the method that c has.
Declares(classes, c, name) ==
    LET line == Line(classes, c)
    IN  line[CHOOSE i \in DOMAIN line : name \in ToSet(line[i].methods)
                        /\ \A j \in 1..(i - 1) : name \notin ToSet(line[j].methods)]
Users(classes, c, name) ==
    Cardinality({d \in ToSet(classes) : name \in ToSet(All(classes, d))
                                        /\ Declares(classes, d, name) = c})
Top(classes, c) == LET line == Line(classes, c) IN line[Len(line)]
Ce(c) == <<"class", c.name>>
Op(c, name) == <<"method", c.name, name>>

\* Static variables of a method: each table its own, the zval shared until
\* it is written.
Statics1(classes, c, name) ==
    LET d == Declares(classes, c, name)
    IN  IF d.parent = "" /\ name = d.methods[1] THEN Sub(Op(c, name), "statics") ELSE Null

MethodObjs(classes, c, name) ==
    LET d == Declares(classes, c, name)
        parent == IF c.parent = "" THEN c ELSE Named(classes, c.parent)
        over == d = c /\ c.parent # "" /\ name \in ToSet(All(classes, parent))
        st == Statics1(classes, c, name)
        e == <<<<"s", Sub(Op(d, name), "static")>>>>
    IN  At(Op(c, name), "op_array", 6,
           OpArray(<<"code", d.name, name>>, st, Ce(d), IF over THEN Op(parent, name) ELSE Null), 1)
        \cup (IF d = c THEN Code(<<"code", c.name, name>>, name, Users(classes, c, name)) ELSE {})
        \cup (IF st = Null THEN {}
              ELSE At(st, "ht", 3, [ht |-> TableOf(st, e)], 0) \cup InTable(st, e, 8))
        \cup (IF st = Null \/ d # c THEN {}
              ELSE Zval(Sub(Op(c, name), "static"), "number", Users(classes, c, name)))

Heirs(classes, c) == Cardinality({d \in ToSet(classes) : c \in ToSet(Line(classes, d))})

\* "use T { T::m as n; T::m insteadof U; }"
Rules(a) ==
    LET r(i) == Num(a, "rule", i)
        ref(i) == At(Sub(r(i), "trait_method"), "rule", 3,
                     <<Sub(r(i), "method_name"), Sub(r(i), "class_name")>>, 0)
                  \cup Str(Sub(r(i), "method_name"), "m") \cup Str(Sub(r(i), "class_name"), "T")
    IN  UNION {
          At(Sub(a, "rules"), "rule", 3, <<r(1), r(2)>>, 0), ref(1), ref(2),
          At(r(1), "rule", 4, <<Sub(r(1), "trait_method"), Sub(r(1), "alias")>>, 0),
          Str(Sub(r(1), "alias"), "n"),
          At(r(2), "rule", 4, <<Sub(r(2), "trait_method"), Sub(r(2), "exclude")>>, 0),
          At(Sub(r(2), "exclude"), "rule", 2, <<Sub(r(2), "excluded")>>, 0),
          Str(Sub(r(2), "excluded"), "U")}

\* Members that a class shares with its ancestors, by who declared them.
ClassObjs(classes, c) ==
    LET line == Line(classes, c)
        a == Ce(c)
        ms == All(classes, c)
        methods == [i \in DOMAIN ms |-> <<ms[i], Op(c, ms[i])>>]
        top == Top(classes, c)
        own == {d \in ToSet(line) : d.static}
        static == IF own = {} THEN <<>>
                  ELSE SelectSeq([i \in DOMAIN line |-> Sub(Ce(line[i]), "static")],
                                 LAMBDA z : \E d \in own : z = Sub(Ce(d), "static"))
        props == <<<<"p", Sub(a, "prop")>>>>
        consts == <<<<"K", Sub(Ce(top), "const")>>>>
        ctor(name) == IF name \in ToSet(ms) THEN Op(c, name) ELSE Null
    IN  UNION {
          At(a, "class", 5, [name |-> Sub(a, "name"),
              function_table |-> TableOf(Sub(a, "functions"), methods),
              default_properties_table |-> Sub(a, "properties"),
              default_static_members_table |-> IF static = <<>> THEN Null ELSE Sub(a, "statics"),
              constants_table |-> TableOf(Sub(a, "constants"), consts),
              filename |-> <<"filename">>,
              doc_comment |-> IF c.comment THEN Sub(a, "doc_comment") ELSE Null,
              properties_info |-> TableOf(Sub(a, "info"), props),
              interfaces |-> Null,
              trait_rules |-> IF c.rules THEN Sub(a, "rules") ELSE Null,
              parent |-> IF c.parent = "" THEN Null ELSE <<"class", c.parent>>,
              constructor |-> ctor("__construct"), destructor |-> ctor("__destruct")], 1),
          Str(Sub(a, "name"), c.name),
          InTable(Sub(a, "functions"), methods, 8),
          At(Sub(a, "properties"), "table", 1, <<Sub(Ce(top), "default")>>, 0),
          IF static = <<>> THEN {} ELSE At(Sub(a, "statics"), "table", Len(static), static, 0),
          InTable(Sub(a, "constants"), consts, 8),
          InTable(Sub(a, "info"), props, 8),
          At(Sub(a, "prop"), "prop", 3, [name |-> Sub(Sub(a, "prop"), "name"),
              doc_comment |-> IF c.comment THEN Sub(a, "prop_comment") ELSE Null,
              ce |-> Ce(top)], 0),
          Str(Sub(Sub(a, "prop"), "name"), "p"),
          IF c.comment THEN Str(Sub(a, "doc_comment"), "doc")
                            \cup Str(Sub(a, "prop_comment"), "doc") ELSE {},
          IF c.static THEN Zval(Sub(a, "static"), "number", Heirs(classes, c)) ELSE {},
          IF top = c THEN Zval(Sub(a, "default"), "array", Heirs(classes, c))
                          \cup Zval(Sub(a, "const"), "x", Heirs(classes, c)) ELSE {},
          IF c.rules THEN Rules(a) ELSE {},
          UNION {MethodObjs(classes, c, ms[i]) : i \in DOMAIN ms}}

\* A script: the names of its functions, and its classes.
ScriptObjs(functions, classes) ==
    LET fs == [i \in DOMAIN functions |-> <<functions[i], <<"function", functions[i]>>>>]
        cs == [i \in DOMAIN classes |-> <<classes[i].key, Ce(classes[i])>>]
        st(i) == Sub(<<"function", functions[i]>>, "statics")
        e(i) == <<<<"s", Sub(<<"function", functions[i]>>, "static")>>>>
        main == OpArray(<<"code", "main">>, Null, Null, Null)
        tables == [function_table |-> TableOf(<<"functions">>, fs),
                   class_table |-> TableOf(<<"classes">>, cs), full_path |-> <<"full_path">>]
    IN  UNION {
          At(Script, "script", 9, tables @@ main, 1),
          Code(<<"code", "main">>, "main", 1),
          InTable(<<"functions">>, fs, 128), InTable(<<"classes">>, cs, 16),
          Str(<<"full_path">>, "path"), Str(Key, "path"), Str(<<"filename">>, "path"),
          UNION {At(<<"function", functions[i]>>, "op_array", 6,
                    OpArray(<<"code", functions[i]>>, st(i), Null, Null), 1)
                 \cup Code(<<"code", functions[i]>>, functions[i], 1)
                 \cup At(st(i), "ht", 3, [ht |-> TableOf(st(i), e(i))], 0)
                 \cup InTable(st(i), e(i), 8)
                 \cup Zval(Sub(<<"function", functions[i]>>, "static"), "array", 1) :
                 i \in DOMAIN functions},
          UNION {ClassObjs(classes, classes[i]) : i \in DOMAIN classes}}

\* Not allocated by themselves: the keys, which are in their buckets, are
\* given back with them.
Compiler(functions, classes) ==
    LET objs == ScriptObjs(functions, classes)
        addresses == {x[1] : x \in objs}
    IN  [mem |-> [a \in addresses |-> (CHOOSE x \in objs : x[1] = a)[2]], live |-> addresses]

Class(name, parent, methods, static) ==
    [name |-> name, key |-> name, parent |-> parent, methods |-> methods, static |-> static,
     comment |-> FALSE, rules |-> FALSE]

PlainScript == Compiler(<<>>, <<>>)
FunctionScript == Compiler(<<"f", "g">>, <<>>)
ClassScript == Compiler(<<"f">>, <<[Class("a", "", <<"m", "__construct">>, TRUE)
                                      EXCEPT !.comment = TRUE, !.rules = TRUE]>>)
ChildScript == Compiler(<<>>, <<Class("a", "", <<"m", "__construct">>, TRUE),
                                [Class("b", "a", <<"m">>, TRUE) EXCEPT !.comment = TRUE]>>)
HeirScript == Compiler(<<"f">>, <<Class("a", "", <<"m", "__construct">>, TRUE),
                                Class("b", "a", <<>>, FALSE), Class("d", "b", <<"m">>, FALSE)>>)
SiblingScript == Compiler(<<>>, <<Class("a", "", <<"m">>, TRUE),
                                Class("b", "a", <<>>, TRUE), Class("d", "a", <<"m", "__destruct">>, FALSE)>>)
ConditionalScript == Compiler(<<>>, <<[Class("c", "", <<"m">>, TRUE) EXCEPT !.key = "~c"]>>)
Scripts == {PlainScript, FunctionScript, ClassScript, ChildScript, HeirScript, SiblingScript,
            ConditionalScript}
EachSetting == BOOLEAN \X BOOLEAN
SomeStrings == {"x", "m"}
=============================================================================
