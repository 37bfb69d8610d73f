----------------------------- MODULE LoadScript -----------------------------
(***************************************************************************)
(* Loading a script into a request (zend_accelerator_util_funcs.c): the    *)
(* script's classes and functions are added to the request's own tables.   *)
(* A script in shared memory is not to be changed, so that what the        *)
(* request may write to, or will destroy when it ends, is copied; pointers *)
(* between classes and methods are redirected to the copies through        *)
(* bind_hash.                                                              *)
(*                                                                         *)
(* The functions call each other.  calls are those that are due, the next  *)
(* one first: a call is for the pointer in place f of the request's object *)
(* at a, of which the function makes the copy (Clone), the redirected      *)
(* pointer (Redirect) or nothing (Return), and then come the calls that it *)
(* makes itself.  Each step is one function without the functions it calls.*)
(*                                                                         *)
(* The request's tables are objects whose places are named by the keys.    *)
(***************************************************************************)
EXTENDS ScriptMemory

CONSTANTS
    Names,       \* the names a request may have declared
    ignore_dups  \* the directive

ASSUME LoadAssumption == ignore_dups \in BOOLEAN

VARIABLES
    mem,            \* the process's memory, with what it shares
    script,         \* where the script is
    load_comments,  \* the directive
    phase,          \* where zend_accel_load_script is
    at,             \* the next class or function to load
    calls,          \* the calls that are due
    allocated,      \* how many objects the request has allocated
    bind,           \* bind_hash: the copies by what they are copies of
    old_ce, ce      \* the class that is copied, and its copy

vars == <<mem, script, load_comments, phase, at, calls, allocated, bind, old_ce, ce>>
loop == <<script, load_comments, phase, at>>
class == <<old_ce, ce>>

Loading == {"load_classes", "load_functions", "load_main"}
Ended == {"loaded", "failed"}

CG(table) == <<"CG", table>>
CGTables == {CG("class_table"), CG("function_table")}
Empty == [a \in {} |-> Null]

(***************************************************************************)
(* What a function does with the pointer it is called for.                 *)
(***************************************************************************)
New == <<"req", allocated + 1>>

Invoke(function, a, f) == [function |-> function, a |-> a, f |-> f, b |-> Null]

\* Calls for places of the new object, or for all places of an array.
Parts(places) == [i \in DOMAIN places |-> Invoke(places[i][1], New, places[i][2])]
EveryPlace(function, obj) == [i \in DOMAIN obj.p |-> Invoke(function, New, i)]

Called(functions) == calls # <<>> /\ Head(calls).function \in functions
Here == Head(calls).a
Place == Head(calls).f
Target == mem[Here].p[Place]

Return == calls' = Tail(calls) /\ UNCHANGED <<mem, allocated>>

Redirect(q) ==
    /\ mem' = Pointing(mem, Here, Place, q)
    /\ calls' = Tail(calls)
    /\ UNCHANGED allocated

\* emalloc and memcpy; the place becomes q, which leads to the new object.
emalloc(obj, q, parts) ==
    /\ mem' = With(Pointing(mem, Here, Place, q), New, obj)
    /\ calls' = parts \o Tail(calls)
    /\ allocated' = allocated + 1
Clone(obj, parts) == emalloc(obj, New, parts)

accel_xlat_set(old, new) == bind' = With(bind, old, new)
Bound(a) == a \in DOMAIN bind

\* zend_error(E_ERROR): nothing more is done.
Fail ==
    /\ phase' = "failed" /\ calls' = <<>>
    /\ UNCHANGED <<mem, script, load_comments, at, allocated>>

(***************************************************************************)
(* Strings, values and tables.                                             *)
(***************************************************************************)
interned_estrndup ==
    /\ Called({"string"})
    /\ IF Target = Null \/ Interned(Target) THEN Return ELSE Clone(mem[Target], <<>>)
    /\ UNCHANGED <<loop, bind, class>>

LoadComment ==
    /\ Called({"comment"})
    /\ CASE Target = Null -> Return
         [] Target # Null /\ load_comments -> Clone(mem[Target], <<>>)
         [] OTHER -> Redirect(Null)
    /\ UNCHANGED <<loop, bind, class>>

Value(z) ==
    LET v == mem[z].p.val
    IN  CASE v = Null -> <<>>
          [] v # Null /\ mem[v].kind = "str" -> <<<<"string", "val">>>>
          [] OTHER -> <<<<"array", "val">>>>

\* A change that copies a zval wherever it is met.
zend_clone_zval_Always ==
    /\ Called({"zval", "static_zval"})
    /\ IF Target = Null THEN Return
       ELSE Clone([mem[Target] EXCEPT !.n = 1], Parts(Value(Target)))
    /\ UNCHANGED <<loop, bind, class>>

\* A zval that is shared by reference, its count tells, stays shared if bind.
zend_clone_zval ==
    /\ Called({"zval", "static_zval"})
    /\ LET z == Target
           static == Head(calls).function = "static_zval"
       IN  \/ z = Null /\ Return /\ UNCHANGED bind
           \/ /\ z # Null /\ ~static
              /\ Clone([mem[z] EXCEPT !.n = 1], Parts(Value(z)))
              /\ UNCHANGED bind
           \/ /\ z # Null /\ static /\ mem[z].n = 1
              /\ Clone(mem[z], Parts(Value(z)))
              /\ UNCHANGED bind
           \/ /\ z # Null /\ static /\ mem[z].n # 1 /\ ~Bound(z)
              /\ Clone(mem[z], Parts(Value(z)))
              /\ accel_xlat_set(z, New)
           \/ /\ z # Null /\ static /\ mem[z].n # 1 /\ Bound(z)
              /\ Redirect(bind[z])
              /\ UNCHANGED bind
    /\ UNCHANGED <<loop, class>>

\* A table of pointers to zvals; the static ones may be shared.
CloneMembers ==
    /\ Called({"members"})
    /\ IF Target = Null THEN Return
       ELSE Clone(mem[Target],
                  EveryPlace(IF Place = "default_static_members_table" THEN "static_zval"
                             ELSE "zval", mem[Target]))
    /\ UNCHANGED <<loop, bind, class>>

\* The rules of traits are copied down to their strings.
CloneRules ==
    /\ Called({"rules"})
    /\ IF Target = Null THEN Return
       ELSE Clone(mem[Target], EveryPlace("rules", mem[Target]))
    /\ UNCHANGED <<loop, bind, class>>

\* A change that copies an array and not the table in it.
CloneArray_Shallow ==
    /\ Called({"array"})
    /\ IF Target = Null THEN Return ELSE Clone(mem[Target], <<>>)
    /\ UNCHANGED <<loop, bind, class>>

\* ALLOC_HASHTABLE, for the table that is copied next.
CloneArray ==
    /\ Called({"array"})
    /\ IF Target = Null THEN Return ELSE Clone(mem[Target], Parts(<<<<"table", "ht">>>>))
    /\ UNCHANGED <<loop, bind, class>>

\* zend_hash_clone_zval, _methods and _prop_info: the new arBuckets, and
\* then bucket after bucket.
CloneTable ==
    /\ Called({"table"})
    /\ LET Bucket(i) == [Invoke("bucket", Here, Place) EXCEPT !.b = Target.list[i]]
       IN  IF Target.ar = Null THEN Redirect([list |-> <<>>, ar |-> Null])
           ELSE emalloc(mem[Target.ar], [list |-> <<>>, ar |-> New],
                        [i \in DOMAIN Target.list |-> Bucket(i)])
    /\ UNCHANGED <<loop, bind, class>>

\* The function for what a table holds.
ElementFunction ==
    CASE Place = "function_table" -> "method"
      [] Place = "properties_info" -> "property"
      [] OTHER -> "zval"
CloneBucket ==
    /\ Called({"bucket"})
    /\ emalloc(mem[Head(calls).b], [Target EXCEPT !.list = Append(@, New)],
                Parts(<<<<"string", "key">>, <<ElementFunction, "data">>>>))
    /\ UNCHANGED <<loop, bind, class>>

(***************************************************************************)
(* Functions and classes.                                                  *)
(***************************************************************************)
\* The statics of a function are its own; its refcount is kept from ever
\* reaching zero.
Statics == <<"array", "static_variables">>
zend_prepare_function_for_execution ==
    /\ Called({"function"})
    /\ Clone(mem[Target], Parts(<<Statics>>))
    /\ UNCHANGED <<loop, bind, class>>

CloneMethod ==
    /\ Called({"method"})
    /\ Clone(mem[Target], Parts(<<Statics, <<"rescope", "scope">>, <<"inherit", "prototype">>>>))
    /\ IF mem[Target].n # 0 THEN accel_xlat_set(Target, New) ELSE UNCHANGED bind
    /\ UNCHANGED <<loop, class>>

\* A change that redirects the description of a property where it is.
CloneProperty_InPlace ==
    /\ Called({"property"})
    /\ calls' = <<Invoke("rescope", Target, "ce")>> \o Tail(calls)
    /\ UNCHANGED <<loop, mem, allocated, bind, class>>

CloneProperty ==
    /\ Called({"property"})
    /\ Clone(mem[Target],
             Parts(<<<<"string", "name">>, <<"comment", "doc_comment">>, <<"rescope", "ce">>>>))
    /\ UNCHANGED <<loop, bind, class>>

\* The class of a method or a property: this one, or one copied before.
Rescope ==
    /\ Called({"rescope"})
    /\ \/ Target = old_ce /\ Redirect(ce) /\ UNCHANGED loop
       \/ Target # old_ce /\ Bound(Target) /\ Redirect(bind[Target]) /\ UNCHANGED loop
       \/ Target # old_ce /\ ~Bound(Target) /\ Fail
    /\ UNCHANGED <<bind, class>>

\* The parent, the handlers and a prototype must have been copied before.
zend_update_inherited_handler ==
    /\ Called({"inherit"})
    /\ \/ Target = Null /\ Return /\ UNCHANGED loop
       \/ Target # Null /\ Bound(Target) /\ Redirect(bind[Target]) /\ UNCHANGED loop
       \/ Target # Null /\ ~Bound(Target) /\ Fail
    /\ UNCHANGED <<bind, class>>

ClassParts ==
    <<<<"members", "default_properties_table">>, <<"table", "function_table">>,
      <<"members", "default_static_members_table">>, <<"table", "properties_info">>,
      <<"table", "constants_table">>, <<"string", "name">>, <<"comment", "doc_comment">>,
      <<"inherit", "parent">>, <<"inherit", "constructor">>, <<"inherit", "destructor">>,
      <<"rules", "trait_rules">>>>
zend_class_copy_ctor ==
    /\ Called({"class"})
    /\ Clone([mem[Target] EXCEPT !.n = 1, !.p.interfaces = Null], Parts(ClassParts))
    /\ IF mem[Target].n # 1 THEN accel_xlat_set(Target, New) ELSE UNCHANGED bind
    /\ old_ce' = Target /\ ce' = New
    /\ UNCHANGED loop

Cloning ==
    \/ interned_estrndup \/ LoadComment \/ zend_clone_zval \/ CloneMembers \/ CloneRules
    \/ CloneArray \/ CloneTable \/ CloneBucket
    \/ zend_prepare_function_for_execution \/ CloneMethod \/ CloneProperty
    \/ Rescope \/ zend_update_inherited_handler \/ zend_class_copy_ctor

(***************************************************************************)
(* zend_accel_load_script                                                  *)
(***************************************************************************)
Phase(now, next) == calls = <<>> /\ phase = now /\ phase' = next

\* A request has its own memory, of which nothing is left when it ends.
SharedMemory == {a \in DOMAIN mem : Shared(a)}
RequestMemory(keep, taken) ==
    [a \in keep \cup {<<"declared", name>> : name \in taken} \cup CGTables |->
        CASE a \in keep -> mem[a]
          [] a \notin keep /\ a \in CGTables ->
               [String("") EXCEPT !.kind = "request", !.p = [name \in taken |-> <<"declared", name>>]]
          [] OTHER -> String(a[2])]

Request(taken) ==
    /\ Phase("stored", "load_classes")
    /\ mem' = RequestMemory(SharedMemory, taken)
    /\ at' = 1 /\ allocated' = 0 /\ bind' = Empty
    /\ UNCHANGED <<script, load_comments, calls, class>>

(***************************************************************************)
(* zend_hash_unique_copy: one more of the table to CG(table), or then the  *)
(* next phase.  A name that is taken is an error, unless duplicates are    *)
(* ignored; a mangled one, of a class or function that is declared when it *)
(* is executed, replaces the old.  ctor are the functions to be called for *)
(* what was added.  bind_hash is destroyed when the classes have been      *)
(* loaded, and nothing else uses it.                                       *)
(***************************************************************************)
List(table) == mem[script].p[table].list
KeyOf(bucket) == mem[mem[bucket].p.key]
Has(table, key) == key.text \in DOMAIN mem[CG(table)].p

LoadTable(now, next, table, ignore, ctor) ==
    /\ calls = <<>> /\ phase = now
    /\ \/ /\ at > Len(List(table))
          /\ phase' = next /\ at' = 1 /\ bind' = Empty
          /\ UNCHANGED <<mem, calls>>
       \/ /\ at <= Len(List(table))
          /\ LET bucket == List(table)[at]
                 key == KeyOf(bucket)
             IN  \/ /\ ~Has(table, key) \/ key.mangled
                    /\ mem' = [mem EXCEPT ![CG(table)].p = With(@, key.text, mem[bucket].p.data)]
                    /\ calls' = [i \in DOMAIN ctor |-> Invoke(ctor[i], CG(table), key.text)]
                    /\ UNCHANGED phase
                 \/ /\ Has(table, key) /\ ~key.mangled
                    /\ phase' = IF ignore THEN phase ELSE "failed"
                    /\ UNCHANGED <<mem, calls>>
          /\ at' = at + 1
          /\ UNCHANGED bind
    /\ UNCHANGED <<script, load_comments, allocated, class>>

LoadClass ==
    LoadTable("load_classes", "load_functions", "class_table", ignore_dups, <<"class">>)
LoadFunction ==
    LoadTable("load_functions", "load_main", "function_table", FALSE, <<"function">>)

MainOpArray ==
    [mem[script] EXCEPT !.kind = "op_array",
        !.p = [f \in DOMAIN @ \ {"function_table", "class_table", "full_path"} |-> @[f]]]
LoadMain ==
    /\ Phase("load_main", "loaded")
    /\ mem' = With(mem, CG("main"), MainOpArray)
    /\ calls' = <<Invoke(Statics[1], CG("main"), Statics[2])>>
    /\ UNCHANGED <<script, load_comments, at, allocated, bind, class>>

\* Bound: a request includes the script twice at most.
IncludeAgain ==
    /\ Phase("loaded", "load_classes") /\ Shared(script)
    /\ mem[CG("class_table")].n = 0
    /\ mem' = [mem EXCEPT ![CG("class_table")].n = 1]
    /\ at' = 1
    /\ UNCHANGED <<script, load_comments, calls, allocated, bind, class>>

EndRequest ==
    /\ calls = <<>> /\ phase \in Ended /\ Shared(script)
    /\ phase' = "stored" /\ at' = 1
    /\ mem' = [a \in SharedMemory |-> mem[a]]
    /\ allocated' = 0 /\ bind' = Empty
    /\ UNCHANGED <<script, load_comments, calls, class>>

LoadNext ==
    \/ \E taken \in SUBSET Names : Request(taken)
    \/ LoadClass \/ LoadFunction \/ LoadMain
    \/ Cloning
    \/ IncludeAgain \/ EndRequest

-----------------------------------------------------------------------------
(***************************************************************************)
(* A stored script as loading needs it.  In shared memory the pointers of  *)
(* an object that are copied lead to shared objects of the right kinds.    *)
(***************************************************************************)
Points(q, kinds) == q = Null \/ (Shared(q) /\ q \in DOMAIN mem /\ mem[q].kind \in kinds)
Hold(obj, places, kinds) == \A f \in places : f \in DOMAIN obj.p /\ Points(obj.p[f], kinds)

IsArray(s) == Len(s) \in Nat /\ DOMAIN s = 1..Len(s)
HoldTable(obj, f, kinds) ==
    /\ f \in DOMAIN obj.p
    /\ IsArray(obj.p[f].list)
    /\ Points(obj.p[f].ar, {"buckets"}) /\ (obj.p[f].ar = Null => obj.p[f].list = <<>>)
    /\ \A b \in Elements(obj.p[f]) :
         /\ b # Null /\ Points(b, {"bucket"})
         /\ mem[b].p.data # Null /\ Points(mem[b].p.data, kinds)

ClassPlaces == {ClassParts[i][2] : i \in DOMAIN ClassParts} \cup {"filename", "interfaces"}

WellFormed(obj) ==
    /\ obj.kind \in {"str", "buckets"} => DOMAIN obj.p = {}
    /\ obj.kind = "zval" => DOMAIN obj.p = {"val"} /\ Hold(obj, {"val"}, {"str", "ht"})
    /\ obj.kind = "ht" => DOMAIN obj.p = {"ht"} /\ HoldTable(obj, "ht", {"zval"})
    /\ obj.kind = "bucket" => DOMAIN obj.p = {"key", "data"} /\ Hold(obj, {"key"}, {"str"})
    /\ obj.kind = "table" => IsArray(obj.p) /\ Hold(obj, DOMAIN obj.p, {"zval"})
    /\ obj.kind = "rule" => IsArray(obj.p) /\ Hold(obj, DOMAIN obj.p, {"rule", "str"})
    /\ obj.kind = "prop" => /\ DOMAIN obj.p = {"name", "doc_comment", "ce"}
                            /\ Hold(obj, {"name", "doc_comment"}, {"str"})
    /\ obj.kind \in {"op_array", "script"} =>
         {"scope", "prototype"} \subseteq DOMAIN obj.p /\ Hold(obj, {"static_variables"}, {"ht"})
    /\ obj.kind = "class" =>
         /\ DOMAIN obj.p = ClassPlaces
         /\ Hold(obj, {"name", "doc_comment"}, {"str"}) /\ Hold(obj, {"trait_rules"}, {"rule"})
         /\ Hold(obj, {"default_properties_table", "default_static_members_table"}, {"table"})
         /\ HoldTable(obj, "function_table", {"op_array"})
         /\ HoldTable(obj, "properties_info", {"prop"})
         /\ HoldTable(obj, "constants_table", {"zval"})

\* What a class has in a table; and what of it is registered in bind_hash.
Held(a, f) == {mem[b].p.data : b \in Elements(mem[a].p[f])}
Marked(q) == mem[q].n # IF mem[q].kind = "class" THEN 1 ELSE 0
Registered(c) == {q \in {c} \cup Held(c, "function_table") : Marked(q)}

\* A class refers to classes before it, to its own methods and to theirs,
\* and what it refers to is marked by its count (zend_update_parent_ce).
ClassAt(i) == mem[List("class_table")[i]].p.data
Linked(i) ==
    LET c == ClassAt(i)
        before == UNION {Registered(ClassAt(j)) : j \in 1..(i - 1)}
        Of(S, kind) == {q \in S : mem[q].kind = kind}
    IN  /\ mem[c].p.parent \in {Null} \cup Of(before, "class")
        /\ \A h \in Elements([list |-> Handlers]) :
             mem[c].p[h] \in {Null} \cup Of(before \cup Registered(c), "op_array")
        /\ \A q \in Held(c, "function_table") :
             /\ mem[q].p.scope \in {c} \cup Of(before, "class")
             /\ mem[q].p.prototype \in {Null} \cup
                  (Of(before, "op_array") \ Held(c, "function_table"))
        /\ \A q \in Held(c, "properties_info") : mem[q].p.ce \in {c} \cup Of(before, "class")

Stored ==
    /\ Shared(script) /\ script \in DOMAIN mem /\ mem[script].kind = "script"
    /\ \A a \in SharedMemory :
         DOMAIN String("") \subseteq DOMAIN mem[a] /\ WellFormed(mem[a])
    /\ mem[script].p.scope = Null /\ mem[script].p.prototype = Null
    /\ HoldTable(mem[script], "function_table", {"op_array"})
    /\ HoldTable(mem[script], "class_table", {"class"})
    /\ \A f \in Tables(mem[script]) : \A b \in Elements(mem[script].p[f]) :
         mem[b].p.key # Null
    /\ \A q \in Held(script, "function_table") :
         mem[q].p.scope = Null /\ mem[q].p.prototype = Null
    /\ \A i \in DOMAIN List("class_table") : Linked(i)

LoadInit ==
    /\ Stored
    /\ load_comments \in BOOLEAN
    /\ phase = "stored" /\ at = 1 /\ calls = <<>> /\ allocated = 0 /\ bind = Empty
    /\ old_ce = Null /\ ce = Null

LoadSpec == LoadInit /\ [][LoadNext]_vars

-----------------------------------------------------------------------------
\* A script is stored as loading needs it, and stays so through requests.
StoredIsWellFormed == phase = "stored" => Stored

\* When nothing is due, nothing of what a request has made and owns leads
\* to the shared script, nor when loading failed half way; interned strings
\* are known by their address and left alone.
OwnsNothingShared ==
    phase \in Loading \cup Ended /\ Shared(script) /\ calls = <<>> =>
        \A a \in DOMAIN mem \ SharedMemory :
            \A q \in Own(mem[a]) : Shared(q) => Interned(q)

\* Loading leaves shared memory as it is.
SharedUnchanged ==
    [][Shared(script) => \A a \in DOMAIN mem :
          Shared(a) => a \in DOMAIN mem' /\ mem'[a] = mem[a]]_vars
=============================================================================
