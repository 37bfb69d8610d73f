------------------------------- MODULE Persist -------------------------------
(***************************************************************************)
(* Copying a compiled script into shared memory (zend_persist.c): what the *)
(* copy needs is calculated first (zend_persist_calc.c), as one block is   *)
(* allocated for all of it; then every object the script is made of is     *)
(* copied, its pointers are redirected to the copies through the           *)
(* translation table (xlat_table, zend_shared_alloc.c) and the original is *)
(* given back.                                                             *)
(*                                                                         *)
(* The operators take the process's memory s, with what the functions keep *)
(* beside the objects (mem), and where the pointer is: object a, place f.  *)
(***************************************************************************)
EXTENDS ScriptMemory, SequencesExt, TLC

Wild == <<"wild">>

To(s, a, f) == s.mem[a].p[f]
Point(s, a, f, q) == [s EXCEPT !.mem = Pointing(@, a, f, q)]
Put(s, a, obj) == [s EXCEPT !.mem = With(@, a, obj)]

\* efree: giving back what is not one's own, or twice, is an error (bad).
\* The key of a bucket is a part of it.
efree(s, a) == [s EXCEPT !.bad = IF a \in s.live THEN @ ELSE @ \cup {a},
                         !.live = @ \ {a, Append(a, "key")}]

(***************************************************************************)
(* The translation table.                                                  *)
(***************************************************************************)
zend_shared_alloc_get_xlat_entry(s, a) ==
    IF a \in DOMAIN s.xlat THEN s.xlat[a] ELSE Null
zend_shared_alloc_register_xlat_entry(s, old, new) ==
    [s EXCEPT !.xlat = old :> new @@ @]

\* A change that counts what has been counted.
zend_shared_memdup_size_Again(s, a) ==
    [zend_shared_alloc_register_xlat_entry(s, a, a) EXCEPT !.used = @ + s.mem[a].size]

zend_shared_memdup_size(s, a) ==
    IF a \in DOMAIN s.xlat THEN s
    ELSE [zend_shared_alloc_register_xlat_entry(s, a, a)
            EXCEPT !.used = @ + s.mem[a].size]

\* Where _zend_shared_memdup leaves the copy of a, and the memory after it.
Copy(s, a) == IF a \in DOMAIN s.xlat THEN s.xlat[a] ELSE <<"shm", s.top>>
memdup(s, a, free_source) ==
    IF a \in DOMAIN s.xlat THEN s
    ELSE LET c == Copy(s, a)
             t == [zend_shared_alloc_register_xlat_entry(Put(s, c, s.mem[a]), a, c)
                     EXCEPT !.top = @ + s.mem[a].size,
                            !.bad = IF Shared(a) \/ a \in s.live THEN @ ELSE @ \cup {a}]
         IN  IF free_source /\ ~Interned(a) THEN efree(t, a) ELSE t

Duplicate(s, a, f) == Point(memdup(s, To(s, a, f), FALSE), a, f, Copy(s, To(s, a, f)))
Store(s, a, f) == Point(memdup(s, To(s, a, f), TRUE), a, f, Copy(s, To(s, a, f)))
Translate(s, a, f) == Point(s, a, f, zend_shared_alloc_get_xlat_entry(s, To(s, a, f)))

\* A pointer into an array that has moved, as its difference to the old one.
Relocated(q, old, new) == CASE q = Null -> Null
                            [] q = old -> new
                            [] old = new -> q
                            [] OTHER -> Wild

(***************************************************************************)
(* Interned strings, as accel_new_interned_string gives them out (module   *)
(* InternedStrings): one for each text, as long as there is room.          *)
(***************************************************************************)
accel_new_interned_string(s, a, f, free_src) ==
    LET q == To(s, a, f)
        c == <<"pool", s.mem[q].text>>
        t == IF c \in DOMAIN s.mem THEN s ELSE [Put(s, c, s.mem[q]) EXCEPT !.room = @ - 1]
    IN  CASE Interned(q) -> s
          [] ~Interned(q) /\ c \notin DOMAIN s.mem /\ s.room = 0 -> s
          [] OTHER -> Point(IF free_src THEN efree(t, q) ELSE t, a, f, c)

ADD_DUP_SIZE(s, a, f) ==
    IF To(s, a, f) = Null THEN s ELSE zend_shared_memdup_size(s, To(s, a, f))

\* A string, and the key of a bucket, which is counted whenever interning
\* it does not move it.
ADD_INTERNED_STRING(s, a, f) ==
    LET t == accel_new_interned_string(s, a, f, TRUE) IN
    IF To(s, a, f) = Null \/ Interned(To(s, a, f)) THEN s
    ELSE IF To(t, a, f) # To(s, a, f) THEN t ELSE ADD_DUP_SIZE(t, a, f)
AddKey(s, b) ==
    LET t == accel_new_interned_string(s, b, "key", FALSE) IN
    IF To(s, b, "key") = Null THEN s
    ELSE IF To(t, b, "key") # To(s, b, "key") THEN t ELSE ADD_DUP_SIZE(t, b, "key")

store_interned_string(s, a, f) ==
    IF To(s, a, f) = Null \/ Interned(To(s, a, f)) THEN s ELSE Store(s, a, f)

\* One after the other, until an error: what follows it is not modelled.
Run(s, todo, Op(_, _)) ==
    FoldLeft(LAMBDA t, x : IF t.bad # {} THEN t ELSE Op(t, x), s, todo)

(***************************************************************************)
(* A pointer to a function, as the ones for the elements of a table and of *)
(* an array, is a name, and Call, at the end of this module, calls it.     *)
(* InOrder calls it for a sequence of places, of which Places are some of  *)
(* one object, Each for all the places of an array.                        *)
(***************************************************************************)
RECURSIVE Call(_, _, _, _), InOrder(_, _, _)
InOrder(s, places, function) ==
    IF places = <<>> \/ s.bad # {} THEN s
    ELSE InOrder(Call(s, Head(places)[1], Head(places)[2], function), Tail(places), function)
Places(a, fields) == [i \in DOMAIN fields |-> <<a, fields[i]>>]
Buckets(list) == [i \in DOMAIN list |-> <<list[i], "data">>]
Each(s, a, function) ==
    InOrder(s, [i \in 1..Len(s.mem[a].p) |-> <<a, i>>], function)

(***************************************************************************)
(* zend_persist_calc.c                                                     *)
(***************************************************************************)
\* What a table holds is persisted by the function for its kind: pointers
\* to zvals or to classes, or functions or properties' descriptions in
\* memory of their own.
Separate == {"op_array", "prop"}
KindAt(s, a, f) == s.mem[To(s, a, f)].kind

zend_hash_persist_calc(s, a, f) ==
    LET all == InOrder(s, Buckets(To(s, a, f).list), "bucket_calc")
    IN  IF To(s, a, f).ar = Null THEN all
        ELSE zend_shared_memdup_size(all, To(s, a, f).ar)

zend_persist_zval_calc(s, a, f) ==
    CASE To(s, a, f) = Null -> s
      [] To(s, a, f) # Null /\ KindAt(s, a, f) = "str" -> ADD_INTERNED_STRING(s, a, f)
      [] OTHER -> zend_hash_persist_calc(ADD_DUP_SIZE(s, a, f), To(s, a, f), "ht")

zend_persist_zval_ptr_calc(s, a, f) ==
    LET z == To(s, a, f) IN
    IF z = Null \/ z \in DOMAIN s.xlat THEN s
    ELSE zend_persist_zval_calc(zend_shared_memdup_size(s, z), z, "val")

\* An array that several op_arrays may share, counted once with its contents.
ArrayCalc(s, a, f, function) ==
    LET q == To(s, a, f) IN
    IF q = Null \/ q \in DOMAIN s.xlat THEN s
    ELSE Each(zend_shared_memdup_size(s, q), q, function)

CommentCalc(s, a) == IF s.save_comments THEN ADD_DUP_SIZE(s, a, "doc_comment") ELSE s

OpArrayCalc(s, a, f) ==
    CASE f = "literals" -> ArrayCalc(s, a, f, "zval_calc")
      [] f \in {"arg_info", "vars"} -> ArrayCalc(s, a, f, "interned_calc")
      [] f = "static_variables" /\ To(s, a, f) # Null ->
           zend_hash_persist_calc(ADD_DUP_SIZE(s, a, f), To(s, a, f), "ht")
      [] f = "doc_comment" -> CommentCalc(s, a)
      [] OTHER -> ADD_DUP_SIZE(s, a, f)
zend_persist_op_array_calc(s, a) ==
    InOrder(s, Places(a, <<"filename", "literals", "opcodes", "function_name", "arg_info",
        "brk_cont_array", "static_variables", "doc_comment", "try_catch_array", "vars">>),
        "op_array_calc")

zend_persist_property_info_calc(s, prop) ==
    CommentCalc(ADD_INTERNED_STRING(s, prop, "name"), prop)

\* Traits' rules are counted whatever has been counted before, and so are
\* the tables of members.
RulesCalc(s, a, f) ==
    LET q == To(s, a, f) IN
    IF q = Null THEN s ELSE Each([s EXCEPT !.used = @ + s.mem[q].size], q, "rules_calc")
MembersCalc(s, a, f) ==
    LET q == To(s, a, f) IN
    IF q = Null THEN s ELSE Each([s EXCEPT !.used = @ + s.mem[q].size], q, "zval_ptr_calc")

ClassCalc(s, ce, f) ==
    CASE f = "name" -> ADD_INTERNED_STRING(s, ce, f)
      [] f \in {"function_table", "constants_table", "properties_info"} ->
           zend_hash_persist_calc(s, ce, f)
      [] f \in {"default_properties_table", "default_static_members_table"} ->
           MembersCalc(s, ce, f)
      [] f = "filename" -> ADD_DUP_SIZE(s, ce, f)
      [] f = "doc_comment" -> CommentCalc(s, ce)
      [] f = "trait_rules" -> RulesCalc(s, ce, f)
zend_persist_class_entry_calc(s, b) ==
    InOrder(ADD_DUP_SIZE(s, b, "data"), Places(To(s, b, "data"),
        <<"name", "function_table", "default_properties_table",
          "default_static_members_table", "constants_table", "filename",
          "doc_comment", "properties_info", "trait_rules">>), "class_calc")

BucketCalc(s, b, f) ==
    LET kind == KindAt(s, b, f)
        t == AddKey(zend_shared_memdup_size(s, b), b)
        u == IF kind \in Separate THEN ADD_DUP_SIZE(t, b, f) ELSE t
    IN  CASE kind = "zval" -> zend_persist_zval_ptr_calc(u, b, f)
          [] kind = "op_array" -> zend_persist_op_array_calc(u, To(u, b, f))
          [] kind = "prop" -> zend_persist_property_info_calc(u, To(u, b, f))
          [] kind = "class" -> zend_persist_class_entry_calc(u, b)

ScriptCalc(s, a, f) ==
    CASE f \in {"function_table", "class_table"} -> zend_hash_persist_calc(s, a, f)
      [] f = "main" -> zend_persist_op_array_calc(s, a)
      [] f = "full_path" -> ADD_DUP_SIZE(s, a, f)
      [] f = "itself" -> zend_shared_memdup_size(s, a)
zend_accel_script_persist_calc(s, script, key) ==
    InOrder(s, Places(script, <<"function_table", "class_table", "main">>)
               \o Places(key, <<"itself">>) \o Places(script, <<"full_path", "itself">>),
            "script_calc")

(***************************************************************************)
(* zend_persist.c                                                          *)
(***************************************************************************)
zend_hash_persist(s, a, f) ==
    LET table == To(s, a, f)
        all == InOrder(s, Buckets(table.list), "bucket")
        moved == [list |-> [i \in DOMAIN table.list |->
                              zend_shared_alloc_get_xlat_entry(all, table.list[i])],
                  ar |-> IF table.ar = Null THEN Null ELSE Copy(all, table.ar)]
    IN  Point(IF table.ar = Null THEN all ELSE memdup(all, table.ar, TRUE), a, f, moved)

zend_persist_zval(s, a, f) ==
    LET t == Store(s, a, f)
    IN  CASE To(s, a, f) = Null -> s
          [] To(s, a, f) # Null /\ KindAt(s, a, f) = "str" -> store_interned_string(s, a, f)
          [] OTHER -> zend_hash_persist(t, To(t, a, f), "ht")

zend_persist_zval_ptr(s, a, f) ==
    LET z == To(s, a, f)
        t == Store(s, a, f)
    IN  CASE z = Null -> s
          [] z # Null /\ z \in DOMAIN s.xlat -> Translate(s, a, f)
          [] OTHER -> zend_persist_zval(t, To(t, a, f), "val")

\* An array that is copied with its contents once, and found afterwards.
PersistArray(s, a, f, function) ==
    LET t == Store(s, a, f)
    IN  CASE To(s, a, f) = Null -> s
          [] To(s, a, f) # Null /\ To(s, a, f) \in DOMAIN s.xlat -> Translate(s, a, f)
          [] OTHER -> Each(t, To(t, a, f), function)

\* A change that forgets that a comment has been given back.
PersistComment_Forgotten(s, a) ==
    LET q == To(s, a, "doc_comment")
    IN  CASE q = Null -> s
          [] q # Null /\ s.save_comments -> Store(s, a, "doc_comment")
          [] OTHER -> Point(efree(s, q), a, "doc_comment", Null)

PersistComment(s, a) ==
    LET q == To(s, a, "doc_comment")
        t == IF q \in DOMAIN s.xlat THEN s
             ELSE efree(zend_shared_alloc_register_xlat_entry(s, q, q), q)
    IN  CASE q = Null -> s
          [] q # Null /\ s.save_comments -> Store(s, a, "doc_comment")
          [] OTHER -> Point(t, a, "doc_comment", Null)

\* The count of the op_arrays that share these arrays.
DropRefcount(s, a) ==
    LET q == To(s, a, "refcount")
        t == [s EXCEPT !.mem[q].n = @ - 1]
    IN  [Point(IF t.mem[q].n = 0 THEN efree(t, q) ELSE t, a, "refcount", Null)
            EXCEPT !.mem[a].n = 0]

\* The opcodes refer to the literals and to each other by address: was is
\* what orig_literals holds once the literals have been persisted.
PersistOpcodes(s, a, was) ==
    LET old == To(s, a, "opcodes")
        new == Copy(s, old)
        t == memdup(s, old, FALSE)
        u == Point(t, new, "constant", Relocated(To(t, new, "constant"), was, To(s, a, "literals")))
        v == Point(u, new, "jmp_addr", Relocated(To(t, new, "jmp_addr"), old, new))
        w == Point(efree(v, old), a, "opcodes", new)
    IN  CASE old = Null -> s
          [] old # Null /\ old \in DOMAIN s.xlat -> Translate(s, a, "opcodes")
          [] OTHER -> IF To(w, a, "run_time_cache") = Null THEN w
                      ELSE Point(efree(w, To(w, a, "run_time_cache")), a, "run_time_cache", Null)

PersistCode(s, a) ==
    LET q == To(s, a, "literals")
        t == PersistArray(s, a, "literals", "zval")
    IN  PersistOpcodes(t, a, IF q \in DOMAIN s.xlat THEN To(t, a, "literals") ELSE q)

PersistPrototype(s, a) ==
    LET q == zend_shared_alloc_get_xlat_entry(s, To(s, a, "prototype"))
    IN  CASE To(s, a, "scope") = Null \/ To(s, a, "prototype") = Null ->
               Point(s, a, "prototype", Null)
          [] To(s, a, "scope") # Null /\ q # Null ->
               [Point(s, a, "prototype", q) EXCEPT !.mem[q].n = @ + 1]
          [] OTHER -> s

PersistOpArray(s, a, f) ==
    CASE f = "refcount" -> DropRefcount(s, a)
      [] f = "code" -> PersistCode(s, a)
      [] f = "doc_comment" -> PersistComment(s, a)
      [] f = "prototype" -> PersistPrototype(s, a)
      [] f \in {"arg_info", "vars"} -> PersistArray(s, a, f, "interned")
      [] f \in {"filename", "function_name", "brk_cont_array", "static_variables", "scope",
                "try_catch_array"} ->
           IF To(s, a, f) = Null THEN s
           ELSE CASE f = "filename" -> Duplicate(s, a, f)
                  [] f = "static_variables" ->
                       Store(zend_hash_persist(s, To(s, a, f), "ht"), a, f)
                  [] f = "scope" -> Translate(s, a, f)
                  [] OTHER -> Store(s, a, f)
zend_persist_op_array(s, a) ==
    InOrder(s, Places(a, <<"refcount", "filename", "code", "function_name", "arg_info",
        "brk_cont_array", "static_variables", "scope", "doc_comment", "try_catch_array",
        "vars", "prototype">>), "op_array")

zend_persist_property_info(s, prop) ==
    PersistComment(store_interned_string(s, prop, "name"), prop)

\* The rules of "use ... { }": a rule is copied when its parts have been.
PersistRules(s, a, f) ==
    IF To(s, a, f) = Null THEN s ELSE Store(Each(s, To(s, a, f), "rules"), a, f)
PersistMembers(s, ce, f) ==
    LET t == Store(s, ce, f)
    IN  IF To(s, ce, f) = Null THEN s ELSE Each(t, To(t, ce, f), "zval_ptr")

PersistClass(s, ce, f) ==
    CASE f = "name" -> store_interned_string(s, ce, f)
      [] f \in {"function_table", "constants_table", "properties_info"} ->
           zend_hash_persist(s, ce, f)
      [] f \in {"default_properties_table", "default_static_members_table"} ->
           PersistMembers(s, ce, f)
      [] f = "filename" -> IF To(s, ce, f) = Null THEN s ELSE Duplicate(s, ce, f)
      [] f = "doc_comment" -> PersistComment(s, ce)
      [] f = "interfaces" ->
           IF To(s, ce, f) = Null THEN s ELSE Point(efree(s, To(s, ce, f)), ce, f, Null)
      [] f = "trait_rules" -> PersistRules(s, ce, f)
zend_persist_class_entry(s, b) ==
    LET t == Store(s, b, "data")
    IN  InOrder(t, Places(To(t, b, "data"),
            <<"name", "function_table", "default_properties_table",
              "default_static_members_table", "constants_table", "filename",
              "doc_comment", "properties_info", "interfaces", "trait_rules">>), "class")

\* A bucket, which is copied with its key and what it holds.
PersistBucket(s, q, f) ==
    LET kind == KindAt(s, q, f)
        b == Copy(s, q)
        t == memdup(s, q, FALSE)
        keyed == IF To(t, b, "key") = Null \/ Interned(To(t, b, "key")) THEN t
                 ELSE Duplicate(t, b, "key")
        u == IF kind \in Separate THEN Store(keyed, b, f) ELSE keyed
    IN  efree(CASE kind = "zval" -> zend_persist_zval_ptr(u, b, f)
                [] kind = "op_array" -> zend_persist_op_array(u, To(u, b, f))
                [] kind = "prop" -> zend_persist_property_info(u, To(u, b, f))
                [] kind = "class" -> zend_persist_class_entry(u, b), q)

\* A change that does not count what is referred to.
UpdateParent_Uncounted(s, ce, f) == IF To(s, ce, f) = Null THEN s ELSE Translate(s, ce, f)

\* Translated once all classes have moved; a count that is not the one it
\* was made with tells that a class or a method is referred to.
UpdateParent(s, ce, f) ==
    LET t == Translate(s, ce, f)
    IN  CASE To(s, ce, f) = Null -> s
          [] To(s, ce, f) # Null /\ To(t, ce, f) = Null -> [t EXCEPT !.bad = @ \cup {Wild}]
          [] OTHER -> [t EXCEPT !.mem[To(t, ce, f)].n = @ + 1]

\* A change that leaves the properties with the class that was compiled.
zend_update_parent_ce_ClassOnly(s, b, f) ==
    InOrder(s, Places(To(s, b, f), <<"parent">> \o Handlers), "parent")

zend_update_parent_ce(s, b, f) ==
    LET ce == To(s, b, f)
        t == InOrder(s, Places(ce, <<"parent">> \o Handlers), "parent")
    IN  Run(t, To(t, ce, "properties_info").list,
            LAMBDA u, q : Translate(u, To(u, q, "data"), "ce"))

zend_accel_persist_class_table(s, script) ==
    LET t == zend_hash_persist(s, script, "class_table")
    IN  InOrder(t, Buckets(To(t, script, "class_table").list), "update_parent")

Call(s, a, f, function) ==
    CASE function = "bucket_calc" -> BucketCalc(s, a, f)
      [] function = "op_array_calc" -> OpArrayCalc(s, a, f)
      [] function = "class_calc" -> ClassCalc(s, a, f)
      [] function = "rules_calc" -> RulesCalc(s, a, f)
      [] function = "zval_calc" -> zend_persist_zval_calc(s, a, f)
      [] function = "zval_ptr_calc" -> zend_persist_zval_ptr_calc(s, a, f)
      [] function = "interned_calc" -> ADD_INTERNED_STRING(s, a, f)
      [] function = "script_calc" -> ScriptCalc(s, a, f)
      [] function = "bucket" -> PersistBucket(s, a, f)
      [] function = "op_array" -> PersistOpArray(s, a, f)
      [] function = "class" -> PersistClass(s, a, f)
      [] function = "rules" -> PersistRules(s, a, f)
      [] function = "zval" -> zend_persist_zval(s, a, f)
      [] function = "zval_ptr" -> zend_persist_zval_ptr(s, a, f)
      [] function = "interned" -> store_interned_string(s, a, f)
      [] function = "parent" -> UpdateParent(s, a, f)
      [] function = "update_parent" -> zend_update_parent_ce(s, a, f)

zend_shared_alloc_clear_xlat_table(s) == [s EXCEPT !.xlat = [a \in {} |-> Null]]
=============================================================================
