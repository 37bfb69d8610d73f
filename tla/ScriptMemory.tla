---------------------------- MODULE ScriptMemory ----------------------------
(***************************************************************************)
(* The memory of a script, which the compiler fills, persisting moves      *)
(* (Persist) and loading copies (LoadScript).                              *)
(*                                                                         *)
(* The objects are a graph in memory: an address is a tuple, of which the  *)
(* first element tells whose memory it is ("shm", "pool" for the interned  *)
(* strings, "req" for what a request copies, anything else for what the    *)
(* compiler made), and an object has its pointers in p.  A hash table is   *)
(* the value of a pointer's place: its buckets in order and arBuckets.     *)
(***************************************************************************)
EXTENDS Integers, Sequences

Null == <<>>

Interned(a) == a # Null /\ a[1] = "pool"
Shared(a) == a # Null /\ a[1] \in {"shm", "pool"}

String(text) == [kind |-> "str", size |-> 1, p |-> <<>>, n |-> 0, text |-> text, mangled |-> FALSE]

\* What the memory is with the object obj at a, and with q in a place.
With(mem, a, obj) == [x \in DOMAIN mem \cup {a} |-> IF x = a THEN obj ELSE mem[x]]
Pointing(mem, a, f, q) == [mem EXCEPT ![a].p[f] = q]

\* The methods a class has pointers to beside its table.
Handlers == <<"constructor", "destructor">>

\* The places of an object that are hash tables and not pointers.
Tables(obj) ==
    CASE obj.kind = "class" -> {"function_table", "constants_table", "properties_info"}
      [] obj.kind = "script" -> {"function_table", "class_table"}
      [] obj.kind = "ht" -> {"ht"}
      [] OTHER -> {}
Elements(table) == {table.list[i] : i \in DOMAIN table.list}

\* What a request owns: it writes to this or destroys it when it ends.  The
\* code of functions is protected by a refcount that never reaches zero.
Owned(obj) ==
    CASE obj.kind \in {"op_array", "script"} -> {"static_variables", "scope", "prototype"}
      [] obj.kind = "class" -> DOMAIN obj.p \ {"filename"}
      [] OTHER -> DOMAIN obj.p
Own(obj) ==
    {obj.p[f] : f \in Owned(obj) \ Tables(obj)} \cup
    UNION {{obj.p[f].ar} \cup Elements(obj.p[f]) : f \in Tables(obj)}
=============================================================================
