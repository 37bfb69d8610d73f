---------------------------- MODULE StoredScript ----------------------------
(***************************************************************************)
(* What becomes of a script once it has been compiled: it is copied into   *)
(* shared memory (cache_script_in_shared_memory and module Persist), if it *)
(* fits, and from there it is loaded into requests (zend_accel_load_script *)
(* and module LoadScript), perhaps into one where some of its names are    *)
(* taken, perhaps twice into the same.  A script that does not fit is      *)
(* loaded as it was compiled.                                              *)
(*                                                                         *)
(* Storing happens under the exclusive lock; that the script is not stored *)
(* already and that the hash table is not full are modules ScriptCache and *)
(* AccelHash.                                                              *)
(***************************************************************************)
EXTENDS Persist, LoadScript, FiniteSets

CONSTANTS
    Programs,      \* scripts as the compiler leaves them: their memory (mem)
                   \* and which of it is allocated (live)
    Comments,      \* the settings <<save_comments, load_comments>>
    InternedRooms, \* how many strings the interned strings buffer takes
    Startup,       \* the strings in it since startup
    FreeMemory     \* how much of shared memory is free

Script == <<"script">>
Key == <<"key">>

ASSUME ProgramAssumption ==
    /\ \A program \in Programs : {Script, Key} \subseteq DOMAIN program.mem
    /\ InternedRooms \subseteq Nat /\ FreeMemory \subseteq Nat

VARIABLES
    program,  \* the script as it was compiled
    m,        \* what persisting keeps beside the memory
    free      \* the free shared memory

loading == <<script, load_comments, at, calls, allocated, bind, class>>
storedVars == <<vars, program, m, free>>

\* The memory the functions of Persist take, and what they make of it.
Memory == [mem |-> mem] @@ m
Becomes(s) == mem' = s.mem /\ m' = [f \in DOMAIN m |-> s[f]]

Compiled(prog) ==
    [a \in DOMAIN prog.mem \cup {<<"pool", t>> : t \in Startup} |->
        IF a \in DOMAIN prog.mem THEN prog.mem[a] ELSE String(a[2])]

Init ==
    /\ program \in Programs
    /\ mem = Compiled(program)
    /\ \E comments \in Comments, room \in InternedRooms :
         /\ m = [live |-> program.live, xlat |-> Empty, used |-> 0, top |-> 0, room |-> room,
                 bad |-> {}, save_comments |-> comments[1]]
         /\ load_comments = comments[2]
    /\ free \in FreeMemory
    /\ script = Script /\ phase = "compact" /\ at = 1
    /\ calls = <<>> /\ allocated = 0 /\ bind = Empty /\ old_ce = Null /\ ce = Null

(***************************************************************************)
(* cache_script_in_shared_memory                                           *)
(***************************************************************************)
\* The table at f takes the smallest power of two, from eight, that holds
\* its elements; one that is empty or no larger stays.
compact_hash_table(s, a, f) ==
    LET table == To(s, a, f)
        n == Len(table.list)
        nSize == 2 ^ (CHOOSE i \in 3..(3 + n) : 2 ^ i >= n /\ (i = 3 \/ 2 ^ (i - 1) < n))
    IN  IF n = 0 \/ nSize >= s.mem[table.ar].size THEN s
        ELSE [s EXCEPT !.mem[table.ar].size = nSize]

compact_persistent_script ==
    /\ Phase("compact", "calculate")
    /\ Becomes(compact_hash_table(compact_hash_table(Memory, script, "function_table"), script,
                                  "class_table"))
    /\ UNCHANGED <<loading, program, free>>

Calculate ==
    /\ Phase("calculate", "allocate")
    /\ Becomes(zend_accel_script_persist_calc(Memory, script, Key))
    /\ UNCHANGED <<loading, program, free>>

AllocateBlock ==
    /\ phase = "allocate"
    /\ IF m.used <= free
       THEN phase' = "functions" /\ free' = free - m.used
       ELSE phase' = "unstored" /\ UNCHANGED free
    /\ Becomes(zend_shared_alloc_clear_xlat_table(Memory))
    /\ UNCHANGED <<loading, program>>

PersistFunctions ==
    /\ Phase("functions", "classes")
    /\ Becomes(zend_hash_persist(Memory, script, "function_table"))
    /\ UNCHANGED <<loading, program, free>>

PersistClasses ==
    /\ Phase("classes", "main")
    /\ Becomes(zend_accel_persist_class_table(Memory, script))
    /\ UNCHANGED <<loading, program, free>>

PersistMain ==
    /\ Phase("main", "names")
    /\ Becomes(zend_persist_op_array(Memory, script))
    /\ UNCHANGED <<loading, program, free>>

PersistNames ==
    /\ Phase("names", "stored")
    /\ LET named == Store(memdup(Memory, Key, FALSE), script, "full_path")
       IN  /\ Becomes(memdup(named, script, TRUE))
           /\ script' = Copy(named, script)
    /\ UNCHANGED <<load_comments, at, calls, allocated, bind, class, program, free>>

(***************************************************************************)
(* zend_accel_load_script of a script that is not in shared memory:        *)
(* functions first, nothing is copied; then the tables are freed, and what *)
(* is in them is not.                                                      *)
(***************************************************************************)
LoadDirect(taken) ==
    /\ Phase("unstored", "direct_functions")
    /\ mem' = With(RequestMemory(DOMAIN mem, taken), CG("main"), MainOpArray)
    /\ UNCHANGED <<loading, program, m, free>>

MoveFunction ==
    /\ LoadTable("direct_functions", "direct_classes", "function_table", FALSE, <<>>)
    /\ UNCHANGED <<program, m, free>>
MoveClass ==
    /\ LoadTable("direct_classes", "free_hashes", "class_table", ignore_dups, <<>>)
    /\ UNCHANGED <<program, m, free>>

free_persistent_script ==
    /\ Phase("free_hashes", "loaded")
    /\ LET functions == mem[script].p.function_table
           classes == mem[script].p.class_table
           hashes == functions.list \o classes.list \o <<functions.ar, classes.ar>>
       IN  Becomes(Run(Memory, SelectSeq(hashes, LAMBDA a : a # Null)
                               \o <<mem[script].p.full_path, script>>, efree))
    /\ UNCHANGED <<loading, program, free>>

\* The compiled script is used up with the request.
Done == phase \in Ended /\ ~Shared(script) /\ UNCHANGED storedVars

Storing ==
    \/ compact_persistent_script \/ Calculate \/ AllocateBlock
    \/ PersistFunctions \/ PersistClasses \/ PersistMain \/ PersistNames
    \/ \E taken \in SUBSET Names : LoadDirect(taken)
    \/ MoveFunction \/ MoveClass \/ free_persistent_script
    \/ Done

Next == Storing \/ (LoadNext /\ UNCHANGED <<program, m, free>>)

Spec == Init /\ [][Next]_storedVars

-----------------------------------------------------------------------------
(***************************************************************************)
(* Two graphs side by side: from the pairs in P, all pairs of addresses    *)
(* that the same path leads to.  Some pointers are not kept: counts, what  *)
(* is filled in when the script runs, and comments by the settings.        *)
(***************************************************************************)
NotKept(kind) ==
    {"refcount", "run_time_cache", "interfaces"} \cup
    IF m.save_comments /\ (load_comments \/ kind \in {"op_array", "script"}) THEN {}
    ELSE {"doc_comment"}
Kept(obj) ==
    IF obj.kind \in {"class", "op_array", "script", "prop"}
    THEN DOMAIN obj.p \ NotKept(obj.kind) ELSE DOMAIN obj.p

Follow(o1, o2) ==
    {<<o1.p[f], o2.p[f]>> : f \in Kept(o1) \ Tables(o1)} \cup
    UNION {{<<o1.p[f].ar, o2.p[f].ar>>} \cup
           {<<o1.p[f].list[i], o2.p[f].list[i]>> : i \in DOMAIN o1.p[f].list} :
           f \in Tables(o1)}

RECURSIVE Together(_, _)
Together(P, new) ==
    LET next == UNION {Follow(program.mem[pair[1]], mem[pair[2]]) :
                         pair \in {q \in new : q[1] # Null /\ q[2] # Null}} \ P
    IN  IF next = {} THEN P ELSE Together(P \cup next, next)

Alike(P) ==
    \A pair \in P :
        \/ pair = <<Null, Null>>
        \/ /\ pair[1] # Null /\ pair[2] \in DOMAIN mem
           /\ program.mem[pair[1]].kind = mem[pair[2]].kind
           /\ program.mem[pair[1]].text = mem[pair[2]].text

OneToOne(P) == Cardinality({pair[1] : pair \in P}) = Cardinality(P)
               /\ Cardinality({pair[2] : pair \in P}) = Cardinality(P)
OfKind(P, kinds) == {pair \in P : pair[1] # Null /\ program.mem[pair[1]].kind \in kinds}
Objects == {"script", "class", "op_array", "prop", "zval", "ht", "bucket", "table",
            "literals", "opcodes", "names", "plain", "rule"}

\* What storing has to say about it is said: the calculated size is what is
\* copied, and the copy never leaves the block it was allocated.
SizeIsRight == /\ m.top <= m.used
               /\ phase = "stored" => m.top = m.used

\* Every object is given back once, and none is read or copied after that;
\* what is stored leaves nothing behind but what the compiler frees itself.
FileNames == {<<"filename">>}
GivenBackOnce == /\ m.bad = {}
                 /\ phase = "stored" => m.live \subseteq FileNames \cup {Key}

\* The stored script has the shape of the compiled one: objects that were
\* one are one, objects that were two are two, and all are shared.
StoredAlike ==
    phase = "stored" =>
        LET P == Together({<<Script, script>>}, {<<Script, script>>})
        IN  /\ Alike(P) /\ OneToOne(OfKind(P, Objects))
            /\ \A pair \in P : pair[2] = Null \/ Shared(pair[2])

Roots ==
    LET table(f) == {<<program.mem[b].p.data, mem[CG(f)].p[program.mem[program.mem[b].p.key].text]>> :
                       b \in ToSet(program.mem[Script].p[f].list)}
        main == mem[CG("main")].p
    IN  table("class_table") \cup table("function_table")
        \cup {<<program.mem[Script].p[f], main[f]>> : f \in DOMAIN main \ NotKept("op_array")}

StaticMembers(P) ==
    LET Of(memory, c) == LET q == memory[c].p.default_static_members_table
                         IN  IF q = Null THEN <<>> ELSE memory[q].p
    IN  UNION {{<<Of(program.mem, pair[1])[i], Of(mem, pair[2])[i]>> :
                  i \in DOMAIN Of(program.mem, pair[1])} : pair \in OfKind(P, {"class"})}

\* A request that has loaded the script has its classes and functions with
\* the links they were compiled with: parents, scopes, prototypes, handlers
\* lead to the request's own; static members are shared by the classes that
\* shared them, and only by them.
LoadedAlike ==
    phase = "loaded" /\ calls = <<>> =>
        LET P == Together(Roots, Roots)
        IN  /\ Alike(P)
            /\ OneToOne(OfKind(P, {"class", "op_array", "prop"}))
            /\ OneToOne(StaticMembers(P))
=============================================================================
