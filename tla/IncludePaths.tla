---------------------------- MODULE IncludePaths ----------------------------
(***************************************************************************)
(* What keys of cached scripts say about the include path.                 *)
(*                                                                         *)
(* A relative file name means different files under different include      *)
(* paths, so that the include path is part of the key.  To keep keys short *)
(* ZCSG(include_paths) gives every value one letter, which is stored       *)
(* behind the value in shared memory; each process keeps a pointer to the  *)
(* letter of its current value.  A restart of the cache frees all letters  *)
(* but that of the first path, which was stored at startup.                *)
(*                                                                         *)
(* One action is one section under the exclusive lock, one lookup without  *)
(* it, or one look at the flags.  A restart is two: it looks for counted   *)
(* requests, and frees the letters later.  Hash collisions are modelled in *)
(* AccelHash, the other steps of a restart in AccelRestart.                *)
(***************************************************************************)
EXTENDS Naturals, Sequences

CONSTANTS
    Proc,
    IncludePath, Default,  \* values of include_path, and the one at startup
    Size,                  \* include_paths.max_num_entries
    Room,                  \* bound: blocks of shared memory
    Byte,                  \* what the first bytes of scripts may be
    NoPath                 \* for a key that nothing is cached under

\* A value of include_path may be as short as one byte, and may be a letter.
Letter == 1..Size          \* the i-th entry of the table has the i-th letter
Other == 0                 \* any other byte
Address == 1..Room
Null == 0

ASSUME PathAssumption ==
    /\ Default \in IncludePath
    /\ Size \in Nat \ {0} /\ Room \in Nat \ {0}
    /\ Byte \subseteq Letter \cup {Other}
    /\ NoPath \notin IncludePath

VARIABLES
    include_paths,     \* the table: paths in the order of their entries,
                       \* each with the address of its letter
    memory,            \* the bytes at these addresses
    top,               \* the first free block
    cached,            \* what is cached: the include path it was found in
    accelerator_enabled, restart_pending,
    pc, back,          \* control state, and where a modification returns to
    counted,
    include_path, include_path_key, include_path_check,
    key,               \* the end of the key that was made
    late,              \* history: who was counted in after the restart that
                       \* is under way had looked for counted requests
    stale,             \* history: processes whose letter was freed
    tainted            \* history: keys under which one of them has stored a
                       \* script, or one whose whole path is a letter

shared == <<include_paths, memory, top, cached>>
flags == <<accelerator_enabled, restart_pending>>
mine == <<include_path, include_path_key, include_path_check>>
history == <<late, stale, tainted>>
vars == <<shared, flags, pc, back, counted, mine, key, history>>

Suffix == IncludePath \cup Letter \cup {Other}

TypeOK ==
    /\ include_paths \in Seq([path : IncludePath, at : Address])
    /\ Len(include_paths) \in 1..Size
    /\ memory \in [Address -> Letter \cup {Other}]
    /\ top \in 1..(Room + 1)
    /\ cached \in [Suffix -> IncludePath \cup {NoPath}]
    /\ accelerator_enabled \in BOOLEAN
    /\ restart_pending \in BOOLEAN
    /\ pc \in [Proc -> {"idle", "run", "find", "lock", "make", "key_lock", "use",
                        "count", "wipe"}]
    /\ back \in [Proc -> {"idle", "run", "use"}]
    /\ counted \in [Proc -> BOOLEAN]
    /\ include_path \in [Proc -> IncludePath]
    /\ include_path_key \in [Proc -> {Null} \cup Address]
    /\ include_path_check \in [Proc -> BOOLEAN]
    /\ key \in [Proc -> Suffix]
    /\ late \subseteq Proc
    /\ stale \subseteq Proc
    /\ tainted \subseteq Suffix

\* accel_startup has stored the first path and its letter.
Init ==
    /\ include_paths = <<[path |-> Default, at |-> 1]>>
    /\ memory = [a \in Address |-> IF a = 1 THEN 1 ELSE Other]
    /\ top = 2
    /\ cached = [k \in Suffix |-> NoPath]
    /\ accelerator_enabled = TRUE
    /\ restart_pending = FALSE
    /\ pc = [p \in Proc |-> "idle"]
    /\ back = [p \in Proc |-> "idle"]
    /\ counted = [p \in Proc |-> FALSE]
    /\ include_path = [p \in Proc |-> Default]
    /\ include_path_key = [p \in Proc |-> 1]
    /\ include_path_check = [p \in Proc |-> FALSE]
    /\ key = [p \in Proc |-> Default]
    /\ late = {}
    /\ stale = {}
    /\ tainted = {}

-----------------------------------------------------------------------------
(* The table.                                                              *)

Set(f, p, v) == [f EXCEPT ![p] = v]

\* Control moves to a step, and forgets where it was to return to.
Return(p, step) == pc' = Set(pc, p, step) /\ back' = Set(back, p, "idle")

Known(path) == \E i \in DOMAIN include_paths : include_paths[i].path = path
AddressOf(path) ==
    include_paths[CHOOSE i \in DOMAIN include_paths :
                      include_paths[i].path = path].at
is_full == Len(include_paths) = Size

\* The exclusive lock is held for longer than one action by a restart only.
Locked == \E p \in Proc : pc[p] = "wipe"

\* zend_accel_schedule_restart
Schedule ==
    /\ ~restart_pending
    /\ restart_pending' = TRUE
    /\ accelerator_enabled' = FALSE

\* Mutant: the letter is that of the last entry.
Add_SameLetter(p, path) ==
    /\ top <= Room
    /\ include_paths' = Append(include_paths, [path |-> path, at |-> top])
    /\ memory' = Set(memory, top, Len(include_paths))
    /\ top' = top + 1
    /\ include_path_key' = Set(include_path_key, p, top)
    /\ UNCHANGED <<cached, flags>>

\* A new path is stored with its letter and entered into the table.
Add(p, path) ==
    /\ top <= Room
    /\ include_paths' = Append(include_paths, [path |-> path, at |-> top])
    /\ memory' = Set(memory, top, Len(include_paths) + 1)
    /\ top' = top + 1
    /\ include_path_key' = Set(include_path_key, p, top)
    /\ UNCHANGED <<cached, flags>>

NoMemory ==
    /\ top > Room
    /\ UNCHANGED <<shared, include_path_key>>
    /\ Schedule \/ UNCHANGED flags

\* The section under the lock; another process may have been faster.
Register(p, path) ==
    /\ ~Locked
    /\ \/ /\ Known(path)
          /\ include_path_key' = Set(include_path_key, p, AddressOf(path))
          /\ UNCHANGED <<shared, flags>>
       \/ ~Known(path) /\ ~is_full /\ (Add(p, path) \/ NoMemory)
       \/ ~Known(path) /\ is_full /\ UNCHANGED <<shared, flags, include_path_key>>

-----------------------------------------------------------------------------
(* Modification of the directive.                                          *)

\* With the cache out of use the table is left alone; the path is to be
\* entered when a key is made.
Look(p) ==
    IF counted[p] \/ accelerator_enabled
    THEN /\ pc' = Set(pc, p, "find")
         /\ back' = Set(back, p, pc[p])
         /\ UNCHANGED include_path_check
    ELSE /\ include_path_check' = Set(include_path_check, p, TRUE)
         /\ UNCHANGED <<pc, back>>

\* ini_set in a script, or the server between two requests: settings of a
\* virtual host, and their restoration.  PHP may refuse the value; the letter
\* is lost all the same.
accel_include_path_on_modify(p) ==
    /\ pc[p] \in {"idle", "run"}
    /\ include_path_key' = Set(include_path_key, p, Null)
    /\ stale' = stale \ {p}
    /\ \/ UNCHANGED <<include_path, include_path_check, pc, back>>
       \/ \E path \in IncludePath :
              include_path' = Set(include_path, p, path) /\ Look(p)
    /\ UNCHANGED <<shared, flags, counted, key, late, tainted>>

ModifyFind(p) ==
    /\ pc[p] = "find"
    /\ IF Known(include_path[p])
       THEN /\ include_path_key' = Set(include_path_key, p,
                                       AddressOf(include_path[p]))
            /\ Return(p, back[p])
       ELSE /\ IF is_full THEN Return(p, back[p])
               ELSE pc' = Set(pc, p, "lock") /\ UNCHANGED back
            /\ UNCHANGED include_path_key
    /\ UNCHANGED <<shared, flags, counted, include_path, include_path_check,
                   key, history>>

ModifySection(p) ==
    /\ pc[p] = "lock"
    /\ Register(p, include_path[p])
    /\ Return(p, back[p])
    /\ UNCHANGED <<counted, include_path, include_path_check, key, history>>

-----------------------------------------------------------------------------
(* Restarts.                                                               *)

\* Mutant: the restart does not look for counted requests.
Probe_Now(p) ==
    /\ restart_pending /\ ~Locked
    /\ restart_pending' = FALSE
    /\ late' = {}
    /\ pc' = Set(pc, p, "wipe")
    /\ UNCHANGED accelerator_enabled

\* With the exclusive lock, which it keeps, the process finds that no other
\* holds the read lock.
Probe(p) ==
    /\ restart_pending /\ ~Locked
    /\ \A q \in Proc \ {p} : ~counted[q]
    /\ restart_pending' = FALSE
    /\ late' = {}
    /\ pc' = Set(pc, p, "wipe")
    /\ UNCHANGED accelerator_enabled

accel_activate(p) ==
    /\ pc[p] = "idle"
    /\ include_path_check' = Set(include_path_check, p,
                                 include_path_key[p] = Null)
    /\ \/ Probe(p)
       \/ /\ restart_pending => \E q \in Proc \ {p} : counted[q]
          /\ pc' = Set(pc, p, "run")
          /\ UNCHANGED <<flags, late>>
    /\ UNCHANGED <<shared, back, counted, include_path, include_path_key, key,
                   stale, tainted>>

\* Mutant: a restart forgets which letters are in use.
Restarted_Nothing == include_paths' = include_paths /\ top' = 2

\* "include_paths keeps only the first path"
Restarted == include_paths' = SubSeq(include_paths, 1, 1) /\ top' = 2

\* A lookup without the lock that overlaps this finds what was there before,
\* or what is there afterwards.
Wipe(p) ==
    /\ pc[p] = "wipe"
    /\ pc' = Set(pc, p, "run")
    /\ Restarted
    /\ cached' = [k \in Suffix |-> NoPath]
    /\ restart_pending' = FALSE
    /\ accelerator_enabled' = TRUE
    /\ late' = {}
    /\ stale' = stale \cup {q \in Proc : include_path_key[q] \notin {Null, 1}}
    /\ tainted' = {}
    /\ UNCHANGED <<memory, back, counted, mine, key>>

-----------------------------------------------------------------------------
(* Requests.                                                               *)

\* The cache is in use; the key may have been made already.
persistent_compile_file(p) ==
    /\ pc[p] \in {"run", "use"} /\ ~counted[p] /\ accelerator_enabled
    /\ pc' = Set(pc, p, "count")
    /\ back' = Set(back, p, pc[p])
    /\ UNCHANGED <<shared, flags, counted, mine, key, history>>

\* The flags may have changed since, and a restart may have begun.
accel_activate_add(p) ==
    /\ pc[p] = "count"
    /\ counted' = Set(counted, p, TRUE)
    /\ late' = IF Locked THEN late \cup {p} ELSE late
    /\ Return(p, IF back[p] = "use" THEN "use" ELSE "make")
    /\ UNCHANGED <<shared, flags, mine, key, stale, tainted>>

opcache_reset(p) ==
    /\ pc[p] = "run" /\ accelerator_enabled
    /\ Schedule
    /\ UNCHANGED <<shared, pc, back, counted, mine, key, history>>

accel_deactivate(p) ==
    /\ pc[p] = "run"
    /\ pc' = Set(pc, p, "idle")
    /\ counted' = Set(counted, p, FALSE)
    /\ late' = late \ {p}
    /\ UNCHANGED <<shared, flags, back, mine, key, stale, tainted>>

-----------------------------------------------------------------------------
(* accel_make_persistent_key, for a relative file name and one directory.  *)

\* Or persistent_compile_file in a request that is counted.
persistent_zend_resolve_path(p) ==
    /\ pc[p] = "run" /\ (counted[p] \/ accelerator_enabled)
    /\ pc' = Set(pc, p, "make")
    /\ UNCHANGED <<shared, flags, back, counted, mine, key, history>>

\* With a letter, the letter; or else the whole include path, unless it can
\* be registered now.
accel_make_persistent_key(p) ==
    /\ pc[p] = "make"
    /\ IF include_path_key[p] # Null
       THEN /\ key' = Set(key, p, memory[include_path_key[p]])
            /\ pc' = Set(pc, p, "use")
       ELSE IF /\ include_path_check[p] /\ (counted[p] \/ accelerator_enabled)
               /\ ~Known(include_path[p]) /\ ~is_full
       THEN pc' = Set(pc, p, "key_lock") /\ UNCHANGED key
       ELSE /\ key' = Set(key, p, include_path[p])
            /\ pc' = Set(pc, p, "use")
    /\ UNCHANGED <<shared, flags, back, counted, mine, history>>

KeySection(p) ==
    /\ pc[p] = "key_lock"
    /\ Register(p, include_path[p])
    /\ key' = Set(key, p, IF include_path_key'[p] = Null THEN include_path[p]
                          ELSE memory'[include_path_key'[p]])
    /\ pc' = Set(pc, p, "use")
    /\ UNCHANGED <<back, counted, include_path, include_path_check, history>>

\* A script is found under the key, or is not and will not be stored.
Use(p) ==
    /\ pc[p] = "use"
    /\ pc' = Set(pc, p, "run")
    /\ key' = Set(key, p, Default)
    /\ UNCHANGED <<shared, flags, back, counted, mine, history>>

\* The whole path at the end of the key looks like a letter.
Ambiguous(p) == key[p] = include_path[p] /\ key[p] \in Letter

\* A script is stored: the first under its key, or in place of one that is
\* out of date.  Or the key is linked to a script found by its real path,
\* which a process may do that is not counted.  Either takes memory, in which
\* any bytes may be.
Store(p) ==
    /\ pc[p] = "use" /\ ~Locked
    /\ counted[p] \/ cached[key[p]] = NoPath
    /\ cached' = Set(cached, key[p], include_path[p])
    /\ top <= Room
    /\ \E byte \in Byte : memory' = Set(memory, top, byte)
    /\ top' = top + 1
    /\ tainted' = IF p \in stale \/ Ambiguous(p) THEN tainted \cup {key[p]}
                  ELSE tainted \ {key[p]}
    /\ pc' = Set(pc, p, "run")
    /\ key' = Set(key, p, Default)
    /\ UNCHANGED <<include_paths, flags, back, counted, mine, late, stale>>

Next ==
    \E p \in Proc :
        \/ accel_include_path_on_modify(p) \/ ModifyFind(p) \/ ModifySection(p)
        \/ accel_activate(p) \/ Wipe(p) \/ persistent_compile_file(p)
        \/ accel_activate_add(p) \/ opcache_reset(p) \/ accel_deactivate(p)
        \/ persistent_zend_resolve_path(p) \/ accel_make_persistent_key(p)
        \/ KeySection(p) \/ Use(p) \/ Store(p)

Spec == Init /\ [][Next]_vars

-----------------------------------------------------------------------------
(* Correctness.                                                            *)

\* "It stores all the requested values": no value has two entries, and the
\* letter of an entry stays its own, whatever is stored and restarted.
LettersStay ==
    \A i, j \in DOMAIN include_paths :
        /\ memory[include_paths[i].at] = i
        /\ include_paths[i].path = include_paths[j].path => i = j

\* A process whose letter has not been freed under it finds scripts only of
\* its own include path: unless its path is whole at the end of the key and
\* looks like a letter, or the script was stored under such a key, or by a
\* process with a freed letter.
FreshKeysMeanPaths ==
    \A p \in Proc \ stale :
        pc[p] = "use" /\ ~Ambiguous(p) /\ key[p] \notin tainted =>
            cached[key[p]] \in {NoPath, include_path[p]}

\* A restart frees no letter under a request that was counted when it looked
\* for those, only under a process that is not counted or was counted in late.
\* The letter of the include path of the startup it does not free at all.
CountedStaysFresh ==
    [][\A p \in Proc : p \in stale' \ stale =>
            (counted[p] => p \in late) /\ include_path[p] # Default]_vars

(* What a comment of the code promises, and the code does not do.          *)

\* accel_make_persistent_key_ex: "we create a key that consist from requested
\* file name, current working directory, current include_path, etc".
KeyMeansPath ==
    \A p \in Proc :
        pc[p] = "use" => cached[key[p]] \in {NoPath, include_path[p]}
=============================================================================
