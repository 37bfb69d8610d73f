--------------------------- MODULE InternedStrings ---------------------------
(***************************************************************************)
(* The interned strings in shared memory (ZendAccelerator.c): a hash table *)
(* whose chains and order list run through the strings themselves, which   *)
(* are allocated from a buffer by advancing its top.  What PHP knows at    *)
(* startup is interned first and the table is saved; storing a script adds *)
(* to it; a restart goes back to the saved table and reuses the rest of    *)
(* the buffer.                                                             *)
(*                                                                         *)
(* Everything after startup happens under the exclusive lock (SharedAlloc, *)
(* AccelRestart), so that one job runs at a time; but the process that     *)
(* runs it may be killed between any two of its steps, and the lock is     *)
(* free again.                                                             *)
(***************************************************************************)
EXTENDS Integers, Sequences, FiniteSets

CONSTANTS
    String,   \* the strings, each with its characters and length
    nTableSize,
    Hash,     \* zend_inline_hash_func of each, masked with nTableMask
    Size,     \* ZEND_MM_ALIGNED_SIZE(sizeof(Bucket) + nKeyLength) of each
    Startup,  \* the strings in PHP's own tables, in the order of interning
    Scripts,  \* the strings of each script that may be stored, likewise
    End,      \* interned_strings_end, 0 when interned_strings_buffer is
    MaxCount, \* bound: strings ever made, as nNumOfElements counts them
    MaxKills  \* bound: processes that are killed at their job

Null == -1
Address == 0..End - 1
Index == 0..nTableSize - 1

ASSUME StringAssumption ==
    /\ End \in Nat /\ MaxCount \in Nat /\ MaxKills \in Nat
    /\ nTableSize \in Nat \ {0}
    /\ Hash \in [String -> Index]
    /\ Size \in [String -> Nat \ {0}]
    /\ Startup \in Seq(String) /\ Scripts \subseteq Seq(String)

VARIABLES
    mem,        \* the strings that are whole in the buffer, by address
    arBuckets, pListHead, pListTail, nNumOfElements, \* the hash table
    top,        \* interned_strings_top
    saved,      \* interned_strings_saved_state
    php,        \* what the processes' own tables refer to
    scripts,    \* what the stored scripts refer to
    accel_startup_ok, enabled, restart_pending,
    job,        \* what the process with the lock is doing
    kills

table == <<arBuckets, pListHead, pListTail, nNumOfElements>>
flags == <<accel_startup_ok, enabled, restart_pending>>
vars == <<mem, table, top, saved, php, scripts, flags, job, kills>>

NodeType == [str : String, pNext : Address \cup {Null}, pLast : Address \cup {Null},
         pListNext : Address \cup {Null}, pListLast : Address \cup {Null}]
Reference == String \X Address
Saved == [arBuckets : [Index -> Address \cup {Null}],
          pListHead : Address \cup {Null}, pListTail : Address \cup {Null},
          top : 0..End]

\* "intern": todo is left to intern, of which p is the one being linked in.
\* "restore": p is the next index of the table to restore.
Free == [at |-> "free", todo |-> <<>>, refs |-> {}, p |-> Null]

TypeOK ==
    /\ \E A \in SUBSET Address : mem \in [A -> NodeType]
    /\ arBuckets \in [Index -> Address \cup {Null}]
    /\ pListHead \in Address \cup {Null} /\ pListTail \in Address \cup {Null}
    /\ nNumOfElements \in Nat
    /\ top \in 0..End
    /\ saved \in Saved
    /\ php \subseteq Reference /\ scripts \subseteq Reference
    /\ accel_startup_ok \in BOOLEAN /\ enabled \in BOOLEAN
    /\ restart_pending \in BOOLEAN
    /\ job.at \in {"find", "enter", "append", "restore", "free"}
    /\ job.todo \in Seq(String)
    /\ job.refs \subseteq Reference /\ job.p \in Address \cup {Null} \cup 0..nTableSize
    /\ kills \in 0..MaxKills

Init ==
    /\ mem = <<>>
    /\ arBuckets = [i \in Index |-> Null]
    /\ pListHead = Null /\ pListTail = Null /\ nNumOfElements = 0
    /\ top = 0
    /\ saved = [arBuckets |-> arBuckets, pListHead |-> Null,
                pListTail |-> Null, top |-> 0]
    /\ php = {} /\ scripts = {}
    /\ accel_startup_ok = FALSE /\ enabled = FALSE /\ restart_pending = FALSE
    /\ job = [Free EXCEPT !.at = "find", !.todo = Startup]
    /\ kills = 0

-----------------------------------------------------------------------------
\* The strings to which one leads in the given memory: the least set that
\* holds it and, with each of its strings, the next one.
Follow(m, a) ==
    {x \in Address :
        \A C \in SUBSET Address :
            /\ a \in C \cup {Null}
            /\ \A y \in C \cap DOMAIN m : m[y].pNext \in C \cup {Null}
            => x \in C}

\* The addresses on the chain that begins at the given one.
Chain(a) == Follow(mem, a)

\* The strings that can be found.
Found == UNION {Chain(arBuckets[i]) : i \in Index}

\* Mutant: only the first string of the bucket is looked at.
Lookup_First(s) ==
    {a \in {arBuckets[Hash[s]]} \cap DOMAIN mem : mem[a].str = s}

\* Where the loop over the bucket's chain finds the string.
Lookup(s) == {a \in Chain(arBuckets[Hash[s]]) \cap DOMAIN mem : mem[a].str = s}

\* Writing a string destroys those that were in its place.
Write(a, node) ==
    LET new == a..a + Size[node.str] - 1
        old == {x \in DOMAIN mem : x..x + Size[mem[x].str] - 1 \cap new = {}}
    IN  [x \in old \cup {a} |-> IF x = a THEN node ELSE mem[x]]

-----------------------------------------------------------------------------
(* accel_new_interned_string, for the first string that is left to do.     *)

\* It is there already.
FindString ==
    /\ job.at = "find" /\ job.todo # <<>>
    /\ \E a \in Lookup(Head(job.todo)) :
         job' = [job EXCEPT !.todo = Tail(@),
                            !.refs = @ \cup {<<Head(job.todo), a>>}]
    /\ UNCHANGED <<mem, table, top, saved, php, scripts, flags, kills>>

\* Mutant: the last string may begin where the buffer ends.
Overflows_Late(s) == top >= End

\* Not even if it would just fit.
Overflows(s) == top + Size[s] >= End

\* There is no memory: the string stays as it is, outside the buffer.
BufferOverflow ==
    /\ job.at = "find" /\ job.todo # <<>>
    /\ Lookup(Head(job.todo)) = {} /\ Overflows(Head(job.todo))
    /\ job' = [job EXCEPT !.todo = Tail(@)]
    /\ UNCHANGED <<mem, table, top, saved, php, scripts, flags, kills>>

\* It is made at the top of the buffer, and points to the chain.
CreateString ==
    LET s == Head(job.todo) IN
    /\ job.at = "find" /\ job.todo # <<>>
    /\ Lookup(s) = {} /\ ~Overflows(s)
    /\ nNumOfElements < MaxCount
    /\ top' = top + Size[s]
    /\ mem' = Write(top, [str |-> s, pNext |-> arBuckets[Hash[s]],
                          pLast |-> Null, pListNext |-> Null,
                          pListLast |-> Null])
    /\ job' = [job EXCEPT !.at = "enter", !.p = top]
    /\ UNCHANGED <<table, saved, php, scripts, flags, kills>>

\* It becomes the first of its chain.
EnterChain ==
    LET p == job.p
        next == mem[p].pNext
    IN
    /\ job.at = "enter"
    /\ mem' = IF next = Null THEN mem ELSE [mem EXCEPT ![next].pLast = p]
    /\ arBuckets' = [arBuckets EXCEPT ![Hash[mem[p].str]] = p]
    /\ job' = [job EXCEPT !.at = "append"]
    /\ UNCHANGED <<pListHead, pListTail, nNumOfElements, top, saved, php,
                   scripts, flags, kills>>

\* It becomes the last of the list, and is counted.
AppendToList ==
    LET p == job.p IN
    /\ job.at = "append"
    /\ mem' = [x \in DOMAIN mem |->
                 IF x = p THEN [mem[p] EXCEPT !.pListLast = pListTail]
                 ELSE IF x = pListTail THEN [mem[x] EXCEPT !.pListNext = p]
                 ELSE mem[x]]
    /\ pListTail' = p
    /\ pListHead' = IF pListHead = Null THEN p ELSE pListHead
    /\ nNumOfElements' = nNumOfElements + 1
    /\ job' = [job EXCEPT !.at = "find", !.todo = Tail(@), !.p = Null,
                          !.refs = @ \cup {<<mem[p].str, p>>}]
    /\ UNCHANGED <<arBuckets, top, saved, php, scripts, flags, kills>>

-----------------------------------------------------------------------------
\* Mutant: the top is saved before the strings of PHP are interned.
save_state_Empty == [arBuckets |-> arBuckets, pListHead |-> pListHead,
                     pListTail |-> pListTail, top |-> 0]

\* Mutant: the table is not saved with the list.
save_state_Listless == [arBuckets |-> [i \in Index |-> Null],
                        pListHead |-> pListHead, pListTail |-> pListTail,
                        top |-> top]

save_state == [arBuckets |-> arBuckets, pListHead |-> pListHead,
               pListTail |-> pListTail, top |-> top]

\* The end of zend_accel_init_shm: accel_use_shm_interned_strings is done,
\* and accel_interned_strings_save_state.
Started ==
    /\ job.at = "find" /\ job.todo = <<>> /\ ~accel_startup_ok
    /\ php' = job.refs
    /\ saved' = save_state
    /\ accel_startup_ok' = TRUE /\ enabled' = TRUE /\ job' = Free
    /\ UNCHANGED <<mem, table, top, scripts, restart_pending, kills>>

\* cache_script_in_shared_memory begins, and ends with the script stored.
StoreScript(script) ==
    /\ job = Free /\ enabled
    /\ job' = [Free EXCEPT !.at = "find", !.todo = script]
    /\ UNCHANGED <<mem, table, top, saved, php, scripts, flags, kills>>

ScriptStored ==
    /\ job.at = "find" /\ job.todo = <<>> /\ accel_startup_ok
    /\ scripts' = scripts \cup job.refs
    /\ job' = Free
    /\ UNCHANGED <<mem, table, top, saved, php, flags, kills>>

zend_accel_schedule_restart ==
    /\ ~restart_pending /\ job = Free
    /\ restart_pending' = TRUE /\ enabled' = FALSE
    /\ UNCHANGED <<accel_startup_ok, mem, table, top, saved, php, scripts, job, kills>>

-----------------------------------------------------------------------------
(* accel_activate restarts when no process uses the cache any more: the    *)
(* scripts are dropped, then accel_interned_strings_restore_state.         *)

Restart ==
    /\ restart_pending /\ job = Free
    /\ restart_pending' = FALSE
    /\ scripts' = {}
    /\ job' = [Free EXCEPT !.at = "restore", !.p = 0]
    /\ UNCHANGED <<mem, table, top, saved, php, accel_startup_ok, enabled,
                   kills>>

\* One round of its loop.
RestoreBucket ==
    LET i == job.p
        a == saved.arBuckets[i]
    IN
    /\ job.at = "restore" /\ job.p < nTableSize
    /\ arBuckets' = [arBuckets EXCEPT ![i] = a]
    /\ mem' = IF a = Null THEN mem ELSE [mem EXCEPT ![a].pLast = Null]
    /\ job' = [job EXCEPT !.p = i + 1]
    /\ UNCHANGED <<pListHead, pListTail, nNumOfElements, top, saved, php,
                   scripts, flags, kills>>

\* Mutant: the last string still points to the one that followed it.
RestoreList_Open(m) ==
    [x \in DOMAIN m |->
        IF x = saved.pListHead THEN [m[x] EXCEPT !.pListLast = Null] ELSE m[x]]

\* The saved list ends where it did.
RestoreList(m) ==
    LET begun == [x \in DOMAIN m |-> IF x = saved.pListHead
                    THEN [m[x] EXCEPT !.pListLast = Null] ELSE m[x]]
    IN  [x \in DOMAIN m |-> IF x = saved.pListTail
           THEN [begun[x] EXCEPT !.pListNext = Null] ELSE begun[x]]

\* The rest of the restart; the number of strings is left as it is.
Restored ==
    /\ job.at = "restore" /\ job.p = nTableSize
    /\ mem' = RestoreList(mem)
    /\ pListHead' = saved.pListHead /\ pListTail' = saved.pListTail
    /\ top' = saved.top
    /\ enabled' = TRUE /\ job' = Free
    /\ UNCHANGED <<arBuckets, nNumOfElements, saved, php, scripts,
                   accel_startup_ok, restart_pending, kills>>

\* The process is killed; what it had in hand is gone, the lock is free.
Killed ==
    /\ job # Free /\ kills < MaxKills
    /\ accel_startup_ok
    /\ kills' = kills + 1
    /\ job' = Free
    /\ UNCHANGED <<mem, table, top, saved, php, scripts, flags>>

-----------------------------------------------------------------------------
accel_new_interned_string ==
    FindString \/ BufferOverflow \/ CreateString \/ EnterChain \/ AppendToList

Next ==
    \/ accel_new_interned_string
    \/ Started
    \/ \E script \in Scripts : StoreScript(script)
    \/ ScriptStored
    \/ zend_accel_schedule_restart \/ Restart \/ RestoreBucket \/ Restored
    \/ Killed

Spec == Init /\ [][Next]_vars

-----------------------------------------------------------------------------
(* Properties.                                                             *)

\* A string is interned once, so that two scripts that use it share it,
\* whatever was killed or restarted before.
SameString ==
    \A x, y \in Found : mem[x].str = mem[y].str => x = y

\* What PHP's tables and the stored scripts refer to stays what it was: a
\* restart does not let new strings overwrite it, nor does a process that
\* was killed.
KeepsItsContent ==
    \A r \in php \cup scripts \cup job.refs :
        r[2] \in DOMAIN mem /\ mem[r[2]].str = r[1]

\* Each chain runs through whole strings of its own bucket that lie below
\* the top, also in the middle of a restart or after one that was killed.
ChainsHold ==
    /\ top <= End
    /\ \A i \in Index : \A a \in Chain(arBuckets[i]) :
         /\ a \in DOMAIN mem
         /\ Hash[mem[a].str] = i
         /\ a + Size[mem[a].str] <= top

\* The strings of PHP are found after every restart, so that scripts share
\* them.
StartupIsFound ==
    accel_startup_ok => \A r \in php : r[2] \in Lookup(r[1])

\* The list leads through all the strings that can be found and ends there,
\* and both it and the chains lead back the same way, unless a process was
\* killed while it linked one in.
LinksAgree ==
    job = Free /\ kills = 0 =>
        /\ pListTail # Null => mem[pListTail].pListNext = Null
        /\ \A a \in Found :
             LET n == mem[a] IN
             /\ n.pNext # Null => mem[n.pNext].pLast = a
             /\ n.pLast # Null => mem[n.pLast].pNext = a
             /\ IF n.pListNext = Null THEN a = pListTail
                ELSE n.pListNext \in Found /\ mem[n.pListNext].pListLast = a
             /\ IF n.pListLast = Null THEN a = pListHead
                ELSE n.pListLast \in Found

\* opcache_get_status reports nNumOfElements as number_of_strings.
CountIsReal ==
    job = Free /\ kills = 0 => nNumOfElements = Cardinality(Found)
=============================================================================
