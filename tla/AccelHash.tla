------------------------------ MODULE AccelHash ------------------------------
(***************************************************************************)
(* The hash table of cached scripts in shared memory                       *)
(* (zend_accelerator_hash.c) under the protocol by which                   *)
(* persistent_compile_file and cache_script_in_shared_memory use it.       *)
(*                                                                         *)
(* Entries are taken one after the other from an array and chained to the  *)
(* slot of their key.  A direct entry holds a script and has the real path *)
(* of the script for key; an indirect one points to another entry.         *)
(* Changes are made under the exclusive lock, lookups without.  One action *)
(* is one access to the table that another process can tell apart.         *)
(***************************************************************************)
EXTENDS Naturals, FiniteSets

CONSTANTS
    Proc, NoProc,
    Path,              \* real paths, the names of files
    Key,               \* other names of files: keys
    Script, NoScript,  \* persistent scripts; bound: each is stored once
    NoPath,
    Size,              \* accel_hash->max_num_entries
    Slot,              \* zend_inline_hash_func, modulo Size
    Moving             \* names that may come to mean another file

Name == Path \cup Key
Entry == 1..Size
Nil == 0

ASSUME HashAssumption ==
    /\ Size \in Nat \ {0}
    /\ Slot \in [Name -> 0..(Size - 1)]
    /\ Moving \subseteq Name
    /\ Path \cap Key = {}
    /\ Script \cap Nat = {} /\ NoScript \notin Script \cup Nat
    /\ NoProc \notin Proc /\ NoPath \notin Name

VARIABLES
    hash_table, hash_entries, num_entries, num_direct_entries,
    full_path,  \* of a persistent script, NoPath before it is stored
    corrupted,  \* scripts that are not to be used any more
    realpath,   \* the file system: what each name resolves to
    lock,       \* owner of the exclusive lock
    pc, job,    \* control state, and what the lock is taken for
    name,       \* the name (or key) the request asks for
    path,       \* what it resolved to
    goal, at,   \* the key looked for, and where in the chain
    bucket,     \* an entry kept across steps
    result      \* the script found

table == <<hash_table, hash_entries, num_entries, num_direct_entries>>
scripts == <<full_path, corrupted>>
locals == <<job, name, path, goal, at, bucket, result>>
vars == <<table, scripts, realpath, lock, pc, locals>>

Walks == {"find", "open", "recheck", "add", "key"}
PCs == Walks \cup {"idle", "follow", "data", "check", "lock", "publish",
                   "convert", "unlock"}
Jobs == {"none", "corrupt", "add", "link", "store"}

EntryRecord == [key : Name, next : {Nil} \cup Entry,
                data : Script \cup Entry, indirect : BOOLEAN]

TypeOK ==
    /\ hash_table \in [0..(Size - 1) -> {Nil} \cup Entry]
    /\ num_entries \in 0..Size
    /\ hash_entries \in [1..num_entries -> EntryRecord]
    /\ num_direct_entries \in 0..Size
    /\ full_path \in [Script -> Path \cup {NoPath}]
    /\ corrupted \subseteq Script
    /\ realpath \in [Name -> Path]
    /\ lock \in Proc \cup {NoProc}
    /\ pc \in [Proc -> PCs]
    /\ job \in [Proc -> Jobs]
    /\ name \in [Proc -> Name \cup {NoPath}]
    /\ path \in [Proc -> Path \cup {NoPath}]
    /\ goal \in [Proc -> Name \cup {NoPath}]
    /\ at \in [Proc -> {Nil} \cup Entry]
    /\ bucket \in [Proc -> {Nil} \cup Entry]
    /\ result \in [Proc -> Script \cup Entry \cup {NoScript}]

\* zend_accel_hash_init; the smaller table sizes come from its list of primes.
Init ==
    /\ hash_table = [i \in 0..(Size - 1) |-> Nil]
    /\ hash_entries = <<>>
    /\ num_entries = 0
    /\ num_direct_entries = 0
    /\ full_path = [s \in Script |-> NoPath]
    /\ corrupted = {}
    /\ realpath \in [Name -> Path]
    /\ \A p \in Path : realpath[p] = p
    /\ lock = NoProc
    /\ pc = [p \in Proc |-> "idle"]
    /\ job = [p \in Proc |-> "none"]
    /\ name = [p \in Proc |-> NoPath]
    /\ path = [p \in Proc |-> NoPath]
    /\ goal = [p \in Proc |-> NoPath]
    /\ at = [p \in Proc |-> Nil]
    /\ bucket = [p \in Proc |-> Nil]
    /\ result = [p \in Proc |-> NoScript]

-----------------------------------------------------------------------------
(* Building blocks.                                                        *)

Set(f, p, v) == [f EXCEPT ![p] = v]

\* A lookup of n begins, in zend_accel_hash_find, _find_entry or _update; k
\* says what it is for.
Look(p, n, k) ==
    /\ goal' = Set(goal, p, n)
    /\ at' = Set(at, p, hash_table[Slot[n]])
    /\ pc' = Set(pc, p, k)

Walk(p) ==
    /\ pc[p] \in Walks
    /\ at[p] # Nil /\ hash_entries[at[p]].key # goal[p]
    /\ at' = Set(at, p, hash_entries[at[p]].next)
    /\ UNCHANGED <<table, scripts, realpath, lock, pc, job, name, path, goal,
                   bucket, result>>

Absent(p, k) == pc[p] = k /\ at[p] = Nil

\* Mutant: names with the same hash value are taken for the same.
Present_NoCompare(p, k) == pc[p] = k /\ at[p] # Nil

Present(p, k) ==
    pc[p] = k /\ at[p] # Nil /\ hash_entries[at[p]].key = goal[p]

\* What zend_accel_hash_find_entry returns for the entry e.
Direct(e) == IF hash_entries[e].indirect THEN hash_entries[e].data ELSE e

\* Where the loop of zend_accel_hash_update ends: at the direct entry among
\* those to which b leads.  There is none when they lead back to themselves.
Follow(b) ==
    {e \in 1..num_entries :
        /\ ~hash_entries[e].indirect
        /\ \A E \in SUBSET (1..num_entries) :
             /\ b \in E
             /\ \A f \in E :
                  hash_entries[f].indirect => hash_entries[f].data \in E
             => e \in E}

\* Mutant: off by one.
is_full_Late == num_entries > Size

is_full == num_entries = Size

\* A new entry is filled in; it is put into its chain by Publish.
Fill(p, key, indirect, data) ==
    /\ ~is_full
    /\ num_entries' = num_entries + 1
    /\ num_direct_entries' = num_direct_entries + (IF indirect THEN 0 ELSE 1)
    /\ hash_entries' = [e \in 1..(num_entries + 1) |->
          IF e <= num_entries THEN hash_entries[e]
          ELSE [key |-> key, next |-> hash_table[Slot[key]], data |-> data,
                indirect |-> indirect]]
    /\ at' = Set(at, p, num_entries + 1)
    /\ pc' = Set(pc, p, "publish")
    /\ UNCHANGED <<hash_table, goal>>

-----------------------------------------------------------------------------
(* persistent_compile_file: looking the script up, without the lock.       *)

Request(p) ==
    /\ pc[p] = "idle"
    /\ \E n \in Name :
         /\ name' = Set(name, p, n)
         /\ Look(p, n, "find")
    /\ job' = Set(job, p, "none")
    /\ path' = Set(path, p, NoPath)
    /\ bucket' = Set(bucket, p, Nil)
    /\ result' = Set(result, p, NoScript)
    /\ UNCHANGED <<table, scripts, realpath, lock>>

\* zend_accel_hash_find reads entry->indirect, entry->data and, through an
\* indirect entry, the data of the other one.
FindMatch(p) ==
    /\ Present(p, "find")
    /\ pc' = Set(pc, p, IF hash_entries[at[p]].indirect THEN "follow"
                        ELSE "data")
    /\ UNCHANGED <<table, scripts, realpath, lock, locals>>

FindFollow(p) ==
    /\ pc[p] = "follow"
    /\ at' = Set(at, p, hash_entries[at[p]].data)
    /\ pc' = Set(pc, p, "data")
    /\ UNCHANGED <<table, scripts, realpath, lock, job, name, path, goal,
                   bucket, result>>

FindData(p) ==
    /\ pc[p] = "data"
    /\ result' = Set(result, p, hash_entries[at[p]].data)
    /\ pc' = Set(pc, p, "check")
    /\ UNCHANGED <<table, scripts, realpath, lock, job, name, path, goal, at,
                   bucket>>

\* The key is unknown: the file is opened, and looked up by its real path.
Open(p) ==
    /\ Absent(p, "find")
    /\ path' = Set(path, p, realpath[name[p]])
    /\ Look(p, realpath[name[p]], "open")
    /\ UNCHANGED <<table, scripts, realpath, lock, job, name, bucket, result>>

OpenFound(p) ==
    /\ Present(p, "open")
    /\ LET b == Direct(at[p])
           s == hash_entries[b].data
       IN /\ bucket' = Set(bucket, p, b)
          /\ result' = Set(result, p, s)
          /\ job' = Set(job, p, IF s \in corrupted THEN "store" ELSE "add")
    /\ pc' = Set(pc, p, "lock")
    /\ UNCHANGED <<table, scripts, realpath, lock, name, path, goal, at>>

OpenNew(p) ==
    /\ Absent(p, "open")
    /\ job' = Set(job, p, "store")
    /\ pc' = Set(pc, p, "lock")
    /\ UNCHANGED <<table, scripts, realpath, lock, name, path, goal, at,
                   bucket, result>>

\* The file is opened, if it is not yet, when it is compiled.
Compile(p) ==
    /\ job' = Set(job, p, "store")
    /\ path' = Set(path, p, IF path[p] = NoPath THEN realpath[name[p]]
                            ELSE path[p])

\* A corrupted script is compiled again.  Another one is used, unless it is
\* validated and found to be another file or an older one.
Check(p) ==
    /\ pc[p] = "check" /\ result[p] \in Script
    /\ \/ /\ result[p] \in corrupted
          /\ pc' = Set(pc, p, "lock")
          /\ Compile(p)
       \/ /\ result[p] \notin corrupted
          /\ \/ pc' = Set(pc, p, "idle") /\ UNCHANGED job
             \/ pc' = Set(pc, p, "lock") /\ job' = Set(job, p, "corrupt")
          /\ UNCHANGED path
    /\ UNCHANGED <<table, scripts, realpath, lock, name, goal, at, bucket,
                   result>>

\* The file cannot be compiled, or is one that is not cached.
NotCached(p) ==
    /\ pc[p] = "lock" /\ job[p] = "store"
    /\ pc' = Set(pc, p, "idle")
    /\ UNCHANGED <<table, scripts, realpath, lock, locals>>

-----------------------------------------------------------------------------
(* Sections under the exclusive lock.                                      *)

\* Marked as corrupted in a section of its own, then compiled.
Corrupt(p) ==
    /\ pc[p] = "lock" /\ job[p] = "corrupt"
    /\ lock = NoProc
    /\ corrupted' = corrupted \cup {result[p]}
    /\ Compile(p)
    /\ UNCHANGED <<table, full_path, realpath, lock, pc, name, goal, at,
                   bucket, result>>

\* Mutant: without the lock.
LockAdd_NoLock(p) ==
    /\ pc[p] = "lock" /\ job[p] = "add"
    /\ lock' = p
    /\ Look(p, name[p], "add")
    /\ UNCHANGED <<table, scripts, realpath, job, name, path, bucket, result>>

\* zend_accel_add_key looks the key up again.
LockAdd(p) ==
    /\ pc[p] = "lock" /\ job[p] = "add"
    /\ lock = NoProc /\ lock' = p
    /\ Look(p, name[p], "add")
    /\ UNCHANGED <<table, scripts, realpath, job, name, path, bucket, result>>

\* cache_script_in_shared_memory looks the real path up again, unless full.
LockStore(p) ==
    /\ pc[p] = "lock" /\ job[p] = "store"
    /\ lock = NoProc /\ lock' = p
    /\ IF is_full THEN pc' = Set(pc, p, "unlock") /\ UNCHANGED <<goal, at>>
       ELSE Look(p, path[p], "recheck")
    /\ UNCHANGED <<table, scripts, realpath, job, name, path, bucket, result>>

AddKey(p) ==
    /\ \/ /\ Present(p, "add") \/ (Absent(p, "add") /\ is_full)
          /\ pc' = Set(pc, p, "unlock")
          /\ UNCHANGED <<table, goal, at>>
       \/ /\ Absent(p, "add")
          /\ \E e \in Follow(bucket[p]) : Fill(p, name[p], TRUE, e)
    /\ UNCHANGED <<scripts, realpath, lock, job, name, path, bucket, result>>

\* Already stored by another process: the key is linked, or not if the time
\* stamps differ.
Recheck(p) ==
    /\ Present(p, "recheck")
    /\ LET b == Direct(at[p])
       IN /\ hash_entries[b].data \in Script \ corrupted
          /\ bucket' = Set(bucket, p, b)
    /\ \/ job' = Set(job, p, "link") /\ Look(p, name[p], "add")
       \/ pc' = Set(pc, p, "unlock") /\ UNCHANGED <<job, goal, at>>
    /\ UNCHANGED <<table, scripts, realpath, lock, name, path, result>>

\* No memory for the script.
NoMemory(p) ==
    /\ pc[p] = "recheck"
    /\ \A s \in Script : full_path[s] # NoPath
    /\ \/ Absent(p, "recheck")
       \/ /\ Present(p, "recheck")
          /\ hash_entries[Direct(at[p])].data \in corrupted
    /\ pc' = Set(pc, p, "unlock")
    /\ UNCHANGED <<table, scripts, realpath, lock, locals>>

\* An existing entry of zend_accel_hash_update without indirect.
Replace(e, s) ==
    IF hash_entries[e].indirect
    THEN [hash_entries EXCEPT ![hash_entries[e].data].data = s]
    ELSE [hash_entries EXCEPT ![e].data = s]

AfterStore(p) ==
    IF name[p] # path[p] THEN Look(p, name[p], "key")
    ELSE pc' = Set(pc, p, "unlock") /\ UNCHANGED <<goal, at>>

\* The new script takes the place of the corrupted one.
StoreAgain(p) ==
    /\ Present(p, "recheck")
    /\ hash_entries[Direct(at[p])].data \in corrupted
    /\ \E s \in Script :
         /\ full_path[s] = NoPath
         /\ full_path' = Set(full_path, s, path[p])
         /\ hash_entries' = Replace(at[p], s)
    /\ bucket' = Set(bucket, p, at[p])
    /\ AfterStore(p)
    /\ UNCHANGED <<hash_table, num_entries, num_direct_entries, corrupted,
                   realpath, lock, job, name, path, result>>

StoreNew(p) ==
    /\ Absent(p, "recheck")
    /\ \E s \in Script :
         /\ full_path[s] = NoPath
         /\ full_path' = Set(full_path, s, path[p])
         /\ Fill(p, path[p], FALSE, s)
    /\ bucket' = Set(bucket, p, num_entries + 1)
    /\ UNCHANGED <<corrupted, realpath, lock, job, name, path, result>>

\* An entry becomes visible; after the one for the real path follows the key.
Publish(p) ==
    /\ pc[p] = "publish"
    /\ hash_table' = [hash_table EXCEPT ![Slot[hash_entries[at[p]].key]] =
                                              at[p]]
    /\ IF hash_entries[at[p]].indirect
       THEN pc' = Set(pc, p, "unlock") /\ UNCHANGED <<goal, at>>
       ELSE IF name[p] # path[p]
       THEN /\ goal' = Set(goal, p, name[p])
            /\ at' = Set(at, p, hash_table'[Slot[name[p]]])
            /\ pc' = Set(pc, p, "key")
       ELSE pc' = Set(pc, p, "unlock") /\ UNCHANGED <<goal, at>>
    /\ UNCHANGED <<hash_entries, num_entries, num_direct_entries, scripts,
                   realpath, lock, job, name, path, bucket, result>>

\* Mutant: the data of the entry that the key was linked to is written.
Relink_Through(p, b) ==
    /\ hash_entries' = [hash_entries EXCEPT ![Direct(at[p])].data = b]
    /\ pc' = Set(pc, p, "unlock")
    /\ UNCHANGED num_direct_entries

\* The existing entry of a key is linked to another one.  A direct entry
\* becomes indirect, in two steps.
Relink(p, b) ==
    /\ hash_entries' = [hash_entries EXCEPT ![at[p]].data = b]
    /\ IF hash_entries[at[p]].indirect
       THEN pc' = Set(pc, p, "unlock") /\ UNCHANGED num_direct_entries
       ELSE /\ pc' = Set(pc, p, "convert")
            /\ num_direct_entries' = num_direct_entries - 1

\* zend_accel_hash_update with indirect.
StoreKey(p) ==
    /\ \E b \in Follow(bucket[p]) :
         \/ Absent(p, "key") /\ Fill(p, name[p], TRUE, b)
         \/ /\ Absent(p, "key") /\ is_full
            /\ pc' = Set(pc, p, "unlock")
            /\ UNCHANGED <<table, goal, at>>
         \/ /\ Present(p, "key")
            /\ Relink(p, b)
            /\ UNCHANGED <<hash_table, num_entries, goal, at>>
    /\ UNCHANGED <<scripts, realpath, lock, job, name, path, bucket, result>>

Convert(p) ==
    /\ pc[p] = "convert"
    /\ hash_entries' = [hash_entries EXCEPT ![at[p]].indirect = TRUE]
    /\ pc' = Set(pc, p, "unlock")
    /\ UNCHANGED <<hash_table, num_entries, num_direct_entries, scripts,
                   realpath, lock, locals>>

Unlock(p) ==
    /\ pc[p] = "unlock"
    /\ lock' = NoProc
    /\ pc' = Set(pc, p, IF job[p] = "add" THEN "check" ELSE "idle")
    /\ UNCHANGED <<table, scripts, realpath, locals>>

\* External: a file is moved, replaced by a link, or a nearer one appears;
\* what was reached by the name n is reached through the link.
Move ==
    /\ \E n \in Moving, q \in Path :
         /\ realpath[q] = q \/ q = n
         /\ realpath' = [r \in Name |->
               IF r = n \/ (realpath[r] = n /\ q # n) THEN q ELSE realpath[r]]
    /\ UNCHANGED <<table, scripts, lock, pc, locals>>

Next ==
    \/ Move
    \/ \E p \in Proc :
         \/ Request(p) \/ Walk(p) \/ FindMatch(p) \/ FindFollow(p)
         \/ FindData(p) \/ Open(p) \/ OpenFound(p) \/ OpenNew(p) \/ Check(p)
         \/ NotCached(p) \/ Corrupt(p) \/ LockAdd(p) \/ LockStore(p) \/ AddKey(p)
         \/ Recheck(p) \/ NoMemory(p) \/ StoreAgain(p) \/ StoreNew(p)
         \/ Publish(p) \/ StoreKey(p) \/ Convert(p) \/ Unlock(p)

Spec == Init /\ [][Next]_vars

-----------------------------------------------------------------------------
(* Correctness.                                                            *)

\* The entries that can be found: all but one that is not published yet.
Published == {e \in 1..num_entries :
                 \A p \in Proc : pc[p] = "publish" => at[p] # e}

\* A chain is what its slot holds, the newest first, and a key occurs once:
\* else one entry would hide another, or a lock-free lookup would be led
\* into another chain.
ChainsAreSound ==
    /\ \A e, f \in 1..num_entries :
         hash_entries[e].key = hash_entries[f].key => e = f
    /\ \A e \in 1..num_entries :
         LET before == {f \in 1..(e - 1) :
                  Slot[hash_entries[f].key] = Slot[hash_entries[e].key]}
         IN hash_entries[e].next =
              IF before = {} THEN Nil
              ELSE CHOOSE f \in before : \A g \in before : g <= f
    /\ \A e \in Published : hash_table[Slot[hash_entries[e].key]] >= e

\* zend_accel_hash_find: "Returns the data associated with key on success".
\* Clients take what it returns for a script.
FindReturnsScript ==
    \A p \in Proc : pc[p] = "check" => result[p] \in Script

\* While the files stay where they are, a name finds the script of its own
\* file: whatever the other processes were doing to the table meanwhile, and
\* whether or not other names have moved.
FindsItsFile ==
    \A p \in Proc :
        pc[p] = "check" /\ name[p] \notin Moving =>
            full_path[result[p]] = realpath[name[p]]

\* num_direct_entries is reported as the number of cached scripts.
DirectCount ==
    num_direct_entries =
        Cardinality({e \in 1..num_entries : hash_entries[e].data \in Script})

\* do_validate_timestamps: "check that the persistant script is indeed the same
\* file we cached (if part of the path is a symlink than it possible that the
\* user will change it)".  The script stored under a path is one compiled from
\* the file of that path, whatever the names were resolved to in between.
StoredUnderItsPath ==
    \A e \in 1..num_entries :
        hash_entries[e].data \in Script =>
            full_path[hash_entries[e].data] = hash_entries[e].key

(* The table implements the map.                                           *)

EntryOf(n) == {e \in Published : hash_entries[e].key = n}

Map == INSTANCE AccelMap WITH
    file <- [p \in Path |->
                IF EntryOf(p) = {} THEN NoScript
                ELSE hash_entries[CHOOSE e \in EntryOf(p) : TRUE].data],
    link <- [k \in Key |->
                IF EntryOf(k) = {} THEN NoPath
                ELSE hash_entries[hash_entries[
                        CHOOSE e \in EntryOf(k) : TRUE].data].key]

ImplementsMap == Map!Spec
=============================================================================
