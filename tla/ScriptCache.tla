----------------------------- MODULE ScriptCache -----------------------------
(***************************************************************************)
(* When a cached script may still be used: time stamps, their revalidation *)
(* and the flag that marks a script as out of date (ZendAccelerator.c and  *)
(* the file functions of zend_accelerator_module.c), while other processes *)
(* write, replace and delete the files and turn symbolic links around.     *)
(*                                                                         *)
(* A file is named by its real path or by Link, a relative name that leads *)
(* through a symbolic link and has a key of its own in the hash table (see *)
(* AccelHash for the table, AccelRestart for restarts: none takes place    *)
(* here, and memory that runs out stays exhausted).  What a process does   *)
(* under the exclusive lock is one action, since everything it decides on  *)
(* is only changed under that lock; every look at the cache without it and *)
(* every call to the file system is an action of its own.                  *)
(***************************************************************************)
EXTENDS Functions, Integers, FiniteSets, Sequences

CONSTANTS
    Proc,         \* the server processes
    File,         \* real paths of scripts
    Link,         \* a name that leads to one of them
    None,         \* no file
    Cases,        \* settings and bounds, one of which is chosen at the start
    Memory,       \* how many scripts fit into the shared memory
    Start, End    \* bound: the times that the clock shows

Setting == [validate_timestamps : BOOLEAN, revalidate_freq : Nat,
            revalidate_path : BOOLEAN, file_update_protection : Nat]

Ops == {"include", "include_once", "is_file", "invalidate"}

\* The calls that scripts make, the files that there are, how many contents
\* they have over time, and whether the link may be turned.
Bound == [calls : SUBSET (Ops \X (File \cup {Link})),
          files : SUBSET File \ {{}}, contents : Nat, turns : BOOLEAN]

ASSUME CaseAssumption ==
    /\ Cases \subseteq [ini : Setting, bound : Bound]
    /\ Link \notin File /\ None \notin File \cup {Link}
    /\ Start \in Nat /\ End \in Nat /\ Start <= End /\ Memory \in Nat
    /\ \A c \in Cases :
          /\ c.bound.contents < Start /\ IsFiniteSet(c.bound.files)
          /\ Cardinality(c.bound.files) <= c.bound.contents

VARIABLES
    ini,      \* ZCG(accel_directives)
    bound,    \* the bounds of this run
    now,      \* the clock, in seconds
    inode,    \* the files' contents: when last written, and what they hold
    path,     \* where each real path leads, 0 when there is no such file
    target,   \* where Link leads
    scripts,  \* the persistent scripts in shared memory, by their address
    hash,     \* the script stored under each real path, 0 for none
    key,      \* the real path whose entry the key of Link refers to
    memory_exhausted, wasted,  \* of ZSMMG, waste in scripts
    pc, op, name,  \* what a process does, and the file_handle->filename
    request_time,
    opened,   \* file_handle->opened_path
    handle,   \* the inode that the handle has open, 0 when not opened
    ptr,      \* the persistent_script in hand, 0 for NULL
    made,     \* the new_persistent_script: its time stamp and contents
    outdated, \* history: until when each content was that of its path
    left,     \* history: until when Link led to each file
    shunned   \* history: scripts that were corrupted before the call

Forever == End + 1
Nothing == [timestamp |-> 0, holds |-> 0]

disk == <<bound, now, inode, path, target>>
shared == <<scripts, hash, key, memory_exhausted, wasted>>
held == <<made, shunned>>
file_handle == <<op, name, opened, handle>>
local == <<request_time, file_handle, ptr, held>>
history == <<outdated, left>>
vars == <<ini, disk, shared, pc, local, history>>

Script == [file : File, holds : 1..bound.contents, timestamp : 0..End,
           revalidate : Nat, corrupted : BOOLEAN]

Goto(p, l) == pc' = [pc EXCEPT ![p] = l]
At(p, l) == pc[p] = l
Set(f, p, v) == f' = [f EXCEPT ![p] = v]

TypeOK ==
    /\ [ini |-> ini, bound |-> bound] \in Cases
    /\ now \in Start..End
    /\ inode \in Seq([mtime : 1..End, holds : 1..bound.contents])
    /\ path \in [File -> 0..Len(inode)]
    /\ target \in File
    /\ scripts \in Seq(Script) /\ Len(scripts) <= Memory
    /\ hash \in [File -> 0..Len(scripts)]
    /\ key \in File \cup {None}
    /\ memory_exhausted \in BOOLEAN /\ wasted \in 0..Memory
    /\ pc \in [Proc -> {"run", "open", "entry", "check", "stat", "resolved",
                        "invalid", "miss", "compile", "store", "load", "yes"}]
    /\ op \in [Proc -> Ops \ {"include_once"}] /\ name \in [Proc -> File \cup {Link}]
    /\ request_time \in [Proc -> Start..End]
    /\ opened \in [Proc -> File \cup {None}]
    /\ handle \in [Proc -> 0..Len(inode)]
    /\ ptr \in [Proc -> 0..Len(scripts)]
    /\ made \in [Proc -> [timestamp : 0..End, holds : 0..bound.contents]]
    /\ outdated \in Seq(Start..Forever)
    /\ left \in [File -> 0..Forever]
    /\ shunned \in [Proc -> SUBSET (1..Memory)]

\* A server that has just started; the files were written just now or long
\* before, each at a time of its own.
Init ==
    \E c \in Cases, just \in BOOLEAN :
      \E number \in Bijection(c.bound.files, 1..Cardinality(c.bound.files)) :
        /\ ini = c.ini /\ bound = c.bound
        /\ now = Start
        /\ inode = [i \in 1..Cardinality(bound.files) |->
                      [mtime |-> IF just THEN Start ELSE i, holds |-> i]]
        /\ path = [f \in File |-> IF f \in bound.files THEN number[f] ELSE 0]
        /\ target \in bound.files
        /\ scripts = <<>> /\ hash = [f \in File |-> 0] /\ key = None
        /\ memory_exhausted = FALSE /\ wasted = 0
        /\ pc = [p \in Proc |-> "run"]
        /\ op = [p \in Proc |-> "include"]
        /\ name = [p \in Proc |-> Link]
        /\ request_time = [p \in Proc |-> Start]
        /\ opened = [p \in Proc |-> None]
        /\ handle = [p \in Proc |-> 0]
        /\ ptr = [p \in Proc |-> 0]
        /\ made = [p \in Proc |-> Nothing]
        /\ outdated = [i \in 1..Cardinality(bound.files) |-> Forever]
        /\ left = [f \in File |-> IF f = target THEN Forever ELSE 0]
        /\ shunned = [p \in Proc |-> {}]

-----------------------------------------------------------------------------
(* External: the clock, and what others do to the files.                   *)

Tick ==
    /\ now < End
    /\ now' = now + 1
    /\ UNCHANGED <<ini, bound, inode, path, target, shared, pc, local, history>>

\* The content that f had is current no more, the next one is.
Change(f) ==
    /\ f \in bound.files
    /\ Len(outdated) < bound.contents
    /\ outdated' = Append(IF path[f] = 0 THEN outdated ELSE
                          [outdated EXCEPT ![inode[path[f]].holds] = now],
                          Forever)

\* One write to the file, of which it may take several to change it.
Write(f) ==
    /\ path[f] # 0
    /\ Change(f)
    /\ inode' = [inode EXCEPT ![path[f]] =
                    [mtime |-> now, holds |-> Len(outdated) + 1]]
    /\ UNCHANGED <<ini, bound, now, path, target, shared, pc, local, left>>

\* Another file is moved there, written just now, or long before at a time
\* of its own.
Replace(f) ==
    \E mtime \in {now, Len(outdated) + 1} :
        /\ Change(f)
        /\ inode' = Append(inode, [mtime |-> mtime, holds |-> Len(outdated) + 1])
        /\ path' = [path EXCEPT ![f] = Len(inode) + 1]
        /\ UNCHANGED <<ini, bound, now, target, shared, pc, local, left>>

\* Deleted, while the bound lets it come back.
Delete(f) ==
    /\ path[f] # 0
    /\ Len(outdated) < bound.contents
    /\ path' = [path EXCEPT ![f] = 0]
    /\ outdated' = [outdated EXCEPT ![inode[path[f]].holds] = now]
    /\ UNCHANGED <<ini, bound, now, inode, target, shared, pc, local, left>>

\* The symbolic link is made to lead to a file it never led to before.
Turn(f) ==
    /\ bound.turns /\ f \in bound.files /\ left[f] = 0
    /\ target' = f
    /\ left' = [left EXCEPT ![target] = now, ![f] = Forever]
    /\ UNCHANGED <<ini, bound, now, inode, path, shared, pc, local, outdated>>

-----------------------------------------------------------------------------
(* Helpers.                                                                *)

\* zend_resolve_path, which finds existing files only.
Resolve(n) ==
    LET f == IF n = Link THEN target ELSE n IN IF path[f] = 0 THEN None ELSE f

\* zend_get_file_handle_timestamp of a file that is not open, 0 if missing.
Mtime(f) == IF f = None THEN 0 ELSE IF path[f] = 0 THEN 0
            ELSE inode[path[f]].mtime

\* zend_accel_hash_find, by the real path or by the key.
Lookup(n) == IF n # Link THEN hash[n] ELSE IF key = None THEN 0 ELSE hash[key]

Corrupted(s) == scripts[s].corrupted

\* A script was found, and is not marked as out of date.
Usable(s) == s # 0 /\ ~Corrupted(s)

\* Mutant: the key is added in spite of the directive.
zend_accel_add_key_Always(n, f) ==
    key' = IF n = Link /\ Lookup(n) = 0 THEN f ELSE key

\* zend_accel_add_key, for a name that has no script yet.
zend_accel_add_key(n, f) ==
    key' = IF n = Link /\ ~ini.revalidate_path /\ Lookup(n) = 0 THEN f ELSE key

\* Back in the running script, whatever came of the call.
Return(p) ==
    /\ Goto(p, "run")
    /\ Set(op, p, "include") /\ Set(name, p, Link) /\ Set(opened, p, None)
    /\ Set(handle, p, 0) /\ Set(ptr, p, 0) /\ Set(made, p, Nothing)
    /\ Set(shunned, p, {})

\* A call begins, after whatever was found to be out of date until now.
Begin(p) ==
    /\ At(p, "run")
    /\ Set(shunned, p, {s \in DOMAIN scripts : Corrupted(s)})

-----------------------------------------------------------------------------
(* Requests and the functions that scripts call.                           *)

\* accel_activate keeps the time at which the request began; what was
\* running in the process before does so no more.
accel_activate(p) ==
    /\ At(p, "run")
    /\ Set(request_time, p, now)
    /\ UNCHANGED <<ini, disk, shared, pc, file_handle, ptr, held, history>>

\* Looked for by key or full name: include, require and opcache_compile_file,
\* and the functions is_file, file_exists, is_readable and
\* opcache_is_script_cached, which only go on when there is a script.
FindByKey(p, o, n) ==
    LET s == Lookup(n) IN
    /\ <<o, n>> \in bound.calls
    /\ s # 0 \/ o = "include"
    /\ Set(op, p, o) /\ Set(name, p, n) /\ Set(ptr, p, s)
    /\ Goto(p, IF s = 0 THEN "open" ELSE "check")
    /\ Begin(p)
    /\ UNCHANGED <<ini, disk, shared, request_time, opened, handle, made, history>>

\* zend_accel_invalidate, up to its check of the time stamp.
zend_accel_invalidate(p, n, force) ==
    LET f == Resolve(n) IN
    /\ Begin(p)
    /\ <<"invalidate", n>> \in bound.calls
    /\ f # None
    /\ Usable(hash[f])
    /\ Set(op, p, "invalidate") /\ Set(name, p, f) /\ Set(opened, p, f)
    /\ Set(ptr, p, hash[f])
    /\ Goto(p, IF force \/ ~ini.validate_timestamps THEN "invalid" ELSE "stat")
    /\ UNCHANGED <<ini, disk, shared, request_time, handle, made, history>>

\* persistent_zend_resolve_path for include_once: by the full name, by the
\* key, or by the real path; then persistent_stream_open_function opens
\* nothing.  A file that is not cached is opened by the engine.
persistent_zend_resolve_path(p, n) ==
    LET s == IF n \in File \/ ~ini.revalidate_path THEN Lookup(n) ELSE 0
        f == Resolve(n)
    IN
    /\ Begin(p)
    /\ <<"include_once", n>> \in bound.calls
    /\ Set(op, p, "include")
    /\ \/ /\ Usable(s)
          /\ Set(name, p, n) /\ Set(opened, p, scripts[s].file)
          /\ Set(ptr, p, s) /\ Goto(p, "check")
          /\ UNCHANGED key
       \/ /\ ~Usable(s) /\ f # None /\ Usable(hash[f])
          /\ zend_accel_add_key(n, f)
          /\ Set(name, p, n) /\ Set(opened, p, f)
          /\ Set(ptr, p, hash[f]) /\ Goto(p, "check")
       \/ /\ ~Usable(s) /\ f # None /\ ~Usable(hash[f])
          /\ Set(name, p, f) /\ Goto(p, "open")
          /\ UNCHANGED <<key, opened, ptr>>
    /\ UNCHANGED <<ini, disk, scripts, hash, memory_exhausted, wasted,
                   request_time, handle, made, history>>

-----------------------------------------------------------------------------
(* persistent_compile_file and filename_is_in_cache.                       *)

\* The file is opened, which fails if it is gone.
OpenFile(p) ==
    LET f == Resolve(name[p]) IN
    /\ At(p, "open")
    /\ \/ /\ f # None
          /\ Set(opened, p, f) /\ Set(handle, p, path[f])
          /\ Goto(p, "entry")
          /\ UNCHANGED <<op, name, ptr, held>>
       \/ f = None /\ Return(p)
    /\ UNCHANGED <<ini, disk, shared, request_time, history>>

\* It is looked for by real path, and gets the name for another key.
FindByPath(p) ==
    LET s == hash[opened[p]] IN
    /\ At(p, "entry") /\ Goto(p, "check")
    /\ Set(ptr, p, s)
    /\ IF Usable(s)
       THEN zend_accel_add_key(name[p], opened[p])
       ELSE UNCHANGED key
    /\ UNCHANGED <<ini, disk, scripts, hash, memory_exhausted, wasted,
                   request_time, file_handle, held, history>>

\* Good enough: executed, or the answer that the file is there.
Accept(p) == Goto(p, IF op[p] = "is_file" THEN "yes" ELSE "load")

\* do_validate_timestamps: is this the script of the file that was opened,
\* or would be?
SameFile(p) ==
    LET f == scripts[ptr[p]].file IN
    IF opened[p] # None THEN opened[p] = f ELSE Resolve(name[p]) \in {None, f}

\* Mutant: the time of the next check is taken for that of the last one.
Fresh_Twice(p, s) ==
    \/ ~ini.validate_timestamps
    \/ /\ ini.revalidate_freq # 0
       /\ scripts[s].revalidate + ini.revalidate_freq >= request_time[p]

\* Need not be validated, or was not long ago.
Fresh(p, s) ==
    \/ ~ini.validate_timestamps
    \/ /\ ini.revalidate_freq # 0
       /\ scripts[s].revalidate >= request_time[p]

\* The first half of validate_timestamp_and_record.  The path that the name
\* of a handle not opened yet resolves to is the handle's for the time of
\* the check ("resolved").
Check(p) ==
    LET s == ptr[p] IN
    /\ At(p, "check")
    /\ \/ /\ Usable(s) /\ Fresh(p, s)
          /\ Accept(p)
          /\ UNCHANGED <<file_handle, ptr, held>>
       \/ /\ Usable(s) /\ ~Fresh(p, s) /\ SameFile(p)
          /\ Goto(p, IF opened[p] = None /\ Resolve(name[p]) # None
                     THEN "resolved" ELSE "stat")
          /\ UNCHANGED <<file_handle, ptr, held>>
       \/ /\ Usable(s) /\ ~Fresh(p, s) /\ ~SameFile(p) /\ op[p] # "is_file"
          /\ Goto(p, "invalid")
          /\ UNCHANGED <<file_handle, ptr, held>>
       \/ /\ ~Usable(s) /\ op[p] # "is_file"
          /\ Goto(p, "miss") /\ Set(ptr, p, 0)
          /\ UNCHANGED <<file_handle, held>>
       \/ /\ op[p] = "is_file"
          /\ ~Usable(s) \/ (~Fresh(p, s) /\ ~SameFile(p))
          /\ Return(p)
    /\ UNCHANGED <<ini, disk, shared, request_time, history>>

\* do_validate_timestamps: the file of the handle has the script's time
\* stamp, or the file at the script's path has it.  What the name leads to
\* by now is asked when it led nowhere before, or to a file that is gone.
Unchanged(p) ==
    LET s == scripts[ptr[p]]
        f == IF opened[p] # None THEN opened[p]
             ELSE IF At(p, "resolved") /\ path[s.file] # 0 THEN s.file
             ELSE Resolve(name[p])
        mtime == IF handle[p] # 0 THEN inode[handle[p]].mtime ELSE Mtime(f)
    IN  s.timestamp # 0 /\ s.timestamp \in {mtime, Mtime(s.file)}

\* The second half; opcache_invalidate records nothing.
Stat(p) ==
    /\ pc[p] \in {"stat", "resolved"}
    /\ \/ /\ Unchanged(p) /\ op[p] # "invalidate"
          /\ scripts' = [scripts EXCEPT ![ptr[p]].revalidate =
                            request_time[p] + ini.revalidate_freq]
          /\ Accept(p)
          /\ UNCHANGED <<file_handle, ptr, held>>
       \/ /\ ~Unchanged(p) /\ op[p] # "is_file"
          /\ Goto(p, "invalid")
          /\ UNCHANGED <<scripts, file_handle, ptr, held>>
       \/ /\ Unchanged(p) = (op[p] = "invalidate")
          /\ op[p] \in {"invalidate", "is_file"}
          /\ Return(p)
          /\ UNCHANGED scripts
    /\ UNCHANGED <<ini, disk, hash, key, memory_exhausted, wasted,
                   request_time, history>>

\* Mutant: not looked at again under the lock.
Invalidate_Blindly(p) ==
    /\ At(p, "invalid")
    /\ scripts' = [scripts EXCEPT ![ptr[p]].corrupted = TRUE,
                                  ![ptr[p]].timestamp = 0]
    /\ wasted' = wasted + 1
    /\ IF op[p] = "invalidate" THEN Return(p)
       ELSE Goto(p, "miss") /\ Set(ptr, p, 0) /\ UNCHANGED <<file_handle, held>>
    /\ UNCHANGED <<ini, disk, hash, key, memory_exhausted, request_time, history>>

\* The script is marked corrupted, unless another process came first, and
\* its memory is wasted from now on.
Invalidate(p) ==
    /\ At(p, "invalid")
    /\ IF Corrupted(ptr[p]) THEN UNCHANGED <<scripts, wasted>>
       ELSE /\ scripts' = [scripts EXCEPT ![ptr[p]] =
                 [@ EXCEPT !.corrupted = TRUE, !.timestamp = 0]]
            /\ wasted' = wasted + 1
    /\ IF op[p] = "invalidate" THEN Return(p)
       ELSE Goto(p, "miss") /\ Set(ptr, p, 0) /\ UNCHANGED <<file_handle, held>>
    /\ UNCHANGED <<ini, disk, hash, key, memory_exhausted, request_time, history>>

-----------------------------------------------------------------------------
(* compile_and_cache_file and cache_script_in_shared_memory.               *)

\* Mutant: the time is compared with that of the next request.
TooNew_Later(p, mtime) ==
    /\ ini.file_update_protection # 0
    /\ request_time[p] + ini.file_update_protection < mtime

\* The file may not be written completely yet.
TooNew(p, mtime) ==
    /\ ini.file_update_protection # 0
    /\ request_time[p] - ini.file_update_protection < mtime

\* The script is compiled and not stored when memory is exhausted, or
\* compile_and_cache_file opens it unless it is open.  The time stamp is
\* taken before the file is compiled, and kept if time stamps are validated.
Miss(p) ==
    LET f == Resolve(IF opened[p] = None THEN name[p] ELSE opened[p])
        i == IF handle[p] # 0 THEN handle[p] ELSE IF f # None THEN path[f] ELSE 0
    IN
    /\ At(p, "miss")
    /\ \/ memory_exhausted /\ Return(p)
       \/ ~memory_exhausted /\ i = 0 /\ Return(p)
       \/ ~memory_exhausted /\ i # 0 /\ TooNew(p, inode[i].mtime) /\ Return(p)
       \/ /\ ~memory_exhausted /\ i # 0 /\ ~TooNew(p, inode[i].mtime)
          /\ Set(opened, p, IF handle[p] # 0 THEN opened[p] ELSE f)
          /\ Set(handle, p, i)
          /\ made' = [made EXCEPT ![p].timestamp =
                         IF ini.validate_timestamps THEN inode[i].mtime ELSE 0]
          /\ Goto(p, "compile")
          /\ UNCHANGED <<op, name, ptr, shunned>>
    /\ UNCHANGED <<ini, disk, shared, request_time, history>>

\* The compiler reads the open file, and may find an error in it.
Compile(p) ==
    /\ At(p, "compile")
    /\ \/ /\ made' = [made EXCEPT ![p].holds = inode[handle[p]].holds]
          /\ Set(handle, p, 0) /\ Goto(p, "store")
          /\ UNCHANGED <<op, name, opened, ptr, shunned>>
       \/ Return(p)
    /\ UNCHANGED <<ini, disk, shared, request_time, history>>

\* Mutant: stored whatever another process has stored meanwhile.
Stored_Meanwhile_Ignored(f) == FALSE

\* "May be it was already stored by another process."
Stored(f) == Usable(hash[f])

\* The rest of the section under the lock: the key at most, or the script
\* and the key, or nothing for lack of memory.
cache_script_in_shared_memory(p) ==
    LET f == opened[p]
        new == [file |-> f, holds |-> made[p].holds,
                timestamp |-> made[p].timestamp,
                revalidate |-> IF ini.validate_timestamps
                               THEN request_time[p] + ini.revalidate_freq
                               ELSE 0,
                corrupted |-> FALSE]
    IN
    /\ At(p, "store")
    /\ \/ /\ Stored(f)
          /\ IF ini.validate_timestamps =>
                    made[p].timestamp = scripts[hash[f]].timestamp
             THEN zend_accel_add_key(name[p], f) ELSE UNCHANGED key
          /\ Return(p)
          /\ UNCHANGED <<scripts, hash, memory_exhausted>>
       \/ /\ ~Stored(f) /\ Len(scripts) = Memory
          /\ memory_exhausted' = TRUE
          /\ Return(p)
          /\ UNCHANGED <<scripts, hash, key>>
       \/ /\ ~Stored(f) /\ Len(scripts) < Memory
          /\ scripts' = Append(scripts, new)
          /\ hash' = [hash EXCEPT ![f] = Len(scripts) + 1]
          /\ key' = IF name[p] = Link /\ ~ini.revalidate_path THEN f ELSE key
          /\ Set(ptr, p, Len(scripts) + 1)
          /\ Goto(p, "load")
          /\ UNCHANGED <<file_handle, held, memory_exhausted>>
    /\ UNCHANGED <<ini, disk, wasted, request_time, history>>

\* The script is executed, or the function says that the file is there.
Use(p) ==
    /\ pc[p] \in {"load", "yes"}
    /\ Return(p)
    /\ UNCHANGED <<ini, disk, shared, request_time, history>>

-----------------------------------------------------------------------------
Files ==
    \/ Tick
    \/ \E f \in File : Write(f) \/ Replace(f) \/ Delete(f) \/ Turn(f)

Process(p) ==
    \/ accel_activate(p)
    \/ \E n \in File \cup {Link} :
         \/ FindByKey(p, "include", n) \/ FindByKey(p, "is_file", n)
         \/ persistent_zend_resolve_path(p, n)
         \/ zend_accel_invalidate(p, n, FALSE)
         \/ zend_accel_invalidate(p, n, TRUE)
    \/ OpenFile(p) \/ FindByPath(p) \/ Check(p) \/ Stat(p) \/ Invalidate(p)
    \/ Miss(p) \/ Compile(p)
    \/ cache_script_in_shared_memory(p) \/ Use(p)

Next == Files \/ \E p \in Proc : Process(p)

Spec == Init /\ [][Next]_vars

-----------------------------------------------------------------------------
(* Properties.                                                             *)

\* What time stamps are for: when the time stamp of a stored script is that
\* of its file, the script is made from what the file holds now.  That needs
\* the time stamp to be taken before the file is read, and files that are
\* not older than file_update_protection to be left alone.
TimestampTells ==
    \A s \in DOMAIN scripts :
        LET x == scripts[s] IN
        ~x.corrupted /\ x.timestamp # 0 /\ x.timestamp = Mtime(x.file)
            => x.holds = inode[path[x.file]].holds

\* A request that executes a cached script, or is told that the file is
\* there, gets what the file held at most revalidate_freq seconds before the
\* request began, whoever validated the script.  Not so for a file that Link
\* was turned away from: when it is gone, Link may by now lead to another
\* one with the same time stamp.
BoundedStaleness ==
    \A p \in Proc :
        LET x == scripts[ptr[p]] IN
        /\ pc[p] \in {"load", "yes"} /\ ini.validate_timestamps
        /\ left[x.file] \in {0, Forever}
        => outdated[x.holds] >= request_time[p] - ini.revalidate_freq

\* Memory is in use by the script that is found under its path, or it is
\* counted as wasted: otherwise no restart would ever reclaim it.
NoScriptIsLost ==
    \A s \in DOMAIN scripts :
        ~Corrupted(s) => hash[scripts[s].file] = s

\* A script's memory is counted as wasted once, although several processes
\* may find it out of date at the same time.
WastedOnce == wasted = Cardinality({s \in DOMAIN scripts : Corrupted(s)})

\* Whatever was invalid before a request began is not executed by it.
InvalidIsNotUsed ==
    \A p \in Proc : pc[p] \in {"load", "yes"} => ptr[p] \notin shunned[p]

\* With revalidate_path, an include of a link executes the file that the
\* link leads to, or led to while the include was under way.
LinkFollowed ==
    \A p \in Proc :
        /\ ini.revalidate_path /\ pc[p] = "load" /\ name[p] = Link
        => left[scripts[ptr[p]].file] >= request_time[p]

\* do_validate_timestamps: "check that the persistant script is indeed the
\* same file we cached (if part of the path is a symlink than it possible
\* that the user will change it)".  What it promises for an include, within
\* the time that a file may be out of date.
LinkChangeNoticed ==
    \A p \in Proc :
        pc[p] = "load" /\ name[p] = Link /\ ini.validate_timestamps
        => left[scripts[ptr[p]].file] >= request_time[p] - ini.revalidate_freq

\* The README on revalidate_freq, "How often (in seconds) to check file
\* timestamps": with 1 second, what was outdated a second ago is not used.
CheckedOften ==
    \A p \in Proc : pc[p] = "load" /\ ini.validate_timestamps =>
        outdated[scripts[ptr[p]].holds] > request_time[p] - ini.revalidate_freq
=============================================================================
