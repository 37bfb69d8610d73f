---------------------------- MODULE AccelRestart ----------------------------
(***************************************************************************)
(* Restart of the shared opcode cache, and everything that must keep out   *)
(* of its way: ZendAccelerator.c, zend_shared_alloc.c and the user         *)
(* functions of zend_accelerator_module.c, as built for Unix without ZTS.  *)
(*                                                                         *)
(* The processes of the server map one shared segment.  They coordinate    *)
(* only by flags in that segment, read and written with no lock, and by    *)
(* three bytes of a lock file locked with fcntl():                         *)
(*   byte 0  shm_lock      exclusive, blocking (zend_shared_alloc_lock)    *)
(*   byte 1  mem_usage     shared, "I use the segment" (accel_activate_add)*)
(*   byte 2  restart_lock  exclusive, "a restart runs"                     *)
(* Such locks belong to a process, vanish when it dies, and F_GETLK never  *)
(* reports the caller's own.  One action is one access to a shared flag or *)
(* lock with the process-local code around it.                             *)
(***************************************************************************)
EXTENDS FiniteSets, Naturals

CONSTANTS
    Proc,          \* the server processes
    NoProc,        \* "nobody", for locks and victims
    Workload,      \* which functions the running scripts use
    ForceRestart,  \* opcache.force_restart_timeout is not 0
    Killable,      \* processes that kill(pid, SIGKILL) can reach
    MaxCrashes     \* bound: crashes not caused by kill_all_lockers

Functions == {"compile", "resolve", "reset", "read", "disable", "bailout"}

ASSUME ProcAssumption == NoProc \notin Proc
ASSUME ParameterAssumption ==
    /\ Workload \subseteq Functions
    /\ ForceRestart \in BOOLEAN
    /\ Killable \subseteq Proc
    /\ MaxCrashes \in Nat

VARIABLES
    ZCSG,          \* the flags in the segment (with memory_exhausted of ZSMMG)
    shm_lock, mem_usage, restart_lock,
    pc, counted, locked, enabled,  \* ZCG(counted), ZCG(locked), ZCG(enabled)
    job,       \* what the process takes the exclusive lock for
    ptr,       \* the persistent script the running function looks at
    cached,    \* ZCG(cache_persistent_script)
    loaded,    \* code in the segment that the request executes
    victim,    \* mem_usage_check.l_pid in kill_all_lockers
    late,      \* history: processes that came in behind a restart's probe
    crashes    \* number of crashes so far

locks == <<shm_lock, mem_usage, restart_lock>>
request == <<counted, locked, enabled>>
pointers == <<ptr, cached, loaded>>
rest == <<locks, request, job, pointers, victim, late, crashes>>
vars == <<ZCSG, pc, rest>>

-----------------------------------------------------------------------------
Jobs == {"none", "key_resolve", "key_compile", "corrupt_compile",
         "corrupt_read", "store"}

\* A pointer into the segment is live, or stale once the segment was wiped.
Pointer == {"none", "live", "stale"}

\* accel_activate past its probe of byte 1, up to the wipe of the hash table.
WindowPC == {"restart_clear", "restart_lock", "restart_flag", "restart_vars",
             "restart_hash"}
RestartPC == WindowPC \cup {"restart_alloc", "restart_enable",
                            "restart_unflag", "restart_unlock"}
KillPC == {"kill_start", "kill", "kill_check"}
ActivatePC == {"act_pending", "act_lock", "act_check", "act_probe",
               "act_unlock"} \cup KillPC \cup RestartPC
SchedulePC == {"sch_check", "sch_pending", "sch_status", "sch_disable",
               "sch_force"}
ReadPC == {"read_check", "reading", "deref", "read_unlock"}
RequestPC == {"run", "bailed", "guard", "getlk", "unflag", "add", "find",
              "hit", "miss", "compile", "resolve", "lock", "work", "unlock",
              "read_lock"} \cup ReadPC \cup SchedulePC
PCs == {"idle"} \cup ActivatePC \cup RequestPC

SharedGlobals ==
    [restart_pending : BOOLEAN, restart_in_progress : BOOLEAN,
     accelerator_enabled : BOOLEAN, cache_status_before_restart : BOOLEAN,
     force_restart_time : {"none", "future", "past"},
     memory_exhausted : BOOLEAN,
     populated : BOOLEAN]                      \* hash.num_entries # 0

\* The locks on byte 1 that F_GETLK reports to process p.
Others(p) == mem_usage \ {p}

Window == \E r \in Proc : pc[r] \in WindowPC

TypeOK ==
    /\ ZCSG \in SharedGlobals
    /\ shm_lock \in Proc \cup {NoProc}
    /\ mem_usage \subseteq Proc
    /\ restart_lock \in Proc \cup {NoProc}
    /\ pc \in [Proc -> PCs]
    /\ counted \in [Proc -> BOOLEAN]
    /\ locked \in [Proc -> BOOLEAN]
    /\ enabled \in [Proc -> BOOLEAN]
    /\ job \in [Proc -> Jobs]
    /\ ptr \in [Proc -> Pointer]
    /\ cached \in [Proc -> Pointer]
    /\ loaded \in [Proc -> Pointer]
    /\ victim \in [Proc -> Proc \cup {NoProc}]
    /\ \A p \in Proc : victim[p] # p            \* F_GETLK skips one's own lock
    /\ late \subseteq Proc
    /\ crashes \in 0..MaxCrashes

\* zend_accel_init_shm leaves the shared globals like this; the segment is
\* zero-filled, hence cache_status_before_restart.
Init ==
    /\ ZCSG = [restart_pending |-> FALSE, restart_in_progress |-> FALSE,
               accelerator_enabled |-> TRUE,
               cache_status_before_restart |-> FALSE,
               force_restart_time |-> "none", memory_exhausted |-> FALSE,
               populated |-> FALSE]
    /\ shm_lock = NoProc
    /\ mem_usage = {}
    /\ restart_lock = NoProc
    /\ pc = [p \in Proc |-> "idle"]
    /\ counted = [p \in Proc |-> FALSE]
    /\ locked = [p \in Proc |-> FALSE]
    /\ enabled = [p \in Proc |-> TRUE]
    /\ job = [p \in Proc |-> "none"]
    /\ ptr = [p \in Proc |-> "none"]
    /\ cached = [p \in Proc |-> "none"]
    /\ loaded = [p \in Proc |-> "none"]
    /\ victim = [p \in Proc |-> NoProc]
    /\ late = {}
    /\ crashes = 0

-----------------------------------------------------------------------------
(* Building blocks.                                                        *)

At(p, a) == pc[p] = a
Goto(p, b) == pc' = [pc EXCEPT ![p] = b]
Step(p, a, b) == At(p, a) /\ Goto(p, b)

\* zend_shared_alloc_lock: F_SETLKW on byte 0 blocks while another holds it.
zend_shared_alloc_lock(p) ==
    /\ shm_lock \in {NoProc, p}
    /\ shm_lock' = p
    /\ locked' = [locked EXCEPT ![p] = TRUE]
    /\ UNCHANGED <<mem_usage, restart_lock, counted, enabled>>

zend_shared_alloc_unlock(p) ==
    /\ shm_lock' = IF shm_lock = p THEN NoProc ELSE shm_lock
    /\ locked' = [locked EXCEPT ![p] = FALSE]
    /\ UNCHANGED <<mem_usage, restart_lock, counted, enabled>>

\* A shared lock on byte 1 never conflicts: nobody locks that byte for
\* writing, the restart only asks whether it could (accel_is_inactive).
accel_activate_add(p) ==
    /\ mem_usage' = mem_usage \cup {p}
    /\ late' = IF Window /\ p \notin mem_usage THEN late \cup {p} ELSE late
    /\ UNCHANGED <<shm_lock, restart_lock>>

accel_deactivate_sub(p) ==
    /\ mem_usage' = mem_usage \ {p}
    /\ late' = IF cached[p] = "none" THEN late \ {p} ELSE late \cup {p}
    /\ UNCHANGED <<shm_lock, restart_lock>>

\* F_UNLCK on the whole file; also what the kernel does at process exit.
accel_unlock_all(p) ==
    /\ shm_lock' = IF shm_lock = p THEN NoProc ELSE shm_lock
    /\ mem_usage' = mem_usage \ {p}
    /\ restart_lock' = IF restart_lock = p THEN NoProc ELSE restart_lock

\* Process q is gone and the server has started a fresh one in its place.
Respawn(q) ==
    /\ accel_unlock_all(q)
    /\ counted' = [counted EXCEPT ![q] = FALSE]
    /\ locked' = [locked EXCEPT ![q] = FALSE]
    /\ enabled' = [enabled EXCEPT ![q] = TRUE]
    /\ job' = [job EXCEPT ![q] = "none"]
    /\ ptr' = [ptr EXCEPT ![q] = "none"]
    /\ cached' = [cached EXCEPT ![q] = "none"]
    /\ loaded' = [loaded EXCEPT ![q] = "none"]
    /\ late' = late \ {q}

\* Everything the request still executes, after it also took pointer x.
Join(x, y) == IF "stale" \in {x, y} THEN "stale"
              ELSE IF "live" \in {x, y} THEN "live" ELSE "none"

Wiped(f) == [q \in Proc |-> IF f[q] = "live" THEN "stale" ELSE f[q]]

-----------------------------------------------------------------------------
(* accel_activate: a request begins.                                       *)

Activate(p) ==
    /\ Step(p, "idle", "act_pending")
    /\ cached' = [cached EXCEPT ![p] = "none"]
    /\ IF counted[p]                                   \* "Stuck count"
       THEN accel_unlock_all(p) /\ counted' = [counted EXCEPT ![p] = FALSE]
       ELSE UNCHANGED <<locks, counted>>
    /\ late' = IF p \in mem_usage' THEN late ELSE late \ {p}
    /\ UNCHANGED <<ZCSG, locked, enabled, job, ptr, loaded, victim, crashes>>

ActivatePending(p) ==
    /\ Step(p, "act_pending",
            IF ZCSG.restart_pending THEN "act_lock" ELSE "run")
    /\ UNCHANGED <<ZCSG, rest>>

ActivateLock(p) ==
    /\ Step(p, "act_lock", "act_check")
    /\ zend_shared_alloc_lock(p)
    /\ UNCHANGED <<ZCSG, job, pointers, victim, late, crashes>>

ActivateCheck(p) ==
    /\ Step(p, "act_check",
            IF ZCSG.restart_pending THEN "act_probe" ELSE "act_unlock")
    /\ UNCHANGED <<ZCSG, rest>>

\* accel_is_inactive: F_GETLK on byte 1, and the decision to use force.
accel_is_inactive(p) ==
    /\ At(p, "act_probe")
    /\ \/ /\ Others(p) = {}
          /\ Goto(p, "restart_clear")
          /\ UNCHANGED victim
       \/ \E q \in Others(p) :
            IF ForceRestart /\ ZCSG.force_restart_time = "past"
            THEN Goto(p, "kill_start") /\ victim' = [victim EXCEPT ![p] = q]
            ELSE Goto(p, "act_unlock") /\ UNCHANGED victim
    /\ UNCHANGED <<ZCSG, locks, request, job, pointers, late, crashes>>

ActivateUnlock(p) ==
    /\ Step(p, "act_unlock", "run")
    /\ zend_shared_alloc_unlock(p)
    /\ UNCHANGED <<ZCSG, job, pointers, victim, late, crashes>>

-----------------------------------------------------------------------------
(* kill_all_lockers: called with byte 0 held.                              *)

KillStart(p) ==
    /\ Step(p, "kill_start", "kill")
    /\ ZCSG' = [ZCSG EXCEPT !.force_restart_time = "none"]
    /\ UNCHANGED rest

\* The ten tries are counted over all victims, and are not modelled: any
\* attempt may be the one that finds none left and requests the forced
\* restart again.
TriesRunOut ==
    \E t \in {ZCSG.force_restart_time, "past"} :
        ZCSG' = [ZCSG EXCEPT !.force_restart_time = t]

\* The pid was reported earlier: it dies even if it has unlocked since.
Kill(p) ==
    LET q == victim[p] IN
    /\ At(p, "kill")
    /\ q \in Killable \ {p}
    /\ TriesRunOut
    /\ pc' = [pc EXCEPT ![p] = "kill_check", ![q] = "idle"]
    /\ Respawn(q)
    /\ victim' = [victim EXCEPT ![q] = NoProc]
    /\ UNCHANGED crashes

\* Mutant: the restart goes on although a locker could not be killed.
KillFails_Proceeds(p) ==
    /\ Step(p, "kill", "restart_clear")
    /\ victim[p] \notin Killable
    /\ UNCHANGED <<ZCSG, rest>>

\* kill() fails, and the loop looks for a locker once more.
KillFails(p) ==
    /\ Step(p, "kill", "kill_check")
    /\ victim[p] \notin Killable
    /\ TriesRunOut
    /\ UNCHANGED rest

\* Mutant: the lock is not queried again.
KillCheck_SameVictim(p) ==
    /\ Step(p, "kill_check", "kill")
    /\ UNCHANGED <<ZCSG, rest>>

KillCheck(p) ==
    /\ At(p, "kill_check")
    /\ \/ /\ Others(p) = {}
          /\ Goto(p, "act_unlock")
          /\ victim' = [victim EXCEPT ![p] = NoProc]
       \/ \E q \in Others(p) :
            Goto(p, "kill") /\ victim' = [victim EXCEPT ![p] = q]
    /\ UNCHANGED <<ZCSG, locks, request, job, pointers, late, crashes>>

-----------------------------------------------------------------------------
(* The restart proper, in accel_activate, with byte 0 held.                *)

RestartClear(p) ==
    /\ Step(p, "restart_clear", "restart_lock")
    /\ ZCSG' = [ZCSG EXCEPT !.restart_pending = FALSE]
    /\ UNCHANGED rest

\* accel_restart_enter: F_SETLK does not wait, and a failure is only logged.
RestartLock(p) ==
    /\ Step(p, "restart_lock", "restart_flag")
    /\ restart_lock' = IF restart_lock = NoProc THEN p ELSE restart_lock
    /\ UNCHANGED <<ZCSG, shm_lock, mem_usage, request, job, pointers, victim,
                   late, crashes>>

RestartFlag(p) ==
    /\ Step(p, "restart_flag", "restart_vars")
    /\ ZCSG' = [ZCSG EXCEPT !.restart_in_progress = TRUE]
    /\ UNCHANGED rest

zend_reset_cache_vars(p) ==
    /\ Step(p, "restart_vars", "restart_hash")
    /\ ZCSG' = [ZCSG EXCEPT !.memory_exhausted = FALSE,
                        !.restart_pending = FALSE,
                        !.force_restart_time = "none"]
    /\ UNCHANGED rest

\* zend_accel_hash_clean: from here on the segment is reused from its start.
RestartHash(p) ==
    /\ Step(p, "restart_hash", "restart_alloc")
    /\ ZCSG' = [ZCSG EXCEPT !.populated = FALSE]
    /\ ptr' = Wiped(ptr)
    /\ cached' = Wiped(cached)
    /\ loaded' = Wiped(loaded)
    /\ UNCHANGED <<locks, request, job, victim, late, crashes>>

\* include_paths, interned strings and zend_shared_alloc_restore_state.
RestartAlloc(p) ==
    /\ Step(p, "restart_alloc", "restart_enable")
    /\ ZCSG' = [ZCSG EXCEPT !.memory_exhausted = FALSE]
    /\ UNCHANGED rest

RestartEnable(p) ==
    /\ Step(p, "restart_enable", "restart_unflag")
    /\ ZCSG' = [ZCSG EXCEPT !.accelerator_enabled =
                                      ZCSG.cache_status_before_restart]
    /\ UNCHANGED rest

\* Mutant: the flag is left up.
RestartUnflag_Forgotten(p) ==
    /\ Step(p, "restart_unflag", "restart_unlock")
    /\ UNCHANGED <<ZCSG, rest>>

\* accel_restart_leave clears the flag first, then the lock.
RestartUnflag(p) ==
    /\ Step(p, "restart_unflag", "restart_unlock")
    /\ ZCSG' = [ZCSG EXCEPT !.restart_in_progress = FALSE]
    /\ UNCHANGED rest

RestartUnlock(p) ==
    /\ Step(p, "restart_unlock", "act_unlock")
    /\ restart_lock' = IF restart_lock = p THEN NoProc ELSE restart_lock
    /\ UNCHANGED <<ZCSG, shm_lock, mem_usage, request, job, pointers, victim,
                   late, crashes>>

-----------------------------------------------------------------------------
(* zend_accel_schedule_restart, called with byte 0 held or, from           *)
(* opcache_reset, with no lock at all.                                     *)

opcache_reset(p) ==
    /\ "reset" \in Workload
    /\ enabled[p] /\ ZCSG.accelerator_enabled
    /\ Step(p, "run", "sch_check")
    /\ UNCHANGED <<ZCSG, rest>>

ScheduleReturn(p) == IF locked[p] THEN "unlock" ELSE "run"

\* Mutant: schedules again what is scheduled already.
ScheduleCheck_Twice(p) ==
    /\ Step(p, "sch_check", "sch_pending")
    /\ UNCHANGED <<ZCSG, rest>>

ScheduleCheck(p) ==
    /\ Step(p, "sch_check",
            IF ZCSG.restart_pending THEN ScheduleReturn(p) ELSE "sch_pending")
    /\ UNCHANGED <<ZCSG, rest>>

SchedulePending(p) ==
    /\ Step(p, "sch_pending", "sch_status")
    /\ ZCSG' = [ZCSG EXCEPT !.restart_pending = TRUE]
    /\ UNCHANGED rest

ScheduleStatus(p) ==
    /\ Step(p, "sch_status", "sch_disable")
    /\ ZCSG' = [ZCSG EXCEPT !.cache_status_before_restart =
                                      ZCSG.accelerator_enabled]
    /\ UNCHANGED rest

ScheduleDisable(p) ==
    /\ Step(p, "sch_disable", "sch_force")
    /\ ZCSG' = [ZCSG EXCEPT !.accelerator_enabled = FALSE]
    /\ UNCHANGED rest

ScheduleForce(p) ==
    /\ Step(p, "sch_force", ScheduleReturn(p))
    /\ ZCSG' = [ZCSG EXCEPT !.force_restart_time =
                                      IF ForceRestart THEN "future" ELSE "none"]
    /\ UNCHANGED rest

\* time() passes force_restart_time.
Tick ==
    /\ ZCSG.force_restart_time = "future"
    /\ ZCSG' = [ZCSG EXCEPT !.force_restart_time = "past"]
    /\ UNCHANGED <<locks, pc, request, job, pointers, victim, late, crashes>>

-----------------------------------------------------------------------------
(* persistent_compile_file.                                                *)

\* Mutant: does not look at accelerator_enabled.
persistent_compile_file_Always(p) ==
    /\ "compile" \in Workload
    /\ enabled[p]
    /\ Step(p, "run", "guard")
    /\ UNCHANGED <<ZCSG, rest>>

persistent_compile_file(p) ==
    /\ "compile" \in Workload
    /\ enabled[p] /\ (counted[p] \/ ZCSG.accelerator_enabled)
    /\ Step(p, "run", "guard")
    /\ UNCHANGED <<ZCSG, rest>>

CompileGuard(p) ==
    /\ Step(p, "guard", IF ZCSG.restart_in_progress THEN "getlk" ELSE "add")
    /\ UNCHANGED <<ZCSG, rest>>

\* accel_restart_is_active: if no other process locks byte 2, the one that
\* set the flag has died and the flag is to be cleared.
accel_restart_is_active(p) ==
    /\ Step(p, "getlk",
            IF restart_lock \in {NoProc, p} THEN "unflag" ELSE "run")
    /\ UNCHANGED <<ZCSG, rest>>

ClearDeadFlag(p) ==
    /\ Step(p, "unflag", "add")
    /\ ZCSG' = [ZCSG EXCEPT !.restart_in_progress = FALSE]
    /\ UNCHANGED rest

CompileAdd(p) ==
    /\ Step(p, "add", "find")
    /\ IF counted[p] THEN UNCHANGED <<locks, counted, late>>
       ELSE counted' = [counted EXCEPT ![p] = TRUE] /\ accel_activate_add(p)
    /\ UNCHANGED <<ZCSG, locked, enabled, job, pointers, victim, crashes>>

\* The script is the one an earlier callback left in cache_persistent_script,
\* or found by key, or by the opened path (then the key is added), or absent.
CompileFind(p) ==
    /\ At(p, "find")
    /\ \/ /\ cached[p] # "none"
          /\ ptr' = [ptr EXCEPT ![p] = cached[p]]
          /\ Goto(p, "hit")
          /\ UNCHANGED job
       \/ /\ ZCSG.populated
          /\ ptr' = [ptr EXCEPT ![p] = "live"]
          /\ Goto(p, "hit")
          /\ UNCHANGED job
       \/ /\ ZCSG.populated
          /\ ptr' = [ptr EXCEPT ![p] = "live"]
          /\ Goto(p, "lock")
          /\ job' = [job EXCEPT ![p] = "key_compile"]
       \/ Goto(p, "miss") /\ UNCHANGED <<ptr, job>>
    /\ cached' = [cached EXCEPT ![p] = "none"]
    /\ UNCHANGED <<ZCSG, locks, request, loaded, victim, late, crashes>>

\* The name is too long to make a key of: compiled without the cache.
CompileNoKey(p) ==
    /\ Step(p, "find", "run")
    /\ UNCHANGED <<ZCSG, rest>>

CompileHit(p) ==
    /\ At(p, "hit")
    /\ \/ /\ Goto(p, "run")                         \* zend_accel_load_script
          /\ loaded' = [loaded EXCEPT ![p] = Join(loaded[p], ptr[p])]
          /\ ptr' = [ptr EXCEPT ![p] = "none"]
          /\ UNCHANGED job
       \/ /\ Goto(p, "lock")           \* timestamp changed or checksum wrong
          /\ job' = [job EXCEPT ![p] = "corrupt_compile"]
          /\ UNCHANGED <<loaded, ptr>>
       \/ /\ Goto(p, "miss")           \* corrupted by now
          /\ ptr' = [ptr EXCEPT ![p] = "none"]
          /\ UNCHANGED <<job, loaded>>
    /\ UNCHANGED <<ZCSG, locks, request, cached, victim, late, crashes>>

CompileMiss(p) ==
    /\ Step(p, "miss",
            IF ZCSG.memory_exhausted \/ ZCSG.restart_pending
            THEN "run" ELSE "compile")
    /\ UNCHANGED <<ZCSG, rest>>

\* compile_and_cache_file: the compiler runs, and the result is stored, or
\* is not to be cached, or there was a fatal error in the script.
compile_and_cache_file(p) ==
    /\ At(p, "compile")
    /\ \/ Goto(p, "lock") /\ job' = [job EXCEPT ![p] = "store"]
       \/ Goto(p, "run") /\ UNCHANGED job
       \/ Goto(p, "bailed") /\ UNCHANGED job
    /\ UNCHANGED <<ZCSG, locks, request, pointers, victim, late, crashes>>

-----------------------------------------------------------------------------
(* Sections under the exclusive lock, entered from several functions.      *)

WorkLock(p) ==
    /\ Step(p, "lock", "work")
    /\ zend_shared_alloc_lock(p)
    /\ UNCHANGED <<ZCSG, job, pointers, victim, late, crashes>>

\* zend_accel_add_key.  The share of wasted memory that decides whether a
\* failure schedules a restart is abstracted to a choice.
zend_accel_add_key(p) ==
    /\ At(p, "work") /\ job[p] \in {"key_resolve", "key_compile"}
    /\ Goto(p, "unlock") \/ Goto(p, "sch_check")
    /\ \E full \in BOOLEAN :
         ZCSG' = [ZCSG EXCEPT !.memory_exhausted = full \/ @]
    /\ UNCHANGED rest

\* The script is marked corrupted and its memory counted as wasted, which
\* may schedule a restart when memory is exhausted already.
MarkCorrupted(p) ==
    /\ job[p] \in {"corrupt_compile", "corrupt_read"}
    /\ \/ Step(p, "work", "unlock")
       \/ ZCSG.memory_exhausted /\ Step(p, "work", "sch_check")
    /\ UNCHANGED <<ZCSG, rest>>

\* cache_script_in_shared_memory: stored (the code then executed is the
\* shared one), or stored but its key did not fit, or already stored by
\* another process, or no room.
cache_script_in_shared_memory(p) ==
    /\ At(p, "work") /\ job[p] = "store"
    /\ \E stored, failed, full \in BOOLEAN :
         /\ full => failed
         /\ Goto(p, "unlock") \/ (failed /\ Goto(p, "sch_check"))
         /\ ZCSG' = [ZCSG EXCEPT !.memory_exhausted = full \/ @,
                                !.populated = stored \/ @]
         /\ loaded' = [loaded EXCEPT
                ![p] = IF stored THEN Join(loaded[p], "live") ELSE loaded[p]]
    /\ UNCHANGED <<locks, request, job, ptr, cached, victim, late, crashes>>

\* Where the function goes on once it has released the exclusive lock.
AfterUnlock == [none |-> "run", key_resolve |-> "run", key_compile |-> "hit",
                corrupt_compile |-> "miss", corrupt_read |-> "read_unlock",
                store |-> "run"]

WorkUnlock(p) ==
    /\ Step(p, "unlock", AfterUnlock[job[p]])
    /\ zend_shared_alloc_unlock(p)
    /\ job' = [job EXCEPT ![p] = "none"]
    /\ ptr' = IF job[p] = "key_compile" THEN ptr ELSE [ptr EXCEPT ![p] = "none"]
    /\ UNCHANGED <<ZCSG, cached, loaded, victim, late, crashes>>

-----------------------------------------------------------------------------
(* persistent_zend_resolve_path: looks in the cache with no lock.          *)

persistent_zend_resolve_path(p) ==
    /\ "resolve" \in Workload
    /\ enabled[p] /\ (counted[p] \/ ZCSG.accelerator_enabled)
    /\ ~ZCSG.restart_in_progress
    /\ Step(p, "run", "resolve")
    /\ UNCHANGED <<ZCSG, rest>>

ResolveFind(p) ==
    /\ At(p, "resolve")
    /\ \/ /\ ZCSG.populated
          /\ cached' = [cached EXCEPT ![p] = "live"]
          /\ late' = IF p \in mem_usage THEN late ELSE late \cup {p}
          /\ \/ Goto(p, "run") /\ UNCHANGED job
             \/ Goto(p, "lock") /\ job' = [job EXCEPT ![p] = "key_resolve"]
       \/ /\ cached' = [cached EXCEPT ![p] = "none"]
          /\ Goto(p, "run")
          /\ UNCHANGED <<late, job>>
    /\ UNCHANGED <<ZCSG, locks, request, ptr, loaded, victim, crashes>>

-----------------------------------------------------------------------------
(* Functions bracketed by accelerator_shm_read_lock and _unlock:           *)
(* opcache_invalidate and opcache_get_status.                              *)

ReadGuard(p) ==
    /\ "read" \in Workload
    /\ enabled[p] /\ ZCSG.accelerator_enabled
    /\ Step(p, "run", "read_lock")
    /\ UNCHANGED <<ZCSG, rest>>

accelerator_shm_read_lock(p) ==
    /\ At(p, "read_lock")
    /\ IF counted[p] THEN Goto(p, "reading") /\ UNCHANGED <<locks, late>>
       ELSE Goto(p, "read_check") /\ accel_activate_add(p)
    /\ UNCHANGED <<ZCSG, request, job, pointers, victim, crashes>>

ReadLockCheck(p) ==
    /\ At(p, "read_check")
    /\ IF ZCSG.restart_in_progress
       THEN Goto(p, "run") /\ accel_deactivate_sub(p)
       ELSE Goto(p, "reading") /\ UNCHANGED <<locks, late>>
    /\ UNCHANGED <<ZCSG, request, job, pointers, victim, crashes>>

\* zend_accel_invalidate returns without unlocking when the path does not
\* resolve; else the script is looked up, as accelerator_get_scripts does.
ReadFind(p) ==
    /\ At(p, "reading")
    /\ \/ Goto(p, "run") /\ UNCHANGED ptr
       \/ /\ ZCSG.populated
          /\ Goto(p, "deref")
          /\ ptr' = [ptr EXCEPT ![p] = "live"]
       \/ Goto(p, "read_unlock") /\ UNCHANGED ptr
    /\ UNCHANGED <<ZCSG, locks, request, job, cached, loaded, victim, late,
                   crashes>>

ReadDeref(p) ==
    /\ At(p, "deref")
    /\ \/ Goto(p, "lock") /\ job' = [job EXCEPT ![p] = "corrupt_read"]
       \/ Goto(p, "read_unlock") /\ UNCHANGED job
    /\ UNCHANGED <<ZCSG, locks, request, pointers, victim, late, crashes>>

accelerator_shm_read_unlock(p) ==
    /\ Step(p, "read_unlock", "run")
    /\ IF counted[p] THEN UNCHANGED <<locks, late>>
       ELSE accel_deactivate_sub(p)
    /\ ptr' = [ptr EXCEPT ![p] = "none"]
    /\ UNCHANGED <<ZCSG, request, job, cached, loaded, victim, crashes>>

-----------------------------------------------------------------------------
(* The end of a request.                                                   *)

\* OnEnable: ini_set("opcache.enable", 0) in a running script.
OnEnable(p) ==
    /\ "disable" \in Workload
    /\ At(p, "run")
    /\ enabled' = [enabled EXCEPT ![p] = FALSE]
    /\ UNCHANGED <<ZCSG, locks, pc, counted, locked, job, pointers, victim,
                   late, crashes>>

\* External: a timeout of the script unwinds it from wherever it is.
Bailout(p) ==
    /\ "bailout" \in Workload
    /\ pc[p] \in RequestPC \ {"bailed"}
    /\ Goto(p, "bailed")
    /\ UNCHANGED <<ZCSG, rest>>

\* External: the engine frees the request and restores the INI entry.
RequestEnds(p) ==
    /\ pc[p] \in {"run", "bailed"}
    /\ Goto(p, "idle")
    /\ enabled' = [enabled EXCEPT ![p] = TRUE]
    /\ job' = [job EXCEPT ![p] = "none"]
    /\ ptr' = [ptr EXCEPT ![p] = "none"]
    /\ loaded' = [loaded EXCEPT ![p] = "none"]
    /\ UNCHANGED <<ZCSG, cached, victim, late, crashes>>

\* Mutants: returns early also when the request is not counted; forgets
\* zend_shared_alloc_safe_unlock.
accel_deactivate_IfCounted(p) ==
    /\ RequestEnds(p)
    /\ IF enabled[p] /\ counted[p]
       THEN /\ accel_unlock_all(p)
            /\ locked' = [locked EXCEPT ![p] = FALSE]
            /\ counted' = [counted EXCEPT ![p] = FALSE]
       ELSE UNCHANGED <<locks, locked, counted>>

accel_deactivate_NoSafeUnlock(p) ==
    /\ RequestEnds(p)
    /\ IF enabled[p]
       THEN accel_unlock_all(p) /\ counted' = [counted EXCEPT ![p] = FALSE]
       ELSE UNCHANGED <<locks, counted>>
    /\ UNCHANGED locked

\* zend_shared_alloc_safe_unlock, accel_unlock_all and ZCG(counted) = 0, but
\* nothing of that while the cache is disabled at run time.
accel_deactivate(p) ==
    /\ RequestEnds(p)
    /\ IF enabled[p]
       THEN /\ accel_unlock_all(p)
            /\ locked' = [locked EXCEPT ![p] = FALSE]
            /\ counted' = [counted EXCEPT ![p] = FALSE]
       ELSE UNCHANGED <<locks, locked, counted>>

\* External: the process dies at any point, and the kernel drops its locks.
Crash(p) ==
    /\ crashes < MaxCrashes
    /\ crashes' = crashes + 1
    /\ Goto(p, "idle")
    /\ Respawn(p)
    /\ victim' = [r \in Proc |->
                     IF p \in {r, victim[r]} THEN NoProc ELSE victim[r]]
    /\ UNCHANGED ZCSG

-----------------------------------------------------------------------------
\* What a process does by itself once it has started.
ActivateStep(p) ==
    \/ ActivatePending(p) \/ ActivateCheck(p) \/ accel_is_inactive(p)
    \/ ActivateUnlock(p)
    \/ KillStart(p) \/ Kill(p) \/ KillFails(p) \/ KillCheck(p)
    \/ RestartClear(p) \/ RestartLock(p) \/ RestartFlag(p)
    \/ zend_reset_cache_vars(p) \/ RestartHash(p) \/ RestartAlloc(p)
    \/ RestartEnable(p) \/ RestartUnflag(p) \/ RestartUnlock(p)

FunctionStep(p) ==
    \/ ScheduleCheck(p) \/ SchedulePending(p) \/ ScheduleStatus(p)
    \/ ScheduleDisable(p) \/ ScheduleForce(p)
    \/ CompileGuard(p) \/ accel_restart_is_active(p) \/ ClearDeadFlag(p)
    \/ CompileAdd(p) \/ CompileFind(p) \/ CompileNoKey(p) \/ CompileHit(p)
    \/ CompileMiss(p) \/ compile_and_cache_file(p)
    \/ zend_accel_add_key(p) \/ MarkCorrupted(p)
    \/ cache_script_in_shared_memory(p) \/ WorkUnlock(p)
    \/ ResolveFind(p)
    \/ accelerator_shm_read_lock(p) \/ ReadLockCheck(p) \/ ReadFind(p)
    \/ ReadDeref(p) \/ accelerator_shm_read_unlock(p)

\* The two places where a process may have to wait for byte 0.
LockStep(p) == ActivateLock(p) \/ WorkLock(p)

\* What the script chooses to call, and what befalls the process.
ScriptStep(p) ==
    \/ opcache_reset(p) \/ persistent_compile_file(p)
    \/ persistent_zend_resolve_path(p) \/ ReadGuard(p) \/ OnEnable(p)
    \/ Bailout(p) \/ Crash(p)

Next ==
    \/ Tick
    \/ \E p \in Proc :
         \/ Activate(p) \/ ActivateStep(p) \/ FunctionStep(p) \/ LockStep(p)
         \/ ScriptStep(p) \/ accel_deactivate(p)

Spec == Init /\ [][Next]_vars

\* Requests keep arriving at every process and every script ends (SF, since
\* a running script may call functions again and again); code that does not
\* wait goes on; the kernel wakes a process blocked in F_SETLKW.
Fairness ==
    /\ WF_vars(Tick)
    /\ \A p \in Proc :
         /\ WF_vars(Activate(p))
         /\ WF_vars(ActivateStep(p))
         /\ WF_vars(FunctionStep(p))
         /\ SF_vars(LockStep(p))
         /\ SF_vars(accel_deactivate(p))

FairSpec == Spec /\ Fairness

-----------------------------------------------------------------------------
(* Safety.                                                                 *)

\* Where a process must own byte 0.
CriticalPC == {"act_check", "act_probe", "act_unlock", "work", "unlock"}
              \cup KillPC \cup RestartPC

\* zend_shared_alloc refuses to work unless ZCG(locked) is set, and the
\* restart takes the allocator back to its start: the flag must mean that
\* this process, and no other, owns byte 0, in every section that changes
\* the cache, whatever unwinds, disables or kills the process.
LockDiscipline ==
    \A p \in Proc :
        /\ locked[p] => shm_lock = p
        /\ pc[p] \in CriticalPC => locked[p]
        /\ pc[p] \in ActivatePC \cup {"idle"} /\ pc[p] \notin CriticalPC
              => shm_lock # p

\* ZCG(counted) makes accelerator_shm_read_lock and persistent_compile_file
\* take no lock: it must imply that byte 1 is still locked.
CountedHoldsReadLock == \A p \in Proc : counted[p] => p \in mem_usage

\* accel_restart_is_active takes a raised flag with byte 2 unlocked for the
\* trace of a dead process: nothing else may leave that combination.
DeadFlagMeansDeath ==
    ZCSG.restart_in_progress /\ restart_lock = NoProc => crashes > 0

\* Between two requests a process keeps no lock, unless the script disabled
\* the cache: a process that waits for a request must not hold up a restart.
IdleHoldsNothing ==
    \A p \in Proc : pc[p] = "idle" =>
        p \notin mem_usage /\ p \notin {shm_lock, restart_lock}

\* The protection that the probe of byte 1 does give: a request that took
\* the read lock before the probe, and its pointers after that, is never
\* left with memory that a restart has wiped.
OnlyLateReadersDisturbed ==
    \A p \in Proc \ late :
        pc[p] # "idle" => "stale" \notin {ptr[p], cached[p], loaded[p]}

\* The cache is off only while a restart is due or under way.
NeverStuckDisabled ==
    ~ZCSG.accelerator_enabled =>
        \/ ZCSG.restart_pending
        \/ \E p \in Proc : pc[p] \in RestartPC \ {"restart_unflag",
                                                  "restart_unlock"}

(* Liveness.                                                               *)

\* A scheduled restart takes place.
PendingRestartHappens == ZCSG.restart_pending ~> ~ZCSG.restart_pending

\* Whoever takes the exclusive lock gives it back.
ExclusiveLockReturned == \A p \in Proc : shm_lock = p ~> shm_lock # p

(* What comments of the code promise, and the code does not do.            *)

\* accelerator_shm_read_lock: "counted means we are holding read lock for
\* SHM, so that nothing bad can happen".
CountedIsSafe ==
    \A p \in Proc : counted[p] => "stale" \notin {ptr[p], loaded[p]}

\* accelerator_shm_read_lock: "Now if we weren't inside restart, restart
\* would not begin until we remove usage lock".
ReadLockIsSafe ==
    \A p \in Proc : pc[p] \in {"reading", "deref", "read_unlock"} =>
        ptr[p] # "stale"

\* accelerator_shm_read_lock: "MUST call accelerator_shm_read_unlock after
\* done lock operations".
ReadLockIsReturned ==
    \A p \in Proc : pc[p] = "run" /\ p \in mem_usage => counted[p]

\* accelerator_shm_read_lock: "if it's not OK (restart in progress) returns
\* FAILURE", for which it only has the flag to go by.
RestartAnnounced ==
    (\E p \in Proc : pc[p] \in {"restart_vars", "restart_hash",
                                "restart_alloc", "restart_enable",
                                "restart_unflag"})
        => ZCSG.restart_in_progress

\* zend_accel_schedule_restart: "don't schedule twice".
ScheduledOnce ==
    Cardinality({p \in Proc : pc[p] \in SchedulePC \ {"sch_check"}}) <= 1

\* kill_all_lockers: "Can't kill %d after 20 tries!".
KillingEnds == \A p \in Proc : pc[p] = "kill" ~> pc[p] \notin KillPC
=============================================================================
