------------------------- MODULE AccelRestartProofs -------------------------
(***************************************************************************)
(* Proofs about AccelRestart, for any number of processes, any workload,   *)
(* any set of killable processes and any number of crashes: who owns the   *)
(* exclusive lock, who owns the read lock, what a raised restart flag      *)
(* means, if restarts are scheduled and carried out in order, that the     *)
(* cache does not stay off, and the protection the read lock gives: who is *)
(* not in the history variable late never meets wiped memory.  Each        *)
(* invariant is strengthened to an inductive one; each step of a proof is  *)
(* one action of the specification.                                        *)
(***************************************************************************)
EXTENDS AccelRestart, TLAPS

-----------------------------------------------------------------------------
(* Types.                                                                  *)

\* Every step keeps the types, among them that nobody is its own victim.
LEMMA TypeStep ==
    ASSUME TypeOK, [Next]_vars
    PROVE  TypeOK'
<1> USE ProcAssumption, ParameterAssumption DEF TypeOK, Step, At, Goto,
  rest, locks, request, pointers, SharedGlobals, Pointer, Jobs, PCs,
  ActivatePC, RequestPC, KillPC, RestartPC, WindowPC, SchedulePC, ReadPC
<1>1. CASE Tick
  BY <1>1 DEF Tick
<1>2. ASSUME NEW p \in Proc, Activate(p) PROVE TypeOK'
  <2>1. pc' \in [Proc -> PCs] /\ cached' \in [Proc -> Pointer]
    BY <1>2 DEF Activate
  <2>2. /\ counted' \in [Proc -> BOOLEAN]
        /\ mem_usage' \in {mem_usage, mem_usage \ {p}}
        /\ shm_lock' \in {shm_lock, NoProc}
        /\ restart_lock' \in {restart_lock, NoProc}
    BY <1>2 DEF Activate, accel_unlock_all
  <2>3. late' \in {late, late \ {p}}
    BY <1>2 DEF Activate
  <2>4. UNCHANGED <<ZCSG, locked, enabled, job, ptr, loaded, victim, crashes>>
    BY <1>2 DEF Activate
  <2> QED
    BY <2>1, <2>2, <2>3, <2>4
<1>3. ASSUME NEW p \in Proc, ActivatePending(p) PROVE TypeOK'
  BY <1>3 DEF ActivatePending
<1>4. ASSUME NEW p \in Proc, ActivateLock(p) PROVE TypeOK'
  BY <1>4 DEF ActivateLock, zend_shared_alloc_lock
<1>5. ASSUME NEW p \in Proc, ActivateCheck(p) PROVE TypeOK'
  BY <1>5 DEF ActivateCheck
<1>6. ASSUME NEW p \in Proc, accel_is_inactive(p) PROVE TypeOK'
  BY <1>6 DEF accel_is_inactive, Others
<1>7. ASSUME NEW p \in Proc, ActivateUnlock(p) PROVE TypeOK'
  BY <1>7 DEF ActivateUnlock, zend_shared_alloc_unlock
<1>8. ASSUME NEW p \in Proc, KillStart(p) PROVE TypeOK'
  BY <1>8 DEF KillStart
<1>9. ASSUME NEW p \in Proc, Kill(p) PROVE TypeOK'
  BY <1>9 DEF Kill, TriesRunOut, Respawn, accel_unlock_all
<1>10. ASSUME NEW p \in Proc, KillFails(p) PROVE TypeOK'
  BY <1>10 DEF KillFails, TriesRunOut
<1>11. ASSUME NEW p \in Proc, KillCheck(p) PROVE TypeOK'
  BY <1>11 DEF KillCheck, Others
<1>12. ASSUME NEW p \in Proc, RestartClear(p) PROVE TypeOK'
  BY <1>12 DEF RestartClear
<1>13. ASSUME NEW p \in Proc, RestartLock(p) PROVE TypeOK'
  BY <1>13 DEF RestartLock
<1>14. ASSUME NEW p \in Proc, RestartFlag(p) PROVE TypeOK'
  BY <1>14 DEF RestartFlag
<1>15. ASSUME NEW p \in Proc, zend_reset_cache_vars(p) PROVE TypeOK'
  BY <1>15 DEF zend_reset_cache_vars
<1>16. ASSUME NEW p \in Proc, RestartHash(p) PROVE TypeOK'
  BY <1>16 DEF RestartHash, Wiped
<1>17. ASSUME NEW p \in Proc, RestartAlloc(p) PROVE TypeOK'
  BY <1>17 DEF RestartAlloc
<1>18. ASSUME NEW p \in Proc, RestartEnable(p) PROVE TypeOK'
  BY <1>18 DEF RestartEnable
<1>19. ASSUME NEW p \in Proc, RestartUnflag(p) PROVE TypeOK'
  BY <1>19 DEF RestartUnflag
<1>20. ASSUME NEW p \in Proc, RestartUnlock(p) PROVE TypeOK'
  BY <1>20 DEF RestartUnlock
<1>21. ASSUME NEW p \in Proc, opcache_reset(p) PROVE TypeOK'
  BY <1>21 DEF opcache_reset
<1>22. ASSUME NEW p \in Proc, ScheduleCheck(p) PROVE TypeOK'
  BY <1>22 DEF ScheduleCheck, ScheduleReturn
<1>23. ASSUME NEW p \in Proc, SchedulePending(p) PROVE TypeOK'
  BY <1>23 DEF SchedulePending
<1>24. ASSUME NEW p \in Proc, ScheduleStatus(p) PROVE TypeOK'
  BY <1>24 DEF ScheduleStatus
<1>25. ASSUME NEW p \in Proc, ScheduleDisable(p) PROVE TypeOK'
  BY <1>25 DEF ScheduleDisable
<1>26. ASSUME NEW p \in Proc, ScheduleForce(p) PROVE TypeOK'
  BY <1>26 DEF ScheduleForce, ScheduleReturn
<1>27. ASSUME NEW p \in Proc, persistent_compile_file(p) PROVE TypeOK'
  BY <1>27 DEF persistent_compile_file
<1>28. ASSUME NEW p \in Proc, CompileGuard(p) PROVE TypeOK'
  BY <1>28 DEF CompileGuard
<1>29. ASSUME NEW p \in Proc, accel_restart_is_active(p) PROVE TypeOK'
  BY <1>29 DEF accel_restart_is_active
<1>30. ASSUME NEW p \in Proc, ClearDeadFlag(p) PROVE TypeOK'
  BY <1>30 DEF ClearDeadFlag
<1>31. ASSUME NEW p \in Proc, CompileAdd(p) PROVE TypeOK'
  <2>1. CASE counted[p]
    BY <1>31, <2>1 DEF CompileAdd
  <2>2. CASE ~counted[p]
    <3>1. /\ counted' = [counted EXCEPT ![p] = TRUE]
          /\ mem_usage' = mem_usage \cup {p}
          /\ late' \in {late, late \cup {p}}
      BY <1>31, <2>2 DEF CompileAdd, accel_activate_add
    <3>2. pc' \in [Proc -> PCs]
      BY <1>31, <2>2 DEF CompileAdd
    <3>3. UNCHANGED <<ZCSG, shm_lock, restart_lock, locked, enabled, job,
                      pointers, victim, crashes>>
      BY <1>31, <2>2 DEF CompileAdd, accel_activate_add
    <3>4. counted' \in [Proc -> BOOLEAN]
      BY <3>1
    <3>5. mem_usage' \subseteq Proc /\ late' \subseteq Proc
      BY <3>1
    <3> QED
      BY <3>2, <3>3, <3>4, <3>5
  <2> QED
    BY <2>1, <2>2
<1>32. ASSUME NEW p \in Proc, CompileFind(p) PROVE TypeOK'
  BY <1>32 DEF CompileFind
<1>33. ASSUME NEW p \in Proc, CompileNoKey(p) PROVE TypeOK'
  BY <1>33 DEF CompileNoKey
<1>34. ASSUME NEW p \in Proc, CompileHit(p) PROVE TypeOK'
  BY <1>34 DEF CompileHit, Join
<1>35. ASSUME NEW p \in Proc, CompileMiss(p) PROVE TypeOK'
  BY <1>35 DEF CompileMiss
<1>36. ASSUME NEW p \in Proc, compile_and_cache_file(p) PROVE TypeOK'
  BY <1>36 DEF compile_and_cache_file
<1>37. ASSUME NEW p \in Proc, WorkLock(p) PROVE TypeOK'
  BY <1>37 DEF WorkLock, zend_shared_alloc_lock
<1>38. ASSUME NEW p \in Proc, zend_accel_add_key(p) PROVE TypeOK'
  BY <1>38 DEF zend_accel_add_key
<1>39. ASSUME NEW p \in Proc, MarkCorrupted(p) PROVE TypeOK'
  BY <1>39 DEF MarkCorrupted
<1>40. ASSUME NEW p \in Proc, cache_script_in_shared_memory(p) PROVE TypeOK'
  <2>1. ZCSG' \in SharedGlobals
    <3>1. PICK stored, failed, full \in BOOLEAN :
             ZCSG' = [ZCSG EXCEPT !.memory_exhausted = full \/ @,
                                  !.populated = stored \/ @]
      BY <1>40 DEF cache_script_in_shared_memory
    <3>2. ZCSG \in SharedGlobals
      OBVIOUS
    <3>3. /\ (full \/ ZCSG.memory_exhausted) \in BOOLEAN
          /\ (stored \/ ZCSG.populated) \in BOOLEAN
      BY Zenon
    <3> QED
      BY <3>1, <3>2, <3>3
  <2>2. loaded' \in [Proc -> Pointer]
    BY <1>40 DEF cache_script_in_shared_memory, Join
  <2>3. pc' \in [Proc -> PCs]
    BY <1>40 DEF cache_script_in_shared_memory
  <2> QED
    BY <1>40, <2>1, <2>2, <2>3 DEF cache_script_in_shared_memory
<1>41. ASSUME NEW p \in Proc, WorkUnlock(p) PROVE TypeOK'
  BY <1>41 DEF WorkUnlock, zend_shared_alloc_unlock, AfterUnlock
<1>42. ASSUME NEW p \in Proc, persistent_zend_resolve_path(p) PROVE TypeOK'
  BY <1>42 DEF persistent_zend_resolve_path
<1>43. ASSUME NEW p \in Proc, ResolveFind(p) PROVE TypeOK'
  BY <1>43 DEF ResolveFind
<1>44. ASSUME NEW p \in Proc, ReadGuard(p) PROVE TypeOK'
  BY <1>44 DEF ReadGuard
<1>45. ASSUME NEW p \in Proc, accelerator_shm_read_lock(p) PROVE TypeOK'
  BY <1>45 DEF accelerator_shm_read_lock, accel_activate_add, Window
<1>46. ASSUME NEW p \in Proc, ReadLockCheck(p) PROVE TypeOK'
  BY <1>46 DEF ReadLockCheck, accel_deactivate_sub
<1>47. ASSUME NEW p \in Proc, ReadFind(p) PROVE TypeOK'
  BY <1>47 DEF ReadFind
<1>48. ASSUME NEW p \in Proc, ReadDeref(p) PROVE TypeOK'
  BY <1>48 DEF ReadDeref
<1>49. ASSUME NEW p \in Proc, accelerator_shm_read_unlock(p) PROVE TypeOK'
  BY <1>49 DEF accelerator_shm_read_unlock, accel_deactivate_sub
<1>50. ASSUME NEW p \in Proc, OnEnable(p) PROVE TypeOK'
  BY <1>50 DEF OnEnable
<1>51. ASSUME NEW p \in Proc, Bailout(p) PROVE TypeOK'
  BY <1>51 DEF Bailout
<1>52. ASSUME NEW p \in Proc, accel_deactivate(p) PROVE TypeOK'
  <2>1. /\ pc' \in [Proc -> PCs] /\ enabled' \in [Proc -> BOOLEAN]
        /\ job' \in [Proc -> Jobs]
        /\ ptr' \in [Proc -> Pointer] /\ loaded' \in [Proc -> Pointer]
        /\ UNCHANGED <<ZCSG, cached, victim, late, crashes>>
    BY <1>52 DEF accel_deactivate, RequestEnds
  <2>2. /\ mem_usage' \in {mem_usage, mem_usage \ {p}}
        /\ shm_lock' \in {shm_lock, NoProc}
        /\ restart_lock' \in {restart_lock, NoProc}
    BY <1>52 DEF accel_deactivate, accel_unlock_all
  <2>3. locked' \in [Proc -> BOOLEAN] /\ counted' \in [Proc -> BOOLEAN]
    BY <1>52 DEF accel_deactivate
  <2> QED
    BY <2>1, <2>2, <2>3
<1>53. ASSUME NEW p \in Proc, Crash(p) PROVE TypeOK'
  BY <1>53 DEF Crash, Respawn, accel_unlock_all
<1>54. CASE UNCHANGED vars
  BY <1>54 DEF vars
<1> HIDE ProcAssumption, ParameterAssumption DEF TypeOK, Step, At, Goto,
  rest, locks, request, pointers, SharedGlobals, Pointer, Jobs, PCs,
  ActivatePC, RequestPC, KillPC, RestartPC, WindowPC, SchedulePC, ReadPC
<1>55. QED
  BY <1>1, <1>2, <1>3, <1>4, <1>5, <1>6, <1>7, <1>8, <1>9, <1>10, <1>11,
    <1>12, <1>13, <1>14, <1>15, <1>16, <1>17, <1>18, <1>19, <1>20, <1>21,
    <1>22, <1>23, <1>24, <1>25, <1>26, <1>27, <1>28, <1>29, <1>30, <1>31,
    <1>32, <1>33, <1>34, <1>35, <1>36, <1>37, <1>38, <1>39, <1>40, <1>41,
    <1>42, <1>43, <1>44, <1>45, <1>46, <1>47, <1>48, <1>49, <1>50, <1>51,
    <1>52, <1>53, <1>54 DEF Next, ActivateStep, FunctionStep, LockStep,
    ScriptStep

\* The types of the shared flags, the locks and the process-local state.
THEOREM TypeCorrect == Spec => []TypeOK
<1>1. Init => TypeOK
  BY ProcAssumption, ParameterAssumption
  DEF Init, TypeOK, SharedGlobals, Pointer, Jobs, PCs
<1>2. TypeOK /\ [Next]_vars => TypeOK'
  BY TypeStep
<1>3. QED
  BY <1>1, <1>2, PTL DEF Spec

-----------------------------------------------------------------------------
(* The exclusive lock.                                                     *)

\* LockDiscipline is not inductive: that a process past act_unlock, or in a
\* request, does not own byte 0 is only true because ZCG(locked) follows the
\* lock in both directions, because locked code is in a critical section, in
\* the scheduler called from one, or unwound, and because a script that
\* disabled the cache at run time (whose accel_deactivate unlocks nothing)
\* was not in such a section and enters none.
LockInv ==
    \A p \in Proc :
        /\ locked[p] <=> shm_lock = p
        /\ pc[p] \in CriticalPC => locked[p]
        /\ locked[p] => pc[p] \in CriticalPC \cup SchedulePC \cup {"bailed"}
        /\ ~enabled[p] => pc[p] \in {"run", "bailed"} /\ ~locked[p]

\* Every step of the specification keeps LockInv,
\* whichever process takes it and whether or
\* not it was killed in between.
LEMMA LockInvStep ==
    ASSUME TypeOK, LockInv, [Next]_vars
    PROVE  LockInv'
<1> USE ProcAssumption, ParameterAssumption DEF TypeOK, LockInv, Step, At,
  Goto, rest, locks, request, pointers, CriticalPC, KillPC, RestartPC,
  WindowPC, SchedulePC, ReadPC, RequestPC, Jobs
<1>1. CASE Tick
  BY <1>1 DEF Tick
<1>2. ASSUME NEW p \in Proc, Activate(p) PROVE LockInv'
  BY <1>2 DEF Activate, accel_unlock_all
<1>3. ASSUME NEW p \in Proc, ActivatePending(p) PROVE LockInv'
  BY <1>3 DEF ActivatePending
<1>4. ASSUME NEW p \in Proc, ActivateLock(p) PROVE LockInv'
  BY <1>4 DEF ActivateLock, zend_shared_alloc_lock
<1>5. ASSUME NEW p \in Proc, ActivateCheck(p) PROVE LockInv'
  BY <1>5 DEF ActivateCheck
<1>6. ASSUME NEW p \in Proc, accel_is_inactive(p) PROVE LockInv'
  BY <1>6 DEF accel_is_inactive, Others
<1>7. ASSUME NEW p \in Proc, ActivateUnlock(p) PROVE LockInv'
  BY <1>7 DEF ActivateUnlock, zend_shared_alloc_unlock
<1>8. ASSUME NEW p \in Proc, KillStart(p) PROVE LockInv'
  BY <1>8 DEF KillStart
<1>9. ASSUME NEW p \in Proc, Kill(p) PROVE LockInv'
  BY <1>9 DEF Kill, TriesRunOut, Respawn, accel_unlock_all
<1>10. ASSUME NEW p \in Proc, KillFails(p) PROVE LockInv'
  BY <1>10 DEF KillFails, TriesRunOut
<1>11. ASSUME NEW p \in Proc, KillCheck(p) PROVE LockInv'
  BY <1>11 DEF KillCheck, Others
<1>12. ASSUME NEW p \in Proc, RestartClear(p) PROVE LockInv'
  BY <1>12 DEF RestartClear
<1>13. ASSUME NEW p \in Proc, RestartLock(p) PROVE LockInv'
  BY <1>13 DEF RestartLock
<1>14. ASSUME NEW p \in Proc, RestartFlag(p) PROVE LockInv'
  BY <1>14 DEF RestartFlag
<1>15. ASSUME NEW p \in Proc, zend_reset_cache_vars(p) PROVE LockInv'
  BY <1>15 DEF zend_reset_cache_vars
<1>16. ASSUME NEW p \in Proc, RestartHash(p) PROVE LockInv'
  BY <1>16 DEF RestartHash, Wiped
<1>17. ASSUME NEW p \in Proc, RestartAlloc(p) PROVE LockInv'
  BY <1>17 DEF RestartAlloc
<1>18. ASSUME NEW p \in Proc, RestartEnable(p) PROVE LockInv'
  BY <1>18 DEF RestartEnable
<1>19. ASSUME NEW p \in Proc, RestartUnflag(p) PROVE LockInv'
  BY <1>19 DEF RestartUnflag
<1>20. ASSUME NEW p \in Proc, RestartUnlock(p) PROVE LockInv'
  BY <1>20 DEF RestartUnlock
<1>21. ASSUME NEW p \in Proc, opcache_reset(p) PROVE LockInv'
  BY <1>21 DEF opcache_reset
<1>22. ASSUME NEW p \in Proc, ScheduleCheck(p) PROVE LockInv'
  BY <1>22 DEF ScheduleCheck, ScheduleReturn
<1>23. ASSUME NEW p \in Proc, SchedulePending(p) PROVE LockInv'
  BY <1>23 DEF SchedulePending
<1>24. ASSUME NEW p \in Proc, ScheduleStatus(p) PROVE LockInv'
  BY <1>24 DEF ScheduleStatus
<1>25. ASSUME NEW p \in Proc, ScheduleDisable(p) PROVE LockInv'
  BY <1>25 DEF ScheduleDisable
<1>26. ASSUME NEW p \in Proc, ScheduleForce(p) PROVE LockInv'
  BY <1>26 DEF ScheduleForce, ScheduleReturn
<1>27. ASSUME NEW p \in Proc, persistent_compile_file(p) PROVE LockInv'
  BY <1>27 DEF persistent_compile_file
<1>28. ASSUME NEW p \in Proc, CompileGuard(p) PROVE LockInv'
  BY <1>28 DEF CompileGuard
<1>29. ASSUME NEW p \in Proc, accel_restart_is_active(p) PROVE LockInv'
  BY <1>29 DEF accel_restart_is_active
<1>30. ASSUME NEW p \in Proc, ClearDeadFlag(p) PROVE LockInv'
  BY <1>30 DEF ClearDeadFlag
<1>31. ASSUME NEW p \in Proc, CompileAdd(p) PROVE LockInv'
  BY <1>31 DEF CompileAdd, accel_activate_add, Window
<1>32. ASSUME NEW p \in Proc, CompileFind(p) PROVE LockInv'
  BY <1>32 DEF CompileFind
<1>33. ASSUME NEW p \in Proc, CompileNoKey(p) PROVE LockInv'
  BY <1>33 DEF CompileNoKey
<1>34. ASSUME NEW p \in Proc, CompileHit(p) PROVE LockInv'
  BY <1>34 DEF CompileHit, Join
<1>35. ASSUME NEW p \in Proc, CompileMiss(p) PROVE LockInv'
  BY <1>35 DEF CompileMiss
<1>36. ASSUME NEW p \in Proc, compile_and_cache_file(p) PROVE LockInv'
  BY <1>36 DEF compile_and_cache_file
<1>37. ASSUME NEW p \in Proc, WorkLock(p) PROVE LockInv'
  BY <1>37 DEF WorkLock, zend_shared_alloc_lock
<1>38. ASSUME NEW p \in Proc, zend_accel_add_key(p) PROVE LockInv'
  BY <1>38 DEF zend_accel_add_key
<1>39. ASSUME NEW p \in Proc, MarkCorrupted(p) PROVE LockInv'
  BY <1>39 DEF MarkCorrupted
<1>40. ASSUME NEW p \in Proc, cache_script_in_shared_memory(p) PROVE LockInv'
  BY <1>40 DEF cache_script_in_shared_memory, Join
<1>41. ASSUME NEW p \in Proc, WorkUnlock(p) PROVE LockInv'
  BY <1>41 DEF WorkUnlock, zend_shared_alloc_unlock, AfterUnlock
<1>42. ASSUME NEW p \in Proc, persistent_zend_resolve_path(p) PROVE LockInv'
  BY <1>42 DEF persistent_zend_resolve_path
<1>43. ASSUME NEW p \in Proc, ResolveFind(p) PROVE LockInv'
  BY <1>43 DEF ResolveFind
<1>44. ASSUME NEW p \in Proc, ReadGuard(p) PROVE LockInv'
  BY <1>44 DEF ReadGuard
<1>45. ASSUME NEW p \in Proc, accelerator_shm_read_lock(p) PROVE LockInv'
  BY <1>45 DEF accelerator_shm_read_lock, accel_activate_add, Window
<1>46. ASSUME NEW p \in Proc, ReadLockCheck(p) PROVE LockInv'
  BY <1>46 DEF ReadLockCheck, accel_deactivate_sub
<1>47. ASSUME NEW p \in Proc, ReadFind(p) PROVE LockInv'
  BY <1>47 DEF ReadFind
<1>48. ASSUME NEW p \in Proc, ReadDeref(p) PROVE LockInv'
  BY <1>48 DEF ReadDeref
<1>49. ASSUME NEW p \in Proc, accelerator_shm_read_unlock(p) PROVE LockInv'
  BY <1>49 DEF accelerator_shm_read_unlock, accel_deactivate_sub
<1>50. ASSUME NEW p \in Proc, OnEnable(p) PROVE LockInv'
  BY <1>50 DEF OnEnable
<1>51. ASSUME NEW p \in Proc, Bailout(p) PROVE LockInv'
  BY <1>51 DEF Bailout
<1>52. ASSUME NEW p \in Proc, accel_deactivate(p) PROVE LockInv'
  BY <1>52 DEF accel_deactivate, accel_unlock_all, RequestEnds
<1>53. ASSUME NEW p \in Proc, Crash(p) PROVE LockInv'
  BY <1>53 DEF Crash, Respawn, accel_unlock_all
<1>54. CASE UNCHANGED vars
  BY <1>54 DEF vars
<1> HIDE ProcAssumption, ParameterAssumption DEF TypeOK, LockInv, Step, At,
  Goto, rest, locks, request, pointers, CriticalPC, KillPC, RestartPC,
  WindowPC, SchedulePC, ReadPC, RequestPC, Jobs
<1>55. QED
  BY <1>1, <1>2, <1>3, <1>4, <1>5, <1>6, <1>7, <1>8, <1>9, <1>10, <1>11,
    <1>12, <1>13, <1>14, <1>15, <1>16, <1>17, <1>18, <1>19, <1>20, <1>21,
    <1>22, <1>23, <1>24, <1>25, <1>26, <1>27, <1>28, <1>29, <1>30, <1>31,
    <1>32, <1>33, <1>34, <1>35, <1>36, <1>37, <1>38, <1>39, <1>40, <1>41,
    <1>42, <1>43, <1>44, <1>45, <1>46, <1>47, <1>48, <1>49, <1>50, <1>51,
    <1>52, <1>53, <1>54 DEF Next, ActivateStep, FunctionStep, LockStep,
    ScriptStep

\* zend_shared_alloc_lock gives mutual exclusion between the sections that
\* change the cache, and ZCG(locked) tells the truth about it.
THEOREM LockDisciplineHolds == Spec => []LockDiscipline
<1>1. Init => LockInv
  BY ProcAssumption
  DEF Init, LockInv, CriticalPC, KillPC, RestartPC, WindowPC
<1>2. TypeOK /\ LockInv /\ [Next]_vars => LockInv'
  BY LockInvStep
<1>3. LockInv => LockDiscipline
  BY DEF LockInv, LockDiscipline, CriticalPC, ActivatePC, KillPC, RestartPC,
         WindowPC, SchedulePC
<1>4. QED
  BY <1>1, <1>2, <1>3, TypeCorrect, PTL DEF Spec

\* The inductive form, for the proofs below.
THEOREM LockInvHolds == Spec => []LockInv
<1>1. Init => LockInv
  BY ProcAssumption
  DEF Init, LockInv, CriticalPC, KillPC, RestartPC, WindowPC
<1>2. TypeOK /\ LockInv /\ [Next]_vars => LockInv'
  BY LockInvStep
<1>3. QED
  BY <1>1, <1>2, TypeCorrect, PTL DEF Spec

-----------------------------------------------------------------------------
(* The read lock.                                                          *)

\* The flag ZCG(counted) and byte 1 agree because accelerator_shm_read_lock
\* gives byte 1 back, when it finds a restart, only if the process was not
\* counted; without ini_set an idle process holds nothing.
CountedInv ==
    \A p \in Proc :
        /\ counted[p] => p \in mem_usage
        /\ At(p, "read_check") => ~counted[p]
        /\ "disable" \notin Workload =>
              enabled[p] /\ (At(p, "idle") => p \notin mem_usage)

\* Every step of the specification keeps CountedInv:
\* no function drops byte 1 for a
\* request that is counted.
LEMMA CountedInvStep ==
    ASSUME TypeOK, LockInv, CountedInv, [Next]_vars
    PROVE  CountedInv'
<1> USE ProcAssumption, ParameterAssumption DEF TypeOK, LockInv, CountedInv,
  Step, At, Goto, rest, locks, request, pointers, CriticalPC, KillPC,
  RestartPC, WindowPC, SchedulePC, ReadPC, RequestPC, Jobs
<1>1. CASE Tick
  BY <1>1 DEF Tick
<1>2. ASSUME NEW p \in Proc, Activate(p) PROVE CountedInv'
  BY <1>2 DEF Activate, accel_unlock_all
<1>3. ASSUME NEW p \in Proc, ActivatePending(p) PROVE CountedInv'
  BY <1>3 DEF ActivatePending
<1>4. ASSUME NEW p \in Proc, ActivateLock(p) PROVE CountedInv'
  BY <1>4 DEF ActivateLock, zend_shared_alloc_lock
<1>5. ASSUME NEW p \in Proc, ActivateCheck(p) PROVE CountedInv'
  BY <1>5 DEF ActivateCheck
<1>6. ASSUME NEW p \in Proc, accel_is_inactive(p) PROVE CountedInv'
  BY <1>6 DEF accel_is_inactive, Others
<1>7. ASSUME NEW p \in Proc, ActivateUnlock(p) PROVE CountedInv'
  BY <1>7 DEF ActivateUnlock, zend_shared_alloc_unlock
<1>8. ASSUME NEW p \in Proc, KillStart(p) PROVE CountedInv'
  BY <1>8 DEF KillStart
<1>9. ASSUME NEW p \in Proc, Kill(p) PROVE CountedInv'
  BY <1>9 DEF Kill, TriesRunOut, Respawn, accel_unlock_all
<1>10. ASSUME NEW p \in Proc, KillFails(p) PROVE CountedInv'
  BY <1>10 DEF KillFails, TriesRunOut
<1>11. ASSUME NEW p \in Proc, KillCheck(p) PROVE CountedInv'
  BY <1>11 DEF KillCheck, Others
<1>12. ASSUME NEW p \in Proc, RestartClear(p) PROVE CountedInv'
  BY <1>12 DEF RestartClear
<1>13. ASSUME NEW p \in Proc, RestartLock(p) PROVE CountedInv'
  BY <1>13 DEF RestartLock
<1>14. ASSUME NEW p \in Proc, RestartFlag(p) PROVE CountedInv'
  BY <1>14 DEF RestartFlag
<1>15. ASSUME NEW p \in Proc, zend_reset_cache_vars(p) PROVE CountedInv'
  BY <1>15 DEF zend_reset_cache_vars
<1>16. ASSUME NEW p \in Proc, RestartHash(p) PROVE CountedInv'
  BY <1>16 DEF RestartHash, Wiped
<1>17. ASSUME NEW p \in Proc, RestartAlloc(p) PROVE CountedInv'
  BY <1>17 DEF RestartAlloc
<1>18. ASSUME NEW p \in Proc, RestartEnable(p) PROVE CountedInv'
  BY <1>18 DEF RestartEnable
<1>19. ASSUME NEW p \in Proc, RestartUnflag(p) PROVE CountedInv'
  BY <1>19 DEF RestartUnflag
<1>20. ASSUME NEW p \in Proc, RestartUnlock(p) PROVE CountedInv'
  BY <1>20 DEF RestartUnlock
<1>21. ASSUME NEW p \in Proc, opcache_reset(p) PROVE CountedInv'
  BY <1>21 DEF opcache_reset
<1>22. ASSUME NEW p \in Proc, ScheduleCheck(p) PROVE CountedInv'
  BY <1>22 DEF ScheduleCheck, ScheduleReturn
<1>23. ASSUME NEW p \in Proc, SchedulePending(p) PROVE CountedInv'
  BY <1>23 DEF SchedulePending
<1>24. ASSUME NEW p \in Proc, ScheduleStatus(p) PROVE CountedInv'
  BY <1>24 DEF ScheduleStatus
<1>25. ASSUME NEW p \in Proc, ScheduleDisable(p) PROVE CountedInv'
  BY <1>25 DEF ScheduleDisable
<1>26. ASSUME NEW p \in Proc, ScheduleForce(p) PROVE CountedInv'
  BY <1>26 DEF ScheduleForce, ScheduleReturn
<1>27. ASSUME NEW p \in Proc, persistent_compile_file(p) PROVE CountedInv'
  BY <1>27 DEF persistent_compile_file
<1>28. ASSUME NEW p \in Proc, CompileGuard(p) PROVE CountedInv'
  BY <1>28 DEF CompileGuard
<1>29. ASSUME NEW p \in Proc, accel_restart_is_active(p) PROVE CountedInv'
  BY <1>29 DEF accel_restart_is_active
<1>30. ASSUME NEW p \in Proc, ClearDeadFlag(p) PROVE CountedInv'
  BY <1>30 DEF ClearDeadFlag
<1>31. ASSUME NEW p \in Proc, CompileAdd(p) PROVE CountedInv'
  BY <1>31 DEF CompileAdd, accel_activate_add, Window
<1>32. ASSUME NEW p \in Proc, CompileFind(p) PROVE CountedInv'
  BY <1>32 DEF CompileFind
<1>33. ASSUME NEW p \in Proc, CompileNoKey(p) PROVE CountedInv'
  BY <1>33 DEF CompileNoKey
<1>34. ASSUME NEW p \in Proc, CompileHit(p) PROVE CountedInv'
  BY <1>34 DEF CompileHit, Join
<1>35. ASSUME NEW p \in Proc, CompileMiss(p) PROVE CountedInv'
  BY <1>35 DEF CompileMiss
<1>36. ASSUME NEW p \in Proc, compile_and_cache_file(p) PROVE CountedInv'
  BY <1>36 DEF compile_and_cache_file
<1>37. ASSUME NEW p \in Proc, WorkLock(p) PROVE CountedInv'
  BY <1>37 DEF WorkLock, zend_shared_alloc_lock
<1>38. ASSUME NEW p \in Proc, zend_accel_add_key(p) PROVE CountedInv'
  BY <1>38 DEF zend_accel_add_key
<1>39. ASSUME NEW p \in Proc, MarkCorrupted(p) PROVE CountedInv'
  BY <1>39 DEF MarkCorrupted
<1>40. ASSUME NEW p \in Proc, cache_script_in_shared_memory(p) PROVE CountedInv'
  BY <1>40 DEF cache_script_in_shared_memory, Join
<1>41. ASSUME NEW p \in Proc, WorkUnlock(p) PROVE CountedInv'
  BY <1>41 DEF WorkUnlock, zend_shared_alloc_unlock, AfterUnlock
<1>42. ASSUME NEW p \in Proc, persistent_zend_resolve_path(p) PROVE CountedInv'
  BY <1>42 DEF persistent_zend_resolve_path
<1>43. ASSUME NEW p \in Proc, ResolveFind(p) PROVE CountedInv'
  BY <1>43 DEF ResolveFind
<1>44. ASSUME NEW p \in Proc, ReadGuard(p) PROVE CountedInv'
  BY <1>44 DEF ReadGuard
<1>45. ASSUME NEW p \in Proc, accelerator_shm_read_lock(p) PROVE CountedInv'
  BY <1>45 DEF accelerator_shm_read_lock, accel_activate_add, Window
<1>46. ASSUME NEW p \in Proc, ReadLockCheck(p) PROVE CountedInv'
  BY <1>46 DEF ReadLockCheck, accel_deactivate_sub
<1>47. ASSUME NEW p \in Proc, ReadFind(p) PROVE CountedInv'
  BY <1>47 DEF ReadFind
<1>48. ASSUME NEW p \in Proc, ReadDeref(p) PROVE CountedInv'
  BY <1>48 DEF ReadDeref
<1>49. ASSUME NEW p \in Proc, accelerator_shm_read_unlock(p) PROVE CountedInv'
  BY <1>49 DEF accelerator_shm_read_unlock, accel_deactivate_sub
<1>50. ASSUME NEW p \in Proc, OnEnable(p) PROVE CountedInv'
  BY <1>50 DEF OnEnable
<1>51. ASSUME NEW p \in Proc, Bailout(p) PROVE CountedInv'
  BY <1>51 DEF Bailout
<1>52. ASSUME NEW p \in Proc, accel_deactivate(p) PROVE CountedInv'
  BY <1>52 DEF accel_deactivate, accel_unlock_all, RequestEnds
<1>53. ASSUME NEW p \in Proc, Crash(p) PROVE CountedInv'
  BY <1>53 DEF Crash, Respawn, accel_unlock_all
<1>54. CASE UNCHANGED vars
  BY <1>54 DEF vars
<1> HIDE ProcAssumption, ParameterAssumption DEF TypeOK, LockInv, CountedInv,
  Step, At, Goto, rest, locks, request, pointers, CriticalPC, KillPC,
  RestartPC, WindowPC, SchedulePC, ReadPC, RequestPC, Jobs
<1>55. QED
  BY <1>1, <1>2, <1>3, <1>4, <1>5, <1>6, <1>7, <1>8, <1>9, <1>10, <1>11,
    <1>12, <1>13, <1>14, <1>15, <1>16, <1>17, <1>18, <1>19, <1>20, <1>21,
    <1>22, <1>23, <1>24, <1>25, <1>26, <1>27, <1>28, <1>29, <1>30, <1>31,
    <1>32, <1>33, <1>34, <1>35, <1>36, <1>37, <1>38, <1>39, <1>40, <1>41,
    <1>42, <1>43, <1>44, <1>45, <1>46, <1>47, <1>48, <1>49, <1>50, <1>51,
    <1>52, <1>53, <1>54 DEF Next, ActivateStep, FunctionStep, LockStep,
    ScriptStep

\* The inductive form.
THEOREM CountedInvHolds == Spec => []CountedInv
<1>1. Init => CountedInv
  BY DEF Init, CountedInv, At
<1>2. TypeOK /\ LockInv /\ CountedInv /\ [Next]_vars => CountedInv'
  BY CountedInvStep
<1>3. QED
  BY <1>1, <1>2, TypeCorrect, LockInvHolds, PTL DEF Spec

\* ZCG(counted), by which functions skip locking, implies that byte 1 is
\* locked.
THEOREM CountedHoldsReadLockAlways == Spec => []CountedHoldsReadLock
<1>1. CountedInv => CountedHoldsReadLock
  BY DEF CountedInv, CountedHoldsReadLock
<1>2. QED
  BY <1>1, CountedInvHolds, PTL

-----------------------------------------------------------------------------
(* The restart flag.                                                       *)

\* Where a restart has its flag raised.
FlagPC == {"restart_vars", "restart_hash", "restart_alloc", "restart_enable",
           "restart_unflag"}

\* Byte 2 is locked exactly between accel_restart_enter and
\* accel_restart_leave: by LockInv two restarts never overlap, so F_SETLK
\* does not fail; and kill_all_lockers, whose caller owns byte 0, never
\* hits a process that restarts.
RestartInv ==
    /\ \A p \in Proc : restart_lock = p
          <=> pc[p] \in FlagPC \cup {"restart_flag", "restart_unlock"}
    /\ ZCSG.restart_in_progress /\ crashes = 0
          => \E p \in Proc : pc[p] \in FlagPC

\* Every step of the specification keeps RestartInv:
\* locking byte 2 succeeds and only its
\* owner gives it up.
LEMMA RestartInvStep ==
    ASSUME TypeOK, LockInv, RestartInv, [Next]_vars
    PROVE  RestartInv'
<1> USE ProcAssumption, ParameterAssumption DEF TypeOK, LockInv, RestartInv,
  Step, At, Goto, rest, locks, request, pointers, CriticalPC, KillPC,
  RestartPC, WindowPC, SchedulePC, ReadPC, RequestPC, FlagPC, Jobs,
  SharedGlobals
<1>1. CASE Tick
  BY <1>1 DEF Tick
<1>2. ASSUME NEW p \in Proc, Activate(p) PROVE RestartInv'
  BY <1>2 DEF Activate, accel_unlock_all
<1>3. ASSUME NEW p \in Proc, ActivatePending(p) PROVE RestartInv'
  BY <1>3 DEF ActivatePending
<1>4. ASSUME NEW p \in Proc, ActivateLock(p) PROVE RestartInv'
  BY <1>4 DEF ActivateLock, zend_shared_alloc_lock
<1>5. ASSUME NEW p \in Proc, ActivateCheck(p) PROVE RestartInv'
  BY <1>5 DEF ActivateCheck
<1>6. ASSUME NEW p \in Proc, accel_is_inactive(p) PROVE RestartInv'
  BY <1>6 DEF accel_is_inactive, Others
<1>7. ASSUME NEW p \in Proc, ActivateUnlock(p) PROVE RestartInv'
  BY <1>7 DEF ActivateUnlock, zend_shared_alloc_unlock
<1>8. ASSUME NEW p \in Proc, KillStart(p) PROVE RestartInv'
  BY <1>8 DEF KillStart
<1>9. ASSUME NEW p \in Proc, Kill(p) PROVE RestartInv'
  BY <1>9 DEF Kill, TriesRunOut, Respawn, accel_unlock_all
<1>10. ASSUME NEW p \in Proc, KillFails(p) PROVE RestartInv'
  BY <1>10 DEF KillFails, TriesRunOut
<1>11. ASSUME NEW p \in Proc, KillCheck(p) PROVE RestartInv'
  BY <1>11 DEF KillCheck, Others
<1>12. ASSUME NEW p \in Proc, RestartClear(p) PROVE RestartInv'
  BY <1>12 DEF RestartClear
<1>13. ASSUME NEW p \in Proc, RestartLock(p) PROVE RestartInv'
  BY <1>13 DEF RestartLock
<1>14. ASSUME NEW p \in Proc, RestartFlag(p) PROVE RestartInv'
  BY <1>14 DEF RestartFlag
<1>15. ASSUME NEW p \in Proc, zend_reset_cache_vars(p) PROVE RestartInv'
  BY <1>15 DEF zend_reset_cache_vars
<1>16. ASSUME NEW p \in Proc, RestartHash(p) PROVE RestartInv'
  BY <1>16 DEF RestartHash, Wiped
<1>17. ASSUME NEW p \in Proc, RestartAlloc(p) PROVE RestartInv'
  BY <1>17 DEF RestartAlloc
<1>18. ASSUME NEW p \in Proc, RestartEnable(p) PROVE RestartInv'
  BY <1>18 DEF RestartEnable
<1>19. ASSUME NEW p \in Proc, RestartUnflag(p) PROVE RestartInv'
  BY <1>19 DEF RestartUnflag
<1>20. ASSUME NEW p \in Proc, RestartUnlock(p) PROVE RestartInv'
  BY <1>20 DEF RestartUnlock
<1>21. ASSUME NEW p \in Proc, opcache_reset(p) PROVE RestartInv'
  BY <1>21 DEF opcache_reset
<1>22. ASSUME NEW p \in Proc, ScheduleCheck(p) PROVE RestartInv'
  BY <1>22 DEF ScheduleCheck, ScheduleReturn
<1>23. ASSUME NEW p \in Proc, SchedulePending(p) PROVE RestartInv'
  BY <1>23 DEF SchedulePending
<1>24. ASSUME NEW p \in Proc, ScheduleStatus(p) PROVE RestartInv'
  BY <1>24 DEF ScheduleStatus
<1>25. ASSUME NEW p \in Proc, ScheduleDisable(p) PROVE RestartInv'
  BY <1>25 DEF ScheduleDisable
<1>26. ASSUME NEW p \in Proc, ScheduleForce(p) PROVE RestartInv'
  BY <1>26 DEF ScheduleForce, ScheduleReturn
<1>27. ASSUME NEW p \in Proc, persistent_compile_file(p) PROVE RestartInv'
  BY <1>27 DEF persistent_compile_file
<1>28. ASSUME NEW p \in Proc, CompileGuard(p) PROVE RestartInv'
  BY <1>28 DEF CompileGuard
<1>29. ASSUME NEW p \in Proc, accel_restart_is_active(p) PROVE RestartInv'
  BY <1>29 DEF accel_restart_is_active
<1>30. ASSUME NEW p \in Proc, ClearDeadFlag(p) PROVE RestartInv'
  BY <1>30 DEF ClearDeadFlag
<1>31. ASSUME NEW p \in Proc, CompileAdd(p) PROVE RestartInv'
  BY <1>31 DEF CompileAdd, accel_activate_add, Window
<1>32. ASSUME NEW p \in Proc, CompileFind(p) PROVE RestartInv'
  BY <1>32 DEF CompileFind
<1>33. ASSUME NEW p \in Proc, CompileNoKey(p) PROVE RestartInv'
  BY <1>33 DEF CompileNoKey
<1>34. ASSUME NEW p \in Proc, CompileHit(p) PROVE RestartInv'
  BY <1>34 DEF CompileHit, Join
<1>35. ASSUME NEW p \in Proc, CompileMiss(p) PROVE RestartInv'
  BY <1>35 DEF CompileMiss
<1>36. ASSUME NEW p \in Proc, compile_and_cache_file(p) PROVE RestartInv'
  BY <1>36 DEF compile_and_cache_file
<1>37. ASSUME NEW p \in Proc, WorkLock(p) PROVE RestartInv'
  BY <1>37 DEF WorkLock, zend_shared_alloc_lock
<1>38. ASSUME NEW p \in Proc, zend_accel_add_key(p) PROVE RestartInv'
  BY <1>38 DEF zend_accel_add_key
<1>39. ASSUME NEW p \in Proc, MarkCorrupted(p) PROVE RestartInv'
  BY <1>39 DEF MarkCorrupted
<1>40. ASSUME NEW p \in Proc, cache_script_in_shared_memory(p) PROVE RestartInv'
  BY <1>40 DEF cache_script_in_shared_memory, Join
<1>41. ASSUME NEW p \in Proc, WorkUnlock(p) PROVE RestartInv'
  BY <1>41 DEF WorkUnlock, zend_shared_alloc_unlock, AfterUnlock
<1>42. ASSUME NEW p \in Proc, persistent_zend_resolve_path(p) PROVE RestartInv'
  BY <1>42 DEF persistent_zend_resolve_path
<1>43. ASSUME NEW p \in Proc, ResolveFind(p) PROVE RestartInv'
  BY <1>43 DEF ResolveFind
<1>44. ASSUME NEW p \in Proc, ReadGuard(p) PROVE RestartInv'
  BY <1>44 DEF ReadGuard
<1>45. ASSUME NEW p \in Proc, accelerator_shm_read_lock(p) PROVE RestartInv'
  BY <1>45 DEF accelerator_shm_read_lock, accel_activate_add, Window
<1>46. ASSUME NEW p \in Proc, ReadLockCheck(p) PROVE RestartInv'
  BY <1>46 DEF ReadLockCheck, accel_deactivate_sub
<1>47. ASSUME NEW p \in Proc, ReadFind(p) PROVE RestartInv'
  BY <1>47 DEF ReadFind
<1>48. ASSUME NEW p \in Proc, ReadDeref(p) PROVE RestartInv'
  BY <1>48 DEF ReadDeref
<1>49. ASSUME NEW p \in Proc, accelerator_shm_read_unlock(p) PROVE RestartInv'
  BY <1>49 DEF accelerator_shm_read_unlock, accel_deactivate_sub
<1>50. ASSUME NEW p \in Proc, OnEnable(p) PROVE RestartInv'
  BY <1>50 DEF OnEnable
<1>51. ASSUME NEW p \in Proc, Bailout(p) PROVE RestartInv'
  BY <1>51 DEF Bailout
<1>52. ASSUME NEW p \in Proc, accel_deactivate(p) PROVE RestartInv'
  BY <1>52 DEF accel_deactivate, accel_unlock_all, RequestEnds
<1>53. ASSUME NEW p \in Proc, Crash(p) PROVE RestartInv'
  BY <1>53 DEF Crash, Respawn, accel_unlock_all
<1>54. CASE UNCHANGED vars
  BY <1>54 DEF vars
<1> HIDE ProcAssumption, ParameterAssumption DEF TypeOK, LockInv, RestartInv,
  Step, At, Goto, rest, locks, request, pointers, CriticalPC, KillPC,
  RestartPC, WindowPC, SchedulePC, ReadPC, RequestPC, FlagPC, Jobs,
  SharedGlobals
<1>55. QED
  BY <1>1, <1>2, <1>3, <1>4, <1>5, <1>6, <1>7, <1>8, <1>9, <1>10, <1>11,
    <1>12, <1>13, <1>14, <1>15, <1>16, <1>17, <1>18, <1>19, <1>20, <1>21,
    <1>22, <1>23, <1>24, <1>25, <1>26, <1>27, <1>28, <1>29, <1>30, <1>31,
    <1>32, <1>33, <1>34, <1>35, <1>36, <1>37, <1>38, <1>39, <1>40, <1>41,
    <1>42, <1>43, <1>44, <1>45, <1>46, <1>47, <1>48, <1>49, <1>50, <1>51,
    <1>52, <1>53, <1>54 DEF Next, ActivateStep, FunctionStep, LockStep,
    ScriptStep

\* The inductive form.
THEOREM RestartInvHolds == Spec => []RestartInv
<1>1. Init => RestartInv
  BY ProcAssumption DEF Init, RestartInv, FlagPC
<1>2. TypeOK /\ LockInv /\ RestartInv /\ [Next]_vars => RestartInv'
  BY RestartInvStep
<1>3. QED
  BY <1>1, <1>2, TypeCorrect, LockInvHolds, PTL DEF Spec

\* A raised flag with byte 2 unlocked is what a dead process left behind.
THEOREM DeadFlagMeansDeathAlways == Spec => []DeadFlagMeansDeath
<1>1. TypeOK /\ RestartInv => DeadFlagMeansDeath
  BY ProcAssumption, ParameterAssumption
  DEF TypeOK, RestartInv, DeadFlagMeansDeath, FlagPC
<1>2. QED
  BY <1>1, TypeCorrect, RestartInvHolds, PTL

\* Between two requests a process holds no lock, if no script disables the
\* cache at run time.
THEOREM IdleHoldsNothingAlways ==
    ASSUME "disable" \notin Workload
    PROVE  Spec => []IdleHoldsNothing
<1>1. LockInv /\ CountedInv /\ RestartInv => IdleHoldsNothing
  BY DEF LockInv, CountedInv, RestartInv, IdleHoldsNothing, At, FlagPC,
         CriticalPC, KillPC, RestartPC, WindowPC, SchedulePC
<1>2. QED
  BY <1>1, LockInvHolds, CountedInvHolds, RestartInvHolds, PTL

-----------------------------------------------------------------------------
(* The cache comes back.                                                   *)

\* Everything between scheduling a restart and its end happens under byte 0,
\* and to its end.  The code does not grant it: opcache_reset schedules with
\* no lock, a script that is unwound may leave the scheduler half way, and a
\* process may die in the middle of a restart.
OrderlyRestarts ==
    /\ Workload \cap {"reset", "bailout"} = {}
    /\ MaxCrashes = 0

\* Where the restart is not pending any more and the cache is still off.
OffPC == {"restart_lock", "restart_flag", "restart_vars", "restart_hash",
          "restart_alloc", "restart_enable"}

\* NeverStuckDisabled holds because cache_status_before_restart, which
\* RestartEnable puts back, is TRUE whenever a restart can begin: the one
\* scheduler at work finds the cache enabled, since no restart is pending,
\* and remembers that before it gives up byte 0.  The memory is zero-filled,
\* so before the first schedule it is not so.
StatusInv ==
    /\ \A p \in Proc :
         /\ pc[p] \in SchedulePC => locked[p]
         /\ pc[p] = "sch_pending"
              => ~ZCSG.restart_pending /\ ZCSG.accelerator_enabled
         /\ pc[p] = "sch_status"
              => ZCSG.restart_pending /\ ZCSG.accelerator_enabled
         /\ pc[p] \in {"sch_disable", "act_probe", "restart_clear"}
              => ZCSG.restart_pending
         /\ pc[p] \in OffPC => ZCSG.cache_status_before_restart
    /\ ZCSG.restart_pending =>
         \/ ZCSG.cache_status_before_restart
         \/ \E p \in Proc : pc[p] = "sch_status"
    /\ ZCSG.accelerator_enabled \/ ZCSG.restart_pending
         \/ \E p \in Proc : pc[p] \in OffPC

\* Every step of the specification keeps StatusInv: only the owner of byte 0
\* schedules or restarts, and nobody kills it.
LEMMA StatusInvStep ==
    ASSUME OrderlyRestarts, TypeOK, LockInv, StatusInv, [Next]_vars
    PROVE  StatusInv'
<1> USE ProcAssumption, ParameterAssumption DEF OrderlyRestarts, TypeOK,
  LockInv, StatusInv, Step, At, Goto, rest, locks, request, pointers,
  CriticalPC, KillPC, RestartPC, WindowPC, SchedulePC, ReadPC, RequestPC,
  OffPC, Jobs, SharedGlobals
<1>1. CASE Tick
  BY <1>1 DEF Tick
<1>2. ASSUME NEW p \in Proc, Activate(p) PROVE StatusInv'
  BY <1>2 DEF Activate, accel_unlock_all
<1>3. ASSUME NEW p \in Proc, ActivatePending(p) PROVE StatusInv'
  BY <1>3 DEF ActivatePending
<1>4. ASSUME NEW p \in Proc, ActivateLock(p) PROVE StatusInv'
  BY <1>4 DEF ActivateLock, zend_shared_alloc_lock
<1>5. ASSUME NEW p \in Proc, ActivateCheck(p) PROVE StatusInv'
  BY <1>5 DEF ActivateCheck
<1>6. ASSUME NEW p \in Proc, accel_is_inactive(p) PROVE StatusInv'
  BY <1>6 DEF accel_is_inactive, Others
<1>7. ASSUME NEW p \in Proc, ActivateUnlock(p) PROVE StatusInv'
  BY <1>7 DEF ActivateUnlock, zend_shared_alloc_unlock
<1>8. ASSUME NEW p \in Proc, KillStart(p) PROVE StatusInv'
  BY <1>8 DEF KillStart
<1>9. ASSUME NEW p \in Proc, Kill(p) PROVE StatusInv'
  BY <1>9 DEF Kill, TriesRunOut, Respawn, accel_unlock_all
<1>10. ASSUME NEW p \in Proc, KillFails(p) PROVE StatusInv'
  BY <1>10 DEF KillFails, TriesRunOut
<1>11. ASSUME NEW p \in Proc, KillCheck(p) PROVE StatusInv'
  BY <1>11 DEF KillCheck, Others
<1>12. ASSUME NEW p \in Proc, RestartClear(p) PROVE StatusInv'
  BY <1>12 DEF RestartClear
<1>13. ASSUME NEW p \in Proc, RestartLock(p) PROVE StatusInv'
  BY <1>13 DEF RestartLock
<1>14. ASSUME NEW p \in Proc, RestartFlag(p) PROVE StatusInv'
  BY <1>14 DEF RestartFlag
<1>15. ASSUME NEW p \in Proc, zend_reset_cache_vars(p) PROVE StatusInv'
  BY <1>15 DEF zend_reset_cache_vars
<1>16. ASSUME NEW p \in Proc, RestartHash(p) PROVE StatusInv'
  BY <1>16 DEF RestartHash, Wiped
<1>17. ASSUME NEW p \in Proc, RestartAlloc(p) PROVE StatusInv'
  BY <1>17 DEF RestartAlloc
<1>18. ASSUME NEW p \in Proc, RestartEnable(p) PROVE StatusInv'
  BY <1>18 DEF RestartEnable
<1>19. ASSUME NEW p \in Proc, RestartUnflag(p) PROVE StatusInv'
  BY <1>19 DEF RestartUnflag
<1>20. ASSUME NEW p \in Proc, RestartUnlock(p) PROVE StatusInv'
  BY <1>20 DEF RestartUnlock
<1>21. ASSUME NEW p \in Proc, opcache_reset(p) PROVE StatusInv'
  BY <1>21 DEF opcache_reset
<1>22. ASSUME NEW p \in Proc, ScheduleCheck(p) PROVE StatusInv'
  BY <1>22 DEF ScheduleCheck, ScheduleReturn
<1>23. ASSUME NEW p \in Proc, SchedulePending(p) PROVE StatusInv'
  BY <1>23 DEF SchedulePending
<1>24. ASSUME NEW p \in Proc, ScheduleStatus(p) PROVE StatusInv'
  BY <1>24 DEF ScheduleStatus
<1>25. ASSUME NEW p \in Proc, ScheduleDisable(p) PROVE StatusInv'
  BY <1>25 DEF ScheduleDisable
<1>26. ASSUME NEW p \in Proc, ScheduleForce(p) PROVE StatusInv'
  BY <1>26 DEF ScheduleForce, ScheduleReturn
<1>27. ASSUME NEW p \in Proc, persistent_compile_file(p) PROVE StatusInv'
  BY <1>27 DEF persistent_compile_file
<1>28. ASSUME NEW p \in Proc, CompileGuard(p) PROVE StatusInv'
  BY <1>28 DEF CompileGuard
<1>29. ASSUME NEW p \in Proc, accel_restart_is_active(p) PROVE StatusInv'
  BY <1>29 DEF accel_restart_is_active
<1>30. ASSUME NEW p \in Proc, ClearDeadFlag(p) PROVE StatusInv'
  BY <1>30 DEF ClearDeadFlag
<1>31. ASSUME NEW p \in Proc, CompileAdd(p) PROVE StatusInv'
  BY <1>31 DEF CompileAdd, accel_activate_add, Window
<1>32. ASSUME NEW p \in Proc, CompileFind(p) PROVE StatusInv'
  BY <1>32 DEF CompileFind
<1>33. ASSUME NEW p \in Proc, CompileNoKey(p) PROVE StatusInv'
  BY <1>33 DEF CompileNoKey
<1>34. ASSUME NEW p \in Proc, CompileHit(p) PROVE StatusInv'
  BY <1>34 DEF CompileHit, Join
<1>35. ASSUME NEW p \in Proc, CompileMiss(p) PROVE StatusInv'
  BY <1>35 DEF CompileMiss
<1>36. ASSUME NEW p \in Proc, compile_and_cache_file(p) PROVE StatusInv'
  BY <1>36 DEF compile_and_cache_file
<1>37. ASSUME NEW p \in Proc, WorkLock(p) PROVE StatusInv'
  BY <1>37 DEF WorkLock, zend_shared_alloc_lock
<1>38. ASSUME NEW p \in Proc, zend_accel_add_key(p) PROVE StatusInv'
  BY <1>38 DEF zend_accel_add_key
<1>39. ASSUME NEW p \in Proc, MarkCorrupted(p) PROVE StatusInv'
  BY <1>39 DEF MarkCorrupted
<1>40. ASSUME NEW p \in Proc, cache_script_in_shared_memory(p) PROVE StatusInv'
  BY <1>40 DEF cache_script_in_shared_memory, Join
<1>41. ASSUME NEW p \in Proc, WorkUnlock(p) PROVE StatusInv'
  BY <1>41 DEF WorkUnlock, zend_shared_alloc_unlock, AfterUnlock
<1>42. ASSUME NEW p \in Proc, persistent_zend_resolve_path(p) PROVE StatusInv'
  BY <1>42 DEF persistent_zend_resolve_path
<1>43. ASSUME NEW p \in Proc, ResolveFind(p) PROVE StatusInv'
  BY <1>43 DEF ResolveFind
<1>44. ASSUME NEW p \in Proc, ReadGuard(p) PROVE StatusInv'
  BY <1>44 DEF ReadGuard
<1>45. ASSUME NEW p \in Proc, accelerator_shm_read_lock(p) PROVE StatusInv'
  BY <1>45 DEF accelerator_shm_read_lock, accel_activate_add, Window
<1>46. ASSUME NEW p \in Proc, ReadLockCheck(p) PROVE StatusInv'
  BY <1>46 DEF ReadLockCheck, accel_deactivate_sub
<1>47. ASSUME NEW p \in Proc, ReadFind(p) PROVE StatusInv'
  BY <1>47 DEF ReadFind
<1>48. ASSUME NEW p \in Proc, ReadDeref(p) PROVE StatusInv'
  BY <1>48 DEF ReadDeref
<1>49. ASSUME NEW p \in Proc, accelerator_shm_read_unlock(p) PROVE StatusInv'
  BY <1>49 DEF accelerator_shm_read_unlock, accel_deactivate_sub
<1>50. ASSUME NEW p \in Proc, OnEnable(p) PROVE StatusInv'
  BY <1>50 DEF OnEnable
<1>51. ASSUME NEW p \in Proc, Bailout(p) PROVE StatusInv'
  BY <1>51 DEF Bailout
<1>52. ASSUME NEW p \in Proc, accel_deactivate(p) PROVE StatusInv'
  BY <1>52 DEF accel_deactivate, accel_unlock_all, RequestEnds
<1>53. ASSUME NEW p \in Proc, Crash(p) PROVE StatusInv'
  BY <1>53 DEF Crash, Respawn, accel_unlock_all
<1>54. CASE UNCHANGED vars
  BY <1>54 DEF vars
<1> HIDE ProcAssumption, ParameterAssumption DEF OrderlyRestarts, TypeOK,
  LockInv, StatusInv, Step, At, Goto, rest, locks, request, pointers,
  CriticalPC, KillPC, RestartPC, WindowPC, SchedulePC, ReadPC, RequestPC,
  OffPC, Jobs, SharedGlobals
<1>55. QED
  BY <1>1, <1>2, <1>3, <1>4, <1>5, <1>6, <1>7, <1>8, <1>9, <1>10, <1>11,
    <1>12, <1>13, <1>14, <1>15, <1>16, <1>17, <1>18, <1>19, <1>20, <1>21,
    <1>22, <1>23, <1>24, <1>25, <1>26, <1>27, <1>28, <1>29, <1>30, <1>31,
    <1>32, <1>33, <1>34, <1>35, <1>36, <1>37, <1>38, <1>39, <1>40, <1>41,
    <1>42, <1>43, <1>44, <1>45, <1>46, <1>47, <1>48, <1>49, <1>50, <1>51,
    <1>52, <1>53, <1>54 DEF Next, ActivateStep, FunctionStep, LockStep,
    ScriptStep

\* The inductive form.
THEOREM StatusInvHolds ==
    ASSUME OrderlyRestarts
    PROVE  Spec => []StatusInv
<1>1. Init => StatusInv
  BY DEF Init, StatusInv, SchedulePC, OffPC
<1>2. TypeOK /\ LockInv /\ StatusInv /\ [Next]_vars => StatusInv'
  BY OrderlyRestarts, StatusInvStep
<1>3. QED
  BY <1>1, <1>2, TypeCorrect, LockInvHolds, PTL DEF Spec

\* zend_accel_schedule_restart turns the cache off, accel_activate turns it
\* on again: if restarts are orderly it is never off with neither a restart
\* due nor one under way, however many processes schedule, restart and are
\* killed by kill_all_lockers.
THEOREM NeverStuckDisabledAlways ==
    ASSUME OrderlyRestarts
    PROVE  Spec => []NeverStuckDisabled
<1>1. StatusInv => NeverStuckDisabled
  BY DEF StatusInv, NeverStuckDisabled, OffPC, RestartPC, WindowPC
<1>2. QED
  BY <1>1, StatusInvHolds, PTL

-----------------------------------------------------------------------------
(* Where pointers come from.                                               *)

\* The work done for a request that is counted.
CountedJobs == {"key_compile", "corrupt_compile", "store"}
LockPC == {"lock", "work", "unlock"}

\* Only counted requests load code, only holders of byte 1 look up scripts
\* by accelerator_shm_read_lock, and accel_activate starts with no pointer.
PointerInv ==
    \A p \in Proc :
        /\ pc[p] \in ActivatePC \cup {"idle"}
              => ptr[p] = "none" /\ loaded[p] = "none"
        /\ pc[p] \in ActivatePC => cached[p] = "none"
        /\ pc[p] \in {"find", "hit", "miss", "compile"} => counted[p]
        /\ pc[p] \in LockPC \cup SchedulePC /\ job[p] \in CountedJobs
              => counted[p]
        /\ pc[p] \in ReadPC => p \in mem_usage
        /\ pc[p] \in LockPC \cup SchedulePC /\ job[p] = "corrupt_read"
              => p \in mem_usage
        /\ job[p] # "none"
              => pc[p] \in LockPC \cup SchedulePC \cup {"bailed"}
        /\ pc[p] \in SchedulePC /\ ~locked[p] => job[p] = "none"
        /\ ptr[p] # "none" =>
              \/ pc[p] \in {"hit", "deref", "read_unlock", "bailed"}
              \/ pc[p] \in LockPC \cup SchedulePC /\ job[p] # "none"
        /\ loaded[p] # "none" => counted[p]

\* Every step of the specification keeps PointerInv:
\* where a function continues after the
\* exclusive section depends on what it entered it for.
LEMMA PointerInvStep ==
    ASSUME TypeOK, LockInv, CountedInv, PointerInv, [Next]_vars
    PROVE  PointerInv'
<1> USE ProcAssumption, ParameterAssumption DEF TypeOK, LockInv, CountedInv,
  PointerInv, Step, At, Goto, rest, locks, request, pointers, CriticalPC,
  KillPC, RestartPC, WindowPC, SchedulePC, ReadPC, RequestPC, ActivatePC,
  LockPC, CountedJobs, Jobs
<1>1. CASE Tick
  BY <1>1 DEF Tick
<1>2. ASSUME NEW p \in Proc, Activate(p) PROVE PointerInv'
  BY <1>2 DEF Activate, accel_unlock_all
<1>3. ASSUME NEW p \in Proc, ActivatePending(p) PROVE PointerInv'
  BY <1>3 DEF ActivatePending
<1>4. ASSUME NEW p \in Proc, ActivateLock(p) PROVE PointerInv'
  BY <1>4 DEF ActivateLock, zend_shared_alloc_lock
<1>5. ASSUME NEW p \in Proc, ActivateCheck(p) PROVE PointerInv'
  BY <1>5 DEF ActivateCheck
<1>6. ASSUME NEW p \in Proc, accel_is_inactive(p) PROVE PointerInv'
  BY <1>6 DEF accel_is_inactive, Others
<1>7. ASSUME NEW p \in Proc, ActivateUnlock(p) PROVE PointerInv'
  BY <1>7 DEF ActivateUnlock, zend_shared_alloc_unlock
<1>8. ASSUME NEW p \in Proc, KillStart(p) PROVE PointerInv'
  BY <1>8 DEF KillStart
<1>9. ASSUME NEW p \in Proc, Kill(p) PROVE PointerInv'
  BY <1>9 DEF Kill, TriesRunOut, Respawn, accel_unlock_all
<1>10. ASSUME NEW p \in Proc, KillFails(p) PROVE PointerInv'
  BY <1>10 DEF KillFails, TriesRunOut
<1>11. ASSUME NEW p \in Proc, KillCheck(p) PROVE PointerInv'
  BY <1>11 DEF KillCheck, Others
<1>12. ASSUME NEW p \in Proc, RestartClear(p) PROVE PointerInv'
  BY <1>12 DEF RestartClear
<1>13. ASSUME NEW p \in Proc, RestartLock(p) PROVE PointerInv'
  BY <1>13 DEF RestartLock
<1>14. ASSUME NEW p \in Proc, RestartFlag(p) PROVE PointerInv'
  BY <1>14 DEF RestartFlag
<1>15. ASSUME NEW p \in Proc, zend_reset_cache_vars(p) PROVE PointerInv'
  BY <1>15 DEF zend_reset_cache_vars
<1>16. ASSUME NEW p \in Proc, RestartHash(p) PROVE PointerInv'
  BY <1>16 DEF RestartHash, Wiped
<1>17. ASSUME NEW p \in Proc, RestartAlloc(p) PROVE PointerInv'
  BY <1>17 DEF RestartAlloc
<1>18. ASSUME NEW p \in Proc, RestartEnable(p) PROVE PointerInv'
  BY <1>18 DEF RestartEnable
<1>19. ASSUME NEW p \in Proc, RestartUnflag(p) PROVE PointerInv'
  BY <1>19 DEF RestartUnflag
<1>20. ASSUME NEW p \in Proc, RestartUnlock(p) PROVE PointerInv'
  BY <1>20 DEF RestartUnlock
<1>21. ASSUME NEW p \in Proc, opcache_reset(p) PROVE PointerInv'
  BY <1>21 DEF opcache_reset
<1>22. ASSUME NEW p \in Proc, ScheduleCheck(p) PROVE PointerInv'
  BY <1>22 DEF ScheduleCheck, ScheduleReturn
<1>23. ASSUME NEW p \in Proc, SchedulePending(p) PROVE PointerInv'
  BY <1>23 DEF SchedulePending
<1>24. ASSUME NEW p \in Proc, ScheduleStatus(p) PROVE PointerInv'
  BY <1>24 DEF ScheduleStatus
<1>25. ASSUME NEW p \in Proc, ScheduleDisable(p) PROVE PointerInv'
  BY <1>25 DEF ScheduleDisable
<1>26. ASSUME NEW p \in Proc, ScheduleForce(p) PROVE PointerInv'
  BY <1>26 DEF ScheduleForce, ScheduleReturn
<1>27. ASSUME NEW p \in Proc, persistent_compile_file(p) PROVE PointerInv'
  BY <1>27 DEF persistent_compile_file
<1>28. ASSUME NEW p \in Proc, CompileGuard(p) PROVE PointerInv'
  BY <1>28 DEF CompileGuard
<1>29. ASSUME NEW p \in Proc, accel_restart_is_active(p) PROVE PointerInv'
  BY <1>29 DEF accel_restart_is_active
<1>30. ASSUME NEW p \in Proc, ClearDeadFlag(p) PROVE PointerInv'
  BY <1>30 DEF ClearDeadFlag
<1>31. ASSUME NEW p \in Proc, CompileAdd(p) PROVE PointerInv'
  BY <1>31 DEF CompileAdd, accel_activate_add, Window
<1>32. ASSUME NEW p \in Proc, CompileFind(p) PROVE PointerInv'
  BY <1>32 DEF CompileFind
<1>33. ASSUME NEW p \in Proc, CompileNoKey(p) PROVE PointerInv'
  BY <1>33 DEF CompileNoKey
<1>34. ASSUME NEW p \in Proc, CompileHit(p) PROVE PointerInv'
  BY <1>34 DEF CompileHit, Join
<1>35. ASSUME NEW p \in Proc, CompileMiss(p) PROVE PointerInv'
  BY <1>35 DEF CompileMiss
<1>36. ASSUME NEW p \in Proc, compile_and_cache_file(p) PROVE PointerInv'
  BY <1>36 DEF compile_and_cache_file
<1>37. ASSUME NEW p \in Proc, WorkLock(p) PROVE PointerInv'
  BY <1>37 DEF WorkLock, zend_shared_alloc_lock
<1>38. ASSUME NEW p \in Proc, zend_accel_add_key(p) PROVE PointerInv'
  BY <1>38 DEF zend_accel_add_key
<1>39. ASSUME NEW p \in Proc, MarkCorrupted(p) PROVE PointerInv'
  BY <1>39 DEF MarkCorrupted
<1>40. ASSUME NEW p \in Proc, cache_script_in_shared_memory(p) PROVE PointerInv'
  BY <1>40 DEF cache_script_in_shared_memory, Join
<1>41. ASSUME NEW p \in Proc, WorkUnlock(p) PROVE PointerInv'
  BY <1>41 DEF WorkUnlock, zend_shared_alloc_unlock, AfterUnlock
<1>42. ASSUME NEW p \in Proc, persistent_zend_resolve_path(p) PROVE PointerInv'
  BY <1>42 DEF persistent_zend_resolve_path
<1>43. ASSUME NEW p \in Proc, ResolveFind(p) PROVE PointerInv'
  BY <1>43 DEF ResolveFind
<1>44. ASSUME NEW p \in Proc, ReadGuard(p) PROVE PointerInv'
  BY <1>44 DEF ReadGuard
<1>45. ASSUME NEW p \in Proc, accelerator_shm_read_lock(p) PROVE PointerInv'
  BY <1>45 DEF accelerator_shm_read_lock, accel_activate_add, Window
<1>46. ASSUME NEW p \in Proc, ReadLockCheck(p) PROVE PointerInv'
  <2>1. CASE ZCSG.restart_in_progress
    BY <1>46, <2>1 DEF ReadLockCheck, accel_deactivate_sub
  <2>2. CASE ~ZCSG.restart_in_progress
    BY <1>46, <2>2 DEF ReadLockCheck
  <2> QED
    BY <2>1, <2>2
<1>47. ASSUME NEW p \in Proc, ReadFind(p) PROVE PointerInv'
  BY <1>47 DEF ReadFind
<1>48. ASSUME NEW p \in Proc, ReadDeref(p) PROVE PointerInv'
  BY <1>48 DEF ReadDeref
<1>49. ASSUME NEW p \in Proc, accelerator_shm_read_unlock(p) PROVE PointerInv'
  BY <1>49 DEF accelerator_shm_read_unlock, accel_deactivate_sub
<1>50. ASSUME NEW p \in Proc, OnEnable(p) PROVE PointerInv'
  BY <1>50 DEF OnEnable
<1>51. ASSUME NEW p \in Proc, Bailout(p) PROVE PointerInv'
  BY <1>51 DEF Bailout
<1>52. ASSUME NEW p \in Proc, accel_deactivate(p) PROVE PointerInv'
  BY <1>52 DEF accel_deactivate, accel_unlock_all, RequestEnds
<1>53. ASSUME NEW p \in Proc, Crash(p) PROVE PointerInv'
  BY <1>53 DEF Crash, Respawn, accel_unlock_all
<1>54. CASE UNCHANGED vars
  BY <1>54 DEF vars
<1> HIDE ProcAssumption, ParameterAssumption DEF TypeOK, LockInv, CountedInv,
  PointerInv, Step, At, Goto, rest, locks, request, pointers, CriticalPC,
  KillPC, RestartPC, WindowPC, SchedulePC, ReadPC, RequestPC, ActivatePC,
  LockPC, CountedJobs, Jobs
<1>55. QED
  BY <1>1, <1>2, <1>3, <1>4, <1>5, <1>6, <1>7, <1>8, <1>9, <1>10, <1>11,
    <1>12, <1>13, <1>14, <1>15, <1>16, <1>17, <1>18, <1>19, <1>20, <1>21,
    <1>22, <1>23, <1>24, <1>25, <1>26, <1>27, <1>28, <1>29, <1>30, <1>31,
    <1>32, <1>33, <1>34, <1>35, <1>36, <1>37, <1>38, <1>39, <1>40, <1>41,
    <1>42, <1>43, <1>44, <1>45, <1>46, <1>47, <1>48, <1>49, <1>50, <1>51,
    <1>52, <1>53, <1>54 DEF Next, ActivateStep, FunctionStep, LockStep,
    ScriptStep

\* The inductive form.
THEOREM PointerInvHolds == Spec => []PointerInv
<1>1. Init => PointerInv
  BY DEF Init, PointerInv, ActivatePC, KillPC, RestartPC, WindowPC,
         SchedulePC, ReadPC, LockPC, CountedJobs
<1>2. TypeOK /\ LockInv /\ CountedInv /\ PointerInv /\ [Next]_vars
      => PointerInv'
  BY PointerInvStep
<1>3. QED
  BY <1>1, <1>2, TypeCorrect, LockInvHolds, CountedInvHolds, PTL DEF Spec

-----------------------------------------------------------------------------
(* Readers and the restart window.                                         *)

\* Between the probe of byte 1 and the wipe only late processes lock it,
\* and whoever is not late has byte 1 locked when it has a pointer.
LateInv ==
    /\ \A r \in Proc : pc[r] \in WindowPC => mem_usage \ {r} \subseteq late
    /\ \A p \in Proc \ late : pc[p] # "idle" =>
          /\ \/ p \in mem_usage
             \/ ptr[p] = "none" /\ cached[p] = "none" /\ loaded[p] = "none"
          /\ ptr[p] # "stale" /\ cached[p] # "stale" /\ loaded[p] # "stale"

\* Every step of the specification keeps LateInv:
\* a wipe meets no pointer of a process that
\* is not late.
LEMMA LateInvStep ==
    ASSUME TypeOK, LockInv, CountedInv, PointerInv, LateInv, [Next]_vars
    PROVE  LateInv'
<1> USE ProcAssumption, ParameterAssumption DEF TypeOK, LockInv, CountedInv,
  PointerInv, LateInv, Step, At, Goto, rest, locks, request, pointers,
  CriticalPC, KillPC, RestartPC, WindowPC, SchedulePC, ReadPC, RequestPC,
  ActivatePC, LockPC, CountedJobs, Jobs, Window, Pointer
<1>1. CASE Tick
  BY <1>1 DEF Tick
<1>2. ASSUME NEW p \in Proc, Activate(p) PROVE LateInv'
  BY <1>2 DEF Activate, accel_unlock_all
<1>3. ASSUME NEW p \in Proc, ActivatePending(p) PROVE LateInv'
  BY <1>3 DEF ActivatePending
<1>4. ASSUME NEW p \in Proc, ActivateLock(p) PROVE LateInv'
  BY <1>4 DEF ActivateLock, zend_shared_alloc_lock
<1>5. ASSUME NEW p \in Proc, ActivateCheck(p) PROVE LateInv'
  BY <1>5 DEF ActivateCheck
<1>6. ASSUME NEW p \in Proc, accel_is_inactive(p) PROVE LateInv'
  BY <1>6 DEF accel_is_inactive, Others
<1>7. ASSUME NEW p \in Proc, ActivateUnlock(p) PROVE LateInv'
  BY <1>7 DEF ActivateUnlock, zend_shared_alloc_unlock
<1>8. ASSUME NEW p \in Proc, KillStart(p) PROVE LateInv'
  BY <1>8 DEF KillStart
<1>9. ASSUME NEW p \in Proc, Kill(p) PROVE LateInv'
  BY <1>9 DEF Kill, TriesRunOut, Respawn, accel_unlock_all
<1>10. ASSUME NEW p \in Proc, KillFails(p) PROVE LateInv'
  BY <1>10 DEF KillFails, TriesRunOut
<1>11. ASSUME NEW p \in Proc, KillCheck(p) PROVE LateInv'
  BY <1>11 DEF KillCheck, Others
<1>12. ASSUME NEW p \in Proc, RestartClear(p) PROVE LateInv'
  BY <1>12 DEF RestartClear
<1>13. ASSUME NEW p \in Proc, RestartLock(p) PROVE LateInv'
  BY <1>13 DEF RestartLock
<1>14. ASSUME NEW p \in Proc, RestartFlag(p) PROVE LateInv'
  BY <1>14 DEF RestartFlag
<1>15. ASSUME NEW p \in Proc, zend_reset_cache_vars(p) PROVE LateInv'
  BY <1>15 DEF zend_reset_cache_vars
<1>16. ASSUME NEW p \in Proc, RestartHash(p) PROVE LateInv'
  BY <1>16 DEF RestartHash, Wiped
<1>17. ASSUME NEW p \in Proc, RestartAlloc(p) PROVE LateInv'
  BY <1>17 DEF RestartAlloc
<1>18. ASSUME NEW p \in Proc, RestartEnable(p) PROVE LateInv'
  BY <1>18 DEF RestartEnable
<1>19. ASSUME NEW p \in Proc, RestartUnflag(p) PROVE LateInv'
  BY <1>19 DEF RestartUnflag
<1>20. ASSUME NEW p \in Proc, RestartUnlock(p) PROVE LateInv'
  BY <1>20 DEF RestartUnlock
<1>21. ASSUME NEW p \in Proc, opcache_reset(p) PROVE LateInv'
  BY <1>21 DEF opcache_reset
<1>22. ASSUME NEW p \in Proc, ScheduleCheck(p) PROVE LateInv'
  BY <1>22 DEF ScheduleCheck, ScheduleReturn
<1>23. ASSUME NEW p \in Proc, SchedulePending(p) PROVE LateInv'
  BY <1>23 DEF SchedulePending
<1>24. ASSUME NEW p \in Proc, ScheduleStatus(p) PROVE LateInv'
  BY <1>24 DEF ScheduleStatus
<1>25. ASSUME NEW p \in Proc, ScheduleDisable(p) PROVE LateInv'
  BY <1>25 DEF ScheduleDisable
<1>26. ASSUME NEW p \in Proc, ScheduleForce(p) PROVE LateInv'
  BY <1>26 DEF ScheduleForce, ScheduleReturn
<1>27. ASSUME NEW p \in Proc, persistent_compile_file(p) PROVE LateInv'
  BY <1>27 DEF persistent_compile_file
<1>28. ASSUME NEW p \in Proc, CompileGuard(p) PROVE LateInv'
  BY <1>28 DEF CompileGuard
<1>29. ASSUME NEW p \in Proc, accel_restart_is_active(p) PROVE LateInv'
  BY <1>29 DEF accel_restart_is_active
<1>30. ASSUME NEW p \in Proc, ClearDeadFlag(p) PROVE LateInv'
  BY <1>30 DEF ClearDeadFlag
<1>31. ASSUME NEW p \in Proc, CompileAdd(p) PROVE LateInv'
  BY <1>31 DEF CompileAdd, accel_activate_add, Window
<1>32. ASSUME NEW p \in Proc, CompileFind(p) PROVE LateInv'
  BY <1>32 DEF CompileFind
<1>33. ASSUME NEW p \in Proc, CompileNoKey(p) PROVE LateInv'
  BY <1>33 DEF CompileNoKey
<1>34. ASSUME NEW p \in Proc, CompileHit(p) PROVE LateInv'
  BY <1>34 DEF CompileHit, Join
<1>35. ASSUME NEW p \in Proc, CompileMiss(p) PROVE LateInv'
  BY <1>35 DEF CompileMiss
<1>36. ASSUME NEW p \in Proc, compile_and_cache_file(p) PROVE LateInv'
  BY <1>36 DEF compile_and_cache_file
<1>37. ASSUME NEW p \in Proc, WorkLock(p) PROVE LateInv'
  BY <1>37 DEF WorkLock, zend_shared_alloc_lock
<1>38. ASSUME NEW p \in Proc, zend_accel_add_key(p) PROVE LateInv'
  BY <1>38 DEF zend_accel_add_key
<1>39. ASSUME NEW p \in Proc, MarkCorrupted(p) PROVE LateInv'
  BY <1>39 DEF MarkCorrupted
<1>40. ASSUME NEW p \in Proc, cache_script_in_shared_memory(p) PROVE LateInv'
  BY <1>40 DEF cache_script_in_shared_memory, Join
<1>41. ASSUME NEW p \in Proc, WorkUnlock(p) PROVE LateInv'
  BY <1>41 DEF WorkUnlock, zend_shared_alloc_unlock, AfterUnlock
<1>42. ASSUME NEW p \in Proc, persistent_zend_resolve_path(p) PROVE LateInv'
  BY <1>42 DEF persistent_zend_resolve_path
<1>43. ASSUME NEW p \in Proc, ResolveFind(p) PROVE LateInv'
  BY <1>43 DEF ResolveFind
<1>44. ASSUME NEW p \in Proc, ReadGuard(p) PROVE LateInv'
  BY <1>44 DEF ReadGuard
<1>45. ASSUME NEW p \in Proc, accelerator_shm_read_lock(p) PROVE LateInv'
  BY <1>45 DEF accelerator_shm_read_lock, accel_activate_add, Window
<1>46. ASSUME NEW p \in Proc, ReadLockCheck(p) PROVE LateInv'
  BY <1>46 DEF ReadLockCheck, accel_deactivate_sub
<1>47. ASSUME NEW p \in Proc, ReadFind(p) PROVE LateInv'
  BY <1>47 DEF ReadFind
<1>48. ASSUME NEW p \in Proc, ReadDeref(p) PROVE LateInv'
  BY <1>48 DEF ReadDeref
<1>49. ASSUME NEW p \in Proc, accelerator_shm_read_unlock(p) PROVE LateInv'
  BY <1>49 DEF accelerator_shm_read_unlock, accel_deactivate_sub
<1>50. ASSUME NEW p \in Proc, OnEnable(p) PROVE LateInv'
  BY <1>50 DEF OnEnable
<1>51. ASSUME NEW p \in Proc, Bailout(p) PROVE LateInv'
  BY <1>51 DEF Bailout
<1>52. ASSUME NEW p \in Proc, accel_deactivate(p) PROVE LateInv'
  BY <1>52 DEF accel_deactivate, accel_unlock_all, RequestEnds
<1>53. ASSUME NEW p \in Proc, Crash(p) PROVE LateInv'
  BY <1>53 DEF Crash, Respawn, accel_unlock_all
<1>54. CASE UNCHANGED vars
  BY <1>54 DEF vars
<1> HIDE ProcAssumption, ParameterAssumption DEF TypeOK, LockInv, CountedInv,
  PointerInv, LateInv, Step, At, Goto, rest, locks, request, pointers,
  CriticalPC, KillPC, RestartPC, WindowPC, SchedulePC, ReadPC, RequestPC,
  ActivatePC, LockPC, CountedJobs, Jobs, Window, Pointer
<1>55. QED
  BY <1>1, <1>2, <1>3, <1>4, <1>5, <1>6, <1>7, <1>8, <1>9, <1>10, <1>11,
    <1>12, <1>13, <1>14, <1>15, <1>16, <1>17, <1>18, <1>19, <1>20, <1>21,
    <1>22, <1>23, <1>24, <1>25, <1>26, <1>27, <1>28, <1>29, <1>30, <1>31,
    <1>32, <1>33, <1>34, <1>35, <1>36, <1>37, <1>38, <1>39, <1>40, <1>41,
    <1>42, <1>43, <1>44, <1>45, <1>46, <1>47, <1>48, <1>49, <1>50, <1>51,
    <1>52, <1>53, <1>54 DEF Next, ActivateStep, FunctionStep, LockStep,
    ScriptStep

\* A request that locked byte 1 before the probe of a restart keeps its
\* memory until it ends, even when processes are killed or crash.
THEOREM OnlyLateReadersDisturbedAlways == Spec => []OnlyLateReadersDisturbed
<1>1. Init => LateInv
  BY DEF Init, LateInv, WindowPC
<1>2. /\ TypeOK /\ LockInv /\ CountedInv /\ PointerInv
      /\ LateInv /\ [Next]_vars
      => LateInv'
  BY LateInvStep
<1>3. LateInv => OnlyLateReadersDisturbed
  BY DEF LateInv, OnlyLateReadersDisturbed
<1>4. QED
  BY <1>1, <1>2, <1>3, TypeCorrect, LockInvHolds, CountedInvHolds,
     PointerInvHolds, PTL DEF Spec
=============================================================================
