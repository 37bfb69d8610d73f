----------------------------- MODULE SharedAlloc -----------------------------
(***************************************************************************)
(* The allocator of shared memory (zend_shared_alloc.c, shared_alloc_*.c)  *)
(* and what its users tell it: scripts that are stored and become waste,   *)
(* and the restart that takes it back to its state after startup.          *)
(*                                                                         *)
(* Memory is taken from one or more segments, each with a position that    *)
(* only grows: nothing is ever freed.  All of it happens in sections under *)
(* the exclusive lock (see AccelRestart): one action is one such section.  *)
(***************************************************************************)
EXTENDS Integers, Sequences, FiniteSets, FiniteSetsExt

CONSTANTS
    Handlers,        \* memory models of the build: "mmap", "posix", "shm"
    Requested,       \* opcache.memory_consumption, in bytes
    SegMax, SegMin,  \* SEG_ALLOC_SIZE_MAX and _MIN
    Alignment,       \* PLATFORM_ALIGNMENT
    MinFree,         \* MIN_FREE_MEMORY
    Limit,           \* UINT_MAX + 1
    MaxWasted,       \* opcache.max_wasted_percentage
    GlobalsSize, SegmentSize, PositionSize,  \* what startup allocates first,
    Structures,      \* and then: globals, hash tables, interned strings
    ScriptSizes,     \* results of zend_accel_script_persist_calc
    KeySizes         \* lengths of keys

ASSUME SizeAssumption ==
    /\ {Requested, SegMax, SegMin, Alignment, Limit, MinFree, MaxWasted,
         GlobalsSize, SegmentSize, PositionSize} \subseteq Nat \ {0}
    /\ Structures \in Seq(Nat \ {0})
    /\ ScriptSizes \cup KeySizes \subseteq Nat \ {0}
    /\ Handlers \subseteq {"mmap", "posix", "shm"}

VARIABLES
    phase,                 \* "create", "startup", "running", "failed"
    segments,              \* ZSMMG(shared_segments): sizes and positions
    shared_free,
    wasted_shared_memory,
    memory_exhausted,
    saved,                 \* ZSMMG(shared_memory_state)
    restart_pending,
    hash_full,             \* the hash table has no entry left
    blocks                 \* history: what was allocated, and lives

vars == <<phase, segments, shared_free, wasted_shared_memory,
          memory_exhausted, saved, restart_pending, hash_full, blocks>>

Segment == [size : Nat, pos : Nat]
Use == {"startup", "key", "script", "corrupted"}

\* A block is what the caller may write: asked bytes from first on.
Block == [segment : Nat, first : Nat, asked : Nat, use : Use]

TypeOK ==
    /\ phase \in {"create", "startup", "running", "failed"}
    /\ segments \in Seq(Segment)
    /\ shared_free \in Nat
    /\ wasted_shared_memory \in Nat
    /\ memory_exhausted \in BOOLEAN
    /\ saved \in [positions : Seq(Nat), shared_free : Nat]
    /\ restart_pending \in BOOLEAN
    /\ hash_full \in BOOLEAN
    /\ blocks \subseteq Block

Init ==
    /\ phase = "create"
    /\ segments = <<>>
    /\ shared_free = Requested
    /\ wasted_shared_memory = 0
    /\ memory_exhausted = FALSE
    /\ saved = [positions |-> <<>>, shared_free |-> 0]
    /\ restart_pending = FALSE
    /\ hash_full = FALSE
    /\ blocks = {}

-----------------------------------------------------------------------------
(* Widths.                                                                 *)

Aligned(n) == ((n + Alignment - 1) \div Alignment) * Alignment

\* A size_t stored in an unsigned int, and in an int.
AsUnsigned(n) == n % Limit
AsInt(n) == IF n % Limit < Limit \div 2 THEN n % Limit
            ELSE (n % Limit) - Limit

-----------------------------------------------------------------------------
(* Segments.                                                               *)

OneSegment == <<[size |-> Requested, pos |-> 0]>>

\* The shm model halves the size of its segments, first while the request is
\* small, then while the system refuses it.  Bound: 16 times.
Halves == {s \in 1..SegMax : \E k \in 0..16 : s = SegMax \div 2^k}
FirstHalf == CHOOSE s \in Halves :
    /\ Requested * 2 > s \/ s <= SegMin
    /\ \A t \in Halves : t > s => Requested * 2 <= t /\ t > SegMin
SegmentSizes == {s \in Halves : SegMin <= s /\ s <= FirstHalf}

\* Mutant: the last segment is as long as the others.
Layout_FullLast(n) ==
    [i \in 1..((Requested - 1) \div n) + 1 |-> [size |-> n, pos |-> 0]]

\* The last segment takes the remaining bytes.
Layout(n) ==
    [i \in 1..((Requested - 1) \div n) + 1 |->
        [size |-> IF i * n <= Requested THEN n ELSE Requested - (i - 1) * n,
         pos |-> 0]]

Layouts(h) == IF h = "shm" THEN {Layout(n) : n \in SegmentSizes}
              ELSE {OneSegment}

\* zend_shared_alloc_startup tries the handlers until one works.
Create ==
    /\ phase = "create"
    /\ \/ /\ phase' = "startup"
          /\ \E h \in Handlers : segments' \in Layouts(h)
       \/ /\ phase' = "failed"
          /\ UNCHANGED segments
    /\ UNCHANGED <<shared_free, wasted_shared_memory, memory_exhausted, saved,
                   restart_pending, hash_full, blocks>>

-----------------------------------------------------------------------------
(* zend_shared_alloc.                                                      *)

Room(i) == segments[i].size - segments[i].pos
Fits(n) == {i \in DOMAIN segments : Room(i) >= n}

\* SHARED_ALLOC_FAILED looks at the largest free block.
LargestIsSmall == \A i \in DOMAIN segments : Room(i) < MinFree

\* The first segment with room for the block takes it.
Allocate(size, use) ==
    LET n == AsUnsigned(Aligned(size)) IN
    /\ n <= shared_free
    /\ \E i \in Fits(n) :
         /\ \A j \in Fits(n) : i <= j
         /\ segments' = [segments EXCEPT ![i].pos = @ + n]
         /\ blocks' = blocks \cup
              {[segment |-> i, first |-> segments[i].pos, asked |-> size,
                use |-> use]}
    /\ shared_free' = shared_free - n

Fails(size) ==
    LET n == AsUnsigned(Aligned(size)) IN n > shared_free \/ Fits(n) = {}

\* A large block that does not fit exhausts nothing.
ExhaustedBy == memory_exhausted \/ LargestIsSmall

-----------------------------------------------------------------------------
(* Startup: one process, before any request.                               *)

StartupSizes ==
    <<GlobalsSize, SegmentSize * Len(segments), PositionSize * Len(segments)>>
    \o Structures

\* zend_shared_alloc_startup and zend_accel_init_shm allocate one structure
\* after the other; a failure is fatal.
Startup ==
    LET n == Cardinality(blocks) + 1 IN
    /\ phase = "startup" /\ n \in DOMAIN StartupSizes
    /\ \/ /\ Allocate(StartupSizes[n], "startup")
          /\ UNCHANGED phase
       \/ /\ Fails(StartupSizes[n])
          /\ phase' = "failed"
          /\ UNCHANGED <<segments, shared_free, blocks>>
    /\ UNCHANGED <<wasted_shared_memory, memory_exhausted, saved,
                   restart_pending, hash_full>>

zend_shared_alloc_save_state ==
    /\ phase = "startup" /\ Cardinality(blocks) = Len(StartupSizes)
    /\ phase' = "running"
    /\ saved' = [positions |-> [i \in DOMAIN segments |->
                                    AsInt(segments[i].pos)],
                 shared_free |-> shared_free]
    /\ UNCHANGED <<segments, shared_free, wasted_shared_memory,
                   memory_exhausted, restart_pending, hash_full, blocks>>

-----------------------------------------------------------------------------
(* Users of the allocator, each in a section under the exclusive lock.     *)

Wasteful(w) == w * 100 >= MaxWasted * Requested

\* zend_accel_schedule_restart_if_necessary
ScheduleIf(condition) ==
    restart_pending' = (restart_pending \/
                        (condition /\ Wasteful(wasted_shared_memory')))

\* A failed allocation of zend_accel_add_key or cache_script_...
Failed(size) ==
    /\ Fails(size)
    /\ memory_exhausted' = ExhaustedBy
    /\ UNCHANGED <<segments, shared_free, wasted_shared_memory, blocks>>
    /\ ScheduleIf(TRUE)

Taken(size, use) ==
    /\ Allocate(size, use)
    /\ UNCHANGED <<wasted_shared_memory, memory_exhausted, restart_pending>>

\* cache_script_in_shared_memory
StoreScript ==
    /\ phase = "running" /\ ~hash_full
    /\ \E size \in ScriptSizes : Taken(size, "script") \/ Failed(size)
    /\ UNCHANGED <<phase, saved, hash_full>>

\* zend_accel_add_key
AddKey ==
    /\ phase = "running" /\ ~hash_full
    /\ \E size \in KeySizes : Taken(size, "key") \/ Failed(size)
    /\ UNCHANGED <<phase, saved, hash_full>>

\* Either finds the hash table full, as it may be once it holds something.
HashFull ==
    /\ phase = "running"
    /\ hash_full \/ \E b \in blocks : b.use # "startup"
    /\ hash_full' = TRUE
    /\ memory_exhausted' = TRUE
    /\ UNCHANGED <<segments, shared_free, wasted_shared_memory, blocks>>
    /\ ScheduleIf(TRUE)
    /\ UNCHANGED <<phase, saved>>

\* Mutant: also a script that is corrupted already.
Corrupt_Again ==
    /\ phase = "running"
    /\ \E b \in blocks :
         /\ b.use \in {"script", "corrupted"}
         /\ blocks' = (blocks \ {b}) \cup {[b EXCEPT !.use = "corrupted"]}
         /\ wasted_shared_memory' = wasted_shared_memory + Aligned(b.asked)
    /\ ScheduleIf(memory_exhausted)
    /\ UNCHANGED <<phase, segments, shared_free, memory_exhausted, saved,
                   hash_full>>

\* Mutant: a restart is thought of only when an allocation fails.
Corrupt_NoRestart ==
    /\ phase = "running"
    /\ \E b \in blocks :
         /\ b.use = "script"
         /\ blocks' = (blocks \ {b}) \cup {[b EXCEPT !.use = "corrupted"]}
         /\ wasted_shared_memory' = wasted_shared_memory + Aligned(b.asked)
    /\ UNCHANGED <<phase, segments, shared_free, memory_exhausted, saved,
                   hash_full, restart_pending>>

\* A script is found to be outdated, or invalidated: its memory is waste.
Corrupt ==
    /\ phase = "running"
    /\ \E b \in blocks :
         /\ b.use = "script"
         /\ blocks' = (blocks \ {b}) \cup {[b EXCEPT !.use = "corrupted"]}
         /\ wasted_shared_memory' = wasted_shared_memory + Aligned(b.asked)
    /\ ScheduleIf(memory_exhausted)
    /\ UNCHANGED <<phase, segments, shared_free, memory_exhausted, saved,
                   hash_full>>

opcache_reset ==
    /\ phase = "running"
    /\ restart_pending' = TRUE
    /\ UNCHANGED <<phase, segments, shared_free, wasted_shared_memory,
                   memory_exhausted, saved, hash_full, blocks>>

\* Mutant: from the beginning.
Restored_FromZero == [i \in DOMAIN segments |->
                         [segments[i] EXCEPT !.pos = 0]]

Restored == [i \in DOMAIN segments |->
                [segments[i] EXCEPT !.pos = saved.positions[i]]]

\* The restart in accel_activate, with zend_shared_alloc_restore_state.
Restart ==
    /\ phase = "running" /\ restart_pending
    /\ restart_pending' = FALSE
    /\ hash_full' = FALSE
    /\ segments' = Restored
    /\ shared_free' = saved.shared_free
    /\ memory_exhausted' = FALSE
    /\ wasted_shared_memory' = 0
    /\ blocks' = {b \in blocks : b.use = "startup"}
    /\ UNCHANGED <<phase, saved>>

Next ==
    \/ Create \/ Startup \/ zend_shared_alloc_save_state
    \/ StoreScript \/ AddKey \/ HashFull \/ Corrupt \/ opcache_reset
    \/ Restart

Spec == Init /\ [][Next]_vars

-----------------------------------------------------------------------------
(* Correctness.                                                            *)

\* What is asked for is handed out within a segment, below its position, and
\* to nobody else, also after a restart: what was allocated at startup must
\* survive every restart.
BlocksDisjoint ==
    /\ \A b \in blocks :
         /\ b.segment \in DOMAIN segments
         /\ b.first >= 0
         /\ b.first + b.asked <= segments[b.segment].pos
         /\ segments[b.segment].pos <= segments[b.segment].size
    /\ \A b, c \in blocks :
         \/ b = c
         \/ b.segment # c.segment
         \/ b.first + b.asked <= c.first
         \/ c.first + c.asked <= b.first

\* What is left in each segment.
Rooms == [i \in DOMAIN segments |-> Room(i)]

\* "Amount of free shared memory": what is left in the segments, no less (an
\* allocation with "no hope" would fail though it could succeed) and no more.
FreeIsExact == segments # <<>> => shared_free = SumFunction(Rooms)

\* The memory that each block takes, and the blocks that are of no use.
Lengths == [b \in blocks |-> Aligned(b.asked)]
Garbage == {b \in blocks : b.use = "corrupted"}

\* "Amount of shared memory allocated by garbage", from which the use of
\* memory is reported and restarts are decided.
WasteIsCorrupted ==
    /\ wasted_shared_memory = SumFunctionOnSet(Lengths, Garbage)
    /\ wasted_shared_memory <= Requested - shared_free

\* "No more shared memory flag": nothing worth mentioning is left, or the
\* hash table is full.
ExhaustedIsReal ==
    memory_exhausted /\ ~hash_full => LargestIsSmall

\* The only way out of exhaustion is a restart, and no request will try to
\* allocate any more: it must be scheduled by whoever comes second, be it the
\* one that exhausts memory or the one that wastes the threshold.
ExhaustedWasteRestarts ==
    memory_exhausted /\ Wasteful(wasted_shared_memory) => restart_pending

(* What the documentation promises, and the code does not do.              *)

\* README, opcache.max_wasted_percentage: "The maximum percentage of wasted
\* memory until a restart is scheduled".
WasteSchedulesRestart ==
    phase = "running" /\ Wasteful(wasted_shared_memory) => restart_pending
=============================================================================
