# A TLA+ development of Zend OPcache (ZendOptimizerPlus)

This directory holds TLA+ specifications of the shared opcode cache in this
repository, their TLC configurations and TLAPS proofs. It models the build for
Unix without ZTS (locks are `fcntl()` locks on one file) against PHP 5.3 or
later. Line numbers refer to the sources next to this directory.

`tlc -config X.cfg M` runs configuration `X.cfg` of module `M` (the `MC...`
module of the component), `tlapm MProofs.tla` checks the proofs.
`PROJECT.json` lists every run, the lines each definition stands for, a mutant
of the code for every property, the hazards and the theorems.

## 1. The system

A PHP server forks processes that all map one shared memory segment. A process
handles one request after another; `accel_activate` opens a request and
`accel_deactivate` closes it. While a request runs, the compiler hook
`persistent_compile_file` looks scripts up in a hash table in the segment, or
compiles them and stores them there. Memory of the segment is never freed one
by one. Scripts that become outdated are marked `corrupted` and counted as
waste. A *restart* of the cache resets the hash table and the allocator to
their state after startup, while the other processes go on serving requests.

| Component | Source | State | Operations |
| --- | --- | --- | --- |
| Restart and locking | `ZendAccelerator.c` 471-639, 1051-1102, 1452-1689, 1962-2144, 2328-2355, 2712-2772; `zend_shared_alloc.c` 369-425 | flags of `zend_accel_shared_globals`; three byte locks; `ZCG(counted)`, `ZCG(locked)`, `ZCG(enabled)` | activate, deactivate, schedule, force, kill lockers, restart, count in, read lock |
| Shared hash table | `zend_accelerator_hash.c` | `hash_table`, `hash_entries`, `num_entries`, `num_direct_entries` | init, clean, update, find, find_entry |
| Shared allocator | `zend_shared_alloc.c`, `shared_alloc_*.c` | segments with positions, `shared_free`, `wasted_shared_memory`, `memory_exhausted`, saved state | startup, alloc, save, restore |
| Script cache | `ZendAccelerator.c` 750-915, 1051-1226, 1279-1689, 1962-2051; `zend_accelerator_module.c` 319-334 | persistent scripts: path, time stamp, `revalidate`, `corrupted`, checksum | look up, validate, store, add key, invalidate |
| Keys and include paths | `ZendAccelerator.c` 150-246, 917-1049, 2609-2638 | `include_paths` table, `ZCG(include_path_key)`, `ZCG(cwd)` | change include path, make key |
| Interned strings | `ZendAccelerator.c` 278-467, 2431-2466 | buffer, table of chains with an order list, saved state | intern, save, restore |
| Persisting | `zend_persist.c`, `zend_persist_calc.c`, `zend_shared_alloc.c` 326-354, 427-445 | translation table, `ZCG(mem)` | calculate a size, copy |
| Loading | `zend_accelerator_util_funcs.c` | tables of the request | copy functions and classes, bind early |
| Blacklist | `zend_accelerator_blacklist.c` | patterns | load, compile, match |
| Module | `zend_accelerator_module.c` | directives | reset, invalidate, status, turn off at run time |
| Optimizer | `Optimizer/` | an op array, its graph of blocks | passes 1, 2, 3, 5, 9, 10 |
| Others | `zend_accelerator_debug.c`, `shared_alloc_win32.c`, build files, tests | | logging; Windows |

They interact through the segment. The allocator trusts that its caller holds
the exclusive lock. The hash table is written under that lock and read without
it. The restart trusts that nobody else uses the segment, which it finds out
from the locks that processes hold on byte 1 of the lock file. A failed
allocation, a full table or new waste may schedule a restart.

What is hard about it:

* flags in the segment are read and written with no lock, and a decision taken
  from them may be outdated when it is acted on;
* `fcntl()` locks belong to a process, disappear when it dies, and `F_GETLK`
  answers about the past;
* a process may be killed at any instruction, by a forced restart or otherwise,
  and a script may be unwound from any depth by a timeout;
* lookups run concurrently with one writer;
* everything restarts in place, without stopping the processes.

What makes each component correct: *restart* - sections under the exclusive
lock never overlap, a restart starts only when nobody uses the segment, it
happens at last, and the cache comes back on afterwards; *hash table* - a name
finds the script of its file whatever is going on, names never clash, and the
table never overflows; *allocator* - blocks are disjoint, also across restarts,
counters tell the truth, and exhaustion leads to a restart; *script cache* - a
script is served only for the file it was compiled from, and at most
`revalidate_freq` seconds after it changed; *interned strings* - one address
stands for one string, and what a script or the engine refers to is not
overwritten; *keys* - two requests share a key
only if they mean the same file; *persisting* - the size calculated is the size
used, what was shared is shared again, and the copy means what the original
did; *loading* - a request gets a copy of everything it may change or free;
*optimizer* - an optimized op array does what the original did.

## 2. Modules

| Module | What it is |
| --- | --- |
| `AccelRestart` | restart, locks and requests; one action per access to a shared flag or lock |
| `AccelRestartProofs` | types, lock discipline, counted requests, exclusion of restarts, which readers a restart cannot disturb, and that the cache comes back on |
| `AccelMap` | what the hash table promises: files and links to files |
| `AccelHash` | the hash table and the protocol that uses it; implements `AccelMap` |
| `AccelHashProofs` | chains stay sound; names find their files and the table is a map, where only keys move |
| `SharedAlloc` | segments, allocation, waste, saved and restored state |
| `SharedAllocProofs` | blocks stay disjoint and the counters tell the truth, for every layout; exhaustion and waste restart |
| `IncludePaths` | the letters that stand for include paths in keys, across restarts |
| `IncludePathsProofs` | letters stay unique; keys with a letter that was not freed are right |
| `ScriptCache` | when a cached script may still be used: time stamps, revalidation, corruption, links |
| `ScriptCacheProofs` | no script is lost or counted twice, and links are followed, for all files and settings |
| `ScriptCacheTimestampProofs` | what a time stamp tells of a script, and how old a served script can be |
| `InternedStrings` | the buffer, chains and list of interned strings, saved and restored |
| `InternedStringsProofs` | one address for one string, chains, list and references, through restarts and deaths |
| `Opcodes` | the engine: oplines, what executing them does, and a small compiler (external) |
| `BlockPass` | the functions of pass 5: blocks, their sources, patterns, jumps, assembly |
| `Optimizer` | the passes in their order, one step for each change; extends `BlockPass` |
| `ScriptMemory` | the memory a script lies in: objects, tables, what a request owns |
| `Persist` | measuring a script and copying it to shared memory |
| `LoadScript` | copying a stored script into a request, call by call |
| `LoadScriptProofs` | loading leaves shared memory alone, and what a request owns is its own, for all stored scripts |
| `StoredScript` | the life of a script from compilation to later requests; extends `Persist` and `LoadScript` |
| `MC...` | constants, inputs and symmetry for TLC |

They compose by extension (`Optimizer`, `StoredScript`, the proofs), by
refinement (`AccelHash` and `AccelMap`), and otherwise by what one takes for
granted of another: a section under the exclusive lock is one action in
`SharedAlloc`, `ScriptCache` and `InternedStrings` because `AccelRestart` shows
such sections to exclude each other; lookups are atomic in `ScriptCache` because
`AccelHash` shows the table to be a map.

A definition named after a C function (`accel_is_inactive`,
`zend_shared_alloc_save_state`) models it. A function that touches shared state
more than once is several actions (`RestartClear`, `RestartLock`, ...,
`RestartUnlock` are the body of the restart in `accel_activate`).

### AccelRestart

`ZCSG` is the record of shared flags. `shm_lock`, `mem_usage` and `restart_lock`
are the owners of bytes 0, 1 and 2 of the lock file. `pc` says where each
process is, with one value for each point at which another process can
interfere. `ptr`, `cached` and `loaded` are the pointers into the segment that a
process has at hand, keeps for the next include, or executes; a pointer is
`live` or, once the table has been wiped under it, `stale`.

* `Activate` ... `ActivateUnlock` are `accel_activate` (2066-2144), with
  `accel_is_inactive` (610-639) and `kill_all_lockers` (568-607) inside it.
* `opcache_reset` and `Schedule*` are `zend_accel_schedule_restart` (2712-2733).
* `persistent_compile_file`, `Compile*`, `compile_and_cache_file`, `WorkLock`,
  `zend_accel_add_key`, `MarkCorrupted`, `cache_script_in_shared_memory` and
  `WorkUnlock` are the compiler hook and its sections under byte 0.
* `ReadGuard` ... `accelerator_shm_read_unlock` are the readers outside of it:
  `zend_accel_invalidate` and the status functions.
* `OnEnable`, `Bailout`, `Crash`, `accel_deactivate`: a script that turns the
  cache off, is unwound, dies, or ends.

Data that the properties do not tell apart is left out: which script a pointer
points to, how much memory is wasted (whether waste passes the threshold is a
free choice in `ScheduleReturn`), how often `kill()` is tried (`TriesRunOut` is
a choice), and time, of which only `Tick` remains: the moment when
`force_restart_time` has passed. A killed process is replaced by a fresh one
(`Respawn`), as the server does.

### AccelHash and AccelMap

The table is modelled with its entries and chains, at the grain that a lookup
without the lock can observe: reaching the next entry (`Walk`), reading
`indirect` (`FindMatch`), following it (`FindFollow`), reading `data`
(`FindData`); and on the writing side filling an entry (`Fill`), publishing it
(`Publish`), relinking (`Relink`) and converting it (`Convert`). Names are real
paths (`Path`) or other keys (`Key`); `realpath` is the file system, in which
the names in `Moving` may come to mean another file. The hash function is a
constant. Links are followed to the end where an entry is stored (`Follow`), for
one step where one is looked up (`Direct`), as the code does.
`revalidate_path` is off, its default; when on, no keys are linked
and the table is a plain map.

`AccelMap` states what a client sees: a script for each real path, and for
each other name a link to one. `hash_table` checks that the table implements
it (`ImplementsMap`).

### SharedAlloc

One action is one section under the exclusive lock, which `AccelRestart` shows
to be exclusive. Segments are laid out by the `mmap` and `posix` models (one
segment) or the `shm` model (several, halved until the system grants one:
`Layout`). Startup allocates its structures, the positions are saved, then
scripts and keys are stored, fail, become waste, and restarts take the
positions back. The widths of the C types are kept: a block size goes through
`unsigned int` (`AsUnsigned`), a saved position through `int` (`AsInt`), with
`Limit` for 2^32. `blocks` is a history of what was handed out.

### IncludePaths

`include_paths` is the table in the order of its entries, `memory` the bytes of
the segment at which letters lie, `cached` what scripts are cached under a key
that ends in a letter or in a whole include path: the rest of the key, a
relative name and a directory, is the same for all. `include_path_key` is the
pointer to a letter that a process keeps, also between requests.
`accel_include_path_on_modify` looks the new value up without the lock
(`ModifyFind`) and enters it under the lock (`ModifySection`);
`accel_make_persistent_key` makes up for it if the value was changed while the
cache was off (`KeySection`). A restart is two actions: `Probe`, in
`accel_activate`, finds that no other request is counted, and `Wipe` takes all
entries but the first out of the table and their memory back (`Restarted`). In
between it has the exclusive lock (`Locked`), but a request that has found the
cache in use (`persistent_compile_file`) may still be counted in
(`accel_activate_add`). `late` is who was; what else happens during a restart is
the subject of `AccelRestart`. Scripts, and keys that are linked to one
(`Store`), take memory too and leave any byte in `Byte` in it.

An include path may be as short as a letter: one that is both a member of
`IncludePath` and a number stands for the path `B`, say, which nothing in the
code tells from the letter `B` at the end of a key (`Ambiguous`). `stale` and
`tainted` are history too: the processes whose letter was freed while they
pointed to it, and the keys under which one of them, or a process whose key is
ambiguous, has stored a script.

An empty include path, which PHP refuses, and the directory of the including
script are left out.

### ScriptCache

`inode` is what files hold and when each was last written, `path` where real
paths lead, `target` where a symbolic link leads; others write, replace, delete
and turn them at any time. `scripts` are the persistent scripts in the order in
which they were stored, `hash` the real paths' entries and `key` the entry that
the key of the link refers to. One action is one look at the cache without the
lock, one call to the file system, or one section under the lock:
`persistent_compile_file` is `FindByKey`, `OpenFile`, `FindByPath`, `Check`,
`Stat` (the two halves of `validate_timestamp_and_record`, with
`do_validate_timestamps` in them), `Invalidate`, `Miss` and `Compile`
(`compile_and_cache_file`), `cache_script_in_shared_memory` and `Use`.
`persistent_zend_resolve_path` is the lookup of `include_once`, and
`filename_is_in_cache` that of the overridden file functions, `FindByKey` with
`op` equal to `is_file`; what the lookup finds is examined by the rest of the
request (`resolved`). `zend_accel_invalidate` joins in at `stat` or
`invalid`. `outdated`, `left` and `shunned` are history: until when a content
was that of its path, until when the link led to a file, what was corrupted
before a call began.

A file's content is a number, and no two contents are alike. No restart takes
place: `AccelRestart` is about those, and memory that has run out stays
exhausted. Streams without a time stamp, files without a full path and
compiling to nothing but an error (a choice in `Compile`) are not told apart.

### InternedStrings

A string lies at an address of the buffer and takes `Size` of it. `mem` holds
the strings that are whole, with the four links of their buckets.
`accel_new_interned_string` is five actions, between which the process may be
killed (`Killed`): `FindString`, `BufferOverflow`, `CreateString`, `EnterChain`,
`AppendToList`. Startup interns the strings of the engine and calls
`save_state`; a script that is stored interns its own (`StoreScript`); a
restart restores the heads of all chains, one action each (`RestoreBucket`),
then list and top (`Restored`). `php` and `scripts` are the references that
the engine and the stored scripts keep.

### Opcodes, BlockPass, Optimizer

`Opcodes` stands for the engine, as far as the patterns of the optimizer rely on
it: `Compiled` makes an op array of a small syntax tree the way the engine's
compiler does, `Execute` runs it for given values of the variables. The
functions of pass 5 are functions of the graph of blocks (`BlockPass`); the
passes are actions (`Optimizer`), each of which changes one opline or one
block, so that the properties are checked between all of them. What an op array
does while it is cut into blocks is what `Linked` blocks do.

Left out: calls, exceptions, `foreach`, `new`, silence, `goto`, the folding of
functions and of constants by name, and code inside `#if 0`. Scripts are those for which
the passes are right, as far as checking has shown; it also showed families for
which they are not, which the inputs leave out: scripts that begin with a loop
(`optimizer_entry`); loops whose body is nothing but a test of the variable that
they test themselves; `do ... while` with a condition that becomes constant only
in pass 5; `$a . 'b' . ($a = 'x')`, where a conversion of `$a` is moved behind
the assignment; and an array constant added to a variable in pass 1.

### ScriptMemory, Persist, LoadScript, StoredScript

Memory is a graph of objects. An address says whose memory it is: the
compiler's, shared memory (`shm`), the buffer of interned strings (`pool`), a
request's (`req`). An object has its pointers, a size and a reference count; a
hash table is its buckets in order with their keys. A size counts what
`zend_shared_memdup` and its mates take for an object, with a number for each
kind. The `..._calc` functions add sizes up; those of `zend_persist.c` copy,
enter the translation table, give the original back (an error if it was given
back before or belongs to somebody else: `bad`) and translate pointers.
Function pointers are names (`Call`).

`LoadScript` copies classes, methods, properties and statics with `bind_hash`
(`bind`). Its functions call each other to any depth; `calls` are the calls that
are due, and a step is one function without those it calls: the head of `calls`
is for the pointer at one place of an object of the request, of which it makes
the copy (`Clone`), the copy that `bind` has (`Redirect`), or nothing (`Return`),
and its own calls come before the rest. So the state in between is seen, an
error (`Fail`) leaves what is half done, and there is no recursion, which the
proofs could not be about. The loops of `zend_hash_unique_copy` are `LoadTable`.
What loading takes for granted of a stored script is `Stored`: pointers lead to
shared objects of their kinds (`WellFormed`), and classes refer to classes
before them, to their own methods and to theirs, all of them marked (`Linked`).

In `StoredScript` a script is compacted, measured, allocated for or not,
persisted part by part, and then loaded by requests in which some of its names
may be taken, twice in one of them, or executed as it was compiled when there
was no room.

Twelve handlers of a class are represented by two, for all are treated alike.
Left out: `compiler_halt_offset`, delayed early binding, the tables that the
compiler borrows (`zend_accel_move_user_functions`), and the addresses inside
hash tables, of which only the order of the list remains.

## 3. Runs

| Run | Question | Result |
| --- | --- | --- |
| `restart_requests` | all kinds of requests and restarts, with a death at any point and lockers that cannot be killed: may a flag be stale, what is kept between requests, who can be disturbed? | only the dead leave a flag; nothing; late readers |
| `restart_unwound` | scripts that are unwound anywhere or turn the cache off, lockers that are killed: is the exclusive lock always with its owner? | yes |
| `restart_liveness` | does a scheduled restart happen, is the lock given back, does the cache come back on? | yes |
| `hash_table` | lookups, stores and links, also in a full table: what is found, and is the table a map? | the file's script; yes |
| `hash_links` | files that become links and back | chains stay sound |
| `alloc` | one segment or several, exhaustion, waste, restarts: are blocks disjoint, are free and wasted memory what is free and wasted, does waste that matters bring a restart? | yes |
| `include_paths` | are letters unique, and right for a process whose own was not freed under it? under whom are letters freed? | yes, but for paths that look like letters; those not counted when the restart looked |
| `script_cache` | how old can a served script be, is a file compiled too early kept as new, is a script lost or wasted twice, is a link followed? | at most `revalidate_freq`, unless the link was turned away from the file; no; no; with `revalidate_path` |
| `interned_strings` | does an address stand for one string, across restarts and deaths? | yes |
| `optimizer` | does an op array do the same after every step of every pass? | yes, for these scripts |
| `optimizer_entry` | does the block where a script begins stay in use when it is the head of a loop? | no |
| `stored_script` | is the size that is calculated used, nothing freed twice, the copy alike and as loading needs it, and nothing shared changed or owned by a request? | yes |

Further configurations, outside the runs that are listed in `PROJECT.json`,
vary the parameters or show further disagreements of the code with what it
says of itself:

| Configuration | Module | Shows |
| --- | --- | --- |
| `restart_flag_lost` | `MCAccelRestart` | violated: a restart can run with its flag down |
| `restart_starved` | `MCAccelRestart` | violated: no restart happens after its scheduler was killed halfway |
| `readlock_not_safe` | `MCAccelRestart` | violated, both of them (TLC stops at the first unless given `-continue`): neither a reader with the read lock nor a counted request is safe from a restart |
| `readlock_leaked` | `MCAccelRestart` | violated: `zend_accel_invalidate` returns at line 1067 with the read lock |
| `scheduled_twice` | `MCAccelRestart` | violated: two `opcache_reset` schedule one restart twice |
| `killing_never_ends` | `MCAccelRestart` | violated: `kill_all_lockers` does not end if a process cannot be killed |
| `hash_other_file` | `MCAccelHash` | violated, both of them (TLC stops at the first unless given `-continue`): a link that becomes a file is stored under another path; when a file becomes a link, a lookup returns an entry for a script |
| `alloc_waste_kept` | `MCSharedAlloc` | violated: waste beyond `max_wasted_percentage` schedules nothing while memory is left |
| `alloc_truncated` | `MCSharedAlloc` | violated: a block larger than an `unsigned int` overlaps the next |
| `alloc_restore_truncated` | `MCSharedAlloc` | violated: a position larger than an `int` is restored wrongly |
| `stale_include_path` | `MCIncludePaths` | violated: a process keeps the letter of its include path after a restart gave it to another |
| `letter_include_path` | `MCIncludePaths` | violated: an include path that looks like a letter, whole at the end of a key, is taken for the path of that letter |
| `link_change` | `MCScriptCache` | violated: without `revalidate_path` a link that was turned goes on leading to the old script, although time stamps are validated |
| `checked_often` | `MCScriptCache` | violated: a script outdated exactly `revalidate_freq` seconds ago may still be used |
| `unprotected` | `MCScriptCache` | violated: without `file_update_protection` a script made of an older content has the time stamp of the newer one |
| `dups_fix` | `MCStoredScript` | violated: with `opcache.dups_fix` an error while a class is loaded leaves the class in the request's table with members in shared memory |

### What the violations say

`OnlyLateReadersDisturbed` and the properties of `readlock_not_safe` and
`restart_flag_lost` belong together. The restart probes
byte 1, and only later raises `restart_in_progress`. A process that locks byte 1 in between is *late*: it
does not know that a restart is under way, and its memory is wiped
(`ReadLockIsSafe` and `CountedIsSafe` in `readlock_not_safe`, against comments
at `ZendAccelerator.c:2755` and `:2749`). Every other process is safe, and that is
checked and proved. `restart_flag_lost` is a second way to lose the flag: a
process that saw the flag of one restart, and asked the kernel when it had
ended, clears the flag of the next.

`scheduled_twice` is why `NeverStuckDisabled` is checked only where no script
calls `opcache_reset`: that function schedules without the lock, and the second
of two schedulers saves the state in which the first has already switched the
cache off. In `restart_starved` a forced restart kills a scheduler halfway.

The hash table is sound as long as a real path stays a file
(`hash_table`, where only keys move). Once a path that was cached as a file
becomes a symbolic link, its entry becomes indirect, and other entries point
to it; `zend_accel_hash_find` follows one step only (`FindReturnsScript` in
`hash_other_file`). In the other direction the script of a path is written into
the entry of another (`StoredUnderItsPath`).

`stale_include_path`: a restart waits for counted requests only. A process that
is idle with an include path other than that of the startup (a pool whose
`include_path` is set when its processes start), or that runs uncounted, keeps
its pointer to a letter that is freed. The memory is used again, at best for
the letter of another path, and from then on both make the same keys. What
holds is `CountedStaysFresh`, that a restart frees no letter under a request that
was counted when it looked for those (a late one is not safe, see above), and
`FreshKeysMeanPaths`, that all others are right until such a process stores
something under their key.

`letter_include_path`: when the table is full, or before a path is registered,
the whole path ends the key (`ZendAccelerator.c:951-953`, `:1030`). A path of a
single byte, such as the directory `B`, then makes the key that the second path
of the table makes with its letter, `'A' + 1` (`:973`), and a relative name
finds a script of the other path. One process is enough. Nothing excludes such
paths, so `FreshKeysMeanPaths` excepts their keys, and nothing else of them: with
a letter of their own they are like all others.

`optimizer_entry`: in `while ($b) { echo 1; if ($b) break; }` at the very start
of a script, the jump back to the loop is threaded past its condition, as both
test the same variable. `del_source` then finds the block of the condition
without sources and takes it for unused (`block_pass.c:379`), since nothing
stands for the start of the script among its sources. The sources are counted
again after each round, but in between the block is skipped, and the op array
does something else in the end.

`dups_fix`: a class whose name is taken is skipped, and so is unknown to
`bind_hash`. A class of the same script that inherits from it raises an error
in the middle of being copied (`zend_accelerator_util_funcs.c:481`), when it is
in the request's class table already.

`link_change` is what `revalidate_path` is for, although the comment at
`ZendAccelerator.c:829` promises it of the validation of time stamps: the path
of the script that the key leads to is compared with the path that was opened,
and a key that was found opens nothing.

### Bounds, and why they are enough

* `AccelRestart`: two processes show every race between two; a third, such as a
  scheduler that is neither the restarter nor the disturbed reader, is left to
  the proofs, which are about any number. `MaxCrashes = 1` lets a death meet every state; deaths by
  `kill_all_lockers` are not bounded. What does not depend on the number of
  processes is proved for all.
* `AccelHash`: two processes and a table of three entries in one chain, the
  longest chains there are. `hash_table` has two paths and two keys for them, so
  that the table fills up, and two scripts; `hash_links` three names and three
  scripts, so that a path is stored, becomes a link, and is stored again. Each
  script is stored once.
* `SharedAlloc`: memory of 40 bytes in segments of 8 to 32 gives one to five
  segments with a rest; sizes 5, 9 and 1 leave gaps and fill segments to the
  last byte; the limit on widths is out of reach in `alloc`, and just within
  reach in the two truncation runs. The `shm` layouts are halved at most 16
  times. `alloc` runs with `CHECK_DEADLOCK FALSE` since a server without memory
  does not start.

* `ScriptCache`: two processes, so that one changes what the other has in hand;
  a file and a link, or two files and a link that is turned; two contents and
  three seconds (`Start` to `End`), which are enough for a script to be stored,
  outdated and checked before and after `revalidate_freq` = 1 and
  `file_update_protection` = 1; room for two scripts, so that memory runs out
  with the third. `Cases` are the settings with the calls that they matter for:
  all of them in one run would be a product of what does not interact.
  `CHECK_DEADLOCK` is `FALSE` because time ends.
* `InternedStrings`: four strings of one or two units in two chains and a
  buffer of six units: three of them share a chain, startup takes half of the
  buffer and the scripts do not fit together. Two deaths let one restart be
  interrupted after another. `MaxCount` bounds how many strings are ever made.
  `CHECK_DEADLOCK` is `FALSE` because of these bounds.
* `Optimizer`: every condition of one or two operators with `if`, `?:` and
  `elvis` inside; loops and switches alone and in each other, with every way of
  leaving them; strings of up to three pieces; some 1900 scripts under three sets
  of passes, executed with variables that are false, true and arrays. `Fuel`
  (oplines executed) and `Cap` (characters compared) are larger than what any
  loop needs to show its period.
* `StoredScript`: scripts with up to three classes in a line of inheritance or siblings,
  overridden and inherited methods, statics, shared arrays, prototypes, trait
  rules, comments saved and loaded or not; a buffer of interned strings that is
  off, too small, or large enough; shared memory with too little or enough room; any of
  the script's names taken. A request includes a script at most twice.
* `IncludePaths`: two processes, since a letter has one owner and one other; the
  path of the startup and two more for a table of two, so that it fills up and
  paths compete for a letter; in `include_paths` and `letter_include_path` one of
  them is a single byte, the second letter; three blocks of memory, so that it
  runs out. In `include_paths` the data of scripts looks like the first letter
  (`Byte = {1}`), the worst it can look like; in the other two it is no letter at
  all, so that only letters are to blame.

### Fairness

`FairSpec` of `AccelRestart` assumes: time passes; requests keep arriving at
each process (`WF` of `Activate`); code that does not wait goes on (`WF`); the
kernel grants a lock that is free again and again to a blocked process (`SF` of
the two locking steps); a script ends at last, though it may call functions any
number of times before (`SF` of `accel_deactivate`). Nothing is assumed of the
choices of a script, of timeouts or crashes.

## 4. Proofs

For every set of processes, every workload and any number of crashes
(assumptions: `NoProc` is not a process, and the types of the parameters):

* `TypeCorrect`: types, including that a process never becomes its own victim.
* `LockDisciplineHolds`, from `LockInv`: `LockDiscipline` alone is not
  inductive. It needs the converse (whoever owns byte 0 knows it), the places
  where a process may own it, and that a process whose cache is disabled does
  not.
* `CountedHoldsReadLockAlways` and `IdleHoldsNothingAlways`, from `CountedInv`
  and `LockInv`; the second under the assumption that no script disables the
  cache, without which it is false.
* `RestartInvHolds`, `DeadFlagMeansDeathAlways`: byte 2 is locked exactly in
  the body of the restart, so restarts exclude each other; a raised flag with
  nobody in that body is left only by a death.
* `OnlyLateReadersDisturbedAlways`, from `PointerInv` (whoever holds a pointer
  is counted or holds byte 1) and `LateInv` (while a restart is between probe
  and wipe, whoever holds byte 1 has come late).
* `NeverStuckDisabledAlways`, under `OrderlyRestarts`: no script calls
  `opcache_reset` or is unwound, and no process dies but those that a forced
  restart kills. Each of the three leaves the cache off for good: the first
  in `scheduled_twice`, the others when TLC is given them in that workload.
  `StatusInv` says why it holds: what a restart puts back,
  `cache_status_before_restart`, is true whenever one can begin, since its one
  scheduler found the cache on, and had no restart pending, under byte 0.

For every set of processes, paths, keys and scripts, every size of the table
and hash function (`AccelHash`, assumption `HashAssumption`):

* `TypesHold`, `ChainsStaySound` and `DirectEntriesAreCounted`, whatever files
  move, from `Inv` of `AccelHashProofs`. It says that each entry is linked to
  the last one before it in its slot and each slot to the last one published
  (`Chains`), that an entry without a script is a link or becoming one
  (`Data`), and where a walk can be: in the slot of what it looks for
  (`Search`), and under the lock past no entry with that name, so that none is
  entered twice.
* `NamesFindTheirFiles`, `ScriptsAreFound` and `TableImplementsMap` under
  `OnlyKeysMove`: a path that was a file stays one. `hash_other_file` shows that without it they are false. `Files` adds
  that entries of paths are direct and lead to their own scripts, and that
  those of keys lead to an entry of a path; `HasFile` adds what a process has
  in hand. For the refinement each action is shown to be one step of `AccelMap`
  or to leave the map alone.

For every size, layout, alignment and sequence of restarts of `SharedAlloc`
(assumption `SizeAssumption`):

* `AllocInvHolds`, `AllocTypeCorrect`, `BlocksDisjointAlways`, under `Wide`:
  no size and no position is truncated. The inductive invariant adds that
  positions stay within segments, and that the blocks of startup lie below the
  saved positions.
* `ExhaustedWasteRestartsAlways`, without `Wide`.
* `FreeIsExactAlways`, `WasteIsCorruptedAlways` and `ExhaustedIsRealAlways`,
  under `Wide`. The counters are sums, over segments and over blocks. `FreeInv`
  adds the sum that was saved; `WasteInv` adds that what was lent and what is
  free make up what was saved, so that waste is bounded by what was taken. What
  a sum over a set is when an element is added, taken away or changed is proved
  first, by induction on the set: a set of numbers, or of finite sets, that
  lacked one would lack a minimal one (`Numbers`, `Subsets`, from the theorem
  `WFMin` of the library).

For every set of processes and include paths, every size of the table and of
memory (`IncludePaths`, assumption `PathAssumption`):

* `TypeCorrect`, `LettersStayCorrect`, `FreshKeysCorrect`,
  `CountedStaysFreshCorrect`, from `Inv` of `IncludePathsProofs`. It adds to the
  properties that letters lie below `top`, so that no script is written over
  them (`Table`); that a process which is not stale points to the letter of its
  own path (`OwnLetter`) and so does the key that it is using (`OwnKey`); that
  nothing is cached under letters not in use (`Clean`), which a restart is what
  makes true of the letters it frees; that only requests are counted; and that
  during a restart nobody is counted but late requests (`OnlyLateCounted`). The
  assumption says little: include paths are any values, letters among them.

For every set of processes and files, all settings, sizes of memory and changes
to files and links (`ScriptCache`, assumption `CaseAssumption`):

* `NoScriptIsLostAlways`, `WastedOnceAlways`, `LinkFollowedAlways`, from `Inv`
  of `ScriptCacheProofs`. It adds to the properties that a script which is found
  under a path is that of the path (`Found`), that `revalidate_path` leaves the
  link without a key, that what the link leads to now was never left (`Links`),
  and that a process which follows the link has opened what it led to during
  the request and holds the script of that file (`Followed`). Every step of a
  process does one of three things to the scripts: it keeps them, marks one, or
  adds one (`ScriptsStep`).
* `TimestampTellsAlways` and `BoundedStalenessAlways`, under `Protected`:
  `file_update_protection` is not 0 (`unprotected` shows what happens if it
  is). `Stamps` says that among the files which pass for a path under one time
  stamp (`Dated`: at the path, or open in a request that began later) at most
  one was not written this second (`Unique`), and that what is being compiled
  or is stored under a time stamp is what that file holds. `Ages` says until
  when contents were current: what a request has open, during it; what is
  stored, after its time stamp and `revalidate_freq` before it is due to be
  checked.

For every set of strings, every table, buffer and script and any number of
deaths (`InternedStrings`, assumptions of that module):

* `StringsAreShared`, `ReferencesStayGood`, `ChainsAlwaysHold`,
  `StartupStaysFound`, `LinksAlwaysAgree`, from `Inv` of
  `InternedStringsProofs`: strings do not overlap and lead down chains of
  their own index (`Whole`); the saved chains are the ends of those in use
  (`Tables`), which is what lets a restart be interrupted anywhere and begun
  again; references lead below the top, those of startup below the saved one
  (`References`); and as long as nobody was killed, all but the string in hand
  are in their chain and in the list (`InUse`).

For every stored script, of whatever classes, functions and arrays, all names a
request may have declared, and any number of requests (`LoadScript`, assumption
`LoadAssumption`; the hypothesis on the script is `Stored`, in the initial state
of `LoadSpec`):

* `LoadInvariant`, from which the others follow: `IInv` of `LoadScriptProofs`.
  It says that each call that is due is for a place of one of the request's own
  objects, where it finds a pointer into shared memory of the kind it takes, a
  link, or a table copied so far (`Fits`); that no two calls are for one place,
  but those for the buckets of one table (`Distinct`); and that a place the
  request owns either leads to nothing shared or has a call due (`Owns`). That
  is what makes the end of the calls the end of what is shared. Links need
  more, as they are redirected to what other calls have registered: every class
  and method that an earlier class shows by its count is in `bind`, or a call
  that is due will put it there (`Registering`), and what a link leads to is
  registered by a call that comes before the link's own (`Ready`), for methods
  come before handlers in `zend_class_copy_ctor`, and classes in the order in
  which they were declared. Without `Ready` the invariant is not inductive:
  `Rescope` could fail with half a class copied.
* `SharedIsUnchanged`: no step writes to shared memory, ignoring duplicates or
  not, failing or not. `StaysWellFormed`: so the next request finds the script
  as the last one did.
* `OwnsItsOwn`, if duplicates are not ignored, and `OwnsNothingSharedUnlessBroken`
  in any case: if they are, a class that was skipped is missed by one that
  inherits from it (`dups_fix`), and what was due is never done.

The proof has a lemma for each function, and under it what its copy holds, what
its calls find, and that they cover what the copy owns (`CopyWorks`,
`StepKeeps`). `stored_script` checks that what `Persist` leaves in shared memory
is `Stored` (`StoredIsWellFormed`), which is where the theorems begin, and the
inductive invariant was checked on the scripts of that run, with `ignore_dups`
both ways, before it was proved.

Only model-checked: liveness (`PendingRestartHappens`, `ExclusiveLockReturned`;
fairness is out of the prover's reach), and all of `BlockPass`, `Optimizer` and
`Persist`, with what `StoredScript` says of storing (`SizeIsRight`,
`GivenBackOnce`, `StoredAlike`) and of the shape of the loaded script
(`LoadedAlike`, which is about paths through two graphs). These are built from
recursive operators over graphs and op arrays, and the prover has no arithmetic
in modules that use such operators. The library's induction theorems do not help: they take
an operator as a parameter, which the prover cannot instantiate. The induction
on sets above does without one, but serves folds over sets.

Every other property that a passing run checks is a theorem, and some theorems say what
no run repeats (the types of `AccelRestart`, `SharedAlloc` and `IncludePaths`,
`RestartInvHolds`, `ExhaustedIsRealAlways`). Some need `Wide`, `OnlyKeysMove`,
`Protected`, `OrderlyRestarts`, or that no script turns the cache off, and hold
for the parameters that these allow.

## 5. Not modelled

ZTS and Windows, and engines before PHP 5.3. Parsing of directives, status
output, logging. `mprotect`. Checksums: shared memory is not damaged in the
models. Startup is one process before all others. In `SharedAlloc` the string
of the first include path is one of the structures of startup (in the code its
failure is not fatal). The
blacklist: patterns are compiled to regular expressions once at startup, a
conversion of text with no state afterwards; that a file is not cached is a
choice in `AccelHash` (`NotCached`). The parts of a key other than the include
path: working directory, directory of the including script, streams. What is
left out inside a modelled component is named with its module in section 2.

## 6. Plan

1. `AccelRestart`, `AccelHash`, `SharedAlloc`, `IncludePaths`, with proofs
   (done).
2. `ScriptCache`, `InternedStrings`, `Optimizer` with `BlockPass` and
   `Opcodes`, `StoredScript` with `Persist` and `LoadScript` (done).
3. Proofs about `ScriptCache`, time stamps included, `InternedStrings`, the
   counters of `SharedAlloc` and the return of the cache in `AccelRestart`
   (done).
4. Proofs of the chains and counts of `AccelHash`, and, where paths stay files,
   of the refinement of `AccelMap` (done).
5. Proofs that loading leaves the shared script alone and copies all that a
   request owns (done).
6. The other parts of a key; the packing of blacklist patterns.
7. That persisting makes a script `Stored`, which needs `Persist` without
   recursion, as `LoadScript` is now.
8. Composition: `SharedAlloc` under the locks of `AccelRestart`.
