-------------------------- MODULE ScriptCacheProofs --------------------------
(***************************************************************************)
(* No script in shared memory is lost, none is counted as wasted twice,    *)
(* and with revalidate_path links are followed: for all processes, files,  *)
(* settings, sizes of memory and changes to the files.                     *)
(***************************************************************************)
EXTENDS ScriptCache, FiniteSetTheorems, SequenceTheorems, TLAPS

-----------------------------------------------------------------------------
(* The inductive invariant.                                                *)

Inode == [mtime : Nat, holds : Nat]
Cell == [file : File, holds : Nat, timestamp : Nat, revalidate : Nat,
         corrupted : BOOLEAN]
Label == {"run", "open", "entry", "check", "stat", "resolved", "invalid",
          "miss", "compile", "store", "load", "yes"}

\* The types of the files, as far as the proofs need them.
DiskType ==
    /\ now \in Start..End
    /\ inode \in Seq(Inode)
    /\ path \in [File -> 0..Len(inode)]
    /\ target \in File
    /\ outdated \in Seq(Nat)
    /\ left \in [File -> 0..Forever]

\* The types of the shared memory.
SharedType ==
    /\ ini \in Setting
    /\ scripts \in Seq(Cell)
    /\ hash \in [File -> 0..Len(scripts)]
    /\ key \in File \cup {None}
    /\ wasted \in Nat

\* The types of what processes have in hand.
LocalType ==
    /\ pc \in [Proc -> Label]
    /\ name \in [Proc -> File \cup {Link}]
    /\ request_time \in [Proc -> Start..End]
    /\ opened \in [Proc -> File \cup {None}]
    /\ handle \in [Proc -> 0..Len(inode)]
    /\ ptr \in [Proc -> 0..Len(scripts)]
    /\ made \in [Proc -> [timestamp : Nat, holds : Nat]]

\* What a process has in hand where it is.
Point(p) ==
    /\ pc[p] \in {"stat", "resolved", "invalid", "load", "yes"} => ptr[p] # 0
    /\ pc[p] \in {"entry", "compile", "store"} => opened[p] # None
    /\ pc[p] = "compile" => handle[p] # 0
    /\ handle[p] # 0 => opened[p] # None
    /\ pc[p] = "run" => opened[p] = None
    /\ request_time[p] <= now

\* A script is found under its own path or not at all.
Found ==
    /\ \A f \in File : hash[f] # 0 => scripts[hash[f]].file = f
    /\ NoScriptIsLost

\* A link that is followed has no key, what it leads to was found during
\* the request, and so was the file of the script in hand.
Followed(p) ==
    name[p] = Link =>
        /\ opened[p] # None => left[opened[p]] >= request_time[p]
        /\ /\ pc[p] \in {"check", "stat", "resolved", "invalid",
                         "load", "yes"}
           /\ ptr[p] # 0
           => scripts[ptr[p]].file = opened[p]

Links ==
    /\ left[target] = Forever
    /\ ini.revalidate_path => key = None /\ \A p \in Proc : Followed(p)

Types == DiskType /\ SharedType /\ LocalType /\ \A p \in Proc : Point(p)

Inv == Types /\ Found /\ WastedOnce /\ Links

-----------------------------------------------------------------------------
(* Helpers.                                                                *)

\* An existing file has an inode, and links lead to what they led to last.
LEMMA ResolveFinds ==
    ASSUME DiskType, NEW n \in File \cup {Link}
    PROVE  /\ Resolve(n) \in File \cup {None}
           /\ Resolve(n) # None => path[Resolve(n)] \in 1..Len(inode)
           /\ n = Link /\ Resolve(n) # None => Resolve(n) = target
<1>1. Len(inode) \in Nat
  BY LenProperties DEF DiskType
<1> QED
  BY <1>1, CaseAssumption DEF Resolve, DiskType

\* A lookup finds a script, or none.
LEMMA LookupFinds ==
    ASSUME SharedType, NEW n \in File \cup {Link}
    PROVE  /\ Lookup(n) \in 0..Len(scripts)
           /\ n = Link /\ key = None => Lookup(n) = 0
<1>1. Len(scripts) \in Nat
  BY LenProperties DEF SharedType
<1> QED
  BY <1>1 DEF Lookup, SharedType

\* Back in the script, a process has nothing in hand.
LEMMA ReturnType ==
    ASSUME LocalType, SharedType, DiskType, NEW p \in Proc, Return(p)
    PROVE  /\ pc' = [pc EXCEPT ![p] = "run"]
           /\ name' \in [Proc -> File \cup {Link}]
           /\ opened' \in [Proc -> File \cup {None}] /\ opened'[p] = None
           /\ handle' \in [Proc -> 0..Len(inode)] /\ handle'[p] = 0
           /\ ptr' \in [Proc -> 0..Len(scripts)]
           /\ made' \in [Proc -> [timestamp : Nat, holds : Nat]]
           /\ \A q \in Proc \ {p} :
                 /\ name'[q] = name[q] /\ opened'[q] = opened[q]
                 /\ handle'[q] = handle[q] /\ ptr'[q] = ptr[q]
<1>1. Len(scripts) \in Nat /\ Len(inode) \in Nat
  BY LenProperties DEF SharedType, DiskType
<1>2. Nothing \in [timestamp : Nat, holds : Nat]
  BY DEF Nothing
<1> QED
  BY <1>1, <1>2 DEF Return, Goto, Set, LocalType

-----------------------------------------------------------------------------
(* The initial states.                                                     *)

\* The invariant holds at the start.
LEMMA Initially == Init => Inv
<1> SUFFICES ASSUME Init
             PROVE  Inv
  OBVIOUS
<1>1. PICK c \in Cases, just \in BOOLEAN,
           number \in Bijection(bound.files, 1..Cardinality(bound.files)) :
        /\ ini = c.ini /\ bound = c.bound
        /\ inode = [i \in 1..Cardinality(bound.files) |->
                      [mtime |-> IF just THEN Start ELSE i, holds |-> i]]
        /\ path = [f \in File |-> IF f \in bound.files THEN number[f] ELSE 0]
  BY DEF Init
<1>2. /\ ini \in Setting /\ bound.files \subseteq File
      /\ IsFiniteSet(bound.files)
  BY <1>1, CaseAssumption DEF Bound
<1> DEFINE n == Cardinality(bound.files)
<1>3. n \in Nat
  BY <1>2, FS_CardinalityType
<1>4. number \in [bound.files -> 1..n]
  BY DEF Bijection, Injection
<1> HIDE DEF n
<1>5. inode \in [1..n -> Inode]
  BY <1>1, CaseAssumption DEF Inode, n
<1>6. inode \in Seq(Inode) /\ Len(inode) = n
  BY <1>3, <1>5, SeqDef, LenProperties
<1>7. path \in [File -> 0..n]
  BY <1>1, <1>2, <1>3, <1>4
<1>8. outdated \in [1..n -> Nat]
  BY CaseAssumption DEF Init, Forever, n
<1>9. outdated \in Seq(Nat)
  BY <1>3, <1>8, SeqDef
<1>10. /\ target \in File
       /\ Start \in Nat /\ End \in Nat /\ Start <= End
  BY <1>2, CaseAssumption DEF Init
<1>11. scripts = <<>> /\ scripts \in Seq(Cell) /\ Len(scripts) = 0
       /\ DOMAIN scripts = {}
  BY EmptySeq, LenProperties DEF Init
<1>12. now = Start
  BY DEF Init
<1>13. DiskType
  <2>1. left = [f \in File |-> IF f = target THEN Forever ELSE 0]
    BY DEF Init
  <2> QED
    BY <1>6, <1>7, <1>9, <1>10, <1>12, <2>1 DEF DiskType, Forever
<1>14. SharedType
  BY <1>2, <1>11 DEF Init, SharedType
<1>15. LocalType /\ \A p \in Proc : Point(p)
  <2>1. /\ pc = [p \in Proc |-> "run"]
        /\ name = [p \in Proc |-> Link]
        /\ request_time = [p \in Proc |-> Start]
        /\ opened = [p \in Proc |-> None]
        /\ handle = [p \in Proc |-> 0] /\ ptr = [p \in Proc |-> 0]
        /\ made = [p \in Proc |-> Nothing]
    BY DEF Init
  <2>2. LocalType
    <3>1. Nothing \in [timestamp : Nat, holds : Nat]
      BY DEF Nothing
    <3>2. "run" \in Label
      BY DEF Label
    <3>3. 0 \in 0..Len(inode) /\ 0 \in 0..Len(scripts)
      BY <1>3, <1>6, <1>11
    <3>4. Start \in Start..End
      BY <1>10
    <3> QED
      BY <2>1, <3>1, <3>2, <3>3, <3>4 DEF LocalType
  <2>3. ASSUME NEW p \in Proc
        PROVE  Point(p)
    <3>1. /\ pc[p] = "run" /\ request_time[p] = now
          /\ opened[p] = None /\ handle[p] = 0
      BY <1>12, <2>1
    <3> QED
      BY <1>10, <1>12, <3>1 DEF Point
  <2> QED
    BY <2>2, <2>3
<1>16. Found
  BY <1>11 DEF Init, Found, NoScriptIsLost
<1>17. WastedOnce
  <2>1. {s \in DOMAIN scripts : Corrupted(s)} = {}
    BY <1>11
  <2> QED
    BY <2>1, FS_EmptySet DEF Init, WastedOnce
<1>18. Links
  BY <1>10, <1>11 DEF Init, Links, Followed
<1> QED
  BY <1>13, <1>14, <1>15, <1>16, <1>17, <1>18 DEF Inv, Types

-----------------------------------------------------------------------------
(* What others do to the files.                                            *)

\* Time passes, inodes are kept, and what the link led to it still leads to
\* or did until now.
FilesMove ==
    /\ DiskType'
    /\ now <= now' /\ Len(inode) <= Len(inode')
    /\ UNCHANGED <<ini, shared, pc, local>>
    /\ \A f \in File, t \in Start..now : left[f] >= t => left'[f] >= t
    /\ left[target] = Forever => left'[target'] = Forever

\* Every change to the files is of that kind.
LEMMA FilesStep == DiskType /\ Files => FilesMove
<1> SUFFICES ASSUME DiskType, Files
             PROVE  FilesMove
  OBVIOUS
<1>1. /\ Len(inode) \in Nat /\ DOMAIN inode = 1..Len(inode)
      /\ Len(outdated) \in Nat /\ DOMAIN outdated = 1..Len(outdated)
      /\ outdated \in [1..Len(outdated) -> Nat]
  BY LenProperties DEF DiskType
<1>2. now \in Nat /\ now \in Start..End /\ Forever \in Nat /\ now <= Forever
  BY CaseAssumption DEF DiskType, Forever
<1>3. CASE Tick
  BY <1>1, <1>2, <1>3, CaseAssumption
     DEF Tick, local, history, FilesMove, DiskType, Forever
<1>4. ASSUME NEW f \in File, Turn(f)
      PROVE  FilesMove
  <2>1. /\ left' \in [File -> 0..Forever] /\ target' \in File
        /\ left'[target'] = Forever
        /\ \A g \in File, t \in Start..now : left[g] >= t => left'[g] >= t
    <3>1. /\ target' = f
          /\ left' = [left EXCEPT ![target] = now, ![f] = Forever]
          /\ left \in [File -> 0..Forever] /\ target \in File
      BY <1>4 DEF Turn, DiskType
    <3> QED
      BY <1>2, <3>1, CaseAssumption
  <2>2. UNCHANGED <<ini, now, inode, path, outdated, shared, pc, local>>
    BY <1>4 DEF Turn
  <2>3. DiskType'
    BY <2>1, <2>2 DEF DiskType
  <2> QED
    BY <1>1, <1>2, <2>1, <2>2, <2>3 DEF FilesMove
<1>5. ASSUME NEW f \in File, Change(f)
      PROVE  outdated' \in Seq(Nat)
  <2> DEFINE current == IF path[f] = 0 THEN outdated
                        ELSE [outdated EXCEPT ![inode[path[f]].holds] = now]
  <2>1. current \in [1..Len(outdated) -> Nat]
    BY <1>1, <1>2
  <2>2. current \in Seq(Nat)
    BY <1>1, <2>1, SeqDef
  <2> QED
    BY <1>2, <1>5, <2>2, AppendProperties DEF Change
<1> DEFINE Still == UNCHANGED <<ini, now, target, left, shared, pc, local>>
<1>6. ASSUME Still, outdated' \in Seq(Nat), inode' \in Seq(Inode),
             Len(inode) <= Len(inode'), path' \in [File -> 0..Len(inode')]
      PROVE  FilesMove
  BY <1>2, <1>6 DEF FilesMove, DiskType
<1>7. ASSUME NEW f \in File, Write(f)
      PROVE  FilesMove
  <2>1. path[f] \in 1..Len(inode) /\ path' = path /\ Still
    BY <1>1, <1>7 DEF Write, DiskType
  <2>2. [mtime |-> now, holds |-> Len(outdated) + 1] \in Inode
    BY <1>1, <1>2 DEF Inode
  <2>3. inode' \in Seq(Inode) /\ Len(inode') = Len(inode)
    BY <1>7, <2>1, <2>2, ExceptSeq DEF Write, DiskType
  <2>4. outdated' \in Seq(Nat)
    BY <1>5, <1>7 DEF Write
  <2> QED
    BY <1>1, <1>6, <2>1, <2>3, <2>4 DEF DiskType
<1>8. ASSUME NEW f \in File, Replace(f)
      PROVE  FilesMove
  <2>1. PICK mtime \in {now, Len(outdated) + 1} :
          inode' = Append(inode, [mtime |-> mtime, holds |-> Len(outdated) + 1])
    BY <1>8 DEF Replace
  <2>2. [mtime |-> mtime, holds |-> Len(outdated) + 1] \in Inode
    BY <1>1, <1>2 DEF Inode
  <2>3. inode' \in Seq(Inode) /\ Len(inode') = Len(inode) + 1
    BY <2>1, <2>2, AppendProperties DEF DiskType
  <2>4. outdated' \in Seq(Nat) /\ Still
        /\ path' = [path EXCEPT ![f] = Len(inode) + 1]
    BY <1>5, <1>8 DEF Replace
  <2>5. path' \in [File -> 0..(Len(inode) + 1)]
    BY <1>1, <2>4 DEF DiskType
  <2> QED
    BY <1>1, <1>6, <2>3, <2>4, <2>5
<1>9. ASSUME NEW f \in File, Delete(f)
      PROVE  FilesMove
  <2>1. outdated' \in [1..Len(outdated) -> Nat] /\ Still /\ inode' = inode
    BY <1>1, <1>2, <1>9 DEF Delete
  <2>2. outdated' \in Seq(Nat)
    BY <1>1, <2>1, SeqDef
  <2>3. path' \in [File -> 0..Len(inode)]
    BY <1>1, <1>9 DEF Delete, DiskType
  <2> QED
    BY <1>1, <1>6, <2>1, <2>2, <2>3 DEF DiskType
<1> QED
  BY <1>3, <1>4, <1>7, <1>8, <1>9 DEF Files

-----------------------------------------------------------------------------
(* What processes do: the parts of the state that they leave alone.        *)

\* Nothing but its own is changed of what processes have in hand.
Others(p) ==
    \A q \in Proc \ {p} :
        /\ pc'[q] = pc[q] /\ name'[q] = name[q] /\ opened'[q] = opened[q]
        /\ handle'[q] = handle[q] /\ ptr'[q] = ptr[q]
        /\ request_time'[q] = request_time[q]

\* A process changes no files and nothing of another process.
LEMMA ProcessFrame ==
    ASSUME Types, NEW p \in Proc, Process(p)
    PROVE  UNCHANGED <<ini, disk, history>> /\ Others(p)
<1> USE DEF Types, LocalType, Others, Set, Goto, local, file_handle, held
<1>1. CASE accel_activate(p)
  BY <1>1 DEF accel_activate
<1>2. ASSUME NEW o \in {"include", "is_file"}, NEW n \in File \cup {Link},
             FindByKey(p, o, n)
      PROVE  UNCHANGED <<ini, disk, history>> /\ Others(p)
  BY <1>2 DEF FindByKey
<1>3. ASSUME NEW n \in File \cup {Link}, persistent_zend_resolve_path(p, n)
      PROVE  UNCHANGED <<ini, disk, history>> /\ Others(p)
  BY <1>3 DEF persistent_zend_resolve_path
<1>4. ASSUME NEW n \in File \cup {Link}, NEW force \in BOOLEAN,
             zend_accel_invalidate(p, n, force)
      PROVE  UNCHANGED <<ini, disk, history>> /\ Others(p)
  BY <1>4 DEF zend_accel_invalidate
<1>5. CASE OpenFile(p)
  BY <1>5 DEF OpenFile, Return
<1>6. CASE FindByPath(p)
  BY <1>6 DEF FindByPath
<1>7. CASE Check(p)
  BY <1>7 DEF Check, Return, Accept
<1>8. CASE Stat(p)
  BY <1>8 DEF Stat, Return, Accept
<1>9. CASE Invalidate(p)
  BY <1>9 DEF Invalidate, Return
<1>10. CASE Miss(p)
  BY <1>10 DEF Miss, Return
<1>11. CASE Compile(p)
  BY <1>11 DEF Compile, Return
<1>12. CASE cache_script_in_shared_memory(p)
  BY <1>12 DEF cache_script_in_shared_memory, Return
<1>13. CASE Use(p)
  BY <1>13 DEF Use, Return
<1> QED
  BY <1>1, <1>2, <1>3, <1>4, <1>5, <1>6, <1>7, <1>8, <1>9, <1>10, <1>11,
     <1>12, <1>13 DEF Process

-----------------------------------------------------------------------------
(* The scripts in shared memory.                                           *)

\* Scripts are added, and keep their path.
SharedMove ==
    /\ SharedType'
    /\ Len(scripts) <= Len(scripts')
    /\ \A s \in 1..Len(scripts) : scripts'[s].file = scripts[s].file

\* A process that only adds a key changes no script.
LEMMA KeyMove ==
    ASSUME Types, key' \in File \cup {None},
           UNCHANGED <<ini, scripts, hash, wasted>>
    PROVE  SharedMove
BY LenProperties DEF Types, SharedType, SharedMove

\* A script is marked or its next validation is put off: no path changes.
LEMMA MarkMove ==
    ASSUME Types, NEW i \in 1..Len(scripts), NEW x \in Cell,
           x.file = scripts[i].file,
           scripts' = [scripts EXCEPT ![i] = x],
           UNCHANGED <<ini, hash, key>>, wasted' \in Nat
    PROVE  SharedMove
<1>1. /\ scripts' \in Seq(Cell) /\ Len(scripts') = Len(scripts)
      /\ \A j \in 1..Len(scripts) :
            scripts'[j] = IF j = i THEN x ELSE scripts[j]
  BY ExceptSeq DEF Types, SharedType
<1>2. Len(scripts) \in Nat
  BY LenProperties DEF Types, SharedType
<1> QED
  BY <1>1, <1>2 DEF Types, SharedType, SharedMove

\* Invalidating a script that is not corrupted marks it and counts it.
LEMMA InvalidateMarks ==
    ASSUME Types, NEW p \in Proc, Invalidate(p)
    PROVE  /\ ptr[p] \in 1..Len(scripts) /\ scripts[ptr[p]] \in Cell
           /\ \/ UNCHANGED <<scripts, wasted>>
              \/ /\ ~Corrupted(ptr[p])
                 /\ scripts' = [scripts EXCEPT ![ptr[p]] =
                       [scripts[ptr[p]] EXCEPT !.corrupted = TRUE,
                                               !.timestamp = 0]]
                 /\ wasted' = wasted + 1
<1>1. ptr[p] # 0 /\ ptr[p] \in 0..Len(scripts) /\ Len(scripts) \in Nat
  BY LenProperties DEF Invalidate, At, Types, Point, LocalType, SharedType
<1>2. scripts[ptr[p]] \in Cell
  BY <1>1, ElementOfSeq DEF Types, SharedType
<1> QED
  BY <1>1, <1>2 DEF Invalidate

\* The script that p has made is not stored yet, and fits.
Stores(p) == ~Stored(opened[p]) /\ Len(scripts) # Memory

\* A new script is found under its path, where none was or a corrupted one.
LEMMA StoreAppends ==
    ASSUME Types, NEW p \in Proc, cache_script_in_shared_memory(p),
           Stores(p)
    PROVE  /\ SharedType' /\ UNCHANGED wasted
           /\ opened[p] \in File /\ ~Usable(hash[opened[p]])
           /\ Len(scripts') = Len(scripts) + 1
           /\ \A s \in 1..Len(scripts) : scripts'[s] = scripts[s]
           /\ scripts'[Len(scripts) + 1].file = opened[p]
           /\ ~scripts'[Len(scripts) + 1].corrupted
           /\ hash' = [hash EXCEPT ![opened[p]] = Len(scripts) + 1]
           /\ ptr' = [ptr EXCEPT ![p] = Len(scripts) + 1]
           /\ pc' = [pc EXCEPT ![p] = "load"]
           /\ key' = IF name[p] = Link /\ ~ini.revalidate_path
                     THEN opened[p] ELSE key
           /\ UNCHANGED <<name, opened, handle, made>>
<1> DEFINE new == [file |-> opened[p], holds |-> made[p].holds,
                   timestamp |-> made[p].timestamp,
                   revalidate |-> IF ini.validate_timestamps
                                  THEN request_time[p] + ini.revalidate_freq
                                  ELSE 0,
                   corrupted |-> FALSE]
<1>1. /\ scripts' = Append(scripts, new)
      /\ hash' = [hash EXCEPT ![opened[p]] = Len(scripts) + 1]
      /\ key' = IF name[p] = Link /\ ~ini.revalidate_path
                THEN opened[p] ELSE key
      /\ ptr' = [ptr EXCEPT ![p] = Len(scripts) + 1]
      /\ pc' = [pc EXCEPT ![p] = "load"]
      /\ UNCHANGED <<name, opened, handle, made, wasted, ini>>
      /\ ~Usable(hash[opened[p]])
  BY DEF Stores, cache_script_in_shared_memory, Stored, Set, Goto,
         file_handle, held
<1>2. opened[p] \in File
  BY DEF cache_script_in_shared_memory, At, Types, Point, LocalType
<1>3. Len(scripts) \in Nat
  BY LenProperties DEF Types, SharedType
<1>4. /\ request_time[p] + ini.revalidate_freq \in Nat
      /\ made[p] \in [timestamp : Nat, holds : Nat]
  BY CaseAssumption DEF Types, SharedType, LocalType, Setting
<1>5. new \in Cell /\ new.file = opened[p] /\ new.corrupted = FALSE
  BY <1>2, <1>4 DEF Cell
<1> HIDE DEF new
<1>6. /\ scripts' \in Seq(Cell) /\ Len(scripts') = Len(scripts) + 1
      /\ \A s \in 1..Len(scripts) : scripts'[s] = scripts[s]
      /\ scripts'[Len(scripts) + 1] = new
  BY <1>1, <1>5, AppendProperties DEF Types, SharedType
<1>7. SharedType'
  BY <1>1, <1>2, <1>3, <1>6 DEF Types, SharedType
<1> QED
  BY <1>1, <1>2, <1>5, <1>6, <1>7

\* Every step of a process is of that kind.
LEMMA SharedStep ==
    ASSUME Types, NEW p \in Proc, Process(p)
    PROVE  SharedMove
<1>1. Len(scripts) \in Nat
  BY LenProperties DEF Types, SharedType
<1>2. UNCHANGED ini
  BY ProcessFrame
<1>3. ASSUME UNCHANGED shared
      PROVE  SharedMove
  BY <1>2, <1>3, KeyMove DEF shared, Types, SharedType
<1>4. ASSUME NEW n, NEW f \in File, zend_accel_add_key(n, f)
      PROVE  key' \in File \cup {None}
  BY <1>4 DEF zend_accel_add_key, Types, SharedType
<1>5. ASSUME NEW n \in File \cup {Link}, persistent_zend_resolve_path(p, n)
      PROVE  SharedMove
  <2>1. Resolve(n) \in File \cup {None}
    BY ResolveFinds DEF Types
  <2>2. key' \in File \cup {None}
    BY <1>4, <1>5, <2>1
       DEF persistent_zend_resolve_path, Types, SharedType
  <2> QED
    BY <1>2, <1>5, <2>2, KeyMove DEF persistent_zend_resolve_path
<1>6. CASE FindByPath(p)
  <2>1. opened[p] \in File
    BY <1>6 DEF FindByPath, At, Types, Point, LocalType
  <2>2. key' \in File \cup {None}
    BY <1>4, <1>6, <2>1 DEF FindByPath, Types, SharedType
  <2> QED
    BY <1>2, <1>6, <2>2, KeyMove DEF FindByPath
<1>7. CASE Stat(p)
  <2>1. CASE UNCHANGED scripts
    BY <1>3, <1>7, <2>1 DEF Stat, shared
  <2>2. CASE scripts' # scripts
    <3> DEFINE x == [scripts[ptr[p]] EXCEPT !.revalidate =
                        request_time[p] + ini.revalidate_freq]
    <3>1. ptr[p] \in 1..Len(scripts)
      BY <1>1, <1>7 DEF Stat, At, Types, Point, LocalType
    <3>2. scripts[ptr[p]] \in Cell
      BY <3>1, ElementOfSeq DEF Types, SharedType
    <3>3. request_time[p] + ini.revalidate_freq \in Nat
      BY CaseAssumption DEF Types, SharedType, LocalType, Setting
    <3>4. x \in Cell /\ x.file = scripts[ptr[p]].file
      BY <3>2, <3>3 DEF Cell
    <3>5. scripts' = [scripts EXCEPT ![ptr[p]] = x]
      BY <1>7, <2>2 DEF Stat
    <3>6. UNCHANGED <<hash, key, wasted>> /\ wasted \in Nat
      BY <1>7 DEF Stat, Types, SharedType
    <3> HIDE DEF x
    <3> QED
      BY <1>2, <3>1, <3>4, <3>5, <3>6, MarkMove
  <2> QED
    BY <2>1, <2>2
<1>8. CASE Invalidate(p)
  <2> DEFINE x == [scripts[ptr[p]] EXCEPT !.corrupted = TRUE, !.timestamp = 0]
  <2>1. UNCHANGED <<hash, key, memory_exhausted>> /\ wasted \in Nat
    BY <1>8 DEF Invalidate, Types, SharedType
  <2>2. CASE UNCHANGED <<scripts, wasted>>
    BY <1>3, <2>1, <2>2 DEF shared
  <2>3. CASE scripts' = [scripts EXCEPT ![ptr[p]] = x] /\ wasted' = wasted + 1
    <3>1. x \in Cell /\ x.file = scripts[ptr[p]].file
      BY <1>8, InvalidateMarks DEF Cell
    <3>2. ptr[p] \in 1..Len(scripts)
      BY <1>8, InvalidateMarks
    <3>3. wasted' \in Nat
      BY <2>1, <2>3
    <3> HIDE DEF x
    <3> QED
      BY <1>2, <2>1, <2>3, <3>1, <3>2, <3>3, MarkMove
  <2> QED
    BY <1>8, <2>2, <2>3, InvalidateMarks
<1>9. CASE cache_script_in_shared_memory(p)
  <2>1. opened[p] \in File
    BY <1>9 DEF cache_script_in_shared_memory, At, Types, Point, LocalType
  <2>2. CASE ~Stores(p)
    <3>1. key' \in File \cup {None}
      BY <1>1, <1>4, <1>9, <2>1, <2>2
         DEF Stores, cache_script_in_shared_memory, Types, SharedType
    <3> QED
      BY <1>1, <1>2, <1>9, <2>2, <3>1, KeyMove
         DEF Stores, cache_script_in_shared_memory
  <2>3. CASE Stores(p)
    BY <1>9, <2>1, <2>3, <1>1, StoreAppends DEF SharedMove
  <2> QED
    BY <2>2, <2>3
<1> QED
  BY <1>3, <1>5, <1>6, <1>7, <1>8, <1>9
     DEF Process, accel_activate, FindByKey, zend_accel_invalidate, OpenFile,
         Check, Miss, Compile, Use

-----------------------------------------------------------------------------
(* What a process has in hand.                                             *)

\* The types of what p has in hand, and what it has where it goes.
LocalMove(p) == LocalType' /\ Point(p)'

\* After each of its steps, p has in hand what its next one needs.
LEMMA LocalStep ==
    ASSUME Types, NEW p \in Proc, Process(p)
    PROVE  LocalMove(p)
<1> USE DEF Goto, Set, At
<1>1. /\ UNCHANGED <<now, inode>> /\ Len(inode) \in Nat
      /\ \A i \in 1..Len(inode) : inode[i] \in Inode
      /\ Len(scripts) \in Nat /\ Len(scripts') \in Nat
      /\ Len(scripts) <= Len(scripts')
  BY ProcessFrame, SharedStep, LenProperties, ElementOfSeq
     DEF disk, Types, DiskType, SharedType, SharedMove
<1>2. now \in Start..End /\ Start \in Nat /\ End \in Nat
  BY CaseAssumption DEF Types, DiskType
<1>0. 0 \in 0..Len(scripts) /\ 0 \in 0..Len(inode)
  BY <1>1
<1> DEFINE Held == /\ name' \in [Proc -> File \cup {Link}]
                   /\ opened' \in [Proc -> File \cup {None}]
                   /\ handle' \in [Proc -> 0..Len(inode)]
                   /\ ptr' \in [Proc -> 0..Len(scripts)]
                   /\ made' \in [Proc -> [timestamp : Nat, holds : Nat]]
<1>20. ASSUME Held, UNCHANGED request_time, pc' \in [Proc -> Label]
       PROVE  LocalType'
  <2>1. 0..Len(scripts) \subseteq 0..Len(scripts')
    BY <1>1
  <2>2. ptr' \in [Proc -> 0..Len(scripts')]
    BY <1>20, <2>1
  <2>3. Len(inode') = Len(inode)
    BY <1>1
  <2> QED
    BY <1>20, <2>2, <2>3 DEF Types, LocalType
<1>3. ASSUME Return(p), UNCHANGED request_time
      PROVE  LocalMove(p)
  <2>1. "run" \in Label
    BY DEF Label
  <2>2. Held /\ pc' = [pc EXCEPT ![p] = "run"] /\ opened'[p] = None
        /\ handle'[p] = 0
    BY <1>3, ReturnType DEF Types
  <2>3. pc' \in [Proc -> Label] /\ pc'[p] = "run" /\ request_time[p] <= now
    BY <2>1, <2>2 DEF Types, LocalType, Point
  <2>4. LocalType'
    BY <1>3, <1>20, <2>2, <2>3
  <2> QED
    BY <1>1, <1>3, <2>2, <2>3, <2>4 DEF Point, LocalMove
<1>4. ASSUME Held, UNCHANGED request_time, NEW l \in Label \ {"run"},
             pc' = [pc EXCEPT ![p] = l],
             l \in {"stat", "resolved", "invalid", "load", "yes"} => ptr'[p] # 0,
             l \in {"entry", "compile", "store"} => opened'[p] # None,
             l = "compile" => handle'[p] # 0,
             handle'[p] # 0 => opened'[p] # None
      PROVE  LocalMove(p)
  <2>1. /\ pc' \in [Proc -> Label] /\ pc'[p] = l
        /\ request_time[p] <= now
    BY <1>4 DEF Types, LocalType, Point
  <2>2. LocalType'
    BY <1>4, <1>20, <2>1
  <2> QED
    BY <1>1, <1>4, <2>1, <2>2 DEF Point, LocalMove
<1>5. /\ name \in [Proc -> File \cup {Link}]
      /\ opened \in [Proc -> File \cup {None}]
      /\ handle \in [Proc -> 0..Len(inode)]
      /\ ptr \in [Proc -> 0..Len(scripts)]
      /\ made \in [Proc -> [timestamp : Nat, holds : Nat]]
      /\ hash \in [File -> 0..Len(scripts)]
      /\ path \in [File -> 0..Len(inode)]
      /\ Point(p) /\ request_time[p] <= now
  BY DEF Types, LocalType, SharedType, DiskType, Point
<1>6. CASE accel_activate(p)
  <2>1. LocalType'
    BY <1>1, <1>2, <1>6
       DEF accel_activate, Types, LocalType, file_handle, held, shared
  <2>2. Point(p)'
    BY <1>1, <1>2, <1>5, <1>6
       DEF accel_activate, Types, LocalType, Point, file_handle
  <2> QED
    BY <2>1, <2>2 DEF LocalMove
<1>7. ASSUME NEW o \in {"include", "is_file"}, NEW n \in File \cup {Link},
             FindByKey(p, o, n)
      PROVE  LocalMove(p)
  <2>1. Lookup(n) \in 0..Len(scripts)
    BY LookupFinds DEF Types
  <2>2. PICK l \in {"open", "check"} : pc' = [pc EXCEPT ![p] = l]
    BY <1>7 DEF FindByKey
  <2>3. Held /\ UNCHANGED <<request_time, opened, handle>>
    BY <1>5, <1>7, <2>1 DEF FindByKey
  <2> QED
    BY <1>4, <1>5, <2>2, <2>3 DEF Label, Point
<1>8. ASSUME NEW n \in File \cup {Link}, persistent_zend_resolve_path(p, n)
      PROVE  LocalMove(p)
  <2>1. Resolve(n) \in File \cup {None} /\ Lookup(n) \in 0..Len(scripts)
    BY ResolveFinds, LookupFinds DEF Types
  <2>2. ASSUME NEW i \in 1..Len(scripts)
        PROVE  scripts[i].file \in File
    <3>1. scripts[i] \in Cell
      BY ElementOfSeq DEF Types, SharedType
    <3> QED
      BY <3>1 DEF Cell
  <2>3. PICK l \in {"open", "check"} : pc' = [pc EXCEPT ![p] = l]
    BY <1>8 DEF persistent_zend_resolve_path
  <2> DEFINE s == IF n \in File \/ ~ini.revalidate_path THEN Lookup(n) ELSE 0
             f == Resolve(n)
  <2>4. s # 0 => s \in 1..Len(scripts) /\ scripts[s].file \in File
    BY <1>0, <1>1, <2>1, <2>2
  <2>5. f # None => hash[f] \in 0..Len(scripts)
    BY <1>5, <2>1
  <2>6. UNCHANGED <<request_time, handle, made>>
    BY <1>8 DEF persistent_zend_resolve_path
  <2>7. handle[p] = 0
    BY <1>5, <1>8 DEF persistent_zend_resolve_path, Begin, Point
  <2>8. \/ /\ s # 0 /\ name' = [name EXCEPT ![p] = n]
           /\ opened' = [opened EXCEPT ![p] = scripts[s].file]
           /\ ptr' = [ptr EXCEPT ![p] = s]
        \/ /\ f # None /\ name' = [name EXCEPT ![p] = n]
           /\ opened' = [opened EXCEPT ![p] = f]
           /\ ptr' = [ptr EXCEPT ![p] = hash[f]]
        \/ /\ f # None /\ name' = [name EXCEPT ![p] = f]
           /\ UNCHANGED <<opened, ptr>>
    BY <1>8 DEF persistent_zend_resolve_path, Usable
  <2> HIDE DEF s, f
  <2>9. f \in File \cup {None} /\ 1..Len(scripts) \subseteq 0..Len(scripts)
    BY <1>1, <2>1 DEF f
  <2>10. name' \in [Proc -> File \cup {Link}]
    BY <1>5, <2>8, <2>9
  <2>11. opened' \in [Proc -> File \cup {None}]
    BY <1>5, <2>4, <2>8, <2>9
  <2>12. ptr' \in [Proc -> 0..Len(scripts)]
    BY <1>5, <2>4, <2>5, <2>8, <2>9
  <2>13. Held
    BY <1>5, <2>6, <2>10, <2>11, <2>12
  <2> QED
    BY <1>4, <2>3, <2>6, <2>7, <2>13 DEF Label
<1>9. ASSUME NEW n \in File \cup {Link}, NEW force \in BOOLEAN,
             zend_accel_invalidate(p, n, force)
      PROVE  LocalMove(p)
  <2>1. Resolve(n) \in File
    BY <1>9, ResolveFinds DEF Types, zend_accel_invalidate
  <2>2. PICK l \in {"invalid", "stat"} : pc' = [pc EXCEPT ![p] = l]
    BY <1>9 DEF zend_accel_invalidate
  <2>3. Held /\ UNCHANGED request_time /\ ptr'[p] # 0 /\ opened'[p] # None
    BY <1>5, <1>9, <2>1, CaseAssumption DEF zend_accel_invalidate, Usable
  <2> QED
    BY <1>4, <2>2, <2>3 DEF Label
<1>10. CASE OpenFile(p)
  <2>1. CASE Return(p)
    BY <1>3, <1>10, <2>1 DEF OpenFile
  <2>2. CASE ~Return(p)
    <3>1. /\ Resolve(name[p]) \in File
          /\ path[Resolve(name[p])] \in 1..Len(inode)
      BY <1>5, <1>10, <2>2, ResolveFinds DEF OpenFile, Types
    <3> DEFINE f == Resolve(name[p])
    <3>2. /\ opened' = [opened EXCEPT ![p] = f]
          /\ handle' = [handle EXCEPT ![p] = path[f]]
          /\ pc' = [pc EXCEPT ![p] = "entry"]
          /\ UNCHANGED <<request_time, name, ptr, made>>
      BY <1>10, <2>2 DEF OpenFile, held
    <3> HIDE DEF f
    <3>3. Held /\ opened'[p] # None
      BY <1>0, <1>1, <1>5, <3>1, <3>2, CaseAssumption DEF f
    <3> QED
      BY <1>4, <3>2, <3>3 DEF Label
  <2> QED
    BY <2>1, <2>2
<1>11. CASE FindByPath(p)
  <2>1. hash[opened[p]] \in 0..Len(scripts)
    BY <1>5, <1>11 DEF FindByPath, Point
  <2>2. Held /\ UNCHANGED <<request_time, opened, handle>>
        /\ pc' = [pc EXCEPT ![p] = "check"]
    BY <1>5, <1>11, <2>1 DEF FindByPath, file_handle, held
  <2> QED
    BY <1>4, <1>5, <2>2 DEF Label, Point
<1>12. CASE Check(p)
  <2>1. CASE Return(p)
    BY <1>3, <1>12, <2>1 DEF Check
  <2>2. CASE ~Return(p)
    <3>1. PICK l \in {"load", "yes", "stat", "resolved", "invalid", "miss"} :
            /\ pc' = [pc EXCEPT ![p] = l]
            /\ l # "miss" => UNCHANGED ptr /\ ptr[p] # 0
      BY <1>12, <2>2 DEF Check, Accept, Usable
    <3>2. Held /\ UNCHANGED <<request_time, opened, handle>>
      BY <1>0, <1>5, <1>12, <2>2 DEF Check, file_handle, held
    <3> QED
      BY <1>4, <1>5, <3>1, <3>2 DEF Label, Point
  <2> QED
    BY <2>1, <2>2
<1>13. CASE Stat(p)
  <2>1. CASE Return(p)
    BY <1>3, <1>13, <2>1 DEF Stat
  <2>2. CASE ~Return(p)
    <3>1. PICK l \in {"load", "yes", "invalid"} : pc' = [pc EXCEPT ![p] = l]
      BY <1>13, <2>2 DEF Stat, Accept
    <3>2. Held /\ UNCHANGED <<request_time, ptr, opened, handle>> /\ ptr[p] # 0
      BY <1>5, <1>13, <2>2 DEF Stat, Point, file_handle, held
    <3> QED
      BY <1>4, <1>5, <3>1, <3>2 DEF Label, Point
  <2> QED
    BY <2>1, <2>2
<1>14. CASE Invalidate(p)
  <2>1. CASE Return(p)
    BY <1>3, <1>14, <2>1 DEF Invalidate
  <2>2. CASE ~Return(p)
    <3>1. Held /\ UNCHANGED <<request_time, opened, handle>>
          /\ pc' = [pc EXCEPT ![p] = "miss"]
      BY <1>0, <1>5, <1>14, <2>2 DEF Invalidate, file_handle, held
    <3> QED
      BY <1>4, <1>5, <3>1 DEF Label, Point
  <2> QED
    BY <2>1, <2>2
<1>15. CASE Miss(p)
  <2> DEFINE f == Resolve(IF opened[p] = None THEN name[p] ELSE opened[p])
             i == IF handle[p] # 0 THEN handle[p]
                  ELSE IF f # None THEN path[f] ELSE 0
  <2>1. CASE Return(p)
    BY <1>3, <1>15, <2>1 DEF Miss
  <2>2. CASE ~Return(p)
    <3>1. f \in File \cup {None} /\ (f # None => path[f] \in 1..Len(inode))
      BY <1>5, ResolveFinds DEF Types
    <3> HIDE DEF f
    <3>2. i # 0 /\ i \in 1..Len(inode)
      BY <1>1, <1>5, <1>15, <2>2, <3>1 DEF Miss, f
    <3> HIDE DEF i
    <3>3. /\ opened' = [opened EXCEPT ![p] =
                           IF handle[p] # 0 THEN opened[p] ELSE f]
          /\ handle' = [handle EXCEPT ![p] = i]
          /\ made' = [made EXCEPT ![p].timestamp =
                         IF ini.validate_timestamps THEN inode[i].mtime ELSE 0]
          /\ pc' = [pc EXCEPT ![p] = "compile"]
          /\ UNCHANGED <<request_time, name, ptr>>
      BY <1>15, <2>2 DEF Miss, f, i
    <3>4. inode[i].mtime \in Nat
      BY <1>1, <3>2 DEF Inode
    <3>5. made' \in [Proc -> [timestamp : Nat, holds : Nat]]
      BY <1>5, <3>3, <3>4
    <3>6. handle' \in [Proc -> 0..Len(inode)]
      BY <1>1, <1>5, <3>2, <3>3
    <3>7. opened' \in [Proc -> File \cup {None}]
      BY <1>5, <3>1, <3>3
    <3>8. opened'[p] # None
      BY <1>5, <3>2, <3>3 DEF i, Point
    <3> QED
      BY <1>1, <1>4, <1>5, <3>2, <3>3, <3>5, <3>6, <3>7, <3>8 DEF Label
  <2> QED
    BY <2>1, <2>2
<1>16. CASE Compile(p)
  <2>1. CASE Return(p)
    BY <1>3, <1>16, <2>1 DEF Compile
  <2>2. CASE ~Return(p)
    <3>1. handle[p] \in 1..Len(inode) /\ opened[p] # None
      BY <1>1, <1>5, <1>16 DEF Compile, Point
    <3>2. inode[handle[p]].holds \in Nat
      BY <1>1, <3>1 DEF Inode
    <3>3. /\ made' = [made EXCEPT ![p].holds = inode[handle[p]].holds]
          /\ handle' = [handle EXCEPT ![p] = 0]
          /\ pc' = [pc EXCEPT ![p] = "store"]
          /\ UNCHANGED <<request_time, name, opened, ptr>>
      BY <1>16, <2>2 DEF Compile
    <3>4. made' \in [Proc -> [timestamp : Nat, holds : Nat]]
      BY <1>5, <3>2, <3>3
    <3>5. Held
      BY <1>0, <1>5, <3>3, <3>4
    <3> QED
      BY <1>4, <3>1, <3>3, <3>5 DEF Label
  <2> QED
    BY <2>1, <2>2
<1>17. CASE cache_script_in_shared_memory(p)
  <2>1. UNCHANGED request_time
    BY <1>17 DEF cache_script_in_shared_memory
  <2>2. CASE ~Stores(p)
    <3>1. Return(p)
      BY <1>1, <1>17, <2>2, CaseAssumption
         DEF Stores, cache_script_in_shared_memory
    <3> QED
      BY <1>3, <2>1, <3>1
  <2>3. CASE Stores(p)
    <3>1. /\ pc' = [pc EXCEPT ![p] = "load"]
          /\ ptr' = [ptr EXCEPT ![p] = Len(scripts) + 1]
          /\ Len(scripts') = Len(scripts) + 1
          /\ UNCHANGED <<name, opened, handle, made>>
      BY <1>17, <2>3, StoreAppends
    <3>2. ptr' \in [Proc -> 0..Len(scripts')] /\ ptr'[p] # 0
      BY <1>1, <1>5, <3>1
    <3>3. pc' \in [Proc -> Label] /\ pc'[p] = "load"
      BY <3>1 DEF Types, LocalType, Label
    <3>4. LocalType'
      BY <1>1, <2>1, <3>1, <3>2, <3>3 DEF Types, LocalType
    <3> QED
      BY <1>1, <1>5, <2>1, <3>1, <3>2, <3>3, <3>4 DEF Point, LocalMove
  <2> QED
    BY <2>2, <2>3
<1>18. CASE Use(p)
  BY <1>3, <1>18 DEF Use
<1> QED
  BY <1>6, <1>7, <1>8, <1>9, <1>10, <1>11, <1>12, <1>13, <1>14, <1>15, <1>16,
     <1>17, <1>18 DEF Process

-----------------------------------------------------------------------------
(* Links that are followed.                                                *)

\* A process that follows a link has the script of the file it found.
LEMMA FollowStep ==
    ASSUME Types, Found, Links, ini.revalidate_path,
           NEW p \in Proc, Process(p)
    PROVE  key' = None /\ Followed(p)'
<1> USE DEF Goto, Set, At
<1>1. /\ UNCHANGED <<ini, now, target, left, path>>
      /\ key = None /\ Followed(p) /\ Point(p)
      /\ left[target] >= request_time[p]
  <2>1. UNCHANGED <<ini, now, target, left, path>>
    BY ProcessFrame DEF disk, history
  <2> QED
    BY <2>1, CaseAssumption
       DEF Types, DiskType, LocalType, Links, Forever
<1>2. /\ name \in [Proc -> File \cup {Link}]
      /\ opened \in [Proc -> File \cup {None}]
      /\ ptr \in [Proc -> 0..Len(scripts)]
      /\ pc \in [Proc -> Label]
      /\ hash \in [File -> 0..Len(scripts)]
      /\ Len(scripts) \in Nat
  BY LenProperties DEF Types, LocalType, SharedType
<1>3. /\ \A s \in 1..Len(scripts) : scripts'[s].file = scripts[s].file
      /\ \A f \in File : hash[f] # 0 => scripts'[hash[f]].file = f
  <2>1. \A s \in 1..Len(scripts) : scripts'[s].file = scripts[s].file
    BY SharedStep DEF SharedMove
  <2>2. \A f \in File : hash[f] # 0 => hash[f] \in 1..Len(scripts)
    BY <1>2
  <2> QED
    BY <2>1, <2>2 DEF Found
<1>4. \A n, f : zend_accel_add_key(n, f) => UNCHANGED key
  BY DEF zend_accel_add_key
<1>5. ASSUME Return(p), UNCHANGED key
      PROVE  key' = None /\ Followed(p)'
  <2>1. pc'[p] = "run" /\ opened'[p] = None
    BY <1>2, <1>5 DEF Return
  <2> QED
    BY <1>1, <1>5, <2>1 DEF Followed
\* The script in hand, if any, is the same, or there is none any more.
<1>6. ASSUME UNCHANGED <<key, name, opened, request_time>>,
             \/ /\ pc[p] \in {"check", "stat", "resolved", "invalid",
                              "load", "yes"}
                /\ UNCHANGED ptr
             \/ ptr'[p] = 0
             \/ pc'[p] \notin {"check", "stat", "resolved", "invalid",
                               "load", "yes"}
      PROVE  key' = None /\ Followed(p)'
  <2>1. ptr[p] # 0 => scripts'[ptr[p]].file = scripts[ptr[p]].file
    BY <1>2, <1>3
  <2> QED
    BY <1>1, <1>6, <2>1 DEF Followed
<1>7. CASE accel_activate(p)
  <2>1. pc'[p] = "run" /\ opened'[p] = None /\ UNCHANGED key
    BY <1>1, <1>7 DEF accel_activate, Point, shared, file_handle
  <2> QED
    BY <1>1, <2>1 DEF Followed
<1>8. ASSUME NEW o \in {"include", "is_file"}, NEW n \in File \cup {Link},
             FindByKey(p, o, n)
      PROVE  key' = None /\ Followed(p)'
  <2>1. /\ opened'[p] = None /\ name'[p] = n /\ ptr'[p] = Lookup(n)
        /\ UNCHANGED key
    BY <1>1, <1>2, <1>8 DEF FindByKey, Begin, Point, shared
  <2>2. n = Link => Lookup(n) = 0
    BY <1>1 DEF Lookup
  <2> QED
    BY <1>1, <2>1, <2>2 DEF Followed
<1>9. ASSUME NEW n \in File \cup {Link}, persistent_zend_resolve_path(p, n)
      PROVE  key' = None /\ Followed(p)'
  <2> DEFINE f == Resolve(n)
  <2>1. /\ f \in File \cup {None}
        /\ n = Link /\ f # None => f = target
    BY ResolveFinds DEF Types
  <2>2. UNCHANGED <<key, request_time>> /\ opened[p] = None
    BY <1>1, <1>4, <1>9 DEF persistent_zend_resolve_path, Begin, Point
  <2>3. CASE n # Link
    <3>1. name'[p] \in File
      BY <1>2, <1>9, <2>1, <2>3, CaseAssumption
         DEF persistent_zend_resolve_path
    <3> QED
      BY <1>1, <2>2, <3>1, CaseAssumption DEF Followed
  <2>4. CASE n = Link
    <3>1. ~Usable(IF n \in File \/ ~ini.revalidate_path THEN Lookup(n) ELSE 0)
      BY <1>1, <2>4, CaseAssumption DEF Usable
    <3>2. \/ /\ f # None /\ opened'[p] = f /\ ptr'[p] = hash[f]
          \/ f # None /\ name'[p] = f
      BY <1>2, <1>9, <3>1 DEF persistent_zend_resolve_path
    <3> HIDE DEF f
    <3> QED
      BY <1>1, <1>3, <2>1, <2>2, <2>4, <3>2, CaseAssumption DEF Followed
  <2> QED
    BY <2>3, <2>4
<1>10. ASSUME NEW n \in File \cup {Link}, NEW force \in BOOLEAN,
              zend_accel_invalidate(p, n, force)
       PROVE  key' = None /\ Followed(p)'
  <2>1. Resolve(n) \in File
    BY <1>10, ResolveFinds DEF Types, zend_accel_invalidate
  <2>2. name'[p] = Resolve(n) /\ UNCHANGED key
    BY <1>2, <1>10 DEF zend_accel_invalidate, shared
  <2> QED
    BY <1>1, <2>1, <2>2, CaseAssumption DEF Followed
<1>11. CASE OpenFile(p)
  <2>1. CASE Return(p)
    BY <1>5, <1>11, <2>1 DEF OpenFile, shared
  <2>2. CASE ~Return(p)
    <3>1. /\ opened'[p] = Resolve(name[p]) /\ Resolve(name[p]) # None
          /\ pc'[p] = "entry" /\ UNCHANGED <<key, name, request_time>>
      BY <1>2, <1>11, <2>2 DEF OpenFile, shared
    <3>2. name[p] = Link => Resolve(name[p]) = target
      BY <1>2, <3>1, ResolveFinds DEF Types
    <3> QED
      BY <1>1, <3>1, <3>2 DEF Followed
  <2> QED
    BY <2>1, <2>2
<1>12. CASE FindByPath(p)
  <2>1. /\ opened[p] \in File /\ ptr'[p] = hash[opened[p]]
        /\ UNCHANGED <<key, name, opened, request_time>>
    BY <1>1, <1>2, <1>4, <1>12 DEF FindByPath, Point, file_handle
  <2> QED
    BY <1>1, <1>3, <2>1 DEF Followed
<1>13. CASE Check(p)
  <2>1. CASE Return(p)
    BY <1>5, <1>13, <2>1 DEF Check, shared
  <2>2. CASE ~Return(p)
    <3>1. /\ UNCHANGED <<key, name, opened, request_time>>
          /\ pc[p] = "check" /\ (UNCHANGED ptr \/ ptr'[p] = 0)
      BY <1>2, <1>13, <2>2 DEF Check, shared, file_handle
    <3> QED
      BY <1>6, <3>1
  <2> QED
    BY <2>1, <2>2
<1>14. CASE Stat(p)
  <2>1. CASE Return(p)
    BY <1>5, <1>14, <2>1 DEF Stat
  <2>2. CASE ~Return(p)
    <3>1. /\ UNCHANGED <<key, name, opened, request_time, ptr>>
          /\ pc[p] \in {"stat", "resolved"}
      BY <1>14, <2>2 DEF Stat, file_handle
    <3> QED
      BY <1>6, <3>1
  <2> QED
    BY <2>1, <2>2
<1>15. CASE Invalidate(p)
  <2>1. CASE Return(p)
    BY <1>5, <1>15, <2>1 DEF Invalidate
  <2>2. CASE ~Return(p)
    <3>1. /\ UNCHANGED <<key, name, opened, request_time>> /\ ptr'[p] = 0
      BY <1>2, <1>15, <2>2 DEF Invalidate, file_handle
    <3> QED
      BY <1>6, <3>1
  <2> QED
    BY <2>1, <2>2
<1>16. CASE Miss(p)
  <2> DEFINE f == Resolve(IF opened[p] = None THEN name[p] ELSE opened[p])
  <2>1. CASE Return(p)
    BY <1>5, <1>16, <2>1 DEF Miss, shared
  <2>2. CASE ~Return(p)
    <3>1. /\ pc'[p] = "compile" /\ UNCHANGED <<key, name, request_time>>
          /\ opened'[p] = IF handle[p] # 0 THEN opened[p] ELSE f
          /\ handle[p] # 0 \/ f # None
      BY <1>2, <1>16, <2>2 DEF Miss, shared
    <3>2. opened[p] = None /\ name[p] = Link /\ f # None => f = target
      BY ResolveFinds DEF Types
    <3>3. opened[p] # None /\ f # None => f = opened[p]
      BY <1>2, CaseAssumption DEF Resolve
    <3>4. handle[p] # 0 => opened[p] # None
      BY <1>1 DEF Point
    <3> HIDE DEF f
    <3> QED
      BY <1>1, <3>1, <3>2, <3>3, <3>4 DEF Followed
  <2> QED
    BY <2>1, <2>2
<1>17. CASE Compile(p)
  <2>1. CASE Return(p)
    BY <1>5, <1>17, <2>1 DEF Compile, shared
  <2>2. CASE ~Return(p)
    <3>1. /\ UNCHANGED <<key, name, opened, request_time>>
          /\ pc'[p] = "store"
      BY <1>2, <1>17, <2>2 DEF Compile, shared
    <3> QED
      BY <1>6, <3>1
  <2> QED
    BY <2>1, <2>2
<1>18. CASE cache_script_in_shared_memory(p)
  <2>1. UNCHANGED request_time
    BY <1>18 DEF cache_script_in_shared_memory
  <2>2. CASE ~Stores(p)
    <3>1. Return(p) /\ UNCHANGED key
      BY <1>2, <1>4, <1>18, <2>2, CaseAssumption
         DEF Stores, cache_script_in_shared_memory
    <3> QED
      BY <1>5, <3>1
  <2>3. CASE Stores(p)
    <3>1. /\ scripts'[Len(scripts) + 1].file = opened[p]
          /\ ptr'[p] = Len(scripts) + 1
          /\ UNCHANGED <<key, name, opened>>
      BY <1>1, <1>2, <1>18, <2>3, StoreAppends
    <3> QED
      BY <1>1, <2>1, <3>1 DEF Followed
  <2> QED
    BY <2>2, <2>3
<1>19. CASE Use(p)
  BY <1>5, <1>19 DEF Use, shared
<1> QED
  BY <1>7, <1>8, <1>9, <1>10, <1>11, <1>12, <1>13, <1>14, <1>15, <1>16, <1>17,
     <1>18, <1>19 DEF Process

-----------------------------------------------------------------------------
(* Scripts found, and scripts wasted.                                      *)

\* All scripts are as valid as before.
Kept ==
    /\ UNCHANGED <<hash, wasted>> /\ Len(scripts') = Len(scripts)
    /\ \A s \in 1..Len(scripts) :
          /\ scripts'[s].file = scripts[s].file
          /\ scripts'[s].corrupted = scripts[s].corrupted

\* All but the i-th, which becomes invalid.
Marked(i) ==
    /\ i \in 1..Len(scripts) /\ ~scripts[i].corrupted /\ scripts'[i].corrupted
    /\ UNCHANGED hash /\ wasted' = wasted + 1 /\ Len(scripts') = Len(scripts)
    /\ \A s \in 1..Len(scripts) :
          /\ scripts'[s].file = scripts[s].file
          /\ s # i => scripts'[s].corrupted = scripts[s].corrupted

\* One is added for f, for which there was none or an invalid one.
Added(f) ==
    /\ f \in File /\ ~Usable(hash[f])
    /\ hash' = [hash EXCEPT ![f] = Len(scripts) + 1]
    /\ UNCHANGED wasted /\ Len(scripts') = Len(scripts) + 1
    /\ \A s \in 1..Len(scripts) : scripts'[s] = scripts[s]
    /\ scripts'[Len(scripts) + 1].file = f
    /\ ~scripts'[Len(scripts) + 1].corrupted

\* A step of a process does one of these to the scripts.
LEMMA ScriptsStep ==
    ASSUME Types, NEW p \in Proc, Process(p)
    PROVE  Kept \/ Marked(ptr[p]) \/ Added(opened[p])
<1>1. Len(scripts) \in Nat
  BY LenProperties DEF Types, SharedType
<1>2. ASSUME UNCHANGED <<scripts, hash, wasted>>
      PROVE  Kept
  BY <1>2 DEF Kept
<1>3. CASE Stat(p)
  <2>1. CASE UNCHANGED scripts
    BY <1>2, <1>3, <2>1 DEF Stat
  <2>2. CASE scripts' # scripts
    <3> DEFINE x == [scripts[ptr[p]] EXCEPT !.revalidate =
                        request_time[p] + ini.revalidate_freq]
    <3>1. ptr[p] \in 1..Len(scripts)
      BY <1>1, <1>3 DEF Stat, At, Types, Point, LocalType
    <3>2. scripts[ptr[p]] \in Cell
      BY <3>1, ElementOfSeq DEF Types, SharedType
    <3>3. request_time[p] + ini.revalidate_freq \in Nat
      BY CaseAssumption DEF Types, SharedType, LocalType, Setting
    <3>4. /\ x \in Cell /\ x.file = scripts[ptr[p]].file
          /\ x.corrupted = scripts[ptr[p]].corrupted
      BY <3>2, <3>3 DEF Cell
    <3>5. /\ scripts' = [scripts EXCEPT ![ptr[p]] = x]
          /\ UNCHANGED <<hash, wasted>>
      BY <1>3, <2>2 DEF Stat
    <3> HIDE DEF x
    <3>6. /\ Len(scripts') = Len(scripts)
          /\ \A j \in 1..Len(scripts) :
                scripts'[j] = IF j = ptr[p] THEN x ELSE scripts[j]
      BY <3>1, <3>4, <3>5, ExceptSeq DEF Types, SharedType
    <3> QED
      BY <3>4, <3>5, <3>6 DEF Kept
  <2> QED
    BY <2>1, <2>2
<1>4. CASE Invalidate(p)
  <2> DEFINE x == [scripts[ptr[p]] EXCEPT !.corrupted = TRUE, !.timestamp = 0]
  <2>1. UNCHANGED hash /\ ptr[p] \in 1..Len(scripts)
    BY <1>4, InvalidateMarks DEF Invalidate
  <2>2. CASE UNCHANGED <<scripts, wasted>>
    BY <1>2, <2>1, <2>2
  <2>3. CASE /\ ~Corrupted(ptr[p]) /\ wasted' = wasted + 1
             /\ scripts' = [scripts EXCEPT ![ptr[p]] = x]
    <3>1. x \in Cell /\ x.file = scripts[ptr[p]].file /\ x.corrupted
      BY <1>4, InvalidateMarks DEF Cell
    <3> HIDE DEF x
    <3>2. /\ Len(scripts') = Len(scripts)
          /\ \A j \in 1..Len(scripts) :
                scripts'[j] = IF j = ptr[p] THEN x ELSE scripts[j]
      BY <2>1, <2>3, <3>1, ExceptSeq DEF Types, SharedType
    <3> QED
      BY <2>1, <2>3, <3>1, <3>2 DEF Marked, Corrupted
  <2> QED
    BY <1>4, <2>2, <2>3, InvalidateMarks
<1>5. CASE cache_script_in_shared_memory(p)
  <2>1. CASE Stores(p)
    BY <1>5, <2>1, StoreAppends DEF Added
  <2>2. CASE ~Stores(p)
    BY <1>1, <1>2, <1>5, <2>2 DEF Stores, cache_script_in_shared_memory
  <2> QED
    BY <2>1, <2>2
<1> QED
  BY <1>2, <1>3, <1>4, <1>5
     DEF Process, accel_activate, FindByKey, persistent_zend_resolve_path,
         zend_accel_invalidate, OpenFile, FindByPath, Check, Miss, Compile,
         Use, shared

\* None of these leaves a valid script that is not found.
LEMMA FoundStep ==
    ASSUME Types, Found, NEW p \in Proc, Process(p)
    PROVE  Found'
<1>1. /\ Len(scripts) \in Nat /\ DOMAIN scripts = 1..Len(scripts)
      /\ Len(scripts') \in Nat /\ DOMAIN scripts' = 1..Len(scripts')
      /\ hash \in [File -> 0..Len(scripts)]
      /\ \A s \in 1..Len(scripts) : scripts[s].file \in File
  <2>1. SharedType' /\ SharedType
    BY SharedStep DEF SharedMove, Types
  <2>2. ASSUME NEW s \in 1..Len(scripts)
        PROVE  scripts[s].file \in File
    <3>1. scripts[s] \in Cell
      BY <2>1, ElementOfSeq DEF SharedType
    <3> QED
      BY <3>1 DEF Cell
  <2> QED
    BY <2>1, <2>2, LenProperties DEF SharedType
<1>2. /\ \A f \in File : hash[f] # 0 => scripts[hash[f]].file = f
      /\ \A s \in 1..Len(scripts) :
            ~scripts[s].corrupted => hash[scripts[s].file] = s
  BY <1>1 DEF Found, NoScriptIsLost, Corrupted
<1>3. SUFFICES
        /\ \A f \in File : hash'[f] # 0 => scripts'[hash'[f]].file = f
        /\ \A s \in 1..Len(scripts') :
              ~scripts'[s].corrupted => hash'[scripts'[s].file] = s
  BY <1>1 DEF Found, NoScriptIsLost, Corrupted
<1>4. CASE Kept
  BY <1>1, <1>2, <1>4 DEF Kept
<1>5. CASE Marked(ptr[p])
  <2>1. /\ hash' = hash /\ Len(scripts') = Len(scripts)
        /\ \A s \in 1..Len(scripts) : scripts'[s].file = scripts[s].file
        /\ \A s \in 1..Len(scripts) :
              ~scripts'[s].corrupted => ~scripts[s].corrupted
    BY <1>5 DEF Marked
  <2>2. \A f \in File : hash[f] # 0 => hash[f] \in 1..Len(scripts)
    BY <1>1
  <2> QED
    BY <1>2, <2>1, <2>2
<1>6. CASE Added(opened[p])
  <2> DEFINE f == opened[p]
             n == Len(scripts) + 1
  <2>1. ASSUME NEW g \in File, hash'[g] # 0
        PROVE  scripts'[hash'[g]].file = g
    BY <1>1, <1>2, <1>6, <2>1 DEF Added
  <2>2. ASSUME NEW s \in 1..Len(scripts'), ~scripts'[s].corrupted
        PROVE  hash'[scripts'[s].file] = s
    <3>1. CASE s = n
      BY <1>1, <1>6, <3>1 DEF Added
    <3>2. CASE s \in 1..Len(scripts)
      <4>1. scripts'[s] = scripts[s] /\ hash[scripts[s].file] = s
        BY <1>2, <1>6, <2>2, <3>2 DEF Added
      <4>2. scripts[s].file # f
        BY <1>1, <1>6, <2>2, <3>2, <4>1 DEF Added, Usable, Corrupted
      <4> QED
        BY <1>1, <1>6, <3>2, <4>1, <4>2 DEF Added
    <3> QED
      BY <1>1, <1>6, <3>1, <3>2 DEF Added
  <2> QED
    BY <2>1, <2>2
<1> QED
  BY <1>4, <1>5, <1>6, ScriptsStep

\* Scripts that become invalid are counted, once.
LEMMA WasteStep ==
    ASSUME Types, WastedOnce, NEW p \in Proc, Process(p)
    PROVE  WastedOnce'
<1> DEFINE Bad == {s \in 1..Len(scripts) : scripts[s].corrupted}
           BadNext == {s \in 1..Len(scripts') : scripts'[s].corrupted}
<1>1. /\ Len(scripts) \in Nat /\ DOMAIN scripts = 1..Len(scripts)
      /\ Len(scripts') \in Nat /\ DOMAIN scripts' = 1..Len(scripts')
  BY SharedStep, LenProperties DEF SharedMove, Types, SharedType
<1>2. wasted = Cardinality(Bad)
  BY <1>1 DEF WastedOnce, Corrupted
<1>3. SUFFICES wasted' = Cardinality(BadNext)
  BY <1>1 DEF WastedOnce, Corrupted
<1>4. CASE Kept
  <2>1. BadNext = Bad
    BY <1>4 DEF Kept
  <2> QED
    BY <1>2, <1>4, <2>1 DEF Kept
<1>5. CASE Marked(ptr[p])
  <2>1. BadNext = Bad \cup {ptr[p]} /\ ptr[p] \notin Bad
    BY <1>5 DEF Marked
  <2>2. IsFiniteSet(Bad)
    <3>1. IsFiniteSet(1..Len(scripts))
      BY <1>1, FS_Interval
    <3>2. Bad \in SUBSET (1..Len(scripts))
      OBVIOUS
    <3> QED
      BY <3>1, <3>2, FS_Subset
  <2>3. Cardinality(BadNext) = Cardinality(Bad) + 1
    <3> HIDE DEF Bad, BadNext
    <3> QED
      BY <2>1, <2>2, FS_AddElement
  <2> QED
    BY <1>2, <1>5, <2>3 DEF Marked
<1>6. CASE Added(opened[p])
  <2>1. BadNext = Bad
    BY <1>1, <1>6 DEF Added
  <2> QED
    BY <1>2, <1>6, <2>1 DEF Added
<1> QED
  BY <1>4, <1>5, <1>6, ScriptsStep

-----------------------------------------------------------------------------
(* The invariant is inductive.                                             *)

\* No step of a process or of the files breaks Links.
LEMMA LinksStep ==
    ASSUME Types, Found, Links, Files \/ \E p \in Proc : Process(p)
    PROVE  Links'
<1>1. \A p \in Proc : request_time[p] \in Start..now
  BY CaseAssumption DEF Types, DiskType, LocalType, Point
<1>2. CASE Files
  <2>1. FilesMove
    BY <1>2, FilesStep DEF Types
  <2>2. /\ \A f \in File, t \in Start..now : left[f] >= t => left'[f] >= t
        /\ left'[target'] = Forever
    BY <2>1 DEF FilesMove, Links
  <2>3. UNCHANGED <<ini, scripts, key, pc, name, opened, ptr, request_time>>
    BY <2>1 DEF FilesMove, shared, local, file_handle
  <2>4. ASSUME NEW p \in Proc, Followed(p)
        PROVE  Followed(p)'
    <3>1. opened[p] \in File \cup {None}
      BY DEF Types, LocalType
    <3> QED
      BY <1>1, <2>2, <2>3, <2>4, <3>1 DEF Followed
  <2> QED
    BY <2>2, <2>3, <2>4 DEF Links
<1>3. ASSUME NEW p \in Proc, Process(p)
      PROVE  Links'
  <2>1. UNCHANGED <<ini, target, left>> /\ Others(p)
    BY <1>3, ProcessFrame DEF disk, history
  <2>2. ASSUME ini.revalidate_path, NEW q \in Proc \ {p}
        PROVE  Followed(q)'
    <3>1. Followed(q)
      BY <2>2 DEF Links
    <3>2. ptr[q] # 0 => ptr[q] \in 1..Len(scripts)
      BY LenProperties DEF Types, LocalType, SharedType
    <3>3. \A s \in 1..Len(scripts) : scripts'[s].file = scripts[s].file
      BY <1>3, SharedStep DEF SharedMove
    <3> QED
      BY <2>1, <3>1, <3>2, <3>3 DEF Followed, Others
  <2> QED
    BY <1>3, <2>1, <2>2, FollowStep DEF Links
<1> QED
  BY <1>2, <1>3

\* No step of a process or of the files breaks Types.
LEMMA TypesStep ==
    ASSUME Types, Files \/ \E p \in Proc : Process(p)
    PROVE  Types'
<1>1. CASE Files
  <2>1. FilesMove
    BY <1>1, FilesStep DEF Types
  <2>2. DiskType' /\ UNCHANGED <<ini, scripts, hash, key, wasted, pc, name,
               request_time, opened, handle, ptr, made>>
    BY <2>1 DEF FilesMove, shared, local, file_handle, held
  <2>3. SharedType'
    BY <2>2 DEF Types, SharedType
  <2>4. now <= now' /\ now \in Nat /\ now' \in Nat
        /\ Len(inode) \in Nat /\ Len(inode') \in Nat
        /\ Len(inode) <= Len(inode')
    BY <2>1, CaseAssumption, LenProperties DEF FilesMove, Types, DiskType
  <2>5. handle' \in [Proc -> 0..Len(inode')]
    BY <2>2, <2>4 DEF Types, LocalType
  <2>6. LocalType'
    BY <2>2, <2>5 DEF Types, LocalType
  <2>7. ASSUME NEW p \in Proc
        PROVE  Point(p)'
    <3>1. Point(p) /\ request_time[p] \in Nat
      BY CaseAssumption DEF Types, LocalType
    <3> QED
      BY <2>2, <2>4, <3>1 DEF Point
  <2> QED
    BY <2>2, <2>3, <2>6, <2>7 DEF Types
<1>2. ASSUME NEW p \in Proc, Process(p)
      PROVE  Types'
  <2>1. UNCHANGED <<now, inode, path, target, outdated, left>> /\ Others(p)
    BY <1>2, ProcessFrame DEF disk, history
  <2>2. DiskType'
    BY <2>1 DEF Types, DiskType
  <2>3. SharedType' /\ LocalType' /\ Point(p)'
    BY <1>2, SharedStep, LocalStep DEF SharedMove, LocalMove
  <2>4. ASSUME NEW q \in Proc \ {p}
        PROVE  Point(q)'
    <3>1. Point(q)
      BY DEF Types
    <3> QED
      BY <2>1, <3>1 DEF Point, Others
  <2> QED
    BY <2>2, <2>3, <2>4 DEF Types
<1> QED
  BY <1>1, <1>2

\* Nothing is broken where nothing happens.
LEMMA Stutter == Inv /\ UNCHANGED vars => Inv'
BY DEF Inv, vars, disk, shared, local, history, file_handle, held, Types,
       DiskType, SharedType, LocalType, Point, Found, NoScriptIsLost,
       WastedOnce, Links, Followed, Corrupted

\* Every step keeps the invariant.
LEMMA Inductive == Inv /\ [Next]_vars => Inv'
<1> SUFFICES ASSUME Inv, Next
             PROVE  Inv'
  BY Stutter
<1>1. Types' /\ Links'
  BY TypesStep, LinksStep DEF Inv, Next
<1>2. Found' /\ WastedOnce'
  <2>1. CASE Files
    <3>1. UNCHANGED <<scripts, hash, wasted>>
      BY <2>1, FilesStep DEF FilesMove, Inv, Types, shared
    <3> QED
      BY <3>1 DEF Inv, Found, NoScriptIsLost, WastedOnce, Corrupted
  <2>2. ASSUME NEW p \in Proc, Process(p)
        PROVE  Found' /\ WastedOnce'
    BY <2>2, FoundStep, WasteStep DEF Inv
  <2> QED
    BY <2>1, <2>2 DEF Next
<1> QED
  BY <1>1, <1>2 DEF Inv

\* The invariant always holds.
LEMMA Invariance == Spec => []Inv
<1>1. Init => Inv
  BY Initially
<1>2. Inv /\ [Next]_vars => Inv'
  BY Inductive
<1> QED
  BY <1>1, <1>2, PTL DEF Spec

-----------------------------------------------------------------------------
(* The theorems.                                                           *)

\* Every valid script in shared memory is what a lookup by its path finds:
\* two processes that compile one file store it once, and a new one is only
\* stored when the old one is counted as wasted.
THEOREM NoScriptIsLostAlways == Spec => []NoScriptIsLost
<1>1. Inv => NoScriptIsLost
  BY DEF Inv, Found
<1> QED
  BY <1>1, Invariance, PTL

\* However many processes invalidate a script at the same time, its memory
\* is counted once.
THEOREM WastedOnceAlways == Spec => []WastedOnce
<1>1. Inv => WastedOnce
  BY DEF Inv
<1> QED
  BY <1>1, Invariance, PTL

\* With revalidate_path the script that is executed for a link is that of
\* the file it leads to, or led to since the request began.
THEOREM LinkFollowedAlways == Spec => []LinkFollowed
<1>1. Inv => LinkFollowed
  <2> SUFFICES ASSUME Inv, NEW p \in Proc,
                      ini.revalidate_path, pc[p] = "load", name[p] = Link
               PROVE  left[scripts[ptr[p]].file] >= request_time[p]
    BY DEF LinkFollowed
  <2>1. ptr[p] # 0 /\ ptr[p] \in 1..Len(scripts)
    BY LenProperties DEF Inv, Types, LocalType, SharedType, Point
  <2>2. scripts[ptr[p]] \in Cell
    BY <2>1, ElementOfSeq DEF Inv, Types, SharedType
  <2>3. scripts[ptr[p]].file # None
    BY <2>2, CaseAssumption DEF Cell
  <2> QED
    BY <2>1, <2>3 DEF Inv, Links, Followed
<1> QED
  BY <1>1, Invariance, PTL
=============================================================================
