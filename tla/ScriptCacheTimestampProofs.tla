---------------------- MODULE ScriptCacheTimestampProofs ----------------------
(***************************************************************************)
(* What the time stamp of a cached script tells about its file, and how    *)
(* far behind the file a request may be: for all processes, files, sizes   *)
(* of memory and changes to the files, and for all settings that leave     *)
(* files alone that were written this second (file_update_protection is    *)
(* not 0, see the configuration unprotected for what happens otherwise).   *)
(***************************************************************************)
EXTENDS ScriptCacheProofs

Protected == \A c \in Cases : c.ini.file_update_protection # 0

-----------------------------------------------------------------------------
(* The inductive invariant: time stamps.                                   *)

\* No file that is written from now on gets time stamp t.
Settled(t) == t \in 1..Len(outdated) \/ (Start <= t /\ t < now)

\* The inodes with time stamp t that pass for f: the one at its path, and
\* what was opened there by requests that began later than t.
Dated(f, t) ==
    {i \in 1..Len(inode) :
        /\ inode[i].mtime = t
        /\ \/ path[f] = i
           \/ \E p \in Proc :
                opened[p] = f /\ handle[p] = i /\ t < request_time[p]}

\* Contents are numbered below all times.
Limits ==
    /\ bound.contents \in Nat /\ bound.contents < Start
    /\ Len(outdated) <= bound.contents

\* Files are written now or have a time stamp of their own from before.
Clocked ==
    /\ ini.file_update_protection # 0
    /\ Limits
    /\ \A i \in 1..Len(inode) :
         /\ inode[i].mtime \in 1..Len(outdated) \cup Start..now
         /\ inode[i].holds \in 1..Len(outdated)

\* Of several files with one time stamp, at most one is not written now.
Unique == \A f \in File, t \in Nat :
    t < now => \A i, j \in Dated(f, t) : i = j

\* What p is about to compile or has compiled is what its time stamp says,
\* or no file has that time stamp any more.
MadeStamp(p) ==
    LET t == made[p].timestamp IN
    t # 0 /\ pc[p] \in {"compile", "store"} =>
        /\ Settled(t) /\ t < request_time[p]
        /\ pc[p] = "compile" => Dated(opened[p], t) \subseteq {handle[p]}
        /\ pc[p] = "store" =>
              \A i \in Dated(opened[p], t) : inode[i].holds = made[p].holds

\* So is what is stored.
ScriptStamp(s) ==
    LET x == scripts[s] IN
    x.timestamp # 0 =>
        /\ Settled(x.timestamp)
        /\ \A i \in Dated(x.file, x.timestamp) : inode[i].holds = x.holds

Stamps ==
    /\ Clocked /\ Unique
    /\ \A p \in Proc : MadeStamp(p)
    /\ \A s \in 1..Len(scripts) : ScriptStamp(s)

-----------------------------------------------------------------------------
(* What others do to the files.                                            *)

\* An inode is as before, or was written just now with a new content.
Written(i) ==
    \/ inode'[i] = inode[i]
    \/ /\ Len(outdated') = Len(outdated) + 1 /\ now' = now
       /\ inode'[i] = [mtime |-> now, holds |-> Len(outdated')]
       /\ outdated'[Len(outdated')] = Forever

\* A path is as before, or leads nowhere, or to a new inode.
Moved(f) ==
    \/ path'[f] = path[f] \/ path'[f] = 0
    \/ /\ path'[f] = Len(inode) + 1
       /\ Len(outdated') = Len(outdated) + 1 /\ now' = now
       /\ inode'[path'[f]].mtime \in {now, Len(outdated')}

\* Time passes, and what was current at some time was so at that time.
Aging ==
    /\ DiskType' /\ Clocked'
    /\ UNCHANGED <<ini, shared, pc, local>>
    /\ now <= now'
    /\ Len(inode) <= Len(inode') /\ Len(outdated) <= Len(outdated')
    /\ \A c \in 1..Len(outdated) : outdated'[c] \in {outdated[c], now}
    /\ \A i \in 1..Len(inode) : Written(i)
    /\ \A f \in File : Moved(f)

\* The content of f is outdated and the next one is current.
LEMMA ChangeEffect ==
    ASSUME DiskType, Clocked, NEW f \in File, Change(f)
    PROVE  /\ Len(outdated') = Len(outdated) + 1
           /\ Len(outdated') <= bound.contents
           /\ outdated'[Len(outdated')] = Forever
           /\ \A c \in 1..Len(outdated) :
                 outdated'[c] = IF path[f] # 0 /\ c = inode[path[f]].holds
                                THEN now ELSE outdated[c]
<1>1. /\ Len(outdated) \in Nat /\ DOMAIN outdated = 1..Len(outdated)
      /\ outdated \in [1..Len(outdated) -> Nat] /\ outdated \in Seq(Nat)
  BY LenProperties DEF DiskType
<1>2. now \in Nat /\ Forever \in Nat
  BY CaseAssumption DEF DiskType, Forever
<1> DEFINE current == IF path[f] = 0 THEN outdated
                      ELSE [outdated EXCEPT ![inode[path[f]].holds] = now]
<1>3. current \in [1..Len(outdated) -> Nat]
  BY <1>1, <1>2
<1>4. current \in Seq(Nat) /\ Len(current) = Len(outdated)
  BY <1>1, <1>3, SeqDef, LenProperties
<1>5. \A c \in 1..Len(outdated) :
         current[c] = IF path[f] # 0 /\ c = inode[path[f]].holds
                      THEN now ELSE outdated[c]
  BY <1>1
<1>6. outdated' = Append(current, Forever) /\ Len(outdated) < bound.contents
  BY DEF Change
<1> HIDE DEF current
<1> QED
  BY <1>1, <1>2, <1>4, <1>5, <1>6, AppendProperties DEF Clocked, Limits

\* Every step of the files is of that kind.
LEMMA FilesAge == DiskType /\ Clocked /\ Files => Aging
<1> SUFFICES ASSUME DiskType, Clocked, Files
             PROVE  Aging
  OBVIOUS
<1>1. /\ DiskType' /\ now <= now' /\ Len(inode) <= Len(inode')
      /\ UNCHANGED <<ini, shared, pc, local>>
  BY FilesStep DEF FilesMove
<1>2. /\ now \in Nat /\ Start \in Nat /\ Start <= now
      /\ Len(inode) \in Nat /\ Len(outdated) \in Nat
      /\ inode \in Seq(Inode) /\ outdated \in Seq(Nat)
      /\ path \in [File -> 0..Len(inode)]
  BY CaseAssumption, LenProperties DEF DiskType
<1> DEFINE Rest == /\ Len(outdated) <= Len(outdated')
                   /\ \A c \in 1..Len(outdated) :
                         outdated'[c] \in {outdated[c], now}
                   /\ \A i \in 1..Len(inode) : Written(i)
                   /\ \A f \in File : Moved(f)
<1>3. CASE Tick
  BY <1>1, <1>2, <1>3 DEF Tick, history, Aging, Clocked, Limits, Written, Moved
<1>4. ASSUME UNCHANGED <<bound, now>>, Len(outdated') = Len(outdated) + 1,
             Len(outdated') <= bound.contents,
             \A i \in 1..Len(inode') :
                \/ i \in 1..Len(inode) /\ inode'[i] = inode[i]
                \/ /\ inode'[i].mtime \in {now, Len(outdated')}
                   /\ inode'[i].holds = Len(outdated')
      PROVE  Clocked'
  <2>1. ASSUME NEW i \in 1..Len(inode')
        PROVE  /\ inode'[i].mtime \in 1..Len(outdated') \cup Start..now'
               /\ inode'[i].holds \in 1..Len(outdated')
    <3>1. CASE i \in 1..Len(inode) /\ inode'[i] = inode[i]
      BY <1>2, <1>4, <3>1 DEF Clocked
    <3>2. CASE /\ inode'[i].mtime \in {now, Len(outdated')}
               /\ inode'[i].holds = Len(outdated')
      BY <1>2, <1>4, <3>2
    <3> QED
      BY <1>4, <3>1, <3>2
  <2> QED
    BY <1>1, <1>2, <1>4, <2>1 DEF Clocked, Limits
<1>5. ASSUME NEW f \in File, Turn(f)
      PROVE  Aging
  BY <1>1, <1>2, <1>5 DEF Turn, Aging, Clocked, Limits, Written, Moved
<1>6. ASSUME NEW f \in File, Write(f)
      PROVE  Aging
  <2>1. path[f] \in 1..Len(inode) /\ UNCHANGED <<bound, now, path>>
    BY <1>2, <1>6 DEF Write
  <2> DEFINE x == [mtime |-> now, holds |-> Len(outdated) + 1]
  <2>2. x \in Inode /\ x.mtime = now /\ x.holds = Len(outdated) + 1
    BY <1>2 DEF Inode
  <2>3. inode' = [inode EXCEPT ![path[f]] = x]
    BY <1>6 DEF Write
  <2>4. /\ Len(outdated') = Len(outdated) + 1
        /\ Len(outdated') <= bound.contents
        /\ outdated'[Len(outdated')] = Forever
        /\ \A c \in 1..Len(outdated) : outdated'[c] \in {outdated[c], now}
    BY <1>6, ChangeEffect DEF Write
  <2>5. x = [mtime |-> now, holds |-> Len(outdated')]
    BY <2>4
  <2> HIDE DEF x
  <2>6. /\ Len(inode') = Len(inode)
        /\ \A i \in 1..Len(inode) :
              inode'[i] = IF i = path[f] THEN x ELSE inode[i]
    BY <1>2, <2>1, <2>2, <2>3, ExceptSeq
  <2>7. \A i \in 1..Len(inode) : Written(i)
    BY <2>1, <2>4, <2>5, <2>6 DEF Written
  <2>8. Clocked'
    BY <1>2, <1>4, <2>1, <2>2, <2>4, <2>6
  <2>9. \A g \in File : Moved(g)
    BY <2>1 DEF Moved
  <2> QED
    BY <1>1, <1>2, <2>1, <2>4, <2>6, <2>7, <2>8, <2>9 DEF Aging
<1>7. ASSUME NEW f \in File, Replace(f)
      PROVE  Aging
  <2>1. PICK mtime \in {now, Len(outdated) + 1} :
          inode' = Append(inode, [mtime |-> mtime, holds |-> Len(outdated) + 1])
    BY <1>7 DEF Replace
  <2> DEFINE x == [mtime |-> mtime, holds |-> Len(outdated) + 1]
  <2>2. x \in Inode /\ x.mtime = mtime /\ x.holds = Len(outdated) + 1
    BY <1>2 DEF Inode
  <2>3. inode' = Append(inode, x)
    BY <2>1
  <2> HIDE DEF x
  <2>4. /\ Len(inode') = Len(inode) + 1 /\ inode'[Len(inode) + 1] = x
        /\ \A i \in 1..Len(inode) : inode'[i] = inode[i]
    BY <1>2, <2>2, <2>3, AppendProperties
  <2>5. /\ Len(outdated') = Len(outdated) + 1
        /\ Len(outdated') <= bound.contents
        /\ \A c \in 1..Len(outdated) : outdated'[c] \in {outdated[c], now}
    BY <1>7, ChangeEffect DEF Replace
  <2>6. /\ UNCHANGED <<bound, now>>
        /\ path' = [path EXCEPT ![f] = Len(inode) + 1]
    BY <1>7 DEF Replace
  <2>7. Clocked'
    BY <1>2, <1>4, <2>2, <2>4, <2>5, <2>6
  <2>8. \A g \in File : Moved(g)
    BY <1>2, <2>2, <2>4, <2>5, <2>6 DEF Moved
  <2> QED
    BY <1>1, <1>2, <2>4, <2>5, <2>7, <2>8 DEF Aging, Written
<1>8. ASSUME NEW f \in File, Delete(f)
      PROVE  Aging
  <2>1. /\ UNCHANGED <<bound, now, inode>> /\ path' = [path EXCEPT ![f] = 0]
        /\ outdated' = [outdated EXCEPT ![inode[path[f]].holds] = now]
    BY <1>8 DEF Delete
  <2>2. outdated \in [1..Len(outdated) -> Nat]
    BY <1>2, LenProperties
  <2>3. outdated' \in [1..Len(outdated) -> Nat]
    BY <1>2, <2>1, <2>2
  <2>4. Len(outdated') = Len(outdated)
    BY <1>2, <2>3, SeqDef, LenProperties
  <2>5. \A c \in 1..Len(outdated) : outdated'[c] \in {outdated[c], now}
    BY <2>1, <2>2
  <2>6. Clocked'
    BY <1>1, <2>1, <2>4 DEF Clocked, Limits
  <2>7. \A g \in File : Moved(g)
    BY <1>2, <2>1 DEF Moved
  <2> QED
    BY <1>1, <1>2, <2>1, <2>4, <2>5, <2>6, <2>7 DEF Aging, Written
<1> QED
  BY <1>3, <1>5, <1>6, <1>7, <1>8 DEF Files

\* What passes for f with a settled time stamp did so before.
LEMMA DatedShrinks ==
    ASSUME Types, Clocked, Aging, NEW f \in File, NEW t \in Nat,
           t # 0, Settled(t)
    PROVE  /\ Settled(t)'
           /\ \A i \in Dated(f, t)' : i \in Dated(f, t) /\ inode'[i] = inode[i]
<1>1. /\ now \in Nat /\ now' \in Nat /\ now <= now'
      /\ Start \in Nat /\ Start <= now
      /\ Len(inode) \in Nat /\ Len(inode') \in Nat
      /\ Len(outdated) \in Nat /\ Len(outdated') \in Nat
      /\ Len(outdated) <= Len(outdated')
  BY CaseAssumption, LenProperties DEF Types, DiskType, Aging
<1>2. Len(outdated) < Start /\ Len(outdated') < Start
  BY <1>1 DEF Aging, Clocked, Limits
<1>3. t < now /\ (t <= Len(outdated) \/ t >= Start)
  BY <1>1, <1>2 DEF Settled
<1>4. UNCHANGED <<opened, handle, request_time>>
  BY DEF Aging, local, file_handle
<1>5. ASSUME NEW i \in Dated(f, t)'
      PROVE  i \in Dated(f, t) /\ inode'[i] = inode[i]
  <2>1. i \in 1..Len(inode') /\ inode'[i].mtime = t
    BY DEF Dated
  <2>2. i \in 1..Len(inode)
    <3>1. CASE path'[f] = i
      <4>1. Moved(f) /\ path[f] \in 0..Len(inode)
        BY DEF Aging, Types, DiskType
      <4>2. Len(outdated') = Len(outdated) + 1 =>
               inode'[path'[f]].mtime \notin {now, Len(outdated')}
        BY <1>1, <1>2, <1>3, <2>1, <3>1
      <4>3. path'[f] = path[f]
        BY <1>1, <2>1, <3>1, <4>1, <4>2 DEF Moved
      <4> QED
        BY <1>1, <2>1, <3>1, <4>1, <4>3
    <3>2. ASSUME NEW p \in Proc, handle'[p] = i
          PROVE  i \in 1..Len(inode)
      BY <1>1, <1>4, <2>1, <3>2 DEF Types, LocalType
    <3> QED
      BY <3>1, <3>2 DEF Dated
  <2>3. inode'[i] = inode[i]
    <3>1. Written(i)
      BY <2>2 DEF Aging
    <3>2. inode'[i] # [mtime |-> now, holds |-> Len(outdated')]
      BY <1>1, <1>3, <2>1
    <3> QED
      BY <3>1, <3>2 DEF Written
  <2>4. path'[f] = i => path[f] = i
    <3>1. Moved(f)
      BY DEF Aging
    <3> QED
      BY <1>1, <2>2, <3>1 DEF Moved
  <2> QED
    BY <1>4, <2>1, <2>2, <2>3, <2>4 DEF Dated
<1>6. Settled(t)'
  BY <1>1, <1>3 DEF Settled
<1> QED
  BY <1>5, <1>6

\* What is said of the time stamps stays true.
LEMMA StampsAge ==
    ASSUME Types, Stamps, Aging
    PROVE  Stamps'
<1>1. /\ now \in Nat /\ now' \in Nat /\ now <= now'
      /\ Start \in Nat /\ Start <= now
      /\ Len(inode) \in Nat /\ Len(inode') \in Nat
      /\ Len(outdated) \in Nat /\ Len(outdated') \in Nat
      /\ Len(outdated) <= Len(outdated')
      /\ Clocked /\ Clocked'
  BY CaseAssumption, LenProperties DEF Types, DiskType, Aging, Stamps
<1>0. Len(outdated) < Start /\ Len(outdated') < Start
  BY <1>1 DEF Clocked, Limits
<1>2. UNCHANGED <<scripts, pc, opened, handle, request_time, made>>
  BY DEF Aging, shared, local, file_handle, held
<1>3. Unique'
  <2> SUFFICES ASSUME NEW f \in File, NEW t \in Nat, t < now',
                      NEW i \in Dated(f, t)', NEW j \in Dated(f, t)'
               PROVE  i = j
    BY DEF Unique
  <2>1. t # 0
    BY <1>0, <1>1 DEF Dated, Clocked
  <2>2. CASE Settled(t)
    <3>1. t < now /\ i \in Dated(f, t) /\ j \in Dated(f, t)
      <4>1. t < now
        BY <1>0, <1>1, <2>2 DEF Settled
      <4>2. i \in Dated(f, t) /\ j \in Dated(f, t)
        BY <1>1, <2>1, <2>2, DatedShrinks
      <4> QED
        BY <4>1, <4>2
    <3> QED
      BY <3>1 DEF Stamps, Unique
  <2>3. CASE ~Settled(t)
    <3>1. t = now \/ (Len(outdated) < t /\ t < Start)
          \/ (t > now /\ t < now')
      BY <1>0, <1>1, <2>1, <2>3 DEF Settled
    <3>2. ASSUME NEW k \in Dated(f, t)'
          PROVE  path'[f] = k
      <4>1. SUFFICES ASSUME NEW p \in Proc, handle[p] = k, t < request_time[p]
                     PROVE  FALSE
        BY <1>2 DEF Dated
      <4>2. request_time[p] <= now /\ request_time[p] \in Nat
        BY CaseAssumption DEF Types, LocalType, Point
      <4>3. Len(outdated) < t /\ t < Start
        BY <1>0, <1>1, <3>1, <4>1, <4>2
      <4>4. k \in 1..Len(inode') /\ inode'[k].mtime = t /\ k \in 1..Len(inode)
        BY <1>1, <4>1 DEF Dated, Types, LocalType
      <4>5. Written(k)
        BY <4>4 DEF Aging
      <4>6. inode[k].mtime \in 1..Len(outdated) \cup Start..now
        BY <1>1, <4>4 DEF Clocked
      <4>7. inode'[k] = inode[k]
        BY <1>0, <1>1, <4>3, <4>4, <4>5 DEF Written
      <4> QED
        BY <1>0, <1>1, <4>3, <4>4, <4>6, <4>7
    <3> QED
      BY <3>2
  <2> QED
    BY <2>2, <2>3
<1>4. ASSUME NEW p \in Proc
      PROVE  MadeStamp(p)'
  <2> SUFFICES ASSUME made[p].timestamp # 0, pc[p] \in {"compile", "store"}
               PROVE  MadeStamp(p)'
    BY <1>2 DEF MadeStamp
  <2>1. opened[p] \in File /\ made[p].timestamp \in Nat
    BY DEF Types, LocalType, Point
  <2> PICK f \in File, t \in Nat : f = opened[p] /\ t = made[p].timestamp
    BY <2>1
  <2>2. /\ t # 0 /\ Settled(t) /\ t < request_time[p]
        /\ pc[p] = "compile" => Dated(f, t) \subseteq {handle[p]}
        /\ pc[p] = "store" =>
              \A i \in Dated(f, t) : inode[i].holds = made[p].holds
    BY DEF Stamps, MadeStamp
  <2>3. /\ Settled(t)'
        /\ \A i \in Dated(f, t)' : i \in Dated(f, t) /\ inode'[i] = inode[i]
    BY <1>1, <2>2, DatedShrinks
  <2>4. f = opened'[p] /\ t = made'[p].timestamp
    BY <1>2
  <2>5. /\ pc[p] = "compile" => \A i \in Dated(f, t)' : i = handle[p]
        /\ pc[p] = "store" =>
              \A i \in Dated(f, t)' : inode'[i].holds = made[p].holds
    BY <2>2, <2>3
  <2> QED
    BY <1>2, <2>2, <2>3, <2>4, <2>5 DEF MadeStamp
<1>5. ASSUME NEW s \in 1..Len(scripts)
      PROVE  ScriptStamp(s)'
  <2> SUFFICES ASSUME scripts[s].timestamp # 0
               PROVE  ScriptStamp(s)'
    BY <1>2 DEF ScriptStamp
  <2>1. scripts[s] \in Cell
    BY ElementOfSeq DEF Types, SharedType
  <2> PICK f \in File, t \in Nat :
             f = scripts[s].file /\ t = scripts[s].timestamp
    BY <2>1 DEF Cell
  <2>2. /\ t # 0 /\ Settled(t)
        /\ \A i \in Dated(f, t) : inode[i].holds = scripts[s].holds
    BY DEF Stamps, ScriptStamp
  <2>3. /\ Settled(t)'
        /\ \A i \in Dated(f, t)' : i \in Dated(f, t) /\ inode'[i] = inode[i]
    BY <1>1, <2>2, DatedShrinks
  <2>4. f = scripts'[s].file /\ t = scripts'[s].timestamp
    BY <1>2
  <2> QED
    BY <1>2, <2>2, <2>3, <2>4 DEF ScriptStamp
<1> QED
  BY <1>1, <1>2, <1>3, <1>4, <1>5 DEF Stamps

-----------------------------------------------------------------------------
(* What processes do: handles, and the scripts that they make and store.   *)

\* A handle is opened by the path, and only during a request.
LEMMA HandleStep ==
    ASSUME Types, NEW p \in Proc, Process(p), handle'[p] # 0
    PROVE  /\ request_time' = request_time
           /\ opened'[p] \in File
           /\ \/ handle'[p] = handle[p] /\ opened'[p] = opened[p]
              \/ handle'[p] = path[opened'[p]]
<1> USE DEF Goto, Set, At
<1>1. /\ pc \in [Proc -> Label] /\ name[p] \in File \cup {Link}
      /\ opened \in [Proc -> File \cup {None}]
      /\ handle \in [Proc -> 0..Len(inode)] /\ request_time \in [Proc -> Start..End]
      /\ Point(p)
  BY DEF Types, LocalType
<1>2. pc[p] = "run" => handle[p] = 0
  BY <1>1 DEF Point
<1>3. ~Return(p)
  BY <1>1 DEF Return
<1>4. handle[p] # 0 => opened[p] \in File
  BY <1>1 DEF Point
<1>5. CASE accel_activate(p)
  BY <1>2, <1>5 DEF accel_activate, file_handle
<1>6. ASSUME NEW o \in {"include", "is_file"}, NEW n \in File \cup {Link},
             FindByKey(p, o, n)
      PROVE  FALSE
  BY <1>2, <1>6 DEF FindByKey, Begin
<1>7. ASSUME NEW n \in File \cup {Link}, persistent_zend_resolve_path(p, n)
      PROVE  FALSE
  BY <1>2, <1>7 DEF persistent_zend_resolve_path, Begin
<1>8. ASSUME NEW n \in File \cup {Link}, NEW force \in BOOLEAN,
             zend_accel_invalidate(p, n, force)
      PROVE  FALSE
  BY <1>2, <1>8 DEF zend_accel_invalidate, Begin
<1>9. CASE OpenFile(p)
  <2>1. Resolve(name[p]) \in File \cup {None}
    BY <1>1, ResolveFinds DEF Types
  <2> QED
    BY <1>1, <1>3, <1>9, <2>1 DEF OpenFile
<1>10. CASE FindByPath(p)
  BY <1>4, <1>10 DEF FindByPath, file_handle
<1>11. CASE Check(p)
  BY <1>3, <1>4, <1>11 DEF Check, file_handle
<1>12. CASE Stat(p)
  BY <1>3, <1>4, <1>12 DEF Stat, file_handle
<1>13. CASE Invalidate(p)
  BY <1>3, <1>4, <1>13 DEF Invalidate, file_handle
<1>14. CASE Miss(p)
  <2> DEFINE f == Resolve(IF opened[p] = None THEN name[p] ELSE opened[p])
             i == IF handle[p] # 0 THEN handle[p]
                  ELSE IF f # None THEN path[f] ELSE 0
  <2>1. f \in File \cup {None}
    BY <1>1, ResolveFinds DEF Types
  <2>2. /\ i # 0 /\ UNCHANGED request_time
        /\ opened' = [opened EXCEPT ![p] = IF handle[p] # 0 THEN opened[p] ELSE f]
        /\ handle' = [handle EXCEPT ![p] = i]
    BY <1>3, <1>14 DEF Miss
  <2> HIDE DEF f
  <2> QED
    BY <1>1, <1>4, <2>1, <2>2
<1>15. CASE Compile(p)
  BY <1>1, <1>3, <1>15 DEF Compile
<1>16. CASE cache_script_in_shared_memory(p)
  BY <1>3, <1>4, <1>16 DEF cache_script_in_shared_memory, file_handle
<1>17. CASE Use(p)
  BY <1>3, <1>17 DEF Use
<1> QED
  BY <1>5, <1>6, <1>7, <1>8, <1>9, <1>10, <1>11, <1>12, <1>13, <1>14,
     <1>15, <1>16, <1>17 DEF Process

\* So nothing passes for a file that did not before.
LEMMA DatedStays ==
    ASSUME Types, NEW p \in Proc, Process(p), NEW f \in File, NEW t \in Nat
    PROVE  /\ Settled(t)' = Settled(t)
           /\ Dated(f, t)' \subseteq Dated(f, t)
<1>1. UNCHANGED <<now, inode, path, outdated>> /\ Others(p)
  BY ProcessFrame DEF disk, history
<1>2. ASSUME NEW i \in Dated(f, t)', NEW q \in Proc,
             opened'[q] = f, handle'[q] = i, t < request_time'[q]
      PROVE  i \in Dated(f, t)
  <2>1. i \in 1..Len(inode) /\ inode[i].mtime = t
    BY <1>1 DEF Dated
  <2>2. i # 0
    BY <2>1
  <2>3. CASE q = p
    BY <1>2, <2>1, <2>2, <2>3, HandleStep DEF Dated
  <2>4. CASE q # p
    BY <1>1, <1>2, <2>1, <2>4 DEF Dated, Others
  <2> QED
    BY <2>3, <2>4
<1> QED
  BY <1>1, <1>2 DEF Dated, Settled

\* What is made by others is left alone, and p makes something in two steps.
LEMMA MakingStep ==
    ASSUME Types, NEW p \in Proc, Process(p)
    PROVE  /\ \A q \in Proc \ {p} : made'[q] = made[q]
           /\ pc'[p] = "compile" => Miss(p)
           /\ pc'[p] = "store" => Compile(p)
<1> USE DEF Goto, Set, At
<1>1. /\ pc \in [Proc -> Label]
      /\ made \in [Proc -> [timestamp : Nat, holds : Nat]]
  BY DEF Types, LocalType
<1>2. Return(p) => /\ pc'[p] = "run"
                   /\ \A q \in Proc \ {p} : made'[q] = made[q]
  BY <1>1 DEF Return
<1> DEFINE Made == /\ \A q \in Proc \ {p} : made'[q] = made[q]
                   /\ pc'[p] \notin {"compile", "store"}
<1>3. CASE accel_activate(p)
  BY <1>1, <1>3 DEF accel_activate, held
<1>4. ASSUME NEW o \in {"include", "is_file"}, NEW n \in File \cup {Link},
             FindByKey(p, o, n)
      PROVE  Made
  BY <1>1, <1>4 DEF FindByKey
<1>5. ASSUME NEW n \in File \cup {Link}, persistent_zend_resolve_path(p, n)
      PROVE  Made
  BY <1>1, <1>5 DEF persistent_zend_resolve_path
<1>6. ASSUME NEW n \in File \cup {Link}, NEW force \in BOOLEAN,
             zend_accel_invalidate(p, n, force)
      PROVE  Made
  BY <1>1, <1>6 DEF zend_accel_invalidate
<1>7. CASE OpenFile(p)
  BY <1>1, <1>2, <1>7 DEF OpenFile, held
<1>8. CASE FindByPath(p)
  BY <1>1, <1>8 DEF FindByPath, held
<1>9. CASE Check(p)
  BY <1>1, <1>2, <1>9 DEF Check, Accept, held
<1>10. CASE Stat(p)
  BY <1>1, <1>2, <1>10 DEF Stat, Accept, held
<1>11. CASE Invalidate(p)
  BY <1>1, <1>2, <1>11 DEF Invalidate, held
<1>12. CASE Miss(p)
  BY <1>1, <1>2, <1>12 DEF Miss
<1>13. CASE Compile(p)
  BY <1>1, <1>2, <1>13 DEF Compile
<1>14. CASE cache_script_in_shared_memory(p)
  BY <1>1, <1>2, <1>14 DEF cache_script_in_shared_memory, held
<1>15. CASE Use(p)
  BY <1>1, <1>2, <1>15 DEF Use
<1> QED
  BY <1>3, <1>4, <1>5, <1>6, <1>7, <1>8, <1>9, <1>10, <1>11, <1>12, <1>13,
     <1>14, <1>15 DEF Process

\* What p does to a stored script.
Touched(p, s) ==
    /\ scripts'[s].file = scripts[s].file
    /\ scripts'[s].holds = scripts[s].holds
    /\ scripts'[s].timestamp \in {0, scripts[s].timestamp}
    /\ \/ scripts'[s].revalidate = scripts[s].revalidate
       \/ /\ Stat(p) /\ Unchanged(p) /\ s = ptr[p]
          /\ scripts'[s].revalidate = request_time[p] + ini.revalidate_freq

\* The script that p stores is the one that it has made.
MadeBy(p, s) ==
    /\ pc[p] = "store"
    /\ scripts'[s].file = opened[p]
    /\ scripts'[s].holds = made[p].holds
    /\ scripts'[s].timestamp = made[p].timestamp
    /\ ini.validate_timestamps =>
          scripts'[s].revalidate = request_time[p] + ini.revalidate_freq

\* Whatever p does, it does one of these to each script.
LEMMA EachScriptStep ==
    ASSUME Types, NEW p \in Proc, Process(p)
    PROVE  /\ \A s \in 1..Len(scripts) : Touched(p, s)
           /\ \A s \in 1..Len(scripts') :
                 s \notin 1..Len(scripts) => MadeBy(p, s)
<1>1. /\ Len(scripts) \in Nat /\ scripts \in Seq(Cell)
      /\ \A s \in 1..Len(scripts) : scripts[s] \in Cell
      /\ ptr[p] \in 0..Len(scripts)
  BY LenProperties, ElementOfSeq DEF Types, SharedType, LocalType
<1>2. CASE UNCHANGED scripts
  BY <1>1, <1>2 DEF Touched
<1>3. CASE Stat(p) /\ scripts' # scripts
  <2> DEFINE x == [scripts[ptr[p]] EXCEPT !.revalidate =
                      request_time[p] + ini.revalidate_freq]
  <2>1. scripts' = [scripts EXCEPT ![ptr[p]] = x] /\ Unchanged(p)
    BY <1>3 DEF Stat
  <2>2. ptr[p] \in 1..Len(scripts)
    BY <1>1, <1>3 DEF Stat, Types, Point
  <2>3. request_time[p] + ini.revalidate_freq \in Nat
    BY CaseAssumption DEF Types, SharedType, LocalType, Setting
  <2>4. /\ x \in Cell /\ x.file = scripts[ptr[p]].file
        /\ x.holds = scripts[ptr[p]].holds
        /\ x.timestamp = scripts[ptr[p]].timestamp
        /\ x.revalidate = request_time[p] + ini.revalidate_freq
    BY <1>1, <2>2, <2>3 DEF Cell
  <2> HIDE DEF x
  <2>5. /\ Len(scripts') = Len(scripts)
        /\ \A s \in 1..Len(scripts) :
              scripts'[s] = IF s = ptr[p] THEN x ELSE scripts[s]
    BY <1>1, <2>1, <2>2, <2>4, ExceptSeq
  <2> QED
    BY <1>3, <2>1, <2>4, <2>5 DEF Touched
<1>4. CASE Invalidate(p) /\ scripts' # scripts
  <2> DEFINE x == [scripts[ptr[p]] EXCEPT !.corrupted = TRUE, !.timestamp = 0]
  <2>1. scripts' = [scripts EXCEPT ![ptr[p]] = x]
        /\ ptr[p] \in 1..Len(scripts)
    BY <1>4, InvalidateMarks
  <2>2. /\ x \in Cell /\ x.file = scripts[ptr[p]].file
        /\ x.holds = scripts[ptr[p]].holds /\ x.timestamp = 0
        /\ x.revalidate = scripts[ptr[p]].revalidate
    BY <1>1, <2>1 DEF Cell
  <2> HIDE DEF x
  <2>3. /\ Len(scripts') = Len(scripts)
        /\ \A s \in 1..Len(scripts) :
              scripts'[s] = IF s = ptr[p] THEN x ELSE scripts[s]
    BY <1>1, <2>1, <2>2, ExceptSeq
  <2> QED
    BY <2>2, <2>3 DEF Touched
<1>5. CASE cache_script_in_shared_memory(p) /\ scripts' # scripts
  <2> DEFINE new == [file |-> opened[p], holds |-> made[p].holds,
                     timestamp |-> made[p].timestamp,
                     revalidate |-> IF ini.validate_timestamps
                                    THEN request_time[p] + ini.revalidate_freq
                                    ELSE 0,
                     corrupted |-> FALSE]
  <2>1. scripts' = Append(scripts, new) /\ pc[p] = "store"
    BY <1>5 DEF cache_script_in_shared_memory, At
  <2>2. /\ opened[p] \in File
        /\ request_time[p] + ini.revalidate_freq \in Nat
        /\ made[p] \in [timestamp : Nat, holds : Nat]
    BY <2>1, CaseAssumption
       DEF Types, SharedType, LocalType, Setting, Point
  <2>3. new \in Cell
    BY <2>2 DEF Cell
  <2>4. /\ new.file = opened[p] /\ new.holds = made[p].holds
        /\ new.timestamp = made[p].timestamp
        /\ ini.validate_timestamps =>
              new.revalidate = request_time[p] + ini.revalidate_freq
    OBVIOUS
  <2> HIDE DEF new
  <2>5. /\ Len(scripts') = Len(scripts) + 1
        /\ \A s \in 1..Len(scripts) : scripts'[s] = scripts[s]
        /\ scripts'[Len(scripts) + 1] = new
    BY <1>1, <2>1, <2>3, AppendProperties
  <2>6. ASSUME NEW s \in 1..Len(scripts')
        PROVE  s \in 1..Len(scripts) \/ s = Len(scripts) + 1
    BY <1>1, <2>5
  <2>7. Len(scripts) + 1 \notin 1..Len(scripts)
    BY <1>1
  <2>8. MadeBy(p, Len(scripts) + 1)
    BY <2>1, <2>4, <2>5 DEF MadeBy
  <2>9. \A s \in 1..Len(scripts) : Touched(p, s)
    BY <2>5 DEF Touched
  <2> QED
    BY <2>6, <2>7, <2>8, <2>9
<1>6. \/ UNCHANGED scripts
      \/ Stat(p) \/ Invalidate(p) \/ cache_script_in_shared_memory(p)
  <2>1. UNCHANGED shared => UNCHANGED scripts
    BY DEF shared
  <2> QED
    BY <2>1
       DEF Process, accel_activate, FindByKey, zend_accel_invalidate,
           OpenFile, persistent_zend_resolve_path, FindByPath, Check, Miss,
           Compile, Use
<1>7. CASE scripts' # scripts
  BY <1>3, <1>4, <1>5, <1>6, <1>7
<1> QED
  BY <1>2, <1>7

-----------------------------------------------------------------------------
(* What processes do: time stamps.                                         *)

\* What was written this second is left alone.
LEMMA SettledStamp ==
    ASSUME Types, Clocked, NEW p \in Proc, NEW i \in 1..Len(inode),
           ~TooNew(p, inode[i].mtime)
    PROVE  /\ inode[i].mtime \in Nat /\ inode[i].mtime # 0
           /\ Settled(inode[i].mtime) /\ inode[i].mtime < request_time[p]
<1>1. /\ Len(outdated) \in Nat /\ now \in Nat /\ Start \in Nat
      /\ request_time[p] \in Nat /\ request_time[p] <= now
      /\ Start <= request_time[p]
  BY CaseAssumption, LenProperties
     DEF Types, DiskType, LocalType, Point
<1>2. Len(outdated) < Start
  BY <1>1 DEF Clocked, Limits
<1>3. inode[i].mtime \in 1..Len(outdated) \cup Start..now
  BY DEF Clocked
<1>4. /\ ini.file_update_protection \in Nat
      /\ ini.file_update_protection # 0
  BY DEF Types, SharedType, Setting, Clocked
<1>5. ~(request_time[p] - ini.file_update_protection < inode[i].mtime)
  BY <1>4 DEF TooNew
<1>6. inode[i].mtime \in Nat /\ inode[i].mtime # 0
  BY <1>1, <1>2, <1>3
<1>7. inode[i].mtime < request_time[p]
  BY <1>1, <1>4, <1>5, <1>6
<1> QED
  BY <1>1, <1>2, <1>3, <1>6, <1>7 DEF Settled

\* What p makes is what its time stamp says.
LEMMA MadeStep ==
    ASSUME Types, Stamps, NEW p \in Proc, Process(p)
    PROVE  MadeStamp(p)'
<1> USE DEF Goto, Set, At
<1>1. /\ pc \in [Proc -> Label] /\ name[p] \in File \cup {Link}
      /\ opened \in [Proc -> File \cup {None}]
      /\ handle \in [Proc -> 0..Len(inode)] /\ Len(inode) \in Nat
      /\ made \in [Proc -> [timestamp : Nat, holds : Nat]]
      /\ path \in [File -> 0..Len(inode)]
      /\ Point(p)
  BY LenProperties DEF Types, LocalType, DiskType
<1>2. UNCHANGED <<now, inode, path, outdated, ini>>
  BY ProcessFrame DEF disk, history
<1>3. CASE pc'[p] = "compile"
  <2> DEFINE g == Resolve(IF opened[p] = None THEN name[p] ELSE opened[p])
             j == IF handle[p] # 0 THEN handle[p]
                  ELSE IF g # None THEN path[g] ELSE 0
  <2>1. Miss(p) /\ ~Return(p)
    BY <1>1, <1>3, MakingStep DEF Return
  <2>2. g \in File \cup {None}
    BY <1>1, ResolveFinds DEF Types
  <2>3. /\ j # 0 /\ ~TooNew(p, inode[j].mtime)
        /\ opened' = [opened EXCEPT ![p] = IF handle[p] # 0 THEN opened[p] ELSE g]
        /\ handle' = [handle EXCEPT ![p] = j]
        /\ made' = [made EXCEPT ![p].timestamp =
                      IF ini.validate_timestamps THEN inode[j].mtime ELSE 0]
        /\ UNCHANGED request_time
    BY <2>1 DEF Miss
  <2>4. j \in 1..Len(inode)
    BY <1>1, <2>2, <2>3
  <2> HIDE DEF g, j
  <2>5. /\ made'[p].timestamp \in {0, inode[j].mtime}
        /\ opened'[p] \in File /\ handle'[p] = j
        /\ path[opened'[p]] = j
           \/ (handle[p] = j /\ opened[p] = opened'[p])
    <3>1. made'[p].timestamp \in {0, inode[j].mtime} /\ handle'[p] = j
      BY <1>1, <2>3
    <3>2. CASE handle[p] # 0
      BY <1>1, <2>3, <3>2 DEF Point, j
    <3>3. CASE handle[p] = 0
      BY <1>1, <2>2, <2>3, <3>3 DEF j
    <3> QED
      BY <3>1, <3>2, <3>3
  <2> PICK f \in File : f = opened'[p]
    BY <2>5
  <2>6. PICK t \in Nat : t = inode[j].mtime /\ t # 0 /\ Settled(t)
                         /\ t < request_time[p]
    BY <2>3, <2>4, SettledStamp DEF Stamps
  <2>7. j \in Dated(f, t)
    BY <2>4, <2>5, <2>6 DEF Dated
  <2>8. t < now
    BY <2>6, CaseAssumption DEF Types, LocalType, Point, DiskType
  <2>9. Dated(f, t) \subseteq {j}
    BY <2>7, <2>8 DEF Stamps, Unique
  <2>10. Settled(t)' /\ Dated(f, t)' \subseteq {j}
    BY <2>6, <2>9, DatedStays
  <2>11. MadeStamp(p)' = (made'[p].timestamp # 0 => MadeStamp(p)')
    BY DEF MadeStamp
  <2>12. made'[p].timestamp # 0 => made'[p].timestamp = t
    BY <2>5, <2>6
  <2> QED
    BY <1>3, <2>3, <2>5, <2>6, <2>10, <2>12 DEF MadeStamp
<1>4. CASE pc'[p] = "store"
  <2>1. Compile(p) /\ ~Return(p)
    BY <1>1, <1>4, MakingStep DEF Return
  <2>2. /\ pc[p] = "compile"
        /\ made' = [made EXCEPT ![p].holds = inode[handle[p]].holds]
        /\ UNCHANGED <<opened, request_time>>
    BY <2>1 DEF Compile
  <2>3. made'[p].timestamp = made[p].timestamp
        /\ made'[p].holds = inode[handle[p]].holds
    BY <1>1, <2>2
  <2> SUFFICES ASSUME made[p].timestamp # 0
               PROVE  MadeStamp(p)'
    BY <2>3 DEF MadeStamp
  <2>4. opened[p] \in File /\ made[p].timestamp \in Nat
    BY <1>1, <2>2 DEF Point
  <2> PICK f \in File, t \in Nat : f = opened[p] /\ t = made[p].timestamp
    BY <2>4
  <2>5. /\ t # 0 /\ Settled(t) /\ t < request_time[p]
        /\ Dated(f, t) \subseteq {handle[p]}
    BY <2>2 DEF Stamps, MadeStamp
  <2>6. Settled(t)' /\ \A i \in Dated(f, t)' : inode'[i].holds = made'[p].holds
    BY <1>2, <2>3, <2>5, DatedStays
  <2>7. f = opened'[p] /\ t = made'[p].timestamp
    BY <2>2, <2>3
  <2> QED
    BY <1>4, <2>2, <2>5, <2>6, <2>7 DEF MadeStamp
<1> QED
  BY <1>3, <1>4 DEF MadeStamp

\* What is said of the time stamps stays true whatever a process does.
LEMMA StampsMove ==
    ASSUME Types, Stamps, NEW p \in Proc, Process(p)
    PROVE  Stamps'
<1>1. UNCHANGED <<ini, bound, now, inode, path, outdated>> /\ Others(p)
  BY ProcessFrame DEF disk, history
<1>2. Clocked'
  BY <1>1 DEF Stamps, Clocked, Limits
<1>3. Unique'
  <2> SUFFICES ASSUME NEW f \in File, NEW t \in Nat, t < now,
                      NEW i \in Dated(f, t)', NEW j \in Dated(f, t)'
               PROVE  i = j
    BY <1>1 DEF Unique
  <2>1. i \in Dated(f, t) /\ j \in Dated(f, t)
    BY DatedStays
  <2> QED
    BY <2>1 DEF Stamps, Unique
<1>4. ASSUME NEW q \in Proc \ {p}
      PROVE  MadeStamp(q)'
  <2>1. /\ pc'[q] = pc[q] /\ opened'[q] = opened[q] /\ made'[q] = made[q]
        /\ handle'[q] = handle[q] /\ request_time'[q] = request_time[q]
    BY <1>1, MakingStep DEF Others
  <2> SUFFICES ASSUME made[q].timestamp # 0, pc[q] \in {"compile", "store"}
               PROVE  MadeStamp(q)'
    BY <2>1 DEF MadeStamp
  <2>2. opened[q] \in File /\ made[q].timestamp \in Nat
    BY DEF Types, LocalType, Point
  <2> PICK f \in File, t \in Nat : f = opened[q] /\ t = made[q].timestamp
    BY <2>2
  <2>3. /\ t # 0 /\ Settled(t) /\ t < request_time[q]
        /\ pc[q] = "compile" => Dated(f, t) \subseteq {handle[q]}
        /\ pc[q] = "store" =>
              \A i \in Dated(f, t) : inode[i].holds = made[q].holds
    BY DEF Stamps, MadeStamp
  <2>4. Settled(t)' /\ Dated(f, t)' \subseteq Dated(f, t)
    BY <2>3, DatedStays
  <2>5. f = opened'[q] /\ t = made'[q].timestamp
    BY <2>1
  <2>6. /\ pc'[q] = "compile" => Dated(f, t)' \subseteq {handle'[q]}
        /\ pc'[q] = "store" =>
              \A i \in Dated(f, t)' : inode'[i].holds = made'[q].holds
    BY <1>1, <2>1, <2>3, <2>4
  <2> QED
    BY <2>1, <2>3, <2>4, <2>5, <2>6 DEF MadeStamp
<1>5. MadeStamp(p)'
  BY MadeStep
<1>6. ASSUME NEW s \in 1..Len(scripts')
      PROVE  ScriptStamp(s)'
  <2> SUFFICES ASSUME scripts'[s].timestamp # 0
               PROVE  ScriptStamp(s)'
    BY DEF ScriptStamp
  <2>1. CASE s \in 1..Len(scripts) /\ Touched(p, s)
    <3>1. /\ scripts'[s].file = scripts[s].file
          /\ scripts'[s].holds = scripts[s].holds
          /\ scripts'[s].timestamp = scripts[s].timestamp
      BY <2>1 DEF Touched
    <3>2. scripts[s] \in Cell
      BY <2>1, ElementOfSeq DEF Types, SharedType
    <3> PICK f \in File, t \in Nat :
               f = scripts[s].file /\ t = scripts[s].timestamp
      BY <3>2 DEF Cell
    <3>3. /\ t # 0 /\ Settled(t)
          /\ \A i \in Dated(f, t) : inode[i].holds = scripts[s].holds
      BY <2>1, <3>1 DEF Stamps, ScriptStamp
    <3>4. Settled(t)' /\ Dated(f, t)' \subseteq Dated(f, t)
      BY <3>3, DatedStays
    <3>5. f = scripts'[s].file /\ t = scripts'[s].timestamp
      BY <3>1
    <3>6. \A i \in Dated(f, t)' : inode'[i].holds = scripts'[s].holds
      BY <1>1, <3>1, <3>3, <3>4
    <3> QED
      BY <3>4, <3>5, <3>6 DEF ScriptStamp
  <2>2. CASE MadeBy(p, s)
    <3>1. /\ scripts'[s].file = opened[p] /\ pc[p] = "store"
          /\ scripts'[s].holds = made[p].holds
          /\ scripts'[s].timestamp = made[p].timestamp
      BY <2>2 DEF MadeBy
    <3>2. opened[p] \in File /\ made[p].timestamp \in Nat
      BY <3>1 DEF Types, LocalType, Point
    <3> PICK f \in File, t \in Nat : f = opened[p] /\ t = made[p].timestamp
      BY <3>2
    <3>3. /\ t # 0 /\ Settled(t)
          /\ \A i \in Dated(f, t) : inode[i].holds = made[p].holds
      BY <3>1 DEF Stamps, MadeStamp
    <3>4. Settled(t)' /\ Dated(f, t)' \subseteq Dated(f, t)
      BY <3>3, DatedStays
    <3>5. f = scripts'[s].file /\ t = scripts'[s].timestamp
      BY <3>1
    <3>6. \A i \in Dated(f, t)' : inode'[i].holds = scripts'[s].holds
      BY <1>1, <3>1, <3>3, <3>4
    <3> QED
      BY <3>4, <3>5, <3>6 DEF ScriptStamp
  <2>3. (s \in 1..Len(scripts) /\ Touched(p, s)) \/ MadeBy(p, s)
    BY EachScriptStep
  <2> QED
    BY <2>1, <2>2, <2>3
<1> QED
  BY <1>2, <1>3, <1>4, <1>5, <1>6 DEF Stamps

\* At the start.
LEMMA StampsInitially ==
    ASSUME Protected, Init
    PROVE  Stamps
<1>1. PICK c \in Cases, just \in BOOLEAN :
        /\ ini = c.ini /\ bound = c.bound
        /\ inode = [i \in 1..Cardinality(bound.files) |->
                      [mtime |-> IF just THEN Start ELSE i, holds |-> i]]
  BY DEF Init
<1>2. /\ ini.file_update_protection # 0
      /\ bound.contents \in Nat /\ bound.contents < Start
      /\ Cardinality(bound.files) <= bound.contents
      /\ IsFiniteSet(bound.files)
  BY <1>1, CaseAssumption DEF Protected, Bound
<1> DEFINE n == Cardinality(bound.files)
<1>3. n \in Nat /\ n <= bound.contents
  BY <1>2, FS_CardinalityType
<1> HIDE DEF n
<1>4. /\ Types /\ now = Start
      /\ pc = [p \in Proc |-> "run"] /\ handle = [p \in Proc |-> 0]
      /\ scripts = <<>> /\ outdated = [i \in 1..n |-> Forever]
  BY Initially DEF Init, Inv, n
<1>5. inode = [i \in 1..n |->
                 [mtime |-> IF just THEN Start ELSE i, holds |-> i]]
  BY <1>1 DEF n
<1>6. Len(inode) = n /\ Len(outdated) = n
  <2>1. inode \in Seq(Inode) /\ outdated \in Seq(Nat)
    BY <1>4 DEF Types, DiskType
  <2>2. DOMAIN inode = 1..n /\ DOMAIN outdated = 1..n
    BY <1>4, <1>5
  <2>3. /\ Len(inode) \in Nat /\ DOMAIN inode = 1..Len(inode)
        /\ Len(outdated) \in Nat /\ DOMAIN outdated = 1..Len(outdated)
    BY <2>1, LenProperties
  <2> QED
    BY <1>3, <2>2, <2>3
<1>7. Clocked
  <2>1. Limits
    BY <1>2, <1>3, <1>6 DEF Limits
  <2>2. ASSUME NEW i \in 1..n
        PROVE  /\ inode[i].mtime \in 1..n \cup Start..now
               /\ inode[i].holds \in 1..n
    BY <1>3, <1>4, <1>5, CaseAssumption
  <2> QED
    BY <1>2, <1>6, <2>1, <2>2 DEF Clocked
<1>8. Unique
  <2> SUFFICES ASSUME NEW f \in File, NEW t \in Nat,
                      NEW i \in Dated(f, t), NEW j \in Dated(f, t)
               PROVE  i = j
    BY DEF Unique
  <2>1. \A p \in Proc : handle[p] = 0
    BY <1>4
  <2>2. ASSUME NEW k \in Dated(f, t)
        PROVE  path[f] = k
    BY <1>3, <1>6, <2>1 DEF Dated
  <2> QED
    BY <2>2
<1>9. \A p \in Proc : MadeStamp(p)
  BY <1>4 DEF MadeStamp
<1>10. 1..Len(scripts) = {}
  BY <1>4, EmptySeq
<1> QED
  BY <1>7, <1>8, <1>9, <1>10 DEF Stamps

\* The time stamps tell what they should in every state.
LEMMA StampsInvariance == ASSUME Protected PROVE Spec => [](Inv /\ Stamps)
<1>1. Init => Stamps
  BY StampsInitially
<1>2. Inv /\ Stamps /\ [Next]_vars => Stamps'
  <2> SUFFICES ASSUME Inv, Stamps, [Next]_vars
               PROVE  Stamps'
    OBVIOUS
  <2>1. CASE Files
    BY <2>1, FilesAge, StampsAge DEF Inv, Types, Stamps
  <2>2. ASSUME NEW p \in Proc, Process(p)
        PROVE  Stamps'
    BY <2>2, StampsMove DEF Inv
  <2>3. CASE UNCHANGED vars
    BY <2>3 DEF vars, disk, shared, local, history, file_handle, held, Stamps,
                Clocked, Limits, Unique, MadeStamp, ScriptStamp, Dated, Settled
  <2> QED
    BY <2>1, <2>2, <2>3 DEF Next
<1> QED
  BY <1>1, <1>2, Invariance, PTL DEF Spec

-----------------------------------------------------------------------------
(* The inductive invariant: how old the scripts are.                       *)

\* Content c was that of its path at time t, or later.
Until(c, t) == c \in 1..Len(outdated) /\ outdated[c] >= t

\* What is at a path is current, and no two paths share it.
Current ==
    /\ \A f \in File :
          path[f] # 0 => outdated[inode[path[f]].holds] = Forever
    /\ \A f, g \in File :
          f # g /\ path[f] # 0 /\ path[g] # 0
          => inode[path[f]].holds # inode[path[g]].holds

\* What p has open or has compiled was current during its request.
Recent(p) ==
    /\ handle[p] # 0 => Until(inode[handle[p]].holds, request_time[p])
    /\ pc[p] = "store" => Until(made[p].holds, request_time[p])

\* Link was not turned away from f.
NotLeft(f) == left[f] \in {0, Forever}

\* A stored script was current later than its time stamp says, and when it
\* was validated last.
Fine(s) ==
    LET x == scripts[s] IN
    /\ x.timestamp # 0 => Until(x.holds, x.timestamp + 1)
    /\ ini.validate_timestamps /\ NotLeft(x.file)
       => Until(x.holds, x.revalidate - ini.revalidate_freq)
    /\ ini.validate_timestamps => x.revalidate <= now + ini.revalidate_freq

\* What p is about to execute is not older than BoundedStaleness says.
Ready(p) ==
    LET x == scripts[ptr[p]] IN
    /\ pc[p] \in {"load", "yes"} /\ ini.validate_timestamps
    /\ NotLeft(x.file)
    => Until(x.holds, request_time[p] - ini.revalidate_freq)

\* Link leads to target; its key refers to a file that it led to.
Leads ==
    /\ \A f \in File : left[f] = Forever <=> f = target
    /\ key # None => left[key] # 0

Search == {"check", "stat", "resolved"}

\* The script that p checks is that of the file it has opened or named, or
\* of one that Link led to.
Named(p) ==
    /\ name[p] = Link /\ opened[p] # None => left[opened[p]] # 0
    /\ pc[p] = "resolved" => opened[p] = None
    /\ pc[p] \in Search /\ ptr[p] # 0 =>
          LET f == scripts[ptr[p]].file IN
          /\ opened[p] # None /\ pc[p] # "check" => f = opened[p]
          /\ opened[p] = None =>
                IF name[p] = Link THEN left[f] # 0 ELSE f = name[p]

Ages ==
    /\ Current /\ Leads
    /\ \A p \in Proc : Recent(p) /\ Ready(p) /\ Named(p)
    /\ \A s \in 1..Len(scripts) : Fine(s)

-----------------------------------------------------------------------------
(* What others do to the files: ages.                                      *)

\* Until, after the step.
Later(c, t) == c \in 1..Len(outdated') /\ outdated'[c] >= t

\* What was current at a time was so at that time.
LEMMA UntilAges ==
    ASSUME Types, Aging, NEW c, NEW t \in Int, t <= now, Until(c, t)
    PROVE  Later(c, t)
<1>1. /\ c \in 1..Len(outdated) /\ outdated[c] >= t
      /\ Len(outdated) \in Nat /\ Len(outdated') \in Nat
      /\ Len(outdated) <= Len(outdated')
      /\ outdated'[c] \in {outdated[c], now}
  BY LenProperties DEF Until, Aging, Types, DiskType
<1> QED
  BY <1>1 DEF Later

\* A content is outdated by a step that takes it from its path only.
LEMMA CurrentAges ==
    ASSUME Types, Stamps, Current, Files
    PROVE  Current'
<1>1. /\ Len(inode) \in Nat /\ Len(outdated) \in Nat /\ inode \in Seq(Inode)
      /\ path \in [File -> 0..Len(inode)]
      /\ outdated \in Seq(Nat)
      /\ \A i \in 1..Len(inode) : inode[i].holds \in 1..Len(outdated)
      /\ DiskType /\ Clocked
  BY LenProperties DEF Types, DiskType, Stamps, Clocked
<1>2. now \in Nat
  BY CaseAssumption DEF Types, DiskType
<1>3. ASSUME UNCHANGED <<inode, path, outdated>>
      PROVE  Current'
  BY <1>3 DEF Current
<1>4. ASSUME NEW f \in File, Change(f),
             \A g \in File \ {f} : path'[g] = path[g],
             path'[f] # 0,
             inode'[path'[f]].holds = Len(outdated'),
             \A i \in 1..Len(inode) : i # path'[f] => inode'[i] = inode[i],
             \A g \in File \ {f} : path'[f] # path[g]
      PROVE  Current'
  <2>1. /\ Len(outdated') = Len(outdated) + 1
        /\ outdated'[Len(outdated')] = Forever
        /\ \A c \in 1..Len(outdated) :
              outdated'[c] = IF path[f] # 0 /\ c = inode[path[f]].holds
                             THEN now ELSE outdated[c]
    BY <1>1, <1>4, ChangeEffect
  <2>2. ASSUME NEW g \in File \ {f}, path'[g] # 0
        PROVE  /\ inode'[path'[g]].holds = inode[path[g]].holds
               /\ inode[path[g]].holds \in 1..Len(outdated)
               /\ outdated'[inode[path[g]].holds] = Forever
    <3>1. path'[g] = path[g] /\ path[g] \in 1..Len(inode)
          /\ inode'[path[g]] = inode[path[g]]
      BY <1>1, <1>4, <2>2
    <3>2. inode[path[g]].holds \in 1..Len(outdated)
      BY <1>1, <3>1
    <3>3. /\ outdated[inode[path[g]].holds] = Forever
          /\ path[f] # 0 => inode[path[f]].holds # inode[path[g]].holds
      BY <2>2, <3>1 DEF Current
    <3>4. outdated'[inode[path[g]].holds] = Forever
      BY <2>1, <3>2, <3>3
    <3> QED
      BY <3>1, <3>2, <3>4
  <2>3. \A g \in File \ {f} : path'[g] # 0 =>
           inode'[path'[g]].holds # Len(outdated')
    BY <1>1, <2>1, <2>2
  <2>4. ASSUME NEW g \in File, path'[g] # 0
        PROVE  outdated'[inode'[path'[g]].holds] = Forever'
    BY <1>4, <2>1, <2>2, <2>4 DEF Forever
  <2>5. ASSUME NEW g \in File, NEW h \in File, g # h,
               path'[g] # 0, path'[h] # 0
        PROVE  inode'[path'[g]].holds # inode'[path'[h]].holds
    <3>1. CASE g = f \/ h = f
      BY <1>4, <2>3, <2>5, <3>1
    <3>2. CASE g # f /\ h # f
      <4>1. path[g] # 0 /\ path[h] # 0
        BY <1>4, <2>5, <3>2
      <4> QED
        BY <2>2, <2>5, <3>2, <4>1 DEF Current
    <3> QED
      BY <3>1, <3>2
  <2> QED
    BY <2>4, <2>5 DEF Current
<1>5. ASSUME NEW f \in File, Write(f)
      PROVE  Current'
  <2>1. path[f] \in 1..Len(inode) /\ path' = path
    BY <1>1, <1>5 DEF Write
  <2> DEFINE x == [mtime |-> now, holds |-> Len(outdated) + 1]
  <2>2. x \in Inode /\ x.holds = Len(outdated) + 1
    BY <1>1, <1>2 DEF Inode
  <2>3. inode' = [inode EXCEPT ![path[f]] = x]
    BY <1>5 DEF Write
  <2> HIDE DEF x
  <2>4. \A i \in 1..Len(inode) : inode'[i] = IF i = path[f] THEN x ELSE inode[i]
    BY <1>1, <2>1, <2>2, <2>3, ExceptSeq
  <2>5. Change(f) /\ Len(outdated') = Len(outdated) + 1
    BY <1>1, <1>5, ChangeEffect DEF Write
  <2>6. ASSUME NEW g \in File \ {f}
        PROVE  path'[f] # path[g]
    <3>1. /\ path'[f] = path[f] /\ path[f] # 0
          /\ path[g] # 0 => inode[path[f]].holds # inode[path[g]].holds
      BY <2>1 DEF Current
    <3> QED
      BY <3>1
  <2>7. /\ \A g \in File \ {f} : path'[g] = path[g]
        /\ path'[f] # 0
        /\ inode'[path'[f]].holds = Len(outdated')
        /\ \A i \in 1..Len(inode) : i # path'[f] => inode'[i] = inode[i]
    BY <2>1, <2>2, <2>4, <2>5
  <2> QED
    BY <1>4, <2>5, <2>6, <2>7
<1>6. ASSUME NEW f \in File, Replace(f)
      PROVE  Current'
  <2>1. PICK mtime \in {now, Len(outdated) + 1} :
          inode' = Append(inode, [mtime |-> mtime, holds |-> Len(outdated) + 1])
    BY <1>6 DEF Replace
  <2> DEFINE x == [mtime |-> mtime, holds |-> Len(outdated) + 1]
  <2>2. x \in Inode /\ x.holds = Len(outdated) + 1
    BY <1>1, <1>2 DEF Inode
  <2>3. inode' = Append(inode, x)
    BY <2>1
  <2> HIDE DEF x
  <2>4. /\ inode'[Len(inode) + 1] = x
        /\ \A i \in 1..Len(inode) : inode'[i] = inode[i]
    BY <1>1, <2>2, <2>3, AppendProperties
  <2>5. Change(f) /\ Len(outdated') = Len(outdated) + 1
    BY <1>1, <1>6, ChangeEffect DEF Replace
  <2>6. path' = [path EXCEPT ![f] = Len(inode) + 1]
    BY <1>6 DEF Replace
  <2>7. /\ path'[f] = Len(inode) + 1 /\ path'[f] # 0
        /\ \A g \in File \ {f} : path'[g] = path[g] /\ path'[f] # path[g]
    BY <1>1, <2>6
  <2>8. inode'[path'[f]].holds = Len(outdated')
    BY <2>2, <2>4, <2>5, <2>7
  <2> QED
    BY <1>4, <2>4, <2>5, <2>7, <2>8
<1>7. ASSUME NEW f \in File, Delete(f)
      PROVE  Current'
  <2>1. /\ inode' = inode /\ path' = [path EXCEPT ![f] = 0]
        /\ outdated' = [outdated EXCEPT ![inode[path[f]].holds] = now]
        /\ path[f] # 0
    BY <1>7 DEF Delete
  <2>2. outdated \in [1..Len(outdated) -> Nat]
    BY <1>1, LenProperties
  <2>3. \A g \in File : path'[g] = IF g = f THEN 0 ELSE path[g]
    BY <1>1, <2>1
  <2>4. ASSUME NEW g \in File, path'[g] # 0
        PROVE  outdated'[inode'[path'[g]].holds] = Forever'
    <3>1. g # f /\ path'[g] = path[g] /\ path[g] \in 1..Len(inode)
      BY <1>1, <2>3, <2>4
    <3>2. inode[path[g]].holds # inode[path[f]].holds
      BY <2>1, <2>4, <3>1 DEF Current
    <3>3. outdated[inode[path[g]].holds] = Forever
      BY <2>4, <3>1 DEF Current
    <3> QED
      BY <1>1, <2>1, <2>2, <3>1, <3>2, <3>3 DEF Forever
  <2> QED
    BY <2>1, <2>3, <2>4 DEF Current
<1>8. CASE Tick
  BY <1>3, <1>8 DEF Tick, history
<1>9. ASSUME NEW f \in File, Turn(f)
      PROVE  Current'
  BY <1>3, <1>9 DEF Turn
<1> QED
  BY <1>5, <1>6, <1>7, <1>8, <1>9 DEF Files

\* Link never leads again to what it was turned away from.
LEMMA LeadsAge ==
    ASSUME Types, Clocked, Leads, Files
    PROVE  /\ Leads'
           /\ \A f \in File : left[f] # 0 => left'[f] # 0
           /\ \A f \in File : NotLeft(f)' => NotLeft(f)
<1>1. /\ now \in Nat /\ now # 0 /\ now < Forever /\ Forever # 0
      /\ left \in [File -> 0..Forever] /\ target \in File
  BY CaseAssumption DEF Types, DiskType, Clocked, Limits, Forever
<1>2. key' = key /\ key \in File \cup {None}
  BY FilesStep DEF Types, SharedType, FilesMove, shared
<1>3. CASE UNCHANGED <<left, target>>
  BY <1>2, <1>3 DEF Leads, NotLeft, Forever
<1>4. ASSUME NEW g \in File, Turn(g)
      PROVE  /\ Leads'
             /\ \A f \in File : left[f] # 0 => left'[f] # 0
             /\ \A f \in File : NotLeft(f)' => NotLeft(f)
  <2>1. /\ target' = g /\ left[g] = 0
        /\ left' = [left EXCEPT ![target] = now, ![g] = Forever]
    BY <1>4 DEF Turn
  <2>2. \A f \in File : left'[f] = IF f = g THEN Forever
                                   ELSE IF f = target THEN now ELSE left[f]
    BY <1>1, <2>1
  <2>3. \A f \in File : left[f] = Forever <=> f = target
    BY DEF Leads
  <2>4. \A f \in File : left'[f] = Forever <=> f = target'
    BY <1>1, <2>1, <2>2, <2>3
  <2>5. \A f \in File : left[f] # 0 => left'[f] # 0
    BY <1>1, <2>2
  <2>6. \A f \in File : NotLeft(f)' => NotLeft(f)
    BY <1>1, <2>1, <2>2, <2>3 DEF NotLeft, Forever
  <2>7. key # None => left[key] # 0
    BY DEF Leads
  <2> QED
    BY <1>2, <2>4, <2>5, <2>6, <2>7 DEF Leads, Forever
<1> QED
  BY <1>3, <1>4 DEF Files, Tick, Write, Replace, Delete, history

\* What is said of ages stays true as time passes.
LEMMA AgesAge ==
    ASSUME Types, Stamps, Ages, Files
    PROVE  Ages'
<1>1. Aging /\ Clocked /\ Current' /\ Leads'
  BY FilesAge, CurrentAges, LeadsAge DEF Types, Stamps, Ages
<1>2. /\ \A f \in File : left[f] # 0 => left'[f] # 0
      /\ \A f \in File : NotLeft(f)' => NotLeft(f)
  BY LeadsAge DEF Stamps, Ages
<1>3. UNCHANGED <<ini, scripts, pc, name, opened, handle, ptr, request_time,
                  made>>
  BY <1>1 DEF Aging, shared, local, file_handle, held
<1>4. /\ now \in Nat /\ now' \in Nat /\ now <= now'
      /\ Start \in Nat /\ Start <= now
      /\ Len(inode) \in Nat /\ Len(outdated) \in Nat
      /\ Len(outdated') \in Nat /\ Len(outdated) < Start
      /\ ini.revalidate_freq \in Nat
  <2>1. /\ now \in Start..End /\ now' \in Start..End /\ now <= now'
        /\ Len(inode) \in Nat /\ Len(outdated) \in Nat
        /\ Len(outdated') \in Nat
    BY <1>1, LenProperties DEF Types, DiskType, Aging
  <2>2. ini.revalidate_freq \in Nat
    BY DEF Types, SharedType, Setting
  <2> QED
    BY <1>1, <2>1, <2>2, CaseAssumption DEF Clocked, Limits
<1>5. ASSUME NEW s \in 1..Len(scripts)
      PROVE  /\ scripts[s].file \in File /\ scripts[s].timestamp \in Nat
             /\ scripts[s].revalidate \in Nat
  <2>1. scripts[s] \in Cell
    BY ElementOfSeq DEF Types, SharedType
  <2> QED
    BY <2>1 DEF Cell
<1>6. ASSUME NEW p \in Proc
      PROVE  /\ request_time[p] \in Nat /\ request_time[p] <= now
             /\ name[p] \in File \cup {Link} /\ opened[p] \in File \cup {None}
             /\ handle[p] \in 0..Len(inode)
             /\ ptr[p] \in 0..Len(scripts) /\ Len(scripts) \in Nat
             /\ pc[p] \in {"load", "yes"} => ptr[p] # 0
  BY CaseAssumption, LenProperties
     DEF Types, DiskType, SharedType, LocalType, Point
<1>7. ASSUME NEW c, NEW t \in Int, t <= now, Until(c, t)
      PROVE  Later(c, t)
  BY <1>1, <1>7, UntilAges
<1>8. ASSUME NEW p \in Proc
      PROVE  Recent(p)'
  <2>1. Recent(p) /\ request_time[p] \in Int
    BY <1>6 DEF Ages
  <2>2. pc[p] = "store" => Later(made[p].holds, request_time[p])
    BY <1>6, <1>7, <2>1 DEF Recent
  <2>3. handle[p] # 0 => Later(inode'[handle[p]].holds, request_time[p])
    <3> SUFFICES ASSUME handle[p] # 0
                 PROVE  Later(inode'[handle[p]].holds, request_time[p])
      OBVIOUS
    <3>1. Written(handle[p])
      BY <1>1, <1>4, <1>6 DEF Aging
    <3>2. CASE inode'[handle[p]] = inode[handle[p]]
      BY <1>6, <1>7, <2>1, <3>2 DEF Recent
    <3>3. CASE inode'[handle[p]] # inode[handle[p]]
      <4>1. /\ inode'[handle[p]].holds = Len(outdated')
            /\ outdated'[Len(outdated')] = Forever
            /\ Len(outdated') = Len(outdated) + 1
        BY <3>1, <3>3 DEF Written
      <4>2. request_time[p] <= Forever
        BY <1>6, CaseAssumption DEF Types, DiskType, Forever
      <4>3. Forever \in Nat
        BY CaseAssumption DEF Forever
      <4> QED
        BY <1>4, <1>6, <4>1, <4>2, <4>3 DEF Later
    <3> QED
      BY <3>2, <3>3
  <2> QED
    BY <1>3, <2>2, <2>3 DEF Recent, Until, Later
<1>9. ASSUME NEW p \in Proc
      PROVE  Ready(p)'
  <2> SUFFICES ASSUME pc[p] \in {"load", "yes"}, ini.validate_timestamps,
                      left'[scripts[ptr[p]].file] \in {0, Forever}
               PROVE  Ready(p)'
    BY <1>3 DEF Ready, NotLeft, Forever
  <2>1. ptr[p] \in 1..Len(scripts)
    BY <1>6
  <2>2. NotLeft(scripts[ptr[p]].file)
    BY <1>2, <1>5, <2>1 DEF NotLeft, Forever
  <2>3. Until(scripts[ptr[p]].holds, request_time[p] - ini.revalidate_freq)
    BY <2>2 DEF Ages, Ready
  <2>4. /\ request_time[p] - ini.revalidate_freq \in Int
        /\ request_time[p] - ini.revalidate_freq <= now
    BY <1>4, <1>6
  <2>5. Later(scripts[ptr[p]].holds, request_time[p] - ini.revalidate_freq)
    BY <1>7, <2>3, <2>4
  <2> QED
    BY <1>3, <2>5 DEF Ready, Until, Later
<1>10. ASSUME NEW p \in Proc
       PROVE  Named(p)'
  <2>1. Named(p)
    BY DEF Ages
  <2>2. opened[p] # None => opened[p] \in File
    BY <1>6
  <2>3. ptr[p] # 0 => scripts[ptr[p]].file \in File
    BY <1>5, <1>6
  <2> QED
    BY <1>2, <1>3, <2>1, <2>2, <2>3 DEF Named, Search
<1>11. ASSUME NEW s \in 1..Len(scripts)
       PROVE  Fine(s)'
  <2>1. Fine(s) /\ ScriptStamp(s)
    BY DEF Ages, Stamps
  <2>2. ASSUME scripts[s].timestamp # 0
        PROVE  Later(scripts[s].holds, scripts[s].timestamp + 1)
    <3>1. /\ scripts[s].timestamp + 1 \in Int
          /\ scripts[s].timestamp + 1 <= now
      BY <1>4, <1>5, <2>1, <2>2 DEF ScriptStamp, Settled
    <3> QED
      BY <1>7, <2>1, <2>2, <3>1 DEF Fine
  <2>3. ASSUME ini.validate_timestamps,
               left'[scripts[s].file] \in {0, Forever}
        PROVE  Later(scripts[s].holds,
                     scripts[s].revalidate - ini.revalidate_freq)
    <3>1. NotLeft(scripts[s].file)
      BY <1>2, <1>5, <2>3 DEF NotLeft, Forever
    <3>2. /\ scripts[s].revalidate - ini.revalidate_freq \in Int
          /\ scripts[s].revalidate - ini.revalidate_freq <= now
      BY <1>4, <1>5, <2>1, <2>3 DEF Fine
    <3> QED
      BY <1>7, <2>1, <2>3, <3>1, <3>2 DEF Fine
  <2>4. ini.validate_timestamps =>
           scripts[s].revalidate <= now' + ini.revalidate_freq
    BY <1>4, <1>5, <2>1 DEF Fine
  <2> QED
    BY <1>3, <2>2, <2>3, <2>4 DEF Fine, Until, Later, NotLeft, Forever
<1> QED
  BY <1>1, <1>3, <1>8, <1>9, <1>10, <1>11 DEF Ages

-----------------------------------------------------------------------------
(* What processes do: ages.                                                *)

\* A script that passes the check was current during the request, if Link
\* was not turned away from its file.
LEMMA Accepted ==
    ASSUME Types, Stamps, Ages, NEW p \in Proc,
           pc[p] \in {"stat", "resolved"}, Unchanged(p),
           NotLeft(scripts[ptr[p]].file)
    PROVE  Until(scripts[ptr[p]].holds, request_time[p])
<1> DEFINE x == scripts[ptr[p]]
           t == x.timestamp
           g == x.file
<1>1. ptr[p] \in 1..Len(scripts)
  BY LenProperties DEF Types, SharedType, LocalType, Point
<1>2. x \in Cell
  BY <1>1, ElementOfSeq DEF Types, SharedType
<1>3. t \in Nat /\ t # 0 /\ g \in File /\ g # None
  BY <1>2, CaseAssumption DEF Cell, Unchanged
<1>4. /\ Len(inode) \in Nat /\ Len(outdated) \in Nat
      /\ outdated \in [1..Len(outdated) -> Nat]
      /\ path \in [File -> 0..Len(inode)]
      /\ request_time[p] \in Nat /\ request_time[p] <= Forever
      /\ Forever \in Nat
      /\ name[p] \in File \cup {Link} /\ opened[p] \in File \cup {None}
      /\ handle[p] \in 0..Len(inode)
  <2>1. /\ Len(inode) \in Nat /\ Len(outdated) \in Nat
        /\ outdated \in [1..Len(outdated) -> Nat]
        /\ path \in [File -> 0..Len(inode)]
    BY LenProperties DEF Types, DiskType
  <2>2. /\ request_time[p] \in Start..End
        /\ name[p] \in File \cup {Link} /\ opened[p] \in File \cup {None}
        /\ handle[p] \in 0..Len(inode)
    BY DEF Types, LocalType
  <2> QED
    BY <2>1, <2>2, CaseAssumption DEF Forever
<1>5. /\ \A i \in Dated(g, t) : inode[i].holds = x.holds
      /\ Until(x.holds, t + 1)
  BY <1>1, <1>3 DEF Stamps, ScriptStamp, Ages, Fine
<1>6. \A i \in 1..Len(inode) : inode[i].holds \in 1..Len(outdated)
  BY DEF Stamps, Clocked
<1>7. Named(p) /\ Recent(p) /\ Current /\ Leads
  BY DEF Ages
<1>8. /\ opened[p] # None => g = opened[p]
      /\ opened[p] = None => IF name[p] = Link THEN left[g] # 0 ELSE g = name[p]
      /\ pc[p] = "resolved" => opened[p] = None
  BY <1>1, <1>7 DEF Named, Search
<1> HIDE DEF x, t, g
<1>9. CASE path[g] # 0 /\ inode[path[g]].mtime = t
  <2>1. path[g] \in Dated(g, t)
    BY <1>3, <1>4, <1>9 DEF Dated
  <2>2. x.holds = inode[path[g]].holds /\ path[g] \in 1..Len(inode)
    BY <1>3, <1>4, <1>5, <1>9, <2>1
  <2>3. outdated[x.holds] = Forever /\ x.holds \in 1..Len(outdated)
    BY <1>3, <1>6, <1>7, <1>9, <2>2 DEF Current
  <2> QED
    BY <1>4, <2>3 DEF Until, x
<1>10. CASE ~(path[g] # 0 /\ inode[path[g]].mtime = t)
  <2>1. Mtime(g) # t
    BY <1>3, <1>10 DEF Mtime
  <2> DEFINE f == IF opened[p] # None THEN opened[p]
                  ELSE IF At(p, "resolved") /\ path[g] # 0 THEN g
                  ELSE Resolve(name[p])
  <2>2. t = IF handle[p] # 0 THEN inode[handle[p]].mtime ELSE Mtime(f)
    BY <2>1 DEF Unchanged, x, g, t
  <2>3. CASE handle[p] # 0
    <3>1. /\ opened[p] = g /\ inode[handle[p]].mtime = t
          /\ handle[p] \in 1..Len(inode)
      BY <1>4, <1>8, <2>2, <2>3 DEF Types, Point
    <3>2. CASE t < request_time[p]
      <4>1. handle[p] \in Dated(g, t)
        BY <3>1, <3>2 DEF Dated
      <4> QED
        BY <1>5, <1>7, <2>3, <4>1 DEF Recent, x
    <3>3. CASE t >= request_time[p]
      BY <1>3, <1>4, <1>5, <3>3 DEF Until, x
    <3> QED
      BY <1>3, <1>4, <3>2, <3>3
  <2>4. CASE handle[p] = 0
    <3>1. f # g /\ f # None
      BY <1>3, <2>1, <2>2, <2>4 DEF Mtime
    <3>2. opened[p] = None /\ f = Resolve(name[p])
      BY <1>8, <3>1
    <3>3. name[p] = Link /\ f = target
      <4>1. name[p] # Link => f = name[p]
        BY <3>1, <3>2 DEF Resolve
      <4>2. name[p] = Link
        BY <1>8, <3>1, <3>2, <4>1
      <4> QED
        BY <3>1, <3>2, <4>2 DEF Resolve
    <3>4. left[g] = Forever
      BY <1>8, <3>2, <3>3 DEF NotLeft, g, x
    <3>5. g = target
      BY <1>3, <1>7, <3>4 DEF Leads
    <3> QED
      BY <3>1, <3>3, <3>5
  <2> QED
    BY <2>3, <2>4
<1> QED
  BY <1>9, <1>10

\* What p has open or has compiled is from its request.
LEMMA RecentStep ==
    ASSUME Types, Stamps, Ages, NEW p \in Proc, Process(p)
    PROVE  Recent(p)'
<1>1. UNCHANGED <<ini, now, inode, path, outdated>>
  BY ProcessFrame DEF disk, history
<1>2. /\ Recent(p) /\ Current
  BY DEF Ages
<1>3. /\ Len(inode) \in Nat /\ path \in [File -> 0..Len(inode)]
      /\ \A i \in 1..Len(inode) : inode[i].holds \in 1..Len(outdated)
      /\ request_time[p] \in Nat /\ request_time[p] <= Forever
      /\ Forever \in Nat
  <2>1. /\ Len(inode) \in Nat /\ path \in [File -> 0..Len(inode)]
        /\ \A i \in 1..Len(inode) : inode[i].holds \in 1..Len(outdated)
    BY LenProperties DEF Types, DiskType, Stamps, Clocked
  <2>2. request_time[p] \in Start..End /\ Forever = End + 1
    BY DEF Types, LocalType, Forever
  <2> QED
    BY <2>1, <2>2, CaseAssumption
<1>4. handle'[p] # 0 => Until(inode[handle'[p]].holds, request_time'[p])
  <2> SUFFICES ASSUME handle'[p] # 0
               PROVE  Until(inode[handle'[p]].holds, request_time'[p])
    OBVIOUS
  <2>1. /\ request_time' = request_time /\ opened'[p] \in File
        /\ \/ handle'[p] = handle[p]
           \/ handle'[p] = path[opened'[p]]
    BY HandleStep
  <2>2. CASE handle'[p] = handle[p]
    BY <1>2, <2>1, <2>2 DEF Recent
  <2>3. CASE handle'[p] = path[opened'[p]]
    <3>1. handle'[p] \in 1..Len(inode)
      BY <1>3, <2>1, <2>3
    <3>2. outdated[inode[handle'[p]].holds] = Forever
      BY <1>2, <2>1, <2>3 DEF Current
    <3> QED
      BY <1>3, <2>1, <3>1, <3>2 DEF Until
  <2> QED
    BY <2>1, <2>2, <2>3
<1>5. pc'[p] = "store" => Until(made'[p].holds, request_time'[p])
  <2> SUFFICES ASSUME pc'[p] = "store"
               PROVE  Until(made'[p].holds, request_time'[p])
    OBVIOUS
  <2>1. Compile(p) /\ pc \in [Proc -> Label]
        /\ made \in [Proc -> [timestamp : Nat, holds : Nat]]
    BY MakingStep DEF Types, LocalType
  <2>2. ~Return(p)
    BY <2>1 DEF Return, Goto
  <2>3. /\ pc[p] = "compile" /\ UNCHANGED request_time
        /\ made' = [made EXCEPT ![p].holds = inode[handle[p]].holds]
    BY <2>1, <2>2 DEF Compile, At
  <2>4. made'[p].holds = inode[handle[p]].holds /\ handle[p] # 0
    BY <2>1, <2>3 DEF Types, Point
  <2> QED
    BY <1>2, <2>3, <2>4 DEF Recent
<1> QED
  BY <1>1, <1>4, <1>5 DEF Recent, Until

\* Scripts are as fresh as they are said to be.
LEMMA FineStep ==
    ASSUME Types, Stamps, Ages, NEW p \in Proc, Process(p),
           NEW s \in 1..Len(scripts')
    PROVE  Fine(s)'
<1>1. UNCHANGED <<ini, now, outdated, left>>
  BY ProcessFrame DEF disk, history
<1>2. /\ ini.revalidate_freq \in Nat /\ now \in Nat
      /\ request_time[p] \in Nat /\ request_time[p] <= now
  BY CaseAssumption DEF Types, DiskType, SharedType, Setting, LocalType, Point
<1>3. CASE s \in 1..Len(scripts)
  <2>1. Touched(p, s) /\ Fine(s)
    BY <1>3, EachScriptStep DEF Ages
  <2>2. /\ scripts'[s].file = scripts[s].file
        /\ scripts'[s].holds = scripts[s].holds
        /\ scripts'[s].timestamp \in {0, scripts[s].timestamp}
    BY <2>1 DEF Touched
  <2>3. CASE scripts'[s].revalidate = scripts[s].revalidate
    BY <1>1, <2>1, <2>2, <2>3 DEF Fine, Until, NotLeft, Forever
  <2>4. CASE /\ Stat(p) /\ Unchanged(p) /\ s = ptr[p]
             /\ scripts'[s].revalidate = request_time[p] + ini.revalidate_freq
    <3>1. NotLeft(scripts[s].file) => Until(scripts[s].holds, request_time[p])
      BY <2>4, Accepted DEF Stat
    <3>2. scripts'[s].revalidate - ini.revalidate_freq = request_time[p]
          /\ scripts'[s].revalidate <= now + ini.revalidate_freq
      BY <1>2, <2>4
    <3>3. scripts[s].timestamp # 0 =>
             Until(scripts[s].holds, scripts[s].timestamp + 1)
      BY <2>1 DEF Fine
    <3> QED
      BY <1>1, <2>2, <3>1, <3>2, <3>3 DEF Fine, Until, NotLeft, Forever
  <2> QED
    BY <2>1, <2>3, <2>4 DEF Touched
<1>4. CASE s \notin 1..Len(scripts)
  <2>1. MadeBy(p, s)
    BY <1>4, EachScriptStep
  <2>2. /\ pc[p] = "store" /\ scripts'[s].holds = made[p].holds
        /\ scripts'[s].timestamp = made[p].timestamp
        /\ ini.validate_timestamps =>
              scripts'[s].revalidate = request_time[p] + ini.revalidate_freq
        /\ made[p].timestamp \in Nat
    BY <2>1 DEF MadeBy, Types, LocalType
  <2>3. Until(made[p].holds, request_time[p])
    BY <2>2 DEF Ages, Recent
  <2>4. made[p].timestamp # 0 => made[p].timestamp + 1 <= request_time[p]
    BY <1>2, <2>2 DEF Stamps, MadeStamp
  <2>5. made[p].timestamp # 0 => Until(made[p].holds, made[p].timestamp + 1)
    <3>1. made[p].holds \in 1..Len(outdated) => outdated[made[p].holds] \in Nat
      BY LenProperties DEF Types, DiskType
    <3> QED
      BY <1>2, <2>2, <2>3, <2>4, <3>1 DEF Until
  <2>6. ini.validate_timestamps =>
           /\ scripts'[s].revalidate - ini.revalidate_freq = request_time[p]
           /\ scripts'[s].revalidate <= now + ini.revalidate_freq
    BY <1>2, <2>2
  <2> QED
    BY <1>1, <2>2, <2>3, <2>5, <2>6 DEF Fine, Until, NotLeft, Forever
<1> QED
  BY <1>3, <1>4

\* What p checks is what it has opened, named, or was led to.
LEMMA NamedStep ==
    ASSUME Types, Found, Ages, NEW p \in Proc, Process(p)
    PROVE  Named(p)'
<1> USE DEF Goto, Set, At
<1>1. UNCHANGED left /\ Named(p) /\ Point(p)
  BY ProcessFrame DEF history, Types, Ages
<1>2. left[target] # 0 /\ (key # None => left[key] # 0)
  BY CaseAssumption DEF Types, DiskType, Ages, Leads, Forever
<1>3. /\ pc \in [Proc -> Label]
      /\ name \in [Proc -> File \cup {Link}]
      /\ opened \in [Proc -> File \cup {None}]
      /\ ptr \in [Proc -> 0..Len(scripts)]
      /\ hash \in [File -> 0..Len(scripts)]
      /\ key \in File \cup {None} /\ Len(scripts) \in Nat
      /\ Link \notin File /\ None \notin File
  BY LenProperties, CaseAssumption DEF Types, LocalType, SharedType
<1>4. /\ \A s \in 1..Len(scripts) : scripts[s].file \in File
      /\ \A s \in 1..Len(scripts) : scripts'[s].file = scripts[s].file
      /\ \A f \in File : hash[f] # 0 => hash[f] \in 1..Len(scripts)
      /\ \A f \in File : hash[f] # 0 => scripts[hash[f]].file = f
  <2>1. \A s \in 1..Len(scripts) : scripts[s] \in Cell
    BY ElementOfSeq DEF Types, SharedType
  <2>2. \A s \in 1..Len(scripts) : scripts'[s].file = scripts[s].file
    BY SharedStep DEF SharedMove
  <2> QED
    BY <1>3, <2>1, <2>2 DEF Cell, Found
<1>5. ASSUME NEW n \in File \cup {Link}, Lookup(n) # 0
      PROVE  /\ Lookup(n) \in 1..Len(scripts)
             /\ LET f == scripts[Lookup(n)].file IN
                IF n = Link THEN left[f] # 0 ELSE f = n
  BY <1>2, <1>3, <1>4, <1>5 DEF Lookup
<1>6. CASE Return(p)
  <2>1. pc'[p] = "run" /\ opened'[p] = None
    BY <1>3, <1>6 DEF Return
  <2> QED
    BY <2>1 DEF Named, Search
<1>7. ASSUME name'[p] = name[p], opened'[p] = opened[p], pc'[p] \notin Search
      PROVE  Named(p)'
  BY <1>1, <1>7 DEF Named, Search
<1>8. CASE accel_activate(p)
  <2>1. UNCHANGED <<pc, name, opened>> /\ pc[p] = "run"
    BY <1>8 DEF accel_activate, file_handle
  <2> QED
    BY <1>7, <2>1 DEF Search
<1>9. ASSUME NEW o \in {"include", "is_file"}, NEW n \in File \cup {Link},
             FindByKey(p, o, n)
      PROVE  Named(p)'
  <2>1. /\ opened'[p] = None /\ name'[p] = n /\ ptr'[p] = Lookup(n)
        /\ pc'[p] # "resolved"
    BY <1>1, <1>3, <1>9 DEF FindByKey, Begin, Point
  <2>2. Lookup(n) # 0 =>
           LET f == scripts'[Lookup(n)].file IN
           IF n = Link THEN left[f] # 0 ELSE f = n
    BY <1>4, <1>5
  <2> QED
    BY <1>1, <2>1, <2>2 DEF Named
<1>10. ASSUME NEW n \in File \cup {Link}, persistent_zend_resolve_path(p, n)
       PROVE  Named(p)'
  <2> DEFINE f == Resolve(n)
             s == IF n \in File \/ ~ini.revalidate_path THEN Lookup(n) ELSE 0
  <2>1. /\ f \in File \cup {None}
        /\ n = Link /\ f # None => f = target
    BY ResolveFinds DEF Types
  <2>2. opened[p] = None
    BY <1>1, <1>10 DEF persistent_zend_resolve_path, Begin, Point
  <2>3. \/ /\ Usable(s) /\ name'[p] = n /\ opened'[p] = scripts[s].file
           /\ pc'[p] = "check"
        \/ f # None /\ name'[p] = n /\ opened'[p] = f /\ pc'[p] = "check"
        \/ f # None /\ name'[p] = f /\ opened'[p] = None /\ pc'[p] = "open"
    BY <1>3, <1>10, <2>2 DEF persistent_zend_resolve_path
  <2>4. Usable(s) => /\ scripts[s].file \in File
                     /\ n = Link => left[scripts[s].file] # 0
    BY <1>4, <1>5 DEF Usable
  <2> HIDE DEF f, s
  <2>5. CASE /\ name'[p] = n /\ opened'[p] \in File /\ pc'[p] = "check"
             /\ n = Link => left[opened'[p]] # 0
    BY <1>1, <1>3, <2>5 DEF Named
  <2>6. CASE name'[p] # Link /\ opened'[p] = None /\ pc'[p] = "open"
    BY <2>6 DEF Named, Search
  <2> QED
    BY <1>2, <1>3, <2>1, <2>3, <2>4, <2>5, <2>6
<1>11. ASSUME NEW n \in File \cup {Link}, NEW force \in BOOLEAN,
              zend_accel_invalidate(p, n, force)
       PROVE  Named(p)'
  <2> DEFINE f == Resolve(n)
  <2>1. f \in File
    BY <1>11, ResolveFinds DEF Types, zend_accel_invalidate
  <2>2. /\ name'[p] = f /\ opened'[p] = f /\ ptr'[p] = hash[f]
        /\ pc'[p] # "resolved"
    BY <1>3, <1>11 DEF zend_accel_invalidate
  <2> HIDE DEF f
  <2>3. hash[f] # 0 => scripts'[hash[f]].file = f
    BY <1>4, <2>1
  <2> QED
    BY <1>3, <2>1, <2>2, <2>3 DEF Named
<1>12. CASE OpenFile(p) /\ ~Return(p)
  <2>1. /\ name'[p] = name[p] /\ opened'[p] = Resolve(name[p])
        /\ Resolve(name[p]) # None /\ pc'[p] = "entry"
    BY <1>3, <1>12 DEF OpenFile
  <2>2. name[p] = Link => Resolve(name[p]) = target
    BY <1>3, <2>1, ResolveFinds DEF Types
  <2> QED
    BY <1>1, <1>2, <2>1, <2>2 DEF Named, Search
<1>13. CASE FindByPath(p)
  <2>1. /\ UNCHANGED <<name, opened>> /\ pc'[p] = "check"
        /\ opened[p] # None
    BY <1>1, <1>3, <1>13 DEF FindByPath, file_handle, Point
  <2> QED
    BY <1>1, <2>1 DEF Named
<1>14. CASE Check(p) /\ ~Return(p)
  <2>1. UNCHANGED <<name, opened>> /\ pc[p] = "check"
    BY <1>14 DEF Check, file_handle
  <2>2. CASE pc'[p] \notin Search
    BY <1>7, <2>1, <2>2
  <2>3. CASE pc'[p] \in Search
    <3>1. /\ UNCHANGED ptr /\ ptr[p] # 0 /\ SameFile(p)
          /\ pc'[p] = "resolved" => opened[p] = None
      BY <1>3, <1>14, <2>3 DEF Check, Accept, Search, Usable
    <3>2. ptr[p] \in 1..Len(scripts)
      BY <1>3, <3>1
    <3>3. /\ scripts'[ptr[p]].file = scripts[ptr[p]].file
          /\ opened[p] # None => scripts[ptr[p]].file = opened[p]
      BY <1>4, <3>1, <3>2 DEF SameFile
    <3> QED
      BY <1>1, <2>1, <3>1, <3>3 DEF Named, Search
  <2> QED
    BY <2>2, <2>3
<1>15. CASE Miss(p) /\ ~Return(p)
  <2> DEFINE f == Resolve(IF opened[p] = None THEN name[p] ELSE opened[p])
  <2>1. /\ pc'[p] = "compile" /\ UNCHANGED name
        /\ opened'[p] = IF handle[p] # 0 THEN opened[p] ELSE f
    BY <1>3, <1>15 DEF Miss
  <2>2. opened[p] = None /\ name[p] = Link /\ f # None => f = target
    BY ResolveFinds DEF Types
  <2>3. opened[p] # None /\ f # None => f = opened[p]
    BY <1>3 DEF Resolve
  <2> HIDE DEF f
  <2> QED
    BY <1>1, <1>2, <2>1, <2>2, <2>3 DEF Named, Search
<1>16. CASE ~Return(p) /\ (Stat(p) \/ Invalidate(p) \/ Compile(p))
  <2>1. UNCHANGED <<name, opened>>
    BY <1>16 DEF Stat, Invalidate, Compile, file_handle
  <2>2. pc'[p] \in {"load", "yes", "invalid", "miss", "store"}
    BY <1>3, <1>16 DEF Stat, Invalidate, Compile, Accept
  <2> QED
    BY <1>7, <2>1, <2>2 DEF Search
<1>17. CASE cache_script_in_shared_memory(p) /\ ~Return(p)
  <2>1. UNCHANGED <<name, opened>> /\ pc'[p] = "load"
    BY <1>3, <1>17 DEF cache_script_in_shared_memory, file_handle
  <2> QED
    BY <1>7, <2>1 DEF Search
<1>18. CASE Use(p)
  BY <1>6, <1>18 DEF Use
<1> QED
  BY <1>6, <1>8, <1>9, <1>10, <1>11, <1>12, <1>13, <1>14, <1>15, <1>16,
     <1>17, <1>18 DEF Process

\* Keys refer to files that Link led to.
LEMMA LeadsStep ==
    ASSUME Types, Ages, NEW p \in Proc, Process(p)
    PROVE  Leads'
<1>1. UNCHANGED <<left, target>> /\ Leads /\ Named(p) /\ Point(p)
  BY ProcessFrame DEF disk, history, Types, Ages
<1>2. left[target] # 0 /\ opened \in [Proc -> File \cup {None}]
  BY CaseAssumption DEF Types, DiskType, LocalType, Leads, Ages, Forever
<1> SUFFICES ASSUME key' # key, key' # None
             PROVE  left[key'] # 0
  BY <1>1 DEF Leads, Forever
<1>3. ASSUME NEW n, NEW f, zend_accel_add_key(n, f)
      PROVE  n = Link /\ key' = f
  BY <1>3 DEF zend_accel_add_key
<1>4. ASSUME NEW n \in File \cup {Link}, persistent_zend_resolve_path(p, n)
      PROVE  left[key'] # 0
  <2>1. zend_accel_add_key(n, Resolve(n)) /\ Resolve(n) # None
    BY <1>4 DEF persistent_zend_resolve_path
  <2>2. n = Link /\ key' = Resolve(n)
    BY <1>3, <2>1
  <2> QED
    BY <1>2, <2>1, <2>2, ResolveFinds DEF Types
<1>5. CASE FindByPath(p)
  <2>1. zend_accel_add_key(name[p], opened[p]) /\ opened[p] # None
    BY <1>1, <1>5 DEF FindByPath, At, Point
  <2> QED
    BY <1>1, <1>3, <2>1 DEF Named
<1>6. CASE cache_script_in_shared_memory(p)
  <2>1. opened[p] # None
    BY <1>1, <1>6 DEF cache_script_in_shared_memory, At, Point
  <2>2. name[p] = Link /\ key' = opened[p]
    BY <1>3, <1>6 DEF cache_script_in_shared_memory
  <2> QED
    BY <1>1, <2>1, <2>2 DEF Named
<1> QED
  BY <1>4, <1>5, <1>6
     DEF Process, accel_activate, FindByKey, zend_accel_invalidate, OpenFile,
         Check, Stat, Invalidate, Miss, Compile, Use, shared

\* What was current at a time was so before.
LEMMA UntilEarlier ==
    ASSUME Types, NEW c, NEW t \in Int, NEW u \in Int, u <= t, Until(c, t)
    PROVE  Until(c, u)
<1>1. c \in 1..Len(outdated) /\ outdated[c] \in Nat
  BY LenProperties DEF Until, Types, DiskType
<1> QED
  BY <1>1 DEF Until

\* A script is executed when it was validated lately, or is by now, or has
\* been made during the request.
LEMMA ReadyStep ==
    ASSUME Types, Stamps, Ages, NEW p \in Proc, Process(p)
    PROVE  Ready(p)'
<1> DEFINE t == request_time[p] - ini.revalidate_freq
           s == ptr[p]
<1>1. UNCHANGED <<ini, outdated, left>>
  BY ProcessFrame DEF disk, history
<1>2. /\ t \in Int /\ t <= request_time[p]
      /\ request_time[p] \in Int /\ ini.revalidate_freq \in Nat
      /\ pc \in [Proc -> Label] /\ ptr \in [Proc -> 0..Len(scripts)]
      /\ Len(scripts) \in Nat
  BY CaseAssumption, LenProperties DEF Types, SharedType, LocalType, Setting
<1> SUFFICES ASSUME pc'[p] \in {"load", "yes"}, ini.validate_timestamps,
                    NotLeft(scripts'[ptr'[p]].file)
             PROVE  /\ Until(scripts'[ptr'[p]].holds, t)
                    /\ UNCHANGED request_time
  BY <1>1 DEF Ready, NotLeft, Forever, Until
<1>3. ASSUME s \in 1..Len(scripts), ptr'[p] = s,
             NotLeft(scripts[s].file) => Until(scripts[s].holds, t)
      PROVE  Until(scripts'[ptr'[p]].holds, t)
  <2>1. Touched(p, s)
    BY <1>3, EachScriptStep
  <2> QED
    BY <1>3, <2>1 DEF Touched
<1>4. ~Return(p) /\ ~accel_activate(p)
  <2>1. Return(p) => pc'[p] = "run"
    BY <1>2 DEF Return, Goto
  <2>2. accel_activate(p) => pc'[p] = "run"
    BY DEF accel_activate, At
  <2> QED
    BY <2>1, <2>2
<1>5. CASE Check(p)
  <2>1. /\ Usable(s) /\ Fresh(p, s) /\ ptr'[p] = s /\ UNCHANGED request_time
    BY <1>2, <1>4, <1>5 DEF Check, Goto
  <2>2. /\ s \in 1..Len(scripts)
        /\ scripts[s].revalidate >= request_time[p]
    BY <1>2, <2>1 DEF Usable, Fresh
  <2>3. scripts[s].revalidate \in Nat
    <3>1. scripts[s] \in Cell
      BY <2>2, ElementOfSeq DEF Types, SharedType
    <3> QED
      BY <3>1 DEF Cell
  <2>4. ASSUME NotLeft(scripts[s].file)
        PROVE  Until(scripts[s].holds, t)
    <3>1. Until(scripts[s].holds, scripts[s].revalidate - ini.revalidate_freq)
      BY <2>2, <2>4 DEF Ages, Fine
    <3>2. /\ scripts[s].revalidate - ini.revalidate_freq \in Int
          /\ t <= scripts[s].revalidate - ini.revalidate_freq
      BY <1>2, <2>2, <2>3
    <3> HIDE DEF t
    <3> QED
      BY <1>2, <3>1, <3>2, UntilEarlier
  <2> QED
    BY <1>3, <2>1, <2>2, <2>4
<1>6. CASE Stat(p)
  <2>1. /\ Unchanged(p) /\ ptr'[p] = s /\ UNCHANGED request_time
        /\ pc[p] \in {"stat", "resolved"}
    BY <1>2, <1>4, <1>6 DEF Stat, Goto
  <2>2. s \in 1..Len(scripts)
    BY <1>2, <2>1 DEF Types, Point
  <2>3. ASSUME NotLeft(scripts[s].file)
        PROVE  Until(scripts[s].holds, t)
    <3>1. Until(scripts[s].holds, request_time[p])
      BY <2>1, <2>3, Accepted
    <3> HIDE DEF t
    <3> QED
      BY <1>2, <3>1, UntilEarlier
  <2> QED
    BY <1>3, <2>1, <2>2, <2>3
<1>7. CASE cache_script_in_shared_memory(p)
  <2>1. Stores(p) /\ UNCHANGED request_time /\ pc[p] = "store"
    BY <1>2, <1>4, <1>7 DEF cache_script_in_shared_memory, Stores, At
  <2>2. ptr'[p] = Len(scripts) + 1 /\ Len(scripts') = Len(scripts) + 1
    BY <1>2, <1>7, <2>1, StoreAppends
  <2>3. ptr'[p] \in 1..Len(scripts') /\ ptr'[p] \notin 1..Len(scripts)
    BY <1>2, <2>2
  <2>4. scripts'[ptr'[p]].holds = made[p].holds
    BY <2>3, EachScriptStep DEF MadeBy
  <2>5. Until(made[p].holds, request_time[p])
    BY <2>1 DEF Ages, Recent
  <2> HIDE DEF t
  <2> QED
    BY <1>2, <2>1, <2>4, <2>5, UntilEarlier
<1>8. Check(p) \/ Stat(p) \/ cache_script_in_shared_memory(p)
  BY <1>2, <1>4
     DEF Process, FindByKey, persistent_zend_resolve_path,
         zend_accel_invalidate, OpenFile, FindByPath, Invalidate, Miss,
         Compile, Use, Goto
<1> QED
  BY <1>5, <1>6, <1>7, <1>8 DEF Check, Stat, cache_script_in_shared_memory

\* What is said of ages stays true whatever a process does.
LEMMA AgesMove ==
    ASSUME Types, Found, Stamps, Ages, NEW p \in Proc, Process(p)
    PROVE  Ages'
<1>1. /\ UNCHANGED <<ini, now, inode, path, outdated, left>>
      /\ Others(p)
  BY ProcessFrame DEF disk, history
<1>2. Current'
  BY <1>1 DEF Ages, Current, Forever
<1>3. /\ Leads' /\ Recent(p)' /\ Ready(p)' /\ Named(p)'
      /\ \A s \in 1..Len(scripts') : Fine(s)'
  BY LeadsStep, RecentStep, ReadyStep, NamedStep, FineStep
<1>4. ASSUME NEW q \in Proc \ {p}
      PROVE  Recent(q)' /\ Ready(q)' /\ Named(q)'
  <2>1. /\ pc'[q] = pc[q] /\ name'[q] = name[q] /\ opened'[q] = opened[q]
        /\ handle'[q] = handle[q] /\ ptr'[q] = ptr[q]
        /\ request_time'[q] = request_time[q] /\ made'[q] = made[q]
    BY <1>1, MakingStep DEF Others
  <2>2. Recent(q) /\ Ready(q) /\ Named(q) /\ Point(q)
    BY DEF Ages, Types
  <2>3. ptr[q] # 0 => /\ scripts'[ptr[q]].file = scripts[ptr[q]].file
                      /\ scripts'[ptr[q]].holds = scripts[ptr[q]].holds
    <3>1. ptr[q] \in 0..Len(scripts) /\ Len(scripts) \in Nat
      BY LenProperties DEF Types, SharedType, LocalType
    <3>2. ptr[q] # 0 => Touched(p, ptr[q])
      BY <3>1, EachScriptStep
    <3> QED
      BY <3>2 DEF Touched
  <2>4. Recent(q)'
    BY <1>1, <2>1, <2>2 DEF Recent, Until
  <2>5. Ready(q)'
    BY <1>1, <2>1, <2>2, <2>3 DEF Ready, Point, Until, NotLeft, Forever
  <2>6. Named(q)'
    BY <1>1, <2>1, <2>2, <2>3 DEF Named, Search
  <2> QED
    BY <2>4, <2>5, <2>6
<1> QED
  BY <1>2, <1>3, <1>4 DEF Ages

\* At the start.
LEMMA AgesInitially ==
    ASSUME Init
    PROVE  Ages
<1>1. PICK c \in Cases, just \in BOOLEAN,
           number \in Bijection(bound.files, 1..Cardinality(bound.files)) :
        /\ inode = [i \in 1..Cardinality(bound.files) |->
                      [mtime |-> IF just THEN Start ELSE i, holds |-> i]]
        /\ path = [f \in File |-> IF f \in bound.files THEN number[f] ELSE 0]
  BY DEF Init
<1> DEFINE n == Cardinality(bound.files)
<1>2. /\ number \in [bound.files -> 1..n]
      /\ \A f, g \in bound.files : number[f] = number[g] => f = g
  BY DEF Bijection, Injection, IsInjective
<1> HIDE DEF n
<1>3. /\ inode = [i \in 1..n |->
                    [mtime |-> IF just THEN Start ELSE i, holds |-> i]]
      /\ outdated = [i \in 1..n |-> Forever]
  BY <1>1 DEF Init, n
<1>4. ASSUME NEW f \in File, path[f] # 0
      PROVE  /\ f \in bound.files /\ path[f] = number[f]
             /\ inode[path[f]].holds = path[f]
             /\ outdated[path[f]] = Forever
  <2>1. f \in bound.files /\ path[f] = number[f]
    BY <1>1, <1>4
  <2>2. path[f] \in 1..n
    BY <1>2, <2>1
  <2> QED
    BY <1>3, <2>1, <2>2
<1>5. Current
  BY <1>2, <1>4 DEF Current
<1>6. Leads
  <2>1. /\ left = [f \in File |-> IF f = target THEN Forever ELSE 0]
        /\ key = None
    BY DEF Init
  <2>2. Forever # 0
    BY CaseAssumption DEF Forever
  <2> QED
    BY <2>1, <2>2 DEF Leads
<1>7. ASSUME NEW p \in Proc
      PROVE  Recent(p) /\ Ready(p) /\ Named(p)
  <2>1. pc[p] = "run" /\ opened[p] = None /\ handle[p] = 0
    BY DEF Init
  <2> QED
    BY <2>1 DEF Recent, Ready, Named, Search
<1>8. 1..Len(scripts) = {}
  BY EmptySeq DEF Init
<1> QED
  BY <1>5, <1>6, <1>7, <1>8 DEF Ages

\* No request is further behind than the ages say, in any state.
LEMMA AgesInvariance ==
    ASSUME Protected
    PROVE  Spec => [](Inv /\ Stamps /\ Ages)
<1>1. Inv /\ Stamps /\ Ages /\ [Next]_vars => Ages'
  <2> SUFFICES ASSUME Inv, Stamps, Ages, [Next]_vars
               PROVE  Ages'
    OBVIOUS
  <2>1. CASE Files
    BY <2>1, AgesAge DEF Inv
  <2>2. ASSUME NEW p \in Proc, Process(p)
        PROVE  Ages'
    BY <2>2, AgesMove DEF Inv
  <2>3. CASE UNCHANGED vars
    <3>1. UNCHANGED <<ini, now, inode, path, target, scripts, key, pc, name,
                      request_time, opened, handle, ptr, made, outdated, left>>
      BY <2>3 DEF vars, disk, shared, local, history, file_handle, held
    <3>2. Current' /\ Leads' /\ \A s \in 1..Len(scripts') : Fine(s)'
      BY <3>1 DEF Ages, Current, Leads, Fine, Until, NotLeft, Forever
    <3>3. ASSUME NEW p \in Proc
          PROVE  Recent(p)' /\ Ready(p)' /\ Named(p)'
      <4>1. Recent(p) /\ Ready(p) /\ Named(p)
        BY DEF Ages
      <4>2. Recent(p)'
        BY <3>1, <4>1 DEF Recent, Until
      <4>3. Ready(p)'
        BY <3>1, <4>1 DEF Ready, Until, NotLeft, Forever
      <4>4. Named(p)'
        BY <3>1, <4>1 DEF Named, Search
      <4> QED
        BY <4>2, <4>3, <4>4
    <3> QED
      BY <3>2, <3>3 DEF Ages
  <2> QED
    BY <2>1, <2>2, <2>3 DEF Next
<1> QED
  BY <1>1, AgesInitially, StampsInvariance, PTL DEF Spec

-----------------------------------------------------------------------------
(* The properties.                                                         *)

\* What time stamps are for (zend_get_file_handle_timestamp before
\* zend_compile_file, file_update_protection in compile_and_cache_file): a
\* stored script with the time stamp of its file is made from what the file
\* holds now, whatever the processes and the writers of files do.
THEOREM TimestampTellsAlways == ASSUME Protected PROVE Spec => []TimestampTells
<1>1. Inv /\ Stamps => TimestampTells
  <2> SUFFICES ASSUME Inv, Stamps, NEW s \in DOMAIN scripts,
                      scripts[s].timestamp # 0,
                      scripts[s].timestamp = Mtime(scripts[s].file)
               PROVE  scripts[s].holds = inode[path[scripts[s].file]].holds
    BY DEF TimestampTells
  <2> DEFINE f == scripts[s].file
  <2>1. s \in 1..Len(scripts)
    BY LenProperties DEF Inv, Types, SharedType
  <2>2. f \in File
    <3>1. scripts[s] \in Cell
      BY <2>1, ElementOfSeq DEF Inv, Types, SharedType
    <3> QED
      BY <3>1 DEF Cell
  <2>3. path \in [File -> 0..Len(inode)] /\ Len(inode) \in Nat
    BY LenProperties DEF Inv, Types, DiskType
  <2>4. path[f] \in 1..Len(inode) /\ inode[path[f]].mtime = scripts[s].timestamp
    BY <2>2, <2>3 DEF Mtime
  <2>5. path[f] \in Dated(f, scripts[s].timestamp)
    BY <2>4 DEF Dated
  <2> QED
    BY <2>1, <2>5 DEF Stamps, ScriptStamp
<1> QED
  BY <1>1, StampsInvariance, PTL

\* How often files are looked at (validate_timestamp_and_record,
\* revalidate_freq): a request that executes a script, or is told that its
\* file is there, gets what the file held at most revalidate_freq seconds
\* before the request began, unless Link was turned away from the file.
THEOREM BoundedStalenessAlways ==
    ASSUME Protected
    PROVE  Spec => []BoundedStaleness
<1>1. Inv /\ Stamps /\ Ages => BoundedStaleness
  <2> SUFFICES ASSUME Inv, Ages, NEW p \in Proc,
                      pc[p] \in {"load", "yes"}, ini.validate_timestamps,
                      left[scripts[ptr[p]].file] \in {0, Forever}
               PROVE  outdated[scripts[ptr[p]].holds]
                         >= request_time[p] - ini.revalidate_freq
    BY DEF BoundedStaleness
  <2> QED
    BY DEF Ages, Ready, NotLeft, Until
<1> QED
  BY <1>1, AgesInvariance, PTL
=============================================================================
