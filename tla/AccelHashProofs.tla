--------------------------- MODULE AccelHashProofs ---------------------------
(***************************************************************************)
(* The chains of the hash table stay sound and direct entries are counted  *)
(* right, whatever files move; and as long as only keys come to mean other *)
(* files, a lookup without the lock finds the script of its own file and   *)
(* the table implements the map of AccelMap: for all processes, paths,     *)
(* keys, scripts, sizes of the table and hash functions.                   *)
(***************************************************************************)
EXTENDS AccelHash, FiniteSetTheorems, TLAPS

-----------------------------------------------------------------------------
(* The inductive invariant, whatever files move.                           *)

\* Where a process holds the exclusive lock.
Locked == {"recheck", "add", "key", "publish", "convert", "unlock"}

Mutex == \A p \in Proc : pc[p] \in Locked <=> lock = p

Types ==
    /\ hash_table \in [0..(Size - 1) -> 0..Size]
    /\ num_entries \in 0..Size
    /\ hash_entries \in [1..num_entries -> EntryRecord]
    /\ full_path \in [Script -> Path \cup {NoPath}]
    /\ corrupted \subseteq Script
    /\ realpath \in [Name -> Path]
    /\ lock \in Proc \cup {NoProc}
    /\ pc \in [Proc -> PCs]
    /\ job \in [Proc -> Jobs]
    /\ name \in [Proc -> Name \cup {NoPath}]
    /\ path \in [Proc -> Path \cup {NoPath}]
    /\ goal \in [Proc -> Name \cup {NoPath}]
    /\ at \in [Proc -> 0..num_entries]
    /\ bucket \in [Proc -> 0..num_entries]
    /\ result \in [Proc -> Script \cup Entry \cup {NoScript}]

\* An indirect entry leads to another one.  A direct one has a script, but
\* for the one that is becoming indirect.
Data ==
    \A e \in 1..num_entries :
        /\ hash_entries[e].indirect => hash_entries[e].data \in 1..num_entries
        /\ ~hash_entries[e].indirect =>
             \/ hash_entries[e].data \in Script
             \/ /\ hash_entries[e].data \in 1..num_entries
                /\ \E p \in Proc : pc[p] = "convert" /\ at[p] = e

\* x is the last of the first m entries in the slot s, 0 if there is none.
Last(x, s, m) ==
    /\ x \in 0..m
    /\ x # 0 => Slot[hash_entries[x].key] = s
    /\ \A f \in 1..m : Slot[hash_entries[f].key] = s => f <= x

\* The entries that can be found are the first ones: all, or all but the last.
Visible == IF \E p \in Proc : pc[p] = "publish" THEN num_entries - 1
           ELSE num_entries

Chains ==
    /\ \A e, f \in 1..num_entries :
         hash_entries[e].key = hash_entries[f].key => e = f
    /\ \A e \in 1..num_entries :
         Last(hash_entries[e].next, Slot[hash_entries[e].key], e - 1)
    /\ \A s \in 0..(Size - 1) : Last(hash_table[s], s, Visible)

\* The direct entries, while one is becoming indirect no more.
WithScript == {e \in 1..num_entries : hash_entries[e].data \in Script}

Counted == num_direct_entries = Cardinality(WithScript)

\* What a process has in hand where it is.  Under the lock it has passed no
\* entry with the key that it looks for.
Point(p) ==
    /\ pc[p] \in {"follow", "data", "publish", "convert"} => at[p] # 0
    /\ pc[p] = "follow" => hash_entries[at[p]].indirect
    /\ pc[p] = "convert" => /\ ~hash_entries[at[p]].indirect
                            /\ hash_entries[at[p]].data \in 1..num_entries
    /\ pc[p] = "publish" => at[p] = num_entries
    /\ pc[p] # "idle" => name[p] \in Name
    /\ \/ pc[p] \in Locked \cup {"open"}
       \/ pc[p] = "lock" /\ job[p] # "corrupt"
       => path[p] \in Path
    /\ pc[p] = "lock" => job[p] \in {"corrupt", "add", "store"}
    /\ pc[p] = "lock" /\ job[p] = "corrupt" => result[p] \in Script
    /\ \/ pc[p] \in {"add", "key", "publish"}
       \/ pc[p] = "lock" /\ job[p] = "add"
       => bucket[p] # 0

Search(p) ==
    /\ pc[p] \in {"find", "add", "key"} => goal[p] = name[p]
    /\ pc[p] \in {"open", "recheck"} => goal[p] = path[p]
    /\ pc[p] \in Walks /\ at[p] # 0 =>
         Slot[hash_entries[at[p]].key] = Slot[goal[p]]
    /\ pc[p] \in {"recheck", "add", "key"} =>
         \A f \in 1..num_entries : hash_entries[f].key = goal[p] => f <= at[p]

Inv ==
    /\ Types /\ Mutex /\ Data /\ Chains /\ Counted
    /\ \A p \in Proc : Point(p) /\ Search(p)

-----------------------------------------------------------------------------
(* The inductive invariant, when only keys move.                           *)

OnlyKeysMove == Moving \subseteq Key

\* The entry to which a name leads.
Target(e) == IF hash_entries[e].indirect THEN hash_entries[e].data ELSE e

\* Paths have direct entries with scripts of their own, keys have indirect
\* ones, which lead to the entries of their files.
Files ==
    /\ \A q \in Path : realpath[q] = q
    /\ \A e \in 1..num_entries :
         /\ hash_entries[e].key \in Path <=> ~hash_entries[e].indirect
         /\ ~hash_entries[e].indirect =>
              /\ hash_entries[e].data \in Script
              /\ full_path[hash_entries[e].data] = hash_entries[e].key
         /\ hash_entries[e].indirect =>
              ~hash_entries[hash_entries[e].data].indirect
         /\ hash_entries[e].key \notin Moving =>
              hash_entries[Target(e)].key = realpath[hash_entries[e].key]

\* A name that does not move means the same file all the time, whose entry or
\* script the process has.
Means(p, q) == name[p] \notin Moving => q = realpath[name[p]]

HasScript(p) == result[p] \in Script /\ Means(p, full_path[result[p]])

HasFile(p) ==
    /\ pc[p] # "idle" /\ path[p] # NoPath => Means(p, path[p])
    /\ pc[p] = "follow" => hash_entries[at[p]].key = name[p]
    /\ pc[p] = "data" => /\ ~hash_entries[at[p]].indirect
                         /\ Means(p, hash_entries[at[p]].key)
    /\ \/ pc[p] = "check"
       \/ pc[p] \in Locked \cup {"lock"} /\ job[p] = "add"
       => HasScript(p)
    /\ \/ pc[p] \in {"add", "key", "publish"}
       \/ pc[p] = "lock" /\ job[p] = "add"
       => /\ ~hash_entries[bucket[p]].indirect
          /\ hash_entries[bucket[p]].key = path[p]
    /\ pc[p] = "key" => name[p] # path[p]
    /\ pc[p] # "convert"

FilesInv == Files /\ \A p \in Proc : HasFile(p)

-----------------------------------------------------------------------------
(* What the invariant says of a single entry, slot or lookup.              *)

LEMMA Constants ==
    /\ Size \in Nat \ {0} /\ Nil = 0 /\ Entry = 1..Size
    /\ Slot \in [Name -> 0..(Size - 1)]
    /\ Path \subseteq Name /\ Key \subseteq Name /\ Path \cap Key = {}
    /\ Script \cap Nat = {} /\ NoScript \notin Script \cup Nat
    /\ NoProc \notin Proc /\ NoPath \notin Name
BY HashAssumption DEF Name, Entry, Nil

\* Chains lead to earlier entries of the same slot.
LEMMA NextWorks ==
    ASSUME Types, Chains, NEW e \in 1..num_entries
    PROVE  /\ hash_entries[e].next \in 0..(e - 1)
           /\ hash_entries[e].next # 0 =>
                Slot[hash_entries[hash_entries[e].next].key] =
                    Slot[hash_entries[e].key]
           /\ \A f \in 1..(e - 1) :
                Slot[hash_entries[f].key] = Slot[hash_entries[e].key] =>
                    f <= hash_entries[e].next
<1>1. Last(hash_entries[e].next, Slot[hash_entries[e].key], e - 1)
  BY DEF Chains
<1> QED
  BY <1>1 DEF Last

\* A lookup begins at an entry of the right slot, under the lock at the last.
LEMMA LookWorks ==
    ASSUME Types, Chains, NEW n \in Name
    PROVE  /\ hash_table[Slot[n]] \in 0..num_entries
           /\ hash_table[Slot[n]] # 0 =>
                Slot[hash_entries[hash_table[Slot[n]]].key] = Slot[n]
           /\ (\A q \in Proc : pc[q] # "publish") =>
                \A f \in 1..num_entries :
                    hash_entries[f].key = n => f <= hash_table[Slot[n]]
<1>1. Slot[n] \in 0..(Size - 1)
  BY Constants
<1>2. Last(hash_table[Slot[n]], Slot[n], Visible)
  BY <1>1 DEF Chains
<1>3. Visible \in {num_entries - 1, num_entries} /\ num_entries \in Nat
  BY Constants DEF Visible, Types
<1>4. hash_table[Slot[n]] \in 0..num_entries
  BY <1>2, <1>3 DEF Last
<1>5. ASSUME \A q \in Proc : pc[q] # "publish", NEW f \in 1..num_entries,
             hash_entries[f].key = n
      PROVE  f <= hash_table[Slot[n]]
  <2>1. Visible = num_entries
    BY <1>5 DEF Visible
  <2> QED
    BY <1>2, <1>5, <2>1 DEF Last
<1>6. hash_table[Slot[n]] # 0 =>
        Slot[hash_entries[hash_table[Slot[n]]].key] = Slot[n]
  BY <1>2 DEF Last
<1> QED
  BY <1>4, <1>5, <1>6

\* The entry at the end of an indirect one.
LEMMA DirectWorks ==
    ASSUME Types, Data, NEW e \in 1..num_entries
    PROVE  Direct(e) \in 1..num_entries
BY DEF Data, Direct

LEMMA FollowWorks == \A b : Follow(b) \subseteq 1..num_entries
BY DEF Follow

\* Who holds the lock is alone.
LEMMA Alone ==
    ASSUME Mutex, Types, NEW p \in Proc, lock = p, NEW q \in Proc, q # p
    PROVE  pc[q] \notin Locked
BY DEF Mutex

LEMMA Free ==
    ASSUME Mutex, lock = NoProc, NEW q \in Proc
    PROVE  pc[q] \notin Locked
BY Constants DEF Mutex

-----------------------------------------------------------------------------
(* The initial states.                                                     *)

LEMMA Initially == Init => Inv
<1> SUFFICES ASSUME Init PROVE Inv
  OBVIOUS
<1>1. hash_entries \in [1..num_entries -> EntryRecord]
  <2>1. hash_entries = [i \in 1..0 |-> hash_entries[i]]
    BY DEF Init
  <2> QED
    BY <2>1 DEF Init
<1>2. Types
  <2>1. Size \in Nat \ {0} /\ Nil = 0
    BY Constants
  <2>2. /\ hash_table \in [0..(Size - 1) -> 0..Size]
        /\ num_entries \in 0..Size
        /\ full_path \in [Script -> Path \cup {NoPath}]
        /\ corrupted \subseteq Script
        /\ realpath \in [Name -> Path]
        /\ lock \in Proc \cup {NoProc}
        /\ pc \in [Proc -> PCs]
        /\ job \in [Proc -> Jobs]
    BY <2>1 DEF Init, PCs, Jobs
  <2>3. /\ name \in [Proc -> Name \cup {NoPath}]
        /\ path \in [Proc -> Path \cup {NoPath}]
        /\ goal \in [Proc -> Name \cup {NoPath}]
        /\ at \in [Proc -> 0..num_entries]
        /\ bucket \in [Proc -> 0..num_entries]
        /\ result \in [Proc -> Script \cup Entry \cup {NoScript}]
    BY <2>1 DEF Init
  <2> QED
    BY <1>1, <2>2, <2>3 DEF Types
<1>3. Mutex
  BY Constants DEF Init, Mutex, Locked
<1>4. Data
  BY DEF Init, Data
<1>5. Chains
  <2>1. Visible = 0
    BY DEF Init, Visible
  <2>2. \A s \in 0..(Size - 1) : Last(hash_table[s], s, Visible)
    BY <2>1, Constants DEF Init, Last
  <2> QED
    BY <2>2 DEF Init, Chains
<1>6. Counted
  <2>1. WithScript = {}
    BY DEF Init, WithScript
  <2> QED
    BY <2>1, FS_EmptySet DEF Init, Counted
<1>7. ASSUME NEW p \in Proc PROVE Point(p) /\ Search(p)
  BY <1>7 DEF Init, Point, Search, Walks, Locked
<1> QED
  BY <1>2, <1>3, <1>4, <1>5, <1>6, <1>7 DEF Inv

-----------------------------------------------------------------------------
(* Steps that leave the table alone.                                       *)

LEMMA QuietKeeps ==
    ASSUME Inv, NEW p \in Proc, UNCHANGED table, Types', Mutex',
           \A q \in Proc : q # p =>
               /\ pc'[q] = pc[q] /\ at'[q] = at[q] /\ goal'[q] = goal[q]
               /\ name'[q] = name[q] /\ path'[q] = path[q]
               /\ job'[q] = job[q] /\ bucket'[q] = bucket[q]
               /\ result'[q] = result[q],
           pc[p] \notin {"publish", "convert"},
           pc'[p] \notin {"publish", "convert"},
           (Point(p) /\ Search(p))'
    PROVE  Inv'
<1>1. /\ hash_table' = hash_table /\ hash_entries' = hash_entries
      /\ num_entries' = num_entries
      /\ num_direct_entries' = num_direct_entries
  BY DEF table
<1>2. Data'
  BY <1>1 DEF Inv, Data
<1>3. Chains'
  <2>1. Visible' = Visible
    BY <1>1 DEF Visible
  <2> USE <1>1, <2>1
  <2>2. \A s \in 0..(Size - 1) : Last(hash_table[s], s, Visible)'
    BY DEF Inv, Chains, Last
  <2>3. \A e \in 1..num_entries' :
           Last(hash_entries[e].next, Slot[hash_entries[e].key], e - 1)'
    BY DEF Inv, Chains, Last
  <2>4. \A e, f \in 1..num_entries' :
           hash_entries'[e].key = hash_entries'[f].key => e = f
    BY DEF Inv, Chains
  <2> QED
    BY <2>2, <2>3, <2>4 DEF Chains
<1>4. Counted'
  BY <1>1 DEF Inv, Counted, WithScript
<1>5. ASSUME NEW q \in Proc PROVE (Point(q) /\ Search(q))'
  <2>1. CASE q = p
    BY <2>1
  <2>2. CASE q # p
    <3>1. Point(q)'
      BY <1>1, <2>2 DEF Inv, Point
    <3>2. Search(q)'
      BY <1>1, <2>2 DEF Inv, Search
    <3> QED
      BY <3>1, <3>2
  <2> QED
    BY <2>1, <2>2
<1> QED
  BY <1>2, <1>3, <1>4, <1>5 DEF Inv

\* Lookups, requests and decisions of one process.

LEMMA RequestKeeps == ASSUME Inv, NEW p \in Proc, Request(p) PROVE Inv'
<1> USE DEF Request, Nil, Set, Look
<1>0. PICK n \in Name :
         /\ name' = [name EXCEPT ![p] = n]
         /\ goal' = [goal EXCEPT ![p] = n]
         /\ at' = [at EXCEPT ![p] = hash_table[Slot[n]]]
         /\ pc' = [pc EXCEPT ![p] = "find"]
         /\ job' = [job EXCEPT ![p] = "none"]
         /\ path' = [path EXCEPT ![p] = NoPath]
         /\ bucket' = [bucket EXCEPT ![p] = 0]
         /\ result' = [result EXCEPT ![p] = NoScript]
         /\ pc[p] = "idle"
         /\ UNCHANGED <<table, scripts, realpath, lock>>
  OBVIOUS
<1>a. /\ hash_table[Slot[n]] \in 0..num_entries
      /\ hash_table[Slot[n]] # 0 =>
           Slot[hash_entries[hash_table[Slot[n]]].key] = Slot[n]
  BY LookWorks DEF Inv
<1>1. Types'
  <2> HIDE DEF Request, Look, Set
  <2>1. /\ hash_table' = hash_table /\ hash_entries' = hash_entries
        /\ num_entries' = num_entries /\ full_path' = full_path
        /\ corrupted' = corrupted /\ realpath' = realpath /\ lock' = lock
    BY <1>0 DEF table, scripts
  <2>2. /\ pc' \in [Proc -> PCs] /\ job' \in [Proc -> Jobs]
        /\ name' \in [Proc -> Name \cup {NoPath}]
        /\ path' \in [Proc -> Path \cup {NoPath}]
        /\ goal' \in [Proc -> Name \cup {NoPath}]
    BY <1>0 DEF Inv, Types, PCs, Walks, Jobs
  <2>3. /\ at' \in [Proc -> 0..num_entries]
        /\ bucket' \in [Proc -> 0..num_entries]
        /\ result' \in [Proc -> Script \cup Entry \cup {NoScript}]
    BY <1>0, <1>a DEF Inv, Types
  <2> QED
    BY <2>1, <2>2, <2>3 DEF Inv, Types
<1>2. Mutex'
  BY Constants DEF Inv, Types, Mutex, Locked, Walks, locals
<1>3. Point(p)'
  BY Constants, <1>0, <1>a
  DEF Inv, Types, Point, Locked, Walks, table, scripts, locals
<1>4. Search(p)'
  BY Constants, <1>0, <1>a
  DEF Inv, Types, Search, Locked, Walks, table, scripts, locals
<1>5. \A q \in Proc : q # p =>
         /\ pc'[q] = pc[q] /\ at'[q] = at[q] /\ goal'[q] = goal[q]
         /\ name'[q] = name[q] /\ path'[q] = path[q]
         /\ job'[q] = job[q] /\ bucket'[q] = bucket[q]
         /\ result'[q] = result[q]
  BY DEF Inv, Types, locals
<1>6. /\ UNCHANGED table
      /\ pc[p] \notin {"publish", "convert"}
      /\ pc'[p] \notin {"publish", "convert"}
  BY DEF Inv, Types, Walks, table, locals
<1> QED
  BY <1>1, <1>2, <1>3, <1>4, <1>5, <1>6, QuietKeeps

LEMMA WalkKeeps == ASSUME Inv, NEW p \in Proc, Walk(p) PROVE Inv'
<1> USE DEF Walk, Nil, Set
<1>0. /\ at[p] \in 1..num_entries
      /\ hash_entries[at[p]].next \in 0..(at[p] - 1)
      /\ hash_entries[at[p]].next # 0 =>
           Slot[hash_entries[hash_entries[at[p]].next].key] =
               Slot[hash_entries[at[p]].key]
      /\ \A f \in 1..(at[p] - 1) :
           Slot[hash_entries[f].key] = Slot[hash_entries[at[p]].key] =>
               f <= hash_entries[at[p]].next
  <2>1. at[p] \in 1..num_entries
    BY Constants DEF Inv, Types
  <2> QED
    BY <2>1, NextWorks DEF Inv
<1>1. Types'
  BY Constants, <1>0 DEF Inv, Types, table, scripts, locals, PCs, Walks, Jobs
<1>2. Mutex'
  BY Constants DEF Inv, Types, Mutex, Locked, Walks, locals
<1>3. Point(p)'
  BY Constants, <1>0
  DEF Inv, Types, Point, Locked, Walks, table, scripts, locals
<1>4. Search(p)'
  <2>1. /\ goal' = goal /\ name' = name /\ path' = path /\ pc' = pc
        /\ hash_entries' = hash_entries /\ num_entries' = num_entries
        /\ at'[p] = hash_entries[at[p]].next
        /\ hash_entries[at[p]].key # goal[p]
    BY DEF Inv, Types, table, locals
  <2>2. Slot[hash_entries[at[p]].key] = Slot[goal[p]]
    BY <1>0 DEF Inv, Search
  <2>3. ASSUME pc[p] \in {"recheck", "add", "key"},
               NEW f \in 1..num_entries, hash_entries[f].key = goal[p]
        PROVE  f <= at'[p]
    <3>1. f <= at[p] /\ f # at[p] /\ at[p] \in Nat
      BY <1>0, <2>1, <2>3 DEF Inv, Search
    <3>2. f \in 1..(at[p] - 1)
      BY <3>1
    <3> QED
      BY <1>0, <2>1, <2>2, <2>3, <3>2
  <2> QED
    BY <1>0, <2>1, <2>2, <2>3 DEF Inv, Search
<1>5. \A q \in Proc : q # p =>
         /\ pc'[q] = pc[q] /\ at'[q] = at[q] /\ goal'[q] = goal[q]
         /\ name'[q] = name[q] /\ path'[q] = path[q]
         /\ job'[q] = job[q] /\ bucket'[q] = bucket[q]
         /\ result'[q] = result[q]
  BY DEF Inv, Types, locals
<1>6. /\ UNCHANGED table
      /\ pc[p] \notin {"publish", "convert"}
      /\ pc'[p] \notin {"publish", "convert"}
  BY DEF Inv, Types, Walks, table, locals
<1> QED
  BY <1>1, <1>2, <1>3, <1>4, <1>5, <1>6, QuietKeeps

LEMMA FindMatchKeeps == ASSUME Inv, NEW p \in Proc, FindMatch(p) PROVE Inv'
<1> USE DEF FindMatch, Nil, Set, Present
<1>1. Types'
  BY Constants DEF Inv, Types, table, scripts, locals, PCs, Walks, Jobs
<1>2. Mutex'
  BY Constants DEF Inv, Types, Mutex, Locked, Walks, locals
<1>3. Point(p)'
  BY Constants DEF Inv, Types, Point, Locked, Walks, table, scripts, locals
<1>4. Search(p)'
  BY Constants DEF Inv, Types, Search, Locked, Walks, table, scripts, locals
<1>5. \A q \in Proc : q # p =>
         /\ pc'[q] = pc[q] /\ at'[q] = at[q] /\ goal'[q] = goal[q]
         /\ name'[q] = name[q] /\ path'[q] = path[q]
         /\ job'[q] = job[q] /\ bucket'[q] = bucket[q]
         /\ result'[q] = result[q]
  BY DEF Inv, Types, locals
<1>6. /\ UNCHANGED table
      /\ pc[p] \notin {"publish", "convert"}
      /\ pc'[p] \notin {"publish", "convert"}
  BY DEF Inv, Types, Walks, table, locals
<1> QED
  BY <1>1, <1>2, <1>3, <1>4, <1>5, <1>6, QuietKeeps

LEMMA FindFollowKeeps == ASSUME Inv, NEW p \in Proc, FindFollow(p) PROVE Inv'
<1> USE DEF FindFollow, Nil, Set
<1>0. hash_entries[at[p]].data \in 1..num_entries
  <2>1. at[p] \in 1..num_entries /\ hash_entries[at[p]].indirect
    BY Constants DEF Inv, Types, Point
  <2> QED
    BY <2>1 DEF Inv, Data
<1>1. Types'
  BY Constants, <1>0 DEF Inv, Types, table, scripts, locals, PCs, Walks, Jobs
<1>2. Mutex'
  BY Constants DEF Inv, Types, Mutex, Locked, Walks, locals
<1>3. Point(p)'
  BY Constants, <1>0
  DEF Inv, Types, Point, Locked, Walks, table, scripts, locals
<1>4. Search(p)'
  BY Constants, <1>0
  DEF Inv, Types, Search, Locked, Walks, table, scripts, locals
<1>5. \A q \in Proc : q # p =>
         /\ pc'[q] = pc[q] /\ at'[q] = at[q] /\ goal'[q] = goal[q]
         /\ name'[q] = name[q] /\ path'[q] = path[q]
         /\ job'[q] = job[q] /\ bucket'[q] = bucket[q]
         /\ result'[q] = result[q]
  BY DEF Inv, Types, locals
<1>6. /\ UNCHANGED table
      /\ pc[p] \notin {"publish", "convert"}
      /\ pc'[p] \notin {"publish", "convert"}
  BY DEF Inv, Types, Walks, table, locals
<1> QED
  BY <1>1, <1>2, <1>3, <1>4, <1>5, <1>6, QuietKeeps

LEMMA FindDataKeeps == ASSUME Inv, NEW p \in Proc, FindData(p) PROVE Inv'
<1> USE DEF FindData, Nil, Set
<1>0. hash_entries[at[p]].data \in Script \cup Entry
  <2>1. at[p] \in 1..num_entries
    BY Constants DEF Inv, Types, Point
  <2> QED
    BY <2>1 DEF Inv, Types, EntryRecord
<1>1. Types'
  BY Constants, <1>0 DEF Inv, Types, table, scripts, locals, PCs, Walks, Jobs
<1>2. Mutex'
  BY Constants DEF Inv, Types, Mutex, Locked, Walks, locals
<1>3. Point(p)'
  BY Constants, <1>0
  DEF Inv, Types, Point, Locked, Walks, table, scripts, locals
<1>4. Search(p)'
  BY Constants, <1>0
  DEF Inv, Types, Search, Locked, Walks, table, scripts, locals
<1>5. \A q \in Proc : q # p =>
         /\ pc'[q] = pc[q] /\ at'[q] = at[q] /\ goal'[q] = goal[q]
         /\ name'[q] = name[q] /\ path'[q] = path[q]
         /\ job'[q] = job[q] /\ bucket'[q] = bucket[q]
         /\ result'[q] = result[q]
  BY DEF Inv, Types, locals
<1>6. /\ UNCHANGED table
      /\ pc[p] \notin {"publish", "convert"}
      /\ pc'[p] \notin {"publish", "convert"}
  BY DEF Inv, Types, Walks, table, locals
<1> QED
  BY <1>1, <1>2, <1>3, <1>4, <1>5, <1>6, QuietKeeps

LEMMA OpenKeeps == ASSUME Inv, NEW p \in Proc, Open(p) PROVE Inv'
<1> USE DEF Open, Nil, Set, Look, Absent
<1>0. /\ name[p] \in Name /\ realpath[name[p]] \in Path
      /\ LET n == realpath[name[p]] IN
         /\ hash_table[Slot[n]] \in 0..num_entries
         /\ hash_table[Slot[n]] # 0 =>
              Slot[hash_entries[hash_table[Slot[n]]].key] = Slot[n]
  <2>1. name[p] \in Name /\ realpath[name[p]] \in Path
    BY DEF Inv, Types, Point
  <2> QED
    BY <2>1, Constants, LookWorks DEF Inv
<1>1. Types'
  BY Constants, <1>0 DEF Inv, Types, table, scripts, locals, PCs, Walks, Jobs
<1>2. Mutex'
  BY Constants DEF Inv, Types, Mutex, Locked, Walks, locals
<1>3. Point(p)'
  BY Constants, <1>0
  DEF Inv, Types, Point, Locked, Walks, table, scripts, locals
<1>4. Search(p)'
  BY Constants, <1>0
  DEF Inv, Types, Search, Locked, Walks, table, scripts, locals
<1>5. \A q \in Proc : q # p =>
         /\ pc'[q] = pc[q] /\ at'[q] = at[q] /\ goal'[q] = goal[q]
         /\ name'[q] = name[q] /\ path'[q] = path[q]
         /\ job'[q] = job[q] /\ bucket'[q] = bucket[q]
         /\ result'[q] = result[q]
  BY DEF Inv, Types, locals
<1>6. /\ UNCHANGED table
      /\ pc[p] \notin {"publish", "convert"}
      /\ pc'[p] \notin {"publish", "convert"}
  BY DEF Inv, Types, Walks, table, locals
<1> QED
  BY <1>1, <1>2, <1>3, <1>4, <1>5, <1>6, QuietKeeps

LEMMA OpenFoundKeeps == ASSUME Inv, NEW p \in Proc, OpenFound(p) PROVE Inv'
<1> USE DEF OpenFound, Nil, Set, Present
<1>0. /\ Direct(at[p]) \in 1..num_entries
      /\ hash_entries[Direct(at[p])].data \in Script \cup Entry
  <2>1. at[p] \in 1..num_entries
    BY Constants DEF Inv, Types
  <2> QED
    BY <2>1, DirectWorks DEF Inv, Types, EntryRecord
<1>1. Types'
  BY Constants, <1>0 DEF Inv, Types, table, scripts, locals, PCs, Walks, Jobs
<1>2. Mutex'
  BY Constants DEF Inv, Types, Mutex, Locked, Walks, locals
<1>3. Point(p)'
  BY Constants, <1>0
  DEF Inv, Types, Point, Locked, Walks, table, scripts, locals
<1>4. Search(p)'
  BY Constants, <1>0
  DEF Inv, Types, Search, Locked, Walks, table, scripts, locals
<1>5. \A q \in Proc : q # p =>
         /\ pc'[q] = pc[q] /\ at'[q] = at[q] /\ goal'[q] = goal[q]
         /\ name'[q] = name[q] /\ path'[q] = path[q]
         /\ job'[q] = job[q] /\ bucket'[q] = bucket[q]
         /\ result'[q] = result[q]
  BY DEF Inv, Types, locals
<1>6. /\ UNCHANGED table
      /\ pc[p] \notin {"publish", "convert"}
      /\ pc'[p] \notin {"publish", "convert"}
  BY DEF Inv, Types, Walks, table, locals
<1> QED
  BY <1>1, <1>2, <1>3, <1>4, <1>5, <1>6, QuietKeeps

LEMMA OpenNewKeeps == ASSUME Inv, NEW p \in Proc, OpenNew(p) PROVE Inv'
<1> USE DEF OpenNew, Nil, Set, Absent
<1>1. Types'
  BY Constants DEF Inv, Types, table, scripts, locals, PCs, Walks, Jobs
<1>2. Mutex'
  BY Constants DEF Inv, Types, Mutex, Locked, Walks, locals
<1>3. Point(p)'
  BY Constants DEF Inv, Types, Point, Locked, Walks, table, scripts, locals
<1>4. Search(p)'
  BY Constants DEF Inv, Types, Search, Locked, Walks, table, scripts, locals
<1>5. \A q \in Proc : q # p =>
         /\ pc'[q] = pc[q] /\ at'[q] = at[q] /\ goal'[q] = goal[q]
         /\ name'[q] = name[q] /\ path'[q] = path[q]
         /\ job'[q] = job[q] /\ bucket'[q] = bucket[q]
         /\ result'[q] = result[q]
  BY DEF Inv, Types, locals
<1>6. /\ UNCHANGED table
      /\ pc[p] \notin {"publish", "convert"}
      /\ pc'[p] \notin {"publish", "convert"}
  BY DEF Inv, Types, Walks, table, locals
<1> QED
  BY <1>1, <1>2, <1>3, <1>4, <1>5, <1>6, QuietKeeps

LEMMA CheckKeeps == ASSUME Inv, NEW p \in Proc, Check(p) PROVE Inv'
<1> USE DEF Check, Nil, Set, Compile
<1>0. name[p] \in Name /\ realpath[name[p]] \in Path
  BY DEF Inv, Types, Point
<1>1. Types'
  BY Constants, <1>0 DEF Inv, Types, table, scripts, locals, PCs, Walks, Jobs
<1>2. Mutex'
  <2>1. /\ pc[p] = "check" /\ pc'[p] \in {"lock", "idle"} /\ lock' = lock
        /\ \A q \in Proc : q # p => pc'[q] = pc[q]
    BY DEF Inv, Types
  <2> HIDE DEF Check, Compile
  <2> QED
    BY <2>1 DEF Inv, Mutex, Locked
<1>3. Point(p)'
  <2>1. /\ name'[p] = name[p] /\ result'[p] = result[p] /\ result[p] \in Script
        /\ \/ pc'[p] = "lock" /\ job'[p] = "store" /\ path'[p] \in Path
           \/ pc'[p] = "lock" /\ job'[p] = "corrupt"
           \/ pc'[p] = "idle"
    <3>1. CASE result[p] \in corrupted
      BY <3>1, <1>0, Constants DEF Inv, Types
    <3>2. CASE result[p] \notin corrupted
      BY <3>2 DEF Inv, Types
    <3> QED
      BY <3>1, <3>2
  <2> HIDE DEF Check, Compile
  <2> QED
    BY <2>1, <1>0 DEF Point, Locked
<1>4. Search(p)'
  BY Constants, <1>0
  DEF Inv, Types, Search, Locked, Walks, table, scripts, locals
<1>5. \A q \in Proc : q # p =>
         /\ pc'[q] = pc[q] /\ at'[q] = at[q] /\ goal'[q] = goal[q]
         /\ name'[q] = name[q] /\ path'[q] = path[q]
         /\ job'[q] = job[q] /\ bucket'[q] = bucket[q]
         /\ result'[q] = result[q]
  BY DEF Inv, Types, locals
<1>6. /\ UNCHANGED table
      /\ pc[p] \notin {"publish", "convert"}
      /\ pc'[p] \notin {"publish", "convert"}
  BY DEF Inv, Types, Walks, table, locals
<1> QED
  BY <1>1, <1>2, <1>3, <1>4, <1>5, <1>6, QuietKeeps

LEMMA NotCachedKeeps == ASSUME Inv, NEW p \in Proc, NotCached(p) PROVE Inv'
<1> USE DEF NotCached, Nil, Set
<1>1. Types'
  BY Constants DEF Inv, Types, table, scripts, locals, PCs, Walks, Jobs
<1>2. Mutex'
  BY Constants DEF Inv, Types, Mutex, Locked, Walks, locals
<1>3. Point(p)'
  BY Constants DEF Inv, Types, Point, Locked, Walks, table, scripts, locals
<1>4. Search(p)'
  BY Constants DEF Inv, Types, Search, Locked, Walks, table, scripts, locals
<1>5. \A q \in Proc : q # p =>
         /\ pc'[q] = pc[q] /\ at'[q] = at[q] /\ goal'[q] = goal[q]
         /\ name'[q] = name[q] /\ path'[q] = path[q]
         /\ job'[q] = job[q] /\ bucket'[q] = bucket[q]
         /\ result'[q] = result[q]
  BY DEF Inv, Types, locals
<1>6. /\ UNCHANGED table
      /\ pc[p] \notin {"publish", "convert"}
      /\ pc'[p] \notin {"publish", "convert"}
  BY DEF Inv, Types, Walks, table, locals
<1> QED
  BY <1>1, <1>2, <1>3, <1>4, <1>5, <1>6, QuietKeeps

LEMMA CorruptKeeps == ASSUME Inv, NEW p \in Proc, Corrupt(p) PROVE Inv'
<1> USE DEF Corrupt, Nil, Set, Compile
<1>0. /\ name[p] \in Name /\ realpath[name[p]] \in Path
      /\ result[p] \in Script
  BY DEF Inv, Types, Point
<1>1. Types'
  BY Constants, <1>0 DEF Inv, Types, table, scripts, locals, PCs, Walks, Jobs
<1>2. Mutex'
  BY Constants DEF Inv, Types, Mutex, Locked, Walks, locals
<1>3. Point(p)'
  BY Constants, <1>0
  DEF Inv, Types, Point, Locked, Walks, table, scripts, locals
<1>4. Search(p)'
  BY Constants, <1>0
  DEF Inv, Types, Search, Locked, Walks, table, scripts, locals
<1>5. \A q \in Proc : q # p =>
         /\ pc'[q] = pc[q] /\ at'[q] = at[q] /\ goal'[q] = goal[q]
         /\ name'[q] = name[q] /\ path'[q] = path[q]
         /\ job'[q] = job[q] /\ bucket'[q] = bucket[q]
         /\ result'[q] = result[q]
  BY DEF Inv, Types, locals
<1>6. /\ UNCHANGED table
      /\ pc[p] \notin {"publish", "convert"}
      /\ pc'[p] \notin {"publish", "convert"}
  BY DEF Inv, Types, Walks, table, locals
<1> QED
  BY <1>1, <1>2, <1>3, <1>4, <1>5, <1>6, QuietKeeps

LEMMA LockAddKeeps == ASSUME Inv, NEW p \in Proc, LockAdd(p) PROVE Inv'
<1> USE DEF LockAdd, Nil, Set, Look
<1>0. /\ hash_table[Slot[name[p]]] \in 0..num_entries
      /\ hash_table[Slot[name[p]]] # 0 =>
           Slot[hash_entries[hash_table[Slot[name[p]]]].key] = Slot[name[p]]
      /\ \A f \in 1..num_entries :
           hash_entries[f].key = name[p] => f <= hash_table[Slot[name[p]]]
      /\ name[p] \in Name
  <2>1. name[p] \in Name /\ name[p] \in Name
    BY Constants DEF Inv, Types, Point, Locked
  <2>2. \A q \in Proc : pc[q] # "publish"
    BY Free DEF Inv, Locked
  <2> QED
    BY <2>1, <2>2, LookWorks DEF Inv
<1>1. Types'
  BY Constants, <1>0 DEF Inv, Types, table, scripts, locals, PCs, Walks, Jobs
<1>2. Mutex'
  BY Constants DEF Inv, Types, Mutex, Locked, Walks, locals
<1>3. Point(p)'
  BY Constants, <1>0
  DEF Inv, Types, Point, Locked, Walks, table, scripts, locals
<1>4. Search(p)'
  BY Constants, <1>0
  DEF Inv, Types, Search, Locked, Walks, table, scripts, locals
<1>5. \A q \in Proc : q # p =>
         /\ pc'[q] = pc[q] /\ at'[q] = at[q] /\ goal'[q] = goal[q]
         /\ name'[q] = name[q] /\ path'[q] = path[q]
         /\ job'[q] = job[q] /\ bucket'[q] = bucket[q]
         /\ result'[q] = result[q]
  BY DEF Inv, Types, locals
<1>6. /\ UNCHANGED table
      /\ pc[p] \notin {"publish", "convert"}
      /\ pc'[p] \notin {"publish", "convert"}
  BY DEF Inv, Types, Walks, table, locals
<1> QED
  BY <1>1, <1>2, <1>3, <1>4, <1>5, <1>6, QuietKeeps

LEMMA LockStoreKeeps == ASSUME Inv, NEW p \in Proc, LockStore(p) PROVE Inv'
<1> USE DEF LockStore, Nil, Set, Look
<1>0. /\ hash_table[Slot[path[p]]] \in 0..num_entries
      /\ hash_table[Slot[path[p]]] # 0 =>
           Slot[hash_entries[hash_table[Slot[path[p]]]].key] = Slot[path[p]]
      /\ \A f \in 1..num_entries :
           hash_entries[f].key = path[p] => f <= hash_table[Slot[path[p]]]
      /\ path[p] \in Path
  <2>1. path[p] \in Path /\ path[p] \in Name
    BY Constants DEF Inv, Types, Point, Locked
  <2>2. \A q \in Proc : pc[q] # "publish"
    BY Free DEF Inv, Locked
  <2> QED
    BY <2>1, <2>2, LookWorks DEF Inv
<1>1. Types'
  <2>1. /\ pc' \in [Proc -> PCs] /\ goal' \in [Proc -> Name \cup {NoPath}]
        /\ at' \in [Proc -> 0..num_entries]
    <3>1. \/ /\ pc' = [pc EXCEPT ![p] = "unlock"]
             /\ goal' = goal /\ at' = at
          \/ /\ pc' = [pc EXCEPT ![p] = "recheck"]
             /\ goal' = [goal EXCEPT ![p] = path[p]]
             /\ at' = [at EXCEPT ![p] = hash_table[Slot[path[p]]]]
      OBVIOUS
    <3> HIDE DEF LockStore, Look, Set
    <3>2. pc' \in [Proc -> PCs] /\ goal' \in [Proc -> Name \cup {NoPath}]
      BY <3>1, <1>0, Constants DEF Inv, Types, PCs, Walks
    <3>3. at' \in [Proc -> 0..num_entries]
      BY <3>1, <1>0 DEF Inv, Types
    <3> QED
      BY <3>2, <3>3
  <2>2. /\ hash_table' = hash_table /\ hash_entries' = hash_entries
        /\ num_entries' = num_entries /\ full_path' = full_path
        /\ corrupted' = corrupted /\ realpath' = realpath
        /\ lock' \in Proc \cup {NoProc} /\ job' \in [Proc -> Jobs]
        /\ name' = name /\ path' = path /\ result' = result
        /\ bucket' \in [Proc -> 0..num_entries]
    BY <1>0, <2>1 DEF Inv, Types, table, scripts, locals
  <2> QED
    BY <2>1, <2>2 DEF Inv, Types
<1>2. Mutex'
  BY Constants DEF Inv, Types, Mutex, Locked, Walks, locals
<1>3. Point(p)'
  <2>1. CASE is_full
    BY <2>1, <1>0, Constants DEF Inv, Types, Point, Locked, Walks, table
  <2>2. CASE ~is_full
    BY <2>2, <1>0, Constants DEF Inv, Types, Point, Locked, Walks, table
  <2> QED
    BY <2>1, <2>2
<1>4. Search(p)'
  BY Constants, <1>0
  DEF Inv, Types, Search, Locked, Walks, table, scripts, locals
<1>5. \A q \in Proc : q # p =>
         /\ pc'[q] = pc[q] /\ at'[q] = at[q] /\ goal'[q] = goal[q]
         /\ name'[q] = name[q] /\ path'[q] = path[q]
         /\ job'[q] = job[q] /\ bucket'[q] = bucket[q]
         /\ result'[q] = result[q]
  BY DEF Inv, Types, locals
<1>6. /\ UNCHANGED table
      /\ pc[p] \notin {"publish", "convert"}
      /\ pc'[p] \notin {"publish", "convert"}
  BY DEF Inv, Types, Walks, table, locals
<1> QED
  BY <1>1, <1>2, <1>3, <1>4, <1>5, <1>6, QuietKeeps

LEMMA RecheckKeeps == ASSUME Inv, NEW p \in Proc, Recheck(p) PROVE Inv'
<1> USE DEF Recheck, Nil, Set, Look, Present
<1>0. /\ hash_table[Slot[name[p]]] \in 0..num_entries
      /\ hash_table[Slot[name[p]]] # 0 =>
           Slot[hash_entries[hash_table[Slot[name[p]]]].key] = Slot[name[p]]
      /\ \A f \in 1..num_entries :
           hash_entries[f].key = name[p] => f <= hash_table[Slot[name[p]]]
      /\ name[p] \in Name
  <2>1. name[p] \in Name /\ name[p] \in Name
    BY Constants DEF Inv, Types, Point, Locked, Mutex
  <2>2. \A q \in Proc : pc[q] # "publish"
    BY Alone DEF Inv, Locked, Mutex
  <2> QED
    BY <2>1, <2>2, LookWorks DEF Inv
<1>a. Direct(at[p]) \in 1..num_entries
  <2>1. at[p] \in 1..num_entries
    BY Constants DEF Inv, Types
  <2> QED
    BY <2>1, DirectWorks DEF Inv
<1>1. Types'
  <2>1. /\ pc' \in [Proc -> PCs] /\ goal' \in [Proc -> Name \cup {NoPath}]
        /\ at' \in [Proc -> 0..num_entries] /\ job' \in [Proc -> Jobs]
    <3>1. CASE job' = [job EXCEPT ![p] = "link"] /\ Look(p, name[p], "add")
      BY <3>1, <1>0, <1>a, Constants DEF Inv, Types, PCs, Walks, Jobs
    <3>2. CASE pc' = [pc EXCEPT ![p] = "unlock"] /\ UNCHANGED <<job, goal, at>>
      BY <3>2, <1>0, <1>a, Constants DEF Inv, Types, PCs, Walks, Jobs
    <3> QED
      BY <3>1, <3>2
  <2>2. /\ hash_table' = hash_table /\ hash_entries' = hash_entries
        /\ num_entries' = num_entries /\ full_path' = full_path
        /\ corrupted' = corrupted /\ realpath' = realpath
        /\ lock' \in Proc \cup {NoProc} /\ job' \in [Proc -> Jobs]
        /\ name' = name /\ path' = path /\ result' = result
        /\ bucket' \in [Proc -> 0..num_entries]
    BY <1>0, <1>a, <2>1 DEF Inv, Types, table, scripts, locals
  <2> QED
    BY <2>1, <2>2 DEF Inv, Types
<1>2. Mutex'
  BY Constants DEF Inv, Types, Mutex, Locked, Walks, locals
<1>3. Point(p)'
  <2>1. /\ name'[p] = name[p] /\ path'[p] = path[p] /\ bucket'[p] # 0
        /\ pc'[p] \in {"add", "unlock"}
    BY <1>a DEF Inv, Types
  <2>2. path[p] \in Path
    BY DEF Inv, Point, Locked
  <2> HIDE DEF Recheck, Look, Present
  <2> QED
    BY <2>1, <2>2, <1>0 DEF Point, Locked
<1>4. Search(p)'
  <2>1. /\ name'[p] = name[p]
        /\ hash_entries' = hash_entries /\ num_entries' = num_entries
        /\ \/ /\ pc'[p] = "add" /\ goal'[p] = name[p]
              /\ at'[p] = hash_table[Slot[name[p]]]
           \/ pc'[p] = "unlock"
    BY DEF Inv, Types, table
  <2> HIDE DEF Recheck, Look, Present
  <2> QED
    BY <2>1, <1>0 DEF Search, Walks
<1>5. \A q \in Proc : q # p =>
         /\ pc'[q] = pc[q] /\ at'[q] = at[q] /\ goal'[q] = goal[q]
         /\ name'[q] = name[q] /\ path'[q] = path[q]
         /\ job'[q] = job[q] /\ bucket'[q] = bucket[q]
         /\ result'[q] = result[q]
  BY DEF Inv, Types, locals
<1>6. /\ UNCHANGED table
      /\ pc[p] \notin {"publish", "convert"}
      /\ pc'[p] \notin {"publish", "convert"}
  BY DEF Inv, Types, Walks, table, locals
<1> QED
  BY <1>1, <1>2, <1>3, <1>4, <1>5, <1>6, QuietKeeps

LEMMA NoMemoryKeeps == ASSUME Inv, NEW p \in Proc, NoMemory(p) PROVE Inv'
<1> USE DEF NoMemory, Nil, Set, Present, Absent
<1>1. Types'
  BY Constants DEF Inv, Types, table, scripts, locals, PCs, Walks, Jobs
<1>2. Mutex'
  BY Constants DEF Inv, Types, Mutex, Locked, Walks, locals
<1>3. Point(p)'
  BY Constants DEF Inv, Types, Point, Locked, Walks, table, scripts, locals
<1>4. Search(p)'
  BY Constants DEF Inv, Types, Search, Locked, Walks, table, scripts, locals
<1>5. \A q \in Proc : q # p =>
         /\ pc'[q] = pc[q] /\ at'[q] = at[q] /\ goal'[q] = goal[q]
         /\ name'[q] = name[q] /\ path'[q] = path[q]
         /\ job'[q] = job[q] /\ bucket'[q] = bucket[q]
         /\ result'[q] = result[q]
  BY DEF Inv, Types, locals
<1>6. /\ UNCHANGED table
      /\ pc[p] \notin {"publish", "convert"}
      /\ pc'[p] \notin {"publish", "convert"}
  BY DEF Inv, Types, Walks, table, locals
<1> QED
  BY <1>1, <1>2, <1>3, <1>4, <1>5, <1>6, QuietKeeps

LEMMA UnlockKeeps == ASSUME Inv, NEW p \in Proc, Unlock(p) PROVE Inv'
<1> USE DEF Unlock, Nil, Set
<1>1. Types'
  BY Constants DEF Inv, Types, table, scripts, locals, PCs, Walks, Jobs
<1>2. Mutex'
  BY Constants DEF Inv, Types, Mutex, Locked, Walks, locals
<1>3. Point(p)'
  BY Constants DEF Inv, Types, Point, Locked, Walks, table, scripts, locals
<1>4. Search(p)'
  BY Constants DEF Inv, Types, Search, Locked, Walks, table, scripts, locals
<1>5. \A q \in Proc : q # p =>
         /\ pc'[q] = pc[q] /\ at'[q] = at[q] /\ goal'[q] = goal[q]
         /\ name'[q] = name[q] /\ path'[q] = path[q]
         /\ job'[q] = job[q] /\ bucket'[q] = bucket[q]
         /\ result'[q] = result[q]
  BY DEF Inv, Types, locals
<1>6. /\ UNCHANGED table
      /\ pc[p] \notin {"publish", "convert"}
      /\ pc'[p] \notin {"publish", "convert"}
  BY DEF Inv, Types, Walks, table, locals
<1> QED
  BY <1>1, <1>2, <1>3, <1>4, <1>5, <1>6, QuietKeeps

-----------------------------------------------------------------------------
(* Files move; nothing happens.                                            *)

LEMMA MoveKeeps ==
    ASSUME Inv, UNCHANGED <<table, scripts, lock, pc, locals>>,
           realpath' \in [Name -> Path]
    PROVE  Inv'
<1> USE DEF table, scripts, locals
<1>1. Types'
  BY DEF Inv, Types
<1>2. Mutex' /\ Data' /\ Counted'
  BY DEF Inv, Mutex, Data, Counted, WithScript
<1>3. Chains'
  <2>1. Visible' = Visible
    BY DEF Visible
  <2> QED
    BY <2>1 DEF Inv, Chains, Last
<1>4. ASSUME NEW q \in Proc PROVE (Point(q) /\ Search(q))'
  <2>1. Point(q)'
    BY DEF Inv, Point
  <2>2. Search(q)'
    BY DEF Inv, Search
  <2> QED
    BY <2>1, <2>2
<1> QED
  BY <1>1, <1>2, <1>3, <1>4 DEF Inv

-----------------------------------------------------------------------------
(* Steps of the owner of the lock that change the table.                   *)

\* The others keep what they have in hand: entries do not lose their keys.
LEMMA OthersStay ==
    ASSUME Inv, NEW p \in Proc, lock = p, NEW q \in Proc, q # p,
           /\ pc'[q] = pc[q] /\ at'[q] = at[q] /\ goal'[q] = goal[q]
           /\ name'[q] = name[q] /\ path'[q] = path[q]
           /\ job'[q] = job[q] /\ bucket'[q] = bucket[q]
           /\ result'[q] = result[q],
           \A e \in 1..num_entries :
               /\ hash_entries'[e].key = hash_entries[e].key
               /\ hash_entries[e].indirect => hash_entries'[e].indirect
    PROVE  (Point(q) /\ Search(q))'
<1>1. pc[q] \notin Locked
  BY Alone DEF Inv
<1>2. at[q] # 0 => at[q] \in 1..num_entries
  BY Constants DEF Inv, Types
<1>3. Point(q)'
  BY <1>1, <1>2 DEF Inv, Point, Locked
<1>4. Search(q)'
  BY <1>1, <1>2 DEF Inv, Search, Locked
<1> QED
  BY <1>3, <1>4

\* Nor do the chains change by what happens to data.
LEMMA DataKeepsChains ==
    ASSUME Inv, NEW p \in Proc, lock = p, pc[p] # "publish", pc'[p] # "publish",
           \A q \in Proc : q # p => pc'[q] = pc[q],
           hash_table' = hash_table, num_entries' = num_entries,
           \A e \in 1..num_entries :
               /\ hash_entries'[e].key = hash_entries[e].key
               /\ hash_entries'[e].next = hash_entries[e].next
    PROVE  Chains'
<1>1. Visible' = Visible /\ Visible = num_entries
  BY Alone DEF Inv, Visible, Locked
<1>2. \A e \in 1..num_entries :
         Last(hash_entries[e].next, Slot[hash_entries[e].key], e - 1)'
  <2> SUFFICES ASSUME NEW e \in 1..num_entries
               PROVE  Last(hash_entries[e].next, Slot[hash_entries[e].key],
                           e - 1)'
    OBVIOUS
  <2>1. Last(hash_entries[e].next, Slot[hash_entries[e].key], e - 1)
    BY DEF Inv, Chains
  <2>2. 1..(e - 1) \subseteq 1..num_entries /\ e - 1 \in 0..num_entries
    BY DEF Inv, Types
  <2> QED
    BY <2>1, <2>2 DEF Last
<1>3. ASSUME NEW s \in 0..(Size - 1)
      PROVE  Last(hash_table[s], s, Visible)'
  <2>1. Last(hash_table[s], s, num_entries)
    BY <1>1 DEF Inv, Chains
  <2>2. num_entries \in Nat
    BY Constants DEF Inv, Types
  <2> QED
    BY <1>1, <2>1, <2>2 DEF Last
<1>4. \A e, f \in 1..num_entries :
         hash_entries'[e].key = hash_entries'[f].key => e = f
  BY DEF Inv, Chains
<1> QED
  BY <1>2, <1>3, <1>4 DEF Chains

\* The chain in which the owner of the lock searched ends with the entry that
\* it looked for, or does not have one.
LEMMA AbsentWorks ==
    ASSUME Inv, NEW p \in Proc, lock = p, NEW n \in Name, goal[p] = n,
           pc[p] \in {"recheck", "add", "key"}, at[p] = 0
    PROVE  /\ \A f \in 1..num_entries : hash_entries[f].key # n
           /\ Last(hash_table[Slot[n]], Slot[n], num_entries)
           /\ Visible = num_entries
<1>1. \A f \in 1..num_entries : f > 0
  BY DEF Inv, Types
<1>2. Visible = num_entries
  BY Alone DEF Inv, Visible, Locked
<1>3. Last(hash_table[Slot[n]], Slot[n], num_entries)
  BY <1>2, Constants DEF Inv, Chains
<1> QED
  BY <1>1, <1>2, <1>3 DEF Inv, Search

LEMMA FillKeeps ==
    ASSUME Inv, NEW p \in Proc, lock = p, NEW n \in Name, goal[p] = n,
           pc[p] \in {"recheck", "add", "key"}, at[p] = 0,
           NEW i \in BOOLEAN, NEW d,
           i => d \in 1..num_entries, ~i => d \in Script,
           Fill(p, n, i, d),
           full_path' \in [Script -> Path \cup {NoPath}],
           bucket' \in [Proc -> 0..num_entries'], bucket'[p] # 0,
           \A q \in Proc : q # p => bucket'[q] = bucket[q],
           UNCHANGED <<corrupted, realpath, lock, job, name, path, result>>
    PROVE  Inv'
<1> DEFINE new == num_entries + 1
<1>1. /\ num_entries \in Nat /\ num_entries < Size /\ Size \in Nat
      /\ num_entries' = num_entries + 1
      /\ hash_table' = hash_table /\ goal' = goal
      /\ at' = [at EXCEPT ![p] = num_entries + 1]
      /\ pc' = [pc EXCEPT ![p] = "publish"]
      /\ pc'[p] = "publish" /\ at'[p] = num_entries + 1
  BY Constants DEF Inv, Types, Fill, is_full, Set
<1>2. /\ hash_entries'[num_entries + 1] =
             [key |-> n, next |-> hash_table[Slot[n]], data |-> d,
              indirect |-> i]
      /\ \A e \in 1..num_entries : hash_entries'[e] = hash_entries[e]
  BY <1>1 DEF Fill
<1>3. /\ \A f \in 1..num_entries : hash_entries[f].key # n
      /\ Last(hash_table[Slot[n]], Slot[n], num_entries)
      /\ Visible = num_entries
  BY AbsentWorks
<1>4. hash_table[Slot[n]] \in 0..num_entries
  BY <1>3 DEF Last
<1>5. Types'
  <2>1. hash_entries' \in [1..num_entries' -> EntryRecord]
    <3>1. ASSUME NEW e \in 1..(num_entries + 1)
          PROVE  hash_entries'[e] \in EntryRecord
      <4>1. CASE e = num_entries + 1
        <5>1. [key |-> n, next |-> hash_table[Slot[n]], data |-> d,
               indirect |-> i] \in EntryRecord
          BY <1>1, <1>4, Constants DEF EntryRecord
        <5> QED
          BY <4>1, <1>2, <5>1
      <4>2. CASE e # num_entries + 1
        <5>1. e \in 1..num_entries
          BY <4>2, <1>1
        <5> QED
          BY <5>1, <1>2 DEF Inv, Types
      <4> QED
        BY <4>1, <4>2
    <3> DEFINE F(e) == IF e <= num_entries THEN hash_entries[e]
                       ELSE [key |-> n, next |-> hash_table[Slot[n]],
                             data |-> d, indirect |-> i]
    <3>2. hash_entries' = [e \in 1..(num_entries + 1) |-> F(e)]
      BY DEF Fill
    <3> HIDE DEF F
    <3> QED
      BY <3>1, <3>2, <1>1
  <2>2. /\ num_entries' \in 0..Size
        /\ pc' \in [Proc -> PCs]
        /\ at' \in [Proc -> 0..num_entries']
    BY <1>1 DEF Inv, Types, PCs
  <2> QED
    BY <2>1, <2>2, <1>1 DEF Inv, Types
<1>6. Mutex'
  BY <1>1 DEF Inv, Mutex, Locked, Types
<1>7. Data'
  <2> SUFFICES ASSUME NEW e \in 1..num_entries'
               PROVE  /\ hash_entries'[e].indirect =>
                           hash_entries'[e].data \in 1..num_entries'
                      /\ ~hash_entries'[e].indirect =>
                           hash_entries'[e].data \in Script
    BY DEF Data
  <2>1. CASE e = num_entries + 1
    BY <2>1, <1>1, <1>2
  <2>2. CASE e \in 1..num_entries
    <3>1. \A q \in Proc : pc[q] # "convert"
      BY Alone DEF Inv, Locked
    <3> QED
      BY <2>2, <3>1, <1>1, <1>2 DEF Inv, Data
  <2> QED
    BY <2>1, <2>2, <1>1
<1>8. Chains'
  <2>1. Visible' = num_entries
    BY <1>1 DEF Visible
  <2>2. ASSUME NEW x, NEW s, NEW m \in 0..num_entries, Last(x, s, m)
        PROVE  Last(x, s, m)'
    BY <2>2, <1>1, <1>2 DEF Last
  <2>3. \A s \in 0..(Size - 1) : Last(hash_table[s], s, Visible)'
    BY <2>1, <2>2, <1>1, <1>2, <1>3 DEF Inv, Chains, Last
  <2>4. ASSUME NEW e \in 1..num_entries'
        PROVE  Last(hash_entries[e].next, Slot[hash_entries[e].key], e - 1)'
    <3>1. CASE e = num_entries + 1
      BY <3>1, <1>1, <1>2, <1>3 DEF Last
    <3>2. CASE e \in 1..num_entries
      <4>1. Last(hash_entries[e].next, Slot[hash_entries[e].key], e - 1)
        BY <3>2 DEF Inv, Chains
      <4>2. /\ 1..(e - 1) \subseteq 1..num_entries
            /\ hash_entries[e].next \in 0..(e - 1)
        BY <3>2, <4>1, <1>1 DEF Last
      <4> QED
        BY <3>2, <4>1, <4>2, <1>1, <1>2 DEF Last
    <3> QED
      BY <3>1, <3>2, <1>1
  <2>5. \A e, f \in 1..num_entries' :
           hash_entries'[e].key = hash_entries'[f].key => e = f
    <3>1. \A e \in 1..num_entries' :
             e = num_entries + 1 \/ e \in 1..num_entries
      BY <1>1
    <3> QED
      BY <3>1, <1>2, <1>3 DEF Inv, Chains
  <2> QED
    BY <2>3, <2>4, <2>5 DEF Chains
<1>9. Counted'
  <2>1. num_direct_entries' = num_direct_entries + (IF i THEN 0 ELSE 1)
    BY DEF Fill
  <2>2. IsFiniteSet(WithScript) /\ Cardinality(WithScript) \in Nat
    <3>1. IsFiniteSet(1..num_entries)
      BY <1>1, FS_Interval
    <3>2. WithScript \in SUBSET (1..num_entries)
      BY DEF WithScript
    <3>3. IsFiniteSet(WithScript)
      BY <3>1, <3>2, FS_Subset
    <3> QED
      BY <3>3, FS_CardinalityType
  <2>3. CASE i
    <3>1. d \notin Script
      BY <2>3, Constants
    <3>2. WithScript' = WithScript
      BY <3>1, <1>1, <1>2 DEF WithScript
    <3> QED
      BY <2>1, <2>2, <2>3, <3>2 DEF Inv, Counted
  <2>4. CASE ~i
    <3>1. WithScript' = WithScript \cup {num_entries + 1}
      BY <2>4, <1>1, <1>2 DEF WithScript
    <3>2. num_entries + 1 \notin WithScript
      BY <1>1 DEF WithScript
    <3>3. Cardinality(WithScript') = Cardinality(WithScript) + 1
      BY <2>2, <3>1, <3>2, FS_AddElement
    <3> QED
      BY <2>1, <2>4, <3>3 DEF Inv, Counted
  <2> QED
    BY <2>3, <2>4
<1>10. ASSUME NEW q \in Proc PROVE (Point(q) /\ Search(q))'
  <2>1. CASE q = p
    <3>1. Point(p)'
      <4>1. name[p] \in Name /\ path[p] \in Path
        BY DEF Inv, Point, Locked
      <4> QED
        BY <1>1, <4>1 DEF Point, Locked
    <3>2. Search(p)'
      BY <1>1 DEF Search, Walks
    <3> QED
      BY <2>1, <3>1, <3>2
  <2>2. CASE q # p
    <3>1. /\ pc'[q] = pc[q] /\ at'[q] = at[q] /\ goal'[q] = goal[q]
          /\ name'[q] = name[q] /\ path'[q] = path[q]
          /\ job'[q] = job[q] /\ bucket'[q] = bucket[q]
          /\ result'[q] = result[q]
      BY <2>2, <1>1 DEF Inv, Types
    <3> QED
      BY <2>2, <3>1, <1>2, OthersStay
  <2> QED
    BY <2>1, <2>2
<1> QED
  BY <1>5, <1>6, <1>7, <1>8, <1>9, <1>10 DEF Inv

LEMMA Owner ==
    ASSUME Inv, NEW p \in Proc, pc[p] \in Locked
    PROVE  /\ lock = p
           /\ name[p] \in Name /\ path[p] \in Path
           /\ \A q \in Proc : q # p => pc[q] \notin Locked
BY Alone DEF Inv, Mutex, Point, Locked

\* Nothing is stored after all.
LEMMA GiveUpKeeps ==
    ASSUME Inv, NEW p \in Proc, pc[p] \in {"add", "key"},
           pc' = [pc EXCEPT ![p] = "unlock"],
           UNCHANGED <<table, scripts, realpath, lock, locals>>
    PROVE  Inv'
<1> USE DEF locals
<1>1. Types'
  BY DEF Inv, Types, table, scripts, PCs
<1>2. Mutex'
  BY DEF Inv, Types, Mutex, Locked
<1>3. (Point(p) /\ Search(p))'
  BY Owner DEF Inv, Types, Point, Search, Locked, Walks
<1>4. \A q \in Proc : q # p => pc'[q] = pc[q]
  BY DEF Inv, Types
<1>5. pc'[p] = "unlock"
  BY DEF Inv, Types
<1> QED
  BY <1>1, <1>2, <1>3, <1>4, <1>5, QuietKeeps

LEMMA AddKeyKeeps == ASSUME Inv, NEW p \in Proc, AddKey(p) PROVE Inv'
<1>1. pc[p] = "add"
  BY DEF AddKey, Present, Absent
<1>2. /\ lock = p /\ name[p] \in Name /\ goal[p] = name[p]
  BY <1>1, Owner DEF Locked, Inv, Search
<1>3. CASE /\ pc' = [pc EXCEPT ![p] = "unlock"]
           /\ UNCHANGED <<table, goal, at>>
  BY <1>1, <1>3, GiveUpKeeps DEF AddKey, locals
<1>4. CASE /\ Absent(p, "add")
           /\ \E e \in Follow(bucket[p]) : Fill(p, name[p], TRUE, e)
  <2>1. PICK e \in Follow(bucket[p]) : Fill(p, name[p], TRUE, e)
    BY <1>4
  <2>2. e \in 1..num_entries /\ at[p] = 0
    BY <1>4, FollowWorks DEF Absent, Nil
  <2>3. /\ UNCHANGED <<corrupted, realpath, lock, job, name, path, result>>
        /\ bucket' = bucket /\ full_path' = full_path
    BY DEF AddKey, scripts
  <2>4. num_entries' = num_entries + 1 /\ num_entries \in Nat
    BY <2>1, Constants DEF Fill, Inv, Types
  <2>5. bucket' \in [Proc -> 0..num_entries'] /\ bucket'[p] # 0
    BY <1>1, <2>3, <2>4 DEF Inv, Types, Point
  <2>6. full_path' \in [Script -> Path \cup {NoPath}]
    BY <2>3 DEF Inv, Types
  <2> QED
    BY <1>1, <1>2, <2>1, <2>2, <2>3, <2>5, <2>6, FillKeeps
<1> QED
  BY <1>3, <1>4 DEF AddKey, Set

LEMMA StoreNewKeeps == ASSUME Inv, NEW p \in Proc, StoreNew(p) PROVE Inv'
<1>1. pc[p] = "recheck" /\ at[p] = 0
  BY DEF StoreNew, Absent, Nil
<1>2. lock = p /\ path[p] \in Path /\ path[p] \in Name /\ goal[p] = path[p]
  BY <1>1, Owner, Constants DEF Locked, Inv, Search
<1>3. PICK s \in Script : /\ full_path' = [full_path EXCEPT ![s] = path[p]]
                          /\ Fill(p, path[p], FALSE, s)
  BY DEF StoreNew, Set
<1>4. num_entries' = num_entries + 1 /\ num_entries \in Nat
  BY <1>3, Constants DEF Fill, Inv, Types
<1>5. bucket' = [bucket EXCEPT ![p] = num_entries + 1]
  BY DEF StoreNew, Set
<1>6. /\ bucket' \in [Proc -> 0..num_entries'] /\ bucket'[p] # 0
      /\ \A q \in Proc : q # p => bucket'[q] = bucket[q]
  BY <1>4, <1>5 DEF Inv, Types
<1>7. full_path' \in [Script -> Path \cup {NoPath}]
  BY <1>2, <1>3 DEF Inv, Types
<1>8. UNCHANGED <<corrupted, realpath, lock, job, name, path, result>>
  BY DEF StoreNew
<1> QED
  BY <1>1, <1>2, <1>3, <1>6, <1>7, <1>8, FillKeeps

LEMMA DataUpdate ==
    ASSUME Types, NEW t \in 1..num_entries, NEW v \in Script \cup Entry,
           hash_entries' = [hash_entries EXCEPT ![t].data = v]
    PROVE  /\ hash_entries' \in [1..num_entries -> EntryRecord]
           /\ \A e \in 1..num_entries :
                /\ hash_entries'[e].key = hash_entries[e].key
                /\ hash_entries'[e].next = hash_entries[e].next
                /\ hash_entries'[e].indirect = hash_entries[e].indirect
                /\ hash_entries'[e].data =
                       IF e = t THEN v ELSE hash_entries[e].data
<1>1. \A e \in 1..num_entries : hash_entries[e] \in EntryRecord
  BY DEF Types
<1>2. hash_entries'[t] = [hash_entries[t] EXCEPT !.data = v]
  BY DEF Types
<1>3. \A e \in 1..num_entries : e # t => hash_entries'[e] = hash_entries[e]
  BY DEF Types
<1>4. hash_entries[t] \in EntryRecord
  BY <1>1
<1>5. /\ hash_entries'[t] \in EntryRecord
      /\ hash_entries'[t].key = hash_entries[t].key
      /\ hash_entries'[t].next = hash_entries[t].next
      /\ hash_entries'[t].indirect = hash_entries[t].indirect
      /\ hash_entries'[t].data = v
  BY <1>2, <1>4 DEF EntryRecord
<1>6. hash_entries' \in [1..num_entries -> EntryRecord]
  BY <1>1, <1>3, <1>5 DEF Types
<1> QED
  BY <1>3, <1>5, <1>6

LEMMA CountIsFinite ==
    ASSUME Types
    PROVE  /\ IsFiniteSet(WithScript)
           /\ Cardinality(WithScript) \in 0..num_entries
<1>1. num_entries \in Nat
  BY Constants DEF Types
<1>2. IsFiniteSet(1..num_entries) /\ Cardinality(1..num_entries) = num_entries
  BY <1>1, FS_Interval
<1>3. WithScript \in SUBSET (1..num_entries)
  BY DEF WithScript
<1>4. /\ IsFiniteSet(WithScript)
      /\ Cardinality(WithScript) <= Cardinality(1..num_entries)
  BY <1>2, <1>3, FS_Subset
<1>5. Cardinality(WithScript) \in Nat
  BY <1>4, FS_CardinalityType
<1> QED
  BY <1>1, <1>2, <1>4, <1>5

LEMMA StoreAgainKeeps == ASSUME Inv, NEW p \in Proc, StoreAgain(p) PROVE Inv'
<1> DEFINE t == Direct(at[p])
<1>1. /\ pc[p] = "recheck" /\ at[p] \in 1..num_entries
      /\ hash_entries[at[p]].key = goal[p]
  BY Constants DEF StoreAgain, Present, Nil, Inv, Types
<1>2. /\ lock = p /\ name[p] \in Name /\ path[p] \in Path
      /\ \A q \in Proc : pc[q] # "publish"
      /\ \A q \in Proc : pc[q] # "convert"
  BY <1>1, Owner DEF Locked
<1>3. t \in 1..num_entries /\ hash_entries[t].data \in Script
  BY <1>1, DirectWorks DEF Inv, Types, StoreAgain
<1>4. PICK s \in Script :
         /\ full_path' = [full_path EXCEPT ![s] = path[p]]
         /\ hash_entries' = [hash_entries EXCEPT ![t].data = s]
  BY DEF StoreAgain, Set, Replace, Direct
<1>5. /\ hash_table' = hash_table /\ num_entries' = num_entries
      /\ num_direct_entries' = num_direct_entries
      /\ corrupted' = corrupted /\ realpath' = realpath /\ lock' = lock
      /\ job' = job /\ name' = name /\ path' = path /\ result' = result
      /\ bucket' = [bucket EXCEPT ![p] = at[p]]
      /\ AfterStore(p)
  BY DEF StoreAgain, Set
<1> HIDE DEF t
<1>6. /\ hash_entries' \in [1..num_entries -> EntryRecord]
      /\ \A e \in 1..num_entries :
           /\ hash_entries'[e].key = hash_entries[e].key
           /\ hash_entries'[e].next = hash_entries[e].next
           /\ hash_entries'[e].indirect = hash_entries[e].indirect
           /\ hash_entries'[e].data =
                  IF e = t THEN s ELSE hash_entries[e].data
  <2>1. Types /\ s \in Script \cup Entry
    BY DEF Inv
  <2> QED
    BY <1>3, <1>4, <2>1, DataUpdate
<1>7. /\ hash_table[Slot[name[p]]] \in 0..num_entries
      /\ hash_table[Slot[name[p]]] # 0 =>
           Slot[hash_entries[hash_table[Slot[name[p]]]].key] = Slot[name[p]]
      /\ \A f \in 1..num_entries :
           hash_entries[f].key = name[p] => f <= hash_table[Slot[name[p]]]
  BY <1>2, LookWorks DEF Inv
<1>8. \/ /\ goal' = [goal EXCEPT ![p] = name[p]]
         /\ at' = [at EXCEPT ![p] = hash_table[Slot[name[p]]]]
         /\ pc' = [pc EXCEPT ![p] = "key"]
      \/ pc' = [pc EXCEPT ![p] = "unlock"] /\ UNCHANGED <<goal, at>>
  BY <1>5 DEF AfterStore, Look, Set
<1>9. Types'
  <2>1. /\ pc' \in [Proc -> PCs] /\ at' \in [Proc -> 0..num_entries]
        /\ goal' \in [Proc -> Name \cup {NoPath}]
    BY <1>2, <1>7, <1>8 DEF Inv, Types, PCs, Walks
  <2>2. /\ bucket' \in [Proc -> 0..num_entries]
        /\ full_path' \in [Script -> Path \cup {NoPath}]
    BY <1>1, <1>2, <1>4, <1>5 DEF Inv, Types
  <2> QED
    BY <1>5, <1>6, <2>1, <2>2 DEF Inv, Types
<1>10. Mutex'
  BY <1>1, <1>2, <1>5, <1>8 DEF Inv, Types, Mutex, Locked
<1>11. Data'
  <2>1. \A e \in 1..num_entries :
           ~hash_entries[e].indirect => hash_entries[e].data \in Script
    BY <1>2 DEF Inv, Data
  <2>2. hash_entries[t].indirect => hash_entries[t].data \in 1..num_entries
    BY <1>3 DEF Inv, Data
  <2>3. ~hash_entries[t].indirect
    BY <1>3, <2>2, Constants DEF Inv, Types
  <2> QED
    BY <1>5, <1>6, <2>1, <2>3 DEF Inv, Data
<1>12. Chains'
  BY <1>1, <1>2, <1>5, <1>6, <1>8, DataKeepsChains DEF Inv, Types
<1>13. Counted'
  <2>1. WithScript' = WithScript
    BY <1>3, <1>5, <1>6 DEF WithScript
  <2> QED
    BY <2>1, <1>5 DEF Inv, Counted
<1>14. ASSUME NEW q \in Proc PROVE (Point(q) /\ Search(q))'
  <2>1. CASE q = p
    <3>1. Point(p)' /\ Search(p)'
      <4>1. CASE pc'[p] = "key"
        <5>1. /\ goal'[p] = name[p] /\ name'[p] = name[p]
              /\ at'[p] = hash_table[Slot[name[p]]] /\ path'[p] = path[p]
              /\ bucket'[p] = at[p] /\ num_entries' = num_entries
          BY <4>1, <1>5, <1>8 DEF Inv, Types
        <5>2. at'[p] # 0 => hash_entries'[at'[p]].key = hash_entries[at'[p]].key
          BY <5>1, <1>6, <1>7
        <5>3. Point(p)'
          BY <4>1, <5>1, <1>1, <1>2 DEF Point, Locked
        <5>4. \A f \in 1..num_entries' :
                 hash_entries'[f].key = goal'[p] => f <= at'[p]
          BY <5>1, <1>6, <1>7
        <5>5. at'[p] # 0 =>
                 Slot[hash_entries'[at'[p]].key] = Slot[goal'[p]]
          BY <5>1, <5>2, <1>7
        <5> QED
          BY <4>1, <5>1, <5>3, <5>4, <5>5 DEF Search, Walks
      <4>2. CASE pc'[p] # "key"
        BY <4>2, <1>1, <1>2, <1>5, <1>8
        DEF Inv, Types, Point, Search, Locked, Walks
      <4> QED
        BY <4>1, <4>2
    <3> QED
      BY <2>1, <3>1
  <2>2. CASE q # p
    <3>1. /\ pc'[q] = pc[q] /\ at'[q] = at[q] /\ goal'[q] = goal[q]
          /\ name'[q] = name[q] /\ path'[q] = path[q]
          /\ job'[q] = job[q] /\ bucket'[q] = bucket[q]
          /\ result'[q] = result[q]
      BY <2>2, <1>5, <1>8 DEF Inv, Types
    <3> QED
      BY <2>2, <3>1, <1>2, <1>6, OthersStay
  <2> QED
    BY <2>1, <2>2
<1> QED
  BY <1>9, <1>10, <1>11, <1>12, <1>13, <1>14 DEF Inv

LEMMA PublishKeeps == ASSUME Inv, NEW p \in Proc, Publish(p) PROVE Inv'
<1> DEFINE n == num_entries
           k == hash_entries[n].key
<1>1. pc[p] = "publish" /\ at[p] = n /\ n \in 1..Size /\ n \in Nat /\ n > 0
  BY Constants DEF Publish, Inv, Point, Types
<1>2. /\ lock = p /\ name[p] \in Name /\ path[p] \in Path
      /\ \A q \in Proc : q # p => pc[q] # "publish"
      /\ \A q \in Proc : pc[q] # "convert"
  BY <1>1, Owner DEF Locked
<1>3. k \in Name /\ Slot[k] \in 0..(Size - 1)
  <2>1. n \in 1..num_entries
    BY <1>1
  <2>2. hash_entries[n] \in EntryRecord
    BY <2>1 DEF Inv, Types
  <2>3. k \in Name
    BY <2>2 DEF EntryRecord
  <2> QED
    BY <2>3, Constants
<1>4. hash_table' = [hash_table EXCEPT ![Slot[k]] = n]
  BY <1>1 DEF Publish
<1>5. /\ hash_entries' = hash_entries /\ num_entries' = n
      /\ num_direct_entries' = num_direct_entries /\ full_path' = full_path
      /\ corrupted' = corrupted /\ realpath' = realpath /\ lock' = lock
      /\ job' = job /\ name' = name /\ path' = path /\ result' = result
      /\ bucket' = bucket
  BY DEF Publish, scripts
<1>6. \/ /\ goal' = [goal EXCEPT ![p] = name[p]]
         /\ at' = [at EXCEPT ![p] = hash_table'[Slot[name[p]]]]
         /\ pc' = [pc EXCEPT ![p] = "key"]
         /\ ~hash_entries[n].indirect
      \/ pc' = [pc EXCEPT ![p] = "unlock"] /\ UNCHANGED <<goal, at>>
  BY <1>1 DEF Publish, Set
<1>7. Visible = n - 1 /\ Visible' = n
  <2>1. Visible = n - 1
    BY <1>1 DEF Visible
  <2>2. \A q \in Proc : pc'[q] # "publish"
    BY <1>2, <1>6 DEF Inv, Types
  <2>3. Visible' = n
    BY <2>2, <1>5 DEF Visible
  <2> QED
    BY <2>1, <2>3
<1>8. ASSUME NEW s \in 0..(Size - 1)
      PROVE  /\ hash_table'[s] \in 0..n
             /\ hash_table'[s] # 0 => Slot[hash_entries[hash_table'[s]].key] = s
             /\ \A f \in 1..n :
                  Slot[hash_entries[f].key] = s => f <= hash_table'[s]
  <2>1. Last(hash_table[s], s, n - 1)
    BY <1>7 DEF Inv, Chains
  <2>2. hash_table'[s] = IF s = Slot[k] THEN n ELSE hash_table[s]
    BY <1>4 DEF Inv, Types
  <2>3. CASE s = Slot[k]
    BY <2>2, <2>3, <1>1
  <2>4. CASE s # Slot[k]
    <3>1. \A f \in 1..n : f # n => f \in 1..(n - 1)
      BY <1>1
    <3> QED
      BY <2>1, <2>2, <2>4, <3>1, <1>1 DEF Last
  <2> QED
    BY <2>3, <2>4
<1>9. /\ Slot[name[p]] \in 0..(Size - 1)
      /\ hash_table'[Slot[name[p]]] \in 0..n
      /\ hash_table'[Slot[name[p]]] # 0 =>
           Slot[hash_entries[hash_table'[Slot[name[p]]]].key] = Slot[name[p]]
      /\ \A f \in 1..n :
           hash_entries[f].key = name[p] => f <= hash_table'[Slot[name[p]]]
  <2>1. Slot[name[p]] \in 0..(Size - 1)
    BY <1>2, Constants
  <2> QED
    BY <2>1, <1>8
<1> HIDE DEF n, k
<1>10. Types'
  <2>1. /\ pc' \in [Proc -> PCs] /\ at' \in [Proc -> 0..n]
        /\ goal' \in [Proc -> Name \cup {NoPath}]
    BY <1>2, <1>6, <1>9 DEF Inv, Types, PCs, Walks, n
  <2>2. hash_table' \in [0..(Size - 1) -> 0..Size]
    BY <1>1, <1>3, <1>4 DEF Inv, Types
  <2> QED
    BY <1>5, <2>1, <2>2 DEF Inv, Types, n
<1>11. Mutex'
  BY <1>1, <1>2, <1>5, <1>6 DEF Inv, Types, Mutex, Locked
<1>12. Data'
  BY <1>2, <1>5 DEF Inv, Data, n
<1>13. Chains'
  <2>1. ASSUME NEW e \in 1..n
        PROVE  Last(hash_entries[e].next, Slot[hash_entries[e].key], e - 1)'
    BY <1>5, <2>1 DEF Inv, Chains, Last, n
  <2>2. \A s \in 0..(Size - 1) : Last(hash_table[s], s, Visible)'
    BY <1>5, <1>7, <1>8 DEF Last
  <2>3. \A e, f \in 1..n : hash_entries'[e].key = hash_entries'[f].key => e = f
    BY <1>5 DEF Inv, Chains, n
  <2> QED
    BY <2>1, <2>2, <2>3, <1>5 DEF Chains
<1>14. Counted'
  BY <1>5 DEF Inv, Counted, WithScript, n
<1>15. ASSUME NEW q \in Proc PROVE (Point(q) /\ Search(q))'
  <2>1. CASE q = p
    <3>1. Point(p)' /\ Search(p)'
      <4>1. CASE pc'[p] = "key"
        <5>1. /\ goal'[p] = name[p] /\ name'[p] = name[p]
              /\ at'[p] = hash_table'[Slot[name[p]]] /\ path'[p] = path[p]
          BY <4>1, <1>5, <1>6 DEF Inv, Types
        <5>2. bucket'[p] # 0
          BY <1>1, <1>5, <1>6, <4>1 DEF Inv, Point, Types, n
        <5>3. Point(p)'
          BY <4>1, <5>1, <5>2, <1>2 DEF Point, Locked
        <5> QED
          BY <4>1, <5>1, <5>3, <1>5, <1>9 DEF Search, Walks
      <4>2. CASE pc'[p] # "key"
        BY <4>2, <1>1, <1>2, <1>5, <1>6
        DEF Inv, Types, Point, Search, Locked, Walks
      <4> QED
        BY <4>1, <4>2
    <3> QED
      BY <2>1, <3>1
  <2>2. CASE q # p
    <3>1. /\ pc'[q] = pc[q] /\ at'[q] = at[q] /\ goal'[q] = goal[q]
          /\ name'[q] = name[q] /\ path'[q] = path[q]
          /\ job'[q] = job[q] /\ bucket'[q] = bucket[q]
          /\ result'[q] = result[q]
      BY <2>2, <1>5, <1>6 DEF Inv, Types
    <3> QED
      BY <2>2, <3>1, <1>2, <1>5, OthersStay
  <2> QED
    BY <2>1, <2>2
<1> QED
  BY <1>10, <1>11, <1>12, <1>13, <1>14, <1>15 DEF Inv

LEMMA RelinkKeeps ==
    ASSUME Inv, NEW p \in Proc, Present(p, "key"), NEW b \in 1..num_entries,
           Relink(p, b),
           UNCHANGED <<hash_table, num_entries, goal, at, scripts, realpath,
                       lock, job, name, path, bucket, result>>
    PROVE  Inv'
<1> DEFINE e == at[p]
<1>1. pc[p] = "key" /\ e \in 1..num_entries
  BY Constants DEF Present, Nil, Inv, Types
<1>2. /\ lock = p /\ name[p] \in Name /\ path[p] \in Path
      /\ \A q \in Proc : pc[q] # "publish"
      /\ \A q \in Proc : pc[q] # "convert"
  BY <1>1, Owner DEF Locked
<1>3. b \in Entry
  BY Constants DEF Inv, Types
<1>4. /\ hash_entries' \in [1..num_entries -> EntryRecord]
      /\ \A f \in 1..num_entries :
           /\ hash_entries'[f].key = hash_entries[f].key
           /\ hash_entries'[f].next = hash_entries[f].next
           /\ hash_entries'[f].indirect = hash_entries[f].indirect
           /\ hash_entries'[f].data =
                  IF f = e THEN b ELSE hash_entries[f].data
  <2>1. hash_entries' = [hash_entries EXCEPT ![e].data = b]
    BY DEF Relink
  <2>2. Types /\ b \in Script \cup Entry
    BY <1>3 DEF Inv
  <2> HIDE DEF e
  <2> QED
    BY <1>1, <2>1, <2>2, DataUpdate
<1>5. \/ /\ hash_entries[e].indirect
         /\ pc' = [pc EXCEPT ![p] = "unlock"]
         /\ num_direct_entries' = num_direct_entries
      \/ /\ ~hash_entries[e].indirect
         /\ pc' = [pc EXCEPT ![p] = "convert"]
         /\ num_direct_entries' = num_direct_entries - 1
  BY DEF Relink, Set
<1>6. pc'[p] \in {"unlock", "convert"} /\ \A q \in Proc : q # p => pc'[q] = pc[q]
  BY <1>5 DEF Inv, Types
<1> HIDE DEF e
<1> USE DEF scripts
<1>7. Types'
  <2>1. pc' \in [Proc -> PCs]
    BY <1>5 DEF Inv, Types, PCs
  <2> QED
    BY <1>4, <2>1 DEF Inv, Types
<1>8. Mutex'
  BY <1>1, <1>2, <1>6 DEF Inv, Types, Mutex, Locked
<1>9. Data'
  <2>1. \A f \in 1..num_entries :
           /\ hash_entries[f].indirect =>
                hash_entries[f].data \in 1..num_entries
           /\ ~hash_entries[f].indirect => hash_entries[f].data \in Script
    BY <1>2 DEF Inv, Data
  <2>2. ~hash_entries[e].indirect => pc'[p] = "convert" /\ at'[p] = e
    BY <1>5 DEF Inv, Types, e
  <2> QED
    BY <1>4, <2>1, <2>2 DEF Data
<1>10. Chains'
  BY <1>1, <1>2, <1>4, <1>6, DataKeepsChains
<1>11. Counted'
  <2>1. IsFiniteSet(WithScript)
    BY CountIsFinite DEF Inv
  <2>2. b \notin Script
    BY <1>3, Constants
  <2>3. WithScript' = WithScript \ {e}
    BY <1>1, <1>4, <2>2 DEF WithScript
  <2>4. hash_entries[e].indirect => e \notin WithScript
    BY <1>1, Constants DEF Inv, Types, Data, WithScript
  <2>5. ~hash_entries[e].indirect => e \in WithScript
    BY <1>1, <1>2 DEF Inv, Data, WithScript
  <2>6. Cardinality(WithScript \ {e}) =
            IF e \in WithScript THEN Cardinality(WithScript) - 1
            ELSE Cardinality(WithScript)
    BY <2>1, FS_RemoveElement
  <2> QED
    BY <1>5, <2>3, <2>4, <2>5, <2>6 DEF Inv, Counted
<1>12. ASSUME NEW q \in Proc PROVE (Point(q) /\ Search(q))'
  <2>1. CASE q = p
    <3>1. pc'[p] = "convert" => ~hash_entries'[e].indirect
      BY <1>1, <1>4, <1>5 DEF Inv, Types
    <3>2. hash_entries'[e].data = b /\ at'[p] = e /\ e # 0
      BY <1>1, <1>4, Constants DEF e, Inv, Types
    <3>3. Point(p)'
      BY <3>1, <3>2, <1>2, <1>6 DEF Point, Locked
    <3>4. Search(p)'
      BY <1>6 DEF Search, Walks
    <3> QED
      BY <2>1, <3>3, <3>4
  <2>2. CASE q # p
    BY <2>2, <1>2, <1>4, <1>6, OthersStay
  <2> QED
    BY <2>1, <2>2
<1> QED
  BY <1>7, <1>8, <1>9, <1>10, <1>11, <1>12 DEF Inv

LEMMA StoreKeyKeeps == ASSUME Inv, NEW p \in Proc, StoreKey(p) PROVE Inv'
<1>1. PICK b \in Follow(bucket[p]) :
         \/ Absent(p, "key") /\ Fill(p, name[p], TRUE, b)
         \/ /\ Absent(p, "key") /\ is_full
            /\ pc' = Set(pc, p, "unlock")
            /\ UNCHANGED <<table, goal, at>>
         \/ /\ Present(p, "key")
            /\ Relink(p, b)
            /\ UNCHANGED <<hash_table, num_entries, goal, at>>
  BY DEF StoreKey
<1>2. pc[p] = "key" /\ b \in 1..num_entries
  BY <1>1, FollowWorks DEF Present, Absent
<1>3. /\ lock = p /\ name[p] \in Name /\ goal[p] = name[p]
  BY <1>2, Owner DEF Locked, Inv, Search
<1>4. /\ UNCHANGED <<scripts, realpath, lock, job, name, path, bucket, result>>
      /\ bucket' = bucket /\ full_path' = full_path /\ corrupted' = corrupted
      /\ realpath' = realpath /\ lock' = lock /\ job' = job /\ name' = name
      /\ path' = path /\ result' = result
  BY DEF StoreKey, scripts
<1>5. CASE Absent(p, "key") /\ Fill(p, name[p], TRUE, b)
  <2>1. at[p] = 0
    BY <1>5 DEF Absent, Nil
  <2>2. num_entries' = num_entries + 1 /\ num_entries \in Nat
    BY <1>5, Constants DEF Fill, Inv, Types
  <2>3. bucket' \in [Proc -> 0..num_entries'] /\ bucket'[p] # 0
    BY <1>2, <1>4, <2>2 DEF Inv, Types, Point
  <2>4. full_path' \in [Script -> Path \cup {NoPath}]
    BY <1>4 DEF Inv, Types
  <2> QED
    BY <1>2, <1>3, <1>4, <1>5, <2>1, <2>3, <2>4, FillKeeps
<1>6. CASE pc' = Set(pc, p, "unlock") /\ UNCHANGED <<table, goal, at>>
  BY <1>2, <1>4, <1>6, GiveUpKeeps DEF Set, locals
<1>7. CASE /\ Present(p, "key")
           /\ Relink(p, b)
           /\ UNCHANGED <<hash_table, num_entries, goal, at>>
  BY <1>2, <1>4, <1>7, RelinkKeeps
<1> QED
  BY <1>1, <1>5, <1>6, <1>7

LEMMA ConvertKeeps == ASSUME Inv, NEW p \in Proc, Convert(p) PROVE Inv'
<1> DEFINE e == at[p]
<1>1. /\ pc[p] = "convert" /\ e \in 1..num_entries
      /\ ~hash_entries[e].indirect /\ hash_entries[e].data \in 1..num_entries
  BY Constants DEF Convert, Inv, Types, Point
<1>2. /\ lock = p /\ name[p] \in Name /\ path[p] \in Path
      /\ \A q \in Proc : pc[q] # "publish"
      /\ \A q \in Proc : q # p => pc[q] # "convert"
  BY <1>1, Owner DEF Locked
<1>3. /\ hash_entries' = [hash_entries EXCEPT ![e].indirect = TRUE]
      /\ pc' = [pc EXCEPT ![p] = "unlock"]
      /\ UNCHANGED <<hash_table, num_entries, num_direct_entries, full_path,
                     corrupted, realpath, lock, job, name, path, goal, at,
                     bucket, result>>
  BY DEF Convert, Set, scripts, locals
<1> HIDE DEF e
<1>4. /\ hash_entries' \in [1..num_entries -> EntryRecord]
      /\ \A f \in 1..num_entries :
           /\ hash_entries'[f].key = hash_entries[f].key
           /\ hash_entries'[f].next = hash_entries[f].next
           /\ hash_entries'[f].data = hash_entries[f].data
           /\ hash_entries'[f].indirect =
                  IF f = e THEN TRUE ELSE hash_entries[f].indirect
  <2>1. \A f \in 1..num_entries : hash_entries[f] \in EntryRecord
    BY DEF Inv, Types
  <2>2. hash_entries'[e] = [hash_entries[e] EXCEPT !.indirect = TRUE]
    BY <1>1, <1>3 DEF Inv, Types
  <2>3. \A f \in 1..num_entries : f # e => hash_entries'[f] = hash_entries[f]
    BY <1>3 DEF Inv, Types
  <2>4. hash_entries[e] \in EntryRecord
    BY <1>1, <2>1
  <2>5. /\ hash_entries'[e] \in EntryRecord
        /\ hash_entries'[e].key = hash_entries[e].key
        /\ hash_entries'[e].next = hash_entries[e].next
        /\ hash_entries'[e].data = hash_entries[e].data
        /\ hash_entries'[e].indirect = TRUE
    BY <2>2, <2>4 DEF EntryRecord
  <2>6. hash_entries' \in [1..num_entries -> EntryRecord]
    BY <1>3, <2>1, <2>3, <2>5 DEF Inv, Types
  <2> QED
    BY <2>3, <2>5, <2>6
<1>5. pc'[p] = "unlock" /\ \A q \in Proc : q # p => pc'[q] = pc[q]
  BY <1>3 DEF Inv, Types
<1>6. Types'
  <2>1. pc' \in [Proc -> PCs]
    BY <1>3 DEF Inv, Types, PCs
  <2> QED
    BY <1>3, <1>4, <2>1 DEF Inv, Types
<1>7. Mutex'
  BY <1>1, <1>2, <1>3, <1>5 DEF Inv, Types, Mutex, Locked
<1>8. Data'
  <2>1. \A f \in 1..num_entries :
           /\ hash_entries[f].indirect =>
                hash_entries[f].data \in 1..num_entries
           /\ ~hash_entries[f].indirect =>
                hash_entries[f].data \in Script \/ f = e
    BY <1>2 DEF Inv, Data, e
  <2> QED
    BY <1>1, <1>3, <1>4, <2>1 DEF Data
<1>9. Chains'
  BY <1>1, <1>2, <1>3, <1>4, <1>5, DataKeepsChains
<1>10. Counted'
  BY <1>3, <1>4 DEF Inv, Counted, WithScript
<1>11. ASSUME NEW q \in Proc PROVE (Point(q) /\ Search(q))'
  <2>1. CASE q = p
    <3>1. Point(p)'
      BY <1>2, <1>3, <1>5 DEF Point, Locked
    <3>2. Search(p)'
      BY <1>5 DEF Search, Walks
    <3> QED
      BY <2>1, <3>1, <3>2
  <2>2. CASE q # p
    BY <2>2, <1>2, <1>3, <1>4, <1>5, OthersStay
  <2> QED
    BY <2>1, <2>2
<1> QED
  BY <1>6, <1>7, <1>8, <1>9, <1>10, <1>11 DEF Inv

-----------------------------------------------------------------------------
(* What holds whatever files move.                                         *)

\* The invariant: entries, chains and the processes' searches in them fit
\* together in every reachable state.
THEOREM Invariant == Spec => []Inv
<1>1. Init => Inv
  BY Initially
<1>2. Inv /\ [Next]_vars => Inv'
  <2> SUFFICES ASSUME Inv, [Next]_vars PROVE Inv'
    OBVIOUS
  <2>1. CASE Move
    <3>1. realpath' \in [Name -> Path]
      BY <2>1 DEF Move, Inv, Types
    <3> QED
      BY <2>1, <3>1, MoveKeeps DEF Move
  <2>2. CASE UNCHANGED vars
    <3>1. UNCHANGED <<table, scripts, lock, pc, locals>> /\ realpath' = realpath
      BY <2>2 DEF vars
    <3>2. realpath' \in [Name -> Path]
      BY <3>1 DEF Inv, Types
    <3> QED
      BY <3>1, <3>2, MoveKeeps
  <2>3. ASSUME NEW p \in Proc,
               \/ Request(p) \/ Walk(p) \/ FindMatch(p) \/ FindFollow(p)
               \/ FindData(p) \/ Open(p) \/ OpenFound(p) \/ OpenNew(p)
               \/ Check(p) \/ NotCached(p) \/ Corrupt(p) \/ LockAdd(p)
               \/ LockStore(p) \/ AddKey(p) \/ Recheck(p) \/ NoMemory(p)
               \/ StoreAgain(p) \/ StoreNew(p) \/ Publish(p) \/ StoreKey(p)
               \/ Convert(p) \/ Unlock(p)
        PROVE  Inv'
    BY <2>3, RequestKeeps, WalkKeeps, FindMatchKeeps, FindFollowKeeps,
       FindDataKeeps, OpenKeeps, OpenFoundKeeps, OpenNewKeeps, CheckKeeps,
       NotCachedKeeps, CorruptKeeps, LockAddKeeps, LockStoreKeeps, AddKeyKeeps,
       RecheckKeeps, NoMemoryKeeps, StoreAgainKeeps, StoreNewKeeps,
       PublishKeeps, StoreKeyKeeps, ConvertKeeps, UnlockKeeps
  <2> QED
    BY <2>1, <2>2, <2>3 DEF Next
<1> QED
  BY <1>1, <1>2, PTL DEF Spec

\* Every variable has its type; in particular no reader is led out of the
\* entries that are in use, and num_direct_entries stays within the table.
THEOREM TypesHold == Spec => []TypeOK
<1>1. Inv => TypeOK
  <2> SUFFICES ASSUME Inv PROVE TypeOK
    OBVIOUS
  <2>1. num_direct_entries \in 0..Size
    BY CountIsFinite, Constants DEF Inv, Counted, Types
  <2>2. {Nil} \cup Entry = 0..Size /\ 0..num_entries \subseteq 0..Size
    BY Constants DEF Inv, Types
  <2> QED
    BY <2>1, <2>2 DEF Inv, Types, TypeOK
<1> QED
  BY <1>1, Invariant, PTL

\* Whatever the processes do between the steps by which one of them enters an
\* entry, relinks it or makes it indirect: a key occurs once, each entry leads
\* to the nearest earlier one of its slot, and the slots lead to the last one
\* that is published, so that a lookup without the lock passes every entry
\* that it may have to find and comes to an end.
THEOREM ChainsStaySound == Spec => []ChainsAreSound
<1>1. Inv => ChainsAreSound
  <2> SUFFICES ASSUME Inv PROVE ChainsAreSound
    OBVIOUS
  <2>1. \A e, f \in 1..num_entries :
           hash_entries[e].key = hash_entries[f].key => e = f
    BY DEF Inv, Chains
  <2>2. ASSUME NEW e \in 1..num_entries
        PROVE  LET before == {f \in 1..(e - 1) :
                        Slot[hash_entries[f].key] = Slot[hash_entries[e].key]}
               IN hash_entries[e].next =
                    IF before = {} THEN Nil
                    ELSE CHOOSE f \in before : \A g \in before : g <= f
    <3> DEFINE before == {f \in 1..(e - 1) :
                        Slot[hash_entries[f].key] = Slot[hash_entries[e].key]}
               x == hash_entries[e].next
    <3>1. Last(x, Slot[hash_entries[e].key], e - 1)
      BY DEF Inv, Chains
    <3>2. e \in Nat /\ e > 0
      BY Constants DEF Inv, Types
    <3>3. CASE x = 0
      <4>1. before = {}
        BY <3>1, <3>2, <3>3 DEF Last
      <4> QED
        BY <3>3, <4>1 DEF Nil
    <3>4. CASE x # 0
      <4>1. x \in before /\ \A g \in before : g <= x
        BY <3>1, <3>2, <3>4 DEF Last
      <4>2. \A y \in before : (\A g \in before : g <= y) => y = x
        BY <4>1, <3>2
      <4> HIDE DEF before, x
      <4>3. x = CHOOSE f \in before : \A g \in before : g <= f
        BY <4>1, <4>2
      <4>4. before # {}
        BY <4>1
      <4>5. x = IF before = {} THEN Nil
                ELSE CHOOSE f \in before : \A g \in before : g <= f
        BY <4>3, <4>4
      <4> QED
        BY <4>5 DEF before, x
    <3> QED
      BY <3>3, <3>4
  <2>3. ASSUME NEW e \in Published
        PROVE  hash_table[Slot[hash_entries[e].key]] >= e
    <3>1. e \in 1..num_entries /\ num_entries \in Nat
      BY Constants DEF Published, Inv, Types
    <3>2. Slot[hash_entries[e].key] \in 0..(Size - 1)
      <4>1. hash_entries[e].key \in Name
        BY <3>1 DEF Inv, Types, EntryRecord
      <4> QED
        BY <4>1, Constants
    <3>3. e \in 1..Visible
      <4>1. CASE \E q \in Proc : pc[q] = "publish"
        BY <3>1, <4>1 DEF Inv, Point, Published, Visible
      <4>2. CASE ~\E q \in Proc : pc[q] = "publish"
        BY <3>1, <4>2 DEF Visible
      <4> QED
        BY <4>1, <4>2
    <3>4. Last(hash_table[Slot[hash_entries[e].key]],
               Slot[hash_entries[e].key], Visible)
      BY <3>2 DEF Inv, Chains
    <3> QED
      BY <3>1, <3>2, <3>3, <3>4 DEF Last, Inv, Types
  <2> QED
    BY <2>1, <2>2, <2>3 DEF ChainsAreSound
<1> QED
  BY <1>1, Invariant, PTL

\* The number that is reported as that of the cached scripts is the number of
\* entries that hold one, also while an entry is becoming indirect.
THEOREM DirectEntriesAreCounted == Spec => []DirectCount
<1>1. Inv => DirectCount
  BY DEF Inv, Counted, WithScript, DirectCount
<1> QED
  BY <1>1, Invariant, PTL

-----------------------------------------------------------------------------
(* Steps that leave the table alone, and the other processes.              *)

Quiet(p) ==
    \/ Request(p) \/ Walk(p) \/ FindMatch(p) \/ FindFollow(p)
    \/ FindData(p) \/ Open(p) \/ OpenFound(p) \/ OpenNew(p)
    \/ Check(p) \/ NotCached(p) \/ Corrupt(p) \/ LockAdd(p)
    \/ LockStore(p) \/ Recheck(p) \/ NoMemory(p) \/ Unlock(p)
    \/ pc[p] \in {"add", "key"} /\ pc' = [pc EXCEPT ![p] = "unlock"]
        /\ UNCHANGED <<table, scripts, realpath, lock, locals>>

LEMMA QuietChanges ==
    ASSUME Types, NEW p \in Proc, Quiet(p)
    PROVE  /\ hash_table' = hash_table /\ hash_entries' = hash_entries
           /\ num_entries' = num_entries /\ full_path' = full_path
           /\ realpath' = realpath
           /\ pc[p] # "publish" /\ pc'[p] # "publish"
           /\ \A q \in Proc : q # p =>
                /\ pc'[q] = pc[q] /\ at'[q] = at[q] /\ goal'[q] = goal[q]
                /\ name'[q] = name[q] /\ path'[q] = path[q]
                /\ job'[q] = job[q] /\ bucket'[q] = bucket[q]
                /\ result'[q] = result[q]
<1> USE DEF Types, table, scripts, locals, Set, Look, Present, Absent, Walks
<1>1. CASE Request(p)
  BY <1>1 DEF Request
<1>2. CASE Walk(p)
  BY <1>2 DEF Walk
<1>3. CASE FindMatch(p)
  BY <1>3 DEF FindMatch
<1>4. CASE FindFollow(p)
  BY <1>4 DEF FindFollow
<1>5. CASE FindData(p)
  BY <1>5 DEF FindData
<1>6. CASE Open(p)
  BY <1>6 DEF Open
<1>7. CASE OpenFound(p)
  BY <1>7 DEF OpenFound
<1>8. CASE OpenNew(p)
  BY <1>8 DEF OpenNew
<1>9. CASE Check(p)
  BY <1>9 DEF Check, Compile
<1>10. CASE NotCached(p)
  BY <1>10 DEF NotCached
<1>11. CASE Corrupt(p)
  BY <1>11 DEF Corrupt, Compile
<1>12. CASE LockAdd(p)
  BY <1>12 DEF LockAdd
<1>13. CASE LockStore(p)
  BY <1>13 DEF LockStore
<1>14. CASE Recheck(p)
  BY <1>14 DEF Recheck
<1>15. CASE NoMemory(p)
  BY <1>15 DEF NoMemory
<1>16. CASE Unlock(p)
  BY <1>16 DEF Unlock
<1>17. CASE /\ pc[p] \in {"add", "key"} /\ pc' = [pc EXCEPT ![p] = "unlock"]
             /\ UNCHANGED <<table, scripts, realpath, lock, locals>>
  BY <1>17
<1> QED
  BY <1>1, <1>2, <1>3, <1>4, <1>5, <1>6, <1>7, <1>8, <1>9, <1>10, <1>11,
     <1>12, <1>13, <1>14, <1>15, <1>16, <1>17 DEF Quiet

-----------------------------------------------------------------------------
(* What is in hand stays right as long as the entries keep their keys.     *)

LEMMA FileStays ==
    ASSUME Inv, FilesInv, NEW q \in Proc,
           /\ pc'[q] = pc[q] /\ at'[q] = at[q] /\ goal'[q] = goal[q]
           /\ name'[q] = name[q] /\ path'[q] = path[q]
           /\ job'[q] = job[q] /\ bucket'[q] = bucket[q]
           /\ result'[q] = result[q],
           \A e \in 1..num_entries :
               /\ hash_entries'[e].key = hash_entries[e].key
               /\ hash_entries'[e].indirect = hash_entries[e].indirect,
           \A s \in Script : full_path[s] # NoPath =>
               full_path'[s] = full_path[s],
           \A r \in Name \ Moving : realpath'[r] = realpath[r]
    PROVE  HasFile(q)'
<1>1. /\ pc[q] # "idle" => name[q] \in Name
      /\ pc[q] \in {"follow", "data"} => at[q] \in 1..num_entries
      /\ \/ pc[q] \in {"add", "key", "publish"}
         \/ pc[q] = "lock" /\ job[q] = "add"
         => bucket[q] \in 1..num_entries
  BY Constants DEF Inv, Types, Point
<1>2. ASSUME pc[q] # "idle", NEW r, Means(q, r) PROVE Means(q, r)'
  BY <1>1, <1>2 DEF Means
<1>3. ASSUME pc[q] # "idle", HasScript(q) PROVE HasScript(q)'
  <2>1. CASE name[q] \in Moving
    BY <1>3, <2>1 DEF HasScript, Means
  <2>2. CASE name[q] \notin Moving
    <3>1. full_path[result[q]] = realpath[name[q]] /\ result[q] \in Script
      BY <1>3, <2>2 DEF HasScript, Means
    <3>2. realpath[name[q]] # NoPath /\ name[q] \in Name \ Moving
      BY <1>1, <1>3, <2>2, Constants DEF Inv, Types
    <3>3. full_path'[result[q]] = realpath'[name[q]]
      BY <3>1, <3>2
    <3> QED
      BY <3>1, <3>3 DEF HasScript, Means
  <2> QED
    BY <2>1, <2>2
<1>4. HasFile(q)
  BY DEF FilesInv
<1>5. pc[q] = "data" => Means(q, hash_entries[at[q]].key)'
  BY <1>1, <1>4 DEF HasFile, Means
<1>6. pc[q] # "idle" /\ path[q] # NoPath => Means(q, path[q])'
  BY <1>1, <1>4 DEF HasFile, Means
<1>7. \/ pc[q] = "check"
      \/ pc[q] \in Locked \cup {"lock"} /\ job[q] = "add"
      => HasScript(q)'
  BY <1>3, <1>4 DEF HasFile, Locked
<1> QED
  BY <1>1, <1>4, <1>5, <1>6, <1>7 DEF HasFile

LEMMA QuietKeepsFiles ==
    ASSUME Inv, FilesInv, NEW p \in Proc, Quiet(p), HasFile(p)'
    PROVE  FilesInv'
<1>1. /\ hash_entries' = hash_entries /\ num_entries' = num_entries
      /\ full_path' = full_path /\ realpath' = realpath
      /\ \A q \in Proc : q # p =>
           /\ pc'[q] = pc[q] /\ at'[q] = at[q] /\ goal'[q] = goal[q]
           /\ name'[q] = name[q] /\ path'[q] = path[q]
           /\ job'[q] = job[q] /\ bucket'[q] = bucket[q]
           /\ result'[q] = result[q]
  BY QuietChanges DEF Inv
<1>2. Files'
  BY <1>1 DEF FilesInv, Files, Target
<1>3. ASSUME NEW q \in Proc PROVE HasFile(q)'
  <2>1. CASE q = p
    BY <2>1
  <2>2. CASE q # p
    BY <1>1, <2>2, FileStays
  <2> QED
    BY <2>1, <2>2
<1> QED
  BY <1>2, <1>3 DEF FilesInv

\* What a lookup without the lock finds, and what is kept for later.
LEMMA QuietFiles ==
    ASSUME Inv, FilesInv, NEW p \in Proc, Quiet(p)
    PROVE  FilesInv'
<1> USE DEF Set, Look, Present, Absent, Nil
<1>1. /\ hash_entries' = hash_entries /\ num_entries' = num_entries
      /\ full_path' = full_path /\ realpath' = realpath
  BY QuietChanges DEF Inv
<1>2. HasFile(p) /\ Files
  BY DEF FilesInv
<1>3. pc[p] # "idle" =>
        /\ name[p] \in Name /\ realpath[name[p]] \in Path
        /\ realpath[name[p]] # NoPath
  BY Constants DEF Inv, Types, Point
<1>4. at[p] # 0 => at[p] \in 1..num_entries
  BY Constants DEF Inv, Types
<1>5. \A r, s : /\ name'[p] = name[p] => (Means(p, r)' <=> Means(p, r))
                /\ Means(p, realpath[name[p]])
  BY <1>1 DEF Means
<1>6. name'[p] = name[p] /\ result'[p] = result[p] =>
        (HasScript(p)' <=> HasScript(p))
  BY <1>1 DEF HasScript, Means
<1>a. CASE Request(p)
  <2>1. pc'[p] = "find" /\ path'[p] = NoPath
    BY <1>a DEF Request, Inv, Types
  <2> QED
    BY <1>a, <2>1, QuietKeepsFiles DEF Quiet, HasFile, Locked
<1>b. CASE Walk(p)
  <2>1. /\ pc[p] \in Walks /\ pc' = pc /\ job' = job /\ name' = name
        /\ path' = path /\ bucket' = bucket /\ result' = result
    BY <1>b DEF Walk
  <2>2. HasFile(p)'
    BY <2>1, <1>1, <1>2, <1>5, <1>6 DEF HasFile, Walks
  <2> QED
    BY <1>b, <2>2, QuietKeepsFiles DEF Quiet
<1>c. CASE FindMatch(p)
  <2>1. /\ pc[p] = "find" /\ at[p] \in 1..num_entries
        /\ hash_entries[at[p]].key = goal[p] /\ goal[p] = name[p]
        /\ UNCHANGED <<job, name, path, at, bucket, result>>
        /\ pc'[p] = IF hash_entries[at[p]].indirect THEN "follow" ELSE "data"
    BY <1>c, <1>4 DEF FindMatch, locals, Inv, Search, Types
  <2>2. ~hash_entries[at[p]].indirect =>
          hash_entries[at[p]].key = realpath[name[p]]
    BY <2>1, <1>2 DEF Files
  <2>3. HasFile(p)'
    BY <2>1, <2>2, <1>1, <1>2, <1>5, <1>6 DEF HasFile, Locked
  <2> QED
    BY <1>c, <2>3, QuietKeepsFiles DEF Quiet
<1>d. CASE FindFollow(p)
  <2>1. /\ pc[p] = "follow" /\ at[p] \in 1..num_entries
        /\ hash_entries[at[p]].indirect /\ hash_entries[at[p]].key = name[p]
    BY <1>d, <1>2, <1>4 DEF FindFollow, HasFile, Inv, Point
  <2>2. /\ UNCHANGED <<job, name, path, bucket, result>>
        /\ pc'[p] = "data" /\ at'[p] = hash_entries[at[p]].data
    BY <1>d DEF FindFollow, Inv, Types
  <2>3. /\ ~hash_entries[at'[p]].indirect
        /\ Means(p, hash_entries[at'[p]].key)
    BY <2>1, <2>2, <1>2 DEF Files, Target, Means
  <2>4. HasFile(p)'
    BY <2>1, <2>2, <2>3, <1>1, <1>2, <1>5 DEF HasFile, Locked
  <2> QED
    BY <1>d, <2>4, QuietKeepsFiles DEF Quiet
<1>e. CASE FindData(p)
  <2>1. /\ pc[p] = "data" /\ at[p] \in 1..num_entries
        /\ ~hash_entries[at[p]].indirect /\ Means(p, hash_entries[at[p]].key)
    BY <1>e, <1>2, <1>4 DEF FindData, HasFile, Inv, Point
  <2>2. /\ UNCHANGED <<job, name, path, bucket, at>>
        /\ pc'[p] = "check" /\ result'[p] = hash_entries[at[p]].data
    BY <1>e DEF FindData, Inv, Types
  <2>3. HasScript(p)'
    BY <2>1, <2>2, <1>1, <1>2 DEF Files, HasScript, Means
  <2>4. HasFile(p)'
    BY <2>1, <2>2, <2>3, <1>1, <1>2, <1>5 DEF HasFile, Locked
  <2> QED
    BY <1>e, <2>4, QuietKeepsFiles DEF Quiet
<1>f. CASE Open(p)
  <2>1. /\ UNCHANGED <<job, name, bucket, result>>
        /\ pc'[p] = "open" /\ path'[p] = realpath[name[p]]
    BY <1>f DEF Open, Inv, Types
  <2>2. HasFile(p)'
    BY <2>1, <1>1, <1>5 DEF HasFile, Locked
  <2> QED
    BY <1>f, <2>2, QuietKeepsFiles DEF Quiet
<1>g. CASE OpenFound(p)
  <2>1. /\ pc[p] = "open" /\ at[p] \in 1..num_entries
        /\ hash_entries[at[p]].key = path[p] /\ path[p] \in Path
    BY <1>g, <1>4 DEF OpenFound, Inv, Search, Point
  <2>2. ~hash_entries[at[p]].indirect /\ Direct(at[p]) = at[p]
    BY <2>1, <1>2 DEF Files, Direct
  <2>3. /\ UNCHANGED <<name, path, at>> /\ pc'[p] = "lock"
        /\ bucket'[p] = at[p] /\ result'[p] = hash_entries[at[p]].data
    BY <1>g, <2>2 DEF OpenFound, Inv, Types
  <2>4. hash_entries[at[p]].data \in Script /\
        full_path[hash_entries[at[p]].data] = path[p]
    BY <2>1, <2>2, <1>2 DEF Files
  <2>5. Means(p, path[p])
    BY <2>1, <1>2, Constants DEF HasFile
  <2>6. HasScript(p)'
    BY <2>3, <2>4, <2>5, <1>1 DEF HasScript, Means
  <2>7. HasFile(p)'
    BY <2>1, <2>2, <2>3, <2>5, <2>6, <1>1, <1>5 DEF HasFile
  <2> QED
    BY <1>g, <2>7, QuietKeepsFiles DEF Quiet
<1>h. CASE OpenNew(p)
  <2>1. /\ pc[p] = "open" /\ pc'[p] = "lock" /\ job'[p] = "store"
        /\ UNCHANGED <<name, path>>
    BY <1>h DEF OpenNew, Inv, Types
  <2>2. HasFile(p)'
    BY <2>1, <1>1, <1>2, <1>5 DEF HasFile
  <2> QED
    BY <1>h, <2>2, QuietKeepsFiles DEF Quiet
<1>i. CASE Check(p)
  <2>1. /\ pc[p] = "check" /\ UNCHANGED name
        /\ \/ pc'[p] = "lock" /\ job'[p] \in {"store", "corrupt"}
           \/ pc'[p] = "idle"
        /\ path'[p] \in {path[p], realpath[name[p]]}
    BY <1>i DEF Check, Compile, Inv, Types
  <2>2. HasFile(p)'
    BY <2>1, <1>1, <1>2, <1>5 DEF HasFile, Locked
  <2> QED
    BY <1>i, <2>2, QuietKeepsFiles DEF Quiet
<1>j. CASE NotCached(p)
  <2>1. pc'[p] = "idle"
    BY <1>j DEF NotCached, Inv, Types
  <2>2. HasFile(p)'
    BY <2>1 DEF HasFile, Locked
  <2> QED
    BY <1>j, <2>2, QuietKeepsFiles DEF Quiet
<1>k. CASE Corrupt(p)
  <2>1. /\ pc[p] = "lock" /\ UNCHANGED <<name, pc>> /\ job'[p] = "store"
        /\ path'[p] \in {path[p], realpath[name[p]]}
    BY <1>k DEF Corrupt, Compile, Inv, Types
  <2>2. HasFile(p)'
    BY <2>1, <1>1, <1>2, <1>5 DEF HasFile
  <2> QED
    BY <1>k, <2>2, QuietKeepsFiles DEF Quiet
<1>l. CASE LockAdd(p)
  <2>1. /\ pc[p] = "lock" /\ job[p] = "add" /\ pc'[p] = "add"
        /\ UNCHANGED <<job, name, path, bucket, result>>
    BY <1>l DEF LockAdd, Inv, Types
  <2>2. HasFile(p)'
    BY <2>1, <1>1, <1>2, <1>5, <1>6 DEF HasFile, Locked
  <2> QED
    BY <1>l, <2>2, QuietKeepsFiles DEF Quiet
<1>m. CASE LockStore(p)
  <2>1. /\ pc[p] = "lock" /\ job'[p] = "store"
        /\ pc'[p] \in {"recheck", "unlock"}
        /\ UNCHANGED <<job, name, path>>
    BY <1>m DEF LockStore, Inv, Types
  <2>2. HasFile(p)'
    BY <2>1, <1>1, <1>2, <1>5 DEF HasFile, Locked
  <2> QED
    BY <1>m, <2>2, QuietKeepsFiles DEF Quiet
<1>n. CASE Recheck(p)
  <2>1. /\ pc[p] = "recheck" /\ at[p] \in 1..num_entries
        /\ hash_entries[at[p]].key = path[p] /\ path[p] \in Path
    BY <1>n, <1>4 DEF Recheck, Inv, Search, Point, Locked
  <2>2. ~hash_entries[at[p]].indirect /\ Direct(at[p]) = at[p]
    BY <2>1, <1>2 DEF Files, Direct
  <2>3. /\ UNCHANGED <<name, path, result>> /\ bucket'[p] = at[p]
        /\ \/ pc'[p] = "add" /\ job'[p] = "link"
           \/ pc'[p] = "unlock" /\ job' = job
    BY <1>n, <2>2 DEF Recheck, Inv, Types
  <2>4. HasFile(p)'
    BY <2>1, <2>2, <2>3, <1>1, <1>2, <1>5, <1>6 DEF HasFile, Locked
  <2> QED
    BY <1>n, <2>4, QuietKeepsFiles DEF Quiet
<1>o. CASE NoMemory(p)
  <2>1. /\ pc[p] = "recheck" /\ pc'[p] = "unlock"
        /\ UNCHANGED <<job, name, path, bucket, result>>
    BY <1>o DEF NoMemory, locals, Inv, Types
  <2>2. HasFile(p)'
    BY <2>1, <1>1, <1>2, <1>5, <1>6 DEF HasFile, Locked
  <2> QED
    BY <1>o, <2>2, QuietKeepsFiles DEF Quiet
<1>p. CASE Unlock(p)
  <2>1. /\ pc[p] = "unlock"
        /\ pc'[p] = IF job[p] = "add" THEN "check" ELSE "idle"
        /\ UNCHANGED <<job, name, path, bucket, result>>
    BY <1>p DEF Unlock, locals, Inv, Types
  <2>2. HasFile(p)'
    BY <2>1, <1>1, <1>2, <1>5, <1>6 DEF HasFile, Locked
  <2> QED
    BY <1>p, <2>2, QuietKeepsFiles DEF Quiet
<1>q. CASE /\ pc[p] \in {"add", "key"} /\ pc' = [pc EXCEPT ![p] = "unlock"]
           /\ UNCHANGED <<table, scripts, realpath, lock, locals>>
  <2>1. /\ pc[p] \in {"add", "key"} /\ pc'[p] = "unlock"
        /\ UNCHANGED <<job, name, path, bucket, result>>
    BY <1>q DEF locals, Inv, Types
  <2>2. HasFile(p)'
    BY <2>1, <1>1, <1>2, <1>5, <1>6 DEF HasFile, Locked
  <2> QED
    BY <1>q, <2>2, QuietKeepsFiles DEF Quiet
<1> QED
  BY <1>a, <1>b, <1>c, <1>d, <1>e, <1>f, <1>g, <1>h, <1>i, <1>j, <1>k, <1>l,
     <1>m, <1>n, <1>o, <1>p, <1>q DEF Quiet

\* A direct entry is where it leads to.
LEMMA FollowDirect ==
    ASSUME NEW b \in 1..num_entries, ~hash_entries[b].indirect,
           NEW e \in Follow(b)
    PROVE  e = b
<1>1. {b} \in SUBSET (1..num_entries)
  OBVIOUS
<1>2. \A f \in {b} : hash_entries[f].indirect => hash_entries[f].data \in {b}
  OBVIOUS
<1> QED
  BY <1>1, <1>2 DEF Follow

\* A new entry: the one of a path has a script that was not stored before, the
\* one of a key leads to the entry of its file.
LEMMA FillKeepsFiles ==
    ASSUME Inv, FilesInv, NEW p \in Proc, lock = p,
           pc[p] \in {"recheck", "add", "key"},
           NEW n \in Name, NEW i \in BOOLEAN, NEW d, Fill(p, n, i, d),
           n \in Path <=> ~i,
           ~i => d \in Script /\ full_path'[d] = n,
           i => /\ d \in 1..num_entries /\ ~hash_entries[d].indirect
                /\ n \notin Moving => hash_entries[d].key = realpath[n],
           \A s \in Script : full_path[s] # NoPath => full_path'[s] = full_path[s],
           \A q \in Proc : q # p => bucket'[q] = bucket[q],
           bucket'[p] \in 1..num_entries',
           ~hash_entries'[bucket'[p]].indirect,
           hash_entries'[bucket'[p]].key = path[p],
           UNCHANGED <<corrupted, realpath, lock, job, name, path, result>>
    PROVE  FilesInv'
<1>1. /\ num_entries \in Nat /\ num_entries' = num_entries + 1
      /\ goal' = goal /\ at' = [at EXCEPT ![p] = num_entries + 1]
      /\ pc' = [pc EXCEPT ![p] = "publish"]
  BY Constants DEF Inv, Types, Fill, Set
<1>2. /\ hash_entries'[num_entries + 1] =
             [key |-> n, next |-> hash_table[Slot[n]], data |-> d,
              indirect |-> i]
      /\ \A e \in 1..num_entries : hash_entries'[e] = hash_entries[e]
  BY <1>1 DEF Fill
<1>3. \A e \in 1..num_entries : hash_entries[e].key \in Path =>
         /\ hash_entries[e].data \in Script
         /\ full_path'[hash_entries[e].data] = hash_entries[e].key
  BY Constants DEF FilesInv, Files
<1>4. Files'
  <2>1. \A q \in Path : realpath'[q] = q
    BY DEF FilesInv, Files
  <2>2. ASSUME NEW e \in 1..num_entries'
        PROVE  /\ hash_entries'[e].key \in Path <=> ~hash_entries'[e].indirect
               /\ ~hash_entries'[e].indirect =>
                    /\ hash_entries'[e].data \in Script
                    /\ full_path'[hash_entries'[e].data] = hash_entries'[e].key
               /\ hash_entries'[e].indirect =>
                    ~hash_entries'[hash_entries'[e].data].indirect
               /\ hash_entries'[e].key \notin Moving =>
                    hash_entries'[Target(e)'].key = realpath'[hash_entries'[e].key]
    <3>1. CASE e = num_entries + 1
      <4>1. CASE i
        BY <3>1, <4>1, <1>1, <1>2 DEF Target
      <4>2. CASE ~i
        BY <3>1, <4>2, <1>1, <1>2, <2>1 DEF Target
      <4> QED
        BY <4>1, <4>2
    <3>2. CASE e \in 1..num_entries
      <4>1. hash_entries[e].indirect => hash_entries[e].data \in 1..num_entries
        BY <3>2 DEF Inv, Data
      <4>2. Target(e)' = Target(e) /\ Target(e) \in 1..num_entries
        BY <3>2, <4>1, <1>2 DEF Target
      <4>3. hash_entries'[e] = hash_entries[e]
            /\ hash_entries'[Target(e)] = hash_entries[Target(e)]
        BY <3>2, <4>2, <1>2
      <4>4. hash_entries[e].indirect =>
              ~hash_entries'[hash_entries[e].data].indirect
        BY <3>2, <4>1, <1>2 DEF FilesInv, Files
      <4> QED
        BY <3>2, <4>2, <4>3, <4>4, <1>3 DEF FilesInv, Files
    <3> QED
      BY <3>1, <3>2, <1>1
  <2> QED
    BY <2>1, <2>2 DEF Files
<1>5. ASSUME NEW q \in Proc PROVE HasFile(q)'
  <2>1. CASE q = p
    <3>1. path[p] # NoPath => Means(p, path[p])'
      BY Constants DEF FilesInv, HasFile, Means
    <3>2. job[p] = "add" => HasScript(p)'
      <4> SUFFICES ASSUME job[p] = "add" PROVE HasScript(p)'
        OBVIOUS
      <4>1. result[p] \in Script /\ Means(p, full_path[result[p]])
        BY DEF FilesInv, HasFile, HasScript, Locked
      <4>2. name[p] \in Name
        BY Owner DEF Locked
      <4>3. name[p] \notin Moving => full_path'[result[p]] = realpath[name[p]]
        BY <4>1, <4>2, Constants DEF Means, Inv, Types
      <4> QED
        BY <4>1, <4>3 DEF HasScript, Means
    <3> QED
      BY <2>1, <3>1, <3>2, <1>1 DEF HasFile, Inv, Types
  <2>2. CASE q # p
    <3>1. /\ pc'[q] = pc[q] /\ at'[q] = at[q] /\ goal'[q] = goal[q]
          /\ name'[q] = name[q] /\ path'[q] = path[q]
          /\ job'[q] = job[q] /\ bucket'[q] = bucket[q]
          /\ result'[q] = result[q]
      BY <2>2, <1>1 DEF Inv, Types
    <3> QED
      BY <3>1, <1>2, FileStays
  <2> QED
    BY <2>1, <2>2
<1> QED
  BY <1>4, <1>5 DEF FilesInv

\* The key that is entered is not a path: its file would have been found.
LEMMA NewKey ==
    ASSUME Inv, FilesInv, OnlyKeysMove, NEW p \in Proc,
           pc[p] \in {"add", "key"}, at[p] = 0 \/ pc[p] = "key"
    PROVE  /\ name[p] \in Name /\ name[p] \notin Path
           /\ path[p] \in Path /\ bucket[p] \in 1..num_entries
           /\ ~hash_entries[bucket[p]].indirect
           /\ hash_entries[bucket[p]].key = path[p]
           /\ name[p] \notin Moving => path[p] = realpath[name[p]]
<1>1. /\ name[p] \in Name /\ path[p] \in Path /\ path[p] # NoPath
      /\ bucket[p] \in 1..num_entries
  <2>1. name[p] \in Name /\ path[p] \in Path
    BY Owner DEF Locked
  <2>2. bucket[p] # 0 /\ bucket[p] \in 0..num_entries /\ num_entries \in Nat
    BY Constants DEF Inv, Point, Types
  <2> QED
    BY <2>1, <2>2, Constants
<1>2. /\ ~hash_entries[bucket[p]].indirect
      /\ hash_entries[bucket[p]].key = path[p]
      /\ pc[p] = "key" => name[p] # path[p]
      /\ name[p] \notin Moving => path[p] = realpath[name[p]]
  BY <1>1 DEF FilesInv, HasFile, Means
<1>3. name[p] \in Path => path[p] = name[p]
  BY <1>1, <1>2, Constants DEF OnlyKeysMove, FilesInv, Files
<1>4. ASSUME pc[p] = "add", at[p] = 0 PROVE hash_entries[bucket[p]].key # name[p]
  <2>1. \A f \in 1..num_entries : hash_entries[f].key # goal[p] /\
        goal[p] = name[p]
    BY <1>4, Constants DEF Inv, Search, Types
  <2> QED
    BY <1>1, <2>1
<1> QED
  BY <1>1, <1>2, <1>3, <1>4

LEMMA AddKeyFiles ==
    ASSUME OnlyKeysMove, Inv, FilesInv, NEW p \in Proc, AddKey(p)
    PROVE  FilesInv'
<1>1. pc[p] = "add"
  BY DEF AddKey, Present, Absent
<1>2. CASE pc' = Set(pc, p, "unlock") /\ UNCHANGED <<table, goal, at>>
  <2>1. Quiet(p)
    BY <1>1, <1>2 DEF AddKey, Set, locals, Quiet
  <2> QED
    BY <2>1, QuietFiles
<1>3. CASE /\ Absent(p, "add")
           /\ \E e \in Follow(bucket[p]) : Fill(p, name[p], TRUE, e)
  <2>1. PICK e \in Follow(bucket[p]) : Fill(p, name[p], TRUE, e)
    BY <1>3
  <2>2. /\ name[p] \in Name /\ name[p] \notin Path
        /\ path[p] \in Path /\ bucket[p] \in 1..num_entries
        /\ ~hash_entries[bucket[p]].indirect
        /\ hash_entries[bucket[p]].key = path[p]
        /\ name[p] \notin Moving => path[p] = realpath[name[p]]
    BY <1>1, <1>3, NewKey DEF Absent, Nil
  <2>3. e = bucket[p]
    BY <2>1, <2>2, FollowDirect
  <2>4. /\ bucket' = bucket /\ full_path' = full_path
        /\ UNCHANGED <<corrupted, realpath, lock, job, name, path, result>>
    BY DEF AddKey, scripts
  <2>5. /\ bucket'[p] \in 1..num_entries'
        /\ hash_entries'[bucket'[p]] = hash_entries[bucket[p]]
    BY <2>1, <2>2, <2>4, Constants DEF Fill, Inv, Types
  <2>6. lock = p
    BY <1>1, Owner DEF Locked
  <2> QED
    BY <1>1, <2>1, <2>2, <2>3, <2>4, <2>5, <2>6, FillKeepsFiles
<1> QED
  BY <1>2, <1>3 DEF AddKey

LEMMA StoreNewFiles ==
    ASSUME Inv, FilesInv, NEW p \in Proc, StoreNew(p)
    PROVE  FilesInv'
<1>1. pc[p] = "recheck" /\ lock = p /\ path[p] \in Path /\ path[p] \in Name
  BY Owner, Constants DEF StoreNew, Absent, Locked
<1>2. PICK s \in Script : /\ full_path[s] = NoPath
                          /\ full_path' = [full_path EXCEPT ![s] = path[p]]
                          /\ Fill(p, path[p], FALSE, s)
  BY DEF StoreNew, Set
<1>3. bucket' = [bucket EXCEPT ![p] = num_entries + 1]
  BY DEF StoreNew, Set
<1>4. /\ num_entries' = num_entries + 1 /\ num_entries \in Nat
      /\ hash_entries'[num_entries + 1] =
             [key |-> path[p], next |-> hash_table[Slot[path[p]]],
              data |-> s, indirect |-> FALSE]
  BY <1>2, Constants DEF Fill, Inv, Types
<1>5. /\ bucket'[p] = num_entries + 1 /\ num_entries + 1 \in 1..num_entries'
      /\ \A q \in Proc : q # p => bucket'[q] = bucket[q]
  BY <1>3, <1>4 DEF Inv, Types
<1>6. /\ full_path'[s] = path[p]
      /\ \A r \in Script : full_path[r] # NoPath => full_path'[r] = full_path[r]
  BY <1>2 DEF Inv, Types
<1>7. UNCHANGED <<corrupted, realpath, lock, job, name, path, result>>
  BY DEF StoreNew
<1>8. /\ ~hash_entries'[bucket'[p]].indirect
      /\ hash_entries'[bucket'[p]].key = path[p]
  BY <1>4, <1>5
<1> QED
  BY <1>1, <1>2, <1>5, <1>6, <1>7, <1>8, FillKeepsFiles

\* The entry that gets the new script is the one of its path; nobody has the
\* script yet.
LEMMA StoreAgainEntry ==
    ASSUME Inv, FilesInv, NEW p \in Proc, StoreAgain(p)
    PROVE  /\ at[p] \in 1..num_entries
           /\ hash_entries[at[p]].key = path[p] /\ path[p] \in Path
           /\ ~hash_entries[at[p]].indirect
           /\ \E s \in Script :
                /\ full_path[s] = NoPath
                /\ full_path' = [full_path EXCEPT ![s] = path[p]]
                /\ hash_entries' = [hash_entries EXCEPT ![at[p]].data = s]
                /\ \A e \in 1..num_entries :
                     /\ hash_entries'[e].key = hash_entries[e].key
                     /\ hash_entries'[e].next = hash_entries[e].next
                     /\ hash_entries'[e].indirect = hash_entries[e].indirect
                     /\ hash_entries'[e].data =
                            IF e = at[p] THEN s ELSE hash_entries[e].data
<1>1. /\ pc[p] = "recheck" /\ at[p] \in 1..num_entries
      /\ hash_entries[at[p]].key = path[p]
  BY Constants DEF StoreAgain, Present, Nil, Inv, Types, Search
<1>2. path[p] \in Path
  BY <1>1, Owner DEF Locked
<1>3. ~hash_entries[at[p]].indirect
  BY <1>1, <1>2 DEF FilesInv, Files
<1>4. PICK s \in Script :
         /\ full_path[s] = NoPath
         /\ full_path' = [full_path EXCEPT ![s] = path[p]]
         /\ hash_entries' = [hash_entries EXCEPT ![at[p]].data = s]
  BY <1>3 DEF StoreAgain, Set, Replace
<1>5. \A e \in 1..num_entries :
         /\ hash_entries'[e].key = hash_entries[e].key
         /\ hash_entries'[e].next = hash_entries[e].next
         /\ hash_entries'[e].indirect = hash_entries[e].indirect
         /\ hash_entries'[e].data =
                IF e = at[p] THEN s ELSE hash_entries[e].data
  <2>1. Types /\ s \in Script \cup Entry
    BY DEF Inv
  <2> QED
    BY <1>1, <1>4, <2>1, DataUpdate
<1> QED
  BY <1>1, <1>2, <1>3, <1>4, <1>5

LEMMA StoreAgainFiles ==
    ASSUME Inv, FilesInv, NEW p \in Proc, StoreAgain(p)
    PROVE  FilesInv'
<1>1. /\ at[p] \in 1..num_entries
      /\ hash_entries[at[p]].key = path[p] /\ path[p] \in Path
      /\ ~hash_entries[at[p]].indirect
  BY StoreAgainEntry
<1>2. PICK s \in Script :
         /\ full_path[s] = NoPath
         /\ full_path' = [full_path EXCEPT ![s] = path[p]]
         /\ hash_entries' = [hash_entries EXCEPT ![at[p]].data = s]
         /\ \A e \in 1..num_entries :
              /\ hash_entries'[e].key = hash_entries[e].key
              /\ hash_entries'[e].next = hash_entries[e].next
              /\ hash_entries'[e].indirect = hash_entries[e].indirect
              /\ hash_entries'[e].data =
                     IF e = at[p] THEN s ELSE hash_entries[e].data
  BY StoreAgainEntry
<1>3. /\ num_entries' = num_entries /\ realpath' = realpath /\ lock' = lock
      /\ job' = job /\ name' = name /\ path' = path /\ result' = result
      /\ bucket' = [bucket EXCEPT ![p] = at[p]]
      /\ pc[p] = "recheck"
      /\ \/ name[p] # path[p] /\ pc' = [pc EXCEPT ![p] = "key"]
         \/ pc' = [pc EXCEPT ![p] = "unlock"]
      /\ \A q \in Proc : q # p => at'[q] = at[q] /\ goal'[q] = goal[q]
  BY DEF StoreAgain, Set, Present, AfterStore, Look, Inv, Types
<1>4. /\ full_path'[s] = path[p]
      /\ \A r \in Script : full_path[r] # NoPath => full_path'[r] = full_path[r]
  BY <1>2 DEF Inv, Types
<1>5. Files'
  <2>1. \A q \in Path : realpath'[q] = q
    BY <1>3 DEF FilesInv, Files
  <2>2. ASSUME NEW e \in 1..num_entries
        PROVE  /\ hash_entries'[e].key \in Path <=> ~hash_entries'[e].indirect
               /\ ~hash_entries'[e].indirect =>
                    /\ hash_entries'[e].data \in Script
                    /\ full_path'[hash_entries'[e].data] = hash_entries'[e].key
               /\ hash_entries'[e].indirect =>
                    ~hash_entries'[hash_entries'[e].data].indirect
               /\ hash_entries'[e].key \notin Moving =>
                    hash_entries'[Target(e)'].key =
                        realpath'[hash_entries'[e].key]
    <3>1. hash_entries[e].indirect => hash_entries[e].data \in 1..num_entries
      BY DEF Inv, Data
    <3>2. Target(e)' = Target(e) /\ Target(e) \in 1..num_entries
      BY <1>1, <1>2, <3>1 DEF Target
    <3>3. /\ hash_entries[e].key \in Path <=> ~hash_entries[e].indirect
          /\ ~hash_entries[e].indirect =>
               /\ hash_entries[e].data \in Script
               /\ full_path[hash_entries[e].data] = hash_entries[e].key
               /\ full_path[hash_entries[e].data] # NoPath
          /\ hash_entries[e].indirect =>
               ~hash_entries[hash_entries[e].data].indirect
          /\ hash_entries[e].key \notin Moving =>
               hash_entries[Target(e)].key = realpath[hash_entries[e].key]
      BY Constants DEF FilesInv, Files
    <3>4. CASE e = at[p]
      BY <3>2, <3>3, <3>4, <1>1, <1>2, <1>3, <1>4
    <3>5. CASE e # at[p]
      BY <3>1, <3>2, <3>3, <3>5, <1>2, <1>3, <1>4
    <3> QED
      BY <3>4, <3>5
  <2> QED
    BY <2>1, <2>2, <1>3 DEF Files
<1>6. ASSUME NEW q \in Proc PROVE HasFile(q)'
  <2>1. CASE q = p
    <3>1. path[p] # NoPath => Means(p, path[p])'
      BY <1>3 DEF FilesInv, HasFile, Means
    <3>2. job[p] = "add" => HasScript(p)'
      <4> SUFFICES ASSUME job[p] = "add" PROVE HasScript(p)'
        OBVIOUS
      <4>1. result[p] \in Script /\ Means(p, full_path[result[p]])
        BY <1>3 DEF FilesInv, HasFile, HasScript, Locked
      <4>2. name[p] \in Name
        BY <1>3, Owner DEF Locked
      <4>3. name[p] \notin Moving => full_path'[result[p]] = realpath[name[p]]
        BY <4>1, <4>2, <1>4, Constants DEF Means, Inv, Types
      <4> QED
        BY <4>1, <4>3, <1>3 DEF HasScript, Means
    <3>3. /\ bucket'[p] = at[p] /\ job'[p] = job[p] /\ path'[p] = path[p]
          /\ name'[p] = name[p]
          /\ \/ pc'[p] = "key" /\ name[p] # path[p]
             \/ pc'[p] = "unlock"
      BY <1>3 DEF Inv, Types
    <3> QED
      BY <2>1, <3>1, <3>2, <3>3, <1>1, <1>2 DEF HasFile
  <2>2. CASE q # p
    <3>1. /\ pc'[q] = pc[q] /\ at'[q] = at[q] /\ goal'[q] = goal[q]
          /\ name'[q] = name[q] /\ path'[q] = path[q]
          /\ job'[q] = job[q] /\ bucket'[q] = bucket[q]
          /\ result'[q] = result[q]
      BY <2>2, <1>3 DEF Inv, Types
    <3> QED
      BY <3>1, <1>2, <1>3, <1>4, FileStays
  <2> QED
    BY <2>1, <2>2
<1> QED
  BY <1>5, <1>6 DEF FilesInv

LEMMA PublishFiles ==
    ASSUME Inv, FilesInv, NEW p \in Proc, Publish(p)
    PROVE  FilesInv'
<1>1. /\ hash_entries' = hash_entries /\ num_entries' = num_entries
      /\ full_path' = full_path /\ realpath' = realpath
      /\ job' = job /\ name' = name /\ path' = path /\ result' = result
      /\ bucket' = bucket /\ pc[p] = "publish"
      /\ \/ name[p] # path[p] /\ pc' = [pc EXCEPT ![p] = "key"]
         \/ pc' = [pc EXCEPT ![p] = "unlock"]
      /\ \A q \in Proc : q # p => at'[q] = at[q] /\ goal'[q] = goal[q]
  BY DEF Publish, scripts, Set, Inv, Types
<1>2. Files'
  BY <1>1 DEF FilesInv, Files, Target
<1>3. ASSUME NEW q \in Proc PROVE HasFile(q)'
  <2>1. CASE q = p
    <3>1. \/ pc'[p] = "key" /\ name[p] # path[p]
          \/ pc'[p] = "unlock"
      BY <1>1 DEF Inv, Types
    <3>2. HasFile(p)
      BY DEF FilesInv
    <3>3. /\ path[p] # NoPath => Means(p, path[p])'
          /\ job[p] = "add" => HasScript(p)'
      BY <3>2, <1>1 DEF HasFile, HasScript, Means, Locked
    <3> QED
      BY <2>1, <3>1, <3>2, <3>3, <1>1 DEF HasFile
  <2>2. CASE q # p
    <3>1. pc'[q] = pc[q]
      BY <2>2, <1>1 DEF Inv, Types
    <3> QED
      BY <2>2, <3>1, <1>1, FileStays
  <2> QED
    BY <2>1, <2>2
<1> QED
  BY <1>2, <1>3 DEF FilesInv

\* A key that has an entry is linked to the entry of its file; the entry was
\* indirect before.
LEMMA RelinkFiles ==
    ASSUME OnlyKeysMove, Inv, FilesInv, NEW p \in Proc, Present(p, "key"),
           Relink(p, bucket[p]),
           UNCHANGED <<hash_table, num_entries, goal, at, scripts, realpath,
                       lock, job, name, path, bucket, result>>
    PROVE  /\ FilesInv'
           /\ at[p] \in 1..num_entries /\ bucket[p] \in 1..num_entries
           /\ hash_entries[at[p]].key = name[p] /\ name[p] \in Key
           /\ hash_entries[bucket[p]].key \in Path
           /\ pc[p] = "key" /\ pc' = [pc EXCEPT ![p] = "unlock"]
           /\ \A e \in 1..num_entries :
                /\ hash_entries'[e].key = hash_entries[e].key
                /\ hash_entries'[e].indirect = hash_entries[e].indirect
                /\ hash_entries'[e].data =
                       IF e = at[p] THEN bucket[p] ELSE hash_entries[e].data
<1> DEFINE a == at[p]
           b == bucket[p]
<1>1. /\ pc[p] = "key" /\ a \in 1..num_entries
      /\ hash_entries[a].key = name[p]
  BY Constants DEF Present, Nil, Inv, Types, Search
<1>2. /\ name[p] \in Name /\ name[p] \notin Path
      /\ path[p] \in Path /\ b \in 1..num_entries
      /\ ~hash_entries[b].indirect /\ hash_entries[b].key = path[p]
      /\ name[p] \notin Moving => path[p] = realpath[name[p]]
  BY <1>1, NewKey
<1>3. hash_entries[a].indirect /\ name[p] \in Key
  BY <1>1, <1>2 DEF FilesInv, Files, Name
<1>4. \A e \in 1..num_entries :
         /\ hash_entries'[e].key = hash_entries[e].key
         /\ hash_entries'[e].indirect = hash_entries[e].indirect
         /\ hash_entries'[e].data = IF e = a THEN b ELSE hash_entries[e].data
  <2>1. hash_entries' = [hash_entries EXCEPT ![a].data = b]
    BY DEF Relink
  <2>2. num_entries \in 0..Size /\ b \in 1..num_entries
    BY <1>2 DEF Inv, Types
  <2>3. Types /\ b \in Script \cup Entry
    BY <2>2, Constants DEF Inv
  <2> HIDE DEF a, b
  <2> QED
    BY <1>1, <2>1, <2>3, DataUpdate
<1>5. pc' = [pc EXCEPT ![p] = "unlock"]
  BY <1>3 DEF Relink, Set
<1> HIDE DEF a, b
<1>6. Files'
  <2>1. \A q \in Path : realpath'[q] = q
    BY DEF FilesInv, Files
  <2>2. ASSUME NEW e \in 1..num_entries
        PROVE  /\ hash_entries'[e].key \in Path <=> ~hash_entries'[e].indirect
               /\ ~hash_entries'[e].indirect =>
                    /\ hash_entries'[e].data \in Script
                    /\ full_path'[hash_entries'[e].data] = hash_entries'[e].key
               /\ hash_entries'[e].indirect =>
                    ~hash_entries'[hash_entries'[e].data].indirect
               /\ hash_entries'[e].key \notin Moving =>
                    hash_entries'[Target(e)'].key =
                        realpath'[hash_entries'[e].key]
    <3>1. /\ hash_entries[e].indirect => hash_entries[e].data \in 1..num_entries
          /\ hash_entries[e].key \in Path <=> ~hash_entries[e].indirect
          /\ ~hash_entries[e].indirect =>
               /\ hash_entries[e].data \in Script
               /\ full_path[hash_entries[e].data] = hash_entries[e].key
          /\ hash_entries[e].indirect =>
               ~hash_entries[hash_entries[e].data].indirect
          /\ hash_entries[e].key \notin Moving =>
               hash_entries[Target(e)].key = realpath[hash_entries[e].key]
      BY DEF FilesInv, Files, Inv, Data
    <3>2. full_path' = full_path /\ realpath' = realpath
      BY DEF scripts
    <3>3. CASE e = a
      <4>1. Target(e)' = b
        BY <3>3, <1>1, <1>3, <1>4 DEF Target
      <4> QED
        BY <3>1, <3>2, <3>3, <4>1, <1>1, <1>2, <1>3, <1>4
    <3>4. CASE e # a
      <4>1. Target(e)' = Target(e) /\ Target(e) \in 1..num_entries
        BY <3>1, <3>4, <1>4 DEF Target
      <4> QED
        BY <3>1, <3>2, <3>4, <4>1, <1>4
    <3> QED
      BY <3>3, <3>4
  <2> QED
    BY <2>1, <2>2 DEF Files
<1>7. ASSUME NEW q \in Proc PROVE HasFile(q)'
  <2>1. CASE q = p
    <3>1. HasFile(p)
      BY DEF FilesInv
    <3>2. /\ path[p] # NoPath => Means(p, path[p])'
          /\ job[p] = "add" => HasScript(p)'
      BY <3>1, <1>1 DEF HasFile, HasScript, Means, Locked, scripts
    <3> QED
      BY <2>1, <3>2, <1>5 DEF HasFile, Inv, Types
  <2>2. CASE q # p
    <3>1. pc'[q] = pc[q]
      BY <2>2, <1>5 DEF Inv, Types
    <3> QED
      BY <2>2, <3>1, <1>4, FileStays DEF scripts
  <2> QED
    BY <2>1, <2>2
<1>8. FilesInv'
  BY <1>6, <1>7 DEF FilesInv
<1>9. /\ at[p] \in 1..num_entries /\ bucket[p] \in 1..num_entries
      /\ hash_entries[at[p]].key = name[p] /\ name[p] \in Key
      /\ hash_entries[bucket[p]].key \in Path
  BY <1>1, <1>2, <1>3 DEF a, b
<1> QED
  BY <1>1, <1>4, <1>5, <1>8, <1>9 DEF a, b

LEMMA StoreKeyFiles ==
    ASSUME OnlyKeysMove, Inv, FilesInv, NEW p \in Proc, StoreKey(p)
    PROVE  FilesInv'
<1>1. PICK b \in Follow(bucket[p]) :
         \/ Absent(p, "key") /\ Fill(p, name[p], TRUE, b)
         \/ /\ Absent(p, "key") /\ is_full
            /\ pc' = Set(pc, p, "unlock")
            /\ UNCHANGED <<table, goal, at>>
         \/ /\ Present(p, "key")
            /\ Relink(p, b)
            /\ UNCHANGED <<hash_table, num_entries, goal, at>>
  BY DEF StoreKey
<1>2. pc[p] = "key" /\ lock = p
  BY <1>1, Owner DEF Present, Absent, Locked
<1>3. /\ name[p] \in Name /\ name[p] \notin Path
      /\ path[p] \in Path /\ bucket[p] \in 1..num_entries
      /\ ~hash_entries[bucket[p]].indirect
      /\ hash_entries[bucket[p]].key = path[p]
      /\ name[p] \notin Moving => path[p] = realpath[name[p]]
  BY <1>2, NewKey
<1>4. b = bucket[p]
  BY <1>3, FollowDirect
<1>5. /\ UNCHANGED <<scripts, realpath, lock, job, name, path, bucket, result>>
      /\ bucket' = bucket /\ full_path' = full_path
      /\ UNCHANGED <<corrupted, realpath, lock, job, name, path, result>>
  BY DEF StoreKey, scripts
<1>6. CASE Absent(p, "key") /\ Fill(p, name[p], TRUE, b)
  <2>1. /\ bucket'[p] \in 1..num_entries'
        /\ hash_entries'[bucket'[p]] = hash_entries[bucket[p]]
    BY <1>3, <1>5, <1>6, Constants DEF Fill, Inv, Types
  <2> QED
    BY <1>2, <1>3, <1>4, <1>5, <1>6, <2>1, FillKeepsFiles
<1>7. CASE pc' = Set(pc, p, "unlock") /\ UNCHANGED <<table, goal, at>>
  <2>1. Quiet(p)
    BY <1>2, <1>5, <1>7 DEF Set, locals, Quiet
  <2> QED
    BY <2>1, QuietFiles
<1>8. CASE /\ Present(p, "key")
           /\ Relink(p, b)
           /\ UNCHANGED <<hash_table, num_entries, goal, at>>
  BY <1>4, <1>5, <1>8, RelinkFiles
<1> QED
  BY <1>1, <1>6, <1>7, <1>8

\* Only keys are moved: paths mean themselves, and a name that does not move
\* means a path, which is not among those that move.
LEMMA MoveFiles ==
    ASSUME OnlyKeysMove, Inv, FilesInv, Move
    PROVE  FilesInv'
<1>1. PICK n \in Moving, q \in Path :
         realpath' = [r \in Name |->
             IF r = n \/ (realpath[r] = n /\ q # n) THEN q ELSE realpath[r]]
  BY DEF Move
<1>2. /\ hash_entries' = hash_entries /\ num_entries' = num_entries
      /\ full_path' = full_path
      /\ UNCHANGED <<pc, at, goal, name, path, job, bucket, result>>
  BY DEF Move, table, scripts, locals
<1>3. n \notin Path /\ Path \subseteq Name
  BY Constants DEF OnlyKeysMove
<1>4. \A r \in Name \ Moving : realpath'[r] = realpath[r]
  BY <1>1, <1>3 DEF Inv, Types
<1>5. \A r \in Path : r \in Name \ Moving
  BY Constants DEF OnlyKeysMove
<1>6. Files'
  <2>1. \A r \in Path : realpath'[r] = r
    BY <1>4, <1>5 DEF FilesInv, Files
  <2>2. \A e \in 1..num_entries : hash_entries[e].key \in Name
    BY DEF Inv, Types, EntryRecord
  <2> QED
    BY <1>2, <1>4, <2>1, <2>2 DEF FilesInv, Files, Target
<1>7. ASSUME NEW p \in Proc PROVE HasFile(p)'
  BY <1>2, <1>4, FileStays
<1> QED
  BY <1>6, <1>7 DEF FilesInv

LEMMA FilesInitially == Init => FilesInv
<1> SUFFICES ASSUME Init PROVE FilesInv
  OBVIOUS
<1>1. Files
  BY DEF Init, Files
<1>2. ASSUME NEW p \in Proc PROVE HasFile(p)
  BY DEF Init, HasFile, Locked
<1> QED
  BY <1>1, <1>2 DEF FilesInv

\* A step is a quiet one, or one of those that change the table.
LEMMA Steps ==
    ASSUME Inv, Next
    PROVE  \/ Move
           \/ \E p \in Proc :
                \/ Quiet(p) \/ AddKey(p) \/ StoreAgain(p) \/ StoreNew(p)
                \/ Publish(p) \/ StoreKey(p) \/ Convert(p)
BY DEF Next, Quiet

-----------------------------------------------------------------------------
(* What holds as long as only keys move.                                   *)

LEMMA FilesInvariant ==
    ASSUME OnlyKeysMove
    PROVE  Spec => [](Inv /\ FilesInv)
<1>1. Init => FilesInv
  BY FilesInitially
<1>2. Inv /\ FilesInv /\ [Next]_vars => FilesInv'
  <2> SUFFICES ASSUME Inv, FilesInv, [Next]_vars PROVE FilesInv'
    OBVIOUS
  <2>1. CASE Move
    BY <2>1, MoveFiles
  <2>2. CASE UNCHANGED vars
    <3>1. Files'
      BY <2>2 DEF vars, table, scripts, FilesInv, Files, Target
    <3>2. \A p \in Proc : HasFile(p)'
      BY <2>2, FileStays DEF vars, table, scripts, locals
    <3> QED
      BY <3>1, <3>2 DEF FilesInv
  <2>3. ASSUME NEW p \in Proc,
               \/ Quiet(p) \/ AddKey(p) \/ StoreAgain(p) \/ StoreNew(p)
               \/ Publish(p) \/ StoreKey(p) \/ Convert(p)
        PROVE  FilesInv'
    <3>1. ~Convert(p)
      BY DEF FilesInv, HasFile, Convert
    <3> QED
      BY <2>3, <3>1, QuietFiles, AddKeyFiles, StoreAgainFiles, StoreNewFiles,
         PublishFiles, StoreKeyFiles
  <2> QED
    BY <2>1, <2>2, <2>3, Steps
<1> QED
  BY <1>1, <1>2, Invariant, PTL DEF Spec

\* While only keys come to mean other files, the script that a process has
\* found without the lock is the one of the file that its name means, for
\* every name that did not move: whatever entries the other processes added,
\* published and relinked, and which scripts they replaced, between the reads
\* of zend_accel_hash_find.
THEOREM NamesFindTheirFiles ==
    ASSUME OnlyKeysMove
    PROVE  Spec => []FindsItsFile
<1>1. Inv /\ FilesInv => FindsItsFile
  BY DEF FilesInv, HasFile, HasScript, Means, FindsItsFile
<1> QED
  BY <1>1, FilesInvariant, PTL

\* Then what zend_accel_hash_find returns is a script, and a script is stored
\* under the path that it was compiled from.
THEOREM ScriptsAreFound ==
    ASSUME OnlyKeysMove
    PROVE  Spec => [](FindReturnsScript /\ StoredUnderItsPath)
<1>1. Inv /\ FilesInv => FindReturnsScript
  BY DEF FilesInv, HasFile, HasScript, FindReturnsScript
<1>2. Inv /\ FilesInv => StoredUnderItsPath
  <2> SUFFICES ASSUME Inv, FilesInv, NEW e \in 1..num_entries,
                      hash_entries[e].data \in Script
               PROVE  full_path[hash_entries[e].data] = hash_entries[e].key
    BY DEF StoredUnderItsPath
  <2>1. ~hash_entries[e].indirect
    BY Constants DEF Inv, Data, Types
  <2> QED
    BY <2>1 DEF FilesInv, Files
<1> QED
  BY <1>1, <1>2, FilesInvariant, PTL

-----------------------------------------------------------------------------
(* The table implements the map.                                           *)

FileOf == [p \in Path |->
              IF EntryOf(p) = {} THEN NoScript
              ELSE hash_entries[CHOOSE e \in EntryOf(p) : TRUE].data]

LinkOf == [k \in Key |->
              IF EntryOf(k) = {} THEN NoPath
              ELSE hash_entries[hash_entries[
                      CHOOSE e \in EntryOf(k) : TRUE].data].key]

LEMMA PublishedIs == Inv => Published = 1..Visible
<1> SUFFICES ASSUME Inv PROVE Published = 1..Visible
  OBVIOUS
<1>1. num_entries \in Nat
  BY Constants DEF Inv, Types
<1>2. \A p \in Proc : pc[p] = "publish" => at[p] = num_entries
  BY DEF Inv, Point
<1>3. CASE \E p \in Proc : pc[p] = "publish"
  <2>1. Visible = num_entries - 1
    BY <1>3 DEF Visible
  <2>2. \A e : e \in Published <=> e \in 1..num_entries /\ e # num_entries
    BY <1>2, <1>3 DEF Published
  <2>3. \A e : e \in 1..num_entries /\ e # num_entries <=> e \in 1..Visible
    BY <1>1, <2>1
  <2> QED
    BY <2>2, <2>3
<1>4. CASE ~\E p \in Proc : pc[p] = "publish"
  BY <1>4 DEF Visible, Published
<1> QED
  BY <1>3, <1>4

\* The maps at a name, by the one entry of that name.
MapIs ==
    /\ FileOf = [q \in Path |-> FileOf[q]]
    /\ LinkOf = [k \in Key |-> LinkOf[k]]
    /\ \A q \in Path :
         /\ (\A e \in Published : hash_entries[e].key # q) =>
              FileOf[q] = NoScript
         /\ \A e \in Published :
              hash_entries[e].key = q => FileOf[q] = hash_entries[e].data
    /\ \A k \in Key :
         /\ (\A e \in Published : hash_entries[e].key # k) =>
              LinkOf[k] = NoPath
         /\ \A e \in Published :
              hash_entries[e].key = k =>
                  LinkOf[k] = hash_entries[hash_entries[e].data].key

LEMMA MapIsSo == Inv => MapIs
<1> SUFFICES ASSUME Inv PROVE MapIs
  OBVIOUS
<1>1. ASSUME NEW n, NEW e \in Published, hash_entries[e].key = n
      PROVE  EntryOf(n) # {} /\ (CHOOSE x \in EntryOf(n) : TRUE) = e
  <2>1. \A f \in Published : hash_entries[f].key = n => f = e
    BY <1>1 DEF Published, Inv, Chains
  <2>2. EntryOf(n) = {e}
    BY <1>1, <2>1 DEF EntryOf
  <2> QED
    BY <2>2
<1>2. ASSUME NEW n, \A e \in Published : hash_entries[e].key # n
      PROVE  EntryOf(n) = {}
  BY <1>2 DEF EntryOf
<1>3. \A q \in Path :
        /\ (\A e \in Published : hash_entries[e].key # q) =>
              FileOf[q] = NoScript
        /\ \A e \in Published :
              hash_entries[e].key = q => FileOf[q] = hash_entries[e].data
  BY <1>1, <1>2 DEF FileOf
<1>4. \A k \in Key :
        /\ (\A e \in Published : hash_entries[e].key # k) =>
             LinkOf[k] = NoPath
        /\ \A e \in Published :
             hash_entries[e].key = k =>
                 LinkOf[k] = hash_entries[hash_entries[e].data].key
  BY <1>1, <1>2 DEF LinkOf
<1>5. /\ FileOf = [q \in Path |-> FileOf[q]]
      /\ LinkOf = [k \in Key |-> LinkOf[k]]
  BY DEF FileOf, LinkOf
<1> QED
  BY <1>3, <1>4, <1>5 DEF MapIs

\* What the maps depend on.
LEMMA MapStays ==
    ASSUME Inv, FilesInv, MapIs, MapIs', Published' = Published,
           \A e \in 1..num_entries :
               /\ hash_entries'[e].key = hash_entries[e].key
               /\ hash_entries'[e].data = hash_entries[e].data
    PROVE  FileOf' = FileOf /\ LinkOf' = LinkOf
<1>1. Published \subseteq 1..num_entries
  BY DEF Published
<1>2. \A q \in Path : FileOf'[q] = FileOf[q]
  BY <1>1 DEF MapIs
<1>3. \A e \in Published : hash_entries[e].key \in Key =>
         hash_entries[e].data \in 1..num_entries
  BY <1>1, Constants DEF FilesInv, Files, Inv, Data
<1>4. \A k \in Key : LinkOf'[k] = LinkOf[k]
  BY <1>1, <1>3 DEF MapIs
<1> QED
  BY <1>2, <1>4 DEF MapIs

LEMMA FillKeepsMap ==
    ASSUME Inv, FilesInv, Inv', NEW p \in Proc,
           pc[p] \in {"recheck", "add", "key"},
           NEW n, NEW i, NEW d, Fill(p, n, i, d)
    PROVE  FileOf' = FileOf /\ LinkOf' = LinkOf
<1>1. /\ num_entries \in Nat /\ num_entries' = num_entries + 1
      /\ pc'[p] = "publish"
  BY Constants DEF Inv, Types, Fill, Set
<1>2. \A e \in 1..num_entries : hash_entries'[e] = hash_entries[e]
  BY <1>1 DEF Fill
<1>3. Visible = num_entries
  BY Owner DEF Locked, Visible
<1>4. Visible' = num_entries
  BY <1>1 DEF Visible
<1>5. Published = 1..num_entries
  BY <1>3, PublishedIs
<1>6. (Published = 1..Visible)'
  BY PublishedIs, PTL
<1>7. MapIs /\ MapIs'
  BY MapIsSo, PTL
<1> QED
  BY <1>2, <1>4, <1>5, <1>6, <1>7, MapStays

LEMMA QuietKeepsMap ==
    ASSUME Inv, FilesInv, Inv', NEW p \in Proc, Quiet(p)
    PROVE  FileOf' = FileOf /\ LinkOf' = LinkOf
<1>1. /\ hash_entries' = hash_entries /\ num_entries' = num_entries
      /\ pc[p] # "publish" /\ pc'[p] # "publish"
      /\ \A q \in Proc : q # p => pc'[q] = pc[q] /\ at'[q] = at[q]
  BY QuietChanges DEF Inv
<1>2. Published' = Published
  BY <1>1 DEF Published
<1>3. MapIs /\ MapIs'
  BY MapIsSo, PTL
<1> QED
  BY <1>1, <1>2, <1>3, MapStays

\* The new script of a path.
LEMMA StoreAgainStores ==
    ASSUME Inv, FilesInv, Inv', NEW p \in Proc, StoreAgain(p)
    PROVE  Map!Next
<1>1. /\ at[p] \in 1..num_entries
      /\ hash_entries[at[p]].key = path[p] /\ path[p] \in Path
  BY StoreAgainEntry
<1>2. PICK s \in Script :
         /\ full_path[s] = NoPath
         /\ full_path' = [full_path EXCEPT ![s] = path[p]]
         /\ hash_entries' = [hash_entries EXCEPT ![at[p]].data = s]
         /\ \A e \in 1..num_entries :
              /\ hash_entries'[e].key = hash_entries[e].key
              /\ hash_entries'[e].next = hash_entries[e].next
              /\ hash_entries'[e].indirect = hash_entries[e].indirect
              /\ hash_entries'[e].data =
                     IF e = at[p] THEN s ELSE hash_entries[e].data
  BY StoreAgainEntry
<1>3. /\ pc[p] = "recheck" /\ pc'[p] \in {"key", "unlock"}
      /\ \A q \in Proc : q # p => pc'[q] = pc[q]
      /\ num_entries' = num_entries
  BY DEF StoreAgain, Present, AfterStore, Look, Set, Inv, Types
<1>4. \A q \in Proc : pc[q] # "publish" /\ pc'[q] # "publish"
  BY <1>3, Owner DEF Locked
<1>5. Published = 1..num_entries /\ Published' = 1..num_entries
  BY <1>3, <1>4 DEF Published
<1>6. MapIs /\ MapIs'
  BY MapIsSo, PTL
<1>7. FileOf' = [FileOf EXCEPT ![path[p]] = s]
  <2>1. ASSUME NEW q \in Path
        PROVE  FileOf'[q] = IF q = path[p] THEN s ELSE FileOf[q]
    <3>1. CASE q = path[p]
      BY <3>1, <1>1, <1>2, <1>5, <1>6 DEF MapIs
    <3>2. CASE \A e \in 1..num_entries : hash_entries[e].key # q
      BY <3>2, <1>1, <1>2, <1>5, <1>6 DEF MapIs
    <3>3. ASSUME q # path[p], NEW e \in 1..num_entries, hash_entries[e].key = q
          PROVE  FileOf'[q] = FileOf[q]
      <4>1. /\ e # at[p] /\ hash_entries'[e].key = q
            /\ hash_entries'[e].data = hash_entries[e].data
        BY <3>3, <1>1, <1>2
      <4> QED
        BY <3>3, <4>1, <1>5, <1>6 DEF MapIs
    <3> QED
      BY <3>1, <3>2, <3>3, <1>1
  <2> QED
    BY <2>1, <1>1, <1>6 DEF MapIs
<1>8. LinkOf' = LinkOf
  <2>1. \A e \in Published : hash_entries[e].key \in Key =>
           hash_entries[e].data \in 1..num_entries /\ e # at[p]
    BY <1>1, <1>5, Constants DEF FilesInv, Files, Inv, Data
  <2>2. \A k \in Key : LinkOf'[k] = LinkOf[k]
    BY <1>2, <1>5, <1>6, <2>1 DEF MapIs
  <2> QED
    BY <2>2, <1>6 DEF MapIs
<1>9. Map!Store(path[p], s)
  BY <1>7, <1>8 DEF Map!Store, FileOf, LinkOf
<1> QED
  BY <1>1, <1>9 DEF Map!Next

\* An entry that is published: that of a path stores its script, that of a key
\* links it to a path whose entry was published before.
LEMMA PublishStores ==
    ASSUME Inv, FilesInv, Inv', NEW p \in Proc, Publish(p)
    PROVE  Map!Next
<1> DEFINE n == num_entries
           k == hash_entries[n].key
           d == hash_entries[n].data
<1>1. pc[p] = "publish" /\ n \in 1..num_entries /\ n \in Nat
  BY Constants DEF Publish, Inv, Point, Types
<1>2. /\ hash_entries' = hash_entries /\ num_entries' = num_entries
      /\ \A q \in Proc : q # p => pc'[q] = pc[q]
      /\ pc'[p] # "publish"
  BY DEF Publish, Set, Inv, Types
<1>3. \A q \in Proc : pc'[q] # "publish"
  BY <1>1, <1>2, Owner DEF Locked
<1>4. Published = 1..(n - 1)
  BY <1>1, PublishedIs DEF Visible
<1>5. Published' = 1..n
  BY <1>2, <1>3 DEF Published
<1>6. MapIs /\ MapIs'
  BY MapIsSo, PTL
<1>7. \A e \in 1..(n - 1) : e \in 1..n /\ hash_entries[e].key # k
  BY <1>1 DEF Inv, Chains
<1>8. k \in Name /\ (k \in Path <=> ~hash_entries[n].indirect)
  BY <1>1 DEF Inv, Types, EntryRecord, FilesInv, Files
<1> HIDE DEF n, k, d
<1>9. CASE k \in Path
  <2>1. d \in Script /\ k \notin Key
    BY <1>1, <1>8, <1>9, Constants DEF FilesInv, Files, n, k, d
  <2>2. FileOf' = [FileOf EXCEPT ![k] = d]
    <3>1. \A q \in Path : FileOf'[q] = IF q = k THEN d ELSE FileOf[q]
      BY <1>1, <1>2, <1>4, <1>5, <1>6, <1>7 DEF MapIs, k, d
    <3> QED
      BY <3>1, <1>6, <1>9 DEF MapIs
  <2>3. LinkOf' = LinkOf
    <3>1. \A x \in Key : LinkOf'[x] = LinkOf[x]
      BY <1>1, <1>2, <1>4, <1>5, <1>6, <1>7, <2>1 DEF MapIs, k
    <3> QED
      BY <3>1, <1>6 DEF MapIs
  <2>4. Map!Store(k, d)
    BY <2>2, <2>3 DEF Map!Store, FileOf, LinkOf
  <2> QED
    BY <1>9, <2>1, <2>4 DEF Map!Next
<1>10. CASE k \notin Path
  <2>1. k \in Key /\ hash_entries[n].indirect
    BY <1>8, <1>10 DEF Name
  <2>2. /\ d \in 1..(n - 1)
        /\ hash_entries[d].key \in Path
        /\ hash_entries[d].data \in Script
    <3>1. d \in 1..n /\ ~hash_entries[d].indirect
      BY <1>1, <2>1 DEF Inv, Data, FilesInv, Files, n, d
    <3>2. d # n
      BY <2>1, <3>1
    <3> QED
      BY <1>1, <3>1, <3>2 DEF FilesInv, Files, n
  <2>3. FileOf[hash_entries[d].key] # NoScript
    BY <2>2, <1>4, <1>6, Constants DEF MapIs
  <2>4. FileOf' = FileOf
    <3>1. \A q \in Path : FileOf'[q] = FileOf[q]
      BY <1>1, <1>2, <1>4, <1>5, <1>6, <1>7, <1>10 DEF MapIs, k
    <3> QED
      BY <3>1, <1>6 DEF MapIs
  <2>5. LinkOf' = [LinkOf EXCEPT ![k] = hash_entries[d].key]
    <3>1. \A x \in Key : LinkOf'[x] = IF x = k THEN hash_entries[d].key
                                       ELSE LinkOf[x]
      BY <1>1, <1>2, <1>4, <1>5, <1>6, <1>7 DEF MapIs, k, d
    <3> QED
      BY <3>1, <1>6, <2>1 DEF MapIs
  <2>6. Map!Link(k, hash_entries[d].key)
    BY <2>3, <2>4, <2>5 DEF Map!Link, FileOf, LinkOf
  <2> QED
    BY <2>1, <2>2, <2>6 DEF Map!Next
<1> QED
  BY <1>9, <1>10

\* A key that is linked to another path.
LEMMA RelinkLinks ==
    ASSUME OnlyKeysMove, Inv, FilesInv, Inv', NEW p \in Proc, Present(p, "key"),
           Relink(p, bucket[p]),
           UNCHANGED <<hash_table, num_entries, goal, at, scripts, realpath,
                       lock, job, name, path, bucket, result>>
    PROVE  Map!Next
<1> DEFINE a == at[p]
           b == bucket[p]
<1>1. /\ a \in 1..num_entries /\ b \in 1..num_entries
      /\ hash_entries[a].key = name[p] /\ name[p] \in Key
      /\ hash_entries[b].key \in Path
      /\ pc[p] = "key" /\ pc' = [pc EXCEPT ![p] = "unlock"]
      /\ \A e \in 1..num_entries :
           /\ hash_entries'[e].key = hash_entries[e].key
           /\ hash_entries'[e].data = IF e = a THEN b ELSE hash_entries[e].data
  BY RelinkFiles
<1>2. \A q \in Proc : pc[q] # "publish" /\ pc'[q] # "publish"
  BY <1>1, Owner DEF Locked, Inv, Types
<1>3. Published = 1..num_entries /\ Published' = 1..num_entries
  BY <1>2 DEF Published
<1>4. MapIs /\ MapIs'
  BY MapIsSo, PTL
<1>5. hash_entries[b].data \in Script
  BY <1>1 DEF FilesInv, Files
<1> HIDE DEF a, b
<1>6. FileOf[hash_entries[b].key] # NoScript
  BY <1>1, <1>3, <1>4, <1>5, Constants DEF MapIs
<1>7. FileOf' = FileOf
  <2>1. \A e \in 1..num_entries : hash_entries[e].key \in Path => e # a
    BY <1>1, Constants
  <2>2. ASSUME NEW q \in Path PROVE FileOf'[q] = FileOf[q]
    <3>1. CASE \A e \in 1..num_entries : hash_entries[e].key # q
      BY <3>1, <1>1, <1>3, <1>4 DEF MapIs
    <3>2. ASSUME NEW e \in 1..num_entries, hash_entries[e].key = q
          PROVE  FileOf'[q] = FileOf[q]
      <4>1. /\ hash_entries'[e].key = q
            /\ hash_entries'[e].data = hash_entries[e].data
        BY <3>2, <1>1, <2>1
      <4> QED
        BY <3>2, <4>1, <1>3, <1>4 DEF MapIs
    <3> QED
      BY <3>1, <3>2
  <2> QED
    BY <2>2, <1>4 DEF MapIs
<1>8. LinkOf' = [LinkOf EXCEPT ![name[p]] = hash_entries[b].key]
  <2>1. \A e \in 1..num_entries : hash_entries[e].key \in Key =>
           hash_entries[e].data \in 1..num_entries
    BY Constants DEF FilesInv, Files, Inv, Data
  <2>2. ASSUME NEW x \in Key
        PROVE  LinkOf'[x] = IF x = name[p] THEN hash_entries[b].key
                            ELSE LinkOf[x]
    <3>1. CASE \A e \in 1..num_entries : hash_entries[e].key # x
      <4>1. x # name[p]
        BY <3>1, <1>1
      <4>2. LinkOf[x] = NoPath
        BY <3>1, <1>3, <1>4 DEF MapIs
      <4>3. LinkOf'[x] = NoPath
        BY <3>1, <1>1, <1>3, <1>4 DEF MapIs
      <4> QED
        BY <4>1, <4>2, <4>3
    <3>2. CASE x = name[p]
      <4>1. /\ a \in Published' /\ hash_entries'[a].key = x
            /\ hash_entries'[a].data = b
            /\ hash_entries'[b].key = hash_entries[b].key
        BY <3>2, <1>1, <1>3
      <4> QED
        BY <3>2, <4>1, <1>4 DEF MapIs
    <3>3. ASSUME x # name[p], NEW e \in 1..num_entries, hash_entries[e].key = x
          PROVE  LinkOf'[x] = LinkOf[x]
      <4>1. /\ e # a /\ hash_entries'[e].key = x
            /\ hash_entries'[e].data = hash_entries[e].data
            /\ hash_entries[e].data \in 1..num_entries
            /\ hash_entries'[hash_entries[e].data].key =
                   hash_entries[hash_entries[e].data].key
        BY <3>3, <1>1, <2>1
      <4> QED
        BY <3>3, <4>1, <1>3, <1>4 DEF MapIs
    <3> QED
      BY <3>1, <3>2, <3>3, <1>1
  <2> QED
    BY <2>2, <1>1, <1>4 DEF MapIs
<1>9. Map!Link(name[p], hash_entries[b].key)
  BY <1>6, <1>7, <1>8 DEF Map!Link, FileOf, LinkOf
<1> QED
  BY <1>1, <1>9 DEF Map!Next

\* While only keys come to mean other files, the table with its lock-free
\* lookups and its entries that are filled in, published and changed one after
\* the other is a map from paths to scripts and from keys to paths, each
\* change of which takes effect at once.
THEOREM TableImplementsMap ==
    ASSUME OnlyKeysMove
    PROVE  Spec => ImplementsMap
<1>1. Init => Map!Init
  <2> SUFFICES ASSUME Init PROVE Map!Init
    OBVIOUS
  <2>1. \A n : EntryOf(n) = {}
    BY DEF Init, EntryOf, Published
  <2> QED
    BY <2>1 DEF Map!Init
<1>2. Inv /\ FilesInv /\ Inv' /\ [Next]_vars =>
          Map!Next \/ (FileOf' = FileOf /\ LinkOf' = LinkOf)
  <2> SUFFICES ASSUME Inv, FilesInv, Inv', [Next]_vars
               PROVE  Map!Next \/ (FileOf' = FileOf /\ LinkOf' = LinkOf)
    OBVIOUS
  <2>1. CASE UNCHANGED <<table, pc, at>>
    <3>1. Published' = Published
      BY <2>1 DEF table, Published
    <3>2. MapIs /\ MapIs'
      BY MapIsSo, PTL
    <3> QED
      BY <2>1, <3>1, <3>2, MapStays DEF table
  <2>2. ASSUME NEW p \in Proc, Quiet(p) PROVE FileOf' = FileOf /\ LinkOf' = LinkOf
    BY <2>2, QuietKeepsMap
  <2>3. ASSUME NEW p \in Proc, AddKey(p)
        PROVE  FileOf' = FileOf /\ LinkOf' = LinkOf
    <3>1. pc[p] = "add"
      BY <2>3 DEF AddKey, Present, Absent
    <3>2. CASE pc' = Set(pc, p, "unlock") /\ UNCHANGED <<table, goal, at>>
      <4>1. Quiet(p)
        BY <2>3, <3>1, <3>2 DEF AddKey, Set, locals, Quiet
      <4> QED
        BY <4>1, QuietKeepsMap
    <3>3. CASE \E e \in Follow(bucket[p]) : Fill(p, name[p], TRUE, e)
      BY <3>1, <3>3, FillKeepsMap
    <3> QED
      BY <2>3, <3>2, <3>3 DEF AddKey
  <2>4. ASSUME NEW p \in Proc, StoreNew(p)
        PROVE  FileOf' = FileOf /\ LinkOf' = LinkOf
    BY <2>4, FillKeepsMap DEF StoreNew, Absent
  <2>5. ASSUME NEW p \in Proc, StoreKey(p)
        PROVE  Map!Next \/ (FileOf' = FileOf /\ LinkOf' = LinkOf)
    <3>1. PICK b \in Follow(bucket[p]) :
             \/ Absent(p, "key") /\ Fill(p, name[p], TRUE, b)
             \/ /\ Absent(p, "key") /\ is_full
                /\ pc' = Set(pc, p, "unlock")
                /\ UNCHANGED <<table, goal, at>>
             \/ /\ Present(p, "key")
                /\ Relink(p, b)
                /\ UNCHANGED <<hash_table, num_entries, goal, at>>
      BY <2>5 DEF StoreKey
    <3>2. pc[p] = "key"
      BY <3>1 DEF Present, Absent
    <3>3. UNCHANGED <<scripts, realpath, lock, job, name, path, bucket, result>>
      BY <2>5 DEF StoreKey
    <3>4. CASE Fill(p, name[p], TRUE, b)
      BY <3>2, <3>4, FillKeepsMap
    <3>5. CASE pc' = Set(pc, p, "unlock") /\ UNCHANGED <<table, goal, at>>
      <4>1. Quiet(p)
        BY <3>2, <3>3, <3>5 DEF Set, locals, Quiet
      <4> QED
        BY <4>1, QuietKeepsMap
    <3>6. CASE /\ Present(p, "key")
               /\ Relink(p, b)
               /\ UNCHANGED <<hash_table, num_entries, goal, at>>
      <4>1. bucket[p] \in 1..num_entries /\ ~hash_entries[bucket[p]].indirect
        BY <3>2, NewKey
      <4>2. b = bucket[p]
        BY <4>1, FollowDirect
      <4> QED
        BY <3>3, <3>6, <4>2, RelinkLinks
    <3> QED
      BY <3>1, <3>4, <3>5, <3>6
  <2>6. ASSUME NEW p \in Proc PROVE ~Convert(p)
    BY DEF FilesInv, HasFile, Convert
  <2>7. CASE UNCHANGED vars \/ Move
    BY <2>1, <2>7 DEF vars, locals, Move
  <2> QED
    BY <2>2, <2>3, <2>4, <2>5, <2>6, <2>7, StoreAgainStores, PublishStores,
       Steps
<1>3. ASSUME Map!Next \/ (FileOf' = FileOf /\ LinkOf' = LinkOf)
      PROVE  [Map!Next]_<<FileOf, LinkOf>>
  BY <1>3
<1> QED
  BY <1>1, <1>2, <1>3, FilesInvariant, PTL
  DEF Spec, ImplementsMap, Map!Spec, FileOf, LinkOf
=============================================================================
