------------------------- MODULE IncludePathsProofs -------------------------
(***************************************************************************)
(* The letters of include paths name them, and a key that was made with a  *)
(* letter of the present table names the include path of its process, for  *)
(* all processes, include paths, sizes of the table and of the memory.     *)
(***************************************************************************)
EXTENDS IncludePaths, SequenceTheorems, TLAPS

Entry == [path : IncludePath, at : Address]

-----------------------------------------------------------------------------
(* The inductive invariant.                                                *)

\* The first entry is that of the startup, and the letters of the others are
\* where memory is still in use.
Table ==
    /\ include_paths[1] = [path |-> Default, at |-> 1]
    /\ \A i \in DOMAIN include_paths :
          /\ include_paths[i].at < top
          /\ memory[include_paths[i].at] = i
    /\ \A i, j \in DOMAIN include_paths :
          include_paths[i].path = include_paths[j].path => i = j

\* The i-th entry is that of p, and its letter is at the address.
Owns(p, i, address) ==
    include_paths[i].path = include_path[p] /\ include_paths[i].at = address

\* A process whose letter was not freed points to that of its own path.
OwnLetter(p) ==
    p \notin stale /\ include_path_key[p] # Null =>
        \E i \in DOMAIN include_paths : Owns(p, i, include_path_key[p])

\* Between the making of a key and its use a request may be counted in.
HasKey(p) == pc[p] = "use" \/ (pc[p] = "count" /\ back[p] = "use")

\* So does the key that it has made, or it is the whole path.
OwnKey(p) ==
    p \notin stale /\ HasKey(p) =>
        \/ key[p] = include_path[p]
        \/ \E i \in DOMAIN include_paths :
              key[p] = i /\ Owns(p, i, include_path_key[p])

\* Under every letter is what was found in its path, and nothing is under
\* the letters that are not in use; what is found under a whole path was found
\* in it, unless it looks like a letter.
Clean ==
    /\ \A path \in IncludePath \ (Letter \cup tainted) :
          cached[path] \in {NoPath, path}
    /\ \A i \in DOMAIN include_paths \ tainted :
          cached[i] \in {NoPath, include_paths[i].path}
    /\ \A i \in Letter \ (DOMAIN include_paths \cup tainted) : cached[i] = NoPath

\* A modification of the include path does not interrupt the use of a key, and
\* only a process in a request is counted.
Control(p) ==
    /\ pc[p] \in {"find", "lock"} => back[p] # "use"
    /\ \/ pc[p] \in {"idle", "wipe"}
       \/ pc[p] \in {"find", "lock"} /\ back[p] = "idle"
       => ~counted[p]

\* One restart is under way at a time, and whoever is counted meanwhile was not
\* when it looked.
OnlyLateCounted ==
    /\ \A p, q \in Proc : pc[p] = "wipe" /\ pc[q] = "wipe" => p = q
    /\ Locked => \A p \in Proc : counted[p] => p \in late

Inv ==
    /\ TypeOK
    /\ Table
    /\ \A p \in Proc : OwnLetter(p) /\ OwnKey(p) /\ Control(p)
    /\ OnlyLateCounted
    /\ Clean

-----------------------------------------------------------------------------
(* The table.                                                              *)

\* The letter of a path that is known is that of its entry.
LEMMA KnownAddress ==
    ASSUME NEW path, Known(path)
    PROVE  \E i \in DOMAIN include_paths :
              /\ include_paths[i].path = path
              /\ include_paths[i].at = AddressOf(path)
<1> DEFINE i == CHOOSE i \in DOMAIN include_paths : include_paths[i].path = path
<1>1. i \in DOMAIN include_paths /\ include_paths[i].path = path
  BY DEF Known
<1> QED
  BY <1>1 DEF AddressOf

\* The types of the table and of memory.
TableType ==
    /\ include_paths \in Seq(Entry)
    /\ Len(include_paths) \in 1..Size
    /\ memory \in [Address -> Letter \cup {Other}]
    /\ top \in 1..(Room + 1)

\* A new entry and its letter keep the table sound, and leave the others alone.
LEMMA AddTable ==
    ASSUME TableType, Table, NEW p \in Proc, NEW path \in IncludePath,
           ~Known(path), ~is_full, Add(p, path)
    PROVE  /\ TableType' /\ Table'
           /\ Len(include_paths') = Len(include_paths) + 1
           /\ DOMAIN include_paths' = 1..(Len(include_paths) + 1)
           /\ DOMAIN include_paths = 1..Len(include_paths)
           /\ \A i \in DOMAIN include_paths : include_paths'[i] = include_paths[i]
           /\ include_paths'[Len(include_paths) + 1] = [path |-> path, at |-> top]
<1> DEFINE n == Len(include_paths)
           e == [path |-> path, at |-> top]
<1>1. top \in Address /\ top # 1 /\ n \in 1..Size /\ n # Size /\ n \in Nat
  <2>1. 1 \in DOMAIN include_paths /\ include_paths[1].at = 1
    BY LenProperties DEF TableType, Table
  <2> QED
    BY <2>1, PathAssumption DEF TableType, Table, Add, is_full, Address
<1>2. e \in Entry
  BY <1>1 DEF Entry
<1>3. /\ include_paths' \in Seq(Entry)
      /\ Len(include_paths') = n + 1
      /\ \A i \in 1..n : include_paths'[i] = include_paths[i]
      /\ include_paths'[n + 1] = e
  BY <1>2, AppendProperties DEF TableType, Add
<1>4. DOMAIN include_paths' = 1..(n + 1) /\ DOMAIN include_paths = 1..n
  BY <1>3, LenProperties DEF TableType
<1>5. /\ memory' \in [Address -> Letter \cup {Other}]
      /\ memory'[top] = n + 1
      /\ \A a \in Address : a # top => memory'[a] = memory[a]
      /\ top' = top + 1 /\ top' \in 1..(Room + 1)
  BY <1>1, PathAssumption DEF Add, Set, TableType, Letter, Address
<1>6. \A i \in 1..n : include_paths[i] \in Entry
  BY ElementOfSeq DEF TableType
<1> HIDE DEF n, e
<1>7. TableType'
  BY <1>1, <1>3, <1>5, PathAssumption DEF TableType
<1>8. Table'
  <2>1. include_paths'[1] = [path |-> Default, at |-> 1]
    BY <1>1, <1>3 DEF Table
  <2>2. ASSUME NEW i \in 1..(n + 1)
        PROVE  include_paths'[i].at < top' /\ memory'[include_paths'[i].at] = i
    <3>1. CASE i = n + 1
      BY <3>1, <1>1, <1>3, <1>5 DEF e, Address
    <3>2. CASE i \in 1..n
      <4>1. /\ include_paths'[i].at = include_paths[i].at
            /\ include_paths[i].at \in Address
            /\ include_paths[i].at < top
            /\ memory[include_paths[i].at] = i
        BY <3>2, <1>3, <1>4, <1>6 DEF Table, Entry
      <4> QED
        BY <4>1, <1>1, <1>5 DEF Address
    <3> QED
      BY <3>1, <3>2, <1>1
  <2>3. ASSUME NEW i \in 1..(n + 1), NEW j \in 1..(n + 1),
               include_paths'[i].path = include_paths'[j].path
        PROVE  i = j
    <3>1. \A k \in 1..n : include_paths[k].path # path
      BY <1>4 DEF Known
    <3>2. \A k \in 1..n : include_paths'[k].path # include_paths'[n + 1].path
      BY <3>1, <1>3 DEF e
    <3>3. CASE i \in 1..n /\ j \in 1..n
      BY <3>3, <2>3, <1>3, <1>4 DEF Table
    <3> QED
      BY <3>2, <3>3, <2>3, <1>1
  <2> QED
    BY <2>1, <2>2, <2>3, <1>4 DEF Table
<1> QED
  BY <1>3, <1>4, <1>7, <1>8 DEF n, e

\* A script is stored above all letters.
LEMMA StoreTable ==
    ASSUME TableType, Table, NEW p \in Proc, Store(p)
    PROVE  TableType' /\ Table'
<1>1. PICK byte \in Byte : memory' = Set(memory, top, byte)
  BY DEF Store
<1>2. top \in Address /\ top' = top + 1 /\ include_paths' = include_paths
  BY PathAssumption DEF Store, TableType, Address
<1>3. byte \in Letter \cup {Other}
  BY PathAssumption
<1>4. /\ memory' \in [Address -> Letter \cup {Other}]
      /\ \A a \in Address : a # top => memory'[a] = memory[a]
  BY <1>1, <1>2, <1>3 DEF TableType, Set
<1>5. TableType'
  BY <1>2, <1>4, PathAssumption DEF TableType, Address
<1>6. \A i \in DOMAIN include_paths : include_paths[i].at \in Address
  <2>1. \A i \in DOMAIN include_paths : include_paths[i] \in Entry
    BY LenProperties, ElementOfSeq DEF TableType
  <2> QED
    BY <2>1 DEF Entry
<1>7. Table'
  BY <1>2, <1>4, <1>6, PathAssumption DEF Table, Address
<1> QED
  BY <1>5, <1>7

\* After a restart the first entry is left.
LEMMA RestartTable ==
    ASSUME TableType, Table, Restarted, memory' = memory
    PROVE  /\ TableType' /\ Table'
           /\ DOMAIN include_paths' = {1}
           /\ include_paths'[1] = include_paths[1]
<1>1. 1 \in DOMAIN include_paths /\ include_paths[1] \in Entry /\ Size \in Nat /\ Room \in Nat \ {0}
  BY LenProperties, ElementOfSeq, PathAssumption DEF TableType
<1>2. \A i \in 1..1 : include_paths[i] \in Entry
  BY <1>1
<1>3. /\ SubSeq(include_paths, 1, 1) \in Seq(Entry)
      /\ Len(SubSeq(include_paths, 1, 1)) = IF 1 <= 1 THEN 1 - 1 + 1 ELSE 0
      /\ \A i \in 1 .. 1 - 1 + 1 : SubSeq(include_paths, 1, 1)[i] = include_paths[1 + i - 1]
  BY <1>2, SubSeqProperties
<1>4. Len(include_paths') = 1 /\ include_paths'[1] = include_paths[1] /\ include_paths' \in Seq(Entry)
  BY <1>3 DEF Restarted
<1>5. DOMAIN include_paths' = {1}
  BY <1>4, LenProperties
<1>6. TableType'
  BY <1>4, <1>1, PathAssumption DEF TableType, Restarted
<1>7. Table'
  BY <1>1, <1>4, <1>5, PathAssumption DEF Table, Restarted
<1> QED
  BY <1>4, <1>5, <1>6, <1>7
-----------------------------------------------------------------------------
(* Steps that leave the entries alone, or add to them.                     *)

\* The section under the lock: the entries stay, and the process has the
\* letter of the path, if any.
LEMMA RegisterSound ==
    ASSUME TypeOK, Table, NEW p \in Proc, NEW path \in IncludePath,
           Register(p, path)
    PROVE  /\ TableType' /\ Table'
           /\ cached' = cached
           /\ flags' \in BOOLEAN \X BOOLEAN
           /\ \A i \in DOMAIN include_paths :
                 i \in DOMAIN include_paths' /\ include_paths'[i] = include_paths[i]
           /\ \A i \in DOMAIN include_paths' \ DOMAIN include_paths :
                 i \in Letter
           /\ include_path_key' \in [Proc -> {Null} \cup Address]
           /\ \A q \in Proc \ {p} : include_path_key'[q] = include_path_key[q]
           /\ \/ include_path_key'[p] = include_path_key[p]
              \/ \E i \in DOMAIN include_paths' :
                    /\ include_paths'[i].path = path
                    /\ include_paths'[i].at = include_path_key'[p]
<1>0. /\ TableType /\ include_path_key \in [Proc -> {Null} \cup Address]
      /\ flags \in BOOLEAN \X BOOLEAN
  BY DEF TypeOK, TableType, Entry, flags
<1>1. CASE Known(path) /\ include_path_key' = Set(include_path_key, p, AddressOf(path))
           /\ UNCHANGED <<shared, flags>>
  <2>1. PICK i \in DOMAIN include_paths :
           include_paths[i].path = path /\ include_paths[i].at = AddressOf(path)
    BY <1>1, KnownAddress
  <2>2. include_paths[i] \in Entry
    BY <1>0, LenProperties, ElementOfSeq DEF TableType
  <2>3. AddressOf(path) \in Address
    BY <2>1, <2>2 DEF Entry
  <2>4. TableType' /\ Table'
    BY <1>0, <1>1 DEF shared, TableType, Table
  <2> QED
    BY <1>0, <1>1, <2>1, <2>3, <2>4 DEF shared, flags, Set
<1>2. CASE ~Known(path) /\ ~is_full /\ Add(p, path)
  <2>1. /\ TableType' /\ Table'
        /\ DOMAIN include_paths' = 1..(Len(include_paths) + 1)
        /\ DOMAIN include_paths = 1..Len(include_paths)
        /\ \A i \in DOMAIN include_paths : include_paths'[i] = include_paths[i]
        /\ include_paths'[Len(include_paths) + 1] = [path |-> path, at |-> top]
    BY <1>0, <1>2, AddTable
  <2>2. Len(include_paths) \in Nat /\ Len(include_paths) + 1 \in Letter
    BY <1>0, <1>2, PathAssumption DEF TableType, is_full, Letter
  <2>3. top \in Address
    BY <1>0, <1>2, PathAssumption DEF TableType, Add, Address
  <2>4. \A i \in DOMAIN include_paths : i \in DOMAIN include_paths'
    BY <2>1, <2>2
  <2>5. \A i \in DOMAIN include_paths' \ DOMAIN include_paths : i \in Letter
    BY <2>1, <2>2
  <2>6. /\ include_path_key' \in [Proc -> {Null} \cup Address]
        /\ \A q \in Proc \ {p} : include_path_key'[q] = include_path_key[q]
        /\ include_path_key'[p] = top
    BY <1>0, <1>2, <2>3 DEF Add, Set
  <2>7. Len(include_paths) + 1 \in DOMAIN include_paths'
    BY <2>1, <2>2
  <2> QED
    BY <1>0, <1>2, <2>1, <2>4, <2>5, <2>6, <2>7 DEF Add, flags
<1>3. CASE UNCHANGED <<shared, include_path_key>> /\ (Schedule \/ UNCHANGED flags)
  <2>1. TableType' /\ Table'
    BY <1>0, <1>3 DEF shared, TableType, Table
  <2> QED
    BY <1>0, <1>3, <2>1 DEF shared, flags, Schedule
<1> QED
  BY <1>1, <1>2, <1>3 DEF Register, NoMemory

\* Entries are letters.
LEMMA Letters ==
    ASSUME TypeOK
    PROVE  /\ TableType /\ DOMAIN include_paths \subseteq Letter
           /\ \A i \in DOMAIN include_paths : include_paths[i] \in Entry
           /\ Letter \subseteq Suffix /\ IncludePath \subseteq Suffix
           /\ Other \in Suffix /\ Default \in IncludePath
           /\ NoPath \notin IncludePath
<1>1. TableType
  BY DEF TypeOK, TableType, Entry
<1>2. DOMAIN include_paths = 1..Len(include_paths)
  BY <1>1, LenProperties DEF TableType
<1>3. \A i \in DOMAIN include_paths : include_paths[i] \in Entry
  BY <1>1, <1>2, ElementOfSeq DEF TableType
<1>4. DOMAIN include_paths \subseteq Letter
  BY <1>1, <1>2, PathAssumption DEF TableType, Letter
<1> QED
  BY <1>1, <1>3, <1>4, PathAssumption DEF Letter, Suffix

\* A step that leaves the table and what is cached alone.
LEMMA SharedSame ==
    ASSUME TypeOK, Table, Clean, UNCHANGED shared, tainted' = tainted
    PROVE  TableType' /\ Table' /\ Clean'
<1>1. TableType
  BY Letters
<1> QED
  BY <1>1 DEF TableType, Table, Clean, shared

\* Another process has the letter and the key that it had.
LEMMA OthersKeep ==
    ASSUME NEW q \in Proc, OwnLetter(q), OwnKey(q),
           \A i \in DOMAIN include_paths :
               i \in DOMAIN include_paths' /\ include_paths'[i] = include_paths[i],
           include_path_key'[q] = include_path_key[q],
           include_path'[q] = include_path[q], key'[q] = key[q],
           HasKey(q)' => HasKey(q),
           q \notin stale' => q \notin stale
    PROVE  OwnLetter(q)' /\ OwnKey(q)'
<1>1. ASSUME q \notin stale', include_path_key'[q] # Null
      PROVE  \E i \in DOMAIN include_paths' : Owns(q, i, include_path_key[q])'
  <2>1. PICK i \in DOMAIN include_paths : Owns(q, i, include_path_key[q])
    BY <1>1 DEF OwnLetter
  <2> QED
    BY <2>1 DEF Owns
<1>2. ASSUME q \notin stale', HasKey(q)', key'[q] # include_path'[q]
      PROVE  \E i \in DOMAIN include_paths' :
                key'[q] = i /\ Owns(q, i, include_path_key[q])'
  <2>1. PICK i \in DOMAIN include_paths :
           key[q] = i /\ Owns(q, i, include_path_key[q])
    BY <1>2 DEF OwnKey
  <2> QED
    BY <2>1 DEF Owns
<1> QED
  BY <1>1, <1>2 DEF OwnLetter, OwnKey

\* What is cached stays clean when entries are added.
LEMMA CleanWithMore ==
    ASSUME TypeOK, Clean, cached' = cached, tainted' = tainted, TableType',
           \A i \in DOMAIN include_paths :
               i \in DOMAIN include_paths' /\ include_paths'[i] = include_paths[i],
           \A i \in DOMAIN include_paths' \ DOMAIN include_paths : i \in Letter
    PROVE  Clean'
<1>1. ASSUME NEW i \in DOMAIN include_paths' \ tainted
      PROVE  cached[i] \in {NoPath, include_paths'[i].path}
  BY <1>1 DEF Clean
<1>2. \A i \in Letter \ (DOMAIN include_paths' \cup tainted) : cached[i] = NoPath
  BY DEF Clean
<1> QED
  BY <1>1, <1>2 DEF Clean

\* Nobody is counted in, and nobody begins to look for counted requests.
LEMMA LateStay ==
    ASSUME OnlyLateCounted,
           \A q \in Proc : pc'[q] = "wipe" => pc[q] = "wipe",
           \A q \in Proc : counted'[q] => counted[q],
           \A q \in Proc : q \in late /\ counted'[q] => q \in late'
    PROVE  OnlyLateCounted'
BY DEF OnlyLateCounted, Locked

-----------------------------------------------------------------------------
(* The actions, one by one.                                                *)

\* Without a letter a process has neither a wrong one nor a key.
LEMMA ModifyStep ==
    ASSUME Inv, NEW p \in Proc, accel_include_path_on_modify(p)
    PROVE  Inv'
<1> USE DEF Inv
<1>1. TableType' /\ Table' /\ Clean'
  BY SharedSame DEF accel_include_path_on_modify
<1>2. TypeOK'
  BY <1>1 DEF accel_include_path_on_modify, Look, TypeOK, Set, shared, flags,
              mine, history, Address, Null
<1>3. \A q \in Proc \ {p} : OwnLetter(q)' /\ OwnKey(q)'
  <2> SUFFICES ASSUME NEW q \in Proc, q # p
               PROVE  OwnLetter(q)' /\ OwnKey(q)'
    OBVIOUS
  <2>1. /\ include_paths' = include_paths /\ key' = key
        /\ include_path_key'[q] = include_path_key[q]
        /\ include_path'[q] = include_path[q]
        /\ pc'[q] = pc[q] /\ back'[q] = back[q]
        /\ q \notin stale' => q \notin stale
    BY DEF accel_include_path_on_modify, Look, TypeOK, Set, shared
  <2> QED
    BY <2>1, OthersKeep DEF HasKey
<1>4. include_path_key'[p] = Null /\ ~HasKey(p)'
  BY DEF accel_include_path_on_modify, Look, TypeOK, Set, HasKey
<1>5. OwnLetter(p)' /\ OwnKey(p)'
  BY <1>4 DEF OwnLetter, OwnKey
<1>6. \A q \in Proc : Control(q)'
  BY DEF accel_include_path_on_modify, Look, TypeOK, Set, Control
<1>7. OnlyLateCounted'
  <2>1. \A q \in Proc : pc'[q] = "wipe" => pc[q] = "wipe"
    BY DEF accel_include_path_on_modify, Look, TypeOK, Set
  <2> QED
    BY <2>1, LateStay DEF accel_include_path_on_modify
<1> QED
  BY <1>1, <1>2, <1>3, <1>5, <1>6, <1>7

\* The letter that is found is that of the path.
LEMMA FindStep ==
    ASSUME Inv, NEW p \in Proc, ModifyFind(p)
    PROVE  Inv'
<1> USE DEF Inv
<1>1. TableType' /\ Table' /\ Clean'
  BY SharedSame DEF ModifyFind, history
<1>2. Known(include_path[p]) => AddressOf(include_path[p]) \in Address
  BY KnownAddress, Letters DEF Entry
<1>3. TypeOK'
  BY <1>1, <1>2 DEF ModifyFind, Return, TypeOK, Set, shared, flags, history
<1>4. \A q \in Proc \ {p} : OwnLetter(q)' /\ OwnKey(q)'
  <2> SUFFICES ASSUME NEW q \in Proc, q # p
               PROVE  OwnLetter(q)' /\ OwnKey(q)'
    OBVIOUS
  <2>1. /\ include_paths' = include_paths /\ key' = key /\ stale' = stale
        /\ include_path_key'[q] = include_path_key[q]
        /\ include_path'[q] = include_path[q]
        /\ pc'[q] = pc[q] /\ back'[q] = back[q]
    BY DEF ModifyFind, Return, TypeOK, Set, shared, history
  <2> QED
    BY <2>1, OthersKeep DEF HasKey
<1>5. ~HasKey(p)'
  BY DEF ModifyFind, Return, TypeOK, Set, HasKey, Control
<1>6. OwnLetter(p)'
  <2>1. CASE Known(include_path[p])
    <3>1. PICK i \in DOMAIN include_paths :
             /\ include_paths[i].path = include_path[p]
             /\ include_paths[i].at = AddressOf(include_path[p])
      BY <2>1, KnownAddress
    <3>2. include_path_key'[p] = AddressOf(include_path[p])
      BY <2>1 DEF ModifyFind, TypeOK, Set
    <3> QED
      BY <3>1, <3>2 DEF OwnLetter, Owns, ModifyFind, shared
  <2>2. CASE ~Known(include_path[p])
    BY <2>2 DEF OwnLetter, Owns, ModifyFind, shared, history
  <2> QED
    BY <2>1, <2>2
<1>7. \A q \in Proc : Control(q)'
  BY DEF ModifyFind, Return, TypeOK, Set, Control
<1>8. OnlyLateCounted'
  <2>1. \A q \in Proc : pc'[q] = "wipe" => pc[q] = "wipe"
    BY DEF ModifyFind, Return, TypeOK, Set
  <2> QED
    BY <2>1, LateStay DEF ModifyFind, history
<1> QED
  BY <1>1, <1>3, <1>4, <1>5, <1>6, <1>7, <1>8 DEF OwnKey

\* So is the one that is entered or found under the lock.
LEMMA SectionStep ==
    ASSUME Inv, NEW p \in Proc, ModifySection(p)
    PROVE  Inv'
<1> USE DEF Inv
<1>0. include_path[p] \in IncludePath /\ Register(p, include_path[p])
  BY DEF TypeOK, ModifySection
<1>1. /\ TableType' /\ Table'
      /\ cached' = cached
      /\ flags' \in BOOLEAN \X BOOLEAN
      /\ \A i \in DOMAIN include_paths :
            i \in DOMAIN include_paths' /\ include_paths'[i] = include_paths[i]
      /\ \A i \in DOMAIN include_paths' \ DOMAIN include_paths : i \in Letter
      /\ include_path_key' \in [Proc -> {Null} \cup Address]
      /\ \A q \in Proc \ {p} : include_path_key'[q] = include_path_key[q]
      /\ \/ include_path_key'[p] = include_path_key[p]
         \/ \E i \in DOMAIN include_paths' :
               /\ include_paths'[i].path = include_path[p]
               /\ include_paths'[i].at = include_path_key'[p]
  BY <1>0, RegisterSound
<1>2. Clean'
  BY <1>1, CleanWithMore DEF ModifySection, history
<1>3. TypeOK'
  BY <1>1 DEF ModifySection, Return, TypeOK, TableType, Entry, Set, flags, history
<1>4. \A q \in Proc \ {p} : OwnLetter(q)' /\ OwnKey(q)'
  <2> SUFFICES ASSUME NEW q \in Proc, q # p
               PROVE  OwnLetter(q)' /\ OwnKey(q)'
    OBVIOUS
  <2>1. /\ key' = key /\ stale' = stale /\ include_path' = include_path
        /\ pc'[q] = pc[q] /\ back'[q] = back[q]
    BY DEF ModifySection, Return, TypeOK, Set, history
  <2> QED
    BY <1>1, <2>1, OthersKeep DEF HasKey
<1>5. ~HasKey(p)'
  BY DEF ModifySection, Return, TypeOK, Set, HasKey, Control
<1>6. OwnLetter(p)'
  BY <1>1 DEF OwnLetter, Owns, ModifySection, history
<1>7. \A q \in Proc : Control(q)'
  BY DEF ModifySection, Return, TypeOK, Set, Control
<1>8. OnlyLateCounted'
  <2>1. \A q \in Proc : pc'[q] = "wipe" => pc[q] = "wipe"
    BY DEF ModifySection, Return, TypeOK, Set
  <2> QED
    BY <2>1, LateStay DEF ModifySection, history
<1> QED
  BY <1>1, <1>2, <1>3, <1>4, <1>5, <1>6, <1>7, <1>8 DEF OwnKey

\* The key ends in the letter that the process points to, or in the path.
LEMMA KeyStep ==
    ASSUME Inv, NEW p \in Proc, accel_make_persistent_key(p)
    PROVE  Inv'
<1> USE DEF Inv
<1>1. TableType' /\ Table' /\ Clean'
  BY SharedSame DEF accel_make_persistent_key, history
<1>2. TypeOK'
  <2>1. include_path_key[p] # Null => memory[include_path_key[p]] \in Suffix
    BY Letters DEF TypeOK, Suffix
  <2>2. include_path[p] \in Suffix
    BY Letters DEF TypeOK
  <2> QED
    BY <2>1, <2>2 DEF accel_make_persistent_key, TypeOK, Set, shared, flags, mine,
                      history
<1>3. \A q \in Proc : /\ include_paths' = include_paths /\ stale' = stale
                      /\ include_path_key'[q] = include_path_key[q]
                      /\ include_path'[q] = include_path[q]
                      /\ q # p => pc'[q] = pc[q] /\ key'[q] = key[q]
                      /\ back'[q] = back[q]
  BY DEF accel_make_persistent_key, TypeOK, Set, shared, mine, history
<1>4. \A q \in Proc \ {p} : OwnLetter(q)' /\ OwnKey(q)'
  BY <1>3, OthersKeep DEF HasKey
<1>5. OwnLetter(p)'
  BY <1>3 DEF OwnLetter, Owns
<1>6. OwnKey(p)'
  <2>0. HasKey(p)' => pc'[p] = "use"
    BY DEF accel_make_persistent_key, TypeOK, Set, HasKey
  <2> SUFFICES ASSUME p \notin stale, pc'[p] = "use"
               PROVE  \/ key'[p] = include_path[p]
                      \/ \E i \in DOMAIN include_paths :
                            key'[p] = i /\ Owns(p, i, include_path_key[p])
    BY <1>3, <2>0 DEF OwnKey, Owns
  <2>1. CASE include_path_key[p] # Null
    <3>1. key'[p] = memory[include_path_key[p]]
      BY <2>1 DEF accel_make_persistent_key, TypeOK, Set
    <3>2. PICK i \in DOMAIN include_paths : Owns(p, i, include_path_key[p])
      BY <2>1 DEF OwnLetter
    <3>3. memory[include_path_key[p]] = i
      BY <3>2 DEF Owns, Table
    <3> QED
      BY <3>1, <3>2, <3>3
  <2>2. CASE include_path_key[p] = Null
    <3>1. key'[p] = include_path[p]
      BY <2>2 DEF accel_make_persistent_key, TypeOK, Set
    <3> QED
      BY <3>1
  <2> QED
    BY <2>1, <2>2
<1>7. \A q \in Proc : Control(q)'
  BY DEF accel_make_persistent_key, TypeOK, Set, Control
<1>8. OnlyLateCounted'
  <2>1. \A q \in Proc : pc'[q] = "wipe" => pc[q] = "wipe"
    BY DEF accel_make_persistent_key, TypeOK, Set
  <2> QED
    BY <2>1, LateStay DEF accel_make_persistent_key, history
<1> QED
  BY <1>1, <1>2, <1>4, <1>5, <1>6, <1>7, <1>8

\* So it does when the path is entered for the key.
LEMMA KeySectionStep ==
    ASSUME Inv, NEW p \in Proc, KeySection(p)
    PROVE  Inv'
<1> USE DEF Inv
<1>0. include_path[p] \in IncludePath /\ Register(p, include_path[p])
  BY DEF TypeOK, KeySection
<1>1. /\ TableType' /\ Table'
      /\ cached' = cached
      /\ flags' \in BOOLEAN \X BOOLEAN
      /\ \A i \in DOMAIN include_paths :
            i \in DOMAIN include_paths' /\ include_paths'[i] = include_paths[i]
      /\ \A i \in DOMAIN include_paths' \ DOMAIN include_paths : i \in Letter
      /\ include_path_key' \in [Proc -> {Null} \cup Address]
      /\ \A q \in Proc \ {p} : include_path_key'[q] = include_path_key[q]
      /\ \/ include_path_key'[p] = include_path_key[p]
         \/ \E i \in DOMAIN include_paths' :
               /\ include_paths'[i].path = include_path[p]
               /\ include_paths'[i].at = include_path_key'[p]
  BY <1>0, RegisterSound
<1>2. Clean'
  BY <1>1, CleanWithMore DEF KeySection, history
<1>3. /\ key' = Set(key, p, IF include_path_key'[p] = Null THEN include_path[p]
                            ELSE memory'[include_path_key'[p]])
      /\ include_path' = include_path /\ UNCHANGED history
      /\ stale' = stale /\ tainted' = tainted /\ late' = late
      /\ pc' = Set(pc, p, "use") /\ pc[p] = "key_lock"
      /\ UNCHANGED <<back, counted, include_path_check>>
  BY DEF KeySection, history
<1>4. TypeOK'
  <2>1. include_path_key'[p] # Null => memory'[include_path_key'[p]] \in Suffix
    BY <1>1 DEF TableType, Suffix
  <2>2. include_path[p] \in Suffix
    BY <1>0, Letters
  <2>3. key' \in [Proc -> Suffix]
    BY <1>3, <2>1, <2>2 DEF TypeOK, Set
  <2> QED
    BY <1>1, <1>3, <2>3 DEF TypeOK, TableType, Entry, Set, flags
<1>5. \A q \in Proc \ {p} : OwnLetter(q)' /\ OwnKey(q)'
  <2> SUFFICES ASSUME NEW q \in Proc, q # p
               PROVE  OwnLetter(q)' /\ OwnKey(q)'
    OBVIOUS
  <2>1. pc'[q] = pc[q] /\ key'[q] = key[q]
    BY <1>3 DEF TypeOK, Set
  <2> QED
    BY <1>1, <1>3, <2>1, OthersKeep DEF HasKey
<1>6. OwnLetter(p)'
  BY <1>1, <1>3 DEF OwnLetter, Owns
<1>7. OwnKey(p)'
  <2>1. CASE include_path_key'[p] = Null
    BY <2>1, <1>3 DEF OwnKey, TypeOK, Set
  <2>2. CASE include_path_key'[p] # Null
    <3> SUFFICES ASSUME p \notin stale'
                 PROVE  OwnKey(p)'
      BY DEF OwnKey
    <3>1. PICK i \in DOMAIN include_paths' : Owns(p, i, include_path_key[p])'
      BY <1>6, <2>2 DEF OwnLetter
    <3>2. memory'[include_path_key'[p]] = i
      BY <1>1, <3>1 DEF Owns, Table
    <3>3. key'[p] = i
      BY <1>3, <2>2, <3>2 DEF TypeOK, Set
    <3> QED
      BY <3>1, <3>3 DEF OwnKey
  <2> QED
    BY <2>1, <2>2
<1>8. \A q \in Proc : Control(q)'
  BY <1>3 DEF TypeOK, Set, Control
<1>9. OnlyLateCounted'
  <2>1. \A q \in Proc : pc'[q] = "wipe" => pc[q] = "wipe"
    BY <1>3 DEF TypeOK, Set
  <2> QED
    BY <1>3, <2>1, LateStay
<1> QED
  BY <1>1, <1>2, <1>4, <1>5, <1>6, <1>7, <1>8, <1>9

\* Steps after which every process has the letter and the key that it had.
LEMMA QuietStep ==
    ASSUME Inv, NEW p \in Proc,
           \/ persistent_compile_file(p) \/ accel_activate_add(p)
           \/ persistent_zend_resolve_path(p) \/ opcache_reset(p)
           \/ accel_deactivate(p) \/ Use(p) \/ accel_activate(p)
    PROVE  Inv'
<1> USE DEF Inv
<1> DEFINE PCs == {"idle", "run", "find", "lock", "make", "key_lock", "use",
                   "count", "wipe"}
<1>1. /\ UNCHANGED <<shared, include_path, include_path_key, stale, tainted>>
      /\ pc' \in [Proc -> PCs] /\ back' \in [Proc -> {"idle", "run", "use"}]
      /\ key' \in [Proc -> Suffix] /\ counted' \in [Proc -> BOOLEAN]
      /\ include_path_check' \in [Proc -> BOOLEAN]
      /\ late' \subseteq Proc
      /\ flags' \in BOOLEAN \X BOOLEAN
  <2> USE DEF persistent_compile_file, accel_activate_add, opcache_reset,
              persistent_zend_resolve_path, accel_deactivate, Use,
              accel_activate
  <2>1. UNCHANGED <<shared, include_path, include_path_key, stale, tainted>>
    BY DEF mine, history
  <2>2. pc' \in [Proc -> PCs] /\ back' \in [Proc -> {"idle", "run", "use"}]
    BY DEF Set, TypeOK, Return, Probe
  <2>3. counted' \in [Proc -> BOOLEAN] /\ include_path_check' \in [Proc -> BOOLEAN]
    BY DEF Set, TypeOK, mine
  <2>4. key' \in [Proc -> Suffix]
    BY Letters DEF Set, TypeOK
  <2>5. flags' \in BOOLEAN \X BOOLEAN
    BY DEF TypeOK, flags, Schedule, Probe
  <2>6. late' \subseteq Proc
    <3>1. \/ late' = late \/ late' = late \cup {p}
          \/ late' = late \ {p} \/ late' = {}
      BY DEF history, Probe
    <3> QED
      BY <3>1 DEF TypeOK
  <2> QED
    BY <2>1, <2>2, <2>3, <2>4, <2>5, <2>6
<1>2. TableType' /\ Table' /\ Clean'
  BY <1>1, SharedSame
<1>3. TypeOK'
  BY <1>1, <1>2 DEF TypeOK, shared, flags
<1>4. \A q \in Proc : OwnLetter(q)' /\ OwnKey(q)'
  <2> SUFFICES ASSUME NEW q \in Proc
               PROVE  OwnLetter(q)' /\ OwnKey(q)'
    OBVIOUS
  <2>1. include_paths' = include_paths
    BY <1>1 DEF shared
  <2>2. HasKey(q)' => HasKey(q) /\ key'[q] = key[q]
    BY DEF persistent_compile_file, accel_activate_add, opcache_reset,
           persistent_zend_resolve_path, accel_deactivate, Use,
           accel_activate, Probe, Return, Set, TypeOK, HasKey
  <2>3. CASE HasKey(q)'
    BY <1>1, <2>1, <2>2, <2>3, OthersKeep
  <2>4. CASE ~HasKey(q)'
    BY <1>1, <2>1, <2>4 DEF OwnLetter, OwnKey, Owns
  <2> QED
    BY <2>3, <2>4
<1>5. \A q \in Proc : Control(q)'
  BY DEF persistent_compile_file, accel_activate_add, opcache_reset,
         persistent_zend_resolve_path, accel_deactivate, Use, accel_activate,
         Probe, Return, Set, TypeOK, Control
<1>6. OnlyLateCounted'
  <2>1. CASE accel_activate_add(p)
    <3>1. /\ \A q \in Proc : pc'[q] = "wipe" => pc[q] = "wipe"
          /\ \A q \in Proc : counted'[q] => counted[q] \/ q = p
      BY <2>1 DEF accel_activate_add, Return, Set, TypeOK
    <3>2. Locked' => Locked /\ late' = late \cup {p}
      BY <2>1, <3>1 DEF accel_activate_add, Locked
    <3> QED
      BY <3>1, <3>2 DEF OnlyLateCounted
  <2>2. CASE accel_activate(p) /\ Probe(p)
    <3>1. \A q \in Proc : ~counted'[q]
      BY <2>2 DEF accel_activate, Probe, Control, TypeOK
    <3>2. \A q \in Proc : pc'[q] = "wipe" => q = p
      BY <2>2 DEF Probe, Locked, Set, TypeOK
    <3> QED
      BY <3>1, <3>2 DEF OnlyLateCounted
  <2>3. CASE ~accel_activate_add(p) /\ ~(accel_activate(p) /\ Probe(p))
    <3> USE <2>3 DEF persistent_compile_file, opcache_reset, accel_activate,
                     persistent_zend_resolve_path, accel_deactivate, Use
    <3>1. \A q \in Proc : pc'[q] = "wipe" => pc[q] = "wipe"
      BY DEF Set, TypeOK
    <3>2. \A q \in Proc : counted'[q] => counted[q]
      BY DEF Set, TypeOK
    <3>3. \A q \in Proc : q \in late /\ counted'[q] => q \in late'
      BY DEF Set, TypeOK, history
    <3> QED
      BY <3>1, <3>2, <3>3, LateStay
  <2> QED
    BY <2>1, <2>2, <2>3
<1> QED
  BY <1>2, <1>3, <1>4, <1>5, <1>6

\* The restart: the letters that are freed are exactly those of processes
\* that are stale from now on.
LEMMA WipeStep ==
    ASSUME Inv, NEW p \in Proc, Wipe(p)
    PROVE  Inv'
<1> USE DEF Inv
<1>1. /\ TableType' /\ Table'
      /\ DOMAIN include_paths' = {1}
      /\ include_paths'[1] = include_paths[1]
      /\ 1 \in DOMAIN include_paths
  <2>1. 1 \in DOMAIN include_paths
    BY LenProperties DEF TypeOK
  <2> QED
    BY <2>1, RestartTable, Letters DEF Wipe
<1>2. /\ UNCHANGED <<back, counted, include_path, include_path_key,
                     include_path_check, key>>
      /\ pc[p] = "wipe" /\ pc' = Set(pc, p, "run")
      /\ stale' = stale \cup {q \in Proc : include_path_key[q] \notin {Null, 1}}
      /\ cached' = [k \in Suffix |-> NoPath]
      /\ tainted' = {} /\ late' = {} /\ flags' \in BOOLEAN \X BOOLEAN
  BY DEF Wipe, flags, mine
<1>3. TypeOK'
  BY <1>1, <1>2 DEF TypeOK, TableType, Entry, Set, flags
<1>4. Clean'
  <2>1. \A k \in Suffix : cached'[k] = NoPath
    BY <1>2
  <2> QED
    BY <1>1, <2>1, Letters DEF Clean
<1>5. \A q \in Proc : OwnLetter(q)' /\ OwnKey(q)'
  <2> SUFFICES ASSUME NEW q \in Proc, q \notin stale'
               PROVE  OwnLetter(q)' /\ OwnKey(q)'
    BY DEF OwnLetter, OwnKey
  <2>1. q \notin stale /\ include_path_key[q] \in {Null, 1}
    BY <1>2
  <2>2. \A i \in DOMAIN include_paths : Owns(q, i, 1) => i = 1 /\ Owns(q, 1, 1)'
    BY <1>1, <1>2 DEF Owns, Table
  <2>3. \A i \in DOMAIN include_paths : ~Owns(q, i, Null)
    BY Letters DEF Owns, Entry, Address, Null
  <2>4. OwnLetter(q)'
    BY <1>1, <1>2, <2>1, <2>2 DEF OwnLetter
  <2>5. OwnKey(q)'
    <3> SUFFICES ASSUME HasKey(q)', key'[q] # include_path'[q]
                 PROVE  key'[q] = 1 /\ Owns(q, 1, include_path_key[q])'
      BY <1>1 DEF OwnKey
    <3>1. HasKey(q)
      BY <1>2 DEF Set, TypeOK, HasKey
    <3>2. PICK i \in DOMAIN include_paths :
             key[q] = i /\ Owns(q, i, include_path_key[q])
      BY <1>2, <2>1, <3>1 DEF OwnKey
    <3>3. include_path_key[q] = 1
      BY <2>1, <2>3, <3>2
    <3> QED
      BY <1>2, <2>2, <3>2, <3>3 DEF Owns
  <2> QED
    BY <2>4, <2>5
<1>6. \A q \in Proc : Control(q)'
  BY <1>2 DEF TypeOK, Set, Control
<1>7. OnlyLateCounted'
  <2>1. \A q \in Proc : pc'[q] # "wipe"
    BY <1>2 DEF OnlyLateCounted, Set, TypeOK
  <2> QED
    BY <2>1 DEF OnlyLateCounted, Locked
<1> QED
  BY <1>1, <1>3, <1>4, <1>5, <1>6, <1>7

\* What a process with a letter of its own stores is clean.
LEMMA StoreStep ==
    ASSUME Inv, NEW p \in Proc, Store(p)
    PROVE  Inv'
<1> USE DEF Inv
<1>1. TableType' /\ Table'
  BY StoreTable, Letters
<1>2. /\ UNCHANGED <<include_paths, flags, back, counted, mine, late, stale>>
      /\ pc[p] = "use" /\ pc' = Set(pc, p, "run") /\ key' = Set(key, p, Default)
      /\ cached' = Set(cached, key[p], include_path[p])
      /\ tainted' = IF p \in stale \/ Ambiguous(p) THEN tainted \cup {key[p]}
                    ELSE tainted \ {key[p]}
  BY DEF Store
<1>3. key[p] \in Suffix /\ include_path[p] \in IncludePath
  BY DEF TypeOK
<1>4. TypeOK'
  BY <1>1, <1>2, <1>3, Letters DEF TypeOK, TableType, Entry, Set, flags, mine
<1>5. \A k \in Suffix : cached'[k] = IF k = key[p] THEN include_path[p] ELSE cached[k]
  BY <1>2 DEF Set, TypeOK
<1>6. Clean'
  <2>1. CASE p \in stale \/ Ambiguous(p)
    BY <1>2, <1>5, <2>1, Letters DEF Clean
  <2>2. CASE p \notin stale /\ ~Ambiguous(p)
    <3>1. \/ key[p] = include_path[p] /\ key[p] \notin Letter
          \/ key[p] \in DOMAIN include_paths /\ include_paths[key[p]].path = include_path[p]
      BY <1>2, <2>2 DEF OwnKey, HasKey, Owns, Ambiguous
    <3>2. tainted' = tainted \ {key[p]}
      BY <1>2, <2>2
    <3>3. ASSUME NEW path \in IncludePath \ (Letter \cup tainted')
          PROVE  cached'[path] \in {NoPath, path}
      <4>1. path = key[p] => path = include_path[p]
        BY <3>1, Letters
      <4> QED
        BY <1>5, <3>2, <4>1, Letters DEF Clean
    <3>4. ASSUME NEW i \in DOMAIN include_paths \ tainted'
          PROVE  cached'[i] \in {NoPath, include_paths[i].path}
      <4>1. i = key[p] => include_paths[i].path = include_path[p]
        BY <3>1, Letters
      <4> QED
        BY <1>5, <3>2, <4>1, Letters DEF Clean
    <3>5. ASSUME NEW i \in Letter \ (DOMAIN include_paths \cup tainted')
          PROVE  cached'[i] = NoPath
      <4>1. i # key[p]
        BY <3>1, Letters
      <4> QED
        BY <1>5, <3>2, <4>1, Letters DEF Clean
    <3> QED
      BY <1>2, <3>3, <3>4, <3>5 DEF Clean
  <2> QED
    BY <2>1, <2>2
<1>7. \A q \in Proc : OwnLetter(q)' /\ OwnKey(q)'
  <2> SUFFICES ASSUME NEW q \in Proc
               PROVE  OwnLetter(q)' /\ OwnKey(q)'
    OBVIOUS
  <2>1. CASE q = p
    BY <2>1, <1>2 DEF OwnLetter, OwnKey, HasKey, Owns, Set, TypeOK, mine
  <2>2. CASE q # p
    <3>1. pc'[q] = pc[q] /\ key'[q] = key[q]
      BY <2>2, <1>2 DEF Set, TypeOK
    <3> QED
      BY <3>1, <1>2, OthersKeep DEF HasKey, mine
  <2> QED
    BY <2>1, <2>2
<1>8. \A q \in Proc : Control(q)'
  BY <1>2 DEF TypeOK, Set, Control
<1>9. OnlyLateCounted'
  <2>1. \A q \in Proc : pc'[q] = "wipe" => pc[q] = "wipe"
    BY <1>2 DEF TypeOK, Set
  <2> QED
    BY <1>2, <2>1, LateStay
<1> QED
  BY <1>1, <1>4, <1>6, <1>7, <1>8, <1>9

-----------------------------------------------------------------------------
(* The theorems.                                                           *)

\* The startup has entered the first path.
LEMMA InitInv == Init => Inv
<1> SUFFICES ASSUME Init
             PROVE  Inv
  OBVIOUS
<1> DEFINE e == [path |-> Default, at |-> 1]
<1>1. e \in Entry /\ 1 \in Letter /\ Size \in Nat \ {0} /\ Room \in Nat \ {0}
  BY PathAssumption DEF Entry, Letter, Address
<1>2. include_paths = <<e>>
  BY DEF Init
<1> HIDE DEF e
<1>3. /\ include_paths \in Seq(Entry) /\ Len(include_paths) = 1
      /\ DOMAIN include_paths = {1} /\ include_paths[1] = e
  BY <1>1, <1>2
<1>4. TypeOK
  <2>1. memory \in [Address -> Letter \cup {Other}]
    BY <1>1 DEF Init
  <2>2. include_paths \in Seq([path : IncludePath, at : Address])
    BY <1>3 DEF Entry
  <2>3. Len(include_paths) \in 1..Size /\ top \in 1..(Room + 1)
    BY <1>1, <1>3 DEF Init
  <2>4. cached \in [Suffix -> IncludePath \cup {NoPath}]
    BY DEF Init
  <2>5. /\ include_path_key \in [Proc -> {Null} \cup Address]
        /\ include_path \in [Proc -> IncludePath] /\ key \in [Proc -> Suffix]
    BY <1>1, PathAssumption DEF Init, Address, Suffix
  <2> QED
    BY <2>1, <2>2, <2>3, <2>4, <2>5 DEF Init, TypeOK
<1>5. Table
  BY <1>1, <1>3 DEF Init, Table, e, Address
<1>6. \A p \in Proc : OwnLetter(p) /\ OwnKey(p) /\ Control(p)
  <2> SUFFICES ASSUME NEW p \in Proc
               PROVE  OwnLetter(p) /\ OwnKey(p) /\ Control(p)
    OBVIOUS
  <2>1. include_path_key[p] = 1 /\ include_path[p] = Default
        /\ pc[p] = "idle" /\ counted[p] = FALSE /\ key[p] = Default
        /\ back[p] = "idle"
    BY DEF Init
  <2>2. Owns(p, 1, 1)
    BY <1>3, <2>1 DEF Owns, e
  <2> QED
    BY <1>3, <2>1, <2>2 DEF OwnLetter, OwnKey, Control
<1>7. Clean
  BY <1>3, <1>4, Letters DEF Init, Clean
<1>8. OnlyLateCounted
  BY DEF Init, OnlyLateCounted, Locked
<1> QED
  BY <1>4, <1>5, <1>6, <1>7, <1>8 DEF Inv

\* Every step keeps the invariant.
LEMMA NextInv == Inv /\ [Next]_vars => Inv'
<1> SUFFICES ASSUME Inv, [Next]_vars
             PROVE  Inv'
  OBVIOUS
<1>1. CASE UNCHANGED vars
  <2>1. UNCHANGED shared /\ UNCHANGED flags /\ UNCHANGED mine /\ UNCHANGED history
        /\ UNCHANGED <<pc, back, counted, key>>
    BY <1>1 DEF vars
  <2>2. TypeOK'
    BY <2>1 DEF Inv, TypeOK, shared, flags, mine, history
  <2>3. Table' /\ Clean'
    BY <2>1 DEF Inv, Table, Clean, shared, history
  <2>4. \A p \in Proc : OwnLetter(p)' /\ OwnKey(p)' /\ Control(p)'
    BY <2>1 DEF Inv, OwnLetter, OwnKey, HasKey, Owns, Control, shared, mine, history
  <2>5. OnlyLateCounted'
    BY <2>1, LateStay DEF Inv, history
  <2> QED
    BY <2>2, <2>3, <2>4, <2>5 DEF Inv
<1>2. CASE Next
  BY <1>2, ModifyStep, FindStep, SectionStep, QuietStep, WipeStep, KeyStep,
     KeySectionStep, StoreStep DEF Next
<1> QED
  BY <1>1, <1>2

\* The invariant holds in all behaviours.
LEMMA Invariance == Spec => []Inv
BY InitInv, NextInv, PTL DEF Spec

\* The variables keep their types.
THEOREM TypeCorrect == Spec => []TypeOK
<1>1. Inv => TypeOK
  BY DEF Inv
<1> QED
  BY <1>1, Invariance, PTL

\* No include path has two entries in ZCSG(include_paths), and the letter
\* that accel_include_path_on_modify stored for an entry stays its own.
THEOREM LettersStayCorrect == Spec => []LettersStay
<1>1. Inv => LettersStay
  BY DEF Inv, Table, LettersStay
<1> QED
  BY <1>1, Invariance, PTL

\* A process whose letter was not freed under it finds scripts of its own
\* include path only, unless its whole path is the end of the key and looks
\* like a letter, or what it finds was stored under such a key, or with a
\* letter that was freed (accel_make_persistent_key_ex).
THEOREM FreshKeysCorrect == Spec => []FreshKeysMeanPaths
<1>1. Inv => FreshKeysMeanPaths
  <2> SUFFICES ASSUME Inv, NEW p \in Proc \ stale, pc[p] = "use",
                      ~Ambiguous(p), key[p] \notin tainted
               PROVE  cached[key[p]] \in {NoPath, include_path[p]}
    BY DEF FreshKeysMeanPaths
  <2>1. CASE key[p] = include_path[p]
    BY <2>1 DEF Inv, Clean, TypeOK, Ambiguous
  <2>2. CASE \E i \in DOMAIN include_paths :
                key[p] = i /\ Owns(p, i, include_path_key[p])
    BY <2>2 DEF Inv, Clean, Owns
  <2> QED
    BY <2>1, <2>2 DEF Inv, OwnKey, HasKey
<1> QED
  BY <1>1, Invariance, PTL

\* accel_activate frees no letter under a request that was counted when it
\* asked accel_is_inactive, nor that of the path of the startup.
THEOREM CountedStaysFreshCorrect == Spec => CountedStaysFresh
<1> DEFINE Fresh(p) == p \in stale' \ stale =>
                          (counted[p] => p \in late) /\ include_path[p] # Default
           Step == \A p \in Proc : Fresh(p)
<1>1. Inv /\ [Next]_vars => [Step]_vars
  <2> SUFFICES ASSUME Inv, Next
               PROVE  Step
    OBVIOUS
  <2>1. ASSUME NEW r \in Proc, Wipe(r), NEW p \in Proc
        PROVE  Fresh(p)
    <3> SUFFICES ASSUME p \in stale' \ stale
                 PROVE  (counted[p] => p \in late) /\ include_path[p] # Default
      OBVIOUS
    <3>1. include_path_key[p] \notin {Null, 1}
      BY <2>1 DEF Wipe
    <3>2. PICK i \in DOMAIN include_paths : Owns(p, i, include_path_key[p])
      BY <3>1 DEF Inv, OwnLetter
    <3>3. i # 1 /\ 1 \in DOMAIN include_paths
      BY <3>1, <3>2, LenProperties DEF Owns, Inv, Table, TypeOK
    <3>4. include_path[p] # Default
      BY <3>2, <3>3 DEF Owns, Inv, Table
    <3>5. counted[p] => p \in late
      BY <2>1 DEF Wipe, Inv, OnlyLateCounted, Locked
    <3> QED
      BY <3>4, <3>5
  <2>2. ASSUME NEW r \in Proc, NEW p \in Proc,
               \/ accel_include_path_on_modify(r) \/ ModifyFind(r)
               \/ ModifySection(r) \/ accel_activate(r)
               \/ persistent_compile_file(r) \/ accel_activate_add(r)
               \/ opcache_reset(r) \/ accel_deactivate(r)
               \/ persistent_zend_resolve_path(r)
               \/ accel_make_persistent_key(r) \/ KeySection(r) \/ Use(r)
               \/ Store(r)
        PROVE  Fresh(p)
    BY <2>2 DEF accel_include_path_on_modify, ModifyFind, ModifySection,
                accel_activate, persistent_compile_file, accel_activate_add,
                opcache_reset, accel_deactivate, persistent_zend_resolve_path,
                accel_make_persistent_key, KeySection, Use, Store, history
  <2> QED
    BY <2>1, <2>2 DEF Next
<1> QED
  BY <1>1, Invariance, PTL DEF Spec, CountedStaysFresh
=============================================================================
