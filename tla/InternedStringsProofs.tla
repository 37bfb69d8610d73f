----------------------- MODULE InternedStringsProofs -----------------------
(***************************************************************************)
(* The interned strings stay whole, are interned once, and are found and   *)
(* linked as they should be: for all strings, tables, sizes of the buffer, *)
(* scripts and numbers of killed processes.                                *)
(***************************************************************************)
EXTENDS InternedStrings, SequenceTheorems, TLAPS

-----------------------------------------------------------------------------
(* The inductive invariant.                                                *)

Link == Address \cup {Null}

\* The whole strings below an address.
Below(t) == {x \in DOMAIN mem : x < t}

\* The index of a string in the table.
At(x) == Hash[mem[x].str]

Job == [at : {"find", "enter", "append", "restore", "free"},
        todo : Seq(String), refs : SUBSET Reference,
        p : Link \cup 0..nTableSize]

Types ==
    /\ DOMAIN mem \subseteq Address
    /\ mem \in [DOMAIN mem -> NodeType]
    /\ arBuckets \in [Index -> Link]
    /\ pListHead \in Link /\ pListTail \in Link
    /\ top \in 0..End
    /\ saved \in Saved /\ saved.top <= top
    /\ kills \in Nat
    /\ job \in Job

\* Strings do not overlap, nor reach over the top or the saved one, and
\* those below the top lead down a chain of strings with the same index.
Whole ==
    /\ \A x, y \in DOMAIN mem : x < y => x + Size[mem[x].str] <= y
    /\ \A x \in Below(top) : x + Size[mem[x].str] <= top
    /\ \A x \in Below(saved.top) : x + Size[mem[x].str] <= saved.top
    /\ \A x \in Below(top) :
         mem[x].pNext # Null => mem[x].pNext \in Below(x) /\ At(mem[x].pNext) = At(x)

\* A table whose chains hold strings below t, each once.
Sound(b, t) ==
    \A i \in Index :
        /\ b[i] # Null => b[i] \in Below(t) /\ At(b[i]) = i
        /\ \A x, y \in Chain(b[i]) : mem[x].str = mem[y].str => x = y

\* What was saved is all in the saved table, whose chains are the ends of
\* those of the table in use.
Tables ==
    /\ Sound(arBuckets, top) /\ Sound(saved.arBuckets, saved.top)
    /\ \A i \in Index :
         saved.arBuckets[i] # Null => saved.arBuckets[i] \in Chain(arBuckets[i])
    /\ \A x \in Below(saved.top) : x \in Chain(saved.arBuckets[At(x)])

\* A reference leads to its string, below t.
Holds(r, t) == r[2] \in Below(t) /\ mem[r[2]].str = r[1]

References ==
    /\ \A r \in php : Holds(r, saved.top)
    /\ \A r \in scripts \cup job.refs : Holds(r, top)

\* What the process with the lock has done so far.
Progress ==
    /\ ~accel_startup_ok =>
         job.at \in {"find", "enter", "append"} /\ kills = 0
    /\ job.at \in {"enter", "append"} =>
         /\ job.todo # <<>>
         /\ job.p \in Below(top) /\ job.p >= saved.top
         /\ mem[job.p].pListNext = Null
    /\ job.at = "enter" =>
         /\ mem[job.p].pLast = Null
         /\ mem[job.p].pNext = arBuckets[At(job.p)]
         /\ \A x \in Chain(arBuckets[At(job.p)]) :
              mem[x].str # mem[job.p].str
    /\ job.at = "restore" =>
         /\ scripts = {} /\ job.refs = {}
         /\ job.p \in 0..nTableSize
         /\ \A i \in Index : i < job.p =>
              /\ arBuckets[i] = saved.arBuckets[i]
              /\ arBuckets[i] # Null => mem[arBuckets[i]].pLast = Null

Safe == Types /\ Whole /\ Tables /\ References /\ Progress

\* The chains of the strings of S lead back as they lead forth.
ChainsBack(S) ==
    \A a \in S :
        /\ mem[a].pNext # Null => mem[mem[a].pNext].pLast = a
        /\ mem[a].pLast # Null => mem[a].pLast \in S /\ mem[mem[a].pLast].pNext = a

\* The strings of S are a list from head to tail.
Listed(S, head, tail) ==
    /\ head = Null <=> tail = Null
    /\ head # Null => head \in S /\ mem[head].pListLast = Null
    /\ tail # Null => tail \in S
    /\ \A a \in S :
         /\ a # tail => /\ mem[a].pListNext \in S
                        /\ mem[mem[a].pListNext].pListLast = a
         /\ IF mem[a].pListLast = Null THEN a = head ELSE mem[a].pListLast \in S

\* The strings that are in their chain, and those that are in the list.
Chained == IF job.at = "enter" THEN Below(top) \ {job.p} ELSE Below(top)
Ordered ==
    IF job.at \in {"enter", "append"} THEN Below(top) \ {job.p} ELSE Below(top)

\* As long as no process was killed, every string below the top is linked
\* in, but for the one in hand.
InUse ==
    /\ \A x \in Chained : x \in Chain(arBuckets[At(x)])
    /\ ChainsBack(Chained)
    /\ Listed(Ordered, pListHead, pListTail)
    /\ pListTail # Null => mem[pListTail].pListNext = Null

\* The saved strings are linked among themselves, but that the first of a
\* chain and the last of the list may lead on to later ones.
InReserve ==
    LET S == Below(saved.top) IN
    /\ \A a \in S :
         /\ mem[a].pNext # Null => mem[mem[a].pNext].pLast = a
         /\ a # saved.arBuckets[At(a)] /\ mem[a].pLast # Null =>
              mem[a].pLast \in S /\ mem[mem[a].pLast].pNext = a
    /\ Listed(S, saved.pListHead, saved.pListTail)
    /\ pListTail = saved.pListTail \/ pListTail >= saved.top

Linked ==
    /\ kills = 0 /\ job.at # "restore" => InUse
    /\ kills = 0 => InReserve

Inv == Safe /\ Linked

-----------------------------------------------------------------------------
(* Chains.                                                                 *)

\* No string is there.
LEMMA NullIsNowhere == Null \notin Address
BY DEF Null, Address

\* A memory in which pNext leads from string to string, or nowhere.
Memory(m) == \A y \in DOMAIN m : m[y].pNext \in Link

\* A set that holds the first string and is closed holds the chain.
LEMMA FollowWithin ==
    ASSUME NEW m, NEW a, NEW C \in SUBSET Address, a \in C \cup {Null},
           \A y \in C \cap DOMAIN m : m[y].pNext \in C \cup {Null}
    PROVE  Follow(m, a) \subseteq C
BY DEF Follow

\* The chain holds the first string, if there is one.
LEMMA FollowBegins ==
    ASSUME NEW m, NEW a \in Link
    PROVE  /\ a # Null => a \in Follow(m, a)
           /\ a = Null => Follow(m, a) = {}
<1>1. a # Null => a \in Follow(m, a)
  BY DEF Follow, Link
<1>2. Follow(m, Null) \subseteq {}
  <2>1. {} \in SUBSET Address
    OBVIOUS
  <2> QED
    BY <2>1, FollowWithin
<1> QED
  BY <1>1, <1>2

\* The chain is closed.
LEMMA FollowGoesOn ==
    ASSUME NEW m, Memory(m), NEW a, NEW x \in Follow(m, a) \cap DOMAIN m
    PROVE  m[x].pNext \in Follow(m, a) \cup {Null}
<1> SUFFICES ASSUME m[x].pNext # Null
             PROVE  m[x].pNext \in Follow(m, a)
  OBVIOUS
<1>1. m[x].pNext \in Address
  BY DEF Memory, Link
<1>2. ASSUME NEW C \in SUBSET Address, a \in C \cup {Null},
             \A y \in C \cap DOMAIN m : m[y].pNext \in C \cup {Null}
      PROVE  m[x].pNext \in C
  <2>1. x \in C
    BY <1>2, FollowWithin
  <2> QED
    BY <1>2, <2>1
<1> QED
  BY <1>1, <1>2 DEF Follow

\* The chain from a string of the chain is part of it.
LEMMA FollowOn ==
    ASSUME NEW m, Memory(m), NEW a, NEW b \in Follow(m, a)
    PROVE  Follow(m, b) \subseteq Follow(m, a)
<1>1. Follow(m, a) \in SUBSET Address
  BY DEF Follow
<1>2. \A y \in Follow(m, a) \cap DOMAIN m :
        m[y].pNext \in Follow(m, a) \cup {Null}
  BY FollowGoesOn
<1> QED
  BY <1>1, <1>2, FollowWithin

\* From a string, the chain is it and the chain from the next one.
LEMMA FollowFirst ==
    ASSUME NEW m, Memory(m), NEW a \in Address, a \in DOMAIN m
    PROVE  Follow(m, a) = {a} \cup Follow(m, m[a].pNext)
<1> DEFINE n == m[a].pNext
           C == {a} \cup Follow(m, n)
<1>1. n \in Link /\ a \in Follow(m, a)
  BY NullIsNowhere, FollowBegins DEF Memory, Link
<1>2. Follow(m, n) \subseteq Address
  BY DEF Follow
<1>3. Follow(m, n) \subseteq Follow(m, a)
  <2>1. n \in Follow(m, a) \cup {Null}
    BY <1>1, FollowGoesOn
  <2>2. CASE n = Null
    BY <1>1, <2>2, FollowBegins
  <2>3. CASE n # Null
    BY <2>1, <2>3, FollowOn
  <2> QED
    BY <2>2, <2>3
<1>4. n \in C \cup {Null}
  BY <1>1, FollowBegins
<1>5. \A y \in C \cap DOMAIN m : m[y].pNext \in C \cup {Null}
  BY <1>4, FollowGoesOn
<1>6. C \in SUBSET Address /\ a \in C \cup {Null}
  BY <1>2
<1> HIDE DEF C, n
<1>7. Follow(m, a) \subseteq C
  BY <1>5, <1>6, FollowWithin
<1> QED
  BY <1>1, <1>3, <1>7 DEF C, n

\* Two memories that agree on a closed set of strings have the same chains
\* there.
LEMMA FollowAgrees ==
    ASSUME NEW m, NEW n, NEW C \in SUBSET Address,
           C \subseteq DOMAIN m, C \subseteq DOMAIN n,
           \A y \in C : m[y].pNext \in C \cup {Null} /\ n[y].pNext = m[y].pNext,
           NEW a \in C \cup {Null}
    PROVE  Follow(m, a) = Follow(n, a)
<1>1. Follow(m, a) \subseteq C /\ Follow(n, a) \subseteq C
  BY FollowWithin
<1>2. ASSUME NEW x \in Follow(m, a), NEW D \in SUBSET Address,
             a \in D \cup {Null},
             \A y \in D \cap DOMAIN n : n[y].pNext \in D \cup {Null}
      PROVE  x \in D
  <2> DEFINE E == C \cap D
  <2>1. E \in SUBSET Address /\ a \in E \cup {Null}
    BY <1>2
  <2>2. \A y \in E : m[y].pNext \in E \cup {Null} /\ n[y].pNext \in E \cup {Null}
    BY <1>2
  <2>3. E \subseteq D
    OBVIOUS
  <2> HIDE DEF E
  <2> QED
    BY <1>2, <2>1, <2>2, <2>3, FollowWithin
<1>3. ASSUME NEW x \in Follow(n, a), NEW D \in SUBSET Address,
             a \in D \cup {Null},
             \A y \in D \cap DOMAIN m : m[y].pNext \in D \cup {Null}
      PROVE  x \in D
  <2> DEFINE E == C \cap D
  <2>1. E \in SUBSET Address /\ a \in E \cup {Null}
    BY <1>3
  <2>2. \A y \in E : m[y].pNext \in E \cup {Null} /\ n[y].pNext \in E \cup {Null}
    BY <1>3
  <2>3. E \subseteq D
    OBVIOUS
  <2> HIDE DEF E
  <2> QED
    BY <1>3, <2>1, <2>2, <2>3, FollowWithin
<1> QED
  BY <1>1, <1>2, <1>3 DEF Follow
-----------------------------------------------------------------------------
(* The chains of a state.                                                  *)

\* What the next string of a string may be.
LEMMA MemoryIsLinked == ASSUME Types PROVE Memory(mem)
BY DEF Types, Memory, NodeType, Link

\* Chains that begin below the top go down through whole strings there, all
\* with the same index.
LEMMA ChainGoesDown ==
    ASSUME Types, Whole, NEW t \in {top, saved.top}, NEW a \in Below(t),
           NEW x \in Chain(a)
    PROVE  x \in Below(t) /\ x <= a /\ At(x) = At(a)
<1> DEFINE C == {y \in Below(t) : y <= a /\ At(y) = At(a)}
<1>1. t \in Int /\ t <= top /\ top \in Int
  BY StringAssumption DEF Types, Saved
<1>2. Below(t) \subseteq Below(top) /\ Below(t) \subseteq Address
  <2>1. \A y \in DOMAIN mem : y \in Int
    BY DEF Types, Address
  <2> QED
    BY <1>1, <2>1 DEF Below, Types
<1>3. C \in SUBSET Address /\ a \in C
  BY <1>2 DEF Address
<1>4. ASSUME NEW y \in C, mem[y].pNext # Null
      PROVE  mem[y].pNext \in C
  <2>1. mem[y].pNext \in Below(y) /\ At(mem[y].pNext) = At(y)
    BY <1>2, <1>4 DEF Whole
  <2>2. y \in DOMAIN mem /\ y < t /\ y <= a /\ At(y) = At(a)
    BY DEF Below
  <2>3. mem[y].pNext \in DOMAIN mem /\ mem[y].pNext < y
    BY <2>1 DEF Below
  <2>4. \A z \in DOMAIN mem : z \in Int
    BY DEF Types, Address
  <2>5. mem[y].pNext < t /\ mem[y].pNext <= a
    BY <1>1, <2>2, <2>3, <2>4 DEF Below
  <2> QED
    BY <2>1, <2>2, <2>3, <2>5 DEF Below
<1> HIDE DEF C
<1>5. Chain(a) \subseteq C
  BY <1>3, <1>4, FollowWithin DEF Chain
<1> QED
  BY <1>5 DEF C

\* Chains below the top stay what they are when the strings there stay, and
\* their pNext.
LEMMA ChainStays ==
    ASSUME Types, Whole, NEW m, NEW a \in Below(top) \cup {Null},
           \A x \in Below(top) : x \in DOMAIN m /\ m[x].pNext = mem[x].pNext
    PROVE  Follow(m, a) = Chain(a)
<1>1. Below(top) \in SUBSET Address /\ Below(top) \subseteq DOMAIN mem
  BY DEF Below, Types
<1>2. \A x \in Below(top) : mem[x].pNext \in Below(top) \cup {Null}
  <2>1. \A x \in DOMAIN mem : x \in Int
    BY DEF Types, Address
  <2>2. top \in Int
    BY StringAssumption DEF Types
  <2>3. ASSUME NEW x \in Below(top), mem[x].pNext # Null
        PROVE  mem[x].pNext \in Below(top)
    <3>1. mem[x].pNext \in DOMAIN mem /\ mem[x].pNext < x
      BY <2>3 DEF Below, Whole
    <3>2. x \in DOMAIN mem /\ x < top
      BY DEF Below
    <3>3. mem[x].pNext < top
      BY <2>1, <2>2, <3>1, <3>2
    <3> QED
      BY <3>1, <3>3 DEF Below
  <2> QED
    BY <2>3
<1> QED
  BY <1>1, <1>2, FollowAgrees DEF Chain

\* What a table refers to, and its chains.
LEMMA ChainOfTable ==
    ASSUME Types, Whole, NEW i \in Index, NEW b, NEW t \in {top, saved.top},
           Sound(b, t), NEW x \in Chain(b[i])
    PROVE  b[i] \in Below(t) /\ x \in Below(t) /\ x <= b[i] /\ At(x) = i
<1>1. b[i] # Null
  BY FollowBegins DEF Chain, Link
<1>2. b[i] \in Below(t) /\ At(b[i]) = i
  BY <1>1 DEF Sound
<1> QED
  BY <1>2, ChainGoesDown

\* Strings below the saved top lie below the top.
LEMMA SavedIsBelow ==
    ASSUME Types
    PROVE  /\ top \in Int /\ saved.top \in Int /\ saved.top <= top
           /\ Below(saved.top) \subseteq Below(top)
           /\ Below(top) \subseteq DOMAIN mem /\ \A x \in DOMAIN mem : x \in Int
           /\ Below(top) \subseteq Address
<1>1. \A x \in DOMAIN mem : x \in Int
  BY DEF Types, Address
<1>2. top \in Int /\ saved.top \in Int /\ saved.top <= top
  BY StringAssumption DEF Types, Saved
<1> QED
  BY <1>1, <1>2 DEF Below, Types

-----------------------------------------------------------------------------
(* The initial states.                                                     *)

\* The invariant holds at the start.
LEMMA Initially == Init => Inv
<1> SUFFICES ASSUME Init
             PROVE  Inv
  OBVIOUS
<1> USE DEF Init
<1>1. DOMAIN mem = {}
  OBVIOUS
<1>2. mem \in [DOMAIN mem -> NodeType]
  BY <1>1
<1>3. /\ job.at = "find" /\ job.todo = Startup /\ job.refs = {}
      /\ job \in Job
  BY StringAssumption DEF Free, Job, Link
<1>4. Types
  BY <1>1, <1>2, <1>3, StringAssumption DEF Types, Link, Saved
<1>5. \A t : Below(t) = {}
  BY <1>1 DEF Below
<1>6. \A i \in Index : arBuckets[i] = Null /\ saved.arBuckets[i] = Null
  OBVIOUS
<1>7. Chain(Null) = {}
  BY FollowBegins DEF Chain, Link
<1>8. Whole /\ Tables
  BY <1>1, <1>5, <1>6, <1>7 DEF Whole, Tables, Sound
<1>9. References /\ Progress
  BY <1>3 DEF References, Progress
<1>10. Linked
  <2>1. Below(top) = {} /\ Below(saved.top) = {}
    BY <1>5
  <2>2. Chained = {} /\ Ordered = {}
    BY <2>1 DEF Chained, Ordered
  <2> QED
    BY <2>1, <2>2 DEF Linked, InUse, InReserve, ChainsBack, Listed
<1> QED
  BY <1>4, <1>8, <1>9, <1>10 DEF Inv, Safe

-----------------------------------------------------------------------------
(* The steps that leave the table as it is.                                *)

Quiet == UNCHANGED <<mem, arBuckets, pListHead, pListTail, top, saved>>

\* They keep what is said of the memory and the tables.
LEMMA QuietKeeps ==
    ASSUME Safe, Linked, Quiet
    PROVE  /\ Whole' /\ Tables'
           /\ kills' \in Nat /\ job' \in Job => Types'
           /\ kills = 0 => InReserve'
           /\ /\ kills = 0 /\ job.at \in {"find", "free"}
              /\ job'.at \in {"find", "free"}
              => InUse'
           /\ \A r, t : Holds(r, t) => /\ r[2] \in {x \in DOMAIN mem' : x < t}
                                       /\ mem'[r[2]].str = r[1]
<1> USE DEF Quiet
<1>1. Whole' /\ Tables'
  BY DEF Safe, Whole, Tables, Sound, Below, At, Chain
<1>2. kills' \in Nat /\ job' \in Job => Types'
  BY DEF Safe, Types
<1>3. kills = 0 => InReserve'
  BY DEF Linked, InReserve, Listed, Below, At
<1>4. ASSUME kills = 0, job.at \in {"find", "free"},
             job'.at \in {"find", "free"}
      PROVE  InUse'
  <2>1. InUse
    BY <1>4 DEF Linked
  <2>2. Chained' = Chained /\ Ordered' = Ordered
    BY <1>4 DEF Chained, Ordered, Below
  <2> QED
    BY <2>1, <2>2 DEF InUse, ChainsBack, Listed, At, Chain
<1>5. \A r, t : Holds(r, t) => /\ r[2] \in {x \in DOMAIN mem' : x < t}
                               /\ mem'[r[2]].str = r[1]
  BY DEF Holds, Below
<1> QED
  BY <1>1, <1>2, <1>3, <1>4, <1>5

\* References stay good when they lead where they did.
LEMMA QuietRefers ==
    ASSUME Safe, Linked, Quiet, php' = php,
           \A r \in scripts' \cup job'.refs : Holds(r, top)
    PROVE  References'
<1>1. \A r \in php : Holds(r, saved.top)
  BY DEF Safe, References
<1>2. \A r, t : Holds(r, t) => /\ r[2] \in {x \in DOMAIN mem' : x < t}
                               /\ mem'[r[2]].str = r[1]
  BY QuietKeeps
<1>3. top' = top /\ saved' = saved
  BY DEF Quiet
<1> QED
  BY <1>1, <1>2, <1>3 DEF References, Holds, Below

\* Of the progress, only restoring needs the table.
LEMMA QuietProgress ==
    ASSUME Safe, Quiet, job'.at \in {"find", "free"},
           ~accel_startup_ok' => job'.at = "find" /\ kills' = 0
    PROVE  Progress'
BY DEF Progress

\* What is linked stays so, but for those that were being linked in by a
\* process that was killed.
LEMMA QuietLinked ==
    ASSUME Safe, Linked, Quiet, kills' \in Nat,
           kills' = 0 => /\ kills = 0
                         /\ \/ /\ job.at \in {"find", "free"}
                               /\ job'.at \in {"find", "free"}
                            \/ job'.at = "restore"
    PROVE  Linked'
BY QuietKeeps DEF Linked

\* FindString finds the string under its own index, and so a whole one.
LEMMA FindStringKeeps == ASSUME Inv, FindString PROVE Inv'
<1> DEFINE s == Head(job.todo)
<1>1. PICK a \in Lookup(s) :
        job' = [job EXCEPT !.todo = Tail(@), !.refs = @ \cup {<<s, a>>}]
  BY DEF FindString
<1>2. /\ Quiet /\ UNCHANGED <<php, scripts, accel_startup_ok, kills>>
      /\ job.at = "find" /\ job.todo # <<>>
  BY DEF FindString, Quiet, table, flags
<1>3. /\ Types /\ Whole /\ Tables /\ job.todo \in Seq(String) /\ kills \in Nat
      /\ Safe /\ Linked /\ job \in Job
  BY DEF Inv, Safe, Types, Job
<1>4. Tail(job.todo) \in Seq(String) /\ s \in String
  BY <1>2, <1>3, HeadTailProperties
<1>5. Hash[s] \in Index
  BY <1>4, StringAssumption
<1>6. a \in Chain(arBuckets[Hash[s]]) /\ mem[a].str = s
  BY <1>1 DEF Lookup
<1>7. a \in Below(top) /\ a \in Address
  BY <1>3, <1>5, <1>6, ChainOfTable, SavedIsBelow DEF Tables
<1>8. /\ job' \in Job /\ job'.at = "find"
      /\ job'.refs = job.refs \cup {<<s, a>>}
  <2>1. {<<s, a>>} \in SUBSET Reference
    BY <1>4, <1>7 DEF Reference
  <2>2. job' = [at |-> job.at, todo |-> Tail(job.todo),
                refs |-> job.refs \cup {<<s, a>>}, p |-> job.p]
    BY <1>1, <1>3 DEF Job
  <2> QED
    BY <1>2, <1>3, <1>4, <2>1, <2>2 DEF Job
<1>9. References'
  <2>1. Holds(<<s, a>>, top)
    BY <1>6, <1>7 DEF Holds
  <2>2. \A r \in scripts \cup job.refs : Holds(r, top)
    BY <1>3 DEF Safe, References
  <2> QED
    BY <1>2, <1>3, <1>8, <2>1, <2>2, QuietRefers
<1>10. Progress'
  <2>1. ~accel_startup_ok => kills = 0
    BY <1>3 DEF Safe, Progress
  <2> QED
    BY <1>2, <1>3, <1>8, <2>1, QuietProgress
<1>11. Linked'
  BY <1>2, <1>3, <1>8, QuietLinked
<1> QED
  BY <1>2, <1>3, <1>8, <1>9, <1>10, <1>11, QuietKeeps DEF Inv, Safe

LEMMA BufferOverflowKeeps == ASSUME Inv, BufferOverflow PROVE Inv'
<1>1. /\ Quiet /\ UNCHANGED <<php, scripts, accel_startup_ok, kills>>
      /\ job.at = "find" /\ job.todo # <<>>
      /\ job' = [job EXCEPT !.todo = Tail(@)]
  BY DEF BufferOverflow, Quiet, table, flags
<1>2. /\ job.todo \in Seq(String) /\ kills \in Nat
      /\ Safe /\ Linked /\ job \in Job
      /\ \A r \in scripts \cup job.refs : Holds(r, top)
      /\ ~accel_startup_ok => kills = 0
  BY DEF Inv, Safe, Types, Job, References, Progress
<1>3. Tail(job.todo) \in Seq(String)
  BY <1>1, <1>2, HeadTailProperties
<1>4. /\ job' \in Job /\ job'.at = "find" /\ job'.refs = job.refs
  BY <1>1, <1>2, <1>3 DEF Job
<1>5. References' /\ Progress' /\ Linked'
  BY <1>1, <1>2, <1>4, QuietRefers, QuietProgress, QuietLinked
<1> QED
  BY <1>1, <1>2, <1>4, <1>5, QuietKeeps DEF Inv, Safe

\* Storing a script begins with no reference, and keeps those it has found.
LEMMA StoreKeeps ==
    ASSUME Inv, ScriptStored \/ \E script \in Scripts : StoreScript(script)
    PROVE  Inv'
<1>1. /\ Types /\ Safe /\ Linked /\ kills \in Nat /\ job \in Job
      /\ \A r \in scripts \cup job.refs : Holds(r, top)
      /\ ~accel_startup_ok => job.at # "free"
  BY DEF Inv, Safe, Types, References, Progress
<1>2. /\ Free.at = "free" /\ Free.refs = {} /\ Free \in Job
      /\ \A script : [Free EXCEPT !.at = "find", !.todo = script].at = "find"
      /\ \A script : [Free EXCEPT !.at = "find", !.todo = script].refs = {}
      /\ \A script \in Seq(String) :
           [Free EXCEPT !.at = "find", !.todo = script] \in Job
  <2>1. <<>> \in Seq(String)
    BY EmptySeq
  <2> QED
    BY <2>1 DEF Free, Job, Link
<1>3. /\ Quiet /\ UNCHANGED <<php, accel_startup_ok, kills>>
      /\ job.at \in {"find", "free"} /\ job'.at \in {"find", "free"}
      /\ accel_startup_ok
      /\ job' \in Job
      /\ scripts' \cup job'.refs \subseteq scripts \cup job.refs
  <2>1. CASE ScriptStored
    BY <1>2, <2>1 DEF ScriptStored, Quiet, table, flags
  <2>2. CASE \E script \in Scripts : StoreScript(script)
    <3>1. PICK script \in Scripts : StoreScript(script)
      BY <2>2
    <3>2. script \in Seq(String)
      BY StringAssumption
    <3>3. job.at = "free" /\ scripts' = scripts
      BY <1>2, <3>1 DEF StoreScript
    <3>4. job' = [Free EXCEPT !.at = "find", !.todo = script]
      BY <3>1 DEF StoreScript
    <3>5. Quiet /\ UNCHANGED <<php, accel_startup_ok, kills>>
      BY <3>1 DEF StoreScript, Quiet, table, flags
    <3> QED
      BY <1>1, <1>2, <3>2, <3>3, <3>4, <3>5
  <2> QED
    BY <2>1, <2>2
<1>4. References' /\ Progress' /\ Linked'
  BY <1>1, <1>3, QuietRefers, QuietProgress, QuietLinked
<1> QED
  BY <1>1, <1>3, <1>4, QuietKeeps DEF Inv, Safe

\* So do a restart that is asked for, and the end of a process.
LEMMA ScheduleKeeps ==
    ASSUME Inv, zend_accel_schedule_restart \/ Killed
    PROVE  Inv'
<1>1. /\ Types /\ Safe /\ Linked /\ kills \in Nat /\ job \in Job
      /\ \A r \in scripts \cup job.refs : Holds(r, top)
      /\ ~accel_startup_ok => job.at # "free"
  BY DEF Inv, Safe, Types, References, Progress
<1>2. Free.at = "free" /\ Free.refs = {} /\ Free \in Job
  <2>1. <<>> \in Seq(String)
    BY EmptySeq
  <2> QED
    BY <2>1 DEF Free, Job, Link
<1>3. /\ Quiet /\ UNCHANGED <<php, scripts, accel_startup_ok>>
      /\ job' = Free
      /\ \/ kills' = kills /\ job = Free
         \/ kills' = kills + 1
      /\ accel_startup_ok
  <2>1. CASE zend_accel_schedule_restart
    BY <1>1, <1>2, <2>1 DEF zend_accel_schedule_restart, Quiet, table
  <2>2. CASE Killed
    BY <2>2 DEF Killed, Quiet, table, flags
  <2> QED
    BY <2>1, <2>2
<1>4. kills' \in Nat /\ (kills' = 0 => kills = 0 /\ job = Free)
  BY <1>1, <1>3
<1>5. References' /\ Progress' /\ Linked'
  BY <1>1, <1>2, <1>3, <1>4, QuietRefers, QuietProgress, QuietLinked
<1> QED
  BY <1>1, <1>2, <1>3, <1>4, <1>5, QuietKeeps DEF Inv, Safe

\* A restart drops the scripts, and has restored nothing yet.
LEMMA RestartKeeps == ASSUME Inv, Restart PROVE Inv'
<1>1. /\ Types /\ Safe /\ Linked /\ kills \in Nat
      /\ ~accel_startup_ok => job.at # "free"
  BY DEF Inv, Safe, Types, Progress
<1>2. /\ Quiet /\ UNCHANGED <<php, accel_startup_ok, kills>>
      /\ scripts' = {} /\ job.at = "free"
      /\ job' = [Free EXCEPT !.at = "restore", !.p = 0]
  BY DEF Restart, Quiet, table, Free
<1>3. /\ job'.at = "restore" /\ job'.refs = {} /\ job'.p = 0 /\ job' \in Job
  <2>1. <<>> \in Seq(String)
    BY EmptySeq
  <2>2. job' = [at |-> "restore", todo |-> <<>>, refs |-> {}, p |-> 0]
    BY <1>2 DEF Free
  <2>3. 0 \in 0..nTableSize
    BY StringAssumption
  <2> QED
    BY <2>1, <2>2, <2>3 DEF Job
<1>4. References'
  BY <1>1, <1>2, <1>3, QuietRefers
<1>5. Progress'
  BY <1>1, <1>2, <1>3, StringAssumption DEF Progress, Index
<1>6. Linked'
  BY <1>1, <1>2, <1>3, QuietLinked
<1> QED
  BY <1>1, <1>2, <1>3, <1>4, <1>5, <1>6, QuietKeeps DEF Inv, Safe

\* A step that changes nothing keeps the invariant.
LEMMA UnchangedKeeps == ASSUME Inv, UNCHANGED vars PROVE Inv'
<1>1. Quiet /\ UNCHANGED <<php, scripts, accel_startup_ok, job, kills>>
  BY DEF vars, table, flags, Quiet
<1>2. Types' /\ Whole' /\ Tables'
  BY <1>1, QuietKeeps DEF Inv, Safe, Types
<1>3. References'
  BY <1>1, QuietRefers DEF Inv, Safe, References
<1>4. Progress'
  BY <1>1 DEF Inv, Safe, Progress, Quiet, Chain, At, Below
<1>5. Chained' = Chained /\ Ordered' = Ordered
  BY <1>1 DEF Chained, Ordered, Below, Quiet
<1>6. InUse => InUse'
  BY <1>1, <1>5 DEF InUse, ChainsBack, Listed, Chain, At, Quiet
<1>7. Linked'
  BY <1>1, <1>6, QuietKeeps DEF Inv, Linked
<1> QED
  BY <1>2, <1>3, <1>4, <1>7 DEF Inv, Safe

\* What was interned at startup is what is saved.
LEMMA StartedKeeps == ASSUME Inv, Started PROVE Inv'
<1>1. /\ Types /\ Whole /\ Tables /\ Safe /\ Linked /\ kills \in Nat
      /\ Sound(arBuckets, top)
      /\ \A r \in scripts \cup job.refs : Holds(r, top)
      /\ ~accel_startup_ok => kills = 0
  BY DEF Inv, Safe, Types, Progress, References, Tables
<1>2. /\ UNCHANGED <<mem, table, top, scripts, kills>>
      /\ php' = job.refs /\ job' = Free /\ job.at = "find"
      /\ ~accel_startup_ok /\ accel_startup_ok'
      /\ saved'.arBuckets = arBuckets /\ saved'.top = top
      /\ saved'.pListHead = pListHead /\ saved'.pListTail = pListTail
      /\ saved' \in Saved
  BY <1>1 DEF Started, save_state, Types, Saved, Link
<1>3. UNCHANGED <<arBuckets, pListHead, pListTail>>
  BY <1>2 DEF table
<1>4. /\ job'.at = "free" /\ job'.refs = {} /\ job' \in Job
  <2>1. <<>> \in Seq(String)
    BY EmptySeq
  <2> QED
    BY <1>2, <2>1, StringAssumption DEF Free, Job, Link
<1>5. kills = 0 /\ InUse
  BY <1>1, <1>2 DEF Linked
<1>6. Types'
  BY <1>1, <1>2, <1>3, <1>4, SavedIsBelow DEF Types
<1>7. Whole'
  BY <1>1, <1>2 DEF Whole, Below, At
<1>8. Chained = Below(top) /\ Ordered = Below(top)
  BY <1>2 DEF Chained, Ordered
<1>9. Tables'
  <2>1. Sound(arBuckets, top)' /\ Sound(saved.arBuckets, saved.top)'
    BY <1>1, <1>2, <1>3 DEF Sound, Chain, Below, At
  <2>2. \A i \in Index : arBuckets[i] # Null => arBuckets[i] \in Chain(arBuckets[i])
    BY <1>1, FollowBegins DEF Types, Chain
  <2>3. \A x \in Below(top) : x \in Chain(arBuckets[At(x)])
    BY <1>5, <1>8 DEF InUse
  <2> QED
    BY <1>2, <1>3, <2>1, <2>2, <2>3 DEF Tables, Chain, Below, At
<1>10. References'
  BY <1>1, <1>2, <1>4 DEF References, Holds, Below
<1>11. Progress'
  BY <1>2, <1>4 DEF Progress
<1>12. Linked'
  <2>1. Chained' = Below(top) /\ Ordered' = Below(top) /\ Below(saved.top)' = Below(top)
    BY <1>2, <1>4 DEF Chained, Ordered, Below
  <2>2. InUse'
    BY <1>2, <1>3, <1>5, <1>8, <2>1 DEF InUse, ChainsBack, Listed, Chain, At
  <2>3. InReserve'
    BY <1>2, <1>3, <1>5, <1>8, <2>1 DEF InUse, InReserve, ChainsBack, Listed, At
  <2> QED
    BY <2>2, <2>3 DEF Linked
<1> QED
  BY <1>6, <1>7, <1>9, <1>10, <1>11, <1>12 DEF Inv, Safe

-----------------------------------------------------------------------------
(* A new string at the top.                                                *)

\* Writing at the top keeps what is below, and lets nothing overlap.
LEMMA WriteAtTop ==
    ASSUME Types, Whole, NEW node \in NodeType, top + Size[node.str] < End,
           mem' = Write(top, node)
    PROVE  /\ top \in DOMAIN mem' /\ mem'[top] = node
           /\ DOMAIN mem' \subseteq Address /\ mem' \in [DOMAIN mem' -> NodeType]
           /\ \A x \in Below(top) : x \in DOMAIN mem' /\ mem'[x] = mem[x]
           /\ \A x \in DOMAIN mem' :
                x # top => /\ x \in DOMAIN mem /\ mem'[x] = mem[x]
                           /\ x < top \/ x >= top + Size[node.str]
<1> DEFINE size == Size[node.str]
           new == top..top + size - 1
           old == {x \in DOMAIN mem : x..x + Size[mem[x].str] - 1 \cap new = {}}
<1>1. size \in Nat \ {0} /\ top \in Nat /\ End \in Nat
  BY StringAssumption DEF Types, NodeType
<1>2. \A x \in DOMAIN mem : x \in Int /\ Size[mem[x].str] \in Nat \ {0}
  BY StringAssumption DEF Types, NodeType, Address
<1>3. mem' = [x \in old \cup {top} |-> IF x = top THEN node ELSE mem[x]]
  BY DEF Write
<1>4. ASSUME NEW x \in Below(top)
      PROVE  x \in old /\ x # top
  <2>1. x \in DOMAIN mem /\ x < top /\ x + Size[mem[x].str] <= top
    BY DEF Below, Whole
  <2> QED
    BY <1>1, <1>2, <2>1
<1>5. ASSUME NEW x \in old, x # top
      PROVE  x < top \/ x >= top + size
  <2>1. x \in x..x + Size[mem[x].str] - 1 /\ x \in Int
    BY <1>2
  <2>2. x \notin new
    BY <2>1
  <2> QED
    BY <1>1, <2>1, <2>2
<1>6. top \in Address
  BY <1>1 DEF Address
<1>7. old \subseteq DOMAIN mem
  OBVIOUS
<1> HIDE DEF old, new, size
<1>8. DOMAIN mem' = old \cup {top} /\ mem'[top] = node
      /\ \A x \in old : x # top => mem'[x] = mem[x]
  BY <1>3
<1>9. mem' \in [old \cup {top} -> NodeType]
  BY <1>3, <1>7 DEF Types
<1>10. DOMAIN mem' \subseteq Address /\ mem' \in [DOMAIN mem' -> NodeType]
  BY <1>6, <1>7, <1>8, <1>9 DEF Types
<1> QED
  BY <1>4, <1>5, <1>7, <1>8, <1>10 DEF size

\* The new string is whole, below the new top, and is not in its chain yet.
LEMMA CreateStringKeeps == ASSUME Inv, CreateString PROVE Inv'
<1> DEFINE s == Head(job.todo)
           node == [str |-> s, pNext |-> arBuckets[Hash[s]], pLast |-> Null,
                    pListNext |-> Null, pListLast |-> Null]
<1>1. /\ Types /\ Whole /\ Tables /\ References /\ Progress /\ Linked
      /\ job \in Job /\ kills \in Nat
      /\ Sound(arBuckets, top) /\ Sound(saved.arBuckets, saved.top)
  BY DEF Inv, Safe, Types, Tables
<1>2. /\ job.at = "find" /\ job.todo # <<>> /\ Lookup(s) = {}
      /\ top + Size[s] < End \/ ~(top + Size[s] >= End)
      /\ top' = top + Size[s] /\ mem' = Write(top, node)
      /\ job' = [job EXCEPT !.at = "enter", !.p = top]
      /\ UNCHANGED <<arBuckets, pListHead, pListTail, saved, php, scripts,
                     accel_startup_ok, kills>>
  BY DEF CreateString, Overflows, table, flags
<1>3. s \in String /\ Hash[s] \in Index /\ Size[s] \in Nat \ {0}
  <2>1. s \in String
    BY <1>1, <1>2, HeadTailProperties DEF Job
  <2> QED
    BY <2>1, StringAssumption
<1>4. node \in NodeType
  BY <1>1, <1>3 DEF NodeType, Types, Link
<1>5. top + Size[s] < End /\ top \in Nat /\ End \in Nat
      /\ saved.top \in Nat /\ saved.top <= top
  BY <1>1, <1>2, <1>3, StringAssumption DEF Types, Saved
<1> HIDE DEF node
<1>6. node.str = s /\ node.pNext = arBuckets[Hash[s]] /\ node.pLast = Null
      /\ node.pListNext = Null /\ node.pListLast = Null
  BY DEF node
<1> HIDE DEF s
<1>7. /\ top \in DOMAIN mem' /\ mem'[top] = node
      /\ DOMAIN mem' \subseteq Address /\ mem' \in [DOMAIN mem' -> NodeType]
      /\ \A x \in Below(top) : x \in DOMAIN mem' /\ mem'[x] = mem[x]
      /\ \A x \in DOMAIN mem' :
           x # top => /\ x \in DOMAIN mem /\ mem'[x] = mem[x]
                      /\ x < top \/ x >= top + Size[s]
  BY <1>1, <1>2, <1>4, <1>5, <1>6, WriteAtTop
<1>8. \A x \in DOMAIN mem' : x \in Int
  BY <1>7 DEF Address
<1>9. {x \in DOMAIN mem' : x < top'} = Below(top) \cup {top}
  BY <1>2, <1>3, <1>5, <1>7, <1>8 DEF Below
<1>10. {x \in DOMAIN mem' : x < saved.top} = Below(saved.top)
  BY <1>5, <1>7, <1>8, SavedIsBelow, <1>1 DEF Below
<1>11. \A x \in Below(top) \cup {top} : \A y \in Below(x) : y \in DOMAIN mem' /\ mem'[y] = mem[y]
  BY <1>1, <1>5, <1>7, SavedIsBelow DEF Below
<1>12. \A a \in Below(top) \cup {Null} : Follow(mem', a) = Chain(a)
  BY <1>1, <1>7, ChainStays
<1>13. \A i \in Index :
         /\ arBuckets[i] \in Below(top) \cup {Null}
         /\ saved.arBuckets[i] \in Below(top) \cup {Null}
         /\ saved.arBuckets[i] \in Below(saved.top) \cup {Null}
  BY <1>1, SavedIsBelow DEF Sound
<1>14. \A i \in Index :
         /\ \A x \in Chain(arBuckets[i]) : x \in Below(top) /\ mem'[x] = mem[x]
         /\ \A x \in Chain(saved.arBuckets[i]) : x \in Below(top) /\ mem'[x] = mem[x]
  BY <1>1, <1>7, SavedIsBelow, ChainOfTable
<1>15. \A x \in DOMAIN mem' : x # top => Size[mem'[x].str] = Size[mem[x].str]
  BY <1>7
<1>16. job' \in Job /\ job'.at = "enter" /\ job'.p = top
       /\ job'.todo = job.todo /\ job'.refs = job.refs
  <2>1. top \in Address
    BY <1>7
  <2>2. job' = [at |-> "enter", todo |-> job.todo, refs |-> job.refs, p |-> top]
    BY <1>1, <1>2 DEF Job
  <2> QED
    BY <1>1, <2>1, <2>2 DEF Job, Link
<1>17. Types'
  BY <1>1, <1>2, <1>3, <1>5, <1>7, <1>16 DEF Types
<1>18. Whole'
  <2>1. ASSUME NEW x \in DOMAIN mem', NEW y \in DOMAIN mem', x < y
        PROVE  x + Size[mem'[x].str] <= y
    <3>1. CASE x = top
      BY <1>5, <1>6, <1>7, <1>8, <2>1, <3>1
    <3>2. CASE x # top /\ y = top
      <4>1. x \in Below(top)
        BY <1>7, <2>1, <3>2 DEF Below
      <4> QED
        BY <1>1, <1>7, <3>2, <4>1 DEF Whole
    <3>3. CASE x # top /\ y # top
      BY <1>1, <1>7, <2>1, <3>3 DEF Whole
    <3> QED
      BY <3>1, <3>2, <3>3
  <2>2. ASSUME NEW x \in Below(top) \cup {top}
        PROVE  x + Size[mem'[x].str] <= top'
    <3>1. CASE x = top
      BY <1>2, <1>5, <1>3, <1>6, <1>7, <3>1
    <3>2. CASE x # top
      <4>1. x \in Below(top) /\ x \in Int
        BY <1>1, <3>2, SavedIsBelow
      <4>2. x + Size[mem[x].str] <= top /\ Size[mem[x].str] \in Nat
        BY <1>1, <4>1, SavedIsBelow, StringAssumption DEF Whole, Types, NodeType
      <4>3. mem'[x] = mem[x]
        BY <1>7, <4>1
      <4> QED
        BY <1>2, <1>3, <1>5, <4>1, <4>2, <4>3
    <3> QED
      BY <3>1, <3>2
  <2>3. \A x \in Below(saved.top) : x + Size[mem'[x].str] <= saved.top
    BY <1>1, <1>7, SavedIsBelow DEF Whole
  <2>4. ASSUME NEW x \in Below(top) \cup {top}, mem'[x].pNext # Null
        PROVE  /\ mem'[x].pNext \in DOMAIN mem' /\ mem'[x].pNext < x
               /\ Hash[mem'[mem'[x].pNext].str] = Hash[mem'[x].str]
    <3>1. CASE x = top
      <4>1. mem'[x].pNext = arBuckets[Hash[s]] /\ mem'[x].str = s
        BY <1>6, <1>7, <3>1
      <4>2. mem'[x].pNext \in Below(top) /\ At(mem'[x].pNext) = Hash[s]
        BY <1>1, <1>3, <2>4, <4>1 DEF Sound
      <4> QED
        BY <1>7, <3>1, <4>1, <4>2 DEF At, Below
    <3>2. CASE x # top
      <4>1. x \in Below(top) /\ mem'[x] = mem[x]
        BY <1>7, <3>2
      <4>2. mem[x].pNext \in Below(x) /\ At(mem[x].pNext) = At(x)
        BY <1>1, <2>4, <4>1 DEF Whole
      <4>3. mem'[mem[x].pNext] = mem[mem[x].pNext] /\ mem[x].pNext \in DOMAIN mem'
        BY <1>11, <4>1, <4>2
      <4> QED
        BY <4>1, <4>2, <4>3 DEF At, Below
    <3> QED
      BY <3>1, <3>2
  <2> HIDE DEF s
  <2>5. saved' = saved
    BY <1>2
  <2> QED
    BY <1>9, <1>10, <2>1, <2>2, <2>3, <2>4, <2>5 DEF Whole, Below, At
<1>19. Tables'
  <2>1. Sound(arBuckets, top)'
    <3>1. ASSUME NEW i \in Index
          PROVE  /\ arBuckets[i] # Null =>
                      /\ arBuckets[i] \in Below(top) \cup {top}
                      /\ Hash[mem'[arBuckets[i]].str] = i
                 /\ \A x, y \in Follow(mem', arBuckets[i]) :
                      mem'[x].str = mem'[y].str => x = y
      BY <1>1, <1>7, <1>12, <1>13, <1>14 DEF Sound, At
    <3> QED
      BY <1>2, <1>9, <3>1 DEF Sound, Chain, At, Below
  <2>2. Sound(saved.arBuckets, saved.top)'
    <3>1. ASSUME NEW i \in Index
          PROVE  /\ saved.arBuckets[i] # Null =>
                      /\ saved.arBuckets[i] \in Below(saved.top)
                      /\ Hash[mem'[saved.arBuckets[i]].str] = i
                 /\ \A x, y \in Follow(mem', saved.arBuckets[i]) :
                      mem'[x].str = mem'[y].str => x = y
      BY <1>1, <1>7, <1>12, <1>13, <1>14 DEF Sound, At
    <3> QED
      BY <1>2, <1>10, <3>1 DEF Sound, Chain, At, Below
  <2>3. \A i \in Index : saved.arBuckets[i] # Null =>
          saved.arBuckets[i] \in Follow(mem', arBuckets[i])
    BY <1>1, <1>12, <1>13 DEF Tables
  <2>4. ASSUME NEW x \in Below(saved.top)
        PROVE  x \in Follow(mem', saved.arBuckets[Hash[mem'[x].str]])
    <3>1. mem'[x] = mem[x] /\ x \in DOMAIN mem /\ x \in Chain(saved.arBuckets[At(x)])
      BY <1>1, <1>7, SavedIsBelow DEF Tables
    <3>2. At(x) \in Index
      BY <1>1, <3>1, StringAssumption DEF At, Types, NodeType
    <3> QED
      BY <1>12, <1>13, <3>1, <3>2 DEF At
  <2> QED
    BY <1>2, <1>10, <2>1, <2>2, <2>3, <2>4 DEF Tables, Chain, At, Below
<1>20. References'
  <2>1. ASSUME NEW r \in php
        PROVE  r[2] \in Below(saved.top) /\ mem'[r[2]].str = r[1]
    BY <1>1, <1>7, SavedIsBelow DEF References, Holds
  <2>2. ASSUME NEW r \in scripts \cup job.refs
        PROVE  r[2] \in Below(top) /\ mem'[r[2]].str = r[1]
    BY <1>1, <1>7 DEF References, Holds
  <2> QED
    BY <1>2, <1>9, <1>10, <1>16, <2>1, <2>2 DEF References, Holds, Below
<1>21. Progress'
  <2>1. ~accel_startup_ok => kills = 0
    BY <1>1 DEF Progress
  <2>2. \A x \in Chain(arBuckets[Hash[s]]) : mem'[x].str # s
    <3>1. \A x \in Chain(arBuckets[Hash[s]]) : x \in DOMAIN mem /\ mem'[x] = mem[x]
      BY <1>1, <1>3, <1>14, SavedIsBelow
    <3> QED
      BY <1>2, <3>1 DEF Lookup, s
  <2>3. Follow(mem', arBuckets[Hash[s]]) = Chain(arBuckets[Hash[s]])
    BY <1>3, <1>12, <1>13
  <2> QED
    BY <1>2, <1>5, <1>6, <1>7, <1>9, <1>16, <2>1, <2>2, <2>3 DEF Progress, Chain, At, Below
<1>22. Linked'
  <2>1. Chained = Below(top) /\ Ordered = Below(top)
    BY <1>2 DEF Chained, Ordered
  <2>2. Chained' = Below(top) /\ Ordered' = Below(top)
    <3>1. top \notin Below(top)
      BY <1>5 DEF Below
    <3> QED
      BY <1>9, <1>16, <3>1 DEF Chained, Ordered, Below
  <2>3. ASSUME kills = 0
        PROVE  InUse'
    <3>1. InUse
      BY <1>1, <1>2, <2>3 DEF Linked
    <3>2. ASSUME NEW x \in Below(top)
          PROVE  x \in Follow(mem', arBuckets[Hash[mem'[x].str]])
      <4>1. x \in Chain(arBuckets[At(x)]) /\ At(x) \in Index /\ mem'[x] = mem[x]
        BY <1>1, <1>7, <2>1, <3>1, SavedIsBelow, StringAssumption DEF InUse, At, Types, NodeType
      <4> QED
        BY <1>12, <1>13, <4>1 DEF At
    <3>3. ASSUME NEW a \in Below(top)
          PROVE  /\ mem'[a].pNext # Null => mem'[mem'[a].pNext].pLast = a
                 /\ mem'[a].pLast # Null =>
                      /\ mem'[a].pLast \in Below(top)
                      /\ mem'[mem'[a].pLast].pNext = a
      <4>1. mem'[a] = mem[a]
        BY <1>7
      <4>2. mem[a].pNext # Null => mem[a].pNext \in Below(a)
        BY <1>1 DEF Whole
      <4> QED
        BY <1>7, <1>11, <2>1, <3>1, <4>1, <4>2 DEF InUse, ChainsBack
    <3>4. ASSUME NEW a \in Below(top), a # pListTail
          PROVE  /\ mem'[a].pListNext \in Below(top)
                 /\ mem'[mem'[a].pListNext].pListLast = a
      BY <1>7, <2>1, <3>1, <3>4 DEF InUse, Listed
    <3>5. \A a \in Below(top) :
            IF mem'[a].pListLast = Null THEN a = pListHead
            ELSE mem'[a].pListLast \in Below(top)
      BY <1>7, <2>1, <3>1 DEF InUse, Listed
    <3>6. /\ pListHead = Null <=> pListTail = Null
          /\ pListHead # Null => pListHead \in Below(top) /\ mem'[pListHead].pListLast = Null
          /\ pListTail # Null => pListTail \in Below(top) /\ mem'[pListTail].pListNext = Null
      BY <1>7, <2>1, <3>1 DEF InUse, Listed
    <3>7. Listed(Ordered, pListHead, pListTail)'
      BY <1>2, <2>2, <3>4, <3>5, <3>6 DEF Listed
    <3>8. ChainsBack(Chained)'
      BY <2>2, <3>3 DEF ChainsBack
    <3>9. \A x \in Chained' : x \in Chain(arBuckets[At(x)])'
      BY <1>2, <2>2, <3>2 DEF Chain, At
    <3> QED
      BY <1>2, <3>6, <3>7, <3>8, <3>9 DEF InUse
  <2>4. ASSUME kills = 0
        PROVE  InReserve'
    <3>1. InReserve
      BY <1>1, <2>4 DEF Linked
    <3>2. ASSUME NEW a \in Below(saved.top)
          PROVE  /\ mem'[a].pNext # Null => mem'[mem'[a].pNext].pLast = a
                 /\ a # saved.arBuckets[Hash[mem'[a].str]] /\ mem'[a].pLast # Null =>
                      /\ mem'[a].pLast \in Below(saved.top)
                      /\ mem'[mem'[a].pLast].pNext = a
      <4>1. mem'[a] = mem[a] /\ a \in Below(top)
        BY <1>1, <1>7, SavedIsBelow
      <4>2. mem[a].pNext # Null => mem[a].pNext \in Below(a)
        BY <1>1, <4>1 DEF Whole
      <4>3. mem[a].pNext # Null => mem'[mem[a].pNext] = mem[mem[a].pNext]
        BY <1>11, <4>1, <4>2
      <4>4. \A x \in Below(saved.top) : mem'[x] = mem[x]
        BY <1>1, <1>7, SavedIsBelow
      <4> QED
        BY <3>1, <4>1, <4>3, <4>4 DEF InReserve, At
    <3>3. \A x \in Below(saved.top) : mem'[x] = mem[x]
      BY <1>1, <1>7, SavedIsBelow
    <3>4. Below(saved.top)' = Below(saved.top)
      BY <1>2, <1>10 DEF Below
    <3>5. Listed(Below(saved.top), saved.pListHead, saved.pListTail)
      BY <3>1 DEF InReserve
    <3>6. Listed(Below(saved.top), saved.pListHead, saved.pListTail)'
      BY <1>2, <3>3, <3>4, <3>5 DEF Listed
    <3>7. pListTail = saved.pListTail \/ pListTail >= saved.top
      BY <3>1 DEF InReserve
    <3> QED
      BY <1>2, <3>2, <3>4, <3>6, <3>7 DEF InReserve, At
  <2> QED
    BY <1>2, <2>3, <2>4 DEF Linked
<1> QED
  BY <1>17, <1>18, <1>19, <1>20, <1>21, <1>22 DEF Inv, Safe

-----------------------------------------------------------------------------
(* The steps that only change how strings are linked.                      *)

\* A memory with the same strings on the same chains.
SameNodes(m) ==
    /\ DOMAIN m = DOMAIN mem /\ m \in [DOMAIN mem -> NodeType]
    /\ \A x \in DOMAIN mem : m[x].str = mem[x].str /\ m[x].pNext = mem[x].pNext

\* The chains are the same.
LEMMA SameChains ==
    ASSUME NEW m, SameNodes(m), NEW a
    PROVE  Follow(m, a) = Chain(a)
BY DEF SameNodes, Follow, Chain

\* All that is said of the strings and of the saved table stays true, even
\* when the top is set back.
LEMMA RelinkKeeps ==
    ASSUME Types, Whole, Tables, SameNodes(mem'), saved' = saved,
           top' \in {top, saved.top}
    PROVE  /\ Whole'
           /\ \A t : {x \in DOMAIN mem' : x < t} = Below(t)
           /\ \A x \in DOMAIN mem : Hash[mem'[x].str] = At(x)
           /\ Sound(saved.arBuckets, saved.top)'
           /\ \A x \in Below(saved.top)' : (x \in Chain(saved.arBuckets[At(x)]))'
<1>1. \A t : {x \in DOMAIN mem' : x < t} = Below(t)
  BY DEF SameNodes, Below
<1>2. \A x \in DOMAIN mem : Hash[mem'[x].str] = At(x) /\ mem'[x].str = mem[x].str
        /\ mem'[x].pNext = mem[x].pNext
  BY DEF SameNodes, At
<1>3. \A a : Follow(mem', a) = Chain(a)
  BY SameChains
<1>4. /\ Below(saved.top) \subseteq Below(top) /\ Below(top) \subseteq DOMAIN mem
      /\ \A x \in Below(top) : Below(x) \subseteq DOMAIN mem
  BY SavedIsBelow DEF Below
<1>5. Whole'
  <2>1. \A x, y \in DOMAIN mem' : x < y => x + Size[mem'[x].str] <= y
    BY <1>2 DEF Whole, SameNodes
  <2>2. \A x \in Below(top') : x + Size[mem'[x].str] <= top'
    BY <1>2, <1>4 DEF Whole
  <2>3. \A x \in Below(saved.top) : x + Size[mem'[x].str] <= saved.top
    BY <1>2, <1>4 DEF Whole
  <2>4. \A x \in Below(top') : mem'[x].pNext # Null =>
          mem'[x].pNext \in Below(x) /\ Hash[mem'[mem'[x].pNext].str] = Hash[mem'[x].str]
    BY <1>2, <1>4 DEF Whole
  <2> QED
    BY <1>1, <2>1, <2>2, <2>3, <2>4 DEF Whole, Below, At
<1>6. Sound(saved.arBuckets, saved.top)'
  <2>1. ASSUME NEW i \in Index
        PROVE  /\ saved.arBuckets[i] # Null =>
                    /\ saved.arBuckets[i] \in Below(saved.top)
                    /\ Hash[mem'[saved.arBuckets[i]].str] = i
               /\ \A x, y \in Chain(saved.arBuckets[i]) :
                    mem'[x].str = mem'[y].str => x = y
    <3>1. \A x \in Chain(saved.arBuckets[i]) : x \in DOMAIN mem
      BY <1>4, ChainOfTable DEF Tables
    <3> QED
      BY <1>2, <1>4, <3>1 DEF Tables, Sound
  <2> QED
    BY <1>1, <1>3, <2>1 DEF Sound, Chain, At, Below
<1>7. \A x \in Below(saved.top)' : (x \in Chain(saved.arBuckets[At(x)]))'
  <2>1. \A x \in Below(saved.top) :
          x \in Follow(mem', saved.arBuckets[Hash[mem'[x].str]])
    BY <1>2, <1>3, <1>4 DEF Tables
  <2> QED
    BY <1>1, <2>1 DEF Chain, At, Below
<1> QED
  BY <1>1, <1>2, <1>5, <1>6, <1>7

\* A table that was sound stays so.
LEMMA RelinkSound ==
    ASSUME Types, Whole, SameNodes(mem'), NEW b, NEW t \in {top, saved.top}, Sound(b, t)
    PROVE  \A i \in Index :
             /\ b[i] # Null => b[i] \in Below(t) /\ Hash[mem'[b[i]].str] = i
             /\ \A x, y \in Follow(mem', b[i]) :
                  mem'[x].str = mem'[y].str => x = y
<1>1. \A x \in DOMAIN mem : Hash[mem'[x].str] = At(x) /\ mem'[x].str = mem[x].str
  BY DEF SameNodes, At
<1>2. \A a : Follow(mem', a) = Chain(a)
  BY SameChains
<1>3. Below(t) \subseteq DOMAIN mem
  BY SavedIsBelow DEF Below
<1>4. \A i \in Index : \A x \in Chain(b[i]) : x \in DOMAIN mem
  BY <1>3, ChainOfTable
<1> QED
  BY <1>1, <1>2, <1>3, <1>4 DEF Sound

\* References stay good.
LEMMA RelinkRefers ==
    ASSUME Types, References, SameNodes(mem'), saved' = saved, php' = php,
           \A r \in scripts' \cup job'.refs : Holds(r, top')
    PROVE  References'
<1>1. \A t : {x \in DOMAIN mem' : x < t} = Below(t)
  BY DEF SameNodes, Below
<1>2. \A r, t : Holds(r, t) => r[2] \in Below(t) /\ mem'[r[2]].str = r[1]
  BY DEF SameNodes, Holds, Below
<1> QED
  BY <1>1, <1>2 DEF References, Holds, Below

\* The string is put before those of its chain, none of which is like it.
LEMMA EnterChainKeeps == ASSUME Inv, EnterChain PROVE Inv'
<1> DEFINE p == job.p
           next == mem[p].pNext
           k == At(p)
<1>1. /\ Types /\ Whole /\ Tables /\ References /\ Progress /\ Linked
      /\ job \in Job /\ kills \in Nat
      /\ Sound(arBuckets, top) /\ Sound(saved.arBuckets, saved.top)
  BY DEF Inv, Safe, Types, Tables
<1>2. /\ job.at = "enter" /\ job' = [job EXCEPT !.at = "append"]
      /\ mem' = IF next = Null THEN mem ELSE [mem EXCEPT ![next].pLast = p]
      /\ arBuckets' = [arBuckets EXCEPT ![k] = p]
      /\ UNCHANGED <<pListHead, pListTail, top, saved, php, scripts,
                     accel_startup_ok, kills>>
  BY DEF EnterChain, At, flags
<1>3. /\ job.todo # <<>> /\ p \in Below(top) /\ p >= saved.top
      /\ mem[p].pListNext = Null /\ mem[p].pLast = Null
      /\ next = arBuckets[k]
      /\ \A x \in Chain(arBuckets[k]) : mem[x].str # mem[p].str
  BY <1>1, <1>2 DEF Progress
<1>4. p \in DOMAIN mem /\ p \in Address /\ k \in Index /\ p \in Int
      /\ mem[p] \in NodeType
  BY <1>1, <1>3, SavedIsBelow, StringAssumption DEF At, Types, NodeType
<1>5. next # Null => next \in Below(top) /\ next \in DOMAIN mem /\ next \in Below(p)
  BY <1>1, <1>3, <1>4, SavedIsBelow DEF Sound, Whole
<1> HIDE DEF p, next, k
<1>6. /\ DOMAIN mem' = DOMAIN mem
      /\ \A x \in DOMAIN mem : x # next => mem'[x] = mem[x]
      /\ next # Null => mem'[next] = [mem[next] EXCEPT !.pLast = p]
  BY <1>1, <1>2, <1>5 DEF Types
<1>7. /\ SameNodes(mem')
      /\ \A x \in DOMAIN mem : /\ mem'[x].pListNext = mem[x].pListNext
                               /\ mem'[x].pListLast = mem[x].pListLast
                               /\ x # next => mem'[x].pLast = mem[x].pLast
      /\ next # Null => mem'[next].pLast = p
  <2>1. CASE next = Null
    BY <1>1, <1>2, <2>1, NullIsNowhere DEF SameNodes, Types
  <2>2. CASE next # Null
    <3>1. mem[next] \in NodeType
      BY <1>1, <1>5, <2>2 DEF Types
    <3>2. /\ mem'[next] \in NodeType /\ mem'[next].str = mem[next].str
          /\ mem'[next].pNext = mem[next].pNext /\ mem'[next].pLast = p
          /\ mem'[next].pListNext = mem[next].pListNext
          /\ mem'[next].pListLast = mem[next].pListLast
      BY <1>4, <1>6, <2>2, <3>1 DEF NodeType
    <3>3. \A x \in DOMAIN mem : mem'[x] \in NodeType
      BY <1>1, <1>6, <3>2 DEF Types
    <3>4. mem' = [x \in DOMAIN mem |-> mem'[x]]
      BY <1>2, <2>2
    <3> QED
      BY <1>6, <3>2, <3>3, <3>4 DEF SameNodes
  <2> QED
    BY <2>1, <2>2
<1>8. job' = [at |-> "append", todo |-> job.todo, refs |-> job.refs, p |-> p]
      /\ job' \in Job
  <2>1. job' = [at |-> "append", todo |-> job.todo, refs |-> job.refs, p |-> p]
    BY <1>1, <1>2 DEF Job, p
  <2> QED
    BY <1>1, <2>1 DEF Job, p
<1>9. arBuckets' \in [Index -> Link] /\ arBuckets'[k] = p
      /\ \A i \in Index : i # k => arBuckets'[i] = arBuckets[i]
  BY <1>1, <1>2, <1>4 DEF Types, Link
<1>10. Types'
  BY <1>1, <1>2, <1>7, <1>8, <1>9 DEF Types, SameNodes
<1>11. /\ Whole' /\ Sound(saved.arBuckets, saved.top)'
       /\ \A t : {x \in DOMAIN mem' : x < t} = Below(t)
       /\ \A x \in DOMAIN mem : Hash[mem'[x].str] = At(x)
       /\ \A x \in Below(saved.top)' : (x \in Chain(saved.arBuckets[At(x)]))'
  BY <1>1, <1>2, <1>7, RelinkKeeps
<1>12. \A a : Follow(mem', a) = Chain(a)
  BY <1>7, SameChains
<1>13. Chain(p) = {p} \cup Chain(arBuckets[k])
  <2>1. Memory(mem)
    BY <1>1, MemoryIsLinked
  <2>2. Follow(mem, p) = {p} \cup Follow(mem, mem[p].pNext)
    BY <1>4, <2>1, FollowFirst
  <2> QED
    BY <1>3, <2>2 DEF Chain, next
<1>14. Tables'
  <2>1. ASSUME NEW i \in Index
        PROVE  /\ arBuckets'[i] # Null => /\ arBuckets'[i] \in Below(top)
                                          /\ Hash[mem'[arBuckets'[i]].str] = i
               /\ \A x, y \in Follow(mem', arBuckets'[i]) :
                    mem'[x].str = mem'[y].str => x = y
    <3>1. CASE i # k
      BY <1>1, <1>7, <1>9, <3>1, RelinkSound
    <3>2. CASE i = k
      <4>1. \A x \in Chain(arBuckets[k]) : x \in DOMAIN mem
        BY <1>1, <1>4, ChainOfTable, SavedIsBelow
      <4>2. \A x \in Chain(p) : mem'[x].str = mem[x].str
        BY <1>4, <1>7, <1>13, <4>1 DEF SameNodes
      <4>3. \A x, y \in Chain(p) : mem[x].str = mem[y].str => x = y
        BY <1>1, <1>3, <1>4, <1>13 DEF Sound
      <4>4. p \in Below(top) /\ Hash[mem'[p].str] = k
        BY <1>3, <1>4, <1>11 DEF k
      <4> QED
        BY <1>9, <1>12, <3>2, <4>2, <4>3, <4>4
    <3> QED
      BY <3>1, <3>2
  <2>2. Sound(arBuckets, top)'
    <3>1. top' = top /\ Below(top)' = Below(top)
      BY <1>2, <1>11 DEF Below
    <3> QED
      BY <2>1, <3>1 DEF Sound, Chain, At
  <2>3. \A i \in Index : saved.arBuckets[i] # Null =>
          saved.arBuckets[i] \in Follow(mem', arBuckets'[i])
    BY <1>1, <1>9, <1>12, <1>13 DEF Tables
  <2> QED
    BY <1>2, <1>11, <2>2, <2>3 DEF Tables, Chain
<1>15. References'
  <2>1. \A r \in scripts' \cup job'.refs : Holds(r, top')
    BY <1>1, <1>2, <1>8 DEF References
  <2> QED
    BY <1>1, <1>2, <1>7, <2>1, RelinkRefers
<1>16. Progress'
  <2>1. ~accel_startup_ok => kills = 0
    BY <1>1 DEF Progress
  <2>2. mem'[p].pListNext = Null
    BY <1>3, <1>4, <1>7
  <2> QED
    BY <1>2, <1>3, <1>8, <1>11, <2>1, <2>2 DEF Progress, Below
<1>17. Linked'
  <2>1. /\ Chained = Below(top) \ {p} /\ Ordered = Below(top) \ {p}
        /\ Chained' = Below(top) /\ Ordered' = Below(top) \ {p}
    BY <1>2, <1>8, <1>11 DEF Chained, Ordered, Below, p
  <2>2. Below(top) \subseteq DOMAIN mem /\ Below(saved.top) \subseteq Below(top)
        /\ \A x \in DOMAIN mem : x \in Int
    BY <1>1, SavedIsBelow
  <2>3. \A x \in Below(top) : mem[x].pNext # Null => mem[x].pNext \in Below(x)
    BY <1>1 DEF Whole
  <2>4. ASSUME kills = 0
        PROVE  InUse /\ InReserve
    BY <1>1, <1>2, <2>4 DEF Linked
  <2>5. ASSUME kills = 0, NEW a \in Below(top), a # p, next # Null
        PROVE  mem[a].pNext # next
    <3>1. SUFFICES ASSUME mem[a].pNext = next
                   PROVE  FALSE
      OBVIOUS
    <3>2. next \in Below(a) /\ At(next) = At(a)
      BY <1>1, <2>3, <2>5, <3>1 DEF Whole
    <3>3. At(next) = k
      BY <1>1, <1>3, <1>4, <2>5 DEF Sound
    <3>4. a \in Chain(arBuckets[k])
      BY <2>1, <2>4, <2>5, <3>2, <3>3 DEF InUse
    <3>5. a <= next
      BY <1>1, <1>3, <1>4, <3>4, ChainOfTable
    <3> QED
      BY <2>2, <3>2, <3>5 DEF Below
  <2>6. ASSUME kills = 0
        PROVE  InUse'
    <3>1. ASSUME NEW x \in Below(top)
          PROVE  x \in Follow(mem', arBuckets'[Hash[mem'[x].str]])
      <4>1. Hash[mem'[x].str] = At(x) /\ At(x) \in Index
        BY <1>1, <1>11, <2>2, StringAssumption DEF At, Types, NodeType
      <4>2. CASE x = p
        BY <1>9, <1>12, <1>13, <4>1, <4>2 DEF k
      <4>3. CASE x # p
        <5>1. x \in Chain(arBuckets[At(x)])
          BY <2>1, <2>4, <2>6, <4>3 DEF InUse
        <5> QED
          BY <1>9, <1>12, <1>13, <4>1, <5>1
      <4> QED
        BY <4>2, <4>3
    <3>2. ASSUME NEW a \in Below(top), mem'[a].pNext # Null
          PROVE  mem'[mem'[a].pNext].pLast = a
      <4>1. mem'[a].pNext = mem[a].pNext
        BY <1>7, <2>2 DEF SameNodes
      <4>2. CASE a = p
        BY <1>7, <3>2, <4>1, <4>2 DEF next
      <4>3. CASE a # p
        <5>1. mem[mem[a].pNext].pLast = a
          BY <2>1, <2>4, <2>6, <3>2, <4>1, <4>3 DEF InUse, ChainsBack
        <5>2. mem[a].pNext \in DOMAIN mem
          BY <2>3, <3>2, <4>1 DEF Below
        <5>3. mem[a].pNext # next
          BY <2>5, <2>6, <3>2, <4>1, <4>3
        <5> QED
          BY <1>7, <4>1, <5>1, <5>2, <5>3
      <4> QED
        BY <4>2, <4>3
    <3>3. ASSUME NEW a \in Below(top), mem'[a].pLast # Null
          PROVE  mem'[a].pLast \in Below(top) /\ mem'[mem'[a].pLast].pNext = a
      <4>1. CASE a = next
        <5>1. next # Null
          BY <2>2, <4>1, NullIsNowhere, <1>1 DEF Types
        <5>2. mem'[a].pLast = p
          BY <1>7, <4>1, <5>1
        <5>3. mem'[p].pNext = mem[p].pNext
          BY <1>4, <1>7 DEF SameNodes
        <5> QED
          BY <1>3, <4>1, <5>2, <5>3 DEF next
      <4>2. CASE a # next
        <5>1. mem'[a].pLast = mem[a].pLast
          BY <1>7, <2>2, <4>2
        <5>2. a # p
          BY <1>3, <3>3, <5>1
        <5>3. mem[a].pLast \in Below(top) /\ mem[mem[a].pLast].pNext = a
          BY <2>1, <2>4, <2>6, <3>3, <5>1, <5>2 DEF InUse, ChainsBack
        <5> QED
          BY <1>7, <2>2, <5>1, <5>3 DEF SameNodes
      <4> QED
        BY <4>1, <4>2
    <3>4. Listed(Ordered, pListHead, pListTail)
          /\ (pListTail # Null => mem[pListTail].pListNext = Null)
      BY <2>4, <2>6 DEF InUse
    <3>5. Ordered' = Ordered /\ Ordered \subseteq DOMAIN mem
      BY <2>1, <2>2
    <3>6. Listed(Ordered, pListHead, pListTail)'
          /\ (pListTail # Null => mem'[pListTail].pListNext = Null)
      BY <1>2, <1>7, <3>4, <3>5 DEF Listed
    <3>7. ChainsBack(Chained)'
      BY <2>1, <3>2, <3>3 DEF ChainsBack
    <3>8. \A x \in Chained' : x \in Chain(arBuckets[At(x)])'
      BY <2>1, <3>1 DEF Chain, At
    <3> QED
      BY <1>2, <3>6, <3>7, <3>8 DEF InUse
  <2>7. ASSUME kills = 0
        PROVE  InReserve'
    <3>1. ASSUME NEW a \in Below(saved.top), mem'[a].pNext # Null
          PROVE  mem'[mem'[a].pNext].pLast = a
      <4>1. mem'[a].pNext = mem[a].pNext /\ a \in Below(top) /\ a # p
        BY <1>3, <1>4, <1>7, <2>2, <1>1, SavedIsBelow DEF SameNodes, Below
      <4>2. mem[mem[a].pNext].pLast = a
        BY <2>4, <2>7, <3>1, <4>1 DEF InReserve
      <4>3. mem[a].pNext \in DOMAIN mem
        BY <2>3, <3>1, <4>1 DEF Below
      <4>4. mem[a].pNext # next
        BY <2>5, <2>7, <3>1, <4>1
      <4> QED
        BY <1>7, <4>1, <4>2, <4>3, <4>4
    <3>2. ASSUME NEW a \in Below(saved.top), a # saved.arBuckets[Hash[mem'[a].str]],
                 mem'[a].pLast # Null
          PROVE  mem'[a].pLast \in Below(saved.top) /\ mem'[mem'[a].pLast].pNext = a
      <4>1. a # saved.arBuckets[At(a)] /\ a \in Below(top) /\ a \in DOMAIN mem
        BY <1>11, <2>2, <3>2
      <4>2. a # next
        <5>1. SUFFICES ASSUME a = next
                       PROVE  FALSE
          OBVIOUS
        <5>2. next # Null /\ At(a) = k
          BY <1>1, <1>3, <1>4, <4>1, <5>1, NullIsNowhere DEF Sound, Types
        <5>3. a \in Chain(saved.arBuckets[k])
          BY <1>1, <5>2 DEF Tables
        <5>4. saved.arBuckets[k] \in Below(saved.top) /\ a <= saved.arBuckets[k]
          BY <1>1, <1>4, <5>3, ChainOfTable
        <5>5. saved.arBuckets[k] # Null
          BY <1>1, <2>2, <5>4, NullIsNowhere DEF Types
        <5>6. saved.arBuckets[k] \in Chain(arBuckets[k])
          BY <1>1, <1>4, <5>5 DEF Tables
        <5>7. saved.arBuckets[k] <= next
          BY <1>1, <1>3, <1>4, <5>6, ChainOfTable
        <5>8. saved.arBuckets[k] \in Int /\ a \in Int
          BY <2>2, <4>1, <5>4
        <5> QED
          BY <4>1, <5>1, <5>2, <5>4, <5>7, <5>8
      <4>3. mem'[a].pLast = mem[a].pLast
        BY <1>7, <4>1, <4>2
      <4>4. mem[a].pLast \in Below(saved.top) /\ mem[mem[a].pLast].pNext = a
        BY <2>4, <2>7, <3>2, <4>1, <4>3 DEF InReserve
      <4> QED
        BY <1>7, <2>2, <4>3, <4>4 DEF SameNodes
    <3>3. Below(saved.top)' = Below(saved.top) /\ Below(saved.top) \subseteq DOMAIN mem
      BY <1>2, <1>11, <2>2 DEF Below
    <3>4. /\ Listed(Below(saved.top), saved.pListHead, saved.pListTail)
          /\ pListTail = saved.pListTail \/ pListTail >= saved.top
      BY <2>4, <2>7 DEF InReserve
    <3>5. Listed(Below(saved.top), saved.pListHead, saved.pListTail)'
      BY <1>2, <1>7, <3>3, <3>4 DEF Listed
    <3> QED
      BY <1>2, <3>1, <3>2, <3>3, <3>4, <3>5 DEF InReserve, At
  <2> QED
    BY <1>2, <2>6, <2>7 DEF Linked
<1> QED
  BY <1>10, <1>11, <1>14, <1>15, <1>16, <1>17 DEF Inv, Safe

\* The string is put behind the last of the list.
LEMMA AppendToListKeeps == ASSUME Inv, AppendToList PROVE Inv'
<1> DEFINE p == job.p
<1>1. /\ Types /\ Whole /\ Tables /\ References /\ Progress /\ Linked
      /\ job \in Job /\ kills \in Nat /\ pListTail \in Link /\ pListHead \in Link
      /\ Sound(arBuckets, top)
  BY DEF Inv, Safe, Types, Tables
<1>2. /\ job.at = "append"
      /\ mem' = [x \in DOMAIN mem |->
                   IF x = p THEN [mem[p] EXCEPT !.pListLast = pListTail]
                   ELSE IF x = pListTail THEN [mem[x] EXCEPT !.pListNext = p]
                   ELSE mem[x]]
      /\ pListTail' = p
      /\ pListHead' = IF pListHead = Null THEN p ELSE pListHead
      /\ job' = [job EXCEPT !.at = "find", !.todo = Tail(@), !.p = Null,
                            !.refs = @ \cup {<<mem[p].str, p>>}]
      /\ UNCHANGED <<arBuckets, top, saved, php, scripts, accel_startup_ok, kills>>
  BY DEF AppendToList, flags
<1>3. /\ job.todo # <<>> /\ p \in Below(top) /\ p >= saved.top
      /\ mem[p].pListNext = Null
  BY <1>1, <1>2 DEF Progress
<1>4. p \in DOMAIN mem /\ p \in Address /\ p \in Int /\ mem[p] \in NodeType /\ p # Null
  BY <1>1, <1>3, SavedIsBelow, NullIsNowhere DEF Types
<1> HIDE DEF p
<1>5. /\ DOMAIN mem' = DOMAIN mem
      /\ \A x \in DOMAIN mem :
           /\ mem'[x] \in NodeType
           /\ mem'[x].str = mem[x].str /\ mem'[x].pNext = mem[x].pNext
           /\ mem'[x].pLast = mem[x].pLast
           /\ x # p => mem'[x].pListLast = mem[x].pListLast
           /\ x # pListTail => mem'[x].pListNext = mem[x].pListNext
           /\ x = pListTail /\ x # p => mem'[x].pListNext = p
      /\ mem'[p].pListLast = pListTail /\ mem'[p].pListNext = Null
  <2>1. DOMAIN mem' = DOMAIN mem
    BY <1>2
  <2>2. ASSUME NEW x \in DOMAIN mem
        PROVE  /\ mem'[x] \in NodeType
               /\ mem'[x].str = mem[x].str /\ mem'[x].pNext = mem[x].pNext
               /\ mem'[x].pLast = mem[x].pLast
               /\ x # p => mem'[x].pListLast = mem[x].pListLast
               /\ x # pListTail => mem'[x].pListNext = mem[x].pListNext
               /\ x = pListTail /\ x # p => mem'[x].pListNext = p
    <3>1. mem[x] \in NodeType
      BY <1>1 DEF Types
    <3>2. CASE x = p
      <4>1. mem'[x] = [mem[x] EXCEPT !.pListLast = pListTail]
        BY <1>2, <3>2
      <4> QED
        BY <1>1, <3>1, <3>2, <4>1 DEF NodeType, Link
    <3>3. CASE x # p /\ x = pListTail
      <4>1. mem'[x] = [mem[x] EXCEPT !.pListNext = p]
        BY <1>2, <3>3
      <4> QED
        BY <1>4, <3>1, <3>3, <4>1 DEF NodeType
    <3>4. CASE x # p /\ x # pListTail
      <4>1. mem'[x] = mem[x]
        BY <1>2, <3>4
      <4> QED
        BY <3>1, <3>4, <4>1
    <3> QED
      BY <3>2, <3>3, <3>4
  <2>3. mem'[p] = [mem[p] EXCEPT !.pListLast = pListTail]
    BY <1>2, <1>4
  <2>4. mem'[p].pListLast = pListTail /\ mem'[p].pListNext = mem[p].pListNext
    BY <1>4, <2>3 DEF NodeType
  <2> QED
    BY <1>3, <2>1, <2>2, <2>4
<1>6. SameNodes(mem')
  <2>1. mem' = [x \in DOMAIN mem |-> mem'[x]]
    BY <1>2
  <2> QED
    BY <1>5, <2>1 DEF SameNodes
<1>7. /\ job' \in Job /\ job'.at = "find"
      /\ job'.refs = job.refs \cup {<<mem[p].str, p>>}
  <2>1. job' = [at |-> "find", todo |-> Tail(job.todo),
                refs |-> job.refs \cup {<<mem[p].str, p>>}, p |-> Null]
    BY <1>1, <1>2 DEF Job
  <2>2. Tail(job.todo) \in Seq(String)
    BY <1>1, <1>3, HeadTailProperties DEF Job
  <2>3. {<<mem[p].str, p>>} \in SUBSET Reference
    BY <1>4 DEF Reference, NodeType
  <2> QED
    BY <1>1, <2>1, <2>2, <2>3 DEF Job, Link
<1>8. Types'
  <2>1. pListTail' \in Link /\ pListHead' \in Link
    BY <1>1, <1>2, <1>4 DEF Link
  <2> QED
    BY <1>1, <1>2, <1>6, <1>7, <2>1 DEF Types, SameNodes
<1>9. /\ Whole' /\ Sound(saved.arBuckets, saved.top)'
      /\ \A x \in DOMAIN mem : Hash[mem'[x].str] = At(x)
      /\ \A x \in Below(saved.top)' : (x \in Chain(saved.arBuckets[At(x)]))'
  BY <1>1, <1>2, <1>6, RelinkKeeps
<1>10. \A t : {x \in DOMAIN mem' : x < t} = Below(t)
  BY <1>5 DEF Below
<1>11. \A a : Follow(mem', a) = Chain(a)
  BY <1>6, SameChains
<1>12. Tables'
  <2>1. Sound(arBuckets, top)'
    <3>1. top' = top /\ Below(top)' = Below(top) /\ arBuckets' = arBuckets
      BY <1>2, <1>10 DEF Below
    <3>2. \A i \in Index :
             /\ arBuckets[i] # Null => arBuckets[i] \in Below(top) /\ Hash[mem'[arBuckets[i]].str] = i
             /\ \A x, y \in Follow(mem', arBuckets[i]) :
                  mem'[x].str = mem'[y].str => x = y
      BY <1>1, <1>6, RelinkSound
    <3> QED
      BY <3>1, <3>2 DEF Sound, Chain, At
  <2>2. \A i \in Index : saved.arBuckets[i] # Null =>
          saved.arBuckets[i] \in Follow(mem', arBuckets[i])
    BY <1>1, <1>11 DEF Tables
  <2> QED
    BY <1>2, <1>9, <2>1, <2>2 DEF Tables, Chain
<1>13. References'
  <2>1. Holds(<<mem[p].str, p>>, top)
    BY <1>3 DEF Holds
  <2>2. \A r \in scripts \cup job.refs : Holds(r, top)
    BY <1>1 DEF References
  <2>3. \A r \in scripts' \cup job'.refs : Holds(r, top')
    BY <1>2, <1>7, <2>1, <2>2
  <2> QED
    BY <1>1, <1>2, <1>6, <2>3, RelinkRefers
<1>14. Progress'
  BY <1>1, <1>2, <1>7 DEF Progress
<1>15. Linked'
  <2>1. /\ Chained = Below(top) /\ Ordered = Below(top) \ {p}
        /\ Chained' = Below(top) /\ Ordered' = Below(top)
    BY <1>2, <1>7, <1>10 DEF Chained, Ordered, Below, p
  <2>2. Below(top) \subseteq DOMAIN mem /\ Below(saved.top) \subseteq Below(top)
        /\ p \notin Below(saved.top) /\ Null \notin Below(top)
        /\ saved.top \in Int
    BY <1>1, <1>3, <1>4, SavedIsBelow, NullIsNowhere DEF Below, Types
  <2>3. ASSUME kills = 0
        PROVE  InUse /\ InReserve
    BY <1>1, <1>2, <2>3 DEF Linked
  <2>4. ASSUME kills = 0
        PROVE  InUse'
    <3>1. /\ \A x \in Below(top) : x \in Chain(arBuckets[At(x)])
          /\ ChainsBack(Below(top))
          /\ Listed(Below(top) \ {p}, pListHead, pListTail)
      BY <2>1, <2>3, <2>4 DEF InUse
    <3>2. \A x \in Chained' : x \in Chain(arBuckets[At(x)])'
      <4>1. \A x \in Below(top) : x \in Follow(mem', arBuckets[Hash[mem'[x].str]])
        BY <1>9, <1>11, <2>2, <3>1
      <4> QED
        BY <1>2, <2>1, <4>1 DEF Chain, At
    <3>3. ChainsBack(Chained)'
      <4>1. \A a \in Below(top) : mem[a].pNext # Null => mem[a].pNext \in DOMAIN mem
        BY <1>1 DEF Whole, Below
      <4>2. ASSUME NEW a \in Below(top)
            PROVE  /\ mem'[a].pNext # Null => mem'[mem'[a].pNext].pLast = a
                   /\ mem'[a].pLast # Null =>
                        /\ mem'[a].pLast \in Below(top)
                        /\ mem'[mem'[a].pLast].pNext = a
        BY <1>5, <2>2, <3>1, <4>1 DEF ChainsBack
      <4> QED
        BY <2>1, <4>2 DEF ChainsBack
    <3>4. pListTail # p /\ pListHead # p
      BY <1>4, <3>1 DEF Listed
    <3>5. ASSUME NEW a \in Below(top), a # p
          PROVE  /\ mem'[a].pListNext \in Below(top)
                 /\ mem'[mem'[a].pListNext].pListLast = a
      <4>1. CASE a = pListTail
        BY <1>3, <1>5, <2>2, <3>5, <4>1
      <4>2. CASE a # pListTail
        <5>1. mem[a].pListNext \in Below(top) \ {p} /\ mem[mem[a].pListNext].pListLast = a
          BY <3>1, <3>5, <4>2 DEF Listed
        <5> QED
          BY <1>5, <2>2, <4>2, <5>1
      <4> QED
        BY <4>1, <4>2
    <3>6. ASSUME NEW a \in Below(top)
          PROVE  IF mem'[a].pListLast = Null THEN a = pListHead'
                 ELSE mem'[a].pListLast \in Below(top)
      <4>1. CASE a = p
        BY <1>2, <1>5, <3>1, <4>1 DEF Listed
      <4>2. CASE a # p
        <5>1. mem'[a].pListLast = mem[a].pListLast
          BY <1>5, <2>2, <4>2
        <5>2. IF mem[a].pListLast = Null THEN a = pListHead
              ELSE mem[a].pListLast \in Below(top)
          BY <3>1, <4>2 DEF Listed
        <5> QED
          BY <1>2, <2>2, <5>1, <5>2
      <4> QED
        BY <4>1, <4>2
    <3>7. /\ pListHead' \in Below(top) /\ mem'[pListHead'].pListLast = Null
          /\ pListTail' \in Below(top) /\ mem'[pListTail'].pListNext = Null
      <4>1. pListTail' = p /\ mem'[p].pListNext = Null /\ p \in Below(top)
        BY <1>2, <1>3, <1>5
      <4>2. CASE pListHead = Null
        <5>1. pListTail = Null /\ pListHead' = p
          BY <1>2, <3>1, <4>2 DEF Listed
        <5> QED
          BY <1>5, <4>1, <5>1
      <4>3. CASE pListHead # Null
        <5>1. pListHead' = pListHead /\ pListHead \in Below(top)
              /\ mem[pListHead].pListLast = Null
          BY <1>2, <3>1, <4>3 DEF Listed
        <5>2. mem'[pListHead].pListLast = Null
          BY <1>5, <2>2, <3>4, <5>1
        <5> QED
          BY <4>1, <5>1, <5>2
      <4> QED
        BY <4>2, <4>3
    <3>8. Listed(Ordered, pListHead, pListTail)'
      BY <1>2, <2>1, <2>2, <3>5, <3>6, <3>7 DEF Listed
    <3> QED
      BY <3>2, <3>3, <3>7, <3>8 DEF InUse
  <2>5. ASSUME kills = 0
        PROVE  InReserve'
    <3> DEFINE S == Below(saved.top)
    <3>1. /\ Listed(S, saved.pListHead, saved.pListTail)
          /\ pListTail = saved.pListTail \/ pListTail >= saved.top
      BY <2>3, <2>5 DEF InReserve
    <3>2. S \subseteq DOMAIN mem /\ \A x \in S : x < saved.top /\ x \in Int
      BY <1>1, <1>2, <1>10, <2>2, SavedIsBelow DEF Below
    <3>3. \A a \in S : mem[a].pNext # Null => mem[a].pNext \in DOMAIN mem
      BY <1>1, <2>2 DEF Whole, Below
    <3>4. \A a \in S :
            /\ mem[a].pNext # Null => mem[mem[a].pNext].pLast = a
            /\ a # saved.arBuckets[At(a)] /\ mem[a].pLast # Null =>
                 mem[a].pLast \in S /\ mem[mem[a].pLast].pNext = a
      BY <2>3, <2>5 DEF InReserve
    <3> HIDE DEF S
    <3>5. \A a \in S :
            /\ mem'[a].pNext # Null => mem'[mem'[a].pNext].pLast = a
            /\ a # saved.arBuckets[Hash[mem'[a].str]] /\ mem'[a].pLast # Null =>
                 mem'[a].pLast \in S /\ mem'[mem'[a].pLast].pNext = a
      BY <1>5, <1>9, <3>2, <3>3, <3>4
    <3>6. \A a \in S : a # saved.pListTail => a # pListTail
      BY <2>2, <3>1, <3>2
    <3>7. p \notin S
      BY <2>2 DEF S
    <3>8. \A a \in S : mem'[a].pListLast = mem[a].pListLast
      BY <1>5, <3>2, <3>7
    <3>9. \A a \in S : a # saved.pListTail => mem'[a].pListNext = mem[a].pListNext
      BY <1>5, <3>2, <3>6
    <3>10. \A a \in S :
             /\ a # saved.pListTail => /\ mem'[a].pListNext \in S
                                      /\ mem'[mem'[a].pListNext].pListLast = a
             /\ IF mem'[a].pListLast = Null THEN a = saved.pListHead
                ELSE mem'[a].pListLast \in S
      BY <3>1, <3>8, <3>9 DEF Listed
    <3>11. /\ saved.pListHead = Null <=> saved.pListTail = Null
           /\ saved.pListHead # Null =>
                saved.pListHead \in S /\ mem'[saved.pListHead].pListLast = Null
           /\ saved.pListTail # Null => saved.pListTail \in S
      BY <3>1, <3>8 DEF Listed
    <3>12. Below(saved.top)' = Below(saved.top) /\ saved' = saved
      BY <1>2, <1>10 DEF Below
    <3>13. Listed(Below(saved.top), saved.pListHead, saved.pListTail)'
      BY <3>10, <3>11, <3>12 DEF Listed, S
    <3>14. (pListTail = saved.pListTail \/ pListTail >= saved.top)'
      BY <1>2, <1>3
    <3> QED
      BY <3>5, <3>12, <3>13, <3>14 DEF InReserve, S, At
  <2> QED
    BY <1>2, <2>4, <2>5 DEF Linked
<1> QED
  BY <1>8, <1>9, <1>12, <1>13, <1>14, <1>15 DEF Inv, Safe

\* The bucket gets its saved chain, whose first string has none before it.
LEMMA RestoreBucketKeeps == ASSUME Inv, RestoreBucket PROVE Inv'
<1> DEFINE i == job.p
           a == saved.arBuckets[i]
<1>1. /\ Types /\ Whole /\ Tables /\ References /\ Progress /\ Linked
      /\ job \in Job /\ kills \in Nat /\ arBuckets \in [Index -> Link]
      /\ Sound(arBuckets, top) /\ Sound(saved.arBuckets, saved.top)
  BY DEF Inv, Safe, Types, Tables
<1>2. /\ job.at = "restore" /\ i < nTableSize
      /\ arBuckets' = [arBuckets EXCEPT ![i] = a]
      /\ mem' = IF a = Null THEN mem ELSE [mem EXCEPT ![a].pLast = Null]
      /\ job' = [job EXCEPT !.p = i + 1]
      /\ UNCHANGED <<pListHead, pListTail, top, saved, php, scripts,
                     accel_startup_ok, kills>>
  BY DEF RestoreBucket, flags
<1>3. /\ scripts = {} /\ job.refs = {} /\ i \in 0..nTableSize
      /\ \A j \in Index : j < i =>
           /\ arBuckets[j] = saved.arBuckets[j]
           /\ arBuckets[j] # Null => mem[arBuckets[j]].pLast = Null
  BY <1>1, <1>2 DEF Progress
<1>4. i \in Index /\ i \in Int /\ i + 1 \in 0..nTableSize
  BY <1>2, <1>3, StringAssumption DEF Index
<1>5. /\ a # Null => a \in Below(saved.top) /\ At(a) = i /\ a \in DOMAIN mem
      /\ a \in Link
  BY <1>1, <1>4, SavedIsBelow DEF Sound, Types, Saved, Link
<1> HIDE DEF i, a
<1>6. /\ DOMAIN mem' = DOMAIN mem /\ SameNodes(mem')
      /\ \A x \in DOMAIN mem : /\ mem'[x].pListNext = mem[x].pListNext
                               /\ mem'[x].pListLast = mem[x].pListLast
                               /\ x # a => mem'[x].pLast = mem[x].pLast
      /\ a # Null => mem'[a].pLast = Null
  <2>1. CASE a = Null
    BY <1>1, <1>2, <2>1 DEF SameNodes, Types
  <2>2. CASE a # Null
    <3>1. mem[a] \in NodeType
      BY <1>1, <1>5, <2>2 DEF Types
    <3>2. mem' = [x \in DOMAIN mem |->
                    IF x = a THEN [mem[x] EXCEPT !.pLast = Null] ELSE mem[x]]
      BY <1>1, <1>2, <1>5, <2>2 DEF Types
    <3>3. mem'[a] = [mem[a] EXCEPT !.pLast = Null]
      BY <1>5, <2>2, <3>2
    <3>4. /\ mem'[a] \in NodeType /\ mem'[a].str = mem[a].str
          /\ mem'[a].pNext = mem[a].pNext /\ mem'[a].pLast = Null
          /\ mem'[a].pListNext = mem[a].pListNext
          /\ mem'[a].pListLast = mem[a].pListLast
      BY <3>1, <3>3 DEF NodeType
    <3>5. \A x \in DOMAIN mem : x # a => mem'[x] = mem[x] /\ mem'[x] \in NodeType
      BY <1>1, <3>2 DEF Types
    <3>6. mem' \in [DOMAIN mem -> NodeType]
      BY <3>2, <3>4, <3>5
    <3> QED
      BY <2>2, <3>4, <3>5, <3>6 DEF SameNodes
  <2> QED
    BY <2>1, <2>2
<1>7. job' \in Job /\ job'.at = "restore" /\ job'.p = i + 1 /\ job'.refs = {}
  <2>1. job' = [at |-> job.at, todo |-> job.todo, refs |-> job.refs, p |-> i + 1]
    BY <1>1, <1>2 DEF Job
  <2> QED
    BY <1>1, <1>2, <1>3, <1>4, <2>1 DEF Job
<1>8. arBuckets' \in [Index -> Link] /\ arBuckets'[i] = a
      /\ \A j \in Index : j # i => arBuckets'[j] = arBuckets[j]
  BY <1>1, <1>2, <1>4, <1>5
<1>9. Types'
  BY <1>1, <1>2, <1>6, <1>7, <1>8 DEF Types, SameNodes
<1>10. /\ Whole' /\ Sound(saved.arBuckets, saved.top)'
       /\ \A x \in DOMAIN mem : Hash[mem'[x].str] = At(x)
       /\ \A x \in Below(saved.top)' : (x \in Chain(saved.arBuckets[At(x)]))'
  BY <1>1, <1>2, <1>6, RelinkKeeps
<1>11. \A t : {x \in DOMAIN mem' : x < t} = Below(t)
  BY <1>6 DEF Below
<1>12. \A c : Follow(mem', c) = Chain(c)
  BY <1>6, SameChains
<1>13. Tables'
  <2>1. ASSUME NEW j \in Index
        PROVE  /\ arBuckets'[j] # Null => /\ arBuckets'[j] \in Below(top)
                                          /\ Hash[mem'[arBuckets'[j]].str] = j
               /\ \A x, y \in Follow(mem', arBuckets'[j]) :
                    mem'[x].str = mem'[y].str => x = y
    <3>1. CASE j # i
      BY <1>1, <1>6, <1>8, <3>1, RelinkSound
    <3>2. CASE j = i
      BY <1>1, <1>4, <1>6, <1>8, <3>2, RelinkSound, SavedIsBelow DEF a
    <3> QED
      BY <3>1, <3>2
  <2>2. Sound(arBuckets, top)'
    <3>1. top' = top /\ Below(top)' = Below(top)
      BY <1>2, <1>11 DEF Below
    <3> QED
      BY <2>1, <3>1 DEF Sound, Chain, At
  <2>3. ASSUME NEW j \in Index, saved.arBuckets[j] # Null
        PROVE  saved.arBuckets[j] \in Follow(mem', arBuckets'[j])
    <3>1. CASE j # i
      BY <1>1, <1>8, <1>12, <2>3, <3>1 DEF Tables
    <3>2. CASE j = i
      BY <1>5, <1>8, <2>3, <3>2, FollowBegins DEF a
    <3> QED
      BY <3>1, <3>2
  <2> QED
    BY <1>2, <1>10, <2>2, <2>3 DEF Tables, Chain
<1>14. References'
  <2>1. \A r \in scripts' \cup job'.refs : Holds(r, top')
    BY <1>2, <1>3, <1>7
  <2> QED
    BY <1>1, <1>2, <1>6, <2>1, RelinkRefers
<1>15. Progress'
  <2>1. ~accel_startup_ok => job.at # "restore"
    BY <1>1 DEF Progress
  <2>2. ASSUME NEW j \in Index, j < i + 1
        PROVE  /\ arBuckets'[j] = saved.arBuckets[j]
               /\ arBuckets'[j] # Null => mem'[arBuckets'[j]].pLast = Null
    <3>1. CASE j = i
      BY <1>6, <1>8, <3>1 DEF a
    <3>2. CASE j # i
      <4>1. j < i /\ arBuckets'[j] = arBuckets[j]
        BY <1>4, <1>8, <2>2, <3>2 DEF Index
      <4>2. /\ arBuckets[j] = saved.arBuckets[j]
            /\ arBuckets[j] # Null => /\ mem[arBuckets[j]].pLast = Null
                                      /\ arBuckets[j] \in DOMAIN mem
        BY <1>1, <1>3, <4>1, SavedIsBelow DEF Sound
      <4> QED
        BY <1>6, <4>1, <4>2
    <3> QED
      BY <3>1, <3>2
  <2> QED
    BY <1>2, <1>3, <1>4, <1>7, <2>1, <2>2 DEF Progress
<1>16. Linked'
  <2>1. ASSUME kills = 0
        PROVE  InReserve'
    <3>1. InReserve
      BY <1>1, <2>1 DEF Linked
    <3>2. /\ Below(saved.top) \subseteq Below(top) /\ Below(top) \subseteq DOMAIN mem
          /\ \A x \in DOMAIN mem : x \in Int
      BY <1>1, SavedIsBelow
    <3>3. ASSUME NEW x \in Below(saved.top), mem[x].pNext # Null
          PROVE  mem[x].pNext \in DOMAIN mem /\ mem[x].pNext # a
      <4>1. mem[x].pNext \in Below(x) /\ At(mem[x].pNext) = At(x)
        BY <1>1, <3>2, <3>3 DEF Whole
      <4>2. SUFFICES ASSUME mem[x].pNext = a
                     PROVE  FALSE
        BY <4>1 DEF Below
      <4>3. At(x) = i
        BY <1>5, <3>3, <4>1, <4>2
      <4>4. x \in Chain(saved.arBuckets[i])
        BY <1>1, <4>3 DEF Tables
      <4>5. x <= a
        BY <1>1, <1>4, <4>4, ChainOfTable DEF a
      <4> QED
        BY <3>2, <4>1, <4>2, <4>5 DEF Below
    <3>4. ASSUME NEW x \in Below(saved.top)
          PROVE  /\ mem'[x].pNext # Null => mem'[mem'[x].pNext].pLast = x
                 /\ x # saved.arBuckets[Hash[mem'[x].str]] /\ mem'[x].pLast # Null =>
                      mem'[x].pLast \in Below(saved.top) /\ mem'[mem'[x].pLast].pNext = x
      <4>1. /\ mem'[x].pNext = mem[x].pNext /\ Hash[mem'[x].str] = At(x)
            /\ x \in DOMAIN mem
        BY <1>6, <1>10, <3>2 DEF SameNodes
      <4>2. mem'[x].pNext # Null => mem'[mem'[x].pNext].pLast = x
        BY <1>6, <3>1, <3>3, <4>1 DEF InReserve
      <4>3. ASSUME x # saved.arBuckets[At(x)], mem'[x].pLast # Null
            PROVE  mem'[x].pLast \in Below(saved.top) /\ mem'[mem'[x].pLast].pNext = x
        <5>1. CASE x = a
          BY <1>4, <1>6, <4>3, <5>1, <1>1, <3>2, NullIsNowhere DEF Types
        <5>2. CASE x # a
          <6>1. mem'[x].pLast = mem[x].pLast
            BY <1>6, <4>1, <5>2
          <6>2. mem[x].pLast \in Below(saved.top) /\ mem[mem[x].pLast].pNext = x
            BY <3>1, <4>3, <6>1 DEF InReserve
          <6> QED
            BY <1>6, <3>2, <6>1, <6>2 DEF SameNodes
        <5> QED
          BY <5>1, <5>2
      <4> QED
        BY <4>1, <4>2, <4>3
    <3>5. Listed(Below(saved.top), saved.pListHead, saved.pListTail)
          /\ (pListTail = saved.pListTail \/ pListTail >= saved.top)
      BY <3>1 DEF InReserve
    <3>6. Below(saved.top)' = Below(saved.top)
      BY <1>2, <1>11 DEF Below
    <3>7. Listed(Below(saved.top), saved.pListHead, saved.pListTail)'
      BY <1>2, <1>6, <3>2, <3>5, <3>6 DEF Listed
    <3> QED
      BY <1>2, <3>4, <3>5, <3>6, <3>7 DEF InReserve, At
  <2> QED
    BY <1>2, <1>7, <2>1 DEF Linked
<1> QED
  BY <1>9, <1>10, <1>13, <1>14, <1>15, <1>16 DEF Inv, Safe

\* The table is what was saved, and so are the list and the top.
LEMMA RestoredKeeps == ASSUME Inv, Restored PROVE Inv'
<1> DEFINE head == saved.pListHead
           tail == saved.pListTail
<1>1. /\ Types /\ Whole /\ Tables /\ References /\ Progress /\ Linked
      /\ job \in Job /\ kills \in Nat /\ saved \in Saved
      /\ Sound(saved.arBuckets, saved.top)
  BY DEF Inv, Safe, Types, Tables
<1>2. /\ job.at = "restore" /\ job.p = nTableSize /\ mem' = RestoreList(mem)
      /\ pListHead' = head /\ pListTail' = tail
      /\ top' = saved.top /\ job' = Free
      /\ UNCHANGED <<arBuckets, saved, php, scripts, accel_startup_ok, kills>>
  BY DEF Restored
<1>3. /\ scripts = {} /\ accel_startup_ok
      /\ \A i \in Index :
           /\ arBuckets[i] = saved.arBuckets[i]
           /\ arBuckets[i] # Null => mem[arBuckets[i]].pLast = Null
  <2>1. \A i \in Index : i < nTableSize
    BY StringAssumption DEF Index
  <2> QED
    BY <1>1, <1>2, <2>1 DEF Progress
<1>4. arBuckets = saved.arBuckets
  BY <1>1, <1>3 DEF Types, Saved
<1>5. Free \in Job /\ Free.at = "free" /\ Free.refs = {}
  <2>1. <<>> \in Seq(String)
    BY EmptySeq
  <2> QED
    BY <2>1 DEF Free, Job, Link
<1>6. /\ DOMAIN mem' = DOMAIN mem
      /\ \A x \in DOMAIN mem :
           /\ mem'[x] \in NodeType
           /\ mem'[x].str = mem[x].str /\ mem'[x].pNext = mem[x].pNext
           /\ mem'[x].pLast = mem[x].pLast
           /\ mem'[x].pListLast = IF x = head THEN Null ELSE mem[x].pListLast
           /\ mem'[x].pListNext = IF x = tail THEN Null ELSE mem[x].pListNext
  <2> DEFINE begun == [x \in DOMAIN mem |-> IF x = head
                         THEN [mem[x] EXCEPT !.pListLast = Null] ELSE mem[x]]
  <2>1. mem' = [x \in DOMAIN mem |-> IF x = tail
                  THEN [begun[x] EXCEPT !.pListNext = Null] ELSE begun[x]]
    BY <1>2 DEF RestoreList
  <2>2. ASSUME NEW x \in DOMAIN mem
        PROVE  /\ begun[x] \in NodeType
               /\ begun[x].str = mem[x].str /\ begun[x].pNext = mem[x].pNext
               /\ begun[x].pLast = mem[x].pLast
               /\ begun[x].pListLast = IF x = head THEN Null ELSE mem[x].pListLast
               /\ begun[x].pListNext = mem[x].pListNext
    <3>1. mem[x] \in NodeType
      BY <1>1 DEF Types
    <3> QED
      BY <3>1 DEF NodeType
  <2> HIDE DEF begun, head, tail
  <2>3. ASSUME NEW x \in DOMAIN mem
        PROVE  /\ mem'[x] \in NodeType
               /\ mem'[x].str = mem[x].str /\ mem'[x].pNext = mem[x].pNext
               /\ mem'[x].pLast = mem[x].pLast
               /\ mem'[x].pListLast = IF x = head THEN Null ELSE mem[x].pListLast
               /\ mem'[x].pListNext = IF x = tail THEN Null ELSE mem[x].pListNext
    <3>1. CASE x = tail
      <4>1. mem'[x] = [begun[x] EXCEPT !.pListNext = Null]
        BY <2>1, <3>1
      <4> QED
        BY <2>2, <3>1, <4>1 DEF NodeType
    <3>2. CASE x # tail
      <4>1. mem'[x] = begun[x]
        BY <2>1, <3>2
      <4> QED
        BY <2>2, <3>2, <4>1
    <3> QED
      BY <3>1, <3>2
  <2> QED
    BY <2>1, <2>3
<1>7. SameNodes(mem')
  <2>1. mem' = [x \in DOMAIN mem |-> mem'[x]]
    BY <1>2 DEF RestoreList
  <2> QED
    BY <1>6, <2>1 DEF SameNodes
<1> HIDE DEF head, tail
<1>8. Types'
  <2>1. head \in Link /\ tail \in Link /\ saved.top \in 0..End
    BY <1>1 DEF Saved, head, tail, Link
  <2>2. saved.top <= saved.top
    BY <2>1, StringAssumption
  <2> QED
    BY <1>1, <1>2, <1>5, <1>7, <2>1, <2>2 DEF Types, SameNodes
<1>9. /\ Whole' /\ Sound(saved.arBuckets, saved.top)'
      /\ \A x \in DOMAIN mem : Hash[mem'[x].str] = At(x)
      /\ \A x \in Below(saved.top)' : (x \in Chain(saved.arBuckets[At(x)]))'
  BY <1>1, <1>2, <1>7, RelinkKeeps
<1>10. \A t : {x \in DOMAIN mem' : x < t} = Below(t)
  BY <1>6 DEF Below
<1>11. \A c : Follow(mem', c) = Chain(c)
  BY <1>7, SameChains
<1>12. Tables'
  <2>1. Sound(arBuckets, top)'
    BY <1>2, <1>4, <1>9
  <2>2. \A i \in Index : saved.arBuckets[i] # Null =>
          saved.arBuckets[i] \in Follow(mem', saved.arBuckets[i])
    BY <1>1, FollowBegins DEF Saved, Link
  <2> QED
    BY <1>2, <1>4, <1>9, <2>1, <2>2 DEF Tables, Chain
<1>13. References'
  <2>1. \A r \in scripts' \cup job'.refs : Holds(r, top')
    BY <1>2, <1>3, <1>5
  <2> QED
    BY <1>1, <1>2, <1>7, <2>1, RelinkRefers
<1>14. Progress'
  BY <1>2, <1>3, <1>5 DEF Progress
<1>15. Linked'
  <2> DEFINE S == Below(saved.top)
  <2>1. ASSUME kills = 0
        PROVE  InUse' /\ InReserve'
    <3>1. /\ Listed(S, head, tail)
          /\ \A a \in S :
               /\ mem[a].pNext # Null => mem[mem[a].pNext].pLast = a
               /\ a # saved.arBuckets[At(a)] /\ mem[a].pLast # Null =>
                    mem[a].pLast \in S /\ mem[mem[a].pLast].pNext = a
      BY <1>1, <2>1 DEF Linked, InReserve, head, tail
    <3>2. S \subseteq DOMAIN mem /\ S \subseteq Below(top) /\ Null \notin S
      BY <1>1, SavedIsBelow, NullIsNowhere DEF Types
    <3>3. Chained' = S /\ Ordered' = S /\ Below(saved.top)' = S
      BY <1>2, <1>5, <1>10 DEF Chained, Ordered, Below
    <3>4. ASSUME NEW a \in S
          PROVE  mem[a].pLast # Null => mem[a].pLast \in S /\ mem[mem[a].pLast].pNext = a
      <4>1. At(a) \in Index
        BY <1>1, <3>2, StringAssumption DEF At, Types, NodeType
      <4>2. a = saved.arBuckets[At(a)] => mem[a].pLast = Null
        BY <1>1, <1>3, <3>2, <4>1, NullIsNowhere DEF Types
      <4> QED
        BY <3>1, <4>2
    <3>5. \A a \in S : mem[a].pNext # Null => mem[a].pNext \in DOMAIN mem
      BY <1>1, <3>2 DEF Whole, Below
    <3> HIDE DEF S
    <3>6. \A a \in S :
            /\ mem'[a].pNext # Null => mem'[mem'[a].pNext].pLast = a
            /\ mem'[a].pLast # Null => mem'[a].pLast \in S /\ mem'[mem'[a].pLast].pNext = a
      BY <1>6, <3>1, <3>2, <3>4, <3>5
    <3>7. \A a \in S :
            /\ a # tail => /\ mem'[a].pListNext \in S
                           /\ mem'[mem'[a].pListNext].pListLast = a
            /\ IF mem'[a].pListLast = Null THEN a = head
               ELSE mem'[a].pListLast \in S
      <4>1. ASSUME NEW a \in S
            PROVE  mem'[a].pListLast = mem[a].pListLast
        BY <1>6, <3>1, <3>2 DEF Listed
      <4>2. ASSUME NEW a \in S, a # tail
            PROVE  mem'[a].pListNext = mem[a].pListNext
        BY <1>6, <3>2, <4>2
      <4> QED
        BY <3>1, <4>1, <4>2 DEF Listed
    <3>8. /\ head = Null <=> tail = Null
          /\ head # Null => head \in S /\ mem'[head].pListLast = Null
          /\ tail # Null => tail \in S /\ mem'[tail].pListNext = Null
      BY <1>6, <3>1, <3>2 DEF Listed
    <3>9. \A x \in S : (x \in Chain(arBuckets[At(x)]))'
      BY <1>2, <1>4, <1>9, <3>3
    <3>10. saved'.pListHead = head /\ saved'.pListTail = tail
      BY <1>2 DEF head, tail
    <3>11. ChainsBack(Chained)'
      BY <3>3, <3>6 DEF ChainsBack
    <3>12. Listed(Ordered, pListHead, pListTail)'
      BY <1>2, <3>3, <3>7, <3>8 DEF Listed
    <3>13. InUse'
      BY <1>2, <3>3, <3>8, <3>9, <3>11, <3>12 DEF InUse
    <3>14. Listed(Below(saved.top), saved.pListHead, saved.pListTail)'
      BY <3>3, <3>7, <3>8, <3>10 DEF Listed
    <3>15. InReserve'
      BY <1>2, <3>3, <3>6, <3>10, <3>14 DEF InReserve
    <3> QED
      BY <3>13, <3>15
  <2> QED
    BY <1>2, <2>1 DEF Linked
<1> QED
  BY <1>8, <1>9, <1>12, <1>13, <1>14, <1>15 DEF Inv, Safe

-----------------------------------------------------------------------------
(* The theorems.                                                           *)

\* The invariant holds in every reachable state.
THEOREM Invariant == Spec => []Inv
<1>1. Inv /\ [Next]_vars => Inv'
  <2> SUFFICES ASSUME Inv, [Next]_vars
               PROVE  Inv'
    OBVIOUS
  <2>1. CASE accel_new_interned_string
    <3>1. CASE FindString
      BY <3>1, FindStringKeeps
    <3>2. CASE BufferOverflow
      BY <3>2, BufferOverflowKeeps
    <3>3. CASE CreateString
      BY <3>3, CreateStringKeeps
    <3>4. CASE EnterChain
      BY <3>4, EnterChainKeeps
    <3>5. CASE AppendToList
      BY <3>5, AppendToListKeeps
    <3> QED
      BY <2>1, <3>1, <3>2, <3>3, <3>4, <3>5 DEF accel_new_interned_string
  <2>2. CASE Started
    BY <2>2, StartedKeeps
  <2>3. CASE ScriptStored \/ \E script \in Scripts : StoreScript(script)
    BY <2>3, StoreKeeps
  <2>4. CASE zend_accel_schedule_restart \/ Killed
    BY <2>4, ScheduleKeeps
  <2>5. CASE Restart
    BY <2>5, RestartKeeps
  <2>6. CASE RestoreBucket
    BY <2>6, RestoreBucketKeeps
  <2>7. CASE Restored
    BY <2>7, RestoredKeeps
  <2>8. CASE UNCHANGED vars
    BY <2>8, UnchangedKeeps
  <2> QED
    BY <2>1, <2>2, <2>3, <2>4, <2>5, <2>6, <2>7, <2>8 DEF Next
<1> QED
  BY <1>1, Initially, PTL DEF Spec

\* What can be found is whole, below the top and under its own index.
LEMMA FoundIsWhole ==
    ASSUME Inv, NEW x \in Found
    PROVE  x \in Below(top) /\ x \in Chain(arBuckets[At(x)]) /\ At(x) \in Index
<1>1. /\ Types /\ Whole /\ Sound(arBuckets, top)
  BY DEF Inv, Safe, Tables
<1>2. PICK i \in Index : x \in Chain(arBuckets[i])
  BY DEF Found
<1>3. x \in Below(top) /\ At(x) = i
  BY <1>1, <1>2, ChainOfTable
<1> QED
  BY <1>2, <1>3

\* A string is interned once, whatever was killed or restarted before.
THEOREM StringsAreShared == Spec => []SameString
<1>1. Inv => SameString
  <2> SUFFICES ASSUME Inv, NEW x \in Found, NEW y \in Found,
                      mem[x].str = mem[y].str
               PROVE  x = y
    BY DEF SameString
  <2>1. At(x) = At(y)
    BY DEF At
  <2>2. /\ x \in Chain(arBuckets[At(x)]) /\ y \in Chain(arBuckets[At(x)])
        /\ At(x) \in Index
    BY <2>1, FoundIsWhole
  <2> QED
    BY <2>2 DEF Inv, Safe, Tables, Sound
<1> QED
  BY <1>1, Invariant, PTL

\* No string that PHP or a stored script refers to is ever overwritten, by a
\* restart, by new strings or by a process that was killed.
THEOREM ReferencesStayGood == Spec => []KeepsItsContent
<1>1. Inv => KeepsItsContent
  <2> SUFFICES ASSUME Inv
               PROVE  KeepsItsContent
    OBVIOUS
  <2>1. Types /\ References
    BY DEF Inv, Safe
  <2>2. Below(saved.top) \subseteq Below(top) /\ Below(top) \subseteq DOMAIN mem
    BY <2>1, SavedIsBelow
  <2> QED
    BY <2>1, <2>2 DEF References, Holds, KeepsItsContent
<1> QED
  BY <1>1, Invariant, PTL

\* Each chain leads through whole strings of its bucket, also in the middle
\* of a restart and after one that was killed.
THEOREM ChainsAlwaysHold == Spec => []ChainsHold
<1>1. Inv => ChainsHold
  <2> SUFFICES ASSUME Inv
               PROVE  ChainsHold
    OBVIOUS
  <2>1. Types /\ Whole /\ Sound(arBuckets, top)
    BY DEF Inv, Safe, Tables
  <2>2. top <= End
    BY <2>1, StringAssumption DEF Types
  <2>3. ASSUME NEW i \in Index, NEW a \in Chain(arBuckets[i])
        PROVE  /\ a \in DOMAIN mem /\ Hash[mem[a].str] = i
               /\ a + Size[mem[a].str] <= top
    <3>1. a \in Below(top) /\ At(a) = i
      BY <2>1, ChainOfTable
    <3> QED
      BY <2>1, <3>1, SavedIsBelow DEF Whole, At
  <2> QED
    BY <2>2, <2>3 DEF ChainsHold
<1> QED
  BY <1>1, Invariant, PTL

\* Scripts share the strings of PHP after every restart.
THEOREM StartupStaysFound == Spec => []StartupIsFound
<1>1. Inv => StartupIsFound
  <2> SUFFICES ASSUME Inv, NEW r \in php
               PROVE  r[2] \in Lookup(r[1])
    BY DEF StartupIsFound
  <2>1. Types /\ Whole /\ Tables /\ Sound(saved.arBuckets, saved.top)
    BY DEF Inv, Safe, Tables
  <2>2. r[2] \in Below(saved.top) /\ mem[r[2]].str = r[1]
    BY DEF Inv, Safe, References, Holds
  <2>3. r[2] \in DOMAIN mem /\ At(r[2]) \in Index /\ At(r[2]) = Hash[r[1]]
    BY <2>1, <2>2, SavedIsBelow, StringAssumption DEF At, Types, NodeType
  <2>4. r[2] \in Chain(saved.arBuckets[At(r[2])])
    BY <2>1, <2>2 DEF Tables
  <2>5. saved.arBuckets[At(r[2])] # Null
    BY <2>4, FollowBegins DEF Chain, Link
  <2>6. saved.arBuckets[At(r[2])] \in Chain(arBuckets[At(r[2])])
    BY <2>1, <2>3, <2>5 DEF Tables
  <2>7. r[2] \in Chain(arBuckets[At(r[2])])
    BY <2>1, <2>4, <2>6, MemoryIsLinked, FollowOn DEF Chain
  <2> QED
    BY <2>2, <2>3, <2>7 DEF Lookup
<1> QED
  BY <1>1, Invariant, PTL

\* Without killed processes, the list runs through all that can be found,
\* and the chains lead back as they lead forth, after every restart too.
THEOREM LinksAlwaysAgree == Spec => []LinksAgree
<1>1. Inv => LinksAgree
  <2> SUFFICES ASSUME Inv, job = Free, kills = 0
               PROVE  LinksAgree
    BY DEF LinksAgree
  <2>1. Types /\ Below(top) \subseteq DOMAIN mem /\ \A x \in Below(top) : At(x) \in Index
    BY SavedIsBelow, StringAssumption DEF Inv, Safe, At, Types, NodeType
  <2>2. job.at = "free"
    BY DEF Free
  <2>3. InUse /\ Chained = Below(top) /\ Ordered = Below(top)
    BY <2>2 DEF Inv, Linked, Chained, Ordered
  <2>4. Found = Below(top)
    BY <2>1, <2>3, FoundIsWhole DEF Found, InUse
  <2>5. Null \notin Below(top)
    BY <2>1, NullIsNowhere DEF Types
  <2> QED
    BY <2>3, <2>4, <2>5 DEF LinksAgree, InUse, ChainsBack, Listed
<1> QED
  BY <1>1, Invariant, PTL
=============================================================================
