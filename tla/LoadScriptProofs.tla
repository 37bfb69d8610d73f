-------------------------- MODULE LoadScriptProofs --------------------------
(***************************************************************************)
(* Loading leaves shared memory as it is, and nothing that a request makes *)
(* and owns is the shared script's: for every stored script, of whatever   *)
(* classes, functions and arrays, and every request.                       *)
(***************************************************************************)
EXTENDS LoadScript, SequenceTheorems, TLAPS

-----------------------------------------------------------------------------
(* Sequences of calls.                                                     *)

Sequence(s) == s \in Seq({s[i] : i \in DOMAIN s})

LEMMA Counted ==
    ASSUME NEW n \in Nat, NEW s, s = [i \in 1..n |-> s[i]]
    PROVE  Sequence(s) /\ Len(s) = n /\ DOMAIN s = 1..n
<1> DEFINE S == {s[i] : i \in DOMAIN s}
<1>1. DOMAIN s = 1..n
  OBVIOUS
<1>2. s \in [1..n -> S]
  BY <1>1
<1>3. s \in Seq(S)
  BY <1>2, IsASeq
<1>4. Len(s) = n
  BY <1>1, <1>3, LenProperties
<1> QED
  BY <1>1, <1>3, <1>4 DEF Sequence

LEMMA AnySequence ==
    ASSUME NEW S, NEW s \in Seq(S)
    PROVE  Sequence(s) /\ Len(s) \in Nat /\ DOMAIN s = 1..Len(s)
<1>1. Len(s) \in Nat /\ s \in [1..Len(s) -> S]
  BY LenProperties
<1>2. s = [i \in 1..Len(s) |-> s[i]]
  BY <1>1
<1> QED
  BY <1>1, <1>2, Counted

LEMMA NoCalls == Sequence(<<>>) /\ DOMAIN <<>> = {}
<1>1. <<>> \in Seq({})
  OBVIOUS
<1>2. DOMAIN <<>> = 1..0
  BY <1>1, AnySequence, Len(<<>>) = 0
<1>3. 1..0 = {}
  OBVIOUS
<1> QED
  BY <1>1, <1>2, <1>3, AnySequence

\* What is due when the first of the calls has made its parts due.
LEMMA Pushed ==
    ASSUME NEW s, NEW parts, Sequence(s), Sequence(parts), s # <<>>
    PROVE  LET t == parts \o Tail(s)
           IN  /\ Sequence(t)
               /\ Len(parts) \in Nat /\ Len(s) \in Nat \ {0} /\ Len(t) = Len(parts) + Len(s) - 1
               /\ DOMAIN parts = 1..Len(parts) /\ DOMAIN s = 1..Len(s) /\ DOMAIN t = 1..Len(t)
               /\ \A i \in DOMAIN parts : i \in DOMAIN t /\ t[i] = parts[i]
               /\ \A i \in DOMAIN s \ {1} : Len(parts) + i - 1 \in DOMAIN t
                                            /\ t[Len(parts) + i - 1] = s[i]
               /\ \A i \in DOMAIN t \ DOMAIN parts :
                    i - Len(parts) + 1 \in DOMAIN s \ {1} /\ t[i] = s[i - Len(parts) + 1]
               /\ Head(s) = s[1] /\ 1 \in DOMAIN s
<1> DEFINE A == {s[i] : i \in DOMAIN s}
           B == {parts[i] : i \in DOMAIN parts}
           C == A \cup B
           r == Tail(s)
           t == parts \o r
<1>1. s \in Seq(C) /\ parts \in Seq(C)
  BY DEF Sequence
<1>2. r \in Seq(C) /\ Len(r) = Len(s) - 1 /\ Head(s) = s[1]
      /\ \A i \in 1..Len(r) : r[i] = s[i + 1]
  BY <1>1, HeadTailProperties
<1>3. t \in Seq(C) /\ Len(t) = Len(parts) + Len(r)
      /\ \A i \in 1..Len(t) : t[i] = IF i <= Len(parts) THEN parts[i] ELSE r[i - Len(parts)]
  BY <1>1, <1>2, ConcatProperties
<1>4. /\ Len(parts) \in Nat /\ DOMAIN parts = 1..Len(parts)
      /\ Len(s) \in Nat \ {0} /\ DOMAIN s = 1..Len(s)
      /\ Len(r) \in Nat /\ Len(t) \in Nat /\ DOMAIN t = 1..Len(t) /\ Sequence(t)
  BY <1>1, <1>2, <1>3, LenProperties, AnySequence, EmptySeq
<1> HIDE DEF r, t, A, B, C
<1>5. \A i \in DOMAIN parts : i \in DOMAIN t /\ t[i] = parts[i]
  BY <1>2, <1>3, <1>4
<1>6. \A i \in DOMAIN s \ {1} :
        Len(parts) + i - 1 \in DOMAIN t /\ t[Len(parts) + i - 1] = s[i]
  <2> SUFFICES ASSUME NEW i \in DOMAIN s \ {1}
               PROVE  Len(parts) + i - 1 \in DOMAIN t /\ t[Len(parts) + i - 1] = s[i]
    OBVIOUS
  <2>1. i \in Nat /\ i > 1 /\ i <= Len(s)
    BY <1>4
  <2>2. i - 1 \in 1..Len(r) /\ r[i - 1] = s[i]
    BY <2>1, <1>2, <1>4
  <2>3. Len(parts) + i - 1 \in 1..Len(t) /\ ~(Len(parts) + i - 1 <= Len(parts))
    BY <2>1, <1>2, <1>3, <1>4
  <2>4. (Len(parts) + i - 1) - Len(parts) = i - 1
    BY <2>1, <1>4
  <2> QED
    BY <2>2, <2>3, <2>4, <1>3, <1>4
<1>7. \A i \in DOMAIN t \ DOMAIN parts :
        i - Len(parts) + 1 \in DOMAIN s \ {1} /\ t[i] = s[i - Len(parts) + 1]
  <2> SUFFICES ASSUME NEW i \in DOMAIN t \ DOMAIN parts
               PROVE  i - Len(parts) + 1 \in DOMAIN s \ {1} /\ t[i] = s[i - Len(parts) + 1]
    OBVIOUS
  <2>1. i \in Nat /\ i > Len(parts) /\ i <= Len(t)
    BY <1>4
  <2>2. i - Len(parts) \in 1..Len(r) /\ t[i] = r[i - Len(parts)]
    BY <2>1, <1>3, <1>4
  <2>3. r[i - Len(parts)] = s[(i - Len(parts)) + 1]
    BY <2>2, <1>2
  <2> QED
    BY <2>1, <2>2, <2>3, <1>2, <1>4
<1>8. Head(s) = s[1] /\ 1 \in DOMAIN s /\ Len(t) = Len(parts) + Len(s) - 1
  BY <1>2, <1>3, <1>4
<1> QED
  BY <1>4, <1>5, <1>6, <1>7, <1>8 DEF r, t

-----------------------------------------------------------------------------
(* The inductive invariant.                                                *)

Fields == DOMAIN String("")

\* The objects of the request; its places, and what they may lead to.
Requested == DOMAIN mem \ SharedMemory
Safe(q) == Shared(q) => Interned(q)
SafePlace(obj, f) ==
    IF f \in Tables(obj)
    THEN /\ {"list", "ar"} \subseteq DOMAIN obj.p[f]
         /\ Sequence(obj.p[f].list) /\ Safe(obj.p[f].ar) /\ \A b \in Elements(obj.p[f]) : Safe(b)
    ELSE Safe(obj.p[f])

\* What a function takes: a pointer into shared memory, a pointer to be
\* redirected, or a table.
Takes == [string |-> {"str"}, comment |-> {"str"}, zval |-> {"zval"}, static_zval |-> {"zval"},
          members |-> {"table"}, rules |-> {"rule", "str"}, array |-> {"ht"},
          function |-> {"op_array"}, method |-> {"op_array"}, property |-> {"prop"},
          class |-> {"class"}]
Linking == {"inherit", "rescope"}
Looping == {"table", "bucket"}
Present == {"function", "method", "property", "class"}
ElementKind(f) ==
    CASE f = "function_table" -> "op_array"
      [] f = "properties_info" -> "prop"
      [] OTHER -> "zval"
TargetOf(c) == mem[c.a].p[c.f]

\* A bucket is copied to a table that is empty or copied so far.
FitsBucket(c) ==
    /\ SafePlace(mem[c.a], c.f)
    /\ c.b # Null /\ Points(c.b, {"bucket"})
    /\ mem[c.b].p.data # Null /\ Points(mem[c.b].p.data, {ElementKind(c.f)})
Fits(c) ==
    /\ c.function \in DOMAIN Takes \cup Linking \cup Looping
    /\ c.a \in Requested /\ c.f \in DOMAIN mem[c.a].p
    /\ c.function \in Looping <=> c.f \in Tables(mem[c.a])
    /\ c.function \in DOMAIN Takes => Points(TargetOf(c), Takes[c.function])
    /\ c.function \in Present => TargetOf(c) # Null
    /\ c.function = "table" => HoldTable(mem[c.a], c.f, {ElementKind(c.f)})
    /\ c.function = "bucket" => FitsBucket(c)

\* A call that is for the place f of a; no two are for the same place, but
\* those for the buckets of one table.
For(c, a, f) == c.a = a /\ c.f = f
BothBuckets(c, d) == c.function = "bucket" /\ d.function = "bucket"
Distinct ==
    \A i, j \in DOMAIN calls :
        i # j /\ For(calls[i], calls[j].a, calls[j].f) => BothBuckets(calls[i], calls[j])

Pending(a, f) == \E i \in DOMAIN calls : For(calls[i], a, f) /\ calls[i].function # "bucket"
Owning(obj) ==
    obj.kind # "script" /\ Tables(obj) \subseteq Owned(obj) /\ Owned(obj) \subseteq DOMAIN obj.p
Broken == ignore_dups /\ phase = "failed"
Owns ==
    \A a \in Requested :
        /\ Owning(mem[a])
        /\ \A f \in Owned(mem[a]) : SafePlace(mem[a], f) \/ Pending(a, f) \/ Broken

\* While a class is copied, the calls are for what it holds.
OfClass(f) == f \in {"function_table", "properties_info"}
InClass(c) ==
    /\ c.function = "function" => TargetOf(c) \in Held(script, "function_table")
    /\ c.function = "method" => TargetOf(c) \in Held(old_ce, "function_table")
    /\ c.function = "property" => TargetOf(c) \in Held(old_ce, "properties_info")
    /\ c.function = "table" /\ OfClass(c.f) => Held(c.a, c.f) \subseteq Held(old_ce, c.f)
    /\ c.function = "bucket" /\ OfClass(c.f) => mem[c.b].p.data \in Held(old_ce, c.f)
    /\ c.function \in Linking \cup {"method", "property"}
       \/ (c.function \in Looping /\ OfClass(c.f)) => phase = "load_classes"
    /\ c.function = "class" =>
         phase = "load_classes" /\ DOMAIN calls = {1} /\ TargetOf(c) = ClassAt(at - 1)
Copying ==
    phase = "load_classes" /\ calls # <<>> =>
        /\ at - 1 \in DOMAIN List("class_table")
        /\ calls[1].function # "class" => old_ce = ClassAt(at - 1)

\* What a call registers in bind_hash before it returns.
WillBind(c) ==
    {q \in CASE c.function = "class" -> {TargetOf(c)} \cup Held(TargetOf(c), "function_table")
             [] c.function = "table" /\ c.f = "function_table" -> Held(c.a, c.f)
             [] c.function = "bucket" /\ c.f = "function_table" -> {mem[c.b].p.data}
             [] c.function = "method" -> {TargetOf(c)}
             [] OTHER -> {} : Marked(q)}

\* A pointer that is to be redirected leads to what is registered, or will
\* be when its turn comes.
Ready(k) ==
    \/ TargetOf(calls[k]) = Null /\ calls[k].function = "inherit"
    \/ TargetOf(calls[k]) = old_ce /\ calls[k].function = "rescope"
    \/ Bound(TargetOf(calls[k]))
    \/ \E i \in DOMAIN calls : i < k /\ TargetOf(calls[k]) \in WillBind(calls[i])
AllReady == ~ignore_dups => \A k \in DOMAIN calls : calls[k].function \in Linking => Ready(k)
Registering ==
    ~ignore_dups /\ phase = "load_classes" =>
        \A j \in 1..(at - 1) : \A q \in Registered(ClassAt(j)) :
            Bound(q) \/ \E i \in DOMAIN calls : q \in WillBind(calls[i])
Reached == phase = "load_classes" => at - 1 <= Len(List("class_table"))

RequestInv ==
    /\ \A a \in DOMAIN mem : Fields \subseteq DOMAIN mem[a]
    /\ allocated \in Nat /\ \A k \in Nat : k > allocated => <<"req", k>> \notin DOMAIN mem
    /\ \A a \in CGTables : a \in DOMAIN mem /\ mem[a].kind = "request"
    /\ \A i \in DOMAIN calls : Fits(calls[i]) /\ InClass(calls[i])
    /\ Distinct /\ Owns
    /\ \A q \in DOMAIN bind : ~Shared(bind[q])
    /\ Copying /\ AllReady /\ Registering /\ Reached

IInv ==
    /\ Stored
    /\ phase \in {"stored"} \cup Loading \cup Ended
    /\ at \in Nat \ {0} /\ ~Shared(ce)
    /\ Sequence(calls)
    /\ phase \in {"stored", "failed"} => calls = <<>>
    /\ phase # "stored" => RequestInv

-----------------------------------------------------------------------------
(* Memory.                                                                 *)

LEMMA FieldsAre == Fields = {"kind", "size", "p", "n", "text", "mangled"}
BY DEF Fields, String

\* What a request allocates is not shared.
LEMMA RequestIsOwn ==
    ASSUME NEW x
    PROVE  /\ ~Shared(<<"req", x>>) /\ ~Shared(<<"CG", x>>) /\ ~Shared(<<"declared", x>>)
           /\ <<"req", x>> # Null
BY DEF Shared, Null

LEMMA SafeFacts ==
    ASSUME NEW q
    PROVE  (q = Null \/ ~Shared(q) \/ Interned(q)) => Safe(q)
BY DEF Safe, Shared

LEMMA PointingIs ==
    ASSUME NEW M, NEW a \in DOMAIN M, NEW f, NEW q, Fields \subseteq DOMAIN M[a]
    PROVE  LET P == Pointing(M, a, f, q)
           IN  /\ DOMAIN P = DOMAIN M /\ \A x \in DOMAIN M \ {a} : P[x] = M[x]
               /\ DOMAIN P[a] = DOMAIN M[a]
               /\ P[a].kind = M[a].kind /\ P[a].n = M[a].n
               /\ DOMAIN P[a].p = DOMAIN M[a].p
               /\ \A g \in DOMAIN M[a].p \ {f} : P[a].p[g] = M[a].p[g]
               /\ f \in DOMAIN M[a].p => P[a].p[f] = q
<1>1. "p" \in DOMAIN M[a] /\ "kind" \in DOMAIN M[a] /\ "n" \in DOMAIN M[a]
  BY FieldsAre
<1> QED
  BY <1>1 DEF Pointing

LEMMA WithIs ==
    ASSUME NEW M, NEW a, NEW obj
    PROVE  LET W == With(M, a, obj)
           IN  DOMAIN W = DOMAIN M \cup {a} /\ W[a] = obj /\ \A x \in DOMAIN M \ {a} : W[x] = M[x]
BY DEF With

-----------------------------------------------------------------------------
(* What is stored stays as it is, as long as shared memory does.           *)

SharedKept ==
    /\ script' = script /\ SharedMemory' = SharedMemory
    /\ \A a \in SharedMemory : mem'[a] = mem[a]

LEMMA PointsStays ==
    ASSUME SharedKept, NEW q, NEW kinds
    PROVE  Points(q, kinds)' <=> Points(q, kinds)
BY DEF SharedKept, Points, SharedMemory

LEMMA PointsIs ==
    ASSUME NEW q, NEW kinds, q # Null, Points(q, kinds)
    PROVE  q \in SharedMemory /\ q \in DOMAIN mem /\ Shared(q) /\ mem[q].kind \in kinds
BY DEF Points, SharedMemory

LEMMA HoldStays ==
    ASSUME SharedKept, NEW obj, NEW places, NEW kinds
    PROVE  Hold(obj, places, kinds)' <=> Hold(obj, places, kinds)
BY PointsStays DEF Hold

LEMMA HoldTableStays ==
    ASSUME SharedKept, NEW obj, NEW f, NEW kinds
    PROVE  HoldTable(obj, f, kinds)' <=> HoldTable(obj, f, kinds)
<1>1. \A q, ks : Points(q, ks)' <=> Points(q, ks)
  BY PointsStays
<1>2. \A b : b # Null /\ Points(b, {"bucket"}) => mem'[b] = mem[b]
  BY PointsIs DEF SharedKept
<1> QED
  BY <1>1, <1>2 DEF HoldTable

LEMMA WellFormedStays ==
    ASSUME SharedKept, NEW obj
    PROVE  WellFormed(obj)' <=> WellFormed(obj)
<1>1. \A places, kinds : Hold(obj, places, kinds)' <=> Hold(obj, places, kinds)
  BY HoldStays
<1>2. \A f, kinds : HoldTable(obj, f, kinds)' <=> HoldTable(obj, f, kinds)
  BY HoldTableStays
<1> QED
  BY <1>1, <1>2 DEF WellFormed

\* What tables in shared memory hold.
LEMMA HeldIs ==
    ASSUME NEW a, NEW f, NEW kinds, HoldTable(mem[a], f, kinds)
    PROVE  \A q \in Held(a, f) : q # Null /\ q \in SharedMemory /\ Points(q, kinds)
                                 /\ mem[q].kind \in kinds
BY PointsIs DEF Held, HoldTable

LEMMA HeldStays ==
    ASSUME SharedKept, NEW a, NEW f, NEW kinds, a \in SharedMemory, HoldTable(mem[a], f, kinds)
    PROVE  Held(a, f)' = Held(a, f)
<1>1. mem'[a] = mem[a]
  BY DEF SharedKept
<1>2. \A b \in Elements(mem[a].p[f]) : mem'[b] = mem[b]
  BY PointsIs DEF HoldTable, SharedKept
<1> QED
  BY <1>1, <1>2 DEF Held

LEMMA MarkedStays ==
    ASSUME SharedKept, NEW q \in SharedMemory
    PROVE  Marked(q)' <=> Marked(q)
BY DEF SharedKept, Marked

\* The classes and functions of a stored script.
LEMMA ClassIs ==
    ASSUME Stored, NEW c \in SharedMemory, mem[c].kind = "class"
    PROVE  /\ WellFormed(mem[c]) /\ DOMAIN mem[c].p = ClassPlaces
           /\ HoldTable(mem[c], "function_table", {"op_array"})
           /\ HoldTable(mem[c], "properties_info", {"prop"})
           /\ HoldTable(mem[c], "constants_table", {"zval"})
BY DEF Stored, WellFormed

LEMMA MethodsAre ==
    ASSUME Stored, NEW c \in SharedMemory, mem[c].kind = "class"
    PROVE  \A q \in Held(c, "function_table") : mem[q].kind = "op_array"
<1>1. PICK kinds : kinds = {"op_array"}
  OBVIOUS
<1>2. HoldTable(mem[c], "function_table", kinds)
  BY <1>1, ClassIs
<1>3. \A q \in Held(c, "function_table") : mem[q].kind \in kinds
  BY <1>2, HeldIs
<1> QED
  BY <1>1, <1>3

LEMMA ClassAtIs ==
    ASSUME Stored, NEW i \in DOMAIN List("class_table")
    PROVE  ClassAt(i) # Null /\ ClassAt(i) \in SharedMemory /\ mem[ClassAt(i)].kind = "class"
<1>1. HoldTable(mem[script], "class_table", {"class"})
  BY DEF Stored
<1>2. ClassAt(i) \in Held(script, "class_table")
  BY DEF ClassAt, List, Held, Elements
<1> QED
  BY <1>1, <1>2, HeldIs

LEMMA RegisteredStays ==
    ASSUME Stored, SharedKept, NEW c \in SharedMemory, mem[c].kind = "class"
    PROVE  Registered(c)' = Registered(c)
<1>1. HoldTable(mem[c], "function_table", {"op_array"})
  BY ClassIs
<1>2. Held(c, "function_table")' = Held(c, "function_table")
  BY <1>1, HeldStays
<1>3. \A q \in {c} \cup Held(c, "function_table") : Marked(q)' <=> Marked(q)
  BY <1>1, HeldIs, MarkedStays
<1> QED
  BY <1>2, <1>3 DEF Registered

LEMMA RegisteredIs ==
    ASSUME Stored, NEW c \in SharedMemory, mem[c].kind = "class"
    PROVE  \A q \in Registered(c) :
             /\ q \in SharedMemory /\ Marked(q)
             /\ q = c \/ (q \in Held(c, "function_table") /\ mem[q].kind = "op_array")
BY ClassIs, HeldIs DEF Registered

LEMMA ScriptStays ==
    ASSUME Stored, SharedKept
    PROVE  /\ mem'[script] = mem[script] /\ script \in SharedMemory
           /\ \A f : List(f)' = List(f)
           /\ \A i \in DOMAIN List("class_table") : ClassAt(i)' = ClassAt(i)
<1>1. script \in SharedMemory /\ mem'[script] = mem[script]
  BY DEF Stored, SharedKept, SharedMemory
<1>2. \A f : List(f)' = List(f)
  BY <1>1 DEF List, SharedKept
<1>3. \A i \in DOMAIN List("class_table") : List("class_table")[i] \in SharedMemory
  BY PointsIs DEF Stored, HoldTable, List, Elements
<1>4. \A i \in DOMAIN List("class_table") : ClassAt(i)' = ClassAt(i)
  BY <1>2, <1>3 DEF ClassAt, SharedKept
<1> QED
  BY <1>1, <1>2, <1>4

LEMMA LinkedStays ==
    ASSUME Stored, SharedKept, NEW i \in DOMAIN List("class_table"), Linked(i)
    PROVE  Linked(i)'
<1> DEFINE c == ClassAt(i)
           before == UNION {Registered(ClassAt(j)) : j \in 1..(i - 1)}
           Of(S, kind) == {q \in S : mem[q].kind = kind}
<1>1. IsArray(List("class_table")) /\ List("class_table") = List("class_table")'
  BY ScriptStays DEF Stored, HoldTable, List
<1>2. \A j \in 1..i : j \in DOMAIN List("class_table")
  BY <1>1 DEF IsArray
<1>3. \A j \in 1..i : ClassAt(j)' = ClassAt(j) /\ ClassAt(j) \in SharedMemory
                       /\ mem[ClassAt(j)].kind = "class"
  BY <1>2, ClassAtIs, ScriptStays
<1>4. \A j \in 1..i : Registered(ClassAt(j))' = Registered(ClassAt(j))
                       /\ \A q \in Registered(ClassAt(j)) : mem'[q] = mem[q]
  <2> SUFFICES ASSUME NEW j \in 1..i
               PROVE  Registered(ClassAt(j))' = Registered(ClassAt(j))
                       /\ \A q \in Registered(ClassAt(j)) : mem'[q] = mem[q]
    OBVIOUS
  <2>1. PICK d : d = ClassAt(j)
    OBVIOUS
  <2>2. d \in SharedMemory /\ mem[d].kind = "class" /\ ClassAt(j)' = d
    BY <2>1, <1>3
  <2>3. Registered(d)' = Registered(d)
    BY <2>2, RegisteredStays
  <2>4. \A q \in Registered(d) : mem'[q] = mem[q]
    BY <2>2, RegisteredIs DEF SharedKept
  <2> QED
    BY <2>1, <2>2, <2>3, <2>4
<1>5. i \in Nat /\ i >= 1 /\ i - 1 \in Int /\ \A j \in 1..(i - 1) : j \in 1..i
  BY <1>1 DEF IsArray
<1>6. /\ \A j \in 1..(i - 1) : Registered(ClassAt(j))' = Registered(ClassAt(j))
      /\ \A q \in before : mem'[q] = mem[q]
  BY <1>4, <1>5
<1>7. before' = before
  BY <1>6
<1>8. i \in 1..i /\ c \in SharedMemory /\ mem[c].kind = "class" /\ c' = c /\ mem'[c] = mem[c]
  BY <1>3, <1>5 DEF SharedKept
<1>9. PICK d : d = c
  OBVIOUS
<1>10. /\ Held(d, "function_table")' = Held(d, "function_table")
       /\ Held(d, "properties_info")' = Held(d, "properties_info")
       /\ \A q \in Held(d, "function_table") \cup Held(d, "properties_info") : mem'[q] = mem[q]
  BY <1>8, <1>9, ClassIs, HeldIs, HeldStays DEF SharedKept
<1>11. Registered(d)' = Registered(d) /\ \A q \in Registered(d) : mem'[q] = mem[q]
  BY <1>4, <1>8, <1>9
<1> HIDE DEF c
<1>12. /\ Of(before, "class")' = Of(before, "class")
       /\ Of(before, "op_array")' = Of(before, "op_array")
       /\ Of(before \cup Registered(d), "op_array")' = Of(before \cup Registered(d), "op_array")
  BY <1>6, <1>7, <1>11
<1> HIDE DEF before
<1>13. /\ mem[d].p.parent \in {Null} \cup Of(before, "class")
       /\ \A h \in Elements([list |-> Handlers]) :
            mem[d].p[h] \in {Null} \cup Of(before \cup Registered(d), "op_array")
       /\ \A q \in Held(d, "function_table") :
            /\ mem[q].p.scope \in {d} \cup Of(before, "class")
            /\ mem[q].p.prototype \in {Null} \cup
                 (Of(before, "op_array") \ Held(d, "function_table"))
       /\ \A q \in Held(d, "properties_info") : mem[q].p.ce \in {d} \cup Of(before, "class")
  BY <1>9 DEF Linked, c, before
<1>14. /\ mem'[d].p.parent \in {Null} \cup Of(before, "class")'
       /\ \A h \in Elements([list |-> Handlers]) :
            mem'[d].p[h] \in {Null} \cup Of(before \cup Registered(d), "op_array")'
       /\ \A q \in Held(d, "function_table")' :
            /\ mem'[q].p.scope \in {d} \cup Of(before, "class")'
            /\ mem'[q].p.prototype \in {Null} \cup
                 (Of(before, "op_array")' \ Held(d, "function_table")')
       /\ \A q \in Held(d, "properties_info")' : mem'[q].p.ce \in {d} \cup Of(before, "class")'
  <2> HIDE DEF Of
  <2>1. mem'[d] = mem[d]
    BY <1>8, <1>9
  <2> QED
    BY <2>1, <1>10, <1>12, <1>13
<1> QED
  BY <1>14, <1>8, <1>9 DEF Linked, before, c

LEMMA StoredStays ==
    ASSUME Stored, SharedKept
    PROVE  Stored'
<1>1. script' = script /\ mem'[script] = mem[script] /\ script \in SharedMemory
      /\ \A f : List(f)' = List(f)
  BY ScriptStays DEF SharedKept
<1>2. Shared(script)' /\ script' \in DOMAIN mem' /\ mem'[script'].kind = "script"
  BY <1>1 DEF Stored, SharedKept, SharedMemory
<1>3. \A a \in SharedMemory' :
        (DOMAIN String(""))' \subseteq DOMAIN mem'[a] /\ WellFormed(mem[a])'
  <2> SUFFICES ASSUME NEW a \in SharedMemory'
               PROVE  (DOMAIN String(""))' \subseteq DOMAIN mem'[a] /\ WellFormed(mem[a])'
    OBVIOUS
  <2>1. a \in SharedMemory /\ mem'[a] = mem[a]
    BY DEF SharedKept
  <2>2. PICK obj : obj = mem[a]
    OBVIOUS
  <2>3. DOMAIN String("") \subseteq DOMAIN obj /\ WellFormed(obj)
    BY <2>1, <2>2 DEF Stored
  <2>4. WellFormed(obj)'
    BY <2>3, WellFormedStays
  <2>5. (DOMAIN String(""))' = DOMAIN String("")
    BY DEF String
  <2> QED
    BY <2>1, <2>2, <2>3, <2>4, <2>5
<1>4. PICK obj, s : obj = mem[script] /\ s = script
  OBVIOUS
<1>5. /\ HoldTable(obj, "function_table", {"op_array"})'
      /\ HoldTable(obj, "class_table", {"class"})'
  BY <1>4, HoldTableStays DEF Stored
<1>6. /\ HoldTable(mem[s], "function_table", {"op_array"})
      /\ HoldTable(mem[s], "class_table", {"class"})
  BY <1>4 DEF Stored
<1>7. \A f \in Tables(mem[s]) : \A b \in Elements(mem[s].p[f]) : mem'[b] = mem[b]
  <2>1. Tables(mem[s]) = {"function_table", "class_table"}
    BY <1>4 DEF Stored, Tables
  <2> QED
    BY <2>1, <1>6, PointsIs DEF HoldTable, SharedKept
<1>8. Tables(mem[s])' = Tables(mem[s])
  BY <1>1, <1>4 DEF Tables
<1>9. \A f \in Tables(mem'[s]) : \A b \in Elements(mem'[s].p[f]) : mem'[b].p.key # Null
  BY <1>7, <1>8, <1>1, <1>4 DEF Stored
<1>10. Held(s, "function_table")' = Held(s, "function_table")
       /\ \A q \in Held(s, "function_table") : mem'[q] = mem[q]
  BY <1>6, <1>1, <1>4, HeldStays, HeldIs DEF SharedKept
<1>11. \A i \in DOMAIN List("class_table")' : Linked(i)'
  BY <1>1, LinkedStays DEF Stored
<1>12. /\ mem'[script'].p.scope = Null /\ mem'[script'].p.prototype = Null
       /\ \A q \in Held(s, "function_table")' :
            mem'[q].p.scope = Null /\ mem'[q].p.prototype = Null
  BY <1>1, <1>4, <1>10 DEF Stored
<1>13. /\ HoldTable(mem[script], "function_table", {"op_array"})'
       /\ HoldTable(mem[script], "class_table", {"class"})'
  BY <1>1, <1>4, <1>5
<1> QED
  BY <1>1, <1>2, <1>3, <1>4, <1>9, <1>11, <1>12, <1>13 DEF Stored

-----------------------------------------------------------------------------
(* A step of the call c, which may change the pointer it is for, make a    *)
(* new object n, and make calls itself, its parts.                         *)

Due(c, n) == IInv /\ calls # <<>> /\ c = calls[1] /\ n = New

Works(c, n, parts) ==
    /\ UNCHANGED loop
    /\ Sequence(parts) /\ calls' = parts \o Tail(calls)
    /\ DOMAIN mem \subseteq DOMAIN mem' /\ DOMAIN mem' \subseteq DOMAIN mem \cup {n}
    /\ allocated' \in {allocated, allocated + 1}
    /\ n \in DOMAIN mem' => allocated' = allocated + 1 /\ Fields \subseteq DOMAIN mem'[n]
    /\ \A a \in DOMAIN mem \ {c.a} : mem'[a] = mem[a]
    /\ Fields \subseteq DOMAIN mem'[c.a] /\ mem'[c.a].kind = mem[c.a].kind
    /\ DOMAIN mem'[c.a].p = DOMAIN mem[c.a].p
    /\ \A f \in DOMAIN mem[c.a].p \ {c.f} : mem'[c.a].p[f] = mem[c.a].p[f]

LEMMA DueFacts ==
    ASSUME NEW c, NEW n, Due(c, n)
    PROVE  /\ Stored /\ RequestInv /\ phase \in Loading \cup {"loaded"}
           /\ Head(calls) = c /\ 1 \in DOMAIN calls
           /\ Fits(c) /\ InClass(c)
           /\ Here = c.a /\ Place = c.f /\ Target = TargetOf(c)
           /\ c.a \in Requested /\ c.a \in DOMAIN mem /\ ~Shared(c.a)
           /\ c.f \in DOMAIN mem[c.a].p /\ Fields \subseteq DOMAIN mem[c.a]
           /\ New = n /\ n \notin DOMAIN mem /\ ~Shared(n) /\ Safe(n) /\ n # Null
           /\ allocated \in Nat /\ ~Shared(ce)
<1>1. IInv /\ ~Shared(ce) /\ phase \notin {"stored", "failed"} /\ RequestInv /\ Stored /\ c = calls[1] /\ n = New
  BY DEF Due, IInv
<1>2. Head(calls) = c /\ 1 \in DOMAIN calls
  BY <1>1, NoCalls, Pushed DEF Due, IInv
<1>3. Fits(c) /\ InClass(c)
  BY <1>1, <1>2 DEF RequestInv
<1>4. Here = c.a /\ Place = c.f /\ Target = TargetOf(c)
  BY <1>2 DEF Here, Place, Target, TargetOf
<1>5. c.a \in Requested /\ c.f \in DOMAIN mem[c.a].p
  BY <1>3 DEF Fits
<1>6. c.a \in DOMAIN mem /\ ~Shared(c.a) /\ Fields \subseteq DOMAIN mem[c.a]
  BY <1>5, <1>1 DEF Requested, SharedMemory, RequestInv
<1>7. allocated \in Nat /\ allocated + 1 \in Nat /\ allocated + 1 > allocated
  BY <1>1 DEF RequestInv
<1>8. n = <<"req", allocated + 1>> /\ n \notin DOMAIN mem
  BY <1>1, <1>7 DEF New, RequestInv
<1>9. ~Shared(n) /\ Safe(n) /\ n # Null
  BY <1>8, RequestIsOwn, SafeFacts
<1>10. phase \in Loading \cup {"loaded"}
  BY <1>1 DEF IInv, Ended
<1> QED
  BY <1>1, <1>2, <1>3, <1>4, <1>5, <1>6, <1>7, <1>8, <1>9, <1>10

LEMMA ReturnWorks ==
    ASSUME NEW c, NEW n, Due(c, n), Return, UNCHANGED loop
    PROVE  Works(c, n, <<>>) /\ mem' = mem /\ n \notin DOMAIN mem'
<1>1. calls' = <<>> \o Tail(calls)
  <2>1. calls \in Seq({calls[i] : i \in DOMAIN calls}) /\ calls # <<>>
    BY DEF Due, IInv, Sequence
  <2>2. PICK S : calls \in Seq(S)
    BY <2>1
  <2> QED
    BY <2>1, <2>2, HeadTailProperties, ConcatEmptySeq DEF Return
<1> QED
  BY <1>1, DueFacts, NoCalls DEF Works, Return

LEMMA RedirectWorks ==
    ASSUME NEW c, NEW n, NEW q, Due(c, n), Redirect(q), UNCHANGED loop
    PROVE  /\ Works(c, n, <<>>) /\ mem'[c.a].p[c.f] = q /\ n \notin DOMAIN mem'
<1>1. calls' = <<>> \o Tail(calls)
  <2>1. calls \in Seq({calls[i] : i \in DOMAIN calls}) /\ calls # <<>>
    BY DEF Due, IInv, Sequence
  <2>2. PICK S : calls \in Seq(S)
    BY <2>1
  <2> QED
    BY <2>1, <2>2, HeadTailProperties, ConcatEmptySeq DEF Redirect
<1>2. mem' = Pointing(mem, c.a, c.f, q)
  BY DueFacts DEF Redirect
<1>3. c.a \in DOMAIN mem /\ Fields \subseteq DOMAIN mem[c.a] /\ n \notin DOMAIN mem
      /\ c.f \in DOMAIN mem[c.a].p
  BY DueFacts
<1> QED
  BY <1>1, <1>2, <1>3, PointingIs, NoCalls DEF Works, Redirect

LEMMA EmallocWorks ==
    ASSUME NEW c, NEW n, NEW obj, NEW q, NEW parts, Due(c, n), emalloc(obj, q, parts),
           Fields \subseteq DOMAIN obj, Sequence(parts), UNCHANGED loop
    PROVE  /\ Works(c, n, parts) /\ mem'[c.a].p[c.f] = q /\ n \in DOMAIN mem' /\ mem'[n] = obj
<1> DEFINE P == Pointing(mem, c.a, c.f, q)
<1>1. mem' = With(P, n, obj) /\ calls' = parts \o Tail(calls) /\ allocated' = allocated + 1
  BY DueFacts DEF emalloc
<1>2. c.a \in DOMAIN mem /\ Fields \subseteq DOMAIN mem[c.a] /\ n \notin DOMAIN mem
      /\ c.f \in DOMAIN mem[c.a].p
  BY DueFacts
<1>3. /\ DOMAIN P = DOMAIN mem /\ \A x \in DOMAIN mem \ {c.a} : P[x] = mem[x]
      /\ Fields \subseteq DOMAIN P[c.a] /\ P[c.a].kind = mem[c.a].kind
      /\ DOMAIN P[c.a].p = DOMAIN mem[c.a].p
      /\ \A g \in DOMAIN mem[c.a].p \ {c.f} : P[c.a].p[g] = mem[c.a].p[g]
      /\ P[c.a].p[c.f] = q
  BY <1>2, PointingIs
<1> HIDE DEF P
<1>4. /\ DOMAIN mem' = DOMAIN P \cup {n} /\ mem'[n] = obj
      /\ \A x \in DOMAIN P \ {n} : mem'[x] = P[x]
  BY <1>1 DEF With
<1>5. \A x \in DOMAIN mem : mem'[x] = P[x]
  BY <1>2, <1>3, <1>4
<1> QED
  BY <1>1, <1>2, <1>3, <1>4, <1>5 DEF Works

LEMMA WorksKeeps ==
    ASSUME NEW c, NEW n, NEW parts, Due(c, n), Works(c, n, parts)
    PROVE  /\ SharedKept /\ Requested \subseteq Requested' /\ Requested' \subseteq Requested \cup {n}
           /\ \A q \in SharedMemory : mem'[q] = mem[q]
           /\ \A a \in Requested : mem'[a].kind = mem[a].kind /\ DOMAIN mem'[a].p = DOMAIN mem[a].p
           /\ \A a \in Requested : \A f \in DOMAIN mem[a].p :
                ~(a = c.a /\ f = c.f) => mem'[a].p[f] = mem[a].p[f]
           /\ \A a \in DOMAIN mem' : Fields \subseteq DOMAIN mem'[a]
<1>1. c.a \in DOMAIN mem /\ ~Shared(c.a) /\ ~Shared(n) /\ RequestInv
  BY DueFacts
<1>2. SharedMemory' = SharedMemory
  BY <1>1 DEF Works, SharedMemory
<1>3. \A q \in SharedMemory : mem'[q] = mem[q]
  BY <1>1 DEF Works, SharedMemory
<1>4. SharedKept
  BY <1>2, <1>3 DEF SharedKept, Works, loop
<1>5. Requested \subseteq Requested' /\ Requested' \subseteq Requested \cup {n}
  BY <1>2 DEF Works, Requested
<1>6. \A a \in DOMAIN mem' : Fields \subseteq DOMAIN mem'[a]
  BY <1>1 DEF Works, RequestInv
<1>7. \A a \in Requested : /\ mem'[a].kind = mem[a].kind /\ DOMAIN mem'[a].p = DOMAIN mem[a].p
                           /\ \A f \in DOMAIN mem[a].p :
                                ~(a = c.a /\ f = c.f) => mem'[a].p[f] = mem[a].p[f]
  BY DEF Works, Requested
<1> QED
  BY <1>3, <1>4, <1>5, <1>6, <1>7

-----------------------------------------------------------------------------
(* What such a step leaves of the calls that were due after it.            *)

LEMMA SafePlaceIs ==
    ASSUME NEW o1, NEW o2, NEW f, o1.kind = o2.kind, o1.p[f] = o2.p[f]
    PROVE  SafePlace(o1, f) <=> SafePlace(o2, f)
BY DEF SafePlace, Tables

LEMMA TablesAre ==
    ASSUME NEW o1, NEW o2, o1.kind = o2.kind, DOMAIN o1.p = DOMAIN o2.p
    PROVE  /\ Tables(o1) = Tables(o2) /\ Owned(o1) = Owned(o2) /\ (Owning(o1) <=> Owning(o2))
BY DEF Tables, Owned, Owning

LEMMA PlacesStay ==
    ASSUME NEW c, NEW n, NEW parts, Due(c, n), Works(c, n, parts), NEW i \in DOMAIN calls \ {1},
           NEW d, d = calls[i]
    PROVE  /\ Fits(d) /\ InClass(d)
           /\ For(d, c.a, c.f) => BothBuckets(c, d)
           /\ ~For(d, c.a, c.f) => mem'[d.a].p[d.f] = mem[d.a].p[d.f]
           /\ d.a \in Requested /\ mem'[d.a].kind = mem[d.a].kind
           /\ DOMAIN mem'[d.a].p = DOMAIN mem[d.a].p
           /\ c.function # "class"
<1>1. RequestInv /\ 1 \in DOMAIN calls /\ c = calls[1] /\ InClass(c)
  BY DueFacts DEF Due
<1>2. Fits(d) /\ InClass(d) /\ (For(d, c.a, c.f) => BothBuckets(c, d))
  BY <1>1 DEF RequestInv, Distinct, BothBuckets
<1>3. d.a \in Requested /\ d.f \in DOMAIN mem[d.a].p
  BY <1>2 DEF Fits
<1>4. c.function # "class"
  BY <1>1 DEF InClass
<1> QED
  BY <1>2, <1>3, <1>4, WorksKeeps DEF For

LEMMA FitsStays ==
    ASSUME NEW c, NEW n, NEW parts, Due(c, n), Works(c, n, parts), NEW i \in DOMAIN calls \ {1},
           NEW d, d = calls[i], SafePlace(mem'[c.a], c.f)
    PROVE  Fits(d)'
<1>1. SharedKept /\ Requested \subseteq Requested'
  BY WorksKeeps
<1>2. /\ Fits(d) /\ d.a \in Requested /\ mem'[d.a].kind = mem[d.a].kind
      /\ DOMAIN mem'[d.a].p = DOMAIN mem[d.a].p
      /\ For(d, c.a, c.f) => d.function = "bucket"
      /\ ~For(d, c.a, c.f) => mem'[d.a].p[d.f] = mem[d.a].p[d.f]
  BY PlacesStay DEF BothBuckets
<1>3. Tables(mem'[d.a]) = Tables(mem[d.a])
  BY <1>2, TablesAre
<1>4. d.function \in DOMAIN Takes => Points(TargetOf(d), Takes[d.function])'
  <2> SUFFICES ASSUME d.function \in DOMAIN Takes
               PROVE  Points(TargetOf(d), Takes[d.function])'
    OBVIOUS
  <2>1. "bucket" \notin DOMAIN Takes
    BY DEF Takes
  <2>2. TargetOf(d)' = TargetOf(d) /\ Points(TargetOf(d), Takes[d.function])
    BY <1>2, <2>1 DEF Fits, TargetOf
  <2>3. PICK q, ks : q = TargetOf(d) /\ ks = Takes[d.function]
    OBVIOUS
  <2>4. Points(q, ks)'
    BY <2>2, <2>3, <1>1, PointsStays
  <2>5. q = TargetOf(d)' /\ ks = Takes[d.function]'
    BY <2>2, <2>3 DEF Takes
  <2> QED
    BY <2>4, <2>5
<1>5. d.function \in Present => TargetOf(d)' # Null
  BY <1>2 DEF Fits, TargetOf, Present
<1>6. d.function = "table" => HoldTable(mem[d.a], d.f, {ElementKind(d.f)})'
  <2> SUFFICES ASSUME d.function = "table" PROVE HoldTable(mem[d.a], d.f, {ElementKind(d.f)})'
    OBVIOUS
  <2>1. PICK o1, ks : o1 = mem'[d.a] /\ ks = {ElementKind(d.f)}
    OBVIOUS
  <2>2. HoldTable(mem[d.a], d.f, ks) /\ o1.p[d.f] = mem[d.a].p[d.f] /\ d.f \in DOMAIN o1.p
    BY <1>2, <2>1 DEF Fits
  <2>3. HoldTable(o1, d.f, ks)
    BY <2>2 DEF HoldTable
  <2> QED
    BY <2>3, <2>1, <1>1, HoldTableStays
<1>7. d.function = "bucket" => FitsBucket(d)'
  <2> SUFFICES ASSUME d.function = "bucket" PROVE FitsBucket(d)'
    OBVIOUS
  <2>1. FitsBucket(d)
    BY <1>2 DEF Fits
  <2>2. SafePlace(mem'[d.a], d.f)
    <3>1. CASE For(d, c.a, c.f)
      BY <3>1 DEF For
    <3>2. CASE ~For(d, c.a, c.f)
      BY <3>2, <2>1, <1>2, SafePlaceIs DEF FitsBucket
    <3> QED
      BY <3>1, <3>2
  <2>3. PICK b, ks, q : b = d.b /\ ks = {ElementKind(d.f)} /\ q = mem[b].p.data
    OBVIOUS
  <2>4. b # Null /\ Points(b, {"bucket"}) /\ q # Null /\ Points(q, ks)
    BY <2>1, <2>3 DEF FitsBucket
  <2>5. Points(b, {"bucket"})' /\ Points(q, ks)' /\ mem'[b] = mem[b]
    BY <2>4, <1>1, PointsStays, PointsIs DEF SharedKept
  <2> QED
    BY <2>2, <2>3, <2>4, <2>5 DEF FitsBucket
<1>8. d.a \in Requested' /\ d.f \in DOMAIN mem'[d.a].p
  BY <1>1, <1>2 DEF Fits
<1> QED
  BY <1>2, <1>3, <1>4, <1>5, <1>6, <1>7, <1>8 DEF Fits

\* What is called for the class that is copied.
LEMMA CopiedClass ==
    ASSUME IInv, phase = "load_classes", calls # <<>>, NEW k, k = ClassAt(at - 1)
    PROVE  k \in SharedMemory /\ mem[k].kind = "class" /\ k # Null
BY ClassAtIs DEF IInv, RequestInv, Copying

LEMMA ClassHeldStays ==
    ASSUME Stored, SharedKept, NEW k \in SharedMemory, mem[k].kind = "class",
           NEW f, OfClass(f)
    PROVE  Held(k, f)' = Held(k, f)
BY ClassIs, HeldStays DEF OfClass

LEMMA InClassStays ==
    ASSUME NEW c, NEW n, NEW parts, Due(c, n), Works(c, n, parts), NEW i \in DOMAIN calls \ {1},
           NEW d, d = calls[i], UNCHANGED old_ce
    PROVE  InClass(d)' /\ d.function # "class"
<1>1. SharedKept /\ Stored /\ phase' = phase /\ calls # <<>> /\ IInv /\ 1 \in DOMAIN calls
      /\ calls[1] = c
  BY WorksKeeps, DueFacts DEF Works, loop, Due
<1>2. /\ Fits(d) /\ InClass(d) /\ d.a \in Requested /\ c.function # "class"
      /\ For(d, c.a, c.f) => d.function = "bucket"
      /\ ~For(d, c.a, c.f) => mem'[d.a].p[d.f] = mem[d.a].p[d.f]
  BY PlacesStay DEF BothBuckets
<1>3. d.function # "class"
  BY <1>1, <1>2 DEF InClass
<1>4. PICK k : k = old_ce
  OBVIOUS
<1>5. phase = "load_classes" => k \in SharedMemory /\ mem[k].kind = "class"
  <2>1. phase = "load_classes" => k = ClassAt(at - 1)
    BY <1>1, <1>2, <1>4 DEF IInv, RequestInv, Copying
  <2> QED
    BY <2>1, <1>1, CopiedClass
<1>6. phase = "load_classes" => \A f : OfClass(f) => Held(k, f)' = Held(k, f)
  BY <1>5, <1>1, ClassHeldStays
<1>7. old_ce' = k
  BY <1>4
<1>8. OfClass("function_table") /\ OfClass("properties_info")
  BY DEF OfClass
<1>9. d.function \in {"function", "method", "property"} => TargetOf(d)' = TargetOf(d)
  BY <1>2 DEF TargetOf
<1>10. d.function = "table" => Held(d.a, d.f)' = Held(d.a, d.f)
  <2>1. SUFFICES ASSUME d.function = "table" PROVE Held(d.a, d.f)' = Held(d.a, d.f)
    OBVIOUS
  <2>2. HoldTable(mem[d.a], d.f, {ElementKind(d.f)}) /\ mem'[d.a].p[d.f] = mem[d.a].p[d.f]
    BY <1>2, <2>1 DEF Fits
  <2>3. \A b \in Elements(mem[d.a].p[d.f]) : mem'[b] = mem[b]
    BY <2>2, <1>1, PointsIs DEF HoldTable, SharedKept
  <2> QED
    BY <2>2, <2>3 DEF Held
<1>11. d.function = "bucket" => mem'[d.b].p.data = mem[d.b].p.data
  BY <1>1, <1>2, PointsIs DEF Fits, FitsBucket, SharedKept
<1>12. /\ d.function = "method" => TargetOf(d) \in Held(k, "function_table")
       /\ d.function = "property" => TargetOf(d) \in Held(k, "properties_info")
       /\ d.function = "table" /\ OfClass(d.f) => Held(d.a, d.f) \subseteq Held(k, d.f)
       /\ d.function = "bucket" /\ OfClass(d.f) => mem[d.b].p.data \in Held(k, d.f)
       /\ d.function \in Linking \cup {"method", "property"}
          \/ (d.function \in Looping /\ OfClass(d.f)) => phase = "load_classes"
  BY <1>2, <1>4 DEF InClass
<1>13. /\ d.function = "method" => TargetOf(d)' \in Held(k, "function_table")'
       /\ d.function = "property" => TargetOf(d)' \in Held(k, "properties_info")'
       /\ d.function = "table" /\ OfClass(d.f) => Held(d.a, d.f)' \subseteq Held(k, d.f)'
       /\ d.function = "bucket" /\ OfClass(d.f) => mem'[d.b].p.data \in Held(k, d.f)'
  <2>1. d.function \in Looping /\ OfClass(d.f) => phase = "load_classes"
    BY <1>12
  <2>2. "table" \in Looping /\ "bucket" \in Looping
    BY DEF Looping
  <2> QED
    BY <2>1, <2>2, <1>12, <1>6, <1>8, <1>9, <1>10, <1>11
<1>14. d.function = "function" => TargetOf(d)' \in Held(script, "function_table")'
  <2>1. PICK s : s = script
    OBVIOUS
  <2>2. s \in SharedMemory /\ HoldTable(mem[s], "function_table", {"op_array"}) /\ script' = s
    BY <1>1, <2>1 DEF Stored, SharedMemory, SharedKept
  <2>3. Held(s, "function_table")' = Held(s, "function_table")
    BY <1>1, <2>2, HeldStays
  <2> QED
    BY <1>2, <1>9, <2>1, <2>2, <2>3 DEF InClass
<1> QED
  BY <1>13, <1>14, <1>12, <1>7, <1>3, <1>1 DEF InClass, OfClass, Linking, Looping

\* What a call registers: marked classes and methods of the script.
LEMMA WillBindStays ==
    ASSUME NEW c, NEW n, NEW parts, Due(c, n), Works(c, n, parts), NEW i \in DOMAIN calls \ {1},
           NEW d, d = calls[i]
    PROVE  WillBind(d)' = WillBind(d)
<1>1. SharedKept /\ 1 \in DOMAIN calls
  BY WorksKeeps, DueFacts
<1>2. /\ Fits(d) /\ InClass(d)
      /\ For(d, c.a, c.f) => d.function = "bucket"
      /\ ~For(d, c.a, c.f) => mem'[d.a].p[d.f] = mem[d.a].p[d.f]
  BY PlacesStay DEF BothBuckets
<1>3. d.function # "class"
  BY <1>1, <1>2 DEF InClass
<1>4. d.function = "table" /\ d.f = "function_table" =>
        /\ Held(d.a, d.f)' = Held(d.a, d.f)
        /\ \A q \in Held(d.a, d.f) : Marked(q)' <=> Marked(q)
  <2>1. SUFFICES ASSUME d.function = "table"
                 PROVE  /\ Held(d.a, d.f)' = Held(d.a, d.f)
                        /\ \A q \in Held(d.a, d.f) : Marked(q)' <=> Marked(q)
    OBVIOUS
  <2>2. HoldTable(mem[d.a], d.f, {ElementKind(d.f)}) /\ mem'[d.a].p[d.f] = mem[d.a].p[d.f]
    BY <1>2, <2>1 DEF Fits
  <2>3. \A b \in Elements(mem[d.a].p[d.f]) : mem'[b] = mem[b]
    BY <2>2, <1>1, PointsIs DEF HoldTable, SharedKept
  <2>4. \A q \in Held(d.a, d.f) : q \in SharedMemory
    BY <2>2, HeldIs
  <2> QED
    BY <2>2, <2>3, <2>4, <1>1, MarkedStays DEF Held
<1>5. d.function = "bucket" =>
        mem'[d.b].p.data = mem[d.b].p.data /\ (Marked(mem[d.b].p.data)' <=> Marked(mem[d.b].p.data))
  <2>1. SUFFICES ASSUME d.function = "bucket" 
        PROVE  mem'[d.b].p.data = mem[d.b].p.data /\ (Marked(mem[d.b].p.data)' <=> Marked(mem[d.b].p.data))
    OBVIOUS
  <2>2. PICK q : q = mem[d.b].p.data
    OBVIOUS
  <2>3. mem'[d.b] = mem[d.b] /\ q \in SharedMemory
    BY <2>1, <2>2, <1>1, <1>2, PointsIs DEF Fits, FitsBucket, SharedKept
  <2>4. Marked(q)' <=> Marked(q)
    BY <2>3, <1>1, MarkedStays
  <2> QED
    BY <2>2, <2>3, <2>4
<1>6. d.function = "method" => TargetOf(d)' = TargetOf(d) /\ (Marked(TargetOf(d))' <=> Marked(TargetOf(d)))
  <2>1. SUFFICES ASSUME d.function = "method" 
        PROVE  TargetOf(d)' = TargetOf(d) /\ (Marked(TargetOf(d))' <=> Marked(TargetOf(d)))
    OBVIOUS
  <2>2. PICK q : q = TargetOf(d)
    OBVIOUS
  <2>3. TargetOf(d)' = q /\ q # Null /\ Points(q, {"op_array"})
    BY <2>1, <2>2, <1>2 DEF Fits, TargetOf, Takes, Present
  <2>4. Marked(q)' <=> Marked(q)
    BY <2>3, <1>1, PointsIs, MarkedStays
  <2> QED
    BY <2>2, <2>3, <2>4
<1> QED
  BY <1>3, <1>4, <1>5, <1>6 DEF WillBind

-----------------------------------------------------------------------------
(* What is left to show of a step of the call c: its parts are for the     *)
(* places of the new object n, or they are for the buckets of c's table;   *)
(* it registers what c was to register, or leaves that to its parts.       *)

PartFits(c, n, d) ==
    /\ Fits(d)' /\ InClass(d)' /\ d.function # "class"
    /\ IF d.function = "bucket" THEN For(d, c.a, c.f) /\ c.function = "table" ELSE d.a = n
Good(c, n, parts) ==
    /\ \A i \in DOMAIN parts : PartFits(c, n, parts[i])
    /\ \A i, j \in DOMAIN parts :
         i # j /\ parts[i].f = parts[j].f => BothBuckets(parts[i], parts[j])
    /\ SafePlace(mem'[c.a], c.f)
    /\ n \in DOMAIN mem' =>
         /\ Owning(mem'[n])
         /\ \A f \in Owned(mem'[n]) :
              SafePlace(mem'[n], f)
              \/ \E i \in DOMAIN parts : For(parts[i], n, f) /\ parts[i].function # "bucket"

Classes(c) ==
    /\ old_ce' = IF c.function = "class" THEN TargetOf(c) ELSE old_ce
    /\ ~Shared(ce')
    /\ DOMAIN bind \subseteq DOMAIN bind' /\ \A q \in DOMAIN bind' : ~Shared(bind'[q])

PartReady(parts, k) ==
    \/ TargetOf(parts[k])' = Null /\ parts[k].function = "inherit"
    \/ TargetOf(parts[k])' = old_ce' /\ parts[k].function = "rescope"
    \/ Bound(TargetOf(parts[k]))'
    \/ \E i \in DOMAIN parts : i < k /\ TargetOf(parts[k])' \in WillBind(parts[i])'
Binds(c, parts) ==
    /\ \A q \in WillBind(c) : Bound(q)' \/ \E i \in DOMAIN parts : q \in WillBind(parts[i])'
    /\ ~ignore_dups =>
         \A k \in DOMAIN parts : parts[k].function \in Linking => PartReady(parts, k)

Step(c, n, parts) ==
    Due(c, n) /\ Works(c, n, parts) /\ Good(c, n, parts) /\ Classes(c) /\ Binds(c, parts)

\* The calls that are due then: the parts, and what was due after c.
LEMMA Calls ==
    ASSUME NEW c, NEW n, NEW parts, Due(c, n), Works(c, n, parts)
    PROVE  /\ Sequence(calls') /\ Len(parts) \in Nat /\ Len(calls) \in Nat \ {0}
           /\ DOMAIN parts = 1..Len(parts) /\ DOMAIN calls = 1..Len(calls)
           /\ DOMAIN calls' = 1..(Len(parts) + Len(calls) - 1)
           /\ \A i \in DOMAIN parts : i \in DOMAIN calls' /\ calls'[i] = parts[i]
           /\ \A i \in DOMAIN calls \ {1} : Len(parts) + i - 1 \in DOMAIN calls'
                                            /\ calls'[Len(parts) + i - 1] = calls[i]
           /\ \A i \in DOMAIN calls' \ DOMAIN parts :
                i - Len(parts) + 1 \in DOMAIN calls \ {1}
                /\ calls'[i] = calls[i - Len(parts) + 1]
<1>1. PICK s : s = calls
  OBVIOUS
<1>2. Sequence(s) /\ Sequence(parts) /\ s # <<>> /\ calls' = parts \o Tail(s)
  BY <1>1 DEF Due, Works, IInv
<1> QED
  BY <1>1, <1>2, Pushed

LEMMA StepFits ==
    ASSUME NEW c, NEW n, NEW parts, Step(c, n, parts), NEW i \in DOMAIN calls'
    PROVE  Fits(calls[i])' /\ InClass(calls[i])'
<1>1. Due(c, n) /\ Works(c, n, parts) /\ Good(c, n, parts) /\ Classes(c)
  BY DEF Step
<1>2. CASE i \in DOMAIN parts
  <2>1. PICK d : d = parts[i]
    OBVIOUS
  <2>2. calls'[i] = d /\ PartFits(c, n, d)
    BY <1>1, <1>2, <2>1, Calls DEF Good
  <2> QED
    BY <2>2 DEF PartFits
<1>3. CASE i \notin DOMAIN parts
  <2>1. PICK k \in DOMAIN calls \ {1} : calls'[i] = calls[k]
    BY <1>1, <1>3, Calls
  <2>2. PICK d : d = calls[k]
    OBVIOUS
  <2>3. old_ce' = old_ce
    BY <1>1, <2>1, PlacesStay DEF Classes
  <2>4. Fits(d)' /\ InClass(d)'
    BY <1>1, <2>2, <2>3, FitsStays, InClassStays DEF Good
  <2>5. calls'[i] = d
    BY <2>1, <2>2
  <2> QED
    BY <2>4, <2>5
<1> QED
  BY <1>2, <1>3

LEMMA StepDistinct ==
    ASSUME NEW c, NEW n, NEW parts, Step(c, n, parts)
    PROVE  Distinct'
<1>1. Due(c, n) /\ Works(c, n, parts) /\ Good(c, n, parts)
  BY DEF Step
<1>2. n \notin DOMAIN mem /\ RequestInv /\ 1 \in DOMAIN calls /\ c = calls[1] /\ c.a \in DOMAIN mem
  BY <1>1, DueFacts DEF Due
<1>3. \A i \in DOMAIN calls : calls[i].a \in DOMAIN mem
  BY <1>2 DEF RequestInv, Fits, Requested
<1>4. SUFFICES ASSUME NEW i \in DOMAIN calls', NEW j \in DOMAIN calls', i # j,
                      calls'[i].a = calls'[j].a, calls'[i].f = calls'[j].f
               PROVE  BothBuckets(calls[i], calls[j])'
  BY DEF Distinct, For
<1>5. PICK d, e : d = calls'[i] /\ e = calls'[j]
  OBVIOUS
<1>6. SUFFICES BothBuckets(d, e)
  BY <1>5 DEF BothBuckets
<1>7. \A k \in DOMAIN parts : PartFits(c, n, parts[k])
  BY <1>1 DEF Good
<1>8. CASE i \in DOMAIN parts /\ j \in DOMAIN parts
  BY <1>1, <1>4, <1>5, <1>8, Calls DEF Good
<1>9. CASE i \in DOMAIN parts /\ j \notin DOMAIN parts
  <2>1. PICK k \in DOMAIN calls \ {1} : e = calls[k]
    BY <1>1, <1>9, <1>5, Calls
  <2>2. d = parts[i] /\ PartFits(c, n, d)
    BY <1>1, <1>9, <1>5, <1>7, Calls
  <2>3. For(e, c.a, c.f) /\ c.function = "table"
    BY <2>1, <2>2, <1>2, <1>3, <1>4, <1>5 DEF PartFits, For
  <2> QED
    BY <2>1, <2>3, <1>1, PlacesStay DEF BothBuckets
<1>10. CASE i \notin DOMAIN parts /\ j \in DOMAIN parts
  <2>1. PICK k \in DOMAIN calls \ {1} : d = calls[k]
    BY <1>1, <1>10, <1>5, Calls
  <2>2. e = parts[j] /\ PartFits(c, n, e)
    BY <1>1, <1>10, <1>5, <1>7, Calls
  <2>3. For(d, c.a, c.f) /\ c.function = "table"
    BY <2>1, <2>2, <1>2, <1>3, <1>4, <1>5 DEF PartFits, For
  <2> QED
    BY <2>1, <2>3, <1>1, PlacesStay DEF BothBuckets
<1>11. CASE i \notin DOMAIN parts /\ j \notin DOMAIN parts
  <2>1. /\ i - Len(parts) + 1 \in DOMAIN calls /\ d = calls[i - Len(parts) + 1]
        /\ j - Len(parts) + 1 \in DOMAIN calls /\ e = calls[j - Len(parts) + 1]
    BY <1>1, <1>11, <1>5, Calls
  <2>2. i - Len(parts) + 1 # j - Len(parts) + 1
    BY <1>1, <1>4, Calls
  <2> QED
    BY <2>1, <2>2, <1>2, <1>4, <1>5 DEF RequestInv, Distinct, For, BothBuckets
<1> QED
  BY <1>8, <1>9, <1>10, <1>11

LEMMA StepOwns ==
    ASSUME NEW c, NEW n, NEW parts, Step(c, n, parts)
    PROVE  Owns'
<1>1. Due(c, n) /\ Works(c, n, parts) /\ Good(c, n, parts)
  BY DEF Step
<1>2. n \notin DOMAIN mem /\ RequestInv /\ 1 \in DOMAIN calls /\ c = calls[1] /\ ~Broken
      /\ Requested' \subseteq Requested \cup {n}
  BY <1>1, DueFacts, WorksKeeps DEF Due, Broken, Loading
<1>3. SUFFICES ASSUME NEW a \in Requested'
               PROVE  /\ Owning(mem'[a])
                      /\ \A f \in Owned(mem'[a]) : SafePlace(mem'[a], f) \/ Pending(a, f)'
  <2>1. \A a \in Requested' : \A f \in Owned(mem'[a]) :
          SafePlace(mem'[a], f) \/ Pending(a, f)' => (SafePlace(mem[a], f) \/ Pending(a, f) \/ Broken)'
    OBVIOUS
  <2> QED
    BY <1>3, <2>1 DEF Owns
<1>4. CASE a = n
  <2>1. Owning(mem'[n]) /\ \A f \in Owned(mem'[n]) :
              SafePlace(mem'[n], f)
              \/ \E i \in DOMAIN parts : For(parts[i], n, f) /\ parts[i].function # "bucket"
    BY <1>1, <1>3, <1>4 DEF Good, Requested
  <2>2. \A i \in DOMAIN parts : i \in DOMAIN calls' /\ calls'[i] = parts[i]
    BY <1>1, Calls
  <2> QED
    BY <2>1, <2>2, <1>4 DEF Pending, For
<1>5. CASE a # n
  <2>1. a \in Requested /\ mem'[a].kind = mem[a].kind /\ DOMAIN mem'[a].p = DOMAIN mem[a].p
    BY <1>1, <1>2, <1>5, WorksKeeps
  <2>2. Owning(mem[a]) /\ Owned(mem'[a]) = Owned(mem[a]) /\ (Owning(mem'[a]) <=> Owning(mem[a]))
    BY <2>1, <1>2, TablesAre DEF RequestInv, Owns
  <2>3. ASSUME NEW f \in Owned(mem[a])
        PROVE  SafePlace(mem'[a], f) \/ Pending(a, f)'
    <3>1. SafePlace(mem[a], f) \/ Pending(a, f)
      BY <1>2, <2>1 DEF RequestInv, Owns
    <3>2. f \in DOMAIN mem[a].p
      BY <2>2, <2>3 DEF Owning
    <3>3. CASE a = c.a /\ f = c.f
      BY <3>3, <1>1 DEF Good
    <3>4. CASE ~(a = c.a /\ f = c.f) /\ SafePlace(mem[a], f)
      BY <3>2, <3>4, <1>1, <2>1, WorksKeeps, SafePlaceIs
    <3>5. CASE ~(a = c.a /\ f = c.f) /\ Pending(a, f)
      <4>1. PICK i \in DOMAIN calls : For(calls[i], a, f) /\ calls[i].function # "bucket"
        BY <3>5 DEF Pending
      <4>2. i # 1
        BY <4>1, <3>5, <1>2 DEF For
      <4>3. Len(parts) + i - 1 \in DOMAIN calls' /\ calls'[Len(parts) + i - 1] = calls[i]
        BY <4>2, <1>1, Calls
      <4> QED
        BY <4>1, <4>3 DEF Pending, For
    <3> QED
      BY <3>1, <3>3, <3>4, <3>5
  <2> QED
    BY <2>2, <2>3
<1> QED
  BY <1>4, <1>5

\* What was to be registered is, or will be.
LEMMA StepBinds ==
    ASSUME NEW c, NEW n, NEW parts, Step(c, n, parts), NEW q,
           Bound(q) \/ \E i \in DOMAIN calls : q \in WillBind(calls[i])
    PROVE  Bound(q)' \/ \E i \in DOMAIN calls' : q \in WillBind(calls[i])'
<1>1. Due(c, n) /\ Works(c, n, parts) /\ Classes(c) /\ Binds(c, parts)
  BY DEF Step
<1>2. 1 \in DOMAIN calls /\ c = calls[1]
  BY <1>1, DueFacts DEF Due
<1>3. CASE Bound(q)
  BY <1>3, <1>1 DEF Bound, Classes
<1>4. CASE q \in WillBind(c)
  <2>1. SUFFICES ASSUME NEW i \in DOMAIN parts, q \in WillBind(parts[i])'
                 PROVE  \E j \in DOMAIN calls' : q \in WillBind(calls[j])'
    BY <1>1, <1>4 DEF Binds
  <2>2. i \in DOMAIN calls' /\ calls'[i] = parts[i]
    BY <1>1, Calls
  <2> QED
    BY <2>1, <2>2
<1>5. CASE \E i \in DOMAIN calls \ {1} : q \in WillBind(calls[i])
  <2>1. PICK i \in DOMAIN calls \ {1} : q \in WillBind(calls[i])
    BY <1>5
  <2>2. PICK d : d = calls[i]
    OBVIOUS
  <2>3. q \in WillBind(d)'
    BY <2>1, <2>2, <1>1, WillBindStays
  <2>4. Len(parts) + i - 1 \in DOMAIN calls' /\ calls'[Len(parts) + i - 1] = d
    BY <2>1, <2>2, <1>1, Calls
  <2> QED
    BY <2>3, <2>4
<1> QED
  BY <1>2, <1>3, <1>4, <1>5

LEMMA StepReady ==
    ASSUME NEW c, NEW n, NEW parts, Step(c, n, parts), ~ignore_dups,
           NEW k \in DOMAIN calls', calls'[k].function \in Linking
    PROVE  Ready(k)'
<1>1. Due(c, n) /\ Works(c, n, parts) /\ Classes(c) /\ Binds(c, parts)
  BY DEF Step
<1>2. 1 \in DOMAIN calls /\ c = calls[1] /\ RequestInv
  BY <1>1, DueFacts DEF Due
<1>3. /\ \A i \in DOMAIN parts : i \in DOMAIN calls' /\ calls'[i] = parts[i]
      /\ DOMAIN parts = 1..Len(parts) /\ Len(parts) \in Nat
      /\ DOMAIN calls = 1..Len(calls) /\ Len(calls) \in Nat
      /\ \A i \in DOMAIN calls \ {1} : Len(parts) + i - 1 \in DOMAIN calls'
                                            /\ calls'[Len(parts) + i - 1] = calls[i]
  BY <1>1, Calls
<1>4. CASE k \in DOMAIN parts
  <2>1. PartReady(parts, k) /\ calls'[k] = parts[k]
    BY <1>1, <1>3, <1>4 DEF Binds
  <2>2. CASE \E i \in DOMAIN parts : i < k /\ TargetOf(parts[k])' \in WillBind(parts[i])'
    <3>1. PICK i \in DOMAIN parts : i < k /\ TargetOf(parts[k])' \in WillBind(parts[i])'
      BY <2>2
    <3>2. i \in DOMAIN calls' /\ calls'[i] = parts[i]
      BY <1>3
    <3> QED
      BY <3>1, <3>2, <2>1 DEF Ready
  <2> QED
    BY <2>1, <2>2 DEF Ready, PartReady
<1>5. CASE k \notin DOMAIN parts
  <2>1. PICK m \in DOMAIN calls \ {1} : k = Len(parts) + m - 1 /\ calls'[k] = calls[m]
    <3>1. k - Len(parts) + 1 \in DOMAIN calls \ {1} /\ calls'[k] = calls[k - Len(parts) + 1]
      BY <1>1, <1>5, Calls
    <3>2. k \in Nat
      BY <1>1, Calls
    <3>3. k = Len(parts) + (k - Len(parts) + 1) - 1
      BY <3>2, <1>3
    <3> QED
      BY <3>1, <3>3
  <2>2. PICK d, t : d = calls[m] /\ t = TargetOf(d)
    OBVIOUS
  <2>3. d.function \in Linking /\ Ready(m)
    BY <2>1, <2>2, <1>2 DEF RequestInv, AllReady
  <2>4. TargetOf(d)' = t
    <3>1. d.function # "bucket"
      BY <2>3 DEF Linking
    <3> QED
      BY <3>1, <1>1, <2>1, <2>2, PlacesStay DEF BothBuckets, TargetOf
  <2>5. old_ce' = old_ce
    BY <1>1, <2>1, PlacesStay DEF Classes
  <2>6. CASE t = Null /\ d.function = "inherit"
    BY <2>1, <2>2, <2>4, <2>6 DEF Ready
  <2>7. CASE t = old_ce /\ d.function = "rescope"
    BY <2>1, <2>2, <2>4, <2>5, <2>7 DEF Ready
  <2>8. CASE Bound(t)
    <3>1. Bound(t)'
      BY <2>8, <1>1 DEF Bound, Classes
    <3>2. calls'[k] = d /\ TargetOf(d)' = t
      BY <2>1, <2>2, <2>4
    <3> QED
      BY <3>1, <3>2 DEF Ready
  <2>9. CASE \E i \in DOMAIN calls : i < m /\ t \in WillBind(calls[i])
    <3>1. PICK i \in DOMAIN calls : i < m /\ t \in WillBind(calls[i])
      BY <2>9
    <3>2. calls'[k] = d /\ TargetOf(d)' = t
      BY <2>1, <2>2, <2>4
    <3>3. CASE i = 1
      <4>1. Bound(t)' \/ \E j \in DOMAIN parts : t \in WillBind(parts[j])'
        BY <3>1, <3>3, <1>1, <1>2 DEF Binds
      <4>2. ASSUME NEW j \in DOMAIN parts, t \in WillBind(parts[j])'
            PROVE  j \in DOMAIN calls' /\ j < k /\ t \in WillBind(calls[j])'
        <5>1. j \in DOMAIN calls' /\ calls'[j] = parts[j]
          BY <1>3
        <5>2. j \in Nat /\ j <= Len(parts) /\ m \in Nat /\ m > 1
          BY <1>3
        <5>3. j < k
          BY <5>2, <2>1, <1>3
        <5> QED
          BY <5>1, <5>3, <4>2
      <4> QED
        BY <4>1, <4>2, <3>2 DEF Ready
    <3>4. CASE i # 1
      <4>1. PICK e, j : e = calls[i] /\ j = Len(parts) + i - 1
        OBVIOUS
      <4>2. t \in WillBind(e)'
        BY <3>1, <3>4, <4>1, <1>1, WillBindStays
      <4>3. j \in DOMAIN calls' /\ calls'[j] = e /\ j < k
        BY <3>1, <3>4, <4>1, <2>1, <1>3
      <4> QED
        BY <4>2, <4>3, <3>2 DEF Ready
    <3> QED
      BY <3>3, <3>4
  <2> QED
    BY <2>2, <2>3, <2>6, <2>7, <2>8, <2>9 DEF Ready
<1> QED
  BY <1>4, <1>5

LEMMA StepRegistering ==
    ASSUME NEW c, NEW n, NEW parts, Step(c, n, parts)
    PROVE  Registering'
<1>1. Due(c, n) /\ Works(c, n, parts)
  BY DEF Step
<1>2. /\ SharedKept /\ Stored /\ RequestInv /\ phase' = phase /\ at' = at /\ at \in Nat \ {0}
      /\ script' = script
  BY <1>1, DueFacts, WorksKeeps DEF Works, loop, Due, IInv
<1>3. SUFFICES ASSUME ~ignore_dups, phase = "load_classes", NEW j \in 1..(at - 1),
                      NEW q \in Registered(ClassAt(j))'
               PROVE  Bound(q)' \/ \E i \in DOMAIN calls' : q \in WillBind(calls[i])'
  BY <1>2 DEF Registering
<1>4. j \in DOMAIN List("class_table")
  <2>1. at - 1 <= Len(List("class_table")) /\ IsArray(List("class_table"))
    BY <1>2, <1>3 DEF RequestInv, Reached, Stored, HoldTable, List
  <2> QED
    BY <2>1, <1>2 DEF IsArray
<1>5. PICK k : k = ClassAt(j)
  OBVIOUS
<1>6. k \in SharedMemory /\ mem[k].kind = "class" /\ ClassAt(j)' = k
  BY <1>2, <1>4, <1>5, ClassAtIs, ScriptStays
<1>7. Registered(k)' = Registered(k)
  BY <1>2, <1>6, RegisteredStays
<1>8. q \in Registered(k)
  BY <1>6, <1>7
<1>9. Bound(q) \/ \E i \in DOMAIN calls : q \in WillBind(calls[i])
  BY <1>2, <1>3, <1>5, <1>8 DEF RequestInv, Registering
<1> QED
  BY <1>9, StepBinds

LEMMA StepKeeps ==
    ASSUME NEW c, NEW n, NEW parts, Step(c, n, parts)
    PROVE  IInv' /\ SharedKept
<1>1. Due(c, n) /\ Works(c, n, parts) /\ Classes(c)
  BY DEF Step
<1>2. IInv /\ SharedKept /\ Stored /\ RequestInv /\ UNCHANGED loop /\ calls # <<>>
      /\ c = calls[1] /\ InClass(c) /\ 1 \in DOMAIN calls
  BY <1>1, DueFacts, WorksKeeps DEF Works, Due
<1>3. Stored' /\ List("class_table")' = List("class_table")
  BY <1>2, StoredStays, ScriptStays
<1>4. /\ \A a \in DOMAIN mem' : Fields \subseteq DOMAIN mem'[a]
      /\ Sequence(calls')
  BY <1>1, WorksKeeps, Calls
<1>5. allocated' \in Nat /\ \A k \in Nat : k > allocated' => <<"req", k>> \notin DOMAIN mem'
  <2>1. allocated \in Nat /\ \A k \in Nat : k > allocated => <<"req", k>> \notin DOMAIN mem
    BY <1>2 DEF RequestInv
  <2>2. n = <<"req", allocated + 1>>
    BY <1>1 DEF Due, New
  <2>3. SUFFICES ASSUME NEW k \in Nat, k > allocated', <<"req", k>> \in DOMAIN mem'
                 PROVE  FALSE
    BY <2>1, <1>1 DEF Works
  <2>4. k > allocated /\ <<"req", k>> \notin DOMAIN mem
    BY <2>1, <2>3, <1>1 DEF Works
  <2>5. <<"req", k>> = n /\ n \in DOMAIN mem'
    BY <2>3, <2>4, <1>1 DEF Works
  <2>6. allocated' = allocated + 1 /\ k = allocated + 1
    BY <2>2, <2>5, <1>1 DEF Works
  <2> QED
    BY <2>1, <2>3, <2>6
<1>6. \A a \in CGTables : a \in DOMAIN mem' /\ mem'[a].kind = "request"
  <2>1. \A a \in CGTables : a \in DOMAIN mem /\ mem[a].kind = "request"
    BY <1>2 DEF RequestInv
  <2> QED
    BY <2>1, <1>1 DEF Works
<1>7. \A i \in DOMAIN calls' : Fits(calls[i])' /\ InClass(calls[i])'
  BY StepFits
<1>8. Distinct' /\ Owns' /\ Registering'
  BY StepDistinct, StepOwns, StepRegistering
<1>9. AllReady'
  BY StepReady DEF AllReady
<1>10. (\A q \in DOMAIN bind : ~Shared(bind[q]))' /\ ~Shared(ce)'
  BY <1>1 DEF Classes
<1>11. Reached'
  BY <1>2, <1>3 DEF RequestInv, Reached, loop
<1>12. Copying'
  <2>1. SUFFICES ASSUME phase = "load_classes"
                 PROVE  /\ at - 1 \in DOMAIN List("class_table")
                        /\ calls'[1].function # "class" => old_ce' = ClassAt(at - 1)'
    BY <1>2, <1>3 DEF Copying, loop
  <2>2. at - 1 \in DOMAIN List("class_table") /\ (c.function # "class" => old_ce = ClassAt(at - 1))
    BY <1>2, <2>1 DEF RequestInv, Copying
  <2>3. old_ce' = ClassAt(at - 1)
    BY <1>1, <1>2, <2>2 DEF Classes, InClass
  <2>4. ClassAt(at - 1)' = ClassAt(at - 1)
    <3>1. PICK i : i = at - 1
      OBVIOUS
    <3>2. ClassAt(i)' = ClassAt(i)
      BY <3>1, <2>2, <1>2, ScriptStays
    <3>3. at' = at
      BY <1>2 DEF loop
    <3> QED
      BY <3>1, <3>2, <3>3
  <2> QED
    BY <2>2, <2>3, <2>4
<1>13. RequestInv'
  BY <1>4, <1>5, <1>6, <1>7, <1>8, <1>9, <1>10, <1>11, <1>12 DEF RequestInv
<1>14. phase \notin {"stored", "failed"} /\ phase' = phase /\ at' = at
  BY <1>2 DEF IInv, loop
<1> QED
  BY <1>2, <1>3, <1>4, <1>10, <1>13, <1>14 DEF IInv

-----------------------------------------------------------------------------
(* A step that makes a copy, of which all places are called for that lead  *)
(* to something shared.                                                    *)

LEMMA Starts ==
    ASSUME IInv, NEW functions, Called(functions)
    PROVE  \E c, n : Due(c, n) /\ c.function \in functions
<1>1. Sequence(calls) /\ calls # <<>> /\ Head(calls).function \in functions
  BY DEF IInv, Called
<1>2. PICK s : s = calls
  OBVIOUS
<1>3. Head(s) = s[1]
  BY <1>1, <1>2, NoCalls, Pushed
<1>4. \A c, n : c = calls[1] /\ n = New => Due(c, n) /\ c.function \in functions
  BY <1>1, <1>2, <1>3 DEF Due
<1> QED
  BY <1>4

LEMMA SharedIs ==
    ASSUME Stored, NEW q, NEW kinds, q # Null, Points(q, kinds)
    PROVE  /\ q \in SharedMemory /\ mem[q].kind \in kinds /\ WellFormed(mem[q])
           /\ Fields \subseteq DOMAIN mem[q]
BY PointsIs DEF Stored, Fields

PlaceFits(obj, function, f) ==
    /\ function \in (DOMAIN Takes \ {"class"}) \cup Linking \cup {"table"}
    /\ f \in DOMAIN obj.p
    /\ function = "table" <=> f \in Tables(obj)
    /\ function \in DOMAIN Takes => Points(obj.p[f], Takes[function])
    /\ function \in Present => obj.p[f] # Null
    /\ function = "table" => HoldTable(obj, f, {ElementKind(f)})

LEMMA NewFits ==
    ASSUME NEW c, NEW n, NEW parts, Due(c, n), Works(c, n, parts), n \in DOMAIN mem',
           NEW d, NEW obj, d.a = n, mem'[n] = obj, PlaceFits(obj, d.function, d.f)
    PROVE  Fits(d)'
<1>1. SharedKept /\ n \in Requested' /\ TargetOf(d)' = obj.p[d.f]
  BY WorksKeeps, DueFacts DEF Requested, SharedMemory, TargetOf
<1>2. PICK q, ks, es : q = obj.p[d.f] /\ ks = Takes[d.function] /\ es = {ElementKind(d.f)}
  OBVIOUS
<1>3. /\ d.function \in DOMAIN Takes => Points(q, ks)'
      /\ d.function = "table" => HoldTable(obj, d.f, es)'
  BY <1>1, <1>2, PointsStays, HoldTableStays DEF PlaceFits
<1>4. /\ d.function \in DOMAIN Takes => Points(TargetOf(d), Takes[d.function])'
      /\ d.function = "table" => HoldTable(mem[d.a], d.f, {ElementKind(d.f)})'
  <2>1. TargetOf(d)' = q /\ ks = Takes[d.function]' /\ es = {ElementKind(d.f)}' /\ mem'[d.a] = obj
    BY <1>1, <1>2 DEF Takes, ElementKind
  <2> QED
    BY <1>3, <2>1
<1>5. d.function # "bucket" /\ (d.function \in Looping <=> d.function = "table")
  BY DEF PlaceFits, Takes, Linking, Looping
<1>6. /\ d.function \in DOMAIN Takes \cup Linking \cup Looping
      /\ d.f \in DOMAIN mem'[d.a].p
      /\ d.function \in Looping <=> d.f \in Tables(mem'[d.a])
      /\ d.function \in Present => TargetOf(d)' # Null
  BY <1>1, <1>5 DEF PlaceFits, Looping
<1> QED
  BY <1>1, <1>4, <1>5, <1>6 DEF Fits

\* Calls that have nothing to do with the class that is copied.
Plain(d) ==
    /\ d.function \notin Linking \cup {"function", "method", "property", "class", "bucket"}
    /\ d.function = "table" => ~OfClass(d.f)
KeepsClasses ==
    /\ UNCHANGED class
    /\ DOMAIN bind \subseteq DOMAIN bind' /\ \A q \in DOMAIN bind' : ~Shared(bind'[q])

LEMMA PlainInClass ==
    ASSUME NEW d, Plain(d)
    PROVE  InClass(d)' /\ WillBind(d) = {} /\ WillBind(d)' = {}
<1>1. OfClass("function_table")
  BY DEF OfClass
<1>2. d.function = "table" => d.f # "function_table"
  BY <1>1 DEF Plain
<1>3. InClass(d)'
  BY DEF Plain, InClass, Linking, Looping
<1> QED
  BY <1>2, <1>3 DEF Plain, WillBind

LEMMA SameClasses ==
    ASSUME NEW c, NEW n, Due(c, n), KeepsClasses, c.function # "class"
    PROVE  Classes(c)
BY DueFacts DEF KeepsClasses, Classes, class, RequestInv

LEMMA SameBind ==
    ASSUME NEW c, NEW n, Due(c, n), UNCHANGED <<bind, class>>
    PROVE  KeepsClasses
BY DueFacts DEF KeepsClasses, RequestInv

\* A new object whose places are all safe or called for.
Covered(obj, parts) ==
    /\ Fields \subseteq DOMAIN obj /\ Owning(obj)
    /\ Sequence(parts)
    /\ \A i \in DOMAIN parts : PlaceFits(obj, parts[i].function, parts[i].f)
    /\ \A i, j \in DOMAIN parts : i # j => parts[i].f # parts[j].f
    /\ \A f \in Owned(obj) : SafePlace(obj, f) \/ \E i \in DOMAIN parts : parts[i].f = f

LEMMA CopyWorks ==
    ASSUME NEW c, NEW n, NEW obj, NEW parts, Due(c, n), Clone(obj, parts), UNCHANGED loop,
           Covered(obj, parts)
    PROVE  Works(c, n, parts) /\ mem'[c.a].p[c.f] = n /\ n \in DOMAIN mem' /\ mem'[n] = obj
<1>1. emalloc(obj, n, parts)
  BY DueFacts DEF Clone, emalloc
<1> QED
  BY <1>1, EmallocWorks DEF Covered

LEMMA CopyGood ==
    ASSUME NEW c, NEW n, NEW obj, NEW parts, Due(c, n), Clone(obj, parts), UNCHANGED loop,
           Covered(obj, parts), c.function \notin Looping,
           \A i \in DOMAIN parts : parts[i].a = n /\ InClass(parts[i])'
    PROVE  Works(c, n, parts) /\ Good(c, n, parts)
<1>2. Works(c, n, parts) /\ mem'[c.a].p[c.f] = n /\ n \in DOMAIN mem' /\ mem'[n] = obj
  BY CopyWorks
<1>3. SafePlace(mem'[c.a], c.f)
  <2>1. Fits(c) /\ mem'[c.a].kind = mem[c.a].kind /\ Safe(n)
    BY <1>2, DueFacts DEF Works
  <2>2. c.f \notin Tables(mem'[c.a])
    BY <2>1, <1>2, TablesAre DEF Fits, Works
  <2> QED
    BY <2>1, <2>2, <1>2 DEF SafePlace
<1>4. ASSUME NEW i \in DOMAIN parts
      PROVE  PartFits(c, n, parts[i]) /\ parts[i].function # "bucket"
  <2>1. PICK d : d = parts[i]
    OBVIOUS
  <2>2. d.a = n /\ PlaceFits(obj, d.function, d.f) /\ d.function # "class" /\ d.function # "bucket"
        /\ InClass(d)'
    <3>1. d.a = n /\ PlaceFits(obj, d.function, d.f) /\ InClass(d)'
      BY <2>1 DEF Covered
    <3>2. d.function # "bucket"
      BY <3>1 DEF PlaceFits, Takes, Linking
    <3>3. d.function # "class"
      BY <3>1 DEF PlaceFits, Linking
    <3> QED
      BY <3>1, <3>2, <3>3
  <2>3. Fits(d)'
    BY <2>2, <1>2, NewFits
  <2> QED
    BY <2>1, <2>2, <2>3 DEF PartFits
<1>5. Good(c, n, parts)
  BY <1>2, <1>3, <1>4 DEF Good, Covered, For
<1> QED
  BY <1>2, <1>5

LEMMA NothingBound ==
    ASSUME NEW c, NEW parts, WillBind(c) = {},
           \A i \in DOMAIN parts : parts[i].function \notin Linking
    PROVE  Binds(c, parts)
BY DEF Binds

LEMMA PlainKeeps ==
    ASSUME NEW c, NEW n, NEW obj, NEW parts, Due(c, n), Clone(obj, parts), UNCHANGED loop,
           Covered(obj, parts), c.function \notin Looping, KeepsClasses,
           Plain(c) \/ c.function = "function",
           \A i \in DOMAIN parts : parts[i].a = n /\ Plain(parts[i])
    PROVE  IInv' /\ SharedKept
<1>1. \A i \in DOMAIN parts : InClass(parts[i])'
  <2>1. ASSUME NEW i \in DOMAIN parts PROVE InClass(parts[i])'
    <3>1. PICK d : d = parts[i]
      OBVIOUS
    <3>2. InClass(d)'
      BY <3>1, PlainInClass
    <3> QED
      BY <3>1, <3>2
  <2> QED
    BY <2>1
<1>2. Works(c, n, parts) /\ Good(c, n, parts)
  BY <1>1, CopyGood
<1>3. Classes(c)
  BY SameClasses DEF Plain
<1>4. Binds(c, parts)
  BY PlainInClass, NothingBound DEF Plain, WillBind
<1> QED
  BY <1>2, <1>3, <1>4, StepKeeps DEF Step

\* A step that leaves the pointer alone, or makes it lead to what is the
\* request's.
LEMMA ReturnKeeps ==
    ASSUME NEW c, NEW n, Due(c, n), Return, UNCHANGED <<loop, bind, class>>,
           Plain(c) \/ c.function \in Linking, c.function \notin Looping, Safe(TargetOf(c))
    PROVE  IInv' /\ SharedKept
<1>1. Works(c, n, <<>>) /\ mem' = mem /\ n \notin DOMAIN mem'
  BY ReturnWorks DEF loop
<1>2. DOMAIN <<>> = {}
  BY NoCalls
<1>3. SafePlace(mem[c.a], c.f)
  BY DueFacts DEF SafePlace, Fits, TargetOf
<1>4. Good(c, n, <<>>)
  BY <1>1, <1>2, <1>3 DEF Good
<1>5. Classes(c)
  BY SameBind, SameClasses DEF Plain, Linking
<1>6. WillBind(c) = {}
  BY PlainInClass DEF WillBind, Linking
<1>7. Binds(c, <<>>)
  BY <1>2, <1>6, NothingBound
<1> QED
  BY <1>1, <1>4, <1>5, <1>7, StepKeeps DEF Step

LEMMA RedirectKeeps ==
    ASSUME NEW c, NEW n, NEW q, Due(c, n), Redirect(q), UNCHANGED <<loop, bind, class>>,
           Plain(c) \/ c.function \in Linking, c.function \notin Looping, Safe(q)
    PROVE  IInv' /\ SharedKept
<1>1. Works(c, n, <<>>) /\ mem'[c.a].p[c.f] = q /\ n \notin DOMAIN mem'
  BY RedirectWorks DEF loop
<1>2. DOMAIN <<>> = {}
  BY NoCalls
<1>3. SafePlace(mem'[c.a], c.f)
  <2>1. Fits(c) /\ mem'[c.a].kind = mem[c.a].kind /\ DOMAIN mem'[c.a].p = DOMAIN mem[c.a].p
    BY <1>1, DueFacts DEF Works
  <2>2. c.f \notin Tables(mem'[c.a])
    BY <2>1, <1>1, TablesAre DEF Fits
  <2> QED
    BY <2>1, <2>2, <1>1 DEF SafePlace
<1>4. Good(c, n, <<>>)
  BY <1>1, <1>2, <1>3 DEF Good
<1>5. Classes(c)
  BY SameBind, SameClasses DEF Plain, Linking
<1>6. WillBind(c) = {}
  BY PlainInClass DEF WillBind, Linking
<1>7. Binds(c, <<>>)
  BY <1>2, <1>6, NothingBound
<1> QED
  BY <1>1, <1>4, <1>5, <1>7, StepKeeps DEF Step

\* Sequences of parts.
LEMMA NoParts ==
    ASSUME NEW obj, Fields \subseteq DOMAIN obj, Owning(obj),
           \A f \in Owned(obj) : SafePlace(obj, f)
    PROVE  Covered(obj, <<>>)
BY NoCalls DEF Covered

LEMMA InvokeIs ==
    ASSUME NEW g, NEW a, NEW f
    PROVE  Invoke(g, a, f).function = g /\ Invoke(g, a, f).a = a /\ Invoke(g, a, f).f = f
BY DEF Invoke

LEMMA PartsIs ==
    ASSUME NEW k \in Nat, NEW places, Sequence(places), Len(places) = k
    PROVE  /\ Sequence(Parts(places)) /\ Len(Parts(places)) = k /\ DOMAIN Parts(places) = 1..k
           /\ \A i \in 1..k :
                /\ Parts(places)[i].a = New /\ Parts(places)[i].f = places[i][2]
                /\ Parts(places)[i].function = places[i][1]
<1>1. DOMAIN places = 1..k
  BY AnySequence DEF Sequence
<1>2. Parts(places) = [i \in 1..k |-> Invoke(places[i][1], New, places[i][2])]
  BY <1>1 DEF Parts
<1>3. PICK s : s = Parts(places)
  OBVIOUS
<1>4. s = [i \in 1..k |-> s[i]]
  BY <1>2, <1>3
<1>5. Sequence(s) /\ Len(s) = k /\ DOMAIN s = 1..k
  BY <1>4, Counted
<1>6. \A i \in 1..k : Parts(places)[i] = Invoke(places[i][1], New, places[i][2])
  BY <1>2
<1> HIDE DEF New
<1>7. \A i \in 1..k :
        /\ Parts(places)[i].a = New /\ Parts(places)[i].f = places[i][2]
        /\ Parts(places)[i].function = places[i][1]
  BY <1>6, InvokeIs
<1> QED
  BY <1>3, <1>5, <1>7

LEMMA EveryPlaceIs ==
    ASSUME NEW function, NEW obj, NEW k \in Nat, DOMAIN obj.p = 1..k
    PROVE  LET s == EveryPlace(function, obj)
           IN  /\ Sequence(s) /\ DOMAIN s = DOMAIN obj.p
               /\ \A i \in DOMAIN s : s[i].a = New /\ s[i].f = i /\ s[i].function = function
<1>1. PICK s : s = EveryPlace(function, obj)
  OBVIOUS
<1>2. s = [i \in 1..k |-> Invoke(function, New, i)]
  BY <1>1 DEF EveryPlace
<1>3. s = [i \in 1..k |-> s[i]]
  BY <1>2
<1>4. Sequence(s) /\ DOMAIN s = 1..k
  BY <1>2, <1>3, Counted
<1>5. \A i \in 1..k : s[i].a = New /\ s[i].f = i /\ s[i].function = function
  BY <1>2, InvokeIs
<1> QED
  BY <1>1, <1>2, <1>4, <1>5

-----------------------------------------------------------------------------
(* Strings, values and tables.                                             *)

LEMMA StringCovered ==
    ASSUME Stored, NEW q, q # Null, Points(q, {"str"})
    PROVE  Covered(mem[q], <<>>)
<1>1. mem[q].kind = "str" /\ DOMAIN mem[q].p = {} /\ Fields \subseteq DOMAIN mem[q]
  BY SharedIs DEF WellFormed
<1>2. Tables(mem[q]) = {} /\ Owned(mem[q]) = {}
  BY <1>1 DEF Tables, Owned
<1> QED
  BY <1>1, <1>2, NoParts DEF Owning

LEMMA CopyString ==
    ASSUME NEW c, NEW n, Due(c, n), c.function \in {"string", "comment"}, Target # Null,
           Clone(mem[Target], <<>>), UNCHANGED <<loop, bind, class>>
    PROVE  IInv' /\ SharedKept
<1>1. Stored /\ Fits(c) /\ Target = TargetOf(c)
  BY DueFacts
<1>2. Plain(c) /\ c.function \notin Looping /\ Points(Target, {"str"})
  <2>1. "string" \in DOMAIN Takes /\ "comment" \in DOMAIN Takes
        /\ Takes["string"] = {"str"} /\ Takes["comment"] = {"str"}
    BY DEF Takes
  <2>2. Points(Target, {"str"})
    BY <1>1, <2>1 DEF Fits
  <2> QED
    BY <2>2 DEF Plain, Linking, Looping
<1>3. PICK q, obj : q = Target /\ obj = mem[q]
  OBVIOUS
<1>4. Covered(obj, <<>>)
  BY <1>1, <1>2, <1>3, StringCovered
<1>5. Clone(obj, <<>>)
  BY <1>3
<1>6. KeepsClasses
  BY SameBind
<1>7. UNCHANGED loop /\ \A i \in DOMAIN <<>> : <<>>[i].a = n /\ Plain(<<>>[i])
  BY NoCalls
<1>8. PICK parts : parts = <<>>
  OBVIOUS
<1>9. \A i \in DOMAIN parts : parts[i].a = n /\ Plain(parts[i])
  BY <1>8, NoCalls
<1> QED
  BY <1>2, <1>4, <1>5, <1>6, <1>7, <1>8, <1>9, PlainKeeps

LEMMA StringStep ==
    ASSUME IInv, interned_estrndup
    PROVE  IInv' /\ SharedKept
<1>1. PICK c, n : Due(c, n) /\ c.function = "string"
  BY Starts DEF interned_estrndup
<1>2. CASE Target = Null \/ Interned(Target)
  <2>1. Return /\ UNCHANGED <<loop, bind, class>>
    BY <1>2 DEF interned_estrndup
  <2>2. Safe(TargetOf(c)) /\ Plain(c) /\ c.function \notin Looping
    BY <1>1, <1>2, DueFacts, SafeFacts DEF Plain, Linking, Looping
  <2> QED
    BY <1>1, <2>1, <2>2, ReturnKeeps
<1>3. CASE ~(Target = Null \/ Interned(Target))
  BY <1>1, <1>3, CopyString DEF interned_estrndup
<1> QED
  BY <1>2, <1>3

LEMMA CommentStep ==
    ASSUME IInv, LoadComment
    PROVE  IInv' /\ SharedKept
<1>1. PICK c, n : Due(c, n) /\ c.function = "comment"
  BY Starts DEF LoadComment
<1>2. Plain(c) /\ c.function \notin Looping /\ Target = TargetOf(c)
  BY <1>1, DueFacts DEF Plain, Linking, Looping
<1>3. CASE Target = Null
  <2>1. Return /\ UNCHANGED <<loop, bind, class>>
    BY <1>3 DEF LoadComment
  <2> QED
    BY <1>1, <1>2, <1>3, <2>1, SafeFacts, ReturnKeeps
<1>4. CASE Target # Null /\ load_comments
  BY <1>1, <1>4, CopyString DEF LoadComment
<1>5. CASE Target # Null /\ ~load_comments
  <2>1. Redirect(Null) /\ UNCHANGED <<loop, bind, class>>
    BY <1>5 DEF LoadComment
  <2>2. PICK q : q = Null
    OBVIOUS
  <2>3. Safe(q)
    BY <2>2, SafeFacts
  <2> QED
    BY <1>1, <1>2, <2>1, <2>2, <2>3, RedirectKeeps
<1> QED
  BY <1>3, <1>4, <1>5

LEMMA CopyPlain ==
    ASSUME NEW c, NEW n, NEW obj, NEW parts, Due(c, n), Clone(obj, parts), Covered(obj, parts),
           UNCHANGED <<loop, bind, class>>, c.function \notin Looping,
           Plain(c) \/ c.function = "function",
           \A i \in DOMAIN parts : parts[i].a = n /\ Plain(parts[i])
    PROVE  IInv' /\ SharedKept
<1>1. KeepsClasses /\ UNCHANGED loop
  BY SameBind
<1> QED
  BY <1>1, PlainKeeps

\* The same object with another count, or with other pointers.
LEMMA SameForm ==
    ASSUME NEW o1, NEW o2, o1.kind = o2.kind, o1.p = o2.p
    PROVE  WellFormed(o1) <=> WellFormed(o2)
BY DEF WellFormed, Hold, HoldTable

ZvalCopy(z) == [mem[z] EXCEPT !.n = 1]

LEMMA ZvalCopied ==
    ASSUME Stored, NEW z, z # Null, Points(z, {"zval"}), NEW obj,
           obj = mem[z] \/ obj = ZvalCopy(z), NEW n, n = New
    PROVE  /\ Covered(obj, Parts(Value(z)))
           /\ \A i \in DOMAIN Parts(Value(z)) :
                Parts(Value(z))[i].a = n /\ Plain(Parts(Value(z))[i])
<1>1. mem[z].kind = "zval" /\ WellFormed(mem[z]) /\ Fields \subseteq DOMAIN mem[z]
  BY SharedIs
<1>2. obj.kind = "zval" /\ Fields \subseteq DOMAIN obj /\ obj.p = mem[z].p
  BY <1>1, FieldsAre DEF ZvalCopy
<1>3. DOMAIN obj.p = {"val"} /\ Points(obj.p.val, {"str", "ht"})
  BY <1>1, <1>2 DEF WellFormed, Hold
<1>4. Tables(obj) = {} /\ Owned(obj) = {"val"} /\ Owning(obj)
  BY <1>2, <1>3 DEF Tables, Owned, Owning
<1>5. PICK v, ps : v = obj.p.val /\ ps = Parts(Value(z))
  OBVIOUS
<1>6. CASE v = Null
  <2>1. Value(z) = <<>> /\ Sequence(<<>>) /\ Len(<<>>) = 0
    BY <1>2, <1>5, <1>6, NoCalls DEF Value
  <2>2. Sequence(ps) /\ DOMAIN ps = {}
    <3>1. PICK places : places = <<>>
      OBVIOUS
    <3>2. Sequence(places) /\ Len(places) = 0 /\ ps = Parts(places)
      BY <2>1, <3>1, <1>5
    <3>3. Sequence(ps) /\ DOMAIN ps = 1..0
      BY <3>2, PartsIs
    <3> QED
      BY <3>3
  <2>3. SafePlace(obj, "val")
    BY <1>4, <1>5, <1>6, SafeFacts DEF SafePlace
  <2>4. Covered(obj, ps)
    BY <2>2, <2>3, <1>2, <1>4 DEF Covered
  <2> QED
    BY <2>2, <2>4, <1>5
<1>7. ASSUME v # Null, NEW g, Value(z) = <<<<g, "val">>>>, g \in {"string", "array"},
             Points(v, Takes[g])
      PROVE  Covered(obj, ps) /\ \A i \in DOMAIN ps : ps[i].a = n /\ Plain(ps[i])
  <2>1. PICK places : places = <<<<g, "val">>>>
    OBVIOUS
  <2>2. Len(places) = 1 /\ Sequence(places) /\ places[1][1] = g /\ places[1][2] = "val"
    <3>1. places \in Seq({<<g, "val">>}) /\ Len(places) = 1 /\ places[1] = <<g, "val">>
      BY <2>1
    <3> QED
      BY <3>1, AnySequence
  <2>3. ps = Parts(places)
    BY <1>5, <1>7, <2>1
  <2>4. Sequence(ps) /\ DOMAIN ps = 1..1 /\ ps[1].a = New /\ ps[1].f = "val" /\ ps[1].function = g
    <3>1. PICK k \in Nat : k = 1
      OBVIOUS
    <3>2. /\ Sequence(ps) /\ DOMAIN ps = 1..k
          /\ \A i \in 1..k : ps[i].a = New /\ ps[i].f = places[i][2] /\ ps[i].function = places[i][1]
      BY <2>2, <2>3, <3>1, PartsIs
    <3>3. 1 \in 1..k
      BY <3>1
    <3> QED
      BY <3>1, <3>2, <3>3, <2>2
  <2>5. PlaceFits(obj, g, "val")
    BY <1>3, <1>4, <1>5, <1>7 DEF PlaceFits, Takes, Present
  <2>6. Plain(ps[1])
    BY <2>4, <1>7 DEF Plain, Linking
  <2>7. 1..1 = {1}
    OBVIOUS
  <2> QED
    BY <2>4, <2>5, <2>6, <2>7, <1>2, <1>4 DEF Covered
<1>8. CASE v # Null
  <2>1. v \in SharedMemory /\ mem[v].kind \in {"str", "ht"} /\ v = mem[z].p.val
    BY <1>3, <1>5, <1>8, <1>2, PointsIs
  <2>2. CASE mem[v].kind = "str"
    <3>1. Value(z) = <<<<"string", "val">>>> /\ Points(v, Takes["string"])
      BY <2>1, <2>2, <1>3, <1>5, <1>8 DEF Value, Takes, Points
    <3> QED
      BY <3>1, <1>5, <1>7, <1>8
  <2>3. CASE mem[v].kind = "ht"
    <3>1. Value(z) = <<<<"array", "val">>>> /\ Points(v, Takes["array"])
      BY <2>1, <2>3, <1>3, <1>5, <1>8 DEF Value, Takes, Points
    <3> QED
      BY <3>1, <1>5, <1>7, <1>8
  <2> QED
    BY <2>1, <2>2, <2>3
<1> QED
  BY <1>6, <1>8

LEMMA TargetPoints ==
    ASSUME NEW c, NEW n, Due(c, n), c.function \in DOMAIN Takes
    PROVE  Points(Target, Takes[c.function]) /\ Target = TargetOf(c) /\ c.function \notin Looping
BY DueFacts DEF Fits, Takes, Looping

LEMMA CopyZval ==
    ASSUME NEW c, NEW n, NEW obj, Due(c, n), c.function \in {"zval", "static_zval"},
           Target # Null, obj = mem[Target] \/ obj = ZvalCopy(Target),
           Clone(obj, Parts(Value(Target))), UNCHANGED <<loop, class>>, KeepsClasses
    PROVE  IInv' /\ SharedKept
<1>1. Stored /\ Points(Target, {"zval"}) /\ Plain(c) /\ c.function \notin Looping
  <2>1. c.function \in DOMAIN Takes /\ Takes[c.function] = {"zval"}
    BY DEF Takes
  <2> QED
    BY <2>1, DueFacts, TargetPoints DEF Plain, Linking, Looping
<1>2. PICK z, parts : z = Target /\ parts = Parts(Value(z))
  OBVIOUS
<1>3. Clone(obj, parts)
  BY <1>2
<1>4. Covered(obj, parts) /\ \A i \in DOMAIN parts : parts[i].a = n /\ Plain(parts[i])
  BY <1>1, <1>2, ZvalCopied, DueFacts
<1> QED
  BY <1>1, <1>3, <1>4, PlainKeeps

LEMMA ZvalStep ==
    ASSUME IInv, zend_clone_zval
    PROVE  IInv' /\ SharedKept
<1>1. PICK c, n : Due(c, n) /\ c.function \in {"zval", "static_zval"}
  BY Starts DEF zend_clone_zval
<1>2. Plain(c) /\ c.function \notin Looping /\ Target = TargetOf(c) /\ RequestInv
  BY <1>1, DueFacts DEF Plain, Linking, Looping
<1>3. PICK z : z = Target
  OBVIOUS
<1>4. CASE Target = Null /\ Return /\ UNCHANGED bind
  <2>1. UNCHANGED <<loop, bind, class>>
    BY <1>4 DEF zend_clone_zval
  <2> QED
    BY <1>1, <1>2, <1>4, <2>1, SafeFacts, ReturnKeeps
<1>5. CASE /\ Target # Null /\ UNCHANGED bind
           /\ \/ Clone([mem[Target] EXCEPT !.n = 1], Parts(Value(Target)))
              \/ Clone(mem[Target], Parts(Value(Target)))
  <2>1. UNCHANGED <<loop, bind, class>>
    BY <1>5 DEF zend_clone_zval
  <2>2. KeepsClasses
    BY <1>1, <2>1, SameBind
  <2>3. PICK o1, o2 : o1 = ZvalCopy(Target) /\ o2 = mem[Target]
    OBVIOUS
  <2>4. Clone(o1, Parts(Value(Target))) \/ Clone(o2, Parts(Value(Target)))
    BY <1>5, <2>3 DEF ZvalCopy
  <2> QED
    BY <1>1, <1>5, <2>1, <2>2, <2>3, <2>4, CopyZval
<1>6. CASE /\ Target # Null /\ Clone(mem[Target], Parts(Value(Target)))
           /\ accel_xlat_set(Target, New)
  <2>1. UNCHANGED <<loop, class>>
    BY <1>6 DEF zend_clone_zval
  <2>2. KeepsClasses
    BY <1>1, <1>2, <1>6, <2>1, DueFacts DEF KeepsClasses, accel_xlat_set, With, RequestInv
  <2>3. PICK o : o = mem[Target]
    OBVIOUS
  <2>4. Clone(o, Parts(Value(Target)))
    BY <1>6, <2>3
  <2> QED
    BY <1>1, <1>6, <2>1, <2>2, <2>3, <2>4, CopyZval
<1>7. CASE Bound(Target) /\ Redirect(bind[Target]) /\ UNCHANGED bind
  <2>1. PICK q : q = bind[Target]
    OBVIOUS
  <2>2. Safe(q) /\ Redirect(q)
    BY <1>2, <1>7, <2>1, SafeFacts DEF Bound, RequestInv
  <2>3. UNCHANGED <<loop, bind, class>>
    BY <1>7 DEF zend_clone_zval
  <2> QED
    BY <1>1, <1>2, <2>2, <2>3, RedirectKeeps
<1> QED
  BY <1>4, <1>5, <1>6, <1>7 DEF zend_clone_zval

\* An array of pointers, for each of which the same is called.
LEMMA EveryCovered ==
    ASSUME NEW obj, NEW g, NEW k \in Nat, DOMAIN obj.p = 1..k, Fields \subseteq DOMAIN obj,
           obj.kind \in {"table", "rule", "str"}, g \in {"zval", "static_zval", "rules"},
           \A f \in DOMAIN obj.p : Points(obj.p[f], Takes[g]), NEW n, n = New
    PROVE  /\ Covered(obj, EveryPlace(g, obj))
           /\ \A i \in DOMAIN EveryPlace(g, obj) :
                EveryPlace(g, obj)[i].a = n /\ Plain(EveryPlace(g, obj)[i])
<1>1. PICK s : s = EveryPlace(g, obj)
  OBVIOUS
<1>2. Sequence(s) /\ DOMAIN s = DOMAIN obj.p
      /\ \A i \in DOMAIN s : s[i].a = n /\ s[i].f = i /\ s[i].function = g
  BY <1>1, EveryPlaceIs
<1>3. Tables(obj) = {} /\ Owned(obj) = DOMAIN obj.p /\ Owning(obj)
  BY DEF Tables, Owned, Owning
<1>4. g \in DOMAIN Takes /\ g \notin Present /\ g # "class" /\ g # "table"
  BY DEF Takes, Present
<1>5. \A f \in DOMAIN obj.p : PlaceFits(obj, g, f)
  BY <1>3, <1>4 DEF PlaceFits
<1>6. \A i \in DOMAIN s : Plain(s[i])
  BY <1>2 DEF Plain, Linking
<1>7. Covered(obj, s)
  BY <1>2, <1>3, <1>5 DEF Covered
<1> QED
  BY <1>1, <1>2, <1>6, <1>7

LEMMA MembersStep ==
    ASSUME IInv, CloneMembers
    PROVE  IInv' /\ SharedKept
<1>1. PICK c, n : Due(c, n) /\ c.function = "members"
  BY Starts DEF CloneMembers
<1>2. Plain(c) /\ UNCHANGED <<loop, bind, class>> /\ Stored /\ n = New
  BY <1>1, DueFacts DEF Plain, Linking, CloneMembers
<1>3. "members" \in DOMAIN Takes /\ Takes["members"] = {"table"} /\ Takes["zval"] = {"zval"}
      /\ Takes["static_zval"] = {"zval"}
  BY DEF Takes
<1>4. Points(Target, {"table"}) /\ Target = TargetOf(c) /\ c.function \notin Looping
  BY <1>1, <1>3, TargetPoints
<1>5. CASE Target = Null
  BY <1>1, <1>2, <1>4, <1>5, SafeFacts, ReturnKeeps DEF CloneMembers
<1>6. CASE Target # Null
  <2>1. PICK g, obj : obj = mem[Target] /\ g \in {"zval", "static_zval"}
                      /\ Clone(obj, EveryPlace(g, obj))
    BY <1>6 DEF CloneMembers
  <2>2. obj.kind = "table" /\ WellFormed(obj) /\ Fields \subseteq DOMAIN obj
    BY <1>2, <1>4, <1>6, <2>1, SharedIs
  <2>3. PICK k \in Nat : DOMAIN obj.p = 1..k
    BY <2>2 DEF WellFormed, IsArray
  <2>4. \A f \in DOMAIN obj.p : Points(obj.p[f], Takes[g])
    BY <2>1, <2>2, <1>3 DEF WellFormed, Hold
  <2>5. PICK parts : parts = EveryPlace(g, obj)
    OBVIOUS
  <2>6. Covered(obj, parts) /\ \A i \in DOMAIN parts : parts[i].a = n /\ Plain(parts[i])
    <3>1. g \in {"zval", "static_zval", "rules"} /\ obj.kind \in {"table", "rule", "str"}
      BY <2>1, <2>2
    <3>2. /\ Covered(obj, EveryPlace(g, obj))
          /\ \A i \in DOMAIN EveryPlace(g, obj) :
               EveryPlace(g, obj)[i].a = n /\ Plain(EveryPlace(g, obj)[i])
      <4>1. n = New /\ Fields \subseteq DOMAIN obj
        BY <1>2, <2>2
      <4> HIDE DEF New
      <4> QED
        BY <3>1, <4>1, <2>3, <2>4, EveryCovered
    <3> QED
      BY <3>2, <2>5
  <2>7. Clone(obj, parts)
    BY <2>1, <2>5
  <2> QED
    BY <2>6, <2>7, <1>1, <1>2, <1>4, CopyPlain
<1> QED
  BY <1>5, <1>6

LEMMA RulesStep ==
    ASSUME IInv, CloneRules
    PROVE  IInv' /\ SharedKept
<1>1. PICK c, n : Due(c, n) /\ c.function = "rules"
  BY Starts DEF CloneRules
<1>2. Plain(c) /\ UNCHANGED <<loop, bind, class>> /\ Stored /\ n = New
  BY <1>1, DueFacts DEF Plain, Linking, CloneRules
<1>3. "rules" \in DOMAIN Takes /\ Takes["rules"] = {"rule", "str"}
  BY DEF Takes
<1>4. Points(Target, {"rule", "str"}) /\ Target = TargetOf(c) /\ c.function \notin Looping
  BY <1>1, <1>3, TargetPoints
<1>5. CASE Target = Null
  BY <1>1, <1>2, <1>4, <1>5, SafeFacts, ReturnKeeps DEF CloneRules
<1>6. CASE Target # Null
  <2>1. PICK g, obj : obj = mem[Target] /\ g = "rules" /\ Clone(obj, EveryPlace(g, obj))
    BY <1>6 DEF CloneRules
  <2>2. obj.kind \in {"rule", "str"} /\ WellFormed(obj) /\ Fields \subseteq DOMAIN obj
    BY <1>2, <1>4, <1>6, <2>1, SharedIs
  <2>3. PICK k \in Nat : DOMAIN obj.p = 1..k
    <3>1. 1..0 = {} /\ 0 \in Nat
      OBVIOUS
    <3>2. CASE obj.kind = "str"
      BY <2>2, <3>1, <3>2 DEF WellFormed
    <3>3. CASE obj.kind = "rule"
      BY <2>2, <3>3 DEF WellFormed, IsArray
    <3> QED
      BY <2>2, <3>2, <3>3
  <2>4. \A f \in DOMAIN obj.p : Points(obj.p[f], Takes[g])
    BY <2>1, <2>2, <1>3 DEF WellFormed, Hold
  <2>5. PICK parts : parts = EveryPlace(g, obj)
    OBVIOUS
  <2>6. Covered(obj, parts) /\ \A i \in DOMAIN parts : parts[i].a = n /\ Plain(parts[i])
    <3>1. g \in {"zval", "static_zval", "rules"} /\ obj.kind \in {"table", "rule", "str"}
      BY <2>1, <2>2
    <3>2. /\ Covered(obj, EveryPlace(g, obj))
          /\ \A i \in DOMAIN EveryPlace(g, obj) :
               EveryPlace(g, obj)[i].a = n /\ Plain(EveryPlace(g, obj)[i])
      <4>1. n = New /\ Fields \subseteq DOMAIN obj
        BY <1>2, <2>2
      <4> HIDE DEF New
      <4> QED
        BY <3>1, <4>1, <2>3, <2>4, EveryCovered
    <3> QED
      BY <3>2, <2>5
  <2>7. Clone(obj, parts)
    BY <2>1, <2>5
  <2> QED
    BY <2>6, <2>7, <1>1, <1>2, <1>4, CopyPlain
<1> QED
  BY <1>5, <1>6

\* One part.
LEMMA OnePart ==
    ASSUME NEW g, NEW f, NEW n, n = New
    PROVE  LET s == Parts(<<<<g, f>>>>)
           IN  /\ Sequence(s) /\ DOMAIN s = {1}
               /\ s[1].function = g /\ s[1].a = n /\ s[1].f = f
<1> DEFINE places == <<<<g, f>>>>
<1>1. PICK k \in Nat : k = 1
  OBVIOUS
<1>2. places \in Seq({<<g, f>>}) /\ Len(places) = 1 /\ places[1] = <<g, f>>
  OBVIOUS
<1> HIDE DEF places
<1>3. Sequence(places) /\ Len(places) = k
  BY <1>1, <1>2, AnySequence
<1>4. /\ Sequence(Parts(places)) /\ DOMAIN Parts(places) = 1..k
      /\ \A i \in 1..k : /\ Parts(places)[i].a = New /\ Parts(places)[i].f = places[i][2]
                         /\ Parts(places)[i].function = places[i][1]
  BY <1>3, PartsIs
<1>5. 1..k = {1} /\ 1 \in 1..k
  BY <1>1
<1> HIDE DEF New
<1> QED
  BY <1>2, <1>4, <1>5 DEF places

LEMMA ArrayStep ==
    ASSUME IInv, CloneArray
    PROVE  IInv' /\ SharedKept
<1>1. PICK c, n : Due(c, n) /\ c.function = "array"
  BY Starts DEF CloneArray
<1>2. Plain(c) /\ UNCHANGED <<loop, bind, class>> /\ Stored /\ n = New
  BY <1>1, DueFacts DEF Plain, Linking, CloneArray
<1>3. "array" \in DOMAIN Takes /\ Takes["array"] = {"ht"} /\ "table" \notin DOMAIN Takes
  BY DEF Takes
<1>4. Points(Target, {"ht"}) /\ Target = TargetOf(c) /\ c.function \notin Looping
  BY <1>1, <1>3, TargetPoints
<1>5. CASE Target = Null
  BY <1>1, <1>2, <1>4, <1>5, SafeFacts, ReturnKeeps DEF CloneArray
<1>6. CASE Target # Null
  <2>1. PICK obj, parts : obj = mem[Target] /\ parts = Parts(<<<<"table", "ht">>>>)
    OBVIOUS
  <2>2. Clone(obj, parts)
    BY <1>6, <2>1 DEF CloneArray
  <2>3. obj.kind = "ht" /\ WellFormed(obj) /\ Fields \subseteq DOMAIN obj
    BY <1>2, <1>4, <1>6, <2>1, SharedIs
  <2>4. DOMAIN obj.p = {"ht"} /\ HoldTable(obj, "ht", {"zval"})
    BY <2>3 DEF WellFormed
  <2>5. Tables(obj) = {"ht"} /\ Owned(obj) = {"ht"} /\ Owning(obj) /\ ElementKind("ht") = "zval"
    BY <2>3, <2>4 DEF Tables, Owned, Owning, ElementKind
  <2>6. Sequence(parts) /\ DOMAIN parts = {1} /\ parts[1].function = "table" /\ parts[1].a = n
        /\ parts[1].f = "ht"
    BY <2>1, <1>2, OnePart
  <2>7. PlaceFits(obj, "table", "ht")
    BY <2>4, <2>5, <1>3 DEF PlaceFits, Linking, Present
  <2>8. Plain(parts[1])
    BY <2>6 DEF Plain, Linking, OfClass
  <2>9. Covered(obj, parts)
    BY <2>3, <2>5, <2>6, <2>7 DEF Covered
  <2> QED
    BY <2>2, <2>6, <2>8, <2>9, <1>1, <1>2, <1>4, CopyPlain
<1> QED
  BY <1>5, <1>6

-----------------------------------------------------------------------------
(* Functions: their statics are copied, and a script's own function has no *)
(* class.                                                                  *)

LEMMA FunctionStep ==
    ASSUME IInv, zend_prepare_function_for_execution
    PROVE  IInv' /\ SharedKept
<1>1. PICK c, n : Due(c, n) /\ c.function = "function"
  BY Starts DEF zend_prepare_function_for_execution
<1>2. UNCHANGED <<loop, bind, class>> /\ Stored /\ n = New /\ Fits(c) /\ InClass(c)
  BY <1>1, DueFacts DEF zend_prepare_function_for_execution
<1>3. "function" \in DOMAIN Takes /\ Takes["function"] = {"op_array"}
      /\ "array" \in DOMAIN Takes /\ Takes["array"] = {"ht"} /\ "table" \notin DOMAIN Takes
  BY DEF Takes
<1>4. Points(Target, {"op_array"}) /\ Target = TargetOf(c) /\ c.function \notin Looping
  BY <1>1, <1>3, TargetPoints
<1>5. Target # Null /\ mem[Target].p.scope = Null /\ mem[Target].p.prototype = Null
  BY <1>1, <1>2, <1>4 DEF Fits, Present, InClass, Stored
<1>6. PICK obj, parts : obj = mem[Target] /\ parts = Parts(<<Statics>>)
  OBVIOUS
<1>7. obj.kind = "op_array" /\ WellFormed(obj) /\ Fields \subseteq DOMAIN obj
  BY <1>2, <1>4, <1>5, <1>6, SharedIs
<1>8. /\ {"scope", "prototype", "static_variables"} \subseteq DOMAIN obj.p
      /\ Points(obj.p.static_variables, {"ht"})
  BY <1>7 DEF WellFormed, Hold
<1>9. /\ Tables(obj) = {} /\ Owned(obj) = {"static_variables", "scope", "prototype"}
      /\ Owning(obj)
  BY <1>7, <1>8 DEF Tables, Owned, Owning
<1>10. /\ Sequence(parts) /\ DOMAIN parts = {1} /\ parts[1].function = "array"
       /\ parts[1].a = n /\ parts[1].f = "static_variables"
  BY <1>2, <1>6, OnePart DEF Statics
<1>11. PlaceFits(obj, "array", "static_variables")
  BY <1>3, <1>8, <1>9 DEF PlaceFits, Present
<1>12. SafePlace(obj, "scope") /\ SafePlace(obj, "prototype")
  BY <1>5, <1>6, <1>9, SafeFacts DEF SafePlace
<1>13. Covered(obj, parts)
  BY <1>7, <1>9, <1>10, <1>11, <1>12 DEF Covered
<1>14. Plain(parts[1])
  BY <1>10 DEF Plain, Linking
<1>15. Clone(obj, parts)
  BY <1>6 DEF zend_prepare_function_for_execution
<1> QED
  BY <1>1, <1>2, <1>4, <1>10, <1>13, <1>14, <1>15, CopyPlain

-----------------------------------------------------------------------------
(* Classes.  The copy of a method or a property belongs to the class that  *)
(* is copied, or to one before it.                                         *)

\* What a class may refer to (Linked).
Before(i) == UNION {Registered(ClassAt(j)) : j \in 1..(i - 1)}

LEMMA LinkedIs ==
    ASSUME Stored, NEW i \in DOMAIN List("class_table"), NEW k, k = ClassAt(i)
    PROVE  /\ mem[k].p.parent = Null \/ mem[k].p.parent \in Before(i)
           /\ \A h \in {"constructor", "destructor"} :
                mem[k].p[h] = Null \/ mem[k].p[h] \in Before(i) \cup Registered(k)
           /\ \A q \in Held(k, "function_table") :
                /\ mem[q].p.scope = k
                   \/ (mem[q].p.scope \in Before(i) /\ mem[mem[q].p.scope].kind = "class")
                /\ mem[q].p.prototype = Null
                   \/ mem[q].p.prototype \in Before(i) \ Held(k, "function_table")
           /\ \A q \in Held(k, "properties_info") :
                mem[q].p.ce = k \/ (mem[q].p.ce \in Before(i) /\ mem[mem[q].p.ce].kind = "class")
<1>1. Linked(i)
  BY DEF Stored
<1>2. "constructor" \in Elements([list |-> Handlers]) /\ "destructor" \in Elements([list |-> Handlers])
  <2>1. /\ DOMAIN Handlers = 1..2 /\ Handlers[1] = "constructor" /\ Handlers[2] = "destructor"
        /\ 1 \in 1..2 /\ 2 \in 1..2
    BY DEF Handlers
  <2> QED
    BY <2>1 DEF Elements
<1>3. PICK before : before = Before(i)
  OBVIOUS
<1> DEFINE Of(S, kind) == {q \in S : mem[q].kind = kind}
<1>4. /\ mem[k].p.parent \in {Null} \cup Of(before, "class")
      /\ \A h \in Elements([list |-> Handlers]) :
           mem[k].p[h] \in {Null} \cup Of(before \cup Registered(k), "op_array")
      /\ \A q \in Held(k, "function_table") :
           /\ mem[q].p.scope \in {k} \cup Of(before, "class")
           /\ mem[q].p.prototype \in {Null} \cup
                (Of(before, "op_array") \ Held(k, "function_table"))
      /\ \A q \in Held(k, "properties_info") : mem[q].p.ce \in {k} \cup Of(before, "class")
  BY <1>1, <1>3 DEF Linked, Before
<1> QED
  BY <1>2, <1>3, <1>4

\* What is still to be registered is of the class that is copied.
LEMMA PendingIsHeld ==
    ASSUME NEW c, NEW n, Due(c, n), phase = "load_classes", c.function # "class",
           NEW i \in DOMAIN calls, NEW q \in WillBind(calls[i])
    PROVE  q \in Held(old_ce, "function_table")
<1>1. PICK d : d = calls[i]
  OBVIOUS
<1>2. InClass(d) /\ calls[1] = c /\ (d.function = "class" => i = 1)
  BY <1>1, DueFacts DEF RequestInv, Due, InClass
<1>3. d.function # "class" /\ q \in WillBind(d)
  BY <1>1, <1>2
<1>4. OfClass("function_table")
  BY DEF OfClass
<1> QED
  BY <1>2, <1>3, <1>4 DEF WillBind, InClass

LEMMA Current ==
    ASSUME NEW c, NEW n, Due(c, n), phase = "load_classes", NEW i, i = at - 1
    PROVE  /\ i \in DOMAIN List("class_table") /\ ClassAt(i) \in SharedMemory
           /\ mem[ClassAt(i)].kind = "class" /\ i \in Nat
           /\ old_ce = ClassAt(i) \/ (c.function = "class" /\ TargetOf(c) = ClassAt(i))
           /\ \A q \in Before(i) \cup Registered(ClassAt(i)) :
                \E j \in 1..(at - 1) : q \in Registered(ClassAt(j))
<1>1. Copying /\ InClass(c) /\ Stored /\ at \in Nat \ {0} /\ calls # <<>> /\ calls[1] = c
  BY DueFacts DEF RequestInv, Due, IInv
<1>2. i \in DOMAIN List("class_table") /\ (c.function # "class" => old_ce = ClassAt(i))
      /\ (c.function = "class" => TargetOf(c) = ClassAt(i))
  BY <1>1 DEF Copying, InClass
<1>3. IsArray(List("class_table"))
  BY <1>1 DEF Stored, HoldTable, List
<1>4. i \in Nat /\ i \in 1..(at - 1) /\ \A j \in 1..(i - 1) : j \in 1..(at - 1)
  BY <1>1, <1>2, <1>3 DEF IsArray
<1> QED
  BY <1>1, <1>2, <1>4, ClassAtIs DEF Before

LEMMA EarlierBound ==
    ASSUME NEW c, NEW n, Due(c, n), phase = "load_classes", ~ignore_dups, c.function # "class",
           NEW i, i = at - 1, NEW q \in Before(i), q \notin Held(old_ce, "function_table")
    PROVE  Bound(q)
<1>1. PICK j \in 1..(at - 1) : q \in Registered(ClassAt(j))
  BY Current
<1>2. Bound(q) \/ \E m \in DOMAIN calls : q \in WillBind(calls[m])
  BY <1>1, DueFacts DEF RequestInv, Registering
<1> QED
  BY <1>2, PendingIsHeld

LEMMA ThreeParts ==
    ASSUME NEW g1, NEW f1, NEW g2, NEW f2, NEW g3, NEW f3, NEW n, n = New
    PROVE  LET s == Parts(<<<<g1, f1>>, <<g2, f2>>, <<g3, f3>>>>)
           IN  /\ Sequence(s) /\ DOMAIN s = {1, 2, 3}
               /\ s[1].function = g1 /\ s[1].a = n /\ s[1].f = f1
               /\ s[2].function = g2 /\ s[2].a = n /\ s[2].f = f2
               /\ s[3].function = g3 /\ s[3].a = n /\ s[3].f = f3
<1> DEFINE places == <<<<g1, f1>>, <<g2, f2>>, <<g3, f3>>>>
<1>1. PICK k \in Nat : k = 3
  OBVIOUS
<1>2. /\ places \in Seq({<<g1, f1>>, <<g2, f2>>, <<g3, f3>>}) /\ Len(places) = 3
      /\ places[1] = <<g1, f1>> /\ places[2] = <<g2, f2>> /\ places[3] = <<g3, f3>>
  OBVIOUS
<1> HIDE DEF places
<1>3. Sequence(places) /\ Len(places) = k
  BY <1>1, <1>2, AnySequence
<1>4. /\ Sequence(Parts(places)) /\ DOMAIN Parts(places) = 1..k
      /\ \A i \in 1..k : /\ Parts(places)[i].a = New /\ Parts(places)[i].f = places[i][2]
                         /\ Parts(places)[i].function = places[i][1]
  BY <1>3, PartsIs
<1>5. 1..k = {1, 2, 3}
  BY <1>1
<1> HIDE DEF New
<1> QED
  BY <1>2, <1>4, <1>5 DEF places

LEMMA MethodStep ==
    ASSUME IInv, CloneMethod
    PROVE  IInv' /\ SharedKept
<1>1. PICK c, n : Due(c, n) /\ c.function = "method"
  BY Starts DEF CloneMethod
<1>2. /\ UNCHANGED <<loop, class>> /\ Stored /\ n = New /\ Fits(c) /\ InClass(c) /\ RequestInv
      /\ Target = TargetOf(c) /\ ~Shared(n)
  BY <1>1, DueFacts DEF CloneMethod
<1>3. /\ "method" \in DOMAIN Takes /\ Takes["method"] = {"op_array"}
      /\ "array" \in DOMAIN Takes /\ Takes["array"] = {"ht"}
      /\ DOMAIN Takes \cap (Linking \cup {"table"}) = {}
  BY DEF Takes, Linking
<1>4. Points(Target, {"op_array"}) /\ c.function \notin Looping /\ Target # Null
  BY <1>1, <1>2, <1>3, TargetPoints DEF Fits, Present
<1>5. PICK q, obj, parts, i : /\ q = Target /\ obj = mem[q] /\ i = at - 1
                  /\ parts = Parts(<<Statics, <<"rescope", "scope">>, <<"inherit", "prototype">>>>)
  OBVIOUS
<1>6. obj.kind = "op_array" /\ WellFormed(obj) /\ Fields \subseteq DOMAIN obj
  BY <1>2, <1>4, <1>5, SharedIs
<1>7. /\ {"scope", "prototype", "static_variables"} \subseteq DOMAIN obj.p
      /\ Points(obj.p.static_variables, {"ht"})
  BY <1>6 DEF WellFormed, Hold
<1>8. /\ Tables(obj) = {} /\ Owned(obj) = {"static_variables", "scope", "prototype"}
      /\ Owning(obj)
  BY <1>6, <1>7 DEF Tables, Owned, Owning
<1>9. /\ Sequence(parts) /\ DOMAIN parts = {1, 2, 3}
      /\ parts[1].function = "array" /\ parts[1].a = n /\ parts[1].f = "static_variables"
      /\ parts[2].function = "rescope" /\ parts[2].a = n /\ parts[2].f = "scope"
      /\ parts[3].function = "inherit" /\ parts[3].a = n /\ parts[3].f = "prototype"
  BY <1>2, <1>5, ThreeParts DEF Statics
<1>10. /\ PlaceFits(obj, "array", "static_variables")
       /\ PlaceFits(obj, "rescope", "scope") /\ PlaceFits(obj, "inherit", "prototype")
  BY <1>3, <1>7, <1>8 DEF PlaceFits, Present, Linking
<1>11. Covered(obj, parts)
  BY <1>6, <1>8, <1>9, <1>10 DEF Covered
<1>12. Clone(obj, parts)
  BY <1>5 DEF CloneMethod
<1>13. phase = "load_classes" /\ q \in Held(old_ce, "function_table")
  BY <1>1, <1>2, <1>5 DEF InClass
<1>14. ASSUME NEW m \in DOMAIN parts PROVE parts[m].a = n /\ InClass(parts[m])'
  <2>1. PICK d : d = parts[m]
    OBVIOUS
  <2>2. CASE m = 1
    <3>1. Plain(d)
      BY <1>9, <2>1, <2>2 DEF Plain, Linking
    <3>2. InClass(d)'
      BY <3>1, PlainInClass
    <3> QED
      BY <3>2, <2>1, <2>2, <1>9
  <2>3. CASE m \in {2, 3}
    <3>1. d.function \in Linking
      BY <1>9, <2>1, <2>3 DEF Linking
    <3>2. InClass(d)'
      BY <3>1, <1>2, <1>13 DEF InClass, Linking, Looping, loop
    <3> QED
      BY <3>2, <2>1, <2>3, <1>9
  <2> QED
    BY <1>9, <2>2, <2>3
<1>15. UNCHANGED loop /\ UNCHANGED class
  BY <1>2
<1>16. Works(c, n, parts) /\ Good(c, n, parts)
  BY <1>1, <1>4, <1>11, <1>12, <1>14, <1>15, CopyGood
<1>17. n \in DOMAIN mem' /\ mem'[n] = obj
  BY <1>1, <1>11, <1>12, <1>15, CopyWorks
<1>18. /\ DOMAIN bind \subseteq DOMAIN bind' /\ (\A x \in DOMAIN bind' : ~Shared(bind'[x]))
       /\ obj.n # 0 => q \in DOMAIN bind'
  BY <1>2, <1>5 DEF CloneMethod, accel_xlat_set, With, RequestInv
<1>19. Classes(c)
  BY <1>1, <1>15, <1>18, SameClasses DEF KeepsClasses
<1>20. \A x \in WillBind(c) : Bound(x)'
  BY <1>1, <1>2, <1>5, <1>6, <1>18 DEF WillBind, Marked, Bound
<1>21. ASSUME ~ignore_dups, NEW m \in DOMAIN parts, parts[m].function \in Linking
       PROVE  PartReady(parts, m)
  <2>1. PICK k, s, r : k = old_ce /\ s = obj.p.scope /\ r = obj.p.prototype
    OBVIOUS
  <2>2. /\ i \in DOMAIN List("class_table") /\ ClassAt(i) = k /\ k \in SharedMemory
        /\ mem[k].kind = "class"
    BY <1>1, <1>5, <1>13, <2>1, Current
  <2>3. /\ s = k \/ (s \in Before(i) /\ mem[s].kind = "class")
        /\ r = Null \/ r \in Before(i) \ Held(k, "function_table")
    BY <1>2, <1>5, <1>13, <2>1, <2>2, LinkedIs
  <2>4. \A x \in Held(k, "function_table") : mem[x].kind = "op_array"
    BY <1>2, <2>2, MethodsAre
  <2>5. s = k \/ Bound(s)
    BY <1>1, <1>5, <1>13, <1>21, <2>1, <2>3, <2>4, EarlierBound
  <2>6. r = Null \/ Bound(r)
    BY <1>1, <1>5, <1>13, <1>21, <2>1, <2>3, EarlierBound
  <2>7. CASE m = 2
    <3>1. TargetOf(parts[m])' = s /\ old_ce' = k
      BY <1>9, <1>15, <1>17, <2>1, <2>7 DEF TargetOf, class
    <3>2. s = k \/ Bound(s)'
      BY <2>5, <1>18 DEF Bound
    <3> QED
      BY <3>1, <3>2, <2>7, <1>9 DEF PartReady
  <2>8. CASE m = 3
    <3>1. TargetOf(parts[m])' = r
      BY <1>9, <1>17, <2>1, <2>8 DEF TargetOf
    <3>2. r = Null \/ Bound(r)'
      BY <2>6, <1>18 DEF Bound
    <3> QED
      BY <3>1, <3>2, <2>8, <1>9 DEF PartReady
  <2> QED
    BY <1>9, <1>21, <2>7, <2>8 DEF Linking
<1>22. Binds(c, parts)
  BY <1>20, <1>21 DEF Binds
<1> QED
  BY <1>1, <1>16, <1>19, <1>22, StepKeeps DEF Step

LEMMA PropertyStep ==
    ASSUME IInv, CloneProperty
    PROVE  IInv' /\ SharedKept
<1>1. PICK c, n : Due(c, n) /\ c.function = "property"
  BY Starts DEF CloneProperty
<1>2. /\ UNCHANGED <<loop, bind, class>> /\ Stored /\ n = New /\ Fits(c) /\ InClass(c) /\ RequestInv
      /\ Target = TargetOf(c)
  BY <1>1, DueFacts DEF CloneProperty
<1>3. /\ "property" \in DOMAIN Takes /\ Takes["property"] = {"prop"}
      /\ {"string", "comment"} \subseteq DOMAIN Takes
      /\ Takes["string"] = {"str"} /\ Takes["comment"] = {"str"}
      /\ DOMAIN Takes \cap (Linking \cup {"table"}) = {}
  BY DEF Takes, Linking
<1>4. Points(Target, {"prop"}) /\ c.function \notin Looping /\ Target # Null
  BY <1>1, <1>2, <1>3, TargetPoints DEF Fits, Present
<1>5. PICK q, obj, parts, i : /\ q = Target /\ obj = mem[q] /\ i = at - 1
          /\ parts = Parts(<<<<"string", "name">>, <<"comment", "doc_comment">>, <<"rescope", "ce">>>>)
  OBVIOUS
<1>6. obj.kind = "prop" /\ WellFormed(obj) /\ Fields \subseteq DOMAIN obj
  BY <1>2, <1>4, <1>5, SharedIs
<1>7. /\ DOMAIN obj.p = {"name", "doc_comment", "ce"}
      /\ Points(obj.p.name, {"str"}) /\ Points(obj.p.doc_comment, {"str"})
  BY <1>6 DEF WellFormed, Hold
<1>8. Tables(obj) = {} /\ Owned(obj) = {"name", "doc_comment", "ce"} /\ Owning(obj)
  BY <1>6, <1>7 DEF Tables, Owned, Owning
<1>9. /\ Sequence(parts) /\ DOMAIN parts = {1, 2, 3}
      /\ parts[1].function = "string" /\ parts[1].a = n /\ parts[1].f = "name"
      /\ parts[2].function = "comment" /\ parts[2].a = n /\ parts[2].f = "doc_comment"
      /\ parts[3].function = "rescope" /\ parts[3].a = n /\ parts[3].f = "ce"
  BY <1>2, <1>5, ThreeParts
<1>10. /\ PlaceFits(obj, "string", "name") /\ PlaceFits(obj, "comment", "doc_comment")
       /\ PlaceFits(obj, "rescope", "ce")
  BY <1>3, <1>7, <1>8 DEF PlaceFits, Present, Linking
<1>11. Covered(obj, parts)
  BY <1>6, <1>8, <1>9, <1>10 DEF Covered
<1>12. Clone(obj, parts)
  BY <1>5 DEF CloneProperty
<1>13. phase = "load_classes" /\ q \in Held(old_ce, "properties_info")
  BY <1>1, <1>2, <1>5 DEF InClass
<1>14. ASSUME NEW m \in DOMAIN parts PROVE parts[m].a = n /\ InClass(parts[m])'
  <2>1. PICK d : d = parts[m]
    OBVIOUS
  <2>2. CASE m \in {1, 2}
    <3>1. Plain(d)
      BY <1>9, <2>1, <2>2 DEF Plain, Linking
    <3>2. InClass(d)'
      BY <3>1, PlainInClass
    <3> QED
      BY <3>2, <2>1, <2>2, <1>9
  <2>3. CASE m = 3
    <3>1. d.function \in Linking
      BY <1>9, <2>1, <2>3 DEF Linking
    <3>2. InClass(d)'
      BY <3>1, <1>2, <1>13 DEF InClass, Linking, Looping, loop
    <3> QED
      BY <3>2, <2>1, <2>3, <1>9
  <2> QED
    BY <1>9, <2>2, <2>3
<1>15. UNCHANGED loop /\ UNCHANGED class /\ UNCHANGED <<bind, class>>
  BY <1>2
<1>16. Works(c, n, parts) /\ Good(c, n, parts)
  BY <1>1, <1>4, <1>11, <1>12, <1>14, <1>15, CopyGood
<1>17. n \in DOMAIN mem' /\ mem'[n] = obj
  BY <1>1, <1>11, <1>12, <1>15, CopyWorks
<1>18. Classes(c)
  BY <1>1, <1>15, SameBind, SameClasses
<1>19. WillBind(c) = {}
  BY <1>1 DEF WillBind
<1>20. ASSUME ~ignore_dups, NEW m \in DOMAIN parts, parts[m].function \in Linking
       PROVE  PartReady(parts, m)
  <2>1. PICK k, s : k = old_ce /\ s = obj.p.ce
    OBVIOUS
  <2>2. /\ i \in DOMAIN List("class_table") /\ ClassAt(i) = k /\ k \in SharedMemory
        /\ mem[k].kind = "class"
    BY <1>1, <1>5, <1>13, <2>1, Current
  <2>3. s = k \/ (s \in Before(i) /\ mem[s].kind = "class")
    BY <1>2, <1>5, <1>13, <2>1, <2>2, LinkedIs
  <2>4. \A x \in Held(k, "function_table") : mem[x].kind = "op_array"
    BY <1>2, <2>2, MethodsAre
  <2>5. s = k \/ Bound(s)
    BY <1>1, <1>5, <1>13, <1>20, <2>1, <2>3, <2>4, EarlierBound
  <2>6. m = 3
    BY <1>9, <1>20 DEF Linking
  <2>7. TargetOf(parts[m])' = s /\ old_ce' = k
    BY <1>9, <1>15, <1>17, <2>1, <2>6 DEF TargetOf, class
  <2>8. s = k \/ Bound(s)'
    BY <2>5, <1>15 DEF Bound
  <2> QED
    BY <2>6, <2>7, <2>8, <1>9 DEF PartReady
<1>21. Binds(c, parts)
  BY <1>19, <1>20 DEF Binds
<1> QED
  BY <1>1, <1>16, <1>18, <1>21, StepKeeps DEF Step

LEMMA FailKeeps ==
    ASSUME IInv, phase # "stored", UNCHANGED <<mem, script, allocated, bind, class>>,
           phase' = "failed", calls' = <<>>, at' \in Nat \ {0}, ignore_dups \/ calls = <<>>
    PROVE  IInv' /\ SharedKept
<1>1. SharedKept /\ Stored /\ RequestInv /\ Requested' = Requested
  BY DEF SharedKept, IInv, SharedMemory, Requested
<1>2. Stored'
  BY <1>1, StoredStays
<1>3. Sequence(calls') /\ DOMAIN calls' = {} /\ (calls = <<>> => DOMAIN calls = {})
  BY NoCalls
<1>4. Owns'
  <2>1. SUFFICES ASSUME NEW a \in Requested, NEW f \in Owned(mem[a])
                 PROVE  SafePlace(mem[a], f) \/ Broken'
    BY <1>1 DEF RequestInv, Owns
  <2>2. SafePlace(mem[a], f) \/ Pending(a, f) \/ Broken
    BY <1>1, <2>1 DEF RequestInv, Owns
  <2>3. ignore_dups => Broken'
    BY DEF Broken
  <2>4. calls = <<>> => ~Pending(a, f)
    BY <1>3 DEF Pending
  <2> QED
    BY <2>2, <2>3, <2>4 DEF Broken
<1>5. Distinct' /\ Copying' /\ AllReady' /\ Registering' /\ Reached'
  BY <1>3 DEF Distinct, Copying, AllReady, Registering, Reached
<1>6. \A i \in DOMAIN calls' : Fits(calls[i])' /\ InClass(calls[i])'
  BY <1>3
<1>7. RequestInv'
  BY <1>1, <1>4, <1>5, <1>6 DEF RequestInv, CGTables, CG, class
<1> QED
  BY <1>1, <1>2, <1>3, <1>7 DEF IInv, Ended, class

\* The first of the calls never fails, unless duplicates are ignored.
LEMMA FirstIsReady ==
    ASSUME NEW c, NEW n, Due(c, n), c.function \in Linking, ~Bound(TargetOf(c)),
           TargetOf(c) = Null => c.function # "inherit",
           TargetOf(c) = old_ce => c.function # "rescope"
    PROVE  ignore_dups
<1>1. calls[1] = c /\ 1 \in DOMAIN calls /\ RequestInv /\ Sequence(calls)
  BY DueFacts DEF Due, IInv
<1>2. \A i \in DOMAIN calls : ~(i < 1)
  <2>1. PICK s : s = calls
    OBVIOUS
  <2>2. Sequence(s) /\ s # <<>>
    BY <1>1, <2>1 DEF Due
  <2>3. DOMAIN s = 1..Len(s)
    BY <2>2, NoCalls, Pushed
  <2>4. Len(s) \in Nat
    BY <2>2, NoCalls, Pushed
  <2> QED
    BY <2>1, <2>3, <2>4
<1>3. ignore_dups \/ Ready(1)
  BY <1>1 DEF RequestInv, AllReady
<1>4. ~Ready(1)
  BY <1>1, <1>2 DEF Ready
<1> QED
  BY <1>3, <1>4

LEMMA BoundIsSafe ==
    ASSUME NEW c, NEW n, Due(c, n), NEW q, Bound(q)
    PROVE  Safe(bind[q]) /\ ~Shared(bind[q])
BY DueFacts, SafeFacts DEF Bound, RequestInv

LEMMA RescopeStep ==
    ASSUME IInv, Rescope
    PROVE  IInv' /\ SharedKept
<1>1. PICK c, n : Due(c, n) /\ c.function = "rescope"
  BY Starts DEF Rescope
<1>2. /\ UNCHANGED <<bind, class>> /\ Target = TargetOf(c) /\ ~Shared(ce)
      /\ c.function \in Linking /\ c.function \notin Looping /\ phase \in Loading \cup {"loaded"}
  BY <1>1, DueFacts DEF Rescope, Linking, Looping
<1>3. CASE Redirect(ce) /\ UNCHANGED loop
  <2>1. PICK q : q = ce
    OBVIOUS
  <2>2. Redirect(q) /\ Safe(q)
    BY <1>2, <1>3, <2>1, SafeFacts
  <2>3. UNCHANGED <<loop, bind, class>>
    BY <1>2, <1>3
  <2> QED
    BY <1>1, <1>2, <2>2, <2>3, RedirectKeeps
<1>4. CASE Bound(Target) /\ Redirect(bind[Target]) /\ UNCHANGED loop
  <2>1. PICK q, t : t = Target /\ q = bind[t]
    OBVIOUS
  <2>2. Redirect(q) /\ Safe(q)
    BY <1>1, <1>4, <2>1, BoundIsSafe
  <2>3. UNCHANGED <<loop, bind, class>>
    BY <1>2, <1>4
  <2> QED
    BY <1>1, <1>2, <2>2, <2>3, RedirectKeeps
<1>5. CASE Target # old_ce /\ ~Bound(Target) /\ Fail
  <2>1. ignore_dups
    BY <1>1, <1>2, <1>5, FirstIsReady DEF Linking
  <2> QED
    BY <1>2, <1>5, <2>1, FailKeeps DEF Fail, Loading, IInv
<1> QED
  BY <1>3, <1>4, <1>5 DEF Rescope

LEMMA InheritStep ==
    ASSUME IInv, zend_update_inherited_handler
    PROVE  IInv' /\ SharedKept
<1>1. PICK c, n : Due(c, n) /\ c.function = "inherit"
  BY Starts DEF zend_update_inherited_handler
<1>2. /\ UNCHANGED <<bind, class>> /\ Target = TargetOf(c)
      /\ c.function \in Linking /\ c.function \notin Looping /\ phase \in Loading \cup {"loaded"}
  BY <1>1, DueFacts DEF zend_update_inherited_handler, Linking, Looping
<1>3. CASE Target = Null /\ Return /\ UNCHANGED loop
  BY <1>1, <1>2, <1>3, SafeFacts, ReturnKeeps
<1>4. CASE Bound(Target) /\ Redirect(bind[Target]) /\ UNCHANGED loop
  <2>1. PICK q, t : t = Target /\ q = bind[t]
    OBVIOUS
  <2>2. Redirect(q) /\ Safe(q)
    BY <1>1, <1>4, <2>1, BoundIsSafe
  <2>3. UNCHANGED <<loop, bind, class>>
    BY <1>2, <1>4
  <2> QED
    BY <1>1, <1>2, <2>2, <2>3, RedirectKeeps
<1>5. CASE Target # Null /\ ~Bound(Target) /\ Fail
  <2>1. ignore_dups
    BY <1>1, <1>2, <1>5, FirstIsReady DEF Linking
  <2> QED
    BY <1>2, <1>5, <2>1, FailKeeps DEF Fail, Loading, IInv
<1> QED
  BY <1>3, <1>4, <1>5 DEF zend_update_inherited_handler

-----------------------------------------------------------------------------
(* Tables: first the new arBuckets, and then bucket after bucket.          *)

LEMMA NoElements == Sequence(<<>>) /\ \A t : t.list = <<>> => Elements(t) = {}
BY NoCalls DEF Elements

LEMMA TableIs ==
    ASSUME NEW c, NEW n, Due(c, n), c.function = "table"
    PROVE  /\ HoldTable(mem[c.a], c.f, {ElementKind(c.f)}) /\ Target = mem[c.a].p[c.f]
           /\ c.f \in Tables(mem[c.a])
           /\ c.f = "function_table" => Held(c.a, c.f) = {mem[b].p.data : b \in Elements(Target)}
<1>1. Fits(c) /\ Target = mem[c.a].p[c.f]
  BY DueFacts DEF TargetOf
<1> QED
  BY <1>1 DEF Fits, Looping, Held

LEMMA EmptyTableStep ==
    ASSUME NEW c, NEW n, Due(c, n), c.function = "table", Target.ar = Null,
           Redirect([list |-> <<>>, ar |-> Null]), UNCHANGED <<loop, bind, class>>
    PROVE  IInv' /\ SharedKept
<1>1. PICK q : q = [list |-> <<>>, ar |-> Null]
  OBVIOUS
<1>2. Redirect(q) /\ UNCHANGED loop
  BY <1>1
<1>3. /\ Works(c, n, <<>>) /\ mem'[c.a].p[c.f] = q /\ n \notin DOMAIN mem'
  BY <1>2, RedirectWorks
<1>4. HoldTable(mem[c.a], c.f, {ElementKind(c.f)}) /\ c.f \in Tables(mem[c.a])
      /\ Target = mem[c.a].p[c.f]
  BY TableIs
<1>5. Tables(mem'[c.a]) = Tables(mem[c.a])
  BY <1>3, TablesAre DEF Works
<1>6. SafePlace(mem'[c.a], c.f)
  <2>1. {"list", "ar"} \subseteq DOMAIN q /\ q.list = <<>> /\ q.ar = Null
    BY <1>1
  <2> QED
    BY <2>1, <1>3, <1>4, <1>5, SafeFacts, NoElements DEF SafePlace
<1>7. Good(c, n, <<>>)
  BY <1>3, <1>6, NoCalls DEF Good
<1>8. Classes(c)
  BY SameBind, SameClasses
<1>9. WillBind(c) = {}
  <2>1. Elements(mem[c.a].p[c.f]) = {}
    BY <1>4, NoElements DEF HoldTable
  <2>2. Held(c.a, c.f) = {}
    BY <2>1 DEF Held
  <2> QED
    BY <2>2 DEF WillBind
<1>10. Binds(c, <<>>)
  BY <1>9, NoCalls, NothingBound
<1> QED
  BY <1>3, <1>7, <1>8, <1>10, StepKeeps DEF Step

LEMMA BucketFits ==
    ASSUME NEW c, NEW n, NEW parts, Due(c, n), Works(c, n, parts), c.function = "table",
           SafePlace(mem'[c.a], c.f), NEW b \in Elements(TargetOf(c)), UNCHANGED old_ce,
           NEW d, d.function = "bucket", d.a = c.a, d.f = c.f, d.b = b
    PROVE  /\ PartFits(c, n, d)
           /\ d.f = "function_table" /\ Marked(mem[b].p.data) => mem[b].p.data \in WillBind(d)'
<1>1. /\ SharedKept /\ Stored /\ c.a \in Requested' /\ mem'[c.a].kind = mem[c.a].kind
      /\ DOMAIN mem'[c.a].p = DOMAIN mem[c.a].p /\ InClass(c) /\ IInv /\ phase' = phase
      /\ c.f \in DOMAIN mem[c.a].p /\ calls # <<>> /\ calls[1] = c
  BY WorksKeeps, DueFacts DEF Works, loop, Due
<1>2. HoldTable(mem[c.a], c.f, {ElementKind(c.f)}) /\ c.f \in Tables(mem[c.a])
      /\ b \in Elements(mem[c.a].p[c.f])
  BY TableIs DEF TargetOf
<1>3. PICK ks, q : ks = {ElementKind(c.f)} /\ q = mem[b].p.data
  OBVIOUS
<1>4. b # Null /\ Points(b, {"bucket"}) /\ q # Null /\ Points(q, ks)
  BY <1>2, <1>3 DEF HoldTable
<1>5. Points(b, {"bucket"})' /\ Points(q, ks)' /\ mem'[b] = mem[b]
  BY <1>4, <1>1, PointsStays, PointsIs DEF SharedKept
<1>6. FitsBucket(d)'
  BY <1>3, <1>4, <1>5 DEF FitsBucket
<1>7. c.f \in Tables(mem'[c.a])
  BY <1>1, <1>2, TablesAre
<1>8. Fits(d)'
  BY <1>1, <1>6, <1>7 DEF Fits, Looping, Takes, Linking, Present
<1>9. PICK k : k = old_ce
  OBVIOUS
<1>10. OfClass(c.f) => phase = "load_classes" /\ q \in Held(k, c.f)
  BY <1>1, <1>2, <1>3, <1>9 DEF InClass, Looping, Held
<1>11. OfClass(c.f) => Held(k, c.f)' = Held(k, c.f)
  <2>1. SUFFICES ASSUME OfClass(c.f) PROVE Held(k, c.f)' = Held(k, c.f)
    OBVIOUS
  <2>2. k = ClassAt(at - 1)
    BY <2>1, <1>1, <1>9, <1>10 DEF IInv, RequestInv, Copying
  <2>3. k \in SharedMemory /\ mem[k].kind = "class"
    BY <2>1, <2>2, <1>1, <1>10, CopiedClass
  <2> QED
    BY <2>1, <2>3, <1>1, ClassHeldStays
<1>12. OfClass(d.f) => mem'[d.b].p.data \in Held(old_ce, d.f)'
  <2>1. old_ce' = k
    BY <1>9
  <2> QED
    BY <2>1, <1>3, <1>5, <1>10, <1>11
<1>13. InClass(d)'
  BY <1>1, <1>10, <1>12 DEF InClass, OfClass, Linking, Looping
<1>14. PartFits(c, n, d)
  BY <1>8, <1>13 DEF PartFits, For
<1>15. q \in SharedMemory /\ (Marked(q)' <=> Marked(q))
  BY <1>1, <1>4, PointsIs, MarkedStays
<1> QED
  BY <1>14, <1>15, <1>3, <1>5 DEF WillBind

LEMMA TableStep ==
    ASSUME IInv, CloneTable
    PROVE  IInv' /\ SharedKept
<1>1. PICK c, n : Due(c, n) /\ c.function = "table"
  BY Starts DEF CloneTable
<1>2. /\ UNCHANGED <<loop, bind, class>> /\ UNCHANGED loop /\ UNCHANGED old_ce
      /\ Stored /\ n = New /\ Safe(n) /\ Here = c.a /\ Place = c.f
      /\ Target = TargetOf(c)
  BY <1>1, DueFacts DEF CloneTable, class
<1>3. /\ HoldTable(mem[c.a], c.f, {ElementKind(c.f)}) /\ c.f \in Tables(mem[c.a])
      /\ Target = mem[c.a].p[c.f]
  BY <1>1, TableIs
<1>4. CASE Target.ar = Null
  BY <1>1, <1>2, <1>4, EmptyTableStep DEF CloneTable
<1>5. CASE Target.ar # Null
  <2>1. PICK list, obj, q, parts :
          /\ list = Target.list /\ obj = mem[Target.ar] /\ q = [list |-> <<>>, ar |-> n]
          /\ parts = [i \in DOMAIN list |-> [Invoke("bucket", c.a, c.f) EXCEPT !.b = list[i]]]
    OBVIOUS
  <2>2. emalloc(obj, q, parts)
    BY <1>2, <1>5, <2>1 DEF CloneTable
  <2>3. obj.kind = "buckets" /\ DOMAIN obj.p = {} /\ Fields \subseteq DOMAIN obj
    BY <1>2, <1>3, <1>5, <2>1, SharedIs DEF HoldTable, WellFormed
  <2>4. PICK l \in Nat : DOMAIN list = 1..l
    BY <1>3, <2>1 DEF HoldTable, IsArray
  <2>5. Sequence(parts) /\ DOMAIN parts = DOMAIN list
    <3>1. parts = [i \in 1..l |-> parts[i]]
      BY <2>1, <2>4
    <3> QED
      BY <3>1, <2>4, Counted
  <2>6. \A i \in DOMAIN parts : parts[i].function = "bucket" /\ parts[i].a = c.a
                                /\ parts[i].f = c.f /\ parts[i].b = list[i]
    BY <2>1, <2>5 DEF Invoke
  <2>7. Works(c, n, parts) /\ mem'[c.a].p[c.f] = q /\ n \in DOMAIN mem' /\ mem'[n] = obj
    BY <1>1, <1>2, <2>2, <2>3, <2>5, EmallocWorks
  <2>8. c.f \in Tables(mem'[c.a])
    BY <2>7, <1>3, TablesAre DEF Works
  <2>9. SafePlace(mem'[c.a], c.f)
    <3>1. {"list", "ar"} \subseteq DOMAIN q /\ q.list = <<>> /\ q.ar = n
      BY <2>1
    <3> QED
      BY <3>1, <2>7, <2>8, <1>2, NoElements DEF SafePlace
  <2>10. ASSUME NEW i \in DOMAIN parts
         PROVE  /\ PartFits(c, n, parts[i])
                /\ c.f = "function_table" /\ Marked(mem[list[i]].p.data) =>
                     mem[list[i]].p.data \in WillBind(parts[i])'
    <3>1. PICK d, b : d = parts[i] /\ b = list[i]
      OBVIOUS
    <3>2. b \in Elements(TargetOf(c)) /\ d.function = "bucket" /\ d.a = c.a /\ d.f = c.f /\ d.b = b
      BY <3>1, <2>1, <2>5, <2>6, <1>2 DEF Elements
    <3>3. PartFits(c, n, d)
          /\ (d.f = "function_table" /\ Marked(mem[b].p.data) => mem[b].p.data \in WillBind(d)')
      BY <3>2, <2>7, <2>9, <1>1, <1>2, BucketFits
    <3> QED
      BY <3>1, <3>2, <3>3
  <2>11. Owning(obj) /\ Owned(obj) = {}
    BY <2>3 DEF Owning, Owned, Tables
  <2>12. Good(c, n, parts)
    BY <2>6, <2>7, <2>9, <2>10, <2>11 DEF Good, BothBuckets
  <2>13. Classes(c)
    BY <1>1, <1>2, SameBind, SameClasses
  <2>14. ASSUME NEW x \in WillBind(c) PROVE \E i \in DOMAIN parts : x \in WillBind(parts[i])'
    <3>1. c.f = "function_table" /\ Marked(x) /\ x \in Held(c.a, c.f)
      BY <1>1, <2>14 DEF WillBind
    <3>2. PICK i \in DOMAIN list : x = mem[list[i]].p.data
      BY <3>1, <1>3, <2>1 DEF Held, Elements
    <3> QED
      BY <3>1, <3>2, <2>5, <2>10
  <2>15. Binds(c, parts)
    BY <2>6, <2>14 DEF Binds, Linking
  <2> QED
    BY <1>1, <2>7, <2>12, <2>13, <2>15, StepKeeps DEF Step
<1> QED
  BY <1>4, <1>5

LEMMA TwoParts ==
    ASSUME NEW g1, NEW f1, NEW g2, NEW f2, NEW n, n = New
    PROVE  LET s == Parts(<<<<g1, f1>>, <<g2, f2>>>>)
           IN  /\ Sequence(s) /\ DOMAIN s = {1, 2}
               /\ s[1].function = g1 /\ s[1].a = n /\ s[1].f = f1
               /\ s[2].function = g2 /\ s[2].a = n /\ s[2].f = f2
<1> DEFINE places == <<<<g1, f1>>, <<g2, f2>>>>
<1>1. PICK k \in Nat : k = 2
  OBVIOUS
<1>2. /\ places \in Seq({<<g1, f1>>, <<g2, f2>>}) /\ Len(places) = 2
      /\ places[1] = <<g1, f1>> /\ places[2] = <<g2, f2>>
  OBVIOUS
<1> HIDE DEF places
<1>3. Sequence(places) /\ Len(places) = k
  BY <1>1, <1>2, AnySequence
<1>4. /\ Sequence(Parts(places)) /\ DOMAIN Parts(places) = 1..k
      /\ \A i \in 1..k : /\ Parts(places)[i].a = New /\ Parts(places)[i].f = places[i][2]
                         /\ Parts(places)[i].function = places[i][1]
  BY <1>3, PartsIs
<1>5. 1..k = {1, 2}
  BY <1>1
<1> HIDE DEF New
<1> QED
  BY <1>2, <1>4, <1>5 DEF places

LEMMA Longer ==
    ASSUME NEW t, NEW e, {"list", "ar"} \subseteq DOMAIN t, Sequence(t.list)
    PROVE  LET q == [t EXCEPT !.list = Append(@, e)]
           IN  /\ {"list", "ar"} \subseteq DOMAIN q /\ Sequence(q.list) /\ q.ar = t.ar
               /\ Elements(q) \subseteq Elements(t) \cup {e}
<1>1. PICK s, S : s = t.list /\ S = {s[i] : i \in DOMAIN s} \cup {e}
  OBVIOUS
<1>2. s \in Seq(S) /\ e \in S
  BY <1>1 DEF Sequence
<1>3. PICK r : r = Append(s, e)
  OBVIOUS
<1>4. r \in Seq(S) /\ Len(r) = Len(s) + 1 /\ \A i \in 1..Len(s) : r[i] = s[i]
  BY <1>2, <1>3, AppendProperties
<1>5. r[Len(s) + 1] = e
  BY <1>2, <1>3, AppendProperties
<1>6. Sequence(r) /\ DOMAIN r = 1..Len(r) /\ DOMAIN s = 1..Len(s) /\ Len(s) \in Nat
  BY <1>2, <1>4, AnySequence
<1>7. \A i \in DOMAIN r : r[i] = e \/ (i \in DOMAIN s /\ r[i] = s[i])
  BY <1>4, <1>5, <1>6
<1>8. PICK q : q = [t EXCEPT !.list = Append(@, e)]
  OBVIOUS
<1>9. DOMAIN q = DOMAIN t /\ q.list = r /\ q.ar = t.ar
  BY <1>1, <1>3, <1>8
<1>10. Elements(q) \subseteq Elements(t) \cup {e}
  BY <1>1, <1>7, <1>9 DEF Elements
<1> QED
  BY <1>6, <1>8, <1>9, <1>10

LEMMA BucketStep ==
    ASSUME IInv, CloneBucket
    PROVE  IInv' /\ SharedKept
<1>1. PICK c, n : Due(c, n) /\ c.function = "bucket"
  BY Starts DEF CloneBucket
<1>2. /\ UNCHANGED <<loop, bind, class>> /\ UNCHANGED loop /\ UNCHANGED class
      /\ Stored /\ n = New /\ Safe(n) /\ Here = c.a /\ Place = c.f /\ Head(calls) = c
      /\ Target = mem[c.a].p[c.f] /\ Fits(c) /\ InClass(c)
  BY <1>1, DueFacts DEF CloneBucket, TargetOf
<1>3. PICK b, obj, x, g, q, parts :
        /\ b = c.b /\ obj = mem[b] /\ x = obj.p.data /\ g = ElementFunction
        /\ q = [Target EXCEPT !.list = Append(@, n)]
        /\ parts = Parts(<<<<"string", "key">>, <<g, "data">>>>)
  OBVIOUS
<1>4. emalloc(obj, q, parts)
  BY <1>2, <1>3 DEF CloneBucket
<1>5. /\ SafePlace(mem[c.a], c.f) /\ b # Null /\ Points(b, {"bucket"})
      /\ x # Null /\ Points(x, {ElementKind(c.f)}) /\ c.f \in Tables(mem[c.a])
  BY <1>1, <1>2, <1>3 DEF Fits, FitsBucket, Looping
<1>6. obj.kind = "bucket" /\ WellFormed(obj) /\ Fields \subseteq DOMAIN obj
  BY <1>2, <1>3, <1>5, SharedIs
<1>7. DOMAIN obj.p = {"key", "data"} /\ Points(obj.p.key, {"str"})
  BY <1>6 DEF WellFormed, Hold
<1>8. Tables(obj) = {} /\ Owned(obj) = {"key", "data"} /\ Owning(obj)
  BY <1>6, <1>7 DEF Tables, Owned, Owning
<1>9. /\ Sequence(parts) /\ DOMAIN parts = {1, 2}
      /\ parts[1].function = "string" /\ parts[1].a = n /\ parts[1].f = "key"
      /\ parts[2].function = g /\ parts[2].a = n /\ parts[2].f = "data"
  BY <1>2, <1>3, TwoParts
<1>10. Works(c, n, parts) /\ mem'[c.a].p[c.f] = q /\ n \in DOMAIN mem' /\ mem'[n] = obj
  BY <1>1, <1>2, <1>4, <1>6, <1>9, EmallocWorks
<1>11. SafePlace(mem'[c.a], c.f)
  <2>1. /\ {"list", "ar"} \subseteq DOMAIN Target /\ Sequence(Target.list) /\ Safe(Target.ar)
        /\ \A e \in Elements(Target) : Safe(e)
    BY <1>2, <1>5 DEF SafePlace
  <2>2. PICK t : t = Target
    OBVIOUS
  <2>3. /\ {"list", "ar"} \subseteq DOMAIN q /\ Sequence(q.list) /\ q.ar = t.ar
        /\ Elements(q) \subseteq Elements(t) \cup {n}
    BY <2>1, <2>2, <1>3, Longer
  <2>4. c.f \in Tables(mem'[c.a])
    BY <1>5, <1>10, TablesAre DEF Works
  <2> QED
    BY <2>1, <2>2, <2>3, <2>4, <1>2, <1>10 DEF SafePlace
<1>12. /\ c.f = "function_table" => g = "method"
       /\ c.f = "properties_info" => g = "property"
       /\ ~OfClass(c.f) => g = "zval"
       /\ g \in {"method", "property", "zval"} /\ g \in DOMAIN Takes /\ Takes[g] = {ElementKind(c.f)}
  BY <1>2, <1>3 DEF ElementFunction, OfClass, Takes, ElementKind
<1>13. /\ "string" \in DOMAIN Takes /\ Takes["string"] = {"str"} /\ "table" \notin DOMAIN Takes
  BY DEF Takes
<1>14. PlaceFits(obj, "string", "key") /\ PlaceFits(obj, g, "data")
  BY <1>3, <1>5, <1>7, <1>8, <1>12, <1>13 DEF PlaceFits, Present
<1>15. InClass(parts[1])'
  <2>1. PICK d : d = parts[1]
    OBVIOUS
  <2>2. Plain(d)
    BY <2>1, <1>9 DEF Plain, Linking
  <2>3. InClass(d)'
    BY <2>2, PlainInClass
  <2> QED
    BY <2>1, <2>3
<1>16. SharedKept /\ phase' = phase /\ IInv /\ calls # <<>> /\ calls[1] = c
  BY <1>1, <1>2, <1>10, WorksKeeps DEF loop, Due
<1>17. InClass(parts[2])'
  <2>1. PICK d, k : d = parts[2] /\ k = old_ce
    OBVIOUS
  <2>2. TargetOf(d)' = x /\ old_ce' = k /\ d.function = g
    BY <2>1, <1>2, <1>3, <1>9, <1>10 DEF TargetOf, class
  <2>3. CASE OfClass(c.f)
    <3>1. phase = "load_classes" /\ x \in Held(k, c.f)
      BY <2>1, <2>3, <1>1, <1>2, <1>3 DEF InClass, Looping
    <3>2. k = ClassAt(at - 1)
      BY <3>1, <2>1, <1>1, <1>16 DEF IInv, RequestInv, Copying
    <3>3. k \in SharedMemory /\ mem[k].kind = "class"
      BY <3>1, <3>2, <1>16, CopiedClass
    <3>4. Held(k, c.f)' = Held(k, c.f)
      BY <2>3, <3>3, <1>2, <1>16, ClassHeldStays
    <3>5. InClass(d)'
      BY <2>2, <2>3, <3>1, <3>4, <1>12, <1>16 DEF InClass, OfClass, Linking, Looping
    <3> QED
      BY <2>1, <3>5
  <2>4. CASE ~OfClass(c.f)
    <3>1. Plain(d)
      BY <2>2, <2>4, <1>12 DEF Plain, Linking
    <3>2. InClass(d)'
      BY <3>1, PlainInClass
    <3> QED
      BY <2>1, <3>2
  <2> QED
    BY <2>3, <2>4
<1>18. ASSUME NEW i \in DOMAIN parts PROVE PartFits(c, n, parts[i])
  <2>1. PICK d : d = parts[i]
    OBVIOUS
  <2>2. d.a = n /\ PlaceFits(obj, d.function, d.f) /\ d.function \notin {"class", "bucket"}
    BY <2>1, <1>9, <1>12, <1>14
  <2>3. Fits(d)'
    BY <2>2, <1>1, <1>10, NewFits
  <2>4. InClass(d)'
    <3>1. CASE i = 1
      BY <3>1, <2>1, <1>15
    <3>2. CASE i = 2
      BY <3>2, <2>1, <1>17
    <3> QED
      BY <3>1, <3>2, <1>9
  <2> QED
    BY <2>1, <2>2, <2>3, <2>4 DEF PartFits
<1>19. Good(c, n, parts)
  BY <1>8, <1>9, <1>10, <1>11, <1>12, <1>18 DEF Good, For
<1>20. Classes(c)
  BY <1>1, <1>2, SameBind, SameClasses
<1>21. WillBind(c) \subseteq WillBind(parts[2])'
  <2>1. SUFFICES ASSUME NEW y \in WillBind(c) PROVE y \in WillBind(parts[2])'
    OBVIOUS
  <2>2. c.f = "function_table" /\ y = x /\ Marked(x)
    BY <2>1, <1>1, <1>3 DEF WillBind
  <2>3. Marked(x)'
    BY <2>2, <1>5, <1>16, PointsIs, MarkedStays
  <2>4. PICK d : d = parts[2]
    OBVIOUS
  <2>5. d.function = "method" /\ TargetOf(d)' = x
    BY <2>2, <2>4, <1>3, <1>9, <1>10, <1>12 DEF TargetOf
  <2>6. x \in WillBind(d)'
    BY <2>3, <2>5 DEF WillBind
  <2> QED
    BY <2>2, <2>4, <2>6
<1>22. Binds(c, parts)
  BY <1>9, <1>12, <1>21 DEF Binds, Linking
<1> QED
  BY <1>1, <1>10, <1>19, <1>20, <1>22, StepKeeps DEF Step

-----------------------------------------------------------------------------
(* A class.                                                                *)

LEMMA ClassPartsAre ==
    /\ Sequence(ClassParts) /\ Len(ClassParts) = 11
    /\ ClassParts[1] = <<"members", "default_properties_table">>
    /\ ClassParts[2] = <<"table", "function_table">>
    /\ ClassParts[3] = <<"members", "default_static_members_table">>
    /\ ClassParts[4] = <<"table", "properties_info">>
    /\ ClassParts[5] = <<"table", "constants_table">>
    /\ ClassParts[6] = <<"string", "name">> /\ ClassParts[7] = <<"comment", "doc_comment">>
    /\ ClassParts[8] = <<"inherit", "parent">> /\ ClassParts[9] = <<"inherit", "constructor">>
    /\ ClassParts[10] = <<"inherit", "destructor">> /\ ClassParts[11] = <<"rules", "trait_rules">>
<1>1. /\ ClassParts[1] = <<"members", "default_properties_table">>
      /\ ClassParts[2] = <<"table", "function_table">>
      /\ ClassParts[3] = <<"members", "default_static_members_table">>
      /\ ClassParts[4] = <<"table", "properties_info">>
      /\ ClassParts[5] = <<"table", "constants_table">>
      /\ ClassParts[6] = <<"string", "name">> /\ ClassParts[7] = <<"comment", "doc_comment">>
      /\ ClassParts[8] = <<"inherit", "parent">> /\ ClassParts[9] = <<"inherit", "constructor">>
      /\ ClassParts[10] = <<"inherit", "destructor">> /\ ClassParts[11] = <<"rules", "trait_rules">>
  BY DEF ClassParts
<1>2. Len(ClassParts) = 11
  BY DEF ClassParts
<1>3. ClassParts = [i \in 1..11 |-> ClassParts[i]]
  BY DEF ClassParts
<1>4. Sequence(ClassParts)
  BY <1>3, Counted
<1> QED
  BY <1>1, <1>2, <1>4

LEMMA ClassPlacesAre ==
    ClassPlaces = {"default_properties_table", "function_table", "default_static_members_table",
                   "properties_info", "constants_table", "name", "doc_comment", "parent",
                   "constructor", "destructor", "trait_rules", "filename", "interfaces"}
<1>1. DOMAIN ClassParts = 1..11
  BY ClassPartsAre, AnySequence DEF Sequence
<1>2. 1..11 = {1, 2, 3, 4, 5, 6, 7, 8, 9, 10, 11}
  OBVIOUS
<1>3. {ClassParts[i][2] : i \in DOMAIN ClassParts} =
        {ClassParts[1][2], ClassParts[2][2], ClassParts[3][2], ClassParts[4][2], ClassParts[5][2],
         ClassParts[6][2], ClassParts[7][2], ClassParts[8][2], ClassParts[9][2],
         ClassParts[10][2], ClassParts[11][2]}
  BY <1>1, <1>2
<1> QED
  BY <1>3, ClassPartsAre DEF ClassPlaces

\* The parts of a class that is copied to n.
LEMMA PartsOfClass ==
    ASSUME NEW n, n = New
    PROVE  LET s == Parts(ClassParts)
           IN  /\ Sequence(s) /\ DOMAIN s = 1..11
               /\ \A i \in 1..11 : s[i].a = n /\ s[i].function = ClassParts[i][1]
                                   /\ s[i].f = ClassParts[i][2]
<1>1. PICK k \in Nat : k = 11
  OBVIOUS
<1>2. PICK places : places = ClassParts
  OBVIOUS
<1>3. Sequence(places) /\ Len(places) = k
  BY <1>1, <1>2, ClassPartsAre
<1>4. /\ Sequence(Parts(places)) /\ DOMAIN Parts(places) = 1..k
      /\ \A i \in 1..k : /\ Parts(places)[i].a = New /\ Parts(places)[i].f = places[i][2]
                         /\ Parts(places)[i].function = places[i][1]
  BY <1>3, PartsIs
<1> HIDE DEF New
<1> QED
  BY <1>1, <1>2, <1>4

LEMMA ClassCovered ==
    ASSUME Stored, NEW k \in SharedMemory, mem[k].kind = "class", NEW n, n = New,
           NEW obj, obj = [mem[k] EXCEPT !.n = 1, !.p.interfaces = Null]
    PROVE  /\ Covered(obj, Parts(ClassParts))
           /\ \A f \in {"function_table", "properties_info", "parent", "constructor",
                        "destructor"} : obj.p[f] = mem[k].p[f]
<1>1. WellFormed(mem[k]) /\ DOMAIN mem[k].p = ClassPlaces /\ Fields \subseteq DOMAIN mem[k]
  BY ClassIs DEF Stored, Fields
<1>2. "n" \in DOMAIN mem[k] /\ "p" \in DOMAIN mem[k] /\ "kind" \in DOMAIN mem[k]
  BY <1>1, FieldsAre
<1>3. /\ DOMAIN obj = DOMAIN mem[k] /\ obj.kind = "class" /\ DOMAIN obj.p = ClassPlaces
      /\ \A f \in ClassPlaces \ {"interfaces"} : obj.p[f] = mem[k].p[f]
      /\ obj.p.interfaces = Null
  BY <1>1, <1>2, ClassPlacesAre
<1>4. /\ Points(obj.p.name, {"str"}) /\ Points(obj.p.doc_comment, {"str"})
      /\ Points(obj.p.trait_rules, {"rule", "str"})
      /\ Points(obj.p.default_properties_table, {"table"})
      /\ Points(obj.p.default_static_members_table, {"table"})
  BY <1>1, <1>3, ClassPlacesAre DEF WellFormed, Hold, Points
<1>5. /\ HoldTable(obj, "function_table", {"op_array"})
      /\ HoldTable(obj, "properties_info", {"prop"})
      /\ HoldTable(obj, "constants_table", {"zval"})
  BY <1>1, <1>3, ClassPlacesAre DEF WellFormed, HoldTable
<1>6. /\ Tables(obj) = {"function_table", "constants_table", "properties_info"}
      /\ Owned(obj) = ClassPlaces \ {"filename"} /\ Owning(obj)
  BY <1>3, ClassPlacesAre DEF Tables, Owned, Owning
<1>7. /\ {"members", "string", "comment", "rules"} \subseteq DOMAIN Takes
      /\ Takes["members"] = {"table"} /\ Takes["string"] = {"str"} /\ Takes["comment"] = {"str"}
      /\ Takes["rules"] = {"rule", "str"} /\ "table" \notin DOMAIN Takes
      /\ "inherit" \notin DOMAIN Takes
  BY DEF Takes
<1>8. /\ ElementKind("function_table") = "op_array" /\ ElementKind("properties_info") = "prop"
      /\ ElementKind("constants_table") = "zval"
  BY DEF ElementKind
<1>9. /\ PlaceFits(obj, "members", "default_properties_table")
      /\ PlaceFits(obj, "members", "default_static_members_table")
      /\ PlaceFits(obj, "string", "name") /\ PlaceFits(obj, "comment", "doc_comment")
      /\ PlaceFits(obj, "rules", "trait_rules")
  BY <1>3, <1>4, <1>6, <1>7, ClassPlacesAre DEF PlaceFits, Present
<1>10. /\ PlaceFits(obj, "table", "function_table") /\ PlaceFits(obj, "table", "properties_info")
       /\ PlaceFits(obj, "table", "constants_table")
  BY <1>3, <1>5, <1>6, <1>7, <1>8, ClassPlacesAre DEF PlaceFits, Present
<1>11. /\ PlaceFits(obj, "inherit", "parent") /\ PlaceFits(obj, "inherit", "constructor")
       /\ PlaceFits(obj, "inherit", "destructor")
  BY <1>3, <1>6, <1>7, ClassPlacesAre DEF PlaceFits, Present, Linking
<1>12. PICK parts : parts = Parts(ClassParts)
  OBVIOUS
<1>13. /\ Sequence(parts) /\ DOMAIN parts = 1..11
       /\ \A i \in 1..11 : parts[i].a = n /\ parts[i].function = ClassParts[i][1]
                           /\ parts[i].f = ClassParts[i][2]
  BY <1>12, PartsOfClass
<1>14. 1..11 = {1, 2, 3, 4, 5, 6, 7, 8, 9, 10, 11}
  OBVIOUS
<1>15. \A i \in 1..11 : PlaceFits(obj, parts[i].function, parts[i].f)
  BY <1>9, <1>10, <1>11, <1>13, <1>14, ClassPartsAre
<1>16. \A i, j \in 1..11 : i # j => parts[i].f # parts[j].f
  BY <1>13, <1>14, ClassPartsAre
<1>17. SafePlace(obj, "interfaces")
  BY <1>3, <1>6, SafeFacts DEF SafePlace
<1>18. \A f \in Owned(obj) : f = "interfaces" \/ \E i \in 1..11 : parts[i].f = f
  BY <1>6, <1>13, <1>14, ClassPartsAre, ClassPlacesAre
<1>19. Covered(obj, parts)
  BY <1>1, <1>3, <1>6, <1>13, <1>15, <1>16, <1>17, <1>18 DEF Covered
<1> QED
  BY <1>3, <1>12, <1>19, ClassPlacesAre

LEMMA ClassStep ==
    ASSUME IInv, zend_class_copy_ctor
    PROVE  IInv' /\ SharedKept
<1>1. PICK c, n : Due(c, n) /\ c.function = "class"
  BY Starts DEF zend_class_copy_ctor
<1>2. /\ UNCHANGED loop /\ Stored /\ n = New /\ ~Shared(n) /\ Fits(c) /\ InClass(c) /\ RequestInv
      /\ Target = TargetOf(c) /\ 1 \in DOMAIN calls /\ calls[1] = c
      /\ old_ce' = Target /\ ce' = New
  BY <1>1, DueFacts DEF zend_class_copy_ctor, Due
<1>3. phase = "load_classes" /\ phase' = phase /\ DOMAIN calls = {1} /\ c.function \notin Looping
  BY <1>1, <1>2 DEF InClass, loop, Looping
<1>4. PICK i, k, obj, parts :
        /\ i = at - 1 /\ k = Target /\ parts = Parts(ClassParts)
        /\ obj = [mem[k] EXCEPT !.n = 1, !.p.interfaces = Null]
  OBVIOUS
<1>5. /\ i \in DOMAIN List("class_table") /\ k \in SharedMemory /\ mem[k].kind = "class"
      /\ k = ClassAt(i)
      /\ \A q \in Before(i) \cup Registered(k) :
           \E j \in 1..(at - 1) : q \in Registered(ClassAt(j))
  <2>1. ClassAt(i) = k
    BY <1>1, <1>2, <1>4 DEF InClass
  <2> QED
    BY <2>1, <1>1, <1>3, <1>4, Current
<1>6. /\ Covered(obj, parts)
      /\ \A f \in {"function_table", "properties_info", "parent", "constructor",
                   "destructor"} : obj.p[f] = mem[k].p[f]
  BY <1>2, <1>4, <1>5, ClassCovered
<1>7. Clone(obj, parts)
  BY <1>4 DEF zend_class_copy_ctor
<1>8. Works(c, n, parts) /\ n \in DOMAIN mem' /\ mem'[n] = obj
  BY <1>1, <1>2, <1>6, <1>7, CopyWorks
<1>9. SharedKept /\ mem'[k] = mem[k]
  BY <1>1, <1>5, <1>8, WorksKeeps
<1>10. /\ Sequence(parts) /\ DOMAIN parts = 1..11
       /\ \A m \in 1..11 : parts[m].a = n /\ parts[m].function = ClassParts[m][1]
                           /\ parts[m].f = ClassParts[m][2]
  BY <1>2, <1>4, PartsOfClass
<1>11. 1..11 = {1, 2, 3, 4, 5, 6, 7, 8, 9, 10, 11}
  OBVIOUS
<1>12. \A f \in {"function_table", "properties_info"} : Held(n, f)' = Held(k, f)'
  BY <1>6, <1>8, <1>9 DEF Held
<1>13. old_ce' = k
  BY <1>2, <1>4
<1>14. ASSUME NEW m \in DOMAIN parts PROVE parts[m].a = n /\ InClass(parts[m])'
  <2>1. PICK d : d = parts[m]
    OBVIOUS
  <2>2. CASE m \in {2, 4}
    <3>1. d.function = "table" /\ d.a = n /\ d.f \in {"function_table", "properties_info"}
      BY <1>10, <2>1, <2>2, <1>11, ClassPartsAre
    <3>2. Held(d.a, d.f)' \subseteq Held(old_ce, d.f)'
      BY <3>1, <1>12, <1>13
    <3>3. InClass(d)'
      BY <3>1, <3>2, <1>3 DEF InClass, Linking, Looping
    <3> QED
      BY <3>3, <2>1, <1>10
  <2>3. CASE m \in {8, 9, 10}
    <3>1. d.function = "inherit"
      BY <1>10, <2>1, <2>3, <1>11, ClassPartsAre
    <3>2. InClass(d)'
      BY <3>1, <1>3 DEF InClass, Linking, Looping
    <3> QED
      BY <3>2, <2>1, <1>10
  <2>4. CASE m \in {1, 3, 5, 6, 7, 11}
    <3>1. d.function \in {"members", "string", "comment", "rules"}
          \/ (d.function = "table" /\ d.f = "constants_table")
      BY <1>10, <2>1, <2>4, <1>11, ClassPartsAre
    <3>2. Plain(d)
      BY <3>1 DEF Plain, Linking, OfClass
    <3>3. InClass(d)'
      BY <3>2, PlainInClass
    <3> QED
      BY <3>3, <2>1, <1>10
  <2> QED
    BY <1>10, <1>11, <2>2, <2>3, <2>4
<1>15. Good(c, n, parts)
  BY <1>1, <1>2, <1>3, <1>6, <1>7, <1>14, CopyGood
<1>16. /\ DOMAIN bind \subseteq DOMAIN bind' /\ (\A x \in DOMAIN bind' : ~Shared(bind'[x]))
       /\ mem[k].n # 1 => k \in DOMAIN bind'
  BY <1>2, <1>4 DEF zend_class_copy_ctor, accel_xlat_set, With, RequestInv
<1>17. Classes(c)
  BY <1>1, <1>2, <1>16 DEF Classes
<1>18. WillBind(c) = Registered(k)
  BY <1>1, <1>2, <1>4 DEF WillBind, Registered
<1>19. ASSUME NEW q \in WillBind(c) PROVE Bound(q)' \/ q \in WillBind(parts[2])'
  <2>1. q \in SharedMemory /\ Marked(q) /\ (q = k \/ q \in Held(k, "function_table"))
    BY <1>2, <1>5, <1>18, <1>19, RegisteredIs
  <2>2. CASE q = k
    BY <2>1, <2>2, <1>5, <1>16 DEF Marked, Bound
  <2>3. CASE q \in Held(k, "function_table")
    <3>1. Held(k, "function_table")' = Held(k, "function_table") /\ (Marked(q)' <=> Marked(q))
      BY <2>1, <1>2, <1>5, <1>9, ClassHeldStays, MarkedStays DEF OfClass
    <3>2. PICK d : d = parts[2]
      OBVIOUS
    <3>3. d.function = "table" /\ d.a = n /\ d.f = "function_table"
      BY <3>2, <1>10, <1>11, ClassPartsAre
    <3>4. q \in WillBind(d)'
      BY <2>1, <2>3, <3>1, <3>3, <1>12 DEF WillBind
    <3> QED
      BY <3>2, <3>4
  <2> QED
    BY <2>1, <2>2, <2>3
<1>20. ASSUME ~ignore_dups, NEW q \in Before(i) \cup Registered(k)
       PROVE  Bound(q)' \/ q \in WillBind(parts[2])'
  <2>1. PICK j \in 1..(at - 1) : q \in Registered(ClassAt(j))
    BY <1>5, <1>20
  <2>2. Bound(q) \/ q \in WillBind(c)
    BY <2>1, <1>2, <1>3, <1>20 DEF RequestInv, Registering
  <2>3. Bound(q) => Bound(q)'
    BY <1>16 DEF Bound
  <2> QED
    BY <2>2, <2>3, <1>19
<1>21. ASSUME ~ignore_dups, NEW m \in DOMAIN parts, parts[m].function \in Linking
       PROVE  PartReady(parts, m)
  <2>1. PICK d, q : d = parts[m] /\ q = obj.p[d.f]
    OBVIOUS
  <2>2. m \in {8, 9, 10}
    BY <1>10, <1>11, <1>21, ClassPartsAre DEF Linking
  <2>3. d.function = "inherit" /\ d.a = n /\ d.f \in {"parent", "constructor", "destructor"}
    BY <2>1, <2>2, <1>10, <1>11, ClassPartsAre
  <2>4. q = mem[k].p[d.f]
    BY <2>1, <2>3, <1>6
  <2>5. q = Null \/ q \in Before(i) \cup Registered(k)
    BY <2>3, <2>4, <1>2, <1>5, LinkedIs
  <2>6. TargetOf(d)' = q
    BY <2>1, <2>3, <1>8 DEF TargetOf
  <2>7. q = Null \/ Bound(q)' \/ q \in WillBind(parts[2])'
    BY <2>5, <1>20, <1>21
  <2>8. 2 \in DOMAIN parts /\ 2 < m
    BY <2>2, <1>10, <1>11
  <2> QED
    BY <2>1, <2>3, <2>6, <2>7, <2>8 DEF PartReady
<1>22. 2 \in DOMAIN parts
  BY <1>10, <1>11
<1>23. Binds(c, parts)
  BY <1>19, <1>21, <1>22 DEF Binds
<1> QED
  BY <1>1, <1>8, <1>15, <1>17, <1>23, StepKeeps DEF Step

LEMMA CloningStep ==
    ASSUME IInv, Cloning
    PROVE  IInv' /\ SharedKept
BY StringStep, CommentStep, ZvalStep, MembersStep, RulesStep, ArrayStep, TableStep, BucketStep,
   FunctionStep, MethodStep, PropertyStep, RescopeStep, InheritStep, ClassStep DEF Cloning

-----------------------------------------------------------------------------
(* zend_accel_load_script: when nothing is due, t is the one object of the *)
(* request that changes, and at most one call becomes due for it.          *)

LEMMA Quiet ==
    ASSUME IInv, phase \in Loading \cup {"loaded"}, calls = <<>>
    PROVE  /\ Stored /\ RequestInv /\ DOMAIN calls = {} /\ at \in Nat \ {0} /\ ~Shared(ce)
           /\ \A a \in Requested : Owning(mem[a]) /\ \A f \in Owned(mem[a]) : SafePlace(mem[a], f)
           /\ IsArray(List("class_table"))
<1>1. Stored /\ RequestInv /\ DOMAIN calls = {} /\ at \in Nat \ {0} /\ ~Shared(ce) /\ ~Broken
  BY NoCalls DEF IInv, Loading, Broken
<1>2. \A a \in Requested : Owning(mem[a]) /\ \A f \in Owned(mem[a]) : SafePlace(mem[a], f)
  BY <1>1 DEF RequestInv, Owns, Pending
<1>3. IsArray(List("class_table"))
  BY <1>1 DEF Stored, HoldTable, List
<1> QED
  BY <1>1, <1>2, <1>3

Changes(t) ==
    /\ t \in CGTables \cup {CG("main")}
    /\ DOMAIN mem \subseteq DOMAIN mem' /\ DOMAIN mem' = DOMAIN mem \cup {t}
    /\ \A a \in DOMAIN mem \ {t} : mem'[a] = mem[a]
    /\ Fields \subseteq DOMAIN mem'[t] /\ Owning(mem'[t])
    /\ t \in CGTables => mem'[t].kind = "request"
    /\ UNCHANGED <<script, allocated, class>> /\ (bind' = bind \/ bind' = Empty)

LEMMA ChangesKeeps ==
    ASSUME NEW t, Changes(t)
    PROVE  /\ SharedKept /\ ~Shared(t) /\ Requested' = Requested \cup {t}
           /\ t \in Requested' /\ \A k : <<"req", k>> # t
<1>1. ~Shared(t) /\ \A k : <<"req", k>> # t
  <2>1. PICK x : t = <<"CG", x>>
    BY DEF Changes, CGTables, CG
  <2>2. t[1] = "CG" /\ \A k : <<"req", k>>[1] = "req"
    BY <2>1
  <2>3. \A k : <<"req", k>> # t
    BY <2>2
  <2> QED
    BY <2>1, <2>3, RequestIsOwn
<1>2. SharedKept
  BY <1>1 DEF SharedKept, SharedMemory, Changes
<1> QED
  BY <1>1, <1>2 DEF Requested, SharedMemory, Changes

LEMMA ChangeKeeps ==
    ASSUME IInv, phase \in Loading \cup {"loaded"}, calls = <<>>, NEW t, Changes(t),
           phase' \in Loading \cup {"loaded"}, at' \in Nat \ {0},
           Sequence(calls'), DOMAIN calls' \subseteq {1},
           \A i \in DOMAIN calls' : /\ Fits(calls[i])' /\ InClass(calls[i])'
                                    /\ calls'[i].function \notin Linking,
           \A f \in Owned(mem'[t]) : SafePlace(mem'[t], f) \/ Pending(t, f)',
           Copying', Registering', Reached'
    PROVE  IInv' /\ SharedKept
<1>1. /\ SharedKept /\ ~Shared(t) /\ Requested' = Requested \cup {t}
      /\ t \in Requested' /\ \A k : <<"req", k>> # t
  BY ChangesKeeps
<1>2. Stored /\ RequestInv /\ ~Shared(ce)
      /\ \A a \in Requested : Owning(mem[a]) /\ \A f \in Owned(mem[a]) : SafePlace(mem[a], f)
  BY Quiet
<1>3. Stored'
  BY <1>1, <1>2, StoredStays
<1>4. Owns'
  <2>1. ASSUME NEW a \in Requested', a # t
        PROVE  Owning(mem'[a]) /\ \A f \in Owned(mem'[a]) : SafePlace(mem'[a], f)
    <3>1. a \in Requested /\ mem'[a] = mem[a]
      BY <2>1, <1>1 DEF Changes, Requested
    <3> QED
      BY <3>1, <1>2
  <2>2. Owning(mem'[t])
    BY DEF Changes
  <2> QED
    BY <2>1, <2>2 DEF Owns
<1>5. Distinct' /\ AllReady'
  BY DEF Distinct, AllReady
<1>6. /\ \A a \in DOMAIN mem' : Fields \subseteq DOMAIN mem'[a]
      /\ allocated' \in Nat /\ \A k \in Nat : k > allocated' => <<"req", k>> \notin DOMAIN mem'
      /\ \A a \in CGTables : a \in DOMAIN mem' /\ mem'[a].kind = "request"
  BY <1>1, <1>2 DEF Changes, RequestInv
<1>7. \A q \in DOMAIN bind' : ~Shared(bind'[q])
  BY <1>2 DEF Changes, RequestInv, Empty
<1>8. RequestInv'
  BY <1>4, <1>5, <1>6, <1>7 DEF RequestInv
<1>9. ~Shared(ce)' /\ phase' \notin {"stored", "failed"}
      /\ phase' \in {"stored"} \cup Loading \cup Ended
  BY <1>2 DEF Changes, class, Loading, Ended
<1> QED
  BY <1>1, <1>3, <1>8, <1>9 DEF IInv

\* Nothing of the request's tables changes.
LEMMA UnchangedKeeps ==
    ASSUME IInv, phase \in Loading \cup {"loaded"}, calls = <<>>, NEW t, t = CG("class_table"),
           DOMAIN mem' = DOMAIN mem, \A a \in DOMAIN mem \ {t} : mem'[a] = mem[a],
           mem'[t].kind = mem[t].kind, mem'[t].p = mem[t].p, DOMAIN mem'[t] = DOMAIN mem[t],
           UNCHANGED <<script, allocated, class, calls>>, bind' = bind \/ bind' = Empty,
           phase' \in Loading \cup {"loaded"}, at' \in Nat \ {0}, Registering', Reached'
    PROVE  IInv' /\ SharedKept
<1>1. RequestInv /\ DOMAIN calls = {}
      /\ \A a \in Requested : Owning(mem[a]) /\ \A f \in Owned(mem[a]) : SafePlace(mem[a], f)
  BY Quiet
<1>2. t \in CGTables /\ t \in DOMAIN mem /\ ~Shared(t) /\ mem[t].kind = "request"
      /\ Fields \subseteq DOMAIN mem[t]
  BY <1>1, RequestIsOwn DEF RequestInv, CGTables, CG
<1>3. t \in Requested
  BY <1>2 DEF Requested, SharedMemory
<1>4. Owned(mem'[t]) = Owned(mem[t]) /\ Owning(mem'[t])
  BY <1>1, <1>3, TablesAre
<1>5. \A f \in Owned(mem'[t]) : SafePlace(mem'[t], f)
  BY <1>1, <1>3, <1>4, SafePlaceIs
<1>6. Changes(t)
  BY <1>2, <1>4 DEF Changes, class
<1>7. Sequence(calls') /\ DOMAIN calls' = {} /\ Copying'
  BY NoCalls DEF Copying
<1> QED
  BY <1>5, <1>6, <1>7, ChangeKeeps

LEMMA RequestStep ==
    ASSUME IInv, NEW taken \in SUBSET Names, Request(taken)
    PROVE  IInv' /\ SharedKept
<1> DEFINE declared == {<<"declared", name>> : name \in taken}
<1>1. /\ calls = <<>> /\ calls' = <<>> /\ phase' = "load_classes" /\ at' = 1 /\ allocated' = 0
      /\ bind' = Empty /\ script' = script /\ Stored /\ ~Shared(ce) /\ ce' = ce
      /\ mem' = RequestMemory(SharedMemory, taken)
  BY DEF Request, Phase, class, IInv
<1>2. /\ DOMAIN mem' = SharedMemory \cup declared \cup CGTables
      /\ \A a \in SharedMemory : mem'[a] = mem[a]
      /\ \A a \in CGTables \ SharedMemory : mem'[a] =
           [String("") EXCEPT !.kind = "request", !.p = [name \in taken |-> <<"declared", name>>]]
      /\ \A a \in declared \ (SharedMemory \cup CGTables) : mem'[a] = String(a[2])
  BY <1>1 DEF RequestMemory
<1>3. \A a \in declared \cup CGTables : ~Shared(a)
  BY RequestIsOwn DEF CGTables, CG
<1> HIDE DEF declared
<1>4. SharedMemory' = SharedMemory
  BY <1>2, <1>3 DEF SharedMemory
<1>5. SharedKept /\ Stored'
  <2>1. SharedKept
    BY <1>1, <1>2, <1>4 DEF SharedKept
  <2> QED
    BY <2>1, <1>1, StoredStays
<1>6. ASSUME NEW a \in CGTables
      PROVE  /\ a \in DOMAIN mem' /\ mem'[a].kind = "request" /\ Fields \subseteq DOMAIN mem'[a]
             /\ Owning(mem'[a]) /\ \A f \in Owned(mem'[a]) : SafePlace(mem'[a], f)
  <2>1. a \notin SharedMemory /\ a \in DOMAIN mem'
    BY <1>2, <1>3, <1>6 DEF SharedMemory
  <2>2. mem'[a] = [String("") EXCEPT !.kind = "request",
                                     !.p = [name \in taken |-> <<"declared", name>>]]
    BY <1>2, <1>6, <2>1
  <2>3. /\ mem'[a].kind = "request" /\ Fields \subseteq DOMAIN mem'[a]
        /\ mem'[a].p = [name \in taken |-> <<"declared", name>>]
    BY <2>2 DEF String, Fields
  <2>4. Tables(mem'[a]) = {} /\ Owned(mem'[a]) = taken
    BY <2>3 DEF Tables, Owned
  <2>5. \A f \in taken : SafePlace(mem'[a], f)
    BY <2>3, <2>4, RequestIsOwn, SafeFacts DEF SafePlace
  <2> QED
    BY <2>1, <2>3, <2>4, <2>5 DEF Owning
<1>7. ASSUME NEW a \in declared \ CGTables
      PROVE  /\ Fields \subseteq DOMAIN mem'[a]
             /\ Owning(mem'[a]) /\ \A f \in Owned(mem'[a]) : SafePlace(mem'[a], f)
  <2>1. mem'[a] = String(a[2])
    BY <1>2, <1>3, <1>7 DEF SharedMemory
  <2>2. mem'[a].kind = "str" /\ Fields \subseteq DOMAIN mem'[a] /\ mem'[a].p = <<>>
    BY <2>1 DEF String, Fields
  <2>3. Tables(mem'[a]) = {} /\ Owned(mem'[a]) = {}
    BY <2>2, NoCalls DEF Tables, Owned
  <2> QED
    BY <2>2, <2>3 DEF Owning
<1>8. Owns'
  <2>1. \A a \in Requested' : a \in CGTables \/ a \in declared \ CGTables
    BY <1>2, <1>4 DEF Requested, SharedMemory
  <2> QED
    BY <2>1, <1>6, <1>7 DEF Owns
<1>9. \A a \in DOMAIN mem' : Fields \subseteq DOMAIN mem'[a]
  <2>1. \A a \in SharedMemory : Fields \subseteq DOMAIN mem[a]
    BY <1>1 DEF Stored, Fields
  <2> QED
    BY <2>1, <1>2, <1>6, <1>7
<1>10. ASSUME NEW k \in Nat PROVE <<"req", k>> \notin DOMAIN mem'
  <2>1. <<"req", k>> \notin SharedMemory
    BY RequestIsOwn DEF SharedMemory
  <2>2. PICK r : r = <<"req", k>>
    OBVIOUS
  <2>3. r[1] = "req" /\ \A a \in declared : a[1] = "declared"
    BY <2>2 DEF declared
  <2>4. \A a \in CGTables : a[1] = "CG"
    BY DEF CGTables, CG
  <2> QED
    BY <2>1, <2>2, <2>3, <2>4, <1>2
<1>11. Sequence(calls') /\ DOMAIN calls' = {} /\ DOMAIN bind' = {}
  BY <1>1, NoCalls DEF Empty
<1>12. Reached'
  <2>1. IsArray(List("class_table"))'
    BY <1>5 DEF Stored, HoldTable, List
  <2> QED
    BY <2>1, <1>1 DEF Reached, IsArray
<1>13. Distinct' /\ Copying' /\ AllReady' /\ Registering'
  <2>1. 1..(1 - 1) = {}
    OBVIOUS
  <2>2. Registering'
    BY <2>1, <1>1 DEF Registering
  <2> QED
    BY <2>2, <1>1, <1>11 DEF Distinct, Copying, AllReady
<1>14. RequestInv'
  BY <1>1, <1>6, <1>8, <1>9, <1>10, <1>11, <1>12, <1>13 DEF RequestInv
<1> QED
  BY <1>1, <1>5, <1>11, <1>14 DEF IInv, Loading

LEMMA EndRequestStep ==
    ASSUME IInv, EndRequest
    PROVE  IInv' /\ SharedKept
<1>1. /\ calls' = <<>> /\ phase' = "stored" /\ at' = 1 /\ script' = script /\ Stored /\ ~Shared(ce')
      /\ mem' = [a \in SharedMemory |-> mem[a]]
  BY DEF EndRequest, class, IInv
<1>2. DOMAIN mem' = SharedMemory /\ \A a \in SharedMemory : mem'[a] = mem[a]
  BY <1>1
<1>3. SharedKept
  BY <1>1, <1>2 DEF SharedKept, SharedMemory
<1> QED
  BY <1>1, <1>3, StoredStays, NoCalls DEF IInv

LEMMA IncludeAgainStep ==
    ASSUME IInv, IncludeAgain
    PROVE  IInv' /\ SharedKept
<1>1. /\ calls = <<>> /\ phase = "loaded" /\ phase' = "load_classes" /\ at' = 1
      /\ UNCHANGED <<script, allocated, class, calls>> /\ bind' = bind
      /\ mem' = [mem EXCEPT ![CG("class_table")].n = 1]
  BY DEF IncludeAgain, Phase
<1>2. /\ phase \in Loading \cup {"loaded"} /\ phase' \in Loading \cup {"loaded"}
      /\ at' \in Nat \ {0}
  BY <1>1 DEF Loading
<1>3. PICK t : t = CG("class_table")
  OBVIOUS
<1>4. t \in DOMAIN mem /\ Fields \subseteq DOMAIN mem[t]
      /\ IsArray(List("class_table"))
  BY <1>1, <1>2, <1>3, Quiet DEF RequestInv, CGTables
<1>5. /\ DOMAIN mem' = DOMAIN mem /\ (\A a \in DOMAIN mem \ {t} : mem'[a] = mem[a])
      /\ mem'[t].kind = mem[t].kind /\ mem'[t].p = mem[t].p /\ DOMAIN mem'[t] = DOMAIN mem[t]
  <2>1. "kind" \in DOMAIN mem[t] /\ "p" \in DOMAIN mem[t]
    BY <1>4, FieldsAre
  <2>2. PICK o : o = [mem[t] EXCEPT !.n = 1]
    OBVIOUS
  <2>3. DOMAIN o = DOMAIN mem[t] /\ o.kind = mem[t].kind /\ o.p = mem[t].p
    BY <2>1, <2>2
  <2>4. mem' = [mem EXCEPT ![t] = o]
    BY <1>1, <1>3, <2>2
  <2> QED
    BY <2>3, <2>4, <1>4
<1>6. Registering'
  <2>1. 1..(1 - 1) = {}
    OBVIOUS
  <2> QED
    BY <2>1, <1>1 DEF Registering
<1>7. Reached'
  <2>1. script \in SharedMemory /\ t \notin SharedMemory
    BY <1>1, <1>3, RequestIsOwn DEF IInv, Stored, SharedMemory, CG
  <2>2. mem'[script'] = mem[script]
    BY <2>1, <1>1, <1>5 DEF SharedMemory
  <2>3. List("class_table")' = List("class_table")
    BY <2>2 DEF List
  <2> QED
    BY <2>3, <1>1, <1>4 DEF Reached, IsArray
<1> QED
  BY <1>1, <1>2, <1>3, <1>5, <1>6, <1>7, UnchangedKeeps

\* An element of the script's classes or functions.
LEMMA ElementIs ==
    ASSUME Stored, NEW table \in {"class_table", "function_table"}, at \in Nat \ {0},
           at <= Len(List(table)), NEW kinds, HoldTable(mem[script], table, kinds)
    PROVE  LET q == mem[List(table)[at]].p.data
           IN  q \in Held(script, table) /\ q # Null /\ Points(q, kinds)
<1>1. at \in DOMAIN List(table) /\ List(table) = mem[script].p[table].list
  BY DEF HoldTable, IsArray, List
<1>2. List(table)[at] \in Elements(mem[script].p[table])
  BY <1>1 DEF Elements
<1> QED
  BY <1>2 DEF HoldTable, Held

\* A table has been loaded, or an element of it is ignored.
LEMMA TableDone ==
    ASSUME IInv, NEW next \in {"load_functions", "load_main"}, phase \in Loading, calls = <<>>,
           phase' = next, at' = 1 \/ at' = at + 1, bind' = Empty \/ bind' = bind,
           UNCHANGED <<mem, calls, script, allocated, class>>
    PROVE  IInv' /\ SharedKept
<1>1. PICK t : t = CG("class_table")
  OBVIOUS
<1>2. Registering' /\ Reached'
  BY DEF Registering, Reached
<1>3. phase' \in Loading \cup {"loaded"} /\ at' \in Nat \ {0}
  BY DEF Loading, IInv
<1> QED
  BY <1>1, <1>2, <1>3, UnchangedKeeps

LEMMA IgnoredStep ==
    ASSUME IInv, phase = "load_classes", calls = <<>>, ignore_dups, phase' = phase,
           at' = at + 1, at <= Len(List("class_table")),
           UNCHANGED <<mem, calls, script, allocated, bind, class>>
    PROVE  IInv' /\ SharedKept
<1>1. PICK t : t = CG("class_table")
  OBVIOUS
<1>2. at \in Nat \ {0} /\ at' \in Nat \ {0} /\ phase' \in Loading \cup {"loaded"}
  BY DEF IInv, Loading
<1>3. Registering'
  BY DEF Registering
<1>4. IsArray(List("class_table"))
  BY DEF IInv, Stored, HoldTable, List
<1>5. Reached'
  <2>1. List("class_table")' = List("class_table")
    BY DEF List
  <2> QED
    BY <2>1, <1>2, <1>4 DEF Reached, IsArray
<1> QED
  BY <1>1, <1>2, <1>3, <1>5, UnchangedKeeps DEF Loading

\* A place of a table is set to what the function is called for next.
Added(t, name, q) ==
    /\ Changes(t) /\ name \in Owned(mem'[t]) /\ mem'[t].p[name] = q
    /\ name \in DOMAIN mem'[t].p /\ Tables(mem'[t]) = {}
    /\ \A f \in Owned(mem'[t]) \ {name} : SafePlace(mem'[t], f)

LEMMA AddedChanges ==
    ASSUME IInv, phase \in Loading, calls = <<>>, NEW t \in CGTables, NEW name, NEW q,
           mem' = [mem EXCEPT ![t].p = With(@, name, q)],
           UNCHANGED <<script, allocated, bind, class>>
    PROVE  Added(t, name, q)
<1>1. RequestInv
      /\ \A a \in Requested : Owning(mem[a]) /\ \A f \in Owned(mem[a]) : SafePlace(mem[a], f)
  BY Quiet
<1>2. t \in DOMAIN mem /\ mem[t].kind = "request" /\ Fields \subseteq DOMAIN mem[t] /\ ~Shared(t)
  BY <1>1, RequestIsOwn DEF RequestInv, CGTables, CG
<1>3. t \in Requested
  BY <1>2 DEF Requested, SharedMemory
<1>4. "p" \in DOMAIN mem[t] /\ "kind" \in DOMAIN mem[t]
  BY <1>2, FieldsAre
<1>5. PICK pp : pp = With(mem[t].p, name, q)
  OBVIOUS
<1>6. /\ DOMAIN pp = DOMAIN mem[t].p \cup {name} /\ pp[name] = q
      /\ \A f \in DOMAIN mem[t].p \ {name} : pp[f] = mem[t].p[f]
  BY <1>5 DEF With
<1>7. PICK o : o = [mem[t] EXCEPT !.p = pp]
  OBVIOUS
<1>8. DOMAIN o = DOMAIN mem[t] /\ o.kind = "request" /\ o.p = pp
  BY <1>2, <1>4, <1>7
<1>9. mem' = [mem EXCEPT ![t] = o]
  BY <1>5, <1>7
<1>10. DOMAIN mem' = DOMAIN mem /\ mem'[t] = o /\ \A a \in DOMAIN mem \ {t} : mem'[a] = mem[a]
  BY <1>2, <1>9
<1>11. Tables(o) = {} /\ Owned(o) = DOMAIN pp /\ Tables(mem[t]) = {} /\ Owned(mem[t]) = DOMAIN mem[t].p
  BY <1>2, <1>8 DEF Tables, Owned
<1>12. \A f \in Owned(o) \ {name} : SafePlace(o, f)
  <2>1. \A f \in Owned(o) \ {name} : f \in Owned(mem[t]) /\ pp[f] = mem[t].p[f]
    BY <1>6, <1>11
  <2>2. \A f \in Owned(mem[t]) : Safe(mem[t].p[f])
    BY <1>1, <1>3, <1>11 DEF SafePlace
  <2> QED
    BY <2>1, <2>2, <1>8, <1>11 DEF SafePlace
<1>13. Owning(o)
  BY <1>8, <1>11 DEF Owning
<1> QED
  BY <1>2, <1>6, <1>8, <1>10, <1>11, <1>12, <1>13 DEF Added, Changes, class

LEMMA OneCall ==
    ASSUME NEW F, NEW t, NEW name, NEW S, S = [i \in DOMAIN <<F>> |-> Invoke(<<F>>[i], t, name)]
    PROVE  /\ Sequence(S) /\ DOMAIN S = {1} /\ S # <<>>
           /\ S[1].function = F /\ S[1].a = t /\ S[1].f = name
<1>1. DOMAIN <<F>> = 1..1 /\ 1..1 = {1}
  OBVIOUS
<1>2. S = [i \in 1..1 |-> S[i]]
  BY <1>1
<1>3. Sequence(S) /\ Len(S) = 1 /\ DOMAIN S = 1..1
  BY <1>2, Counted
<1>4. S[1] = Invoke(F, t, name)
  BY <1>1
<1> QED
  BY <1>1, <1>3, <1>4 DEF Invoke

LEMMA AddedKeeps ==
    ASSUME IInv, calls = <<>>, phase' = phase, at' = at + 1,
           NEW t \in CGTables, NEW name, NEW q, NEW F \in {"class", "function"},
           Added(t, name, q),
           Sequence(calls'), DOMAIN calls' = {1}, calls' # <<>>,
           calls'[1].function = F, calls'[1].a = t, calls'[1].f = name,
           UNCHANGED <<script, allocated, bind, class>>,
           NEW kinds, kinds = Takes[F], q # Null, Points(q, kinds),
           F = "function" => /\ phase = "load_functions" /\ q \in Held(script, "function_table"),
           F = "class" => /\ phase = "load_classes" /\ q = ClassAt(at)
                          /\ at \in DOMAIN List("class_table")
    PROVE  IInv' /\ SharedKept
<1>0. /\ phase \in Loading /\ at \in Nat \ {0} /\ Stored /\ RequestInv /\ at' - 1 = at
      /\ DOMAIN calls = {}
  BY NoCalls DEF IInv, Loading
<1>1. /\ Changes(t) /\ name \in Owned(mem'[t]) /\ mem'[t].p[name] = q
      /\ name \in DOMAIN mem'[t].p /\ Tables(mem'[t]) = {}
      /\ \A f \in Owned(mem'[t]) \ {name} : SafePlace(mem'[t], f)
  BY DEF Added
<1>2. /\ Sequence(calls') /\ DOMAIN calls' = {1}
      /\ calls'[1].function = F /\ calls'[1].a = t /\ calls'[1].f = name
  OBVIOUS
<1>3. SharedKept /\ t \in Requested'
  BY <1>1, ChangesKeeps
<1>4. \A f \in Owned(mem'[t]) : SafePlace(mem'[t], f) \/ Pending(t, f)'
  <2>1. For(calls[1], t, name)' /\ calls'[1].function # "bucket"
    BY <1>2 DEF For
  <2>2. Pending(t, name)'
    BY <2>1, <1>2 DEF Pending
  <2> QED
    BY <2>2, <1>1
<1>5. PICK c : c = calls'[1]
  OBVIOUS
<1>6. c.function = F /\ c.a = t /\ c.f = name /\ TargetOf(c)' = q
  BY <1>1, <1>2, <1>5 DEF TargetOf
<1>7. Fits(c)'
  <2>1. F \in DOMAIN Takes /\ F \notin Linking /\ F \notin Looping
    BY DEF Takes, Linking, Looping
  <2>2. Points(q, kinds)'
    BY <1>3, PointsStays
  <2>3. Points(TargetOf(c), Takes[c.function])'
    BY <2>2, <1>6
  <2> QED
    BY <2>1, <2>3, <1>1, <1>3, <1>6 DEF Fits
<1>8. /\ script' = script /\ \A f : List(f)' = List(f)
      /\ \A i \in DOMAIN List("class_table") : ClassAt(i)' = ClassAt(i)
  BY <1>0, <1>3, ScriptStays DEF SharedKept
<1>9. InClass(c)'
  <2>1. F = "function" => TargetOf(c)' \in Held(script, "function_table")'
    <3>1. PICK ks : ks = {"op_array"}
      OBVIOUS
    <3>2. script \in SharedMemory /\ HoldTable(mem[script], "function_table", ks)
      BY <3>1, <1>0 DEF Stored, SharedMemory
    <3>3. PICK a : a = script
      OBVIOUS
    <3>4. Held(a, "function_table")' = Held(a, "function_table")
      BY <3>2, <3>3, <1>3, HeldStays
    <3> QED
      BY <3>3, <3>4, <1>6, <1>8
  <2>2. PICK k : k = at
    OBVIOUS
  <2>3. F = "class" => TargetOf(c)' = ClassAt(at - 1)'
    <3>1. F = "class" => ClassAt(k)' = ClassAt(k) /\ q = ClassAt(k)
      BY <2>2, <1>8
    <3>2. ClassAt(at - 1)' = ClassAt(k)'
      BY <2>2, <1>0 DEF ClassAt
    <3> QED
      BY <3>1, <3>2, <1>6
  <2>4. F = "class" => phase' = "load_classes" /\ DOMAIN calls' = {1}
    BY <1>2
  <2> QED
    BY <2>1, <2>3, <2>4, <1>6 DEF InClass, Linking, Looping
<1>10. Copying'
  BY <1>0, <1>2, <1>8 DEF Copying
<1>11. Reached'
  <2>1. IsArray(List("class_table"))
    BY <1>0 DEF Stored, HoldTable, List
  <2>2. F = "class" => at' - 1 <= Len(List("class_table"))
    BY <2>1, <1>0 DEF IsArray
  <2> QED
    BY <2>2, <1>8 DEF Reached
<1>12. Registering'
  <2> SUFFICES ASSUME ~ignore_dups, phase = "load_classes", NEW j \in 1..(at' - 1),
                      NEW r \in Registered(ClassAt(j))'
               PROVE  Bound(r)' \/ r \in WillBind(calls[1])'
    BY <1>2 DEF Registering
  <2>1. F = "class" /\ at \in DOMAIN List("class_table") /\ q = ClassAt(at)
    OBVIOUS
  <2>2. j \in 1..at /\ IsArray(List("class_table"))
    BY <1>0 DEF Stored, HoldTable, List
  <2>3. j \in DOMAIN List("class_table")
    BY <2>1, <2>2, <1>0 DEF IsArray
  <2>4. PICK d : d = ClassAt(j)
    OBVIOUS
  <2>5. d \in SharedMemory /\ mem[d].kind = "class" /\ ClassAt(j)' = d
    BY <2>3, <2>4, <1>0, <1>8, ClassAtIs
  <2>6. r \in Registered(d)' /\ r \in Registered(d)
    BY <2>5, <1>0, <1>3, RegisteredStays
  <2>7. CASE j \in 1..(at - 1)
    <3>1. Bound(r)
      BY <2>4, <2>6, <2>7, <1>0 DEF RequestInv, Registering
    <3> QED
      BY <3>1 DEF Bound
  <2>8. CASE j = at
    <3>1. TargetOf(c)' = d
      BY <2>1, <2>4, <2>8, <1>6
    <3>2. r \in {q2 \in {d} \cup Held(d, "function_table")' : Marked(q2)'}
      BY <2>6 DEF Registered
    <3>3. c.function = "class"
      BY <2>1, <1>6
    <3>4. r \in WillBind(c)'
      BY <3>1, <3>2, <3>3 DEF WillBind
    <3> QED
      BY <3>4, <1>5
  <2> QED
    BY <2>2, <2>7, <2>8, <1>0
<1>13. c.function \notin Linking
  BY <1>6 DEF Linking
<1> QED
  BY <1>0, <1>1, <1>2, <1>4, <1>5, <1>7, <1>9, <1>10, <1>11, <1>12, <1>13, ChangeKeeps DEF class

LEMMA LoadClassStep ==
    ASSUME IInv, LoadClass
    PROVE  IInv' /\ SharedKept
<1>1. /\ calls = <<>> /\ phase = "load_classes" /\ Stored /\ at \in Nat \ {0}
      /\ UNCHANGED <<script, allocated, class>> /\ IsArray(List("class_table"))
  BY DEF LoadClass, LoadTable, IInv, Stored, HoldTable, List, class
<1>2. CASE /\ at > Len(List("class_table"))
           /\ phase' = "load_functions" /\ at' = 1 /\ bind' = Empty
           /\ UNCHANGED <<mem, calls>>
  <2> QED
    BY <1>1, <1>2, TableDone DEF Loading
<1>3. ASSUME at <= Len(List("class_table")), at' = at + 1, UNCHANGED bind
      PROVE  IInv' /\ SharedKept
  <2>1. PICK bucket : bucket = List("class_table")[at]
    OBVIOUS
  <2>2. PICK key : key = KeyOf(bucket)
    OBVIOUS
  <2>3. PICK q : q = mem[bucket].p.data
    OBVIOUS
  <2>4. at \in DOMAIN List("class_table")
    BY <1>1, <1>3 DEF IsArray
  <2>5. CASE /\ phase' = phase
             /\ mem' = [mem EXCEPT ![CG("class_table")].p = With(@, key.text, mem[bucket].p.data)]
             /\ calls' = [i \in DOMAIN <<"class">> |->
                            Invoke(<<"class">>[i], CG("class_table"), key.text)]
    <3>1. PICK kinds : kinds = {"class"}
      OBVIOUS
    <3>2. HoldTable(mem[script], "class_table", kinds)
      BY <3>1, <1>1 DEF Stored
    <3>3. q # Null /\ Points(q, kinds)
      BY <2>1, <2>3, <3>2, <1>1, <1>3, ElementIs
    <3>4. q = ClassAt(at)
      BY <2>1, <2>3 DEF ClassAt
    <3>5. Takes["class"] = kinds
      BY <3>1 DEF Takes
    <3>6. PICK t, F, name : t = CG("class_table") /\ F = "class" /\ name = key.text
      OBVIOUS
    <3>7. t \in CGTables
      BY <3>6 DEF CGTables
    <3>8. Added(t, name, q)
      <4>1. mem' = [mem EXCEPT ![t].p = With(@, name, q)]
        BY <2>3, <2>5, <3>6
      <4> QED
        BY <4>1, <3>7, <1>1, <1>3, AddedChanges DEF Loading
    <3>11. /\ Sequence(calls') /\ DOMAIN calls' = {1} /\ calls' # <<>>
           /\ calls'[1].function = F /\ calls'[1].a = t /\ calls'[1].f = name
      <4>1. PICK S : S = calls'
        OBVIOUS
      <4>2. S = [i \in DOMAIN <<F>> |-> Invoke(<<F>>[i], t, name)]
        BY <4>1, <2>5, <3>6
      <4> QED
        BY <4>1, <4>2, OneCall
    <3>9. /\ F \in {"class", "function"} /\ kinds = Takes[F] /\ F # "function"
          /\ UNCHANGED <<script, allocated, bind, class>> /\ phase' = phase
      BY <3>5, <3>6, <2>5, <1>1, <1>3
    <3>10. phase = "load_classes" /\ q = ClassAt(at) /\ at \in DOMAIN List("class_table")
      BY <3>4, <2>4, <1>1
    <3> QED
      BY <3>3, <3>7, <3>8, <3>9, <3>10, <3>11, <1>1, <1>3, AddedKeeps
  <2>6. CASE /\ phase' = IF ignore_dups THEN phase ELSE "failed"
             /\ UNCHANGED <<mem, calls>>
    <3>1. CASE ignore_dups
      BY <3>1, <2>6, <1>1, <1>3, IgnoredStep
    <3>2. CASE ~ignore_dups
      BY <3>2, <2>6, <1>1, <1>3, FailKeeps
    <3> QED
      BY <3>1, <3>2
  <2> QED
    BY <2>1, <2>2, <2>5, <2>6, <1>1, <1>3 DEF LoadClass, LoadTable
<1> QED
  BY <1>2, <1>3 DEF LoadClass, LoadTable

LEMMA LoadFunctionStep ==
    ASSUME IInv, LoadFunction
    PROVE  IInv' /\ SharedKept
<1>1. /\ calls = <<>> /\ phase = "load_functions" /\ Stored /\ at \in Nat \ {0}
      /\ UNCHANGED <<script, allocated, class>>
  BY DEF LoadFunction, LoadTable, IInv, class
<1>2. CASE /\ phase' = "load_main" /\ at' = 1 /\ bind' = Empty
           /\ UNCHANGED <<mem, calls>>
  BY <1>1, <1>2, TableDone DEF Loading
<1>3. ASSUME at <= Len(List("function_table")), at' = at + 1, UNCHANGED bind
      PROVE  IInv' /\ SharedKept
  <2>1. PICK bucket : bucket = List("function_table")[at]
    OBVIOUS
  <2>2. PICK key : key = KeyOf(bucket)
    OBVIOUS
  <2>3. PICK q : q = mem[bucket].p.data
    OBVIOUS
  <2>4. CASE /\ phase' = phase
             /\ mem' = [mem EXCEPT ![CG("function_table")].p =
                          With(@, key.text, mem[bucket].p.data)]
             /\ calls' = [i \in DOMAIN <<"function">> |->
                            Invoke(<<"function">>[i], CG("function_table"), key.text)]
    <3>1. PICK kinds : kinds = {"op_array"}
      OBVIOUS
    <3>2. HoldTable(mem[script], "function_table", kinds)
      BY <3>1, <1>1 DEF Stored
    <3>3. q # Null /\ Points(q, kinds) /\ q \in Held(script, "function_table")
      BY <2>1, <2>3, <3>2, <1>1, <1>3, ElementIs
    <3>4. Takes["function"] = kinds
      BY <3>1 DEF Takes
    <3>5. PICK t, F, name : t = CG("function_table") /\ F = "function" /\ name = key.text
      OBVIOUS
    <3>6. t \in CGTables
      BY <3>5 DEF CGTables
    <3>7. Added(t, name, q)
      <4>1. mem' = [mem EXCEPT ![t].p = With(@, name, q)]
        BY <2>3, <2>4, <3>5
      <4> QED
        BY <4>1, <3>6, <1>1, <1>3, AddedChanges DEF Loading
    <3>9. /\ Sequence(calls') /\ DOMAIN calls' = {1} /\ calls' # <<>>
          /\ calls'[1].function = F /\ calls'[1].a = t /\ calls'[1].f = name
      <4>1. PICK S : S = calls'
        OBVIOUS
      <4>2. S = [i \in DOMAIN <<F>> |-> Invoke(<<F>>[i], t, name)]
        BY <4>1, <2>4, <3>5
      <4> QED
        BY <4>1, <4>2, OneCall
    <3>8. /\ F \in {"class", "function"} /\ kinds = Takes[F] /\ F # "class"
          /\ UNCHANGED <<script, allocated, bind, class>> /\ phase' = phase
      BY <3>4, <3>5, <2>4, <1>1, <1>3
    <3> QED
      BY <3>3, <3>6, <3>7, <3>8, <3>9, <1>1, <1>3, AddedKeeps
  <2>5. CASE phase' = "failed" /\ UNCHANGED <<mem, calls>>
    BY <2>5, <1>1, <1>3, FailKeeps
  <2> QED
    BY <2>1, <2>2, <2>4, <2>5, <1>1, <1>3 DEF LoadFunction, LoadTable
<1> QED
  BY <1>2, <1>3 DEF LoadFunction, LoadTable

LEMMA LoadMainStep ==
    ASSUME IInv, LoadMain
    PROVE  IInv' /\ SharedKept
<1>1. PICK t, o, F, name :
        t = CG("main") /\ o = MainOpArray /\ F = "array" /\ name = "static_variables"
  OBVIOUS
<1>2. /\ calls = <<>> /\ phase = "load_main" /\ phase' = "loaded" /\ Stored /\ RequestInv
      /\ at \in Nat \ {0} /\ at' = at /\ script' = script /\ allocated' = allocated
      /\ class' = class /\ bind' = bind
  BY DEF LoadMain, Phase, IInv, class
<1>3. mem' = With(mem, t, o)
  BY <1>1 DEF LoadMain
<1>4. calls' = <<Invoke(F, t, name)>>
  BY <1>1 DEF LoadMain, Statics
<1>5. Sequence(calls') /\ DOMAIN calls' = {1} /\ calls'[1].function = F
      /\ calls'[1].a = t /\ calls'[1].f = name
  <2>1. PICK S : S = calls'
    OBVIOUS
  <2>2. S = [i \in DOMAIN <<F>> |-> Invoke(<<F>>[i], t, name)]
    BY <2>1, <1>4
  <2> QED
    BY <2>1, <2>2, OneCall
<1>6. PICK main : main = mem[script]
  OBVIOUS
<1>7. /\ Fields \subseteq DOMAIN main /\ main.kind = "script" /\ WellFormed(main)
      /\ main.p.scope = Null /\ main.p.prototype = Null
  BY <1>2, <1>6 DEF Stored, SharedMemory, Fields
<1>8. /\ name \in DOMAIN main.p /\ "scope" \in DOMAIN main.p /\ "prototype" \in DOMAIN main.p
  BY <1>1, <1>7 DEF WellFormed, Hold
<1>9. PICK kinds : kinds = {"ht"}
  OBVIOUS
<1>10. Points(main.p[name], kinds)
  BY <1>1, <1>7, <1>9 DEF WellFormed, Hold
<1>11. PICK pp : pp = [f \in DOMAIN main.p \ {"function_table", "class_table", "full_path"} |-> main.p[f]]
  OBVIOUS
<1>12. /\ name \in DOMAIN pp /\ pp[name] = main.p[name] /\ pp["scope"] = Null /\ pp["prototype"] = Null
       /\ "scope" \in DOMAIN pp /\ "prototype" \in DOMAIN pp
  BY <1>1, <1>7, <1>8, <1>11
<1>13. o.kind = "op_array" /\ o.p = pp /\ DOMAIN o = DOMAIN main
  <2>1. "p" \in DOMAIN main /\ "kind" \in DOMAIN main
    BY <1>7, FieldsAre
  <2>2. o = [main EXCEPT !.kind = "op_array", !.p = pp]
    BY <1>1, <1>6, <1>11, <2>1 DEF MainOpArray
  <2> QED
    BY <2>1, <2>2
<1>14. Tables(o) = {} /\ Owned(o) = {"static_variables", "scope", "prototype"}
  BY <1>13 DEF Tables, Owned
<1>15. DOMAIN mem' = DOMAIN mem \cup {t} /\ mem'[t] = o /\ \A a \in DOMAIN mem \ {t} : mem'[a] = mem[a]
  BY <1>3 DEF With
<1>16. Changes(t)
  <2>1. Owning(o)
    BY <1>1, <1>12, <1>13, <1>14 DEF Owning
  <2>2. t \notin CGTables
    BY <1>1 DEF CGTables, CG
  <2> QED
    BY <2>1, <2>2, <1>1, <1>2, <1>7, <1>13, <1>15 DEF Changes
<1>17. SharedKept /\ t \in Requested'
  BY <1>16, ChangesKeeps
<1>18. \A f \in Owned(o) : SafePlace(o, f) \/ Pending(t, f)'
  <2>1. For(calls[1], t, name)' /\ calls'[1].function # "bucket"
    BY <1>1, <1>5 DEF For
  <2>2. Pending(t, name)'
    BY <2>1, <1>5 DEF Pending
  <2>3. SafePlace(o, "scope") /\ SafePlace(o, "prototype")
    BY <1>12, <1>13, <1>14, SafeFacts DEF SafePlace
  <2> QED
    BY <2>2, <2>3, <1>1, <1>14
<1>19. PICK c : c = calls'[1]
  OBVIOUS
<1>20. c.function = F /\ c.a = t /\ c.f = name /\ TargetOf(c)' = main.p[name]
  BY <1>5, <1>12, <1>13, <1>15, <1>19 DEF TargetOf
<1>21. Fits(c)'
  <2>1. F \in DOMAIN Takes /\ F \notin Linking /\ F \notin Looping /\ F \notin Present
        /\ Takes[F] = kinds
    BY <1>1, <1>9 DEF Takes, Linking, Looping, Present
  <2>2. Points(main.p[name], kinds)'
    BY <1>10, <1>17, PointsStays
  <2>3. Points(TargetOf(c), Takes[c.function])'
    BY <2>1, <2>2, <1>20
  <2>4. F # "table" /\ F # "bucket"
    BY <1>1
  <2> QED
    BY <2>1, <2>3, <2>4, <1>12, <1>13, <1>14, <1>15, <1>17, <1>20 DEF Fits
<1>22. InClass(c)' /\ c.function \notin Linking
  BY <1>1, <1>20 DEF InClass, Linking, Looping
<1>23. Copying' /\ Registering' /\ Reached'
  BY <1>2 DEF Copying, Registering, Reached
<1>24. phase \in Loading \cup {"loaded"} /\ phase' \in Loading \cup {"loaded"}
  BY <1>2 DEF Loading
<1> QED
  BY <1>2, <1>5, <1>15, <1>16, <1>18, <1>19, <1>21, <1>22, <1>23, <1>24, ChangeKeeps

-----------------------------------------------------------------------------
(* The theorems.                                                           *)

LEMMA InitHolds ==
    ASSUME LoadInit
    PROVE  IInv
<1>1. ~Shared(ce)
  BY DEF LoadInit, Shared
<1> QED
  BY <1>1, NoCalls DEF LoadInit, IInv

LEMMA NextHolds ==
    ASSUME IInv, LoadNext
    PROVE  IInv' /\ SharedKept
<1>1. ASSUME NEW taken \in SUBSET Names, Request(taken)
      PROVE  IInv' /\ SharedKept
  BY <1>1, RequestStep
<1>2. CASE LoadClass
  BY <1>2, LoadClassStep
<1>3. CASE LoadFunction
  BY <1>3, LoadFunctionStep
<1>4. CASE LoadMain
  BY <1>4, LoadMainStep
<1>5. CASE Cloning
  BY <1>5, CloningStep
<1>6. CASE IncludeAgain
  BY <1>6, IncludeAgainStep
<1>7. CASE EndRequest
  BY <1>7, EndRequestStep
<1> QED
  BY <1>1, <1>2, <1>3, <1>4, <1>5, <1>6, <1>7 DEF LoadNext

LEMMA StutterHolds ==
    ASSUME IInv, UNCHANGED vars
    PROVE  IInv' /\ SharedKept
<1>1. /\ mem' = mem /\ script' = script /\ phase' = phase /\ at' = at /\ calls' = calls
      /\ allocated' = allocated /\ bind' = bind /\ old_ce' = old_ce /\ ce' = ce
  BY DEF vars
<1>2. SharedKept
  BY <1>1 DEF SharedKept, SharedMemory
<1>3. ASSUME NEW c PROVE (Fits(c)' <=> Fits(c)) /\ (InClass(c)' <=> InClass(c))
  <2>1. Points(c.b, {"bucket"})' <=> Points(c.b, {"bucket"})
    BY <1>1 DEF Points
  <2>2. Held(old_ce, c.f)' = Held(old_ce, c.f)
    BY <1>1 DEF Held
  <2> QED
    BY <1>1 DEF Fits, InClass, FitsBucket, TargetOf, Points, HoldTable, SafePlace, Held, ClassAt,
                List, Requested, SharedMemory
<1>4. (Distinct' <=> Distinct) /\ (Copying' <=> Copying) /\ (Reached' <=> Reached)
  BY <1>1 DEF Distinct, For, BothBuckets, Copying, Reached, ClassAt, List
<1>5. Owns' <=> Owns
  BY <1>1 DEF Owns, Pending, For, Broken, SafePlace, Requested, SharedMemory
<1>6. ASSUME NEW c PROVE WillBind(c)' = WillBind(c)
  <2>1. \A q : Marked(q)' <=> Marked(q)
    BY <1>1 DEF Marked
  <2>2. \A a, f : Held(a, f)' = Held(a, f)
    BY <1>1 DEF Held
  <2> QED
    BY <1>1, <2>1, <2>2 DEF WillBind, TargetOf
<1>7. AllReady' <=> AllReady
  BY <1>1, <1>6 DEF AllReady, Ready, TargetOf, Bound
<1>8. Registering' <=> Registering
  <2>1. \A c : Registered(c)' = Registered(c)
    BY <1>1 DEF Registered, Held, Marked
  <2>2. \A j : ClassAt(j)' = ClassAt(j)
    BY <1>1 DEF ClassAt, List
  <2> QED
    BY <1>1, <1>6, <2>1, <2>2 DEF Registering, Bound
<1>9. Stored'
  BY <1>2, StoredStays DEF IInv
<1>10. RequestInv' <=> RequestInv
  BY <1>1, <1>3, <1>4, <1>5, <1>7, <1>8 DEF RequestInv
<1> QED
  BY <1>1, <1>2, <1>9, <1>10 DEF IInv

LEMMA OwnedIsSafe ==
    ASSUME IInv, ~Broken
    PROVE  OwnsNothingShared
<1> SUFFICES ASSUME phase \in Loading \cup Ended, calls = <<>>, NEW a \in Requested,
                    NEW q \in Own(mem[a])
             PROVE  Safe(q)
  BY DEF OwnsNothingShared, Requested, Safe
<1>1. RequestInv /\ DOMAIN calls = {}
  BY NoCalls DEF IInv, Loading, Ended
<1>2. Owning(mem[a]) /\ \A f \in Owned(mem[a]) : SafePlace(mem[a], f)
  BY <1>1 DEF RequestInv, Owns, Pending
<1>3. PICK obj : obj = mem[a]
  OBVIOUS
<1>4. CASE \E f \in Owned(obj) \ Tables(obj) : q = obj.p[f]
  BY <1>2, <1>3, <1>4 DEF SafePlace
<1>5. CASE \E f \in Tables(obj) : q \in {obj.p[f].ar} \cup Elements(obj.p[f])
  BY <1>2, <1>3, <1>5 DEF SafePlace, Owning
<1> QED
  BY <1>3, <1>4, <1>5 DEF Own

\* What a step of a request finds and keeps: the stored script, and that
\* every call that is due is for a place of the request's own.
THEOREM LoadInvariant == LoadSpec => []IInv
<1>1. LoadInit => IInv
  BY InitHolds
<1>2. IInv /\ [LoadNext]_vars => IInv'
  BY NextHolds, StutterHolds
<1> QED
  BY <1>1, <1>2, PTL DEF LoadSpec

\* A stored script stays what loading needs: each request finds it as the
\* one before did, whatever that one loaded and wherever it failed.
THEOREM StaysWellFormed == LoadSpec => []StoredIsWellFormed
<1>1. IInv => StoredIsWellFormed
  BY DEF IInv, StoredIsWellFormed
<1> QED
  BY <1>1, LoadInvariant, PTL

\* zend_accel_load_script writes only to what the request has allocated.
THEOREM SharedIsUnchanged == LoadSpec => SharedUnchanged
<1>1. SharedKept => \A a \in DOMAIN mem : Shared(a) => a \in DOMAIN mem' /\ mem'[a] = mem[a]
  BY DEF SharedKept, SharedMemory
<1>2. IInv /\ [LoadNext]_vars =>
        [Shared(script) => \A a \in DOMAIN mem :
             Shared(a) => a \in DOMAIN mem' /\ mem'[a] = mem[a]]_vars
  BY <1>1, NextHolds
<1> QED
  BY <1>2, LoadInvariant, PTL DEF LoadSpec, SharedUnchanged

\* Between one class or function and the next, and when all are loaded, what
\* the request owns leads to nothing of the shared script, but when a class
\* that is a duplicate was ignored and one that refers to it then failed.
THEOREM OwnsNothingSharedUnlessBroken == LoadSpec => [](OwnsNothingShared \/ Broken)
<1>1. IInv => OwnsNothingShared \/ Broken
  BY OwnedIsSafe
<1> QED
  BY <1>1, LoadInvariant, PTL

\* Unless duplicates are ignored there is no such failure, for what a class
\* refers to is registered in bind_hash before it is needed.
THEOREM OwnsItsOwn ==
    ASSUME ~ignore_dups
    PROVE  LoadSpec => []OwnsNothingShared
<1>1. ~Broken
  BY DEF Broken
<1>2. IInv => OwnsNothingShared
  BY <1>1, OwnedIsSafe
<1> QED
  BY <1>2, LoadInvariant, PTL
=============================================================================
