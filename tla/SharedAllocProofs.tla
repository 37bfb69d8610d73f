-------------------------- MODULE SharedAllocProofs --------------------------
(***************************************************************************)
(* The allocator hands out disjoint blocks, keeps those of startup through *)
(* every restart, and keeps its accounts: what it calls free is what the   *)
(* segments have left, what it calls wasted are the corrupted scripts, and *)
(* exhaustion is real.  For all sizes of memory, segments and requests     *)
(* that its integers can express (Wide).  The accounts are sums over sets, *)
(* which the first two sections are about.                                 *)
(***************************************************************************)
EXTENDS SharedAlloc, FiniteSetTheorems, WellFoundedInduction, TLAPS

-----------------------------------------------------------------------------
(* Induction, over sets of numbers and of finite sets.                     *)

\* A set of numbers with 0 and every successor has them all.
LEMMA Numbers ==
    ASSUME NEW T, 0 \in T, \A k \in Nat : k \in T => k + 1 \in T
    PROVE  Nat \subseteq T
<1> SUFFICES ASSUME Nat \ T # {} PROVE FALSE
  OBVIOUS
<1>1. PICK m \in Nat \ T : \A k \in Nat \ T : <<k, m>> \notin OpToRel(<, Nat)
  BY NatLessThanWellFounded, WFMin
<1>2. m # 0 /\ m - 1 \in Nat
  OBVIOUS
<1>3. <<m - 1, m>> \in OpToRel(<, Nat)
  BY <1>2 DEF OpToRel
<1>4. m - 1 \in T
  BY <1>1, <1>2, <1>3
<1> QED
  BY <1>2, <1>4

\* A property that a finite set has as soon as its proper subsets have it.
LEMMA Subsets ==
    ASSUME NEW S, IsFiniteSet(S), NEW T,
           \A U \in SUBSET S :
             (\A V \in SUBSET U : V # U => V \in T) => U \in T
    PROVE  S \in T
<1> SUFFICES ASSUME S \notin T PROVE FALSE
  OBVIOUS
<1> DEFINE Bad == {U \in SUBSET S : U \notin T}
<1>1. Bad # {} /\ Bad \subseteq FiniteSubsetsOf(S)
  <2>1. S \in Bad /\ Bad \subseteq SUBSET S
    OBVIOUS
  <2> QED
    BY <2>1, FS_FiniteSubsetsOfFinite
<1> HIDE DEF Bad
<1>2. PICK U \in Bad :
        \A V \in Bad : <<V, U>> \notin StrictSubsetOrdering(S)
  <2>1. IsWellFoundedOn(StrictSubsetOrdering(S), FiniteSubsetsOf(S))
    BY FS_StrictSubsetOrderingWellFounded
  <2> QED
    BY <1>1, <2>1, WFMin
<1>3. ASSUME NEW V \in SUBSET U, V # U PROVE V \in T
  <2>1. V \in SUBSET S /\ U \in SUBSET S
    BY <1>3 DEF Bad
  <2>2. <<V, U>> \in StrictSubsetOrdering(S)
    BY <1>3, <2>1 DEF StrictSubsetOrdering
  <2> QED
    BY <1>2, <2>1, <2>2 DEF Bad
<1>4. U \in SUBSET S /\ U \notin T
  BY DEF Bad
<1> QED
  BY <1>3, <1>4

-----------------------------------------------------------------------------
(* Sums.                                                                   *)

\* What SumFunctionOnSet chooses: the sum of g over every subset of S.
Summand(g, s, f) ==
    IF s = {} THEN 0
    ELSE g[CHOOSE x \in s : TRUE] + f[s \ {CHOOSE x \in s : TRUE}]
Sums(g, S, f) == f = [s \in SUBSET S |-> Summand(g, s, f)]

LEMMA SumIsChosen ==
    ASSUME NEW g, NEW S
    PROVE  SumFunctionOnSet(g, S) = (CHOOSE f : Sums(g, S, f))[S]
BY DEF SumFunctionOnSet, FoldFunctionOnSet, MapThenFoldSet, Sums, Summand

\* There is such a function: the sums over sets of k elements at most.
LEMMA SumsExist ==
    ASSUME NEW g, NEW S, IsFiniteSet(S)
    PROVE  \E f : Sums(g, S, f)
<1> DEFINE Small(k) == {s \in SUBSET S : Cardinality(s) <= k}
           Partial(k, f) == f = [s \in Small(k) |-> Summand(g, s, f)]
           T == {k \in Nat : \E f : Partial(k, f)}
<1>1. \A s \in SUBSET S : IsFiniteSet(s) /\ Cardinality(s) \in Nat
  BY FS_Subset, FS_CardinalityType
<1>2. 0 \in T
  <2>1. Small(0) = {{}}
    BY <1>1, FS_EmptySet
  <2> DEFINE f == [s \in Small(0) |-> 0]
  <2>2. f = [s \in Small(0) |-> Summand(g, s, f)]
    BY <2>1 DEF Summand
  <2> QED
    BY <2>2
<1>3. ASSUME NEW k \in Nat, k \in T PROVE k + 1 \in T
  <2>1. PICK f : Partial(k, f)
    BY <1>3
  <2> DEFINE h == [s \in Small(k + 1) |-> Summand(g, s, f)]
  <2>2. \A s \in Small(k) : f[s] = Summand(g, s, f) /\ s \in Small(k + 1)
    BY <2>1, <1>1
  <2>3. ASSUME NEW s \in Small(k + 1), s # {}
        PROVE  h[s \ {CHOOSE x \in s : TRUE}] = f[s \ {CHOOSE x \in s : TRUE}]
    <3> DEFINE c == CHOOSE x \in s : TRUE
    <3>1. c \in s
      BY <2>3
    <3> HIDE DEF c
    <3>2. s \ {c} \in SUBSET S /\ Cardinality(s \ {c}) = Cardinality(s) - 1
      BY <1>1, <3>1, FS_RemoveElement
    <3>3. s \ {c} \in Small(k)
      BY <1>1, <3>2
    <3>4. h[s \ {c}] = f[s \ {c}]
      BY <2>2, <3>3
    <3> QED
      BY <3>4 DEF c
  <2>4. ASSUME NEW s \in Small(k + 1)
        PROVE  h[s] = Summand(g, s, h)
    <3>1. h[s] = Summand(g, s, f)
      OBVIOUS
    <3> HIDE DEF h
    <3> QED
      BY <2>3, <3>1 DEF Summand
  <2>5. h = [s \in Small(k + 1) |-> h[s]]
    OBVIOUS
  <2> HIDE DEF h, Small
  <2>6. h = [s \in Small(k + 1) |-> Summand(g, s, h)]
    BY <2>4, <2>5
  <2> QED
    BY <2>6
<1> HIDE DEF T
<1>4. Nat \subseteq T
  BY <1>2, <1>3, Numbers
<1>5. Cardinality(S) \in Nat /\ Small(Cardinality(S)) = SUBSET S
  BY <1>1, FS_Subset
<1>6. PICK f : Partial(Cardinality(S), f)
  BY <1>4, <1>5 DEF T
<1>7. f = [s \in SUBSET S |-> Summand(g, s, f)]
  BY <1>5, <1>6
<1> QED
  BY <1>7 DEF Sums

\* It is the only one, even if two of them are defined on different sets.
LEMMA SumsAgree ==
    ASSUME NEW g, NEW S, NEW R, NEW e, NEW f, Sums(g, S, e), Sums(g, R, f),
           NEW U, U \subseteq S, U \subseteq R, IsFiniteSet(U)
    PROVE  e[U] = f[U]
<1> DEFINE T == {V \in SUBSET U : e[V] = f[V]}
<1>1. ASSUME NEW V \in SUBSET U, \A W \in SUBSET V : W # V => W \in T
      PROVE  V \in T
  <2>1. e[V] = Summand(g, V, e) /\ f[V] = Summand(g, V, f)
    BY DEF Sums
  <2>2. CASE V = {}
    BY <2>1, <2>2 DEF Summand
  <2>3. CASE V # {}
    <3> DEFINE c == CHOOSE x \in V : TRUE
    <3>1. c \in V
      BY <2>3
    <3>2. e[V \ {c}] = f[V \ {c}]
      <4> HIDE DEF c
      <4> QED
        BY <1>1, <3>1
    <3> QED
      BY <2>1, <2>3, <3>2 DEF Summand
  <2> QED
    BY <2>2, <2>3
<1> HIDE DEF T
<1>2. U \in T
  BY <1>1, Subsets
<1> QED
  BY <1>2 DEF T

\* How the sum over a finite set comes from the sum over a smaller one.
LEMMA SumUnfolds ==
    ASSUME NEW g, NEW S, IsFiniteSet(S)
    PROVE  SumFunctionOnSet(g, S) =
             IF S = {} THEN 0
             ELSE g[CHOOSE x \in S : TRUE]
                  + SumFunctionOnSet(g, S \ {CHOOSE x \in S : TRUE})
<1> DEFINE R == S \ {CHOOSE x \in S : TRUE}
           e == CHOOSE f : Sums(g, S, f)
           f == CHOOSE f : Sums(g, R, f)
<1>1. R \subseteq S /\ IsFiniteSet(R)
  BY FS_Subset
<1>2. Sums(g, S, e) /\ Sums(g, R, f)
  BY <1>1, SumsExist
<1>3. SumFunctionOnSet(g, S) = e[S] /\ SumFunctionOnSet(g, R) = f[R]
  BY SumIsChosen
<1> HIDE DEF e, f
<1>4. e[R] = f[R]
  BY <1>1, <1>2, SumsAgree
<1>5. e[S] = Summand(g, S, e)
  BY <1>2 DEF Sums
<1> QED
  BY <1>3, <1>4, <1>5 DEF Summand

\* The sum of numbers is a number.
LEMMA SumType ==
    ASSUME NEW S, IsFiniteSet(S), NEW g, \A x \in S : g[x] \in Int
    PROVE  SumFunctionOnSet(g, S) \in Int
<1> DEFINE T == {U \in SUBSET S : SumFunctionOnSet(g, U) \in Int}
<1>1. ASSUME NEW U \in SUBSET S, \A V \in SUBSET U : V # U => V \in T
      PROVE  U \in T
  <2>1. IsFiniteSet(U)
    BY FS_Subset
  <2>2. CASE U = {}
    <3>1. SumFunctionOnSet(g, U) = 0
      BY <2>1, <2>2, SumUnfolds
    <3> QED
      BY <3>1
  <2>3. CASE U # {}
    <3> DEFINE c == CHOOSE x \in U : TRUE
    <3>1. c \in U
      BY <2>3
    <3>2. SumFunctionOnSet(g, U) = g[c] + SumFunctionOnSet(g, U \ {c})
      BY <2>1, <2>3, SumUnfolds
    <3> HIDE DEF c
    <3>3. U \ {c} \in T /\ g[c] \in Int
      BY <1>1, <3>1
    <3> QED
      BY <3>2, <3>3
  <2> QED
    BY <2>2, <2>3
<1> HIDE DEF T
<1>2. S \in T
  BY <1>1, Subsets
<1> QED
  BY <1>2 DEF T

\* Any element may be taken out of a sum.
LEMMA SumWithout ==
    ASSUME NEW S, IsFiniteSet(S), NEW g, \A x \in S : g[x] \in Int,
           NEW a \in S
    PROVE  SumFunctionOnSet(g, S) = g[a] + SumFunctionOnSet(g, S \ {a})
<1> DEFINE Splits(U, x) ==
             SumFunctionOnSet(g, U) = g[x] + SumFunctionOnSet(g, U \ {x})
           T == {U \in SUBSET S : \A x \in U : Splits(U, x)}
<1>1. ASSUME NEW U \in SUBSET S, \A V \in SUBSET U : V # U => V \in T,
             NEW x \in U
      PROVE  Splits(U, x)
  <2>1. IsFiniteSet(U)
    BY FS_Subset
  <2> DEFINE c == CHOOSE y \in U : TRUE
  <2>2. c \in U /\ Splits(U, c)
    BY <2>1, SumUnfolds
  <2> HIDE DEF c
  <2>3. CASE c # x
    <3> DEFINE W == U \ {c, x}
    <3>1. /\ W = (U \ {c}) \ {x} /\ W = (U \ {x}) \ {c}
          /\ x \in U \ {c} /\ c \in U \ {x}
      BY <2>2, <2>3
    <3>2. Splits(U \ {c}, x) /\ Splits(U \ {x}, c)
      BY <1>1, <2>2, <3>1
    <3>3. SumFunctionOnSet(g, W) \in Int
      BY <2>1, FS_Subset, SumType
    <3> HIDE DEF W
    <3>4. g[c] \in Int /\ g[x] \in Int
      BY <2>2
    <3>5. /\ SumFunctionOnSet(g, U) = g[c] + (g[x] + SumFunctionOnSet(g, W))
          /\ SumFunctionOnSet(g, U \ {x}) = g[c] + SumFunctionOnSet(g, W)
      BY <2>2, <3>1, <3>2
    <3> QED
      BY <3>3, <3>4, <3>5
  <2> QED
    BY <2>2, <2>3
<1>2. \A U \in SUBSET S :
        (\A V \in SUBSET U : V # U => V \in T) => U \in T
  BY <1>1
<1> HIDE DEF T
<1>3. S \in T
  BY <1>2, Subsets
<1> QED
  BY <1>3 DEF T

\* Only the values on the set matter.
LEMMA SumSame ==
    ASSUME NEW S, IsFiniteSet(S), NEW g, NEW h,
           \A x \in S : g[x] \in Int /\ h[x] = g[x]
    PROVE  SumFunctionOnSet(h, S) = SumFunctionOnSet(g, S)
<1> DEFINE T == {U \in SUBSET S :
                   SumFunctionOnSet(h, U) = SumFunctionOnSet(g, U)}
<1>1. ASSUME NEW U \in SUBSET S, \A V \in SUBSET U : V # U => V \in T
      PROVE  U \in T
  <2>1. IsFiniteSet(U)
    BY FS_Subset
  <2>2. CASE U = {}
    BY <2>1, <2>2, SumUnfolds
  <2>3. CASE U # {}
    <3> DEFINE c == CHOOSE x \in U : TRUE
    <3>1. c \in U
      BY <2>3
    <3>2. /\ SumFunctionOnSet(g, U) = g[c] + SumFunctionOnSet(g, U \ {c})
          /\ SumFunctionOnSet(h, U) = h[c] + SumFunctionOnSet(h, U \ {c})
      BY <2>1, <2>3, SumUnfolds
    <3> HIDE DEF c
    <3>3. U \ {c} \in T /\ h[c] = g[c]
      BY <1>1, <3>1
    <3> QED
      BY <3>2, <3>3
  <2> QED
    BY <2>2, <2>3
<1> HIDE DEF T
<1>2. S \in T
  BY <1>1, Subsets
<1> QED
  BY <1>2 DEF T

\* A sum changes as the one element that changes.
LEMMA SumChanges ==
    ASSUME NEW S, IsFiniteSet(S), NEW g, NEW h, NEW a \in S,
           \A x \in S : g[x] \in Int /\ h[x] \in Int,
           \A x \in S \ {a} : h[x] = g[x]
    PROVE  SumFunctionOnSet(h, S) =
             SumFunctionOnSet(g, S) + (h[a] - g[a])
<1>1. IsFiniteSet(S \ {a})
  BY FS_RemoveElement
<1>2. SumFunctionOnSet(h, S \ {a}) = SumFunctionOnSet(g, S \ {a})
  BY <1>1, SumSame
<1>3. SumFunctionOnSet(g, S \ {a}) \in Int
  BY <1>1, SumType
<1>4. /\ SumFunctionOnSet(g, S) = g[a] + SumFunctionOnSet(g, S \ {a})
      /\ SumFunctionOnSet(h, S) = h[a] + SumFunctionOnSet(h, S \ {a})
  BY SumWithout
<1>5. g[a] \in Int /\ h[a] \in Int
  OBVIOUS
<1> QED
  BY <1>2, <1>3, <1>4, <1>5
\* A sum with one more element.
LEMMA SumWith ==
    ASSUME NEW S, IsFiniteSet(S), NEW a, a \notin S, NEW g,
           \A x \in S \cup {a} : g[x] \in Int
    PROVE  SumFunctionOnSet(g, S \cup {a}) = g[a] + SumFunctionOnSet(g, S)
<1>1. IsFiniteSet(S \cup {a}) /\ a \in S \cup {a} /\ (S \cup {a}) \ {a} = S
  BY FS_AddElement
<1>2. SumFunctionOnSet(g, S \cup {a}) =
        g[a] + SumFunctionOnSet(g, (S \cup {a}) \ {a})
  BY <1>1, SumWithout
<1> QED
  BY <1>1, <1>2

\* A sum over fewer elements is not larger, if none of them is negative.
LEMMA SumSubset ==
    ASSUME NEW S, IsFiniteSet(S), NEW g, \A x \in S : g[x] \in Nat,
           NEW R, R \subseteq S
    PROVE  SumFunctionOnSet(g, R) <= SumFunctionOnSet(g, S)
<1> DEFINE Sum(U) == SumFunctionOnSet(g, U)
           T == {U \in SUBSET S : Sum(R \cap U) <= Sum(U)}
<1>1. ASSUME NEW U \in SUBSET S, \A V \in SUBSET U : V # U => V \in T
      PROVE  U \in T
  <2>1. IsFiniteSet(U) /\ IsFiniteSet(R \cap U)
    BY FS_Subset
  <2>2. CASE U = {}
    <3>1. R \cap U = U /\ Sum(U) = 0
      BY <2>1, <2>2, SumUnfolds
    <3> QED
      BY <3>1
  <2>3. CASE U # {}
    <3>1. PICK c \in U : TRUE
      BY <2>3
    <3> DEFINE V == U \ {c}
    <3>2. /\ Sum(U) = g[c] + Sum(V) /\ g[c] \in Nat
          /\ Sum(V) \in Int /\ Sum(R \cap V) \in Int
      <4>1. IsFiniteSet(V) /\ IsFiniteSet(R \cap V) /\ V \subseteq S
        BY <2>1, FS_Subset
      <4>2. Sum(V) \in Int /\ Sum(R \cap V) \in Int
        BY <4>1, SumType
      <4>3. Sum(U) = g[c] + Sum(V)
        BY <2>1, SumWithout
      <4> QED
        BY <4>2, <4>3
    <3>3. Sum(R \cap V) <= Sum(V)
      BY <1>1, <3>1
    <3>4. Sum(R \cap U) \in {Sum(R \cap V), g[c] + Sum(R \cap V)}
      <4>1. CASE c \in R
        <5>1. c \in R \cap U /\ (R \cap U) \ {c} = R \cap V
          BY <3>1, <4>1
        <5>2. Sum(R \cap U) = g[c] + Sum((R \cap U) \ {c})
          BY <2>1, <5>1, SumWithout
        <5> QED
          BY <5>1, <5>2
      <4>2. CASE c \notin R
        <5>1. R \cap U = R \cap V
          BY <4>2
        <5> QED
          BY <5>1
      <4> QED
        BY <4>1, <4>2
    <3> HIDE DEF Sum, V
    <3>5. Sum(R \cap U) <= Sum(U)
      BY <3>2, <3>3, <3>4
    <3> QED
      BY <3>5
  <2> QED
    BY <2>2, <2>3
<1> HIDE DEF T
<1>2. S \in T
  BY <1>1, Subsets
<1>3. R \cap S = R
  OBVIOUS
<1> QED
  BY <1>2, <1>3 DEF T

-----------------------------------------------------------------------------
(* Sizes and positions.                                                    *)

\* No size is truncated to an unsigned int, no position to an int.
Wide ==
    /\ Requested < Limit \div 2
    /\ \A n \in ScriptSizes \cup KeySizes \cup {GlobalsSize} :
         Aligned(n) < Limit
    /\ \A i \in DOMAIN Structures : Aligned(Structures[i]) < Limit
    /\ \A n \in 0..Requested :
         Aligned(SegmentSize * n) < Limit /\ Aligned(PositionSize * n) < Limit

\* Alignment never makes a size smaller.
LEMMA AlignedIsEnough ==
    ASSUME NEW n \in Nat
    PROVE  Aligned(n) \in Nat /\ Aligned(n) >= n
<1> DEFINE q == (n + Alignment - 1) \div Alignment
           r == (n + Alignment - 1) % Alignment
<1>1. Alignment \in Nat \ {0}
  BY SizeAssumption
<1>2. n + Alignment - 1 \in Nat
  BY <1>1
<1>3. q \in Nat /\ r \in 0..(Alignment - 1) /\ n + Alignment - 1 = Alignment * q + r
  BY <1>1, <1>2
<1>4. q * Alignment = Alignment * q /\ Alignment * q \in Nat
  BY <1>1, <1>3
<1> HIDE DEF q, r
<1>5. Alignment * q >= n
  BY <1>1, <1>3, <1>4
<1> QED
  BY <1>4, <1>5 DEF Aligned, q
\* Facts of arithmetic that the layout of segments rests on.
LEMMA Division ==
    ASSUME NEW a \in Nat, NEW n \in Nat \ {0}
    PROVE  /\ a \div n \in Nat
           /\ \E r \in 0..(n - 1) : a = n * (a \div n) + r
<1> DEFINE q == a \div n
           r == a % n
<1>1. q \in Nat /\ r \in 0..(n - 1) /\ a = n * q + r
  OBVIOUS
<1> HIDE DEF q, r
<1>2. q \in Nat /\ \E s \in 0..(n - 1) : a = n * q + s
  BY <1>1
<1> QED
  BY <1>2 DEF q

LEMMA Quotient ==
    ASSUME NEW a \in Nat, NEW n \in Nat \ {0}
    PROVE  /\ a \div n \in Nat
           /\ (a \div n) * n \in Nat /\ (a \div n) * n <= a
<1> DEFINE q == a \div n
           r == a % n
<1>1. q \in Nat /\ r \in 0..(n - 1) /\ a = n * q + r
  OBVIOUS
<1> HIDE DEF q, r
<1>2. n * q \in Nat /\ n * q <= a /\ q * n = n * q
  BY <1>1
<1> QED
  BY <1>1, <1>2 DEF q

LEMMA Product ==
    ASSUME NEW a \in Nat, NEW b \in Nat, NEW n \in Nat, a <= b
    PROVE  a * n \in Nat /\ b * n \in Nat /\ a * n <= b * n
<1> DEFINE d == b - a
<1>1. d \in Nat /\ b = a + d
  OBVIOUS
<1> HIDE DEF d
<1>2. b * n = a * n + n * d /\ n * d \in Nat /\ a * n \in Nat
  BY <1>1
<1> QED
  BY <1>2

LEMMA Remainder ==
    ASSUME NEW a \in Nat, NEW n \in Nat \ {0}, a < n
    PROVE  a % n = a
<1> DEFINE q == a \div n
           r == a % n
<1>1. q \in Nat /\ r \in 0..(n - 1) /\ a = n * q + r
  OBVIOUS
<1> HIDE DEF q, r
<1>2. CASE q = 0
  <2>1. n * q = 0
    BY <1>2
  <2> QED
    BY <1>1, <2>1 DEF r
<1>3. CASE 1 <= q
  <2>1. 1 * n <= q * n
    BY <1>1, <1>3, Product
  <2>2. n * q = q * n /\ n * q \in Nat /\ 1 * n = n
    BY <1>1
  <2> QED
    BY <1>1, <2>1, <2>2
<1> QED
  BY <1>1, <1>2, <1>3

\* The segments of a model have sizes within the request, and positions at 0.
LEMMA LayoutsAreSegments ==
    ASSUME NEW h \in Handlers, NEW s \in Layouts(h)
    PROVE  /\ s \in Seq(Segment)
           /\ Len(s) \in 0..Requested
           /\ \A i \in DOMAIN s : s[i].size <= Requested /\ s[i].pos = 0
<1> USE SizeAssumption
<1>1. CASE s = OneSegment
  BY <1>1 DEF OneSegment, Segment
<1>2. ASSUME NEW n \in SegmentSizes, s = Layout(n)
      PROVE  /\ s \in Seq(Segment)
             /\ Len(s) \in 0..Requested
             /\ \A i \in DOMAIN s : s[i].size <= Requested /\ s[i].pos = 0
  <2> DEFINE q == (Requested - 1) \div n
  <2>1. n \in Nat \ {0} /\ Requested - 1 \in Nat
    BY DEF SegmentSizes, Halves
  <2>2. q \in Nat /\ q * n \in Nat /\ q * n <= Requested - 1
    BY <2>1, Quotient
  <2>3. q <= Requested - 1
    <3> HIDE DEF q
    <3>1. 1 <= n /\ n \in Nat /\ q \in Nat
      BY <2>1, <2>2
    <3>2. 1 * q <= n * q
      BY <3>1, Product
    <3> DEFINE u == q * n
    <3>3. n * q = u /\ 1 * q = q
      BY <3>1
    <3> HIDE DEF u
    <3>4. q <= u
      BY <3>2, <3>3
    <3>5. u \in Nat /\ u <= Requested - 1
      BY <2>2 DEF u
    <3> QED
      BY <3>1, <3>4, <3>5, <2>1
  <2>4. DOMAIN s = 1..(q + 1) /\ q + 1 \in 0..Requested
    <3>1. DOMAIN s = 1..(q + 1)
      BY <1>2 DEF Layout
    <3> HIDE DEF q
    <3> QED
      BY <3>1, <2>1, <2>2, <2>3
  <2> HIDE DEF q
  <2>5. ASSUME NEW i \in 1..(q + 1)
        PROVE  s[i].pos = 0 /\ s[i] \in Segment /\ s[i].size <= Requested
    <3>1. s[i] = [size |-> IF i * n <= Requested THEN n
                           ELSE Requested - (i - 1) * n, pos |-> 0]
      BY <1>2, <2>4, <2>5 DEF Layout
    <3>2. i * n \in Nat /\ i * n >= n
      <4>1. i \in Nat /\ 1 <= i
        BY <2>2, <2>5
      <4>2. 1 * n <= i * n /\ i * n \in Nat /\ 1 * n = n
        BY <4>1, <2>1, Product
      <4> QED
        BY <4>2
    <3>3. (i - 1) * n \in Nat /\ (i - 1) * n <= q * n
      <4>1. i - 1 \in Nat /\ i - 1 <= q
        BY <2>2, <2>5
      <4> QED
        BY <4>1, <2>1, <2>2, Product
    <3>4. /\ i * n <= Requested => n <= Requested
          /\ Requested - (i - 1) * n \in Nat
          /\ Requested - (i - 1) * n <= Requested
      <4> DEFINE u == i * n
                 v == (i - 1) * n
                 w == q * n
      <4>1. u \in Nat /\ n <= u /\ v \in Nat /\ v <= w /\ w \in Nat
            /\ w <= Requested - 1 /\ n \in Nat /\ Requested \in Nat
        BY <3>2, <3>3, <2>1, <2>2
      <4> HIDE DEF u, v, w
      <4>2. /\ u <= Requested => n <= Requested
            /\ Requested - v \in Nat /\ Requested - v <= Requested
        BY <4>1
      <4> QED
        BY <4>2 DEF u, v
    <3> QED
      BY <3>1, <3>4, <2>1 DEF Segment
  <2>6. s = [i \in 1..(q + 1) |-> s[i]]
    BY <1>2, <2>4 DEF Layout
  <2>7. s \in Seq(Segment) /\ Len(s) = q + 1
    <3>1. q + 1 \in Nat
      BY <2>2
    <3>2. s \in [1..(q + 1) -> Segment]
      BY <2>5, <2>6
    <3> DEFINE k == q + 1
    <3>3. k \in Nat /\ s \in [1..k -> Segment]
      BY <3>1, <3>2
    <3> HIDE DEF k
    <3>4. DOMAIN s = 1..k
      BY <3>3
    <3>5. s \in Seq(Segment)
      BY <3>3
    <3>6. Len(s) = k
      BY <3>3, <3>4, <3>5
    <3> QED
      BY <3>5, <3>6 DEF k
  <2> QED
    BY <2>4, <2>5, <2>7
<1> QED
  BY <1>1, <1>2 DEF Layouts

-----------------------------------------------------------------------------
(* The inductive invariant.                                                *)

SegmentsInv ==
    /\ Len(segments) \in 0..Requested
    /\ \A i \in DOMAIN segments :
         segments[i].pos <= segments[i].size /\ segments[i].size <= Requested

PhaseInv ==
    /\ phase = "create" => segments = <<>> /\ blocks = {}
    /\ phase \in {"create", "startup"} => \A b \in blocks : b.use = "startup"

\* A restart takes no position back behind a block of startup.
SavedInv ==
    phase = "running" =>
        /\ Len(saved.positions) = Len(segments)
        /\ \A i \in DOMAIN segments : saved.positions[i] <= segments[i].pos
        /\ \A b \in blocks : b.use = "startup" =>
              b.first + b.asked <= saved.positions[b.segment]

AllocInv == TypeOK /\ SegmentsInv /\ PhaseInv /\ SavedInv /\ BlocksDisjoint

\* What an allocation does to the segments and blocks.
LEMMA AllocateKeeps ==
    ASSUME AllocInv, NEW size \in Nat, Aligned(size) < Limit, NEW use \in Use,
           Allocate(size, use)
    PROVE  /\ segments' \in Seq(Segment) /\ Len(segments') = Len(segments)
           /\ \A j \in DOMAIN segments :
                /\ segments[j].pos <= segments'[j].pos
                /\ segments'[j].pos <= segments'[j].size
                /\ segments'[j].size = segments[j].size
           /\ shared_free' \in Nat
           /\ blocks' \subseteq Block
           /\ \A b \in blocks' : b \in blocks \/ b.use = use
           /\ BlocksDisjoint'
<1> DEFINE n == AsUnsigned(Aligned(size))
<1>1. n = Aligned(size) /\ n \in Nat /\ n >= size
  <2>1. Aligned(size) \in Nat /\ Aligned(size) >= size
    BY AlignedIsEnough
  <2> QED
    BY <2>1, Remainder, SizeAssumption DEF AsUnsigned
<1>2. /\ n <= shared_free
      /\ shared_free' = shared_free - n
  BY DEF Allocate
<1> DEFINE new(i) == [segment |-> i, first |-> segments[i].pos,
                      asked |-> size, use |-> use]
<1>3. PICK i \in Fits(n) :
        /\ segments' = [segments EXCEPT ![i].pos = @ + n]
        /\ blocks' = blocks \cup {new(i)}
  BY DEF Allocate
<1> HIDE DEF n
<1>4. /\ i \in DOMAIN segments /\ i \in Nat
      /\ segments[i] \in Segment
      /\ segments[i].size - segments[i].pos >= n
  BY <1>3 DEF Fits, Room, AllocInv, TypeOK
<1>5. /\ segments' = [j \in DOMAIN segments |->
            IF j = i THEN [segments[i] EXCEPT !.pos = segments[i].pos + n]
            ELSE segments[j]]
      /\ DOMAIN segments' = DOMAIN segments
  BY <1>3, <1>4
<1>6. \A j \in DOMAIN segments : segments[j] \in Segment
  BY DEF AllocInv, TypeOK
<1>7. \A j \in DOMAIN segments :
        /\ segments'[j] \in Segment
        /\ segments[j].pos <= segments'[j].pos
        /\ segments'[j].pos <= segments'[j].size
        /\ segments'[j].size = segments[j].size
        /\ j = i => segments'[j].pos = segments[j].pos + n
  BY <1>1, <1>4, <1>5, <1>6 DEF Segment, AllocInv, SegmentsInv
<1>8. segments' \in Seq(Segment) /\ Len(segments') = Len(segments)
  <2>1. DOMAIN segments = 1..Len(segments) /\ Len(segments) \in Nat
    BY DEF AllocInv, TypeOK
  <2>2. segments' \in [1..Len(segments) -> Segment]
    BY <1>5, <1>7, <2>1
  <2> QED
    BY <2>1, <2>2
<1>9. shared_free' \in Nat
  BY <1>1, <1>2 DEF AllocInv, TypeOK
<1>10. new(i) \in Block /\ blocks \subseteq Block
  BY <1>4 DEF Block, Segment, AllocInv, TypeOK
<1>11. BlocksDisjoint'
  <2>1. \A b \in blocks :
          /\ b \in Block /\ b.segment \in DOMAIN segments
          /\ b.first + b.asked <= segments[b.segment].pos
    BY <1>10 DEF AllocInv, BlocksDisjoint
  <2>2. \A b \in blocks' :
          /\ b.segment \in DOMAIN segments' /\ b.first >= 0
          /\ b.first + b.asked <= segments'[b.segment].pos
          /\ segments'[b.segment].pos <= segments'[b.segment].size
    <3>1. ASSUME NEW b \in blocks
          PROVE  /\ b.segment \in DOMAIN segments' /\ b.first >= 0
                 /\ b.first + b.asked <= segments'[b.segment].pos
                 /\ segments'[b.segment].pos <= segments'[b.segment].size
      BY <2>1, <1>5, <1>6, <1>7 DEF Block, Segment
    <3>2. /\ new(i).segment \in DOMAIN segments' /\ new(i).first >= 0
          /\ new(i).first + new(i).asked <= segments'[new(i).segment].pos
          /\ segments'[new(i).segment].pos <= segments'[new(i).segment].size
      BY <1>1, <1>4, <1>5, <1>7 DEF Segment
    <3> QED
      BY <1>3, <3>1, <3>2
  <2>3. ASSUME NEW b \in blocks', NEW c \in blocks', b # c,
               b.segment = c.segment
        PROVE  b.first + b.asked <= c.first \/ c.first + c.asked <= b.first
    <3>1. CASE b \in blocks /\ c \in blocks
      BY <3>1, <2>3 DEF AllocInv, BlocksDisjoint
    <3>2. CASE b = new(i) /\ c \in blocks
      BY <3>2, <2>1, <2>3
    <3>3. CASE c = new(i) /\ b \in blocks
      BY <3>3, <2>1, <2>3
    <3> QED
      BY <1>3, <2>3, <3>1, <3>2, <3>3
  <2> QED
    BY <2>2, <2>3 DEF BlocksDisjoint
<1> QED
  BY <1>3, <1>7, <1>8, <1>9, <1>10, <1>11

LEMMA StartupSizesFit ==
    ASSUME AllocInv, Wide, NEW n \in DOMAIN StartupSizes
    PROVE  StartupSizes[n] \in Nat /\ Aligned(StartupSizes[n]) < Limit
<1> DEFINE k == Len(segments)
           first == <<GlobalsSize, SegmentSize * k, PositionSize * k>>
<1>1. k \in 0..Requested /\ k \in Nat
  BY SizeAssumption DEF AllocInv, SegmentsInv
<1>2. SegmentSize * k \in Nat /\ PositionSize * k \in Nat /\ GlobalsSize \in Nat
  BY <1>1, SizeAssumption
<1>3. /\ Aligned(GlobalsSize) < Limit
      /\ Aligned(SegmentSize * k) < Limit /\ Aligned(PositionSize * k) < Limit
  BY <1>1 DEF Wide
<1>4. StartupSizes = first \o Structures
  BY DEF StartupSizes
<1> HIDE DEF k
<1>5. first \in Seq(Nat) /\ Len(first) = 3
  BY <1>2
<1>6. Structures \in Seq(Nat) /\ Len(Structures) \in Nat
  BY SizeAssumption
<1>7. n \in 1..(3 + Len(Structures))
  BY <1>4, <1>5, <1>6
<1>8. CASE n \in 1..3
  <2>1. StartupSizes[n] = first[n]
    BY <1>4, <1>5, <1>6, <1>8
  <2>2. n = 1 \/ n = 2 \/ n = 3
    BY <1>8
  <2> QED
    BY <1>2, <1>3, <2>1, <2>2
<1>9. CASE n \notin 1..3
  <2>1. n - 3 \in DOMAIN Structures /\ StartupSizes[n] = Structures[n - 3]
    BY <1>4, <1>5, <1>6, <1>7, <1>9
  <2> QED
    BY <1>6, <2>1 DEF Wide
<1> QED
  BY <1>8, <1>9

LEMMA PositionsFit ==
    ASSUME AllocInv, Wide, NEW i \in DOMAIN segments
    PROVE  AsInt(segments[i].pos) = segments[i].pos
<1> DEFINE x == segments[i].pos
<1>1. x \in Nat /\ x <= Requested
  <2>1. segments[i] \in Segment
    BY DEF AllocInv, TypeOK
  <2>2. x <= segments[i].size /\ segments[i].size <= Requested
    BY DEF AllocInv, SegmentsInv
  <2>3. Requested \in Nat
    BY SizeAssumption
  <2> QED
    BY <2>1, <2>2, <2>3 DEF Segment
<1>2. x < Limit \div 2 /\ x < Limit
  BY <1>1, SizeAssumption DEF Wide
<1>3. x % Limit = x
  BY <1>1, <1>2, Remainder, SizeAssumption
<1> QED
  BY <1>2, <1>3 DEF AsInt

-----------------------------------------------------------------------------
(* The steps.                                                              *)

LEMMA InitAlloc ==
    Init => AllocInv
<1> SUFFICES ASSUME Init PROVE AllocInv
  OBVIOUS
<1>1. segments = <<>> /\ blocks = {} /\ phase = "create"
  BY DEF Init
<1>2. TypeOK
  <2>1. /\ <<>> \in Seq(Segment) /\ <<>> \in Seq(Nat)
        /\ {} \subseteq Block /\ Requested \in Nat
    BY SizeAssumption
  <2> QED
    BY <2>1 DEF Init, TypeOK
<1>3. SegmentsInv
  <2>1. Len(segments) = 0 /\ DOMAIN segments = {} /\ Requested \in Nat
    BY <1>1, SizeAssumption
  <2> QED
    BY <2>1 DEF SegmentsInv
<1> QED
  BY <1>1, <1>2, <1>3 DEF AllocInv, PhaseInv, SavedInv, BlocksDisjoint

LEMMA CreateAlloc ==
    ASSUME AllocInv, Create PROVE AllocInv'
<1> USE DEF Create
<1>1. segments = <<>> /\ blocks = {} /\ blocks' = {}
  BY DEF AllocInv, PhaseInv
<1>2. CASE phase' = "failed" /\ UNCHANGED segments
  BY <1>1, <1>2, SizeAssumption
     DEF AllocInv, TypeOK, SegmentsInv, PhaseInv, SavedInv, BlocksDisjoint
<1>3. ASSUME phase' = "startup",
             NEW h \in Handlers, segments' \in Layouts(h)
      PROVE  AllocInv'
  <2>1. /\ segments' \in Seq(Segment) /\ Len(segments') \in 0..Requested
        /\ \A i \in DOMAIN segments' :
             segments'[i].size <= Requested /\ segments'[i].pos = 0
    BY <1>3, LayoutsAreSegments
  <2>2. \A i \in DOMAIN segments' : segments'[i] \in Segment
    BY <2>1
  <2> QED
    BY <1>1, <1>3, <2>1, <2>2
       DEF AllocInv, TypeOK, SegmentsInv, PhaseInv, SavedInv, BlocksDisjoint,
           Segment
<1> QED
  BY <1>2, <1>3

LEMMA StartupAlloc ==
    ASSUME AllocInv, Wide, Startup PROVE AllocInv'
<1> DEFINE size == StartupSizes[Cardinality(blocks) + 1]
<1>1. /\ phase = "startup"
      /\ UNCHANGED <<wasted_shared_memory, memory_exhausted, saved,
                     restart_pending, hash_full>>
      /\ size \in Nat /\ Aligned(size) < Limit
  BY StartupSizesFit DEF Startup
<1>2. CASE Allocate(size, "startup") /\ UNCHANGED phase
  <2>1. "startup" \in Use
    BY DEF Use
  <2> HIDE DEF size
  <2>2. /\ segments' \in Seq(Segment) /\ Len(segments') = Len(segments)
        /\ \A j \in DOMAIN segments :
             /\ segments[j].pos <= segments'[j].pos
             /\ segments'[j].pos <= segments'[j].size
             /\ segments'[j].size = segments[j].size
        /\ shared_free' \in Nat
        /\ blocks' \subseteq Block
        /\ \A b \in blocks' : b \in blocks \/ b.use = "startup"
        /\ BlocksDisjoint'
    BY <1>1, <1>2, <2>1, AllocateKeeps
  <2>3. DOMAIN segments' = DOMAIN segments
    BY <2>2 DEF AllocInv, TypeOK
  <2> QED
    BY <1>1, <1>2, <2>2, <2>3
       DEF AllocInv, TypeOK, SegmentsInv, PhaseInv, SavedInv
<1>3. CASE phase' = "failed" /\ UNCHANGED <<segments, shared_free, blocks>>
  BY <1>1, <1>3
     DEF AllocInv, TypeOK, SegmentsInv, PhaseInv, SavedInv, BlocksDisjoint
<1> QED
  BY <1>2, <1>3 DEF Startup

LEMMA SaveAlloc ==
    ASSUME AllocInv, Wide, zend_shared_alloc_save_state PROVE AllocInv'
<1> USE DEF zend_shared_alloc_save_state
<1>1. \A i \in DOMAIN segments : segments[i] \in Segment
  BY DEF AllocInv, TypeOK
<1>2. saved'.positions = [i \in DOMAIN segments |-> segments[i].pos]
  BY PositionsFit
<1>3. DOMAIN segments = 1..Len(segments) /\ Len(segments) \in Nat
  BY DEF AllocInv, TypeOK
<1>4. saved'.positions \in Seq(Nat) /\ Len(saved'.positions) = Len(segments)
  <2>1. saved'.positions \in [1..Len(segments) -> Nat]
    BY <1>1, <1>2, <1>3 DEF Segment
  <2> QED
    BY <1>3, <2>1
<1>5. saved' \in [positions : Seq(Nat), shared_free : Nat]
  BY <1>4 DEF AllocInv, TypeOK
<1>6. SavedInv'
  BY <1>1, <1>2, <1>4 DEF SavedInv, AllocInv, BlocksDisjoint, Segment
<1> QED
  BY <1>5, <1>6
     DEF AllocInv, TypeOK, SegmentsInv, PhaseInv, BlocksDisjoint

\* An allocation of the running cache, that succeeds or fails.
LEMMA RequestAlloc ==
    ASSUME AllocInv, NEW size \in Nat, Aligned(size) < Limit,
           NEW use \in {"key", "script"}, phase = "running",
           Taken(size, use) \/ Failed(size),
           UNCHANGED <<phase, saved, hash_full>>
    PROVE  AllocInv'
<1>1. CASE Taken(size, use)
  <2>1. /\ use \in Use /\ use # "startup"
        /\ Allocate(size, use)
        /\ UNCHANGED <<wasted_shared_memory, memory_exhausted,
                       restart_pending>>
    BY <1>1 DEF Use, Taken
  <2>2. /\ segments' \in Seq(Segment) /\ Len(segments') = Len(segments)
        /\ \A j \in DOMAIN segments :
             /\ segments[j].pos <= segments'[j].pos
             /\ segments'[j].pos <= segments'[j].size
             /\ segments'[j].size = segments[j].size
        /\ shared_free' \in Nat
        /\ blocks' \subseteq Block
        /\ \A b \in blocks' : b \in blocks \/ b.use = use
        /\ BlocksDisjoint'
    BY <2>1, AllocateKeeps
  <2>3. DOMAIN segments' = DOMAIN segments
    BY <2>2 DEF AllocInv, TypeOK
  <2>4. TypeOK'
    BY <2>1, <2>2 DEF AllocInv, TypeOK
  <2>5. SavedInv'
    <3>1. \A j \in DOMAIN segments :
            /\ saved.positions[j] \in Nat
            /\ segments[j] \in Segment /\ segments'[j] \in Segment
      <4>1. saved.positions \in Seq(Nat)
            /\ Len(saved.positions) = Len(segments)
        BY DEF AllocInv, TypeOK, SavedInv
      <4> QED
        BY <4>1, <2>2, <2>3 DEF AllocInv, TypeOK
    <3>2. \A j \in DOMAIN segments : saved.positions[j] <= segments'[j].pos
      BY <2>2, <3>1 DEF AllocInv, SavedInv, Segment
    <3> QED
      BY <2>1, <2>2, <2>3, <3>2 DEF AllocInv, SavedInv
  <2> QED
    BY <2>2, <2>3, <2>4, <2>5 DEF AllocInv, SegmentsInv, PhaseInv
<1>2. CASE Failed(size)
  BY <1>2
     DEF Failed, ScheduleIf, ExhaustedBy, LargestIsSmall, AllocInv, TypeOK,
         SegmentsInv, PhaseInv, SavedInv, BlocksDisjoint
<1> QED
  BY <1>1, <1>2

LEMMA CorruptAlloc ==
    ASSUME AllocInv, Corrupt PROVE AllocInv'
<1>1. PICK b \in blocks :
        /\ b.use = "script"
        /\ blocks' = (blocks \ {b}) \cup {[b EXCEPT !.use = "corrupted"]}
        /\ wasted_shared_memory' = wasted_shared_memory + Aligned(b.asked)
  BY DEF Corrupt
<1> DEFINE c == [b EXCEPT !.use = "corrupted"]
<1>2. /\ phase = "running" /\ ScheduleIf(memory_exhausted)
      /\ UNCHANGED <<phase, segments, shared_free, memory_exhausted, saved,
                     hash_full>>
  BY DEF Corrupt
<1>3. b \in Block /\ blocks \subseteq Block
  BY DEF AllocInv, TypeOK
<1>4. /\ c \in Block /\ c.use = "corrupted"
      /\ c.segment = b.segment /\ c.first = b.first /\ c.asked = b.asked
  BY <1>3 DEF Block, Use
<1> HIDE DEF c
<1>5. blocks' = (blocks \ {b}) \cup {c}
  BY <1>1 DEF c
<1>6. wasted_shared_memory' \in Nat
  <2>1. Aligned(b.asked) \in Nat
    BY <1>3, AlignedIsEnough DEF Block
  <2> QED
    BY <1>1, <2>1 DEF AllocInv, TypeOK
<1>7. TypeOK'
  BY <1>2, <1>3, <1>4, <1>5, <1>6 DEF AllocInv, TypeOK, ScheduleIf
<1>8. BlocksDisjoint'
  <2>1. \A d \in blocks' :
          /\ d.segment \in DOMAIN segments
          /\ d.first >= 0
          /\ d.first + d.asked <= segments[d.segment].pos
          /\ segments[d.segment].pos <= segments[d.segment].size
    BY <1>4, <1>5 DEF AllocInv, BlocksDisjoint
  <2>2. ASSUME NEW d \in blocks', NEW e \in blocks', d # e,
               d.segment = e.segment
        PROVE  d.first + d.asked <= e.first \/ e.first + e.asked <= d.first
    <3>1. CASE d = c
      BY <1>4, <1>5, <2>2, <3>1 DEF AllocInv, BlocksDisjoint
    <3>2. CASE e = c
      BY <1>4, <1>5, <2>2, <3>2 DEF AllocInv, BlocksDisjoint
    <3>3. CASE d # c /\ e # c
      BY <1>5, <2>2, <3>3 DEF AllocInv, BlocksDisjoint
    <3> QED
      BY <3>1, <3>2, <3>3
  <2> QED
    BY <1>2, <2>1, <2>2 DEF BlocksDisjoint
<1>9. SegmentsInv' /\ PhaseInv' /\ SavedInv'
  BY <1>2, <1>4, <1>5 DEF AllocInv, SegmentsInv, PhaseInv, SavedInv
<1> QED
  BY <1>7, <1>8, <1>9 DEF AllocInv

LEMMA RestartAlloc ==
    ASSUME AllocInv, Restart PROVE AllocInv'
<1> USE DEF Restart
<1>1. /\ segments' = [i \in DOMAIN segments |->
                         [segments[i] EXCEPT !.pos = saved.positions[i]]]
      /\ DOMAIN segments' = DOMAIN segments
  BY DEF Restored
<1>2. /\ saved.positions \in Seq(Nat) /\ saved.shared_free \in Nat
      /\ Len(saved.positions) = Len(segments)
      /\ DOMAIN segments = 1..Len(segments) /\ Len(segments) \in Nat
  BY DEF AllocInv, TypeOK, SavedInv
<1>3. \A i \in DOMAIN segments :
        /\ saved.positions[i] \in Nat /\ segments[i] \in Segment
        /\ saved.positions[i] <= segments[i].pos
  BY <1>2 DEF AllocInv, TypeOK, SavedInv
<1>4. \A i \in DOMAIN segments :
        /\ segments'[i] \in Segment
        /\ segments'[i].pos = saved.positions[i]
        /\ segments'[i].size = segments[i].size
  BY <1>1, <1>3 DEF Segment
<1>5. segments' \in Seq(Segment) /\ Len(segments') = Len(segments)
  <2>1. segments' \in [1..Len(segments) -> Segment]
    BY <1>1, <1>2, <1>4
  <2> QED
    BY <1>2, <2>1
<1>6. TypeOK'
  BY <1>2, <1>5 DEF AllocInv, TypeOK
<1>7. SegmentsInv'
  BY <1>1, <1>3, <1>4, <1>5 DEF AllocInv, SegmentsInv, Segment
<1>8. SavedInv' /\ PhaseInv'
  BY <1>1, <1>2, <1>3, <1>4, <1>5 DEF AllocInv, SavedInv, PhaseInv
<1>9. BlocksDisjoint'
  <2>1. ASSUME NEW b \in blocks'
        PROVE  /\ b.segment \in DOMAIN segments'
               /\ b.first >= 0
               /\ b.first + b.asked <= segments'[b.segment].pos
               /\ segments'[b.segment].pos <= segments'[b.segment].size
    <3>1. b \in blocks /\ b.use = "startup" /\ b.segment \in DOMAIN segments
      BY DEF AllocInv, BlocksDisjoint
    <3>2. b.first + b.asked <= saved.positions[b.segment] /\ b.first >= 0
      BY <3>1 DEF AllocInv, SavedInv, BlocksDisjoint
    <3> QED
      BY <1>1, <1>4, <1>7, <3>1, <3>2 DEF SegmentsInv
  <2> QED
    BY <2>1 DEF AllocInv, BlocksDisjoint
<1> QED
  BY <1>6, <1>7, <1>8, <1>9 DEF AllocInv

-----------------------------------------------------------------------------
(* The theorems.                                                           *)

LEMMA NextAlloc ==
    ASSUME AllocInv, Wide, [Next]_vars PROVE AllocInv'
<1>1. CASE Create
  BY <1>1, CreateAlloc
<1>2. CASE Startup
  BY <1>2, StartupAlloc
<1>3. CASE zend_shared_alloc_save_state
  BY <1>3, SaveAlloc
<1>4. CASE StoreScript
  <2>1. PICK size \in ScriptSizes : Taken(size, "script") \/ Failed(size)
    BY <1>4 DEF StoreScript
  <2>2. size \in Nat /\ Aligned(size) < Limit
    BY SizeAssumption DEF Wide
  <2>3. phase = "running" /\ UNCHANGED <<phase, saved, hash_full>>
    BY <1>4 DEF StoreScript
  <2> QED
    BY <2>1, <2>2, <2>3, RequestAlloc
<1>5. CASE AddKey
  <2>1. PICK size \in KeySizes : Taken(size, "key") \/ Failed(size)
    BY <1>5 DEF AddKey
  <2>2. size \in Nat /\ Aligned(size) < Limit
    BY SizeAssumption DEF Wide
  <2>3. phase = "running" /\ UNCHANGED <<phase, saved, hash_full>>
    BY <1>5 DEF AddKey
  <2> QED
    BY <2>1, <2>2, <2>3, RequestAlloc
<1>6. CASE HashFull
  BY <1>6
     DEF HashFull, ScheduleIf, AllocInv, TypeOK, SegmentsInv, PhaseInv,
         SavedInv, BlocksDisjoint
<1>7. CASE Corrupt
  BY <1>7, CorruptAlloc
<1>8. CASE opcache_reset
  BY <1>8
     DEF opcache_reset, AllocInv, TypeOK, SegmentsInv, PhaseInv, SavedInv,
         BlocksDisjoint
<1>9. CASE Restart
  BY <1>9, RestartAlloc
<1>10. CASE UNCHANGED vars
  BY <1>10
     DEF vars, AllocInv, TypeOK, SegmentsInv, PhaseInv, SavedInv,
         BlocksDisjoint
<1> QED
  BY <1>1, <1>2, <1>3, <1>4, <1>5, <1>6, <1>7, <1>8, <1>9, <1>10 DEF Next

\* The invariant holds, if the widths suffice.
THEOREM AllocInvHolds == Wide => (Spec => []AllocInv)
<1> SUFFICES ASSUME Wide PROVE Spec => []AllocInv
  OBVIOUS
<1>1. Init => AllocInv
  BY InitAlloc
<1>2. AllocInv /\ [Next]_vars => AllocInv'
  BY NextAlloc
<1> QED
  BY <1>1, <1>2, PTL DEF Spec

\* The types, and with them that no position or size ever becomes negative.
THEOREM AllocTypeCorrect == Wide => (Spec => []TypeOK)
<1>1. AllocInv => TypeOK
  BY DEF AllocInv
<1> QED
  BY <1>1, AllocInvHolds, PTL

\* Blocks lie within their segments, apart from each other, and those of
\* startup survive every restart.
THEOREM BlocksDisjointAlways == Wide => (Spec => []BlocksDisjoint)
<1>1. AllocInv => BlocksDisjoint
  BY DEF AllocInv
<1> QED
  BY <1>1, AllocInvHolds, PTL

\* A cache that is exhausted and wasteful is about to restart, whatever the
\* widths and sizes, so that it cannot stay full of waste.
THEOREM ExhaustedWasteRestartsAlways == Spec => []ExhaustedWasteRestarts
<1> DEFINE Quiet == phase # "running" =>
                       ~memory_exhausted /\ wasted_shared_memory = 0
<1>1. Init => ExhaustedWasteRestarts /\ Quiet
  BY DEF Init, ExhaustedWasteRestarts
<1>2. ASSUME ExhaustedWasteRestarts, Quiet, [Next]_vars
      PROVE  ExhaustedWasteRestarts' /\ Quiet'
  <2>1. CASE Create \/ Startup \/ zend_shared_alloc_save_state
    BY <1>2, <2>1 DEF Create, Startup, zend_shared_alloc_save_state,
                      ExhaustedWasteRestarts
  <2>2. /\ ScheduleIf(TRUE) => ExhaustedWasteRestarts'
        /\ ScheduleIf(memory_exhausted) /\ memory_exhausted
              => ExhaustedWasteRestarts'
    <3>1. ScheduleIf(TRUE) => ExhaustedWasteRestarts'
      BY Zenon DEF ScheduleIf, ExhaustedWasteRestarts, Wasteful
    <3>2. ASSUME ScheduleIf(memory_exhausted), memory_exhausted
          PROVE  ExhaustedWasteRestarts'
      BY <3>2, Zenon DEF ScheduleIf, ExhaustedWasteRestarts, Wasteful
    <3> QED
      BY <3>1, <3>2
  <2>3. CASE StoreScript \/ AddKey
    <3>1. phase = "running" /\ UNCHANGED phase
      BY <2>3 DEF StoreScript, AddKey
    <3>2. PICK size \in ScriptSizes \cup KeySizes :
            Taken(size, "script") \/ Taken(size, "key") \/ Failed(size)
      BY <2>3 DEF StoreScript, AddKey
    <3>3. CASE Failed(size)
      BY <2>2, <3>1, <3>3 DEF Failed, ExhaustedWasteRestarts
    <3>4. CASE Taken(size, "script") \/ Taken(size, "key")
      BY <1>2, <3>1, <3>4 DEF Taken, ExhaustedWasteRestarts
    <3> QED
      BY <3>2, <3>3, <3>4
  <2>4. CASE HashFull
    BY <2>2, <2>4 DEF HashFull
  <2>5. CASE Corrupt
    BY <2>2, <2>5 DEF Corrupt, ExhaustedWasteRestarts
  <2>6. CASE opcache_reset \/ Restart
    BY <1>2, <2>6 DEF opcache_reset, Restart, ExhaustedWasteRestarts
  <2>7. CASE UNCHANGED vars
    BY <1>2, <2>7 DEF vars, ExhaustedWasteRestarts
  <2> QED
    BY <1>2, <2>1, <2>3, <2>4, <2>5, <2>6, <2>7 DEF Next
<1> QED
  BY <1>1, <1>2, PTL DEF Spec

-----------------------------------------------------------------------------
(* The account of free memory.                                             *)

\* What was left in each segment when the state was saved.
SavedRooms == [i \in DOMAIN segments |->
                  segments[i].size - saved.positions[i]]

\* FreeIsExact is not inductive: a restart sets the number and the positions
\* to what was saved, which must belong together too.
FreeInv ==
    /\ FreeIsExact
    /\ phase = "create" => shared_free = Requested
    /\ phase = "startup" => shared_free = SumFunction(Rooms)
    /\ phase = "running" => saved.shared_free = SumFunction(SavedRooms)

\* The sizes of the segments of a layout add up to the memory requested.
LEMMA LayoutsAreWhole ==
    ASSUME NEW h \in Handlers, NEW s \in Layouts(h)
    PROVE  SumFunction([i \in DOMAIN s |-> s[i].size]) = Requested
<1> USE SizeAssumption
<1> DEFINE g == [i \in DOMAIN s |-> s[i].size]
<1>1. CASE s = OneSegment
  <2>1. DOMAIN g = {1} /\ g[1] = Requested
    BY <1>1 DEF OneSegment
  <2> HIDE DEF g
  <2>2. IsFiniteSet({1}) /\ IsFiniteSet({}) /\ {1} \ {1} = {}
    BY FS_EmptySet, FS_Singleton
  <2>3. SumFunctionOnSet(g, {}) = 0
    BY <2>2, SumUnfolds
  <2>4. SumFunctionOnSet(g, {1}) = g[1] + SumFunctionOnSet(g, {})
    <3>1. 1 \in {1} /\ \A x \in {1} : g[x] \in Int
      BY <2>1
    <3> QED
      BY <2>2, <3>1, SumWithout
  <2> QED
    BY <2>1, <2>3, <2>4 DEF SumFunction, g
<1>2. ASSUME NEW n \in SegmentSizes, s = Layout(n)
      PROVE  SumFunction(g) = Requested
  <2> DEFINE a == Requested - 1
             q == a \div n
  <2>1. n \in Nat \ {0} /\ a \in Nat
    BY DEF SegmentSizes, Halves
  <2>2. q \in Nat /\ \E r \in 0..(n - 1) : a = n * q + r
    <3> HIDE DEF a
    <3> QED
      BY <2>1, Division
  <2> HIDE DEF q
  <2>2a. PICK r \in 0..(n - 1) : a = n * q + r
    BY <2>2
  <2>3. DOMAIN s = 1..(q + 1)
    BY <1>2 DEF Layout, q
  <2>4. \A i \in 1..(q + 1) :
          g[i] = IF i * n <= Requested THEN n ELSE Requested - (i - 1) * n
    BY <1>2, <2>3 DEF Layout
  <2> HIDE DEF g
  <2> DEFINE Sum(k) == SumFunctionOnSet(g, 1..k)
             T == {k \in Nat : k <= q + 1 =>
                     Sum(k) = IF k * n <= Requested THEN k * n ELSE Requested}
  <2>5. \A k \in Nat : k * n \in Nat
    BY <2>1
  <2>6. \A i \in 1..(q + 1) : g[i] \in Int
    <3> SUFFICES ASSUME NEW i \in 1..(q + 1) PROVE g[i] \in Int
      OBVIOUS
    <3>1. i - 1 \in Nat /\ (i - 1) * n \in Nat
      <4>1. i - 1 \in Nat
        BY <2>2
      <4> QED
        BY <4>1, <2>5
    <3> DEFINE v == (i - 1) * n
    <3>2. Requested - v \in Int /\ n \in Int
      <4>1. v \in Nat
        BY <3>1
      <4> HIDE DEF v
      <4> QED
        BY <4>1, <2>1
    <3> QED
      BY <2>4, <3>2
  <2>7. 0 \in T
    <3>1. 1..0 = {} /\ 0 * n = 0
      BY <2>1
    <3>2. Sum(0) = 0
      BY <3>1, FS_EmptySet, SumUnfolds
    <3> QED
      BY <3>1, <3>2
  <2>8. ASSUME NEW k \in Nat, k \in T PROVE k + 1 \in T
    <3> SUFFICES ASSUME k + 1 <= q + 1
                 PROVE  Sum(k + 1) = IF (k + 1) * n <= Requested
                                     THEN (k + 1) * n ELSE Requested
      OBVIOUS
    <3>1. k <= q /\ k * n \in Nat /\ k * n <= Requested - 1
      <4>1. k <= q
        BY <2>2
      <4>2. k * n <= q * n /\ k * n \in Nat
        BY <4>1, <2>1, <2>2, Product
      <4> DEFINE u == k * n
                 v == n * q
      <4>3. q * n = v /\ v \in Nat
        BY <2>1, <2>2
      <4>4. u <= v /\ u \in Nat /\ a = v + r
        BY <4>2, <4>3, <2>2a
      <4> HIDE DEF u, v, a
      <4>5. u <= a
        BY <4>3, <4>4, <2>1
      <4> QED
        BY <4>1, <4>4, <4>5 DEF u, a
    <3>2. Sum(k) = k * n
      <4>1. k <= q + 1
        BY <3>1, <2>2
      <4>2. Sum(k) = IF k * n <= Requested THEN k * n ELSE Requested
        BY <4>1, <2>8
      <4> DEFINE u == k * n
      <4>3. u <= Requested
        <5>1. u \in Nat /\ u <= Requested - 1
          BY <3>1
        <5> HIDE DEF u
        <5> QED
          BY <5>1
      <4> QED
        BY <4>2, <4>3
    <3>3. (k + 1) * n = k * n + n /\ (k + 1) - 1 = k
      BY <2>1
    <3>4. g[k + 1] = IF (k + 1) * n <= Requested THEN n
                     ELSE Requested - k * n
      BY <2>2, <2>4, <3>1, <3>3
    <3>5. /\ IsFiniteSet(1..(k + 1)) /\ k + 1 \in 1..(k + 1)
          /\ (1..(k + 1)) \ {k + 1} = 1..k
          /\ 1..(k + 1) \subseteq 1..(q + 1)
      <4>1. IsFiniteSet(1..(k + 1))
        BY FS_Interval
      <4>2. k \in Nat /\ q \in Nat /\ k + 1 <= q + 1
        BY <2>2
      <4>3. (1..(k + 1)) \ {k + 1} = 1..k
        BY <4>2
      <4>4. k + 1 \in 1..(k + 1) /\ 1..(k + 1) \subseteq 1..(q + 1)
        BY <4>2
      <4> QED
        BY <4>1, <4>3, <4>4
    <3>6. Sum(k + 1) = g[k + 1] + Sum(k)
      <4>1. \A i \in 1..(k + 1) : g[i] \in Int
        BY <2>6, <3>5
      <4>2. SumFunctionOnSet(g, 1..(k + 1)) =
              g[k + 1] + SumFunctionOnSet(g, (1..(k + 1)) \ {k + 1})
        BY <4>1, <3>5, SumWithout
      <4> QED
        BY <4>2, <3>5
    <3> DEFINE u == k * n
               w == (k + 1) * n
    <3>7. u \in Nat /\ n \in Nat
      BY <2>1
    <3> HIDE DEF u, w, Sum
    <3>8. /\ Sum(k + 1) = g[k + 1] + u
          /\ g[k + 1] = IF u + n <= Requested THEN n ELSE Requested - u
          /\ w = u + n
      BY <3>2, <3>3, <3>4, <3>6 DEF u, w
    <3>9. Sum(k + 1) = IF w <= Requested THEN w ELSE Requested
      BY <3>7, <3>8
    <3> QED
      BY <3>9 DEF w
  <2> HIDE DEF T
  <2>9. q + 1 \in T
    BY <2>2, <2>7, <2>8, Numbers
  <2>10. (q + 1) * n >= Requested
    <3>1. (q + 1) * n = n * q + n
      BY <2>1, <2>2
    <3> DEFINE v == n * q
    <3>2. v \in Nat
      BY <2>1, <2>2
    <3> HIDE DEF v
    <3>3. v + n >= Requested
      BY <3>2, <2>1, <2>2 DEF v
    <3> QED
      BY <3>1, <3>3 DEF v
  <2>11. Sum(q + 1) = Requested
    <3> DEFINE w == (q + 1) * n
    <3>1. Sum(q + 1) = IF w <= Requested THEN w ELSE Requested
      BY <2>2, <2>9 DEF T
    <3>2. w \in Nat /\ w >= Requested
      BY <2>2, <2>5, <2>10
    <3> HIDE DEF w, Sum
    <3> QED
      BY <3>1, <3>2
  <2>12. DOMAIN g = 1..(q + 1)
    BY <2>3 DEF g
  <2> QED
    BY <2>11, <2>12 DEF SumFunction
<1> QED
  BY <1>1, <1>2 DEF Layouts, g

\* What AllocInv says of the segments that a sum needs.
LEMMA SegmentsAreFinite ==
    ASSUME AllocInv
    PROVE  /\ IsFiniteSet(DOMAIN segments)
           /\ \A i \in DOMAIN segments :
                segments[i] \in Segment /\ Room(i) \in Int
<1>1. DOMAIN segments = 1..Len(segments) /\ Len(segments) \in Nat
  BY DEF AllocInv, TypeOK
<1>2. IsFiniteSet(1..Len(segments))
  BY <1>1, FS_Interval
<1>3. \A i \in DOMAIN segments : segments[i] \in Segment
  BY DEF AllocInv, TypeOK
<1> QED
  BY <1>1, <1>2, <1>3 DEF Segment, Room

\* An allocation takes as much from one segment as from shared_free.
LEMMA AllocateCounts ==
    ASSUME AllocInv, FreeInv, NEW size \in Nat, Aligned(size) < Limit,
           NEW use \in Use, Allocate(size, use)
    PROVE  /\ shared_free' = SumFunction(Rooms')
           /\ saved' = saved => SavedRooms' = SavedRooms
<1> DEFINE n == AsUnsigned(Aligned(size))
<1>1. n \in Nat
  <2>1. Aligned(size) \in Nat
    BY AlignedIsEnough
  <2> QED
    BY <2>1, Remainder, SizeAssumption DEF AsUnsigned
<1>2. PICK i \in Fits(n) : segments' = [segments EXCEPT ![i].pos = @ + n]
  BY DEF Allocate
<1>3. shared_free' = shared_free - n
  BY DEF Allocate
<1> HIDE DEF n
<1>4. /\ IsFiniteSet(DOMAIN segments)
      /\ \A j \in DOMAIN segments :
           segments[j] \in Segment /\ Room(j) \in Int
  BY SegmentsAreFinite
<1>5. i \in DOMAIN segments /\ segments # <<>>
  BY <1>2 DEF Fits
<1>6. /\ segments' = [j \in DOMAIN segments |->
            IF j = i THEN [segments[i] EXCEPT !.pos = segments[i].pos + n]
            ELSE segments[j]]
      /\ DOMAIN segments' = DOMAIN segments
  BY <1>2, <1>5
<1>7. /\ \A j \in DOMAIN segments : segments'[j].size = segments[j].size
      /\ \A j \in DOMAIN segments \ {i} : segments'[j].pos = segments[j].pos
      /\ segments'[i].pos = segments[i].pos + n
  BY <1>4, <1>5, <1>6 DEF Segment
<1>8. /\ DOMAIN Rooms = DOMAIN segments /\ DOMAIN Rooms' = DOMAIN segments
      /\ \A j \in DOMAIN segments :
           /\ Rooms[j] = segments[j].size - segments[j].pos
           /\ Rooms'[j] = segments'[j].size - segments'[j].pos
  BY <1>6 DEF Rooms, Room
<1>9. /\ \A j \in DOMAIN segments : Rooms[j] \in Int /\ Rooms'[j] \in Int
      /\ \A j \in DOMAIN segments \ {i} : Rooms'[j] = Rooms[j]
      /\ Rooms'[i] - Rooms[i] = -n
  <2>1. \A j \in DOMAIN segments :
          segments[j].size \in Int /\ segments[j].pos \in Int
    BY <1>4 DEF Segment
  <2>2. \A j \in DOMAIN segments : segments'[j].pos \in Int
    BY <1>1, <1>7, <2>1
  <2>3. \A j \in DOMAIN segments : Rooms[j] \in Int /\ Rooms'[j] \in Int
    BY <1>7, <1>8, <2>1, <2>2
  <2>4. \A j \in DOMAIN segments \ {i} : Rooms'[j] = Rooms[j]
    BY <1>7, <1>8
  <2>5. /\ Rooms[i] = segments[i].size - segments[i].pos
        /\ Rooms'[i] = segments[i].size - (segments[i].pos + n)
    BY <1>5, <1>7, <1>8
  <2>6. Rooms'[i] - Rooms[i] = -n
    BY <1>1, <1>5, <2>1, <2>5
  <2> QED
    BY <2>3, <2>4, <2>6
<1> DEFINE r == Rooms
           s == Rooms'
<1>10. SumFunctionOnSet(s, DOMAIN segments) =
         SumFunctionOnSet(r, DOMAIN segments) + (s[i] - r[i])
  <2>1. /\ \A j \in DOMAIN segments : r[j] \in Int /\ s[j] \in Int
        /\ \A j \in DOMAIN segments \ {i} : s[j] = r[j]
    BY <1>9
  <2> HIDE DEF r, s
  <2> QED
    BY <1>4, <1>5, <2>1, SumChanges
<1>11. SumFunctionOnSet(r, DOMAIN segments) = shared_free
  BY <1>5, <1>8 DEF FreeInv, FreeIsExact, SumFunction
<1>12. shared_free' = SumFunction(Rooms')
  <2>1. shared_free \in Int
    BY DEF AllocInv, TypeOK
  <2>2. SumFunctionOnSet(s, DOMAIN segments) = shared_free - n
    BY <1>1, <1>9, <1>10, <1>11, <2>1
  <2> QED
    BY <1>3, <1>8, <2>2 DEF SumFunction
<1>13. ASSUME saved' = saved PROVE SavedRooms' = SavedRooms
  BY <1>6, <1>7, <1>13 DEF SavedRooms
<1> QED
  BY <1>12, <1>13

\* A step that leaves the segments, what is free of them and what was saved
\* of them alone.
LEMMA FreeUnchanged ==
    ASSUME FreeInv, UNCHANGED <<segments, shared_free, saved>>,
           phase' \in {phase, "failed"}
    PROVE  FreeInv'
BY DEF FreeInv, FreeIsExact, Rooms, Room, SavedRooms

\* Every step keeps the account.
LEMMA FreeStep ==
    ASSUME AllocInv, FreeInv, Wide, [Next]_vars
    PROVE  FreeInv'
<1>1. CASE Create
  <2>1. phase = "create" /\ UNCHANGED <<shared_free, saved>>
    BY <1>1 DEF Create
  <2>2. CASE phase' = "failed" /\ UNCHANGED segments
    BY <2>1, <2>2, FreeUnchanged
  <2>3. ASSUME phase' = "startup",
               NEW h \in Handlers, segments' \in Layouts(h)
        PROVE  FreeInv'
    <3>1. shared_free' = Requested
      BY <2>1 DEF FreeInv
    <3>2. /\ segments' \in Seq(Segment)
          /\ \A i \in DOMAIN segments' :
               segments'[i].pos = 0 /\ segments'[i] \in Segment
      BY <2>3, LayoutsAreSegments
    <3>3. Rooms' = [i \in DOMAIN segments' |-> segments'[i].size]
      BY <3>2 DEF Rooms, Room, Segment
    <3>4. SumFunction(Rooms') = Requested
      BY <2>3, <3>3, LayoutsAreWhole
    <3> QED
      BY <2>3, <3>1, <3>4 DEF FreeInv, FreeIsExact
  <2> QED
    BY <1>1, <2>2, <2>3 DEF Create
<1>2. CASE Startup
  <2> DEFINE size == StartupSizes[Cardinality(blocks) + 1]
  <2>1. /\ phase = "startup" /\ saved' = saved
        /\ size \in Nat /\ Aligned(size) < Limit
    BY <1>2, StartupSizesFit DEF Startup
  <2>2. CASE Allocate(size, "startup") /\ UNCHANGED phase
    <3>1. "startup" \in Use
      BY DEF Use
    <3> HIDE DEF size
    <3> QED
      BY <2>1, <2>2, <3>1, AllocateCounts DEF FreeInv, FreeIsExact
  <2>3. CASE phase' = "failed" /\ UNCHANGED <<segments, shared_free, blocks>>
    BY <2>1, <2>3, FreeUnchanged
  <2> QED
    BY <1>2, <2>2, <2>3 DEF Startup
<1>3. CASE zend_shared_alloc_save_state
  <2>1. /\ phase' = "running" /\ UNCHANGED <<segments, shared_free>>
        /\ saved'.shared_free = shared_free
        /\ saved'.positions = [i \in DOMAIN segments |-> segments[i].pos]
    BY <1>3, PositionsFit DEF zend_shared_alloc_save_state
  <2>2. Rooms' = Rooms /\ SavedRooms' = Rooms
    BY <2>1 DEF Rooms, Room, SavedRooms
  <2>3. phase = "startup"
    BY <1>3 DEF zend_shared_alloc_save_state
  <2> QED
    BY <2>1, <2>2, <2>3 DEF FreeInv, FreeIsExact
<1>4. CASE StoreScript \/ AddKey
  <2>1. /\ phase = "running" /\ UNCHANGED <<phase, saved>>
        /\ \E size \in ScriptSizes \cup KeySizes, use \in {"script", "key"} :
             Taken(size, use) \/ Failed(size)
    BY <1>4 DEF StoreScript, AddKey
  <2>2. PICK size \in ScriptSizes \cup KeySizes, use \in {"script", "key"} :
          Taken(size, use) \/ Failed(size)
    BY <2>1
  <2>3. size \in Nat /\ Aligned(size) < Limit /\ use \in Use
    BY SizeAssumption DEF Wide, Use
  <2>4. CASE Taken(size, use)
    <3>1. shared_free' = SumFunction(Rooms') /\ SavedRooms' = SavedRooms
      BY <2>1, <2>3, <2>4, AllocateCounts DEF Taken
    <3> QED
      BY <2>1, <3>1 DEF FreeInv, FreeIsExact
  <2>5. CASE Failed(size)
    BY <2>1, <2>5, FreeUnchanged DEF Failed
  <2> QED
    BY <2>2, <2>4, <2>5
<1>5. CASE HashFull \/ Corrupt \/ opcache_reset \/ UNCHANGED vars
  BY <1>5, FreeUnchanged DEF HashFull, Corrupt, opcache_reset, vars
<1>6. CASE Restart
  <2>1. /\ phase = "running" /\ UNCHANGED <<phase, saved>>
        /\ segments' = [i \in DOMAIN segments |->
                           [segments[i] EXCEPT !.pos = saved.positions[i]]]
        /\ shared_free' = saved.shared_free
    BY <1>6 DEF Restart, Restored
  <2>2. \A i \in DOMAIN segments : segments[i] \in Segment
    BY SegmentsAreFinite
  <2>3. /\ DOMAIN segments' = DOMAIN segments
        /\ \A i \in DOMAIN segments :
             /\ segments'[i].size = segments[i].size
             /\ segments'[i].pos = saved.positions[i]
    BY <2>1, <2>2 DEF Segment
  <2>4. Rooms' = SavedRooms /\ SavedRooms' = SavedRooms
    BY <2>1, <2>3 DEF Rooms, Room, SavedRooms
  <2> QED
    BY <2>1, <2>4 DEF FreeInv, FreeIsExact
<1> QED
  BY <1>1, <1>2, <1>3, <1>4, <1>5, <1>6 DEF Next

LEMMA FreeInvHolds == Wide => (Spec => []FreeInv)
<1> SUFFICES ASSUME Wide PROVE Spec => []FreeInv
  OBVIOUS
<1>1. Init => FreeInv
  BY DEF Init, FreeInv, FreeIsExact
<1>2. AllocInv /\ FreeInv /\ [Next]_vars => FreeInv'
  BY FreeStep
<1> QED
  BY <1>1, <1>2, AllocInvHolds, PTL DEF Spec

\* ZSMMG(shared_free), by which zend_shared_alloc gives up without a look at
\* the segments, is what is left in them, after any number of allocations
\* from any of them and of restarts.
THEOREM FreeIsExactAlways == Wide => (Spec => []FreeIsExact)
<1>1. FreeInv => FreeIsExact
  BY DEF FreeInv
<1> QED
  BY <1>1, FreeInvHolds, PTL

-----------------------------------------------------------------------------
(* The account of wasted memory.                                           *)

\* What requests have taken since startup.
Lent == {b \in blocks : b.use # "startup"}

\* That waste is no more than what is taken needs an account of everything
\* that is taken, and a restart gives all of it back.
WasteInv ==
    /\ IsFiniteSet(blocks)
    /\ \A b \in Lent : b.asked > 0
    /\ wasted_shared_memory = SumFunctionOnSet(Lengths, Garbage)
    /\ shared_free <= Requested
    /\ phase # "running" => Lent = {}
    /\ phase = "running" =>
         /\ saved.shared_free <= Requested
         /\ shared_free + SumFunctionOnSet(Lengths, Lent) = saved.shared_free

LEMMA LengthsAreNumbers ==
    ASSUME AllocInv
    PROVE  \A b \in blocks : Lengths[b] = Aligned(b.asked) /\ Lengths[b] \in Nat
<1>1. \A b \in blocks : b.asked \in Nat
  BY DEF AllocInv, TypeOK, Block
<1>2. \A b \in blocks : Aligned(b.asked) \in Nat
  BY <1>1, AlignedIsEnough
<1> QED
  BY <1>2 DEF Lengths

\* The waste is part of what is taken.
LEMMA WasteIsTaken ==
    AllocInv /\ WasteInv => WasteIsCorrupted
<1> SUFFICES ASSUME AllocInv, WasteInv PROVE WasteIsCorrupted
  OBVIOUS
<1>1. Garbage \subseteq Lent /\ Lent \subseteq blocks
  BY DEF Garbage, Lent
<1>2. IsFiniteSet(Lent) /\ \A b \in Lent : Lengths[b] \in Nat
  BY <1>1, FS_Subset, LengthsAreNumbers DEF WasteInv
<1>3. /\ SumFunctionOnSet(Lengths, Garbage) <= SumFunctionOnSet(Lengths, Lent)
      /\ SumFunctionOnSet(Lengths, Lent) \in Int
  BY <1>1, <1>2, SumSubset, SumType
<1>4. shared_free \in Nat /\ Requested \in Nat /\ wasted_shared_memory \in Nat
  BY SizeAssumption DEF AllocInv, TypeOK
<1>5. CASE phase = "running"
  <2> DEFINE lent == SumFunctionOnSet(Lengths, Lent)
  <2>1. /\ saved.shared_free <= Requested
        /\ shared_free + lent = saved.shared_free
        /\ wasted_shared_memory <= lent /\ lent \in Int
    BY <1>3, <1>5 DEF WasteInv
  <2> HIDE DEF lent
  <2>2. wasted_shared_memory <= Requested - shared_free
    BY <1>4, <2>1
  <2> QED
    BY <2>2 DEF WasteIsCorrupted, WasteInv
<1>6. CASE phase # "running"
  <2>1. Garbage = {} /\ shared_free <= Requested
    BY <1>1, <1>6 DEF WasteInv
  <2>2. wasted_shared_memory = 0
    BY <2>1, FS_EmptySet, SumUnfolds DEF WasteInv
  <2>3. wasted_shared_memory <= Requested - shared_free
    BY <1>4, <2>1, <2>2
  <2> QED
    BY <2>3 DEF WasteIsCorrupted, WasteInv
<1> QED
  BY <1>5, <1>6

\* A block that is new takes its length from shared_free, and is no garbage.
LEMMA LendKeeps ==
    ASSUME AllocInv, AllocInv', WasteInv,
           NEW size \in Nat \ {0}, Aligned(size) < Limit,
           NEW use \in {"key", "script"}, Allocate(size, use),
           phase = "running",
           UNCHANGED <<phase, saved, wasted_shared_memory>>
    PROVE  WasteInv'
<1> DEFINE n == AsUnsigned(Aligned(size))
<1>1. n = Aligned(size) /\ n \in Nat
  <2>1. Aligned(size) \in Nat
    BY AlignedIsEnough
  <2> QED
    BY <2>1, Remainder, SizeAssumption DEF AsUnsigned
<1> DEFINE new(i) == [segment |-> i, first |-> segments[i].pos,
                      asked |-> size, use |-> use]
<1>2. PICK i \in Fits(n) : blocks' = blocks \cup {new(i)}
  BY DEF Allocate
<1>3. shared_free' = shared_free - n
  BY DEF Allocate
<1> HIDE DEF n
<1> DEFINE a == new(i)
<1>4. a.use = use /\ a.asked = size /\ a.segment = i
      /\ a.first = segments[i].pos
  OBVIOUS
<1>5. a \notin blocks
  <2>1. i \in DOMAIN segments /\ segments[i].pos \in Nat
    BY <1>2, SegmentsAreFinite DEF Fits, Segment
  <2> SUFFICES ASSUME a \in blocks PROVE FALSE
    OBVIOUS
  <2>2. a.first + a.asked <= segments[a.segment].pos
    BY DEF AllocInv, BlocksDisjoint
  <2> QED
    BY <1>4, <2>1, <2>2
<1>6. blocks' = blocks \cup {a}
  BY <1>2
<1> HIDE DEF a
<1>7. Garbage' = Garbage /\ Lent' = Lent \cup {a} /\ a \notin Lent
  BY <1>4, <1>5, <1>6 DEF Garbage, Lent
<1>8. /\ \A b \in blocks : Lengths[b] \in Nat /\ Lengths'[b] = Lengths[b]
      /\ Lengths'[a] = n
  <2>1. \A b \in blocks : Lengths[b] = Aligned(b.asked) /\ Lengths[b] \in Nat
    BY LengthsAreNumbers
  <2>2. \A b \in blocks' : Lengths'[b] = Aligned(b.asked)
    BY DEF Lengths
  <2> QED
    BY <1>1, <1>4, <1>6, <2>1, <2>2
<1>9. /\ IsFiniteSet(blocks) /\ IsFiniteSet(blocks')
      /\ IsFiniteSet(Garbage) /\ IsFiniteSet(Lent)
      /\ Garbage \subseteq blocks /\ Lent \subseteq blocks
  <2>1. Garbage \subseteq blocks /\ Lent \subseteq blocks
    BY DEF Garbage, Lent
  <2> QED
    BY <1>6, <2>1, FS_Subset, FS_AddElement DEF WasteInv
<1> DEFINE g == Lengths
           h == Lengths'
<1>10. /\ SumFunctionOnSet(h, Garbage) = SumFunctionOnSet(g, Garbage)
       /\ SumFunctionOnSet(h, Lent) = SumFunctionOnSet(g, Lent)
       /\ SumFunctionOnSet(g, Lent) \in Int
       /\ SumFunctionOnSet(h, Lent \cup {a}) = n + SumFunctionOnSet(h, Lent)
  <2>1. /\ \A b \in blocks : g[b] \in Int /\ h[b] = g[b]
        /\ h[a] = n
    BY <1>8
  <2> HIDE DEF g, h
  <2>2. /\ SumFunctionOnSet(h, Garbage) = SumFunctionOnSet(g, Garbage)
        /\ SumFunctionOnSet(h, Lent) = SumFunctionOnSet(g, Lent)
    BY <1>9, <2>1, SumSame
  <2>3. SumFunctionOnSet(g, Lent) \in Int
    BY <1>9, <2>1, SumType
  <2>4. \A b \in Lent \cup {a} : h[b] \in Int
    BY <1>1, <1>9, <2>1
  <2>5. SumFunctionOnSet(h, Lent \cup {a}) = h[a] + SumFunctionOnSet(h, Lent)
    BY <1>7, <1>9, <2>4, SumWith
  <2> QED
    BY <2>1, <2>2, <2>3, <2>5
<1>11. wasted_shared_memory' = SumFunctionOnSet(Lengths', Garbage')
  BY <1>7, <1>10 DEF WasteInv
<1>12. /\ shared_free' <= Requested
       /\ saved.shared_free <= Requested
       /\ shared_free' + SumFunctionOnSet(Lengths', Lent')
            = saved.shared_free
  <2> DEFINE s == SumFunctionOnSet(g, Lent)
  <2>1. /\ shared_free <= Requested /\ saved.shared_free <= Requested
        /\ shared_free + s = saved.shared_free
    BY DEF WasteInv
  <2>2. shared_free \in Nat /\ Requested \in Nat /\ s \in Int
    BY <1>10, SizeAssumption DEF AllocInv, TypeOK
  <2>3. SumFunctionOnSet(Lengths', Lent') = n + s
    BY <1>7, <1>10
  <2> HIDE DEF s
  <2> QED
    BY <1>1, <1>3, <2>1, <2>2, <2>3
<1>13. \A b \in Lent' : b.asked > 0
  BY <1>4, <1>7 DEF WasteInv
<1> QED
  BY <1>9, <1>11, <1>12, <1>13 DEF WasteInv

\* A script that becomes garbage was none before, and is still taken.
LEMMA CorruptKeeps ==
    ASSUME AllocInv, WasteInv, Corrupt
    PROVE  WasteInv'
<1>1. PICK b \in blocks :
        /\ b.use = "script"
        /\ blocks' = (blocks \ {b}) \cup {[b EXCEPT !.use = "corrupted"]}
        /\ wasted_shared_memory' = wasted_shared_memory + Aligned(b.asked)
  BY DEF Corrupt
<1> DEFINE c == [b EXCEPT !.use = "corrupted"]
<1>2. phase = "running" /\ UNCHANGED <<phase, shared_free, saved>>
  BY DEF Corrupt
<1>3. b \in Block /\ blocks \subseteq Block
  BY DEF AllocInv, TypeOK
<1>4. /\ c.use = "corrupted" /\ c # b
      /\ c.segment = b.segment /\ c.first = b.first /\ c.asked = b.asked
  BY <1>1, <1>3 DEF Block
<1> HIDE DEF c
<1>5. blocks' = (blocks \ {b}) \cup {c}
  BY <1>1 DEF c
<1>6. b.asked \in Nat /\ b.first \in Nat /\ b.asked > 0 /\ b \in Lent
  BY <1>1, <1>3 DEF Block, WasteInv, Lent
<1>7. c \notin blocks
  BY <1>4, <1>6 DEF AllocInv, BlocksDisjoint
<1>8. /\ Garbage' = Garbage \cup {c} /\ c \notin Garbage
      /\ Lent' = (Lent \ {b}) \cup {c} /\ c \notin Lent
      /\ b \notin Garbage
      /\ Garbage \subseteq blocks /\ Lent \subseteq blocks
  BY <1>1, <1>4, <1>5, <1>7 DEF Garbage, Lent
<1>9. /\ IsFiniteSet(blocks') /\ IsFiniteSet(Garbage)
      /\ IsFiniteSet(Lent) /\ IsFiniteSet(Lent \ {b})
  BY <1>5, <1>8, FS_Subset, FS_AddElement, FS_RemoveElement DEF WasteInv
<1> DEFINE n == Aligned(b.asked)
           g == Lengths
           h == Lengths'
<1>10. /\ \A d \in blocks : g[d] \in Int
       /\ \A d \in blocks \ {b} : h[d] = g[d]
       /\ g[b] = n /\ h[c] = n
  <2>1. \A d \in blocks : Lengths[d] = Aligned(d.asked) /\ Lengths[d] \in Nat
    BY LengthsAreNumbers
  <2>2. \A d \in blocks' : Lengths'[d] = Aligned(d.asked)
    BY DEF Lengths
  <2> QED
    BY <1>4, <1>5, <2>1, <2>2
<1> HIDE DEF n, g, h
<1>11. n \in Int
  BY <1>10
<1>12. SumFunctionOnSet(h, Garbage \cup {c})
         = n + SumFunctionOnSet(g, Garbage)
  <2>1. \A d \in Garbage : g[d] \in Int /\ h[d] = g[d]
    BY <1>8, <1>10
  <2>2. SumFunctionOnSet(h, Garbage) = SumFunctionOnSet(g, Garbage)
    BY <1>9, <2>1, SumSame
  <2>3. \A d \in Garbage \cup {c} : h[d] \in Int
    BY <1>10, <1>11, <2>1
  <2>4. SumFunctionOnSet(h, Garbage \cup {c})
          = h[c] + SumFunctionOnSet(h, Garbage)
    BY <1>8, <1>9, <2>3, SumWith
  <2> QED
    BY <1>10, <2>2, <2>4
<1>13. SumFunctionOnSet(h, (Lent \ {b}) \cup {c}) = SumFunctionOnSet(g, Lent)
  <2> DEFINE R == Lent \ {b}
  <2>1. \A d \in R : g[d] \in Int /\ h[d] = g[d]
    BY <1>8, <1>10
  <2>2. SumFunctionOnSet(h, R) = SumFunctionOnSet(g, R)
    BY <1>9, <2>1, SumSame
  <2>3. \A d \in R \cup {c} : h[d] \in Int
    BY <1>10, <1>11, <2>1
  <2>4. SumFunctionOnSet(h, R \cup {c}) = h[c] + SumFunctionOnSet(h, R)
    <3>1. c \notin R /\ IsFiniteSet(R)
      BY <1>8, <1>9
    <3> QED
      BY <2>3, <3>1, SumWith
  <2>5. SumFunctionOnSet(g, Lent) = g[b] + SumFunctionOnSet(g, R)
    <3>1. \A d \in Lent : g[d] \in Int
      BY <1>8, <1>10
    <3> QED
      BY <1>6, <1>9, <3>1, SumWithout
  <2> QED
    BY <1>10, <2>2, <2>4, <2>5
<1>14. wasted_shared_memory' = SumFunctionOnSet(Lengths', Garbage')
  <2> DEFINE s == SumFunctionOnSet(g, Garbage)
  <2>1. wasted_shared_memory' = s + n
    BY <1>1 DEF WasteInv, n, g
  <2>2. s \in Int
    <3>1. \A d \in Garbage : g[d] \in Int
      BY <1>8, <1>10
    <3> QED
      BY <1>9, <3>1, SumType
  <2>3. SumFunctionOnSet(Lengths', Garbage') = n + s
    BY <1>8, <1>12 DEF h
  <2> HIDE DEF s
  <2> QED
    BY <1>11, <2>1, <2>2, <2>3
<1>15. SumFunctionOnSet(Lengths', Lent') = SumFunctionOnSet(Lengths, Lent)
  BY <1>8, <1>13 DEF g, h
<1>16. \A d \in Lent' : d.asked > 0
  BY <1>4, <1>6, <1>8 DEF WasteInv
<1> QED
  BY <1>2, <1>9, <1>14, <1>15, <1>16 DEF WasteInv

\* A step that gives no block, makes no garbage and does not begin to run.
LEMMA WasteUnchanged ==
    ASSUME WasteInv, UNCHANGED <<shared_free, blocks, saved>>,
           wasted_shared_memory' = wasted_shared_memory,
           phase' = "running" <=> phase = "running"
    PROVE  WasteInv'
BY DEF WasteInv, Lengths, Garbage, Lent

\* Every step keeps both accounts.
LEMMA WasteStep ==
    ASSUME AllocInv, AllocInv', WasteInv, Wide, [Next]_vars
    PROVE  WasteInv'
<1>1. CASE Create
  BY <1>1, WasteUnchanged DEF Create
<1>2. CASE Startup
  <2> DEFINE size == StartupSizes[Cardinality(blocks) + 1]
  <2>1. /\ phase = "startup"
        /\ UNCHANGED <<wasted_shared_memory, saved>>
        /\ size \in Nat /\ Aligned(size) < Limit
    BY <1>2, StartupSizesFit DEF Startup
  <2>2. CASE Allocate(size, "startup") /\ UNCHANGED phase
    <3> DEFINE n == AsUnsigned(Aligned(size))
               new(i) == [segment |-> i, first |-> segments[i].pos,
                          asked |-> size, use |-> "startup"]
    <3>1. shared_free' = shared_free - n /\ n \in Nat
      <4>1. Aligned(size) \in Nat
        BY <2>1, AlignedIsEnough
      <4> QED
        BY <2>1, <2>2, <4>1, Remainder, SizeAssumption
           DEF AsUnsigned, Allocate
    <3>2. PICK i \in Fits(n) : blocks' = blocks \cup {new(i)}
      BY <2>2 DEF Allocate
    <3>3. IsFiniteSet(blocks')
      BY <3>2, FS_AddElement DEF WasteInv
    <3>4. new(i).use = "startup" /\ Lent = {}
      BY <2>1 DEF WasteInv
    <3> HIDE DEF n, new
    <3>5. Lent' = {} /\ Garbage' = {} /\ Garbage = {}
      BY <3>2, <3>4 DEF Lent, Garbage
    <3>6. /\ SumFunctionOnSet(Lengths', {}) = 0
          /\ SumFunctionOnSet(Lengths, {}) = 0
      BY FS_EmptySet, SumUnfolds
    <3>7. shared_free' <= Requested
      <4>1. shared_free <= Requested /\ shared_free \in Nat
            /\ Requested \in Nat
        BY SizeAssumption DEF WasteInv, AllocInv, TypeOK
      <4> QED
        BY <3>1, <4>1
    <3> QED
      BY <2>1, <2>2, <3>3, <3>5, <3>6, <3>7 DEF WasteInv
  <2>3. CASE phase' = "failed" /\ UNCHANGED <<segments, shared_free, blocks>>
    BY <2>1, <2>3, WasteUnchanged
  <2> QED
    BY <1>2, <2>2, <2>3 DEF Startup
<1>3. CASE zend_shared_alloc_save_state
  <2>1. /\ phase = "startup"
        /\ UNCHANGED <<shared_free, blocks, wasted_shared_memory>>
        /\ saved'.shared_free = shared_free
    BY <1>3 DEF zend_shared_alloc_save_state
  <2>2. /\ Lengths' = Lengths /\ Garbage' = Garbage
        /\ Lent' = Lent /\ Lent = {}
    BY <2>1 DEF Lengths, Garbage, Lent, WasteInv
  <2>3. SumFunctionOnSet(Lengths, {}) = 0
    BY FS_EmptySet, SumUnfolds
  <2>4. shared_free \in Nat
    BY DEF AllocInv, TypeOK
  <2> QED
    BY <2>1, <2>2, <2>3, <2>4 DEF WasteInv
<1>4. CASE StoreScript \/ AddKey
  <2>1. /\ phase = "running" /\ UNCHANGED <<phase, saved>>
        /\ \E size \in ScriptSizes \cup KeySizes, use \in {"script", "key"} :
             Taken(size, use) \/ Failed(size)
    BY <1>4 DEF StoreScript, AddKey
  <2>2. PICK size \in ScriptSizes \cup KeySizes, use \in {"script", "key"} :
          Taken(size, use) \/ Failed(size)
    BY <2>1
  <2>3. size \in Nat \ {0} /\ Aligned(size) < Limit
    BY SizeAssumption DEF Wide
  <2>4. CASE Taken(size, use)
    BY <2>1, <2>3, <2>4, LendKeeps DEF Taken
  <2>5. CASE Failed(size)
    BY <2>1, <2>5, WasteUnchanged DEF Failed
  <2> QED
    BY <2>2, <2>4, <2>5
<1>5. CASE HashFull \/ opcache_reset \/ UNCHANGED vars
  BY <1>5, WasteUnchanged DEF HashFull, opcache_reset, vars
<1>6. CASE Corrupt
  BY <1>6, CorruptKeeps
<1>7. CASE Restart
  <2>1. /\ phase = "running" /\ UNCHANGED <<phase, saved>>
        /\ shared_free' = saved.shared_free /\ wasted_shared_memory' = 0
        /\ blocks' = {b \in blocks : b.use = "startup"}
    BY <1>7 DEF Restart
  <2>2. Lent' = {} /\ Garbage' = {} /\ IsFiniteSet(blocks')
    BY <2>1, FS_Subset DEF Lent, Garbage, WasteInv
  <2>3. SumFunctionOnSet(Lengths', {}) = 0
    BY FS_EmptySet, SumUnfolds
  <2>4. saved.shared_free \in Nat /\ saved.shared_free <= Requested
    BY <2>1 DEF AllocInv, TypeOK, WasteInv
  <2> QED
    BY <2>1, <2>2, <2>3, <2>4 DEF WasteInv
<1> QED
  BY <1>1, <1>2, <1>3, <1>4, <1>5, <1>6, <1>7 DEF Next

\* ZSMMG(wasted_shared_memory) is the memory of the corrupted scripts, each
\* counted once and forgotten by a restart, and part of what was taken since
\* startup.
THEOREM WasteIsCorruptedAlways == Wide => (Spec => []WasteIsCorrupted)
<1> SUFFICES ASSUME Wide PROVE Spec => []WasteIsCorrupted
  OBVIOUS
<1>1. Init => WasteInv
  <2> SUFFICES ASSUME Init PROVE WasteInv
    OBVIOUS
  <2>1. /\ blocks = {} /\ phase = "create" /\ wasted_shared_memory = 0
        /\ shared_free = Requested
    BY DEF Init
  <2>2. Lent = {} /\ Garbage = {} /\ IsFiniteSet(blocks)
    BY <2>1, FS_EmptySet DEF Lent, Garbage
  <2>3. SumFunctionOnSet(Lengths, {}) = 0
    BY FS_EmptySet, SumUnfolds
  <2>4. Requested <= Requested
    BY SizeAssumption
  <2> QED
    BY <2>1, <2>2, <2>3, <2>4 DEF WasteInv
<1>2. AllocInv /\ AllocInv' /\ WasteInv /\ [Next]_vars => WasteInv'
  BY WasteStep
<1>3. AllocInv /\ WasteInv => WasteIsCorrupted
  BY WasteIsTaken
<1> QED
  BY <1>1, <1>2, <1>3, AllocInvHolds, PTL DEF Spec

-----------------------------------------------------------------------------
(* Exhaustion.                                                             *)

\* Segments only fill up between two restarts.
LEMMA RoomShrinks ==
    ASSUME AllocInv, NEW size \in Nat, Aligned(size) < Limit,
           NEW use \in Use, Allocate(size, use), LargestIsSmall
    PROVE  LargestIsSmall'
<1>1. /\ segments' \in Seq(Segment) /\ Len(segments') = Len(segments)
      /\ \A i \in DOMAIN segments :
           /\ segments[i].pos <= segments'[i].pos
           /\ segments'[i].size = segments[i].size
  BY AllocateKeeps
<1>2. /\ DOMAIN segments' = DOMAIN segments
      /\ \A i \in DOMAIN segments :
           segments[i] \in Segment /\ segments'[i] \in Segment
  BY <1>1 DEF AllocInv, TypeOK
<1>3. MinFree \in Nat
  BY SizeAssumption
<1> QED
  BY <1>1, <1>2, <1>3 DEF LargestIsSmall, Room, Segment

\* ZSMMG(memory_exhausted) is set by whoever finds next to nothing left, or
\* the hash table full, and stays true until a restart.
THEOREM ExhaustedIsRealAlways == Wide => (Spec => []ExhaustedIsReal)
<1> SUFFICES ASSUME Wide PROVE Spec => []ExhaustedIsReal
  OBVIOUS
<1> DEFINE Quiet == phase # "running" => ~memory_exhausted
<1>1. Init => ExhaustedIsReal /\ Quiet
  BY DEF Init, ExhaustedIsReal
<1>2. ASSUME AllocInv, ExhaustedIsReal, Quiet, [Next]_vars
      PROVE  ExhaustedIsReal' /\ Quiet'
  <2>1. CASE Create \/ Startup \/ zend_shared_alloc_save_state
    BY <1>2, <2>1 DEF Create, Startup, zend_shared_alloc_save_state,
                      ExhaustedIsReal
  <2>2. CASE StoreScript \/ AddKey
    <3>1. /\ phase = "running" /\ UNCHANGED <<phase, hash_full>>
          /\ \E size \in ScriptSizes \cup KeySizes, use \in {"script", "key"} :
               Taken(size, use) \/ Failed(size)
      BY <2>2 DEF StoreScript, AddKey
    <3>2. PICK size \in ScriptSizes \cup KeySizes, use \in {"script", "key"} :
            Taken(size, use) \/ Failed(size)
      BY <3>1
    <3>3. size \in Nat /\ Aligned(size) < Limit /\ use \in Use
      BY SizeAssumption DEF Wide, Use
    <3>4. CASE Taken(size, use)
      BY <1>2, <3>1, <3>3, <3>4, RoomShrinks DEF Taken, ExhaustedIsReal
    <3>5. CASE Failed(size)
      BY <1>2, <3>1, <3>5
         DEF Failed, ExhaustedBy, ExhaustedIsReal, LargestIsSmall, Room
    <3> QED
      BY <3>2, <3>4, <3>5
  <2>3. CASE HashFull \/ Restart
    BY <2>3 DEF HashFull, Restart, ExhaustedIsReal
  <2>4. CASE Corrupt \/ opcache_reset \/ UNCHANGED vars
    BY <1>2, <2>4
       DEF Corrupt, opcache_reset, vars, ExhaustedIsReal, LargestIsSmall, Room
  <2> QED
    BY <1>2, <2>1, <2>2, <2>3, <2>4 DEF Next
<1> QED
  BY <1>1, <1>2, AllocInvHolds, PTL DEF Spec
=============================================================================
