----------------------------- MODULE Optimizer ------------------------------
(***************************************************************************)
(* zend_optimizer() (src/Optimizer/): the passes over one op array, in the *)
(* order in which they are made, one step for each opline that a pass      *)
(* changes and, in pass 5, for each block.  What an op array does when it  *)
(* is executed must stay the same all the way.                             *)
(***************************************************************************)
EXTENDS BlockPass

CONSTANTS
  Programs,  \* op arrays as the compiler emits them, with their T and brk_cont
  Inputs,    \* values of the compiled variables that it is executed with
  Levels     \* values of opcache.optimization_level, as sets of passes

ASSUME ParameterAssumption ==
  /\ {Fuel, Cap, UChar} \subseteq Nat \ {0}
  /\ Levels \subseteq SUBSET {1, 2, 3, 5, 9, 10}

VARIABLES
  code,      \* op_array->opcodes
  T,         \* op_array->T
  brk,       \* op_array->brk_cont_array
  blocks,    \* the CFG of pass 5
  loops,     \* cfg->loop_start, loop_cont and loop_brk
  used_ext,  \* temporaries that pass 5 takes for used in other blocks
  level, phase, at, pass,
  ok,        \* no null pointer was followed, no search was endless
  expected   \* what the op array did as compiled

vars == <<code, T, brk, blocks, loops, used_ext, level, phase, at, pass, ok, expected>>

Phases == {"pass1", "pass2", "pass3", "pass5", "usage", "optimize", "jump", "rebuild",
           "pass9", "pass10", "done"}

(***************************************************************************)
(* What the op array does                                                  *)
(***************************************************************************)

Graph == [code |-> code, blocks |-> blocks, ok |-> ok]
InBlocks == phase \in {"usage", "optimize", "jump", "rebuild"}

Behaviour(c, fall, pc, b) ==
  [cv \in Inputs |-> Execute(c, fall, b, pc, cv, [n \in {} |-> Null], "", Fuel)]

Observed ==
  IF InBlocks THEN LET l == Linked(Graph) IN Behaviour(l.code, l.fall, l.pc, brk)
              ELSE Behaviour(code, Plain(code), 1, brk)

(***************************************************************************)
(* Pass 1: constant expressions                                            *)
(***************************************************************************)

\* Puts a constant where the temporary is read; a switch reads it several times.
replace_tmp_by_const(c, from, n, v) ==
  LET Reads(i) == c[i].op1 = Tmp(n) \/ c[i].op2 = Tmp(n)
      uses == {i \in from .. Len(c) : Reads(i)}
      i    == CHOOSE i \in uses : \A j \in uses : i <= j
      ins  == {k \in DOMAIN brk : brk[k].start <= i /\ brk[k].brk > i}
      k    == CHOOSE k \in ins : \A j \in ins : j <= k
      To(m) == IF c[m].op1 # Tmp(n) THEN c[m]
               ELSE IF c[m].opcode = "CASE" THEN [c[m] EXCEPT !.op1 = Const(v)]
               ELSE IF c[m].opcode = "FREE" THEN Nop ELSE c[m]
  IN  IF uses = {} THEN c
      ELSE IF c[i].op1 # Tmp(n) THEN [c EXCEPT ![i].op2 = Const(v)]
      ELSE IF c[i].opcode \notin {"CASE", "FREE"} THEN [c EXCEPT ![i].op1 = Const(v)]
      ELSE IF ins = {} THEN [c EXCEPT ![i] = Nop]
      ELSE [m \in DOMAIN c |-> IF m \in i .. brk[k].brk THEN To(m) ELSE c[m]]

\* A series of ADD_STRINGs to one temporary becomes one.
AddStrings(c, i) ==
  LET same  == {m \in i + 1 .. Len(c) :
                  \A j \in i + 1 .. m : c[j].opcode = "ADD_STRING" /\ c[j].result = c[i].result}
      end   == i + Cardinality(same) + 1
      Add(s, m) == s \o c[m].op2[2][2]
      text  == FoldLeft(LAMBDA s, m : Add(s, m), "", [j \in 1 .. end - i |-> i + j - 1])
      short == [m \in DOMAIN c |->
                  IF m = i THEN [c[i] EXCEPT !.op2 = Const(Text(text))]
                  ELSE IF m \in same THEN Nop ELSE c[m]]
  IN  IF \A m \in same : c[m].op2[2][2] = "" THEN c
      ELSE IF level \cap {5, 10} = {} /\ end - i >= 3
        THEN [short EXCEPT ![i + 1] = Jump("JMP", Unused, Unused, end)]
      ELSE short

Pass1(c, i) ==
  LET o == c[i]
      Folded(v) == replace_tmp_by_const([c EXCEPT ![i] = Nop], i + 1, o.result[2], v)
  IN  IF \/ o.opcode \in {"ADD", "CONCAT", "IS_EQUAL", "IS_NOT_EQUAL"}
              /\ IsConst(o.op1) /\ IsConst(o.op2)
         \/ o.opcode \in {"CAST", "BOOL_NOT"} /\ IsConst(o.op1)
        THEN Folded(Computed(o, o.op1[2], IF IsConst(o.op2) THEN o.op2[2] ELSE Null))
      ELSE IF o.opcode = "CAST" /\ o.ext = IS_BOOL
        THEN [c EXCEPT ![i].opcode = "BOOL", ![i].ext = 0]
      ELSE IF o.opcode = "ADD_STRING" THEN AddStrings(c, i)
      ELSE c

(***************************************************************************)
(* Pass 2: constant jumps, BRK and CONT                                    *)
(***************************************************************************)

\* Where a BRK or CONT leaves to; 0 when it would have to free something on the
\* way or leaves more loops than there are.
RECURSIVE StaticExit(_, _, _)
StaticExit(c, n, levels) ==
  IF n = 0 THEN 0
  ELSE IF levels <= 1 THEN n
  ELSE IF c[brk[n].brk].opcode = "FREE" THEN 0
  ELSE StaticExit(c, brk[n].parent, levels - 1)

Pass2Constant(c, i) ==
  LET o == c[i]
      jumps == (o.opcode \in {"JMPZ", "JMPZ_EX"}) # IsTrue(o.op1[2])
  IN  CASE o.opcode \in ConditionalEx ->
             IF jumps THEN c ELSE [c EXCEPT ![i].opcode = "QM_ASSIGN"]
        [] o.opcode \in Conditional ->
             [c EXCEPT ![i] = IF jumps THEN Jump("JMP", Unused, Unused, o.target) ELSE Nop]
        [] o.opcode = "JMPZNZ" ->
             [c EXCEPT ![i] = Jump("JMP", Unused, Unused,
                                   IF IsTrue(o.op1[2]) THEN o.ext ELSE o.target)]

Pass2(c, i) ==
  LET o    == c[i]
      Two(x) == IF IsConst(x) THEN Const(ToText(x[2])) ELSE x
      l    == StaticExit(c, o.ext, o.target)
  IN  IF o.opcode = "CONCAT" THEN [c EXCEPT ![i].op1 = Two(@), ![i].op2 = Two(@)]
      ELSE IF o.opcode = "ASSIGN_CONCAT" THEN [c EXCEPT ![i].op2 = Two(@)]
      ELSE IF o.opcode \in Conditional \cup ConditionalEx \cup {"JMPZNZ"} /\ IsConst(o.op1)
        THEN Pass2Constant(c, i)
      ELSE IF o.opcode \in Conditional /\ c[i + 1].opcode = "JMP"
        THEN IF o.target = c[i + 1].target THEN [c EXCEPT ![i] = Nop]
             ELSE IF o.opcode = "JMPZ"
               THEN [c EXCEPT ![i].opcode = "JMPZNZ", ![i].ext = c[i + 1].target]
             ELSE [c EXCEPT ![i].opcode = "JMPZNZ", ![i].ext = o.target,
                            ![i].target = c[i + 1].target]
      ELSE IF o.opcode \in {"BRK", "CONT"} /\ l # 0
        THEN [c EXCEPT ![i] = Jump("JMP", Unused, Unused,
                                   IF o.opcode = "BRK" THEN brk[l].brk ELSE brk[l].cont)]
      ELSE c

(***************************************************************************)
(* Pass 3: $i = $i + expr, series of jumps, $i++                           *)
(***************************************************************************)

\* Only temporaries are compared.
SAME_VAR(x, y) == IsT(x) /\ x = y

\* From where JMPs lead, without going through one place twice; hits is
\* jmp_hitlist.  The opline i that is changed counts as changed already.
RECURSIVE FollowJmp(_, _, _, _)
FollowJmp(c, i, target, hits) ==
  LET to == IF target = i THEN target ELSE c[target].target
  IN  IF OpcodeAt(c, target) # "JMP" \/ to \in hits THEN [target |-> target, hits |-> hits]
      ELSE FollowJmp(c, i, to, hits \cup {to})

RECURSIVE FollowJmpSet(_, _, _)
FollowJmpSet(c, target, seen) ==
  IF OpcodeAt(c, target) # "JMP" THEN target
  ELSE IF target \in seen THEN 0
  ELSE FollowJmpSet(c, c[target].target, seen \cup {target})

RECURSIVE FollowJmpz(_, _, _)
FollowJmpz(c, i, hits) ==
  LET o == c[i]
      x == c[o.target]
      same == SAME_VAR(o.op1, x.op1)
      Again(to) == IF to \in hits THEN c
                   ELSE FollowJmpz([c EXCEPT ![i].target = to], i, hits \cup {to})
  IN  IF x.opcode = "JMP" \/ (same /\ x.opcode = o.opcode) THEN Again(x.target)
      ELSE IF same /\ x.opcode = WithResult[o.opcode]
        THEN [c EXCEPT ![i].target = x.target, ![i].opcode = x.opcode,
                       ![i].result = x.result]
      ELSE IF same /\ x.opcode = Opposite[o.opcode] THEN [c EXCEPT ![i].target = @ + 1]
      ELSE IF same /\ x.opcode = WithResult[Opposite[o.opcode]]
        THEN [c EXCEPT ![i].target = @ + 1, ![i].opcode = WithResult[@],
                       ![i].result = x.result]
      ELSE c

RECURSIVE FollowJmpzEx(_, _, _, _)
FollowJmpzEx(c, i, t, hits) ==
  LET o == c[i]
      x == c[o.target]
      Again(to, test, t1) == IF test \in hits THEN c
        ELSE FollowJmpzEx([c EXCEPT ![i].target = to], i, t1, hits \cup {test})
  IN  IF x.opcode = o.opcode /\ SAME_VAR(x.op1, t) THEN Again(x.target, x.target, x.result)
      ELSE IF x.opcode = Bare[o.opcode] /\ SAME_VAR(x.op1, t)
        THEN Again(x.target, x.target, t)
      ELSE IF x.opcode = "JMPZNZ" /\ SAME_VAR(x.op1, t)
        THEN Again(IF o.opcode = "JMPZ_EX" THEN x.target ELSE x.ext, x.target, t)
      ELSE IF x.opcode \in {Opposite[o.opcode], WithResult[Opposite[o.opcode]]}
              /\ SAME_VAR(o.op1, x.op1)
        THEN [c EXCEPT ![i].target = @ + 1]
      ELSE c

\* The number of a variable without its type: compiled variables are counted
\* from 0, temporaries by their offset, so that the first of each are alike.
VarOf(o) == IF IsT(o) THEN 32 * (o[2] - 1) ELSE o[2]

\* An operation whose result the next opline assigns to its first operand.
AssignOp == [ADD |-> "ASSIGN_ADD", CONCAT |-> "ASSIGN_CONCAT"]

Pass3Assign(c, i) ==
  LET o    == c[i]
      next == CHOOSE n \in i + 1 .. Len(c) :
                c[n].opcode # "NOP" /\ \A m \in i + 1 .. n - 1 : c[m].opcode = "NOP"
      x    == c[next]
      swap == /\ o.opcode = "ADD" /\ IsConst(o.op1)
              /\ o.op2[1] \in {"VAR", "CV"} /\ VarOf(o.op2) = VarOf(x.op1)
      p    == IF swap THEN [o EXCEPT !.op1 = o.op2, !.op2 = o.op1] ELSE o
  IN  IF x.opcode # "ASSIGN" THEN c
      ELSE IF p.op1 # x.op1 THEN [c EXCEPT ![i] = p]
      ELSE [c EXCEPT ![i] = [p EXCEPT !.opcode = AssignOp[@], !.result = x.result],
                     ![next] = Nop]

Pass3(c, i) ==
  LET o == c[i]
      a == FollowJmp(c, i, o.target, {})
      b == FollowJmp(c, i, o.ext, a.hits)
  IN  CASE o.opcode \in DOMAIN AssignOp -> Pass3Assign(c, i)
        [] o.opcode = "JMP" ->
             IF o.target = i + 1 THEN [c EXCEPT ![i] = Nop]
             ELSE [c EXCEPT ![i].target = a.target]
        [] o.opcode = "JMP_SET" -> [c EXCEPT ![i].target = FollowJmpSet(c, @, {})]
        [] o.opcode \in Conditional ->
             IF o.target = i + 1 THEN [c EXCEPT ![i] = Nop] ELSE FollowJmpz(c, i, {})
        [] o.opcode \in ConditionalEx ->
             IF o.target # i + 1 THEN FollowJmpzEx(c, i, o.result, {})
             ELSE IF ~IsConst(o.op1) /\ VarOf(o.op1) = VarOf(o.result)
               THEN [c EXCEPT ![i] = Nop]
             ELSE [c EXCEPT ![i].opcode = "BOOL"]
        [] o.opcode = "JMPZNZ" ->
             [c EXCEPT ![i].target = a.target, ![i].ext = b.target]
        [] o.opcode = "POST_INC" ->
             IF c[i + 1].opcode = "FREE" /\ c[i + 1].op1 = o.result
               THEN [c EXCEPT ![i + 1] = Nop, ![i].opcode = "PRE_INC",
                              ![i].result = UVar(@[2])]
               ELSE c
        [] OTHER -> c

(***************************************************************************)
(* Pass 9: fewer temporaries; pass 10: no NOPs                             *)
(***************************************************************************)

\* From the last opline back: a temporary gets the lowest free number where it
\* is last read and gives it up where it is first set.
optimize_temporary_variables(c) ==
  LET First(n) == CHOOSE i \in DOMAIN c :
        IsT(c[i].result) /\ c[i].result[2] = n
        /\ \A j \in 1 .. i - 1 : ~(IsT(c[j].result) /\ c[j].result[2] = n)
      Free(taken) == CHOOSE k \in 1 .. Cardinality(taken) + 1 :
                       k \notin taken /\ \A j \in 1 .. k - 1 : j \in taken
      New(s, n) == IF n \in DOMAIN s.map THEN s
                   ELSE LET k == Free(s.taken)
                        IN  [s EXCEPT !.map = [m \in DOMAIN @ \cup {n} |->
                                                 IF m = n THEN k ELSE @[m]],
                                      !.taken = @ \cup {k}, !.max = IF k > @ THEN k ELSE @]
      Got(s, o) == IF IsT(o) THEN New(s, o[2]) ELSE s
      Named(s, o) == IF IsT(o) THEN <<o[1], s.map[o[2]]>> ELSE o
      Back(s, i) ==
        LET o == c[i]
            s2 == Got(Got(s, o.op1), o.op2)
            n  == o.result[2]
            known == n \in DOMAIN s2.map
            s3 == IF ~IsT(o.result) THEN s2
                  ELSE IF known
                    THEN [s2 EXCEPT !.taken = IF First(n) = i THEN @ \ {s2.map[n]} ELSE @]
                  ELSE New(s2, n)
            r  == Named(s3, o.result)
            unused == IsT(o.result) /\ ~known /\ o.result[1] = "UVAR"
            s4 == IF unused
                    THEN [s3 EXCEPT !.taken = s2.taken, !.map = s2.map] ELSE s3
        IN  [s4 EXCEPT !.code[i] = [o EXCEPT !.op1 = Named(s2, @), !.op2 = Named(s2, @),
                                             !.result = r]]
  IN  FoldRight(LAMBDA i, s : Back(s, i), [i \in DOMAIN c |-> i],
                [code |-> c, map |-> [n \in {} |-> 0], taken |-> {}, max |-> 0])

\* NOPs go, and a JMP over NOPs only; jumps and loops are told the new numbers.
nop_removal(c) ==
  LET Over(i) == c[i].opcode = "JMP" /\ c[i].target > i
                   /\ \A j \in i + 1 .. c[i].target - 1 : c[j].opcode = "NOP"
      kept == {i \in DOMAIN c : c[i].opcode # "NOP" /\ ~Over(i)}
      New(i) == IF i \in 1 .. Len(c) THEN Cardinality({j \in kept : j < i}) + 1 ELSE i
      order == InOrder(kept, Len(c))
  IN  [code |-> [k \in DOMAIN order |->
         LET o == c[order[k]]
         IN  [o EXCEPT !.target = IF o.opcode \in Jumping THEN New(@) ELSE @,
                       !.ext = IF o.opcode = "JMPZNZ" THEN New(@) ELSE @]],
       brk |-> [n \in DOMAIN brk |-> [brk[n] EXCEPT !.start = New(@), !.cont = New(@),
                                                    !.brk = New(@)]]]

(***************************************************************************)
(* The steps                                                               *)
(***************************************************************************)

Init ==
  \E p \in Programs, l \in Levels :
    /\ code = p.code /\ T = p.t /\ brk = p.brk
    /\ blocks = <<>> /\ loops = <<>> /\ used_ext = {}
    /\ level = l /\ phase = "pass1" /\ at = 1 /\ pass = 0 /\ ok = TRUE
    /\ expected = Behaviour(p.code, Plain(p.code), 1, p.brk)

graph == <<blocks, loops, used_ext, pass>>

\* A pass over the oplines: the next one that it changes, or its end.
Over(now, number, Rewrite(_, _), next) ==
  LET changed == {i \in at .. Len(code) : Rewrite(code, i) # code}
      i == CHOOSE i \in changed : \A j \in changed : i <= j
  IN  /\ phase = now
      /\ \/ /\ number \in level
            /\ changed # {}
            /\ code' = Rewrite(code, i)
            /\ at' = i + 1
            /\ ok' = (ok /\ (code'[i].opcode \in Jumping => code'[i].target # 0))
            /\ UNCHANGED phase
         \/ /\ number \in level => changed = {}
            /\ phase' = next /\ at' = 1
            /\ UNCHANGED <<code, ok>>
      /\ UNCHANGED <<T, brk, level, expected, graph>>

DoPass1 == Over("pass1", 1, Pass1, "pass2")
DoPass2 == Over("pass2", 2, Pass2, "pass3")
DoPass3 == Over("pass3", 3, Pass3, "pass5")

\* Pass 5 begins; it leaves op arrays alone that still have a BRK or CONT.
FindCodeBlocks ==
  LET kept  == Kept(code, brk)
      bs    == find_code_blocks(code, brk)
      At(p) == CHOOSE b \in DOMAIN bs : bs[b].start = p
      ls    == [n \in DOMAIN kept |-> <<At(kept[n].start), At(kept[n].cont), At(kept[n].brk)>>]
  IN  /\ phase = "pass5"
      /\ IF 5 \in level /\ \A i \in DOMAIN code : code[i].opcode \notin {"BRK", "CONT"}
           THEN /\ loops' = ls
                /\ blocks' = zend_rebuild_access_path(
                     bs, UNION {{ls[n][1], ls[n][2], ls[n][3]} : n \in DOMAIN ls}, FALSE)
                /\ brk' = kept
                /\ phase' = "usage" /\ pass' = 1
           ELSE phase' = "pass9" /\ UNCHANGED <<loops, blocks, brk, pass>>
      /\ UNCHANGED <<code, T, used_ext, level, at, ok, expected>>

\* PASSES: usage, each block, each jump, access paths; then the end.
PASSES == 3

TUsage ==
  /\ phase = "usage"
  /\ used_ext' = UsedOutside(Graph)
  /\ LET g == IF T = 0 THEN Graph ELSE zend_t_usage(Graph)
     IN  IF pass <= PASSES
           THEN /\ code' = g.code
                /\ phase' = "optimize"
                /\ UNCHANGED <<brk, blocks, loops>>
           ELSE LET a == assemble_code_blocks(g, brk, loops)
                IN  /\ code' = a.code /\ brk' = a.brk
                    /\ phase' = "pass9"
                    /\ blocks' = <<>> /\ loops' = <<>>
  /\ at' = 1
  /\ UNCHANGED <<T, level, pass, ok, expected>>

\* The next block in use, or the end of the list.
EachBlock(now, Change(_), next) ==
  LET left == {b \in at .. Len(blocks) : blocks[b].access}
      b    == CHOOSE b \in left : \A c \in left : b <= c
  IN  /\ phase = now /\ ok
      /\ \/ /\ left # {}
            /\ code' = Change(b).code /\ blocks' = Change(b).blocks /\ ok' = Change(b).ok
            /\ at' = b + 1
            /\ UNCHANGED phase
         \/ /\ left = {}
            /\ phase' = next /\ at' = 1
            /\ UNCHANGED <<code, blocks, ok>>
      /\ UNCHANGED <<T, brk, loops, used_ext, level, pass, expected>>

OptimizeBlocks ==
  EachBlock("optimize", LAMBDA b : zend_optimize_block(Graph, b, T, used_ext), "jump")
OptimizeJumps ==
  EachBlock("jump", LAMBDA b : zend_jmp_optimization(Graph, b), "rebuild")

Rebuild ==
  /\ phase = "rebuild"
  /\ blocks' = zend_rebuild_access_path(
       blocks, UNION {{loops[n][1], loops[n][2], loops[n][3]} : n \in DOMAIN loops}, TRUE)
  /\ pass' = pass + 1
  /\ phase' = "usage"
  /\ UNCHANGED <<code, T, brk, loops, used_ext, level, at, ok, expected>>

OptimizeTemps ==
  /\ phase = "pass9"
  /\ phase' = "pass10"
  /\ IF 9 \in level
       THEN LET s == optimize_temporary_variables(code)
            IN  /\ code' = s.code /\ T' = s.max
                /\ ok' = (ok /\ s.max <= T)
       ELSE UNCHANGED <<code, T, ok>>
  /\ UNCHANGED <<brk, level, at, expected, graph>>

RemoveNops ==
  /\ phase = "pass10"
  /\ phase' = "done"
  /\ IF 10 \in level /\ 5 \notin level
       THEN LET s == nop_removal(code) IN code' = s.code /\ brk' = s.brk
       ELSE UNCHANGED <<code, brk>>
  /\ UNCHANGED <<T, level, at, ok, expected, graph>>

Done == phase = "done" /\ UNCHANGED vars

Next ==
  \/ DoPass1 \/ DoPass2 \/ DoPass3 \/ FindCodeBlocks \/ TUsage
  \/ OptimizeBlocks \/ OptimizeJumps \/ Rebuild \/ OptimizeTemps \/ RemoveNops
  \/ Done

Spec == Init /\ [][Next]_vars /\ WF_vars(Next)

(***************************************************************************)
(* Properties                                                              *)
(***************************************************************************)

\* The state is of the expected kind.
TypeOK ==
  /\ phase \in Phases /\ at \in 1 .. Len(code) + 1 /\ pass \in 0 .. PASSES + 1
  /\ T \in Nat /\ (InBlocks => used_ext \subseteq 1 .. T) /\ ok \in BOOLEAN
  /\ \A i \in DOMAIN code : {code[i].target, code[i].ext} \subseteq Nat
  /\ \A b \in DOMAIN blocks : Links(blocks[b]) \cup blocks[b].sources \subseteq DOMAIN blocks

\* At every point of the way the op array does what it did as compiled: the same
\* output in the same order, the same value returned, for all values of its
\* variables; it reads no temporary that was not set.
SameBehaviour ==
  LET now == Observed
      Start(s, n) == SubSeq(s, 1, IF n < Len(s) THEN n ELSE Len(s))
  IN  \A cv \in Inputs :
        IF now[cv][2] = "more" /\ expected[cv][2] = "more"
          THEN Start(now[cv][1], Len(expected[cv][1])) = Start(expected[cv][1], Len(now[cv][1]))
        ELSE now[cv] = expected[cv]

\* No null pointer is followed, no search for an opline goes on for ever, and
\* pass 9 stays within the arrays it allocates for T temporaries.
Sound == ok

\* A block that is in use refers to no block that was joined to another one or
\* given up, although references change while the jumps are optimized.
LinksAreLive ==
  phase \in {"optimize", "jump", "rebuild"} =>
    \A b \in DOMAIN blocks :
      blocks[b].access => \A k \in Links(blocks[b]) : blocks[k].access

\* A temporary that one block sets and another one reads is known to be used
\* outside while the blocks are worked on, although the set is computed before
\* they are changed and joined.
UsageIsKnown == phase \in {"optimize", "jump"} => UsedOutside(Graph) \subseteq used_ext

\* The block that execution begins with stays in use: what has "no more sources"
\* is "unused, will be stripped" (block_pass.c:379).
EntryStays == InBlocks => \/ blocks[1].access
                          \/ AllNops(Graph, 1)
                          \/ blocks[1].len = 0
=============================================================================
