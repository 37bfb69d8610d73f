----------------------------- MODULE BlockPass ------------------------------
(***************************************************************************)
(* Pass 5 of the optimizer (src/Optimizer/block_pass.c): the op array cut  *)
(* into basic blocks, the references between them, what is done to the     *)
(* oplines of a block and to the jump at its end, and the op array put     *)
(* together again.                                                         *)
(*                                                                         *)
(* As in the code the oplines stay in one array while the pass runs; a     *)
(* block is a stretch of it, and joining or stripping moves oplines within *)
(* the array.  Blocks are numbered in the order of their "next" links; 0   *)
(* is the null pointer.  A graph is [code, blocks, ok]; ok is FALSE once a *)
(* null pointer was followed, or a search for an opline that is not a NOP  *)
(* goes round for ever.                                                    *)
(***************************************************************************)
EXTENDS Opcodes

CONSTANT
  UChar   \* values of a zend_uchar: 256 in the code

OpcodeAt(code, p) == IF p \in DOMAIN code THEN code[p].opcode ELSE "none"

Ends      == {"JMP", "RETURN"}
Splitting == {"JMPZNZ", "JMP_SET"} \cup Conditional \cup ConditionalEx

(***************************************************************************)
(* Blocks and their references                                             *)
(***************************************************************************)

\* brk_cont entries that are kept: those whose end frees something.
Kept(code, brk) == SelectSeq(brk, LAMBDA e : code[e.brk].opcode = "FREE")

find_code_blocks(code, brk) ==
  LET last   == Len(code)
      kept   == Kept(code, brk)
      starts == {1} \cup UNION
        {IF code[i].opcode \in Ends \cup Splitting
           THEN {i + 1} \cup (IF code[i].opcode = "RETURN" THEN {} ELSE {code[i].target})
                        \cup (IF code[i].opcode = "JMPZNZ" THEN {code[i].ext} ELSE {})
           ELSE {} : i \in 1 .. last}
        \cup UNION {{kept[k].start, kept[k].cont, kept[k].brk} : k \in DOMAIN kept}
      at     == InOrder(starts, last)
      Block(p) == CHOOSE k \in DOMAIN at : at[k] = p
      End(k) == IF k = Len(at) THEN last ELSE at[k + 1] - 1
      New(k) == LET o == code[End(k)]
                    more == k < Len(at)
        IN [start     |-> at[k],
            len       |-> End(k) - at[k] + 1,
            access    |-> FALSE,
            protected |-> \E e \in DOMAIN kept : at[k] \in {kept[e].start, kept[e].brk},
            op1_to    |-> IF more /\ o.opcode = "JMP" THEN Block(o.target) ELSE 0,
            op2_to    |-> IF more /\ o.opcode \in Splitting THEN Block(o.target) ELSE 0,
            ext_to    |-> IF more /\ o.opcode = "JMPZNZ" THEN Block(o.ext) ELSE 0,
            follow_to |-> IF more /\ o.opcode \notin Ends \cup {"JMPZNZ"}
                            THEN k + 1 ELSE 0,
            sources   |-> {}]
  IN  [k \in DOMAIN at |-> New(k)]

Links(b) == {b.op1_to, b.op2_to, b.ext_to, b.follow_to} \ {0}

RECURSIVE zend_access_path(_, _)
zend_access_path(blocks, seen) ==
  LET more == UNION {Links(blocks[b]) : b \in seen} \ seen
  IN  IF more = {} THEN seen ELSE zend_access_path(blocks, seen \cup more)

\* Marks what can be reached from the first block, or from the first one still
\* marked, and from the loops in "loops", and notes who refers to whom.
zend_rebuild_access_path(blocks, loops, find_start) ==
  LET marked == {b \in DOMAIN blocks : blocks[b].access}
      start  == IF find_start
                  THEN CHOOSE b \in marked : \A c \in marked : b <= c ELSE 1
      live   == zend_access_path(blocks, {start} \cup loops)
  IN  [b \in DOMAIN blocks |->
         [blocks[b] EXCEPT !.access = b \in live,
                           !.sources = {s \in live : b \in Links(blocks[s])}]]

AddSource(g, from, to) ==
  IF to = 0 THEN [g EXCEPT !.ok = FALSE]
            ELSE [g EXCEPT !.blocks[to].sources = @ \cup {from}]

\* Moves the oplines of block b behind those of f, of which it is the only
\* successor.  replace_source runs off a list that has both blocks.
Join(g, f, b) ==
  LET from == g.blocks[f]
      to   == g.blocks[b]
      at   == from.start + from.len
      Moved(i) == IF i \in at .. at + to.len - 1
                    THEN g.code[to.start + i - at] ELSE g.code[i]
      Or(new, old) == IF new # 0 THEN new ELSE old
      both == \E k \in Links(to) : {f, b} \subseteq g.blocks[k].sources
  IN  [ok     |-> g.ok /\ ~both /\ (to.start # 0 \/ to.len = 0),
       code   |-> IF to.start = 0 THEN g.code ELSE [i \in DOMAIN g.code |-> Moved(i)],
       blocks |-> [k \in DOMAIN g.blocks |->
         CASE k = f -> [from EXCEPT !.len = @ + to.len,
                                    !.op1_to = Or(to.op1_to, @),
                                    !.op2_to = Or(to.op2_to, @),
                                    !.ext_to = Or(to.ext_to, @),
                                    !.follow_to = to.follow_to,
                                    !.sources = IF f \in Links(to) /\ b \in @
                                                  THEN (@ \ {b}) \cup {f} ELSE @]
           [] k = b -> [to EXCEPT !.start = 0, !.access = FALSE, !.sources = {}]
           [] k \in Links(to) \ {f, b} ->
                [g.blocks[k] EXCEPT !.sources = IF b \in @ THEN (@ \ {b}) \cup {f} ELSE @]
           [] OTHER -> g.blocks[k]]]

\* A mutant for Sound: a block is joined to one that also jumps to it.
del_source_Jumping(g, from, to) ==
  IF to = 0 THEN [g EXCEPT !.ok = FALSE]
  ELSE
    LET rest == g.blocks[to].sources \ {from}
        cut  == [g EXCEPT !.blocks[to].sources = rest]
        f    == CHOOSE s \in rest : TRUE
    IN  IF rest = {} THEN [cut EXCEPT !.blocks[to].access = FALSE]
        ELSE IF ~g.blocks[to].protected /\ rest = {f} /\ g.blocks[f].follow_to = to
          THEN Join(cut, f, to)
        ELSE cut
del_source(g, from, to) ==
  IF to = 0 THEN [g EXCEPT !.ok = FALSE]
  ELSE
    LET rest == g.blocks[to].sources \ {from}
        cut  == [g EXCEPT !.blocks[to].sources = rest]
        f    == CHOOSE s \in rest : TRUE
    IN  IF rest = {} THEN [cut EXCEPT !.blocks[to].access = FALSE]
        ELSE IF ~g.blocks[to].protected /\ rest = {f} /\ g.blocks[f].access
                  /\ Links(g.blocks[f]) = {to} /\ g.blocks[f].follow_to = to
                  /\ 0 = g.blocks[f].op1_to /\ 0 = g.blocks[f].op2_to
                  /\ 0 = g.blocks[f].ext_to
          THEN Join(cut, f, to)
        ELSE cut

\* A mutant for LinksAreLive: the target of a conditional jump is forgotten.
Redirected_NotOp2(k, from, to) ==
  LET Past(l) == IF l = from THEN to ELSE l
  IN  [k EXCEPT !.op1_to = Past(@), !.ext_to = Past(@), !.follow_to = Past(@)]
Redirected(k, from, to) ==
  LET Past(l) == IF l = from THEN to ELSE l
  IN  [k EXCEPT !.op1_to = Past(@), !.op2_to = Past(@), !.ext_to = Past(@), !.follow_to = Past(@)]

delete_code_block(g, b) ==
  LET to    == g.blocks[b].follow_to
      froms == {s \in g.blocks[b].sources : b \in Links(g.blocks[s])}
  IN  IF g.blocks[b].protected THEN g
      ELSE IF to = 0 THEN [g EXCEPT !.blocks[b].access = FALSE]
      ELSE [g EXCEPT !.blocks = [k \in DOMAIN @ |->
              LET l == IF k \in froms THEN Redirected(@[k], b, to) ELSE @[k]
              IN  [l EXCEPT !.access = @ /\ k # b,
                            !.sources = IF k = to THEN @ \cup froms ELSE @]]]

\* What both strip_nop and zend_optimize_block begin with: leading NOPs go.
\* A block of NOPs only keeps the last one, or is taken out.
AllNops(g, b) ==
  LET k == g.blocks[b]
  IN  k.len > 0 /\ \A p \in k.start .. k.start + k.len - 1 : OpcodeAt(g.code, p) = "NOP"

WithoutLeadingNops(g, b) ==
  LET k     == g.blocks[b]
      ends  == k.start + k.len
      first == CHOOSE p \in k.start .. ends :
                 /\ p = ends \/ OpcodeAt(g.code, p) # "NOP"
                 /\ \A q \in k.start .. p - 1 : OpcodeAt(g.code, q) = "NOP"
      at    == IF AllNops(g, b) THEN ends - 1 ELSE first
      cut   == [g EXCEPT !.blocks[b].start = at, !.blocks[b].len = ends - at]
  IN  IF AllNops(g, b) /\ k.follow_to # 0 THEN delete_code_block(cut, b) ELSE cut

strip_nop(g, b) ==
  IF AllNops(g, b) THEN WithoutLeadingNops(g, b)
  ELSE LET h    == WithoutLeadingNops(g, b)
           k    == h.blocks[b]
           kept == SelectSeq(SubSeq(h.code, k.start, k.start + k.len - 1),
                             LAMBDA o : o.opcode # "NOP")
       IN  [h EXCEPT !.blocks[b].len = Len(kept),
                     !.code = [i \in DOMAIN @ |->
                        IF i \in k.start .. k.start + Len(kept) - 1
                          THEN kept[i - k.start + 1] ELSE @[i]]]

(***************************************************************************)
(* Data dependencies between blocks                                        *)
(***************************************************************************)

UsesResult(o) == o.result[1] \in {"TMP", "VAR"}
\* A mutant for TypeOK: a compiled variable is taken for a temporary.
Operands_Any(o) == {x[2] : x \in {x \in {o.op1, o.op2} : ~IsConst(x)}}
Operands(o) == {x[2] : x \in {x \in {o.op1, o.op2} : IsT(x)}}
Oplines(g, b) == SubSeq(g.code, g.blocks[b].start,
                        g.blocks[b].start + g.blocks[b].len - 1)

\* A mutant for SameBehaviour: what an opline sets counts before what it reads.
UsedOutside_Late(g) ==
  LET Early(b) ==
        LET os == Oplines(g, b)
        IN  UNION {{n \in Operands(os[i]) :
                      \A j \in 1 .. i : ~(UsesResult(os[j]) /\ os[j].result[2] = n)}
                   : i \in DOMAIN os}
  IN  UNION {Early(b) : b \in {b \in DOMAIN g.blocks : b > 1 /\ g.blocks[b].access}}

\* used_ext: temporaries that some block but the first uses before it sets them.
UsedOutside(g) ==
  LET Early(b) ==
        LET os == Oplines(g, b)
        IN  UNION {{n \in Operands(os[i]) :
                      \A j \in 1 .. i - 1 : ~(UsesResult(os[j]) /\ os[j].result[2] = n)}
                   : i \in DOMAIN os}
  IN  UNION {Early(b) : b \in {b \in DOMAIN g.blocks : b > 1 /\ g.blocks[b].access}}

\* An opline whose result nobody uses, and what happens to it.
Unneeded(o) ==
  CASE o.opcode \in {"ASSIGN_ADD", "ASSIGN_CONCAT", "PRE_INC", "POST_INC", "ASSIGN"} ->
         IF o.result[1] = "VAR" THEN [o EXCEPT !.result = UVar(@[2])] ELSE o
    [] o.opcode \in {"QM_ASSIGN", "BOOL", "BOOL_NOT"} -> Nop
    [] o.opcode = "PRINT"   -> [o EXCEPT !.opcode = "ECHO", !.result = Unused]
    [] o.opcode = "JMPZ_EX" -> [o EXCEPT !.opcode = "JMPZ", !.result = Unused]
    [] o.opcode = "JMPNZ_EX" -> [o EXCEPT !.opcode = "JMPNZ", !.result = Unused]
    [] OTHER -> o

\* A mutant for UsageIsKnown: only the first operand counts as used.
Backward_Op1(s, o) ==
  LET never == o.result[1] = "UNUSED" \/ (IsT(o.result) /\ o.result[2] \notin s.usage)
      o1    == IF never THEN Unneeded(o) ELSE o
      set   == IF UsesResult(o1) THEN {o1.result[2]} ELSE {}
      used  == IF IsT(o1.op1) THEN {o1.op1[2]} ELSE {}
  IN  [usage |-> (s.usage \ set) \cup used, ops |-> <<o1>> \o s.ops]

\* The same backwards through a block: what is never used becomes unneeded.
Backward(s, o) ==
  LET never == o.result[1] = "UNUSED" \/ (IsT(o.result) /\ o.result[2] \notin s.usage)
      o1    == IF never THEN Unneeded(o) ELSE o
      set   == IF UsesResult(o1) THEN {o1.result[2]} ELSE {}
      usage == (s.usage \ set) \cup Operands(o1)
      o2    == IF o1.result[1] = "UVAR" /\ o1.result[2] \in usage
                 THEN [o1 EXCEPT !.result = Var(@[2])] ELSE o1
  IN  [usage |-> usage, ops |-> <<o2>> \o s.ops]

zend_t_usage(g) ==
  LET outside == UsedOutside(g)
      Ops(b) == FoldRight(LAMBDA o, s : Backward(s, o), Oplines(g, b),
                          [usage |-> outside, ops |-> <<>>]).ops
      live   == {b \in DOMAIN g.blocks : g.blocks[b].access}
      Of(i)  == {b \in live : i \in g.blocks[b].start ..
                                    g.blocks[b].start + g.blocks[b].len - 1}
  IN  [g EXCEPT !.code = [i \in DOMAIN @ |->
         IF Of(i) = {} THEN @[i]
         ELSE LET b == CHOOSE b \in Of(i) : TRUE
              IN  Ops(b)[i - g.blocks[b].start + 1]]]

(***************************************************************************)
(* The oplines of one block                                                *)
(*                                                                         *)
(* h = [code, src, swap, i, last]: src gives the opline that set a         *)
(* temporary in this block (0: none), swap says that the two targets of    *)
(* the closing JMPZNZ changed places, i is the opline looked at and last   *)
(* the last one that was not a NOP.                                        *)
(***************************************************************************)

Src(h, o)    == IF IsTmp(o) THEN h.src[o[2]] ELSE 0
SrcOp(h, o)  == OpcodeAt(h.code, Src(h, o))
Unset(h, o)  == IF IsT(o) THEN [h EXCEPT !.src[o[2]] = 0] ELSE h
MakeNop(h, p) == [h EXCEPT !.code[p] = Nop]

\* op1 of the opline becomes o, its source is no longer needed.
TakesOver(h, o) ==
  LET x == h.code[h.i].op1
  IN  MakeNop([Unset(h, x) EXCEPT !.code[h.i].op1 = o], Src(h, x))

\* Patterns that are tried one after the other on every opline.
ConstantOp1(h) ==
  LET x == h.code[h.i].op1
  IN  IF SrcOp(h, x) = "QM_ASSIGN" /\ IsConst(h.code[Src(h, x)].op1)
           /\ h.code[h.i].opcode \notin {"CASE", "FREE"}
        THEN TakesOver(h, h.code[Src(h, x)].op1) ELSE h

ConstantOp2(h) ==
  LET y == h.code[h.i].op2
  IN  IF SrcOp(h, y) = "QM_ASSIGN" /\ IsConst(h.code[Src(h, y)].op1)
        THEN MakeNop([Unset(h, y) EXCEPT !.code[h.i].op2 = h.code[Src(h, y)].op1],
                     Src(h, y))
        ELSE h

PrintIsOne(h) ==
  LET o == h.code[h.i]
      One(x) == IF SrcOp(h, x) = "PRINT" THEN Const(Long("1")) ELSE x
  IN  [h EXCEPT !.code[h.i].op1 = IF o.opcode \in {"CASE", "FREE"} THEN @ ELSE One(@),
                !.code[h.i].op2 = One(@)]

EchoOfCast(h) ==
  LET x == h.code[h.i].op1
  IN  IF h.code[h.i].opcode \in {"ECHO", "PRINT"} /\ SrcOp(h, x) = "CAST"
           /\ h.code[Src(h, x)].ext = IS_STRING
        THEN MakeNop([h EXCEPT !.code[h.i].op1 = h.code[Src(h, x)].op1], Src(h, x))
        ELSE h

FreeOfResult(h) ==
  LET o == h.code[h.i]
      p == Src(h, o.op1)
  IN  IF o.opcode # "FREE" THEN h
      ELSE IF SrcOp(h, o.op1) = "PRINT"
        THEN [MakeNop(h, h.i) EXCEPT !.code[p].opcode = "ECHO", !.code[p].result = Unused]
      ELSE IF SrcOp(h, o.op1) = "BOOL" THEN MakeNop(MakeNop(h, p), h.i)
      ELSE h

EqualsBool(h) ==
  LET o == h.code[h.i]
      Bool(x) == IsConst(x) /\ x[2][1] = "bool"
      As(x, other) ==
        [h EXCEPT !.code[h.i] =
           [@ EXCEPT !.opcode = IF (o.opcode = "IS_EQUAL") = IsTrue(x[2])
                                  THEN "BOOL" ELSE "BOOL_NOT",
                     !.op1 = other, !.op2 = Unused]]
  IN  IF o.opcode \notin {"IS_EQUAL", "IS_NOT_EQUAL"} THEN h
      ELSE IF Bool(o.op1) THEN As(o.op1, o.op2)
      ELSE IF Bool(o.op2) THEN As(o.op2, o.op1)
      ELSE h

\* Then the first of these patterns that fits; "again" looks at the same
\* opline once more.
InvertOf == [BOOL |-> "BOOL_NOT", BOOL_NOT |-> "BOOL", JMPZ |-> "JMPNZ",
             JMPNZ |-> "JMPZ", JMPZNZ |-> "JMPZNZ"]

IsInverted(h, used_ext) ==
  LET o == h.code[h.i]
  IN  o.opcode \in DOMAIN InvertOf /\ SrcOp(h, o.op1) = "BOOL_NOT"
        /\ o.op1[2] \notin used_ext

\* These two forget the source of the operand they put in, not of the old one.
Copies(h) ==
  LET x == h.code[h.i].op1
      o == h.code[Src(h, x)].op1
  IN  MakeNop(Unset([h EXCEPT !.code[h.i].op1 = o], o), Src(h, x))

Inverted(h) ==
  LET o == h.code[h.i]
      t == [Copies(h) EXCEPT !.code[h.i].opcode = InvertOf[@]]
  IN  IF o.opcode = "JMPZNZ"
        THEN [t EXCEPT !.code[h.i].target = o.ext, !.code[h.i].ext = o.target,
                       !.swap = ~@]
        ELSE t

IsCopied(h, used_ext) ==
  LET o == h.code[h.i]
  IN  o.opcode \in DOMAIN InvertOf \cup ConditionalEx
        /\ SrcOp(h, o.op1) \in {"BOOL", "QM_ASSIGN"}
        /\ (o.op1[2] \notin used_ext \/ (IsTmp(o.result) /\ o.result = o.op1))

IsSecondEcho(h) ==
  LET Echoes(p) == OpcodeAt(h.code, p) = "ECHO" /\ IsConst(h.code[p].op1)
  IN  h.last # 0 /\ Echoes(h.i) /\ Echoes(h.last)

IsSecondConcat(h) ==
  LET o == h.code[h.i]
  IN  o.opcode = "CONCAT" /\ IsConst(o.op2)
        /\ SrcOp(h, o.op1) \in {"CONCAT", "ADD_STRING"}
        /\ IsConst(h.code[Src(h, o.op1)].op2)

SecondConcat(h) ==
  LET o == h.code[h.i]
      s == h.code[Src(h, o.op1)]
      t == [h EXCEPT !.code[h.i].op2 = Const(Text(s.op2[2][2] \o o.op2[2][2])),
                     !.code[h.i].opcode = IF s.op1[1] = "UNUSED" THEN "ADD_STRING" ELSE @]
  IN  TakesOver(t, s.op1)

IsConstant(o) ==
  \/ /\ o.opcode \in {"ADD", "CONCAT", "IS_EQUAL", "IS_NOT_EQUAL"}
     /\ IsConst(o.op1) /\ IsConst(o.op2)
  \/ o.opcode \in {"BOOL", "BOOL_NOT"} /\ IsConst(o.op1)

Evaluated(o) ==
  [o EXCEPT !.opcode = "QM_ASSIGN", !.op2 = Unused,
            !.op1 = Const(Computed(o, o.op1[2], IF IsConst(o.op2) THEN o.op2[2] ELSE Null))]

Strings == {"ADD_STRING", "ADD_VAR", "CONCAT"}

AddsToEmpty(h) ==
  LET o == h.code[h.i]
      s == h.code[Src(h, o.op1)]
  IN  o.opcode \in Strings /\ SrcOp(h, o.op1) = "CONCAT" /\ s.op2 = Const(Text(""))

AddsToCast(h) ==
  LET o == h.code[h.i]
  IN  o.opcode \in Strings /\ SrcOp(h, o.op1) = "CAST"
        /\ h.code[Src(h, o.op1)].ext = IS_STRING

IsBoolOfTest(h, used_ext) ==
  LET o == h.code[h.i]
  IN  o.opcode = "BOOL" /\ SrcOp(h, o.op1) \in {"IS_EQUAL", "IS_NOT_EQUAL", "BOOL"}
        /\ o.op1[2] \notin used_ext

Pattern(h, used_ext) ==
  LET o == h.code[h.i]
      p == Src(h, o.op1)
      To(t) == [h |-> t, again |-> FALSE]
      Again(t) == [h |-> t, again |-> TRUE]
      AsConcat(t) == [t EXCEPT !.code[h.i].opcode = "CONCAT"]
  IN
  IF IsInverted(h, used_ext) THEN Again(Inverted(h))
  ELSE IF IsCopied(h, used_ext) THEN Again(Copies(h))
  ELSE IF IsSecondEcho(h)
    THEN To(MakeNop([h EXCEPT !.code[h.i].op1 =
                       Const(Text(h.code[h.last].op1[2][2] \o o.op1[2][2]))], h.last))
  ELSE IF IsSecondConcat(h) THEN To(SecondConcat(h))
  ELSE IF o.opcode \in {"ADD_STRING", "ADD_VAR"} /\ IsConst(o.op1) THEN Again(AsConcat(h))
  ELSE IF IsConstant(o) THEN To([h EXCEPT !.code[h.i] = Evaluated(o)])
  ELSE IF o.opcode = "RETURN" /\ SrcOp(h, o.op1) = "QM_ASSIGN"
    THEN To(TakesOver(h, h.code[p].op1))
  ELSE IF AddsToEmpty(h) \/ AddsToCast(h) THEN To(AsConcat(TakesOver(h, h.code[p].op1)))
  ELSE IF o.opcode = "QM_ASSIGN" /\ IsTmp(o.op1) /\ o.op1 = o.result THEN To(MakeNop(h, h.i))
  ELSE IF IsBoolOfTest(h, used_ext)
    THEN To(MakeNop([h EXCEPT !.code[p].result = o.result, !.src[o.result[2]] = p], h.i))
  ELSE To(h)

RECURSIVE OptimizeOplines(_, _, _)
OptimizeOplines(h, end, used_ext) ==
  IF h.i > end THEN h
  ELSE
    LET tried == Pattern(EqualsBool(FreeOfResult(EchoOfCast(PrintIsOne(
                   ConstantOp2(ConstantOp1(h)))))), used_ext)
        t     == tried.h
        o     == t.code[t.i]
        noted == IF UsesResult(o) THEN [t EXCEPT !.src[o.result[2]] = t.i] ELSE t
    IN  OptimizeOplines(
          IF tried.again THEN t
          ELSE [noted EXCEPT !.last = IF o.opcode # "NOP" THEN t.i ELSE @, !.i = @ + 1],
          end, used_ext)

zend_optimize_block(g, b, T, used_ext) ==
  IF AllNops(g, b) THEN WithoutLeadingNops(g, b)
  ELSE
    LET cut  == WithoutLeadingNops(g, b)
        k    == cut.blocks[b]
        h    == OptimizeOplines([code |-> cut.code, src |-> [n \in 1 .. T |-> 0],
                                 swap |-> FALSE, i |-> k.start, last |-> 0],
                                k.start + k.len - 1, used_ext)
        done == IF h.swap
                  THEN [cut EXCEPT !.code = h.code, !.blocks[b].op2_to = k.ext_to,
                                   !.blocks[b].ext_to = k.op2_to]
                  ELSE [cut EXCEPT !.code = h.code]
    IN  strip_nop(IF T = 0 THEN cut ELSE done, b)

(***************************************************************************)
(* The jump at the end of a block                                          *)
(***************************************************************************)

LastOf(g, b)     == g.blocks[b].start + g.blocks[b].len - 1
FirstOp(g, b)   == OpcodeAt(g.code, g.blocks[b].start)
SetLast(g, b, o) == [g EXCEPT !.code[LastOf(g, b)] = o]

\* A block that was joined to another one meanwhile cannot be worked on.
SetOp2(g, b, to) ==
  LET cut == del_source(g, b, g.blocks[b].op2_to)
  IN  AddSource([cut EXCEPT !.blocks[b].op2_to = to, !.ok = @ /\ cut.blocks[b].start # 0],
                b, to)

NextLive(g, b) ==
  LET after == {k \in DOMAIN g.blocks : k > b /\ g.blocks[k].access}
  IN  IF after = {} THEN 0 ELSE CHOOSE k \in after : \A j \in after : k <= j

\* The first block from b on, along follow_to, that is not all NOPs, and its
\* first opline that is none; <<0, 0>> when the search fails.
RECURSIVE NextTarget(_, _, _)
NextTarget(g, b, seen) ==
  IF b = 0 \/ b \in seen THEN <<0, 0>>
  ELSE
    LET k    == g.blocks[b]
        real == {p \in k.start .. k.start + k.len - 1 : OpcodeAt(g.code, p) # "NOP"}
    IN  IF k.start = 0 /\ k.len > 0 THEN <<0, 0>>
        ELSE IF real = {} THEN NextTarget(g, k.follow_to, seen \cup {b})
        ELSE <<b, CHOOSE p \in real : \A q \in real : p <= q>>

\* JMP L: L is next, or itself begins with a jump or a return.
OptimizeJmp(g, b) ==
  LET to     == g.blocks[b].op1_to
      L      == g.blocks[to]
      target == g.code[L.start]
      next   == NextLive(g, b)
      followed == [SetLast(g, b, Nop) EXCEPT !.blocks[b].follow_to = to,
                     !.blocks[b].op1_to = 0, !.blocks[b].len = @ - 1]
      cut    == del_source(SetLast(g, b, target), b, to)
      Or(new, old) == IF new # 0 THEN new ELSE old
      Adds(h, s) == [h EXCEPT !.blocks = [k \in DOMAIN @ |->
                       IF k \in s THEN [@[k] EXCEPT !.sources = @ \cup {b}] ELSE @[k]]]
  IN  IF to = next
        THEN IF followed.blocks[b].len = 0 THEN delete_code_block(followed, b) ELSE followed
      ELSE IF L.start = 0 THEN [g EXCEPT !.ok = FALSE]
      ELSE IF ~L.protected /\ (\/ target.opcode = "JMPZNZ"
                               \/ target.opcode = "JMP" /\ to # L.op1_to)
        THEN Adds([cut EXCEPT !.blocks[b].op2_to = Or(L.op2_to, @),
                              !.blocks[b].ext_to = Or(L.ext_to, @),
                              !.blocks[b].op1_to = L.op1_to],
                  {L.op1_to, L.op2_to, L.ext_to})
      ELSE IF target.opcode = "RETURN" THEN [cut EXCEPT !.blocks[b].op1_to = 0]
      ELSE g

ConstantJump(g, b) ==
  LET o == g.code[LastOf(g, b)]
      k == g.blocks[b]
  IN  IF (o.opcode = "JMPZ") # IsTrue(o.op1[2])
        THEN [del_source([SetLast(g, b, [o EXCEPT !.opcode = "JMP", !.op1 = Unused])
                            EXCEPT !.blocks[b].op1_to = k.op2_to], b, k.follow_to)
                EXCEPT !.blocks[b].op2_to = 0, !.blocks[b].follow_to = 0]
        ELSE [del_source(SetLast(g, b, Nop), b, k.op2_to) EXCEPT !.blocks[b].op2_to = 0]

Opposite == [JMPZ |-> "JMPNZ", JMPNZ |-> "JMPZ", JMPZ_EX |-> "JMPNZ", JMPNZ_EX |-> "JMPZ"]
WithResult == [JMPZ |-> "JMPZ_EX", JMPNZ |-> "JMPNZ_EX"]
Bare == [JMPZ_EX |-> "JMPZ", JMPNZ_EX |-> "JMPNZ"]
OnZero == {"JMPZ", "JMPZ_EX"}

Testable(o) == o.op1[1] \in {"TMP", "CV"}

\* JMPZ(X, L) and what is found at L.
JumpTarget(g, b) ==
  LET o    == g.code[LastOf(g, b)]
      n    == NextTarget(g, g.blocks[b].op2_to, {})
      t    == g.blocks[n[1]]
      x    == g.code[n[2]]
      same == Testable(x) /\ x.op1 = o.op1 /\ ~t.protected
  IN  IF n[1] = 0 THEN [g EXCEPT !.ok = FALSE]
      ELSE IF same /\ x.opcode = Opposite[o.opcode] /\ t.follow_to # 0
        THEN SetOp2(g, b, t.follow_to)
      ELSE IF same /\ x.opcode = WithResult[Opposite[o.opcode]] /\ t.follow_to # 0
        THEN SetOp2(SetLast(g, b, [o EXCEPT !.opcode = WithResult[@],
                                            !.result = <<"UNUSED", x.result[2]>>]),
                    b, t.follow_to)
      ELSE IF same /\ x.opcode = o.opcode /\ t.op2_to # 0 THEN SetOp2(g, b, t.op2_to)
      ELSE IF x.opcode = "JMP" /\ t.op1_to # 0 /\ ~t.protected THEN SetOp2(g, b, t.op1_to)
      ELSE IF same /\ x.opcode = "JMPZNZ" /\ t.op2_to # 0 /\ t.ext_to # 0
        THEN SetOp2(g, b, IF o.opcode = "JMPZ" THEN t.op2_to ELSE t.ext_to)
      ELSE g

\* JMPZ(X, L1) followed by blocks of NOPs and then by a JMP(L2).
RECURSIVE SkipNopBlocks(_, _)
SkipNopBlocks(g, b) ==
  LET f == g.blocks[b].follow_to
      h == del_source(g, b, f)
      n == h.blocks[f].follow_to
  IN  IF f = 0 \/ ~g.ok \/ (g.blocks[f].start = 0 /\ g.blocks[f].len > 0)
        THEN [g EXCEPT !.ok = FALSE]
      ELSE IF g.blocks[f].len > 0 /\ ~AllNops(g, f) THEN g
      ELSE SkipNopBlocks(AddSource([h EXCEPT !.blocks[b].follow_to = n], b, n), b)

JumpThenJump(g, b) ==
  LET h == SkipNopBlocks(g, b)
      f == h.blocks[b].follow_to
      p == NextTarget(h, f, {})[2]
      o == g.code[LastOf(g, b)]
      to == h.blocks[f].op1_to
      cut == [del_source(SetLast(h, b, [o EXCEPT !.opcode = "JMPZNZ"]), b, f)
                EXCEPT !.blocks[b].follow_to = 0]
  IN  IF ~g.ok \/ g.blocks[b].follow_to = 0 \/ o.opcode \notin Conditional THEN g
      ELSE IF ~h.ok THEN h
      ELSE IF h.code[p].opcode # "JMP" \/ to = 0 \/ h.blocks[f].protected THEN h
      ELSE AddSource(IF o.opcode = "JMPZ" THEN [cut EXCEPT !.blocks[b].ext_to = to]
                     ELSE [cut EXCEPT !.blocks[b].ext_to = cut.blocks[b].op2_to,
                                      !.blocks[b].op2_to = to], b, to)

\* T = JMPZ_EX(X, L) and what is found at L.
JumpExTarget(g, b) ==
  LET o    == g.code[LastOf(g, b)]
      n    == NextTarget(g, g.blocks[b].op2_to, {})
      t    == g.blocks[n[1]]
      x    == g.code[n[2]]
      same == Testable(x) /\ x.op1 \in {o.op1, o.result} /\ ~t.protected /\ t.op2_to # 0
      sameT == same /\ x.result \in {o.op1, o.result}
  IN  IF n[1] = 0 THEN [g EXCEPT !.ok = FALSE]
      ELSE IF same /\ x.opcode = Bare[o.opcode] THEN SetOp2(g, b, t.op2_to)
      ELSE IF same /\ x.opcode = Opposite[o.opcode] THEN SetOp2(g, b, t.follow_to)
      ELSE IF sameT /\ x.opcode = WithResult[Opposite[o.opcode]]
        THEN SetOp2(g, b, t.follow_to)
      ELSE IF sameT /\ x.opcode = o.opcode THEN SetOp2(g, b, t.op2_to)
      ELSE IF x.opcode = "JMP" /\ t.op1_to # 0 /\ ~t.protected THEN SetOp2(g, b, t.op1_to)
      ELSE IF same /\ x.opcode = "JMPZNZ" /\ t.ext_to # 0
        THEN SetOp2(g, b, IF o.opcode = "JMPZ_EX" THEN t.op2_to ELSE t.ext_to)
      ELSE g

OptimizeJmpEx(g, b) ==
  LET o == g.code[LastOf(g, b)]
  IN  IF ~IsConst(o.op1)
        THEN IF g.blocks[b].op2_to = 0 THEN g ELSE JumpExTarget(g, b)
      ELSE IF (o.opcode = "JMPZ_EX") # IsTrue(o.op1[2]) THEN g
      ELSE [del_source(SetLast(g, b, [o EXCEPT !.opcode = "QM_ASSIGN"]), b, g.blocks[b].op2_to)
              EXCEPT !.blocks[b].op2_to = 0]

\* The number of the variable is kept in a zend_uchar here.
SameVarJmpznz(o, x) == Testable(x) /\ x.op1[1] = o.op1[1] /\ x.op1[2] = o.op1[2] % UChar

JmpznzTarget(g, b) ==
  LET o == g.code[LastOf(g, b)]
      n == NextTarget(g, g.blocks[b].op2_to, {})
      t == g.blocks[n[1]]
      x == g.code[n[2]]
      same == SameVarJmpznz(o, x) /\ ~t.protected
  IN  IF n[1] = 0 THEN [g EXCEPT !.ok = FALSE]
      ELSE IF same /\ x.opcode \in {"JMPZ", "JMPZNZ"} /\ t.op2_to # 0
        THEN SetOp2(g, b, t.op2_to)
      ELSE IF same /\ x.opcode = "JMPNZ" /\ t.follow_to # 0 THEN SetOp2(g, b, t.follow_to)
      ELSE IF x.opcode = "JMP" /\ t.op1_to # 0 /\ ~t.protected THEN SetOp2(g, b, t.op1_to)
      ELSE g

OptimizeJmpznz(g, b) ==
  LET o == g.code[LastOf(g, b)]
      k == g.blocks[b]
      next == NextLive(g, b)
      jmp == SetLast(g, b, [o EXCEPT !.opcode = "JMP", !.op1 = Unused])
      Only(h, to) == [h EXCEPT !.blocks[b].op1_to = to, !.blocks[b].op2_to = 0,
                               !.blocks[b].ext_to = 0]
      As(opcode) == SetLast(g, b, [o EXCEPT !.opcode = opcode])
  IN  IF IsConst(o.op1)
        THEN IF IsTrue(o.op1[2]) THEN del_source(Only(jmp, k.ext_to), b, k.op2_to)
                                 ELSE del_source(Only(jmp, k.op2_to), b, k.ext_to)
      ELSE IF k.op2_to = k.ext_to THEN Only(jmp, k.op2_to)
      ELSE IF k.op2_to = next
        THEN [As("JMPNZ") EXCEPT !.blocks[b].op2_to = k.ext_to,
                !.blocks[b].follow_to = next, !.blocks[b].ext_to = 0]
      ELSE IF k.ext_to = next
        THEN [As("JMPZ") EXCEPT !.blocks[b].follow_to = next, !.blocks[b].ext_to = 0]
      ELSE IF k.op2_to = 0 THEN g
      ELSE JmpznzTarget(g, b)

zend_jmp_optimization(g, b) ==
  LET o == g.code[LastOf(g, b)]
  IN  IF g.blocks[b].len = 0 THEN g
      ELSE CASE o.opcode = "JMP" -> OptimizeJmp(g, b)
             [] o.opcode \in Conditional ->
                  IF IsConst(o.op1) THEN ConstantJump(g, b)
                  ELSE JumpThenJump(IF g.blocks[b].op2_to = 0 THEN g
                                    ELSE JumpTarget(g, b), b)
             [] o.opcode \in ConditionalEx -> OptimizeJmpEx(g, b)
             [] o.opcode = "JMPZNZ" -> OptimizeJmpznz(g, b)
             [] OTHER -> g

(***************************************************************************)
(* The op array put together                                               *)
(***************************************************************************)

\* Blocks in use one after the other, without a JMP to the block that comes
\* next.  A block without oplines has no links that a jump is adjusted to.
assemble_code_blocks(g, brk, loops) ==
  LET live == SelectSeq([b \in DOMAIN g.blocks |-> b], LAMBDA b : g.blocks[b].access)
      Place(s, b) ==
        LET os    == Oplines(g, b)
            strip == /\ os # <<>> /\ os[Len(os)].opcode = "JMP"
                     /\ NextLive(g, b) # 0 /\ g.blocks[b].op1_to = NextLive(g, b)
            kept  == IF strip THEN SubSeq(os, 1, Len(os) - 1) ELSE os
        IN  [code |-> s.code \o kept,
             at   |-> [k \in DOMAIN s.at \cup {b} |->
                         IF k = b THEN Len(s.code) + 1 ELSE s.at[k]],
             ends |-> IF strip \/ os = <<>> THEN s.ends
                      ELSE [p \in DOMAIN s.ends \cup {Len(s.code \o kept)} |->
                              IF p = Len(s.code \o kept) THEN b ELSE s.ends[p]]]
      s == FoldLeft(LAMBDA x, b : Place(x, b),
                    [code |-> <<>>, at |-> [k \in {} |-> 0], ends |-> [p \in {} |-> 0]],
                    live)
      At(b) == IF b \in DOMAIN s.at THEN s.at[b] ELSE 0
      Adjusted(p) ==
        LET k == g.blocks[s.ends[p]]
            to == IF k.op1_to # 0 THEN k.op1_to ELSE k.op2_to
        IN  IF p \notin DOMAIN s.ends THEN s.code[p]
            ELSE [s.code[p] EXCEPT !.target = IF to # 0 THEN At(to) ELSE @,
                                   !.ext = IF k.ext_to # 0 THEN At(k.ext_to) ELSE @]
  IN  [code |-> [p \in DOMAIN s.code |-> Adjusted(p)],
       brk  |-> [n \in DOMAIN loops |->
                   [brk[n] EXCEPT !.start = At(loops[n][1]), !.cont = At(loops[n][2]),
                                  !.brk = At(loops[n][3])]]]

(***************************************************************************)
(* What a graph does when it is executed, for the properties               *)
(***************************************************************************)

\* Where execution enters block b.
RECURSIVE Entry(_, _, _)
Entry(g, b, seen) ==
  IF b = 0 \/ b \in seen THEN 0
  ELSE IF g.blocks[b].len > 0 THEN g.blocks[b].start
  ELSE Entry(g, g.blocks[b].follow_to, seen \cup {b})

Linked(g) ==
  LET live  == {b \in DOMAIN g.blocks : g.blocks[b].access}
      Of(p) == {b \in live : g.blocks[b].len > 0 /\ p = LastOf(g, b)}
      Target(k) == Entry(g, IF k.op1_to # 0 THEN k.op1_to ELSE k.op2_to, {})
  IN  [code |-> [p \in DOMAIN g.code |->
         IF Of(p) = {} \/ g.code[p].opcode \notin Jumping THEN g.code[p]
         ELSE LET k == g.blocks[CHOOSE b \in Of(p) : TRUE]
              IN  [g.code[p] EXCEPT !.target = Target(k), !.ext = Entry(g, k.ext_to, {})]],
       fall |-> [p \in DOMAIN g.code |->
         IF Of(p) = {} THEN p + 1
         ELSE Entry(g, g.blocks[CHOOSE b \in Of(p) : TRUE].follow_to, {})],
       pc   |-> LET b == CHOOSE b \in live : \A c \in live : b <= c
                IN  IF live = {} THEN 0 ELSE Entry(g, b, {})]
=============================================================================
