------------------------------ MODULE Opcodes ------------------------------
(***************************************************************************)
(* The part of the PHP engine that the optimizer works on: op arrays as    *)
(* the compiler emits them, and what executing them does.  It is not under *)
(* src/; it is described as far as the optimizer's patterns rely on it.    *)
(*                                                                         *)
(* A value is <<type, text>>, where text is what a conversion to a string  *)
(* gives.  An operand is <<type, n>>: a constant, a temporary (TMP or VAR, *)
(* UVAR for a VAR marked EXT_TYPE_UNUSED), a compiled variable or UNUSED.  *)
(* An opline keeps the number of the opline it jumps to in "target" (BRK:  *)
(* how many levels it leaves) and in "ext" a second one, the type of a     *)
(* cast or the number of a loop. Oplines are numbered from 1.              *)
(***************************************************************************)
EXTENDS Integers, Sequences, FiniteSets, SequencesExt

CONSTANTS
  Fuel,  \* bound: oplines executed before a run counts as endless
  Cap    \* bound: characters of output that are compared

Null   == <<"null", "">>
False  == <<"bool", "">>
True   == <<"bool", "1">>
Long(s) == <<"long", s>>
Text(s) == <<"string", s>>

IsTrue(v)   == v[2] \notin {"", "0"}
ToBool(v)   == IF IsTrue(v) THEN True ELSE False
Negate(v)   == IF IsTrue(v) THEN False ELSE True
ToText(v)   == Text(v[2])
Equal(v, w) == IF "bool" \in {v[1], w[1]}
                 THEN IsTrue(v) = IsTrue(w) ELSE v[2] = w[2]
Truth(b)    == IF b THEN True ELSE False

\* The sum of two arrays keeps the left one's elements, here one element under
\* one key; what other sums are is not told apart.
Sum(v, w)   == IF v[1] = "array" /\ w[1] = "array" THEN v ELSE Long("0")

Incremented(v) == CASE v[1] = "null" -> Long("1")
                    [] v = Long("1") -> Long("2")
                    [] OTHER         -> v

Unused   == <<"UNUSED", 0>>
Const(v) == <<"CONST", v>>
Tmp(n)   == <<"TMP", n>>
Var(n)   == <<"VAR", n>>
UVar(n)  == <<"UVAR", n>>
CV(n)    == <<"CV", n>>

IsConst(o) == o[1] = "CONST"
IsTmp(o)   == o[1] = "TMP"
IsT(o)     == o[1] \in {"TMP", "VAR", "UVAR"}

IS_BOOL   == 3
IS_STRING == 6

Op(opcode, op1, op2, result) ==
  [opcode |-> opcode, op1 |-> op1, op2 |-> op2, result |-> result,
   target |-> 0, ext |-> 0]
Jump(opcode, op1, result, target) ==
  [Op(opcode, op1, Unused, result) EXCEPT !.target = target]
Nop == Op("NOP", Unused, Unused, Unused)

Conditional  == {"JMPZ", "JMPNZ"}
ConditionalEx == {"JMPZ_EX", "JMPNZ_EX"}
Jumping == {"JMP", "JMPZNZ", "JMP_SET"} \cup Conditional \cup ConditionalEx

(***************************************************************************)
(* Execution                                                               *)
(***************************************************************************)

Read(o, cv, t) ==
  CASE o[1] = "CONST"  -> o[2]
    [] o[1] = "CV"     -> cv[o[2]]
    [] IsT(o)          -> IF o[2] \in DOMAIN t THEN t[o[2]] ELSE <<"undef", "">>
    [] OTHER           -> Null

\* Handlers destroy a temporary they read; CASE does not.
Consume(t, os) ==
  LET gone == {o[2] : o \in {o \in os : IsT(o)}}
  IN  [n \in DOMAIN t \ gone |-> t[n]]

Store(t, o, v) ==
  IF o[2] = 0 THEN t
  ELSE [n \in DOMAIN t \cup {o[2]} |-> IF n = o[2] THEN v ELSE t[n]]

Computed(i, x, y) ==
  CASE i.opcode \in {"QM_ASSIGN", "JMP_SET"}       -> x
    [] i.opcode \in {"BOOL"} \cup ConditionalEx    -> ToBool(x)
    [] i.opcode = "BOOL_NOT"                       -> Negate(x)
    [] i.opcode = "CAST" -> IF i.ext = IS_BOOL THEN ToBool(x) ELSE ToText(x)
    [] i.opcode \in {"IS_EQUAL", "CASE"}           -> Truth(Equal(x, y))
    [] i.opcode = "IS_NOT_EQUAL"                   -> Truth(~Equal(x, y))
    [] i.opcode \in {"CONCAT", "ADD_STRING", "ADD_VAR", "ASSIGN_CONCAT"}
                                                   -> Text(x[2] \o y[2])
    [] i.opcode \in {"ADD", "ASSIGN_ADD"}          -> Sum(x, y)
    [] i.opcode = "PRINT"                          -> Long("1")
    [] i.opcode = "ASSIGN"                         -> y
    [] i.opcode = "PRE_INC"                        -> Incremented(x)
    [] i.opcode = "POST_INC"                       -> x
    [] OTHER                                       -> Null

Jumps(i, x) ==
  CASE i.opcode = "JMP"                  -> TRUE
    [] i.opcode \in {"JMPZ", "JMPZ_EX", "JMPZNZ"} -> ~IsTrue(x)
    [] i.opcode \in {"JMPNZ", "JMPNZ_EX", "JMP_SET"} -> IsTrue(x)
    [] OTHER                             -> FALSE

\* The opline that a BRK or CONT left as it is goes to.
RECURSIVE Leave(_, _, _, _)
Leave(brk, n, levels, opcode) ==
  IF n = 0 THEN 0
  ELSE IF levels > 1 THEN Leave(brk, brk[n].parent, levels - 1, opcode)
  ELSE IF opcode = "BRK" THEN brk[n].brk ELSE brk[n].cont

\* Executes c from opline pc.  "fall" gives the opline executed after one that
\* does not jump.  The result is the output with how the run ended.
RECURSIVE Execute(_, _, _, _, _, _, _, _)
Execute(c, fall, brk, pc, cv, t, out, fuel) ==
  IF pc \notin DOMAIN c THEN <<out, "lost">>
  ELSE IF fuel = 0 \/ Len(out) >= Cap
    THEN <<SubSeq(out, 1, IF Len(out) < Cap THEN Len(out) ELSE Cap), "more">>
  ELSE
    LET i    == c[pc]
        x    == Read(i.op1, cv, t)
        y    == Read(i.op2, cv, t)
        v    == Computed(i, x, y)
        used == Consume(t, IF i.opcode = "CASE" THEN {i.op2} ELSE {i.op1, i.op2})
        t1   == IF i.opcode = "JMP_SET" /\ ~IsTrue(x)
                  THEN used ELSE Store(used, i.result, v)
        cv1  == IF i.opcode \in {"ASSIGN", "ASSIGN_CONCAT", "ASSIGN_ADD", "PRE_INC"}
                  THEN [cv EXCEPT ![i.op1[2]] = v]
                ELSE IF i.opcode = "POST_INC"
                  THEN [cv EXCEPT ![i.op1[2]] = Incremented(x)] ELSE cv
        next == IF Jumps(i, x) THEN i.target
                ELSE IF i.opcode = "JMPZNZ" THEN i.ext
                ELSE IF i.opcode \in {"BRK", "CONT"}
                  THEN Leave(brk, i.ext, i.target, i.opcode)
                ELSE fall[pc]
    IN  IF "undef" \in {x[1], y[1]} THEN <<out, "undefined">>
        ELSE IF i.opcode = "RETURN" THEN <<out, "return " \o x[2]>>
        ELSE Execute(c, fall, brk, next, cv1, t1,
                     IF i.opcode \in {"ECHO", "PRINT"} THEN out \o x[2] ELSE out,
                     fuel - 1)

(***************************************************************************)
(* Compilation.  n oplines and t temporaries exist already.                *)
(***************************************************************************)

RECURSIVE Expr(_, _, _)
Expr(e, n, t) ==
  LET x == Expr(e[2], n, t)
      y == Expr(e[3], n + Len(x.code), x.t)
      Done(code, res, ts) == [code |-> code, res |-> res, t |-> ts]
      Unary(opcode, ext) ==
        Done(Append(x.code, [Op(opcode, x.res, Unused, Tmp(x.t + 1))
                               EXCEPT !.ext = ext]), Tmp(x.t + 1), x.t + 1)
      Binary(opcode) ==
        Done(Append(x.code \o y.code, Op(opcode, x.res, y.res, Tmp(y.t + 1))),
             Tmp(y.t + 1), y.t + 1)
  IN
  CASE e[1] = "cv"     -> Done(<<>>, CV(e[2]), t)
    [] e[1] = "const"  -> Done(<<>>, Const(e[2]), t)
    [] e[1] = "not"    -> Unary("BOOL_NOT", 0)
    [] e[1] = "bool"   -> Unary("CAST", IS_BOOL)
    [] e[1] = "text"   -> Unary("CAST", IS_STRING)
    [] e[1] = "print"  -> Unary("PRINT", 0)
    [] e[1] = "inc"    -> Unary("POST_INC", 0)
    [] e[1] = "eq"     -> Binary("IS_EQUAL")
    [] e[1] = "ne"     -> Binary("IS_NOT_EQUAL")
    [] e[1] = "concat" -> Binary("CONCAT")
    [] e[1] = "add"    -> Binary("ADD")
    [] e[1] = "quoted" ->   \* "s$v", or "s" and a second piece
         LET r == Tmp(t + 1)
         IN  Done(<<Op("ADD_STRING", Unused, Const(e[2]), r),
                    Op(IF e[3][1] = "cv" THEN "ADD_VAR" ELSE "ADD_STRING", r,
                       IF e[3][1] = "cv" THEN CV(e[3][2]) ELSE Const(e[3][2]), r)>>,
                  r, t + 1)
    [] e[1] \in {"and", "or"} ->
         LET r == IF IsTmp(x.res) THEN x.res ELSE Tmp(x.t + 1)
             z == Expr(e[3], n + Len(x.code) + 1, IF IsTmp(x.res) THEN x.t ELSE x.t + 1)
             jump == Jump(IF e[1] = "and" THEN "JMPZ_EX" ELSE "JMPNZ_EX", x.res, r,
                          n + Len(x.code) + Len(z.code) + 3)
         IN  Done((x.code \o <<jump>>) \o (z.code \o <<Op("BOOL", z.res, Unused, r)>>),
                  r, z.t)
    [] e[1] = "if" ->
         LET yes == Expr(e[3], n + Len(x.code) + 1, x.t)
             r   == Tmp(yes.t + 1)
             at  == n + Len(x.code) + Len(yes.code) + 3
             no  == Expr(e[4], at, yes.t + 1)
         IN  Done(x.code \o <<Jump("JMPZ", x.res, Unused, at + 1)>> \o yes.code
                    \o <<Op("QM_ASSIGN", yes.res, Unused, r),
                         Jump("JMP", Unused, Unused, at + Len(no.code) + 2)>>
                    \o no.code \o <<Op("QM_ASSIGN", no.res, Unused, r)>>, r, no.t)
    [] e[1] = "elvis" ->
         LET r  == Tmp(x.t + 1)
             no == Expr(e[3], n + Len(x.code) + 1, x.t + 1)
         IN  Done(x.code \o <<Jump("JMP_SET", x.res, r, n + Len(x.code) + Len(no.code) + 3)>>
                    \o no.code \o <<Op("QM_ASSIGN", no.res, Unused, r)>>, r, no.t)
    [] e[1] = "assign" ->
         LET z == Expr(e[3], n, t)
         IN  Done(Append(z.code, Op("ASSIGN", CV(e[2]), z.res, Var(z.t + 1))),
                  Var(z.t + 1), z.t + 1)

\* An expression whose value is not used.
Discarded(x) ==
  CASE x.res[1] = "TMP" -> Append(x.code, Op("FREE", x.res, Unused, Unused))
    [] x.res[1] = "VAR" -> [x.code EXCEPT ![Len(x.code)].result = UVar(x.res[2])]
    [] OTHER            -> x.code

\* s = [code, t, brk]: what is emitted so far; cur is the enclosing loop.
Emit(s, code) == [s EXCEPT !.code = @ \o code]

RECURSIVE Stmt(_, _, _)
Stmt(s, st, cur) ==
  LET n    == Len(s.code)
      x    == Expr(st[2], n, s.t)
      with == [Emit(s, x.code) EXCEPT !.t = x.t]
      at   == Len(with.code)
      Loop(z, start, cont, brk, k) ==
        [z EXCEPT !.brk[k] = [start |-> start, cont |-> cont, brk |-> brk,
                              parent |-> cur]]
      Opened(z) == [z EXCEPT !.brk = Append(@, [start |-> 0, cont |-> 0,
                                                brk |-> 0, parent |-> cur])]
      mine == Len(s.brk) + 1
  IN
  CASE st[1] = "seq"    -> Stmt(Stmt(s, st[2], cur), st[3], cur)
    [] st[1] = "echo"   -> Emit(with, <<Op("ECHO", x.res, Unused, Unused)>>)
    [] st[1] = "return" -> Emit(with, <<Op("RETURN", x.res, Unused, Unused)>>)
    [] st[1] = "expr"   -> [Emit(s, Discarded(x)) EXCEPT !.t = x.t]
    [] st[1] \in {"break", "continue"} ->
         Emit(s, <<[Op(IF st[1] = "break" THEN "BRK" ELSE "CONT", Unused, Const(Null),
                       Unused) EXCEPT !.target = st[2], !.ext = cur]>>)
    [] st[1] = "if" ->
         LET yes == Stmt(Emit(with, <<Nop>>), st[3], cur)
             no  == Stmt(Emit(yes, <<Nop>>), st[4], cur)
         IN  [no EXCEPT
                !.code[at + 1] = Jump("JMPZ", x.res, Unused, Len(yes.code) + 2),
                !.code[Len(yes.code) + 1] =
                   Jump("JMP", Unused, Unused, Len(no.code) + 1)]
    [] st[1] = "none"  -> s
    [] st[1] = "while" ->
         LET body == Stmt(Opened(Emit(with, <<Nop>>)), st[3], mine)
             done == Emit(body, <<Jump("JMP", Unused, Unused, n + 1)>>)
         IN  Loop([done EXCEPT !.code[at + 1] =
                     Jump("JMPZ", x.res, Unused, Len(done.code) + 1)],
                  n + 1, n + 1, Len(done.code) + 1, mine)
    [] st[1] = "do" ->
         LET body == Stmt(Opened(s), st[3], mine)
             c    == Expr(st[2], Len(body.code), body.t)
             done == Emit(body, c.code \o <<Jump("JMPNZ", c.res, Unused, n + 1)>>)
         IN  Loop([done EXCEPT !.t = c.t], n + 1, Len(body.code) + 1,
                  Len(done.code) + 1, mine)
    [] st[1] = "for" ->
         LET body == Stmt(Opened(Emit(with, <<Nop, Jump("JMP", Unused, Unused, n + 1)>>)),
                          st[3], mine)
             done == Emit(body, <<Jump("JMP", Unused, Unused, at + 2)>>)
         IN  Loop([done EXCEPT !.code[at + 1] =
                     [Jump("JMPZNZ", x.res, Unused, Len(done.code) + 1)
                        EXCEPT !.ext = at + 3]],
                  n + 1, at + 2, Len(done.code) + 1, mine)
    [] st[1] = "switch" ->
         LET case == Op("CASE", x.res, Const(st[3]), Tmp(x.t + 1))
             body == Stmt(Opened([Emit(with, <<case, Nop>>) EXCEPT !.t = @ + 1]),
                          st[4], mine)
             end  == Len(body.code) + 2
         IN  Loop(Emit([body EXCEPT !.code[at + 2] =
                          Jump("JMPZ", Tmp(x.t + 1), Unused, end)],
                       <<Jump("JMP", Unused, Unused, end)>>
                         \o IF IsT(x.res) THEN <<Op("FREE", x.res, Unused, Unused)>>
                                          ELSE <<>>),
                  at + 1, end, end, mine)

Compiled(program) ==
  LET s == Stmt([code |-> <<>>, t |-> 0, brk |-> <<>>], program, 0)
  IN  Emit(s, <<Op("RETURN", Const(Long("1")), Unused, Unused)>>)

\* The members of s up to n in their order.
InOrder(s, n) == SelectSeq([i \in 1 .. n |-> i], LAMBDA i : i \in s)

Plain(code) == [i \in DOMAIN code |-> i + 1]
=============================================================================
