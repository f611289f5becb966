------------------------------ MODULE VbCompile ------------------------------
(* compile.c: the bytecode of a script's procedures.  Expressions keep only   *)
(* the instructions that matter to the stack and to errors, and operators of  *)
(* one shape share an instruction: "load" is OP_ident, OP_local, OP_mget and  *)
(* the literals, "binary" the two-operand operators.  An instruction carries  *)
(* the line it reports (loc) and, for the properties only, the point of           *)
(* VbStatements it belongs to (at, Nowhere when it only moves control).       *)
EXTENDS VbSyntax

NoWith == -1   \* ~0, the stack offset of a dot outside With

-------------------------------------------------------------------------------
(* The compiler's context: the code so far, the addresses of the labels of    *)
(* the procedure, the statements open around this one (innermost first), and  *)
(* the label of the procedure's end.  Label n is written -n.                  *)

InitCompiler == [code |-> <<>>, labels |-> <<>>, stat_ctx |-> <<>>, end_label |-> 0,
                 proc |-> 0, loc |-> End, at |-> Nowhere]

instr_cnt(c) == Len(c.code) + 1

\* Instructions to be: those that stand at a point of their own, at the point of
\* the context, and those that only move control.
At(pt, op, a1, a2) == [op |-> op, arg1 |-> a1, arg2 |-> a2, at |-> pt]
I(c, op, a1, a2) == At(c.at, op, a1, a2)
Move(op, a1, a2) == At(Nowhere, op, a1, a2)

\* push_instr for each of them; an OP_catch to 0 is one to the next instruction.
push_instrs(c, list) ==
  [c EXCEPT !.code = @ \o [i \in DOMAIN list |->
     [op |-> list[i].op, arg2 |-> list[i].arg2, at |-> list[i].at, proc |-> c.proc, loc |-> c.loc,
      arg1 |-> IF list[i].op = "catch" /\ list[i].arg1 = 0 THEN Len(c.code) + i + 1
               ELSE list[i].arg1]]]

\* n more labels; label_set_addr to the address of the next instruction.
alloc_labels(c, n) == [c EXCEPT !.labels = @ \o [i \in 1..n |-> 0]]
NewLabel(c) == -(Len(c.labels) + 1)
label_set_addr(c, label) == [c EXCEPT !.labels[-label] = instr_cnt(c)]

stack_offset(c) == FoldSeq(LAMBDA s, sum : s.use + sum, 0, c.stat_ctx)

\* mutant: the slots of the statements around are forgotten
emit_catch_jmp_bare(c, off, addr) == Move("catch", addr, off)
emit_catch_jmp(c, off, addr) == Move("catch", addr, off + stack_offset(c))
emit_catch(c, off) == emit_catch_jmp(c, off, 0)

Context(use) == [use |-> use, while_end |-> 0, for_end |-> 0, with |-> 0]
SetLoc(c, pt) == [c EXCEPT !.loc = pt, !.at = pt]

-------------------------------------------------------------------------------
(* Expressions.                                                               *)

\* mutant: one too far
dot_offset_off(c) ==
  LET withs == SelectSeq(c.stat_ctx, LAMBDA s : s.with # 0)
  IN IF withs = <<>> THEN NoWith ELSE withs[1].with

dot_offset(c) ==
  LET withs == SelectSeq(c.stat_ctx, LAMBDA s : s.with # 0)
  IN IF withs = <<>> THEN NoWith ELSE withs[1].with - 1

\* An expression is a leaf, a binary operator of two leaves, a member of the
\* With object, a literal, or a leaf added to what procedure number e returns.
compile_expression(c, e) ==
  LET load == I(c, "load", 0, 0)
  IN CASE e = "leaf" -> <<load>>
       [] e = "literal" -> <<I(c, "int", 0, 0)>>
       [] e = "binary" -> <<load, load, I(c, "binary", 0, 0)>>
       [] e = "dot" -> <<I(c, "stack", dot_offset(c), 0), I(c, "mget", 0, 0)>>
       [] e \in {"calls2", "calls3"} ->
            <<load, load, I(c, "icall", IF e = "calls2" THEN 2 ELSE 3, 1), I(c, "binary", 0, 0)>>

-------------------------------------------------------------------------------
(* Statements.  Each compile_ operator returns the context after statement s  *)
(* at path p.                                                                 *)

compile_assignment(c, s) ==
  push_instrs(c, compile_expression(c, s.expr) \o <<I(c, "assign", 1, 0), emit_catch(c, 0)>>)

compile_throw_assignment(c, s) ==
  push_instrs(c, compile_expression(c, s.expr)
                 \o <<Move("pop", 1, 0), I(c, "throw", 0, 0), emit_catch(c, 0)>>)

\* mutant: a call without its emit_catch
compile_call_uncaught(c, s) ==
  push_instrs(c, FlattenSeq([i \in DOMAIN s.args |-> compile_expression(c, s.args[i])])
                 \o <<I(c, "icallv", s.callee, Len(s.args))>>)

\* The emit_catch of a call still stands at the call, which a procedure's end
\* returns to.
compile_call_statement(c, s) ==
  push_instrs(c, FlattenSeq([i \in DOMAIN s.args |-> compile_expression(c, s.args[i])])
                 \o <<I(c, "icallv", s.callee, Len(s.args)), [emit_catch(c, 0) EXCEPT !.at = c.at]>>)

\* A jump out of the statements of which use slots are on the stack.
JumpOut(c, use, label) ==
  push_instrs(c, (IF use = 0 THEN <<>> ELSE <<Move("pop", use, 0)>>) \o <<Move("jmp", label, 0)>>)

\* Exit Do and Exit For leave the statements up to the innermost that has the label.
compile_exit_loop(c, field) ==
  LET n == SelectInSeq(c.stat_ctx, LAMBDA s : s[field] # 0)
  IN JumpOut(c, stack_offset([c EXCEPT !.stat_ctx = SubSeq(@, 1, n)]), c.stat_ctx[n][field])

exit_label(c, label) == JumpOut(c, stack_offset(c), label)

RECURSIVE compile_statement(_, _, _, _)

\* The j-th block of the statement at p, with ctx open (none when <<>>).
compile_body(c, body, p, j, ctx) == compile_statement(c, body, Append(p, j), ctx)

\* The conditions of an If from the j-th on; each is patched past its block.
RECURSIVE compile_branches(_, _, _, _, _)
compile_branches(c, s, p, j, endif) ==
  IF j > Len(s.conds)
  THEN IF j > Len(s.bodies) THEN c ELSE compile_body(c, s.bodies[j], p, j, <<>>)
  ELSE LET at == IF j = 1 THEN c ELSE SetLoc(c, Cond(p, j))
           cond == compile_expression(at, s.conds[j])
           head == push_instrs(at, cond \o <<I(at, "jmp_false", 0, 0), emit_catch(c, 0)>>)
           jump == IF j = 1 /\ Len(s.bodies) = 1 THEN <<>> ELSE <<Move("jmp", endif, 0)>>
           body == push_instrs(compile_body(head, s.bodies[j], p, j, <<>>), jump)
       IN compile_branches([body EXCEPT !.code[Len(c.code) + Len(cond) + 1].arg1 = instr_cnt(body)],
                           s, p, j + 1, endif)

compile_if_statement(c, s, p) ==
  label_set_addr(compile_branches(alloc_labels(c, 1), s, p, 1, NewLabel(c)), NewLabel(c))

\* While and Do While: the condition, whose failure enters the block; Exit Do
\* has a label only in the latter.
WhileContext(c, s) == IF s.exits THEN <<[Context(0) EXCEPT !.while_end = NewLabel(c)]>> ELSE <<>>

\* mutant: a failing condition leaves the loop
compile_while_leaving(c, s, p) ==
  LET end == NewLabel(c)
      head == compile_expression(c, s.expr)
              \o <<I(c, "jmp_false", end, 0), emit_catch_jmp(c, 0, end)>>
      body == compile_body(push_instrs(alloc_labels(c, 1), head), s.body, p, 1, WhileContext(c, s))
  IN label_set_addr(push_instrs(body, <<Move("jmp", instr_cnt(c), 0)>>), end)

compile_while_statement(c, s, p) ==
  LET end == NewLabel(c)
      head == compile_expression(c, s.expr) \o <<I(c, "jmp_false", end, 0), emit_catch(c, 0)>>
      body == compile_body(push_instrs(alloc_labels(c, 1), head), s.body, p, 1, WhileContext(c, s))
  IN label_set_addr(push_instrs(body, <<Move("jmp", instr_cnt(c), 0)>>), end)

\* Do..Loop While, and Do..Loop.  The test stands at Test(p), on the line of the Do.
LoopTest(c, s, p, again) ==
  LET test == [c EXCEPT !.loc = Begin(p), !.at = Test(p)]
  IN push_instrs(test, IF s.expr = "none" THEN <<I(test, "jmp", again, 0)>>
                       ELSE compile_expression(test, s.expr) \o <<I(test, "jmp_true", again, 0)>>)
LoopBody(c, s, p) == compile_body(alloc_labels(c, 1), s.body, p, 1,
                                  <<[Context(0) EXCEPT !.while_end = NewLabel(c)]>>)

compile_dowhile_statement(c, s, p) ==
  push_instrs(label_set_addr(LoopTest(LoopBody(c, s, p), s, p, instr_cnt(c)), NewLabel(c)),
              <<emit_catch(c, 0)>>)

\* A For Each: its start, its block, its next turn, its end; head is what comes
\* before the block.
EachStart(c, head) == push_instrs(alloc_labels(c, 1), head)
EachEnd(body, end, p, again) ==
  LET next == push_instrs([body EXCEPT !.loc = Begin(p)],
                          <<At(Test(p), "enumnext", end, 0), Move("jmp", again, 0)>>)
  IN label_set_addr(next, end)
EachTurn(c, s, p, head) ==
  LET body == compile_body(EachStart(c, head), s.body, p, 1,
                           <<[Context(1) EXCEPT !.for_end = NewLabel(c)]>>)
  IN push_instrs(EachEnd(body, NewLabel(c), p, Len(c.code) + Len(head) + 1), <<emit_catch(c, 0)>>)
EachHead(c, s) ==
  compile_expression(c, s.expr)
  \o <<I(c, "newenum", 0, 0), I(c, "enumnext", NewLabel(c), 0), emit_catch(c, 1)>>

compile_foreach_statement(c, s, p) == EachTurn(c, s, p, <<I(c, "empty", 0, 0)>> \o EachHead(c, s))

\* For: the labels are, from the first, those of a failed header, of what comes
\* after the loop, of the block, and of the loop's end.
ForLabel(c, n) == NewLabel(c) - n
ForInit(c, s) ==
  LET Bound(e) == compile_expression(c, e) \o <<I(c, "numval", 0, 0)>>
  IN Bound(s.expr) \o Bound(s.expr)
     \o (IF s.step = "none" THEN <<I(c, "int", 0, 0)>> ELSE Bound(s.step))
     \o <<emit_catch_jmp(c, 0, ForLabel(c, 0)), I(c, "stack", stack_offset(c), 0),
          I(c, "assign", 1, 0), emit_catch_jmp(c, 0, ForLabel(c, 0))>>
ForTurn(c, p, body, again) ==
  push_instrs([body EXCEPT !.loc = Begin(p)],
              <<At(Test(p), "incc", 0, 0), At(Test(p), "step", ForLabel(c, 3), 0),
                Move("jmp", again, 0), Move("pop", 3, 0)>>)
ForExit(c, turn) ==
  push_instrs(label_set_addr(turn, ForLabel(c, 3)),
              <<emit_catch(c, 0), Move("jmp", ForLabel(c, 1), 0)>>)
ForError(c, exit) ==
  LET empty == Move("empty", 0, 0)
  IN push_instrs(label_set_addr(exit, ForLabel(c, 0)),
                 <<empty, empty, empty, Move("jmp", ForLabel(c, 2), 0)>>)

compile_forto_statement(c, s, p) ==
  LET init == ForInit(c, s)
      head == push_instrs(alloc_labels(c, 4),
                          init \o <<At(Test(p), "step", ForLabel(c, 3), 0), emit_catch(c, 3)>>)
      Body(x) == compile_body(label_set_addr(x, ForLabel(c, 2)), s.body, p, 1,
                              <<[Context(3) EXCEPT !.for_end = ForLabel(c, 3)]>>)
      turn == ForTurn(c, p, Body(head), Len(c.code) + Len(init) + 1)
  IN label_set_addr(ForError(c, ForExit(c, turn)), ForLabel(c, 1))

compile_with_statement(c, s, p) ==
  LET head == compile_expression(c, s.expr) \o <<I(c, "with", 0, 0), emit_catch(c, 1)>>
      body == compile_body(push_instrs(c, head), s.body, p, 1,
                           <<[Context(1) EXCEPT !.with = stack_offset(c) + 1]>>)
  IN push_instrs(body, <<Move("pop", 1, 0)>>)

\* Select: the Case expressions come one after the other, and then the blocks;
\* the i-th has label end - i.
compile_case(c, s, p, i, label) ==
  FlattenSeq([j \in DOMAIN s.cases[i].exprs |->
    LET at == [c EXCEPT !.at = Case(p, i, j)]
    IN compile_expression(at, s.cases[i].exprs[j])
       \o <<I(at, "case", label, 0), emit_catch_jmp(c, 0, label)>>])

compile_select_statement(c, s, p) ==
  LET n == Len(s.cases)
      end == NewLabel(c)
      else == IF n > 0 /\ Last(s.cases).exprs = <<>> THEN end - n ELSE end
      head == compile_expression(c, s.expr) \o <<I(c, "val", 0, 0), emit_catch_jmp(c, 0, end)>>
      tests == FlattenSeq([i \in DOMAIN s.cases |-> compile_case(c, s, p, i, end - i)])
      Block(x, i) ==
        push_instrs(compile_body(label_set_addr(x, end - i), s.cases[i].body, p, i, <<>>),
                    IF i = n THEN <<>> ELSE <<Move("jmp", end, 0)>>)
      start == push_instrs(alloc_labels(c, n + 1),
                           head \o tests \o <<Move("pop", 1, 0), Move("jmp", else, 0)>>)
  IN label_set_addr(FoldLeft(Block, start, [i \in DOMAIN s.cases |-> i]), end)

\* A list of statements, inside the statement that opens ctx (none when <<>>).
compile_statement(c, list, pre, ctx) ==
  LET One(x, i) ==
        LET s == list[i]
            p == Append(pre, i)
            y == SetLoc(x, Begin(p))
        IN CASE s.kind = "assign" -> IF s.target = "value" THEN compile_throw_assignment(y, s)
                                     ELSE compile_assignment(y, s)
             [] s.kind = "call" -> compile_call_statement(y, s)
             [] s.kind = "errmode" -> push_instrs(y, <<I(y, "errmode", s.on, 0)>>)
             [] s.kind = "if" -> compile_if_statement(y, s, p)
             [] s.kind = "while" -> compile_while_statement(y, s, p)
             [] s.kind = "loop" -> compile_dowhile_statement(y, s, p)
             [] s.kind = "foreach" -> compile_foreach_statement(y, s, p)
             [] s.kind = "for" -> compile_forto_statement(y, s, p)
             [] s.kind = "with" -> compile_with_statement(y, s, p)
             [] s.kind = "select" -> compile_select_statement(y, s, p)
             [] s.kind = "exit" ->
                  CASE s.what = "do" -> compile_exit_loop(y, "while_end")
                    [] s.what = "for" -> compile_exit_loop(y, "for_end")
                    [] OTHER -> exit_label(y, y.end_label)
      body == FoldLeft(One, [c EXCEPT !.stat_ctx = ctx \o @], [i \in DOMAIN list |-> i])
  IN [body EXCEPT !.stat_ctx = c.stat_ctx]

\* Addresses for the labels of the instructions from off on.
resolve_labels(c, off) ==
  [c EXCEPT !.code = [a \in DOMAIN c.code |->
                        IF a >= off /\ c.code[a].op \in {"jmp", "jmp_false", "jmp_true", "catch",
                                                        "case", "enumnext", "step"}
                           /\ c.code[a].arg1 < 0
                        THEN [c.code[a] EXCEPT !.arg1 = c.labels[-c.code[a].arg1]]
                        ELSE c.code[a]],
            !.labels = <<>>]

\* A procedure: its body, the label of its end, OP_ret.
compile_func(c, q, body) ==
  LET off == instr_cnt(c)
      start == [alloc_labels(c, 1) EXCEPT !.proc = q, !.end_label = -1]
      code == label_set_addr(compile_statement(start, body, <<>>, <<>>), -1)
  IN resolve_labels(push_instrs(code, <<At(End, "ret", 0, 0)>>), off)

\* A script: the global code first, then the procedures, the last one declared
\* first.  off is where each procedure starts.
compile_script(s) ==
  LET order == <<1>> \o Reverse([i \in 1..(Len(s) - 1) |-> i + 1])
      Step(acc, q) == [c |-> compile_func(acc.c, q, s[q]),
                       off |-> [acc.off EXCEPT ![q] = instr_cnt(acc.c)]]
      all == FoldLeft(Step, [c |-> InitCompiler, off |-> [q \in DOMAIN s |-> 0]], order)
  IN [instrs |-> all.c.code, off |-> all.off]
===============================================================================
