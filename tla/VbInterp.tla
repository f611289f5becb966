------------------------------- MODULE VbInterp -------------------------------
(* interp.c: exec_script runs the bytecode of VbCompile.  One action per kind *)
(* of instruction; an instruction may fail wherever the code lets it, and a   *)
(* failure unwinds as exec_script does.  Values are left out except for the   *)
(* three that control looks at: VT_EMPTY, the enumerator of For Each, and     *)
(* everything else.                                                           *)
EXTENDS VbCompile, VbFlow

CONSTANTS Scripts,       \* the scripts to run, a sequence
          max_call_depth, \* the calls between procedures that may nest
          Compiled,      \* the bytecode of each, a constant to have it worked out once
          Comparable     \* the scripts whose For loops have values that VarCmp can compare

ASSUME InterpAssumption ==
  /\ max_call_depth \in Nat /\ Comparable \subseteq DOMAIN Scripts
  /\ LET scripts == Scripts IN Compiled = [n \in DOMAIN scripts |-> compile_script(scripts[n])]

VARIABLES script,     \* the index of the script that runs
          execs,      \* the exec_ctx_t of the procedures being run, innermost last
          call_depth, \* ctx->call_depth
          ei,         \* ctx->ei, the Err object, holds an error
          failing,    \* the instruction that called a procedure got an error from it
          error_loc   \* ctx->error_loc_code and error_loc_offset: procedure and line
vars == <<script, execs, call_depth, ei, failing, error_loc>>

NoLoc == <<0, Nowhere>>

code == Compiled[script].instrs

exec == execs[Len(execs)]
instr == code[exec.instr]
stack == exec.stack
top == Len(stack)
stack_top(n) == stack[top - n]
Pop(n) == SubSeq(stack, 1, top - n)
Push(v) == Append(stack, v)

Exec(q) == [func |-> q, instr |-> Compiled[script].off[q], stack |-> <<>>, resume_next |-> FALSE]

Init == /\ script \in DOMAIN Scripts
        /\ execs = <<Exec(1)>>
        /\ call_depth = 0
        /\ ei = FALSE
        /\ failing = FALSE
        /\ error_loc = NoLoc

-------------------------------------------------------------------------------
(* How an instruction ends.                                                   *)

\* The next instruction is the one at a; the stack is st.
JumpWith(a, st) ==
  /\ ~failing
  /\ execs' = [execs EXCEPT ![Len(execs)] = [@ EXCEPT !.instr = a, !.stack = st]]
  /\ UNCHANGED <<script, call_depth, failing, error_loc>>
Jump(a, st) == JumpWith(a, st) /\ UNCHANGED ei
Done(st) == Jump(exec.instr + 1, st)

\* while((++exec.instr)->op != OP_catch): nothing stops it at the end of the procedure.
next_catch(a) ==
  LET later == {b \in (a + 1)..Len(code) : code[b].op = "catch"}
  IN IF later = {} THEN 0 ELSE Min(later)

\* Pops what is above the offset, or pushes VT_EMPTY up to it.
Unwound(st, off) == [i \in 1..off |-> IF i <= Len(st) THEN st[i] ELSE "empty"]

\* mutant: the depth is not given back
FailAtKept(a, st) ==
  IF exec.resume_next
  THEN LET h == next_catch(a)
       IN /\ execs' = [execs EXCEPT ![Len(execs)] =
                         [@ EXCEPT !.instr = IF h = 0 THEN 0 ELSE code[h].arg1,
                                   !.stack = IF h = 0 THEN st ELSE Unwound(st, code[h].arg2)]]
          /\ failing' = FALSE
          /\ ei' = TRUE
          /\ error_loc' = NoLoc
          /\ UNCHANGED <<script, call_depth>>
  ELSE /\ execs' = Front(execs)
       /\ failing' = (Len(execs) > 1)
       /\ ei' = TRUE
       /\ call_depth' = call_depth
       /\ error_loc' = IF error_loc = NoLoc THEN <<exec.func, code[a].loc>> ELSE error_loc
       /\ UNCHANGED script

\* The instruction fails, with the instruction pointer at a and the stack st.
\* Without On Error Resume Next the procedure is left, its stack released, and
\* the error is the result of the instruction that called it.
FailAt(a, st) ==
  IF exec.resume_next
  THEN LET h == next_catch(a)
       IN /\ execs' = [execs EXCEPT ![Len(execs)] =
                         [@ EXCEPT !.instr = IF h = 0 THEN 0 ELSE code[h].arg1,
                                   !.stack = IF h = 0 THEN st ELSE Unwound(st, code[h].arg2)]]
          /\ failing' = FALSE
          /\ ei' = TRUE
          /\ error_loc' = NoLoc
          /\ UNCHANGED <<script, call_depth>>
  ELSE /\ execs' = Front(execs)
       /\ failing' = (Len(execs) > 1)
       /\ ei' = TRUE
       /\ call_depth' = IF Len(execs) > 1 THEN call_depth - 1 ELSE call_depth
       /\ error_loc' = IF error_loc = NoLoc THEN <<exec.func, code[a].loc>> ELSE error_loc
       /\ UNCHANGED script
Fail(st) == ~failing /\ FailAt(exec.instr, st)

Running(ops) == execs # <<>> /\ exec.instr # 0 /\ instr.op \in ops

-------------------------------------------------------------------------------
(* The instructions.                                                          *)

\* interp_ident, interp_local and the like; interp_stack, for a dot in With.
Load == Running({"load"}) /\ (Done(Push("val")) \/ Fail(stack))
Literal == Running({"int"}) /\ Done(Push("val"))
PushEmpty == Running({"empty"}) /\ Done(Push("empty"))
Stack == /\ Running({"stack"})
         /\ IF instr.arg1 = NoWith THEN Fail(stack)
            ELSE Done(Push(stack[instr.arg1 + 1])) \/ Fail(stack)

\* Operators pop an operand, take its value, and may fail between the two.
Unary == /\ Running({"mget", "val", "numval"})
         /\ Done(Append(Pop(1), "val")) \/ Fail(Pop(1))
Binary == /\ Running({"binary"})
          /\ Done(Append(Pop(2), "val")) \/ Fail(Pop(1)) \/ Fail(Pop(2))
PopValues == Running({"pop"}) /\ Done(Pop(instr.arg1))

\* interp_assign_ident and the other assignments.
Assign == Running({"assign"}) /\ (Done(Pop(instr.arg1)) \/ Fail(stack))
Throw == Running({"throw"}) /\ Fail(stack)
ErrMode == /\ Running({"errmode"}) /\ ~failing
           /\ execs' = [execs EXCEPT ![Len(execs)] =
                          [@ EXCEPT !.resume_next = instr.arg1, !.instr = @ + 1]]
           /\ ei' = FALSE
           /\ UNCHANGED <<script, call_depth, failing, error_loc>>
Catch == Running({"catch"}) /\ Done(stack)

jmp == Running({"jmp"}) /\ Jump(instr.arg1, stack)
Branching == /\ Running({"jmp_false", "jmp_true"})
             /\ Done(Pop(1)) \/ Jump(instr.arg1, Pop(1)) \/ Fail(Pop(1))

\* interp_case: a mismatch of types is no match, other errors fail.
CaseTest == /\ Running({"case"})
            /\ \/ Jump(instr.arg1, SubSeq(stack, 1, top - 2))
               \/ Done(Pop(1)) \/ Fail(Pop(1))

With == Running({"with"}) /\ (Done(stack) \/ Fail(stack))

\* interp_newenum: the enumerator takes the place kept for it under the operand.
NewEnum == /\ Running({"newenum"})
           /\ \/ Done(Append(Pop(2), "enum"))
              \/ Fail(Pop(1))
              \/ Done(Pop(1))   \* DISPID_NEWENUM returned no object: nothing stored
EnumNext == /\ Running({"enumnext"})
            /\ IF stack_top(0) = "empty" THEN Fail(stack)
               ELSE Done(stack) \/ Jump(instr.arg1, Pop(1)) \/ Fail(stack)

IncC == Running({"incc"}) /\ (Done(stack) \/ Fail(stack))

\* interp_step, do_for_step.  A failing VarCmp jumps to the end of the loop before
\* it returns the error, so that the search for an OP_catch starts after the one
\* there.  It fails in the header for a bound that is an array or a loop variable
\* that is an argument by reference; at the end of the loop, where OP_incc has
\* run before, for a bound that is a missing argument (VT_ERROR).
NotInitialized == stack_top(0) = "empty" /\ stack_top(1) = "empty"
StepError == ~failing /\ script \notin Comparable /\ FailAt(instr.arg1, Pop(2))
Step == /\ Running({"step"})
        /\ IF NotInitialized THEN JumpWith(instr.arg1, Pop(3)) /\ ei' = TRUE
           ELSE Fail(stack) \/ Done(stack) \/ Jump(instr.arg1, Pop(3)) \/ StepError

\* do_icall: a procedure of the host, or exec_script of one of this script.
Called(x) == LET call == code[x.instr]
             IN [x EXCEPT !.instr = @ + 1,
                          !.stack = SubSeq(@, 1, Len(@) - call.arg2)
                                    \o (IF call.op = "icall" THEN <<"val">> ELSE <<>>)]
Call == /\ Running({"icall", "icallv"}) /\ ~failing
        /\ \/ FailAt(exec.instr, stack)
           \/ /\ instr.arg1 = 0
              /\ execs' = [execs EXCEPT ![Len(execs)] = Called(@)]
              /\ UNCHANGED <<script, call_depth, ei, failing, error_loc>>
           \/ /\ instr.arg1 # 0 /\ call_depth < max_call_depth
              /\ call_depth' = call_depth + 1
              /\ execs' = Append(execs, Exec(instr.arg1))
              /\ UNCHANGED <<script, ei, failing, error_loc>>

\* exec_script returned an error: the instruction that called it fails.
CallFailed == /\ Running({"icall", "icallv"}) /\ failing
              /\ FailAt(exec.instr, stack)

\* OP_ret, and the rest of the instruction that called.
Ret == /\ Running({"ret"}) /\ ~failing
       /\ IF Len(execs) = 1 THEN execs' = <<>> /\ UNCHANGED call_depth
          ELSE /\ execs' = [Front(execs) EXCEPT ![Len(execs) - 1] = Called(@)]
               /\ call_depth' = call_depth - 1
       /\ UNCHANGED <<script, ei, failing, error_loc>>

\* The script has ended; or the search for an OP_catch ran out of the script's
\* code, and what happens then is undefined.
Ended == (execs # <<>> => exec.instr = 0) /\ UNCHANGED vars

Next == \/ Load \/ Literal \/ PushEmpty \/ Stack \/ Unary \/ Binary \/ PopValues
        \/ Assign \/ Throw \/ ErrMode \/ Catch \/ jmp \/ Branching \/ CaseTest \/ With
        \/ NewEnum \/ EnumNext \/ IncC \/ Step \/ Call \/ CallFailed \/ Ret \/ Ended

Spec == Init /\ [][Next]_vars

-------------------------------------------------------------------------------
(* Correctness.                                                               *)

\* An instruction never runs, and unwinding never ends, outside the procedure
\* that the frame belongs to: the search for an OP_catch in exec_script has no
\* bound of its own, and the procedures of a script share one array.  "Generated
\* bytecode needs to guarantee, that simple jump and stack adjustment will
\* guarantee proper execution continuation", the comment there says.
StaysInProcedure ==
  \A n \in DOMAIN execs : execs[n].instr \in DOMAIN code /\ code[execs[n].instr].proc = execs[n].func

\* The bytecode guarantees that but for one instruction: whatever fails in
\* whatever statement, an OP_catch of the same procedure follows, unless it is
\* the comparison of a For loop, which gives the end of its loop away.
OnlyComparisonsStray == [][StaysInProcedure /\ ~StaysInProcedure' => Running({"step"}) /\ StepError]_vars

\* The guard against runaway recursion counts the frames that run: every way
\* out of exec_script gives back what the way in took.
DepthCountsFrames == execs # <<>> => call_depth = Len(execs) - 1

\* Types, and DepthCountsFrames.  An instr of 0 is past the end of the code.
TypeOK ==
  /\ script \in DOMAIN Scripts
  /\ \A n \in DOMAIN execs :
       /\ execs[n].func \in DOMAIN Scripts[script]
       /\ execs[n].instr \in 0..Len(code)
       /\ execs[n].stack \in Seq({"val", "empty", "enum"})
       /\ execs[n].resume_next \in BOOLEAN
  /\ call_depth \in 0..max_call_depth
  /\ ei \in BOOLEAN /\ failing \in BOOLEAN
  /\ DepthCountsFrames

\* The slots that the statements around a path keep on the stack.
Slots(kind) == CASE kind = "for" -> 3 [] kind \in {"foreach", "with"} -> 1 [] OTHER -> 0
RECURSIVE Held(_, _)
Held(list, p) ==
  IF Len(p) <= 1 THEN 0
  ELSE Slots(list[p[1]].kind) + Held(Branch(list[p[1]], p[2]), SubSeq(p, 3, Len(p)))

\* The procedure that the frame's instruction belongs to, its own or, after a
\* failed comparison, another.
ProcOf(x) == code[x.instr].proc
Body(x) == Scripts[script][ProcOf(x)]
HeldAt(x, pt) ==
  Held(Body(x), pt[1]) + (CASE pt = Test(pt[1]) -> Slots(StatementAt(Body(x), pt[1]).kind)
                            [] Len(pt[2]) = 2 -> 1
                            [] OTHER -> 0)

FirstOf(x, pt) ==
  /\ pt # Nowhere
  /\ \A a \in Compiled[script].off[ProcOf(x)]..(x.instr - 1) : code[a].at # pt

\* However control came to a statement, a loop's test or a Case, with whatever
\* failures on the way, the stack then holds the slots of the statements around
\* it and nothing else; at the end of a procedure it is empty (the assertion of
\* exec_script).  emit_catch, Exit and the loops have to agree on this.  It holds
\* in another procedure too where a failed comparison led there.
StackMatchesStatement ==
  \A n \in {m \in DOMAIN execs : execs[m].instr # 0} :
    LET x == execs[n]
        pt == code[x.instr].at
    IN FirstOf(x, pt) => Len(x.stack) = (IF pt = End THEN 0 ELSE HeldAt(x, pt))

\* The assertions of the instructions hold: operands are there, OP_newenum finds
\* the place it was promised, OP_enumnext an enumerator or nothing.
Operands == [load |-> 0, int |-> 0, empty |-> 0, stack |-> 0, errmode |-> 0, catch |-> 0,
             jmp |-> 0, throw |-> 0, ret |-> 0, mget |-> 1, val |-> 1, numval |-> 1,
             jmp_false |-> 1, jmp_true |-> 1, with |-> 1, enumnext |-> 1, binary |-> 2,
             case |-> 2, newenum |-> 2, step |-> 3, incc |-> 3]
AtInstruction == execs # <<>> /\ exec.instr # 0
AssertionsHold ==
  AtInstruction =>
    /\ top >= (CASE instr.op \in {"pop", "assign"} -> instr.arg1
                 [] instr.op \in {"icall", "icallv"} -> instr.arg2
                 [] OTHER -> Operands[instr.op])
    /\ instr.op = "newenum" => stack_top(1) = "empty"
    /\ instr.op = "enumnext" => stack_top(0) \in {"empty", "enum"}

\* OP_stack addresses the stack from its bottom, so the compiler has to know how
\* much every statement around keeps there: a dot reads the object of the innermost
\* With (or fails outside With), the start of a For loop the value below its end.
StackReadsItsSlot ==
  AtInstruction /\ instr.op = "stack" =>
    LET p == instr.at[1]
        withs == {n \in {m \in 1..(Len(p) - 1) : m % 2 = 1} :
                    StatementAt(Body(exec), SubSeq(p, 1, n)).kind = "with"}
    IN instr.arg1 = IF code[exec.instr + 1].op = "assign" THEN Held(Body(exec), p)
                    ELSE IF withs = {} THEN NoWith
                    ELSE Held(Body(exec), SubSeq(p, 1, Max(withs)))

\* What an instruction takes from the stack was put there for it.
OperandsMatch == AssertionsHold /\ StackReadsItsSlot

-------------------------------------------------------------------------------
(* The bytecode implements the statements.                                    *)

\* The point an instruction stands at: where instructions that only move control lead.
RECURSIVE PointFrom(_, _)
PointFrom(c, a) ==
  IF c[a].at # Nowhere THEN c[a].at
  ELSE PointFrom(c, IF c[a].op = "jmp" THEN c[a].arg1 ELSE a + 1)

\* The For and For Each loops open at a point, each with the slots of the stack
\* that hold VT_EMPTY when its header failed: end and step, or the enumerator.
LoopsOpen(list, pt) ==
  LET paths == {SubSeq(pt[1], 1, n) : n \in {m \in 1..Len(pt[1]) : m % 2 = 1}}
      loops == {p \in paths : Encloses(p, pt) /\ StatementAt(list, p).kind \in {"for", "foreach"}}
  IN {[path |-> p,
       slots |-> IF StatementAt(list, p).kind = "for" THEN {Held(list, p) + 2, Held(list, p) + 3}
                 ELSE {Held(list, p) + 1}] : p \in loops}

\* Both for every instruction of every script, worked out once.
Stands ==
  LET scripts == Scripts
      codes == Compiled
      Of(n, a) == LET c == codes[n].instrs
                      pt == PointFrom(c, a)
                  IN [at |-> pt, loops |-> LoopsOpen(scripts[n][c[a].proc], pt)]
  IN <<>> \o [n \in DOMAIN scripts |-> <<>> \o [a \in DOMAIN codes[n].instrs |-> Of(n, a)]]
ScriptFlows == LET scripts == Scripts IN <<>> \o AllFlows(scripts)

\* The frame of VbStatements that an execution frame stands for.
FrameOf(x) ==
  [proc |-> x.func, at |-> Stands[script][x.instr].at, resume |-> x.resume_next,
   unready |-> {l.path : l \in {m \in Stands[script][x.instr].loops :
                 \A i \in m.slots : i > Len(x.stack) \/ x.stack[i] = "empty"}}]

Statements == INSTANCE VbStatements WITH
  Flows <- ScriptFlows,
  MaxCallDepth <- max_call_depth,
  err <- ei,
  raised <- error_loc,
  frames <- [n \in DOMAIN execs |-> FrameOf(execs[n])]

\* Whatever succeeds or fails, a script goes from statement to statement the way
\* VBScript promises: under On Error Resume Next a failing statement is followed
\* by the next one and is on record in Err, a failing header enters its block, a
\* loop whose header failed gets no second turn; otherwise the error leaves the
\* procedure, and is reported for the line that raised it.
\* Where a comparison of a For loop may fail the code goes another way
\* (StaysInProcedure), so this speaks of the scripts of Comparable.
FollowsStatements ==
  /\ Statements!Init
  /\ [][(script \in Comparable) => [Statements!Next]_(Statements!stmtVars)]_vars
===============================================================================
