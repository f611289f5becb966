------------------------------- MODULE VbSyntax -------------------------------
(* The statements of VBScript as the parser hands them to the compiler, and   *)
(* the points of a procedure.                                                 *)
(*                                                                            *)
(* A script is a sequence of procedure bodies, the first of them its global   *)
(* code.  A body is a sequence of statements (parse.h, statement_t):          *)
(*   [kind "assign", target, expr]     also ReDim and Dim of an array; target *)
(*                                     "value" is one that nothing is assigned to *)
(*   [kind "call", callee, args]       callee 0 is a procedure of the host    *)
(*   [kind "errmode", on]              On Error                               *)
(*   [kind "if", conds, bodies]        one body more than conds for an Else   *)
(*   [kind "while", expr, body, exits] While..Wend, Do While..Loop (exits)    *)
(*   [kind "loop", expr, body]         Do..Loop While, Do..Loop ("none")      *)
(*   [kind "for", expr, step, body]    step "none" when it is left out        *)
(*   [kind "foreach", expr, body]      [kind "with", expr, body]              *)
(*   [kind "select", expr, cases]      a case: [exprs, body], the last may have *)
(*                                     no exprs and is then Case Else         *)
(*   [kind "exit", what]               Exit Do, Exit For, Exit Sub ("proc")   *)
(* A statement's path is its position in the tree: an index in a list, a      *)
(* branch of that statement, an index in the branch, and so on.               *)
EXTENDS Integers, Sequences, SequencesExt, FiniteSets, FiniteSetsExt

(* Points: where a procedure can stand.                                       *)

Begin(p) == <<p, <<>>>>           \* a statement about to run
Test(p) == <<p, <<0>>>>           \* a loop about to decide on another turn
Cond(p, j) == <<p, <<j>>>>        \* the j-th condition of an If
Case(p, i, j) == <<p, <<i, j>>>>  \* the j-th expression of the i-th Case
End == << <<>>, <<>> >>           \* the end of the procedure
Nowhere == << <<0>>, <<>> >>

\* The line an error at this point is reported for.
Line(pt) == IF Len(pt[2]) = 1 /\ pt[2][1] > 1 THEN pt ELSE Begin(pt[1])

\* The loop or block at path p is still open at the point.
Encloses(p, pt) == \/ IsStrictPrefix(p, pt[1])
                   \/ pt = Test(p)

\* The statement of a body at a path.
Branch(s, j) == CASE s.kind = "if" -> s.bodies[j]
                  [] s.kind = "select" -> s.cases[j].body
                  [] OTHER -> s.body
RECURSIVE StatementAt(_, _)
StatementAt(list, p) ==
  IF Len(p) = 1 THEN list[p[1]]
  ELSE StatementAt(Branch(list[p[1]], p[2]), SubSeq(p, 3, Len(p)))

===============================================================================
