------------------------------ MODULE MCVbInterp ------------------------------
(* Scripts for VbInterp: every block statement, alone and inside every other, *)
(* around every simple statement, with and without On Error Resume Next.      *)
EXTENDS VbInterp

Assigning(target, e) == [kind |-> "assign", target |-> target, expr |-> e]
Assignment == Assigning("place", "binary")
CallSub == [kind |-> "call", callee |-> 2, args |-> <<"leaf">>]
OnError(b) == [kind |-> "errmode", on |-> b]
Exit(what) == [kind |-> "exit", what |-> what]

\* Blocks around a body: the loops that Exit Do leaves, those that Exit For
\* leaves, and the others.
DoLoops(body) ==
  <<[kind |-> "while", expr |-> "leaf", body |-> body, exits |-> TRUE],
    [kind |-> "loop", expr |-> "leaf", body |-> body],
    [kind |-> "loop", expr |-> "none", body |-> body]>>
ForLoops(body) ==
  <<[kind |-> "for", expr |-> "leaf", step |-> "none", body |-> body],
    [kind |-> "foreach", expr |-> "leaf", body |-> body]>>
Blocks(body) ==
  <<[kind |-> "while", expr |-> "leaf", body |-> body, exits |-> FALSE],
    [kind |-> "if", conds |-> <<"leaf">>, bodies |-> <<body>>],
    [kind |-> "if", conds |-> <<"leaf", "leaf">>, bodies |-> <<body, <<Assignment>>, body>>],
    [kind |-> "with", expr |-> "leaf", body |-> body],
    [kind |-> "select", expr |-> "leaf", cases |-> <<[exprs |-> <<"leaf", "leaf">>, body |-> body]>>],
    [kind |-> "select", expr |-> "leaf",
     cases |-> <<[exprs |-> <<"leaf">>, body |-> body], [exprs |-> <<>>, body |-> body]>>]>>

\* Every block of K (k of them) around every statement of the sequence list.
Each(K(_), k, list) ==
  [i \in 1..(k * Len(list)) |-> K(<<list[((i - 1) \div k) + 1]>>)[((i - 1) % k) + 1]]

\* The statements that may stand in a body, by the exits that are legal there,
\* and the blocks around them.
Simple == [do, for \in BOOLEAN |->
  <<Assigning("place", "dot"), OnError(FALSE)>> \o (IF do THEN <<Exit("do")>> ELSE <<>>)
                                 \o (IF for THEN <<Exit("for")>> ELSE <<>>)]
Around(in) == [do, for \in BOOLEAN |->
  Each(DoLoops, 3, in[TRUE, for]) \o Each(ForLoops, 2, in[do, TRUE]) \o Each(Blocks, 6, in[do, for])]

\* Global code of blocks two deep, between On Error Resume Next and a statement.
NestedScripts == LET blocks == Around(Around(Simple))[FALSE, FALSE]
            IN <<>> \o [i \in DOMAIN blocks |-> << <<OnError(TRUE), blocks[i], Assignment>> >>]

\* Blocks around two statements: every expression and every call where errors
\* of another procedure arrive, every way out of a procedure.
Mixed == [do, for \in BOOLEAN |->
  <<CallSub, Assigning("place", "calls2"), Assigning("place", "dot"), Assigning("value", "literal"),
    [kind |-> "call", callee |-> 0, args |-> <<"literal", "leaf">>], Exit("proc"),
    [kind |-> "for", expr |-> "calls2", step |-> "leaf", body |-> <<Exit("for")>>],
    [kind |-> "foreach", expr |-> "calls2", body |-> <<Exit("proc")>>],
    [kind |-> "if", conds |-> <<"calls2">>, bodies |-> <<(<<Assignment>>)>>]>>]

\* The procedure is called by the global code, with and without On Error Resume
\* Next, and calls itself; it may set its own mode.
CallsScripts ==
  LET blocks == Around(Mixed)[FALSE, FALSE]
      Of(i) == LET s == blocks[((i - 1) \div 4) + 1]
                   own == (i - 1) % 2 = 0
                   main == ((i - 1) \div 2) % 2 = 0
               IN <<(IF main THEN <<OnError(TRUE), CallSub, Assignment>> ELSE <<CallSub>>),
                    (IF own THEN <<OnError(TRUE), s>> ELSE <<s, Assignment>>)>>
  IN <<>> \o [i \in 1..(4 * Len(blocks)) |-> Of(i)]

\* The blocks at the end of the global code, with a procedure after it: what is
\* not caught in the one goes on in the other.
EndingScripts == LET blocks == Around(Around(Simple))[FALSE, FALSE]
            IN <<>> \o [i \in DOMAIN blocks |-> << <<OnError(TRUE), blocks[i]>>, <<Assignment>> >>]

\* The smallest of them: On Error Resume Next, and a For loop.
ForScript == << <<OnError(TRUE), ForLoops(<<Assignment>>)[1]>>, <<Assignment>> >>

\* What the compiler makes of them, and the constants themselves: TLC works out
\* a definition once, but a constant's every time.
\* The scripts once with comparisons that never fail, and again with others.
AllScripts == NestedScripts \o CallsScripts \o EndingScripts \o CallsScripts
AllCode == <<>> \o [n \in DOMAIN AllScripts |-> compile_script(AllScripts[n])]
MCAll == LET scripts == AllScripts IN scripts
MCAllCode == LET codes == AllCode IN codes
ComparableScripts == 1..Len(NestedScripts \o CallsScripts)
MCComparable == LET scripts == ComparableScripts IN scripts
ForScripts == <<ForScript>>
ForCode == <<compile_script(ForScript)>>
MCFor == LET scripts == ForScripts IN scripts
MCForCode == LET codes == ForCode IN codes
MCDepth == 2
===============================================================================
