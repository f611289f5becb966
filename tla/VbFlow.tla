-------------------------------- MODULE VbFlow --------------------------------
(* Where control may go in the body of a VBScript procedure.                  *)
EXTENDS VbSyntax

\* Where control arrives that is about to run list from its i-th statement.
RECURSIVE Enter(_, _, _, _, _)
Enter(list, i, pre, after, exits) ==
  IF i > Len(list) THEN after
  ELSE LET s == list[i]
           p == Append(pre, i)
       IN CASE s.kind = "exit" -> exits[s.what]
            [] s.kind = "loop" ->
                 Enter(s.body, 1, Append(p, 1), Test(p),
                       [exits EXCEPT !["do"] = Enter(list, i + 1, pre, after, exits)])
            [] OTHER -> Begin(p)

-------------------------------------------------------------------------------
(* The flow of a body: its edges between points.  An edge with err is taken   *)
(* when the statement fails under On Error Resume Next.                       *)

Edge(from, err, to) == [from |-> from, err |-> err, to |-> to]
Runs(from, to) == Edge(from, FALSE, to)
Fails(from, to) == Edge(from, TRUE, to)

RECURSIVE Flow(_, _, _, _)
Flow(list, pre, after, exits) ==
  LET OfIf(s, p, k) ==
        LET n == Len(s.conds)
            Body(j) == IF j > Len(s.bodies) THEN k
                       ELSE Enter(s.bodies[j], 1, Append(p, j), k, exits)
            C(j) == IF j = 1 THEN Begin(p) ELSE IF j <= n THEN Cond(p, j) ELSE Body(j)
        IN UNION {{Runs(C(j), Body(j)), Fails(C(j), Body(j)), Runs(C(j), C(j + 1))} : j \in 1..n}
           \cup UNION {Flow(s.bodies[j], Append(p, j), k, exits) : j \in DOMAIN s.bodies}
      OfSelect(s, p, k) ==
        LET Body(i) == Enter(s.cases[i].body, 1, Append(p, i), k, exits)
            Tests == {ij \in (DOMAIN s.cases) \X (1..3) : ij[2] <= Len(s.cases[ij[1]].exprs)}
            Else == IF s.cases # <<>> /\ Last(s.cases).exprs = <<>>
                    THEN Body(Len(s.cases)) ELSE k
            Following(i, j) ==
              IF <<i, j + 1>> \in Tests THEN Case(p, i, j + 1)
              ELSE IF <<i + 1, 1>> \in Tests THEN Case(p, i + 1, 1) ELSE Else
        IN {Runs(Begin(p), Following(0, 0)), Fails(Begin(p), k)}
           \cup UNION {LET c == Case(p, ij[1], ij[2])
                       IN {Runs(c, Body(ij[1])), Fails(c, Body(ij[1])), Runs(c, Following(ij[1], ij[2]))}
                       : ij \in Tests}
           \cup UNION {Flow(s.cases[i].body, Append(p, i), k, exits) : i \in DOMAIN s.cases}
      OfLoop(s, p, k) ==
        LET inner == CASE s.kind = "while" -> IF s.exits THEN [exits EXCEPT !["do"] = k] ELSE exits
                       [] s.kind = "loop" -> [exits EXCEPT !["do"] = k]
                       [] OTHER -> [exits EXCEPT !["for"] = k]
            again == IF s.kind = "while" THEN Begin(p) ELSE Test(p)
            body == Enter(s.body, 1, Append(p, 1), again, inner)
        IN (CASE s.kind = "while" -> {Runs(Begin(p), body), Runs(Begin(p), k), Fails(Begin(p), body)}
              [] s.kind = "loop" -> IF s.expr = "none" THEN {Runs(Test(p), body)}
                                    ELSE {Runs(Test(p), body), Runs(Test(p), k), Fails(Test(p), k)}
              [] s.kind = "foreach" ->
                   {Runs(Begin(p), body), Runs(Begin(p), k), Fails(Begin(p), body),
                    Runs(Test(p), body), Runs(Test(p), k), Fails(Test(p), k)}
              \* A For loop tests before its first turn as well, and that test
              \* counts as header: failing, it enters the block.
              [] s.kind = "for" ->
                   {Runs(Begin(p), Test(p)), Fails(Begin(p), body),
                    Runs(Test(p), body), Runs(Test(p), k), Fails(Test(p), body), Fails(Test(p), k)})
           \cup Flow(s.body, Append(p, 1), again, inner)
      Of(s, p, k) ==
        CASE s.kind \in {"assign", "call"} -> {Runs(Begin(p), k), Fails(Begin(p), k)}
          [] s.kind = "errmode" -> {Runs(Begin(p), k)}
          [] s.kind = "exit" -> {}
          [] s.kind = "if" -> OfIf(s, p, k)
          [] s.kind = "select" -> OfSelect(s, p, k)
          [] s.kind = "with" ->
               LET body == Enter(s.body, 1, Append(p, 1), k, exits)
               IN {Runs(Begin(p), body), Fails(Begin(p), body)}
                  \cup Flow(s.body, Append(p, 1), k, exits)
          [] OTHER -> OfLoop(s, p, k)
  IN UNION {Of(list[i], Append(pre, i), Enter(list, i + 1, pre, after, exits)) : i \in DOMAIN list}

NoExits == [what \in {"do", "for", "proc"} |-> End]
Start(body) == Enter(body, 1, <<>>, End, NoExits)

\* The edges of every procedure of every script.
AllFlows(scripts) == [n \in DOMAIN scripts |->
                       [q \in DOMAIN scripts[n] |-> Flow(scripts[n][q], <<>>, End, NoExits)]]
===============================================================================
