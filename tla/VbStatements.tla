----------------------------- MODULE VbStatements -----------------------------
(* What the statements of a VBScript procedure promise, whatever bytecode     *)
(* carries them out: where control may go when a statement succeeds, where    *)
(* it goes when the statement fails under On Error Resume Next, and how an    *)
(* error leaves the procedures that are not in that mode.  Values are left    *)
(* out: every condition may be true or false, every expression may fail.      *)
EXTENDS VbFlow

CONSTANTS Scripts,     \* the scripts to run, a sequence
          Flows,       \* AllFlows(Scripts)
          MaxCallDepth \* the calls between procedures that may nest

VARIABLES script,   \* the index of the script that runs
          err,      \* the Err object holds an error
          frames,   \* the procedures being run, the innermost last
          failing,  \* the innermost procedure's statement is failing: a callee raised
          raised    \* where the error that nobody handled was raised
stmtVars == <<script, err, frames, failing, raised>>

-------------------------------------------------------------------------------
(* The statement machine.  A frame: the procedure, the point it stands at,    *)
(* whether On Error Resume Next is in force, and the For and For Each loops   *)
(* that were entered although their header failed.                            *)

Frame(q, body) == [proc |-> q, at |-> Start(body), resume |-> FALSE, unready |-> {}]
Here == frames[Len(frames)]
Stmt(x, pt) == StatementAt(Scripts[script][x.proc], pt[1])
Edges(x) == {e \in Flows[script][x.proc] : e.from = x.at}

Init == /\ script \in DOMAIN Scripts
        /\ frames = <<Frame(1, Scripts[script][1])>>
        /\ err = FALSE
        /\ failing = FALSE
        /\ raised = <<0, Nowhere>>

\* A loop that was entered without its header stays unready until it is left,
\* and it gets no second turn.  A failed header may also leave the loop ready
\* (its last part, the assignment of the control variable, is what failed).
Unready(x, e, u) ==
  LET p == e.from[1]
      kind == Stmt(x, e.from).kind
      loop == kind \in {"for", "foreach"}
  IN /\ \/ loop /\ e.from = Begin(p) /\ e.err /\ u = x.unready \cup {p}
        \/ u = {q \in x.unready : ~(e.from = Begin(p) /\ q = p)}
     /\ loop /\ e.from = Test(p) /\ p \in x.unready
          => ~Encloses(p, e.to) /\ (kind = "foreach" => e.err)

\* Frame x takes edge e.
Move(x, e) ==
  \E u \in SUBSET (x.unready \cup {e.from[1]}) :
    /\ Unready(x, e, u)
    /\ LET mode == Stmt(x, e.from)
           y == [x EXCEPT !.at = e.to,
                          !.unready = {p \in u : Encloses(p, e.to)},
                          !.resume = IF mode.kind = "errmode" THEN mode.on ELSE @]
       IN frames' = Append(Front(frames), y)

\* What a statement that succeeds leaves in Err: On Error clears it, the second
\* turn that a For loop does not get is error 92.
ErrAfter(x, e) ==
  CASE Stmt(x, e.from).kind = "errmode" -> FALSE
    [] Stmt(x, e.from).kind = "for" /\ e.from = Test(e.from[1]) /\ e.from[1] \in x.unready -> TRUE
    [] OTHER -> err

\* A statement, or the test of a loop, succeeds.
Succeed == /\ frames # <<>> /\ ~failing
           /\ \E x \in {Here} : \E e \in Edges(x) : ~e.err /\ Move(x, e) /\ err' = ErrAfter(x, e)
           /\ UNCHANGED <<script, failing, raised>>

MayFail == \E x \in {Here} : \E e \in Edges(x) : e.err

\* A statement fails, Err says so, and the next one runs.
ResumeNext == /\ frames # <<>> /\ Here.resume
              /\ \E x \in {Here} : \E e \in Edges(x) : e.err /\ Move(x, e)
              /\ failing' = FALSE
              /\ err' = TRUE
              /\ raised' = <<0, Nowhere>>
              /\ UNCHANGED script

\* A statement fails and its procedure with it: the caller's statement fails.
Raise == /\ frames # <<>> /\ ~Here.resume
         /\ failing \/ MayFail
         /\ frames' = Front(frames)
         /\ failing' = (Len(frames) > 1)
         /\ err' = TRUE
         /\ raised' = IF failing THEN raised ELSE <<Here.proc, Line(Here.at)>>
         /\ UNCHANGED script

\* A statement that can fail may call a procedure, any number of times, before
\* it takes its edge.
Invoke == /\ frames # <<>> /\ ~failing /\ MayFail
          /\ Len(frames) <= MaxCallDepth
          /\ \E q \in 2..Len(Scripts[script]) :
               frames' = Append(frames, Frame(q, Scripts[script][q]))
          /\ UNCHANGED <<script, err, failing, raised>>

\* The end of a procedure; its caller goes on with the statement that called.
Return == /\ frames # <<>> /\ ~failing /\ Here.at = End
          /\ frames' = Front(frames)
          /\ UNCHANGED <<script, err, failing, raised>>

Next == Succeed \/ ResumeNext \/ Raise \/ Invoke \/ Return

Spec == Init /\ [][Next]_stmtVars
===============================================================================
