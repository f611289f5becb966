------------------------------ MODULE RegexpMatch ------------------------------
(* The matcher of regexp.c: MatchRegExp tries the places of the input one after *)
(* the other, ExecuteREBytecode runs the program of RegexpSyntax from there.    *)
(* One action per kind of instruction; what follows the switch of the           *)
(* interpreter loop when there is no result is the action Backtrack.            *)
(*                                                                              *)
(* pc is the place of the instruction that is executed and op what is done      *)
(* there, which differs from the instruction's own operation after a            *)
(* continuation (REPEAT at a quantifier).  Places in the input are numbers from *)
(* 0, captures numbers from 1.  The memory of the stacks, which come from a     *)
(* heap pool, is not limited.                                                   *)
EXTENDS RegexpMeaning

VARIABLES
  regexp,      \* what regexp_new returned
  input,       \* the string that is searched
  from,        \* where the search began (MatchRegExp's cp)
  skipped,     \* gData->skipped
  op, pc,      \* the operation, its place in the program
  cp,          \* x->cp
  result,      \* whether the variable result is not NULL
  states,      \* stateStack up to its top
  backTrack,   \* backTrackStack
  parens,      \* x->parens
  parenSoFar   \* the local parenSoFar

matchVars == <<regexp, input, from, skipped, op, pc, cp, result, states, backTrack, parens,
               parenSoFar>>
stacks == <<states, backTrack, parens, parenSoFar>>
search == <<regexp, input, from, skipped>>

Null == -1
SimpleOps == {"BOL", "EOL", "WBDRY", "WNONBDRY", "DOT", "DIGIT", "NONDIGIT", "ALNUM", "NONALNUM",
              "BACKREF", "FLAT", "FLAT1", "FLATi", "FLAT1i", "CLASS", "NCLASS"}

Code(i) == regexp.program[i]
IsSimple(i) == Code(i).op \in SimpleOps

Char(k) == input[k + 1]
AtEnd(k) == k = Len(input)

\* A class under IgnoreCase holds both cases of its characters (ProcessCharSet).
InClass(c, chars) == \E d \in chars : SameChar(c, d, regexp.flags.fold)

BackrefMatcher(n, k) ==
  LET cap == parens[n]
  IN  IF cap.index = -1 THEN k
      ELSE IF k + cap.length > Len(input) THEN Null
      ELSE IF \A j \in 0..cap.length - 1 :
                SameChar(Char(cap.index + j), Char(k + j), regexp.flags.fold)
           THEN k + cap.length ELSE Null

\* Where the simple instruction i ends that begins at place k, or Null.
SimpleMatch(i, k) ==
  LET c == Code(i)
      here(b) == IF b THEN k ELSE Null
      one(b) == IF b THEN k + 1 ELSE Null
      wordBefore == k > 0 /\ Char(k - 1) \in Word
      wordAfter == ~AtEnd(k) /\ Char(k) \in Word
      n == Len(c.chars)
  IN  CASE c.op = "BOL" -> here(k = 0 \/ (regexp.flags.multiline /\ Char(k - 1) \in LineTerm))
        [] c.op = "EOL" -> here(AtEnd(k) \/ (regexp.flags.multiline /\ Char(k) \in LineTerm))
        [] c.op = "WBDRY" -> here(wordBefore # wordAfter)
        [] c.op = "WNONBDRY" -> here(wordBefore = wordAfter)
        [] c.op = "DOT" -> one(~AtEnd(k) /\ Char(k) \notin LineTerm)
        [] c.op = "DIGIT" -> one(~AtEnd(k) /\ Char(k) = "1")
        [] c.op = "NONDIGIT" -> one(~AtEnd(k) /\ Char(k) # "1")
        [] c.op = "ALNUM" -> one(wordAfter)
        [] c.op = "NONALNUM" -> one(~AtEnd(k) /\ ~wordAfter)
        [] c.op = "BACKREF" -> BackrefMatcher(c.index, k)
        [] c.op = "CLASS" -> one(~AtEnd(k) /\ InClass(Char(k), c.chars))
        [] c.op = "NCLASS" -> one(~AtEnd(k) /\ ~InClass(Char(k), c.chars))
        [] c.op \in {"FLAT", "FLAT1"} ->
             IF n <= Len(input) - k /\ \A j \in 1..n : c.chars[j] = Char(k + j - 1)
             THEN k + n ELSE Null
        [] OTHER ->                                    \* FlatNIMatcher
             IF n <= Len(input) - k /\ \A j \in 1..n : SameChar(c.chars[j], Char(k + j - 1), TRUE)
             THEN k + n ELSE Null

-----------------------------------------------------------------------------
(* The stacks.                                                                 *)

\* An entry of the state stack (REProgState).
State == [index |-> 0, parenSoFar |-> 0, min |-> 0, max |-> 0, op |-> "none", pc |-> 0, top |-> 0]

Cleared(lo, hi) == [g \in DOMAIN parens |-> IF g \in lo + 1..hi THEN NoCapture ELSE parens[g]]

\* PushBackTrackState; it saves the captures after the first lo and clears them.
Entry(o, p, k, sts, lo) ==
  [op |-> o, pc |-> p, cp |-> k, states |-> sts, lo |-> lo, saved |-> SubSeq(parens, lo + 1, parenSoFar)]

\* mutant: the entry is made before the new state counts
PushBackTrackStateEarly(o, p, k, sts) ==
  /\ backTrack' = Append(backTrack, [Entry(o, p, k, Front(sts), 0) EXCEPT !.saved = <<>>])
  /\ UNCHANGED parens

PushBackTrackState(o, p, k, sts) ==
  /\ backTrack' = Append(backTrack, [Entry(o, p, k, sts, 0) EXCEPT !.saved = <<>>])
  /\ UNCHANGED parens

PushWithParens(o, p, k, sts, lo) ==
  /\ backTrack' = Append(backTrack, Entry(o, p, k, sts, lo))
  /\ parens' = Cleared(lo, parenSoFar)

Continue(p) == pc' = p /\ op' = Code(p).op
Fail == result' = FALSE /\ op' = "fail" /\ UNCHANGED pc

-----------------------------------------------------------------------------
(* MatchRegExp and the head of ExecuteREBytecode.                              *)

\* If the program begins with a simple instruction, the places where it does
\* not match are skipped at once.
Start ==
  /\ op = "start"
  /\ parenSoFar' = 0
  /\ IF IsSimple(1)
     THEN LET hits == {k \in cp..Len(input) : SimpleMatch(1, k) # Null}
              k == CHOOSE h \in hits : \A l \in hits : h <= l
          IN  IF hits = {}
              THEN /\ skipped' = skipped + Len(input) + 1 - cp
                   /\ cp' = Len(input) + 1
                   /\ Fail
              ELSE /\ skipped' = skipped + k - cp
                   /\ cp' = SimpleMatch(1, k)
                   /\ result' = TRUE
                   /\ Continue(2)
     ELSE /\ result' = FALSE
          /\ Continue(1)
          /\ UNCHANGED <<skipped, cp>>
  /\ UNCHANGED <<regexp, input, from, states, backTrack, parens>>

\* mutant: the same place again
NextPlaceSame == from + skipped
NextPlace == from + skipped + 1

\* A failure with an empty backtrack stack: the next place, if there is one.
NextStart ==
  /\ op = "fail" /\ backTrack = <<>>
  /\ LET cp2 == NextPlace
     IN  IF cp2 <= Len(input)
         THEN /\ op' = "start"
              /\ cp' = cp2
              /\ skipped' = cp2 - from
              /\ parens' = Cleared(0, Len(parens))
              /\ states' = <<>>
         ELSE /\ op' = "none"
              /\ UNCHANGED <<cp, skipped, parens, states>>
  /\ UNCHANGED <<regexp, input, from, pc, result, backTrack, parenSoFar>>

\* A failure with something to go back to.
Backtrack ==
  /\ op = "fail" /\ backTrack # <<>>
  /\ LET e == Last(backTrack)
         top == Last(e.states)
     IN  /\ backTrack' = Front(backTrack)
         /\ op' = e.op /\ pc' = e.pc /\ cp' = e.cp /\ states' = e.states
         /\ IF e.saved # <<>>
            THEN /\ parens' = [g \in DOMAIN parens |->
                                IF g \in e.lo + 1..e.lo + Len(e.saved) THEN e.saved[g - e.lo]
                                ELSE parens[g]]
                 /\ parenSoFar' = e.lo + Len(e.saved)
            ELSE /\ parens' = Cleared(top.parenSoFar, parenSoFar)
                 /\ parenSoFar' = top.parenSoFar
  /\ UNCHANGED <<search, result>>

-----------------------------------------------------------------------------
(* The instructions.                                                           *)

Simple ==
  /\ op \in SimpleOps
  /\ LET k == SimpleMatch(pc, cp)
     IN  IF k = Null THEN Fail /\ UNCHANGED cp
         ELSE result' = TRUE /\ cp' = k /\ Continue(pc + 1)
  /\ UNCHANGED <<search, stacks>>

\* Whether the next character can begin the node.
Begins(node) == IF node.op = "FLAT" THEN Char(cp) = node.chr
                ELSE (Char(cp) \in node.class.chars) = node.class.sense

\* A failing simple first alternative leaves no entry to come back to.
Alt ==
  /\ op \in {"ALT", "ALTPREREQ", "ALTPREREQ2"}
  /\ LET heads == Code(pc).heads
         next == Code(pc).next
         sts == Append(states, [State EXCEPT !.parenSoFar = parenSoFar])
         k == IF IsSimple(pc + 1) THEN SimpleMatch(pc + 1, cp) ELSE cp
     IN  IF op # "ALT" /\ (AtEnd(cp) \/ ~(Begins(heads[1]) \/ Begins(heads[2])))
         THEN Fail /\ UNCHANGED <<cp, states, backTrack, parens>>
         ELSE /\ states' = sts
              /\ IF k = Null
                 THEN Continue(next) /\ UNCHANGED <<cp, result, backTrack, parens>>
                 ELSE /\ PushBackTrackState(Code(next).op, next, cp, sts)
                      /\ cp' = k
                      /\ IF IsSimple(pc + 1) THEN result' = TRUE /\ Continue(pc + 2)
                         ELSE UNCHANGED result /\ Continue(pc + 1)
  /\ UNCHANGED <<search, parenSoFar>>

\* The end of an alternative; no result is an empty match.
EndAlt ==
  /\ op \in {"JUMP", "ENDALT"}
  /\ result' = TRUE
  /\ states' = Front(states)
  /\ Continue(IF op = "JUMP" THEN Code(pc).next ELSE pc + 1)
  /\ UNCHANGED <<search, cp, backTrack, parens, parenSoFar>>

LParen ==
  /\ op = "LPAREN"
  /\ LET n == Code(pc).index
     IN  /\ parens' = [parens EXCEPT ![n] = [index |-> cp, length |-> 0]]
         /\ parenSoFar' = IF n > parenSoFar THEN n ELSE parenSoFar
  /\ Continue(pc + 1)
  /\ UNCHANGED <<search, cp, result, states, backTrack>>

RParen ==
  /\ op = "RPAREN"
  /\ LET n == Code(pc).index
         delta == cp - parens[n].index
     IN  parens' = [parens EXCEPT ![n].length = IF delta < 0 THEN 0 ELSE delta]
  /\ result' = TRUE
  /\ Continue(pc + 1)
  /\ UNCHANGED <<search, cp, states, backTrack, parenSoFar>>

\* A lookahead whose first instruction alone decides it need not begin.
Lookahead ==
  /\ op \in {"ASSERT", "ASSERT_NOT"}
  /\ LET next == Code(pc).next
         sts == Append(states, [State EXCEPT !.index = cp, !.parenSoFar = parenSoFar,
                                             !.top = Len(backTrack)])
         k == IF IsSimple(pc + 1) THEN SimpleMatch(pc + 1, cp) ELSE Null
     IN  IF \/ op = "ASSERT" /\ IsSimple(pc + 1) /\ k = Null
            \/ op = "ASSERT_NOT" /\ k # Null /\ Code(pc + 2).op = "ASSERTNOTTEST"
         THEN Fail /\ UNCHANGED <<states, backTrack, parens>>
         ELSE /\ states' = sts
              /\ PushBackTrackState(Code(next - 1).op, next - 1, cp, sts)
              /\ Continue(pc + 1)
              /\ UNCHANGED result
  /\ UNCHANGED <<search, cp, parenSoFar>>

\* The end of a lookahead forgets what it could go back to.
LookaheadEnd ==
  /\ op \in {"ASSERTTEST", "ASSERTNOTTEST"}
  /\ LET s == Last(states)
     IN  /\ states' = Front(states)
         /\ cp' = s.index
         /\ backTrack' = SubSeq(backTrack, 1, s.top)
         /\ IF result = (op = "ASSERTTEST")
            THEN result' = TRUE /\ Continue(pc + 1)
            ELSE Fail
  /\ UNCHANGED <<search, parens, parenSoFar>>

\* The first child of a greedy quantifier.
Quant ==
  /\ op \in {"STAR", "PLUS", "OPT", "QUANT"}
  /\ LET q == Code(pc)
         sts == Append(states, [State EXCEPT !.index = cp, !.parenSoFar = parenSoFar,
                                  !.min = q.min, !.max = q.max, !.op = "REPEAT", !.pc = pc])
         k == IF IsSimple(pc + 1) THEN SimpleMatch(pc + 1, cp) ELSE cp
     IN  CASE q.max = 0 \/ (k = Null /\ q.min = 0) ->
                result' = TRUE /\ Continue(q.next) /\ UNCHANGED <<cp, states, backTrack, parens>>
           [] q.max # 0 /\ k = Null /\ q.min > 0 ->
                Fail /\ UNCHANGED <<cp, states, backTrack, parens>>
           [] OTHER ->
                /\ states' = sts
                /\ cp' = k
                /\ IF q.min = 0 THEN PushBackTrackState("REPEAT", pc, cp, sts)
                                ELSE UNCHANGED <<backTrack, parens>>
                /\ IF IsSimple(pc + 1) THEN result' = TRUE /\ Continue(pc + 2)
                                       ELSE UNCHANGED result /\ Continue(pc + 1)
  /\ UNCHANGED <<search, parenSoFar>>

EndChild ==
  /\ op = "ENDCHILD"
  /\ result' = TRUE
  /\ op' = Last(states).op
  /\ pc' = Last(states).pc
  /\ UNCHANGED <<search, cp, stacks>>

Less(n) == IF n \in {0, Inf} THEN n ELSE n - 1

\* After a child of a greedy quantifier: another one, or on behind the quantifier.
Repeat ==
  /\ op = "REPEAT"
  /\ LET q == Last(states)
         rest == Front(states)
         min == Less(q.min)
         max == Less(q.max)
         k == IF IsSimple(pc + 1) THEN SimpleMatch(pc + 1, cp) ELSE cp
         again == [q EXCEPT !.index = cp, !.min = min, !.max = max]
         nextpc == IF IsSimple(pc + 1) THEN pc + 2 ELSE pc + 1
         enough == IF result THEN max = 0 \/ (k = Null /\ min = 0) ELSE q.min = 0
         empty == result /\ q.min = 0 /\ cp = q.index
     IN  IF enough /\ ~empty
         THEN /\ result' = TRUE
              /\ Continue(Code(pc).next)
              /\ states' = rest
              /\ UNCHANGED <<cp, backTrack, parens, parenSoFar>>
         ELSE IF ~result \/ empty \/ k = Null
         THEN Fail /\ states' = rest /\ UNCHANGED <<cp, backTrack, parens, parenSoFar>>
         ELSE /\ result' = TRUE
              /\ cp' = k
              /\ states' = Append(rest, again)
              /\ IF min = 0 THEN PushWithParens("REPEAT", pc, cp, states', q.parenSoFar)
                            ELSE UNCHANGED <<backTrack, parens>>
              /\ IF Code(nextpc).op = "ENDCHILD"
                 THEN UNCHANGED <<op, pc, parenSoFar>>
                 ELSE Continue(nextpc) /\ parenSoFar' = q.parenSoFar
  /\ UNCHANGED search

\* A lazy quantifier first tries what follows it.
MinimalQuant ==
  /\ op \in {"MINIMALSTAR", "MINIMALPLUS", "MINIMALOPT", "MINIMALQUANT"}
  /\ LET q == Code(pc)
         sts == Append(states, [State EXCEPT !.index = cp, !.parenSoFar = parenSoFar, !.min = q.min,
                                  !.max = q.max, !.op = "MINIMALREPEAT", !.pc = pc])
     IN  IF q.min # 0
         THEN states' = sts /\ Continue(pc + 1) /\ UNCHANGED <<backTrack, parens>>
         ELSE /\ PushBackTrackState("MINIMALREPEAT", pc, cp, sts)
              /\ Continue(q.next)
              /\ UNCHANGED states
  /\ UNCHANGED <<search, cp, result, parenSoFar>>

\* One more child (PREPARE_REPEAT).
PrepareRepeat(q) ==
  /\ states' = Append(Front(states), [q EXCEPT !.index = cp, !.op = "MINIMALREPEAT", !.pc = pc])
  /\ parens' = Cleared(q.parenSoFar, parenSoFar)
  /\ Continue(pc + 1)
  /\ UNCHANGED <<result, backTrack>>

MinimalRepeat ==
  /\ op = "MINIMALREPEAT"
  /\ LET q == Last(states)
         less == [q EXCEPT !.min = Less(@), !.max = Less(@)]
         passed == [less EXCEPT !.index = cp, !.parenSoFar = parenSoFar]
     IN  CASE ~result /\ q.max # 0 -> PrepareRepeat(q)
           [] (~result /\ q.max = 0) \/ (result /\ q.min = 0 /\ cp = q.index) ->
                Fail /\ states' = Front(states) /\ UNCHANGED <<backTrack, parens>>
           [] result /\ less.min # 0 -> PrepareRepeat(less)
           [] OTHER -> /\ states' = Front(states)
                       /\ PushBackTrackState("MINIMALREPEAT", pc, cp, Append(states', passed))
                       /\ Continue(Code(pc).next)
                       /\ UNCHANGED result
  /\ UNCHANGED <<search, cp, parenSoFar>>

MatchStep == \/ Start \/ NextStart \/ Backtrack \/ Simple \/ Alt \/ EndAlt \/ LParen \/ RParen
             \/ Lookahead \/ LookaheadEnd \/ Quant \/ EndChild \/ Repeat \/ MinimalQuant
             \/ MinimalRepeat
================================================================================
