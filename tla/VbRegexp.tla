------------------------------- MODULE VbRegexp -------------------------------
(* The RegExp object of scripts (vbregexp.c) over the matcher of RegexpMatch:  *)
(* the pattern and the flags, the program compiled when it is first needed,    *)
(* and Execute, Test and Replace, which search again and again.                *)
(*                                                                             *)
(* A script is a sequence of calls.  The pattern, the string and the           *)
(* replacement are sequences of tokens; what a call answers is a sequence of   *)
(* matches (Execute), of characters (Replace), or a truth value (Test).        *)
EXTENDS RegexpMatch

CONSTANTS
  Scripts,      \* the sequences of calls that scripts make
  MaxCollected  \* bound: what one call collects, in matches or characters

VARIABLES
  script,       \* the calls still to come, the first of them being executed
  pattern,      \* This->pattern; none if empty
  flags,        \* This->flags without global
  global,       \* REG_GLOB in This->flags
  collected,    \* the match collection, or the output of Replace
  last          \* history: the last call that returned, and its answer

objVars == <<script, pattern, flags, global, collected, last>>
vars == <<matchVars, objVars>>

NotSet == <<"Empty">>    \* VT_EMPTY, of a group that did not take part

Call == Head(script)
Idle == op = "idle" /\ script # <<>>

NoAnswer == [m |-> "none"]
Answered(answer) ==
  /\ last' = [m |-> Call.m, call |-> Call, pattern |-> pattern, flags |-> flags,
              global |-> global, answer |-> answer]
  /\ script' = Tail(script)
  /\ collected' = <<>>

NoSearch == /\ op' = "idle" /\ pc' = 0 /\ cp' = 0 /\ result' = FALSE /\ from' = 0 /\ skipped' = 0
            /\ input' = <<>> /\ states' = <<>> /\ backTrack' = <<>> /\ parens' = <<>>
            /\ parenSoFar' = 0

-----------------------------------------------------------------------------
(* Properties of the object.                                                   *)

\* put_Pattern drops the program.
put_Pattern ==
  /\ Idle /\ Call.m = "Pattern"
  /\ pattern' = Call.p
  /\ regexp' = NoRegexp
  /\ script' = Tail(script)
  /\ UNCHANGED <<input, from, skipped, op, pc, cp, result, stacks, flags, global, collected, last>>

\* put_IgnoreCase and put_Multiline do not: the next call sees to it.
put_Flags ==
  /\ Idle /\ Call.m = "Flags"
  /\ flags' = Call.flags
  /\ global' = Call.global
  /\ script' = Tail(script)
  /\ UNCHANGED <<matchVars, pattern, collected, last>>

-----------------------------------------------------------------------------
(* A call that searches.                                                       *)

\* mutant: what was compiled once is used for ever
CompiledOnce ==
  LET r == IF regexp = NoRegexp THEN regexp_new(pattern, flags) ELSE regexp
  IN  IF r = NoRegexp THEN r ELSE [r EXCEPT !.flags = flags]

\* What the three methods do first: compile, or compile again if IgnoreCase has
\* changed (regexp_set_flags).
Compiled ==
  LET r == IF regexp = NoRegexp \/ regexp.flags.fold # flags.fold
           THEN regexp_new(pattern, flags) ELSE regexp
  IN  IF r = NoRegexp THEN r ELSE [r EXCEPT !.flags = flags]

\* regexp_execute from place k (InitMatch, and the head of MatchRegExp).
\* mutant: the captures of the search before are kept
BeginSearchKeep(k) ==
  /\ op' = "start" /\ pc' = 0 /\ cp' = k /\ from' = k /\ skipped' = 0 /\ result' = FALSE
  /\ states' = <<>> /\ backTrack' = <<>> /\ parenSoFar' = 0
  /\ parens' = parens
BeginSearch(k) ==
  /\ op' = "start" /\ pc' = 0 /\ cp' = k /\ from' = k /\ skipped' = 0 /\ result' = FALSE
  /\ states' = <<>> /\ backTrack' = <<>> /\ parenSoFar' = 0
  /\ parens' = [g \in 1..regexp'.parenCount |-> NoCapture]

Searches == Idle /\ Call.m \in {"Execute", "Test", "Replace"}

BeginCall ==
  /\ Searches /\ pattern # <<>>
  /\ regexp' = Compiled
  /\ IF regexp' = NoRegexp
     THEN /\ Answered(<<"error", <<>> >>)
          /\ UNCHANGED <<input, from, skipped, op, pc, cp, result, stacks>>
     ELSE /\ input' = Call.s
          /\ BeginSearch(0)
          /\ UNCHANGED <<script, collected, last>>
  /\ UNCHANGED <<pattern, flags, global>>

\* create_match2 and create_sub_matches: the match keeps a copy of its own text,
\* from which SubMatches_get_Item takes what the groups captured.
MatchOf(index, end, caps) ==
  LET value == SubSeq(Call.s, index + 1, end)
      text(c) == [j \in 1..c.length |->
                   LET k == c.index - index + j
                   IN  IF k \in DOMAIN value THEN value[k] ELSE "beyond the copy"]
  IN  [index |-> index, value |-> value,
       sub |-> [g \in DOMAIN caps |-> IF caps[g].index = -1 THEN NotSet ELSE text(caps[g])]]

\* The replacement text for one match from place a to place b.
Expand(by, s, a, b, caps) ==
  LET group(n) == IF n > Len(caps) THEN <<"$" , IF n = 1 THEN "1" ELSE "2">>
                  ELSE IF caps[n].index = -1 THEN <<>>
                  ELSE SubSeq(s, caps[n].index + 1, caps[n].index + caps[n].length)
      piece(t) == CASE t = "$$" -> <<"$">>
                    [] t = "$&" -> SubSeq(s, a + 1, b)
                    [] t = "$`" -> SubSeq(s, 1, a)
                    [] t = "$'" -> SubSeq(s, b + 1, Len(s))
                    [] t = "$1" -> group(1)
                    [] t = "$2" -> group(2)
                    [] OTHER -> <<t>>
  IN  FlattenSeq([i \in DOMAIN by |-> piece(by[i])])

\* What a call gives back for what it has collected, and the text left over.
AnswerOf(all, rest) == CASE Call.m = "Test" -> <<"found", all # <<>> >>
                         [] Call.m = "Execute" -> <<"matches", all>>
                         [] OTHER -> <<"text", all \o rest>>

\* The program ended: one match from place a, and the next search if Global.
Found ==
  /\ UNCHANGED <<regexp, pattern, flags, global>>
  /\ op = "END"
  /\ Len(collected) < MaxCollected
  /\ LET a == from + skipped
         all == collected \o
                (IF Call.m = "Replace"
                 THEN SubSeq(input, from + 1, a) \o Expand(Call.by, input, a, cp, parens)
                 ELSE <<MatchOf(a, cp, parens)>>)
     IN  IF global /\ Call.m # "Test"
         THEN /\ collected' = all
              /\ BeginSearch(cp)
              /\ UNCHANGED <<input, script, last>>
         ELSE Answered(AnswerOf(all, SubSeq(input, cp + 1, Len(input)))) /\ NoSearch

\* There is no further match.
NotFound ==
  /\ op = "none"
  /\ Answered(AnswerOf(collected, SubSeq(input, from + 1, Len(input))))
  /\ NoSearch
  /\ UNCHANGED <<regexp, pattern, flags, global>>

\* Without a pattern the matcher is not used: there is an empty match at every
\* place, or only at the first.  (A $1 in the replacement is read from a match
\* state that does not exist then: no script here has one.)
EmptyPattern ==
  /\ Searches /\ pattern = <<>>
  /\ LET n == Len(Call.s)
         places == IF global THEN 0..n ELSE {0}
         by(i) == IF i \in places THEN Expand(Call.by, Call.s, i, i, <<>>) ELSE <<>>
     IN  Answered(AnswerOf(IF Call.m = "Replace"
                           THEN FlattenSeq([i \in 1..n |-> by(i - 1) \o <<Call.s[i]>>]) \o by(n)
                           ELSE [i \in 1..Cardinality(places) |-> MatchOf(i - 1, i - 1, <<>>)],
                           <<>>))
  /\ UNCHANGED <<matchVars, pattern, flags, global>>

-----------------------------------------------------------------------------
Init ==
  /\ script \in Scripts
  /\ pattern = <<>> /\ flags = NoFlags /\ global = FALSE
  /\ collected = <<>> /\ last = NoAnswer
  /\ regexp = NoRegexp /\ input = <<>> /\ from = 0 /\ skipped = 0
  /\ op = "idle" /\ pc = 0 /\ cp = 0 /\ result = FALSE
  /\ states = <<>> /\ backTrack = <<>> /\ parens = <<>> /\ parenSoFar = 0

\* A call that has begun goes on.
Proceed == Found \/ NotFound \/ (MatchStep /\ UNCHANGED objVars)

Next == put_Pattern \/ put_Flags \/ BeginCall \/ EmptyPattern \/ Proceed

Spec == Init /\ [][Next]_vars /\ WF_vars(Proceed)

-----------------------------------------------------------------------------
(* Properties.                                                                 *)

\* Types: places lie in the input, groups are the program's, and a search has a
\* capture for every group.
TypeOK ==
  /\ from \in 0..Len(input) /\ cp \in 0..Len(input) + 1 /\ skipped \in 0..Len(input) + 1
  /\ pc \in 0..Len(regexp.program)
  /\ result \in BOOLEAN /\ global \in BOOLEAN
  /\ parenSoFar \in 0..Len(parens)
  /\ \A g \in DOMAIN parens : parens[g].index \in -1..Len(input)
  /\ \A i \in DOMAIN states : states[i].parenSoFar \in 0..Len(parens)
  /\ Len(parens) = IF op = "idle" THEN 0 ELSE regexp.parenCount

(* Execute, Test and Replace answer what the pattern means, with the flags as   *)
(* they are: the matches in their order, each the preferred one of its place,   *)
(* with its captures, and the replaced text.  ParseRegExp, EmitREBytecode and   *)
(* ExecuteREBytecode together are compared with RegexpMeaning.                  *)
RECURSIVE MatchesFrom(_, _)
MatchesFrom(r, k) ==
  LET m == FirstMatch(r, last.call.s, k, last.flags)
      From(e) == MatchesFrom(r, IF e.end = e.index THEN e.end + 1 ELSE e.end)
      All(e) == IF e = NoMatch THEN <<>> ELSE <<e>> \o (IF last.global THEN From(e) ELSE <<>>)
  IN  All(m)

MatchList(s, all) ==
  LET text(c) == IF c.index = -1 THEN NotSet ELSE SubSeq(s, c.index + 1, c.index + c.length)
      match(m) == [index |-> m.index, value |-> SubSeq(s, m.index + 1, m.end),
                   sub |-> [g \in DOMAIN m.caps |-> text(m.caps[g])]]
  IN  [i \in DOMAIN all |-> match(all[i])]

ReplacedText(s, by, all) ==
  LET end(i) == IF i = 0 THEN 0 ELSE all[i].end
      put(i, m) == SubSeq(s, end(i - 1) + 1, m.index) \o Expand(by, s, m.index, m.end, m.caps)
  IN  FlattenSeq([i \in DOMAIN all |-> put(i, all[i])]) \o SubSeq(s, end(Len(all)) + 1, Len(s))

Answer(r, all) ==
  CASE r = Bad -> <<"error", <<>> >>
    [] last.m = "Test" -> <<"found", all # <<>> >>
    [] last.m = "Execute" -> <<"matches", MatchList(last.call.s, all)>>
    [] OTHER -> <<"text", ReplacedText(last.call.s, last.call.by, all)>>

Wanted(r) == Answer(r, MatchesFrom(r, 0))

AnswersAreMeant == last # NoAnswer => last.answer = Wanted(Tree(last.pattern))

(* The program that a search runs is the one for the pattern and the IgnoreCase *)
(* of the call, whatever was compiled before; it fits the memory that regexp_new *)
(* reserves while it parses (progLength), and the emitter's stack treeDepth.     *)
ProgramFits ==
  LET s == ParseRegExp(pattern, regexp.flags.fold)
  IN  op = "start" =>
        /\ regexp = regexp_new(pattern, flags)
        /\ SizeOf(regexp.program) <= s.progLength + 1
        /\ EmitDepth(s.operands[1]) <= s.treeDepth

(* The matcher's stacks agree with each other, as its assertions and its        *)
(* unsigned subtractions take for granted: a group that is being closed is open, *)
(* no state counts more groups than are open, every entry to go back to has a    *)
(* state, a lookahead's mark lies below the top, and only the states of the      *)
(* constructs around the instruction are on the state stack.                     *)
Around(p) == {i \in DOMAIN regexp.program :
                /\ i < p /\ Code(i).op \in {"STAR", "PLUS", "OPT", "QUANT", "MINIMALSTAR",
                                            "MINIMALPLUS", "MINIMALOPT", "MINIMALQUANT",
                                            "ASSERT", "ASSERT_NOT"}
                /\ Code(i).next > p}

StacksAgree ==
  /\ op = "RPAREN" => parens[Code(pc).index].index # -1
  /\ op \in {"REPEAT", "MINIMALREPEAT"} => Last(states).parenSoFar <= parenSoFar
  /\ \A i \in DOMAIN backTrack : backTrack[i].states # <<>>
  /\ \A i \in DOMAIN states : states[i].top <= Len(backTrack)
  /\ op \in SimpleOps \cup {"LPAREN", "RPAREN", "ENDCHILD"} =>
       Len(SelectSeq(states, LAMBDA q : q.op # "none" \/ q.top # 0)) <= Cardinality(Around(pc))

(* What the matcher runs and works on is of one piece.                          *)
MatcherSound == ProgramFits /\ StacksAgree

(* Every call returns: no quantifier goes round for ever on the empty string,   *)
(* and a failing match runs out of things to go back to.                        *)
CallsReturn == (op # "idle") ~> (op = "idle")
==============================================================================
