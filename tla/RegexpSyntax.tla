------------------------------ MODULE RegexpSyntax ------------------------------
(* The compiler of regular expressions (regexp.c): ParseRegExp, an operator    *)
(* precedence parser that makes a tree of RENodes, and EmitREBytecode, which   *)
(* turns the tree into the program that RegexpMatch runs.                      *)
(*                                                                             *)
(* A pattern is a sequence of tokens: a character stands for itself, the       *)
(* others are the operators and escapes of the grammar, "(?:" and "{2}"        *)
(* included.  Nodes that follow one another (RENode.next) are a sequence.  A   *)
(* jump holds the place of the instruction that it goes to.                    *)
EXTENDS Integers, SequencesExt

Inf == -1                      \* (UINT)-1, no upper limit

Opening == "(" :> "LPAREN" @@ "(?:" :> "LPARENNON"
           @@ "(?=" :> "ASSERT" @@ "(?!" :> "ASSERT_NOT"

Assertion == "^" :> "BOL" @@ "$" :> "EOL" @@ "\\b" :> "WBDRY" @@ "\\B" :> "WNONBDRY"

Escape == "." :> "DOT" @@ "\\d" :> "DIGIT" @@ "\\D" :> "NONDIGIT"
          @@ "\\w" :> "ALNUM" @@ "\\W" :> "NONALNUM"

Backref == "\\1" :> 1 @@ "\\2" :> 2

\* Character classes: the characters between the brackets, and FALSE for [^...].
Class == "[ab]" :> [chars |-> {"a", "b"}, sense |-> TRUE]
         @@ "[^a]" :> [chars |-> {"a"}, sense |-> FALSE]

Quantifier == "*" :> <<0, Inf>> @@ "+" :> <<1, Inf>> @@ "?" :> <<0, 1>>
              @@ "{0}" :> <<0, 0>> @@ "{2}" :> <<2, 2>> @@ "{1,2}" :> <<1, 2>>
              @@ "{2,}" :> <<2, Inf>> @@ "{2,1}" :> <<2, 1>>

Special == UNION {DOMAIN Opening, {")", "|"}, DOMAIN Assertion, DOMAIN Escape,
                  DOMAIN Backref, DOMAIN Class, DOMAIN Quantifier}

Node(op) == [op |-> op, kid |-> <<>>]
Flat(c, at) == [op |-> "FLAT", chr |-> c, kid |-> at]

-----------------------------------------------------------------------------
(* The parser.  Its state is CompilerState with the two stacks of ParseRegExp. *)

Parser == [cp |-> 1, operands |-> <<>>, operators |-> <<>>, parenCount |-> 0,
           progLength |-> 0, treeDepth |-> 0, ok |-> TRUE]

Failed(s) == [s EXCEPT !.ok = FALSE]
At(p, s) == IF s.cp <= Len(p) THEN p[s.cp] ELSE "end"

\* The node made of what was just parsed, with the quantifier that follows it.
ParseQuantifier(p, s, term, length) ==
  LET q == At(p, s)
      lazy == s.cp < Len(p) /\ p[s.cp + 1] = "?"
      push(result, skip, n, d) ==
        [s EXCEPT !.cp = @ + skip, !.operands = Append(@, result),
                  !.progLength = @ + length + n, !.treeDepth = @ + d]
  IN  IF q \notin DOMAIN Quantifier THEN push(term, 0, 0, 0)
      ELSE LET r == Quantifier[q]
           IN  IF r[2] # Inf /\ r[1] > r[2] THEN Failed(s)
               ELSE push(<<[op |-> "QUANT", min |-> r[1], max |-> r[2],
                            greedy |-> ~lazy, kid |-> term]>>,
                         IF lazy THEN 2 ELSE 1,
                         IF q \in {"*", "+", "?"} THEN 4 ELSE 6, 1)

\* FindParenCount parses the whole pattern again to count its parentheses.
FindParenCount(p) == Len(SelectSeq(p, LAMBDA t : t = "("))

\* A reference to a group that the pattern does not have is an octal escape.
ParseBackref(p, n) ==
  IF n <= FindParenCount(p) THEN [op |-> "BACKREF", index |-> n]
                            ELSE Flat("octal escape", 0)

ParseTerm(p, s) ==
  LET c == At(p, s)
      next == [s EXCEPT !.cp = @ + 1]
  IN  CASE c \in DOMAIN Assertion ->        \* takes no quantifier
             [next EXCEPT !.operands = Append(@, <<Node(Assertion[c])>>),
                          !.progLength = @ + 1]
        [] c \in DOMAIN Quantifier -> Failed(s)
        [] c \in DOMAIN Escape -> ParseQuantifier(p, next, <<Node(Escape[c])>>, 1)
        [] c \in DOMAIN Backref ->
             ParseQuantifier(p, next, <<ParseBackref(p, Backref[c])>>,
                             IF Backref[c] <= FindParenCount(p) THEN 2 ELSE 3)
        [] c \in DOMAIN Class ->
             ParseQuantifier(p, next, <<[op |-> "CLASS", class |-> Class[c]]>>, 2)
        [] OTHER -> ParseQuantifier(p, next, <<Flat(c, s.cp)>>, 3)

\* mutant: the prerequisite is asked for under IgnoreCase too
PrerequisiteAlways(kid, kid2, fold) ==
  LET a == Head(kid).op
      b == Head(kid2).op
  IN  IF a = "FLAT" /\ b = "FLAT" THEN "ALTPREREQ"
      ELSE IF {a, b} = {"FLAT", "CLASS"} THEN "ALTPREREQ2" ELSE "ALT"

\* The prerequisite match of an alternation whose two sides begin with a
\* character or a class: what the next character must be.
Prerequisite(kid, kid2, fold) ==
  LET a == Head(kid).op
      b == Head(kid2).op
  IN  CASE fold -> "ALT"
        [] a = "FLAT" /\ b = "FLAT" -> "ALTPREREQ"
        [] {a, b} = {"FLAT", "CLASS"} -> "ALTPREREQ2"
        [] OTHER -> "ALT"

\* Reduces the last two operands (ALT, CONCAT); an open parenthesis that is
\* still there at the end has no partner.
ProcessOp(s, fold) ==
  LET op == Last(s.operators).op
      n == Len(s.operands)
      a == s.operands[n - 1]
      b == s.operands[n]
      below == [s EXCEPT !.operators = Front(@), !.operands = SubSeq(@, 1, n - 2)]
      kind == Prerequisite(a, b, fold)
  IN  CASE op = "CONCAT" -> [below EXCEPT !.operands = Append(@, a \o b)]
        [] op = "ALT" ->
             [below EXCEPT !.operands = Append(@, <<[op |-> kind, kid |-> a, kid2 |-> b]>>),
                           !.treeDepth = @ + 1,
                           !.progLength = @ + (IF kind = "ALT" THEN 7 ELSE 13)]
        [] OTHER -> Failed(s)

RECURSIVE ProcessWhile(_, _, _)
ProcessWhile(s, ops, fold) ==
  IF s.ok /\ s.operators # <<>> /\ Last(s.operators).op \in ops
  THEN ProcessWhile(ProcessOp(s, fold), ops, fold)
  ELSE s

HasOpen(s) == \E i \in DOMAIN s.operators : s.operators[i].op \notin {"ALT", "CONCAT"}

PushOperator(s, op, skip) ==
  [s EXCEPT !.cp = @ + skip,
            !.operators = Append(@, [op |-> op, parenIndex |-> s.parenCount])]

\* The operators up to the open parenthesis, and the group that they end in.
CloseParen(p, s, fold) ==
  LET r == ProcessWhile([s EXCEPT !.cp = @ + 1], {"ALT", "CONCAT"}, fold)
      open == Last(r.operators)
      kid == Last(r.operands)
      below == [r EXCEPT !.operators = Front(@), !.operands = Front(@)]
      node == [op |-> open.op, index |-> open.parenIndex + 1, kid |-> kid]
  IN  IF open.op = "LPARENNON" THEN ParseQuantifier(p, below, kid, 0)
      ELSE ParseQuantifier(p, [below EXCEPT !.treeDepth = @ + 1], <<node>>, 0)

RECURSIVE ParseOperand(_, _, _), ParseOperator(_, _, _)

\* The top of the loop: an operand, or an open parenthesis before it.
ParseOperand(p, s, fold) ==
  LET c == At(p, s)
      empty == [s EXCEPT !.operands = Append(@, <<Node("EMPTY")>>)]
      length == CASE c = "(" -> 4 [] c = "(?:" -> 0 [] OTHER -> 4
  IN  CASE ~s.ok -> s
        [] c = "end" -> ParseOperator(p, IF Len(s.operators) >= Len(s.operands)
                                         THEN empty ELSE s, fold)
        [] c \in DOMAIN Opening ->
             LET t == PushOperator(s, Opening[c], 1)
             IN  ParseOperand(p, [t EXCEPT !.progLength = @ + length,
                                           !.parenCount = @ + (IF c = "(" THEN 1 ELSE 0)], fold)
        [] c = ")" /\ ~HasOpen(s) -> Failed(s)
        [] c \in {")", "|"} -> ParseOperator(p, empty, fold)
        [] OTHER -> ParseOperator(p, ParseTerm(p, s), fold)

\* restartOperator: what follows an operand.
ParseOperator(p, s, fold) ==
  LET c == At(p, s)
  IN  CASE ~s.ok -> s
        [] c = "end" -> ProcessWhile(s, {"ALT", "CONCAT"} \cup {Opening[t] : t \in DOMAIN Opening},
                                     fold)
        [] c = "|" -> ParseOperand(p, PushOperator(ProcessWhile(s, {"CONCAT"}, fold), "ALT", 1),
                                   fold)
        [] c = ")" /\ ~HasOpen(s) -> Failed(s)
        [] c = ")" -> ParseOperator(p, CloseParen(p, s, fold), fold)
        [] c \in DOMAIN Quantifier -> Failed(s)
        [] OTHER -> ParseOperand(p, PushOperator(s, "CONCAT", 0), fold)

ParseRegExp(p, fold) ==
  IF p = <<>> THEN [Parser EXCEPT !.operands = << <<Node("EMPTY")>> >>]
              ELSE ParseOperand(p, Parser, fold)

-----------------------------------------------------------------------------
(* The emitter.                                                                *)

\* How many characters from the first node on stand side by side in the source:
\* they become one FLAT.
FlatRun(ts) ==
  IF ts[1].kid = 0 THEN 1
  ELSE CHOOSE n \in 1..Len(ts) :
         /\ \A i \in 1..n : ts[i].op = "FLAT" /\ ts[i].kid = ts[1].kid + i - 1
         /\ n = Len(ts) \/ ts[n + 1].op # "FLAT" \/ ts[n + 1].kid # ts[1].kid + n

QuantOp(t) ==
  LET r == <<t.min, t.max>>
  IN  CASE r = <<0, Inf>> -> IF t.greedy THEN "STAR" ELSE "MINIMALSTAR"
        [] r = <<0, 1>> -> IF t.greedy THEN "OPT" ELSE "MINIMALOPT"
        [] r = <<1, Inf>> -> IF t.greedy THEN "PLUS" ELSE "MINIMALPLUS"
        [] OTHER -> IF t.greedy THEN "QUANT" ELSE "MINIMALQUANT"

RECURSIVE EmitREBytecode(_, _, _), EmitNode(_, _, _)

\* The instructions of a sequence of nodes, the first of them at place at.
EmitREBytecode(ts, at, fold) ==
  IF ts = <<>> THEN <<>>
  ELSE LET n == IF Head(ts).op = "FLAT" THEN FlatRun(ts) ELSE 1
           code == IF n = 1 THEN EmitNode(Head(ts), at, fold)
                   ELSE <<[op |-> IF fold THEN "FLATi" ELSE "FLAT",
                           chars |-> [i \in 1..n |-> ts[i].chr]]>>
       IN  code \o EmitREBytecode(SubSeq(ts, n + 1, Len(ts)), at + Len(code), fold)

EmitNode(t, at, fold) ==
  LET kid == IF t.op \in {"FLAT", "CLASS", "BACKREF"} THEN <<>>
             ELSE EmitREBytecode(t.kid, at + 1, fold)
      after == at + Len(kid) + 1             \* the place after the kid
  IN  CASE t.op = "EMPTY" -> <<>>
        [] t.op \in {"ALT", "ALTPREREQ", "ALTPREREQ2"} ->
             LET kid2 == EmitREBytecode(t.kid2, after + 1, fold)
                 end == after + 1 + Len(kid2) + 1
             IN  <<[op |-> t.op, next |-> after + 1, heads |-> <<Head(t.kid), Head(t.kid2)>>]>>
                 \o kid \o <<[op |-> "JUMP", next |-> end]>>
                 \o kid2 \o <<[op |-> "ENDALT"]>>
        [] t.op = "FLAT" -> <<[op |-> IF fold THEN "FLAT1i" ELSE "FLAT1", chars |-> <<t.chr>>]>>
        [] t.op = "LPAREN" -> <<[op |-> "LPAREN", index |-> t.index]>>
                              \o kid \o <<[op |-> "RPAREN", index |-> t.index]>>
        [] t.op = "BACKREF" -> <<t>>
        [] t.op \in {"ASSERT", "ASSERT_NOT"} ->
             <<[op |-> t.op, next |-> after + 1]>> \o kid
             \o <<[op |-> IF t.op = "ASSERT" THEN "ASSERTTEST" ELSE "ASSERTNOTTEST"]>>
        [] t.op = "QUANT" ->
             <<[op |-> QuantOp(t), min |-> t.min, max |-> t.max, next |-> after + 1]>>
             \o kid \o <<[op |-> "ENDCHILD"]>>
        [] t.op = "CLASS" ->
             <<[op |-> IF t.class.sense THEN "CLASS" ELSE "NCLASS", chars |-> t.class.chars]>>
        [] OTHER -> <<[op |-> t.op]>>

\* regexp_new: nothing if the pattern does not parse.
NoFlags == [fold |-> FALSE, multiline |-> FALSE]
NoRegexp == [program |-> <<>>, parenCount |-> 0, flags |-> NoFlags]
regexp_new(p, flags) ==
  LET s == ParseRegExp(p, flags.fold)
  IN  IF ~s.ok THEN NoRegexp
      ELSE [program |-> Append(EmitREBytecode(s.operands[1], 1, flags.fold), [op |-> "END"]),
            parenCount |-> s.parenCount, flags |-> flags]

-----------------------------------------------------------------------------
(* What the emitter needs of the memory that regexp_new allocates for it.      *)

\* The bytes of an instruction, with indexes that fit one byte.
Size(i) ==
  CASE i.op \in {"ALTPREREQ", "ALTPREREQ2"} -> 9
    [] i.op \in {"ALT", "JUMP", "ASSERT", "ASSERT_NOT", "STAR", "PLUS", "OPT", "MINIMALSTAR",
                 "MINIMALPLUS", "MINIMALOPT", "FLAT", "FLATi"} -> 3
    [] i.op \in {"QUANT", "MINIMALQUANT"} -> 5
    [] i.op \in {"LPAREN", "RPAREN", "BACKREF", "CLASS", "NCLASS", "FLAT1", "FLAT1i"} -> 2
    [] OTHER -> 1

SizeOf(program) == FoldLeft(LAMBDA n, i : n + Size(i), 0, program)

\* The entries of the emitter's stack (EmitStateStackEntry) that a tree needs.
RECURSIVE EmitDepth(_)
EmitDepth(ts) ==
  LET depth(t) ==
        CASE t.op \in {"ALT", "ALTPREREQ", "ALTPREREQ2"} ->
               1 + (IF EmitDepth(t.kid) > EmitDepth(t.kid2) THEN EmitDepth(t.kid)
                                                            ELSE EmitDepth(t.kid2))
          [] t.op \in {"LPAREN", "ASSERT", "ASSERT_NOT", "QUANT"} -> 1 + EmitDepth(t.kid)
          [] OTHER -> 0
  IN  FoldLeft(LAMBDA n, t : IF depth(t) > n THEN depth(t) ELSE n, 0, ts)
=================================================================================
