------------------------------ MODULE RegexpMeaning ------------------------------
(* What regular expressions mean: the grammar that a comment of regexp.c gives  *)
(* (above ParseTerm), read by recursive descent, and the matching of ECMA-262,  *)
(* which that file follows: a node and a state give the states it can end in,   *)
(* the preferred one first.  Nothing here looks at how regexp.c does it.        *)
EXTENDS RegexpSyntax

NoCapture == [index |-> -1, length |-> 0]

Word == {"a", "b", "A", "1"}
LineTerm == {"\n"}
Upper(c) == IF c = "a" THEN "A" ELSE c
SameChar(c, d, fold) == c = d \/ (fold /\ Upper(c) = Upper(d))

-----------------------------------------------------------------------------
(* regexp: altern | altern '|' regexp;  altern: items;  item: assertion or     *)
(* quantatom.  Each returns the tree, the place after it, the groups so far.   *)

Bad == [tree |-> [k |-> "bad"], at |-> 0, groups |-> 0]

RECURSIVE Regexp(_, _, _), Altern(_, _, _, _)

Quantified(p, r, before) ==
  IF r = Bad \/ r.at > Len(p) \/ p[r.at] \notin DOMAIN Quantifier THEN r
  ELSE LET q == Quantifier[p[r.at]]
           lazy == r.at < Len(p) /\ p[r.at + 1] = "?"
       IN  IF q[2] # Inf /\ q[1] > q[2] THEN Bad
           ELSE [tree |-> [k |-> "rep", min |-> q[1], max |-> q[2], greedy |-> ~lazy,
                           kid |-> r.tree, groups |-> before + 1..r.groups],
                 at |-> r.at + (IF lazy THEN 2 ELSE 1), groups |-> r.groups]

Item(p, at, groups) ==
  LET c == p[at]
      inner == Regexp(p, at + 1, groups + (IF c = "(" THEN 1 ELSE 0))
      group == IF inner = Bad \/ inner.at > Len(p) THEN Bad
               ELSE [tree |-> CASE c = "(" -> [k |-> "group", n |-> groups + 1, kid |-> inner.tree]
                                [] c = "(?:" -> inner.tree
                                [] OTHER -> [k |-> "look", neg |-> c = "(?!", kid |-> inner.tree],
                     at |-> inner.at + 1, groups |-> inner.groups]
      leaf == [tree |-> [k |-> "token", t |-> c], at |-> at + 1, groups |-> groups]
  IN  CASE c \in DOMAIN Opening -> Quantified(p, group, groups)
        [] c \in DOMAIN Assertion -> leaf
        [] c \in DOMAIN Quantifier -> Bad
        [] OTHER -> Quantified(p, leaf, groups)

Altern(p, at, groups, items) ==
  IF at > Len(p) \/ p[at] \in {")", "|"}
  THEN [tree |-> [k |-> "cat", items |-> items], at |-> at, groups |-> groups]
  ELSE LET r == Item(p, at, groups)
       IN  IF r = Bad THEN Bad ELSE Altern(p, r.at, r.groups, Append(items, r.tree))

Regexp(p, at, groups) ==
  LET l == Altern(p, at, groups, <<>>)
      r == Regexp(p, l.at + 1, l.groups)
  IN  IF l = Bad \/ l.at > Len(p) \/ p[l.at] = ")" THEN l
      ELSE IF r = Bad THEN Bad
      ELSE [r EXCEPT !.tree = [k |-> "alt", l |-> l.tree, r |-> r.tree]]

Tree(p) == LET r == Regexp(p, 1, 0) IN IF r # Bad /\ r.at <= Len(p) THEN Bad ELSE r

-----------------------------------------------------------------------------
(* Matching.  A state is a place in the input and the captures.                *)

IsWord(input, i) == i \in 1..Len(input) /\ input[i] \in Word

Leaf(t, st, input, flags, groups) ==
  LET i == st.cp + 1
      c == IF i <= Len(input) THEN input[i] ELSE "end"
      if(b) == IF b THEN <<st>> ELSE <<>>
      one(b) == IF c # "end" /\ b THEN <<[st EXCEPT !.cp = i]>> ELSE <<>>
  IN  CASE t = "^" -> if(i = 1 \/ (flags.multiline /\ input[st.cp] \in LineTerm))
        [] t = "$" -> if(c = "end" \/ (flags.multiline /\ c \in LineTerm))
        [] t = "\\b" -> if(IsWord(input, i - 1) # IsWord(input, i))
        [] t = "\\B" -> if(IsWord(input, i - 1) = IsWord(input, i))
        [] t = "." -> one(c \notin LineTerm)
        [] t = "\\d" -> one(c = "1")
        [] t = "\\D" -> one(c # "1")
        [] t = "\\w" -> one(c \in Word)
        [] t = "\\W" -> one(c \notin Word)
        [] t \in DOMAIN Class ->
             one((\E d \in Class[t].chars : SameChar(c, d, flags.fold)) = Class[t].sense)
        [] t \in DOMAIN Backref /\ Backref[t] <= groups ->
             LET s == st.caps[Backref[t]]
             IN  IF s.index = -1 THEN <<st>>
                 ELSE IF /\ st.cp + s.length <= Len(input)
                         /\ \A k \in 1..s.length :
                              SameChar(input[s.index + k], input[st.cp + k], flags.fold)
                      THEN <<[st EXCEPT !.cp = @ + s.length]>> ELSE <<>>
        [] OTHER -> one(SameChar(c, t, flags.fold))

RECURSIVE Match(_, _, _, _, _), MatchEach(_, _, _, _, _)

\* The ends from several states, one after the other.
MatchEach(t, sts, input, flags, groups) ==
  IF sts = <<>> THEN <<>>
  ELSE Match(t, Head(sts), input, flags, groups) \o MatchEach(t, Tail(sts), input, flags, groups)

Match(t, st, input, flags, groups) ==
  LET each(tree, sts) == MatchEach(tree, sts, input, flags, groups)
  IN  CASE t.k = "token" -> Leaf(t.t, st, input, flags, groups)
        [] t.k = "cat" ->
             IF t.items = <<>> THEN <<st>>
             ELSE each([t EXCEPT !.items = Tail(@)],
                       Match(Head(t.items), st, input, flags, groups))
        [] t.k = "alt" -> Match(t.l, st, input, flags, groups) \o Match(t.r, st, input, flags, groups)
        [] t.k = "group" ->
             LET ends == Match(t.kid, st, input, flags, groups)
             IN  [i \in DOMAIN ends |->
                   [ends[i] EXCEPT !.caps[t.n] =
                      [index |-> st.cp, length |-> ends[i].cp - st.cp]]]
        [] t.k = "look" ->
             LET ends == Match(t.kid, st, input, flags, groups)
             IN  IF t.neg THEN IF ends = <<>> THEN <<st>> ELSE <<>>
                 ELSE IF ends = <<>> THEN <<>> ELSE <<[ends[1] EXCEPT !.cp = st.cp]>>
        [] t.k = "rep" ->
             IF t.max = 0 THEN <<st>>
             ELSE LET again == [t EXCEPT !.min = IF @ = 0 THEN 0 ELSE @ - 1,
                                         !.max = IF @ = Inf THEN Inf ELSE @ - 1]
                      fresh == [st EXCEPT !.caps = [g \in DOMAIN @ |->
                                 IF g \in t.groups THEN NoCapture ELSE @[g]]]
                      once == SelectSeq(Match(t.kid, fresh, input, flags, groups),
                                LAMBDA e : t.min > 0 \/ e.cp # st.cp)
                      more == each(again, once)
                  IN  IF t.min > 0 THEN more
                      ELSE IF t.greedy THEN more \o <<st>> ELSE <<st>> \o more

\* The first match at or after a place: its index, its end and its captures.
NoMatch == [index |-> -1, end |-> -1, caps |-> <<>>]
Preferred(i, ends) == [index |-> i, end |-> ends[1].cp, caps |-> ends[1].caps]
MatchesAt(r, input, i, flags) ==
  Match(r.tree, [cp |-> i, caps |-> [g \in 1..r.groups |-> NoCapture]], input, flags, r.groups)
FirstMatch(r, input, from, flags) ==
  LET found == {i \in from..Len(input) : MatchesAt(r, input, i, flags) # <<>>} IN
  IF found = {} THEN NoMatch
  ELSE LET i == Min(found) IN Preferred(i, MatchesAt(r, input, i, flags))
==================================================================================
