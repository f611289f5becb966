------------------------------ MODULE MCVbRegexp ------------------------------
(* Scripts for VbRegexp: patterns put together from tokens, searched in short   *)
(* strings, and objects that are used again after their properties changed.     *)
EXTENDS VbRegexp

Strings(chars, n) == UNION {[1..k -> chars] : k \in 0..n}

\* Every pattern of up to four tokens, most of which are errors.  A lookahead
\* begins with a character here: the code lets an empty one fail.
Tokens == {"a", "b", "(", ")", "|", "*", "?", "{2}", "(?:", "(?=", "(?!", "\\1", "^", "$"}
Texts == {p \in Strings(Tokens, 3) \cup {<<"(">> \o q : q \in [1..3 -> Tokens]}
                                   \cup {<<"a", "|">> \o q : q \in [1..2 -> Tokens]} :
            \A i \in DOMAIN p : p[i] \in {"(?=", "(?!"} => i < Len(p) /\ p[i + 1] \in {"a", "b"}}

\* Every atom with every quantifier, and what makes it go back.
Quantifiers == {<<>>, <<"*">>, <<"+">>, <<"?">>, <<"*", "?">>, <<"+", "?">>, <<"?", "?">>,
                <<"{0}">>, <<"{2}">>, <<"{1,2}">>, <<"{2,}">>, <<"{2,}", "?">>, <<"{2,1}">>}
Atoms == {<<"a">>, <<".">>, <<"[ab]">>, <<"[^a]">>, <<"(", "a", ")">>, <<"(", "a", "|", "b", ")">>,
          <<"(?:", "a", "b", "|", "a", ")">>, <<"(", "a", "b", "|", ")">>, <<"(?=", "a", ")">>}
Nested == {<<"(", "a", "*", "b", "?", ")">>, <<"(?:", "a", "(", "b", ")", "?", "?", ")">>}
Rest == {<<"b">>, <<"a", "$">>, <<"\\1">>}
Repeated == {x \o q \o y : x \in Atoms, q \in Quantifiers, y \in Rest}
            \cup {x \o q \o y : x \in Nested, q \in {<<"*">>, <<"+">>, <<"?">>, <<"{1,2}">>}, y \in Rest}

\* IgnoreCase, Multiline and the escapes.
Flagged == {<<"^", "a">>, <<"a", "$">>, <<"\\b", "a">>, <<"\\B", ".">>, <<"[ab]", "+">>, <<"[^a]">>,
            <<"(", "a", ")", "\\1">>, <<"a", "a">>, <<"A", "|", "\\d">>, <<"\\W", "|", "\\D">>,
            <<"\\w", "*", "?", "$">>, <<"A", "b", "|", "a", "[ab]">>}
Lines == Strings({"a", "A", "\n", "1"}, 3)

F(fold, multi) == [fold |-> fold, multiline |-> multi]
Pattern(p) == [m |-> "Pattern", p |-> p]
Flags(f, g) == [m |-> "Flags", flags |-> f, global |-> g]
Execute(s) == [m |-> "Execute", s |-> s]
Test(s) == [m |-> "Test", s |-> s]
Replace(s, by) == [m |-> "Replace", s |-> s, by |-> by]

\* The object used again: all matches, another pattern, other flags, no pattern.
Reused ==
  LET calls == {Execute(<<"a", "A", "b">>), Test(<<"a", "A", "b">>), Replace(<<"a", "b", "a">>, <<"$&", "-", "$$">>)}
      change == {Pattern(<<>>), Pattern(<<"A">>), Pattern(<<"(">>), Flags(F(TRUE, FALSE), TRUE),
                 Flags(NoFlags, TRUE), Flags(F(FALSE, TRUE), FALSE)}
  IN  {<<Pattern(p), Flags(f, g), x, c, y>> :
         p \in {<<"a">>, <<"A", "|", "b">>, <<>>}, f \in {NoFlags, F(TRUE, FALSE)}, g \in BOOLEAN,
         x \in calls, c \in change, y \in calls}

Replaced == {<<Pattern(<<"(", "a", "|", "b", ")", "(", "b", ")", "?">>), Flags(NoFlags, TRUE), Replace(s, by)>> :
               s \in Strings({"a", "b", "c"}, 3),
               by \in {<<"$2", "$1">>, <<"$`", "-", "$'">>, <<"x">>, <<>>}}

MCScripts ==
  {<<Pattern(p), Execute(<<"a", "a", "b">>)>> : p \in Texts}
  \cup {<<Pattern(p), Execute(s)>> : p \in Repeated, s \in Strings({"a", "b"}, 3)}
  \cup {<<Pattern(p), Flags(F(x, y), FALSE), Execute(s)>> :
          p \in Flagged, x \in BOOLEAN, y \in BOOLEAN, s \in Lines}
  \cup Reused \cup Replaced
==============================================================================
