---------------------------- MODULE ArrayContents ----------------------------
(***************************************************************************)
(* What scripts may rely on of their arrays, without cells, locks or       *)
(* reference: an array is a function from indices to values.  A statement   *)
(* changes one element, or adds or drops indices and keeps the values of    *)
(* the others; a For Each visits every element of the array it began with,  *)
(* each once, and nothing resizes or frees the array under it.              *)
(***************************************************************************)
EXTENDS Naturals, Sequences, FiniteSetsExt

CONSTANTS
  Id,           \* identities of arrays
  Shapes,       \* the numbers of elements in each dimension
  Values,       \* what an element can hold
  Nothing,      \* what a new element holds
  NoContents    \* an identity that no array has

VARIABLES
  contents,     \* the elements of each array, by index
  loops         \* the For Each statements under way, innermost last

contentsVars == <<contents, loops>>

Indices(shape) ==
  {idx \in [DOMAIN shape -> 0..Max({shape[d] : d \in DOMAIN shape})] :
     \A d \in DOMAIN shape : idx[d] < shape[d]}

Exists(id) == contents[id] # NoContents
LoopedOver(id) == \E k \in DOMAIN loops : loops[k].id = id
Loop(id) == [id |-> id, seen |-> {}, got |-> Nothing, done |-> FALSE]

Init ==
  /\ contents \in [Id -> {NoContents} \cup UNION {[Indices(s) -> {Nothing}] : s \in Shapes}]
  /\ loops = <<>>

Write(id, idx, value) ==
  contents' = [contents EXCEPT ![id][idx] = value]

Resize(id, shape) ==
  /\ Exists(id)
  /\ ~LoopedOver(id)
  /\ contents' = [contents EXCEPT ![id] =
       [idx \in Indices(shape) |-> IF idx \in DOMAIN @ THEN @[idx] ELSE Nothing]]

New(id, shape) ==
  /\ ~Exists(id)
  /\ contents' = [contents EXCEPT ![id] = [idx \in Indices(shape) |-> Nothing]]

Copy(id, from) ==
  /\ ~Exists(id)
  /\ Exists(from)
  /\ contents' = [contents EXCEPT ![id] = contents[from]]

Free(id) ==
  /\ ~LoopedOver(id)
  /\ contents' = [contents EXCEPT ![id] = NoContents]

Begin(id) ==
  /\ contents'[id] # NoContents
  /\ loops' = Append(loops, Loop(id))

Visit(idx) ==
  LET l == loops[Len(loops)] IN
  /\ idx \in DOMAIN contents[l.id] \ l.seen
  /\ loops' = [loops EXCEPT ![Len(loops)] =
                 [l EXCEPT !.seen = @ \cup {idx}, !.got = contents[l.id][idx]]]

Finish ==
  LET l == loops[Len(loops)] IN
  /\ l.seen = DOMAIN contents[l.id]
  /\ loops' = [loops EXCEPT ![Len(loops)] = [l EXCEPT !.got = Nothing, !.done = TRUE]]

Leave == loops' = SubSeq(loops, 1, Len(loops) - 1)

\* The elements or the size of one array change, or there is one more or less.
Change(id) ==
  \/ Exists(id) /\ \E idx \in DOMAIN contents[id], value \in Values : Write(id, idx, value)
  \/ \E s \in Shapes : Resize(id, s) \/ New(id, s)
  \/ \E from \in Id : Copy(id, from)
  \/ Free(id)

Next ==
  \/ /\ UNCHANGED loops
     /\ \E id \in Id : contents'[id] # contents[id] /\ Change(id)
  \/ /\ loops # <<>>
     /\ UNCHANGED contents
     /\ Finish \/ Leave \/ \E idx \in DOMAIN contents[loops[Len(loops)].id] : Visit(idx)
  \/ \E id \in Id : Begin(id) /\ (UNCHANGED contents \/ \E from \in Id : Copy(id, from))

Spec == Init /\ [][Next]_contentsVars
=============================================================================
