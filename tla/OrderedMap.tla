------------------------------ MODULE OrderedMap ------------------------------
(* What a Scripting.Dictionary promises (scrrun/dictionary.c): a map that     *)
(* keeps its entries in the order they were added, no two of them under the   *)
(* same key, and enumerators that visit every entry once, in that order,      *)
(* whatever is added, renamed and removed under them.                         *)
EXTENDS Integers, FiniteSets, FiniteSetsExt, Functions

CONSTANTS Entry,        \* numbers of entries, larger ones for later entries
          Key, Item, Method, Enumerator,
          NoItem,       \* the item of an entry that a lookup adds
          Same(_, _, _) \* whether two keys are the same under a method

VARIABLES entries, \* the entries there are, each with its key and its item
          method,  \* how keys are compared
          ahead,   \* what each enumerator is still to visit
          lost     \* enumerators that RemoveAll took the entries from
vars == <<entries, method, ahead, lost>>

Init == /\ entries = <<>>
        /\ method \in Method
        /\ ahead = [e \in Enumerator |-> {}]
        /\ lost = {}

There == DOMAIN entries
Under(k) == {p \in There : Same(method, entries[p].key, k)}

\* Add, and a lookup that finds nothing.  An enumerator that is not at its end
\* will visit the new entry too.
Add(k, x) ==
  /\ Under(k) = {}
  /\ \E p \in Entry :
       /\ \A q \in There : q < p
       /\ entries' = [q \in There \cup {p} |-> IF q = p THEN [key |-> k, item |-> x] ELSE entries[q]]
       /\ ahead' = [e \in Enumerator |-> ahead[e] \cup IF ahead[e] = {} THEN {} ELSE {p}]
  /\ UNCHANGED <<method, lost>>

Put(k, x) ==
  /\ \E p \in Under(k) : entries' = [entries EXCEPT ![p].item = x]
  /\ UNCHANGED <<method, ahead, lost>>

\* The entry keeps its place and its item.
Rename(k, l) ==
  /\ \E p \in Under(k) : Under(l) \subseteq {p} /\ entries' = [entries EXCEPT ![p].key = l]
  /\ UNCHANGED <<method, ahead, lost>>

Remove(p) ==
  /\ p \in There
  /\ entries' = Restrict(entries, There \ {p})
  /\ ahead' = [e \in Enumerator |-> ahead[e] \ {p}]
  /\ UNCHANGED <<method, lost>>

\* RemoveAll removes the entries after this; an enumerator must be reset.
Lose(live) ==
  /\ There # {}
  /\ lost' = lost \cup live
  /\ ahead' = [e \in Enumerator |-> {}]
  /\ UNCHANGED <<entries, method>>

SetMethod(m) ==
  /\ There = {} /\ method' = m
  /\ UNCHANGED <<entries, ahead, lost>>

\* NewEnum, Clone and Reset.
Rewind(e) ==
  /\ ahead' = [ahead EXCEPT ![e] = There]
  /\ lost' = lost \ {e}
  /\ UNCHANGED <<entries, method>>

Visit(e) ==
  /\ ahead[e] # {}
  /\ ahead' = [ahead EXCEPT ![e] = @ \ {Min(@)}]
  /\ UNCHANGED <<entries, method, lost>>

\* The enumerator is released.
Leave(e) ==
  /\ ahead' = [ahead EXCEPT ![e] = {}]
  /\ lost' = lost \ {e}
  /\ UNCHANGED <<entries, method>>

Next == \/ \E k \in Key, x \in Item : Add(k, x) \/ Put(k, x)
        \/ \E k, l \in Key : Rename(k, l)
        \/ \E p \in Entry : Remove(p)
        \/ \E live \in SUBSET Enumerator : Lose(live)
        \/ \E m \in Method : SetMethod(m)
        \/ \E e \in Enumerator : Rewind(e) \/ Visit(e) \/ Leave(e)

Spec == Init /\ [][Next]_vars
===============================================================================
