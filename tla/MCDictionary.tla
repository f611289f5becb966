----------------------------- MODULE MCDictionary -----------------------------
(* Small instances of Dictionary.  The keys are Empty and the string it       *)
(* matches, a string in two cases, and an object.                             *)
EXTENDS Dictionary

MCKind(Keys) ==
  [k \in Keys |-> CASE k = "Empty" -> "empty"
                    [] k = "object" -> "ptr"
                    [] OTHER -> "string"]
MCFolded(Keys) == [k \in Keys |-> IF k = "A" THEN "a" ELSE k]

\* The hash of a and A; the address of the object is such that it has the
\* bucket of a, and not its hash.
MCHash(m, k) ==
  CASE k = "a" -> 97
    [] k = "A" -> IF m = "TextCompare" THEN 97 ELSE 65
    [] k = "object" -> 606
    [] OTHER -> 0

MCKeys == {"Empty", "", "a", "A", "object"}
MCKind1 == MCKind(MCKeys)
MCFolded1 == MCFolded(MCKeys)
MCDefault == {"Empty", ""}

MCItems == {Empty, "terminating object"}
===============================================================================
