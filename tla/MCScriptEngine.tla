--------------------------- MODULE MCScriptEngine ---------------------------
(***************************************************************************)
(* Instances of ScriptEngine for TLC.                                      *)
(***************************************************************************)
EXTENDS ScriptEngine, TLC

CONSTANTS t1, t2, s1, s2, c1, c2, i1, i2, n1

\* A plain item, one whose members are global, and one the host keeps across
\* sessions, which is CODEONLY in the first.
MCFlagSets == {{}, {"GLOBALMEMBERS"}, {"CODEONLY", "ISPERSISTENT"}}

MCSymmetry == Permutations(Thread) \cup Permutations(Code) \cup Permutations(Item)
              \cup Permutations(Site)
=============================================================================
