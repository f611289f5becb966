------------------------------ MODULE MCVbArrays ------------------------------
(* Arrays of two dimensions for the dynamic variable, one element for the other. *)
EXTENDS VbArrays

\* The arrays but the fixed one are interchangeable: with two of them it makes no
\* difference which is taken first.
Interchangeable == Permutations(Id \ {FixedId})

SmallShapes == {<<2, 1>>, <<2, 2>>}
OneElement == <<1>>
===============================================================================
