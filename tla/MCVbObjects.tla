------------------------------ MODULE MCVbObjects -----------------------------
(* Small instances of VbObjects: three objects are enough for a cycle and for *)
(* an object outside it that refers to it, or that it refers to.              *)
EXTENDS VbObjects
===============================================================================
