---------------------------- MODULE MCVbNamespace -----------------------------
(* Small instances of VbNamespace: two names that clash with everything, an   *)
(* item whose code runs in its own dispatch, one with global members.         *)
EXTENDS VbNamespace

CONSTANTS form,    \* visible, named like a builtin, with code of its own
          globals, \* with global members
          library, \* code only
          a, b

MCItemName == [i \in Item |-> CASE i = form -> a [] i = globals -> "globals"
                                [] i = library -> "library"]
MCHostProp == [i \in Item |-> {b}]

Source(dims, consts, fns, classes, locals) ==
  [dims |-> dims, arrays |-> {}, consts |-> consts, funcs |-> fns,
   classes |-> classes, locals |-> locals]
MCUnit == { Source(<<a, b>>, {}, <<>>, {}, {}),
            Source(<<>>, {b}, <<a>>, {}, {}),
            Source(<<>>, {}, <<b>>, {a}, {}) }
\* The same with an array: Dim a(3), and a procedure a.
MCArrayUnit == { [Source(<<a>>, {}, <<>>, {}, {}) EXCEPT !.arrays = {a}],
                 Source(<<a>>, {}, <<b>>, {}, {}),
                 Source(<<>>, {}, <<a>>, {}, {}) }
MCLocalUnit == { u \in Unit : u.classes = {} /\ u.funcs = <<>> }
===============================================================================
