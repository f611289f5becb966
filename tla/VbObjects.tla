------------------------------ MODULE VbObjects -------------------------------
(* vbdisp.c: the life of class objects.  References are counted; the last     *)
(* release runs Class_Terminate, which is a script and may store, drop and    *)
(* create references itself, even to the object that terminates; closing the  *)
(* engine ends whatever reference counting has left.  The C calls that are    *)
(* under way are a stack of frames, because a release calls back into scripts *)
(* and they release again.  Every object has one property that may hold an    *)
(* object; objects are numbered as they are created, which is their order in  *)
(* ctx->objects.                                                              *)
EXTENDS Integers, Sequences, SequencesExt, FiniteSets, FiniteSetsExt

CONSTANTS Var,        \* the global variables of the script
          MaxObjects, \* the objects created
          Careful     \* scripts keep to the rules of Settled and MayDrop

ASSUME ObjectsAssumption ==
  /\ MaxObjects \in Nat /\ Careful \in BOOLEAN
  /\ IsFiniteSet(Var) /\ Var \cap Int = {}

Object == 1..MaxObjects
None == 0
Loc == Var \cup Object  \* variables, and objects for the property they have

VARIABLES born,           \* the objects created
          live,           \* those not yet freed
          linked,         \* those in ctx->objects
          desc,           \* those that still have a class (vbdisp_t.desc)
          terminating,    \* those whose class has a Class_Terminate
          terminator_ran, \* vbdisp_t.terminator_ran
          ref,            \* vbdisp_t.ref
          val,            \* the object each location refers to
          host,           \* the objects the host holds a reference to
          calls,          \* the C calls under way, the innermost last
          closed          \* the engine is closing, or closed
vars == <<born, live, linked, desc, terminating, terminator_ran, ref, val, host, calls, closed>>

Frame(op, x, l) == [op |-> op, obj |-> x, loc |-> l]
Call(op, x) == Frame(op, x, None)

Init == /\ born = 0 /\ live = {} /\ linked = {} /\ desc = {}
        /\ terminating = {} /\ terminator_ran = {}
        /\ ref = [x \in Object |-> 0]
        /\ val = [l \in Loc |-> None]
        /\ host = {}
        /\ calls = <<>>
        /\ closed = FALSE

Idle == calls = <<>>
Top == calls[Len(calls)]
Is(op) == ~Idle /\ Top.op = op
Return == Front(calls)
Replace(f) == Append(Return, f)

-------------------------------------------------------------------------------
(* AddRef and Release.                                                        *)

\* ref after d more references to x.
Counted(r, x, d) == IF x = None THEN r ELSE [r EXCEPT ![x] = @ + d]

\* DispatchEx_Release: what is left to do when the reference was the last one.
Released(r, x) == IF x # None /\ r[x] = 1 THEN <<Call("release", x)>> ELSE <<>>

\* VariantClear: the old value is released while the location still holds it.
Clear(cs, r, l) ==
  /\ calls' = cs \o <<Frame("clear", None, l)>> \o Released(r, val[l])
  /\ ref' = Counted(r, val[l], -1)
EndClear == /\ Is("clear")
            /\ val' = [val EXCEPT ![Top.loc] = None]
            /\ calls' = Return
            /\ UNCHANGED <<born, live, linked, desc, terminating, terminator_ran, ref, host, closed>>

\* assign_value: the new value (which has its reference already) is stored
\* after that.  The statement holds the object whose property it is.
Owner(l) == IF l \in Object THEN l ELSE None
StoreFrom(cs, r, l, new) ==
  LET held == Counted(r, Owner(l), 1)
  IN /\ calls' = cs \o <<Frame("store", new, l)>> \o Released(held, val[l])
     /\ ref' = Counted(held, val[l], -1)
EndStore == /\ Is("store")
            /\ val' = [val EXCEPT ![Top.loc] = Top.obj]
            /\ ref' = Counted(ref, Owner(Top.loc), -1)
            /\ calls' = Return \o Released(ref, Owner(Top.loc))
            /\ UNCHANGED <<born, live, linked, desc, terminating, terminator_ran, host, closed>>

\* run_terminator: Class_Terminate runs once, holding the object twice (for
\* itself, and as the Me of the script).
run_terminator(x, cs) ==
  /\ terminator_ran' = terminator_ran \cup {x}
  /\ IF x \in terminating \ terminator_ran
     THEN ref' = Counted(ref, x, 2) /\ calls' = Append(cs, Call("terminate", x))
     ELSE UNCHANGED ref /\ calls' = cs

\* mutant: the object goes although its terminator stored it somewhere
RemoveUnlooked ==
  /\ Is("release") /\ Top.obj \in terminator_ran
  /\ calls' = Replace(Call("clean", Top.obj))
  /\ UNCHANGED <<born, live, linked, desc, terminating, terminator_ran, ref, val, host, closed>>

RunTerminator ==
  /\ Is("release") /\ Top.obj \notin terminator_ran
  /\ run_terminator(Top.obj, calls)
  /\ UNCHANGED <<born, live, linked, desc, terminating, val, host, closed>>

\* The terminator may have stored the object somewhere: then it lives on.
AfterTerminator ==
  /\ Is("release") /\ Top.obj \in terminator_ran
  /\ calls' = IF ref[Top.obj] = 0 THEN Replace(Call("clean", Top.obj)) ELSE Return
  /\ UNCHANGED <<born, live, linked, desc, terminating, terminator_ran, ref, val, host, closed>>

\* clean_props, when there is a property to clear.
Unclean(x) == x \in desc /\ val[x] # None
CleanProps ==
  /\ Is("clean") /\ Unclean(Top.obj)
  /\ Clear(calls, ref, Top.obj)
  /\ UNCHANGED <<born, live, linked, desc, terminating, terminator_ran, val, host, closed>>
\* mutant: the object stays in the list
FreeLinked ==
  /\ Is("clean") /\ ~Unclean(Top.obj)
  /\ live' = live \ {Top.obj}
  /\ calls' = Return
  /\ UNCHANGED <<born, linked, desc, terminating, terminator_ran, ref, val, host, closed>>
Free ==
  /\ Is("clean") /\ ~Unclean(Top.obj)
  /\ live' = live \ {Top.obj} /\ linked' = linked \ {Top.obj}
  /\ calls' = Return
  /\ UNCHANGED <<born, desc, terminating, terminator_ran, ref, val, host, closed>>

-------------------------------------------------------------------------------
(* Scripts: the global code, Class_Initialize and Class_Terminate.            *)

Scripting == Is("script") \/ Is("initialize") \/ Is("terminate")

Clearing == {calls[n].loc : n \in {m \in DOMAIN calls : calls[m].op \in {"store", "clear"}}}
Cleaning == {calls[n].obj : n \in {m \in DOMAIN calls : calls[m].op = "clean"}}
\* A location whose old value is being released: a careful script does not
\* store to it, nor does it read an object there that is being taken apart.
Settled(l) == Careful => l \notin Clearing
Readable(x) == x # None => (Careful => x \notin Cleaning)

\* What a script can name: Me, and what the variables hold.
Known == {x \in {val[v] : v \in Var} \cup (IF Top.op = "script" THEN {} ELSE {Top.obj}) :
            x # None /\ x \in desc /\ Readable(x)}
Places == {l \in Var \cup Known : Settled(l)}
Values == {x \in Known \cup {val[y] : y \in Known} \cup {None} : Readable(x)}

\* Closing, a careful terminator drops no last reference and creates nothing.
Collecting == \E n \in DOMAIN calls : calls[n].op = "collect"
MayDrop(x) == Careful /\ Collecting /\ x # None => ref[x] > 1
MayCreate == ~(Careful /\ Collecting)

\* Set l = x.
Set == /\ Scripting
       /\ \E l \in Places, x \in Values :
            /\ x # val[l] /\ MayDrop(val[l])
            /\ StoreFrom(calls, Counted(ref, x, 1), l, x)
       /\ UNCHANGED <<born, live, linked, desc, terminating, terminator_ran, val, host, closed>>

\* create_vbdisp: New, up to Class_Initialize, which has the object as its Me.
New == /\ Scripting /\ born < MaxObjects /\ MayCreate
       /\ LET x == born + 1
          IN /\ born' = x
             /\ live' = live \cup {x} /\ linked' = linked \cup {x} /\ desc' = desc \cup {x}
             /\ terminating' \in {terminating, terminating \cup {x}}
             /\ ref' = [ref EXCEPT ![x] = 2]
             /\ calls' = Append(calls, Call("initialize", x))
       /\ UNCHANGED <<terminator_ran, val, host, closed>>

\* Class_Initialize is done, and the new object assigned.
Created ==
  /\ Is("initialize")
  /\ LET x == Top.obj
     IN \E l \in {k \in Var \cup Known : Settled(k)} :
          /\ MayDrop(val[l])
          /\ StoreFrom(Return, Counted(ref, x, -1), l, x)
  /\ UNCHANGED <<born, live, linked, desc, terminating, terminator_ran, val, host, closed>>

\* Class_Initialize fails, or nothing is done with the object: it is released.
NotCreated ==
  /\ Is("initialize")
  /\ LET x == Top.obj
         r == Counted(ref, x, -1)
     IN ref' = Counted(r, x, -1) /\ calls' = Return \o Released(r, x)
  /\ UNCHANGED <<born, live, linked, desc, terminating, terminator_ran, val, host, closed>>

\* mutant: the script's Me stays
TerminatedMe ==
  /\ Is("terminate")
  /\ ref' = Counted(ref, Top.obj, -1)
  /\ calls' = Return
  /\ UNCHANGED <<born, live, linked, desc, terminating, terminator_ran, val, host, closed>>

\* Class_Terminate returns: the script's Me is released, and the reference of
\* run_terminator given back.
Terminated ==
  /\ Is("terminate")
  /\ ref' = Counted(ref, Top.obj, -2)
  /\ calls' = Return
  /\ UNCHANGED <<born, live, linked, desc, terminating, terminator_ran, val, host, closed>>

-------------------------------------------------------------------------------
(* The host.                                                                  *)

Enter == /\ Idle /\ ~closed
         /\ calls' = <<Call("script", None)>>
         /\ UNCHANGED <<born, live, linked, desc, terminating, terminator_ran, ref, val, host, closed>>
Leave == /\ Is("script")
         /\ calls' = Return
         /\ UNCHANGED <<born, live, linked, desc, terminating, terminator_ran, ref, val, host, closed>>

\* The host gets an object from a variable, and lets it go again.
Take == /\ Idle /\ ~closed
        /\ \E v \in Var : /\ val[v] # None /\ val[v] \notin host
                          /\ host' = host \cup {val[v]}
                          /\ ref' = Counted(ref, val[v], 1)
        /\ UNCHANGED <<born, live, linked, desc, terminating, terminator_ran, val, calls, closed>>
Drop == /\ Idle
        /\ \E x \in host : /\ host' = host \ {x}
                           /\ ref' = Counted(ref, x, -1)
                           /\ calls' = Released(ref, x)
        /\ UNCHANGED <<born, live, linked, desc, terminating, terminator_ran, val, closed>>

\* release_script: collect_objects, and the variables are released after it.
NextLinked(x) == LET later == {y \in linked : y > x} IN IF later = {} THEN None ELSE Min(later)
Close == /\ Idle /\ ~closed
         /\ closed' = TRUE
         /\ calls' = <<Call("globals", None), Call("detach", None), Call("collect", NextLinked(None))>>
         /\ UNCHANGED <<born, live, linked, desc, terminating, terminator_ran, ref, val, host>>

\* mutant: the first loop stops after an object without a terminator
CollectSome ==
  /\ Is("collect") /\ Top.obj # None /\ Top.obj \in linked
  /\ run_terminator(Top.obj, Replace(Call("collect",
       IF Top.obj \in terminating THEN NextLinked(Top.obj) ELSE None)))
  /\ UNCHANGED <<born, live, linked, desc, terminating, val, host, closed>>

\* The first loop of collect_objects runs every terminator.  The object after
\* this one is looked up before the terminator runs.
Collect ==
  /\ Is("collect") /\ Top.obj # None /\ Top.obj \in linked
  /\ run_terminator(Top.obj, Replace(Call("collect", NextLinked(Top.obj))))
  /\ UNCHANGED <<born, live, linked, desc, terminating, val, host, closed>>
Collected ==
  /\ Is("collect") /\ Top.obj = None
  /\ calls' = Return
  /\ UNCHANGED <<born, live, linked, desc, terminating, terminator_ran, ref, val, host, closed>>

\* mutant: the properties stay
DetachUncleaned ==
  /\ Is("detach") /\ Top.obj = None /\ linked # {}
  /\ LET x == Min(linked)
     IN /\ ref' = Counted(ref, x, 1)
        /\ calls' = Replace(Call("detach", x))
  /\ UNCHANGED <<born, live, linked, desc, terminating, terminator_ran, val, host, closed>>

\* The second loop takes them apart, head first: the properties of the object,
Detach ==
  /\ Is("detach") /\ Top.obj = None /\ linked # {}
  /\ LET x == Min(linked)
         cs == Replace(Call("detach", x))
         r == Counted(ref, x, 1)
     IN IF Unclean(x) THEN Clear(cs, r, x) ELSE ref' = r /\ calls' = cs
  /\ UNCHANGED <<born, live, linked, desc, terminating, terminator_ran, val, host, closed>>
\* then its class and its place in the list.
Detached ==
  /\ Is("detach") /\ Top.obj # None
  /\ desc' = desc \ {Top.obj} /\ linked' = linked \ {Top.obj}
  /\ ref' = Counted(ref, Top.obj, -1)
  /\ calls' = Replace(Call("detach", None)) \o Released(ref, Top.obj)
  /\ UNCHANGED <<born, live, terminating, terminator_ran, val, host, closed>>
AllDetached ==
  /\ Is("detach") /\ Top.obj = None /\ linked = {}
  /\ calls' = Return
  /\ UNCHANGED <<born, live, linked, desc, terminating, terminator_ran, ref, val, host, closed>>

\* The global variables.
ReleaseGlobal ==
  /\ Is("globals")
  /\ \E v \in Var : val[v] # None /\ Clear(calls, ref, v)
  /\ UNCHANGED <<born, live, linked, desc, terminating, terminator_ran, val, host, closed>>
GlobalsReleased ==
  /\ Is("globals") /\ \A v \in Var : val[v] = None
  /\ calls' = Return
  /\ UNCHANGED <<born, live, linked, desc, terminating, terminator_ran, ref, val, host, closed>>

Ended == Idle /\ closed /\ host = {} /\ UNCHANGED vars

Next == \/ EndClear \/ EndStore \/ RunTerminator \/ AfterTerminator \/ CleanProps \/ Free
        \/ Set \/ New \/ Created \/ NotCreated \/ Terminated
        \/ Enter \/ Leave \/ Take \/ Drop \/ Close
        \/ Collect \/ Collected \/ Detach \/ Detached \/ AllDetached
        \/ ReleaseGlobal \/ GlobalsReleased \/ Ended

Spec == Init /\ [][Next]_vars

-------------------------------------------------------------------------------
(* Correctness.                                                               *)

\* Types.
Ops == {"script", "initialize", "terminate", "store", "clear", "release", "clean",
        "collect", "detach", "globals"}
Frames == [op : Ops, obj : Object \cup {None}, loc : Loc \cup {None}]
TypeOK ==
  /\ born \in 0..MaxObjects
  /\ live \subseteq 1..born /\ linked \subseteq live
  /\ desc \subseteq 1..born /\ terminating \subseteq 1..born /\ terminator_ran \subseteq 1..born
  /\ ref \in [Object -> Nat]
  /\ val \in [Loc -> Object \cup {None}]
  /\ host \subseteq live
  /\ calls \in Seq(Frames)
  /\ closed \in BOOLEAN

\* The references that C calls hold: a terminator and an initializer two, the
\* second loop of collect_objects one, a store the one it is about to place and
\* the one of the object whose property it is.
Held(f) == CASE f.op \in {"initialize", "terminate"} -> 2
             [] f.op \in {"store", "detach"} -> 1
             [] OTHER -> 0
HeldByCalls(x) ==
  LET once   == {n \in DOMAIN calls : calls[n].obj = x /\ Held(calls[n]) >= 1}
      twice  == {n \in DOMAIN calls : calls[n].obj = x /\ Held(calls[n]) = 2}
      places == {n \in DOMAIN calls : calls[n].op = "store" /\ calls[n].loc = x}
  IN Cardinality(once) + Cardinality(twice) + Cardinality(places)
Referring(x) == {l \in (Var \cup live) \ Clearing : val[l] = x}

\* The count of an object is the number of references there are: variables,
\* properties, the host, the C calls.  A location that is being cleared has
\* given its reference up.
RefsCounted ==
  \A x \in live :
    ref[x] = Cardinality(Referring(x)) + (IF x \in host THEN 1 ELSE 0) + HeldByCalls(x)

\* Nothing refers to an object that has been freed, whatever the terminators
\* did: no variable, no property, no C call that still is to use it, and the
\* loop over the objects stands on one that is in the list.
NothingDangles ==
  /\ \A l \in (Var \cup live) \ Clearing : val[l] = None \/ val[l] \in live
  /\ \A n \in DOMAIN calls :
       /\ calls[n].obj = None \/ calls[n].obj \in live
       /\ calls[n].loc \in Object => calls[n].loc \in live

\* An object that is taken apart is past its terminator: no terminator starts
\* for an object without a class, none runs once the second loop has begun.
TerminatorsComeFirst ==
  /\ \A x \in live \ desc : x \in terminator_ran
  /\ (\E n \in DOMAIN calls : calls[n].op = "detach")
     /\ ~(\E n \in DOMAIN calls : calls[n].op = "collect")
     => ~\E n \in DOMAIN calls : calls[n].op = "terminate"

\* Closing leaves nothing, cycles included, but what the host still holds.
NothingLeaks == closed /\ Idle => live \subseteq host

\* Class_Terminate of a released object finds what the property of the object
\* refers to: it has been neither freed nor taken apart, not even by Close, which
\* takes nothing apart before all terminators have run.
TerminatorSeesWhole ==
  [][/\ TerminatorsComeFirst'
     /\ RunTerminator /\ Top.obj \in terminating /\ val[Top.obj] # None
          => val[Top.obj] \in live \cap desc]_vars

\* The macro that the first loop of collect_objects is written with goes
\* "through the list using a list entry, with safety against removal": the
\* object it goes to next is in the list.
SafeAgainstRemoval ==
  \A n \in DOMAIN calls :
    calls[n].op = "collect" /\ calls[n].obj # None => calls[n].obj \in linked
===============================================================================
