------------------------------- MODULE VbArrays -------------------------------
(***************************************************************************)
(* Arrays in scripts: Dim, ReDim, ReDim Preserve, Erase, assignment and For *)
(* Each of interp.c, global.c and utils.c, on the SAFEARRAYs of safearray.c *)
(* with their locks.  Emptying an element may release the last reference to *)
(* an object, whose Class_Terminate runs a script in the middle of the C    *)
(* function; frames is the stack of what is under way.                      *)
(***************************************************************************)
EXTENDS Naturals, Sequences, SequencesExt, FiniteSetsExt

CONSTANTS
  Id,           \* identities of SAFEARRAY descriptors
  FixedVar,     \* a variable declared with bounds: Dim a(2)
  DynamicVar,   \* one declared without: Dim a()
  LoopVar,      \* one declared as a scalar
  Shapes,       \* the numbers of elements scripts ask for, by dimension
  FixedShape,   \* those of FixedVar
  FixedId,      \* its SAFEARRAY
  NoId,         \* the null pointer
  NoArray,      \* memory that holds no SAFEARRAY
  MaxIndex,     \* bound: the indices scripts use
  MaxObjects,   \* bound: a script assigns an object when fewer elements hold one
  MaxDepth      \* bound: a statement begins with fewer others under way

Variable == {FixedVar, DynamicVar, LoopVar}

\* What is no variable: no place to store to, and the iterator that owns its array.
NoVar == "no variable"
Owned == "owned"

(***************************************************************************)
(* A VARIANT is empty, an object, or an array by value (ARRAY) or by        *)
(* reference to the place that owns it (BYREF).                             *)
(***************************************************************************)
Variant(vt, id) == [vt |-> vt, id |-> id]
Empty  == Variant("EMPTY", NoId)
Object == Variant("DISPATCH", NoId)
Array(id) == Variant("ARRAY", id)
ByRef(id) == Variant("BYREF", id)
IsArray(v) == v.vt \in {"ARRAY", "BYREF"}
Elements == {Empty, Object}
Variants == [vt : {"EMPTY", "DISPATCH", "ARRAY", "BYREF"}, id : Id \cup {NoId}]

\* rgsabound holds the dimensions backwards; lower bounds are zero in scripts;
\* pvData is the sequence of the cells.
SafeArrays == [rgsabound : Seq(Nat), pvData : Seq(Elements), fixed : BOOLEAN, cLocks : Nat]

ASSUME ArrayAssumption ==
  /\ FixedVar # DynamicVar /\ LoopVar \notin {FixedVar, DynamicVar}
  /\ {NoVar, Owned} \cap Variable = {}
  /\ NoId \notin Id /\ FixedId \in Id
  /\ NoArray \notin SafeArrays
  /\ MaxDepth \in Nat /\ {MaxIndex, MaxObjects} \subseteq Nat
  /\ \A s \in Shapes \cup {FixedShape} : s # <<>> /\ s \in Seq(0..MaxIndex + 1)

VARIABLES
  array,        \* the SAFEARRAYs
  var,          \* the variables
  frames        \* what is under way, innermost last

vars == <<array, var, frames>>

-----------------------------------------------------------------------------
(***************************************************************************)
(* SAFEARRAYs                                                               *)
(***************************************************************************)
Product(s) ==
  LET p[k \in 0..Len(s)] == IF k = 0 THEN 1 ELSE p[k - 1] * s[k] IN p[Len(s)]
CellCount(sa) == Product(sa.rgsabound)

SafeArray(shape, cells, fixed, locks) ==
  [rgsabound |-> Reverse(shape), pvData |-> cells, fixed |-> fixed, cLocks |-> locks]

SafeArrayCreate(shape) ==
  SafeArray(shape, [c \in 1..Product(Reverse(shape)) |-> Empty], FALSE, 0)

Allocated(id) == array[id] # NoArray
Fresh(id) == ~Allocated(id)

\* FADF_FIXEDSIZE is not copied, nor is the lock count.
SafeArrayCopy(sa) == [sa EXCEPT !.fixed = FALSE, !.cLocks = 0]

\* The elements in dimension d.
Bound(sa, d) == sa.rgsabound[Len(sa.rgsabound) + 1 - d]

Index == UNION {[DOMAIN s -> 0..MaxIndex] : s \in Shapes \cup {FixedShape}}

\* NoArray is not the contents of an array either.
ASSUME ContentsAssumption == \A I \in SUBSET Index : NoArray \notin [I -> Elements]

\* array_access checks the number of indices, SafeArrayPtrOfIndex each of them.
InBounds(sa, idx) ==
  /\ Len(idx) = Len(sa.rgsabound)
  /\ \A d \in DOMAIN idx : idx[d] < Bound(sa, d)

\* Mutant: neighbours in the last dimension lie next to each other.
PtrOfIndexByRows(sa, idx) ==
  LET cell[d \in 0..Len(idx)] ==
        IF d = 0 THEN 0 ELSE idx[d] + Bound(sa, d) * cell[d - 1]
  IN  1 + cell[Len(idx)]

\* Neighbours in the first dimension lie next to each other.
SafeArrayPtrOfIndex(sa, idx) ==
  LET cell[d \in 1..Len(idx) + 1] ==
        IF d > Len(idx) THEN 0 ELSE idx[d] + Bound(sa, d) * cell[d + 1]
  IN  1 + cell[1]

\* The cells that remain when the last dimension gets n elements.
CellsKept(sa, n) == n * (CellCount(sa) \div sa.rgsabound[1])

\* SafeArrayRedim after the cells that go were emptied; the new ones are zero.
Resized(sa, n) ==
  LET bounds == [sa.rgsabound EXCEPT ![1] = n] IN
  [sa EXCEPT !.rgsabound = bounds,
             !.pvData = [c \in 1..Product(bounds) |->
                           IF c \in DOMAIN sa.pvData THEN sa.pvData[c] ELSE Empty]]

\* Mutant: it does not look at the lock count.
DestroyableLocked(sa) == TRUE

\* SafeArrayDestroy refuses a locked array.
Destroyable(sa) == sa.cLocks = 0

\* SafeArrayRedim refuses a locked array and one of fixed size.
Resizable(sa) == ~sa.fixed /\ sa.cLocks = 0

Locked(sa)   == [sa EXCEPT !.cLocks = @ + 1]

\* Mutant: a release that forgets SafeArrayUnlock.
StillLocked(sa) == sa

Unlocked(sa) == [sa EXCEPT !.cLocks = @ - 1]

-----------------------------------------------------------------------------
(***************************************************************************)
(* What is under way.  A frame empties the cells pos..last of an array: to  *)
(* destroy it ("destroy", after which variable to gets value), to shorten   *)
(* it ("shrink", its last dimension to size), to erase one of fixed size    *)
(* ("erase").  "assign" and "store" wait for the release of an object in a  *)
(* variable and in cell pos.  "script" is a Class_Terminate; "foreach" is   *)
(* the body of a For Each, pos the next cell.                               *)
(***************************************************************************)
Frame(op, id, pos, last, to, value) ==
  [op |-> op, id |-> id, pos |-> pos, last |-> last, to |-> to, value |-> value, size |-> 0]
Frames == [op : {"script", "destroy", "shrink", "erase", "assign", "store", "foreach"},
           id : Id \cup {NoId}, pos : Nat, last : Nat,
           to : Variable \cup {NoVar, Owned}, value : Variants, size : Nat]
Shrink(id, pos, last, n) ==
  [Frame("shrink", id, pos, last, NoVar, Empty) EXCEPT !.size = n]
Script == Frame("script", NoId, 0, 0, NoVar, Empty)

Emptying == {"destroy", "shrink", "erase"}

Top == frames[Len(frames)]
Runs(ops) == frames # <<>> /\ Top.op \in ops
Below == SubSeq(frames, 1, Len(frames) - 1)
Push(f) == frames' = Append(frames, f)
Pop == frames' = Below
Advance == frames' = [frames EXCEPT ![Len(frames)].pos = @ + 1]
HasRoom == Len(SelectSeq(frames, LAMBDA f : f.op # "script")) < MaxDepth

\* A script is at a statement: the main one, one in the body of a For Each, or
\* a Class_Terminate.
InBody(f) == f.op = "foreach" /\ 1 < f.pos /\ f.pos <= f.last + 1
ScriptRuns ==
  /\ HasRoom
  /\ frames = <<>> \/ Runs({"script"}) \/ (Runs({"foreach"}) /\ InBody(Top))

(***************************************************************************)
(* What a Class_Terminate must not do, since nothing guards against it: set *)
(* a variable that is being cleared, free or resize an unlocked array into  *)
(* which an assignment points or that is being destroyed, and release an    *)
(* object again that is being released (README, "What the host must not     *)
(* do").                                                                    *)
(***************************************************************************)
Settled(v) == \A k \in DOMAIN frames : frames[k].to = v => frames[k].op \notin {"destroy", "assign"}
ArraySettled(id) ==
  \A k \in DOMAIN frames : frames[k].id = id => frames[k].op \notin {"destroy", "erase", "store"}
CellSettled(id, c) ==
  \A k \in DOMAIN frames :
    frames[k].id = id /\ frames[k].pos = c => frames[k].op \notin Emptying \cup {"store"}

LoopVarSettled ==
  Settled(LoopVar) /\ (var[LoopVar].id # NoId => ArraySettled(var[LoopVar].id))

-----------------------------------------------------------------------------
(***************************************************************************)
(* Clearing a location and storing into it                                  *)
(***************************************************************************)

\* Mutant: the old value is not cleared.
PutNoClear(v, value, as, fs) ==
  /\ Settled(v)
  /\ array' = as
  /\ frames' = fs
  /\ var' = [var EXCEPT ![v] = value]

\* VariantClear(var[v]), ignoring its result, then var[v] = value, on top of the
\* frames fs and with the arrays as.  An array that is locked stays as it is.
Put(v, value, as, fs) ==
  LET old  == var[v]
      live == old.vt = "ARRAY" /\ old.id # NoId /\ Destroyable(as[old.id])
  IN
  /\ Settled(v)
  /\ array' = as
  /\ \/ /\ live /\ ArraySettled(old.id)
        /\ frames' = Append(fs, Frame("destroy", old.id, 1, CellCount(as[old.id]), v, value))
        /\ UNCHANGED var
     \/ /\ old.vt = "DISPATCH"
        /\ frames' = fs \o <<Frame("assign", NoId, 0, 0, v, value), Script>>
        /\ UNCHANGED var
     \/ /\ ~live
        /\ frames' = fs
        /\ var' = [var EXCEPT ![v] = value]

\* A cell is emptied and no script runs.
ClearCell ==
  /\ Runs(Emptying)
  /\ Top.pos <= Top.last
  /\ array' = [array EXCEPT ![Top.id].pvData[Top.pos] = Empty]
  /\ Advance
  /\ UNCHANGED var

\* The last reference to the object in the cell is released.
TerminatorRuns ==
  /\ Runs(Emptying)
  /\ Top.pos <= Top.last
  /\ array[Top.id].pvData[Top.pos] = Object
  /\ Push(Script)
  /\ UNCHANGED <<array, var>>

\* VariantClear empties the location after the release.
TerminatorReturns ==
  /\ Runs({"script"})
  /\ LET f == Below[Len(Below)] IN
     IF f.op \in Emptying
     THEN /\ array' = [array EXCEPT ![f.id].pvData[f.pos] = Empty]
          /\ frames' = [Below EXCEPT ![Len(Below)].pos = @ + 1]
     ELSE Pop /\ UNCHANGED array
  /\ UNCHANGED var

\* The rest of Put.
AssignFinished ==
  /\ Runs({"assign"})
  /\ var' = [var EXCEPT ![Top.to] = Top.value]
  /\ Pop
  /\ UNCHANGED array

StoreFinished ==
  /\ Runs({"store"})
  /\ array' = [array EXCEPT ![Top.id].pvData[Top.pos] = Top.value]
  /\ Pop
  /\ UNCHANGED var

\* The rest of SafeArrayDestroy: the memory is freed.
DestroyFinished ==
  /\ Runs({"destroy"})
  /\ Top.pos > Top.last
  /\ array' = [array EXCEPT ![Top.id] = NoArray]
  /\ var' = IF Top.to = NoVar THEN var ELSE [var EXCEPT ![Top.to] = Top.value]
  /\ Pop

\* The rest of SafeArrayRedim.
ShrinkFinished ==
  /\ Runs({"shrink"})
  /\ Top.pos > Top.last
  /\ array' = [array EXCEPT ![Top.id] = Unlocked(Resized(@, Top.size))]
  /\ Pop
  /\ UNCHANGED var

\* The rest of Erase.
EraseFinished ==
  /\ Runs({"erase"})
  /\ Top.pos > Top.last
  /\ array' = [array EXCEPT ![Top.id] = Unlocked(@)]
  /\ Pop
  /\ UNCHANGED var

-----------------------------------------------------------------------------
(***************************************************************************)
(* Statements                                                               *)
(***************************************************************************)
FirstFresh == CHOOSE id \in Id : Fresh(id)
CanAllocate == \E id \in Id : Fresh(id)

\* A fixed-size array is refused; any other value is cleared for the new array.
ReDim(v, shape) ==
  /\ ScriptRuns /\ CanAllocate
  /\ IsArray(var[v]) /\ var[v].id # NoId => ~array[var[v].id].fixed
  /\ Put(v, Array(FirstFresh), [array EXCEPT ![FirstFresh] = SafeArrayCreate(shape)], frames)

\* ReDim Preserve of a variable without an array is like ReDim.
ReDimPreserveNew(v, shape) ==
  /\ ScriptRuns /\ CanAllocate
  /\ IsArray(var[v]) /\ var[v].id = NoId
  /\ Settled(v)
  /\ array' = [array EXCEPT ![FirstFresh] = SafeArrayCreate(shape)]
  /\ var' = [var EXCEPT ![v] = Array(FirstFresh)]
  /\ UNCHANGED frames

\* All dimensions but the last, which are compared back to front.
SameButLast(sa, shape) ==
  /\ Len(shape) = Len(sa.rgsabound)
  /\ \A d \in 1..Len(shape) - 1 : Bound(sa, d) = shape[d]

ReDimPreserve(v, shape) ==
  LET id == var[v].id
      n  == Last(shape)
  IN
  /\ ScriptRuns
  /\ IsArray(var[v]) /\ id # NoId
  /\ ArraySettled(id)
  /\ SameButLast(array[id], shape)
  /\ Resizable(array[id])
  /\ IF n < array[id].rgsabound[1]
     THEN /\ Push(Shrink(id, CellsKept(array[id], n) + 1, CellCount(array[id]), n))
          /\ array' = [array EXCEPT ![id] = Locked(@)]
     ELSE /\ array' = [array EXCEPT ![id] = Resized(@, n)]
          /\ UNCHANGED frames
  /\ UNCHANGED var

\* Erase empties an array of fixed size and destroys any other; whether that
\* was refused is not looked at.
Erase(v) ==
  LET id == var[v].id IN
  /\ ScriptRuns
  /\ IsArray(var[v]) /\ id # NoId
  /\ ArraySettled(id)
  /\ IF array[id].fixed
     THEN /\ Push(Frame("erase", id, 1, CellCount(array[id]), NoVar, Empty))
          /\ array' = [array EXCEPT ![id] = Locked(@)]
          /\ UNCHANGED var
     ELSE /\ Settled(v)
          /\ IF Destroyable(array[id])
             THEN /\ Push(Frame("destroy", id, 1, CellCount(array[id]), v, Array(NoId)))
                  /\ UNCHANGED var
             ELSE /\ var' = [var EXCEPT ![v] = Array(NoId)]
                  /\ UNCHANGED frames
          /\ UNCHANGED array

\* v = w, and Set v = w for an object: the value is copied, then stored.  An
\* array with a place of its own cannot be assigned to.
Assign(v, value) ==
  /\ ScriptRuns
  /\ var[v].vt # "BYREF"
  /\ IF IsArray(value) /\ value.id # NoId
     THEN /\ CanAllocate
          /\ Put(v, Array(FirstFresh), [array EXCEPT ![FirstFresh] = SafeArrayCopy(array[value.id])], frames)
     ELSE Put(v, IF IsArray(value) THEN Array(NoId) ELSE value, array, frames)

Objects == UNION {{<<id, c>> : c \in {k \in DOMAIN array[id].pvData : array[id].pvData[k] = Object}} :
                  id \in {i \in Id : Allocated(i)}}

\* v(idx) = value.
SetElement(v, idx, value) ==
  LET id == var[v].id
      c  == SafeArrayPtrOfIndex(array[id], idx)
  IN
  /\ ScriptRuns
  /\ IsArray(var[v]) /\ id # NoId
  /\ InBounds(array[id], idx)
  /\ CellSettled(id, c)
  /\ value = Object => Cardinality(Objects) < MaxObjects
  /\ \/ /\ array' = [array EXCEPT ![id].pvData[c] = value]
        /\ UNCHANGED frames
     \/ /\ array[id].pvData[c] = Object
        /\ frames' = frames \o <<Frame("store", id, c, 0, NoVar, value), Script>>
        /\ UNCHANGED array
  /\ UNCHANGED var

-----------------------------------------------------------------------------
(***************************************************************************)
(* For Each                                                                 *)
(***************************************************************************)
\* owner: Owned, or NoVar for an array in a variable.
ForEach(id, sa, owner) == Frame("foreach", id, 1, CellCount(sa), owner, Empty)

\* For Each x In v: create_safearray_iter locks the array.
NewEnum(v) ==
  /\ ScriptRuns /\ LoopVarSettled
  /\ IsArray(var[v]) /\ var[v].id # NoId
  /\ Push(ForEach(var[v].id, array[var[v].id], NoVar))
  /\ array' = [array EXCEPT ![var[v].id] = Locked(@)]
  /\ UNCHANGED var

\* For Each x In f(), where f returns the array of a variable: the copy belongs
\* to the iterator.
NewEnumOwned(v) ==
  /\ ScriptRuns /\ CanAllocate /\ LoopVarSettled
  /\ IsArray(var[v]) /\ var[v].id # NoId
  /\ LET copy == SafeArrayCopy(array[var[v].id]) IN
       /\ Push(ForEach(FirstFresh, copy, Owned))
       /\ array' = [array EXCEPT ![FirstFresh] = Locked(copy)]
  /\ UNCHANGED var

\* The loop goes on when a body is at its end, or none has begun.
AtNext == Runs({"foreach"}) /\ Top.pos <= Top.last + 1

\* OP_enumnext: the element is copied and stored to the loop variable, which is
\* emptied at the end.
EnumNext ==
  LET value == IF Top.pos <= Top.last THEN array[Top.id].pvData[Top.pos] ELSE Empty IN
  /\ AtNext
  /\ Put(LoopVar, value, array, Append(Below, [Top EXCEPT !.pos = @ + 1, !.value = value]))

\* The loop is over, or left with Exit For: the iterator is released, which
\* unlocks the array and destroys one that it owns.
LoopEnds ==
  /\ Runs({"foreach"})
  /\ InBody(Top) \/ Top.pos = Top.last + 2
  /\ array' = [array EXCEPT ![Top.id] = Unlocked(@)]
  /\ frames' = IF Top.to = Owned
               THEN Append(Below, Frame("destroy", Top.id, 1, Top.last, NoVar, Empty))
               ELSE Below
  /\ UNCHANGED var

-----------------------------------------------------------------------------
Init ==
  /\ array = [id \in Id |-> IF id = FixedId
                            THEN [SafeArrayCreate(FixedShape) EXCEPT !.fixed = TRUE]
                            ELSE NoArray]
  /\ var = [v \in Variable |->
              CASE v = FixedVar -> ByRef(FixedId)
                [] v = DynamicVar -> ByRef(NoId)
                [] v = LoopVar -> Empty]
  /\ frames = <<>>

Statement ==
  \E v \in Variable :
    \/ \E s \in Shapes : ReDim(v, s) \/ ReDimPreserveNew(v, s) \/ ReDimPreserve(v, s)
    \/ Erase(v)
    \/ \E w \in Variable : Assign(v, var[w])
    \/ Assign(v, Empty) \/ Assign(v, Object)
    \/ \E idx \in Index, value \in Elements : SetElement(v, idx, value)
    \/ NewEnum(v) \/ NewEnumOwned(v)

Step ==
  \/ ClearCell \/ TerminatorRuns \/ TerminatorReturns
  \/ AssignFinished \/ StoreFinished
  \/ DestroyFinished \/ ShrinkFinished \/ EraseFinished
  \/ EnumNext \/ LoopEnds

Next == Statement \/ Step
Spec == Init /\ [][Next]_vars

-----------------------------------------------------------------------------
(***************************************************************************)
(* Properties                                                               *)
(***************************************************************************)
IsLock(f) == f.op \in {"foreach", "shrink", "erase"}

\* An array is locked once for each iterator, resize and Erase under way, so that
\* it can be resized and freed again when the last of them is over; and it has
\* the cells that its bounds say.
TypeOK ==
  /\ array \in [Id -> SafeArrays \cup {NoArray}]
  /\ var \in [Variable -> Variants]
  /\ frames \in Seq(Frames)
  /\ \A id \in Id : Allocated(id) =>
       /\ Len(array[id].pvData) = CellCount(array[id])
       /\ array[id].cLocks =
            Cardinality({k \in DOMAIN frames : IsLock(frames[k]) /\ frames[k].id = id})

\* Nothing points to an array that is gone or to a cell beyond its end: no
\* variable, no iterator, no loop over its cells; and no array has two owners.
NothingDangles ==
  /\ \A v \in Variable : var[v].id # NoId =>
       /\ Allocated(var[v].id)
       /\ \A w \in Variable \ {v} : var[w].id # var[v].id
  /\ \A k \in DOMAIN frames :
       LET f == frames[k] IN
       f.id # NoId =>
         /\ Allocated(f.id)
         /\ f.op = "store" => f.pos \in DOMAIN array[f.id].pvData
         /\ f.op # "store" => f.last = CellCount(array[f.id])

\* A variable that gets a new value, or is erased, takes its array with it; only
\* an array that something has locked at that moment is left without an owner.
OnlyLockedArraysAreLost ==
  [][\A v \in Variable :
       LET id == var[v].id IN
       id # NoId /\ var'[v].id # id => array'[id] = NoArray \/ array[id].cLocks > 0]_vars

\* The elements of each array by index, and the For Each statements.
Contents(sa) ==
  [idx \in {i \in Index : InBounds(sa, i)} |-> sa.pvData[SafeArrayPtrOfIndex(sa, idx)]]
Loop(f) ==
  LET sa == array[f.id] IN
  [id   |-> f.id,
   seen |-> {idx \in Index : InBounds(sa, idx) /\ SafeArrayPtrOfIndex(sa, idx) < f.pos},
   got  |-> f.value,
   done |-> f.pos = f.last + 2]

Elems == [id \in Id |-> IF Allocated(id) THEN Contents(array[id]) ELSE NoArray]
Loops == FlattenSeq([k \in DOMAIN frames |->
           IF frames[k].op = "foreach" THEN <<Loop(frames[k])>> ELSE <<>>])

Abstract ==
  INSTANCE ArrayContents WITH
    Shapes <- Shapes \cup {FixedShape}, Values <- Elements, Nothing <- Empty,
    NoContents <- NoArray, contents <- Elems, loops <- Loops

\* Cells, strides, locks and releases in the middle of statements do not show:
\* arrays are functions from indices to values, ReDim Preserve keeps the values
\* of the indices that stay, and a For Each visits every element once.
ArraysAreFunctions == Abstract!Spec
=============================================================================
