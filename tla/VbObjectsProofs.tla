---------------------------- MODULE VbObjectsProofs ----------------------------
(***************************************************************************)
(* Proofs about VbObjects: counts are the references there are, nothing     *)
(* dangles or leaks, and terminators come first, whatever they do.          *)
(***************************************************************************)
EXTENDS VbObjects, ListFacts

Scripts == {"script", "initialize", "terminate"}
Clears == {"store", "clear"}
Releases == {"release", "clean"}

-------------------------------------------------------------------------------
(***************************************************************************)
(* The inductive invariant.  Its first part speaks of the objects lv, what  *)
(* the locations hold vl, the counts r, the host's objects h and the calls  *)
(* cs, so that it can be stated of the steps that an action is made of.     *)
(***************************************************************************)

\* What a call has for obj and loc.
Formed(f) ==
  /\ f.op \in Clears => f.loc # None
  /\ f.op \notin Clears => f.loc = None
  /\ f.op \in Releases \cup {"initialize", "terminate"} => f.obj # None
  /\ f.op \in {"script", "clear", "globals"} => f.obj = None

\* Which calls the host begins, and which begin in the middle of which.
Bottom(f) == f.op \in Releases \cup {"script", "globals"}
On(vl, f, g) ==
  \/ f.op \in Scripts /\ g.op \in Releases \cup {"store", "initialize"}
  \/ f.op \in Clears /\ g.op \in Releases /\ g.obj = vl[f.loc]
  \/ f.op = "release" /\ g.op = "terminate" /\ g.obj = f.obj
  \/ f.op = "clean" /\ g.op = "clear" /\ g.loc = f.obj
  \/ f.op = "collect" /\ g.op = "terminate"
  \/ f.op = "detach" /\ f.obj = None /\ g.op \in Releases \cup {"collect"}
  \/ f.op = "detach" /\ f.obj # None /\ g.op = "clear" /\ g.loc = f.obj
  \/ f.op = "globals" /\ g.op = "detach"
  \/ f.op = "globals" /\ g.op = "clear" /\ g.loc \in Var

Nested(vl, cs) ==
  \A n \in DOMAIN cs :
    /\ Formed(cs[n])
    /\ n = 1 => Bottom(cs[n])
    /\ n > 1 => On(vl, cs[n - 1], cs[n])

\* No location is cleared twice at the same time, no object released twice.
Apart(f, g) ==
  /\ f.op \in Clears /\ g.op \in Clears => f.loc # g.loc
  /\ f.op \in Releases /\ g.op \in Releases => f.obj # g.obj
AllApart(cs) == \A m, n \in DOMAIN cs : m # n => Apart(cs[m], cs[n])

\* The references to x: RefsCounted as a function of the state.
ClearingIn(cs) == {cs[n].loc : n \in {m \in DOMAIN cs : cs[m].op \in Clears}}
CleaningIn(cs) == {cs[n].obj : n \in {m \in DOMAIN cs : cs[m].op = "clean"}}
ReferringIn(lv, vl, cs, x) == {l \in (Var \cup lv) \ ClearingIn(cs) : vl[l] = x}
Once(cs, x) == {n \in DOMAIN cs : cs[n].obj = x /\ Held(cs[n]) >= 1}
Twice(cs, x) == {n \in DOMAIN cs : cs[n].obj = x /\ Held(cs[n]) = 2}
Stored(cs, x) == {n \in DOMAIN cs : cs[n].op = "store" /\ cs[n].loc = x}
HeldIn(cs, x) ==
  Cardinality(Once(cs, x)) + Cardinality(Twice(cs, x)) + Cardinality(Stored(cs, x))
Hosted(h, x) == IF x \in h THEN 1 ELSE 0
Refs(lv, vl, h, cs, x) ==
  Cardinality(ReferringIn(lv, vl, cs, x)) + Hosted(h, x) + HeldIn(cs, x)

Typed(lv, vl, r, h, cs) ==
  /\ lv \in SUBSET Object /\ h \in SUBSET lv
  /\ vl \in [Loc -> Object \cup {None}]
  /\ r \in [Object -> Nat]
  /\ cs \in Seq(Frames)
CountsSound(lv, vl, r, h, cs) == \A x \in lv : r[x] = Refs(lv, vl, h, cs, x)
\* An object that is taken apart has no reference left.
Unused(r, cs) == \A n \in DOMAIN cs : cs[n].op = "clean" => r[cs[n].obj] = 0
Alive(lv, vl, cs) ==
  /\ \A l \in (Var \cup lv) \ ClearingIn(cs) : vl[l] \in lv \cup {None}
  /\ \A n \in DOMAIN cs : /\ cs[n].obj \in lv \cup {None}
                          /\ cs[n].loc \in Object => cs[n].loc \in lv

Sound(lv, vl, r, h, cs) ==
  /\ Typed(lv, vl, r, h, cs)
  /\ Nested(vl, cs) /\ AllApart(cs)
  /\ CountsSound(lv, vl, r, h, cs) /\ Unused(r, cs)
  /\ Alive(lv, vl, cs)

-------------------------------------------------------------------------------
(***************************************************************************)
(* The rest of the invariant: what the engine is doing.                     *)
(***************************************************************************)

Has(F, op) == \E f \in F : f.op = op
Base ==
  /\ born \in 0..MaxObjects /\ closed \in BOOLEAN
  /\ live \subseteq 1..born /\ linked \subseteq live
  /\ desc \subseteq 1..born /\ terminating \subseteq 1..born /\ terminator_ran \subseteq 1..born
Fresh == \A x \in Object : x > born => val[x] = None

\* An object without references is being released, or will be by the second loop
\* of collect_objects.
Accounted ==
  \A x \in live : ref[x] = 0 =>
    \/ \E f \in Range(calls) : f.op \in Releases /\ f.obj = x
    \/ x \in linked /\ Has(Range(calls), "detach")

\* Until the engine closes, objects have their class and their place in the list.
OpenSound == ~closed =>
  /\ linked = live /\ live \subseteq desc
  /\ \A f \in Range(calls) : f.op \notin {"globals", "detach", "collect"}

\* In the first loop of collect_objects, which stands on c, a terminator may store,
\* and what it stores to has a reference besides the one of the store.
Loops(c) == <<Call("globals", None), Call("detach", None), Call("collect", c)>>
Within(lv, r, cs, c) ==
  \/ cs = Loops(c)
  \/ \E x \in lv : cs = Append(Loops(c), Call("terminate", x))
  \/ \E x \in lv, f \in Frames :
       /\ cs = Append(Append(Loops(c), Call("terminate", x)), f)
       /\ f.op = "store" /\ (f.loc \in Object => r[f.loc] >= 2)
CollectSound == Has(Range(calls), "collect") =>
  /\ closed /\ linked = live /\ live \subseteq desc
  /\ \E c \in linked \cup {None} :
       /\ \A y \in linked : c = None \/ y < c => y \in terminator_ran
       /\ Within(live, ref, calls, c)

\* After it no script runs any more, and what is out of the list is empty.
Ending == {"globals", "detach", "clear", "release", "clean"}
OverSound == closed /\ ~Has(Range(calls), "collect") =>
  /\ live \subseteq terminator_ran /\ linked \subseteq desc
  /\ \A f \in Range(calls) : f.op \in Ending
  /\ \A x \in live \ linked : x \notin desc /\ val[x] = None
  /\ linked # {} => Has(Range(calls), "detach")
  /\ \A f \in Range(calls) : f.op = "detach" => f.obj \in linked \cup {None}
DetachSound == ~Idle /\ Top.op = "detach" /\ Top.obj # None => val[Top.obj] = None
GlobalsSound == closed /\ ~Has(Range(calls), "globals") => \A v \in Var : val[v] = None

Phases == OpenSound /\ CollectSound /\ OverSound /\ DetachSound /\ GlobalsSound
ObjectsInv == Sound(live, val, ref, host, calls) /\ Base /\ Fresh /\ Accounted /\ Phases

-------------------------------------------------------------------------------
(***************************************************************************)
(* Counting                                                                *)
(***************************************************************************)

LEMMA CallsParts ==
  ASSUME NEW cs \in Seq(Frames)
  PROVE  /\ Len(cs) \in Nat /\ DOMAIN cs = 1..Len(cs)
         /\ \A n \in DOMAIN cs : cs[n] \in Frames
BY LenProperties, ElementOfSeq

LEMMA HeldIs == ASSUME NEW f PROVE Held(f) \in {0, 1, 2}
BY DEF Held

\* Sets of places in a sequence are finite.
LEMMA PlacesFinite ==
  ASSUME NEW cs \in Seq(Frames), NEW T \in SUBSET DOMAIN cs
  PROVE  IsFiniteSet(T) /\ Cardinality(T) \in Nat
<1>1. IsFiniteSet(DOMAIN cs)
  BY CallsParts, FS_Interval
<1>. QED
  BY <1>1, FS_Subset, FS_CardinalityType

\* Append adds a place or none.
LEMMA PlacesGrow ==
  ASSUME NEW cs \in Seq(Frames), NEW T \in SUBSET DOMAIN cs, NEW U,
         U = T \/ U = T \cup {Len(cs) + 1}
  PROVE  /\ Cardinality(U) = Cardinality(T) + (IF Len(cs) + 1 \in U THEN 1 ELSE 0)
         /\ Cardinality(T) \in Nat
<1>1. IsFiniteSet(T) /\ Cardinality(T) \in Nat /\ Len(cs) + 1 \notin T
  <2>1. Len(cs) + 1 \notin DOMAIN cs
    BY CallsParts
  <2>. QED
    BY <2>1, PlacesFinite
<1>. QED
  BY <1>1, FS_AddElement

\* The reference to the object that a store holds for its place.
Placed(f, x) == IF f.op = "store" /\ f.loc = x THEN 1 ELSE 0

\* What one call holds of x.
Weight(f, x) ==
  (IF f.obj = x THEN Held(f) ELSE 0) + (IF f.op = "store" /\ f.loc = x THEN 1 ELSE 0)

LEMMA HeldPush ==
  ASSUME NEW cs \in Seq(Frames), NEW f \in Frames, NEW x
  PROVE  /\ HeldIn(Append(cs, f), x) = HeldIn(cs, x) + Weight(f, x)
         /\ HeldIn(cs, x) \in Nat /\ Weight(f, x) \in Nat
<1>. DEFINE N == Len(cs) + 1
            ds == Append(cs, f)
<1>1. /\ ds \in Seq(Frames) /\ DOMAIN ds = 1..N /\ DOMAIN cs = 1..Len(cs) /\ Len(cs) \in Nat
      /\ \A n \in DOMAIN cs : ds[n] = cs[n]
      /\ ds[N] = f
  BY AppendParts
<1>. HIDE DEF ds
<1>2. DOMAIN ds = DOMAIN cs \cup {N} /\ N \notin DOMAIN cs
  BY <1>1
<1>. HIDE DEF N
<1>3. /\ Once(cs, x) \in SUBSET DOMAIN cs /\ Twice(cs, x) \in SUBSET DOMAIN cs
      /\ Stored(cs, x) \in SUBSET DOMAIN cs
  BY DEF Once, Twice, Stored
<1>4. /\ N \in Once(ds, x) <=> f.obj = x /\ Held(f) >= 1
      /\ Once(ds, x) = Once(cs, x) \/ Once(ds, x) = Once(cs, x) \cup {N}
  BY <1>1, <1>2 DEF Once
<1>5. /\ N \in Twice(ds, x) <=> f.obj = x /\ Held(f) = 2
      /\ Twice(ds, x) = Twice(cs, x) \/ Twice(ds, x) = Twice(cs, x) \cup {N}
  BY <1>1, <1>2 DEF Twice
<1>6. /\ N \in Stored(ds, x) <=> f.op = "store" /\ f.loc = x
      /\ Stored(ds, x) = Stored(cs, x) \/ Stored(ds, x) = Stored(cs, x) \cup {N}
  BY <1>1, <1>2 DEF Stored
<1>7. /\ Cardinality(Once(ds, x)) = Cardinality(Once(cs, x)) + (IF N \in Once(ds, x) THEN 1 ELSE 0)
      /\ Cardinality(Once(cs, x)) \in Nat
  BY <1>3, <1>4, PlacesGrow DEF N
<1>8. /\ Cardinality(Twice(ds, x)) = Cardinality(Twice(cs, x)) + (IF N \in Twice(ds, x) THEN 1 ELSE 0)
      /\ Cardinality(Twice(cs, x)) \in Nat
  BY <1>3, <1>5, PlacesGrow DEF N
<1>9. /\ Cardinality(Stored(ds, x)) = Cardinality(Stored(cs, x)) + (IF N \in Stored(ds, x) THEN 1 ELSE 0)
      /\ Cardinality(Stored(cs, x)) \in Nat
  BY <1>3, <1>6, PlacesGrow DEF N
<1>10. Held(f) \in {0, 1, 2}
  BY HeldIs
<1>11. PICK a \in Nat, b \in Nat, c \in Nat :
         a = Cardinality(Once(cs, x)) /\ b = Cardinality(Twice(cs, x)) /\ c = Cardinality(Stored(cs, x))
  BY <1>7, <1>8, <1>9
<1>12. /\ Cardinality(Once(ds, x)) = a + (IF f.obj = x /\ Held(f) >= 1 THEN 1 ELSE 0)
       /\ Cardinality(Twice(ds, x)) = b + (IF f.obj = x /\ Held(f) = 2 THEN 1 ELSE 0)
       /\ Cardinality(Stored(ds, x)) = c + (IF f.op = "store" /\ f.loc = x THEN 1 ELSE 0)
  BY <1>4, <1>5, <1>6, <1>7, <1>8, <1>9, <1>11
<1>13. /\ HeldIn(ds, x) = (a + (IF f.obj = x /\ Held(f) >= 1 THEN 1 ELSE 0))
                         + (b + (IF f.obj = x /\ Held(f) = 2 THEN 1 ELSE 0))
                         + (c + (IF f.op = "store" /\ f.loc = x THEN 1 ELSE 0))
       /\ HeldIn(cs, x) = a + b + c
  BY <1>11, <1>12 DEF HeldIn
<1>14. Weight(f, x) = (IF f.obj = x /\ Held(f) >= 1 THEN 1 ELSE 0)
                    + (IF f.obj = x /\ Held(f) = 2 THEN 1 ELSE 0)
                    + (IF f.op = "store" /\ f.loc = x THEN 1 ELSE 0)
  BY <1>10 DEF Weight
<1>. QED
  BY <1>13, <1>14 DEF ds

\* A call holds no more than all of them.
LEMMA HeldByOne ==
  ASSUME NEW cs \in Seq(Frames), NEW n \in DOMAIN cs, NEW x
  PROVE  HeldIn(cs, x) >= Weight(cs[n], x) /\ HeldIn(cs, x) \in Nat /\ Weight(cs[n], x) \in Nat
<1>1. \A T \in SUBSET DOMAIN cs :
        Cardinality(T) \in Nat /\ (n \in T => Cardinality(T) >= 1)
  <2>. SUFFICES ASSUME NEW T \in SUBSET DOMAIN cs
                PROVE  Cardinality(T) \in Nat /\ (n \in T => Cardinality(T) >= 1)
    OBVIOUS
  <2>1. IsFiniteSet(T) /\ Cardinality(T) \in Nat
    BY PlacesFinite
  <2>2. n \in T => Cardinality(T) # 0
    BY <2>1, FS_EmptySet
  <2>. QED
    BY <2>1, <2>2
<1>2. /\ Once(cs, x) \in SUBSET DOMAIN cs /\ Twice(cs, x) \in SUBSET DOMAIN cs
      /\ Stored(cs, x) \in SUBSET DOMAIN cs
  BY DEF Once, Twice, Stored
<1>3. /\ n \in Once(cs, x) <=> cs[n].obj = x /\ Held(cs[n]) >= 1
      /\ n \in Twice(cs, x) <=> cs[n].obj = x /\ Held(cs[n]) = 2
      /\ n \in Stored(cs, x) <=> cs[n].op = "store" /\ cs[n].loc = x
  BY DEF Once, Twice, Stored
<1>4. Held(cs[n]) \in {0, 1, 2}
  BY HeldIs
<1>5. /\ Cardinality(Once(cs, x)) \in Nat /\ (n \in Once(cs, x) => Cardinality(Once(cs, x)) >= 1)
      /\ Cardinality(Twice(cs, x)) \in Nat /\ (n \in Twice(cs, x) => Cardinality(Twice(cs, x)) >= 1)
      /\ Cardinality(Stored(cs, x)) \in Nat /\ (n \in Stored(cs, x) => Cardinality(Stored(cs, x)) >= 1)
  BY <1>1, <1>2
<1>. QED
  BY <1>3, <1>4, <1>5 DEF HeldIn, Weight

LEMMA ReferringFinite ==
  ASSUME NEW lv \in SUBSET Object, NEW vl, NEW cs, NEW x
  PROVE  /\ IsFiniteSet(ReferringIn(lv, vl, cs, x))
         /\ Cardinality(ReferringIn(lv, vl, cs, x)) \in Nat
<1>1. IsFiniteSet(Object)
  BY ObjectsAssumption, FS_Interval DEF Object
<1>2. IsFiniteSet(Var \cup Object)
  BY <1>1, ObjectsAssumption, FS_Union
<1>3. ReferringIn(lv, vl, cs, x) \in SUBSET (Var \cup Object)
  BY DEF ReferringIn
<1>. QED
  BY <1>2, <1>3, FS_Subset, FS_CardinalityType

\* What refers to an object, or holds it, is in its count.
LEMMA CountedRef ==
  ASSUME NEW lv, NEW vl, NEW r, NEW h, NEW cs, Sound(lv, vl, r, h, cs), NEW x \in lv
  PROVE  /\ r[x] \in Nat
         /\ \A l \in (Var \cup lv) \ ClearingIn(cs) : vl[l] = x => r[x] >= 1
         /\ \A n \in DOMAIN cs : r[x] >= Weight(cs[n], x)
         /\ \A n \in DOMAIN cs, l \in (Var \cup lv) \ ClearingIn(cs) :
              vl[l] = x => r[x] >= Weight(cs[n], x) + 1
         /\ x \in h => r[x] >= 1
<1>1. /\ lv \in SUBSET Object /\ cs \in Seq(Frames) /\ r[x] \in Nat
      /\ r[x] = Refs(lv, vl, h, cs, x)
  BY DEF Sound, Typed, CountsSound
<1>2a. /\ IsFiniteSet(ReferringIn(lv, vl, cs, x))
       /\ Cardinality(ReferringIn(lv, vl, cs, x)) \in Nat
  BY <1>1, ReferringFinite
<1>2. \A l \in (Var \cup lv) \ ClearingIn(cs) : vl[l] = x => l \in ReferringIn(lv, vl, cs, x)
  BY DEF ReferringIn
<1>3. \A l \in (Var \cup lv) \ ClearingIn(cs) : vl[l] = x => Cardinality(ReferringIn(lv, vl, cs, x)) >= 1
  <2>1. ReferringIn(lv, vl, cs, x) # {} => Cardinality(ReferringIn(lv, vl, cs, x)) # 0
    BY <1>2a, FS_EmptySet
  <2>. QED
    BY <1>2, <1>2a, <2>1
<1>4. HeldIn(cs, x) \in Nat
  BY <1>1, PlacesFinite DEF HeldIn, Once, Twice, Stored
<1>5. \A n \in DOMAIN cs : HeldIn(cs, x) >= Weight(cs[n], x) /\ Weight(cs[n], x) \in Nat
  BY <1>1, HeldByOne
<1>6. Hosted(h, x) \in Nat /\ (x \in h => Hosted(h, x) = 1)
  BY DEF Hosted
<1>. HIDE DEF Hosted
<1>7. r[x] = Cardinality(ReferringIn(lv, vl, cs, x)) + Hosted(h, x) + HeldIn(cs, x)
  BY <1>1 DEF Refs
<1>. QED
  BY <1>1, <1>2, <1>2a, <1>3, <1>4, <1>5, <1>6, <1>7

-------------------------------------------------------------------------------
(***************************************************************************)
(* Calls begin and return                                                  *)
(***************************************************************************)

\* What is above a call that is not the innermost.
LEMMA AboveIs ==
  ASSUME NEW vl, NEW cs \in Seq(Frames), Nested(vl, cs), NEW n \in DOMAIN cs, n # Len(cs)
  PROVE  n + 1 \in DOMAIN cs /\ On(vl, cs[n], cs[n + 1])
<1>1. n \in Nat /\ n + 1 \in DOMAIN cs /\ n + 1 > 1 /\ (n + 1) - 1 = n
  BY CallsParts
<1>. QED
  BY <1>1 DEF Nested

LEMMA ClearingPush ==
  ASSUME NEW cs \in Seq(Frames), NEW f \in Frames
  PROVE  ClearingIn(Append(cs, f)) = ClearingIn(cs) \cup (IF f.op \in Clears THEN {f.loc} ELSE {})
<1>. DEFINE N == Len(cs) + 1
            ds == Append(cs, f)
<1>1. /\ DOMAIN ds = 1..N /\ DOMAIN cs = 1..Len(cs) /\ Len(cs) \in Nat
      /\ \A n \in DOMAIN cs : ds[n] = cs[n]
      /\ ds[N] = f
  BY AppendParts
<1>. HIDE DEF ds
<1>2. DOMAIN ds = DOMAIN cs \cup {N} /\ N \notin DOMAIN cs
  BY <1>1
<1>. HIDE DEF N
<1>3. ClearingIn(ds) = ClearingIn(cs) \cup (IF f.op \in Clears THEN {f.loc} ELSE {})
  BY <1>1, <1>2 DEF ClearingIn
<1>. QED
  BY <1>3 DEF ds

\* A call more, which is made by the innermost one or by the host.
LEMMA NestedPush ==
  ASSUME NEW vl, NEW cs \in Seq(Frames), Nested(vl, cs), NEW f \in Frames, Formed(f),
         IF cs = <<>> THEN Bottom(f) ELSE On(vl, cs[Len(cs)], f)
  PROVE  Nested(vl, Append(cs, f))
<1>. DEFINE N == Len(cs) + 1
            ds == Append(cs, f)
<1>1. /\ DOMAIN ds = 1..N /\ DOMAIN cs = 1..Len(cs) /\ Len(cs) \in Nat
      /\ \A n \in DOMAIN cs : ds[n] = cs[n]
      /\ ds[N] = f
  BY AppendParts
<1>2. cs = <<>> <=> Len(cs) = 0
  BY EmptySeq
<1>. HIDE DEF ds
<1>3. ASSUME NEW n \in DOMAIN ds
      PROVE  Formed(ds[n]) /\ (n = 1 => Bottom(ds[n])) /\ (n > 1 => On(vl, ds[n - 1], ds[n]))
  <2>1. CASE n = N
    <3>1. n = 1 <=> cs = <<>>
      BY <1>1, <1>2, <2>1
    <3>2. n > 1 => n - 1 = Len(cs) /\ n - 1 \in DOMAIN cs /\ cs # <<>>
      BY <1>1, <1>2, <2>1
    <3>. QED
      BY <1>1, <2>1, <3>1, <3>2
  <2>2. CASE n # N
    <3>1. n \in DOMAIN cs /\ (n > 1 => n - 1 \in DOMAIN cs)
      BY <1>1, <2>2
    <3>. QED
      BY <1>1, <3>1 DEF Nested
  <2>. QED
    BY <2>1, <2>2
<1>. QED
  BY <1>3 DEF Nested, ds

LEMMA ApartPush ==
  ASSUME NEW cs \in Seq(Frames), AllApart(cs), NEW f \in Frames,
         \A n \in DOMAIN cs : Apart(cs[n], f)
  PROVE  AllApart(Append(cs, f))
<1>. DEFINE N == Len(cs) + 1
            ds == Append(cs, f)
<1>1. /\ DOMAIN ds = 1..N /\ DOMAIN cs = 1..Len(cs) /\ Len(cs) \in Nat
      /\ \A n \in DOMAIN cs : ds[n] = cs[n]
      /\ ds[N] = f
  BY AppendParts
<1>. HIDE DEF ds
<1>2. DOMAIN ds = DOMAIN cs \cup {N} /\ N \notin DOMAIN cs
  BY <1>1
<1>. HIDE DEF N
<1>3. \A n \in DOMAIN cs : Apart(f, cs[n])
  BY DEF Apart
<1>4. AllApart(ds)
  BY <1>1, <1>2, <1>3 DEF AllApart
<1>. QED
  BY <1>4 DEF ds

\* A call that places nothing begins; the counts have what it holds.
LEMMA SoundPush ==
  ASSUME NEW lv, NEW vl, NEW r, NEW h, NEW cs, Sound(lv, vl, r, h, cs),
         NEW f \in Frames, Formed(f), f.op \notin Clears, f.obj \in lv \cup {None},
         IF cs = <<>> THEN Bottom(f) ELSE On(vl, cs[Len(cs)], f),
         f.op \in Releases => \A n \in DOMAIN cs : cs[n].op \in Releases => cs[n].obj # f.obj,
         f.op = "clean" => r[f.obj] = 0,
         NEW s \in [Object -> Nat], \A x \in lv : s[x] = r[x] + Weight(f, x),
         Weight(f, f.obj) # 0 => f.obj \notin CleaningIn(cs)
  PROVE  Sound(lv, vl, s, h, Append(cs, f))
<1>. DEFINE ds == Append(cs, f)
            N == Len(cs) + 1
<1>1. Typed(lv, vl, r, h, cs) /\ cs \in Seq(Frames)
  BY DEF Sound, Typed
<1>2. /\ ds \in Seq(Frames) /\ DOMAIN ds = DOMAIN cs \cup {N} /\ DOMAIN cs = 1..Len(cs)
      /\ \A n \in DOMAIN cs : ds[n] = cs[n]
      /\ ds[N] = f
  <2>1. /\ ds \in Seq(Frames) /\ DOMAIN ds = 1..N /\ DOMAIN cs = 1..Len(cs) /\ Len(cs) \in Nat
        /\ \A n \in DOMAIN cs : ds[n] = cs[n]
        /\ ds[N] = f
    BY <1>1, AppendParts
  <2>. QED
    BY <2>1
<1>3. Typed(lv, vl, s, h, ds)
  BY <1>1, <1>2 DEF Typed
<1>4. Nested(vl, ds)
  BY <1>1, NestedPush DEF Sound
<1>5. AllApart(ds)
  <2>1. \A n \in DOMAIN cs : Apart(cs[n], f)
    BY DEF Apart
  <2>. QED
    BY <1>1, <2>1, ApartPush DEF Sound
<1>6. ClearingIn(ds) = ClearingIn(cs)
  BY <1>1, ClearingPush
<1>7. CountsSound(lv, vl, s, h, ds)
  <2>. SUFFICES ASSUME NEW x \in lv PROVE s[x] = Refs(lv, vl, h, ds, x)
    BY DEF CountsSound
  <2>1. r[x] = Refs(lv, vl, h, cs, x) /\ s[x] = r[x] + Weight(f, x)
    BY DEF Sound, CountsSound
  <2>2. ReferringIn(lv, vl, ds, x) = ReferringIn(lv, vl, cs, x)
    BY <1>6 DEF ReferringIn
  <2>3. Cardinality(ReferringIn(lv, vl, cs, x)) \in Nat
    BY <1>1, ReferringFinite DEF Typed
  <2>4. HeldIn(ds, x) = HeldIn(cs, x) + Weight(f, x) /\ HeldIn(cs, x) \in Nat /\ Weight(f, x) \in Nat
    BY <1>1, HeldPush
  <2>5. Hosted(h, x) \in Nat
    BY DEF Hosted
  <2>. HIDE DEF ds
  <2>. QED
    BY <2>1, <2>2, <2>3, <2>4, <2>5 DEF Refs
<1>. HIDE DEF ds, N
<1>8. Unused(s, ds)
  <2>. SUFFICES ASSUME NEW n \in DOMAIN ds, ds[n].op = "clean" PROVE s[ds[n].obj] = 0
    BY DEF Unused
  <2>1. CASE n \in DOMAIN cs
    <3>1. PICK y : y = cs[n].obj
      OBVIOUS
    <3>2. r[y] = 0 /\ y \in CleaningIn(cs)
      BY <1>2, <2>1, <3>1 DEF Sound, Unused, CleaningIn
    <3>3. y \in lv
      <4>1. Formed(cs[n]) /\ cs[n].obj \in lv \cup {None} /\ cs[n].op = "clean"
        BY <1>2, <2>1 DEF Sound, Nested, Alive
      <4>. QED
        BY <3>1, <4>1 DEF Formed, Releases
    <3>4. Weight(f, y) = 0
      BY <3>2, <3>3 DEF Weight, Clears, Formed
    <3>. QED
      BY <1>2, <2>1, <3>1, <3>2, <3>3, <3>4
  <2>2. CASE n = N
    <3>1. f.op = "clean" /\ f.obj \in lv /\ r[f.obj] = 0
      BY <1>2, <2>2 DEF Formed, Releases
    <3>2. Weight(f, f.obj) = 0
      BY <3>1 DEF Weight, Held
    <3>. QED
      BY <1>2, <2>2, <3>1, <3>2
  <2>. QED
    BY <1>2, <2>1, <2>2
<1>9. Alive(lv, vl, ds)
  <2>1. f.loc = None /\ None \notin Object
    BY DEF Formed, None, Object
  <2>2. Alive(lv, vl, cs)
    BY DEF Sound
  <2>. QED
    BY <1>2, <1>6, <2>1, <2>2 DEF Alive
<1>10. Sound(lv, vl, s, h, ds)
  BY <1>3, <1>4, <1>5, <1>7, <1>8, <1>9 DEF Sound
<1>. QED
  BY <1>10 DEF ds

\* What remains when the innermost call has gone.
LEMMA PopParts ==
  ASSUME NEW vl, NEW cs \in Seq(Frames), cs # <<>>, Nested(vl, cs), AllApart(cs)
  PROVE  /\ Front(cs) \in Seq(Frames) /\ cs[Len(cs)] \in Frames
         /\ cs = Append(Front(cs), cs[Len(cs)])
         /\ DOMAIN cs = DOMAIN Front(cs) \cup {Len(cs)} /\ Len(cs) \notin DOMAIN Front(cs)
         /\ \A n \in DOMAIN Front(cs) : n \in DOMAIN cs /\ Front(cs)[n] = cs[n]
         /\ Nested(vl, Front(cs)) /\ AllApart(Front(cs))
         /\ \A x : HeldIn(cs, x) = HeldIn(Front(cs), x) + Weight(cs[Len(cs)], x)
         /\ ClearingIn(cs) = ClearingIn(Front(cs))
                             \cup (IF cs[Len(cs)].op \in Clears THEN {cs[Len(cs)].loc} ELSE {})
<1>. DEFINE ds == Front(cs)
            f == cs[Len(cs)]
<1>1. /\ ds \in Seq(Frames) /\ Len(cs) \in Nat \ {0} /\ DOMAIN cs = 1..Len(cs)
      /\ DOMAIN ds = 1..Len(cs) - 1
      /\ \A n \in DOMAIN ds : ds[n] = cs[n]
  BY FrontParts
<1>2. f \in Frames /\ cs = Append(ds, f)
  BY FrontAndLast
<1>. HIDE DEF ds, f
<1>3. DOMAIN cs = DOMAIN ds \cup {Len(cs)} /\ Len(cs) \notin DOMAIN ds
      /\ \A n \in DOMAIN ds : n \in DOMAIN cs /\ (n > 1 => n - 1 \in DOMAIN ds)
  BY <1>1
<1>4. Nested(vl, ds)
  BY <1>1, <1>3 DEF Nested
<1>5. AllApart(ds)
  BY <1>1, <1>3 DEF AllApart
<1>6. \A x : HeldIn(cs, x) = HeldIn(ds, x) + Weight(f, x)
  BY <1>1, <1>2, HeldPush
<1>7. ClearingIn(cs) = ClearingIn(ds) \cup (IF f.op \in Clears THEN {f.loc} ELSE {})
  BY <1>1, <1>2, ClearingPush
<1>. QED
  BY <1>1, <1>2, <1>3, <1>4, <1>5, <1>6, <1>7 DEF ds, f

\* A call that places nothing returns; the counts lose what it held.
LEMMA SoundPop ==
  ASSUME NEW lv, NEW vl, NEW r, NEW h, NEW cs, Sound(lv, vl, r, h, cs), cs # <<>>,
         cs[Len(cs)].op \notin Clears,
         NEW s \in [Object -> Nat], \A x \in lv : r[x] = s[x] + Weight(cs[Len(cs)], x)
  PROVE  Sound(lv, vl, s, h, Front(cs))
<1>1. /\ Typed(lv, vl, r, h, cs) /\ cs \in Seq(Frames) /\ Nested(vl, cs) /\ AllApart(cs)
      /\ Unused(r, cs) /\ Alive(lv, vl, cs) /\ lv \subseteq Object
  BY DEF Sound, Typed
<1>2a. PICK ds, f : ds = Front(cs) /\ f = cs[Len(cs)]
  OBVIOUS
<1>2. /\ ds = Front(cs) /\ f = cs[Len(cs)] /\ ds \in Seq(Frames) /\ f \in Frames
      /\ \A n \in DOMAIN ds : n \in DOMAIN cs /\ ds[n] = cs[n]
      /\ Nested(vl, ds) /\ AllApart(ds)
      /\ \A x : HeldIn(cs, x) = HeldIn(ds, x) + Weight(f, x)
      /\ ClearingIn(cs) = ClearingIn(ds)
  <2>1. ClearingIn(cs) = ClearingIn(ds) \cup (IF f.op \in Clears THEN {f.loc} ELSE {})
    BY <1>1, <1>2a, PopParts
  <2>2. ClearingIn(cs) = ClearingIn(ds)
    BY <1>2a, <2>1
  <2>3. /\ ds \in Seq(Frames) /\ f \in Frames
        /\ \A n \in DOMAIN ds : n \in DOMAIN cs /\ ds[n] = cs[n]
        /\ Nested(vl, ds) /\ AllApart(ds)
        /\ \A x : HeldIn(cs, x) = HeldIn(ds, x) + Weight(f, x)
    <3>1. /\ Front(cs) \in Seq(Frames) /\ cs[Len(cs)] \in Frames
          /\ \A n \in DOMAIN Front(cs) : n \in DOMAIN cs /\ Front(cs)[n] = cs[n]
          /\ Nested(vl, Front(cs)) /\ AllApart(Front(cs))
      BY <1>1, PopParts
    <3>2. \A x : HeldIn(cs, x) = HeldIn(Front(cs), x) + Weight(cs[Len(cs)], x)
      BY <1>1, PopParts
    <3>. QED
      BY <1>2a, <3>1, <3>2
  <2>. QED
    BY <1>2a, <2>2, <2>3
<1>3. Typed(lv, vl, s, h, ds)
  BY <1>1, <1>2 DEF Typed
<1>4. CountsSound(lv, vl, s, h, ds)
  <2>. SUFFICES ASSUME NEW x \in lv PROVE s[x] = Refs(lv, vl, h, ds, x)
    BY DEF CountsSound
  <2>1. r[x] = Refs(lv, vl, h, cs, x) /\ r[x] = s[x] + Weight(f, x) /\ s[x] \in Nat
    BY <1>1, <1>2 DEF Sound, CountsSound
  <2>2. ReferringIn(lv, vl, ds, x) = ReferringIn(lv, vl, cs, x)
    BY <1>2 DEF ReferringIn
  <2>3. Cardinality(ReferringIn(lv, vl, cs, x)) \in Nat
    BY <1>1, ReferringFinite DEF Typed
  <2>4. HeldIn(cs, x) = HeldIn(ds, x) + Weight(f, x) /\ HeldIn(ds, x) \in Nat /\ Weight(f, x) \in Nat
    BY <1>2, HeldPush
  <2>5. Hosted(h, x) \in Nat
    BY DEF Hosted
  <2>6. PICK a \in Nat, b \in Nat, c \in Nat, w \in Nat :
          /\ a = Cardinality(ReferringIn(lv, vl, cs, x)) /\ b = Hosted(h, x)
          /\ c = HeldIn(ds, x) /\ w = Weight(f, x)
    BY <2>3, <2>4, <2>5
  <2>7. Refs(lv, vl, h, cs, x) = a + b + (c + w) /\ Refs(lv, vl, h, ds, x) = a + b + c
    BY <2>2, <2>4, <2>6 DEF Refs
  <2>8. a + b + (c + w) = s[x] + w /\ s[x] \in Nat
    BY <2>1, <2>6, <2>7
  <2>9. s[x] = a + b + c
    BY <2>8
  <2>. QED
    BY <2>7, <2>9
<1>5. Unused(s, ds)
  <2>. SUFFICES ASSUME NEW n \in DOMAIN ds, ds[n].op = "clean" PROVE s[ds[n].obj] = 0
    BY DEF Unused
  <2>1. PICK y : y = cs[n].obj
    OBVIOUS
  <2>2. r[y] = 0
    BY <1>1, <1>2, <2>1 DEF Unused
  <2>3. y \in lv
    <3>1. Formed(cs[n]) /\ cs[n].obj \in lv \cup {None} /\ cs[n].op = "clean"
      BY <1>1, <1>2 DEF Nested, Alive
    <3>. QED
      BY <2>1, <3>1 DEF Formed, Releases
  <2>4. 0 = s[y] + Weight(f, y) /\ s[y] \in Nat /\ Weight(f, y) \in Nat
    BY <1>1, <1>2, <2>2, <2>3, HeldPush
  <2>. QED
    BY <1>2, <2>1, <2>4
<1>6. Alive(lv, vl, ds)
  BY <1>1, <1>2 DEF Alive
<1>. QED
  BY <1>2, <1>3, <1>4, <1>5, <1>6 DEF Sound

\* A location is going to be cleared: what it holds has lost its reference.
LEMMA SoundClears ==
  ASSUME NEW lv, NEW vl, NEW r, NEW h, NEW cs, Sound(lv, vl, r, h, cs), cs # <<>>,
         NEW f \in Frames, Formed(f), f.op \in Clears, f.obj \in lv \cup {None},
         f.loc \in Var \cup lv, f.loc \notin ClearingIn(cs),
         On(vl, cs[Len(cs)], f),
         NEW s \in [Object -> Nat],
         \A x \in lv : s[x] = r[x] + Weight(f, x) - (IF vl[f.loc] = x THEN 1 ELSE 0),
         Unused(s, cs)
  PROVE  Sound(lv, vl, s, h, Append(cs, f))
<1>. DEFINE ds == Append(cs, f)
            N == Len(cs) + 1
<1>1. /\ Typed(lv, vl, r, h, cs) /\ cs \in Seq(Frames) /\ Nested(vl, cs) /\ AllApart(cs)
      /\ Alive(lv, vl, cs) /\ lv \in SUBSET Object
  BY DEF Sound, Typed
<1>2. /\ ds \in Seq(Frames) /\ DOMAIN ds = DOMAIN cs \cup {N} /\ DOMAIN cs = 1..Len(cs)
      /\ \A n \in DOMAIN cs : ds[n] = cs[n]
      /\ ds[N] = f
  <2>1. /\ ds \in Seq(Frames) /\ DOMAIN ds = 1..N /\ DOMAIN cs = 1..Len(cs) /\ Len(cs) \in Nat
        /\ \A n \in DOMAIN cs : ds[n] = cs[n]
        /\ ds[N] = f
    BY <1>1, AppendParts
  <2>. QED
    BY <2>1
<1>3. Typed(lv, vl, s, h, ds)
  BY <1>1, <1>2 DEF Typed
<1>4. Nested(vl, ds)
  BY <1>1, NestedPush
<1>5. AllApart(ds)
  <2>1. \A n \in DOMAIN cs : cs[n].op \in Clears => cs[n].loc # f.loc
    BY DEF ClearingIn
  <2>2. \A n \in DOMAIN cs : Apart(cs[n], f)
    BY <2>1 DEF Apart, Clears, Releases
  <2>. QED
    BY <1>1, <2>2, ApartPush
<1>6. ClearingIn(ds) = ClearingIn(cs) \cup {f.loc}
  BY <1>1, ClearingPush
<1>7. CountsSound(lv, vl, s, h, ds)
  <2>. SUFFICES ASSUME NEW x \in lv PROVE s[x] = Refs(lv, vl, h, ds, x)
    BY DEF CountsSound
  <2>1. /\ r[x] = Refs(lv, vl, h, cs, x) /\ r[x] \in Nat /\ s[x] \in Nat
        /\ s[x] = r[x] + Weight(f, x) - (IF vl[f.loc] = x THEN 1 ELSE 0)
    BY <1>1 DEF Sound, CountsSound, Typed
  <2>2. /\ ReferringIn(lv, vl, ds, x) = ReferringIn(lv, vl, cs, x) \ {f.loc}
        /\ f.loc \in ReferringIn(lv, vl, cs, x) <=> vl[f.loc] = x
    BY <1>6 DEF ReferringIn
  <2>3. /\ IsFiniteSet(ReferringIn(lv, vl, cs, x))
        /\ Cardinality(ReferringIn(lv, vl, cs, x)) \in Nat
    BY <1>1, ReferringFinite
  <2>4. /\ Cardinality(ReferringIn(lv, vl, ds, x)) =
             Cardinality(ReferringIn(lv, vl, cs, x)) - (IF vl[f.loc] = x THEN 1 ELSE 0)
    <3>1. CASE vl[f.loc] = x
      <4>1. f.loc \in ReferringIn(lv, vl, cs, x)
        BY <2>2, <3>1
      <4>2. Cardinality(ReferringIn(lv, vl, cs, x) \ {f.loc}) = Cardinality(ReferringIn(lv, vl, cs, x)) - 1
        BY <2>3, <4>1, FS_RemoveElement
      <4>. QED
        BY <2>2, <3>1, <4>2
    <3>2. CASE vl[f.loc] # x
      <4>1. ReferringIn(lv, vl, ds, x) = ReferringIn(lv, vl, cs, x)
        BY <2>2, <3>2
      <4>. QED
        BY <2>3, <3>2, <4>1
    <3>. QED
      BY <3>1, <3>2
  <2>5. HeldIn(ds, x) = HeldIn(cs, x) + Weight(f, x) /\ HeldIn(cs, x) \in Nat /\ Weight(f, x) \in Nat
    BY <1>1, HeldPush
  <2>6. Hosted(h, x) \in Nat
    BY DEF Hosted
  <2>. HIDE DEF ds
  <2>. QED
    BY <2>1, <2>3, <2>4, <2>5, <2>6 DEF Refs
<1>. HIDE DEF ds, N
<1>8. Unused(s, ds)
  BY <1>2 DEF Unused, Clears
<1>9. Alive(lv, vl, ds)
  <2>1. f.loc \in Object => f.loc \in lv
    BY ObjectsAssumption, <1>1 DEF Object
  <2>. QED
    BY <1>1, <1>2, <1>6, <2>1 DEF Alive
<1>10. Sound(lv, vl, s, h, ds)
  BY <1>3, <1>4, <1>5, <1>7, <1>8, <1>9 DEF Sound
<1>. QED
  BY <1>10 DEF ds

\* A location gets its new value, or nothing.
LEMMA SoundCleared ==
  ASSUME NEW lv, NEW vl, NEW r, NEW h, NEW cs, Sound(lv, vl, r, h, cs), cs # <<>>,
         NEW f, f = cs[Len(cs)], f.op \in Clears,
         NEW wl \in [Loc -> Object \cup {None}], wl[f.loc] = f.obj,
         \A l \in Loc \ {f.loc} : wl[l] = vl[l],
         NEW s \in [Object -> Nat],
         \A x \in lv : r[x] = s[x] + Placed(f, x)
  PROVE  Sound(lv, wl, s, h, Front(cs))
<1>1. /\ Typed(lv, vl, r, h, cs) /\ cs \in Seq(Frames) /\ Nested(vl, cs) /\ AllApart(cs)
      /\ Unused(r, cs) /\ Alive(lv, vl, cs) /\ lv \in SUBSET Object
  BY DEF Sound, Typed
<1>2. PICK ds :
        /\ ds = Front(cs) /\ ds \in Seq(Frames) /\ f \in Frames
        /\ DOMAIN cs = DOMAIN ds \cup {Len(cs)} /\ Len(cs) \notin DOMAIN ds
        /\ \A n \in DOMAIN ds : n \in DOMAIN cs /\ ds[n] = cs[n]
        /\ Nested(vl, ds) /\ AllApart(ds)
        /\ \A x : HeldIn(cs, x) = HeldIn(ds, x) + Weight(f, x)
        /\ ClearingIn(cs) = ClearingIn(ds) \cup {f.loc}
  <2>1. /\ Front(cs) \in Seq(Frames) /\ f \in Frames
        /\ DOMAIN cs = DOMAIN Front(cs) \cup {Len(cs)} /\ Len(cs) \notin DOMAIN Front(cs)
        /\ \A n \in DOMAIN Front(cs) : n \in DOMAIN cs /\ Front(cs)[n] = cs[n]
        /\ Nested(vl, Front(cs)) /\ AllApart(Front(cs))
        /\ \A x : HeldIn(cs, x) = HeldIn(Front(cs), x) + Weight(f, x)
        /\ ClearingIn(cs) = ClearingIn(Front(cs)) \cup (IF f.op \in Clears THEN {f.loc} ELSE {})
    BY <1>1, PopParts
  <2>. QED
    BY <2>1
<1>2a. DOMAIN ds = 1..Len(ds) /\ Len(ds) \in Nat /\ \A n \in DOMAIN ds : ds[n] \in Frames
  BY <1>2, CallsParts
<1>3. /\ Formed(f) /\ f.obj \in lv \cup {None} /\ f.loc \in Var \cup lv
      /\ \A n \in DOMAIN ds : ds[n].op \in Clears => ds[n].loc # f.loc
  <2>1. Formed(f) /\ f.obj \in lv \cup {None} /\ (f.loc \in Object => f.loc \in lv)
    BY <1>1, <1>2 DEF Nested, Alive
  <2>2. f.loc \in Loc \cup {None} /\ f.loc # None
    BY <1>2, <2>1 DEF Frames, Formed
  <2>3. \A n \in DOMAIN ds : ds[n].op \in Clears => ds[n].loc # f.loc
    <3>. SUFFICES ASSUME NEW n \in DOMAIN ds, ds[n].op \in Clears PROVE ds[n].loc # f.loc
      OBVIOUS
    <3>1. n \in DOMAIN cs /\ Len(cs) \in DOMAIN cs /\ n # Len(cs) /\ ds[n] = cs[n]
      BY <1>2
    <3>2. Apart(cs[n], cs[Len(cs)])
      BY <1>1, <3>1 DEF AllApart
    <3>. QED
      BY <3>1, <3>2 DEF Apart
  <2>. QED
    BY <2>1, <2>2, <2>3 DEF Loc
<1>4. /\ wl \in [Loc -> Object \cup {None}]
      /\ \A l \in Loc : wl[l] = IF l = f.loc THEN f.obj ELSE vl[l]
  BY <1>1, <1>3 DEF Typed
<1>5. Typed(lv, wl, s, h, ds)
  BY <1>1, <1>2, <1>4 DEF Typed
<1>6. Nested(wl, ds)
  <2>. SUFFICES ASSUME NEW n \in DOMAIN ds
                PROVE  Formed(ds[n]) /\ (n = 1 => Bottom(ds[n])) /\ (n > 1 => On(wl, ds[n - 1], ds[n]))
    BY DEF Nested
  <2>1. Formed(ds[n]) /\ (n = 1 => Bottom(ds[n])) /\ (n > 1 => On(vl, ds[n - 1], ds[n]))
    BY <1>2 DEF Nested
  <2>2. ASSUME n > 1, ds[n - 1].op \in Clears PROVE wl[ds[n - 1].loc] = vl[ds[n - 1].loc]
    <3>1. n - 1 \in DOMAIN ds
      BY <1>2a, <2>2
    <3>2. ds[n - 1].loc # f.loc /\ ds[n - 1].loc \in Loc
      <4>1. ds[n - 1] \in Frames /\ Formed(ds[n - 1])
        BY <1>2, <1>2a, <3>1 DEF Nested
      <4>. QED
        BY <1>3, <2>2, <3>1, <4>1 DEF Frames, Formed
    <3>. QED
      BY <1>4, <3>2
  <2>. QED
    BY <2>1, <2>2 DEF On
<1>7. CountsSound(lv, wl, s, h, ds)
  <2>. SUFFICES ASSUME NEW x \in lv PROVE s[x] = Refs(lv, wl, h, ds, x)
    BY DEF CountsSound
  <2>1. /\ r[x] = Refs(lv, vl, h, cs, x) /\ r[x] \in Nat /\ s[x] \in Nat
        /\ r[x] = s[x] + (IF f.op = "store" /\ f.loc = x THEN 1 ELSE 0)
    BY <1>1 DEF Sound, CountsSound, Typed, Placed
  <2>2. /\ ReferringIn(lv, wl, ds, x) =
             ReferringIn(lv, vl, cs, x) \cup (IF f.obj = x THEN {f.loc} ELSE {})
        /\ f.loc \notin ReferringIn(lv, vl, cs, x)
    <3>1. f.loc \notin ClearingIn(ds)
      BY <1>3 DEF ClearingIn
    <3>2. \A l \in Var \cup lv : l \in Loc
      BY <1>1 DEF Loc
    <3>3. f.loc \in ClearingIn(cs) /\ f.loc \in Var \cup lv
      BY <1>2, <1>3
    <3>4. ASSUME NEW l
          PROVE  l \in ReferringIn(lv, wl, ds, x) <=>
                   l \in ReferringIn(lv, vl, cs, x) \/ (l = f.loc /\ f.obj = x)
      <4>1. CASE l = f.loc
        BY <1>4, <3>1, <3>2, <3>3, <4>1 DEF ReferringIn
      <4>2. CASE l # f.loc
        BY <1>2, <1>4, <3>2, <4>2 DEF ReferringIn
      <4>. QED
        BY <4>1, <4>2
    <3>5. f.loc \notin ReferringIn(lv, vl, cs, x)
      BY <3>3 DEF ReferringIn
    <3>. QED
      BY <3>4, <3>5
  <2>3. /\ IsFiniteSet(ReferringIn(lv, vl, cs, x))
        /\ Cardinality(ReferringIn(lv, vl, cs, x)) \in Nat
    BY <1>1, ReferringFinite
  <2>4. /\ Cardinality(ReferringIn(lv, wl, ds, x)) =
             Cardinality(ReferringIn(lv, vl, cs, x)) + (IF f.obj = x THEN 1 ELSE 0)
    <3>1. CASE f.obj = x
      <4>1. Cardinality(ReferringIn(lv, vl, cs, x) \cup {f.loc}) = Cardinality(ReferringIn(lv, vl, cs, x)) + 1
        BY <2>2, <2>3, FS_AddElement
      <4>. QED
        BY <2>2, <3>1, <4>1
    <3>2. CASE f.obj # x
      <4>1. ReferringIn(lv, wl, ds, x) = ReferringIn(lv, vl, cs, x)
        BY <2>2, <3>2
      <4>. QED
        BY <2>3, <3>2, <4>1
    <3>. QED
      BY <3>1, <3>2
  <2>5. HeldIn(cs, x) = HeldIn(ds, x) + Weight(f, x) /\ HeldIn(ds, x) \in Nat
    BY <1>2, HeldPush
  <2>6. Weight(f, x) = (IF f.obj = x THEN 1 ELSE 0) + (IF f.op = "store" /\ f.loc = x THEN 1 ELSE 0)
    <3>1. f.op = "store" => Held(f) = 1
      BY DEF Held
    <3>2. f.op = "clear" => f.obj # x
      BY <1>1, <1>3 DEF Formed, None, Object
    <3>. QED
      BY <3>1, <3>2 DEF Weight, Clears
  <2>7. Hosted(h, x) \in Nat
    BY DEF Hosted
  <2>8. PICK a \in Nat, b \in Nat, c \in Nat :
          /\ a = Cardinality(ReferringIn(lv, vl, cs, x)) /\ b = Hosted(h, x)
          /\ c = HeldIn(ds, x)
    BY <2>3, <2>5, <2>7
  <2>9. /\ Refs(lv, vl, h, cs, x) = a + b + (c + Weight(f, x))
        /\ Refs(lv, wl, h, ds, x) = (a + (IF f.obj = x THEN 1 ELSE 0)) + b + c
    BY <2>4, <2>5, <2>8 DEF Refs
  <2>10. PICK d \in {0, 1}, e \in {0, 1} :
           /\ d = (IF f.obj = x THEN 1 ELSE 0)
           /\ e = (IF f.op = "store" /\ f.loc = x THEN 1 ELSE 0)
    OBVIOUS
  <2>11. a + b + (c + (d + e)) = s[x] + e /\ s[x] \in Nat
    BY <2>1, <2>6, <2>9, <2>10
  <2>12. s[x] = (a + d) + b + c
    BY <2>11
  <2>. QED
    BY <2>9, <2>10, <2>12
<1>8. Unused(s, ds)
  <2>. SUFFICES ASSUME NEW n \in DOMAIN ds, ds[n].op = "clean" PROVE s[ds[n].obj] = 0
    BY DEF Unused
  <2>1. PICK y : y = cs[n].obj
    OBVIOUS
  <2>2. r[y] = 0
    BY <1>1, <1>2, <2>1 DEF Unused
  <2>3. y \in lv
    <3>1. Formed(cs[n]) /\ cs[n].obj \in lv \cup {None} /\ cs[n].op = "clean"
      BY <1>1, <1>2 DEF Nested, Alive
    <3>. QED
      BY <2>1, <3>1 DEF Formed, Releases
  <2>4. s[y] \in Nat /\ 0 = s[y] + (IF f.op = "store" /\ f.loc = y THEN 1 ELSE 0)
    BY <1>1, <2>2, <2>3 DEF Placed
  <2>5. ds[n].obj = y
    BY <1>2, <2>1
  <2>. QED
    BY <2>4, <2>5
<1>9. Alive(lv, wl, ds)
  <2>1. \A l \in Var \cup lv : l \in Loc
    BY <1>1 DEF Loc
  <2>. QED
    BY <1>1, <1>2, <1>3, <1>4, <2>1 DEF Alive
<1>10. Sound(lv, wl, s, h, ds)
  BY <1>5, <1>6, <1>7, <1>8, <1>9, <1>2 DEF Sound
<1>. QED
  BY <1>2, <1>10

\* What the innermost call is on.
LEMMA BelowIs ==
  ASSUME NEW vl, NEW cs \in Seq(Frames), cs # <<>>, Nested(vl, cs)
  PROVE  /\ Len(Front(cs)) = Len(cs) - 1
         /\ Front(cs) = <<>> <=> Len(cs) = 1
         /\ IF Front(cs) = <<>> THEN Bottom(cs[Len(cs)])
            ELSE /\ Front(cs)[Len(Front(cs))] = cs[Len(cs) - 1]
                 /\ On(vl, Front(cs)[Len(Front(cs))], cs[Len(cs)])
<1>1. /\ Front(cs) \in Seq(Frames) /\ Len(cs) \in Nat \ {0} /\ DOMAIN cs = 1..Len(cs)
      /\ DOMAIN Front(cs) = 1..Len(cs) - 1 /\ Len(Front(cs)) = Len(cs) - 1
      /\ \A n \in DOMAIN Front(cs) : Front(cs)[n] = cs[n]
  BY FrontParts
<1>2. PICK ds \in Seq(Frames) : ds = Front(cs)
  BY <1>1
<1>3. ds = <<>> <=> Len(cs) = 1
  <2>1. Len(ds) = Len(cs) - 1
    BY <1>1, <1>2
  <2>2. ds = <<>> <=> Len(ds) = 0
    BY EmptySeq
  <2>. QED
    BY <1>1, <2>1, <2>2
<1>4. CASE ds = <<>>
  BY <1>1, <1>2, <1>3, <1>4 DEF Nested
<1>5. CASE ds # <<>>
  <2>1. Len(cs) > 1 /\ Len(cs) \in DOMAIN cs /\ Len(ds) = Len(cs) - 1 /\ Len(ds) \in DOMAIN ds
    <3>1. Len(cs) # 1 /\ Len(cs) \in Nat \ {0}
      BY <1>1, <1>3, <1>5
    <3>2. DOMAIN ds = 1..Len(cs) - 1 /\ Len(ds) = Len(cs) - 1
      BY <1>1, <1>2
    <3>. QED
      BY <1>1, <3>1, <3>2
  <2>2. On(vl, cs[Len(cs) - 1], cs[Len(cs)])
    BY <2>1 DEF Nested
  <2>3. ds[Len(ds)] = cs[Len(cs) - 1]
    BY <1>1, <1>2, <2>1
  <2>. QED
    BY <1>1, <1>2, <1>3, <1>5, <2>2, <2>3
<1>. QED
  BY <1>4, <1>5

\* The last reference is gone, and the object is released.
LEMMA SoundRelease ==
  ASSUME NEW lv, NEW vl, NEW r, NEW h, NEW cs, Sound(lv, vl, r, h, cs),
         NEW x \in lv, r[x] = 0, x \notin CleaningIn(cs),
         cs # <<>> => /\ cs[Len(cs)].op # "release"
                      /\ On(vl, cs[Len(cs)], Call("release", x))
  PROVE  Sound(lv, vl, r, h, Append(cs, Call("release", x)))
<1>. DEFINE f == Call("release", x)
<1>1. /\ cs \in Seq(Frames) /\ Nested(vl, cs) /\ r \in [Object -> Nat] /\ lv \subseteq Object
      /\ Len(cs) \in Nat /\ DOMAIN cs = 1..Len(cs)
  BY CallsParts DEF Sound, Typed
<1>2. /\ f \in Frames /\ Formed(f) /\ f.op = "release" /\ f.obj = x /\ x # None
      /\ \A y : Weight(f, y) = 0
  BY <1>1 DEF Call, Frame, Frames, Ops, Formed, Clears, Releases, None, Object, Weight, Held
<1>3. ASSUME NEW n \in DOMAIN cs, cs[n].op \in Releases, cs[n].obj = x PROVE FALSE
  <2>1. cs[n].op = "release" /\ n # Len(cs)
    <3>1. cs[n].op # "clean"
      BY <1>3 DEF CleaningIn
    <3>2. n = Len(cs) => cs # <<>>
      BY <1>1
    <3>. QED
      BY <1>3, <3>1, <3>2 DEF Releases
  <2>2. n + 1 \in DOMAIN cs /\ On(vl, cs[n], cs[n + 1])
    BY <1>1, <2>1, AboveIs
  <2>3. cs[n + 1].op = "terminate" /\ cs[n + 1].obj = x
    BY <1>3, <2>1, <2>2 DEF On, Scripts, Clears
  <2>4. Weight(cs[n + 1], x) = 2
    BY <2>3 DEF Weight, Held
  <2>. QED
    BY <2>2, <2>4, CountedRef
<1>4. IF cs = <<>> THEN Bottom(f) ELSE On(vl, cs[Len(cs)], f)
  BY <1>2 DEF Bottom, Releases
<1>5. \A y \in lv : r[y] = r[y] + Weight(f, y)
  BY <1>1, <1>2
<1>. HIDE DEF f
<1>6. Sound(lv, vl, r, h, Append(cs, f))
  BY <1>1, <1>2, <1>3, <1>4, <1>5, SoundPush DEF Clears
<1>. QED
  BY <1>6 DEF f

LEMMA ReleasedIs ==
  ASSUME NEW cs \in Seq(Frames), NEW r, NEW x \in Object \cup {None}
  PROVE  cs \o Released(r, x) =
           IF x # None /\ r[x] = 1 THEN Append(cs, Call("release", x)) ELSE cs
<1>1. Call("release", x) \in Frames
  BY DEF Call, Frame, Frames, Ops
<1>2. cs \o <<>> = cs /\ cs \o <<Call("release", x)>> = Append(cs, Call("release", x))
  BY <1>1
<1>. QED
  BY <1>2 DEF Released

\* A reference to x is given up: the object is released if it was the last.
LEMMA SoundReleased ==
  ASSUME NEW lv, NEW vl, NEW r, NEW h, NEW cs, NEW x \in lv \cup {None},
         Sound(lv, vl, Counted(r, x, -1), h, cs), r \in [Object -> Int],
         x \notin CleaningIn(cs),
         x # None /\ cs # <<>> => /\ cs[Len(cs)].op # "release"
                                  /\ On(vl, cs[Len(cs)], Call("release", x))
  PROVE  Sound(lv, vl, Counted(r, x, -1), h, cs \o Released(r, x))
<1>1. cs \in Seq(Frames) /\ x \in Object \cup {None}
  BY DEF Sound, Typed
<1>2. CASE x # None /\ r[x] = 1
  <2>1. PICK s : s = Counted(r, x, -1)
    OBVIOUS
  <2>2. s[x] = 0 /\ x \in lv
    BY <1>1, <1>2, <2>1 DEF Counted
  <2>3. cs # <<>> => /\ cs[Len(cs)].op # "release"
                     /\ On(vl, cs[Len(cs)], Call("release", x))
    BY <1>2
  <2>4. Sound(lv, vl, s, h, cs)
    BY <2>1
  <2>5. Sound(lv, vl, s, h, Append(cs, Call("release", x)))
    BY <2>2, <2>3, <2>4, SoundRelease
  <2>6. cs \o Released(r, x) = Append(cs, Call("release", x))
    BY <1>1, <1>2, ReleasedIs
  <2>. QED
    BY <2>1, <2>5, <2>6
<1>3. CASE ~(x # None /\ r[x] = 1)
  BY <1>1, <1>3, ReleasedIs
<1>. QED
  BY <1>2, <1>3

\* What a script can reach through a location is there, and counted, unless it is
\* being taken apart.
LEMMA Reached ==
  ASSUME NEW lv, NEW vl, NEW r, NEW h, NEW cs, Sound(lv, vl, r, h, cs), cs # <<>>,
         cs[Len(cs)].op \in Scripts,
         NEW l \in Var \cup lv, vl[l] # None, vl[l] \notin CleaningIn(cs)
  PROVE  vl[l] \in lv /\ r[vl[l]] >= 1
<1>1. /\ cs \in Seq(Frames) /\ Nested(vl, cs) /\ Alive(lv, vl, cs)
      /\ Len(cs) \in Nat /\ DOMAIN cs = 1..Len(cs)
  BY CallsParts DEF Sound, Typed
<1>2. CASE l \notin ClearingIn(cs)
  <2>1. vl[l] \in lv
    BY <1>1, <1>2 DEF Alive
  <2>. QED
    BY <1>2, <2>1, CountedRef
<1>3. CASE l \in ClearingIn(cs)
  <2>1. PICK n \in DOMAIN cs : cs[n].op \in Clears /\ cs[n].loc = l
    BY <1>3 DEF ClearingIn
  <2>2. n # Len(cs)
    BY <2>1 DEF Scripts, Clears
  <2>3. n + 1 \in DOMAIN cs /\ On(vl, cs[n], cs[n + 1])
    BY <1>1, <2>2, AboveIs
  <2>4. cs[n + 1].op \in Releases /\ cs[n + 1].obj = vl[l]
    BY <2>1, <2>3 DEF On, Scripts, Clears
  <2>5. cs[n + 1].op = "release" /\ n + 1 # Len(cs)
    <3>1. cs[n + 1].op # "clean"
      BY <2>3, <2>4 DEF CleaningIn
    <3>. QED
      BY <2>4, <3>1 DEF Releases, Scripts
  <2>6. (n + 1) + 1 \in DOMAIN cs /\ On(vl, cs[n + 1], cs[(n + 1) + 1])
    BY <1>1, <2>3, <2>5, AboveIs
  <2>7. cs[(n + 1) + 1].op = "terminate" /\ cs[(n + 1) + 1].obj = vl[l]
    BY <2>4, <2>5, <2>6 DEF On, Scripts, Clears
  <2>8. Weight(cs[(n + 1) + 1], vl[l]) = 2
    BY <2>7 DEF Weight, Held
  <2>9. vl[l] \in lv
    BY <1>1, <2>3, <2>4 DEF Alive
  <2>10. r[vl[l]] \in Nat /\ r[vl[l]] >= 2
    BY <2>6, <2>8, <2>9, CountedRef
  <2>. QED
    BY <2>9, <2>10
<1>. QED
  BY <1>2, <1>3

\* The host gets or gives back a reference.
LEMMA SoundHost ==
  ASSUME NEW lv, NEW vl, NEW r, NEW h, NEW cs, Sound(lv, vl, r, h, cs),
         NEW g \in SUBSET lv, NEW s \in [Object -> Nat], Unused(s, cs),
         \A x \in lv : s[x] + Hosted(h, x) = r[x] + Hosted(g, x)
  PROVE  Sound(lv, vl, s, g, cs)
<1>1. CountsSound(lv, vl, s, g, cs)
  <2>. SUFFICES ASSUME NEW x \in lv PROVE s[x] = Refs(lv, vl, g, cs, x)
    BY DEF CountsSound
  <2>0. lv \in SUBSET Object /\ cs \in Seq(Frames) /\ s[x] \in Nat
    BY DEF Sound, Typed
  <2>1. r[x] = Refs(lv, vl, h, cs, x) /\ s[x] + Hosted(h, x) = r[x] + Hosted(g, x)
    BY DEF Sound, CountsSound
  <2>2. Cardinality(ReferringIn(lv, vl, cs, x)) \in Nat
    BY <2>0, ReferringFinite
  <2>3. HeldIn(cs, x) \in Nat
    BY <2>0, PlacesFinite DEF HeldIn, Once, Twice, Stored
  <2>4. PICK a \in Nat, b \in Nat, c \in Nat, d \in Nat :
          /\ a = Cardinality(ReferringIn(lv, vl, cs, x)) /\ b = Hosted(h, x)
          /\ c = HeldIn(cs, x) /\ d = Hosted(g, x)
    BY <2>2, <2>3 DEF Hosted
  <2>5. Refs(lv, vl, h, cs, x) = a + b + c /\ Refs(lv, vl, g, cs, x) = a + d + c
    BY <2>4 DEF Refs
  <2>6. s[x] + b = a + b + c + d
    BY <2>1, <2>4, <2>5
  <2>7. s[x] = a + d + c
    BY <2>0, <2>6
  <2>. QED
    BY <2>5, <2>7
<1>. QED
  BY <1>1 DEF Sound, Typed

\* An object is made; nothing refers to it yet.
LEMMA SoundGrows ==
  ASSUME NEW lv, NEW vl, NEW r, NEW h, NEW cs, Sound(lv, vl, r, h, cs),
         NEW x \in Object, x \notin lv, vl[x] = None
  PROVE  Sound(lv \cup {x}, vl, [r EXCEPT ![x] = 0], h, cs)
<1>. DEFINE mv == lv \cup {x}
            s == [r EXCEPT ![x] = 0]
<1>1. /\ Typed(lv, vl, r, h, cs) /\ cs \in Seq(Frames) /\ Nested(vl, cs) /\ AllApart(cs)
      /\ Unused(r, cs) /\ Alive(lv, vl, cs) /\ lv \in SUBSET Object /\ h \in SUBSET lv
  BY DEF Sound, Typed
<1>2. Typed(mv, vl, s, h, cs)
  BY <1>1 DEF Typed
<1>3. s \in [Object -> Nat] /\ s[x] = 0 /\ \A y \in lv : s[y] = r[y]
  BY <1>1 DEF Typed
<1>4. x # None /\ x \in mv /\ \A l \in Var \cup mv : l = x \/ l \in Var \cup lv
  BY DEF None, Object
<1>. HIDE DEF s
<1>5. CountsSound(mv, vl, s, h, cs)
  <2>. SUFFICES ASSUME NEW y \in mv PROVE s[y] = Refs(mv, vl, h, cs, y)
    BY DEF CountsSound
  <2>1. ReferringIn(mv, vl, cs, y) = ReferringIn(lv, vl, cs, y)
    <3>1. y # None
      BY <1>1 DEF None, Object
    <3>. QED
      BY <3>1 DEF ReferringIn
  <2>2. CASE y # x
    <3>1. s[y] = r[y] /\ r[y] = Refs(lv, vl, h, cs, y)
      BY <1>3, <2>2 DEF Sound, CountsSound
    <3>. QED
      BY <2>1, <3>1 DEF Refs
  <2>3. CASE y = x
    <3>1. ReferringIn(lv, vl, cs, x) = {}
      BY <1>1, <1>4 DEF ReferringIn, Alive
    <3>2. Hosted(h, x) = 0
      BY <1>1 DEF Hosted
    <3>3. \A n \in DOMAIN cs : cs[n].obj # x /\ cs[n].loc # x
      BY <1>1, <1>4 DEF Alive
    <3>4. Once(cs, x) = {} /\ Twice(cs, x) = {} /\ Stored(cs, x) = {}
      BY <3>3 DEF Once, Twice, Stored
    <3>5. Cardinality({}) = 0
      BY FS_EmptySet
    <3>6. HeldIn(cs, x) = 0
      BY <3>4, <3>5 DEF HeldIn
    <3>7. Refs(mv, vl, h, cs, x) = 0
      BY <2>1, <2>3, <3>1, <3>2, <3>5, <3>6 DEF Refs
    <3>. QED
      BY <1>3, <2>3, <3>7
  <2>. QED
    BY <2>2, <2>3
<1>6. Unused(s, cs)
  <2>. SUFFICES ASSUME NEW n \in DOMAIN cs, cs[n].op = "clean" PROVE s[cs[n].obj] = 0
    BY DEF Unused
  <2>1. cs[n].obj \in lv
    <3>1. Formed(cs[n]) /\ cs[n].obj \in lv \cup {None}
      BY <1>1 DEF Nested, Alive
    <3>. QED
      BY <3>1 DEF Formed, Releases
  <2>. QED
    BY <1>1, <1>3, <2>1 DEF Unused
<1>7. Alive(mv, vl, cs)
  BY <1>1, <1>4 DEF Alive
<1>8. Sound(mv, vl, s, h, cs)
  BY <1>1, <1>2, <1>5, <1>6, <1>7 DEF Sound
<1>. QED
  BY <1>8 DEF s

\* No call is about an object that has no references, but those that release it.
LEMMA Untouched ==
  ASSUME NEW lv, NEW vl, NEW r, NEW h, NEW cs, Sound(lv, vl, r, h, cs),
         NEW x \in lv, r[x] = 0,
         \A n \in DOMAIN cs : cs[n].op \in Releases => cs[n].obj # x
  PROVE  /\ \A n \in DOMAIN cs : /\ cs[n].op # "collect" => cs[n].obj # x
                                 /\ cs[n].loc # x
         /\ x \notin ClearingIn(cs)
<1>1. /\ Typed(lv, vl, r, h, cs) /\ cs \in Seq(Frames) /\ Nested(vl, cs) /\ AllApart(cs)
      /\ Unused(r, cs) /\ Alive(lv, vl, cs) /\ lv \in SUBSET Object
      /\ Len(cs) \in Nat /\ DOMAIN cs = 1..Len(cs)
  BY CallsParts DEF Sound, Typed
<1>2. x # None /\ x \in Object
  BY <1>1 DEF None, Object
<1>3. \A n \in DOMAIN cs : 0 >= Weight(cs[n], x)
  BY CountedRef
<1>4. ASSUME NEW n \in DOMAIN cs
      PROVE  /\ cs[n].op # "collect" => cs[n].obj # x
             /\ cs[n].loc # x
  <2>1. cs[n] \in Frames /\ Formed(cs[n]) /\ 0 >= Weight(cs[n], x)
    BY <1>1, <1>3, CallsParts DEF Nested
  <2>2. ASSUME NEW f \in Frames, 0 >= Weight(f, x)
        PROVE  /\ f.op \in {"initialize", "terminate", "store", "detach"} => f.obj # x
               /\ f.op = "store" => f.loc # x
    BY <2>2 DEF Weight, Held
  <2>3. /\ cs[n].op \in {"initialize", "terminate", "store", "detach"} => cs[n].obj # x
        /\ cs[n].op = "store" => cs[n].loc # x
    BY <2>1, <2>2
  <2>4. cs[n].op # "collect" => cs[n].obj # x
    BY <1>2, <2>1, <2>3 DEF Formed, Releases, Frames, Ops
  <2>5. ASSUME cs[n].op = "clear", cs[n].loc = x PROVE FALSE
    <3>1. n > 1 /\ On(vl, cs[n - 1], cs[n])
      BY <1>1, <2>5 DEF Nested, Bottom, Releases
    <3>2. n - 1 \in DOMAIN cs
      BY <1>1, <3>1
    <3>3. cs[n - 1] \in Frames /\ 0 >= Weight(cs[n - 1], x)
      BY <1>1, <1>3, <3>2, CallsParts
    <3>4. cs[n - 1].op = "detach" => cs[n - 1].obj # x
      BY <2>2, <3>3
    <3>5. cs[n - 1].op = "clean" => cs[n - 1].obj # x
      BY <3>2 DEF Releases
    <3>6. x \notin Var
      BY <1>2, ObjectsAssumption DEF Object
    <3>. QED
      BY <2>5, <3>1, <3>4, <3>5, <3>6 DEF On, Scripts, Clears, Releases
  <2>. QED
    BY <1>2, <2>1, <2>3, <2>4, <2>5 DEF Formed, Clears
<1>. QED
  BY <1>4 DEF ClearingIn

\* An object without references that no call is about any more can be freed.
LEMMA SoundShrinks ==
  ASSUME NEW lv, NEW vl, NEW r, NEW h, NEW cs, Sound(lv, vl, r, h, cs),
         NEW x \in lv, r[x] = 0, vl[x] = None,
         \A n \in DOMAIN cs : cs[n].op \in Releases \cup {"collect"} => cs[n].obj # x
  PROVE  Sound(lv \ {x}, vl, r, h, cs)
<1>. DEFINE mv == lv \ {x}
<1>1. /\ Typed(lv, vl, r, h, cs) /\ cs \in Seq(Frames) /\ Nested(vl, cs) /\ AllApart(cs)
      /\ Unused(r, cs) /\ Alive(lv, vl, cs) /\ lv \in SUBSET Object /\ h \in SUBSET lv
      /\ Len(cs) \in Nat /\ DOMAIN cs = 1..Len(cs)
  BY CallsParts DEF Sound, Typed
<1>2. x # None /\ x \in Object
  BY <1>1 DEF None, Object
<1>3. /\ \A l \in (Var \cup lv) \ ClearingIn(cs) : vl[l] # x
      /\ \A n \in DOMAIN cs : 0 >= Weight(cs[n], x)
      /\ x \notin h
  BY CountedRef
<1>4. ASSUME NEW n \in DOMAIN cs
      PROVE  cs[n].obj # x /\ cs[n].loc # x
  BY Untouched
<1>5. Typed(mv, vl, r, h, cs)
  BY <1>1, <1>3 DEF Typed
<1>6. CountsSound(mv, vl, r, h, cs)
  <2>. SUFFICES ASSUME NEW y \in mv PROVE r[y] = Refs(mv, vl, h, cs, y)
    BY DEF CountsSound
  <2>1. ReferringIn(mv, vl, cs, y) = ReferringIn(lv, vl, cs, y)
    <3>1. y # None
      BY <1>1 DEF None, Object
    <3>. QED
      BY <3>1 DEF ReferringIn
  <2>2. r[y] = Refs(lv, vl, h, cs, y)
    BY DEF Sound, CountsSound
  <2>. QED
    BY <2>1, <2>2 DEF Refs
<1>7. Alive(mv, vl, cs)
  BY <1>1, <1>3, <1>4 DEF Alive
<1>. QED
  BY <1>1, <1>5, <1>6, <1>7 DEF Sound

-------------------------------------------------------------------------------
(***************************************************************************)
(* What actions are made of                                                *)
(***************************************************************************)

LEMMA RangePush ==
  ASSUME NEW cs \in Seq(Frames), NEW f \in Frames
  PROVE  /\ Append(cs, f) \in Seq(Frames) /\ Append(cs, f) # <<>>
         /\ Append(cs, f)[Len(Append(cs, f))] = f
         /\ Len(Append(cs, f)) = Len(cs) + 1
         /\ Range(Append(cs, f)) = Range(cs) \cup {f}
         /\ Front(Append(cs, f)) = cs
<1>. DEFINE N == Len(cs) + 1
            ds == Append(cs, f)
<1>1. /\ ds \in Seq(Frames) /\ DOMAIN ds = 1..N /\ DOMAIN cs = 1..Len(cs) /\ Len(cs) \in Nat
      /\ \A n \in DOMAIN cs : ds[n] = cs[n]
      /\ ds[N] = f /\ Len(ds) = N
  BY AppendParts
<1>2. ds # <<>>
  BY <1>1, EmptySeq
<1>3. Front(ds) = cs
  <2>. HIDE DEF ds
  <2>1. /\ Front(ds) \in Seq(Frames) /\ DOMAIN Front(ds) = 1..Len(ds) - 1
        /\ Len(Front(ds)) = Len(ds) - 1
        /\ \A n \in DOMAIN Front(ds) : Front(ds)[n] = ds[n]
    BY <1>1, <1>2, FrontParts
  <2>2. Len(Front(ds)) = Len(cs)
    BY <1>1, <2>1
  <2>3. \A n \in 1..Len(cs) : Front(ds)[n] = cs[n]
    BY <1>1, <2>1
  <2>. QED
    BY <2>1, <2>2, <2>3, <1>1, SeqEqual
<1>. HIDE DEF ds
<1>4. DOMAIN ds = DOMAIN cs \cup {N}
  BY <1>1
<1>5. Range(ds) = Range(cs) \cup {f}
  BY <1>1, <1>4 DEF Range
<1>. QED
  BY <1>1, <1>2, <1>3, <1>5 DEF ds

LEMMA RangePop ==
  ASSUME NEW cs \in Seq(Frames), cs # <<>>
  PROVE  /\ Range(cs) = Range(Front(cs)) \cup {cs[Len(cs)]}
         /\ Front(cs) \in Seq(Frames) /\ cs[Len(cs)] \in Frames
<1>1. Front(cs) \in Seq(Frames) /\ cs[Len(cs)] \in Frames /\ cs = Append(Front(cs), cs[Len(cs)])
  BY FrontParts, FrontAndLast
<1>. QED
  BY <1>1, RangePush

LEMMA InRange ==
  ASSUME NEW cs \in Seq(Frames)
  PROVE  /\ Range(cs) \subseteq Frames
         /\ \A n \in DOMAIN cs : cs[n] \in Range(cs)
         /\ CleaningIn(cs) = {f.obj : f \in {g \in Range(cs) : g.op = "clean"}}
         /\ ClearingIn(cs) = {f.loc : f \in {g \in Range(cs) : g.op \in Clears}}
BY CallsParts DEF Range, CleaningIn, ClearingIn

\* An object with a reference is not being taken apart.
LEMMA NotCleaning ==
  ASSUME NEW lv, NEW vl, NEW r, NEW h, NEW cs, Sound(lv, vl, r, h, cs),
         NEW x \in lv, r[x] >= 1
  PROVE  x \notin CleaningIn(cs)
BY DEF Sound, Unused, CleaningIn

LEMMA CountedIs ==
  ASSUME NEW r \in [Object -> Int], NEW x \in Object \cup {None}, NEW d \in Int
  PROVE  /\ Counted(r, x, d) \in [Object -> Int]
         /\ \A y \in Object : Counted(r, x, d)[y] = r[y] + (IF y = x THEN d ELSE 0)
<1>1. None \notin Object
  BY DEF None, Object
<1>. QED
  BY <1>1 DEF Counted

\* assign_value in a script.
LEMMA SoundStore ==
  ASSUME NEW lv, NEW vl, NEW r, NEW h, NEW cs, Sound(lv, vl, r, h, cs), cs # <<>>,
         cs[Len(cs)].op \in Scripts,
         NEW l \in Var \cup lv, l \notin ClearingIn(cs),
         NEW new \in lv \cup {None}, new \notin CleaningIn(cs),
         Owner(l) \notin CleaningIn(cs),
         NEW held, held = Counted(Counted(r, new, 1), Owner(l), 1)
  PROVE  /\ Sound(lv, vl, Counted(held, vl[l], -1), h,
                  (cs \o <<Frame("store", new, l)>>) \o Released(held, vl[l]))
         /\ Frame("store", new, l) \in Frames /\ vl[l] \in lv \cup {None}
         /\ cs \o <<Frame("store", new, l)>> = Append(cs, Frame("store", new, l))
<1>. DEFINE f == Frame("store", new, l)
            s == Counted(held, vl[l], -1)
            ds == Append(cs, f)
<1>1. /\ Typed(lv, vl, r, h, cs) /\ cs \in Seq(Frames) /\ Alive(lv, vl, cs)
      /\ lv \in SUBSET Object /\ r \in [Object -> Nat] /\ Unused(r, cs) /\ Nested(vl, cs)
      /\ None \notin Object /\ Object \cap Var = {}
  BY ObjectsAssumption DEF Sound, Typed, None, Object
<1>2. /\ f \in Frames /\ Formed(f) /\ f.op = "store" /\ f.obj = new /\ f.loc = l
      /\ f.op \in Clears /\ f.op # "clean"
  <2>1. l \in Loc /\ l # None
    BY <1>1, ObjectsAssumption DEF Loc, None
  <2>. QED
    BY <1>1, <2>1 DEF Frame, Frames, Ops, Formed, Clears, Releases
<1>3. /\ vl[l] \in lv \cup {None} /\ Owner(l) \in lv \cup {None}
      /\ vl[l] # None => r[vl[l]] >= 1 /\ vl[l] \notin CleaningIn(cs)
  <2>1. vl[l] \in lv \cup {None}
    BY <1>1 DEF Alive
  <2>2. ASSUME vl[l] # None PROVE r[vl[l]] >= 1 /\ vl[l] \notin CleaningIn(cs)
    <3>1. r[vl[l]] >= 1 /\ vl[l] \in lv
      BY <2>1, <2>2, CountedRef
    <3>. QED
      BY <3>1, NotCleaning
  <2>. QED
    BY <1>1, <2>1, <2>2 DEF Owner
<1>4. /\ held \in [Object -> Int] /\ s \in [Object -> Int]
      /\ \A y \in Object : /\ held[y] = r[y] + (IF y = new THEN 1 ELSE 0) + (IF y = Owner(l) THEN 1 ELSE 0)
                           /\ s[y] = held[y] + (IF y = vl[l] THEN -1 ELSE 0)
  <2>. DEFINE some == Counted(r, new, 1)
  <2>0. /\ r \in [Object -> Int] /\ -1 \in Int /\ 1 \in Int
        /\ new \in Object \cup {None} /\ Owner(l) \in Object \cup {None}
        /\ vl[l] \in Object \cup {None}
    BY <1>1, <1>3
  <2>1. /\ some \in [Object -> Int]
        /\ \A y \in Object : some[y] = r[y] + (IF y = new THEN 1 ELSE 0)
    BY <2>0, CountedIs
  <2>1a. held = Counted(some, Owner(l), 1)
    OBVIOUS
  <2>. HIDE DEF some
  <2>1b. PICK o \in Object \cup {None}, v \in Object \cup {None} : o = Owner(l) /\ v = vl[l]
    BY <2>0
  <2>2. /\ held \in [Object -> Int]
        /\ \A y \in Object : held[y] = some[y] + (IF y = o THEN 1 ELSE 0)
    <3>1. held = Counted(some, o, 1)
      BY <2>1a, <2>1b
    <3>2. some \in [Object -> Int] /\ 1 \in Int
      BY <2>1
    <3>3. /\ Counted(some, o, 1) \in [Object -> Int]
          /\ \A y \in Object : Counted(some, o, 1)[y] = some[y] + (IF y = o THEN 1 ELSE 0)
      BY ONLY <3>2, CountedIs, o \in Object \cup {None}
    <3>. QED
      BY <3>1, <3>3
  <2>3. /\ s \in [Object -> Int]
        /\ \A y \in Object : s[y] = held[y] + (IF y = vl[l] THEN -1 ELSE 0)
    <3>1. s = Counted(held, v, -1) /\ v = vl[l]
      BY <2>1b
    <3>2. held \in [Object -> Int] /\ -1 \in Int
      BY <2>2
    <3>3. /\ Counted(held, v, -1) \in [Object -> Int]
          /\ \A y \in Object : Counted(held, v, -1)[y] = held[y] + (IF y = v THEN -1 ELSE 0)
      BY ONLY <3>2, CountedIs, v \in Object \cup {None}
    <3>. QED
      BY <3>1, <3>3
  <2>4. \A y \in Object : held[y] = r[y] + (IF y = new THEN 1 ELSE 0) + (IF y = Owner(l) THEN 1 ELSE 0)
    BY <2>1, <2>1b, <2>2
  <2>. QED
    BY <2>2, <2>3, <2>4
<1>. HIDE DEF s, ds
<1>5. s \in [Object -> Nat]
  <2>. SUFFICES ASSUME NEW y \in Object PROVE s[y] >= 0
    BY <1>4
  <2>1. r[y] \in Nat /\ (y = vl[l] => r[y] >= 1)
    BY <1>1, <1>3
  <2>. QED
    BY <1>4, <2>1
<1>6. \A x \in lv : s[x] = r[x] + Weight(f, x) - (IF vl[l] = x THEN 1 ELSE 0)
  <2>. SUFFICES ASSUME NEW x \in lv
                PROVE  s[x] = r[x] + Weight(f, x) - (IF vl[l] = x THEN 1 ELSE 0)
    OBVIOUS
  <2>1. Weight(f, x) = (IF x = new THEN 1 ELSE 0) + (IF x = Owner(l) THEN 1 ELSE 0)
    <3>1. x = Owner(l) <=> f.loc = x
      BY <1>1, <1>2 DEF Owner
    <3>2. Held(f) = 1
      BY <1>2 DEF Held
    <3>. QED
      BY <1>2, <3>1, <3>2 DEF Weight
  <2>2. r[x] \in Nat /\ x \in Object
    BY <1>1
  <2>. QED
    BY <1>4, <2>1, <2>2
<1>7. Unused(s, cs)
  <2>. SUFFICES ASSUME NEW n \in DOMAIN cs, cs[n].op = "clean" PROVE s[cs[n].obj] = 0
    BY DEF Unused
  <2>1. PICK y : y = cs[n].obj
    OBVIOUS
  <2>2. y \in CleaningIn(cs) /\ r[y] = 0
    BY <1>1, <2>1 DEF CleaningIn, Unused
  <2>3. y \in lv
    <3>1. Formed(cs[n]) /\ cs[n].obj \in lv \cup {None}
      BY <1>1 DEF Nested, Alive
    <3>. QED
      BY <2>1, <3>1 DEF Formed, Releases
  <2>4. y # new /\ y # Owner(l) /\ y # vl[l]
    BY <1>1, <1>3, <2>2, <2>3
  <2>5. y \in Object
    BY <1>1, <2>3
  <2>6. held[y] = 0 + 0 + 0 /\ s[y] = held[y] + 0
    BY <1>4, <2>2, <2>4, <2>5
  <2>. QED
    BY <2>1, <2>6
<1>8. On(vl, cs[Len(cs)], f)
  BY <1>2 DEF On
<1>9. Sound(lv, vl, s, h, ds)
  <2>1. f.obj \in lv \cup {None} /\ f.loc \in Var \cup lv /\ f.loc \notin ClearingIn(cs)
    BY <1>2
  <2>2. \A x \in lv : s[x] = r[x] + Weight(f, x) - (IF vl[f.loc] = x THEN 1 ELSE 0)
    BY <1>2, <1>6
  <2>. HIDE DEF f
  <2>3. Sound(lv, vl, s, h, Append(cs, f))
    BY <1>2, <1>5, <1>7, <1>8, <2>1, <2>2, SoundClears
  <2>. QED
    BY <2>3 DEF ds
<1>10. /\ ds \in Seq(Frames) /\ ds # <<>> /\ ds[Len(ds)] = f
       /\ CleaningIn(ds) = CleaningIn(cs)
  <2>. HIDE DEF f
  <2>1. /\ ds \in Seq(Frames) /\ ds # <<>> /\ ds[Len(ds)] = f
        /\ Range(ds) = Range(cs) \cup {f}
    BY <1>1, <1>2, RangePush DEF ds
  <2>2. CleaningIn(ds) = CleaningIn(cs)
    BY <1>1, <1>2, <2>1, InRange
  <2>. QED
    BY <2>1, <2>2
<1>11. vl[l] # None => On(vl, f, Call("release", vl[l]))
  BY <1>2 DEF On, Call, Frame, Releases
<1>12. vl[l] \notin CleaningIn(ds)
  <2>1. None \notin CleaningIn(cs)
    <3>1. ASSUME NEW n \in DOMAIN cs, cs[n].op = "clean" PROVE cs[n].obj # None
      BY <1>1, <3>1 DEF Nested, Formed, Releases
    <3>. QED
      BY <3>1 DEF CleaningIn
  <2>. QED
    BY <1>3, <1>10, <2>1
<1>13. Sound(lv, vl, Counted(held, vl[l], -1), h, ds \o Released(held, vl[l]))
  <2>1. vl[l] # None /\ ds # <<>> => /\ ds[Len(ds)].op # "release"
                                     /\ On(vl, ds[Len(ds)], Call("release", vl[l]))
    BY <1>2, <1>10, <1>11
  <2>2. Sound(lv, vl, Counted(held, vl[l], -1), h, ds)
    BY <1>9 DEF s
  <2>3. held \in [Object -> Int] /\ vl[l] \in lv \cup {None} /\ vl[l] \notin CleaningIn(ds)
    BY <1>3, <1>4, <1>12
  <2>. HIDE DEF f
  <2>. QED
    BY <2>1, <2>2, <2>3, SoundReleased
<1>14. cs \o <<f>> = ds
  BY <1>1, <1>2 DEF ds
<1>. QED
  BY <1>2, <1>3, <1>13, <1>14 DEF ds

\* VariantClear.
LEMMA SoundClear ==
  ASSUME NEW lv, NEW vl, NEW r, NEW h, NEW cs, Sound(lv, vl, r, h, cs), cs # <<>>,
         NEW l \in Var \cup lv, l \notin ClearingIn(cs),
         On(vl, cs[Len(cs)], Frame("clear", None, l))
  PROVE  /\ Sound(lv, vl, Counted(r, vl[l], -1), h,
                  (cs \o <<Frame("clear", None, l)>>) \o Released(r, vl[l]))
         /\ Frame("clear", None, l) \in Frames /\ vl[l] \in lv \cup {None}
         /\ cs \o <<Frame("clear", None, l)>> = Append(cs, Frame("clear", None, l))
<1>. DEFINE f == Frame("clear", None, l)
            s == Counted(r, vl[l], -1)
            ds == Append(cs, f)
<1>1. /\ Typed(lv, vl, r, h, cs) /\ cs \in Seq(Frames) /\ Alive(lv, vl, cs)
      /\ lv \in SUBSET Object /\ r \in [Object -> Nat] /\ Unused(r, cs) /\ Nested(vl, cs)
      /\ None \notin Object /\ Object \cap Var = {}
  BY ObjectsAssumption DEF Sound, Typed, None, Object
<1>2. /\ f \in Frames /\ Formed(f) /\ f.op = "clear" /\ f.obj = None /\ f.loc = l
      /\ f.op \in Clears /\ f.op # "clean"
  <2>1. l \in Loc /\ l # None
    BY <1>1, ObjectsAssumption DEF Loc, None
  <2>. QED
    BY <1>1, <2>1 DEF Frame, Frames, Ops, Formed, Clears, Releases
<1>3. /\ vl[l] \in lv \cup {None}
      /\ vl[l] # None => r[vl[l]] >= 1 /\ vl[l] \notin CleaningIn(cs)
  <2>1. vl[l] \in lv \cup {None}
    BY <1>1 DEF Alive
  <2>2. ASSUME vl[l] # None PROVE r[vl[l]] >= 1 /\ vl[l] \notin CleaningIn(cs)
    <3>1. r[vl[l]] >= 1 /\ vl[l] \in lv
      BY <2>1, <2>2, CountedRef
    <3>. QED
      BY <3>1, NotCleaning
  <2>. QED
    BY <2>1, <2>2
<1>4. /\ s \in [Object -> Int] /\ r \in [Object -> Int]
      /\ \A y \in Object : s[y] = r[y] + (IF y = vl[l] THEN -1 ELSE 0)
  <2>0. r \in [Object -> Int] /\ -1 \in Int /\ vl[l] \in Object \cup {None}
    BY <1>1, <1>3
  <2>. QED
    BY <2>0, CountedIs
<1>. HIDE DEF s, ds
<1>5. s \in [Object -> Nat]
  <2>. SUFFICES ASSUME NEW y \in Object PROVE s[y] >= 0
    BY <1>4
  <2>1. r[y] \in Nat /\ (y = vl[l] => r[y] >= 1)
    BY <1>1, <1>3
  <2>. QED
    BY <1>4, <2>1
<1>6. \A x \in lv : s[x] = r[x] + Weight(f, x) - (IF vl[f.loc] = x THEN 1 ELSE 0)
  <2>. SUFFICES ASSUME NEW x \in lv
                PROVE  s[x] = r[x] + Weight(f, x) - (IF vl[l] = x THEN 1 ELSE 0)
    BY <1>2
  <2>1. Weight(f, x) = 0
    BY <1>1, <1>2 DEF Weight
  <2>2. r[x] \in Nat /\ x \in Object
    BY <1>1
  <2>. QED
    BY <1>4, <2>1, <2>2
<1>7. Unused(s, cs)
  <2>. SUFFICES ASSUME NEW n \in DOMAIN cs, cs[n].op = "clean" PROVE s[cs[n].obj] = 0
    BY DEF Unused
  <2>1. PICK y : y = cs[n].obj
    OBVIOUS
  <2>2. y \in CleaningIn(cs) /\ r[y] = 0
    BY <1>1, <2>1 DEF CleaningIn, Unused
  <2>3. y \in lv
    <3>1. Formed(cs[n]) /\ cs[n].obj \in lv \cup {None}
      BY <1>1 DEF Nested, Alive
    <3>. QED
      BY <2>1, <3>1 DEF Formed, Releases
  <2>4. y # vl[l] /\ y \in Object
    BY <1>1, <1>3, <2>2, <2>3
  <2>. QED
    BY <1>4, <2>1, <2>2, <2>4
<1>9. Sound(lv, vl, s, h, ds)
  <2>1. f.obj \in lv \cup {None} /\ f.loc \in Var \cup lv /\ f.loc \notin ClearingIn(cs)
    BY <1>2
  <2>. HIDE DEF f
  <2>2. Sound(lv, vl, s, h, Append(cs, f))
    <3>1. On(vl, cs[Len(cs)], f)
      BY DEF f
    <3>. QED
      BY <1>2, <1>5, <1>6, <1>7, <2>1, <3>1, SoundClears
  <2>. QED
    BY <2>2 DEF ds
<1>10. /\ ds \in Seq(Frames) /\ ds # <<>> /\ ds[Len(ds)] = f
       /\ CleaningIn(ds) = CleaningIn(cs)
  <2>. HIDE DEF f
  <2>1. /\ ds \in Seq(Frames) /\ ds # <<>> /\ ds[Len(ds)] = f
        /\ Range(ds) = Range(cs) \cup {f}
    BY <1>1, <1>2, RangePush DEF ds
  <2>2. CleaningIn(ds) = CleaningIn(cs)
    BY <1>1, <1>2, <2>1, InRange
  <2>. QED
    BY <2>1, <2>2
<1>11. vl[l] # None => On(vl, f, Call("release", vl[l]))
  BY <1>2 DEF On, Call, Frame, Releases
<1>12. vl[l] \notin CleaningIn(ds)
  <2>1. None \notin CleaningIn(cs)
    <3>1. ASSUME NEW n \in DOMAIN cs, cs[n].op = "clean" PROVE cs[n].obj # None
      BY <1>1, <3>1 DEF Nested, Formed, Releases
    <3>. QED
      BY <3>1 DEF CleaningIn
  <2>. QED
    BY <1>3, <1>10, <2>1
<1>13. Sound(lv, vl, Counted(r, vl[l], -1), h, ds \o Released(r, vl[l]))
  <2>1. vl[l] # None /\ ds # <<>> => /\ ds[Len(ds)].op # "release"
                                     /\ On(vl, ds[Len(ds)], Call("release", vl[l]))
    BY <1>2, <1>10, <1>11
  <2>2. Sound(lv, vl, Counted(r, vl[l], -1), h, ds)
    BY <1>9 DEF s
  <2>. HIDE DEF f
  <2>. QED
    BY <1>3, <1>4, <1>12, <2>1, <2>2, SoundReleased
<1>14. cs \o <<f>> = ds
  BY <1>1, <1>2 DEF ds
<1>. QED
  BY <1>2, <1>3, <1>13, <1>14 DEF ds

-------------------------------------------------------------------------------
(***************************************************************************)
(* What the actions find                                                   *)
(***************************************************************************)

LEMMA CallStep ==
  ASSUME Sound(live, val, ref, host, calls), ~Idle
  PROVE  /\ calls \in Seq(Frames) /\ Return \in Seq(Frames) /\ Top \in Frames
         /\ calls # <<>> /\ Top = calls[Len(calls)] /\ Return = Front(calls)
         /\ Range(calls) = Range(Return) \cup {Top} /\ Range(Return) \in SUBSET Frames
         /\ Formed(Top) /\ Top.obj \in live \cup {None}
         /\ Top.loc \in Object => Top.loc \in live
         /\ IF Return = <<>> THEN Bottom(Top) ELSE On(val, Return[Len(Return)], Top)
         /\ ClearingIn(calls) = ClearingIn(Return) \cup (IF Top.op \in Clears THEN {Top.loc} ELSE {})
         /\ CleaningIn(calls) = CleaningIn(Return) \cup (IF Top.op = "clean" THEN {Top.obj} ELSE {})
         /\ \A n \in DOMAIN Return : Apart(Return[n], Top)
<1>1. calls \in Seq(Frames) /\ calls # <<>> /\ Nested(val, calls) /\ AllApart(calls) /\ Alive(live, val, calls)
  BY DEF Sound, Typed, Idle
<1>2. Top = calls[Len(calls)] /\ Return = Front(calls)
  BY DEF Top, Return
<1>3. /\ Return \in Seq(Frames) /\ Top \in Frames
      /\ DOMAIN calls = DOMAIN Return \cup {Len(calls)} /\ Len(calls) \notin DOMAIN Return
      /\ \A n \in DOMAIN Return : n \in DOMAIN calls /\ Return[n] = calls[n]
      /\ ClearingIn(calls) = ClearingIn(Return) \cup (IF Top.op \in Clears THEN {Top.loc} ELSE {})
  BY <1>1, <1>2, PopParts
<1>4. Range(calls) = Range(Return) \cup {Top} /\ Range(Return) \in SUBSET Frames
  BY <1>1, <1>2, <1>3, RangePop, InRange
<1>5. Formed(Top) /\ Top.obj \in live \cup {None} /\ (Top.loc \in Object => Top.loc \in live)
  BY <1>1, <1>2, <1>3 DEF Nested, Alive
<1>6. IF Return = <<>> THEN Bottom(Top) ELSE On(val, Return[Len(Return)], Top)
  <2>1. IF Front(calls) = <<>> THEN Bottom(calls[Len(calls)])
        ELSE On(val, Front(calls)[Len(Front(calls))], calls[Len(calls)])
    BY <1>1, BelowIs
  <2>. QED
    BY <1>2, <2>1
<1>7. CleaningIn(calls) = CleaningIn(Return) \cup (IF Top.op = "clean" THEN {Top.obj} ELSE {})
  <2>1. /\ CleaningIn(calls) = {f.obj : f \in {g \in Range(calls) : g.op = "clean"}}
        /\ CleaningIn(Return) = {f.obj : f \in {g \in Range(Return) : g.op = "clean"}}
    BY <1>1, <1>3, InRange
  <2>2. PICK R, t : R = Range(Return) /\ t = Top /\ Range(calls) = R \cup {t}
    BY <1>4
  <2>. QED
    BY <2>1, <2>2
<1>8. \A n \in DOMAIN Return : Apart(Return[n], Top)
  BY <1>2, <1>3, <1>1 DEF AllApart
<1>. QED
  BY <1>1, <1>2, <1>3, <1>4, <1>5, <1>6, <1>7, <1>8

\* The loops of release_script are called by no one else.
LEMMA LoopsBegin ==
  ASSUME Sound(live, val, ref, host, calls), ~Idle
  PROVE  /\ Top.op = "globals" => Return = <<>> /\ Range(Return) = {}
         /\ Top.op = "detach" => \E f \in Frames : /\ f.op = "globals" /\ Return # <<>>
                                                  /\ Return[Len(Return)] = f /\ Range(Return) = {f}
<1>1. Range(<<>>) = {}
  BY DEF Range
<1>2. ASSUME Top.op = "globals" PROVE Return = <<>>
  BY <1>2, CallStep DEF On, Releases
<1>3. ASSUME Top.op = "detach"
      PROVE  \E f \in Frames : /\ f.op = "globals" /\ Return # <<>>
                               /\ Return[Len(Return)] = f /\ Range(Return) = {f}
  <2>1. Return \in Seq(Frames) /\ Return # <<>> /\ On(val, Return[Len(Return)], Top)
    BY <1>3, CallStep DEF Bottom, Releases
  <2>2. PICK f : f = Return[Len(Return)]
    OBVIOUS
  <2>3a. On(val, f, Top)
    BY <2>1, <2>2
  <2>3. f.op = "globals"
    BY <1>3, <2>3a DEF On, Releases
  <2>4. Nested(val, Return)
    <3>1. calls \in Seq(Frames) /\ calls # <<>> /\ Return = Front(calls)
      BY CallStep
    <3>2. Nested(val, calls) /\ AllApart(calls)
      BY DEF Sound
    <3>3. Nested(val, Front(calls))
      BY <3>1, <3>2, PopParts
    <3>. QED
      BY <3>1, <3>3
  <2>5. Front(Return) = <<>>
    BY <2>1, <2>2, <2>3, <2>4, BelowIs DEF On, Releases
  <2>6. Range(Return) = Range(Front(Return)) \cup {f} /\ f \in Frames
    BY <2>1, <2>2, RangePop
  <2>. QED
    BY <1>1, <2>1, <2>2, <2>3, <2>5, <2>6
<1>. QED
  BY <1>1, <1>2, <1>3

LEMMA ReleasedRange ==
  ASSUME NEW cs \in Seq(Frames), NEW r, NEW x \in Object \cup {None}
  PROVE  /\ Range(cs \o Released(r, x)) =
              Range(cs) \cup (IF x # None /\ r[x] = 1 THEN {Call("release", x)} ELSE {})
         /\ cs \o Released(r, x) \in Seq(Frames)
         /\ cs # <<>> => cs \o Released(r, x) # <<>>
         /\ cs \o Released(r, x) = cs
            \/ /\ cs \o Released(r, x) # <<>>
               /\ (cs \o Released(r, x))[Len(cs \o Released(r, x))] = Call("release", x)
<1>1. x # None => Call("release", x) \in Frames
  BY DEF Call, Frame, Frames, Ops
<1>2. cs \o Released(r, x) =
        IF x # None /\ r[x] = 1 THEN Append(cs, Call("release", x)) ELSE cs
  BY ReleasedIs
<1>3. CASE x # None /\ r[x] = 1
  <2>1. PICK f \in Frames : f = Call("release", x)
    BY <1>1, <1>3
  <2>2. cs \o Released(r, x) = Append(cs, f)
    BY <1>2, <1>3, <2>1
  <2>3. /\ Append(cs, f) \in Seq(Frames) /\ Append(cs, f) # <<>>
        /\ Append(cs, f)[Len(Append(cs, f))] = f
        /\ Range(Append(cs, f)) = Range(cs) \cup {f}
    BY RangePush
  <2>. QED
    BY <1>3, <2>1, <2>2, <2>3
<1>4. CASE ~(x # None /\ r[x] = 1)
  BY <1>2, <1>4
<1>. QED
  BY <1>3, <1>4

\* Where no value is being replaced at this moment, what is read is there.
LEMMA Refers ==
  ASSUME NEW lv, NEW vl, NEW r, NEW h, NEW cs, Sound(lv, vl, r, h, cs),
         cs # <<>> => cs[Len(cs)].op \notin Clears,
         NEW l \in Var \cup lv
  PROVE  vl[l] \in lv \cup {None}
<1>1. /\ cs \in Seq(Frames) /\ Nested(vl, cs) /\ Alive(lv, vl, cs)
      /\ Len(cs) \in Nat /\ DOMAIN cs = 1..Len(cs)
  BY CallsParts DEF Sound, Typed
<1>2. CASE l \notin ClearingIn(cs)
  BY <1>1, <1>2 DEF Alive
<1>3. CASE l \in ClearingIn(cs)
  <2>1. PICK n \in DOMAIN cs : cs[n].op \in Clears /\ cs[n].loc = l
    BY <1>3 DEF ClearingIn
  <2>2. n # Len(cs)
    BY <1>1, <2>1
  <2>3. n + 1 \in DOMAIN cs /\ On(vl, cs[n], cs[n + 1])
    BY <1>1, <2>2, AboveIs
  <2>4. cs[n + 1].obj = vl[l]
    BY <2>1, <2>3 DEF On, Scripts, Clears
  <2>. QED
    BY <1>1, <2>3, <2>4 DEF Alive
<1>. QED
  BY <1>2, <1>3

\* What a script can name is there, has references, and is not being taken apart.
LEMMA KnownLive ==
  ASSUME Sound(live, val, ref, host, calls), Careful, Scripting
  PROVE  /\ ~Idle /\ Top.op \in Scripts
         /\ \A k \in Known : k \in live /\ ref[k] >= 1 /\ k \notin CleaningIn(calls)
         /\ \A x \in Values : x \in live \cup {None} /\ x \notin CleaningIn(calls)
         /\ \A l \in Var \cup Known : Settled(l) => /\ l \in Var \cup live /\ l \notin ClearingIn(calls)
                                                    /\ Owner(l) \notin CleaningIn(calls)
         /\ None \notin CleaningIn(calls)
<1>1. ~Idle /\ Top.op \in Scripts
  BY DEF Scripting, Is, Scripts
<1>2. /\ calls \in Seq(Frames) /\ Top = calls[Len(calls)] /\ calls # <<>>
      /\ Formed(Top) /\ Top.obj \in live \cup {None}
  BY <1>1, CallStep
<1>3. Cleaning = CleaningIn(calls) /\ Clearing = ClearingIn(calls)
  BY DEF Cleaning, CleaningIn, Clearing, ClearingIn, Clears
<1>4. None \notin CleaningIn(calls)
  <2>1. ASSUME NEW n \in DOMAIN calls, calls[n].op = "clean" PROVE calls[n].obj # None
    BY <2>1 DEF Sound, Nested, Formed, Releases
  <2>. QED
    BY <2>1 DEF CleaningIn
<1>5. \A l \in Var \cup live : val[l] # None /\ val[l] \notin CleaningIn(calls) =>
        val[l] \in live /\ ref[val[l]] >= 1
  BY <1>1, <1>2, Reached
<1>6. Top.op # "script" => Top.obj \in live /\ ref[Top.obj] >= 1
  <2>. SUFFICES ASSUME Top.op # "script" PROVE Top.obj \in live /\ ref[Top.obj] >= 1
    OBVIOUS
  <2>1. Top.obj \in live /\ Top.op \in {"initialize", "terminate"}
    BY <1>1, <1>2 DEF Formed, Scripts
  <2>2. Weight(Top, Top.obj) = 2
    BY <2>1 DEF Weight, Held
  <2>3. Len(calls) \in DOMAIN calls
    BY <1>2, FrontParts
  <2>. QED
    BY <1>2, <2>1, <2>2, <2>3, CountedRef
<1>7. \A k \in Known : k \in live /\ ref[k] >= 1 /\ k \notin CleaningIn(calls)
  BY <1>3, <1>5, <1>6 DEF Known, Readable
<1>8. \A x \in Values : x \in live \cup {None} /\ x \notin CleaningIn(calls)
  BY <1>3, <1>4, <1>5, <1>7 DEF Values, Readable
<1>9. \A l \in Var \cup Known : Settled(l) => /\ l \in Var \cup live /\ l \notin ClearingIn(calls)
                                              /\ Owner(l) \notin CleaningIn(calls)
  <2>1. Object \cap Var = {}
    BY ObjectsAssumption DEF Object
  <2>. QED
    BY <1>3, <1>4, <1>7, <2>1 DEF Settled, Owner
<1>. QED
  BY <1>1, <1>4, <1>7, <1>8, <1>9

LEMMA LoopsParts ==
  ASSUME NEW c \in Object \cup {None}
  PROVE  LET g == Call("globals", None)
             d == Call("detach", None)
         IN /\ Loops(c) \in Seq(Frames) /\ <<g, d>> \in Seq(Frames) /\ Call("collect", c) \in Frames
            /\ Loops(c) = Append(<<g, d>>, Call("collect", c))
            /\ <<g, d>> = Append(Append(<<>>, g), d)
            /\ g \in Frames /\ d \in Frames
            /\ Range(<<g, d>>) = {g, d}
            /\ Range(Loops(c)) = {g, d, Call("collect", c)}
<1>. DEFINE g == Call("globals", None)
            d == Call("detach", None)
            f == Call("collect", c)
<1>1. g \in Frames /\ d \in Frames /\ f \in Frames
  BY DEF Call, Frame, Frames, Ops
<1>. HIDE DEF g, d, f
<1>2. /\ <<g, d, f>> \in Seq(Frames) /\ <<g, d>> \in Seq(Frames)
      /\ <<g, d, f>> = Append(<<g, d>>, f) /\ <<g, d>> = Append(Append(<<>>, g), d)
  BY <1>1
<1>3. Range(<<g, d>>) = {g, d} /\ Range(<<g, d, f>>) = {g, d, f}
  <2>1. DOMAIN <<g, d>> = 1..2 /\ DOMAIN <<g, d, f>> = 1..3
    OBVIOUS
  <2>2. 1..2 = {1, 2} /\ 1..3 = {1, 2, 3}
    OBVIOUS
  <2>. QED
    BY <2>1, <2>2 DEF Range
<1>4. Loops(c) = <<g, d, f>>
  BY DEF Loops, g, d, f
<1>. QED
  BY <1>1, <1>2, <1>3, <1>4 DEF g, d, f

\* What is under way in the first loop of collect_objects: t is the innermost call.
Stands(lv, r, cs, c, t, below) ==
  \/ /\ cs = Loops(c) /\ t = Call("collect", c)
     /\ below = <<Call("globals", None), Call("detach", None)>>
  \/ \E x \in lv : /\ cs = Append(Loops(c), Call("terminate", x))
                   /\ t = Call("terminate", x) /\ below = Loops(c)
  \/ \E x \in lv : /\ cs = Append(Append(Loops(c), Call("terminate", x)), t)
                   /\ t.op = "store"
                   /\ t.loc \in Object => r[t.loc] >= 2
                   /\ below = Append(Loops(c), Call("terminate", x))
LEMMA WithinParts ==
  ASSUME NEW lv \in SUBSET Object, NEW r, NEW cs, NEW c \in Object \cup {None}, Within(lv, r, cs, c),
         NEW t, t = cs[Len(cs)]
  PROVE  /\ cs # <<>>
         /\ Has(Range(cs), "globals") /\ Has(Range(cs), "detach") /\ Has(Range(cs), "collect")
         /\ Stands(lv, r, cs, c, t, Front(cs))
<1>1. PICK g, d, f : g = Call("globals", None) /\ d = Call("detach", None) /\ f = Call("collect", c)
  OBVIOUS
<1>2. PICK ls : ls = Loops(c)
  OBVIOUS
<1>3. /\ ls \in Seq(Frames) /\ <<g, d>> \in Seq(Frames) /\ f \in Frames
      /\ ls = Append(<<g, d>>, f) /\ Range(ls) = {g, d, f}
  BY <1>1, <1>2, LoopsParts
<1>4. PICK R, b : R = Range(cs) /\ b = Front(cs)
  OBVIOUS
<1>5. cs # <<>> /\ {g, d, f} \subseteq R
      /\ \/ cs = ls /\ t = f /\ b = <<g, d>>
         \/ \E x \in lv : /\ cs = Append(ls, Call("terminate", x))
                          /\ t = Call("terminate", x) /\ b = ls
         \/ \E x \in lv : /\ cs = Append(Append(ls, Call("terminate", x)), t)
                          /\ t.op = "store"
                          /\ t.loc \in Object => r[t.loc] >= 2
                          /\ b = Append(ls, Call("terminate", x))
  <2>1. CASE cs = ls
    <3>1. cs = Append(<<g, d>>, f)
      BY <1>3, <2>1
    <3>2. PICK two \in Seq(Frames) : two = <<g, d>>
      BY <1>3
    <3>3. cs = Append(two, f)
      BY <3>1, <3>2
    <3>4. cs # <<>> /\ t = f /\ b = two
      BY <1>3, <1>4, <3>3, RangePush
    <3>. QED
      BY <1>3, <1>4, <2>1, <3>2, <3>4
  <2>2. CASE \E x \in lv : cs = Append(ls, Call("terminate", x))
    <3>1. PICK x \in lv : cs = Append(ls, Call("terminate", x))
      BY <2>2
    <3>2. PICK e \in Frames : e = Call("terminate", x)
      BY DEF Call, Frame, Frames, Ops
    <3>3. cs = Append(ls, e)
      BY <3>1, <3>2
    <3>4. cs # <<>> /\ t = e /\ b = ls /\ R = Range(ls) \cup {e}
      BY <1>3, <1>4, <3>3, RangePush
    <3>. QED
      BY <1>3, <3>1, <3>2, <3>4
  <2>3. CASE \E x \in lv, e \in Frames :
               /\ cs = Append(Append(ls, Call("terminate", x)), e)
               /\ e.op = "store" /\ (e.loc \in Object => r[e.loc] >= 2)
    <3>1. PICK x \in lv, e \in Frames :
               /\ cs = Append(Append(ls, Call("terminate", x)), e)
               /\ e.op = "store" /\ (e.loc \in Object => r[e.loc] >= 2)
      BY <2>3
    <3>2. PICK u \in Frames : u = Call("terminate", x)
      BY DEF Call, Frame, Frames, Ops
    <3>3. PICK ds : ds = Append(ls, u)
      OBVIOUS
    <3>4. ds \in Seq(Frames) /\ Range(ds) = {g, d, f} \cup {u}
      BY <1>3, <3>3, RangePush
    <3>5. cs = Append(ds, e)
      BY <3>1, <3>2, <3>3
    <3>6. cs # <<>> /\ t = e /\ b = ds /\ R = Range(ds) \cup {e}
      BY <1>4, <3>4, <3>5, RangePush
    <3>. QED
      BY <3>1, <3>2, <3>3, <3>4, <3>6
  <2>. QED
    BY <1>2, <2>1, <2>2, <2>3 DEF Within
<1>6. Has(R, "globals") /\ Has(R, "detach") /\ Has(R, "collect")
  BY <1>1, <1>5 DEF Has, Call, Frame
<1>7. Stands(lv, r, cs, c, t, b)
  BY <1>1, <1>2, <1>5 DEF Stands
<1>. QED
  BY <1>4, <1>5, <1>6, <1>7

LEMMA Collects ==
  ASSUME Sound(live, val, ref, host, calls), CollectSound, Has(Range(calls), "collect")
  PROVE  /\ ~Idle /\ closed /\ linked = live /\ live \subseteq desc
         /\ Has(Range(calls), "globals") /\ Has(Range(calls), "detach")
         /\ \E c \in linked \cup {None} :
              /\ c \in Object \cup {None}
              /\ \A y \in linked : c = None \/ y < c => y \in terminator_ran
              /\ Stands(live, ref, calls, c, Top, Return)
<1>1. PICK c \in linked \cup {None} :
        /\ \A y \in linked : c = None \/ y < c => y \in terminator_ran
        /\ Within(live, ref, calls, c)
  BY DEF CollectSound
<1>2. closed /\ linked = live /\ live \subseteq desc
  BY DEF CollectSound
<1>3. live \in SUBSET Object /\ c \in Object \cup {None}
  BY <1>2 DEF Sound, Typed
<1>4. PICK t : t = calls[Len(calls)] /\ t = Top
  BY DEF Top
<1>5. /\ calls # <<>>
      /\ Has(Range(calls), "globals") /\ Has(Range(calls), "detach")
      /\ Stands(live, ref, calls, c, t, Front(calls))
  BY <1>1, <1>3, <1>4, WithinParts
<1>. QED
  BY <1>1, <1>2, <1>3, <1>4, <1>5 DEF Idle, Return

-------------------------------------------------------------------------------
(***************************************************************************)
(* The steps                                                               *)
(***************************************************************************)

LEMMA TopIn ==
  ASSUME NEW cs \in Seq(Frames), cs # <<>>
  PROVE  cs[Len(cs)] \in Range(cs)
BY RangePop

\* Nothing closes.
LEMMA OpenStep ==
  ASSUME ~closed', linked' = live', live' \subseteq desc', calls' \in Seq(Frames),
         \A f \in Range(calls') : f.op \notin {"globals", "detach", "collect"}
  PROVE  Phases'
<1>1. OpenSound' /\ CollectSound' /\ OverSound' /\ GlobalsSound'
  BY DEF OpenSound, CollectSound, OverSound, GlobalsSound, Has
<1>2. DetachSound'
  <2>1. calls' # <<>> => calls'[Len(calls')] \in Range(calls')
    BY TopIn
  <2>. QED
    BY <2>1 DEF DetachSound, Idle, Top
<1>. QED
  BY <1>1, <1>2 DEF Phases

LEMMA OpenKeeps ==
  ASSUME Phases, ~closed, closed' = closed, linked' = live', live' \subseteq desc', calls' \in Seq(Frames),
         \A f \in Range(calls') : f \in Range(calls) \/ f.op \notin {"globals", "detach", "collect"}
  PROVE  Phases'
<1>1. \A f \in Range(calls') : f.op \notin {"globals", "detach", "collect"}
  BY DEF Phases, OpenSound
<1>2. ~closed'
  OBVIOUS
<1>. QED
  BY <1>1, <1>2, OpenStep

\* The first loop of collect_objects goes on.
LEMMA CollectStep ==
  ASSUME Sound(live', val', ref', host', calls'), closed', linked' = live', live' \subseteq desc',
         NEW c \in linked' \cup {None},
         \A y \in linked' : c = None \/ y < c => y \in terminator_ran',
         Within(live', ref', calls', c)
  PROVE  Phases'
<1>1. live' \in SUBSET Object /\ c \in Object \cup {None}
  BY DEF Sound, Typed
<1>2. PICK t : t = calls'[Len(calls')]
  OBVIOUS
<1>3. /\ Has(Range(calls'), "globals") /\ Has(Range(calls'), "collect")
      /\ \/ t = Call("collect", c) \/ \E x \in live' : t = Call("terminate", x)
         \/ t.op = "store"
  <2>1. /\ Has(Range(calls'), "globals") /\ Has(Range(calls'), "collect")
        /\ Stands(live', ref', calls', c, t, Front(calls'))
    BY <1>1, <1>2, WithinParts
  <2>. QED
    BY <2>1 DEF Stands
<1>4. t.op # "detach"
  BY <1>3 DEF Call, Frame
<1>5. CollectSound'
  BY DEF CollectSound
<1>6. OpenSound' /\ OverSound' /\ GlobalsSound' /\ DetachSound'
  BY <1>2, <1>3, <1>4 DEF OpenSound, OverSound, GlobalsSound, DetachSound, Top
<1>. QED
  BY <1>5, <1>6 DEF Phases

\* Which calls are innermost while the engine does what.
LEMMA WhatIsInnermost ==
  ASSUME ObjectsInv, ~Idle
  PROVE  /\ Has(Range(calls), "collect") => Top.op \in {"collect", "terminate", "store"}
         /\ Top.op = "collect" => Has(Range(calls), "collect")
         /\ Top.op \in {"globals", "detach", "collect"} => closed
         /\ Top.op \in {"script", "initialize", "terminate", "store"} =>
              ~closed \/ Has(Range(calls), "collect")
         /\ ~closed => ~Has(Range(calls), "collect")
         /\ ~closed => linked = live /\ live \subseteq desc
         /\ live \in SUBSET Object
<1>0. Sound(live, val, ref, host, calls)
  BY DEF ObjectsInv
<1>1. Top \in Range(calls)
  BY <1>0, CallStep
<1>2. Has(Range(calls), "collect") => Top.op \in {"collect", "terminate", "store"}
  <2>. SUFFICES ASSUME Has(Range(calls), "collect")
                PROVE  Top.op \in {"collect", "terminate", "store"}
    OBVIOUS
  <2>1. CollectSound
    BY DEF ObjectsInv, Phases
  <2>2. \/ \E c \in linked \cup {None} : Top = Call("collect", c)
        \/ \E x \in live : Top = Call("terminate", x)
        \/ Top.op = "store"
    BY <1>0, <2>1, Collects DEF Stands
  <2>. QED
    BY <2>2 DEF Call, Frame
<1>. QED
  BY <1>0, <1>1, <1>2 DEF ObjectsInv, Phases, OpenSound, OverSound, Has, Ending, Sound, Typed

\* VariantClear is done.
LEMMA EndClearKeeps ==
  ASSUME ObjectsInv, Careful, EndClear
  PROVE  ObjectsInv'
<1>. DEFINE R == Return
<1>1. ~Idle /\ Top.op = "clear" /\ Sound(live, val, ref, host, calls)
  BY DEF EndClear, Is, ObjectsInv
<1>2. /\ calls \in Seq(Frames) /\ R \in Seq(Frames) /\ Top \in Frames
      /\ calls # <<>> /\ Top = calls[Len(calls)] /\ R = Front(calls)
      /\ Range(calls) = Range(R) \cup {Top}
      /\ Formed(Top) /\ (Top.loc \in Object => Top.loc \in live)
      /\ IF R = <<>> THEN Bottom(Top) ELSE On(val, R[Len(R)], Top)
  BY <1>1, CallStep
<1>3. /\ calls' = R /\ val' = [val EXCEPT ![Top.loc] = None] /\ Top.obj = None
      /\ UNCHANGED <<born, live, linked, desc, terminating, terminator_ran, ref, host, closed>>
  BY <1>1, <1>2 DEF EndClear, Formed
<1>4. Top.loc \in Loc /\ val \in [Loc -> Object \cup {None}] /\ ref \in [Object -> Nat] /\ live \in SUBSET Object
  BY <1>1, <1>2 DEF Formed, Frames, Clears, Sound, Typed
<1>5. Sound(live, val, ref, host, calls)'
  <2>1. \A x \in live : ref[x] = ref[x] + (IF Top.op = "store" /\ Top.loc = x THEN 1 ELSE 0)
    <3>1. \A x \in live : ref[x] \in Nat
      BY <1>4
    <3>. QED
      BY <1>1, <3>1
  <2>2. Sound(live, val', ref, host, Front(calls))
    <3>1. PICK f \in Frames, s \in [Object -> Nat] : f = Top /\ s = ref
      BY <1>2, <1>4
    <3>2. f = calls[Len(calls)] /\ f.op \in Clears
          /\ \A x \in live : ref[x] = s[x] + Placed(f, x)
      BY <1>1, <1>2, <2>1, <3>1 DEF Clears, Placed
    <3>2a. /\ val' \in [Loc -> Object \cup {None}] /\ val'[f.loc] = f.obj
           /\ \A l \in Loc \ {f.loc} : val'[l] = val[l]
      BY <1>3, <1>4, <3>1
    <3>3. Sound(live, val', s, host, Front(calls))
      BY <1>1, <1>2, <3>2, <3>2a, SoundCleared
    <3>. QED
      BY <3>1, <3>3
  <2>. QED
    BY <1>2, <1>3, <2>2
<1>6. \A l \in Loc : val'[l] = IF l = Top.loc THEN None ELSE val[l]
  BY <1>3, <1>4
<1>6a. Object \subseteq Loc /\ Var \subseteq Loc
  BY DEF Loc
<1>. HIDE DEF R
<1>7. Base' /\ Fresh'
  BY <1>3, <1>6, <1>6a DEF ObjectsInv, Base, Fresh
<1>8. Accounted'
  BY <1>1, <1>2, <1>3 DEF ObjectsInv, Accounted, Releases, Has
<1>9. ASSUME ~closed PROVE Phases'
  <2>1. /\ linked = live /\ live \subseteq desc
        /\ \A f \in Range(calls) : f.op \notin {"globals", "detach", "collect"}
    BY <1>9 DEF ObjectsInv, Phases, OpenSound
  <2>2. /\ ~closed' /\ linked' = live' /\ live' \subseteq desc' /\ calls' \in Seq(Frames)
        /\ \A f \in Range(calls') : f.op \notin {"globals", "detach", "collect"}
    BY <1>2, <1>3, <1>9, <2>1
  <2>. QED
    BY <2>2, OpenStep
<1>10. ASSUME closed PROVE Phases'
  <2>1. ~Has(Range(calls), "collect")
    BY <1>1, WhatIsInnermost
  <2>2. OpenSound' /\ CollectSound'
    BY <1>2, <1>3, <1>10, <2>1 DEF OpenSound, CollectSound, Has
  <2>3. OverSound' /\ GlobalsSound'
    BY <1>1, <1>2, <1>3, <1>4, <1>6, <1>6a, <1>10, <2>1
       DEF ObjectsInv, Phases, OverSound, GlobalsSound, Has
  <2>4. DetachSound'
    <3>. SUFFICES ASSUME R # <<>>, NEW f, f = R[Len(R)], f.op = "detach", f.obj # None
                  PROVE  val'[f.obj] = None
      BY <1>3 DEF DetachSound, Idle, Top
    <3>1. On(val, f, Top)
      BY <1>2
    <3>2. Top.loc = f.obj
      BY <1>1, <3>1 DEF On, Scripts, Clears, Releases
    <3>. QED
      BY <1>4, <1>6, <3>2
  <2>. QED
    BY <2>2, <2>3, <2>4 DEF Phases
<1>. QED
  BY <1>5, <1>7, <1>8, <1>9, <1>10 DEF ObjectsInv

\* The count after some references more or less.
Enough(r, x, d) == x # None => r[x] + d >= 0
LEMMA CountedNat ==
  ASSUME NEW r \in [Object -> Nat], NEW x \in Object \cup {None}, NEW d \in Int,
         NEW s, s = Counted(r, x, d), Enough(r, x, d)
  PROVE  /\ s \in [Object -> Nat]
         /\ \A y \in Object : y # x => s[y] = r[y]
         /\ x # None => s[x] = r[x] + d
<1>1. None \notin Object
  BY DEF None, Object
<1>. QED
  BY <1>1 DEF Counted, Enough

\* What a store holds is in the count.
LEMMA StoreHolds ==
  ASSUME Sound(live, val, ref, host, calls), ~Idle
  PROVE  \A x \in live : /\ ref[x] \in Nat
                         /\ ref[x] >= Weight(Top, x)
<1>1. calls \in Seq(Frames) /\ calls # <<>> /\ Top = calls[Len(calls)]
  BY CallStep
<1>2. Len(calls) \in DOMAIN calls
  BY <1>1, FrontParts
<1>3. PICK n \in DOMAIN calls : n = Len(calls)
  BY <1>2
<1>4. Top = calls[n]
  BY <1>1, <1>3
<1>. QED
  BY <1>4, CountedRef

\* The new value is in its place.
LEMMA EndStoreKeeps ==
  ASSUME ObjectsInv, Careful, EndStore
  PROVE  ObjectsInv'
<1>1. ~Idle /\ Top.op = "store" /\ Sound(live, val, ref, host, calls)
  BY DEF EndStore, Is, ObjectsInv
<1>2. PICK R, t :
      /\ R = Return /\ t = Top /\ R \in Seq(Frames) /\ t \in Frames
      /\ calls \in Seq(Frames) /\ calls # <<>> /\ t = calls[Len(calls)] /\ R = Front(calls)
      /\ Range(calls) = Range(R) \cup {t}
      /\ Formed(t) /\ (t.loc \in Object => t.loc \in live) /\ t.obj \in live \cup {None}
      /\ IF R = <<>> THEN Bottom(t) ELSE On(val, R[Len(R)], t)
  BY <1>1, CallStep
<1>3. PICK o : o = Owner(t.loc)
  OBVIOUS
<1>4. /\ t.loc \in Loc /\ val \in [Loc -> Object \cup {None}] /\ ref \in [Object -> Nat] /\ live \in SUBSET Object
      /\ t.op = "store"
  BY <1>1, <1>2 DEF Formed, Frames, Clears, Sound, Typed
<1>5. o \in live \cup {None} /\ o \in Object \cup {None} /\ (o # None => o = t.loc)
      /\ \A x \in live : x = t.loc => x = o
  BY <1>2, <1>3, <1>4 DEF Owner
<1>6. /\ val' = [val EXCEPT ![t.loc] = t.obj] /\ ref' = Counted(ref, o, -1)
      /\ calls' = R \o Released(ref, o)
      /\ UNCHANGED <<born, live, linked, desc, terminating, terminator_ran, host, closed>>
  BY <1>2, <1>3 DEF EndStore
<1>7. o # None => ref[o] >= 1 /\ ref[o] + (-1) >= 0
  <2>. SUFFICES ASSUME o # None PROVE ref[o] \in Nat /\ ref[o] >= 1
    OBVIOUS
  <2>1. o \in live /\ o = t.loc /\ t.op = "store"
    BY <1>4, <1>5
  <2>2. Weight(t, o) >= 1
    BY <2>1 DEF Weight, Held
  <2>3. ref[o] \in Nat /\ ref[o] >= Weight(t, o) /\ Weight(t, o) \in {1, 2}
    BY <1>1, <1>2, <2>1, StoreHolds DEF Weight, Held
  <2>. QED
    BY <2>2, <2>3
<1>8. /\ ref' \in [Object -> Nat]
      /\ \A y \in Object : y # o => ref'[y] = ref[y]
      /\ o # None => ref'[o] = ref[o] - 1
  <2>1. /\ ref' \in [Object -> Nat]
        /\ \A y \in Object : y # o => ref'[y] = ref[y]
        /\ o # None => ref'[o] = ref[o] + (-1)
    <3>1. PICK d \in Int : d = -1
      OBVIOUS
    <3>2. ref' = Counted(ref, o, d) /\ Enough(ref, o, d)
      BY <1>6, <1>7, <3>1 DEF Enough
    <3>3. /\ ref' \in [Object -> Nat]
          /\ \A y \in Object : y # o => ref'[y] = ref[y]
          /\ o # None => ref'[o] = ref[o] + d
      <4>1. ref \in [Object -> Nat]
        BY <1>4
      <4>2. o \in Object \cup {None}
        BY <1>5
      <4>. QED
        BY <3>2, <4>1, <4>2, CountedNat
    <3>. QED
      BY <3>1, <3>3
  <2>. QED
    BY <1>4, <1>5, <2>1
<1>9. Sound(live, val', ref', host, R)
  <2>1. /\ val' \in [Loc -> Object \cup {None}] /\ val'[t.loc] = t.obj
        /\ \A l \in Loc \ {t.loc} : val'[l] = val[l]
    BY <1>2, <1>4, <1>6
  <2>2. \A x \in live : ref[x] = ref'[x] + Placed(t, x)
    <3>. SUFFICES ASSUME NEW x \in live PROVE ref[x] = ref'[x] + Placed(t, x)
      OBVIOUS
    <3>1. x \in Object /\ x # None /\ ref[x] \in Nat /\ ref'[x] \in Nat
      BY <1>4, <1>8 DEF Object, None
    <3>. QED
      BY <1>4, <1>5, <1>8, <3>1 DEF Placed
  <2>. QED
    <3>1. t.op \in Clears
      BY <1>4 DEF Clears
    <3>1a. Sound(live, val, ref, host, calls) /\ calls # <<>> /\ t = calls[Len(calls)]
      BY <1>1, <1>2
    <3>1b. ref' \in [Object -> Nat]
      BY <1>8
    <3>2. Sound(live, val', ref', host, Front(calls))
      BY <2>1, <2>2, <3>1, <3>1a, <3>1b, SoundCleared
    <3>. QED
      BY <1>2, <3>2
<1>10. R # <<>> /\ R[Len(R)].op \in Scripts
  BY <1>2, <1>4 DEF On, Bottom, Releases, Clears, Scripts
<1>11. Sound(live', val', ref', host', calls')
  <2>1. o \notin CleaningIn(R)
    <3>1. o \notin CleaningIn(calls)
      <4>1. CASE o = None
        <5>1. \A n \in DOMAIN calls : calls[n].op = "clean" => calls[n].obj # None
          BY <1>1 DEF Sound, Nested, Formed, Releases
        <5>. QED
          BY <4>1, <5>1 DEF CleaningIn
      <4>2. CASE o # None
        BY <1>1, <1>5, <1>7, <4>2, NotCleaning
      <4>. QED
        BY <4>1, <4>2
    <3>. QED
      BY <1>1, <1>2, <3>1, CallStep
  <2>2. Sound(live, val', Counted(ref, o, -1), host, R)
    BY <1>6, <1>9
  <2>3. R[Len(R)].op # "release" /\ On(val', R[Len(R)], Call("release", o))
    BY <1>10 DEF On, Scripts, Releases, Call, Frame
  <2>4. ref \in [Object -> Int]
    BY <1>4
  <2>5. Sound(live, val', Counted(ref, o, -1), host, R \o Released(ref, o))
    BY <1>5, <2>1, <2>2, <2>3, <2>4, SoundReleased
  <2>. QED
    BY <1>6, <2>5
<1>12. /\ Range(calls') = Range(R) \cup (IF o # None /\ ref[o] = 1 THEN {Call("release", o)} ELSE {})
       /\ calls' \in Seq(Frames)
  <2>1. R \in Seq(Frames)
    BY <1>2
  <2>2. o \in Object \cup {None}
    BY <1>5
  <2>3. calls' = R \o Released(ref, o)
    BY <1>6
  <2>. QED
    BY <2>1, <2>2, <2>3, ReleasedRange
<1>13. Base' /\ Fresh'
  <2>1. Base'
    BY <1>6 DEF ObjectsInv, Base
  <2>2. ASSUME NEW x \in Object, x > born PROVE val'[x] = None
    <3>1. x # t.loc /\ x \in Loc
      BY <1>2, <1>4, <2>2 DEF ObjectsInv, Base, Loc, Object
    <3>. QED
      BY <1>4, <1>6, <2>2, <3>1 DEF ObjectsInv, Fresh
  <2>. QED
    BY <1>6, <2>1, <2>2 DEF Fresh
<1>14. Accounted'
  <2>. SUFFICES ASSUME NEW x \in live, ref'[x] = 0
                PROVE  \/ \E f \in Range(calls') : f.op \in Releases /\ f.obj = x
                       \/ x \in linked' /\ Has(Range(calls'), "detach")
    BY <1>6 DEF Accounted
  <2>1. CASE x = o
    <3>1. ref[o] = 1 /\ o # None
      BY <1>4, <1>7, <1>8, <2>1 DEF Object, None
    <3>2. PICK f : f = Call("release", o)
      OBVIOUS
    <3>3. f \in Range(calls') /\ f.op \in Releases /\ f.obj = x
      BY <1>12, <2>1, <3>1, <3>2 DEF Call, Frame, Releases
    <3>. QED
      BY <3>3
  <2>2. CASE x # o
    <3>1. ref[x] = 0
      BY <1>4, <1>8, <2>2
    <3>2. \/ \E f \in Range(calls) : f.op \in Releases /\ f.obj = x
          \/ x \in linked /\ Has(Range(calls), "detach")
      BY <3>1 DEF ObjectsInv, Accounted
    <3>. QED
      BY <1>2, <1>4, <1>6, <1>12, <3>2 DEF Releases, Has
  <2>. QED
    BY <2>1, <2>2
<1>15. Phases'
  <2>1. ASSUME ~closed PROVE Phases'
    <3>1. linked = live /\ live \subseteq desc /\ Phases
      BY <1>1, <2>1, WhatIsInnermost DEF ObjectsInv
    <3>2. \A f \in Range(calls') : f \in Range(calls) \/ f.op \notin {"globals", "detach", "collect"}
      BY <1>2, <1>12 DEF Call, Frame
    <3>. QED
      BY <1>6, <1>12, <2>1, <3>1, <3>2, OpenKeeps
  <2>2. ASSUME Has(Range(calls), "collect") PROVE Phases'
    <3>0. CollectSound
      BY DEF ObjectsInv, Phases
    <3>1. closed /\ linked = live /\ live \subseteq desc
      BY <1>1, <2>2, <3>0, Collects
    <3>2. PICK c \in linked \cup {None} :
              /\ \A y \in linked : c = None \/ y < c => y \in terminator_ran
              /\ Stands(live, ref, calls, c, t, R)
      BY <1>1, <1>2, <2>2, <3>0, Collects
    <3>3. /\ t.loc \in Object => ref[t.loc] >= 2
          /\ \E x \in live : R = Append(Loops(c), Call("terminate", x))
      <4>1. t # Call("collect", c) /\ \A x \in live : t # Call("terminate", x)
        BY <1>4 DEF Call, Frame
      <4>. QED
        BY <3>2, <4>1 DEF Stands
    <3>4. calls' = R
      <4>1. ~(o # None /\ ref[o] = 1)
        BY <1>4, <1>5, <3>3
      <4>. QED
        <5>1. R \in Seq(Frames)
          BY <1>2
        <5>2. o \in Object \cup {None}
          BY <1>5
        <5>3. calls' = R \o Released(ref, o)
          BY <1>6
        <5>. QED
          BY <4>1, <5>1, <5>2, <5>3, ReleasedIs
    <3>5. Within(live', ref', calls', c)
      BY <1>6, <3>3, <3>4 DEF Within
    <3>. QED
      BY <1>6, <1>11, <3>1, <3>2, <3>5, CollectStep
  <2>. QED
    BY <1>1, <1>2, <1>4, <2>1, <2>2, WhatIsInnermost
<1>. QED
  BY <1>11, <1>13, <1>14, <1>15 DEF ObjectsInv

LEMMA NoneNotCleaning ==
  ASSUME NEW lv, NEW vl, NEW r, NEW h, NEW cs, Sound(lv, vl, r, h, cs)
  PROVE  None \notin CleaningIn(cs)
<1>1. \A n \in DOMAIN cs : cs[n].op = "clean" => cs[n].obj # None
  BY DEF Sound, Nested, Formed, Releases
<1>. QED
  BY <1>1 DEF CleaningIn

LEMMA CallIs ==
  ASSUME NEW op \in Ops, NEW x \in Object \cup {None}
  PROVE  /\ Call(op, x) \in Frames /\ Call(op, x).op = op /\ Call(op, x).obj = x
         /\ Call(op, x).loc = None
         /\ op \notin Clears /\ (op \in Releases \cup {"initialize", "terminate"} => x # None)
              /\ (op \in {"script", "globals"} => x = None) => Formed(Call(op, x))
BY DEF Call, Frame, Frames, Formed, Clears

\* run_terminator.
LEMMA RunSound ==
  ASSUME NEW cs, Sound(live, val, ref, host, cs), cs # <<>>,
         NEW x \in live, x \notin CleaningIn(cs), On(val, cs[Len(cs)], Call("terminate", x)),
         run_terminator(x, cs)
  PROVE  /\ Sound(live, val, ref', host, calls')
         /\ \A y \in live : ref'[y] = 0 => ref[y] = 0
         /\ calls' \in Seq(Frames) /\ calls' # <<>>
         /\ Range(cs) \subseteq Range(calls')
         /\ Range(calls') \subseteq Range(cs) \cup {Call("terminate", x)}
         /\ calls' = cs \/ calls' = Append(cs, Call("terminate", x))
         /\ terminator_ran' = terminator_ran \cup {x}
<1>1. live \in SUBSET Object /\ ref \in [Object -> Nat] /\ cs \in Seq(Frames)
  BY DEF Sound, Typed
<1>2. terminator_ran' = terminator_ran \cup {x}
  BY DEF run_terminator
<1>3. CASE x \notin terminating \ terminator_ran
  <2>1. calls' = cs /\ ref' = ref
    BY <1>3 DEF run_terminator
  <2>. QED
    BY <1>1, <1>2, <2>1
<1>4. CASE x \in terminating \ terminator_ran
  <2>1. calls' = Append(cs, Call("terminate", x)) /\ ref' = Counted(ref, x, 2)
    BY <1>4 DEF run_terminator
  <2>2. PICK f : f = Call("terminate", x)
    OBVIOUS
  <2>3. /\ f \in Frames /\ f.op = "terminate" /\ f.obj = x /\ f.loc = None /\ x # None
    BY <1>1, <2>2 DEF Call, Frame, Frames, Ops, None, Object
  <2>4. Formed(f) /\ f.op \notin Clears /\ f.op \notin Releases /\ f.op # "clean"
    BY <2>3 DEF Formed, Clears, Releases
  <2>5. /\ ref' \in [Object -> Nat]
        /\ \A y \in Object : y # x => ref'[y] = ref[y]
        /\ ref'[x] = ref[x] + 2
    <3>1. Enough(ref, x, 2)
      BY <1>1 DEF Enough
    <3>2. ref \in [Object -> Nat]
      BY <1>1
    <3>3. x \in Object \cup {None} /\ 2 \in Int
      BY <1>1
    <3>. QED
      BY <2>1, <2>3, <3>1, <3>2, <3>3, CountedNat
  <2>6. \A y \in live : ref'[y] = ref[y] + Weight(f, y)
    <3>. SUFFICES ASSUME NEW y \in live PROVE ref'[y] = ref[y] + Weight(f, y)
      OBVIOUS
    <3>1. Weight(f, y) = IF y = x THEN 2 ELSE 0
      BY <2>3 DEF Weight, Held
    <3>2. ref[y] \in Nat /\ y \in Object
      BY <1>1
    <3>. QED
      BY <2>5, <3>1, <3>2
  <2>7. Sound(live, val, ref', host, Append(cs, f))
    <3>1. IF cs = <<>> THEN Bottom(f) ELSE On(val, cs[Len(cs)], f)
      BY <2>2
    <3>2. f.obj \in live \cup {None} /\ f.obj \notin CleaningIn(cs)
      BY <2>3
    <3>3. f \in Frames
      BY <2>3
    <3>4. ref' \in [Object -> Nat]
      BY <2>5
    <3>. QED
      BY <2>4, <2>6, <3>1, <3>2, <3>3, <3>4, SoundPush
  <2>8. /\ Append(cs, f) \in Seq(Frames) /\ Append(cs, f) # <<>>
        /\ Range(Append(cs, f)) = Range(cs) \cup {f}
    BY <1>1, <2>3, RangePush
  <2>9. \A y \in live : ref'[y] = 0 => ref[y] = 0
    BY <1>1, <2>5
  <2>. QED
    BY <1>2, <2>1, <2>2, <2>7, <2>8, <2>9
<1>. QED
  BY <1>3, <1>4

\* Class_Terminate begins.
LEMMA RunTerminatorKeeps ==
  ASSUME ObjectsInv, Careful, RunTerminator
  PROVE  ObjectsInv'
<1>1. ~Idle /\ Top.op = "release" /\ Sound(live, val, ref, host, calls)
  BY DEF RunTerminator, Is, ObjectsInv
<1>2. PICK t, x : t = Top /\ x = Top.obj
  OBVIOUS
<1>3. /\ calls \in Seq(Frames) /\ calls # <<>> /\ t = calls[Len(calls)]
      /\ t.op = "release" /\ t.obj = x /\ x \in live
  BY <1>1, <1>2, CallStep DEF Formed, Releases
<1>4. /\ x \notin terminator_ran /\ run_terminator(x, calls)
      /\ UNCHANGED <<born, live, linked, desc, terminating, val, host, closed>>
  BY <1>2 DEF RunTerminator
<1>5. ~closed
  <2>1. ~Has(Range(calls), "collect")
    BY <1>1, WhatIsInnermost
  <2>. QED
    BY <1>3, <1>4, <2>1 DEF ObjectsInv, Phases, OverSound
<1>6. x \notin CleaningIn(calls)
  <2>1. CleaningIn(calls) = CleaningIn(Return) /\ \A n \in DOMAIN Return : Apart(Return[n], Top)
    BY <1>1, CallStep
  <2>2. \A n \in DOMAIN Return : Return[n].op = "clean" => Return[n].obj # x
    BY <1>1, <1>2, <2>1 DEF Apart, Releases
  <2>. QED
    BY <2>1, <2>2 DEF CleaningIn
<1>7. On(val, t, Call("terminate", x))
  BY <1>3 DEF On, Call, Frame
<1>8. /\ Sound(live, val, ref', host, calls')
      /\ \A y \in live : ref'[y] = 0 => ref[y] = 0
      /\ calls' \in Seq(Frames) /\ Range(calls) \subseteq Range(calls')
      /\ Range(calls') \subseteq Range(calls) \cup {Call("terminate", x)}
      /\ terminator_ran' = terminator_ran \cup {x}
  <2>1. Sound(live, val, ref, host, calls) /\ x \in live /\ calls # <<>>
        /\ On(val, calls[Len(calls)], Call("terminate", x)) /\ run_terminator(x, calls)
    BY <1>1, <1>3, <1>4, <1>7
  <2>. QED
    BY <1>6, <2>1, RunSound
<1>9. Sound(live', val', ref', host', calls')
  BY <1>4, <1>8
<1>10. Base' /\ Fresh'
  <2>1. x \in 1..born
    BY <1>3 DEF ObjectsInv, Base
  <2>. QED
    BY <1>4, <1>8, <2>1 DEF ObjectsInv, Base, Fresh
<1>11. Accounted'
  BY <1>4, <1>8 DEF ObjectsInv, Accounted, Has
<1>12. Phases'
  <2>1. linked = live /\ live \subseteq desc /\ Phases
    BY <1>1, <1>5, WhatIsInnermost DEF ObjectsInv
  <2>2. \A f \in Range(calls') : f \in Range(calls) \/ f.op \notin {"globals", "detach", "collect"}
    BY <1>8 DEF Call, Frame
  <2>3. closed' = closed /\ linked' = live' /\ live' \subseteq desc'
    BY <1>4, <2>1
  <2>. QED
    BY <1>5, <1>8, <2>1, <2>2, <2>3, OpenKeeps
<1>. QED
  BY <1>9, <1>10, <1>11, <1>12 DEF ObjectsInv

\* Calls that hold nothing begin and return.
Holdless(f) ==
  /\ f.op \in {"script", "release", "clean", "collect", "globals", "detach"}
  /\ f.op = "detach" => f.obj = None
LEMMA SoundReturn ==
  ASSUME NEW lv, NEW vl, NEW r, NEW h, NEW cs, Sound(lv, vl, r, h, cs), cs # <<>>,
         Holdless(cs[Len(cs)])
  PROVE  Sound(lv, vl, r, h, Front(cs))
<1>1. r \in [Object -> Nat] /\ lv \in SUBSET Object /\ None \notin Object
  BY DEF Sound, Typed, None, Object
<1>2. PICK f : f = cs[Len(cs)]
  OBVIOUS
<1>3. f.op \notin Clears
  BY <1>2 DEF Holdless, Clears
<1>4. \A x \in lv : r[x] = r[x] + Weight(f, x)
  <2>. SUFFICES ASSUME NEW x \in lv PROVE r[x] = r[x] + Weight(f, x)
    OBVIOUS
  <2>1. Weight(f, x) = 0
    BY <1>1, <1>2 DEF Holdless, Weight, Held
  <2>. QED
    BY <1>1, <2>1
<1>5. r \in [Object -> Nat]
  BY <1>1
<1>. QED
  BY <1>2, <1>3, <1>4, <1>5, SoundPop

LEMMA SoundEnter ==
  ASSUME NEW lv, NEW vl, NEW r, NEW h, NEW cs, Sound(lv, vl, r, h, cs),
         NEW f \in Frames, Formed(f), Holdless(f), f.obj \in lv \cup {None},
         IF cs = <<>> THEN Bottom(f) ELSE On(vl, cs[Len(cs)], f),
         f.op \in Releases => \A n \in DOMAIN cs : cs[n].op \in Releases => cs[n].obj # f.obj,
         f.op = "clean" => r[f.obj] = 0
  PROVE  Sound(lv, vl, r, h, Append(cs, f))
<1>1. r \in [Object -> Nat] /\ lv \in SUBSET Object /\ None \notin Object
  BY DEF Sound, Typed, None, Object
<1>2. \A x : x # None => Weight(f, x) = 0
  BY DEF Holdless, Weight, Held
<1>3. \A x \in lv : r[x] = r[x] + Weight(f, x)
  <2>. SUFFICES ASSUME NEW x \in lv PROVE r[x] = r[x] + Weight(f, x)
    OBVIOUS
  <2>1. Weight(f, x) = 0
    BY <1>1, <1>2
  <2>. QED
    BY <1>1, <2>1
<1>4. Weight(f, f.obj) # 0 => f.obj \notin CleaningIn(cs)
  <2>1. None \notin CleaningIn(cs)
    BY NoneNotCleaning
  <2>. QED
    BY <1>2, <2>1
<1>5. r \in [Object -> Nat] /\ f.op \notin Clears
  BY <1>1 DEF Holdless, Clears
<1>. QED
  BY <1>3, <1>4, <1>5, SoundPush

\* The object goes, or a terminator has stored it somewhere.
LEMMA AfterTerminatorKeeps ==
  ASSUME ObjectsInv, Careful, AfterTerminator
  PROVE  ObjectsInv'
<1>1. ~Idle /\ Top.op = "release" /\ Sound(live, val, ref, host, calls)
  BY DEF AfterTerminator, Is, ObjectsInv
<1>2. PICK R, t, x : R = Return /\ t = Top /\ x = Top.obj
  OBVIOUS
<1>3. /\ calls \in Seq(Frames) /\ calls # <<>> /\ t = calls[Len(calls)] /\ R = Front(calls)
      /\ R \in Seq(Frames) /\ Range(calls) = Range(R) \cup {t}
      /\ t.op = "release" /\ t.obj = x /\ x \in live
      /\ IF R = <<>> THEN Bottom(t) ELSE On(val, R[Len(R)], t)
      /\ \A n \in DOMAIN R : Apart(R[n], t)
  BY <1>1, <1>2, CallStep DEF Formed, Releases
<1>4. /\ calls' = IF ref[x] = 0 THEN Append(R, Call("clean", x)) ELSE R
      /\ UNCHANGED <<born, live, linked, desc, terminating, terminator_ran, ref, val, host, closed>>
  BY <1>2 DEF AfterTerminator, Replace
<1>5. Sound(live, val, ref, host, R)
  <2>1. Holdless(calls[Len(calls)])
    BY <1>3 DEF Holdless
  <2>2. Sound(live, val, ref, host, Front(calls))
    BY <1>1, <1>3, <2>1, SoundReturn
  <2>. QED
    BY <1>3, <2>2
<1>6. PICK f : f = Call("clean", x)
  OBVIOUS
<1>7. /\ f \in Frames /\ f.op = "clean" /\ f.obj = x /\ f.loc = None
      /\ Formed(f) /\ Holdless(f)
  <2>1. x \in Object /\ x # None
    BY <1>1, <1>3 DEF Sound, Typed, Object, None
  <2>. QED
    BY <1>6, <2>1 DEF Call, Frame, Frames, Ops, Formed, Holdless, Clears
<1>8. ASSUME ref[x] = 0 PROVE Sound(live, val, ref, host, Append(R, f))
  <2>1. IF R = <<>> THEN Bottom(f) ELSE On(val, R[Len(R)], f)
    BY <1>3, <1>7 DEF Bottom, On, Releases, Scripts, Clears
  <2>2. \A n \in DOMAIN R : R[n].op \in Releases => R[n].obj # f.obj
    BY <1>3, <1>7 DEF Apart, Releases
  <2>3. ref[f.obj] = 0 /\ f.obj \in live \cup {None}
    BY <1>3, <1>7, <1>8
  <2>4. f \in Frames
    BY <1>7
  <2>. QED
    BY <1>5, <1>7, <2>1, <2>2, <2>3, <2>4, SoundEnter
<1>9. Sound(live', val', ref', host', calls')
  BY <1>4, <1>5, <1>6, <1>8
<1>10. /\ Range(calls') = Range(R) \cup (IF ref[x] = 0 THEN {f} ELSE {})
       /\ calls' \in Seq(Frames)
       /\ calls' # <<>> => \/ calls'[Len(calls')] = f
                           \/ calls' = R
  <2>1. R \in Seq(Frames) /\ f \in Frames
    BY <1>3, <1>7
  <2>2. /\ Append(R, f) \in Seq(Frames) /\ Append(R, f)[Len(Append(R, f))] = f
        /\ Range(Append(R, f)) = Range(R) \cup {f}
    BY <2>1, RangePush
  <2>. QED
    BY <1>4, <1>6, <2>1, <2>2
<1>11. Base' /\ Fresh'
  BY <1>4 DEF ObjectsInv, Base, Fresh
<1>12. Accounted'
  <2>. SUFFICES ASSUME NEW y \in live, ref[y] = 0
                PROVE  \/ \E g \in Range(calls') : g.op \in Releases /\ g.obj = y
                       \/ y \in linked /\ Has(Range(calls'), "detach")
    BY <1>4 DEF Accounted
  <2>1. \/ \E g \in Range(calls) : g.op \in Releases /\ g.obj = y
        \/ y \in linked /\ Has(Range(calls), "detach")
    BY DEF ObjectsInv, Accounted
  <2>2. CASE y = x
    BY <1>7, <1>10, <2>2 DEF Releases
  <2>3. CASE y # x
    BY <1>3, <1>10, <2>1, <2>3 DEF Has
  <2>. QED
    BY <2>2, <2>3
<1>13. Phases'
  <2>0. Phases /\ ~Has(Range(calls), "collect")
    BY <1>1, WhatIsInnermost DEF ObjectsInv
  <2>1. ASSUME ~closed PROVE Phases'
    <3>1. linked = live /\ live \subseteq desc
      BY <1>1, <2>1, WhatIsInnermost
    <3>2. \A g \in Range(calls') : g \in Range(calls) \/ g.op \notin {"globals", "detach", "collect"}
      BY <1>3, <1>7, <1>10
    <3>3. closed' = closed /\ linked' = live' /\ live' \subseteq desc'
      BY <1>4, <3>1
    <3>. QED
      BY <1>10, <2>0, <2>1, <3>2, <3>3, OpenKeeps
  <2>2. ASSUME closed PROVE Phases'
    <3>1. OpenSound' /\ CollectSound' /\ OverSound' /\ GlobalsSound'
      BY <1>3, <1>4, <1>7, <1>10, <2>0, <2>2
         DEF Phases, OpenSound, CollectSound, OverSound, GlobalsSound, Has, Ending
    <3>2. DetachSound'
      <4>1. R # <<>> => R[Len(R)].op # "detach" \/ R[Len(R)].obj = None
        BY <1>3 DEF On, Scripts, Clears, Releases
      <4>. QED
        BY <1>7, <1>10, <4>1 DEF DetachSound, Idle, Top
    <3>. QED
      BY <3>1, <3>2 DEF Phases
  <2>. QED
    BY <2>1, <2>2
<1>. QED
  BY <1>9, <1>11, <1>12, <1>13 DEF ObjectsInv

\* VariantClear as a whole.
LEMMA ClearStep ==
  ASSUME NEW cs, NEW r, Sound(live, val, r, host, cs), cs # <<>>,
         NEW l \in Var \cup live, l \notin ClearingIn(cs),
         On(val, cs[Len(cs)], Frame("clear", None, l)),
         Clear(cs, r, l)
  PROVE  /\ Sound(live, val, ref', host, calls')
         /\ calls' \in Seq(Frames) /\ calls' # <<>>
         /\ Range(cs) \subseteq Range(calls')
         /\ \A f \in Range(calls') : f \in Range(cs) \/ f.op \in {"clear", "release"}
         /\ calls'[Len(calls')].op \in {"clear", "release"}
         /\ \A y \in live : ref'[y] = 0 =>
              r[y] = 0 \/ \E f \in Range(calls') : f.op \in Releases /\ f.obj = y
<1>1. PICK f, v, ds : f = Frame("clear", None, l) /\ v = val[l] /\ ds = Append(cs, f)
  OBVIOUS
<1>2. /\ Sound(live, val, Counted(r, v, -1), host, (cs \o <<f>>) \o Released(r, v))
      /\ f \in Frames /\ v \in live \cup {None}
      /\ cs \o <<f>> = ds
  BY <1>1, SoundClear
<1>3. calls' = ds \o Released(r, v) /\ ref' = Counted(r, v, -1)
  <2>1. calls' = cs \o <<f>> \o Released(r, v)
    BY <1>1 DEF Clear
  <2>2. ref' = Counted(r, v, -1)
    BY <1>1 DEF Clear
  <2>. QED
    BY <1>2, <2>1, <2>2
<1>4. cs \in Seq(Frames) /\ live \in SUBSET Object /\ r \in [Object -> Nat] /\ None \notin Object
  BY DEF Sound, Typed, None, Object
<1>5. v \in Object \cup {None}
  BY <1>2, <1>4
<1>6. /\ ds \in Seq(Frames) /\ ds # <<>> /\ ds[Len(ds)] = f
      /\ Range(ds) = Range(cs) \cup {f}
  BY <1>1, <1>2, <1>4, RangePush
<1>7. /\ Range(calls') = Range(ds) \cup (IF v # None /\ r[v] = 1 THEN {Call("release", v)} ELSE {})
      /\ calls' \in Seq(Frames) /\ calls' # <<>>
      /\ calls' = ds \/ calls'[Len(calls')] = Call("release", v)
  <2>1. ds \in Seq(Frames) /\ ds # <<>>
    BY <1>6
  <2>. QED
    BY <1>3, <1>5, <2>1, ReleasedRange
<1>8. \A g \in {f, Call("release", v)} : g.op \in {"clear", "release"}
  BY <1>1 DEF Frame, Call
<1>9. \A y \in live : ref'[y] = 0 => r[y] = 0 \/ \E g \in Range(calls') : g.op \in Releases /\ g.obj = y
  <2>. SUFFICES ASSUME NEW y \in live, ref'[y] = 0, r[y] # 0
                PROVE  \E g \in Range(calls') : g.op \in Releases /\ g.obj = y
    OBVIOUS
  <2>1. y \in Object /\ r[y] \in Nat
    BY <1>4
  <2>2. v = y /\ r[y] = 1 /\ v # None
    BY <1>3, <1>4, <2>1 DEF Counted
  <2>3. PICK g : g = Call("release", v)
    OBVIOUS
  <2>4. g \in Range(calls') /\ g.op \in Releases /\ g.obj = y
    BY <1>7, <2>2, <2>3 DEF Call, Frame, Releases
  <2>. QED
    BY <2>4
<1>10. Sound(live, val, ref', host, calls')
  BY <1>2, <1>3
<1>11. calls'[Len(calls')].op \in {"clear", "release"}
  BY <1>6, <1>7, <1>8
<1>. QED
  BY <1>6, <1>7, <1>8, <1>9, <1>10, <1>11

\* assign_value as a whole.
LEMMA StoreStep ==
  ASSUME NEW cs, NEW r, Sound(live, val, r, host, cs), cs # <<>>, cs[Len(cs)].op \in Scripts,
         NEW l \in Var \cup live, l \notin ClearingIn(cs),
         NEW new \in live \cup {None}, new \notin CleaningIn(cs),
         Owner(l) \notin CleaningIn(cs),
         StoreFrom(cs, Counted(r, new, 1), l, new)
  PROVE  /\ Sound(live, val, ref', host, calls')
         /\ calls' \in Seq(Frames) /\ calls' # <<>>
         /\ Range(cs) \subseteq Range(calls')
         /\ \A f \in Range(calls') : f \in Range(cs) \/ f.op \in {"store", "release"}
         /\ \A y \in live : ref'[y] = 0 =>
              r[y] = 0 \/ \E f \in Range(calls') : f.op \in Releases /\ f.obj = y
         /\ (val[l] # None => r[val[l]] > 1) =>
              /\ calls' = Append(cs, Frame("store", new, l))
              /\ l \in live /\ r[l] >= 1 => ref'[l] >= 2
         /\ new # None => ref'[new] # 0
<1>1. PICK f, v, ds, o, held :
        /\ f = Frame("store", new, l) /\ v = val[l] /\ ds = Append(cs, f)
        /\ o = Owner(l) /\ held = Counted(Counted(r, new, 1), o, 1)
  OBVIOUS
<1>2. /\ Sound(live, val, Counted(held, v, -1), host, (cs \o <<f>>) \o Released(held, v))
      /\ f \in Frames /\ v \in live \cup {None}
      /\ cs \o <<f>> = ds
  BY <1>1, SoundStore
<1>3. calls' = ds \o Released(held, v) /\ ref' = Counted(held, v, -1)
  <2>1. calls' = cs \o <<f>> \o Released(held, v)
    BY <1>1 DEF StoreFrom
  <2>2. ref' = Counted(held, v, -1)
    BY <1>1 DEF StoreFrom
  <2>. QED
    BY <1>2, <2>1, <2>2
<1>4. cs \in Seq(Frames) /\ live \in SUBSET Object /\ r \in [Object -> Nat] /\ None \notin Object
      /\ Object \cap Var = {}
  BY ObjectsAssumption DEF Sound, Typed, None, Object
<1>5. v \in Object \cup {None}
  BY <1>2, <1>4
<1>6. /\ ds \in Seq(Frames) /\ ds # <<>> /\ Range(ds) = Range(cs) \cup {f}
  BY <1>1, <1>2, <1>4, RangePush
<1>7. /\ Range(calls') = Range(ds) \cup (IF v # None /\ held[v] = 1 THEN {Call("release", v)} ELSE {})
      /\ calls' \in Seq(Frames) /\ calls' # <<>>
  <2>1. ds \in Seq(Frames) /\ ds # <<>>
    BY <1>6
  <2>. QED
    BY <1>3, <1>5, <2>1, ReleasedRange
<1>8. \A g \in {f, Call("release", v)} : g.op \in {"store", "release"}
  BY <1>1 DEF Frame, Call
<1>9. \A y \in Object : /\ held[y] \in Nat /\ r[y] \in Nat /\ held[y] >= r[y]
                        /\ y = o => held[y] >= r[y] + 1
                        /\ ref'[y] = IF y = v THEN held[y] - 1 ELSE held[y]
  <2>1. \A y \in Object :
          /\ Counted(r, new, 1)[y] = IF y = new THEN r[y] + 1 ELSE r[y]
          /\ r[y] \in Nat
    BY <1>4 DEF Counted
  <2>1a. Counted(r, new, 1) \in [Object -> Int]
    BY <1>4 DEF Counted
  <2>2. PICK some : some = Counted(r, new, 1)
    OBVIOUS
  <2>3. /\ held \in [Object -> Int]
        /\ \A y \in Object : held[y] = IF y = o THEN some[y] + 1 ELSE some[y]
    BY <1>1, <1>4, <2>1a, <2>2 DEF Counted, Owner
  <2>4. \A y \in Object : ref'[y] = IF y = v THEN held[y] - 1 ELSE held[y]
    BY <1>3, <1>4, <2>3 DEF Counted
  <2>. QED
    BY <2>1, <2>2, <2>3, <2>4
<1>10. \A y \in live : ref'[y] = 0 => r[y] = 0 \/ \E g \in Range(calls') : g.op \in Releases /\ g.obj = y
  <2>. SUFFICES ASSUME NEW y \in live, ref'[y] = 0, r[y] # 0
                PROVE  \E g \in Range(calls') : g.op \in Releases /\ g.obj = y
    OBVIOUS
  <2>1. y \in Object
    BY <1>4
  <2>2. v = y /\ held[y] = 1 /\ v # None
    BY <1>4, <1>9, <2>1
  <2>3. PICK g : g = Call("release", v)
    OBVIOUS
  <2>4. g \in Range(calls') /\ g.op \in Releases /\ g.obj = y
    BY <1>7, <2>2, <2>3 DEF Call, Frame, Releases
  <2>. QED
    BY <2>4
<1>11. ASSUME v # None => r[v] > 1
       PROVE  calls' = ds /\ (l \in live /\ r[l] >= 1 => ref'[l] >= 2)
  <2>1. ~(v # None /\ held[v] = 1)
    BY <1>5, <1>9, <1>11
  <2>2. ds \in Seq(Frames)
    BY <1>6
  <2>3. calls' = ds
    BY <1>3, <1>5, <2>1, <2>2, ReleasedIs
  <2>4. ASSUME l \in live, r[l] >= 1 PROVE ref'[l] >= 2
    <3>1. l \in Object /\ l = o
      BY <1>1, <1>4, <2>4 DEF Owner
    <3>2. l = v => r[l] > 1
      BY <1>4, <1>11, <3>1
    <3>. QED
      BY <1>9, <2>4, <3>1, <3>2
  <2>. QED
    BY <2>3, <2>4
<1>12. Sound(live, val, ref', host, calls')
  BY <1>2, <1>3
<1>13. ASSUME new # None PROVE ref'[new] # 0
  <2>1. PICK n \in DOMAIN calls' : calls'[n] = f
    BY <1>6, <1>7 DEF Range
  <2>2. Weight(calls'[n], new) \in {1, 2} /\ new \in live
    BY <1>1, <1>13, <2>1 DEF Weight, Held, Frame
  <2>3. \A m \in DOMAIN calls' : ref'[new] >= Weight(calls'[m], new)
    BY <1>12, <2>2, CountedRef
  <2>. QED
    BY <2>2, <2>3
<1>. QED
  BY <1>1, <1>6, <1>7, <1>8, <1>10, <1>11, <1>12, <1>13

\* After the first loop nothing but the last steps is under way.
LEMMA EndingStep ==
  ASSUME Phases, closed, ~Has(Range(calls), "collect"), calls' \in Seq(Frames),
         UNCHANGED <<live, linked, desc, terminator_ran, val, closed>>,
         Range(calls) \subseteq Range(calls'),
         \A f \in Range(calls') : f \in Range(calls) \/ f.op \in {"clear", "release"},
         calls' # <<>> => calls'[Len(calls')].op \in {"clear", "release"}
  PROVE  Phases'
<1>1. OpenSound' /\ CollectSound' /\ OverSound' /\ GlobalsSound'
  BY DEF Phases, OpenSound, CollectSound, OverSound, GlobalsSound, Has, Ending
<1>2. DetachSound'
  BY DEF DetachSound, Idle, Top
<1>. QED
  BY <1>1, <1>2 DEF Phases

\* clean_props clears the property.
LEMMA CleanPropsKeeps ==
  ASSUME ObjectsInv, Careful, CleanProps
  PROVE  ObjectsInv'
<1>1. ~Idle /\ Top.op = "clean" /\ Sound(live, val, ref, host, calls)
  BY DEF CleanProps, Is, ObjectsInv
<1>2. PICK R, t, x : R = Return /\ t = Top /\ x = Top.obj
  OBVIOUS
<1>3. /\ calls \in Seq(Frames) /\ calls # <<>> /\ t = calls[Len(calls)] /\ R = Front(calls)
      /\ t.op = "clean" /\ t.obj = x /\ x \in live
      /\ \A n \in DOMAIN R : Apart(R[n], t)
      /\ ClearingIn(calls) = ClearingIn(R)
  BY <1>1, <1>2, CallStep DEF Formed, Releases, Clears
<1>4. /\ Clear(calls, ref, x)
      /\ UNCHANGED <<born, live, linked, desc, terminating, terminator_ran, val, host, closed>>
  BY <1>2 DEF CleanProps
<1>5. ref[x] = 0
  <2>1. Len(calls) \in DOMAIN calls
    BY <1>3, FrontParts
  <2>. QED
    BY <1>1, <1>3, <2>1 DEF Sound, Unused
<1>6. x \notin ClearingIn(calls)
  <2>1. Sound(live, val, ref, host, R)
    <3>1. Holdless(calls[Len(calls)])
      BY <1>3 DEF Holdless
    <3>2. Sound(live, val, ref, host, Front(calls))
      BY <1>1, <1>3, <3>1, SoundReturn
    <3>. QED
      BY <1>3, <3>2
  <2>2. \A n \in DOMAIN R : R[n].op \in Releases => R[n].obj # x
    BY <1>3 DEF Apart, Releases
  <2>3. x \notin ClearingIn(R)
    BY <1>3, <1>5, <2>1, <2>2, Untouched
  <2>. QED
    BY <1>3, <2>3
<1>7. /\ Sound(live, val, ref', host, calls')
      /\ calls' \in Seq(Frames) /\ calls' # <<>>
      /\ Range(calls) \subseteq Range(calls')
      /\ \A f \in Range(calls') : f \in Range(calls) \/ f.op \in {"clear", "release"}
      /\ calls'[Len(calls')].op \in {"clear", "release"}
      /\ \A y \in live : ref'[y] = 0 =>
           ref[y] = 0 \/ \E f \in Range(calls') : f.op \in Releases /\ f.obj = y
  <2>1. On(val, t, Frame("clear", None, x))
    BY <1>3 DEF On, Frame
  <2>2. On(val, calls[Len(calls)], Frame("clear", None, x)) /\ calls # <<>> /\ x \in Var \cup live
    BY <1>3, <2>1
  <2>. QED
    BY <1>1, <1>4, <1>6, <2>2, ClearStep
<1>8. Sound(live', val', ref', host', calls')
  BY <1>4, <1>7
<1>9. Base' /\ Fresh'
  BY <1>4 DEF ObjectsInv, Base, Fresh
<1>10. Accounted'
  BY <1>4, <1>7 DEF ObjectsInv, Accounted, Has
<1>11. Phases'
  <2>0. Phases /\ ~Has(Range(calls), "collect")
    BY <1>1, WhatIsInnermost DEF ObjectsInv
  <2>1. ASSUME ~closed PROVE Phases'
    <3>1. linked = live /\ live \subseteq desc
      BY <1>1, <2>1, WhatIsInnermost
    <3>2. \A g \in Range(calls') : g \in Range(calls) \/ g.op \notin {"globals", "detach", "collect"}
      BY <1>7
    <3>3. closed' = closed /\ linked' = live' /\ live' \subseteq desc'
      BY <1>4, <3>1
    <3>. QED
      BY <1>7, <2>0, <2>1, <3>2, <3>3, OpenKeeps
  <2>2. ASSUME closed PROVE Phases'
    BY <1>4, <1>7, <2>0, <2>2, EndingStep
  <2>. QED
    BY <2>1, <2>2
<1>. QED
  BY <1>8, <1>9, <1>10, <1>11 DEF ObjectsInv

\* free(This).
LEMMA FreeKeeps ==
  ASSUME ObjectsInv, Careful, Free
  PROVE  ObjectsInv'
<1>1. ~Idle /\ Top.op = "clean" /\ Sound(live, val, ref, host, calls)
  BY DEF Free, Is, ObjectsInv
<1>2. PICK R, t, x : R = Return /\ t = Top /\ x = Top.obj
  OBVIOUS
<1>3. /\ calls \in Seq(Frames) /\ calls # <<>> /\ t = calls[Len(calls)] /\ R = Front(calls)
      /\ R \in Seq(Frames) /\ Range(calls) = Range(R) \cup {t}
      /\ t.op = "clean" /\ t.obj = x /\ x \in live
      /\ IF R = <<>> THEN Bottom(t) ELSE On(val, R[Len(R)], t)
      /\ \A n \in DOMAIN R : Apart(R[n], t)
  BY <1>1, <1>2, CallStep DEF Formed, Releases
<1>4. /\ ~Unclean(x) /\ live' = live \ {x} /\ linked' = linked \ {x} /\ calls' = R
      /\ UNCHANGED <<born, desc, terminating, terminator_ran, ref, val, host, closed>>
  BY <1>2 DEF Free
<1>5. ref[x] = 0
  <2>1. Len(calls) \in DOMAIN calls
    BY <1>3, FrontParts
  <2>. QED
    BY <1>1, <1>3, <2>1 DEF Sound, Unused
<1>6. Phases /\ ~Has(Range(calls), "collect")
  BY <1>1, WhatIsInnermost DEF ObjectsInv
<1>7. val[x] = None
  <2>1. CASE ~closed
    BY <1>3, <1>4, <1>6, <2>1 DEF Phases, OpenSound, Unclean
  <2>2. CASE closed
    BY <1>3, <1>4, <1>6, <2>2 DEF Phases, OverSound, Unclean
  <2>. QED
    BY <2>1, <2>2
<1>8. Sound(live \ {x}, val, ref, host, R)
  <2>1. Sound(live, val, ref, host, R)
    <3>1. Holdless(calls[Len(calls)])
      BY <1>3 DEF Holdless
    <3>2. Sound(live, val, ref, host, Front(calls))
      BY <1>1, <1>3, <3>1, SoundReturn
    <3>. QED
      BY <1>3, <3>2
  <2>2. \A n \in DOMAIN R : R[n] \in Range(calls)
    <3>1. \A n \in DOMAIN R : R[n] \in Range(R)
      BY <1>3, InRange
    <3>. QED
      BY <1>3, <3>1
  <2>3. \A n \in DOMAIN R : R[n].op \in Releases \cup {"collect"} => R[n].obj # x
    BY <1>3, <1>6, <2>2 DEF Apart, Releases, Has
  <2>. QED
    BY <1>3, <1>5, <1>7, <2>1, <2>3, SoundShrinks
<1>9. Sound(live', val', ref', host', calls')
  BY <1>4, <1>8
<1>10. Base' /\ Fresh'
  BY <1>4 DEF ObjectsInv, Base, Fresh
<1>11. Accounted'
  BY <1>3, <1>4 DEF ObjectsInv, Accounted, Has
<1>12. \A f \in Range(R) : f.obj # x \/ f.obj = None
  <2>1. \A n \in DOMAIN R : R[n].obj # x \/ R[n].obj = None
    BY <1>8 DEF Sound, Alive
  <2>. QED
    BY <2>1 DEF Range
<1>13. Phases'
  <2>1. ASSUME ~closed PROVE Phases'
    <3>1. linked = live /\ live \subseteq desc
      BY <1>1, <2>1, WhatIsInnermost
    <3>2. \A g \in Range(calls') : g \in Range(calls) \/ g.op \notin {"globals", "detach", "collect"}
      BY <1>3, <1>4
    <3>3. closed' = closed /\ linked' = live' /\ live' \subseteq desc' /\ calls' \in Seq(Frames)
      BY <1>3, <1>4, <3>1
    <3>. QED
      BY <1>6, <2>1, <3>2, <3>3, OpenKeeps
  <2>2. ASSUME closed PROVE Phases'
    <3>1. OpenSound' /\ CollectSound' /\ OverSound' /\ GlobalsSound'
      BY <1>3, <1>4, <1>6, <1>12, <2>2
         DEF Phases, OpenSound, CollectSound, OverSound, GlobalsSound, Has, Ending
    <3>2. DetachSound'
      <4>1. R # <<>> => R[Len(R)].op # "detach" \/ R[Len(R)].obj = None
        BY <1>3 DEF On, Scripts, Clears, Releases
      <4>. QED
        BY <1>4, <4>1 DEF DetachSound, Idle, Top
    <3>. QED
      BY <3>1, <3>2 DEF Phases
  <2>. QED
    BY <2>1, <2>2
<1>. QED
  BY <1>9, <1>10, <1>11, <1>13 DEF ObjectsInv

\* Variables are not objects, nor is None.
LEMMA Apartness ==
  ASSUME NEW lv, NEW vl, NEW r, NEW h, NEW cs, Sound(lv, vl, r, h, cs)
  PROVE  /\ Object \cap Var = {} /\ None \notin Object /\ None \notin Var
         /\ lv \in SUBSET Object /\ lv \cap Var = {}
<1>1. Object \cap Var = {} /\ None \notin Object /\ None \notin Var
  BY ObjectsAssumption DEF Object, None
<1>2. lv \in SUBSET Object
  BY DEF Sound, Typed
<1>. QED
  BY <1>1, <1>2

\* What a store does to the rest of the invariant.
LEMMA StoreKeeps ==
  ASSUME ObjectsInv, NEW cs \in Seq(Frames), NEW r, NEW l,
         Range(calls) = Range(cs) \/ \E f \in Frames : f.op = "initialize" /\ Range(calls) = Range(cs) \cup {f},
         \A y \in live : r[y] = 0 /\ ref'[y] = 0 => ref[y] = 0,
         calls' \in Seq(Frames), Range(cs) \subseteq Range(calls'),
         \A f \in Range(calls') : f \in Range(cs) \/ f.op \in {"store", "release"},
         \A y \in live : ref'[y] = 0 =>
              r[y] = 0 \/ \E f \in Range(calls') : f.op \in Releases /\ f.obj = y,
         UNCHANGED <<born, live, linked, desc, terminating, terminator_ran, val, host, closed>>
  PROVE  /\ Base' /\ Fresh' /\ Accounted'
         /\ ~closed => Phases'
<1>1. Base' /\ Fresh'
  BY DEF ObjectsInv, Base, Fresh
<1>2. Accounted'
  <2>. SUFFICES ASSUME NEW y \in live, ref'[y] = 0
                PROVE  \/ \E f \in Range(calls') : f.op \in Releases /\ f.obj = y
                       \/ y \in linked /\ Has(Range(calls'), "detach")
    BY DEF Accounted
  <2>1. CASE r[y] # 0
    BY <2>1
  <2>2. CASE r[y] = 0
    <3>1. \/ \E f \in Range(calls) : f.op \in Releases /\ f.obj = y
          \/ y \in linked /\ Has(Range(calls), "detach")
      BY <2>2 DEF ObjectsInv, Accounted
    <3>2. \A f \in Range(calls) : f.op = "initialize" \/ f \in Range(calls')
      OBVIOUS
    <3>. QED
      BY <3>1, <3>2 DEF Has, Releases
  <2>. QED
    BY <2>1, <2>2
<1>3. ASSUME ~closed PROVE Phases'
  <2>1. Phases /\ linked = live /\ live \subseteq desc
    BY <1>3 DEF ObjectsInv, Phases, OpenSound
  <2>2. \A f \in Range(calls') : f \in Range(calls) \/ f.op \notin {"globals", "detach", "collect"}
    OBVIOUS
  <2>3. closed' = closed /\ linked' = live' /\ live' \subseteq desc'
    BY <2>1
  <2>. QED
    BY <1>3, <2>1, <2>2, <2>3, OpenKeeps
<1>. QED
  BY <1>1, <1>2, <1>3

\* Set l = x.
LEMMA SetKeeps ==
  ASSUME ObjectsInv, Careful, Set
  PROVE  ObjectsInv'
<1>1. Scripting /\ ~Idle /\ Top.op \in Scripts /\ Sound(live, val, ref, host, calls)
  BY DEF Set, Scripting, Is, Scripts, ObjectsInv
<1>2. PICK R, t : R = Return /\ t = Top
  OBVIOUS
<1>3. calls \in Seq(Frames) /\ calls # <<>> /\ t = calls[Len(calls)] /\ t.op \in Scripts
  BY <1>1, <1>2, CallStep
<1>4. PICK l \in Places, x \in Values : MayDrop(val[l]) /\ StoreFrom(calls, Counted(ref, x, 1), l, x)
  BY DEF Set
<1>5. UNCHANGED <<born, live, linked, desc, terminating, terminator_ran, val, host, closed>>
  BY DEF Set
<1>6. l \in Var \cup Known /\ Settled(l)
  BY DEF Places
<1>7. /\ l \in Var \cup live /\ l \notin ClearingIn(calls) /\ Owner(l) \notin CleaningIn(calls)
      /\ x \in live \cup {None} /\ x \notin CleaningIn(calls)
  BY <1>1, <1>6, KnownLive
<1>8. l \in live => ref[l] >= 1
  <2>1. \A k \in Known : ref[k] >= 1
    BY <1>1, KnownLive
  <2>2. live \cap Var = {}
    BY <1>1, Apartness
  <2>. QED
    BY <1>6, <2>1, <2>2
<1>9. /\ Sound(live, val, ref', host, calls')
      /\ calls' \in Seq(Frames) /\ calls' # <<>>
      /\ Range(calls) \subseteq Range(calls')
      /\ \A f \in Range(calls') : f \in Range(calls) \/ f.op \in {"store", "release"}
      /\ \A y \in live : ref'[y] = 0 =>
           ref[y] = 0 \/ \E f \in Range(calls') : f.op \in Releases /\ f.obj = y
      /\ (val[l] # None => ref[val[l]] > 1) =>
           /\ calls' = Append(calls, Frame("store", x, l))
           /\ l \in live /\ ref[l] >= 1 => ref'[l] >= 2
  <2>1. calls[Len(calls)].op \in Scripts
    BY <1>3
  <2>. QED
    BY <1>1, <1>3, <1>4, <1>7, <2>1, StoreStep
<1>10. Sound(live', val', ref', host', calls')
  BY <1>5, <1>9
<1>11. /\ Base' /\ Fresh' /\ Accounted'
       /\ ~closed => Phases'
  BY <1>3, <1>5, <1>9, StoreKeeps
<1>12. ASSUME Has(Range(calls), "collect") PROVE Phases'
  <2>0. CollectSound
    BY DEF ObjectsInv, Phases
  <2>1. closed /\ linked = live /\ live \subseteq desc
    BY <1>1, <1>12, <2>0, Collects
  <2>2. PICK c \in linked \cup {None} :
            /\ c \in Object \cup {None}
            /\ \A y \in linked : c = None \/ y < c => y \in terminator_ran
            /\ Stands(live, ref, calls, c, t, R)
    BY <1>1, <1>2, <1>12, <2>0, Collects
  <2>3. PICK o \in live : calls = Append(Loops(c), Call("terminate", o))
    <3>1. t # Call("collect", c) /\ t.op # "store"
      BY <1>3 DEF Call, Frame, Scripts
    <3>. QED
      BY <2>2, <3>1 DEF Stands
  <2>4. val[l] # None => ref[val[l]] > 1
    <3>1. Collecting
      BY <1>12 DEF Has, Range, Collecting
    <3>. QED
      BY <1>4, <3>1 DEF MayDrop
  <2>5. /\ calls' = Append(calls, Frame("store", x, l))
        /\ l \in live => ref'[l] >= 2
    BY <1>8, <1>9, <2>4
  <2>6. PICK f : f = Frame("store", x, l)
    OBVIOUS
  <2>7. f \in Frames /\ f.op = "store" /\ (f.loc \in Object => ref'[f.loc] >= 2)
    <3>1. x \in Object \cup {None} /\ l \in Loc \cup {None} /\ (l \in Object => l \in live)
      BY <1>1, <1>7, Apartness DEF Loc
    <3>. QED
      BY <2>5, <2>6, <3>1 DEF Frame, Frames, Ops
  <2>8. Within(live', ref', calls', c)
    BY <1>5, <2>3, <2>5, <2>6, <2>7 DEF Within
  <2>9. closed' /\ linked' = live' /\ live' \subseteq desc' /\ c \in linked' \cup {None}
        /\ \A y \in linked' : c = None \/ y < c => y \in terminator_ran'
    BY <1>5, <2>1, <2>2
  <2>. QED
    BY <1>10, <2>8, <2>9, CollectStep
<1>13. Phases'
  BY <1>1, <1>11, <1>12, WhatIsInnermost DEF Scripts
<1>. QED
  BY <1>10, <1>11, <1>13 DEF ObjectsInv

\* New, up to Class_Initialize.
LEMMA NewKeeps ==
  ASSUME ObjectsInv, Careful, New
  PROVE  ObjectsInv'
<1>1. ~Idle /\ Top.op \in Scripts /\ Sound(live, val, ref, host, calls)
  BY DEF New, Scripting, Is, Scripts, ObjectsInv
<1>2. PICK t : t = Top
  OBVIOUS
<1>3. calls \in Seq(Frames) /\ calls # <<>> /\ t = calls[Len(calls)] /\ t.op \in Scripts
  BY <1>1, <1>2, CallStep
<1>4. PICK x : x = born + 1
  OBVIOUS
<1>5. PICK f : f = Call("initialize", x)
  OBVIOUS
<1>6. /\ born < MaxObjects /\ born' = x
      /\ live' = live \cup {x} /\ linked' = linked \cup {x} /\ desc' = desc \cup {x}
      /\ terminating' \in {terminating, terminating \cup {x}}
      /\ ref' = [ref EXCEPT ![x] = 2]
      /\ calls' = Append(calls, f)
      /\ UNCHANGED <<terminator_ran, val, host, closed>>
  BY <1>4, <1>5 DEF New
<1>7. ~closed
  <2>1. ~Has(Range(calls), "collect")
    BY DEF New, MayCreate, Collecting, Has, Range
  <2>. QED
    BY <1>1, <2>1, WhatIsInnermost DEF Scripts
<1>8. /\ born \in 0..MaxObjects /\ MaxObjects \in Nat /\ x \in Object /\ x \notin live /\ x # None
      /\ \A y \in Object : y > x => y > born
      /\ 1..born \subseteq 1..x /\ x \in 1..x /\ x \in 0..MaxObjects /\ x > born
  BY <1>4, <1>6, ObjectsAssumption DEF ObjectsInv, Base, Object, None
<1>9. val[x] = None
  BY <1>8 DEF ObjectsInv, Fresh
<1>10. /\ f \in Frames /\ f.op = "initialize" /\ f.obj = x /\ f.loc = None
       /\ Formed(f) /\ f.op \notin Clears /\ f.op \notin Releases
  BY <1>5, <1>8 DEF Call, Frame, Frames, Ops, Formed, Clears, Releases
<1>11. Sound(live', val', ref', host', calls')
  <2>1. PICK r : r = [ref EXCEPT ![x] = 0]
    OBVIOUS
  <2>2. Sound(live \cup {x}, val, r, host, calls)
    BY <1>1, <1>8, <1>9, <2>1, SoundGrows
  <2>3. ref \in [Object -> Nat]
    BY <1>1 DEF Sound, Typed
  <2>4. ref' \in [Object -> Nat]
    BY <1>6, <2>3
  <2>5. \A y \in live \cup {x} : ref'[y] = r[y] + Weight(f, y)
    <3>. SUFFICES ASSUME NEW y \in live \cup {x} PROVE ref'[y] = r[y] + Weight(f, y)
      OBVIOUS
    <3>1. Weight(f, y) = IF y = x THEN 2 ELSE 0
      BY <1>10 DEF Weight, Held
    <3>2. y \in Object /\ ref[y] \in Nat
      BY <1>1, <1>8, <2>3, Apartness
    <3>3. ref'[y] = (IF y = x THEN 2 ELSE ref[y]) /\ r[y] = (IF y = x THEN 0 ELSE ref[y])
      BY <1>6, <2>1, <2>3, <3>2
    <3>. QED
      BY <3>1, <3>2, <3>3
  <2>6. x \notin CleaningIn(calls)
    BY <1>1, <1>8 DEF Sound, Alive, CleaningIn
  <2>7. IF calls = <<>> THEN Bottom(f) ELSE On(val, calls[Len(calls)], f)
    BY <1>3, <1>10 DEF On
  <2>8. f.op # "clean" /\ f.obj \in live \cup {x} \cup {None} /\ f.obj \notin CleaningIn(calls)
    BY <1>10, <2>6
  <2>9. f \in Frames /\ Formed(f) /\ f.op \notin Clears /\ f.op \notin Releases
    BY <1>10
  <2>10. Sound(live \cup {x}, val, ref', host, Append(calls, f))
    BY <2>2, <2>4, <2>5, <2>7, <2>8, <2>9, SoundPush
  <2>. QED
    BY <1>6, <2>10
<1>12. Base' /\ Fresh'
  <2>1. Base'
    BY <1>6, <1>8 DEF ObjectsInv, Base
  <2>2. Fresh'
    BY <1>6, <1>8 DEF ObjectsInv, Fresh
  <2>. QED
    BY <2>1, <2>2
<1>13. calls' \in Seq(Frames) /\ Range(calls') = Range(calls) \cup {f}
  BY <1>3, <1>6, <1>10, RangePush
<1>14. Accounted'
  <2>. SUFFICES ASSUME NEW y \in live', ref'[y] = 0
                PROVE  \/ \E g \in Range(calls') : g.op \in Releases /\ g.obj = y
                       \/ y \in linked' /\ Has(Range(calls'), "detach")
    BY DEF Accounted
  <2>1. y \in live /\ ref[y] = 0
    <3>1. ref \in [Object -> Nat]
      BY <1>1 DEF Sound, Typed
    <3>. QED
      BY <1>6, <1>8, <3>1
  <2>2. \/ \E g \in Range(calls) : g.op \in Releases /\ g.obj = y
        \/ y \in linked /\ Has(Range(calls), "detach")
    BY <2>1 DEF ObjectsInv, Accounted
  <2>. QED
    BY <1>6, <1>13, <2>2 DEF Has
<1>15. Phases'
  <2>1. Phases /\ linked = live /\ live \subseteq desc
    BY <1>7 DEF ObjectsInv, Phases, OpenSound
  <2>2. \A g \in Range(calls') : g \in Range(calls) \/ g.op \notin {"globals", "detach", "collect"}
    BY <1>10, <1>13
  <2>3. closed' = closed /\ linked' = live' /\ live' \subseteq desc'
    BY <1>6, <2>1
  <2>. QED
    BY <1>7, <1>13, <2>1, <2>2, <2>3, OpenKeeps
<1>. QED
  BY <1>11, <1>12, <1>14, <1>15 DEF ObjectsInv

\* What a terminator and an initializer hold.
LEMMA HoldsTwo ==
  ASSUME Sound(live, val, ref, host, calls), ~Idle, Top.op \in {"initialize", "terminate"},
         NEW d \in {-1, -2}
  PROVE  /\ Top.obj \in live /\ ref[Top.obj] \in Nat /\ ref[Top.obj] >= 2
         /\ Counted(ref, Top.obj, d) \in [Object -> Nat]
         /\ Top.obj \notin CleaningIn(calls)
         /\ Sound(live, val, Counted(ref, Top.obj, -2), host, Return)
<1>1. PICK x, t, s : x = Top.obj /\ t = Top /\ s = Counted(ref, x, -2)
  OBVIOUS
<1>2. /\ x \in live /\ calls \in Seq(Frames) /\ calls # <<>> /\ t = calls[Len(calls)]
      /\ Return = Front(calls)
      /\ t.op \in {"initialize", "terminate"} /\ t.obj = x /\ t.loc = None /\ x # None
  BY <1>1, CallStep DEF Formed, Clears
<1>3. live \in SUBSET Object /\ ref \in [Object -> Nat]
  BY DEF Sound, Typed
<1>4. \A y : Weight(t, y) = IF y = x THEN 2 ELSE 0
  BY <1>2 DEF Weight, Held
<1>5. ref[x] \in Nat /\ ref[x] >= 2
  <2>1. ref[x] \in Nat /\ ref[x] >= Weight(t, x)
    BY <1>1, <1>2, StoreHolds
  <2>. QED
    BY <1>4, <2>1
<1>6. Counted(ref, x, d) \in [Object -> Nat]
  <2>1. Enough(ref, x, d)
    BY <1>5 DEF Enough
  <2>2. x \in Object \cup {None} /\ d \in Int
    BY <1>2, <1>3
  <2>. QED
    BY <1>3, <2>1, <2>2, CountedNat
<1>7. /\ s \in [Object -> Nat]
      /\ \A y \in Object : y # x => s[y] = ref[y]
      /\ s[x] = ref[x] - 2
  BY <1>1, <1>2, <1>3, <1>5 DEF Counted
<1>8. Sound(live, val, s, host, Front(calls))
  <2>1. \A y \in live : ref[y] = s[y] + Weight(t, y)
    BY <1>3, <1>4, <1>5, <1>7
  <2>2. t.op \notin Clears
    BY <1>2 DEF Clears
  <2>3. s \in [Object -> Nat]
    BY <1>7
  <2>. QED
    BY <1>2, <2>1, <2>2, <2>3, SoundPop
<1>9. x \notin CleaningIn(calls)
  <2>1. ref[x] >= 1
    BY <1>5
  <2>. QED
    BY <1>2, <2>1, NotCleaning
<1>. QED
  BY <1>1, <1>2, <1>5, <1>6, <1>8, <1>9

\* Class_Initialize is done.
LEMMA CreatedKeeps ==
  ASSUME ObjectsInv, Careful, Created
  PROVE  ObjectsInv'
<1>1. Scripting /\ ~Idle /\ Top.op = "initialize" /\ Sound(live, val, ref, host, calls)
  BY DEF Created, Scripting, Is, ObjectsInv
<1>2. PICK R, t, x, s : R = Return /\ t = Top /\ x = Top.obj /\ s = Counted(ref, x, -2)
  OBVIOUS
<1>3. /\ calls \in Seq(Frames) /\ R \in Seq(Frames) /\ t \in Frames
      /\ Range(calls) = Range(R) \cup {t}
      /\ t.op = "initialize" /\ t.obj = x
      /\ IF R = <<>> THEN Bottom(t) ELSE On(val, R[Len(R)], t)
      /\ ClearingIn(calls) = ClearingIn(R) /\ CleaningIn(calls) = CleaningIn(R)
  BY <1>1, <1>2, CallStep DEF Clears
<1>4. R # <<>> /\ R[Len(R)].op \in Scripts
  BY <1>3 DEF Bottom, On, Scripts, Clears, Releases
<1>5. PICK l \in {k \in Var \cup Known : Settled(k)} : StoreFrom(R, Counted(ref, x, -1), l, x)
  BY <1>2 DEF Created
<1>6. UNCHANGED <<born, live, linked, desc, terminating, terminator_ran, val, host, closed>>
  BY DEF Created
<1>7. /\ x \in live /\ ref[x] \in Nat /\ ref[x] >= 2 /\ x \notin CleaningIn(calls)
      /\ Sound(live, val, s, host, R)
  BY <1>1, <1>2, HoldsTwo
<1>8. l \in Var \cup live /\ l \notin ClearingIn(calls) /\ Owner(l) \notin CleaningIn(calls)
  BY <1>1, <1>5, KnownLive
<1>9. /\ Counted(s, x, 1) = Counted(ref, x, -1)
      /\ \A y \in live : s[y] = 0 => y = x \/ ref[y] = 0
  <2>1. ref \in [Object -> Nat] /\ live \in SUBSET Object /\ x # None
    BY <1>1, <1>7 DEF Sound, Typed, Object, None
  <2>. QED
    BY <1>2, <1>7, <2>1 DEF Counted
<1>10. /\ Sound(live, val, ref', host, calls')
       /\ calls' \in Seq(Frames) /\ calls' # <<>>
       /\ Range(R) \subseteq Range(calls')
       /\ \A f \in Range(calls') : f \in Range(R) \/ f.op \in {"store", "release"}
       /\ \A y \in live : ref'[y] = 0 =>
            s[y] = 0 \/ \E f \in Range(calls') : f.op \in Releases /\ f.obj = y
       /\ x # None => ref'[x] # 0
  <2>1. StoreFrom(R, Counted(s, x, 1), l, x)
    BY <1>5, <1>9
  <2>2. l \notin ClearingIn(R) /\ Owner(l) \notin CleaningIn(R) /\ x \notin CleaningIn(R)
        /\ x \in live \cup {None}
    BY <1>3, <1>7, <1>8
  <2>. QED
    BY <1>4, <1>7, <1>8, <2>1, <2>2, StoreStep
<1>11. Sound(live', val', ref', host', calls')
  BY <1>6, <1>10
<1>12. /\ Base' /\ Fresh' /\ Accounted'
       /\ ~closed => Phases'
  <2>1. x # None
    BY <1>7, <1>1, Apartness
  <2>2. \A y \in live : s[y] = 0 /\ ref'[y] = 0 => ref[y] = 0
    BY <1>9, <1>10, <2>1
  <2>. QED
    BY <1>3, <1>6, <1>10, <2>2, StoreKeeps
<1>13. ~closed
  BY <1>1, WhatIsInnermost
<1>. QED
  BY <1>11, <1>12, <1>13 DEF ObjectsInv

\* Nothing is done with the new object.
LEMMA NotCreatedKeeps ==
  ASSUME ObjectsInv, Careful, NotCreated
  PROVE  ObjectsInv'
<1>1. ~Idle /\ Top.op = "initialize" /\ Sound(live, val, ref, host, calls)
  BY DEF NotCreated, Is, ObjectsInv
<1>2. PICK R, t, x, r : R = Return /\ t = Top /\ x = Top.obj /\ r = Counted(ref, x, -1)
  OBVIOUS
<1>3. /\ calls \in Seq(Frames) /\ R \in Seq(Frames) /\ t \in Frames
      /\ Range(calls) = Range(R) \cup {t}
      /\ t.op = "initialize" /\ t.obj = x
      /\ IF R = <<>> THEN Bottom(t) ELSE On(val, R[Len(R)], t)
      /\ CleaningIn(calls) = CleaningIn(R)
  BY <1>1, <1>2, CallStep DEF Clears
<1>4. R # <<>> /\ R[Len(R)].op \in Scripts
  BY <1>3 DEF Bottom, On, Scripts, Clears, Releases
<1>5. /\ ref' = Counted(r, x, -1) /\ calls' = R \o Released(r, x)
      /\ UNCHANGED <<born, live, linked, desc, terminating, terminator_ran, val, host, closed>>
  BY <1>2 DEF NotCreated
<1>6. /\ x \in live /\ ref[x] \in Nat /\ ref[x] >= 2 /\ x \notin CleaningIn(calls)
      /\ Sound(live, val, Counted(ref, x, -2), host, R) /\ r \in [Object -> Nat]
  <2>1. -1 \in {-1, -2}
    OBVIOUS
  <2>. QED
    BY <1>1, <1>2, <2>1, HoldsTwo
<1>7. ref \in [Object -> Nat] /\ live \in SUBSET Object /\ x # None /\ x \in Object
  BY <1>1, <1>6 DEF Sound, Typed, Object, None
<1>8. /\ Counted(r, x, -1) = Counted(ref, x, -2)
      /\ \A y \in live : ref'[y] = 0 => ref[y] = 0 \/ (y = x /\ r[x] = 1)
  BY <1>2, <1>5, <1>6, <1>7 DEF Counted
<1>9. Sound(live, val, ref', host, calls')
  <2>1. Sound(live, val, Counted(r, x, -1), host, R)
    BY <1>6, <1>8
  <2>2. R[Len(R)].op # "release" /\ On(val, R[Len(R)], Call("release", x))
    BY <1>4 DEF On, Scripts, Releases, Call, Frame
  <2>3. r \in [Object -> Int] /\ x \in live \cup {None} /\ x \notin CleaningIn(R)
    BY <1>3, <1>6
  <2>4. Sound(live, val, Counted(r, x, -1), host, R \o Released(r, x))
    BY <2>1, <2>2, <2>3, SoundReleased
  <2>. QED
    BY <1>5, <2>4
<1>10. Sound(live', val', ref', host', calls')
  BY <1>5, <1>9
<1>11. /\ Range(calls') = Range(R) \cup (IF x # None /\ r[x] = 1 THEN {Call("release", x)} ELSE {})
       /\ calls' \in Seq(Frames)
  <2>1. x \in Object \cup {None} /\ R \in Seq(Frames)
    BY <1>3, <1>7
  <2>. QED
    BY <1>5, <2>1, ReleasedRange
<1>12. PICK f : f = Call("release", x)
  OBVIOUS
<1>12a. f.op = "release" /\ f.obj = x
  BY <1>12 DEF Call, Frame
<1>13. /\ Range(R) \subseteq Range(calls')
       /\ \A g \in Range(calls') : g \in Range(R) \/ g.op \in {"store", "release"}
       /\ \A y \in live : ref'[y] = 0 => ref[y] = 0 \/ \E g \in Range(calls') : g.op \in Releases /\ g.obj = y
  BY <1>7, <1>8, <1>11, <1>12, <1>12a DEF Releases
<1>14. /\ Base' /\ Fresh' /\ Accounted'
       /\ ~closed => Phases'
  BY <1>3, <1>5, <1>11, <1>13, StoreKeeps
<1>15. ~closed
  BY <1>1, WhatIsInnermost
<1>. QED
  BY <1>10, <1>14, <1>15 DEF ObjectsInv

\* Class_Terminate returns.
LEMMA TerminatedKeeps ==
  ASSUME ObjectsInv, Careful, Terminated
  PROVE  ObjectsInv'
<1>1. ~Idle /\ Top.op = "terminate" /\ Sound(live, val, ref, host, calls)
  BY DEF Terminated, Is, ObjectsInv
<1>2. PICK R, t, x : R = Return /\ t = Top /\ x = Top.obj
  OBVIOUS
<1>3. /\ calls \in Seq(Frames) /\ R \in Seq(Frames) /\ t \in Frames
      /\ Range(calls) = Range(R) \cup {t}
      /\ t.op = "terminate" /\ t.obj = x
      /\ IF R = <<>> THEN Bottom(t) ELSE On(val, R[Len(R)], t)
  BY <1>1, <1>2, CallStep
<1>4. /\ R # <<>>
      /\ (R[Len(R)].op = "release" /\ R[Len(R)].obj = x) \/ R[Len(R)].op = "collect"
      /\ R[Len(R)] \in Range(R)
  BY <1>3, TopIn DEF Bottom, On, Scripts, Clears, Releases
<1>5. /\ ref' = Counted(ref, x, -2) /\ calls' = R
      /\ UNCHANGED <<born, live, linked, desc, terminating, terminator_ran, val, host, closed>>
  BY <1>2 DEF Terminated
<1>6. x \in live /\ Sound(live, val, ref', host, R)
  <2>1. -1 \in {-1, -2}
    OBVIOUS
  <2>. QED
    BY <1>1, <1>2, <1>5, <2>1, HoldsTwo
<1>7. Sound(live', val', ref', host', calls')
  BY <1>5, <1>6
<1>8. Base' /\ Fresh'
  BY <1>5 DEF ObjectsInv, Base, Fresh
<1>9. ASSUME Has(Range(calls), "collect")
      PROVE  /\ closed /\ linked = live /\ live \subseteq desc /\ Has(Range(R), "detach")
             /\ \E c \in linked \cup {None} :
                  /\ \A y \in linked : c = None \/ y < c => y \in terminator_ran
                  /\ R = Loops(c)
  <2>0. CollectSound
    BY DEF ObjectsInv, Phases
  <2>1. closed /\ linked = live /\ live \subseteq desc /\ Has(Range(calls), "detach")
    BY <1>1, <1>9, <2>0, Collects
  <2>2. PICK c \in linked \cup {None} :
            /\ \A y \in linked : c = None \/ y < c => y \in terminator_ran
            /\ Stands(live, ref, calls, c, t, R)
    BY <1>1, <1>2, <1>9, <2>0, Collects
  <2>3. R = Loops(c)
    <3>1. t # Call("collect", c) /\ t.op # "store"
      BY <1>3 DEF Call, Frame
    <3>. QED
      BY <2>2, <3>1 DEF Stands
  <2>4. Has(Range(R), "detach")
    BY <1>3, <2>1 DEF Has
  <2>. QED
    BY <2>1, <2>2, <2>3, <2>4
<1>10. Accounted'
  <2>. SUFFICES ASSUME NEW y \in live, ref'[y] = 0
                PROVE  \/ \E g \in Range(R) : g.op \in Releases /\ g.obj = y
                       \/ y \in linked /\ Has(Range(R), "detach")
    BY <1>5 DEF Accounted
  <2>1. CASE y = x
    <3>1. R[Len(R)].op = "collect" => Has(Range(calls), "collect")
      BY <1>3, <1>4 DEF Has
    <3>. QED
      BY <1>4, <1>9, <2>1, <3>1 DEF Releases
  <2>2. CASE y # x
    <3>1. ref[y] = 0
      <4>1. ref \in [Object -> Nat] /\ live \in SUBSET Object
        BY <1>1 DEF Sound, Typed
      <4>. QED
        BY <1>5, <2>2, <4>1 DEF Counted
    <3>2. \/ \E f \in Range(calls) : f.op \in Releases /\ f.obj = y
          \/ y \in linked /\ Has(Range(calls), "detach")
      BY <3>1 DEF ObjectsInv, Accounted
    <3>. QED
      BY <1>3, <3>2 DEF Has, Releases
  <2>. QED
    BY <2>1, <2>2
<1>11. ASSUME ~closed PROVE Phases'
  <2>1. Phases /\ linked = live /\ live \subseteq desc
    BY <1>11 DEF ObjectsInv, Phases, OpenSound
  <2>2. \A g \in Range(calls') : g \in Range(calls) \/ g.op \notin {"globals", "detach", "collect"}
    BY <1>3, <1>5
  <2>3. closed' = closed /\ linked' = live' /\ live' \subseteq desc' /\ calls' \in Seq(Frames)
    BY <1>3, <1>5, <2>1
  <2>. QED
    BY <1>11, <2>1, <2>2, <2>3, OpenKeeps
<1>12. ASSUME Has(Range(calls), "collect") PROVE Phases'
  <2>1. PICK c \in linked \cup {None} :
            /\ \A y \in linked : c = None \/ y < c => y \in terminator_ran
            /\ R = Loops(c)
    BY <1>9, <1>12
  <2>2. Within(live', ref', calls', c)
    BY <1>5, <2>1 DEF Within
  <2>3. closed' /\ linked' = live' /\ live' \subseteq desc' /\ c \in linked' \cup {None}
        /\ \A y \in linked' : c = None \/ y < c => y \in terminator_ran'
    BY <1>5, <1>9, <1>12, <2>1
  <2>. QED
    BY <1>7, <2>2, <2>3, CollectStep
<1>13. Phases'
  BY <1>1, <1>11, <1>12, WhatIsInnermost
<1>. QED
  BY <1>7, <1>8, <1>10, <1>13 DEF ObjectsInv

-------------------------------------------------------------------------------
(***************************************************************************)
(* The host                                                                *)
(***************************************************************************)

\* Without a call nothing is cleared or taken apart.
LEMMA IdleFacts ==
  ASSUME Idle
  PROVE  /\ calls = <<>> /\ Range(calls) = {} /\ ~Has(Range(calls), "collect")
         /\ CleaningIn(calls) = {} /\ ClearingIn(calls) = {}
         /\ \A s : s \in [Object -> Nat] => Unused(s, calls)
<1>1. calls = <<>> /\ DOMAIN calls = {}
  BY DEF Idle
<1>. QED
  BY <1>1 DEF Range, Has, CleaningIn, ClearingIn, Unused

\* A call of the host.
LEMMA EnterKeeps ==
  ASSUME ObjectsInv, Careful, Enter
  PROVE  ObjectsInv'
<1>1. Idle /\ ~closed /\ Sound(live, val, ref, host, calls)
      /\ calls' = <<Call("script", None)>>
      /\ UNCHANGED <<born, live, linked, desc, terminating, terminator_ran, ref, val, host, closed>>
  BY DEF Enter, ObjectsInv
<1>2. PICK f : f = Call("script", None)
  OBVIOUS
<1>3. f \in Frames /\ f.op = "script" /\ f.obj = None /\ f.loc = None
  BY <1>2 DEF Call, Frame, Frames, Ops
<1>4. /\ Formed(f) /\ Holdless(f) /\ Bottom(f) /\ f.op \notin Releases /\ f.op # "clean"
      /\ f.obj \in live \cup {None}
  BY <1>3 DEF Formed, Holdless, Bottom, Releases, Clears
<1>5. calls = <<>> /\ Range(calls) = {} /\ calls \in Seq(Frames)
  BY <1>1, IdleFacts DEF Sound, Typed
<1>6. calls' = Append(calls, f) /\ calls' \in Seq(Frames) /\ Range(calls') = {f}
  <2>1. Append(<<>>, f) = <<f>>
    OBVIOUS
  <2>2. calls' = Append(calls, f)
    BY <1>1, <1>2, <1>5, <2>1
  <2>3. calls \in Seq(Frames) /\ f \in Frames
    BY <1>3, <1>5
  <2>4. Append(calls, f) \in Seq(Frames) /\ Range(Append(calls, f)) = Range(calls) \cup {f}
    BY <2>3, RangePush
  <2>. QED
    BY <1>5, <2>2, <2>4
<1>7. Sound(live', val', ref', host', calls')
  <2>1. Sound(live, val, ref, host, Append(calls, f))
    BY <1>1, <1>3, <1>4, <1>5, SoundEnter
  <2>. QED
    BY <1>1, <1>6, <2>1
<1>8. Base' /\ Fresh' /\ Accounted'
  BY <1>1, <1>5 DEF ObjectsInv, Base, Fresh, Accounted, Has
<1>9. Phases'
  <2>1. Phases /\ linked = live /\ live \subseteq desc
    BY <1>1 DEF ObjectsInv, Phases, OpenSound
  <2>2. \A g \in Range(calls') : g.op \notin {"globals", "detach", "collect"}
    BY <1>3, <1>6
  <2>3. closed' = closed /\ linked' = live' /\ live' \subseteq desc'
    BY <1>1, <2>1
  <2>. QED
    BY <1>1, <1>6, <2>1, <2>2, <2>3, OpenKeeps
<1>. QED
  BY <1>7, <1>8, <1>9 DEF ObjectsInv

LEMMA LeaveKeeps ==
  ASSUME ObjectsInv, Careful, Leave
  PROVE  ObjectsInv'
<1>1. ~Idle /\ Top.op = "script" /\ Sound(live, val, ref, host, calls)
  BY DEF Leave, Is, ObjectsInv
<1>2. PICK R, t : R = Return /\ t = Top
  OBVIOUS
<1>3. /\ calls \in Seq(Frames) /\ calls # <<>> /\ t = calls[Len(calls)] /\ R = Front(calls)
      /\ R \in Seq(Frames) /\ Range(calls) = Range(R) \cup {t} /\ t.op = "script"
  BY <1>1, <1>2, CallStep
<1>4. /\ calls' = R
      /\ UNCHANGED <<born, live, linked, desc, terminating, terminator_ran, ref, val, host, closed>>
  BY <1>2 DEF Leave
<1>5. Sound(live', val', ref', host', calls')
  <2>1. Holdless(calls[Len(calls)])
    BY <1>3 DEF Holdless
  <2>2. Sound(live, val, ref, host, Front(calls))
    BY <1>1, <1>3, <2>1, SoundReturn
  <2>. QED
    BY <1>3, <1>4, <2>2
<1>6. Base' /\ Fresh' /\ Accounted'
  BY <1>3, <1>4 DEF ObjectsInv, Base, Fresh, Accounted, Has, Releases
<1>7. Phases'
  <2>0. ~closed
    BY <1>1, WhatIsInnermost
  <2>1. Phases /\ linked = live /\ live \subseteq desc
    BY <2>0 DEF ObjectsInv, Phases, OpenSound
  <2>2. \A g \in Range(calls') : g \in Range(calls) \/ g.op \notin {"globals", "detach", "collect"}
    BY <1>3, <1>4
  <2>3. closed' = closed /\ linked' = live' /\ live' \subseteq desc' /\ calls' \in Seq(Frames)
    BY <1>3, <1>4, <2>1
  <2>. QED
    BY <2>0, <2>1, <2>2, <2>3, OpenKeeps
<1>. QED
  BY <1>5, <1>6, <1>7 DEF ObjectsInv

\* The host gets a reference.
LEMMA TakeKeeps ==
  ASSUME ObjectsInv, Careful, Take
  PROVE  ObjectsInv'
<1>1. Idle /\ ~closed /\ Sound(live, val, ref, host, calls)
      /\ UNCHANGED <<born, live, linked, desc, terminating, terminator_ran, val, calls, closed>>
  BY DEF Take, ObjectsInv
<1>2. PICK v \in Var : /\ val[v] # None /\ val[v] \notin host
                       /\ host' = host \cup {val[v]}
                       /\ ref' = Counted(ref, val[v], 1)
  BY DEF Take
<1>3. PICK x : x = val[v]
  OBVIOUS
<1>4. calls = <<>> /\ Range(calls) = {} /\ \A s : s \in [Object -> Nat] => Unused(s, calls)
  BY <1>1, IdleFacts
<1>5. x \in live /\ x # None /\ x \notin host
  <2>1. val[v] \in live \cup {None}
    BY <1>1, <1>4, Refers
  <2>. QED
    BY <1>2, <1>3, <2>1
<1>6. live \in SUBSET Object /\ ref \in [Object -> Nat] /\ host \in SUBSET live
  BY <1>1 DEF Sound, Typed
<1>7. /\ ref' \in [Object -> Nat]
      /\ \A y \in Object : ref'[y] = IF y = x THEN ref[y] + 1 ELSE ref[y]
  BY <1>2, <1>3, <1>5, <1>6 DEF Counted
<1>8. Sound(live, val, ref', host', calls)
  <2>1. \A y \in live : ref'[y] + Hosted(host, y) = ref[y] + Hosted(host', y)
    BY <1>2, <1>3, <1>5, <1>6, <1>7 DEF Hosted
  <2>2. host' \in SUBSET live /\ Unused(ref', calls) /\ ref' \in [Object -> Nat]
    BY <1>2, <1>3, <1>4, <1>5, <1>6, <1>7
  <2>. QED
    BY <1>1, <2>1, <2>2, SoundHost
<1>9. Sound(live', val', ref', host', calls')
  BY <1>1, <1>8
<1>10. Base' /\ Fresh'
  BY <1>1 DEF ObjectsInv, Base, Fresh
<1>11. Accounted'
  <2>1. \A y \in live : ref'[y] = 0 => ref[y] = 0
    BY <1>6, <1>7
  <2>. QED
    BY <1>1, <2>1 DEF ObjectsInv, Accounted, Has
<1>12. Phases'
  <2>1. Phases /\ linked = live /\ live \subseteq desc
    BY <1>1 DEF ObjectsInv, Phases, OpenSound
  <2>2. \A g \in Range(calls') : g \in Range(calls) \/ g.op \notin {"globals", "detach", "collect"}
    BY <1>1
  <2>3. closed' = closed /\ linked' = live' /\ live' \subseteq desc' /\ calls' \in Seq(Frames)
    BY <1>1, <2>1 DEF Sound, Typed
  <2>. QED
    BY <1>1, <2>1, <2>2, <2>3, OpenKeeps
<1>. QED
  BY <1>9, <1>10, <1>11, <1>12 DEF ObjectsInv

\* The host lets an object go.
LEMMA DropKeeps ==
  ASSUME ObjectsInv, Careful, Drop
  PROVE  ObjectsInv'
<1>1. Idle /\ Sound(live, val, ref, host, calls)
      /\ UNCHANGED <<born, live, linked, desc, terminating, terminator_ran, val, closed>>
  BY DEF Drop, ObjectsInv
<1>2. PICK x \in host : host' = host \ {x} /\ ref' = Counted(ref, x, -1) /\ calls' = Released(ref, x)
  BY DEF Drop
<1>3. /\ calls = <<>> /\ Range(calls) = {} /\ CleaningIn(calls) = {} /\ ~Has(Range(calls), "collect")
      /\ \A s : s \in [Object -> Nat] => Unused(s, calls)
  BY <1>1, IdleFacts
<1>4. live \in SUBSET Object /\ ref \in [Object -> Nat] /\ host \in SUBSET live /\ calls \in Seq(Frames)
  BY <1>1 DEF Sound, Typed
<1>5. x \in live /\ x \in Object /\ x # None /\ ref[x] \in Nat /\ ref[x] >= 1
  <2>1. x \in live /\ None \notin Object
    BY <1>1, <1>4, Apartness
  <2>2. ref[x] >= 1
    BY <1>1, <2>1, CountedRef
  <2>. QED
    BY <1>4, <2>1, <2>2
<1>6. /\ ref' \in [Object -> Nat]
      /\ \A y \in Object : ref'[y] = IF y = x THEN ref[y] - 1 ELSE ref[y]
  BY <1>2, <1>4, <1>5 DEF Counted
<1>7. calls' = calls \o Released(ref, x)
  <2>1. calls \o Released(ref, x) = IF x # None /\ ref[x] = 1 THEN Append(calls, Call("release", x)) ELSE calls
    BY <1>4, <1>5, ReleasedIs
  <2>. QED
    BY <1>2, <1>3, <2>1 DEF Released
<1>8. Sound(live', val', ref', host', calls')
  <2>1. Sound(live, val, ref', host', calls)
    <3>1. \A y \in live : ref'[y] + Hosted(host, y) = ref[y] + Hosted(host', y)
      BY <1>2, <1>4, <1>5, <1>6 DEF Hosted
    <3>2. host' \in SUBSET live /\ Unused(ref', calls) /\ ref' \in [Object -> Nat]
      BY <1>2, <1>3, <1>4, <1>6
    <3>. QED
      BY <1>1, <3>1, <3>2, SoundHost
  <2>2. Sound(live, val, Counted(ref, x, -1), host', calls)
    BY <1>2, <2>1
  <2>3. x \in live \cup {None} /\ ref \in [Object -> Int] /\ x \notin CleaningIn(calls) /\ calls = <<>>
    BY <1>3, <1>4, <1>5
  <2>4. Sound(live, val, Counted(ref, x, -1), host', calls \o Released(ref, x))
    BY <2>2, <2>3, SoundReleased
  <2>. QED
    BY <1>1, <1>2, <1>7, <2>4
<1>9. /\ Range(calls') = Range(calls) \cup (IF x # None /\ ref[x] = 1 THEN {Call("release", x)} ELSE {})
      /\ calls' \in Seq(Frames)
      /\ calls' = <<>> \/ calls'[Len(calls')] = Call("release", x)
  <2>1. x \in Object \cup {None} /\ calls \in Seq(Frames)
    BY <1>4, <1>5
  <2>2. /\ Range(calls \o Released(ref, x)) =
             Range(calls) \cup (IF x # None /\ ref[x] = 1 THEN {Call("release", x)} ELSE {})
        /\ calls \o Released(ref, x) \in Seq(Frames)
        /\ calls \o Released(ref, x) = calls
           \/ (calls \o Released(ref, x))[Len(calls \o Released(ref, x))] = Call("release", x)
    BY <2>1, ReleasedRange
  <2>. QED
    BY <1>3, <1>7, <2>2
<1>10. PICK f : f = Call("release", x)
  OBVIOUS
<1>11. f.op = "release" /\ f.obj = x
  BY <1>10 DEF Call, Frame
<1>12. Base' /\ Fresh'
  BY <1>1 DEF ObjectsInv, Base, Fresh
<1>13. Accounted'
  <2>. SUFFICES ASSUME NEW y \in live, ref'[y] = 0
                PROVE  \E g \in Range(calls') : g.op \in Releases /\ g.obj = y
    BY <1>1 DEF Accounted
  <2>1. ref[y] # 0
    BY <1>3 DEF ObjectsInv, Accounted, Has
  <2>2. y = x /\ ref[x] = 1
    BY <1>4, <1>5, <1>6, <2>1
  <2>. QED
    BY <1>5, <1>9, <1>10, <1>11, <2>2 DEF Releases
<1>14. \A g \in Range(calls') : g = f
  BY <1>3, <1>9, <1>10
<1>15. Phases'
  <2>0. Phases
    BY DEF ObjectsInv
  <2>1. ASSUME ~closed PROVE Phases'
    <3>1. linked = live /\ live \subseteq desc
      BY <2>0, <2>1 DEF Phases, OpenSound
    <3>2. \A g \in Range(calls') : g.op \notin {"globals", "detach", "collect"}
      BY <1>11, <1>14
    <3>3. closed' = closed /\ linked' = live' /\ live' \subseteq desc'
      BY <1>1, <3>1
    <3>. QED
      BY <1>9, <2>0, <2>1, <3>2, <3>3, OpenKeeps
  <2>2. ASSUME closed PROVE Phases'
    <3>1. \A g \in Range(calls') : g.op \in {"clear", "release"}
      BY <1>11, <1>14
    <3>2. calls' # <<>> => calls'[Len(calls')].op \in {"clear", "release"}
      BY <1>9, <1>10, <1>11
    <3>. QED
      BY <1>1, <1>3, <1>9, <2>0, <2>2, <3>1, <3>2, EndingStep
  <2>. QED
    BY <2>1, <2>2
<1>. QED
  BY <1>8, <1>12, <1>13, <1>15 DEF ObjectsInv

\* The object that the first loop goes to next.
LEMMA NextIs ==
  ASSUME linked \in SUBSET Object, NEW x \in Object \cup {None}, NEW c, c = NextLinked(x)
  PROVE  /\ c \in linked \cup {None} /\ c \in Object \cup {None}
         /\ \A y \in linked : c = None \/ y < c => ~(y > x)
<1>1. PICK later : later = {y \in linked : y > x}
  OBVIOUS
<1>2. /\ linked \in SUBSET Nat /\ later \in SUBSET Nat /\ later \subseteq linked
      /\ \A y \in linked : y \in later <=> y > x
  <2>1. Object \in SUBSET Nat
    BY ObjectsAssumption DEF Object
  <2>2. later \subseteq linked /\ \A y \in linked : y \in later <=> y > x
    BY <1>1
  <2>. QED
    BY <2>1, <2>2
<1>3. c = IF later = {} THEN None ELSE Min(later)
  BY <1>1 DEF NextLinked
<1>4. CASE later = {}
  BY <1>1, <1>3, <1>4
<1>5. CASE later # {}
  <2>1. c \in later /\ \A y \in later : c <= y
    <3>1. Min(later) \in later /\ \A y \in later : Min(later) <= y
      BY <1>2, <1>5, MinIsLeast
    <3>. QED
      BY <1>3, <1>5, <3>1
  <2>2. c # None
    BY <1>2, <2>1 DEF None, Object
  <2>3. \A y \in linked : y < c => y \notin later
    BY <1>2, <2>1
  <2>4. c \in Object
    BY <1>2, <2>1
  <2>. QED
    BY <1>2, <2>1, <2>2, <2>3, <2>4
<1>. QED
  BY <1>4, <1>5

\* release_script begins.
LEMMA CloseKeeps ==
  ASSUME ObjectsInv, Careful, Close
  PROVE  ObjectsInv'
<1>1. Idle /\ ~closed /\ closed' = TRUE /\ Sound(live, val, ref, host, calls)
      /\ UNCHANGED <<born, live, linked, desc, terminating, terminator_ran, ref, val, host>>
  BY DEF Close, ObjectsInv
<1>2. PICK c, g, d, f : /\ c = NextLinked(None) /\ g = Call("globals", None) /\ d = Call("detach", None)
                        /\ f = Call("collect", c)
  OBVIOUS
<1>3. /\ calls' = Loops(c)
      /\ linked = live /\ live \subseteq desc /\ live \in SUBSET Object
  BY <1>1, <1>2 DEF Close, Loops, ObjectsInv, Phases, OpenSound, Sound, Typed
<1>4. /\ c \in linked \cup {None} /\ c \in Object \cup {None}
      /\ \A y \in linked : c = None \/ y < c => ~(y > None)
  BY <1>2, <1>3, NextIs
<1>5. calls = <<>> /\ Range(calls) = {}
  BY <1>1, IdleFacts
<1>6. /\ Loops(c) \in Seq(Frames) /\ Loops(c) = Append(<<g, d>>, f) /\ <<g, d>> = Append(Append(<<>>, g), d)
      /\ g \in Frames /\ d \in Frames /\ f \in Frames
  BY <1>2, <1>4, LoopsParts
<1>7. /\ g.op = "globals" /\ g.obj = None /\ g.loc = None
      /\ d.op = "detach" /\ d.obj = None /\ d.loc = None
      /\ f.op = "collect" /\ f.obj = c /\ f.loc = None
  BY <1>2 DEF Call, Frame
<1>8. Sound(live, val, ref, host, Loops(c))
  <2>1. PICK a, b : a = Append(<<>>, g) /\ b = Append(a, d)
    OBVIOUS
  <2>2. Sound(live, val, ref, host, a)
    <3>1. Formed(g) /\ Holdless(g) /\ Bottom(g) /\ g.op \notin Releases /\ g.op # "clean"
          /\ g.obj \in live \cup {None}
      BY <1>7 DEF Formed, Holdless, Bottom, Releases, Clears
    <3>2. Sound(live, val, ref, host, Append(calls, g))
      BY <1>1, <1>5, <1>6, <3>1, SoundEnter
    <3>. QED
      BY <1>5, <2>1, <3>2
  <2>3. a \in Seq(Frames) /\ a # <<>> /\ a[Len(a)] = g
    <3>1. <<>> \in Seq(Frames)
      OBVIOUS
    <3>. QED
      BY <1>6, <2>1, <3>1, RangePush
  <2>4. Sound(live, val, ref, host, b) /\ b \in Seq(Frames) /\ b # <<>> /\ b[Len(b)] = d
    <3>1. Formed(d) /\ Holdless(d) /\ On(val, g, d) /\ d.op \notin Releases /\ d.op # "clean"
          /\ d.obj \in live \cup {None}
      BY <1>7 DEF Formed, Holdless, On, Releases, Clears
    <3>2. Sound(live, val, ref, host, Append(a, d))
      BY <1>6, <2>2, <2>3, <3>1, SoundEnter
    <3>3. Append(a, d) \in Seq(Frames) /\ Append(a, d) # <<>> /\ Append(a, d)[Len(Append(a, d))] = d
      BY <1>6, <2>3, RangePush
    <3>. QED
      BY <2>1, <3>2, <3>3
  <2>5. Sound(live, val, ref, host, Append(b, f))
    <3>1. Formed(f) /\ Holdless(f) /\ On(val, d, f) /\ f.op \notin Releases /\ f.op # "clean"
          /\ f.obj \in live \cup {None}
      BY <1>3, <1>4, <1>7 DEF Formed, Holdless, On, Releases, Clears
    <3>. QED
      BY <1>6, <2>4, <3>1, SoundEnter
  <2>6. b = <<g, d>>
    BY <1>6, <2>1
  <2>. QED
    BY <1>6, <2>5, <2>6
<1>9. Sound(live', val', ref', host', calls')
  BY <1>1, <1>3, <1>8
<1>10. Base' /\ Fresh'
  BY <1>1 DEF ObjectsInv, Base, Fresh
<1>11. Accounted'
  <2>1. \A x \in live : ref[x] # 0
    BY <1>5 DEF ObjectsInv, Accounted, Has
  <2>. QED
    BY <1>1, <2>1 DEF Accounted
<1>12. Phases'
  <2>1. \A y \in linked' : c = None \/ y < c => y \in terminator_ran'
    <3>1. \A y \in linked : y > None
      BY <1>3, ObjectsAssumption DEF Object, None
    <3>. QED
      BY <1>1, <1>4, <3>1
  <2>2. Within(live', ref', calls', c)
    BY <1>3 DEF Within
  <2>3. closed' /\ linked' = live' /\ live' \subseteq desc' /\ c \in linked' \cup {None}
    BY <1>1, <1>3, <1>4
  <2>. QED
    BY <1>9, <2>1, <2>2, <2>3, CollectStep
<1>. QED
  BY <1>9, <1>10, <1>11, <1>12 DEF ObjectsInv

-------------------------------------------------------------------------------
(***************************************************************************)
(* collect_objects                                                         *)
(***************************************************************************)

\* The first loop, when no terminator of it is running.
LEMMA FirstLoop ==
  ASSUME ObjectsInv, ~Idle, Top.op = "collect"
  PROVE  /\ closed /\ linked = live /\ live \subseteq desc /\ live \in SUBSET Object
         /\ Top.obj \in linked \cup {None}
         /\ \A y \in linked : Top.obj = None \/ y < Top.obj => y \in terminator_ran
         /\ Return = <<Call("globals", None), Call("detach", None)>>
         /\ Sound(live, val, ref, host, Return)
<1>1. Sound(live, val, ref, host, calls) /\ CollectSound
  BY DEF ObjectsInv, Phases
<1>2. Has(Range(calls), "collect")
  BY WhatIsInnermost
<1>3. PICK R, t : R = Return /\ t = Top
  OBVIOUS
<1>4. calls # <<>> /\ t = calls[Len(calls)] /\ R = Front(calls) /\ t.op = "collect"
  BY <1>1, <1>3, CallStep
<1>5. closed /\ linked = live /\ live \subseteq desc
  BY <1>1, <1>2, Collects
<1>6. PICK c \in linked \cup {None} :
          /\ \A y \in linked : c = None \/ y < c => y \in terminator_ran
          /\ Stands(live, ref, calls, c, t, R)
  BY <1>1, <1>2, <1>3, Collects
<1>7. t = Call("collect", c) /\ R = <<Call("globals", None), Call("detach", None)>>
  <2>1. t.op # "store" /\ \A x \in live : t # Call("terminate", x)
    BY <1>4 DEF Call, Frame
  <2>. QED
    BY <1>6, <2>1 DEF Stands
<1>8. t.obj = c
  BY <1>7 DEF Call, Frame
<1>9. Sound(live, val, ref, host, R)
  <2>1. Holdless(calls[Len(calls)])
    BY <1>4 DEF Holdless
  <2>2. Sound(live, val, ref, host, Front(calls))
    BY <1>1, <1>4, <2>1, SoundReturn
  <2>. QED
    BY <1>4, <2>2
<1>10. live \in SUBSET Object
  BY <1>1 DEF Sound, Typed
<1>. QED
  BY <1>3, <1>5, <1>6, <1>7, <1>8, <1>9, <1>10

\* The first loop runs a terminator.
LEMMA CollectKeeps ==
  ASSUME ObjectsInv, Careful, Collect
  PROVE  ObjectsInv'
<1>1. ~Idle /\ Top.op = "collect" /\ Top.obj # None /\ Top.obj \in linked
  BY DEF Collect, Is
<1>2. PICK x, c, R, g, d, f :
        /\ x = Top.obj /\ c = NextLinked(x) /\ R = Return
        /\ g = Call("globals", None) /\ d = Call("detach", None) /\ f = Call("collect", c)
  OBVIOUS
<1>3. /\ closed /\ linked = live /\ live \subseteq desc /\ live \in SUBSET Object
      /\ x \in live /\ x # None
      /\ \A y \in linked : y < x => y \in terminator_ran
      /\ R = <<g, d>> /\ Sound(live, val, ref, host, R)
  BY <1>1, <1>2, FirstLoop
<1>4. /\ c \in linked \cup {None} /\ c \in Object \cup {None}
      /\ \A y \in linked : c = None \/ y < c => ~(y > x)
  <2>1. linked \in SUBSET Object /\ x \in Object \cup {None}
    BY <1>3
  <2>. QED
    BY <1>2, <2>1, NextIs
<1>5. /\ Loops(c) \in Seq(Frames) /\ R \in Seq(Frames) /\ f \in Frames /\ g \in Frames /\ d \in Frames
      /\ Loops(c) = Append(R, f) /\ R = Append(Append(<<>>, g), d)
      /\ Range(Loops(c)) = {g, d, f}
  BY <1>2, <1>3, <1>4, LoopsParts
<1>6. /\ g.op = "globals" /\ d.op = "detach" /\ d.obj = None
      /\ f.op = "collect" /\ f.obj = c /\ f.loc = None
  BY <1>2 DEF Call, Frame
<1>7. /\ run_terminator(x, Loops(c))
      /\ UNCHANGED <<born, live, linked, desc, terminating, val, host, closed>>
  <2>1. Replace(Call("collect", NextLinked(Top.obj))) = Loops(c)
    BY <1>2, <1>5 DEF Replace
  <2>. QED
    BY <1>2, <2>1 DEF Collect
<1>8. PICK ls : ls = Loops(c)
  OBVIOUS
<1>9. Sound(live, val, ref, host, ls) /\ ls # <<>> /\ ls[Len(ls)] = f
  <2>1. Formed(f) /\ Holdless(f) /\ On(val, d, f) /\ f.op \notin Releases /\ f.op # "clean"
        /\ f.obj \in live \cup {None}
    BY <1>3, <1>4, <1>6 DEF Formed, Holdless, On, Releases, Clears
  <2>2. R # <<>> /\ R[Len(R)] = d
    <3>1. PICK a : a = Append(<<>>, g)
      OBVIOUS
    <3>2. a \in Seq(Frames)
      BY <1>5, <3>1
    <3>3. Append(a, d) # <<>> /\ Append(a, d)[Len(Append(a, d))] = d
      BY <1>5, <3>2, RangePush
    <3>. QED
      BY <1>5, <3>1, <3>3
  <2>3. Sound(live, val, ref, host, Append(R, f))
    BY <1>3, <1>5, <2>1, <2>2, SoundEnter
  <2>4. Append(R, f) # <<>> /\ Append(R, f)[Len(Append(R, f))] = f
    BY <1>5, RangePush
  <2>. QED
    BY <1>5, <1>8, <2>3, <2>4
<1>10. x \notin CleaningIn(ls)
  <2>1. ls \in Seq(Frames) /\ Range(ls) = {g, d, f}
    BY <1>5, <1>8
  <2>2. CleaningIn(ls) = {e.obj : e \in {q \in Range(ls) : q.op = "clean"}}
    BY <2>1, InRange
  <2>. QED
    BY <1>6, <2>1, <2>2
<1>11. /\ Sound(live, val, ref', host, calls')
       /\ Range(ls) \subseteq Range(calls')
       /\ calls' = ls \/ calls' = Append(ls, Call("terminate", x))
       /\ terminator_ran' = terminator_ran \cup {x}
  <2>1. On(val, ls[Len(ls)], Call("terminate", x))
    <3>1. On(val, f, Call("terminate", x))
      BY <1>6 DEF On, Call, Frame
    <3>. QED
      BY <1>9, <3>1
  <2>2. run_terminator(x, ls) /\ x \in live
    BY <1>3, <1>7, <1>8
  <2>. QED
    BY <1>9, <1>10, <2>1, <2>2, RunSound
<1>12. Sound(live', val', ref', host', calls')
  BY <1>7, <1>11
<1>13. Base' /\ Fresh'
  BY <1>3, <1>7, <1>11 DEF ObjectsInv, Base, Fresh
<1>14. Accounted'
  <2>1. Has(Range(calls'), "detach")
    BY <1>5, <1>6, <1>8, <1>11 DEF Has
  <2>. QED
    BY <1>3, <1>7, <2>1 DEF Accounted
<1>15. Phases'
  <2>1. \A y \in linked' : c = None \/ y < c => y \in terminator_ran'
    <3>. SUFFICES ASSUME NEW y \in linked, c = None \/ y < c PROVE y \in terminator_ran \cup {x}
      BY <1>7, <1>11
    <3>1. y \in Nat /\ x \in Nat
      BY <1>3, ObjectsAssumption DEF Object
    <3>2. y = x \/ y < x
      BY <1>4, <3>1
    <3>. QED
      BY <1>3, <3>2
  <2>2. Within(live', ref', calls', c)
    BY <1>3, <1>7, <1>8, <1>11 DEF Within
  <2>3. closed' /\ linked' = live' /\ live' \subseteq desc' /\ c \in linked' \cup {None}
    BY <1>3, <1>4, <1>7
  <2>. QED
    BY <1>12, <2>1, <2>2, <2>3, CollectStep
<1>. QED
  BY <1>12, <1>13, <1>14, <1>15 DEF ObjectsInv

\* The first loop is done: all terminators have run.
LEMMA CollectedKeeps ==
  ASSUME ObjectsInv, Careful, Collected
  PROVE  ObjectsInv'
<1>1. ~Idle /\ Top.op = "collect" /\ Top.obj = None
  BY DEF Collected, Is
<1>2. PICK R, g, d : R = Return /\ g = Call("globals", None) /\ d = Call("detach", None)
  OBVIOUS
<1>3. /\ closed /\ linked = live /\ live \subseteq desc /\ live \subseteq terminator_ran
      /\ R = <<g, d>> /\ Sound(live, val, ref, host, R)
  BY <1>1, <1>2, FirstLoop
<1>4. /\ calls' = R
      /\ UNCHANGED <<born, live, linked, desc, terminating, terminator_ran, ref, val, host, closed>>
  BY <1>2 DEF Collected
<1>5. /\ g.op = "globals" /\ d.op = "detach" /\ d.obj = None
  BY <1>2 DEF Call, Frame
<1>6. /\ g \in Frames /\ d \in Frames /\ R = Append(Append(<<>>, g), d) /\ Range(R) = {g, d}
  <2>1. None \in Object \cup {None}
    OBVIOUS
  <2>. QED
    BY <1>2, <1>3, <2>1, LoopsParts
<1>7. R # <<>> /\ R[Len(R)] = d
  <2>1. PICK a : a = Append(<<>>, g)
    OBVIOUS
  <2>2. a \in Seq(Frames)
    BY <1>6, <2>1
  <2>3. Append(a, d) # <<>> /\ Append(a, d)[Len(Append(a, d))] = d
    BY <1>6, <2>2, RangePush
  <2>. QED
    BY <1>6, <2>1, <2>3
<1>8. Sound(live', val', ref', host', calls')
  BY <1>3, <1>4
<1>9. Base' /\ Fresh'
  BY <1>4 DEF ObjectsInv, Base, Fresh
<1>10. Accounted'
  <2>1. Has(Range(calls'), "detach")
    BY <1>4, <1>5, <1>6 DEF Has
  <2>. QED
    BY <1>3, <1>4, <2>1 DEF Accounted
<1>11. Phases'
  <2>1. Range(calls') = {g, d} /\ ~Has(Range(calls'), "collect")
        /\ Has(Range(calls'), "detach") /\ Has(Range(calls'), "globals")
    BY <1>4, <1>5, <1>6 DEF Has
  <2>2. OpenSound' /\ CollectSound' /\ GlobalsSound'
    BY <1>3, <1>4, <2>1 DEF OpenSound, CollectSound, GlobalsSound
  <2>3. OverSound'
    BY <1>3, <1>4, <1>5, <2>1 DEF OverSound, Ending
  <2>4. DetachSound'
    BY <1>4, <1>5, <1>7 DEF DetachSound, Top
  <2>. QED
    BY <2>2, <2>3, <2>4 DEF Phases
<1>. QED
  BY <1>8, <1>9, <1>10, <1>11 DEF ObjectsInv

\* The second loop, and what it was called by.
LEMMA SecondLoop ==
  ASSUME ObjectsInv, ~Idle, Top.op = "detach"
  PROVE  /\ closed /\ ~Has(Range(calls), "collect") /\ Phases /\ Sound(live, val, ref, host, calls)
         /\ calls \in Seq(Frames) /\ calls # <<>> /\ Top = calls[Len(calls)] /\ Return = Front(calls)
         /\ Return \in Seq(Frames) /\ Range(calls) = Range(Return) \cup {Top}
         /\ live \in SUBSET Object /\ linked \subseteq live /\ ref \in [Object -> Nat]
         /\ \E g \in Frames : /\ g.op = "globals" /\ Return # <<>> /\ Return[Len(Return)] = g
                              /\ Range(Return) = {g}
         /\ CleaningIn(Return) = {} /\ ClearingIn(Return) = {}
         /\ \A y \in live : ref[y] = 0 => y \in linked
<1>1. Sound(live, val, ref, host, calls) /\ Phases
  BY DEF ObjectsInv
<1>2. closed /\ ~Has(Range(calls), "collect")
  BY WhatIsInnermost
<1>3. PICK R, t : R = Return /\ t = Top
  OBVIOUS
<1>4. /\ calls \in Seq(Frames) /\ calls # <<>> /\ t = calls[Len(calls)] /\ R = Front(calls)
      /\ R \in Seq(Frames) /\ Range(calls) = Range(R) \cup {t} /\ t.op = "detach"
  BY <1>1, <1>3, CallStep
<1>5. PICK g \in Frames : g.op = "globals" /\ R # <<>> /\ R[Len(R)] = g /\ Range(R) = {g}
  BY <1>1, <1>3, LoopsBegin
<1>6. CleaningIn(R) = {} /\ ClearingIn(R) = {}
  <2>1. /\ CleaningIn(R) = {e.obj : e \in {q \in Range(R) : q.op = "clean"}}
        /\ ClearingIn(R) = {e.loc : e \in {q \in Range(R) : q.op \in Clears}}
    BY <1>4, InRange
  <2>. QED
    BY <1>5, <2>1 DEF Clears
<1>7. \A y \in live : ref[y] = 0 => y \in linked
  BY <1>4, <1>5 DEF ObjectsInv, Accounted, Releases
<1>8. live \in SUBSET Object /\ linked \subseteq live /\ ref \in [Object -> Nat]
  BY <1>1 DEF Sound, Typed, ObjectsInv, Base
<1>. QED
  BY <1>1, <1>2, <1>3, <1>4, <1>5, <1>6, <1>7, <1>8

\* The second loop begins to take an object apart.
LEMMA DetachKeeps ==
  ASSUME ObjectsInv, Careful, Detach
  PROVE  ObjectsInv'
<1>1. ~Idle /\ Top.op = "detach" /\ Top.obj = None /\ linked # {}
  BY DEF Detach, Is
<1>2. PICK R, t : R = Return /\ t = Top
  OBVIOUS
<1>3. /\ closed /\ ~Has(Range(calls), "collect") /\ Phases /\ Sound(live, val, ref, host, calls)
      /\ calls # <<>> /\ t = calls[Len(calls)] /\ R = Front(calls)
      /\ R \in Seq(Frames)
      /\ live \in SUBSET Object /\ linked \subseteq live /\ ref \in [Object -> Nat]
      /\ CleaningIn(R) = {} /\ ClearingIn(R) = {}
      /\ \A y \in live : ref[y] = 0 => y \in linked
  BY <1>1, <1>2, SecondLoop
<1>4. PICK g \in Frames : g.op = "globals" /\ R # <<>> /\ R[Len(R)] = g /\ Range(R) = {g}
  BY <1>1, <1>2, SecondLoop
<1>5. PICK x, f, cs, r : /\ x = Min(linked) /\ f = Call("detach", x) /\ cs = Append(R, f)
                         /\ r = Counted(ref, x, 1)
  OBVIOUS
<1>6. x \in linked /\ x \in live /\ x \in Object /\ x # None
  <2>1. linked \in SUBSET Nat
    BY <1>3, ObjectsAssumption DEF Object
  <2>2. x \in linked
    BY <1>1, <1>5, <2>1, MinIsLeast
  <2>. QED
    BY <1>3, <2>2 DEF Object, None
<1>7. /\ IF Unclean(x) THEN Clear(cs, r, x) ELSE ref' = r /\ calls' = cs
      /\ UNCHANGED <<born, live, linked, desc, terminating, terminator_ran, val, host, closed>>
  BY <1>2, <1>5 DEF Detach, Replace
<1>8. /\ f \in Frames /\ f.op = "detach" /\ f.obj = x /\ f.loc = None /\ Formed(f)
  BY <1>5, <1>6 DEF Call, Frame, Frames, Ops, Formed, Clears, Releases
<1>9. /\ r \in [Object -> Nat]
      /\ \A y \in Object : r[y] = IF y = x THEN ref[y] + 1 ELSE ref[y]
  BY <1>3, <1>5, <1>6 DEF Counted
<1>10. Sound(live, val, r, host, cs)
  <2>1. Sound(live, val, ref, host, R)
    <3>1. Holdless(calls[Len(calls)])
      BY <1>1, <1>2, <1>3 DEF Holdless
    <3>2. Sound(live, val, ref, host, Front(calls))
      BY <1>3, <3>1, SoundReturn
    <3>. QED
      BY <1>3, <3>2
  <2>2. \A y \in live : r[y] = ref[y] + Weight(f, y)
    <3>. SUFFICES ASSUME NEW y \in live PROVE r[y] = ref[y] + Weight(f, y)
      OBVIOUS
    <3>1. Weight(f, y) = IF y = x THEN 1 ELSE 0
      BY <1>8 DEF Weight, Held
    <3>. QED
      BY <1>3, <1>9, <3>1
  <2>3. f.op \notin Clears /\ f.op \notin Releases /\ f.op # "clean"
        /\ f.obj \in live \cup {None} /\ f.obj \notin CleaningIn(R)
    BY <1>3, <1>6, <1>8 DEF Clears, Releases
  <2>4. IF R = <<>> THEN Bottom(f) ELSE On(val, R[Len(R)], f)
    <3>1. On(val, g, f)
      BY <1>4, <1>8 DEF On
    <3>. QED
      BY <1>4, <3>1
  <2>5. f \in Frames /\ Formed(f) /\ r \in [Object -> Nat]
    BY <1>8, <1>9
  <2>6. Sound(live, val, r, host, Append(R, f))
    BY <2>1, <2>2, <2>3, <2>4, <2>5, SoundPush
  <2>. QED
    BY <1>5, <2>6
<1>11. /\ cs \in Seq(Frames) /\ cs # <<>> /\ cs[Len(cs)] = f
       /\ Range(cs) = {g, f}
  BY <1>3, <1>4, <1>5, <1>8, RangePush
<1>12. /\ Sound(live, val, ref', host, calls')
       /\ calls' \in Seq(Frames) /\ calls' # <<>>
       /\ Range(cs) \subseteq Range(calls')
       /\ \A e \in Range(calls') : e \in Range(cs) \/ e.op \in {"clear", "release"}
       /\ \A y \in live : ref'[y] = 0 =>
            r[y] = 0 \/ \E e \in Range(calls') : e.op \in Releases /\ e.obj = y
       /\ (calls' = cs /\ ~Unclean(x)) \/ calls'[Len(calls')].op \in {"clear", "release"}
  <2>1. CASE ~Unclean(x)
    BY <1>7, <1>10, <1>11, <2>1
  <2>2. CASE Unclean(x)
    <3>1. Clear(cs, r, x)
      BY <1>7, <2>2
    <3>2. x \notin ClearingIn(cs)
      <4>1. ClearingIn(cs) = {e.loc : e \in {q \in Range(cs) : q.op \in Clears}}
        BY <1>11, InRange
      <4>. QED
        BY <1>4, <1>8, <1>11, <4>1 DEF Clears
    <3>3. On(val, cs[Len(cs)], Frame("clear", None, x))
      <4>1. On(val, f, Frame("clear", None, x))
        BY <1>6, <1>8 DEF On, Frame
      <4>. QED
        BY <1>11, <4>1
    <3>4. cs # <<>> /\ x \in Var \cup live
      BY <1>6, <1>11
    <3>. QED
      BY <1>10, <3>1, <3>2, <3>3, <3>4, ClearStep
  <2>. QED
    BY <2>1, <2>2
<1>13. Sound(live', val', ref', host', calls')
  BY <1>7, <1>12
<1>14. Base' /\ Fresh'
  BY <1>7 DEF ObjectsInv, Base, Fresh
<1>15. Has(Range(calls'), "detach") /\ Has(Range(calls'), "globals") /\ ~Has(Range(calls'), "collect")
  BY <1>4, <1>8, <1>11, <1>12 DEF Has
<1>16. Accounted'
  <2>. SUFFICES ASSUME NEW y \in live, ref'[y] = 0
                PROVE  \/ \E e \in Range(calls') : e.op \in Releases /\ e.obj = y
                       \/ y \in linked
    BY <1>7, <1>15 DEF Accounted
  <2>1. ASSUME r[y] = 0 PROVE y \in linked
    <3>1. ref[y] = 0
      BY <1>3, <1>6, <1>9, <2>1
    <3>. QED
      BY <1>3, <3>1
  <2>. QED
    BY <1>12, <2>1
<1>17. Phases'
  <2>1. OpenSound' /\ CollectSound' /\ GlobalsSound'
    BY <1>3, <1>7, <1>15 DEF OpenSound, CollectSound, GlobalsSound
  <2>2. OverSound /\ linked \subseteq desc
    BY <1>3 DEF Phases, OverSound
  <2>3. OverSound'
    BY <1>3, <1>4, <1>6, <1>7, <1>8, <1>11, <1>12, <1>15, <2>2 DEF OverSound, Ending
  <2>4. DetachSound'
    <3>1. ~Unclean(x) => val[x] = None
      BY <1>6, <2>2 DEF Unclean
    <3>. QED
      BY <1>7, <1>8, <1>11, <1>12, <3>1 DEF DetachSound, Top
  <2>. QED
    BY <2>1, <2>3, <2>4 DEF Phases
<1>. QED
  BY <1>13, <1>14, <1>16, <1>17 DEF ObjectsInv

\* The object has lost its class and its place.
LEMMA DetachedKeeps ==
  ASSUME ObjectsInv, Careful, Detached
  PROVE  ObjectsInv'
<1>1. ~Idle /\ Top.op = "detach" /\ Top.obj # None
  BY DEF Detached, Is
<1>2. PICK R, t, x, s, d, cs : /\ R = Return /\ t = Top /\ x = Top.obj /\ s = Counted(ref, x, -1)
                               /\ d = Call("detach", None) /\ cs = Append(R, d)
  OBVIOUS
<1>3. /\ closed /\ ~Has(Range(calls), "collect") /\ Phases /\ Sound(live, val, ref, host, calls)
      /\ calls # <<>> /\ t = calls[Len(calls)] /\ R = Front(calls)
      /\ R \in Seq(Frames) /\ Range(calls) = Range(R) \cup {t}
      /\ live \in SUBSET Object /\ linked \subseteq live /\ ref \in [Object -> Nat]
      /\ CleaningIn(R) = {}
      /\ \A y \in live : ref[y] = 0 => y \in linked
  BY <1>1, <1>2, SecondLoop
<1>4. PICK g \in Frames : g.op = "globals" /\ R # <<>> /\ R[Len(R)] = g /\ Range(R) = {g}
  BY <1>1, <1>2, SecondLoop
<1>5. /\ desc' = desc \ {x} /\ linked' = linked \ {x} /\ ref' = s
      /\ calls' = cs \o Released(ref, x)
      /\ UNCHANGED <<born, live, terminating, terminator_ran, val, host, closed>>
  <2>1. calls' = Replace(Call("detach", None)) \o Released(ref, Top.obj)
    BY DEF Detached
  <2>. QED
    BY <1>2, <2>1 DEF Detached, Replace
<1>6. /\ t.op = "detach" /\ t.obj = x /\ t.loc = None /\ x # None /\ t.op \notin Clears
  BY <1>1, <1>2, <1>3, CallStep DEF Formed, Clears
<1>7. x \in linked /\ x \in live /\ x \in Object /\ val[x] = None
  <2>1. t \in Range(calls)
    BY <1>3
  <2>2. x \in linked
    BY <1>3, <1>6, <2>1 DEF Phases, OverSound
  <2>. QED
    BY <1>1, <1>2, <1>3, <2>2 DEF Phases, DetachSound
<1>8. \A y : Weight(t, y) = IF y = x THEN 1 ELSE 0
  BY <1>6 DEF Weight, Held
<1>9. ref[x] \in Nat /\ ref[x] >= 1
  <2>1. ref[x] >= Weight(t, x)
    BY <1>1, <1>2, <1>3, <1>7, StoreHolds
  <2>. QED
    BY <1>3, <1>7, <1>8, <2>1
<1>10. /\ s \in [Object -> Nat]
       /\ \A y \in Object : s[y] = IF y = x THEN ref[y] - 1 ELSE ref[y]
  BY <1>2, <1>3, <1>6, <1>7, <1>9 DEF Counted
<1>11. Sound(live, val, s, host, R)
  <2>1. \A y \in live : ref[y] = s[y] + Weight(t, y)
    BY <1>3, <1>8, <1>10
  <2>2. s \in [Object -> Nat]
    BY <1>10
  <2>3. Sound(live, val, s, host, Front(calls))
    BY <1>3, <1>6, <2>1, <2>2, SoundPop
  <2>. QED
    BY <1>3, <2>3
<1>12. /\ d \in Frames /\ d.op = "detach" /\ d.obj = None /\ d.loc = None
  BY <1>2 DEF Call, Frame, Frames, Ops
<1>13. cs \in Seq(Frames) /\ cs # <<>> /\ cs[Len(cs)] = d /\ Range(cs) = {g, d}
  BY <1>2, <1>3, <1>4, <1>12, RangePush
<1>14. Sound(live, val, s, host, cs)
  <2>1. Formed(d) /\ Holdless(d) /\ d.op \notin Releases /\ d.op # "clean" /\ d.obj \in live \cup {None}
    BY <1>12 DEF Formed, Holdless, Clears, Releases
  <2>2. IF R = <<>> THEN Bottom(d) ELSE On(val, R[Len(R)], d)
    <3>1. On(val, g, d)
      BY <1>4, <1>12 DEF On
    <3>. QED
      BY <1>4, <3>1
  <2>3. Sound(live, val, s, host, Append(R, d))
    BY <1>11, <1>12, <2>1, <2>2, SoundEnter
  <2>. QED
    BY <1>2, <2>3
<1>15. Sound(live', val', ref', host', calls')
  <2>1. x \notin CleaningIn(cs)
    <3>1. CleaningIn(cs) = {e.obj : e \in {q \in Range(cs) : q.op = "clean"}}
      BY <1>13, InRange
    <3>. QED
      BY <1>4, <1>12, <1>13, <3>1
  <2>2. cs[Len(cs)].op # "release" /\ On(val, cs[Len(cs)], Call("release", x))
    <3>1. d.op # "release" /\ On(val, d, Call("release", x))
      BY <1>12 DEF On, Call, Frame, Releases
    <3>. QED
      BY <1>13, <3>1
  <2>3. Sound(live, val, Counted(ref, x, -1), host, cs)
    BY <1>2, <1>14
  <2>4. ref \in [Object -> Int] /\ x \in live \cup {None}
    BY <1>3, <1>7
  <2>5. Sound(live, val, Counted(ref, x, -1), host, cs \o Released(ref, x))
    BY <2>1, <2>2, <2>3, <2>4, SoundReleased
  <2>. QED
    BY <1>2, <1>5, <2>5
<1>16. PICK f : f = Call("release", x)
  OBVIOUS
<1>17. f.op = "release" /\ f.obj = x
  BY <1>16 DEF Call, Frame
<1>18. /\ Range(calls') = {g, d} \cup (IF ref[x] = 1 THEN {f} ELSE {})
       /\ calls' \in Seq(Frames)
       /\ calls' = cs \/ calls'[Len(calls')] = f
  <2>1. x \in Object \cup {None}
    BY <1>7
  <2>2. /\ Range(cs \o Released(ref, x)) =
             Range(cs) \cup (IF x # None /\ ref[x] = 1 THEN {Call("release", x)} ELSE {})
        /\ cs \o Released(ref, x) \in Seq(Frames)
        /\ cs \o Released(ref, x) = cs
           \/ (cs \o Released(ref, x))[Len(cs \o Released(ref, x))] = Call("release", x)
    BY <1>13, <2>1, ReleasedRange
  <2>. QED
    BY <1>5, <1>6, <1>13, <1>16, <2>2
<1>19. Base' /\ Fresh'
  BY <1>5 DEF ObjectsInv, Base, Fresh
<1>20. Has(Range(calls'), "detach") /\ Has(Range(calls'), "globals") /\ ~Has(Range(calls'), "collect")
  BY <1>4, <1>12, <1>17, <1>18 DEF Has
<1>21. Accounted'
  <2>. SUFFICES ASSUME NEW y \in live, ref'[y] = 0
                PROVE  \/ \E e \in Range(calls') : e.op \in Releases /\ e.obj = y
                       \/ y \in linked'
    BY <1>5, <1>20 DEF Accounted
  <2>1. CASE y = x
    BY <1>5, <1>7, <1>9, <1>10, <1>17, <1>18, <2>1 DEF Releases
  <2>2. CASE y # x
    <3>1. ref[y] = 0
      BY <1>3, <1>5, <1>10, <2>2
    <3>. QED
      BY <1>3, <1>5, <2>2, <3>1
  <2>. QED
    BY <2>1, <2>2
<1>22. Phases'
  <2>1. OpenSound' /\ CollectSound' /\ GlobalsSound'
    BY <1>3, <1>5, <1>20 DEF OpenSound, CollectSound, GlobalsSound
  <2>2. /\ live \subseteq terminator_ran /\ linked \subseteq desc
        /\ \A y \in live \ linked : y \notin desc /\ val[y] = None
    BY <1>3 DEF Phases, OverSound
  <2>3. OverSound'
    <3>1. live' \subseteq terminator_ran' /\ linked' \subseteq desc'
      BY <1>5, <2>2
    <3>2. \A e \in Range(calls') : e.op \in Ending /\ (e.op = "detach" => e.obj \in linked' \cup {None})
      BY <1>4, <1>12, <1>17, <1>18 DEF Ending
    <3>3. \A y \in live' \ linked' : y \notin desc' /\ val'[y] = None
      BY <1>5, <1>7, <2>2
    <3>. QED
      BY <1>20, <3>1, <3>2, <3>3 DEF OverSound
  <2>4. DetachSound'
    BY <1>12, <1>13, <1>17, <1>18 DEF DetachSound, Top
  <2>. QED
    BY <2>1, <2>3, <2>4 DEF Phases
<1>. QED
  BY <1>15, <1>19, <1>21, <1>22 DEF ObjectsInv

\* The second loop is done.
LEMMA AllDetachedKeeps ==
  ASSUME ObjectsInv, Careful, AllDetached
  PROVE  ObjectsInv'
<1>1. ~Idle /\ Top.op = "detach" /\ Top.obj = None /\ linked = {}
  BY DEF AllDetached, Is
<1>2. PICK R, t : R = Return /\ t = Top
  OBVIOUS
<1>3. /\ closed /\ ~Has(Range(calls), "collect") /\ Phases /\ Sound(live, val, ref, host, calls)
      /\ calls # <<>> /\ t = calls[Len(calls)] /\ R = Front(calls)
      /\ Range(calls) = Range(R) \cup {t}
      /\ \A y \in live : ref[y] = 0 => y \in linked
  BY <1>1, <1>2, SecondLoop
<1>4. PICK g \in Frames : g.op = "globals" /\ R # <<>> /\ R[Len(R)] = g /\ Range(R) = {g}
  BY <1>1, <1>2, SecondLoop
<1>5. /\ calls' = R
      /\ UNCHANGED <<born, live, linked, desc, terminating, terminator_ran, ref, val, host, closed>>
  BY <1>2 DEF AllDetached
<1>6. Sound(live', val', ref', host', calls')
  <2>1. Holdless(calls[Len(calls)])
    BY <1>1, <1>2, <1>3 DEF Holdless
  <2>2. Sound(live, val, ref, host, Front(calls))
    BY <1>3, <2>1, SoundReturn
  <2>. QED
    BY <1>3, <1>5, <2>2
<1>7. Base' /\ Fresh' /\ Accounted'
  BY <1>1, <1>3, <1>5 DEF ObjectsInv, Base, Fresh, Accounted
<1>8. Phases'
  <2>1. OpenSound' /\ CollectSound' /\ OverSound' /\ GlobalsSound'
    BY <1>1, <1>3, <1>4, <1>5
       DEF Phases, OpenSound, CollectSound, OverSound, GlobalsSound, Has, Ending
  <2>2. DetachSound'
    BY <1>4, <1>5 DEF DetachSound, Top
  <2>. QED
    BY <2>1, <2>2 DEF Phases
<1>. QED
  BY <1>6, <1>7, <1>8 DEF ObjectsInv

\* The release of the variables, which no other call is under.
LEMMA GlobalsLast ==
  ASSUME ObjectsInv, ~Idle, Top.op = "globals"
  PROVE  /\ closed /\ Phases /\ Sound(live, val, ref, host, calls)
         /\ calls \in Seq(Frames) /\ calls # <<>> /\ Top = calls[Len(calls)] /\ Return = <<>>
         /\ Return = Front(calls) /\ Range(calls) = {Top} /\ Range(Return) = {}
         /\ ~Has(Range(calls), "collect") /\ linked = {}
         /\ ClearingIn(calls) = {}
         /\ \A y \in live : ref[y] # 0
<1>1. Sound(live, val, ref, host, calls) /\ Phases
  BY DEF ObjectsInv
<1>2. closed
  BY WhatIsInnermost
<1>3. PICK R, t : R = Return /\ t = Top
  OBVIOUS
<1>4. /\ calls \in Seq(Frames) /\ calls # <<>> /\ t = calls[Len(calls)] /\ R = Front(calls)
      /\ Range(calls) = Range(R) \cup {t} /\ t.op = "globals"
  BY <1>1, <1>3, CallStep
<1>5. R = <<>> /\ Range(R) = {}
  BY <1>1, <1>3, LoopsBegin
<1>6. ~Has(Range(calls), "collect") /\ ~Has(Range(calls), "detach")
  BY <1>4, <1>5 DEF Has
<1>7. linked = {}
  BY <1>1, <1>2, <1>6 DEF Phases, OverSound
<1>8. ClearingIn(calls) = {}
  <2>1. ClearingIn(calls) = {e.loc : e \in {q \in Range(calls) : q.op \in Clears}}
    BY <1>4, InRange
  <2>. QED
    BY <1>4, <1>5, <2>1 DEF Clears
<1>9. \A y \in live : ref[y] # 0
  BY <1>4, <1>5, <1>7 DEF ObjectsInv, Accounted, Releases
<1>. QED
  BY <1>1, <1>2, <1>3, <1>4, <1>5, <1>6, <1>7, <1>8, <1>9

\* A variable is released.
LEMMA ReleaseGlobalKeeps ==
  ASSUME ObjectsInv, Careful, ReleaseGlobal
  PROVE  ObjectsInv'
<1>1. ~Idle /\ Top.op = "globals"
  BY DEF ReleaseGlobal, Is
<1>2. PICK t : t = Top
  OBVIOUS
<1>3. /\ closed /\ Phases /\ Sound(live, val, ref, host, calls)
      /\ calls # <<>> /\ t = calls[Len(calls)] /\ t.op = "globals"
      /\ ~Has(Range(calls), "collect") /\ ClearingIn(calls) = {}
      /\ \A y \in live : ref[y] # 0
  BY <1>1, <1>2, GlobalsLast
<1>4. PICK v \in Var : Clear(calls, ref, v)
  BY DEF ReleaseGlobal
<1>5. UNCHANGED <<born, live, linked, desc, terminating, terminator_ran, val, host, closed>>
  BY DEF ReleaseGlobal
<1>6. /\ Sound(live, val, ref', host, calls')
      /\ calls' \in Seq(Frames) /\ calls' # <<>>
      /\ Range(calls) \subseteq Range(calls')
      /\ \A f \in Range(calls') : f \in Range(calls) \/ f.op \in {"clear", "release"}
      /\ calls'[Len(calls')].op \in {"clear", "release"}
      /\ \A y \in live : ref'[y] = 0 =>
           ref[y] = 0 \/ \E f \in Range(calls') : f.op \in Releases /\ f.obj = y
  <2>1. On(val, calls[Len(calls)], Frame("clear", None, v))
    <3>1. On(val, t, Frame("clear", None, v))
      BY <1>3 DEF On, Frame
    <3>. QED
      BY <1>3, <3>1
  <2>2. v \in Var \cup live /\ v \notin ClearingIn(calls)
    BY <1>3
  <2>. QED
    BY <1>3, <1>4, <2>1, <2>2, ClearStep
<1>7. Sound(live', val', ref', host', calls')
  BY <1>5, <1>6
<1>8. Base' /\ Fresh' /\ Accounted'
  BY <1>3, <1>5, <1>6 DEF ObjectsInv, Base, Fresh, Accounted
<1>9. Phases'
  BY <1>3, <1>5, <1>6, EndingStep
<1>. QED
  BY <1>7, <1>8, <1>9 DEF ObjectsInv

\* Nothing is left to release.
LEMMA GlobalsReleasedKeeps ==
  ASSUME ObjectsInv, Careful, GlobalsReleased
  PROVE  ObjectsInv'
<1>1. ~Idle /\ Top.op = "globals" /\ \A v \in Var : val[v] = None
  BY DEF GlobalsReleased, Is
<1>2. PICK R, t : R = Return /\ t = Top
  OBVIOUS
<1>3. /\ closed /\ Phases /\ Sound(live, val, ref, host, calls)
      /\ calls # <<>> /\ t = calls[Len(calls)] /\ t.op = "globals"
      /\ R = Front(calls) /\ R = <<>> /\ Range(R) = {} /\ Range(calls) = {t}
      /\ ~Has(Range(calls), "collect") /\ linked = {}
      /\ \A y \in live : ref[y] # 0
  BY <1>1, <1>2, GlobalsLast
<1>4. /\ calls' = R
      /\ UNCHANGED <<born, live, linked, desc, terminating, terminator_ran, ref, val, host, closed>>
  BY <1>2 DEF GlobalsReleased
<1>5. Sound(live', val', ref', host', calls')
  <2>1. Holdless(calls[Len(calls)])
    BY <1>3 DEF Holdless
  <2>2. Sound(live, val, ref, host, Front(calls))
    BY <1>3, <2>1, SoundReturn
  <2>. QED
    BY <1>3, <1>4, <2>2
<1>6. Base' /\ Fresh' /\ Accounted'
  BY <1>3, <1>4 DEF ObjectsInv, Base, Fresh, Accounted
<1>7. Phases'
  <2>1. OpenSound' /\ CollectSound' /\ OverSound'
    BY <1>3, <1>4 DEF Phases, OpenSound, CollectSound, OverSound, Has
  <2>2. DetachSound' /\ GlobalsSound'
    BY <1>1, <1>3, <1>4 DEF DetachSound, GlobalsSound, Idle
  <2>. QED
    BY <2>1, <2>2 DEF Phases
<1>. QED
  BY <1>5, <1>6, <1>7 DEF ObjectsInv

-------------------------------------------------------------------------------
(***************************************************************************)
(* The invariant, and what follows from it                                 *)
(***************************************************************************)

LEMMA InitInvariant == Init => ObjectsInv
<1>. SUFFICES ASSUME Init PROVE ObjectsInv
  OBVIOUS
<1>1. Idle /\ calls \in Seq(Frames)
  BY DEF Init, Idle
<1>2. /\ calls = <<>> /\ DOMAIN calls = {} /\ Range(calls) = {}
      /\ CleaningIn(calls) = {} /\ ClearingIn(calls) = {}
  <2>1. DOMAIN calls = {}
    BY DEF Init
  <2>. QED
    BY <1>1, <2>1, IdleFacts
<1>3. Typed(live, val, ref, host, calls)
  BY <1>1 DEF Init, Typed, Loc
<1>4. Nested(val, calls) /\ AllApart(calls) /\ Unused(ref, calls)
  BY <1>2 DEF Nested, AllApart, Unused
<1>5. CountsSound(live, val, ref, host, calls)
  BY DEF Init, CountsSound
<1>6. Alive(live, val, calls)
  BY <1>2 DEF Init, Alive, Loc
<1>7. Base /\ Fresh /\ Accounted
  <2>1. Base
    <3>1. 0 \in 0..MaxObjects
      BY ObjectsAssumption
    <3>2. born \in 0..MaxObjects /\ closed \in BOOLEAN
      BY <3>1 DEF Init
    <3>. QED
      BY <3>2 DEF Init, Base
  <2>2. Fresh
    BY DEF Init, Fresh, Loc
  <2>3. Accounted
    BY DEF Init, Accounted
  <2>. QED
    BY <2>1, <2>2, <2>3
<1>8. Phases
  <2>1. OpenSound
    BY <1>2 DEF Init, OpenSound
  <2>2. CollectSound /\ OverSound /\ DetachSound /\ GlobalsSound
    BY <1>1, <1>2 DEF Init, CollectSound, OverSound, DetachSound, GlobalsSound, Has
  <2>. QED
    BY <2>1, <2>2 DEF Phases
<1>. QED
  BY <1>3, <1>4, <1>5, <1>6, <1>7, <1>8 DEF ObjectsInv, Sound

\* Every step keeps the invariant.
LEMMA StepKeeps ==
  ASSUME Careful
  PROVE  ObjectsInv /\ [Next]_vars => ObjectsInv'
<1>. SUFFICES ASSUME ObjectsInv, [Next]_vars PROVE ObjectsInv'
  OBVIOUS
<1>1. ASSUME UNCHANGED vars PROVE ObjectsInv'
  <2>. USE <1>1 DEF vars
  <2>1. Base' /\ Fresh' /\ Accounted'
    BY DEF ObjectsInv, Base, Fresh, Accounted
  <2>2. OpenSound' /\ CollectSound' /\ OverSound' /\ DetachSound' /\ GlobalsSound'
    BY DEF ObjectsInv, Phases, OpenSound, CollectSound, OverSound, DetachSound, GlobalsSound, Idle, Top
  <2>3. Sound(live', val', ref', host', calls')
    BY DEF ObjectsInv
  <2>. QED
    BY <2>1, <2>2, <2>3 DEF ObjectsInv, Phases
<1>2. Ended => UNCHANGED vars
  BY DEF Ended
<1>3. EndClear \/ EndStore \/ RunTerminator \/ AfterTerminator \/ CleanProps \/ Free => ObjectsInv'
  BY EndClearKeeps, EndStoreKeeps, RunTerminatorKeeps, AfterTerminatorKeeps, CleanPropsKeeps, FreeKeeps
<1>4. Set \/ New \/ Created \/ NotCreated \/ Terminated => ObjectsInv'
  BY SetKeeps, NewKeeps, CreatedKeeps, NotCreatedKeeps, TerminatedKeeps
<1>5. Enter \/ Leave \/ Take \/ Drop \/ Close => ObjectsInv'
  BY EnterKeeps, LeaveKeeps, TakeKeeps, DropKeeps, CloseKeeps
<1>6. Collect \/ Collected \/ Detach \/ Detached \/ AllDetached => ObjectsInv'
  BY CollectKeeps, CollectedKeeps, DetachKeeps, DetachedKeeps, AllDetachedKeeps
<1>7. ReleaseGlobal \/ GlobalsReleased => ObjectsInv'
  BY ReleaseGlobalKeeps, GlobalsReleasedKeeps
<1>. QED
  BY <1>1, <1>2, <1>3, <1>4, <1>5, <1>6, <1>7 DEF Next

LEMMA Invariance ==
  ASSUME Careful
  PROVE  Spec => []ObjectsInv
<1>1. ObjectsInv /\ [Next]_vars => ObjectsInv'
  BY StepKeeps
<1>. QED
  BY <1>1, InitInvariant, PTL DEF Spec

\* Every variable of the engine's objects keeps its type; no count goes below
\* zero.
THEOREM TypesAlways ==
  ASSUME Careful
  PROVE  Spec => []TypeOK
<1>1. ObjectsInv => TypeOK
  BY DEF ObjectsInv, Sound, Typed, Base, TypeOK
<1>. QED
  BY <1>1, Invariance, PTL

\* The count of an object is the number of references to it, at every moment of
\* every release, terminator and store.
THEOREM RefsCountedAlways ==
  ASSUME Careful
  PROVE  Spec => []RefsCounted
<1>1. ASSUME ObjectsInv PROVE RefsCounted
  <2>. SUFFICES ASSUME NEW x \in live
                PROVE  ref[x] = Cardinality(Referring(x)) + (IF x \in host THEN 1 ELSE 0) + HeldByCalls(x)
    BY DEF RefsCounted
  <2>1. ref[x] = Refs(live, val, host, calls, x)
    BY <1>1 DEF ObjectsInv, Sound, CountsSound
  <2>2. Clearing = ClearingIn(calls)
    BY DEF Clearing, ClearingIn, Clears
  <2>3. Referring(x) = ReferringIn(live, val, calls, x)
    BY <2>2 DEF Referring, ReferringIn
  <2>4. HeldByCalls(x) = HeldIn(calls, x)
    BY DEF HeldByCalls, HeldIn, Once, Twice, Stored
  <2>. QED
    BY <2>1, <2>3, <2>4 DEF Refs, Hosted
<1>. QED
  BY <1>1, Invariance, PTL

\* Nothing refers to an object that has been freed: no location and no call.
THEOREM NothingDanglesAlways ==
  ASSUME Careful
  PROVE  Spec => []NothingDangles
<1>1. ASSUME ObjectsInv PROVE NothingDangles
  <2>1. Clearing = ClearingIn(calls)
    BY DEF Clearing, ClearingIn, Clears
  <2>2. Alive(live, val, calls)
    BY <1>1 DEF ObjectsInv, Sound
  <2>. QED
    BY <2>1, <2>2 DEF Alive, NothingDangles
<1>. QED
  BY <1>1, Invariance, PTL

\* When the engine has closed only the host's objects are left.
THEOREM NothingLeaksAlways ==
  ASSUME Careful
  PROVE  Spec => []NothingLeaks
<1>1. ASSUME ObjectsInv PROVE NothingLeaks
  <2>. SUFFICES ASSUME closed, Idle, NEW x \in live PROVE x \in host
    BY DEF NothingLeaks
  <2>1. /\ calls = <<>> /\ DOMAIN calls = {} /\ Range(calls) = {} /\ ClearingIn(calls) = {}
        /\ \A op \in Ops : ~Has(Range(calls), op)
    <3>1. DOMAIN calls = {}
      BY DEF Idle
    <3>. QED
      BY <3>1, IdleFacts DEF Has
  <2>2. ref[x] # 0
    BY <1>1, <2>1 DEF ObjectsInv, Accounted, Has
  <2>3. \A l \in Var \cup live : val[l] = None
    <3>1. ~Has(Range(calls), "collect") /\ ~Has(Range(calls), "detach") /\ ~Has(Range(calls), "globals")
      BY <2>1 DEF Has
    <3>2. linked = {}
      BY <1>1, <3>1 DEF ObjectsInv, Phases, OverSound
    <3>3. \A y \in live : val[y] = None
      BY <1>1, <3>1, <3>2 DEF ObjectsInv, Phases, OverSound
    <3>4. \A v \in Var : val[v] = None
      BY <1>1, <3>1 DEF ObjectsInv, Phases, GlobalsSound
    <3>. QED
      BY <3>3, <3>4
  <2>4. x # None
    BY <1>1, Apartness DEF ObjectsInv
  <2>5. ReferringIn(live, val, calls, x) = {}
    BY <2>3, <2>4 DEF ReferringIn
  <2>6. Once(calls, x) = {} /\ Twice(calls, x) = {} /\ Stored(calls, x) = {}
    BY <2>1 DEF Once, Twice, Stored
  <2>7. Cardinality({}) = 0
    BY FS_EmptySet
  <2>8. ref[x] = Refs(live, val, host, calls, x)
    BY <1>1 DEF ObjectsInv, Sound, CountsSound
  <2>9. ref[x] = 0 + Hosted(host, x) + (0 + 0 + 0)
    BY <2>5, <2>6, <2>7, <2>8 DEF Refs, HeldIn
  <2>. QED
    BY <2>2, <2>9 DEF Hosted
<1>. QED
  BY <1>1, Invariance, PTL

\* No terminator starts for an object that is taken apart, or after one has been;
\* and what the property of a released object refers to is whole when its
\* terminator runs.
THEOREM TerminatorSeesWholeEver ==
  ASSUME Careful
  PROVE  Spec => TerminatorSeesWhole
<1>1. ASSUME ObjectsInv PROVE TerminatorsComeFirst
  <2>1. \A x \in live \ desc : x \in terminator_ran
    BY <1>1 DEF ObjectsInv, Phases, OpenSound, CollectSound, OverSound
  <2>2. ASSUME \E n \in DOMAIN calls : calls[n].op = "detach",
               ~\E n \in DOMAIN calls : calls[n].op = "collect"
        PROVE  ~\E n \in DOMAIN calls : calls[n].op = "terminate"
    <3>1. Has(Range(calls), "detach") /\ ~Has(Range(calls), "collect")
      BY <2>2 DEF Has, Range
    <3>2. closed
      BY <1>1, <3>1 DEF ObjectsInv, Phases, OpenSound, Has
    <3>3. \A f \in Range(calls) : f.op # "terminate"
      BY <1>1, <3>1, <3>2 DEF ObjectsInv, Phases, OverSound, Ending
    <3>. QED
      BY <3>3 DEF Range
  <2>. QED
    BY <2>1, <2>2 DEF TerminatorsComeFirst
<1>2. ASSUME ObjectsInv, RunTerminator, Top.obj \in terminating, val[Top.obj] # None
      PROVE  val[Top.obj] \in live \cap desc
  <2>1. ~Idle /\ Top.op = "release" /\ Top.obj \notin terminator_ran /\ Sound(live, val, ref, host, calls)
    BY <1>2 DEF RunTerminator, Is, ObjectsInv
  <2>2. PICK t : t = Top
    OBVIOUS
  <2>3. t.op = "release" /\ t.obj \in live /\ calls # <<>> /\ t = calls[Len(calls)]
    BY <2>1, <2>2, CallStep DEF Formed, Releases
  <2>4. ~closed
    <3>1. ~Has(Range(calls), "collect")
      BY <1>2, <2>1, WhatIsInnermost
    <3>. QED
      BY <1>2, <2>1, <2>2, <2>3, <3>1 DEF ObjectsInv, Phases, OverSound
  <2>5. val[t.obj] \in live \cup {None}
    <3>1. calls[Len(calls)].op \notin Clears /\ t.obj \in Var \cup live
      BY <2>3 DEF Clears
    <3>. QED
      BY <2>1, <3>1, Refers
  <2>6. live \subseteq desc
    BY <1>2, <2>4 DEF ObjectsInv, Phases, OpenSound
  <2>. QED
    BY <1>2, <2>2, <2>5, <2>6
<1>3. ObjectsInv /\ ObjectsInv' =>
        /\ TerminatorsComeFirst'
        /\ RunTerminator /\ Top.obj \in terminating /\ val[Top.obj] # None
             => val[Top.obj] \in live \cap desc
  <2>1. ObjectsInv' => TerminatorsComeFirst'
    BY <1>1, PTL
  <2>. QED
    BY <1>2, <2>1
<1>. QED
  BY <1>3, Invariance, PTL DEF TerminatorSeesWhole
===============================================================================
