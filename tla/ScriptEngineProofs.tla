-------------------------- MODULE ScriptEngineProofs --------------------------
(***************************************************************************)
(* Proofs about ScriptEngine, for any threads, sites, code, items and      *)
(* bounds.                                                                 *)
(***************************************************************************)
EXTENDS ScriptEngine, TLAPS, FiniteSetTheorems, SequenceTheorems, WellFoundedInduction

-----------------------------------------------------------------------------
(***************************************************************************)
(* Lists                                                                   *)
(***************************************************************************)

\* A non-empty set of naturals has a least element.
LEMMA LeastNat ==
  ASSUME NEW S \in SUBSET Nat, S # {}
  PROVE  \E k \in S : \A j \in S : k <= j
<1>1. PICK k \in S : \A j \in S : <<j, k>> \notin OpToRel(<, Nat)
  BY NatLessThanWellFounded, WFMin
<1>2. \A j \in S : ~(j < k)
  BY <1>1 DEF OpToRel
<1>. QED
  BY <1>2

\* Every position of the list that is left is the rank of exactly one kept
\* position: Rank(K, _) is a bijection.
LEMMA RankOnto ==
  ASSUME NEW m \in Nat, NEW K \in SUBSET (1..m)
  PROVE  /\ Cardinality(K) \in Nat
         /\ \A k \in K : Rank(K, k) \in 1..Cardinality(K)
         /\ \A k, l \in K : Rank(K, k) = Rank(K, l) => k = l
         /\ \A n \in 1..Cardinality(K) : \E k \in K : Rank(K, k) = n
<1>1. IsFiniteSet(K) /\ Cardinality(K) \in Nat
  <2>1. IsFiniteSet(1..m)
    BY FS_Interval
  <2>. QED
    BY <2>1, FS_Subset, FS_CardinalityType
<1>. DEFINE Below(k) == {j \in K : j <= k}
<1>2. ASSUME NEW k \in K
      PROVE  /\ IsFiniteSet(Below(k)) /\ Cardinality(Below(k)) \in Nat
             /\ Cardinality(Below(k)) <= Cardinality(K)
             /\ Cardinality(Below(k)) # 0
  <2>1. Below(k) \in SUBSET K /\ k \in Below(k)
    OBVIOUS
  <2>2. IsFiniteSet(Below(k)) /\ Cardinality(Below(k)) <= Cardinality(K)
    BY <1>1, <2>1, FS_Subset
  <2>. QED
    BY <2>1, <2>2, FS_CardinalityType, FS_EmptySet
<1>3. \A k \in K : Rank(K, k) \in 1..Cardinality(K)
  BY <1>1, <1>2 DEF Rank
<1>4. ASSUME NEW k \in K, NEW l \in K, k < l
      PROVE  Rank(K, k) # Rank(K, l)
  <2>1. Below(k) \in SUBSET Below(l) /\ l \in Below(l) /\ l \notin Below(k)
    <3>1. \A j \in K : j \in Int /\ k \in Int /\ l \in Int
      OBVIOUS
    <3>2. \A j \in Below(k) : j \in Below(l)
      BY <1>4, <3>1
    <3>3. l \in Below(l) /\ l \notin Below(k)
      BY <1>4, <3>1
    <3>. QED
      BY <3>2, <3>3
  <2>2. IsFiniteSet(Below(l))
    BY <1>2
  <2>. QED
    BY <2>1, <2>2, FS_Subset DEF Rank
<1>5. ASSUME NEW k \in K, NEW l \in K, Rank(K, k) = Rank(K, l)
      PROVE  k = l
  <2>1. k \in Nat /\ l \in Nat
    OBVIOUS
  <2>. QED
    BY <1>4, <1>5, <2>1
<1>. DEFINE f == [k \in K |-> Rank(K, k)]
<1>6. f \in Injection(K, 1..Cardinality(K))
  BY <1>3, <1>5 DEF Injection, IsInjective
<1>7. IsFiniteSet(1..Cardinality(K)) /\ Cardinality(1..Cardinality(K)) = Cardinality(K)
  BY <1>1, FS_Interval
<1>8. f \in Surjection(K, 1..Cardinality(K))
  BY <1>6, <1>7, FS_Injection
<1>9. \A n \in 1..Cardinality(K) : \E k \in K : Rank(K, k) = n
  BY <1>8 DEF Surjection
<1>. QED
  BY <1>1, <1>3, <1>5, <1>9

\* Unlinking entries leaves a list, and what it holds is what stood at the
\* kept positions.
LEMMA UnlinkedIsList ==
  ASSUME NEW S, NEW s \in Seq(S), NEW K \in SUBSET (DOMAIN s)
  PROVE  /\ Unlinked(s, K) \in Seq(S)
         /\ \A x : InList(x, Unlinked(s, K)) <=> \E k \in K : s[k] = x
<1>1. Len(s) \in Nat /\ DOMAIN s = 1..Len(s) /\ \A k \in DOMAIN s : s[k] \in S
  BY LenProperties, ElementOfSeq
<1>. DEFINE N == Cardinality(K)
            At(n) == CHOOSE k \in K : Rank(K, k) = n
<1>2. /\ N \in Nat
      /\ \A k \in K : Rank(K, k) \in 1..N
      /\ \A k, l \in K : Rank(K, k) = Rank(K, l) => k = l
      /\ \A n \in 1..N : \E k \in K : Rank(K, k) = n
  BY <1>1, RankOnto
<1>3. \A n \in 1..N : At(n) \in K
  BY <1>2
<1>4. \A k \in K : At(Rank(K, k)) = k
  BY <1>2
<1>5. Unlinked(s, K) = [n \in 1..N |-> s[At(n)]]
  BY DEF Unlinked
<1>. HIDE DEF N, At
<1>6. Unlinked(s, K) \in Seq(S)
  <2>1. \A n \in 1..N : s[At(n)] \in S
    BY <1>1, <1>3
  <2>. QED
    BY <1>2, <1>5, <2>1, IsASeq
<1>7. ASSUME NEW x
      PROVE  InList(x, Unlinked(s, K)) <=> \E k \in K : s[k] = x
  <2>1. ASSUME InList(x, Unlinked(s, K))
        PROVE  \E k \in K : s[k] = x
    BY <1>3, <1>5, <2>1 DEF InList
  <2>2. ASSUME NEW k \in K, s[k] = x
        PROVE  InList(x, Unlinked(s, K))
    <3>1. Rank(K, k) \in 1..N /\ At(Rank(K, k)) = k
      BY <1>2, <1>4
    <3>. QED
      BY <1>5, <2>2, <3>1 DEF InList
  <2>. QED
    BY <2>1, <2>2
<1>. QED
  BY <1>6, <1>7

-----------------------------------------------------------------------------
(***************************************************************************)
(* The inductive invariant                                                 *)
(***************************************************************************)

\* What each operation in progress may rely on when the host calls back: a
\* site that is being attached is the owner's and alone on the stack; a script, or a start,
\* keeps the site; a release is the outermost operation, its target is the
\* state already, and nothing starts the engine inside it.
FrameSound(k) ==
  LET f == frames[k] IN
    /\ f.op = "SetScriptSite" =>
         /\ Len(frames) = 1 /\ f.arg \in Site /\ site = None
         /\ thread # None /\ entering[thread] = f.arg
    /\ f.op = "Exec" => site # None
    /\ f.op = "Start" => f.arg \in Started /\ isInit /\ site # None
    /\ f.op = "Release" =>
         /\ k = 1 /\ f.arg = state /\ state \in {"UNINITIALIZED", "CLOSED"}
         /\ \A j \in DOMAIN frames : frames[j].op # "Start"

FramesSound == \A k \in DOMAIN frames : FrameSound(k)

\* Code has run only in a session that is not over, so that a procedure the host
\* calls has a site.
RanHasSite == \A c \in Code : runs[c] > 0 => site # None

\* While the engine is free a thread may be in SetScriptSite, but then no
\* operation is in progress that its claim would interfere with.
FreeIsIdle == thread = None => Idle \/ NobodyEnters

\* FramesSound is what makes the ownership invariants inductive: the steps
\* that attach, start and release act on what their frame remembers; calls of
\* procedures by the host rely on RanHasSite, claims on FreeIsIdle.
IInv == /\ TypeOK /\ FramesSound /\ SiteHasOwner /\ ActiveHasSite
        /\ RanHasSite /\ FreeIsIdle

\* A new operation is the innermost one and leaves the others as they are.
LEMMA PushFrame ==
  ASSUME NEW fs \in Seq(Frames), NEW f \in Frames
  PROVE  /\ Append(fs, f) \in Seq(Frames)
         /\ Len(Append(fs, f)) = Len(fs) + 1
         /\ Append(fs, f)[Len(fs) + 1] = f
         /\ \A k \in 1..Len(fs) : Append(fs, f)[k] = fs[k]
         /\ DOMAIN Append(fs, f) = 1..(Len(fs) + 1)
BY AppendProperties, LenProperties

\* An operation that returns leaves the others as they are.
LEMMA PopFrame ==
  ASSUME NEW fs \in Seq(Frames), fs # <<>>
  PROVE  LET gs == SubSeq(fs, 1, Len(fs) - 1) IN
           /\ gs \in Seq(Frames)
           /\ Len(fs) \in Nat \ {0} /\ Len(gs) = Len(fs) - 1
           /\ DOMAIN gs = 1..(Len(fs) - 1)
           /\ \A k \in 1..(Len(fs) - 1) : gs[k] = fs[k]
<1>1. Len(fs) \in Nat \ {0} /\ \A k \in 1..Len(fs) : fs[k] \in Frames
  BY EmptySeq, LenProperties, ElementOfSeq
<1>. DEFINE gs == SubSeq(fs, 1, Len(fs) - 1)
<1>2. \A k \in 1..(Len(fs) - 1) : fs[k] \in Frames
  BY <1>1
<1>3. /\ gs \in Seq(Frames)
      /\ Len(gs) = IF 1 <= Len(fs) - 1 THEN Len(fs) - 1 - 1 + 1 ELSE 0
      /\ \A k \in 1..(Len(fs) - 1 - 1 + 1) : gs[k] = fs[1 + k - 1]
  BY <1>1, <1>2, SubSeqProperties
<1>. HIDE DEF gs
<1>4. Len(gs) = Len(fs) - 1
  <2>1. \A n \in Nat \ {0} : (IF 1 <= n - 1 THEN n - 1 - 1 + 1 ELSE 0) = n - 1
    OBVIOUS
  <2>. QED
    BY <1>1, <1>3, <2>1
<1>4a. DOMAIN gs = 1..(Len(fs) - 1)
  BY <1>3, <1>4, LenProperties
<1>5. \A k \in 1..(Len(fs) - 1) : gs[k] = fs[k]
  BY <1>1, <1>3
<1>. QED
  BY <1>1, <1>3, <1>4, <1>4a, <1>5 DEF gs

\* Moving the position of the innermost operation changes nothing else.
LEMMA AdvanceFrame ==
  ASSUME NEW fs \in Seq(Frames), fs # <<>>, NEW p \in Nat
  PROVE  LET gs == [fs EXCEPT ![Len(fs)].pos = p] IN
           /\ gs \in Seq(Frames)
           /\ Len(gs) = Len(fs) /\ DOMAIN gs = 1..Len(fs)
           /\ \A k \in 1..Len(fs) : gs[k].op = fs[k].op /\ gs[k].arg = fs[k].arg
<1>1. Len(fs) \in 1..Len(fs) /\ \A k \in 1..Len(fs) : fs[k] \in Frames
  BY EmptySeq, LenProperties, ElementOfSeq
<1>. DEFINE e == [fs[Len(fs)] EXCEPT !.pos = p]
<1>2. e \in Frames /\ e.op = fs[Len(fs)].op /\ e.arg = fs[Len(fs)].arg
  BY <1>1 DEF Frames
<1>3. [fs EXCEPT ![Len(fs)].pos = p] = [fs EXCEPT ![Len(fs)] = e]
  OBVIOUS
<1>. HIDE DEF e
<1>. QED
  BY <1>1, <1>2, <1>3, ExceptSeq, LenProperties

-----------------------------------------------------------------------------
(***************************************************************************)
(* Types                                                                   *)
(***************************************************************************)

LEMMA InitTypes == Init => TypeOK
<1>1. <<>> \in Seq(Code) /\ <<>> \in Seq(Item) /\ <<>> \in Seq(Frames)
  BY EmptySeq
<1>. SUFFICES ASSUME Init
     PROVE  TypeOK
  OBVIOUS
<1>2. /\ state \in States /\ site \in Site \cup {None} /\ thread \in Thread \cup {None}
      /\ isInit \in BOOLEAN /\ ref \in BOOLEAN /\ claims \in Nat
      /\ entering \in [Thread -> Site \cup {None}]
      /\ codeList \in Seq(Code) /\ itemList \in Seq(Item) /\ frames \in Seq(Frames)
  BY <1>1 DEF Init, States
<1>3. /\ persistent \in [Code -> BOOLEAN] /\ pending \in [Code -> BOOLEAN]
      /\ codeItem \in [Code -> Item \cup {None}]
      /\ lastNext \in [Code -> Code \cup {NoClass}]
      /\ runs \in [Code -> Nat]
  BY DEF Init
<1>4. /\ itemName \in [Item -> Name \cup {None}]
      /\ itemFlags \in [Item -> SUBSET {"GLOBALMEMBERS", "CODEONLY", "ISPERSISTENT"}]
      /\ itemDisp \in [Item -> Site \cup {None}]
      /\ classes \in [Item \cup {Global} -> Code \cup {NoObject, NoClass}]
  BY DEF Init
<1>. QED
  BY <1>2, <1>3, <1>4 DEF TypeOK

\* The operation that is executing.
LEMMA TopFrame ==
  ASSUME IInv, frames # <<>>
  PROVE  /\ Len(frames) \in 1..Len(frames) /\ DOMAIN frames = 1..Len(frames)
         /\ Top \in Frames /\ FrameSound(Len(frames))
<1>1. frames \in Seq(Frames)
  BY DEF IInv, TypeOK
<1>2. Len(frames) \in 1..Len(frames) /\ DOMAIN frames = 1..Len(frames)
  BY <1>1, EmptySeq, LenProperties
<1>. QED
  BY <1>1, <1>2, ElementOfSeq DEF Top, IInv, FramesSound

\* exec_queued_code finds the first pending code at or after its position.
LEMMA NextPending ==
  ASSUME TypeOK, NEW p, PendingFrom(p) # {}
  PROVE  LET k == CHOOSE k \in PendingFrom(p) : \A j \in PendingFrom(p) : k <= j IN
           k \in PendingFrom(p) /\ \A j \in PendingFrom(p) : k <= j
<1>1. PendingFrom(p) \in SUBSET Nat
  BY LenProperties DEF PendingFrom, TypeOK
<1>. QED
  BY <1>1, LeastNat

\* Creating script objects keeps class lists class lists.
LEMMA ObjectTypes ==
  ASSUME TypeOK, NEW S
  PROVE  CreateObjects(S) \in [Item \cup {Global} -> Code \cup {NoObject, NoClass}]
BY DEF TypeOK, CreateObjects

\* What a lookup retrieves comes from the attached site.
LEMMA DispTypes ==
  ASSUME TypeOK, NEW i
  PROVE  DispAfterLookup(i) \in [Item -> Site \cup {None}]
BY DEF TypeOK, DispAfterLookup

\* Running code in the script object of an item, or in the engine's own.
LEMMA ExecTypes ==
  ASSUME TypeOK, NEW c \in Code, NEW obj \in Item \cup {Global},
         NEW objs \in [Item \cup {Global} -> Code \cup {NoObject, NoClass}],
         NEW fs \in Seq(Frames), exec_global_code(c, objs, obj, pending, fs)
  PROVE  /\ classes' \in [Item \cup {Global} -> Code \cup {NoObject, NoClass}]
         /\ lastNext' \in [Code -> Code \cup {NoClass}]
         /\ pending' \in [Code -> BOOLEAN]
         /\ runs' \in [Code -> Nat]
         /\ frames' \in Seq(Frames)
<1>1. classes' \in [Item \cup {Global} -> Code \cup {NoObject, NoClass}]
  BY DEF TypeOK, exec_global_code
<1>2. lastNext' \in [Code -> Code \cup {NoClass}]
  <2>1. (IF objs[obj] = NoObject THEN NoClass ELSE objs[obj]) \in Code \cup {NoClass}
    BY DEF TypeOK
  <2>. QED
    BY <2>1 DEF TypeOK, exec_global_code
<1>3. pending' \in [Code -> BOOLEAN] /\ runs' \in [Code -> Nat]
  BY DEF TypeOK, exec_global_code, PendingOnEntry
<1>4. frames' \in Seq(Frames)
  <2>1. Frame("Exec", c, 0) \in Frames
    BY DEF Frames, Frame
  <2>. QED
    BY <2>1, PushFrame DEF exec_global_code
<1>. QED
  BY <1>1, <1>2, <1>3, <1>4

\* Code that was compiled, and queued or run.
LEMMA CompileTypes ==
  ASSUME TypeOK, NEW c \in Code, NEW i \in Item \cup {None}, NEW persist \in BOOLEAN,
         NEW STATE objs, objs \in [Item \cup {Global} -> Code \cup {NoObject, NoClass}],
         NEW STATE disps, disps \in [Item -> Site \cup {None}],
         CompileAndRun(c, i, persist, objs, disps),
         UNCHANGED <<engineVars, itemList, itemName, itemFlags, claims>>
  PROVE  TypeOK'
<1>. DEFINE item == IF i # None /\ objs[i] = NoObject THEN None ELSE i
<1>1. item \in Item \cup {None} /\ ScriptObj(item) \in Item \cup {Global}
  BY DEF ScriptObj
<1>2. /\ codeList' = Append(codeList, c)
      /\ persistent' = [persistent EXCEPT ![c] = persist]
      /\ codeItem' = [codeItem EXCEPT ![c] = item]
      /\ itemDisp' = disps
      /\ \/ exec_global_code(c, objs, ScriptObj(item), pending, frames)
         \/ /\ pending' = [pending EXCEPT ![c] = TRUE]
            /\ classes' = objs
            /\ UNCHANGED <<lastNext, runs, frames>>
  BY DEF CompileAndRun
<1>. HIDE DEF item
<1>3. /\ codeList' \in Seq(Code) /\ persistent' \in [Code -> BOOLEAN]
      /\ codeItem' \in [Code -> Item \cup {None}] /\ itemDisp' \in [Item -> Site \cup {None}]
  BY <1>1, <1>2, AppendProperties DEF TypeOK
<1>4. /\ classes' \in [Item \cup {Global} -> Code \cup {NoObject, NoClass}]
      /\ lastNext' \in [Code -> Code \cup {NoClass}]
      /\ pending' \in [Code -> BOOLEAN]
      /\ runs' \in [Code -> Nat]
      /\ frames' \in Seq(Frames)
  <2>1. CASE exec_global_code(c, objs, ScriptObj(item), pending, frames)
    BY <1>1, <2>1, ExecTypes DEF TypeOK
  <2>2. CASE /\ pending' = [pending EXCEPT ![c] = TRUE]
             /\ classes' = objs
             /\ UNCHANGED <<lastNext, runs, frames>>
    BY <2>2 DEF TypeOK
  <2>. QED
    BY <1>2, <2>1, <2>2
<1>. QED
  BY <1>3, <1>4 DEF TypeOK, engineVars

LEMMA NextTypes == IInv /\ [Next]_vars => TypeOK'
<1>. SUFFICES ASSUME IInv, [Next]_vars
     PROVE  TypeOK'
  OBVIOUS
<1>. USE EngineAssumption
<1>. TypeOK
  BY DEF IInv
<1>0. /\ frames \in Seq(Frames) /\ codeList \in Seq(Code) /\ itemList \in Seq(Item)
      /\ classes \in [Item \cup {Global} -> Code \cup {NoObject, NoClass}]
      /\ itemDisp \in [Item -> Site \cup {None}]
  BY DEF TypeOK
<1>1. ASSUME NEW t \in Thread, NEW s \in Site, SetScriptSite(t, s)
      PROVE  TypeOK'
  BY <1>1 DEF SetScriptSite, TypeOK, codeVars, itemVars
<1>22. ASSUME NEW t \in Thread, ClaimEngine(t)
       PROVE  TypeOK'
  <2>1. Frame("SetScriptSite", entering[t], 1) \in Frames
    BY <1>22 DEF ClaimEngine, Frame, Frames, TypeOK
  <2>. QED
    BY <1>0, <1>22, <2>1, PushFrame
       DEF ClaimEngine, Push, TypeOK, codeVars, itemVars
<1>23. ASSUME NEW t \in Thread, ClaimRefused(t)
       PROVE  TypeOK'
  BY <1>23 DEF ClaimRefused, Leaves, TypeOK, codeVars, itemVars
<1>2. ASSUME NEW t \in Thread, NEW i \in Item, NEW n \in Name, NEW f \in FlagSets,
             AddNamedItem(t, i, n, f)
      PROVE  TypeOK'
  BY <1>0, <1>2, AppendProperties
     DEF AddNamedItem, TypeOK, engineVars, codeVars
<1>3. ASSUME NEW t \in Thread, NEW n \in Name, GetScriptDispatch(t, n)
      PROVE  TypeOK'
  <2>1. /\ UNCHANGED <<engineVars, codeVars, itemList, itemName, itemFlags, frames, claims>>
        /\ \E S : classes' = CreateObjects(S)
        /\ itemDisp' = itemDisp \/ \E i : itemDisp' = DispAfterLookup(i)
    BY <1>3 DEF GetScriptDispatch, LookupFails
  <2>2. /\ classes' \in [Item \cup {Global} -> Code \cup {NoObject, NoClass}]
        /\ itemDisp' \in [Item -> Site \cup {None}]
    BY <1>0, <2>1, ObjectTypes, DispTypes
  <2>. QED
    BY <2>1, <2>2 DEF TypeOK, engineVars, codeVars
<1>4. ASSUME NEW t \in Thread, NEW c \in Code, NEW n \in Name \cup {None},
             NEW p \in BOOLEAN, ParseScriptText(t, c, n, p)
      PROVE  TypeOK'
  <2>0. UNCHANGED <<engineVars, itemList, itemName, itemFlags, claims>>
    BY <1>4 DEF ParseScriptText
  <2>1. CASE CompileAndRun(c, None, p, classes, itemDisp)
    <3>1. None \in Item \cup {None}
      OBVIOUS
    <3>. QED
      BY ONLY <1>0, <2>0, <2>1, <3>1, CompileTypes, TypeOK, c \in Code, p \in BOOLEAN, Zenon
  <2>2. ASSUME NEW k \in DOMAIN itemList,
               CompileAndRun(c, itemList[k], p, CreateObjects(Visited(n, k)),
                             DispAfterLookup(itemList[k]))
        PROVE  TypeOK'
    <3>1. itemList[k] \in Item
      BY <1>0, ElementOfSeq, LenProperties
    <3>2. /\ CreateObjects(Visited(n, k)) \in [Item \cup {Global} -> Code \cup {NoObject, NoClass}]
          /\ DispAfterLookup(itemList[k]) \in [Item -> Site \cup {None}]
      BY <1>0, ObjectTypes, DispTypes
    <3>3. itemList[k] \in Item \cup {None}
      BY <3>1
    <3>. QED
      BY ONLY <1>0, <2>0, <2>2, <3>2, <3>3, CompileTypes, TypeOK, c \in Code, p \in BOOLEAN, Zenon
  <2>3. CASE LookupFails(n) /\ UNCHANGED <<codeVars, itemDisp, frames>>
    BY <1>0, <1>4, <2>3, ObjectTypes
       DEF ParseScriptText, LookupFails, TypeOK, engineVars, codeVars
  <2>. QED
    BY <1>4, <2>1, <2>2, <2>3 DEF ParseScriptText
<1>5. ASSUME NEW t \in Thread, NEW c \in Code, EvaluateExpression(t, c)
      PROVE  TypeOK'
  <2>1. Frame("Exec", c, 0) \in Frames
    BY DEF Frame, Frames
  <2>. QED
    BY <1>0, <1>5, <2>1, PushFrame, AppendProperties
       DEF EvaluateExpression, Push, TypeOK, engineVars, itemVars
<1>6. ASSUME NEW t \in Thread, NEW c \in Code, ParseProcedureText(t, c)
      PROVE  TypeOK'
  BY <1>0, <1>6, AppendProperties
     DEF ParseProcedureText, TypeOK, engineVars, itemVars
<1>7. ASSUME NEW t \in Thread, NEW ss \in Started, Start(t, ss)
      PROVE  TypeOK'
  <2>1. Frame("Start", ss, 1) \in Frames
    BY DEF Frame, Frames, Started, States
  <2>. QED
    BY <1>0, <1>7, <2>1, PushFrame
       DEF Start, Push, TypeOK, engineVars, codeVars, itemVars
<1>8. ASSUME NEW target \in {"INITIALIZED", "UNINITIALIZED", "CLOSED"},
             decrease_state(target), ref' \in BOOLEAN
      PROVE  TypeOK'
  <2>1. Frame("Release", target, 0) \in Frames
    BY DEF Frame, Frames, States
  <2>2. frames' \in Seq(Frames)
    <3>1. frames' = Append(frames, Frame("Release", target, 0)) \/ frames' = frames
      BY <1>8 DEF decrease_state, Push
    <3>2. Append(frames, Frame("Release", target, 0)) \in Seq(Frames)
      BY <1>0, <2>1, PushFrame
    <3>. QED
      BY <1>0, <3>1, <3>2
  <2>. QED
    BY <1>8, <2>2 DEF decrease_state, TypeOK, States, codeVars, itemVars
<1>9. ASSUME NEW t \in Thread, Stop(t) \/ Reset(t) \/ Close(t)
      PROVE  TypeOK'
  BY <1>8, <1>9 DEF Stop, Reset, Close, TypeOK
<1>10. CASE InitNew
  BY <1>10 DEF InitNew, TypeOK, States, codeVars, itemVars
<1>11. CASE FinalRelease
  <2>1. CASE state = "CLOSED"
    <3>1. /\ ref' = FALSE
          /\ UNCHANGED <<state, site, thread, isInit, entering, codeVars, itemVars, classes,
                         frames, claims>>
      BY <1>11, <2>1 DEF FinalRelease
    <3>. QED
      BY <3>1 DEF TypeOK, codeVars, itemVars
  <2>2. CASE state # "CLOSED"
    BY <1>8, <1>11, <2>2 DEF FinalRelease
  <2>. QED
    BY <2>1, <2>2
<1>12. CASE RetrieveItemDisp
  <2>1. frames # <<>> /\ Top.pos \in Nat /\ Top.arg \in Site
    BY <1>12, TopFrame DEF RetrieveItemDisp, Running, FrameSound, Top, Frames
  <2>2. frames' \in Seq(Frames)
    <3>1. NextItem(Top.pos) \in Nat
      BY <2>1 DEF NextItem
    <3>2. frames' = [frames EXCEPT ![Len(frames)].pos = NextItem(Top.pos)]
      BY <1>12 DEF RetrieveItemDisp, Advance
    <3>. QED
      BY <1>0, <2>1, <3>1, <3>2, AdvanceFrame
  <2>. QED
    BY <1>12, <2>1, <2>2
       DEF RetrieveItemDisp, TypeOK, engineVars, codeVars
<1>13. CASE RetrieveItemDispFails
  <2>1. frames' \in Seq(Frames)
    BY <1>0, <1>13, PopFrame DEF RetrieveItemDispFails, Running, Pop
  <2>. QED
    BY <1>13, <2>1 DEF RetrieveItemDispFails, ThreadAfterFailure, Leaves, TypeOK, codeVars, itemVars
<1>14. CASE AttachSite
  <2>1. frames' \in Seq(Frames) /\ Top.arg \in Site
    BY <1>0, <1>14, PopFrame, TopFrame DEF AttachSite, Running, Pop, FrameSound, Top
  <2>. QED
    BY <1>14, <2>1 DEF AttachSite, StateOnAttach, Leaves, TypeOK, States, codeVars, itemVars
<1>15. ASSUME NEW c \in Code, ExecuteGlobal(c)
       PROVE  TypeOK'
  BY <1>0, <1>15, ExecTypes, AppendProperties
     DEF ExecuteGlobal, TypeOK, engineVars, itemVars
<1>16. CASE ExecReturns
  BY <1>0, <1>16, PopFrame
     DEF ExecReturns, Running, Pop, TypeOK, engineVars, codeVars, itemVars
<1>17. CASE RunQueued
  <2>1. frames # <<>> /\ PendingFrom(Top.pos) # {}
    BY <1>17 DEF RunQueued, Running
  <2>2. PICK k \in DOMAIN codeList :
             exec_global_code(codeList[k], classes, ScriptObj(codeItem[codeList[k]]), pending,
                              [frames EXCEPT ![Len(frames)].pos = k + 1])
    <3>. DEFINE k == CHOOSE k \in PendingFrom(Top.pos) :
                       \A j \in PendingFrom(Top.pos) : k <= j
    <3>1. k \in PendingFrom(Top.pos)
      BY <2>1, NextPending
    <3>2. k \in DOMAIN codeList
      BY <3>1 DEF PendingFrom
    <3>3. exec_global_code(codeList[k], classes, ScriptObj(codeItem[codeList[k]]), pending,
                           [frames EXCEPT ![Len(frames)].pos = k + 1])
      BY <1>17 DEF RunQueued
    <3>. QED
      BY <3>2, <3>3
  <2>3. codeList[k] \in Code /\ k \in Nat
    BY <1>0, ElementOfSeq, LenProperties
  <2>4. ScriptObj(codeItem[codeList[k]]) \in Item \cup {Global}
    BY <2>3 DEF TypeOK, ScriptObj
  <2>5. [frames EXCEPT ![Len(frames)].pos = k + 1] \in Seq(Frames)
    <3>1. k + 1 \in Nat
      BY <2>3
    <3>. QED
      BY <1>0, <2>1, <3>1, AdvanceFrame
  <2>. QED
    BY <1>0, <1>17, <2>2, <2>3, <2>4, <2>5, ExecTypes
       DEF RunQueued, TypeOK, engineVars, itemVars
<1>18. CASE StartDone
  <2>1. frames' \in Seq(Frames) /\ Top.arg \in Started
    BY <1>0, <1>18, PopFrame, TopFrame DEF StartDone, Running, Pop, FrameSound, Top
  <2>. QED
    BY <1>18, <2>1 DEF StartDone, TypeOK, States, Started, codeVars, itemVars
<1>19. CASE ReleaseScript
  <2>1. frames' \in Seq(Frames)
    BY <1>0, <1>19, PopFrame DEF ReleaseScript, Running, Pop
  <2>2. codeList' \in Seq(Code) /\ itemList' \in Seq(Item)
    BY <1>0, <1>19, UnlinkedIsList, EmptySeq DEF ReleaseScript, KeptCode, KeptItems
  <2>3. /\ pending' \in [Code -> BOOLEAN] /\ persistent' \in [Code -> BOOLEAN]
        /\ codeItem' \in [Code -> Item \cup {None}]
        /\ lastNext' \in [Code -> Code \cup {NoClass}]
        /\ runs' \in [Code -> Nat]
    BY <1>19 DEF ReleaseScript, NextAfterRelease, RequeuedCode, TypeOK
  <2>4. /\ classes' \in [Item \cup {Global} -> Code \cup {NoObject, NoClass}]
        /\ itemDisp' \in [Item -> Site \cup {None}]
    BY <1>19 DEF ReleaseScript, TypeOK
  <2>. QED
    BY <1>19, <2>1, <2>2, <2>3, <2>4 DEF ReleaseScript, SiteAfterRelease, TypeOK
<1>20. CASE UNCHANGED vars
  BY <1>20 DEF vars, engineVars, codeVars, itemVars, TypeOK
<1>21. ASSUME NEW t \in Thread, NEW c \in Code, InvokeEx(t, c)
       PROVE  TypeOK'
  <2>1. Frame("Exec", c, 0) \in Frames
    BY DEF Frame, Frames
  <2>. QED
    BY <1>0, <1>21, <2>1, PushFrame
       DEF InvokeEx, Push, TypeOK, engineVars, codeVars, itemVars
<1>. QED
  BY <1>1, <1>2, <1>3, <1>4, <1>5, <1>6, <1>7, <1>9, <1>10, <1>11, <1>12, <1>13,
     <1>14, <1>15, <1>16, <1>17, <1>18, <1>19, <1>20, <1>21, <1>22, <1>23 DEF Next

-----------------------------------------------------------------------------
(***************************************************************************)
(* Ownership, and what the operations in progress rely on                  *)
(***************************************************************************)

\* A script object, once created, is dropped by a release only.
LEMMA ObjectsStay ==
  ASSUME TypeOK, NEW S, classes[Global] # NoObject
  PROVE  CreateObjects(S)[Global] # NoObject
BY EngineAssumption DEF TypeOK, CreateObjects

LEMMA ExecObjects ==
  ASSUME TypeOK, NEW c \in Code, NEW obj \in Item \cup {Global},
         NEW objs \in [Item \cup {Global} -> Code \cup {NoObject, NoClass}],
         objs[Global] # NoObject, NEW fs, exec_global_code(c, objs, obj, pending, fs)
  PROVE  classes'[Global] # NoObject
BY EngineAssumption DEF exec_global_code

\* What a step leaves of the invariant when it touches neither the engine's
\* variables nor the operations in progress.
LEMMA QuietStep ==
  ASSUME IInv, UNCHANGED <<engineVars, frames>>,
         classes[Global] # NoObject => classes'[Global] # NoObject
  PROVE  FramesSound' /\ SiteHasOwner' /\ ActiveHasSite'
BY DEF IInv, engineVars, FramesSound, FrameSound, SiteHasOwner, ActiveHasSite

\* A script that starts to run keeps the invariant if a site is attached.
LEMMA ExecStep ==
  ASSUME IInv, UNCHANGED engineVars, site # None,
         NEW fs \in Seq(Frames), Len(fs) = Len(frames),
         \A k \in 1..Len(frames) : fs[k].op = frames[k].op /\ fs[k].arg = frames[k].arg,
         NEW c \in Code, frames' = Append(fs, Frame("Exec", c, 0)),
         classes[Global] # NoObject => classes'[Global] # NoObject
  PROVE  FramesSound' /\ SiteHasOwner' /\ ActiveHasSite'
<1>1. SiteHasOwner' /\ ActiveHasSite'
  BY DEF IInv, engineVars, SiteHasOwner, ActiveHasSite
<1>. DEFINE e == Frame("Exec", c, 0)
<1>2. e \in Frames /\ e.op = "Exec"
  BY DEF Frame, Frames
<1>. HIDE DEF e
<1>3. frames \in Seq(Frames) /\ Len(frames) \in Nat /\ DOMAIN frames = 1..Len(frames)
  BY LenProperties DEF IInv, TypeOK
<1>4. /\ Len(frames') = Len(frames) + 1 /\ DOMAIN frames' = 1..(Len(frames) + 1)
      /\ frames'[Len(frames) + 1] = e
      /\ \A k \in 1..Len(frames) : frames'[k] = fs[k]
  BY <1>2, PushFrame DEF e
<1>5. \A k \in DOMAIN frames : frames[k].op # "SetScriptSite"
  BY DEF IInv, FramesSound, FrameSound
<1>6. ASSUME NEW k \in DOMAIN frames'
      PROVE  FrameSound(k)'
  <2>1. CASE k = Len(frames) + 1
    BY <1>2, <1>4, <2>1 DEF FrameSound, engineVars
  <2>2. CASE k \in 1..Len(frames)
    <3>1. FrameSound(k) /\ frames'[k].op = frames[k].op /\ frames'[k].arg = frames[k].arg
      BY <1>3, <1>4, <2>2 DEF IInv, FramesSound
    <3>2. frames[k].op # "SetScriptSite"
      BY <1>3, <1>5, <2>2
    <3>3. \A j \in DOMAIN frames' : frames'[j].op = "Start" =>
             j \in DOMAIN frames /\ frames[j].op = "Start"
      BY <1>2, <1>3, <1>4
    <3>. QED
      BY <3>1, <3>2, <3>3 DEF FrameSound, engineVars
  <2>. QED
    BY <1>3, <1>4, <2>1, <2>2
<1>7. FramesSound'
  BY <1>6 DEF FramesSound
<1>. QED
  BY <1>1, <1>7

\* An operation that returns leaves sound what the others rely on, as long as
\* it leaves them the site, InitNew and, unless it is a start, the state.
LEMMA ReturnStep ==
  ASSUME IInv, frames # <<>>, Pop,
         Len(frames) > 1 => UNCHANGED <<site, isInit>> /\ (Top.op = "Start" \/ UNCHANGED state)
  PROVE  FramesSound'
<1>1. frames \in Seq(Frames)
  BY DEF IInv, TypeOK
<1>2. /\ Len(frames) \in Nat \ {0} /\ DOMAIN frames = 1..Len(frames)
      /\ DOMAIN frames' = 1..(Len(frames) - 1)
      /\ \A k \in 1..(Len(frames) - 1) : frames'[k] = frames[k]
  BY <1>1, PopFrame, LenProperties DEF Pop
<1>3. ASSUME NEW k \in DOMAIN frames'
      PROVE  FrameSound(k)'
  <2>1. k \in DOMAIN frames /\ FrameSound(k) /\ frames'[k] = frames[k] /\ Len(frames) > 1
    BY <1>2 DEF IInv, FramesSound
  <2>2. Len(frames) # 1 /\ Len(frames) \in DOMAIN frames
    BY <1>2, <2>1
  <2>3. \A j \in DOMAIN frames' : j \in DOMAIN frames /\ frames'[j] = frames[j]
    BY <1>2
  <2>. QED
    BY <2>1, <2>2, <2>3 DEF FrameSound, Top
<1>. QED
  BY <1>3 DEF FramesSound

\* SetScriptSite and the releases begin when no operation is in progress.
LEMMA FirstFrame ==
  ASSUME IInv, Idle, NEW f \in Frames, Push(f)
  PROVE  Len(frames') = 1 /\ DOMAIN frames' = {1} /\ frames'[1] = f
<1>1. frames \in Seq(Frames) /\ Len(frames) = 0
  BY EmptySeq DEF IInv, TypeOK, Idle
<1>2. /\ Len(frames') = 0 + 1 /\ DOMAIN frames' = 1..(0 + 1) /\ frames'[0 + 1] = f
  BY <1>1, PushFrame DEF Push
<1>. QED
  BY <1>2

\* The parts of IInv that are about the engine's owner and its operations.
Sound == FramesSound /\ SiteHasOwner /\ ActiveHasSite

LEMMA ReleaseBegins ==
  ASSUME IInv, NEW target \in {"UNINITIALIZED", "CLOSED"}, Idle, decrease_state(target)
  PROVE  Sound'
<1>. DEFINE f == Frame("Release", target, 0)
<1>1. f \in Frames /\ f.op = "Release" /\ f.arg = target
  BY DEF Frame, Frames, States
<1>2. Push(f) /\ state' = target /\ UNCHANGED <<site, thread, isInit, entering, classes>>
  BY DEF decrease_state, ReleasesSession
<1>. HIDE DEF f
<1>3. Len(frames') = 1 /\ DOMAIN frames' = {1} /\ frames'[1] = f
  BY <1>1, <1>2, FirstFrame
<1>4. FramesSound'
  BY <1>1, <1>2, <1>3 DEF FramesSound, FrameSound
<1>5. SiteHasOwner' /\ ActiveHasSite'
  BY <1>2 DEF IInv, SiteHasOwner, ActiveHasSite, Started
<1>. QED
  BY <1>4, <1>5 DEF Sound

\* A thread that enters or leaves SetScriptSite and is not the owner.
LEMMA EnteringStep ==
  ASSUME IInv, UNCHANGED <<state, site, thread, isInit, classes, frames>>,
         NEW t \in Thread, thread # t, NEW s, entering' = [entering EXCEPT ![t] = s]
  PROVE  Sound'
<1>1. FramesSound'
  <2>1. \A u \in Thread : u # t => entering'[u] = entering[u]
    BY DEF IInv, TypeOK
  <2>2. thread # None => thread \in Thread
    BY DEF IInv, TypeOK
  <2>. QED
    BY <2>1, <2>2 DEF IInv, FramesSound, FrameSound
<1>. QED
  BY <1>1 DEF IInv, Sound, SiteHasOwner, ActiveHasSite

LEMMA NextSound == IInv /\ [Next]_vars => Sound'
<1>. SUFFICES ASSUME IInv, [Next]_vars
     PROVE  Sound'
  OBVIOUS
<1>. TypeOK
  BY DEF IInv
<1>0. /\ frames \in Seq(Frames) /\ Len(frames) \in Nat /\ DOMAIN frames = 1..Len(frames)
      /\ classes \in [Item \cup {Global} -> Code \cup {NoObject, NoClass}]
  BY LenProperties DEF TypeOK
<1>1. ASSUME NEW t \in Thread, NEW s \in Site, SetScriptSite(t, s)
      PROVE  Sound'
  <2>1. /\ UNCHANGED <<state, site, thread, isInit, classes, frames>> /\ thread # t
        /\ entering' = [entering EXCEPT ![t] = s]
    BY <1>1 DEF SetScriptSite
  <2>. QED
    BY <2>1, EnteringStep
<1>22. ASSUME NEW t \in Thread, ClaimEngine(t)
       PROVE  Sound'
  <2>. DEFINE f == Frame("SetScriptSite", entering[t], 1)
  <2>1. entering[t] \in Site
    BY <1>22 DEF ClaimEngine, TypeOK
  <2>2. f \in Frames /\ f.op = "SetScriptSite" /\ f.arg = entering[t]
    BY <2>1 DEF Frame, Frames
  <2>3. /\ Push(f) /\ thread = None /\ thread' = t /\ UNCHANGED entering
        /\ UNCHANGED <<state, site, isInit, classes>>
    BY <1>22 DEF ClaimEngine, CanClaim
  <2>4. Idle /\ site = None
    BY <1>22, <2>3 DEF ClaimEngine, IInv, FreeIsIdle, NobodyEnters, SiteHasOwner
  <2>. HIDE DEF f
  <2>5. Len(frames') = 1 /\ DOMAIN frames' = {1} /\ frames'[1] = f
    BY <2>2, <2>3, <2>4, FirstFrame
  <2>6. FramesSound'
    BY <2>1, <2>2, <2>3, <2>4, <2>5, EngineAssumption DEF FramesSound, FrameSound
  <2>. QED
    BY <2>3, <2>4, <2>6 DEF Sound, IInv, SiteHasOwner, ActiveHasSite
<1>23. ASSUME NEW t \in Thread, ClaimRefused(t)
       PROVE  Sound'
  <2>1. /\ UNCHANGED <<state, site, thread, isInit, classes, frames>> /\ thread # t
        /\ entering' = [entering EXCEPT ![t] = None]
    BY <1>23 DEF ClaimRefused, Leaves
  <2>. QED
    BY <2>1, EnteringStep
<1>2. ASSUME NEW t \in Thread, NEW i \in Item, NEW n \in Name, NEW f \in FlagSets,
             AddNamedItem(t, i, n, f)
      PROVE  Sound'
  BY <1>2, QuietStep DEF AddNamedItem, Sound
<1>3. ASSUME NEW t \in Thread, NEW n \in Name, GetScriptDispatch(t, n)
      PROVE  Sound'
  <2>1. /\ UNCHANGED <<engineVars, frames>>
        /\ \E S : classes' = CreateObjects(S)
    BY <1>3 DEF GetScriptDispatch, LookupFails
  <2>. QED
    BY <2>1, QuietStep, ObjectsStay DEF Sound
<1>4. ASSUME NEW t \in Thread, NEW c \in Code, NEW n \in Name \cup {None},
             NEW p \in BOOLEAN, ParseScriptText(t, c, n, p)
      PROVE  Sound'
  <2>1. UNCHANGED engineVars /\ site # None
    BY <1>4 DEF ParseScriptText
  <2>2. ASSUME NEW STATE objs, objs \in [Item \cup {Global} -> Code \cup {NoObject, NoClass}],
               classes[Global] # NoObject => objs[Global] # NoObject,
               NEW i \in Item \cup {None}, NEW STATE disps,
               CompileAndRun(c, i, p, objs, disps)
        PROVE  Sound'
    <3>1. PICK obj \in Item \cup {Global} :
             \/ exec_global_code(c, objs, obj, pending, frames)
             \/ classes' = objs /\ UNCHANGED frames
      BY <2>2 DEF CompileAndRun, ScriptObj
    <3>2. CASE exec_global_code(c, objs, obj, pending, frames)
      <4>1. classes[Global] # NoObject => classes'[Global] # NoObject
        BY <2>2, <3>2, ExecObjects
      <4>2. frames' = Append(frames, Frame("Exec", c, 0))
        BY <3>2 DEF exec_global_code
      <4>. QED
        BY <1>0, <2>1, <4>1, <4>2, ExecStep DEF Sound
    <3>3. CASE classes' = objs /\ UNCHANGED frames
      BY <2>1, <2>2, <3>3, QuietStep DEF Sound
    <3>. QED
      BY <3>1, <3>2, <3>3
  <2>3. CASE CompileAndRun(c, None, p, classes, itemDisp)
    BY ONLY <1>0, <2>2, <2>3, Zenon
  <2>4. ASSUME NEW k \in DOMAIN itemList,
               CompileAndRun(c, itemList[k], p, CreateObjects(Visited(n, k)),
                             DispAfterLookup(itemList[k]))
        PROVE  Sound'
    <3>1. itemList[k] \in Item
      BY ElementOfSeq, LenProperties DEF TypeOK
    <3>. QED
      BY <2>2, <2>4, <3>1, ObjectTypes, ObjectsStay
  <2>5. CASE LookupFails(n) /\ UNCHANGED frames
    BY <2>1, <2>5, QuietStep, ObjectsStay DEF LookupFails, Sound
  <2>. QED
    BY <1>4, <2>3, <2>4, <2>5 DEF ParseScriptText
<1>5. ASSUME NEW t \in Thread, NEW c \in Code, EvaluateExpression(t, c)
      PROVE  Sound'
  <2>1. /\ UNCHANGED <<engineVars, classes>> /\ site # None
        /\ frames' = Append(frames, Frame("Exec", c, 0))
    BY <1>5 DEF EvaluateExpression, Push
  <2>. QED
    BY <1>0, <2>1, ExecStep DEF Sound
<1>6. ASSUME NEW t \in Thread, NEW c \in Code, ParseProcedureText(t, c)
      PROVE  Sound'
  BY <1>6, QuietStep DEF ParseProcedureText, Sound
<1>7. ASSUME NEW t \in Thread, NEW ss \in Started, Start(t, ss)
      PROVE  Sound'
  <2>. DEFINE f == Frame("Start", ss, 1)
  <2>1. f \in Frames /\ f.op = "Start" /\ f.arg = ss
    BY DEF Frame, Frames, Started, States
  <2>2. /\ Push(f) /\ UNCHANGED <<engineVars, classes>> /\ isInit /\ site # None
        /\ \A k \in DOMAIN frames : frames[k].op # "Release"
    BY <1>7 DEF Start, InProgress
  <2>. HIDE DEF f
  <2>3. /\ DOMAIN frames' = 1..(Len(frames) + 1) /\ frames'[Len(frames) + 1] = f
        /\ \A k \in 1..Len(frames) : frames'[k] = frames[k]
    BY <1>0, <2>1, <2>2, PushFrame DEF Push
  <2>4. ASSUME NEW k \in DOMAIN frames'
        PROVE  FrameSound(k)'
    <3>1. CASE k = Len(frames) + 1
      BY <2>1, <2>2, <2>3, <3>1 DEF FrameSound, engineVars
    <3>2. CASE k \in 1..Len(frames)
      <4>1. FrameSound(k) /\ frames'[k] = frames[k] /\ frames[k].op # "Release"
        BY <1>0, <2>2, <2>3, <3>2 DEF IInv, FramesSound
      <4>. QED
        BY <2>2, <4>1 DEF FrameSound, engineVars
    <3>. QED
      BY <1>0, <2>3, <3>1, <3>2
  <2>. QED
    BY <2>2, <2>4 DEF Sound, FramesSound, IInv, SiteHasOwner, ActiveHasSite, engineVars
<1>8. ASSUME NEW t \in Thread, Stop(t)
      PROVE  Sound'
  <2>1. /\ state' = "INITIALIZED"
        /\ UNCHANGED <<site, thread, isInit, entering, classes, frames>>
        /\ isInit /\ site # None
        /\ \A k \in DOMAIN frames : frames[k].op # "Release"
    BY <1>8 DEF Stop, InProgress, decrease_state, ReleasesSession
  <2>. QED
    BY <2>1 DEF Sound, FramesSound, FrameSound, IInv, SiteHasOwner, ActiveHasSite
<1>9. ASSUME NEW t \in Thread, Reset(t) \/ Close(t)
      PROVE  Sound'
  BY <1>9, ReleaseBegins DEF Reset, Close, OuterCall
<1>10. CASE InitNew
  <2>1. /\ isInit' /\ UNCHANGED <<site, thread, entering, classes, frames>>
        /\ state' = IF site # None THEN "INITIALIZED" ELSE state
        /\ \A k \in DOMAIN frames : frames[k].op # "Release"
    BY <1>10 DEF InitNew, InProgress
  <2>. QED
    BY <2>1 DEF Sound, FramesSound, FrameSound, IInv, SiteHasOwner, ActiveHasSite
<1>11. CASE FinalRelease
  <2>1. CASE state = "CLOSED"
    BY <1>11, <2>1
       DEF FinalRelease, Sound, FramesSound, FrameSound, IInv, SiteHasOwner, ActiveHasSite,
           Started
  <2>2. CASE state # "CLOSED"
    BY <1>11, <2>2, ReleaseBegins DEF FinalRelease, OuterCall
  <2>. QED
    BY <2>1, <2>2
<1>12. CASE RetrieveItemDisp
  <2>1. /\ frames # <<>> /\ UNCHANGED <<engineVars, classes>>
        /\ frames' = [frames EXCEPT ![Len(frames)].pos = NextItem(Top.pos)]
    BY <1>12 DEF RetrieveItemDisp, Running, Advance
  <2>2. NextItem(Top.pos) \in Nat
    BY <2>1, TopFrame DEF NextItem, Frames
  <2>3. /\ Len(frames') = Len(frames) /\ DOMAIN frames' = DOMAIN frames
        /\ \A k \in DOMAIN frames : /\ frames'[k].op = frames[k].op
                                     /\ frames'[k].arg = frames[k].arg
    BY <1>0, <2>1, <2>2, AdvanceFrame
  <2>4. FramesSound'
    BY <2>1, <2>3 DEF IInv, FramesSound, FrameSound, engineVars
  <2>. QED
    BY <2>1, <2>4 DEF Sound, IInv, SiteHasOwner, ActiveHasSite, engineVars
<1>13. CASE RetrieveItemDispFails
  <2>1. frames # <<>> /\ Pop /\ UNCHANGED <<state, site, thread, isInit, classes>>
    BY <1>13 DEF RetrieveItemDispFails, Running, ThreadAfterFailure
  <2>. QED
    BY <2>1, ReturnStep DEF Sound, IInv, SiteHasOwner, ActiveHasSite
<1>14. CASE AttachSite
  <2>1. /\ frames # <<>> /\ Pop /\ Top.op = "SetScriptSite" /\ site' = Top.arg
        /\ state' = StateOnAttach /\ UNCHANGED <<thread, isInit>>
        /\ classes' = [classes EXCEPT ![Global] = NoClass]
    BY <1>14 DEF AttachSite, Running
  <2>2. Len(frames) = 1 /\ Top.arg \in Site /\ thread # None /\ site = None
    BY <2>1, TopFrame DEF FrameSound, Top
  <2>3. FramesSound'
    BY <2>1, <2>2, ReturnStep
  <2>4. SiteHasOwner'
    BY <1>0, <2>1, <2>2 DEF SiteHasOwner, NoClass, NoObject
  <2>5. ActiveHasSite'
    BY <2>1, <2>2, EngineAssumption DEF IInv, ActiveHasSite, StateOnAttach
  <2>. QED
    BY <2>3, <2>4, <2>5 DEF Sound
<1>15. ASSUME NEW c \in Code, ExecuteGlobal(c)
       PROVE  Sound'
  <2>1. /\ frames # <<>> /\ Top.op = "Exec" /\ UNCHANGED engineVars
        /\ exec_global_code(c, classes, Global, pending, frames)
    BY <1>15 DEF ExecuteGlobal, Running
  <2>2. site # None
    BY <2>1, TopFrame DEF FrameSound, Top
  <2>3. classes[Global] # NoObject => classes'[Global] # NoObject
    BY <1>0, <2>1, ExecObjects
  <2>4. frames' = Append(frames, Frame("Exec", c, 0))
    BY <2>1 DEF exec_global_code
  <2>. QED
    BY <1>0, <2>1, <2>2, <2>3, <2>4, ExecStep DEF Sound
<1>16. CASE ExecReturns
  <2>1. frames # <<>> /\ Pop /\ UNCHANGED <<engineVars, classes>>
    BY <1>16 DEF ExecReturns, Running
  <2>. QED
    BY <2>1, ReturnStep DEF Sound, IInv, SiteHasOwner, ActiveHasSite, engineVars
<1>17. CASE RunQueued
  <2>1. /\ frames # <<>> /\ Top.op = "Start" /\ UNCHANGED engineVars
        /\ PendingFrom(Top.pos) # {}
    BY <1>17 DEF RunQueued, Running
  <2>. DEFINE k == CHOOSE k \in PendingFrom(Top.pos) :
                     \A j \in PendingFrom(Top.pos) : k <= j
              c == codeList[k]
              fs == [frames EXCEPT ![Len(frames)].pos = k + 1]
  <2>2. exec_global_code(c, classes, ScriptObj(codeItem[c]), pending, fs)
    BY <1>17 DEF RunQueued
  <2>3. k \in DOMAIN codeList
    BY <2>1, NextPending DEF PendingFrom
  <2>. HIDE DEF k
  <2>4. k + 1 \in Nat /\ c \in Code
    BY <2>3, ElementOfSeq, LenProperties DEF TypeOK
  <2>. HIDE DEF c
  <2>5. ScriptObj(codeItem[c]) \in Item \cup {Global}
    BY <2>4 DEF TypeOK, ScriptObj
  <2>6. site # None
    BY <2>1, TopFrame DEF FrameSound, Top
  <2>7. /\ fs \in Seq(Frames) /\ Len(fs) = Len(frames)
        /\ \A j \in 1..Len(frames) : fs[j].op = frames[j].op /\ fs[j].arg = frames[j].arg
    BY <1>0, <2>1, <2>4, AdvanceFrame
  <2>. HIDE DEF fs
  <2>8. classes[Global] # NoObject => classes'[Global] # NoObject
    BY <1>0, <2>2, <2>4, <2>5, ExecObjects
  <2>9. frames' = Append(fs, Frame("Exec", c, 0))
    BY <2>2 DEF exec_global_code
  <2>. QED
    BY <2>1, <2>4, <2>6, <2>7, <2>8, <2>9, ExecStep DEF Sound
<1>18. CASE StartDone
  <2>1. /\ frames # <<>> /\ Pop /\ Top.op = "Start" /\ state' = Top.arg
        /\ UNCHANGED <<site, thread, isInit, classes>>
    BY <1>18 DEF StartDone, Running
  <2>2. isInit /\ site # None
    BY <2>1, TopFrame DEF FrameSound, Top
  <2>. QED
    BY <2>1, <2>2, ReturnStep DEF Sound, IInv, SiteHasOwner, ActiveHasSite
<1>19. CASE ReleaseScript
  <2>1. /\ frames # <<>> /\ Pop /\ Top.op = "Release" /\ site' = None /\ UNCHANGED state
    BY <1>19 DEF ReleaseScript, Running, SiteAfterRelease
  <2>2. Len(frames) = 1 /\ state \in {"UNINITIALIZED", "CLOSED"}
    BY <2>1, TopFrame DEF FrameSound, Top
  <2>. QED
    BY <2>1, <2>2, ReturnStep DEF Sound, SiteHasOwner, ActiveHasSite, Started
<1>20. CASE UNCHANGED vars
  BY <1>20, QuietStep DEF vars, Sound
<1>21. ASSUME NEW t \in Thread, NEW c \in Code, InvokeEx(t, c)
       PROVE  Sound'
  <2>1. /\ UNCHANGED <<engineVars, classes>> /\ runs[c] > 0
        /\ frames' = Append(frames, Frame("Exec", c, 0))
    BY <1>21 DEF InvokeEx, HasProcedures, Push
  <2>2. site # None
    BY <2>1 DEF IInv, RanHasSite
  <2>. QED
    BY <1>0, <2>1, <2>2, ExecStep DEF Sound
<1>. QED
  BY <1>1, <1>2, <1>3, <1>4, <1>5, <1>6, <1>7, <1>8, <1>9, <1>10, <1>11, <1>12, <1>13,
     <1>14, <1>15, <1>16, <1>17, <1>18, <1>19, <1>20, <1>21, <1>22, <1>23 DEF Next

\* Code runs while there is a site, and the step that takes the site away ends
\* the session of all code.
LEMMA NextRan == IInv /\ [Next]_vars => RanHasSite'
<1>. SUFFICES ASSUME IInv, [Next]_vars
     PROVE  RanHasSite'
  OBVIOUS
<1>. TypeOK /\ RanHasSite
  BY DEF IInv
<1>1. CASE UNCHANGED <<site, runs>>
  BY <1>1 DEF RanHasSite
<1>2. CASE site # None /\ UNCHANGED site
  BY <1>2 DEF RanHasSite
<1>3. CASE AttachSite
  <2>1. site' = Top.arg /\ Top \in Frames /\ FrameSound(Len(frames)) /\ Top.op = "SetScriptSite"
    BY <1>3, TopFrame DEF AttachSite, Running
  <2>. QED
    BY <2>1, EngineAssumption DEF FrameSound, Top, RanHasSite
<1>4. CASE ReleaseScript
  BY <1>4 DEF ReleaseScript, RanHasSite
<1>5. ASSUME NEW t \in Thread, NEW c \in Code, NEW n \in Name \cup {None},
             NEW p \in BOOLEAN, ParseScriptText(t, c, n, p)
      PROVE  RanHasSite'
  BY <1>2, <1>5 DEF ParseScriptText, engineVars
<1>6. ASSUME NEW c \in Code, ExecuteGlobal(c)
      PROVE  RanHasSite'
  <2>1. site # None /\ UNCHANGED site
    BY <1>6, TopFrame DEF ExecuteGlobal, Running, FrameSound, Top, engineVars
  <2>. QED
    BY <1>2, <2>1
<1>7. CASE RunQueued
  <2>1. site # None /\ UNCHANGED site
    BY <1>7, TopFrame DEF RunQueued, Running, FrameSound, Top, engineVars
  <2>. QED
    BY <1>2, <2>1
<1>8. ASSUME NEW t \in Thread,
             \/ \E s \in Site : SetScriptSite(t, s)
             \/ ClaimEngine(t) \/ ClaimRefused(t)
             \/ \E i \in Item, n \in Name, f \in FlagSets : AddNamedItem(t, i, n, f)
             \/ \E n \in Name : GetScriptDispatch(t, n)
             \/ \E c \in Code : \/ EvaluateExpression(t, c) \/ ParseProcedureText(t, c)
                               \/ InvokeEx(t, c)
      PROVE  RanHasSite'
  BY <1>1, <1>8
     DEF SetScriptSite, ClaimEngine, ClaimRefused, AddNamedItem, GetScriptDispatch,
         EvaluateExpression, ParseProcedureText, InvokeEx, engineVars, codeVars
<1>9. ASSUME NEW t \in Thread, Stop(t) \/ Reset(t) \/ Close(t) \/ \E ss \in Started : Start(t, ss)
      PROVE  RanHasSite'
  BY <1>1, <1>9 DEF Stop, Reset, Close, Start, decrease_state, engineVars, codeVars
<1>10. CASE \/ InitNew \/ FinalRelease \/ RetrieveItemDisp \/ RetrieveItemDispFails
            \/ ExecReturns \/ StartDone \/ UNCHANGED vars
  BY <1>1, <1>10
     DEF InitNew, FinalRelease, decrease_state, RetrieveItemDisp, RetrieveItemDispFails,
         ExecReturns, StartDone, vars, engineVars, codeVars
<1>. QED
  BY <1>3, <1>4, <1>5, <1>6, <1>7, <1>8, <1>9, <1>10 DEF Next

\* A session ends with the stack empty, and an engine without an owner is left
\* alone while a thread is in SetScriptSite.
LEMMA NextFree == IInv /\ [Next]_vars => FreeIsIdle'
<1>. SUFFICES ASSUME IInv, [Next]_vars, thread' = None
     PROVE  Idle' \/ NobodyEnters'
  BY DEF FreeIsIdle
<1>. TypeOK /\ FreeIsIdle /\ SiteHasOwner
  BY DEF IInv
<1>1. CASE UNCHANGED <<thread, entering, frames>>
  BY <1>1 DEF FreeIsIdle, Idle, NobodyEnters
<1>2. ASSUME NEW t \in Thread, NEW s \in Site, SetScriptSite(t, s)
      PROVE  Idle'
  BY <1>2 DEF SetScriptSite, Idle
<1>3. ASSUME NEW t \in Thread, ClaimEngine(t) \/ ClaimRefused(t)
      PROVE  FALSE
  BY <1>3, EngineAssumption DEF ClaimEngine, ClaimRefused
<1>4. ASSUME UNCHANGED thread, site # None
      PROVE  FALSE
  BY <1>4 DEF SiteHasOwner
<1>5. ASSUME NEW t \in Thread, NEW c \in Code, NEW n \in Name \cup {None},
             NEW p \in BOOLEAN, ParseScriptText(t, c, n, p)
      PROVE  FALSE
  BY <1>4, <1>5 DEF ParseScriptText, engineVars
<1>6. ASSUME NEW t \in Thread, NEW c \in Code, EvaluateExpression(t, c) \/ InvokeEx(t, c)
      PROVE  FALSE
  BY <1>6, EngineAssumption DEF EvaluateExpression, InvokeEx, engineVars
<1>7. ASSUME NEW t \in Thread, NEW ss \in Started, Start(t, ss)
      PROVE  FALSE
  BY <1>4, <1>7 DEF Start, engineVars
<1>8. ASSUME NEW t \in Thread, Stop(t)
      PROVE  FALSE
  BY <1>4, <1>8 DEF Stop, decrease_state
<1>9. ASSUME NEW t \in Thread, Reset(t) \/ Close(t)
      PROVE  NobodyEnters'
  BY <1>9, EngineAssumption DEF Reset, Close, decrease_state, NobodyEnters
<1>10. CASE FinalRelease
  BY <1>10 DEF FinalRelease, decrease_state, NobodyEnters
<1>11. CASE \/ RetrieveItemDisp \/ RetrieveItemDispFails \/ AttachSite
  <2>1. UNCHANGED thread /\ frames # <<>> /\ Top.op = "SetScriptSite"
    BY <1>11 DEF RetrieveItemDisp, RetrieveItemDispFails, AttachSite, ThreadAfterFailure, Running,
                 engineVars
  <2>. QED
    BY <2>1, TopFrame DEF FrameSound, Top
<1>12. CASE \/ (\E c \in Code : ExecuteGlobal(c)) \/ ExecReturns \/ RunQueued \/ StartDone
  <2>1. UNCHANGED thread /\ frames # <<>> /\ Top.op \in {"Exec", "Start"}
    BY <1>12 DEF ExecuteGlobal, ExecReturns, RunQueued, StartDone, Running, engineVars
  <2>2. site # None
    BY <2>1, TopFrame DEF FrameSound, Top
  <2>. QED
    BY <1>4, <2>1, <2>2
<1>13. CASE ReleaseScript
  <2>1. frames # <<>> /\ Pop /\ Top.op = "Release"
    BY <1>13 DEF ReleaseScript, Running
  <2>2. frames \in Seq(Frames) /\ Len(frames) = 1
    BY <2>1, TopFrame DEF FrameSound, Top, TypeOK
  <2>3. frames' \in Seq(Frames) /\ Len(frames') = 0
    BY <2>1, <2>2, PopFrame DEF Pop
  <2>. QED
    BY <2>3, EmptySeq DEF Idle
<1>14. ASSUME NEW t \in Thread,
              \/ \E i \in Item, n \in Name, f \in FlagSets : AddNamedItem(t, i, n, f)
              \/ \E n \in Name : GetScriptDispatch(t, n)
              \/ \E c \in Code : ParseProcedureText(t, c)
       PROVE  Idle' \/ NobodyEnters'
  BY <1>1, <1>14 DEF AddNamedItem, GetScriptDispatch, ParseProcedureText, engineVars
<1>15. CASE InitNew \/ UNCHANGED vars
  BY <1>1, <1>15 DEF InitNew, vars, engineVars
<1>. QED
  BY <1>2, <1>3, <1>5, <1>6, <1>7, <1>8, <1>9, <1>10, <1>11, <1>12, <1>13, <1>14, <1>15 DEF Next

-----------------------------------------------------------------------------
(***************************************************************************)
(* Theorems                                                                *)
(***************************************************************************)

LEMMA Invariance == Spec => []IInv
<1>1. Init => IInv
  <2>1. Init => FramesSound
    BY DEF Init, FramesSound
  <2>2. Init => SiteHasOwner /\ ActiveHasSite
    BY DEF Init, SiteHasOwner, ActiveHasSite, Started
  <2>3. Init => RanHasSite
    BY DEF Init, RanHasSite
  <2>4. Init => FreeIsIdle
    BY DEF Init, FreeIsIdle, Idle
  <2>. QED
    BY <2>1, <2>2, <2>3, <2>4, InitTypes DEF IInv
<1>2. IInv /\ [Next]_vars => IInv'
  BY NextTypes, NextSound, NextRan, NextFree DEF IInv, Sound
<1>. QED
  BY <1>1, <1>2, PTL DEF Spec

\* Every variable of the engine keeps its type.
THEOREM TypeCorrect == Spec => []TypeOK
BY Invariance, PTL DEF IInv

\* A site is attached only while a thread owns the engine and the engine has
\* its script object; and of the threads in SetScriptSite only the owner gets to
\* attach its site, to an engine that has none.
THEOREM AttachedIsOwnedAlways == Spec => []AttachedIsOwned
<1>1. IInv => AttachedIsOwned
  BY DEF IInv, AttachedIsOwned, AttachIsOwners, FramesSound, FrameSound
<1>. QED
  BY <1>1, Invariance, PTL

\* An initialised or started engine went through InitNew and has a site.
THEOREM ActiveHasSiteAlways == Spec => []ActiveHasSite
BY Invariance, PTL DEF IInv

\* The site stays attached while script code runs, whatever the host calls
\* back.
THEOREM RunningHasSiteAlways == Spec => []RunningHasSite
<1>1. IInv => RunningHasSite
  BY DEF IInv, FramesSound, FrameSound, RunningHasSite, InProgress
<1>. QED
  BY <1>1, Invariance, PTL

\* The engine has its site in every state in which it uses it.
THEOREM SiteInUseAlways == Spec => []SiteInUse
BY ActiveHasSiteAlways, RunningHasSiteAlways, PTL DEF SiteInUse
=============================================================================
