---------------------- MODULE ScriptEngineSessionProofs ----------------------
(***************************************************************************)
(* Proofs about the sessions of ScriptEngine: what a session queues, runs  *)
(* and keeps, and what it drops when it ends.                              *)
(***************************************************************************)
EXTENDS ScriptEngineProofs

-----------------------------------------------------------------------------
(***************************************************************************)
(* The inductive invariant                                                 *)
(***************************************************************************)

\* A vbscode_t that is in no list carries nothing from an earlier use.
UnlistedIsFresh ==
  \A c \in Code : ~InList(c, codeList) =>
    /\ ~persistent[c] /\ ~pending[c] /\ codeItem[c] = None
    /\ lastNext[c] = NoClass /\ runs[c] = 0

\* Code that has run in this session does not wait to run again.
RanIsNotPending == \A c \in Code : runs[c] > 0 => runs[c] = 1 /\ ~pending[c]

\* A start in progress has left no pending code behind its cursor.
CursorSound(f) ==
  f.op = "Start" =>
    /\ f.pos \in 1..(Len(codeList) + 1)
    /\ \A k \in DOMAIN codeList : k < f.pos => ~pending[codeList[k]]

CursorsSound == \A d \in DOMAIN frames : CursorSound(frames[d])

\* Script objects exist only while there is a site, and a release knows where
\* to find each of them.
ObjectsOwned ==
  \A o \in DOMAIN classes : classes[o] # NoObject => site # None /\ o \in ReleasedObjects

\* The items that code runs in are among those a release looks at.
CodeItemsOwned ==
  \A c \in Code : InList(c, codeList) => codeItem[c] \in {None} \cup ReleasedObjects

DispsFrom(S) == \A i \in Item : InList(i, itemList) => itemDisp[i] \in {None} \cup S

\* Dispatches come from the site that is attached, or that is being attached;
\* an engine that is free holds none.  (A failed SetScriptSite leaves some
\* behind, and the claim with them.)
DispsSound ==
  /\ site # None => DispsFrom({site})
  /\ \A d \in DOMAIN frames : frames[d].op = "SetScriptSite" => DispsFrom({frames[d].arg})
  /\ thread = None => DispsFrom({})

\* Only code that has run in this session is linked to other code.
LinkedHasRun == \A c \in Code : lastNext[c] # NoClass => runs[c] > 0

QueueSound ==
  /\ UnlistedIsFresh /\ RanIsNotPending /\ LinkedHasRun
  /\ CursorsSound /\ NothingQueuedWhenStarted

OwnersSound == ObjectsOwned /\ CodeItemsOwned /\ DispsSound

\* QueueSound makes the queue properties inductive: a start that reaches the end
\* of the list may become started because nothing waits behind any cursor.
\* OwnersSound does it for the items: whatever gets a script object is listed,
\* or is what persistent code refers to.
SInv == IInv /\ QueueSound /\ OwnersSound

-----------------------------------------------------------------------------
(***************************************************************************)
(* Lists and frames                                                        *)
(***************************************************************************)

\* Appending to a list adds one entry and leaves the others where they are.
LEMMA AppendList ==
  ASSUME NEW S, NEW s \in Seq(S), NEW x \in S
  PROVE  /\ Append(s, x) \in Seq(S)
         /\ Len(s) \in Nat /\ Len(Append(s, x)) = Len(s) + 1
         /\ DOMAIN s = 1..Len(s) /\ DOMAIN Append(s, x) = 1..(Len(s) + 1)
         /\ Append(s, x)[Len(s) + 1] = x
         /\ \A k \in DOMAIN s : k \in DOMAIN Append(s, x) /\ Append(s, x)[k] = s[k]
         /\ \A y : InList(y, Append(s, x)) <=> InList(y, s) \/ y = x
<1>1. /\ Append(s, x) \in Seq(S)
      /\ Len(s) \in Nat /\ Len(Append(s, x)) = Len(s) + 1
      /\ DOMAIN s = 1..Len(s) /\ DOMAIN Append(s, x) = 1..(Len(s) + 1)
      /\ Append(s, x)[Len(s) + 1] = x
      /\ \A k \in 1..Len(s) : Append(s, x)[k] = s[k]
  BY AppendProperties, LenProperties
<1>2. \A k \in 1..Len(s) : k \in 1..(Len(s) + 1)
  BY <1>1
<1>3. \A k \in 1..(Len(s) + 1) : k \in 1..Len(s) \/ k = Len(s) + 1
  BY <1>1
<1>4. Len(s) + 1 \in 1..(Len(s) + 1)
  BY <1>1
<1>5. \A y : InList(y, Append(s, x)) <=> InList(y, s) \/ y = x
  BY <1>1, <1>2, <1>3, <1>4 DEF InList
<1>. QED
  BY <1>1, <1>2, <1>5

\* exec_queued_code runs the first pending code at or after its cursor.
LEMMA RunsQueued ==
  ASSUME IInv, RunQueued
  PROVE  \E k \in DOMAIN codeList :
           /\ codeList[k] \in Code /\ pending[codeList[k]] /\ k \in Nat /\ k <= Len(codeList)
           /\ \A j \in DOMAIN codeList : j >= Top.pos /\ j < k => ~pending[codeList[j]]
           /\ exec_global_code(codeList[k], classes, ScriptObj(codeItem[codeList[k]]), pending,
                               [frames EXCEPT ![Len(frames)].pos = k + 1])
           /\ UNCHANGED <<engineVars, codeList, persistent, codeItem, itemVars>>
           /\ frames # <<>> /\ Top.op = "Start"
<1>0. TypeOK
  BY DEF IInv
<1>1. PendingFrom(Top.pos) # {} /\ frames # <<>> /\ Top.op = "Start"
  BY DEF RunQueued, Running
<1>. DEFINE k == CHOOSE k \in PendingFrom(Top.pos) :
                   \A j \in PendingFrom(Top.pos) : k <= j
<1>2. k \in PendingFrom(Top.pos) /\ \A j \in PendingFrom(Top.pos) : k <= j
  BY <1>0, <1>1, NextPending
<1>3. /\ exec_global_code(codeList[k], classes, ScriptObj(codeItem[codeList[k]]), pending,
                          [frames EXCEPT ![Len(frames)].pos = k + 1])
      /\ UNCHANGED <<engineVars, codeList, persistent, codeItem, itemVars>>
  BY DEF RunQueued
<1>. HIDE DEF k
<1>4. k \in DOMAIN codeList /\ pending[codeList[k]]
  BY <1>2 DEF PendingFrom
<1>5. codeList[k] \in Code /\ k \in Nat /\ k <= Len(codeList) /\ DOMAIN codeList = 1..Len(codeList)
      /\ Len(codeList) \in Nat
  BY <1>0, <1>4, ElementOfSeq, LenProperties DEF TypeOK
<1>6. ASSUME NEW j \in DOMAIN codeList, j >= Top.pos, j < k
      PROVE  ~pending[codeList[j]]
  <2>1. j \in Nat /\ ~(k <= j)
    BY <1>5, <1>6
  <2>. QED
    BY <1>2, <1>6, <2>1 DEF PendingFrom
<1>. QED
  BY <1>1, <1>3, <1>4, <1>5, <1>6

\* What a step does to the operations in progress: a start is a new one or one
\* that was there, unless it is the one that runs queued code; an attachment is
\* one that was there, unless the step begins it.
StartsStay ==
  \A d \in DOMAIN frames' : frames'[d].op = "Start" =>
    \/ frames'[d].pos = 1
    \/ \E e \in DOMAIN frames : frames[e] = frames'[d]

AttachesStay ==
  \A d \in DOMAIN frames' : frames'[d].op = "SetScriptSite" =>
    \E e \in DOMAIN frames : /\ frames[e].op = "SetScriptSite"
                            /\ frames[e].arg = frames'[d].arg

FramesStay == StartsStay /\ AttachesStay

LEMMA PushStays ==
  ASSUME TypeOK, NEW f \in Frames, frames' = Append(frames, f)
  PROVE  /\ (f.op = "Start" => f.pos = 1) => StartsStay
         /\ f.op # "SetScriptSite" => AttachesStay
<1>1. \A d \in DOMAIN frames' : \/ d \in DOMAIN frames /\ frames'[d] = frames[d]
                               \/ frames'[d] = f
  <2>1. /\ Len(frames) \in Nat /\ DOMAIN frames = 1..Len(frames)
        /\ DOMAIN frames' = 1..(Len(frames) + 1) /\ frames'[Len(frames) + 1] = f
        /\ \A d \in DOMAIN frames : frames'[d] = frames[d]
    BY AppendList DEF TypeOK
  <2>2. \A d \in 1..(Len(frames) + 1) : d \in 1..Len(frames) \/ d = Len(frames) + 1
    BY <2>1
  <2>. QED
    BY <2>1, <2>2
<1>. QED
  BY <1>1 DEF StartsStay, AttachesStay

LEMMA PopStays ==
  ASSUME TypeOK, frames # <<>>, Pop
  PROVE  /\ FramesStay
         /\ \A d \in DOMAIN frames' : d \in DOMAIN frames /\ frames'[d] = frames[d]
<1>1. \A d \in DOMAIN frames' : d \in DOMAIN frames /\ frames'[d] = frames[d]
  BY PopFrame, LenProperties DEF Pop, TypeOK
<1>. QED
  BY <1>1 DEF FramesStay, StartsStay, AttachesStay

LEMMA NextFrames ==
  ASSUME IInv, [Next]_vars
  PROVE  /\ StartsStay \/ RunQueued
         /\ AttachesStay \/ \E t \in Thread : ClaimEngine(t)
<1>. USE EngineAssumption
<1>0. TypeOK
  BY DEF IInv
<1>1. ASSUME UNCHANGED frames
      PROVE  FramesStay
  BY <1>1 DEF FramesStay, StartsStay, AttachesStay
<1>2. ASSUME NEW f \in Frames, f.op # "Start" \/ f.pos = 1, f.op # "SetScriptSite",
             frames' = Append(frames, f)
      PROVE  FramesStay
  BY <1>0, <1>2, PushStays DEF FramesStay
<1>3. \A c \in Code : Frame("Exec", c, 0) \in Frames /\ Frame("Exec", c, 0).op = "Exec"
  BY DEF Frame, Frames
<1>4. \A s \in Site : /\ Frame("SetScriptSite", s, 1) \in Frames
                     /\ Frame("SetScriptSite", s, 1).op # "Start"
  BY DEF Frame, Frames
<1>5. \A ss \in States : /\ Frame("Start", ss, 1) \in Frames
                         /\ Frame("Start", ss, 1).pos = 1
                         /\ Frame("Start", ss, 1).op = "Start"
                         /\ Frame("Release", ss, 0) \in Frames
                         /\ Frame("Release", ss, 0).op = "Release"
  BY DEF Frame, Frames
<1>6. ASSUME NEW target \in States, decrease_state(target)
      PROVE  FramesStay
  <2>1. UNCHANGED frames \/ frames' = Append(frames, Frame("Release", target, 0))
    BY <1>6 DEF decrease_state, Push
  <2>. QED
    BY <1>1, <1>2, <1>5, <2>1
<1>7. ASSUME NEW c \in Code, NEW objs, NEW obj, exec_global_code(c, objs, obj, pending, frames)
      PROVE  FramesStay
  BY <1>2, <1>3, <1>7 DEF exec_global_code
<1>8. ASSUME NEW t \in Thread, NEW c \in Code, NEW n \in Name \cup {None},
             NEW p \in BOOLEAN, ParseScriptText(t, c, n, p)
      PROVE  FramesStay
  <2>1. ASSUME NEW i, NEW objs, NEW disps, CompileAndRun(c, i, p, objs, disps)
        PROVE  FramesStay
    BY <1>1, <1>7, <2>1 DEF CompileAndRun
  <2>2. CASE UNCHANGED frames
    BY <1>1, <2>2
  <2>. QED
    BY <1>8, <2>1, <2>2 DEF ParseScriptText
<1>9. ASSUME NEW t \in Thread,
             \/ \E c \in Code : EvaluateExpression(t, c) \/ InvokeEx(t, c)
             \/ \E ss \in Started : Start(t, ss)
      PROVE  FramesStay
  <2>1. ASSUME NEW c \in Code, EvaluateExpression(t, c) \/ InvokeEx(t, c)
        PROVE  FramesStay
    BY <1>2, <1>3, <2>1 DEF EvaluateExpression, InvokeEx, Push
  <2>2. ASSUME NEW ss \in Started, Start(t, ss)
        PROVE  FramesStay
    BY <1>2, <1>5, <2>2 DEF Start, Push, Started, States
  <2>. QED
    BY <1>9, <2>1, <2>2
<1>10. ASSUME NEW t \in Thread, Stop(t) \/ Reset(t) \/ Close(t)
       PROVE  FramesStay
  BY <1>6, <1>10 DEF Stop, Reset, Close, States
<1>11. ASSUME FinalRelease
       PROVE  FramesStay
  <2>1. CASE state = "CLOSED"
    BY <1>1, <1>11, <2>1 DEF FinalRelease
  <2>2. CASE state # "CLOSED"
    BY <1>6, <1>11, <2>2 DEF FinalRelease, States
  <2>. QED
    BY <2>1, <2>2
<1>12. ASSUME RetrieveItemDisp
       PROVE  FramesStay
  <2>1. frames # <<>> /\ Top.op = "SetScriptSite" /\ NextItem(Top.pos) \in Nat
    BY <1>12, TopFrame DEF RetrieveItemDisp, Running, NextItem, Frames
  <2>2. Len(frames) = 1 /\ DOMAIN frames = 1..1
    BY <2>1, TopFrame DEF FrameSound, Top
  <2>3. /\ DOMAIN frames' = DOMAIN frames /\ frames'[1].op = "SetScriptSite"
        /\ frames[1].op = "SetScriptSite" /\ frames'[1].arg = frames[1].arg
    BY <1>0, <1>12, <2>1, <2>2, AdvanceFrame DEF RetrieveItemDisp, Advance, TypeOK, Top
  <2>. QED
    BY <2>2, <2>3 DEF FramesStay, StartsStay, AttachesStay
<1>13. ASSUME \/ RetrieveItemDispFails \/ AttachSite \/ ExecReturns \/ StartDone
              \/ ReleaseScript
       PROVE  FramesStay
  BY <1>0, <1>13, PopStays
     DEF RetrieveItemDispFails, AttachSite, ExecReturns, StartDone, ReleaseScript, Running
<1>14. ASSUME NEW c \in Code, ExecuteGlobal(c)
       PROVE  FramesStay
  BY <1>7, <1>14 DEF ExecuteGlobal
<1>15. ASSUME NEW t \in Thread,
             \/ (\E s \in Site : SetScriptSite(t, s)) \/ ClaimRefused(t)
             \/ \E i \in Item, n \in Name, f \in FlagSets : AddNamedItem(t, i, n, f)
             \/ \E n \in Name : GetScriptDispatch(t, n)
             \/ \E c \in Code : ParseProcedureText(t, c)
       PROVE  FramesStay
  <2>1. UNCHANGED frames
    BY <1>15 DEF SetScriptSite, ClaimRefused, AddNamedItem, GetScriptDispatch, ParseProcedureText
  <2>. QED
    BY <1>1, <2>1
<1>16. ASSUME InitNew \/ UNCHANGED vars
       PROVE  FramesStay
  BY <1>1, <1>16 DEF InitNew, vars
<1>17. ASSUME NEW t \in Thread, ClaimEngine(t)
       PROVE  StartsStay
  <2>1. entering[t] \in Site
    BY <1>0, <1>17 DEF ClaimEngine, TypeOK
  <2>. QED
    BY <1>0, <1>4, <1>17, <2>1, PushStays DEF ClaimEngine, Push
<1>18. ASSUME RunQueued
       PROVE  AttachesStay
  <2>1. PICK k \in DOMAIN codeList :
          /\ frames # <<>> /\ codeList[k] \in Code /\ k \in Nat
          /\ exec_global_code(codeList[k], classes, ScriptObj(codeItem[codeList[k]]), pending,
                              [frames EXCEPT ![Len(frames)].pos = k + 1])
    BY <1>18, RunsQueued
  <2>. DEFINE fs == [frames EXCEPT ![Len(frames)].pos = k + 1]
              f  == Frame("Exec", codeList[k], 0)
  <2>1a. k + 1 \in Nat
    BY <2>1
  <2>2. /\ fs \in Seq(Frames) /\ Len(fs) = Len(frames) /\ DOMAIN fs = DOMAIN frames
        /\ \A d \in DOMAIN frames : fs[d].op = frames[d].op /\ fs[d].arg = frames[d].arg
    BY <1>0, <2>1, <2>1a, AdvanceFrame, LenProperties DEF TypeOK
  <2>3. f \in Frames /\ f.op = "Exec"
    BY <1>3, <2>1
  <2>3a. frames' = Append(fs, f)
    BY <2>1 DEF exec_global_code
  <2>. HIDE DEF fs, f
  <2>4. \A d \in DOMAIN frames' : (d \in DOMAIN frames /\ frames'[d] = fs[d]) \/ frames'[d] = f
    <3>1. /\ Len(fs) \in Nat /\ DOMAIN fs = 1..Len(fs)
          /\ DOMAIN frames' = 1..(Len(fs) + 1) /\ frames'[Len(fs) + 1] = f
          /\ \A d \in DOMAIN fs : frames'[d] = fs[d]
      BY <2>2, <2>3, <2>3a, AppendList
    <3>2. \A d \in 1..(Len(fs) + 1) : d \in 1..Len(fs) \/ d = Len(fs) + 1
      BY <3>1
    <3>. QED
      BY <2>2, <3>1, <3>2
  <2>. QED
    BY <2>2, <2>3, <2>4 DEF AttachesStay
<1>. QED
  BY <1>8, <1>9, <1>10, <1>11, <1>12, <1>13, <1>14, <1>15, <1>16, <1>17, <1>18
     DEF Next, FramesStay

-----------------------------------------------------------------------------
(***************************************************************************)
(* Class lists                                                             *)
(***************************************************************************)

\* One more step along the class lists.
Linked(S) == S \cup ({lastNext[d] : d \in S} \ {NoClass})

\* The recursion that ChainFrom is defined by has a solution.
LEMMA ChainExists ==
  ASSUME NEW c, NEW m \in Nat
  PROVE  \E g : g = [k \in 0..m |-> IF k = 0 THEN {c} ELSE Linked(g[k - 1])]
<1>. DEFINE IsChain(g, l) == g = [k \in 0..l |-> IF k = 0 THEN {c} ELSE Linked(g[k - 1])]
            Bad == {l \in Nat : \A g : ~IsChain(g, l)}
<1>1. SUFFICES ASSUME Bad # {}
      PROVE  FALSE
  <2>1. m \notin Bad => \E g : IsChain(g, m)
    <3>. HIDE DEF IsChain
    <3>. QED
      OBVIOUS
  <2>. HIDE DEF Bad
  <2>. QED
    BY <2>1
<1>2. PICK l \in Bad : \A j \in Bad : l <= j
  <2>1. Bad \in SUBSET Nat
    OBVIOUS
  <2>. QED
    BY <1>1, <2>1, LeastNat
<1>3. l # 0
  <2>1. IsChain([k \in 0..0 |-> {c}], 0)
    OBVIOUS
  <2>. QED
    BY <1>2, <2>1
<1>4. l \in Nat \ {0} /\ l - 1 \in Nat /\ ~(l <= l - 1)
  BY <1>3
<1>5. PICK g : IsChain(g, l - 1)
  <2>1. l - 1 \notin Bad
    BY <1>2, <1>4
  <2>. QED
    BY <1>4, <2>1
<1>. DEFINE h == [k \in 0..l |-> IF k = 0 THEN {c} ELSE Linked(g[k - 1])]
<1>6. \A k \in 0..(l - 1) : h[k] = g[k]
  <2>1. DOMAIN g = 0..(l - 1)
    BY <1>5
  <2>2. \A k \in 0..(l - 1) : k \in 0..l
    BY <1>4
  <2>3. \A k \in 0..(l - 1) : g[k] = IF k = 0 THEN {c} ELSE Linked(g[k - 1])
    BY <1>5, Zenon
  <2>. QED
    BY <2>2, <2>3
<1>7. IsChain(h, l)
  <2>1. \A k \in 0..l : k # 0 => k - 1 \in 0..(l - 1)
    BY <1>4
  <2>2. \A k \in 0..l : k # 0 => h[k - 1] = g[k - 1]
    BY <1>6, <2>1
  <2>. QED
    BY <2>2
<1>. QED
  BY <1>2, <1>7

\* ChainFrom follows the links step by step.
LEMMA ChainSteps ==
  ASSUME NEW c
  PROVE  \E chain :
           /\ \A k \in 0..Cardinality(Code) :
                chain[k] = IF k = 0 THEN {c} ELSE Linked(chain[k - 1])
           /\ ChainFrom(c) = chain[Cardinality(Code)]
<1>. DEFINE n == Cardinality(Code)
            chain[k \in 0..n] ==
              IF k = 0 THEN {c}
              ELSE chain[k - 1] \cup ({lastNext[d] : d \in chain[k - 1]} \ {NoClass})
<1>1. n \in Nat
  BY EngineAssumption, FS_CardinalityType
<1>2. chain = [k \in 0..n |-> IF k = 0 THEN {c} ELSE Linked(chain[k - 1])]
  <2>1. \E g : g = [k \in 0..n |->
                     IF k = 0 THEN {c}
                     ELSE g[k - 1] \cup ({lastNext[d] : d \in g[k - 1]} \ {NoClass})]
    <3>1. PICK g : g = [k \in 0..n |-> IF k = 0 THEN {c} ELSE Linked(g[k - 1])]
      BY <1>1, ChainExists
    <3>2. g = [k \in 0..n |->
                IF k = 0 THEN {c}
                ELSE g[k - 1] \cup ({lastNext[d] : d \in g[k - 1]} \ {NoClass})]
      BY <3>1, Zenon DEF Linked
    <3>. QED
      BY <3>2
  <2>2. chain = [k \in 0..n |->
                  IF k = 0 THEN {c}
                  ELSE chain[k - 1] \cup ({lastNext[d] : d \in chain[k - 1]} \ {NoClass})]
    BY <2>1, Zenon
  <2>. HIDE DEF chain
  <2>. QED
    BY <2>2, Zenon DEF Linked
<1>3. ChainFrom(c) = chain[n]
  BY DEF ChainFrom
<1>. HIDE DEF chain
<1>4. \A k \in 0..n : chain[k] = IF k = 0 THEN {c} ELSE Linked(chain[k - 1])
  BY <1>2, Zenon
<1>. QED
  BY <1>3, <1>4

\* The classes reached from code c are in any set that holds c and what its
\* members are linked to.
LEMMA ChainClosed ==
  ASSUME NEW c, NEW G, c \in G, \A d \in G : lastNext[d] \in G \cup {NoClass}
  PROVE  ChainFrom(c) \subseteq G
<1>. DEFINE n == Cardinality(Code)
<1>1. PICK chain : /\ \A k \in 0..n : chain[k] = IF k = 0 THEN {c} ELSE Linked(chain[k - 1])
                   /\ ChainFrom(c) = chain[n]
  BY ChainSteps
<1>2. n \in Nat /\ n \in 0..n
  BY EngineAssumption, FS_CardinalityType
<1>. DEFINE Bad == {k \in 0..n : ~(chain[k] \subseteq G)}
<1>3. ASSUME Bad # {}
      PROVE  FALSE
  <2>1. PICK k \in Bad : \A j \in Bad : k <= j
    <3>1. Bad \in SUBSET Nat
      BY <1>2
    <3>. QED
      BY <1>3, <3>1, LeastNat
  <2>2. k \in 0..n /\ k \in Int /\ chain[k] = IF k = 0 THEN {c} ELSE Linked(chain[k - 1])
    BY <1>1, <1>2
  <2>3. k # 0
    BY <2>1, <2>2
  <2>4. k - 1 \in 0..n /\ ~(k <= k - 1)
    BY <1>2, <2>2, <2>3
  <2>5. chain[k - 1] \subseteq G
    BY <2>1, <2>4
  <2>. QED
    BY <2>1, <2>2, <2>3, <2>5 DEF Linked
<1>. QED
  BY <1>1, <1>2, <1>3

\* Code that is linked to no other is the end of its own class list.
LEMMA ChainHead ==
  ASSUME NEW c, lastNext[c] = NoClass
  PROVE  ChainFrom(c) = {c} /\ ClassEnd(c) = c
<1>1. ChainFrom(c) \subseteq {c}
  BY ChainClosed
<1>. DEFINE n == Cardinality(Code)
<1>2. PICK chain : /\ \A k \in 0..n : chain[k] = IF k = 0 THEN {c} ELSE Linked(chain[k - 1])
                   /\ ChainFrom(c) = chain[n]
  BY ChainSteps
<1>3. n \in Nat /\ n \in 0..n
  BY EngineAssumption, FS_CardinalityType
<1>. DEFINE Bad == {k \in 0..n : c \notin chain[k]}
<1>4. ASSUME Bad # {}
      PROVE  FALSE
  <2>1. PICK k \in Bad : \A j \in Bad : k <= j
    <3>1. Bad \in SUBSET Nat
      BY <1>3
    <3>. QED
      BY <1>4, <3>1, LeastNat
  <2>2. k \in 0..n /\ k \in Int /\ chain[k] = IF k = 0 THEN {c} ELSE Linked(chain[k - 1])
    BY <1>2, <1>3
  <2>3. k # 0
    BY <2>1, <2>2
  <2>4. k - 1 \in 0..n /\ ~(k <= k - 1)
    BY <1>3, <2>2, <2>3
  <2>5. c \in chain[k - 1]
    BY <2>1, <2>4
  <2>. QED
    BY <2>1, <2>2, <2>3, <2>5 DEF Linked
<1>5. ChainFrom(c) = {c}
  BY <1>1, <1>2, <1>3, <1>4
<1>. QED
  BY <1>5 DEF ClassEnd

\* A class list in which every link goes to a lower rank has an end, if ChainFrom
\* goes as far as there are ranks.
LEMMA ChainEnds ==
  ASSUME NEW rank \in [Code -> Nat], NEW c \in Code, rank[c] < Cardinality(Code),
         \A d \in Code : lastNext[d] \in Code \cup {NoClass},
         \A d \in Code : lastNext[d] \in Code => rank[lastNext[d]] < rank[d]
  PROVE  \E d \in ChainFrom(c) : lastNext[d] = NoClass
<1>. DEFINE n == Cardinality(Code)
<1>1. PICK chain : /\ \A k \in 0..n : chain[k] = IF k = 0 THEN {c} ELSE Linked(chain[k - 1])
                   /\ ChainFrom(c) = chain[n]
  BY ChainSteps
<1>2. n \in Nat /\ n \in 0..n
  BY EngineAssumption, FS_CardinalityType
<1>. DEFINE Fine(k) == \E d \in chain[k] \cap Code : lastNext[d] = NoClass \/ rank[d] + k < n
            Bad == {k \in 0..n : ~Fine(k)}
<1>3. ASSUME Bad # {}
      PROVE  FALSE
  <2>1. PICK k \in Bad : \A j \in Bad : k <= j
    <3>1. Bad \in SUBSET Nat
      BY <1>2
    <3>. QED
      BY <1>3, <3>1, LeastNat
  <2>2. k \in 0..n /\ k \in Int /\ chain[k] = IF k = 0 THEN {c} ELSE Linked(chain[k - 1])
    BY <1>1, <1>2
  <2>3. ASSUME k = 0
        PROVE  FALSE
    <3>1. c \in chain[k] \cap Code /\ rank[c] + k < n
      BY <1>2, <2>2, <2>3
    <3>. QED
      BY <2>1, <3>1
  <2>4. k - 1 \in 0..n /\ ~(k <= k - 1)
    BY <1>2, <2>2, <2>3
  <2>5. PICK d \in chain[k - 1] \cap Code : lastNext[d] = NoClass \/ rank[d] + (k - 1) < n
    BY <2>1, <2>4
  <2>6. d \in chain[k] /\ (lastNext[d] # NoClass => lastNext[d] \in chain[k] \cap Code)
    BY <2>2, <2>3, <2>5 DEF Linked
  <2>7. CASE lastNext[d] = NoClass
    BY <2>1, <2>5, <2>6, <2>7
  <2>8. CASE lastNext[d] # NoClass
    <3>1. rank[lastNext[d]] < rank[d] /\ rank[d] + (k - 1) < n
      BY <2>5, <2>6, <2>8
    <3>2. rank[lastNext[d]] + k < n
      <4>1. rank[lastNext[d]] \in Nat /\ rank[d] \in Nat
        BY <2>5, <2>6, <2>8
      <4>. QED
        BY <1>2, <2>2, <3>1, <4>1
    <3>. QED
      BY <2>1, <2>6, <2>8, <3>2
  <2>. QED
    BY <2>7, <2>8
<1>4. Fine(n)
  BY <1>2, <1>3
<1>5. \A d \in Code : ~(rank[d] + n < n)
  BY <1>2
<1>. QED
  BY <1>1, <1>4, <1>5

-----------------------------------------------------------------------------
(***************************************************************************)
(* What a step does to the code                                            *)
(***************************************************************************)

\* compile_script puts code that is in no list at the end of the list.
Lists(c, p, i) ==
  /\ ~InList(c, codeList)
  /\ codeList' = Append(codeList, c)
  /\ persistent' = [persistent EXCEPT ![c] = p]
  /\ codeItem' = [codeItem EXCEPT ![c] = i]
  /\ i # None => InList(i, itemList)
  /\ site # None
  /\ UNCHANGED <<engineVars, itemList>>

\* Script objects after a lookup: listed items may have got theirs.
LookedUp(objs) ==
  /\ objs \in [Item \cup {Global} -> Code \cup {NoObject, NoClass}]
  /\ \A o \in Item \cup {Global} :
       objs[o] = classes[o] \/ (objs[o] = NoClass /\ InList(o, itemList))

\* Code begins to run in the script object of an item, or in the engine's own.
RunsIn(c, i) ==
  \E objs : LookedUp(objs) /\ exec_global_code(c, objs, ScriptObj(i), pending, frames)

ListStep(c, p, i) ==
  /\ Lists(c, p, i)
  /\ \/ UNCHANGED <<pending, lastNext, runs, classes>>
     \/ /\ ~is_started
        /\ pending' = [pending EXCEPT ![c] = TRUE]
        /\ LookedUp(classes') /\ UNCHANGED <<lastNext, runs>>
     \/ RunsIn(c, i) \/ RunsIn(c, None)

LEMMA LookupObjects ==
  ASSUME TypeOK, NEW S, \A o \in S : InList(o, itemList)
  PROVE  LookedUp(classes) /\ LookedUp(CreateObjects(S))
<1>1. classes \in [Item \cup {Global} -> Code \cup {NoObject, NoClass}]
  BY DEF TypeOK
<1>. QED
  BY <1>1 DEF LookedUp, CreateObjects

LEMMA VisitedListed ==
  ASSUME NEW n, NEW k \in Nat, k <= Len(itemList), TypeOK
  PROVE  \A i \in Visited(n, k) : InList(i, itemList)
BY LenProperties DEF Visited, InList, TypeOK

LEMMA CodeStep ==
  ASSUME IInv, UnlistedIsFresh, [Next]_vars
  PROVE  \/ UNCHANGED codeVars
         \/ \E c \in Code, p \in BOOLEAN, i \in Item \cup {None} : ListStep(c, p, i)
         \/ RunQueued
         \/ ReleaseScript
<1>. DEFINE Goal == \/ UNCHANGED codeVars
                    \/ \E c \in Code, p \in BOOLEAN, i \in Item \cup {None} : ListStep(c, p, i)
                    \/ RunQueued
                    \/ ReleaseScript
<1>. USE EngineAssumption
<1>0. TypeOK
  BY DEF IInv
<1>1. ASSUME NEW c \in Code, FreeCode(c), codeList' = Append(codeList, c),
             UNCHANGED <<persistent, codeItem, engineVars, itemList>>, site # None
      PROVE  Lists(c, persistent[c], None) /\ persistent[c] \in BOOLEAN
  BY <1>0, <1>1 DEF FreeCode, Lists, UnlistedIsFresh, TypeOK
<1>2. ASSUME NEW t \in Thread, NEW c \in Code,
             EvaluateExpression(t, c) \/ ParseProcedureText(t, c)
      PROVE  Goal
  <2>1. /\ FreeCode(c) /\ codeList' = Append(codeList, c)
        /\ UNCHANGED <<persistent, codeItem, engineVars, itemList>> /\ site # None
        /\ UNCHANGED <<pending, lastNext, runs, classes>>
    BY <1>2 DEF EvaluateExpression, ParseProcedureText, itemVars
  <2>2. Lists(c, persistent[c], None) /\ persistent[c] \in BOOLEAN
    BY <1>1, <2>1
  <2>3. ListStep(c, persistent[c], None)
    BY <2>1, <2>2 DEF ListStep
  <2>. QED
    BY <2>2, <2>3
<1>3. ASSUME NEW c \in Code, ExecuteGlobal(c)
      PROVE  Goal
  <2>1. /\ FreeCode(c) /\ codeList' = Append(codeList, c)
        /\ UNCHANGED <<persistent, codeItem, engineVars, itemList>> /\ site # None
        /\ exec_global_code(c, classes, ScriptObj(None), pending, frames)
    <3>1. site # None
      BY <1>3, TopFrame DEF ExecuteGlobal, Running, FrameSound, Top
    <3>. QED
      BY <1>3, <3>1 DEF ExecuteGlobal, itemVars, ScriptObj
  <2>2. Lists(c, persistent[c], None) /\ persistent[c] \in BOOLEAN
    BY <1>1, <2>1
  <2>3. LookedUp(classes)
    BY <1>0, LookupObjects
  <2>4. ListStep(c, persistent[c], None)
    BY <2>1, <2>2, <2>3 DEF ListStep, RunsIn
  <2>. QED
    BY <2>2, <2>4
<1>4. ASSUME NEW t \in Thread, NEW c \in Code, NEW n \in Name \cup {None},
             NEW p \in BOOLEAN, ParseScriptText(t, c, n, p)
      PROVE  Goal
  <2>1. FreeCode(c) /\ UNCHANGED <<engineVars, itemList>> /\ site # None
    BY <1>4 DEF ParseScriptText
  <2>2. ASSUME NEW i \in Item \cup {None}, i # None => InList(i, itemList),
               NEW objs, LookedUp(objs), NEW disps, CompileAndRun(c, i, p, objs, disps)
        PROVE  Goal
    <3>. DEFINE item == IF i # None /\ objs[i] = NoObject THEN None ELSE i
    <3>1. item \in Item \cup {None} /\ (item # None => InList(item, itemList))
      BY <2>2
    <3>2. /\ codeList' = Append(codeList, c)
          /\ persistent' = [persistent EXCEPT ![c] = p]
          /\ codeItem' = [codeItem EXCEPT ![c] = item]
          /\ \/ exec_global_code(c, objs, ScriptObj(item), pending, frames)
             \/ /\ ~is_started
                /\ pending' = [pending EXCEPT ![c] = TRUE]
                /\ classes' = objs
                /\ UNCHANGED <<lastNext, runs, frames>>
      BY <2>2 DEF CompileAndRun
    <3>. HIDE DEF item
    <3>3. Lists(c, p, item)
      BY <2>1, <3>1, <3>2 DEF Lists, FreeCode
    <3>4. ListStep(c, p, item)
      BY <2>2, <3>2, <3>3 DEF ListStep, RunsIn
    <3>. QED
      BY <3>1, <3>4
  <2>3. CASE CompileAndRun(c, None, p, classes, itemDisp)
    <3>1. LookedUp(classes)
      BY <1>0, LookupObjects
    <3>. QED
      BY <2>2, <2>3, <3>1
  <2>4. ASSUME NEW k \in DOMAIN itemList,
               CompileAndRun(c, itemList[k], p, CreateObjects(Visited(n, k)),
                             DispAfterLookup(itemList[k]))
        PROVE  Goal
    <3>1. itemList[k] \in Item /\ InList(itemList[k], itemList) /\ k \in Nat /\ k <= Len(itemList)
      BY <1>0, ElementOfSeq, LenProperties DEF TypeOK, InList
    <3>2. LookedUp(CreateObjects(Visited(n, k)))
      BY <1>0, <3>1, VisitedListed, LookupObjects
    <3>. QED
      BY <2>2, <2>4, <3>1, <3>2
  <2>. QED
    BY <1>4, <2>3, <2>4 DEF ParseScriptText
<1>5. ASSUME NEW t \in Thread,
             \/ \E s \in Site : SetScriptSite(t, s)
             \/ ClaimEngine(t) \/ ClaimRefused(t)
             \/ \E i \in Item, n \in Name, f \in FlagSets : AddNamedItem(t, i, n, f)
             \/ \E n \in Name : GetScriptDispatch(t, n)
             \/ \E c \in Code : InvokeEx(t, c)
             \/ \E ss \in Started : Start(t, ss)
             \/ Stop(t) \/ Reset(t) \/ Close(t)
      PROVE  Goal
  BY <1>5 DEF SetScriptSite, ClaimEngine, ClaimRefused, AddNamedItem, GetScriptDispatch, InvokeEx,
              Start, Stop, Reset, Close, decrease_state
<1>6. CASE \/ InitNew \/ FinalRelease \/ RetrieveItemDisp \/ RetrieveItemDispFails \/ AttachSite
           \/ ExecReturns \/ StartDone \/ UNCHANGED vars
  BY <1>6 DEF InitNew, FinalRelease, decrease_state, RetrieveItemDisp, RetrieveItemDispFails,
              AttachSite, ExecReturns, StartDone, vars
<1>. QED
  BY <1>2, <1>3, <1>4, <1>5, <1>6 DEF Next

\* Code that has not run in this session is linked to nothing, so that it comes
\* right before the classes that were there.
LEMMA ExecEffects ==
  ASSUME TypeOK, LinkedHasRun, NEW c \in Code, runs[c] = 0,
         NEW objs, objs \in [Item \cup {Global} -> Code \cup {NoObject, NoClass}],
         NEW obj, NEW fs, exec_global_code(c, objs, obj, pending, fs)
  PROVE  /\ pending' = [pending EXCEPT ![c] = FALSE]
         /\ runs' = [runs EXCEPT ![c] = 1]
         /\ lastNext' = [lastNext EXCEPT ![c] = IF objs[obj] = NoObject THEN NoClass ELSE objs[obj]]
         /\ classes' = [objs EXCEPT ![obj] = c]
<1>1. lastNext[c] = NoClass
  BY DEF LinkedHasRun
<1>2. ClassEnd(c) = c
  BY <1>1, ChainHead
<1>3. runs' = [runs EXCEPT ![c] = 1]
  <2>1. runs' = [runs EXCEPT ![c] = @ + 1]
    BY DEF exec_global_code
  <2>2. runs[c] + 1 = 1
    OBVIOUS
  <2>. QED
    BY <2>1, <2>2
<1>. QED
  BY <1>2, <1>3 DEF exec_global_code, PendingOnEntry

\* What runs is new to the session.
LEMMA RunsNew ==
  ASSUME IInv, QueueSound, NEW c \in Code, NEW p, NEW i, ListStep(c, p, i)
  PROVE  /\ runs[c] = 0 /\ ~pending[c] /\ lastNext[c] = NoClass /\ codeItem[c] = None
         /\ ~persistent[c]
BY DEF ListStep, Lists, QueueSound, UnlistedIsFresh

LEMMA QueuedIsNew ==
  ASSUME IInv, QueueSound, NEW c \in Code, pending[c]
  PROVE  runs[c] = 0 /\ lastNext[c] = NoClass /\ InList(c, codeList)
<1>1. runs[c] = 0
  BY DEF IInv, TypeOK, QueueSound, RanIsNotPending
<1>. QED
  BY <1>1 DEF QueueSound, LinkedHasRun, UnlistedIsFresh

-----------------------------------------------------------------------------
(***************************************************************************)
(* The queue                                                               *)
(***************************************************************************)

\* Outside a release the list only grows at its end, and of the code that was
\* there none becomes pending; what is new is not pending on a started engine.
LEMMA PendingStep ==
  ASSUME IInv, QueueSound, [Next]_vars, ~ReleaseScript
  PROVE  /\ codeList \in Seq(Code) /\ Len(codeList) \in Nat
         /\ DOMAIN codeList = 1..Len(codeList)
         /\ Len(codeList') = Len(codeList) \/ Len(codeList') = Len(codeList) + 1
         /\ \A k \in DOMAIN codeList' :
              \/ /\ k \in DOMAIN codeList /\ codeList'[k] = codeList[k]
                 /\ pending'[codeList[k]] => pending[codeList[k]]
              \/ k = Len(codeList) + 1 /\ (is_started => ~pending'[codeList'[k]])
<1>0. TypeOK /\ codeList \in Seq(Code) /\ Len(codeList) \in Nat /\ DOMAIN codeList = 1..Len(codeList)
      /\ pending \in [Code -> BOOLEAN]
      /\ \A k \in DOMAIN codeList : codeList[k] \in Code
  BY LenProperties, ElementOfSeq DEF IInv, TypeOK
<1>. DEFINE Goal == /\ Len(codeList') = Len(codeList) \/ Len(codeList') = Len(codeList) + 1
                    /\ \A k \in DOMAIN codeList' :
                         \/ /\ k \in DOMAIN codeList /\ codeList'[k] = codeList[k]
                            /\ pending'[codeList[k]] => pending[codeList[k]]
                         \/ k = Len(codeList) + 1 /\ (is_started => ~pending'[codeList'[k]])
<1>1. CASE UNCHANGED codeVars
  BY <1>0, <1>1 DEF codeVars
<1>2. ASSUME NEW c \in Code, NEW p \in BOOLEAN, NEW i \in Item \cup {None}, ListStep(c, p, i)
      PROVE  Goal
  <2>1. codeList' = Append(codeList, c) /\ ~InList(c, codeList)
    BY <1>2 DEF ListStep, Lists
  <2>2. /\ Len(codeList') = Len(codeList) + 1 /\ DOMAIN codeList' = 1..(Len(codeList) + 1)
        /\ codeList'[Len(codeList) + 1] = c
        /\ \A k \in DOMAIN codeList : codeList'[k] = codeList[k] /\ codeList[k] # c
    BY <1>0, <2>1, AppendList DEF InList
  <2>3. ~pending[c] /\ runs[c] = 0
    BY <1>2, RunsNew
  <2>4. \/ pending' = pending
        \/ pending' = [pending EXCEPT ![c] = FALSE]
        \/ ~is_started /\ pending' = [pending EXCEPT ![c] = TRUE]
    BY <1>2 DEF ListStep, RunsIn, exec_global_code, PendingOnEntry
  <2>5. \A d \in Code : d # c => pending'[d] = pending[d]
    BY <1>0, <2>4
  <2>6. is_started => ~pending'[c]
    BY <1>0, <2>3, <2>4
  <2>7. \A k \in 1..(Len(codeList) + 1) : k \in 1..Len(codeList) \/ k = Len(codeList) + 1
    BY <1>0
  <2>. QED
    BY <1>0, <2>2, <2>5, <2>6, <2>7
<1>3. CASE RunQueued
  <2>1. PICK k \in DOMAIN codeList :
          pending' = [pending EXCEPT ![codeList[k]] = FALSE] /\ codeList' = codeList
    BY <1>3, RunsQueued DEF exec_global_code, PendingOnEntry
  <2>. QED
    BY <1>0, <2>1
<1>4. Goal
  BY <1>1, <1>2, <1>3, CodeStep DEF QueueSound
<1>. QED
  BY <1>0, <1>4

\* A start that is over, and nothing else, makes the engine started.
LEMMA StartsEngine ==
  ASSUME IInv, [Next]_vars, state' \in Started
  PROVE  state \in Started \/ StartDone
<1>. USE DEF Started
<1>1. ASSUME UNCHANGED state \/ state' \in {"INITIALIZED", "UNINITIALIZED", "CLOSED"}
      PROVE  state \in Started
  BY <1>1
<1>2. ASSUME NEW t \in Thread,
             \/ \E s \in Site : SetScriptSite(t, s)
             \/ ClaimEngine(t) \/ ClaimRefused(t)
             \/ \E i \in Item, n \in Name, f \in FlagSets : AddNamedItem(t, i, n, f)
             \/ \E n \in Name : GetScriptDispatch(t, n)
             \/ \E c \in Code, n \in Name \cup {None}, p \in BOOLEAN : ParseScriptText(t, c, n, p)
             \/ \E c \in Code : \/ EvaluateExpression(t, c) \/ ParseProcedureText(t, c)
                               \/ InvokeEx(t, c)
             \/ \E ss \in Started : Start(t, ss)
             \/ Stop(t) \/ Reset(t) \/ Close(t)
      PROVE  state \in Started
  <2>1. UNCHANGED state \/ state' \in {"INITIALIZED", "UNINITIALIZED", "CLOSED"}
    BY <1>2 DEF SetScriptSite, ClaimEngine, ClaimRefused, AddNamedItem, GetScriptDispatch, ParseScriptText,
                EvaluateExpression, ParseProcedureText, InvokeEx, Start, Stop, Reset, Close,
                decrease_state, engineVars
  <2>. QED
    BY <1>1, <2>1
<1>3. CASE \/ InitNew \/ FinalRelease \/ RetrieveItemDisp \/ RetrieveItemDispFails \/ AttachSite
           \/ (\E c \in Code : ExecuteGlobal(c)) \/ ExecReturns \/ RunQueued \/ ReleaseScript
           \/ UNCHANGED vars
  <2>1. UNCHANGED state \/ state' \in {"INITIALIZED", "UNINITIALIZED", "CLOSED"}
    BY <1>3 DEF InitNew, FinalRelease, decrease_state, RetrieveItemDisp, RetrieveItemDispFails,
                AttachSite, StateOnAttach, ExecuteGlobal, ExecReturns, RunQueued, ReleaseScript,
                vars, engineVars
  <2>. QED
    BY <1>1, <2>1
<1>. QED
  BY <1>2, <1>3 DEF Next

\* A release is the only operation in progress, and it ends on an engine that is
\* not started.
LEMMA ReleaseEnds ==
  ASSUME IInv, ReleaseScript
  PROVE  /\ Len(frames) = 1 /\ DOMAIN frames' = {} /\ Top.arg = state
         /\ state \in {"UNINITIALIZED", "CLOSED"} /\ UNCHANGED state
         /\ site' = None /\ thread' = None
<1>1. frames # <<>> /\ Pop /\ Top.op = "Release" /\ site' = None /\ thread' = None
      /\ UNCHANGED state
  BY DEF ReleaseScript, Running, SiteAfterRelease
<1>2. Len(frames) = 1 /\ Top.arg = state /\ state \in {"UNINITIALIZED", "CLOSED"}
  BY <1>1, TopFrame DEF FrameSound, Top
<1>3. DOMAIN frames' = 1..(1 - 1)
  BY <1>1, <1>2, PopFrame DEF Pop, IInv, TypeOK
<1>. QED
  BY <1>1, <1>2, <1>3

\* What the list keeps is persistent code, and all of it unless the engine is closed.
LEMMA KeptIsPersistent ==
  ASSUME IInv, ReleaseScript
  PROVE  /\ \A c : InList(c, codeList') => InList(c, codeList) /\ persistent[c]
         /\ state # "CLOSED" => \A c : InList(c, codeList) /\ persistent[c] => InList(c, codeList')
         /\ \A i : InList(i, itemList') => InList(i, itemList)
<1>0. codeList \in Seq(Code) /\ itemList \in Seq(Item) /\ Top.arg = state
  BY ReleaseEnds DEF IInv, TypeOK
<1>. DEFINE K == {k \in DOMAIN codeList : IsPersistent(codeList[k])}
            L == {k \in DOMAIN itemList : KeepsItem(itemList[k])}
<1>1. codeList' = KeptCode(state) /\ itemList' = KeptItems(state)
  BY <1>0 DEF ReleaseScript
<1>2. CASE state = "CLOSED"
  <2>1. codeList' = <<>> /\ itemList' = <<>>
    BY <1>1, <1>2 DEF KeptCode, KeptItems
  <2>. QED
    BY <1>2, <2>1 DEF InList
<1>3. CASE state # "CLOSED"
  <2>1. codeList' = Unlinked(codeList, K) /\ itemList' = Unlinked(itemList, L)
    BY <1>1, <1>3 DEF KeptCode, KeptItems
  <2>2. K \in SUBSET (DOMAIN codeList) /\ L \in SUBSET (DOMAIN itemList)
    OBVIOUS
  <2>. HIDE DEF K, L
  <2>3. \A c : InList(c, codeList') <=> \E k \in K : codeList[k] = c
    BY <1>0, <2>1, <2>2, UnlinkedIsList
  <2>4. \A i : InList(i, itemList') <=> \E k \in L : itemList[k] = i
    BY <1>0, <2>1, <2>2, UnlinkedIsList
  <2>. QED
    BY <2>3, <2>4 DEF K, L, InList, IsPersistent
<1>. QED
  BY <1>2, <1>3

LEMMA NextQueue ==
  ASSUME IInv, QueueSound, [Next]_vars
  PROVE  QueueSound'
<1>0. /\ TypeOK /\ codeList \in Seq(Code)
      /\ persistent \in [Code -> BOOLEAN] /\ pending \in [Code -> BOOLEAN]
      /\ codeItem \in [Code -> Item \cup {None}] /\ lastNext \in [Code -> Code \cup {NoClass}]
      /\ runs \in [Code -> Nat]
  BY DEF IInv, TypeOK
<1>. DEFINE CodeParts == UnlistedIsFresh /\ RanIsNotPending /\ LinkedHasRun
<1>1. CodeParts
  BY DEF QueueSound
<1>2. CodeParts'
  <2>1. CASE UNCHANGED codeVars
    BY <1>1, <2>1 DEF UnlistedIsFresh, RanIsNotPending, LinkedHasRun, codeVars
  <2>2. ASSUME NEW c \in Code, InList(c, codeList'), runs[c] = 0, lastNext[c] = NoClass,
               \A d \in Code : InList(d, codeList) => InList(d, codeList'),
               \A d \in Code : d # c => /\ persistent'[d] = persistent[d]
                                         /\ codeItem'[d] = codeItem[d],
               NEW objs, objs \in [Item \cup {Global} -> Code \cup {NoObject, NoClass}],
               NEW obj, NEW fs, exec_global_code(c, objs, obj, pending, fs)
        PROVE  CodeParts'
    <3>1. /\ pending' = [pending EXCEPT ![c] = FALSE]
          /\ runs' = [runs EXCEPT ![c] = 1]
          /\ \A d \in Code : d # c => lastNext'[d] = lastNext[d]
      <4>1. /\ pending' = [pending EXCEPT ![c] = FALSE]
            /\ runs' = [runs EXCEPT ![c] = 1]
            /\ lastNext' = [lastNext EXCEPT ![c] =
                              IF objs[obj] = NoObject THEN NoClass ELSE objs[obj]]
        <5>1. TypeOK /\ LinkedHasRun
          BY <1>0, <1>1
        <5>. QED
          BY ONLY <5>1, <2>2, c \in Code, ExecEffects
      <4>. QED
        BY <1>0, <4>1
    <3>2. /\ ~pending'[c] /\ runs'[c] = 1
          /\ \A d \in Code : d # c => pending'[d] = pending[d] /\ runs'[d] = runs[d]
      BY <1>0, <3>1
    <3>3. UnlistedIsFresh'
      BY <1>1, <2>2, <3>1, <3>2 DEF UnlistedIsFresh
    <3>4. RanIsNotPending'
      BY <1>1, <3>2 DEF RanIsNotPending
    <3>5. LinkedHasRun'
      BY <1>1, <3>1, <3>2 DEF LinkedHasRun
    <3>. QED
      BY <3>3, <3>4, <3>5
  <2>3. ASSUME NEW c \in Code, NEW p \in BOOLEAN, NEW i \in Item \cup {None}, ListStep(c, p, i)
        PROVE  CodeParts'
    <3>1. runs[c] = 0 /\ lastNext[c] = NoClass
      BY <2>3, RunsNew
    <3>2. /\ codeList' = Append(codeList, c)
          /\ persistent' = [persistent EXCEPT ![c] = p] /\ codeItem' = [codeItem EXCEPT ![c] = i]
      BY <2>3 DEF ListStep, Lists
    <3>3. \A d : InList(d, codeList') <=> InList(d, codeList) \/ d = c
      BY <1>0, <3>2, AppendList
    <3>4. \A d \in Code : d # c => persistent'[d] = persistent[d] /\ codeItem'[d] = codeItem[d]
      BY <1>0, <3>2
    <3>5. CASE RunsIn(c, i) \/ RunsIn(c, None)
      BY <2>2, <3>1, <3>3, <3>4, <3>5 DEF RunsIn, LookedUp
    <3>6. CASE /\ UNCHANGED <<lastNext, runs>>
               /\ UNCHANGED pending \/ pending' = [pending EXCEPT ![c] = TRUE]
      <4>1. \A d \in Code : d # c => pending'[d] = pending[d]
        BY <1>0, <3>6
      <4>2. UnlistedIsFresh'
        BY <1>1, <3>3, <3>4, <3>6, <4>1 DEF UnlistedIsFresh
      <4>3. RanIsNotPending'
        BY <1>1, <3>1, <3>6, <4>1 DEF RanIsNotPending
      <4>4. LinkedHasRun'
        BY <1>1, <3>6 DEF LinkedHasRun
      <4>. QED
        BY <4>2, <4>3, <4>4
    <3>. QED
      BY <2>3, <3>5, <3>6 DEF ListStep
  <2>4. CASE RunQueued
    <3>1. PICK k \in DOMAIN codeList :
            /\ codeList[k] \in Code /\ pending[codeList[k]]
            /\ exec_global_code(codeList[k], classes, ScriptObj(codeItem[codeList[k]]), pending,
                                [frames EXCEPT ![Len(frames)].pos = k + 1])
            /\ UNCHANGED <<codeList, persistent, codeItem>>
      BY <2>4, RunsQueued
    <3>2. /\ runs[codeList[k]] = 0 /\ lastNext[codeList[k]] = NoClass
          /\ InList(codeList[k], codeList)
      BY <3>1, QueuedIsNew
    <3>3. classes \in [Item \cup {Global} -> Code \cup {NoObject, NoClass}]
      BY <1>0 DEF TypeOK
    <3>. QED
      BY <2>2, <3>1, <3>2, <3>3
  <2>5. CASE ReleaseScript
    <3>1. \A c \in Code : InList(c, codeList') => persistent[c]
      BY <2>5, KeptIsPersistent
    <3>2. \A c \in Code : InList(c, codeList') <=> c \in {codeList'[k] : k \in DOMAIN codeList'}
      BY DEF InList
    <3>3. ASSUME NEW c \in Code
          PROVE  /\ runs'[c] = 0 /\ lastNext'[c] = NoClass
                 /\ ~InList(c, codeList') => ~pending'[c] /\ ~persistent'[c] /\ codeItem'[c] = None
      BY <2>5, <3>1, <3>2 DEF ReleaseScript, NextAfterRelease, IsPersistent
    <3>. QED
      BY <3>3 DEF UnlistedIsFresh, RanIsNotPending, LinkedHasRun
  <2>. QED
    BY <1>1, <2>1, <2>3, <2>4, <2>5, CodeStep
<1>3. CursorsSound'
  <2>1. CASE ReleaseScript
    BY <2>1, ReleaseEnds DEF CursorsSound
  <2>2. ASSUME ~ReleaseScript, NEW d \in DOMAIN frames', frames'[d].op = "Start",
               NEW p \in Nat \ {0}, p <= Len(codeList) + 1, frames'[d].pos = p,
               \A k \in DOMAIN codeList : k < p => ~pending'[codeList[k]]
        PROVE  CursorSound(frames[d])'
    <3>1. /\ Len(codeList) \in Nat /\ DOMAIN codeList = 1..Len(codeList)
          /\ Len(codeList') = Len(codeList) \/ Len(codeList') = Len(codeList) + 1
          /\ \A k \in DOMAIN codeList' :
               \/ k \in DOMAIN codeList /\ codeList'[k] = codeList[k]
               \/ k = Len(codeList) + 1
      BY <2>2, PendingStep
    <3>2. frames'[d].pos \in 1..(Len(codeList') + 1)
      BY <2>2, <3>1
    <3>3. \A k \in DOMAIN codeList' : k < p => ~pending'[codeList'[k]]
      BY <2>2, <3>1
    <3>. QED
      BY <2>2, <3>2, <3>3 DEF CursorSound
  <2>3. ASSUME ~ReleaseScript, NEW d \in DOMAIN frames', frames'[d].op = "Start",
               NEW e \in DOMAIN frames, frames[e].op = "Start", frames'[d].pos = frames[e].pos
        PROVE  CursorSound(frames[d])'
    <3>1. CursorSound(frames[e])
      BY DEF QueueSound, CursorsSound
    <3>2. /\ Len(codeList) \in Nat /\ DOMAIN codeList = 1..Len(codeList)
          /\ \A k \in DOMAIN codeList' :
              \/ /\ k \in DOMAIN codeList /\ codeList'[k] = codeList[k]
                 /\ pending'[codeList[k]] => pending[codeList[k]]
              \/ k = Len(codeList) + 1
          /\ Len(codeList') = Len(codeList) \/ Len(codeList') = Len(codeList) + 1
      BY <2>3, PendingStep
    <3>3. frames'[d].pos \in 1..(Len(codeList') + 1)
      BY <2>3, <3>1, <3>2 DEF CursorSound
    <3>4. \A k \in DOMAIN codeList' : k < frames'[d].pos => ~pending'[codeList'[k]]
      BY <2>3, <3>1, <3>2 DEF CursorSound
    <3>. QED
      BY <3>3, <3>4 DEF CursorSound
  <2>4. CASE StartsStay /\ ~ReleaseScript
    <3>1. ASSUME NEW d \in DOMAIN frames', frames'[d].op = "Start", frames'[d].pos = 1
          PROVE  CursorSound(frames[d])'
      <4>1. Len(codeList) \in Nat /\ \A k \in DOMAIN codeList : ~(k < 1)
        BY <2>4, PendingStep
      <4>. QED
        BY <2>2, <2>4, <3>1, <4>1
    <3>2. ASSUME NEW d \in DOMAIN frames', frames'[d].op = "Start"
          PROVE  CursorSound(frames[d])'
      BY <2>3, <2>4, <3>1, <3>2 DEF StartsStay
    <3>3. \A d \in DOMAIN frames' : CursorSound(frames[d])'
      BY <3>2 DEF CursorSound
    <3>. QED
      BY <3>3 DEF CursorsSound
  <2>5. CASE RunQueued /\ ~ReleaseScript
    <3>1. PICK k \in DOMAIN codeList :
            /\ codeList[k] \in Code /\ k \in Nat /\ k <= Len(codeList)
            /\ \A j \in DOMAIN codeList : j >= Top.pos /\ j < k => ~pending[codeList[j]]
            /\ exec_global_code(codeList[k], classes, ScriptObj(codeItem[codeList[k]]), pending,
                                [frames EXCEPT ![Len(frames)].pos = k + 1])
            /\ frames # <<>> /\ Top.op = "Start"
      BY <2>5, RunsQueued
    <3>. DEFINE fs == [frames EXCEPT ![Len(frames)].pos = k + 1]
                e  == Frame("Exec", codeList[k], 0)
    <3>2. /\ frames' = Append(fs, e) /\ pending' = [pending EXCEPT ![codeList[k]] = FALSE]
      BY <3>1 DEF exec_global_code, PendingOnEntry
    <3>3. e \in Frames /\ e.op = "Exec" /\ frames \in Seq(Frames)
      BY <1>0, <3>1 DEF Frame, Frames, TypeOK
    <3>4. /\ Len(frames) \in 1..Len(frames) /\ DOMAIN frames = 1..Len(frames)
          /\ Top = frames[Len(frames)] /\ Top \in Frames
      BY <3>1, TopFrame DEF Top
    <3>5. /\ fs \in Seq(Frames) /\ Len(fs) = Len(frames)
          /\ \A d \in 1..Len(frames) : fs[d].op = frames[d].op
          /\ \A d \in 1..Len(frames) : d # Len(frames) => fs[d] = frames[d]
          /\ fs[Len(frames)].pos = k + 1
      <4>1. k + 1 \in Nat
        BY <3>1
      <4>2. fs \in Seq(Frames) /\ Len(fs) = Len(frames)
            /\ \A d \in 1..Len(frames) : fs[d].op = frames[d].op
        BY <3>1, <3>3, <4>1, AdvanceFrame
      <4>3. /\ \A d \in 1..Len(frames) : d # Len(frames) => fs[d] = frames[d]
            /\ fs[Len(frames)].pos = k + 1
        BY <3>3, <3>4 DEF Frames
      <4>. QED
        BY <4>2, <4>3
    <3>. HIDE DEF fs, e
    <3>6. /\ \A d \in DOMAIN frames' : d \in 1..Len(frames) \/ frames'[d] = e
          /\ \A d \in 1..Len(frames) : frames'[d] = fs[d]
      <4>1. DOMAIN frames' = 1..(Len(frames) + 1) /\ frames'[Len(frames) + 1] = e
            /\ \A d \in 1..Len(frames) : frames'[d] = fs[d]
        BY <3>2, <3>3, <3>5, PushFrame
      <4>. QED
        BY <3>4, <4>1
    <3>7. ASSUME NEW d \in DOMAIN frames', frames'[d].op = "Start"
          PROVE  CursorSound(frames[d])'
      <4>1. d \in 1..Len(frames) /\ frames'[d] = fs[d] /\ frames[d].op = "Start"
        BY <3>3, <3>5, <3>6, <3>7
      <4>2. CASE d # Len(frames)
        BY <2>3, <2>5, <3>4, <3>5, <3>7, <4>1, <4>2
      <4>3. CASE d = Len(frames)
        <5>1. CursorSound(Top)
          BY <3>4 DEF QueueSound, CursorsSound
        <5>2. \A j \in DOMAIN codeList : j < k + 1 => ~pending'[codeList[j]]
          <6>1. ASSUME NEW j \in DOMAIN codeList, j < k + 1
                PROVE  ~pending'[codeList[j]]
            <7>1. j \in Nat /\ codeList[j] \in Code /\ (j = k \/ j < k)
              BY <1>0, <3>1, <6>1, LenProperties, ElementOfSeq
            <7>2. Top.pos \in Nat
              BY <3>4 DEF Frames
            <7>3. j = k \/ ~pending[codeList[j]]
              BY <3>1, <5>1, <7>1, <7>2 DEF CursorSound
            <7>. QED
              BY <1>0, <3>1, <3>2, <7>1, <7>3
          <6>. QED
            BY <6>1
        <5>3. k + 1 \in Nat \ {0} /\ k + 1 <= Len(codeList) + 1
          BY <1>0, <3>1, LenProperties
        <5>. QED
          BY <2>2, <2>5, <3>5, <3>7, <4>1, <4>3, <5>2, <5>3
      <4>. QED
        BY <4>2, <4>3
    <3>8. \A d \in DOMAIN frames' : CursorSound(frames[d])'
      BY <3>7 DEF CursorSound
    <3>. QED
      BY <3>8 DEF CursorsSound
  <2>. QED
    BY <2>1, <2>4, <2>5, NextFrames
<1>4. NothingQueuedWhenStarted'
  <2>1. CASE state' \notin Started
    BY <2>1 DEF NothingQueuedWhenStarted
  <2>2. CASE state' \in Started /\ state \in Started
    <3>1. ~ReleaseScript
      BY <2>2, ReleaseEnds DEF Started
    <3>2. \A k \in DOMAIN codeList : ~pending[codeList[k]]
      BY <2>2 DEF QueueSound, NothingQueuedWhenStarted
    <3>3. \A k \in DOMAIN codeList' : ~pending'[codeList'[k]]
      BY <2>2, <3>1, <3>2, PendingStep DEF is_started
    <3>. QED
      BY <3>3 DEF NothingQueuedWhenStarted
  <2>3. CASE StartDone
    <3>1. /\ frames # <<>> /\ Top.op = "Start" /\ PendingFrom(Top.pos) = {}
          /\ UNCHANGED <<codeList, pending>>
      BY <2>3 DEF StartDone, Running, codeVars
    <3>2. CursorSound(Top) /\ Top \in Frames
      BY <3>1, TopFrame DEF QueueSound, CursorsSound, Top
    <3>3. \A k \in DOMAIN codeList : k \in Nat /\ Top.pos \in Nat
      BY <1>0, <3>2, LenProperties DEF Frames
    <3>4. ASSUME NEW k \in DOMAIN codeList
          PROVE  ~pending[codeList[k]]
      <4>1. CASE k < Top.pos
        BY <3>1, <3>2, <4>1 DEF CursorSound
      <4>2. CASE k >= Top.pos
        BY <3>1, <4>2 DEF PendingFrom
      <4>. QED
        BY <3>3, <4>1, <4>2
    <3>. QED
      BY <3>1, <3>4 DEF NothingQueuedWhenStarted
  <2>. QED
    BY <2>1, <2>2, <2>3, StartsEngine
<1>. QED
  BY <1>2, <1>3, <1>4 DEF QueueSound

-----------------------------------------------------------------------------
(***************************************************************************)
(* Script objects and dispatches                                           *)
(***************************************************************************)

\* What a release looks at: the engine's own object, those of the listed items,
\* and those of the items that persistent code refers to.
LEMMA ReleasedIs ==
  \A o : o \in ReleasedObjects <=>
    \/ o = Global \/ InList(o, itemList)
    \/ \E c : InList(c, codeList) /\ persistent[c] /\ codeItem[c] = o
<1>1. \A o : o \in {itemList[k] : k \in DOMAIN itemList} <=> InList(o, itemList)
  BY DEF InList
<1>2. \A o : o \in {codeItem[codeList[k]] :
                       k \in {k \in DOMAIN codeList : IsPersistent(codeList[k])}}
            <=> \E c : InList(c, codeList) /\ persistent[c] /\ codeItem[c] = o
  BY DEF InList, IsPersistent
<1>. QED
  BY <1>1, <1>2 DEF ReleasedObjects

\* While the lists only grow, what a release looks at only grows.
LEMMA ReleasedGrows ==
  ASSUME \A i : InList(i, itemList) => InList(i, itemList'),
         \A c : InList(c, codeList) =>
            InList(c, codeList') /\ persistent'[c] = persistent[c] /\ codeItem'[c] = codeItem[c]
  PROVE  \A o \in ReleasedObjects : o \in ReleasedObjects'
<1>1. ASSUME NEW o, InList(o, itemList')
      PROVE  o \in ReleasedObjects'
  BY <1>1 DEF InList, ReleasedObjects
<1>2. ASSUME NEW c, InList(c, codeList'), persistent'[c]
      PROVE  codeItem'[c] \in ReleasedObjects'
  BY <1>2 DEF InList, ReleasedObjects, IsPersistent
<1>3. Global \in ReleasedObjects'
  BY DEF ReleasedObjects
<1>4. ASSUME NEW o \in ReleasedObjects
      PROVE  o \in ReleasedObjects'
  <2>1. CASE o = Global
    BY <1>3, <2>1
  <2>2. CASE InList(o, itemList)
    BY <1>1, <2>2
  <2>3. ASSUME NEW c, InList(c, codeList), persistent[c], codeItem[c] = o
        PROVE  o \in ReleasedObjects'
    BY <1>2, <2>3
  <2>. QED
    BY <2>1, <2>2, <2>3, ReleasedIs
<1>. QED
  BY <1>4

\* Outside a release listed items and listed code stay what they are.
LEMMA ListsGrow ==
  ASSUME IInv, QueueSound, [Next]_vars, ~ReleaseScript
  PROVE  /\ \A i : InList(i, itemList) => InList(i, itemList')
         /\ \A c : InList(c, codeList) => /\ InList(c, codeList')
                                         /\ persistent'[c] = persistent[c]
                                         /\ codeItem'[c] = codeItem[c]
<1>0. /\ codeList \in Seq(Code) /\ itemList \in Seq(Item)
      /\ persistent \in [Code -> BOOLEAN] /\ codeItem \in [Code -> Item \cup {None}]
      /\ \A c : InList(c, codeList) => c \in Code
  BY ElementOfSeq, LenProperties DEF IInv, TypeOK, InList
<1>1. \A i : InList(i, itemList) => InList(i, itemList')
  <2>1. CASE UNCHANGED itemList
    BY <2>1
  <2>2. ASSUME NEW i \in Item, itemList' = Append(itemList, i)
        PROVE  \A j : InList(j, itemList) => InList(j, itemList')
    BY <1>0, <2>2, AppendList
  <2>3. UNCHANGED itemList \/ \E i \in Item : itemList' = Append(itemList, i)
    <3>1. ASSUME NEW t \in Thread,
                 \/ \E s \in Site : SetScriptSite(t, s)
                 \/ ClaimEngine(t) \/ ClaimRefused(t)
                 \/ \E n \in Name : GetScriptDispatch(t, n)
                 \/ \E c \in Code, n \in Name \cup {None}, p \in BOOLEAN :
                      ParseScriptText(t, c, n, p)
                 \/ \E c \in Code : \/ EvaluateExpression(t, c) \/ ParseProcedureText(t, c)
                                   \/ InvokeEx(t, c)
                 \/ \E ss \in Started : Start(t, ss)
                 \/ Stop(t) \/ Reset(t) \/ Close(t)
          PROVE  UNCHANGED itemList
      BY <3>1 DEF SetScriptSite, ClaimEngine, ClaimRefused, GetScriptDispatch, ParseScriptText, EvaluateExpression,
                  ParseProcedureText, InvokeEx, Start, Stop, Reset, Close, decrease_state, itemVars
    <3>2. CASE \/ InitNew \/ FinalRelease \/ RetrieveItemDisp \/ RetrieveItemDispFails
               \/ AttachSite \/ (\E c \in Code : ExecuteGlobal(c)) \/ ExecReturns \/ RunQueued
               \/ StartDone \/ UNCHANGED vars
      BY <3>2 DEF InitNew, FinalRelease, decrease_state, RetrieveItemDisp, RetrieveItemDispFails,
                  AttachSite, ExecuteGlobal, ExecReturns, RunQueued, StartDone, vars, itemVars
    <3>3. ASSUME NEW t \in Thread, NEW i \in Item, NEW n \in Name, NEW f \in FlagSets,
                 AddNamedItem(t, i, n, f)
          PROVE  itemList' = Append(itemList, i)
      BY <3>3 DEF AddNamedItem
    <3>. QED
      BY <3>1, <3>2, <3>3 DEF Next
  <2>. QED
    BY <2>1, <2>2, <2>3
<1>2. \A c : InList(c, codeList) => /\ InList(c, codeList')
                                   /\ persistent'[c] = persistent[c]
                                   /\ codeItem'[c] = codeItem[c]
  <2>1. CASE UNCHANGED codeVars
    BY <2>1 DEF codeVars
  <2>2. ASSUME NEW c \in Code, NEW p \in BOOLEAN, NEW i \in Item \cup {None}, ListStep(c, p, i)
        PROVE  \A d : InList(d, codeList) => /\ InList(d, codeList')
                                            /\ persistent'[d] = persistent[d]
                                            /\ codeItem'[d] = codeItem[d]
    <3>1. /\ codeList' = Append(codeList, c) /\ ~InList(c, codeList)
          /\ persistent' = [persistent EXCEPT ![c] = p] /\ codeItem' = [codeItem EXCEPT ![c] = i]
      BY <2>2 DEF ListStep, Lists
    <3>2. \A d : InList(d, codeList) => InList(d, codeList')
      BY <1>0, <3>1, AppendList
    <3>. QED
      BY <1>0, <3>1, <3>2
  <2>3. CASE RunQueued
    BY <2>3 DEF RunQueued
  <2>. QED
    BY <2>1, <2>2, <2>3, CodeStep DEF QueueSound
<1>. QED
  BY <1>1, <1>2

\* Only an attachment sets the site, and only a release takes it away.
LEMMA SiteStep ==
  ASSUME IInv, [Next]_vars
  PROVE  UNCHANGED site \/ AttachSite \/ ReleaseScript
BY DEF Next, vars, engineVars, SetScriptSite, ClaimEngine, ClaimRefused, AddNamedItem, GetScriptDispatch, ParseScriptText,
       EvaluateExpression, ParseProcedureText, InvokeEx, Start, Stop, Reset, Close, decrease_state,
       InitNew, FinalRelease, RetrieveItemDisp, RetrieveItemDispFails, ExecuteGlobal, ExecReturns,
       RunQueued, StartDone

\* What a step does to the script objects.
LEMMA ObjectStep ==
  ASSUME IInv, UnlistedIsFresh, ObjectsOwned, [Next]_vars
  PROVE  \/ UNCHANGED classes
         \/ LookedUp(classes') /\ site # None /\ UNCHANGED itemList
         \/ AttachSite
         \/ \E c \in Code, p \in BOOLEAN, i \in Item \cup {None} :
               Lists(c, p, i) /\ (RunsIn(c, i) \/ RunsIn(c, None))
         \/ RunQueued
         \/ ReleaseScript
<1>. USE EngineAssumption
<1>0. TypeOK
  BY DEF IInv
<1>. DEFINE Goal == \/ UNCHANGED classes
                    \/ LookedUp(classes') /\ site # None /\ UNCHANGED itemList
                    \/ AttachSite
                    \/ \E c \in Code, p \in BOOLEAN, i \in Item \cup {None} :
                          Lists(c, p, i) /\ (RunsIn(c, i) \/ RunsIn(c, None))
                    \/ RunQueued
                    \/ ReleaseScript
<1>1. ASSUME NEW c \in Code, NEW p \in BOOLEAN, NEW i \in Item \cup {None}, ListStep(c, p, i)
      PROVE  Goal
  BY <1>1 DEF ListStep, Lists
<1>2. ASSUME NEW t \in Thread, NEW n \in Name, GetScriptDispatch(t, n)
      PROVE  Goal
  <2>1. site # None
    <3>1. Global \in DOMAIN classes /\ classes[Global] # NoObject
      BY <1>0, <1>2 DEF GetScriptDispatch, TypeOK
    <3>. QED
      BY <3>1 DEF ObjectsOwned
  <2>2. PICK k \in Nat : k <= Len(itemList) /\ classes' = CreateObjects(Visited(n, k))
    <3>1. \A k \in DOMAIN itemList : k \in Nat /\ k <= Len(itemList)
      BY <1>0, LenProperties DEF TypeOK
    <3>2. Len(itemList) \in Nat /\ Len(itemList) <= Len(itemList)
      BY <1>0, LenProperties DEF TypeOK
    <3>. QED
      BY <1>2, <3>1, <3>2 DEF GetScriptDispatch, LookupFails
  <2>3. LookedUp(classes')
    BY <1>0, <2>2, VisitedListed, LookupObjects
  <2>. QED
    BY <1>2, <2>1, <2>3 DEF GetScriptDispatch
<1>3. ASSUME NEW t \in Thread, NEW c \in Code, NEW n \in Name \cup {None},
             NEW p \in BOOLEAN, ParseScriptText(t, c, n, p), UNCHANGED codeVars
      PROVE  Goal
  <2>1. site # None /\ UNCHANGED itemList
    BY <1>3 DEF ParseScriptText
  <2>2. Len(itemList) \in Nat /\ Len(itemList) <= Len(itemList)
    BY <1>0, LenProperties DEF TypeOK
  <2>3. CASE LookupFails(n)
    BY <1>0, <2>1, <2>2, <2>3, VisitedListed, LookupObjects DEF LookupFails
  <2>4. ASSUME codeList' = Append(codeList, c)
        PROVE  FALSE
    BY <1>0, <1>3, <2>4, AppendList DEF TypeOK, codeVars
  <2>. QED
    BY <1>3, <2>3, <2>4 DEF ParseScriptText, CompileAndRun
<1>4. CASE UNCHANGED codeVars
  <2>1. ASSUME NEW t \in Thread,
               \/ \E s \in Site : SetScriptSite(t, s)
               \/ ClaimEngine(t) \/ ClaimRefused(t)
               \/ \E i \in Item, n \in Name, f \in FlagSets : AddNamedItem(t, i, n, f)
               \/ \E c \in Code : \/ EvaluateExpression(t, c) \/ ParseProcedureText(t, c)
                                 \/ InvokeEx(t, c)
               \/ \E ss \in Started : Start(t, ss)
               \/ Stop(t) \/ Reset(t) \/ Close(t)
        PROVE  UNCHANGED classes
    BY <2>1 DEF SetScriptSite, ClaimEngine, ClaimRefused, AddNamedItem, EvaluateExpression, ParseProcedureText, InvokeEx,
                Start, Stop, Reset, Close, decrease_state
  <2>2. CASE \/ InitNew \/ FinalRelease \/ RetrieveItemDisp \/ RetrieveItemDispFails
             \/ ExecReturns \/ StartDone \/ UNCHANGED vars
    BY <2>2 DEF InitNew, FinalRelease, decrease_state, RetrieveItemDisp, RetrieveItemDispFails,
                ExecReturns, StartDone, vars
  <2>3. ASSUME NEW c \in Code, ExecuteGlobal(c)
        PROVE  FALSE
    BY <1>0, <1>4, <2>3, AppendList DEF TypeOK, codeVars, ExecuteGlobal
  <2>. QED
    BY <1>2, <1>3, <1>4, <2>1, <2>2, <2>3 DEF Next
<1>. QED
  BY <1>1, <1>4, CodeStep

LEMMA NextObjects ==
  ASSUME IInv, QueueSound, OwnersSound, [Next]_vars
  PROVE  ObjectsOwned' /\ CodeItemsOwned'
<1>. USE EngineAssumption
<1>0. /\ TypeOK /\ codeList \in Seq(Code) /\ itemList \in Seq(Item)
      /\ classes \in [Item \cup {Global} -> Code \cup {NoObject, NoClass}]
      /\ codeItem \in [Code -> Item \cup {None}]
      /\ ObjectsOwned /\ CodeItemsOwned /\ UnlistedIsFresh
  BY DEF IInv, TypeOK, OwnersSound, QueueSound
<1>1. CASE ReleaseScript
  <2>1. ASSUME NEW o \in DOMAIN classes'
        PROVE  classes'[o] = NoObject
    BY <1>0, <1>1, <2>1 DEF ReleaseScript, ObjectsOwned
  <2>2. ASSUME NEW c \in Code, InList(c, codeList')
        PROVE  codeItem'[c] \in ReleasedObjects'
    <3>1. PICK k \in DOMAIN codeList' : codeList'[k] = c
      BY <2>2 DEF InList
    <3>2. persistent[c]
      BY <1>1, <2>2, KeptIsPersistent
    <3>3. persistent'[c]
      BY <1>1, <3>1, <3>2 DEF ReleaseScript
    <3>. QED
      BY <3>1, <3>3 DEF ReleasedObjects, IsPersistent
  <2>. QED
    BY <2>1, <2>2 DEF ObjectsOwned, CodeItemsOwned
<1>2. CASE ~ReleaseScript
  <2>1. \A o \in ReleasedObjects : o \in ReleasedObjects'
    BY <1>2, ListsGrow, ReleasedGrows
  <2>2. /\ Global \in ReleasedObjects'
        /\ \A i : InList(i, itemList) => i \in ReleasedObjects'
    BY <2>1, ReleasedIs
  <2>3. site # None => site' # None
    <3>1. AttachSite => site' # None
      BY TopFrame DEF AttachSite, Running, FrameSound, Top
    <3>. QED
      BY <1>2, <3>1, SiteStep
  <2>4. ASSUME NEW o \in Item \cup {Global}, classes[o] # NoObject
        PROVE  site' # None /\ o \in ReleasedObjects'
    BY <1>0, <2>1, <2>3, <2>4 DEF ObjectsOwned
  <2>5. ASSUME NEW objs, LookedUp(objs), site # None,
               NEW o \in Item \cup {Global}, objs[o] # NoObject
        PROVE  site' # None /\ o \in ReleasedObjects'
    BY <2>2, <2>3, <2>4, <2>5 DEF LookedUp
  <2>6. ASSUME NEW c \in Code, NEW objs, LookedUp(objs), NEW i \in Item \cup {None}, NEW fs,
               site # None, i # None => i \in ReleasedObjects',
               exec_global_code(c, objs, ScriptObj(i), pending, fs)
        PROVE  ObjectsOwned'
    <3>1. ScriptObj(i) \in ReleasedObjects'
      BY <2>2, <2>6 DEF ScriptObj
    <3>2. classes' = [objs EXCEPT ![ScriptObj(i)] = c] /\ DOMAIN objs = Item \cup {Global}
      BY <2>6 DEF exec_global_code, LookedUp
    <3>. QED
      BY <2>3, <2>5, <2>6, <3>1, <3>2 DEF ObjectsOwned
  <2>7. ObjectsOwned'
    <3>1. CASE UNCHANGED classes
      BY <1>0, <2>4, <3>1 DEF ObjectsOwned
    <3>2. CASE LookedUp(classes') /\ site # None
      <4>1. DOMAIN classes' = Item \cup {Global}
        BY <3>2 DEF LookedUp
      <4>. QED
        BY <2>5, <3>2, <4>1 DEF ObjectsOwned
    <3>3. CASE AttachSite
      <4>1. classes' = [classes EXCEPT ![Global] = NoClass] /\ site' # None
        BY <3>3, TopFrame DEF AttachSite, Running, FrameSound, Top
      <4>. QED
        BY <1>0, <2>2, <2>4, <4>1 DEF ObjectsOwned
    <3>4. ASSUME NEW c \in Code, NEW p \in BOOLEAN, NEW i \in Item \cup {None}, Lists(c, p, i),
                 RunsIn(c, i) \/ RunsIn(c, None)
          PROVE  ObjectsOwned'
      <4>1. site # None /\ (i # None => i \in ReleasedObjects')
        BY <2>2, <3>4 DEF Lists
      <4>. QED
        BY <2>6, <3>4, <4>1 DEF RunsIn
    <3>5. CASE RunQueued
      <4>1. PICK k \in DOMAIN codeList :
              /\ codeList[k] \in Code /\ frames # <<>> /\ Top.op = "Start"
              /\ exec_global_code(codeList[k], classes, ScriptObj(codeItem[codeList[k]]), pending,
                                  [frames EXCEPT ![Len(frames)].pos = k + 1])
        BY <3>5, RunsQueued
      <4>2. site # None
        BY <4>1, TopFrame DEF FrameSound, Top
      <4>3. InList(codeList[k], codeList)
        BY DEF InList
      <4>4. /\ codeItem[codeList[k]] \in Item \cup {None}
            /\ codeItem[codeList[k]] # None => codeItem[codeList[k]] \in ReleasedObjects'
        BY <1>0, <2>1, <4>1, <4>3 DEF CodeItemsOwned
      <4>5. LookedUp(classes)
        BY <1>0, LookupObjects
      <4>. QED
        BY <2>6, <4>1, <4>2, <4>4, <4>5
    <3>. QED
      BY <1>0, <1>2, <3>1, <3>2, <3>3, <3>4, <3>5, ObjectStep
  <2>8. CodeItemsOwned'
    <3>1. CASE UNCHANGED <<codeList, codeItem>>
      BY <1>0, <2>1, <3>1 DEF CodeItemsOwned
    <3>2. ASSUME NEW c \in Code, NEW p \in BOOLEAN, NEW i \in Item \cup {None}, ListStep(c, p, i)
          PROVE  CodeItemsOwned'
      <4>1. /\ codeList' = Append(codeList, c) /\ codeItem' = [codeItem EXCEPT ![c] = i]
            /\ i # None => InList(i, itemList)
        BY <3>2 DEF ListStep, Lists
      <4>2. \A d : InList(d, codeList') <=> InList(d, codeList) \/ d = c
        BY <1>0, <4>1, AppendList
      <4>. QED
        BY <1>0, <2>1, <2>2, <4>1, <4>2 DEF CodeItemsOwned
    <3>. QED
      BY <1>0, <1>2, <3>1, <3>2, CodeStep DEF codeVars, RunQueued
  <2>. QED
    BY <2>7, <2>8
<1>. QED
  BY <1>1, <1>2

LEMMA NextDisps ==
  ASSUME IInv, QueueSound, OwnersSound, [Next]_vars
  PROVE  DispsSound'
<1>. USE EngineAssumption
<1>0. /\ TypeOK /\ itemList \in Seq(Item) /\ itemDisp \in [Item -> Site \cup {None}]
      /\ DispsSound /\ SiteHasOwner
      /\ \A d \in DOMAIN frames : frames[d].op = "SetScriptSite" =>
            /\ Len(frames) = 1 /\ frames[d].arg \in Site /\ site = None /\ thread # None
  BY DEF IInv, TypeOK, OwnersSound, FramesSound, FrameSound
<1>1. ASSUME UNCHANGED <<itemList, itemDisp, site, thread>>, AttachesStay
      PROVE  DispsSound'
  BY <1>0, <1>1 DEF DispsSound, DispsFrom, AttachesStay
<1>2. ASSUME NEW t \in Thread, ClaimEngine(t)
      PROVE  DispsSound'
  <2>. DEFINE f == Frame("SetScriptSite", entering[t], 1)
  <2>1. /\ UNCHANGED <<itemList, itemDisp, site>> /\ thread = None /\ thread' # None
        /\ Push(f) /\ entering[t] \in Site
    BY <1>0, <1>2 DEF ClaimEngine, CanClaim, TypeOK, itemVars
  <2>2. Idle /\ site = None
    BY <1>0, <1>2, <2>1 DEF ClaimEngine, IInv, FreeIsIdle, NobodyEnters, SiteHasOwner
  <2>3. f \in Frames
    BY <2>1 DEF Frame, Frames
  <2>4. DOMAIN frames' = {1} /\ frames'[1] = f
    BY <2>1, <2>2, <2>3, FirstFrame
  <2>. HIDE DEF f
  <2>. QED
    BY <1>0, <2>1, <2>2, <2>4 DEF DispsSound, DispsFrom
<1>3. ASSUME NEW t \in Thread, NEW i \in Item, NEW n \in Name, NEW f \in FlagSets,
             AddNamedItem(t, i, n, f)
      PROVE  DispsSound'
  <2>1. /\ site # None /\ UNCHANGED <<site, thread, frames>>
        /\ itemList' = Append(itemList, i)
        /\ itemDisp' = [itemDisp EXCEPT ![i] = IF "GLOBALMEMBERS" \in f THEN site ELSE None]
    BY <1>3 DEF AddNamedItem, engineVars
  <2>2. \A j : InList(j, itemList') <=> InList(j, itemList) \/ j = i
    BY <1>0, <2>1, AppendList
  <2>3. DispsFrom({site})'
    BY <1>0, <2>1, <2>2 DEF DispsSound, DispsFrom
  <2>. QED
    BY <1>0, <2>1, <2>3 DEF DispsSound, SiteHasOwner
<1>4. ASSUME site # None, UNCHANGED <<site, thread, itemList>>, AttachesStay,
             UNCHANGED itemDisp \/ \E i : itemDisp' = DispAfterLookup(i)
      PROVE  DispsSound'
  <2>1. \A j \in Item : itemDisp'[j] = itemDisp[j] \/ itemDisp'[j] = site
    BY <1>0, <1>4 DEF DispAfterLookup
  <2>2. DispsFrom({site})'
    BY <1>0, <1>4, <2>1 DEF DispsSound, DispsFrom
  <2>3. \A d \in DOMAIN frames' : frames'[d].op # "SetScriptSite"
    BY <1>0, <1>4 DEF AttachesStay
  <2>. QED
    BY <1>0, <1>4, <2>2, <2>3 DEF DispsSound, SiteHasOwner
<1>5. CASE AttachesStay
  <2>1. ASSUME NEW t \in Thread, NEW n \in Name, GetScriptDispatch(t, n)
        PROVE  DispsSound'
    <3>1. site # None
      <4>1. Global \in DOMAIN classes /\ classes[Global] # NoObject
        BY <1>0, <2>1 DEF GetScriptDispatch, TypeOK
      <4>. QED
        BY <4>1 DEF OwnersSound, ObjectsOwned
    <3>. QED
      BY <1>4, <1>5, <2>1, <3>1 DEF GetScriptDispatch, engineVars
  <2>2. ASSUME NEW t \in Thread, NEW c \in Code, NEW n \in Name \cup {None},
               NEW p \in BOOLEAN, ParseScriptText(t, c, n, p)
        PROVE  DispsSound'
    BY <1>4, <1>5, <2>2 DEF ParseScriptText, CompileAndRun, engineVars
  <2>3. CASE RetrieveItemDisp \/ AttachSite
    <3>1. PICK a : a = Top.arg
      OBVIOUS
    <3>2. frames # <<>> /\ Top.op = "SetScriptSite"
      BY <2>3 DEF RetrieveItemDisp, AttachSite, Running
    <3>3. Len(frames) \in DOMAIN frames /\ Top = frames[Len(frames)] /\ DOMAIN frames = 1..Len(frames)
      BY <3>2, TopFrame DEF Top
    <3>4. DispsFrom({a}) /\ Len(frames) = 1 /\ a \in Site /\ site = None /\ thread # None
      BY <1>0, <3>1, <3>2, <3>3 DEF DispsSound
    <3>5. UNCHANGED <<thread, itemList>>
      BY <2>3 DEF RetrieveItemDisp, AttachSite, engineVars, itemVars
    <3>6. DispsFrom({a})'
      <4>1. \A j \in Item : itemDisp'[j] = itemDisp[j] \/ itemDisp'[j] = a
        BY <1>0, <2>3, <3>1 DEF RetrieveItemDisp, AttachSite, itemVars
      <4>. QED
        BY <3>4, <3>5, <4>1 DEF DispsFrom
    <3>7. \A d \in DOMAIN frames' : frames'[d].op = "SetScriptSite" => frames'[d].arg = a
      BY <1>5, <3>1, <3>3, <3>4 DEF AttachesStay
    <3>8. site' = None \/ site' = a
      BY <2>3, <3>1, <3>4 DEF RetrieveItemDisp, AttachSite, engineVars
    <3>9. /\ site' # None => DispsFrom({site})'
          /\ \A d \in DOMAIN frames' : frames'[d].op = "SetScriptSite" => DispsFrom({frames[d].arg})'
      BY <3>6, <3>7, <3>8 DEF DispsFrom
    <3>. QED
      BY <3>4, <3>5, <3>9 DEF DispsSound
  <2>4. ASSUME NEW t \in Thread,
               \/ (\E s \in Site : SetScriptSite(t, s)) \/ ClaimRefused(t)
               \/ \E c \in Code : \/ EvaluateExpression(t, c) \/ ParseProcedureText(t, c)
                                 \/ InvokeEx(t, c)
               \/ \E ss \in Started : Start(t, ss)
               \/ Stop(t) \/ Reset(t) \/ Close(t)
        PROVE  DispsSound'
    <3>1. UNCHANGED <<itemList, itemDisp, site, thread>>
      BY <2>4 DEF SetScriptSite, ClaimRefused, EvaluateExpression, ParseProcedureText, InvokeEx,
                  Start, Stop, Reset, Close, decrease_state, engineVars, itemVars
    <3>. QED
      BY <1>1, <1>5, <3>1
  <2>5. CASE \/ InitNew \/ FinalRelease \/ RetrieveItemDispFails \/ (\E c \in Code : ExecuteGlobal(c))
             \/ ExecReturns \/ RunQueued \/ StartDone \/ UNCHANGED vars
    <3>1. UNCHANGED <<itemList, itemDisp, site, thread>>
      BY <2>5 DEF InitNew, FinalRelease, decrease_state, RetrieveItemDispFails, ThreadAfterFailure,
                  ExecuteGlobal, ExecReturns, RunQueued, StartDone, vars, engineVars, itemVars
    <3>. QED
      BY <1>1, <1>5, <3>1
  <2>6. CASE ReleaseScript
    <3>1. \A i : InList(i, itemList') => InList(i, itemList)
      BY <2>6, KeptIsPersistent
    <3>2. itemDisp' = [i \in Item |-> IF InList(i, itemList) THEN None ELSE itemDisp[i]]
      BY <2>6 DEF ReleaseScript, ReleasedDisps
    <3>3. \A i \in Item : InList(i, itemList') => itemDisp'[i] = None
      BY <3>1, <3>2
    <3>. QED
      BY <3>3 DEF DispsSound, DispsFrom
  <2>. QED
    BY <1>2, <1>3, <2>1, <2>2, <2>3, <2>4, <2>5, <2>6 DEF Next
<1>. QED
  BY <1>2, <1>5, NextFrames

\* The invariant of the sessions.
LEMMA SessionInvariance == Spec => []SInv
<1>1. Init => QueueSound
  <2>1. Init => UnlistedIsFresh /\ RanIsNotPending /\ LinkedHasRun
    BY DEF Init, UnlistedIsFresh, RanIsNotPending, LinkedHasRun
  <2>2. Init => CursorsSound /\ NothingQueuedWhenStarted
    BY DEF Init, CursorsSound, NothingQueuedWhenStarted, Started
  <2>. QED
    BY <2>1, <2>2 DEF QueueSound
<1>2. Init => OwnersSound
  <2>1. Init => ObjectsOwned
    BY DEF Init, ObjectsOwned
  <2>2. Init => CodeItemsOwned /\ DispsSound
    BY DEF Init, CodeItemsOwned, DispsSound, DispsFrom, InList
  <2>. QED
    BY <2>1, <2>2 DEF OwnersSound
<1>3. IInv /\ QueueSound /\ OwnersSound /\ [Next]_vars => QueueSound' /\ OwnersSound'
  BY NextQueue, NextObjects, NextDisps DEF OwnersSound
<1>. QED
  BY <1>1, <1>2, <1>3, Invariance, PTL DEF Spec, SInv

-----------------------------------------------------------------------------
(***************************************************************************)
(* Links between class lists                                               *)
(***************************************************************************)

RanCode == {c \in Code : runs[c] > 0}

\* Code is ranked in the order in which it ran: a link goes from code to code that
\* ran before it.
RankSound(rank) ==
  /\ \A c \in Code : runs[c] > 0 => rank[c] < Cardinality(RanCode)
  /\ \A c \in Code : lastNext[c] \in Code =>
       runs[c] > 0 /\ runs[lastNext[c]] > 0 /\ rank[lastNext[c]] < rank[c]

\* A class list begins with code that ran in this session, and no link makes a
\* circle.  ClassListsSound speaks of what can be reached; this part of the
\* inductive invariant speaks of single links.
LinksSound ==
  /\ \A o \in DOMAIN classes : classes[o] \in Code => runs[classes[o]] > 0
  /\ \E rank \in [Code -> Nat] : RankSound(rank)

\* The code that ran is at most all the code there is, and one more after each run.
LEMMA RanCount ==
  /\ IsFiniteSet(RanCode) /\ Cardinality(RanCode) \in Nat
  /\ Cardinality(RanCode) <= Cardinality(Code)
<1>1. RanCode \in SUBSET Code
  BY DEF RanCode
<1>. QED
  BY <1>1, EngineAssumption, FS_Subset, FS_CardinalityType

LEMMA ExecLinks ==
  ASSUME IInv, QueueSound, LinksSound, NEW c \in Code, runs[c] = 0,
         NEW objs, LookedUp(objs), NEW obj \in Item \cup {Global}, NEW fs,
         exec_global_code(c, objs, obj, pending, fs)
  PROVE  LinksSound'
<1>. USE EngineAssumption
<1>0. /\ TypeOK /\ runs \in [Code -> Nat] /\ lastNext \in [Code -> Code \cup {NoClass}]
      /\ classes \in [Item \cup {Global} -> Code \cup {NoObject, NoClass}]
      /\ LinkedHasRun
  BY DEF IInv, TypeOK, QueueSound
<1>1. objs \in [Item \cup {Global} -> Code \cup {NoObject, NoClass}]
  BY DEF LookedUp
<1>2. /\ runs' = [runs EXCEPT ![c] = 1]
      /\ lastNext' = [lastNext EXCEPT ![c] = IF objs[obj] = NoObject THEN NoClass ELSE objs[obj]]
      /\ classes' = [objs EXCEPT ![obj] = c]
  BY ONLY <1>0, <1>1, c \in Code, runs[c] = 0, exec_global_code(c, objs, obj, pending, fs),
     ExecEffects
<1>3. \A o \in Item \cup {Global} : objs[o] \in Code => runs[objs[o]] > 0
  BY <1>0 DEF LookedUp, LinksSound
<1>4. /\ runs'[c] = 1 /\ \A d \in Code : d # c => runs'[d] = runs[d]
      /\ \A d \in Code : d # c => lastNext'[d] = lastNext[d]
      /\ lastNext'[c] \in Code => lastNext'[c] = objs[obj] /\ runs[lastNext'[c]] > 0
  BY <1>0, <1>1, <1>2, <1>3
<1>5. \A o \in DOMAIN classes' : classes'[o] \in Code => runs'[classes'[o]] > 0
  BY <1>0, <1>1, <1>2, <1>3, <1>4
<1>6. Cardinality(RanCode') = Cardinality(RanCode) + 1
  <2>1. RanCode' = RanCode \cup {c} /\ c \notin RanCode
    BY <1>0, <1>4 DEF RanCode
  <2>. QED
    BY <2>1, RanCount, FS_AddElement
<1>7. PICK rank \in [Code -> Nat] : RankSound(rank)
  BY DEF LinksSound
<1>8. PICK n \in Nat : n = Cardinality(RanCode)
  BY RanCount
<1>9. PICK next \in [Code -> Nat] : next[c] = n /\ \A d \in Code : d # c => next[d] = rank[d]
  <2>1. [rank EXCEPT ![c] = n] \in [Code -> Nat]
    BY <1>7, <1>8
  <2>. QED
    BY <1>7, <1>8, <2>1
<1>10. Cardinality(RanCode') = n + 1
  BY <1>6, <1>8
<1>11. \A d \in Code : runs[d] > 0 => rank[d] < n
  BY <1>7, <1>8 DEF RankSound
<1>12. ASSUME NEW d \in Code, runs'[d] > 0
       PROVE  next[d] < n + 1
  <2>1. CASE d = c
    BY <1>8, <1>9, <2>1
  <2>2. CASE d # c
    <3>1. rank[d] < n /\ rank[d] \in Nat
      BY <1>4, <1>7, <1>11, <1>12, <2>2
    <3>. QED
      BY <1>8, <1>9, <2>2, <3>1
  <2>. QED
    BY <2>1, <2>2
<1>13. ASSUME NEW d \in Code, lastNext'[d] \in Code
       PROVE  runs'[d] > 0 /\ runs'[lastNext'[d]] > 0 /\ next[lastNext'[d]] < next[d]
  <2>1. CASE d = c
    <3>1. lastNext'[c] # c /\ runs[lastNext'[c]] > 0 /\ lastNext'[c] \in Code
      BY <1>4, <1>13, <2>1
    <3>. QED
      BY <1>4, <1>9, <1>11, <2>1, <3>1
  <2>2. CASE d # c
    <3>1. /\ lastNext'[d] = lastNext[d] /\ runs[d] > 0 /\ runs[lastNext[d]] > 0
          /\ rank[lastNext[d]] < rank[d]
      BY <1>4, <1>7, <1>13, <2>2 DEF RankSound
    <3>2. lastNext[d] # c
      BY <3>1
    <3>. QED
      BY <1>4, <1>9, <1>13, <2>2, <3>1, <3>2
  <2>. QED
    BY <2>1, <2>2
<1>14. RankSound(next)'
  BY <1>10, <1>12, <1>13 DEF RankSound
<1>. QED
  BY <1>5, <1>9, <1>14 DEF LinksSound

LEMMA NextLinks ==
  ASSUME IInv, QueueSound, OwnersSound, LinksSound, [Next]_vars
  PROVE  LinksSound'
<1>. USE EngineAssumption
<1>0. /\ TypeOK /\ UnlistedIsFresh /\ ObjectsOwned
      /\ classes \in [Item \cup {Global} -> Code \cup {NoObject, NoClass}]
  BY DEF IInv, TypeOK, QueueSound, OwnersSound
<1>1. ASSUME UNCHANGED <<lastNext, runs>>,
             \A o \in DOMAIN classes' : classes'[o] \in Code =>
                o \in DOMAIN classes /\ classes'[o] = classes[o]
      PROVE  LinksSound'
  BY <1>1 DEF LinksSound, RankSound, RanCode
<1>2. ASSUME UNCHANGED <<lastNext, runs>>, LookedUp(classes')
      PROVE  LinksSound'
  BY <1>0, <1>1, <1>2 DEF LookedUp
<1>3. ASSUME NEW c \in Code, NEW p \in BOOLEAN, NEW i \in Item \cup {None}, ListStep(c, p, i)
      PROVE  LinksSound'
  <2>1. runs[c] = 0
    BY <1>3, RunsNew
  <2>2. ScriptObj(i) \in Item \cup {Global} /\ ScriptObj(None) \in Item \cup {Global}
    BY DEF ScriptObj
  <2>3. CASE RunsIn(c, i) \/ RunsIn(c, None)
    BY <2>1, <2>2, <2>3, ExecLinks DEF RunsIn
  <2>4. CASE UNCHANGED <<lastNext, runs, classes>>
    BY <1>1, <2>4
  <2>5. CASE LookedUp(classes') /\ UNCHANGED <<lastNext, runs>>
    BY <1>2, <2>5
  <2>. QED
    BY <1>3, <2>3, <2>4, <2>5 DEF ListStep
<1>4. CASE RunQueued
  <2>1. PICK k \in DOMAIN codeList :
          /\ codeList[k] \in Code /\ pending[codeList[k]]
          /\ exec_global_code(codeList[k], classes, ScriptObj(codeItem[codeList[k]]), pending,
                              [frames EXCEPT ![Len(frames)].pos = k + 1])
    BY <1>4, RunsQueued
  <2>2. runs[codeList[k]] = 0
    BY <2>1, QueuedIsNew
  <2>3. ScriptObj(codeItem[codeList[k]]) \in Item \cup {Global}
    BY <1>0, <2>1 DEF ScriptObj, TypeOK
  <2>4. LookedUp(classes)
    BY <1>0, LookupObjects
  <2>. QED
    BY <2>1, <2>2, <2>3, <2>4, ExecLinks
<1>5. CASE ReleaseScript
  <2>1. /\ \A c \in Code : runs'[c] = 0 /\ lastNext'[c] = NoClass
    <3>1. \A c \in Code : InList(c, codeList') => persistent[c]
      BY <1>5, KeptIsPersistent
    <3>2. \A c \in Code : InList(c, codeList') <=> c \in {codeList'[k] : k \in DOMAIN codeList'}
      BY DEF InList
    <3>. QED
      BY <1>5, <3>1, <3>2 DEF ReleaseScript, NextAfterRelease, IsPersistent
  <2>2. \A o \in DOMAIN classes' : classes'[o] = NoObject
    BY <1>0, <1>5 DEF ReleaseScript, ObjectsOwned
  <2>3. [c \in Code |-> 0] \in [Code -> Nat] /\ RankSound([c \in Code |-> 0])'
    BY <2>1 DEF RankSound
  <2>. QED
    BY <2>2, <2>3 DEF LinksSound
<1>6. CASE UNCHANGED codeVars
  <2>1. UNCHANGED <<lastNext, runs>>
    BY <1>6 DEF codeVars
  <2>2. CASE UNCHANGED classes
    BY <1>1, <2>1, <2>2
  <2>3. CASE LookedUp(classes')
    BY <1>2, <2>1, <2>3
  <2>4. CASE AttachSite
    BY <1>0, <1>1, <2>1, <2>4 DEF AttachSite
  <2>5. ASSUME NEW c \in Code, NEW p, NEW i, Lists(c, p, i)
        PROVE  FALSE
    BY <1>0, <1>6, <2>5, AppendList DEF Lists, TypeOK, codeVars
  <2>. QED
    BY <1>0, <1>4, <1>5, <2>2, <2>3, <2>4, <2>5, ObjectStep
<1>. QED
  BY <1>0, <1>3, <1>4, <1>5, <1>6, CodeStep

LEMMA LinksInvariance == Spec => []LinksSound
<1>1. Init => LinksSound
  <2>1. ASSUME Init
        PROVE  RankSound([c \in Code |-> 0]) /\ [c \in Code |-> 0] \in [Code -> Nat]
    BY <2>1, EngineAssumption DEF Init, RankSound
  <2>2. ASSUME Init
        PROVE  \A o \in DOMAIN classes : classes[o] \notin Code
    BY <2>2, EngineAssumption DEF Init
  <2>. QED
    BY <2>1, <2>2 DEF LinksSound
<1>2. SInv /\ LinksSound /\ [Next]_vars => LinksSound'
  BY NextLinks DEF SInv
<1>. QED
  BY <1>1, <1>2, SessionInvariance, PTL DEF Spec

-----------------------------------------------------------------------------
(***************************************************************************)
(* Theorems                                                                *)
(***************************************************************************)

\* No code of a started engine is left waiting for the start, whatever the
\* scripts that a start runs queue, and however starts are nested.
THEOREM NothingQueuedWhenStartedAlways == Spec => []NothingQueuedWhenStarted
BY SessionInvariance, PTL DEF SInv, QueueSound

\* Queued code runs at most once in a session.
THEOREM RunsOncePerSessionAlways == Spec => []RunsOncePerSession
<1>1. SInv => RunsOncePerSession
  <2>1. ASSUME SInv, NEW c \in Code
        PROVE  runs[c] \in Nat
    BY <2>1 DEF SInv, IInv, TypeOK
  <2>2. ASSUME SInv, NEW c \in Code
        PROVE  runs[c] > 0 => runs[c] = 1
    BY <2>2 DEF SInv, QueueSound, RanIsNotPending
  <2>3. ASSUME SInv, NEW c \in Code
        PROVE  runs[c] <= 1
    BY <2>1, <2>2, <2>3
  <2>. QED
    BY <2>3 DEF RunsOncePerSession
<1>. QED
  BY <1>1, SessionInvariance, PTL

\* A named item is bound to the site of the session there is, and after the last
\* session nothing keeps an object or a dispatch.
THEOREM ItemsBoundToSessionAlways == Spec => []ItemsBoundToSession
<1>1. SInv => DispFromAttachedSite
  <2>1. ASSUME SInv, NEW k \in DOMAIN itemList
        PROVE  itemList[k] \in Item /\ InList(itemList[k], itemList)
    BY <2>1, ElementOfSeq, LenProperties DEF SInv, IInv, TypeOK, InList
  <2>. QED
    BY <2>1 DEF SInv, OwnersSound, DispsSound, DispsFrom, DispFromAttachedSite
<1>2. SInv => NothingOutlivesSession
  <2>1. ASSUME SInv, NEW k \in DOMAIN itemList
        PROVE  itemList[k] \in Item /\ InList(itemList[k], itemList)
    BY <2>1, ElementOfSeq, LenProperties DEF SInv, IInv, TypeOK, InList
  <2>. QED
    BY <2>1 DEF SInv, OwnersSound, ObjectsOwned, DispsSound, DispsFrom, NothingOutlivesSession
<1>. QED
  BY <1>1, <1>2, SessionInvariance, PTL DEF ItemsBoundToSession

\* A class that a lookup can reach belongs to code that is listed and has run, and
\* every class list has an end.
THEOREM ClassListsSoundAlways == Spec => []ClassListsSound
<1>1. ASSUME SInv, LinksSound
      PROVE  ClassListsSound
  <2>. USE EngineAssumption
  <2>0. /\ codeList \in Seq(Code) /\ lastNext \in [Code -> Code \cup {NoClass}]
        /\ runs \in [Code -> Nat]
        /\ UnlistedIsFresh /\ RanIsNotPending /\ LinkedHasRun
    BY <1>1 DEF SInv, IInv, TypeOK, QueueSound
  <2>1. PICK rank \in [Code -> Nat] : RankSound(rank)
    BY <1>1 DEF LinksSound
  <2>2. ASSUME NEW o \in DOMAIN classes, classes[o] \in Code
        PROVE  /\ \A c \in ChainFrom(classes[o]) : InList(c, codeList) /\ ~pending[c]
               /\ \E c \in ChainFrom(classes[o]) : lastNext[c] = NoClass
    <3>1. classes[o] \in RanCode
      BY <1>1, <2>2 DEF LinksSound, RanCode
    <3>2. \A d \in RanCode : lastNext[d] \in RanCode \cup {NoClass}
      BY <2>0, <2>1 DEF RankSound, RanCode
    <3>3. ChainFrom(classes[o]) \subseteq RanCode
      BY <3>1, <3>2, ChainClosed
    <3>4. \A c \in RanCode : InList(c, codeList) /\ ~pending[c]
      BY <2>0 DEF RanCode, UnlistedIsFresh, RanIsNotPending
    <3>5. rank[classes[o]] < Cardinality(Code)
      <4>1. rank[classes[o]] < Cardinality(RanCode) /\ rank[classes[o]] \in Nat
        BY <2>1, <2>2, <3>1 DEF RankSound, RanCode
      <4>2. Cardinality(Code) \in Nat
        BY FS_CardinalityType
      <4>. QED
        BY <4>1, <4>2, RanCount
    <3>6. \E c \in ChainFrom(classes[o]) : lastNext[c] = NoClass
      BY <2>0, <2>1, <2>2, <3>5, ChainEnds DEF RankSound
    <3>. QED
      BY <3>3, <3>4, <3>6
  <2>3. ASSUME NEW k \in DOMAIN codeList, pending[codeList[k]]
        PROVE  lastNext[codeList[k]] = NoClass
    <3>1. codeList[k] \in Code
      BY <2>0, ElementOfSeq, LenProperties
    <3>. QED
      BY <2>0, <2>3, <3>1 DEF RanIsNotPending, LinkedHasRun
  <2>. QED
    BY <2>2, <2>3 DEF ClassListsSound
<1>. QED
  BY <1>1, SessionInvariance, LinksInvariance, PTL

\* Persistent code leaves the list only when the engine is closed.
THEOREM PersistentCodeStaysEver == Spec => PersistentCodeStays
<1>1. ASSUME SInv, [Next]_vars, NEW c \in Code, persistent[c], InList(c, codeList),
             ~InList(c, codeList')
      PROVE  state = "CLOSED"
  <2>1. IInv /\ QueueSound
    BY <1>1 DEF SInv
  <2>2. ReleaseScript
    BY <1>1, <2>1, ListsGrow
  <2>. QED
    BY <1>1, <2>1, <2>2, KeptIsPersistent
<1>2. SInv /\ [Next]_vars =>
        [\A c \in Code : persistent[c] /\ InList(c, codeList) /\ ~InList(c, codeList')
            => state = "CLOSED"]_vars
  BY <1>1
<1>. QED
  BY <1>2, SessionInvariance, PTL DEF Spec, PersistentCodeStays
=============================================================================
