---------------------------- MODULE ScriptEngine ----------------------------
(***************************************************************************)
(* The IActiveScript engine object of vbscript.c: its state, the thread    *)
(* that claimed it, the site it is attached to, its named items, the list  *)
(* of compiled code and the class lists of its script objects.             *)
(*                                                                         *)
(* The engine takes no lock.  thread_id is the only guard between threads: *)
(* SetScriptSite claims it for its own, after a look at the site that may  *)
(* be out of date by then (entering).  On the claiming thread the host is  *)
(* called back in the middle of an operation (GetItemInfo, OnEnterScript,  *)
(* any object a script uses), so a call may arrive while another one is in *)
(* progress.  frames is the stack of the operations in progress; an        *)
(* operation that calls the host back is split at that point and           *)
(* everything else is one step.                                            *)
(***************************************************************************)
EXTENDS Naturals, Sequences, FiniteSets

CONSTANTS
  Thread,       \* the host's threads
  Site,         \* IActiveScriptSite implementations
  Code,         \* identities of vbscode_t records
  Item,         \* identities of named_item_t records
  Name,         \* names of named items
  Global,       \* the engine's own script object, ctx->script_obj
  None,         \* the null pointer, and thread_id 0
  FlagSets,     \* the flag sets the host passes to AddNamedItem
  MaxDepth,     \* bound: operations in progress at once
  MaxClaims     \* bound: calls of SetScriptSite that claim the engine

(***************************************************************************)
(* A script object is absent, or its class list is empty, or its class     *)
(* list begins with the classes of some code.                              *)
(***************************************************************************)
NoObject == "no object"
NoClass  == "no class"

ASSUME EngineAssumption ==
  /\ IsFiniteSet(Code)
  /\ MaxDepth \in Nat \ {0}
  /\ MaxClaims \in Nat
  /\ None \notin Thread \cup Site \cup Code \cup Item \cup Name
  /\ Global \notin Item \cup {None}
  /\ {NoObject, NoClass} \cap Code = {}
  /\ FlagSets \subseteq SUBSET {"GLOBALMEMBERS", "CODEONLY", "ISPERSISTENT"}

VARIABLES
  state,        \* This->state
  site,         \* ctx->site
  thread,       \* This->thread_id
  isInit,       \* This->is_initialized
  ref,          \* the host still holds a reference
  entering,     \* the site of a thread in SetScriptSite that saw none attached
  codeList,     \* ctx->code_list
  persistent,   \* code->is_persistent
  pending,      \* code->pending_exec
  codeItem,     \* code->named_item
  lastNext,     \* code->last_class->next: the code whose classes follow
  itemList,     \* ctx->named_items
  itemName,     \* item->name
  itemFlags,    \* item->flags
  itemDisp,     \* item->disp: the site it was retrieved from
  classes,      \* script_obj->classes of the engine and of each item
  frames,       \* operations in progress, innermost last
  claims,       \* number of claims so far
  runs          \* history: queued runs of a code since its session began

engineVars == <<state, site, thread, isInit, ref, entering>>
codeVars   == <<codeList, persistent, pending, codeItem, lastNext, runs>>
itemVars   == <<itemList, itemName, itemFlags, itemDisp>>
vars == <<engineVars, codeVars, itemVars, classes, frames, claims>>

States  == {"UNINITIALIZED", "INITIALIZED", "STARTED", "CONNECTED", "CLOSED"}
Started == {"STARTED", "CONNECTED"}

\* Mutant of is_started: one of the started states is forgotten.
is_startedOnly == state = "STARTED"

is_started == state \in Started

InList(x, s) == \E i \in DOMAIN s : s[i] = x

\* The list s after the entries at positions outside K were unlinked.  (It is
\* SelectSeq, written without recursion so that it can be reasoned about.)
Rank(K, k) == Cardinality({j \in K : j <= k})
Unlinked(s, K) ==
  [n \in 1..Cardinality(K) |-> s[CHOOSE k \in K : Rank(K, k) = n]]

Frame(op, arg, pos) == [op |-> op, arg |-> arg, pos |-> pos]
Idle == frames = <<>>
Top  == frames[Len(frames)]
Running(op) == frames # <<>> /\ Top.op = op
InProgress(op) == \E i \in DOMAIN frames : frames[i].op = op
Push(f) == frames' = Append(frames, f)
Pop     == frames' = SubSeq(frames, 1, Len(frames) - 1)
Advance(p) == frames' = [frames EXCEPT ![Len(frames)].pos = p]

(***************************************************************************)
(* What the host does.  Calls on an engine no thread has claimed are       *)
(* serialised by the host, all but SetScriptSite, which threads may race   *)
(* for; from a callback the host calls back on the same thread.  It does   *)
(* not tear the engine down from inside a callback, or close it while a    *)
(* thread is in SetScriptSite, and after a failed SetScriptSite it only    *)
(* resets or closes the engine: the code guards none of these (README,     *)
(* "What the host must not do").                                           *)
(***************************************************************************)
OuterCall == ref /\ Idle
NestedCall(t, ops) ==
  /\ ref
  /\ frames # <<>> /\ Top.op \in ops
  /\ thread = t
  /\ Len(frames) < MaxDepth
HostCall(t, ops) == OuterCall \/ NestedCall(t, ops)
NobodyEnters == \A t \in Thread : entering[t] = None

Init ==
  /\ state = "UNINITIALIZED"
  /\ site = None
  /\ thread = None
  /\ isInit = FALSE
  /\ ref = TRUE
  /\ entering = [t \in Thread |-> None]
  /\ codeList = <<>>
  /\ persistent = [c \in Code |-> FALSE]
  /\ pending = [c \in Code |-> FALSE]
  /\ codeItem = [c \in Code |-> None]
  /\ lastNext = [c \in Code |-> NoClass]
  /\ itemList = <<>>
  /\ itemName = [i \in Item |-> None]
  /\ itemFlags = [i \in Item |-> {}]
  /\ itemDisp = [i \in Item |-> None]
  /\ classes = [o \in Item \cup {Global} |-> NoObject]
  /\ frames = <<>>
  /\ claims = 0
  /\ runs = [c \in Code |-> 0]

-----------------------------------------------------------------------------
(***************************************************************************)
(* Attaching a site                                                        *)
(***************************************************************************)

\* SetScriptSite looks whether a site is attached; another thread may own the
\* engine already, and be at work.
SetScriptSite(t, s) ==
  /\ ref
  /\ entering[t] = None
  /\ claims < MaxClaims
  /\ thread # t
  /\ thread = None => Idle
  /\ ~(InProgress("Release") /\ state = "CLOSED")
  /\ site = None
  /\ entering' = [entering EXCEPT ![t] = s]
  /\ UNCHANGED <<state, site, thread, isInit, ref, codeVars, itemVars, classes, frames, claims>>

\* Mutant of CanClaim: thread_id is set without the comparison.
CanClaimUnchecked == TRUE

\* InterlockedCompareExchange(&This->thread_id, GetCurrentThreadId(), 0).
CanClaim == thread = None

\* It then claims the engine for its thread, before anything else and without
\* another look at the site; the loop over the named items calls the host.
ClaimEngine(t) ==
  /\ entering[t] # None
  /\ claims < MaxClaims
  /\ CanClaim
  /\ thread' = t
  /\ claims' = claims + 1
  /\ Push(Frame("SetScriptSite", entering[t], 1))
  /\ UNCHANGED <<state, site, isInit, ref, entering, codeVars, itemVars, classes>>

\* SetScriptSite on a thread is over.
Leaves(t) == entering' = [entering EXCEPT ![t] = None]

\* Another thread was first.
ClaimRefused(t) ==
  /\ entering[t] # None
  /\ thread \notin {None, t}
  /\ Leaves(t)
  /\ UNCHANGED <<state, site, thread, isInit, ref, codeVars, itemVars, classes, frames, claims>>

\* Mutant of NextItem: the loop does not move on.
NextItemSame(p) == p

NextItem(p) == p + 1

\* One turn of the loop that retrieves the dispatch of a named item that was
\* kept from an earlier session; CODEONLY is dropped from the item.
RetrieveItemDisp ==
  /\ Running("SetScriptSite")
  /\ Top.pos \in DOMAIN itemList
  /\ LET i == itemList[Top.pos] IN
       /\ itemDisp' = [itemDisp EXCEPT ![i] = IF @ = None THEN Top.arg ELSE @]
       /\ itemFlags' = [itemFlags EXCEPT ![i] = @ \ {"CODEONLY"}]
  /\ Advance(NextItem(Top.pos))
  /\ UNCHANGED <<engineVars, codeVars, itemList, itemName, classes, claims>>

\* Mutant of ThreadAfterFailure: the claim is given back.
ThreadAfterFailureReset == None

\* A failed retrieval leaves the claim in place.
ThreadAfterFailure == thread

\* GetItemInfo fails, or the object is not an IDispatch: SetScriptSite
\* returns at once.
RetrieveItemDispFails ==
  /\ Running("SetScriptSite")
  /\ Top.pos \in DOMAIN itemList
  /\ itemDisp[itemList[Top.pos]] = None
  /\ thread' = ThreadAfterFailure
  /\ Leaves(thread)
  /\ Pop
  /\ UNCHANGED <<state, site, isInit, ref, codeVars, itemVars, classes, claims>>

\* Mutant of StateOnAttach: InitNew is not waited for.
StateOnAttachAlways == "INITIALIZED"

StateOnAttach == IF isInit THEN "INITIALIZED" ELSE state

AttachSite ==
  /\ Running("SetScriptSite")
  /\ Top.pos \notin DOMAIN itemList
  /\ classes' = [classes EXCEPT ![Global] = NoClass]
  /\ site' = Top.arg
  /\ state' = StateOnAttach
  /\ Leaves(thread)
  /\ Pop
  /\ UNCHANGED <<thread, isInit, ref, codeVars, itemVars, claims>>

\* InitNew checks no thread.
InitNew ==
  /\ ref
  /\ ~InProgress("Release")
  /\ ~isInit
  /\ isInit' = TRUE
  /\ state' = IF site # None THEN "INITIALIZED" ELSE state
  /\ UNCHANGED <<site, thread, ref, entering, codeVars, itemVars, classes, frames, claims>>

-----------------------------------------------------------------------------
(***************************************************************************)
(* Named items                                                             *)
(***************************************************************************)

\* A named_item_t exists while it is listed or some code refers to it.
UsedItems == {itemList[k] : k \in DOMAIN itemList}
             \cup {codeItem[codeList[k]] : k \in DOMAIN codeList}

AddNamedItem(t, i, n, flags) ==
  /\ HostCall(t, {"Exec", "Release"})
  /\ thread = t
  /\ site # None
  /\ i \notin UsedItems
  /\ itemList' = Append(itemList, i)
  /\ itemName' = [itemName EXCEPT ![i] = n]
  /\ itemFlags' = [itemFlags EXCEPT ![i] = flags]
  /\ itemDisp' = [itemDisp EXCEPT ![i] =
                    IF "GLOBALMEMBERS" \in flags THEN site ELSE None]
  /\ UNCHANGED <<engineVars, codeVars, classes, frames, claims>>

\* The items lookup_named_item visits for a name, up to position k of the list.
Visited(n, k) == {itemList[j] : j \in {j \in 1..k : itemName[itemList[j]] = n}}
NeedsDisp(i) == itemDisp[i] = None /\ "CODEONLY" \notin itemFlags[i]

\* Mutant of CreateObjects: the object is left a null pointer.
CreateObjectsNull(S) ==
  [o \in DOMAIN classes |-> IF o \in S THEN None ELSE classes[o]]

\* Every visited item without GLOBALMEMBERS gets a script object.
CreateObjects(S) ==
  [o \in DOMAIN classes |->
     IF o \in S /\ classes[o] = NoObject /\ "GLOBALMEMBERS" \notin itemFlags[o]
     THEN NoClass ELSE classes[o]]

\* lookup_named_item(ctx, n, 0): an item whose dispatch cannot be retrieved is
\* passed over, so the k-th listed item is the answer when the earlier ones of
\* that name all failed.
LookupFinds(n, k) ==
  /\ k \in DOMAIN itemList
  /\ itemName[itemList[k]] = n
  /\ \A i \in Visited(n, k - 1) : NeedsDisp(i)

DispAfterLookup(i) ==
  [itemDisp EXCEPT ![i] = IF NeedsDisp(i) THEN site ELSE @]

\* No item of that name has a dispatch to offer; the items visited keep the
\* script objects they were given.
LookupFails(n) ==
  /\ \A i \in Visited(n, Len(itemList)) : NeedsDisp(i)
  /\ classes' = CreateObjects(Visited(n, Len(itemList)))

\* GetScriptDispatch with an item name.  (Without one it changes nothing.)
GetScriptDispatch(t, n) ==
  /\ HostCall(t, {"Exec", "Release"})
  /\ thread = t
  /\ classes[Global] # NoObject
  /\ \/ \E k \in DOMAIN itemList :
          /\ LookupFinds(n, k)
          /\ classes' = CreateObjects(Visited(n, k))
          /\ itemDisp' = DispAfterLookup(itemList[k])
     \/ LookupFails(n) /\ UNCHANGED itemDisp
  /\ UNCHANGED <<engineVars, codeVars, itemList, itemName, itemFlags, frames, claims>>

-----------------------------------------------------------------------------
(***************************************************************************)
(* Compiling and running code                                              *)
(***************************************************************************)

\* The script object that code of a named item, or of none, runs in.
ScriptObj(i) == IF i = None THEN Global ELSE i

\* Mutant of PendingOnEntry: the flag is left for the code to clear.
PendingOnEntryKept(flags, c) == flags

\* exec_global_code clears pending_exec before it runs the code.
PendingOnEntry(flags, c) == [flags EXCEPT ![c] = FALSE]

\* The code whose classes are reached from the classes of code c.
ChainFrom(c) ==
  LET n == Cardinality(Code)
      chain[k \in 0..n] ==
        IF k = 0 THEN {c}
        ELSE chain[k - 1] \cup ({lastNext[d] : d \in chain[k - 1]} \ {NoClass})
  IN chain[n]

\* exec_global_code walks from the code's classes to the end of the list they
\* are in; the class it finds there is the one it links to.
ClassEnd(c) == CHOOSE d \in ChainFrom(c) : lastNext[d] = NoClass

\* exec_global_code up to the call of exec_script, for code that declares a
\* class: the classes are put in front of the list of the script object
\* (created if there is none).
exec_global_code(c, objs, obj, flags, fs) ==
  /\ classes' = [objs EXCEPT ![obj] = c]
  /\ lastNext' = [lastNext EXCEPT ![ClassEnd(c)] =
                    IF objs[obj] = NoObject THEN NoClass ELSE objs[obj]]
  /\ pending' = PendingOnEntry(flags, c)
  /\ runs' = [runs EXCEPT ![c] = @ + 1]
  /\ frames' = Append(fs, Frame("Exec", c, 0))

\* The script returns; a failure was reported to the site.
ExecReturns ==
  /\ Running("Exec")
  /\ Pop
  /\ UNCHANGED <<engineVars, codeVars, itemVars, classes, claims>>

\* A vbscode_t can be allocated: no list and no operation refers to it.
FreeCode(c) == ~InList(c, codeList) /\ \A k \in DOMAIN frames : frames[k].arg # c

\* compile_script appends the code to the list; ParseScriptText then queues it
\* until the engine is started, or runs it.  objs and disps are the effect of
\* looking the item up.
CompileAndRun(c, i, persist, objs, disps) ==
  LET run == is_started
      item == IF i # None /\ objs[i] = NoObject THEN None ELSE i
  IN
  /\ codeList' = Append(codeList, c)
  /\ persistent' = [persistent EXCEPT ![c] = persist]
  /\ codeItem' = [codeItem EXCEPT ![c] = item]
  /\ itemDisp' = disps
  /\ IF run
     THEN exec_global_code(c, objs, ScriptObj(item), pending, frames)
     ELSE /\ pending' = [pending EXCEPT ![c] = TRUE]
          /\ classes' = objs
          /\ UNCHANGED <<lastNext, runs, frames>>

ParseScriptText(t, c, n, persist) ==
  /\ HostCall(t, {"Exec", "Release"})
  /\ Len(frames) < MaxDepth
  /\ thread = t
  /\ site # None
  /\ state # "CLOSED"
  /\ FreeCode(c)
  /\ \/ /\ n = None
        /\ CompileAndRun(c, None, persist, classes, itemDisp)
     \/ \E k \in DOMAIN itemList :
          /\ LookupFinds(n, k)
          /\ CompileAndRun(c, itemList[k], persist, CreateObjects(Visited(n, k)),
                           DispAfterLookup(itemList[k]))
     \/ /\ n # None
        /\ LookupFails(n)
        /\ UNCHANGED <<codeVars, itemDisp, frames>>
  /\ UNCHANGED <<engineVars, itemList, itemName, itemFlags, claims>>

\* ParseProcedureText: the code stays in the list and is never run from it.
ParseProcedureText(t, c) ==
  /\ HostCall(t, {"Exec", "Release"})
  /\ thread = t
  /\ site # None
  /\ state # "CLOSED"
  /\ FreeCode(c)
  /\ codeList' = Append(codeList, c)
  /\ UNCHANGED <<engineVars, persistent, pending, codeItem, lastNext, runs,
                 itemVars, classes, frames, claims>>

\* A running script calls ExecuteGlobal, or Execute outside a procedure: the
\* code runs at once in the engine's own script object.
ExecuteGlobal(c) ==
  /\ Running("Exec")
  /\ Len(frames) < MaxDepth
  /\ FreeCode(c)
  /\ codeList' = Append(codeList, c)
  /\ exec_global_code(c, classes, Global, pending, frames)
  /\ UNCHANGED <<engineVars, persistent, codeItem, itemVars, claims>>

\* ParseScriptText of an expression (SCRIPTTEXT_ISEXPRESSION), or Eval: it runs at once,
\* started or not, declares nothing and stays in the code list.
EvaluateExpression(t, c) ==
  /\ HostCall(t, {"Exec", "Release"})
  /\ Len(frames) < MaxDepth
  /\ thread = t
  /\ site # None
  /\ state # "CLOSED"
  /\ FreeCode(c)
  /\ codeList' = Append(codeList, c)
  /\ Push(Frame("Exec", c, 0))
  /\ UNCHANGED <<engineVars, persistent, pending, codeItem, lastNext, runs,
                 itemVars, classes, claims>>

\* A dispatch of a script object answers until the object is dropped, and it
\* knows the procedures of the code that has run in it in this session (an
\* object of an earlier one is gone: NothingOutlivesSession).
HasProcedures(c) == runs[c] > 0 /\ classes[ScriptObj(codeItem[c])] # NoObject

\* ScriptDisp_InvokeEx with the DISPID of a procedure: it runs at once, also
\* when the engine is stopped, and while another script or a terminator runs.
\* There is no thread check; the host calls on the engine's thread.
InvokeEx(t, c) ==
  /\ HostCall(t, {"Exec", "Release"})
  /\ Len(frames) < MaxDepth
  /\ thread = t
  /\ HasProcedures(c)
  /\ Push(Frame("Exec", c, 0))
  /\ UNCHANGED <<engineVars, codeVars, itemVars, classes, claims>>

-----------------------------------------------------------------------------
(***************************************************************************)
(* State changes                                                           *)
(***************************************************************************)

\* SetScriptState(STARTED or CONNECTED) walks the code list first.
Start(t, ss) ==
  /\ HostCall(t, {"Exec"})
  /\ Len(frames) < MaxDepth
  /\ ~InProgress("Release")
  /\ thread \in {None, t}
  /\ isInit
  /\ site # None
  /\ state # "CLOSED"
  /\ Push(Frame("Start", ss, 1))
  /\ UNCHANGED <<engineVars, codeVars, itemVars, classes, claims>>

\* The pending code at or after a position of the live list.
PendingFrom(p) == {k \in DOMAIN codeList : k >= p /\ pending[codeList[k]]}

\* exec_queued_code: run the next pending code.
RunQueued ==
  /\ Running("Start")
  /\ PendingFrom(Top.pos) # {}
  /\ LET k == CHOOSE k \in PendingFrom(Top.pos) :
                \A j \in PendingFrom(Top.pos) : k <= j
         c == codeList[k]
     IN exec_global_code(c, classes, ScriptObj(codeItem[c]), pending,
                         [frames EXCEPT ![Len(frames)].pos = k + 1])
  /\ UNCHANGED <<engineVars, codeList, persistent, codeItem, itemVars, claims>>

\* The list is at its end: change_state.
StartDone ==
  /\ Running("Start")
  /\ PendingFrom(Top.pos) = {}
  /\ state' = Top.arg
  /\ Pop
  /\ UNCHANGED <<site, thread, isInit, ref, entering, codeVars, itemVars, classes, claims>>

\* decrease_state breaks off before release_script for INITIALIZED.
ReleasesSession(target) == target # "INITIALIZED"

\* decrease_state: the site is told of the new state; then, unless the target
\* is INITIALIZED, release_script begins with collect_objects, which runs the
\* terminators of the remaining objects.
decrease_state(target) ==
  /\ state' = target
  /\ IF ReleasesSession(target)
     THEN Push(Frame("Release", target, 0))
     ELSE UNCHANGED frames
  /\ UNCHANGED <<site, thread, isInit, entering, codeVars, itemVars, classes, claims>>

\* SetScriptState(INITIALIZED).
Stop(t) ==
  /\ HostCall(t, {"Exec"})
  /\ ~InProgress("Release")
  /\ thread \in {None, t}
  /\ isInit
  /\ site # None
  /\ state # "CLOSED"
  /\ decrease_state("INITIALIZED")
  /\ UNCHANGED ref

\* SetScriptState(UNINITIALIZED), which needs no InitNew and no site.
Reset(t) ==
  /\ OuterCall
  /\ thread = t \/ (thread = None /\ NobodyEnters)
  /\ state # "CLOSED"
  /\ decrease_state("UNINITIALIZED")
  /\ UNCHANGED ref

\* Close; SetScriptState(CLOSED) does the same after InitNew.
Close(t) ==
  /\ OuterCall /\ NobodyEnters
  /\ thread \in {None, t}
  /\ state # "CLOSED"
  /\ decrease_state("CLOSED")
  /\ UNCHANGED ref

\* The last Release, from any thread.
FinalRelease ==
  /\ OuterCall /\ NobodyEnters
  /\ ref' = FALSE
  /\ IF state = "CLOSED"
     THEN UNCHANGED <<state, site, thread, isInit, entering, codeVars, itemVars, classes,
                      frames, claims>>
     ELSE decrease_state("CLOSED")

IsPersistent(c) == persistent[c]
KeepsItem(i) == "ISPERSISTENT" \in itemFlags[i]

\* Mutant of RequeuedCode: code that ran is not queued again.
RequeuedCodeNone(c) == pending[c]

\* Persistent code is queued again for the next session.
RequeuedCode(c) == IF IsPersistent(c) THEN TRUE ELSE pending[c]

\* Mutant of NextAfterRelease: the class list of persistent code stays linked.
NextAfterReleaseLinked(c) == lastNext[c]

\* last_class->next of persistent code is cut.
NextAfterRelease(c) == IF IsPersistent(c) THEN NoClass ELSE lastNext[c]

\* Mutant of ReleasedObjects: only the script objects of listed items go.
ReleasedObjectsListed == {Global} \cup {itemList[k] : k \in DOMAIN itemList}

\* The script objects release_script drops: those of the listed items, of the
\* items persistent code refers to (an item that is no longer listed among
\* them), and the engine's own.
ReleasedObjects ==
  {Global} \cup {itemList[k] : k \in DOMAIN itemList}
  \cup {codeItem[codeList[k]] : k \in {k \in DOMAIN codeList : IsPersistent(codeList[k])}}

\* Mutant of ReleasedDisps: a persistent item keeps its dispatch.
ReleasedDispsTransient == {i \in Item : InList(i, itemList) /\ ~KeepsItem(i)}

ReleasedDisps == {i \in Item : InList(i, itemList)}

SiteAfterRelease == None

\* Mutant of KeptCode: release_code_list runs for every target.
KeptCodeNone(target) == <<>>

\* The code that stays in the list: none when the engine is closed.
KeptCode(target) ==
  IF target = "CLOSED" THEN <<>>
  ELSE Unlinked(codeList, {k \in DOMAIN codeList : IsPersistent(codeList[k])})

KeptItems(target) ==
  IF target = "CLOSED" THEN <<>>
  ELSE Unlinked(itemList, {k \in DOMAIN itemList : KeepsItem(itemList[k])})

\* release_script after collect_objects, and the rest of decrease_state.
ReleaseScript ==
  /\ Running("Release")
  /\ codeList' = KeptCode(Top.arg)
  /\ itemList' = KeptItems(Top.arg)
  /\ LET kept == {codeList'[k] : k \in DOMAIN codeList'} IN
       /\ pending' = [c \in Code |-> c \in kept /\ RequeuedCode(c)]
       /\ persistent' = [c \in Code |-> c \in kept /\ persistent[c]]
       /\ codeItem' = [c \in Code |-> IF c \in kept THEN codeItem[c] ELSE None]
       /\ lastNext' = [c \in Code |-> IF c \in kept THEN NextAfterRelease(c) ELSE NoClass]
       /\ runs' = [c \in Code |-> 0]
  /\ classes' = [o \in DOMAIN classes |->
                   IF o \in ReleasedObjects THEN NoObject ELSE classes[o]]
  /\ itemDisp' = [i \in Item |-> IF i \in ReleasedDisps THEN None ELSE itemDisp[i]]
  /\ site' = SiteAfterRelease
  /\ thread' = None
  /\ Pop
  /\ UNCHANGED <<state, isInit, ref, entering, itemName, itemFlags, claims>>

Next ==
  \/ \E t \in Thread :
       \/ \E s \in Site : SetScriptSite(t, s)
       \/ ClaimEngine(t) \/ ClaimRefused(t)
       \/ \E i \in Item, n \in Name, f \in FlagSets : AddNamedItem(t, i, n, f)
       \/ \E n \in Name : GetScriptDispatch(t, n)
       \/ \E c \in Code, n \in Name \cup {None}, p \in BOOLEAN : ParseScriptText(t, c, n, p)
       \/ \E c \in Code : EvaluateExpression(t, c) \/ ParseProcedureText(t, c) \/ InvokeEx(t, c)
       \/ \E ss \in Started : Start(t, ss)
       \/ Stop(t)
       \/ Reset(t)
       \/ Close(t)
  \/ InitNew
  \/ FinalRelease
  \/ RetrieveItemDisp
  \/ RetrieveItemDispFails
  \/ AttachSite
  \/ \E c \in Code : ExecuteGlobal(c)
  \/ ExecReturns
  \/ RunQueued
  \/ StartDone
  \/ ReleaseScript

\* What the engine does on its own once it has been called.
EngineStep ==
  \/ RetrieveItemDisp \/ RetrieveItemDispFails \/ AttachSite
  \/ RunQueued \/ StartDone \/ ReleaseScript

Spec == Init /\ [][Next]_vars

\* The operation with d - 1 others beneath it goes on.
OperationGoesOn(d) == Len(frames) = d /\ (EngineStep \/ ExecReturns)

\* The thread inside a call keeps running, and an operation calls the host back
\* only finitely often between two steps of its own: a script returns, and a
\* release runs finitely many terminators.  (A script of a start may stand one
\* above MaxDepth.)
FairSpec == Spec /\ \A d \in 1..(MaxDepth + 1) : SF_vars(OperationGoesOn(d))

-----------------------------------------------------------------------------
Frames == [op : {"SetScriptSite", "Exec", "Start", "Release"},
           arg : Site \cup Code \cup States, pos : Nat]

\* Every variable keeps its type.
TypeOK ==
  /\ state \in States
  /\ site \in Site \cup {None}
  /\ thread \in Thread \cup {None}
  /\ isInit \in BOOLEAN
  /\ ref \in BOOLEAN
  /\ entering \in [Thread -> Site \cup {None}]
  /\ codeList \in Seq(Code)
  /\ persistent \in [Code -> BOOLEAN]
  /\ pending \in [Code -> BOOLEAN]
  /\ codeItem \in [Code -> Item \cup {None}]
  /\ lastNext \in [Code -> Code \cup {NoClass}]
  /\ itemList \in Seq(Item)
  /\ itemName \in [Item -> Name \cup {None}]
  /\ itemFlags \in [Item -> SUBSET {"GLOBALMEMBERS", "CODEONLY", "ISPERSISTENT"}]
  /\ itemDisp \in [Item -> Site \cup {None}]
  /\ classes \in [Item \cup {Global} -> Code \cup {NoObject, NoClass}]
  /\ frames \in Seq(Frames)
  /\ claims \in Nat
  /\ runs \in [Code -> Nat]

(***************************************************************************)
(* Safety                                                                  *)
(***************************************************************************)

\* A site is attached only while some thread owns the engine and the engine
\* has its script object (SetScriptSite takes both, release_script drops both).
SiteHasOwner == site # None => thread # None /\ classes[Global] # NoObject

\* However many threads are in SetScriptSite at once, the one that attaches its
\* site is the owner, and no site is attached meanwhile: what it saw of
\* ctx->site before the claim, sessions ago perhaps, is true again.
AttachIsOwners ==
  \A k \in DOMAIN frames : frames[k].op = "SetScriptSite" =>
    site = None /\ thread # None /\ entering[thread] = frames[k].arg

\* Who may attach a site, and who has.
AttachedIsOwned == SiteHasOwner /\ AttachIsOwners

\* Outside a release an initialised or started engine has been through
\* InitNew and has a site: exec_queued_code, OnStateChange and OnEnterScript
\* use ctx->site without a check.
ActiveHasSite ==
  state \in Started \cup {"INITIALIZED"} => isInit /\ site # None

\* While script code runs the site stays attached: exec_script calls
\* OnLeaveScript on ctx->site after the code has called the host.
RunningHasSite == InProgress("Exec") => site # None

\* The site is there whenever the engine is going to use it.
SiteInUse == ActiveHasSite /\ RunningHasSite

\* A started engine has no code left that waits for the start, even when the
\* host parses more, or starts again, from inside a script that the start runs.
NothingQueuedWhenStarted ==
  state \in Started => \A k \in DOMAIN codeList : ~pending[codeList[k]]

\* Queued code runs once in a session, also when a nested start walks the same
\* list.
RunsOncePerSession == \A c \in Code : runs[c] <= 1

\* The dispatch of a named item was retrieved from the site that is attached,
\* never from the site of an earlier session or of a failed SetScriptSite.
DispFromAttachedSite ==
  site # None => \A k \in DOMAIN itemList : itemDisp[itemList[k]] \in {None, site}

\* After the last session nothing refers to the host or to a script object:
\* no object (of a listed item, or of an item only persistent code still
\* refers to) keeps a pointer to the context, and no item a dispatch.
NothingOutlivesSession ==
  site = None /\ Idle =>
    /\ \A o \in DOMAIN classes : classes[o] = NoObject
    /\ thread = None =>
         \A k \in DOMAIN itemList : itemDisp[itemList[k]] = None

\* A named item is bound to the session there is: to its site while there is one,
\* to nothing after the last.
ItemsBoundToSession == DispFromAttachedSite /\ NothingOutlivesSession

\* Every class a lookup can reach from a script object belongs to code that is
\* still in the list and has run in this session, and the list has an end;
\* code that waits to run is linked to no other code.
ClassListsSound ==
  /\ \A o \in DOMAIN classes : classes[o] \in Code =>
       /\ \A c \in ChainFrom(classes[o]) : InList(c, codeList) /\ ~pending[c]
       /\ \E c \in ChainFrom(classes[o]) : lastNext[c] = NoClass
  /\ \A k \in DOMAIN codeList : pending[codeList[k]] => lastNext[codeList[k]] = NoClass

\* Persistent code leaves the list only when the engine is closed.
PersistentCodeStays ==
  [][\A c \in Code : persistent[c] /\ InList(c, codeList) /\ ~InList(c, codeList')
       => state = "CLOSED"]_vars

(***************************************************************************)
(* Liveness                                                                *)
(***************************************************************************)

\* Every call comes back, a start also while the scripts it runs queue more.
CallsReturn == ~Idle ~> Idle
=============================================================================
