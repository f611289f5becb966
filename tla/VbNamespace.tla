----------------------------- MODULE VbNamespace ------------------------------
(* interp.c, vbdisp.c, vbscript.c: the global names of one session.  A script *)
(* dispatch (the engine's, and one for each named item that has code) maps a  *)
(* name to one entry: a variable or a constant, a procedure, or a cached      *)
(* answer of the host or of the builtin functions.  Scripts are pieces of     *)
(* source ("units") that declare names when they run and look names up while  *)
(* they run, from top-level code, from procedures and from the text a         *)
(* procedure passes to Execute.                                               *)
EXTENDS Integers, Sequences, SequencesExt, FiniteSets

CONSTANTS Name,       \* identifiers
          Builtin,    \* those that are builtin functions
          Item,       \* named items, with different names
          ItemName,   \* their names, in Name or not
          Visible,    \* items with SCRIPTITEM_ISVISIBLE
          CodeOnly,   \* with SCRIPTITEM_CODEONLY
          Members,    \* with SCRIPTITEM_GLOBALMEMBERS
          HostProp,   \* the members of the host object of each item
          Unit,       \* sources: [dims, arrays, consts, funcs, classes, locals]
          LocalUnit,  \* those that procedures pass to Execute
          MaxCode, MaxFrames, MaxVars

NoItem == "global"
Scope == Item \cup {NoItem}

ASSUME NamespaceAssumption ==
  /\ Builtin \subseteq Name /\ NoItem \notin Item
  /\ Visible \subseteq Item /\ CodeOnly \subseteq Item /\ Members \subseteq Item
  /\ HostProp \in [Item -> SUBSET Name]
  /\ LocalUnit \subseteq Unit /\ MaxCode \in Nat /\ MaxFrames \in Nat /\ MaxVars \in Nat
  /\ \A i, j \in Item : ItemName[i] = ItemName[j] => i = j
  /\ \A u \in Unit :
       /\ u.dims \in Seq(Name) /\ u.funcs \in Seq(Name)
       /\ u.arrays \subseteq Range(u.dims) /\ u.consts \subseteq Name
       /\ u.classes \subseteq Name /\ u.locals \subseteq Name
       /\ IsInjective(u.dims) /\ IsInjective(u.funcs)
       /\ Range(u.dims) \cap (Range(u.funcs) \cup u.consts \cup u.classes) = {}
       /\ Range(u.funcs) \cap (u.consts \cup u.classes) = {}

VARIABLES members,  \* ScriptDisp.members: the entry of each name
          vars,     \* ScriptDisp.global_vars
          funcs,    \* ScriptDisp.global_funcs
          linked,   \* ScriptDisp.classes: the texts they are from, newest first
          objs,     \* the items that have a script dispatch
          disps,    \* the items whose host object was retrieved
          items,    \* ctx->named_items
          codes,    \* ctx->code_list
          phase,    \* the queue of code: waiting, being run, or run
          frames    \* the chain of exec_ctx_t, ctx->current_exec last
dispVars == <<members, vars, funcs, linked>>
allVars == <<members, vars, funcs, linked, objs, disps, items, codes, phase, frames>>

NoEntry == [kind |-> "none", index |-> 0]
Entry(kind, index) == [kind |-> kind, index |-> index]

Init ==
  /\ members = [s \in Scope |-> [n \in Name |-> NoEntry]]
  /\ vars = [s \in Scope |-> <<>>]
  /\ funcs = [s \in Scope |-> <<>>]
  /\ linked = [s \in Scope |-> <<>>]
  /\ objs = {} /\ disps = {} /\ items = <<>>
  /\ codes = <<>> /\ phase = "waiting" /\ frames = <<>>

-------------------------------------------------------------------------------
(* Looking a name up.                                                         *)

\* What a name stands for.  index: the slot of a variable or a procedure.
Ref(kind, scope, index) == [ref |-> kind, scope |-> scope, index |-> index]
NotFound == Ref("none", NoItem, 0)

\* ref_from_entry.
FromEntry(e, s) ==
  CASE e.kind = "none" -> NotFound
    [] e.kind = "var" -> Ref(IF vars[s][e.index].const THEN "const" ELSE "var", s, e.index)
    [] e.kind = "func" -> Ref("func", s, e.index)
    [] e.kind = "host" -> Ref("disp", s, 0)
    [] e.kind = "builtin" -> Ref("builtin", NoItem, 0)

\* lookup_named_item: the item of that name, if it has the flag.
Named(n, flagged) == {i \in Range(items) : ItemName[i] = n /\ i \in flagged}

\* The places in the list of the items with global members whose host object, or
\* a cached answer of it, has the name.
ItemsWithMember(tree, n) ==
  {k \in DOMAIN items :
     /\ items[k] \in Members
     /\ \/ items[k] \in objs /\ tree[items[k]][n].kind = "host"
        \/ n \in HostProp[items[k]]}

\* The places a name is looked for outside the procedure, in their order, with
\* the entries of tree: what each of them has.
Places(tree, s, n) ==
  << IF s = NoItem THEN NotFound ELSE FromEntry(tree[s][n], s),
     IF s \in disps \ CodeOnly /\ n \in HostProp[s] THEN Ref("disp", s, 0) ELSE NotFound,
     FromEntry(tree[NoItem][n], NoItem),
     IF Named(n, Visible) = {} THEN NotFound
       ELSE Ref("obj", CHOOSE i \in Named(n, Visible) : TRUE, 0),
     IF n \in Builtin THEN Ref("builtin", NoItem, 0) ELSE NotFound,
     IF ItemsWithMember(tree, n) = {} THEN NotFound
       ELSE Ref("disp", items[Min(ItemsWithMember(tree, n))], 0) >>
\* The first of them that has it, or 0.
Place(tree, s, n) == SelectInSeq(Places(tree, s, n), LAMBDA r : r # NotFound)
Resolve(tree, s, n) ==
  LET k == Place(tree, s, n) IN IF k = 0 THEN NotFound ELSE Places(tree, s, n)[k]

\* script_disp_add_hostprop, script_disp_add_builtin: never over another entry.
Cached(s, n, kind) ==
  IF members[s][n].kind \in {"none", kind}
  THEN [members EXCEPT ![s][n] = Entry(kind, 0)] ELSE members

\* Mutant: the answer of an item without a script dispatch is cached too.
AfterLookupAnyItem(s, n) ==
  LET k == Place(members, s, n) IN
  CASE k = 2 -> Cached(s, n, "host")
    [] k = 5 -> Cached(NoItem, n, "builtin")
    [] k = 6 -> Cached(Resolve(members, s, n).scope, n, "host")
    [] OTHER -> members

\* Mutant: a builtin is cached for the code that used it, not for the engine.
AfterLookupOwnTree(s, n) ==
  LET k == Place(members, s, n) IN
  CASE k = 2 -> Cached(s, n, "host")
    [] k = 5 -> Cached(s, n, "builtin")
    [] OTHER -> members

\* What looking n up leaves in the caches.
AfterLookup(s, n) ==
  LET k == Place(members, s, n)
      owner == Resolve(members, s, n).scope
  IN CASE k = 2 -> Cached(s, n, "host")
       [] k = 5 -> Cached(NoItem, n, "builtin")
       [] k = 6 /\ owner \in objs -> Cached(owner, n, "host")
       [] OTHER -> members

\* The item the fourth place looks at gets a script dispatch and its object.
Visited(s, n) == IF Place(members, s, n) \in {0, 4, 5, 6} THEN Named(n, Visible) ELSE {}
Fetch(S) == objs' = objs \cup (S \ Members) /\ disps' = disps \cup S

-------------------------------------------------------------------------------
(* Procedures.  A procedure's locals and arguments are its unit's locals; a   *)
(* text it passes to Execute runs in a frame of its own ("local") on top.     *)

Frame(k, kind) == [code |-> k, kind |-> kind, dyn |-> {}]
Idle == frames = <<>>
Top == frames[Len(frames)]
UnitOf(k) == codes[k].unit
ScopeOf(k) == codes[k].scope
Push(f) == frames' = Append(frames, f)

\* The names in exec_ctx_t number d and, for a local frame, in its caller's.
LocalNames(d) ==
  CASE frames[d].kind = "main" -> {}
    [] frames[d].kind = "proc" -> UnitOf(frames[d].code).locals \cup frames[d].dyn
    [] frames[d].kind = "local" -> UnitOf(frames[d - 1].code).locals \cup frames[d - 1].dyn

\* lookup_identifier in the running frame.
lookup_identifier(n) ==
  IF n \in LocalNames(Len(frames)) THEN Ref("local", NoItem, 0)
  ELSE Resolve(members, ScopeOf(Top.code), n)
Looked(n) ==
  LET s == ScopeOf(Top.code)
      global == n \notin LocalNames(Len(frames))
  IN Fetch(IF global THEN Visited(s, n) ELSE {})
MembersAfter(n) ==
  IF n \in LocalNames(Len(frames)) THEN members ELSE AfterLookup(ScopeOf(Top.code), n)

-------------------------------------------------------------------------------
(* Declaring names.                                                           *)

\* The names of ns that are in S, in their order.
Those(ns, S) ==
  LET K == {k \in DOMAIN ns : ns[k] \in S}
  IN  [j \in 1..Cardinality(K) |-> ns[CHOOSE k \in K : Cardinality(K \cap 1..k) = j]]

\* exec_global_code: the Dims that get a new variable.
HasVariable(s, n) ==
  \/ members[s][n].kind = "func"
  \/ members[s][n].kind = "var" /\ ~vars[s][members[s][n].index].const
NewDims(s, u) == Those(u.dims, {n \in Name : ~HasVariable(s, n)})
NewVar(n, const) == [name |-> n, const |-> const]

\* Mutant: the new variables take the place of the old ones.
WithVarsAlone(s, ns) == [k \in DOMAIN ns |-> NewVar(ns[k], FALSE)]

\* The slots of global_vars after these names, and of global_funcs after a
\* unit's procedures: a known one is replaced in its slot.
WithVars(s, ns) == vars[s] \o [k \in DOMAIN ns |-> NewVar(ns[k], FALSE)]
NewFuncs(s, u) == Those(u.funcs, {n \in Name : members[s][n].kind # "func"})
FuncIndex(s, u, n) ==
  IF members[s][n].kind = "func" THEN members[s][n].index
  ELSE Len(funcs[s]) + CHOOSE k \in DOMAIN NewFuncs(s, u) : NewFuncs(s, u)[k] = n
WithFuncs(s, u, c) ==
  [j \in 1..Len(funcs[s]) + Len(NewFuncs(s, u)) |->
     IF \E n \in Range(u.funcs) : FuncIndex(s, u, n) = j
     THEN [name |-> CHOOSE n \in Range(u.funcs) : FuncIndex(s, u, n) = j, code |-> c]
     ELSE funcs[s][j]]

\* Mutant: the index of the slot before.
VarIndexBefore(s, ns, n) == Len(vars[s]) + (CHOOSE k \in DOMAIN ns : ns[k] = n) - 1
VarIndex(s, ns, n) == Len(vars[s]) + CHOOSE k \in DOMAIN ns : ns[k] = n

\* The classes of a text come in front of those there are.
WithClasses(s, u, c) == IF u.classes = {} THEN linked[s] ELSE <<c>> \o linked[s]

\* exec_global_code for code c, up to the call of its top-level code.
exec_global_code(c, s, u) ==
  LET ns == NewDims(s, u) IN
  /\ members' = [members EXCEPT ![s] = [n \in Name |->
       CASE n \in Range(u.funcs) -> Entry("func", FuncIndex(s, u, n))
         [] n \in Range(ns) -> Entry("var", VarIndex(s, ns, n))
         [] OTHER -> @[n]]]
  /\ vars' = [vars EXCEPT ![s] = WithVars(s, ns)]
  /\ funcs' = [funcs EXCEPT ![s] = WithFuncs(s, u, c)]
  /\ linked' = [linked EXCEPT ![s] = WithClasses(s, u, c)]
  /\ Push(Frame(c, "main"))

\* add_dynamic_var from code that is not a procedure's own.
AddGlobal(s, n, const, tree) ==
  /\ Len(vars[s]) < MaxVars
  /\ vars' = [vars EXCEPT ![s] = Append(@, NewVar(n, const))]
  /\ members' = [tree EXCEPT ![s][n] = Entry("var", Len(vars[s]) + 1)]

\* The place of the first class n of a dispatch, or 0.
ClassIn(s, n) == SelectInSeq(linked[s], LAMBDA c : n \in UnitOf(c).classes)

\* interp_new: the text whose class n an object gets in code of scope s, or 0.
interp_new(s, n) ==
  CASE ClassIn(s, n) # 0 -> linked[s][ClassIn(s, n)]
    [] ClassIn(s, n) = 0 /\ ClassIn(NoItem, n) # 0 -> linked[NoItem][ClassIn(NoItem, n)]
    [] ClassIn(s, n) = 0 /\ ClassIn(NoItem, n) = 0 -> 0

\* lookup_script_identifier and lookup_existing_class, for code of scope s:
\* what earlier code of that scope, run or queued, declares.
Declares(c, n) ==
  n \in Range(UnitOf(c).dims) \cup Range(UnitOf(c).funcs) \cup UnitOf(c).classes
SeenFrom(s) == {c \in DOMAIN codes : ScopeOf(c) \in {s, NoItem}}
Pending(s) == {c \in SeenFrom(s) : codes[c].status = "pending"}

\* Mutant: queued code is forgotten.
lookup_existing_class_run(s, n) == \E t \in {s, NoItem} : ClassIn(t, n) # 0
lookup_existing_class(s, n) ==
  \/ \E t \in {s, NoItem} : ClassIn(t, n) # 0
  \/ \E c \in Pending(s) : n \in UnitOf(c).classes
lookup_script_identifier(s, n) ==
  \/ \E t \in {s, NoItem} : members[t][n].kind = "var"
  \/ \E t \in {s, NoItem} : \E k \in DOMAIN funcs[t] : funcs[t][k].name = n
  \/ lookup_existing_class(s, n)
  \/ \E c \in Pending(s) : Declares(c, n)
check_script_collisions(s, u) ==
  \/ \E n \in u.classes : lookup_script_identifier(s, n)
  \/ \E n \in Range(u.funcs) \cup u.consts : lookup_existing_class(s, n)

-------------------------------------------------------------------------------
(* The host.                                                                  *)

Code(u, s, status, checked) ==
  [unit |-> u, scope |-> s, status |-> status, checked |-> checked]
Room == Len(codes) < MaxCode /\ Len(frames) < MaxFrames

\* Hosts add their items before scripts run: a builtin that a script has used is
\* cached in front of an item of its name that is added later.
AddNamedItem(i) ==
  /\ i \notin Range(items)
  /\ phase = "waiting"
  /\ items' = Append(items, i)
  /\ disps' = IF i \in Members THEN disps \cup {i} ELSE disps
  /\ UNCHANGED <<dispVars, objs, codes, phase, frames>>

\* ParseScriptText, for the engine's script dispatch or for a named item.  An
\* item with global members has no dispatch of its own: its code is global.
ParseScriptText(u, i) ==
  LET s == IF i \in Members THEN NoItem ELSE i
      fetched == IF i = NoItem THEN {} ELSE {i}
  IN
  /\ Room
  /\ i = NoItem \/ i \in Range(items)
  /\ ~check_script_collisions(s, u)
  /\ objs' = objs \cup (fetched \ Members)
  /\ disps' = disps \cup (fetched \ CodeOnly)
  /\ IF phase = "run"
     THEN /\ codes' = Append(codes, Code(u, s, "declared", TRUE))
          /\ exec_global_code(Len(codes) + 1, s, u)
     ELSE /\ codes' = Append(codes, Code(u, s, "pending", TRUE))
          /\ UNCHANGED <<dispVars, frames>>
  /\ UNCHANGED <<items, phase>>

\* SetScriptState runs the queued code in its order; code queued meanwhile is
\* reached later in the same walk.
Start == /\ phase = "waiting" /\ Idle
         /\ phase' = "running"
         /\ UNCHANGED <<dispVars, objs, disps, items, codes, frames>>
Queued == {c \in DOMAIN codes : codes[c].status = "pending"}
RunQueued ==
  /\ phase = "running" /\ Idle
  /\ \E c \in Queued :
       /\ \A d \in Queued : c <= d
       /\ codes' = [codes EXCEPT ![c].status = "declared"]
       /\ exec_global_code(c, ScopeOf(c), UnitOf(c))
  /\ UNCHANGED <<objs, disps, items, phase>>
StartDone == /\ phase = "running" /\ Idle /\ Queued = {}
             /\ phase' = "run"
             /\ UNCHANGED <<dispVars, objs, disps, items, codes, frames>>

\* ScriptDisp_InvokeEx with a procedure's DISPID, or a call in a script: the
\* procedure in that slot runs.
CallProcedure(s, k) ==
  /\ k \in DOMAIN funcs[s] /\ Len(frames) < MaxFrames
  /\ Push(Frame(funcs[s][k].code, "proc"))
  /\ UNCHANGED <<dispVars, objs, disps, items, codes, phase>>

-------------------------------------------------------------------------------
(* The running script.                                                        *)

\* An identifier is read.
Read(n) ==
  /\ ~Idle
  /\ Looked(n) /\ members' = MembersAfter(n)
  /\ UNCHANGED <<vars, funcs, linked, items, codes, phase, frames>>

\* assign_ident of an unknown name creates a variable: a global one, except in
\* the procedure's own frame.  (Option Explicit makes it an error.)
AssignUnknown(n) ==
  /\ ~Idle /\ lookup_identifier(n) = NotFound
  /\ Looked(n)
  /\ IF Top.kind = "proc"
     THEN /\ frames' = [frames EXCEPT ![Len(frames)].dyn = @ \cup {n}]
          /\ UNCHANGED <<members, vars>>
     ELSE /\ AddGlobal(ScopeOf(Top.code), n, FALSE, members)
          /\ UNCHANGED frames
  /\ UNCHANGED <<funcs, linked, items, codes, phase>>

\* interp_const: an error unless the name is unknown.
DeclareConst(n) ==
  /\ ~Idle /\ Top.kind # "proc" /\ n \in UnitOf(Top.code).consts
  /\ lookup_identifier(n) = NotFound
  /\ Looked(n) /\ AddGlobal(ScopeOf(Top.code), n, TRUE, members)
  /\ UNCHANGED <<funcs, linked, items, codes, phase, frames>>

\* interp_dim of an array at the top level of a unit: the variable of the script
\* dispatch, else of the caller's dynamic variables.  (It only changes a value.)
DimTarget(n) ==
  CASE members[ScopeOf(Top.code)][n].kind = "var" -> "global"
    [] members[ScopeOf(Top.code)][n].kind # "var" /\ Top.kind = "local"
         /\ n \in frames[Len(frames) - 1].dyn -> "caller"
    [] OTHER -> "nothing"
Dimming(n) == ~Idle /\ Top.kind # "proc" /\ n \in UnitOf(Top.code).arrays

\* ExecuteGlobal, and Execute outside a procedure's own frame.  Redeclared names
\* are allowed here (skip_collisions).
ExecuteGlobal(u) ==
  /\ ~Idle /\ Room
  /\ codes' = Append(codes, Code(u, NoItem, "declared", FALSE))
  /\ exec_global_code(Len(codes) + 1, NoItem, u)
  /\ UNCHANGED <<objs, disps, items, phase>>

\* Execute in a procedure: its Dims become dynamic variables of the procedure,
\* unless it has the name; its procedures and classes are never linked.
ExecuteLocal(u) ==
  LET d == Len(frames) IN
  /\ ~Idle /\ Top.kind = "proc" /\ Room
  /\ codes' = Append(codes, Code(u, NoItem, "local", FALSE))
  /\ frames' = Append([frames EXCEPT ![d].dyn = @ \cup (Range(u.dims) \ LocalNames(d))],
                      Frame(Len(codes) + 1, "local"))
  /\ UNCHANGED <<dispVars, objs, disps, items, phase>>

Return == /\ ~Idle
          /\ frames' = Front(frames)
          /\ UNCHANGED <<dispVars, objs, disps, items, codes, phase>>

Next == \/ \E i \in Item : AddNamedItem(i)
        \/ \E u \in Unit, s \in Scope : ParseScriptText(u, s)
        \/ Start \/ RunQueued \/ StartDone \/ Return
        \/ \E s \in Scope : \E k \in DOMAIN funcs[s] : CallProcedure(s, k)
        \/ \E n \in Name : Read(n) \/ AssignUnknown(n) \/ DeclareConst(n)
        \/ \E u \in Unit : ExecuteGlobal(u)
        \/ \E u \in LocalUnit : ExecuteLocal(u)
Spec == Init /\ [][Next]_allVars

-------------------------------------------------------------------------------
Entries == [kind : {"none", "var", "func", "host", "builtin"}, index : Nat]

\* Every variable keeps its type.
TypeOK ==
  /\ members \in [Scope -> [Name -> Entries]]
  /\ vars \in [Scope -> Seq([name : Name, const : BOOLEAN])]
  /\ funcs \in [Scope -> Seq([name : Name, code : DOMAIN codes])]
  /\ linked \in [Scope -> Seq(DOMAIN codes)]
  /\ \A s \in Scope \ (objs \cup {NoItem}) :
       vars[s] = <<>> /\ funcs[s] = <<>> /\ \A n \in Name : members[s][n] = NoEntry
  /\ objs \subseteq Range(items) \ Members /\ disps \subseteq Range(items)
  /\ items \in Seq(Item) /\ IsInjective(items)
  /\ codes \in Seq([unit : Unit, scope : objs \cup {NoItem}, checked : BOOLEAN,
                    status : {"pending", "declared", "local"}])
  /\ phase \in {"waiting", "running", "run"}
  /\ frames \in Seq([code : DOMAIN codes, kind : {"main", "proc", "local"},
                     dyn : SUBSET Name])
  /\ \A d \in DOMAIN frames :
       frames[d].kind = "local" => d > 1 /\ frames[d - 1].kind = "proc"

\* An entry of the tree and its slot agree: InvokeEx with the DISPID that
\* GetDispID reads from the entry reaches the variable or procedure of that name.
\* A procedure that is declared again replaces the old one in its slot, so no two
\* slots have one name and a DISPID obtained before calls the new procedure.
SlotsMatchEntries ==
  \A s \in Scope, n \in Name :
    LET e == members[s][n] IN
    /\ e.kind = "var" => e.index \in DOMAIN vars[s] /\ vars[s][e.index].name = n
    /\ e.kind = "func" => e.index \in DOMAIN funcs[s] /\ funcs[s][e.index].name = n
    /\ \A j, k \in DOMAIN funcs[s] : funcs[s][j].name = n /\ funcs[s][k].name = n => j = k

\* Names declared by code that was run stay script names: no cached host property
\* or builtin takes or keeps their entry.
DeclarationsResolve ==
  \A c \in DOMAIN codes : codes[c].status = "declared" =>
    /\ \A n \in Range(UnitOf(c).funcs) : members[ScopeOf(c)][n].kind = "func"
    /\ \A n \in Range(UnitOf(c).dims) : members[ScopeOf(c)][n].kind \in {"var", "func"}

\* The caches change nothing: every name stands for what it would stand for if
\* the host and the builtins were asked again.
WithoutCaches ==
  [s \in Scope |-> [n \in Name |->
     IF members[s][n].kind \in {"host", "builtin"} THEN NoEntry ELSE members[s][n]]]
LookupsAreFresh ==
  \A s \in objs \cup {NoItem}, n \in Name : Resolve(members, s, n) = Resolve(WithoutCaches, s, n)

\* The collision check keeps an accepted text apart from all code it sees, run or
\* queued, itself run or queued: a class has a name nothing else has, a procedure
\* or a constant not that of a class.  Texts passed to Execute and ExecuteGlobal
\* are compiled with skip_collisions and may collide with everything.
OnlyExecuteCollides ==
  \A d \in DOMAIN codes : codes[d].checked =>
    \A c \in 1..d - 1 : codes[c].status # "local" /\ ScopeOf(c) \in {ScopeOf(d), NoItem} =>
      /\ \A n \in UnitOf(d).classes : ~Declares(c, n)
      /\ UnitOf(c).classes \cap (Range(UnitOf(d).funcs) \cup UnitOf(d).consts) = {}

\* New finds the class a text declared for the text's own code, as long as no
\* text of an Execute or ExecuteGlobal has put one of that name in front of it.
\* However accepted texts are queued and run, none hides the class of another.
OnlyExecuteHidesClass ==
  \A c \in DOMAIN codes : codes[c].status = "declared" /\ codes[c].checked =>
    \A n \in UnitOf(c).classes :
      \/ interp_new(ScopeOf(c), n) = c
      \/ /\ interp_new(ScopeOf(c), n) \in DOMAIN codes
         /\ ~codes[interp_new(ScopeOf(c), n)].checked

\* What a text declares stands, whatever is declared or looked up afterwards, but
\* for the classes that Execute and ExecuteGlobal may declare again.
DeclarationsStand == DeclarationsResolve /\ OnlyExecuteCollides /\ OnlyExecuteHidesClass

\* interp_dim's assert(var != NULL): an array Dim finds its variable.
DimFindsVariable == \A n \in Name : Dimming(n) => DimTarget(n) # "nothing"

\* Slots are never reused while the session lasts: a variable keeps its slot, a
\* slot of a procedure its name, and a name that is a procedure stays one.
DispatchOnlyGrows ==
  [][\A s \in Scope :
       /\ IsPrefix(vars[s], vars'[s])
       /\ \A k \in DOMAIN funcs[s] :
            k \in DOMAIN funcs'[s] /\ funcs'[s][k].name = funcs[s][k].name
       /\ \A n \in Name :
            /\ members[s][n].kind = "func" => members'[s][n] = members[s][n]
            /\ members[s][n].kind = "var" => members'[s][n].kind \in {"var", "func"}]_allVars
===============================================================================
