# Verification of libwinevbs

libwinevbs packages Wine's VBScript engine as a portable C library: a program
embeds the engine (`src/wine/dlls/vbscript`), hands it scripts, and exposes its
own objects to them. Below the engine is the automation run time
(`oleaut32`: variants, strings, SAFEARRAYs), beside it two libraries that
scripts create objects from (`scrrun`: Dictionary and FileSystemObject;
`wshom.ocx`: WScript.Shell), and under everything a layer that maps the Windows
calls to POSIX (`src/src/wine.c`).

This directory holds TLA+ models of the parts that carry the engine's own logic,
the TLC configurations that check them, and proofs. `tlc -config X.cfg M` checks
the model of module M (`PROJECT.json` pairs them under "runs"), `tlapm M.tla`
checks the proofs of a module whose name ends in `Proofs`, or of `ListFacts`.
`PROJECT.json` also maps every definition to the source lines it stands for.

Contents: [Inventory](#inventory) ·
[Modules and code](#modules-and-code) · [Runs](#runs) ·
[What the host must not do](#what-the-host-must-not-do) ·
[Disagreements found](#disagreements-found) · [Proofs](#proofs) ·
[Not modelled](#not-modelled) · [Plan](#plan)

## Inventory

### Script engine (`vbscript.c`)

*State.* The script state (UNINITIALIZED, INITIALIZED, STARTED, CONNECTED,
CLOSED), the claiming thread `thread_id`, `is_initialized`, the attached site,
the list of compiled code with its flags `is_persistent` and `pending_exec`, the
named items with their dispatches and flags, and the list of classes of each
script object.

*Operations.* SetScriptSite, InitNew, AddNamedItem, GetScriptDispatch,
ParseScriptText, ParseProcedureText, SetScriptState (start, connect, stop,
reset), Close, the last Release; calls of procedures through script dispatches;
Eval, Execute and ExecuteGlobal from inside a script.

*What is hard.* The engine takes no lock: between threads there is one
compare-and-exchange, and on the claiming thread every call of the host (site
callbacks, any object a script touches) can come back with another call of the
engine while the first is half done. Sessions end and begin again, and
persistent code and items survive them.

*Correct when* script code never runs without a site; queued code runs exactly
once in a session, whoever starts the engine, how often and from where; nothing
of a session (dispatches of its site, pointers to its context, classes of freed
code) is reachable after it; of several threads that attach a site at once, one
succeeds, and with its own site.

### Bytecode compiler and interpreter (`compile.c`, `interp.c`)

*State.* Instructions with jump targets; per procedure call an instruction
pointer, a stack of values, the resume-next flag; globally the call depth, the
Err object and the place of the first error.

*What is hard.* Errors. Under On Error Resume Next a failing instruction is
followed by "the next OP_catch", found by a linear search, which says where to go
and how high the stack is there. A comment in `exec_script` puts the burden on
the compiler: "Generated bytecode needs to guarantee, that simple jump and stack
adjustment will guarantee proper execution continuation." Nothing checks this:
a catch too few, or one with the wrong height, in one nesting of statements that
no test wrote, misplaces the hidden values that For, For Each, Select and With
keep on the stack.

*Correct when* a script goes from statement to statement as VBScript promises,
whatever fails, and the stack at every instruction has the height and the
content that the instruction reads.

### Names, script dispatches and declarations (`interp.c`, `vbscript.c`, `vbdisp.c`, `compile.c`)

*State.* For the global code and each item with code of its own a tree from
names to members (variables, procedures, cached host properties, cached
builtins), arrays of variables and of procedures indexed by DISPID, and classes.

*What is hard.* Texts arrive over time, from the host (possibly queued, when
their declarations are checked long before they are linked) and from Execute and
ExecuteGlobal; each may redeclare what earlier ones declared, or what a lookup
has cached meanwhile. Hosts keep DISPIDs.

*Correct when* caches never change what a name means, tree and slots agree, slots
are stable, and a class that a text was accepted with is the one `New` finds, until
Execute or ExecuteGlobal, which ask nobody, declare it again.

### Class objects (`vbdisp.c`)

*State.* A reference count and two flags per object, the properties, and the
list of all objects of the engine.

*What is hard.* The last release runs Class_Terminate, a script, in the middle
of whatever C function dropped the reference. It may resurrect the object, drop
others, and change the location that is being cleared. Closing the engine must
also end cycles, with every terminator run before anything is taken apart.

*Correct when* counts equal references, nothing refers to freed memory, closing
leaves nothing behind, and terminators see whole objects.

### Dictionary (`scrrun/dictionary.c`)

*State.* Pairs in a list in insertion order and in 509 hash buckets, a count, a
compare mode, and the enumerators registered with the dictionary.

*What is hard.* Releasing a key or an item may run a script that uses the same
dictionary; enumerators outlive changes; keys of different types are compared by
rules that are not an equivalence (Empty equals both `""` and `0`).

*Correct when* it is an ordered map, seen from outside, also for enumerators.

### Regular expressions (`vbscript/regexp.c`, `vbregexp.c`)

*State.* The pattern, the flags and the compiled program of a RegExp object;
during a match the place in the input and in the program, the stack of
quantifiers and assertions under way, the stack of alternatives to go back to,
and the captures.

*What is hard.* A recursive definition turned into loops over two stacks that
share their entries' counters: what a failed alternative restores must be exactly
what was there when it was saved. The parser computes how much memory the
program takes before the emitter writes it. Programs are cached under flags that
change between calls. Empty matches can stop progress.

*Correct when* a search finds the match that the pattern means, with its
captures; stacks and memory fit; every call ends.

### TextStream (`scrrun/filesystem.c`, `src/wine.c`)

*State.* The handle, the mode, the encoding, the block that was read last, the
end-of-file flag; below, the C library's buffer and position of the file.

*What is hard.* A text is read a block at a time into one buffer from which
three methods take their parts, so lines, their two-character ends and
multi-byte characters lie across blocks, and the end of the file is seen late. Writes
wait in a buffer until a Close, which may fail silently; other streams are open
on the same file.

*Correct when* a reader gets the text of its file in order and then an error, and
what was written and closed can be read back in the encodings it was written in.

### Arrays (`oleaut32/safearray.c`, `vbscript/interp.c`, `global.c`, `utils.c`)

*State.* Per array the bounds, the cells and a lock count; per variable the
array it owns or refers to; per For Each its position.

*What is hard.* A For Each holds a lock while the script in its body resizes,
erases or assigns the same array; the functions that change an array lock it too,
and releasing an element may run a script in the middle of them. `ReDim Preserve`
moves elements in a memory laid out by strides.

*Correct when* an array is a function from indices to values whatever scripts run
in between, every lock is given back, and nothing points to freed cells.

### Everything else

| Part | Source | State and operations | Modelled |
|---|---|---|---|
| lexer, parser | `lex.c`, `parser.y` | text to tree, no state afterwards | no |
| builtin functions | `global.c` | functions of variants; Randomize and Rnd keep a seed | Eval, Execute, Erase only |
| FileSystemObject | `scrrun/filesystem.c` | one call of the file system each | opening streams only |
| variants, conversions, formatting | `variant.c`, `vartype.c`, `varformat.c` | none | VariantClear only |
| strings, active objects | `oleaut32/oleaut.c` | a cache of freed strings | no |
| locale | `kernelbase/` | tables | no |
| WScript.Shell, Network | `wshom.ocx/` | wrappers of the platform | no |
| IDispatch tables | `*_proxy.c`, `tools/idl-parser` | generated, and the generator | no |
| ATL registrar | `atl/` | support code that nothing here calls | no |
| class factories, heap pool | `vbscript_main.c`, `utils.c`, `scrrun.c` | creation of objects, a bump allocator | no |
| glue and platform | `src/src/` | callbacks to the program, POSIX calls | files, for TextStream |

### How the parts meet

The engine compiles a text (compiler), links its declarations to a script
dispatch (names), and executes its global code (interpreter). Scripts create
class objects and dictionaries; releasing them calls the interpreter back from
C code. The host calls the engine, the dispatches it got from it, and objects it
holds; scripts call the host through named items. So a stack of C calls
alternates between host, engine, script and objects, and each model of a part
that is called back has such a stack, `frames`, `execs` or `calls`, as its central
variable. RegExp and TextStream call nobody back. What one model takes from
another is stated where it is taken; the models are not composed (see the plan).

## Modules and code

### ScriptEngine

One action per method. A method that calls the host in the middle is split
there: it pushes a frame, any other call may come, and its second part is an
action that pops the frame. SetScriptSite has three parts before that, since
threads may race through it: the look at `ctx->site` (`SetScriptSite`, after
which the thread is in `entering`), and the compare-and-exchange that succeeds
(`ClaimEngine`) or not (`ClaimRefused`), with any steps of other threads between.
Frames: `SetScriptSite` (retrieving the dispatches
of the items, the claim already made), `Exec` (a script runs), `Start`
(`exec_queued_code`, with the position of its list cursor), `Release`
(`release_script`, running terminators). `Eval` and texts with
`SCRIPTTEXT_ISEXPRESSION` are one action, `EvaluateExpression`. `InvokeEx` is the
host's call of a procedure through a script dispatch, the way into script code
that asks neither for the state of the engine nor for the thread.

A script object is represented by the head of its class list, and the list by
`lastNext`, the `next` pointer of the last class of each code. `runs` is a history
variable: how often a queued code ran in the session. Threads are a
parameter of every action; only the claiming thread passes the thread checks,
and InitNew and the final Release have none, as in the code.

Left out: the item name of ParseProcedureText and of an expression
(`compile.c:2597-2613`; the item is looked up as for ParseScriptText, the code runs
in its scope), `SCRIPTTEXT_ISPERSISTENT` on an expression, and what a host does in
the OnStateChange calls between the steps of one change of state
(`vbscript.c:84-86`, 413-427): it is called, but calls nothing.

### VbSyntax, VbCompile, VbInterp

`VbSyntax` is the tree of a script after parsing: assignments, calls, On Error, If,
While and Do loops, For, For Each, With, Select, Exit. `VbCompile` is
`compile.c` as a function from such a tree to a sequence of instructions:
labels and their resolution, the catches with jump and height, the pops that an
Exit emits for the statements it leaves. `VbInterp` is `exec_script` with one
action per kind of instruction. Where the real instruction can fail, the action
may.

Values are abstracted to what control looks at: VT_EMPTY (what unwinding pads
with), an enumerator, anything else. Expressions are kinds of code, named for
what they leave on the stack and whether they can fail: leaf, literal, binary,
dot, and calls with two or three pending operands. Array Dim and ReDim are
assignments here. Two details of the code that the model keeps and that
surprise: a For loop's first test is the same `OP_step` as the later ones, and
the catch of a procedure call belongs to the call's own statement.

Left out: Err's number and text, Err.Raise and Err.Clear, `Stop`, Const, the
return value slot that only Eval uses.

The OP_step of a For loop jumps to the end of its loop before it returns the error
of VarCmp (`do_for_step`), so that the search for an OP_catch begins one too late.
`StepError` is that case, for any of its causes: in the header, a bound that is an
array (`For i = 1 To arr`: OP_numval takes it) or a loop variable that is an argument by
reference; at the end of the loop, where OP_incc has added to the variable before, a
bound that is a missing argument (VT_ERROR, `variant.c:2808-2810`). A search that
passes the end of the script's code leaves `instr` at 0, and nothing is said of what
follows. `Comparable` are the scripts that run without such values.

The bytecode of the scripts is the constant `Compiled`, which an ASSUME ties to
`compile_script`: TLC computes a constant once.

### VbFlow, VbStatements: what statements promise

`VbStatements` is the abstract specification, without bytecode or stack: a
frame stands at a *point* of its procedure (a statement, the test of a loop, a
condition of an If, an expression of a Case), and `VbFlow` gives the edges
between points, each for success or for failure under On Error Resume Next. An
error outside that mode leaves the procedure and is the caller's failure. A
For loop whose header failed is *unready*: it runs its body once. `VbInterp`
maps an instruction to its point and a frame with VT_EMPTY in a loop's slots to
an unready loop; `FollowsStatements` says that every step of the interpreter is
then a step of the statements or none.

### VbNamespace

One session of an engine, seen from `lookup_identifier`. `members` is the tree
of each script dispatch (of the global code, `NoItem`, and of the items that have
code of their own), `vars` and `funcs` are its slots, `codes` the texts compiled so
far with their status, `linked` the list of classes of each dispatch (by text, the
newest first, which is how `New` searches it), `frames` the running scripts. A text is a record of what
it declares. `ParseScriptText` queues before the start and runs after it;
`Read`, `AssignUnknown` and `DeclareConst` are what a running text does with a
name; `ExecuteGlobal` and `ExecuteLocal` compile from inside it. The host's
properties, the visible items and the builtins are fixed sets.

Left out: members of classes and Me, the return variable of a function, ReDim,
Option Explicit, and duplicates inside one text (the compiler rejects
them). A site always answers GetItemInfo, and the names of items differ. A text that
is refused changes nothing here; the code has looked its item up by then, which may
have fetched the item's object.
DISPIDs are slot numbers; reading one changes nothing, so that a host may keep
them is the action property `DispatchOnlyGrows`.

### VbObjects

Objects are numbered in the order of creation, which is their order in
`ctx->objects`. `calls` is the stack of C calls under way: `release`, `clear`
(VariantClear between releasing the value and emptying the location), `store`
(assign_value between clearing and copying), `clean` (clean_props), `initialize`
and `terminate` (scripts), `collect` and `detach` (the two loops of
collect_objects), `globals`. Each object has one property, which is enough for
chains, cycles and self-references.

### OrderedMap and Dictionary

`OrderedMap` is what a dictionary promises: entries in order of insertion, no two
the same under the compare mode, enumerators that visit every entry once
whatever happens meanwhile. `Dictionary` is the code with its buckets, hashes,
list cursor positions and calls under way. Keys can all be hashed: the error for one
that cannot (an array) comes before anything changes. Pairs are numbered by allocation,
which is their order in the list. Numeric keys stand for their values as
floats, the form they are compared in. `KeepsOrderedMap` is the refinement.

### RegexpSyntax, RegexpMeaning, RegexpMatch, VbRegexp

Patterns and strings are sequences of tokens, a token being a character, a
class, an escape or a punctuation like `(?:` or `{2,}`. `RegexpSyntax` is the
parser of `regexp.c` with its stacks of operators and operands, the sizes it
adds up, and the emitter. `RegexpMatch` is `MatchRegExp` and `ExecuteREBytecode`,
one action per kind of instruction, with `states` and `backTrack` as in the code
and an action `Backtrack` for what follows the switch. `VbRegexp` is the object
that scripts use: Pattern, the flags, Execute, Test and Replace, each a loop of
searches. `RegexpMeaning` is the reference: a recursive-descent parser for the
grammar in `regexp.c`'s comment and ECMA-262's matching, a node and a state
giving the list of the states it can end in; it shares nothing with the
matcher.

Left out: character classes with ranges and the escapes `\s` and `\S`, escapes of
characters by number, flags that cannot be set on a program (it is then gone here
and kept in the code, and not used in either), the properties of Match and SubMatches objects, and what a
replacement value's conversion may call.

### TextReading and TextStream

`TextStream` has one file and several streams on it. A stream keeps what the
`textstream` structure and the stdio `FILE` below it keep: buffer, end flag, mode,
encoding, what the C library has read ahead and not yet written, its position and
error flag. Opening, writing and closing are single actions; a call that
reads is a `BeginRead` and then one `ReadStep` for each block, since other streams
may change the file in between. The disk has a capacity; `fwrite` may or may
not notice that it is exceeded, and `fclose`, whose result nobody looks at,
never tells. ANSI text is UTF-8 here, as `locale.c` has it, with one character of two
bytes; `Decode` works on a block at a time as the code does. WriteBlankLines writes
one line, and TristateUseDefault is ANSI.

`TextReading` says what a script expects of a stream it reads: Read, ReadLine,
ReadAll and AtEndOfStream take characters from the front of what is left.

### ArrayContents and VbArrays

`VbArrays` has three variables, declared with bounds, without, and as a scalar
that For Each or an assignment fills. An array is a descriptor with its bounds in
`safearray.c`'s order, its cells and its lock count. `frames` holds the For Each
statements under way, the loops over cells that may run a script for each object
they release (the destruction of an array, a shrinking ReDim Preserve, Erase of an
array of fixed size), and the assignments that wait for the release of an old
value. `ArrayContents` is the promise: contents by index, and loops that visit
every element once.

Left out: arrays as elements of arrays, For Each over an array never dimensioned,
the arrays that the end of a procedure frees, and what safearray.c offers beyond
what scripts reach.

## Runs

| Run | Model | Question | States |
|---|---|---|---|
| `engine` | ScriptEngine | Is the engine safe under every interleaving of host calls, callbacks and threads? | 3.4 M |
| `engine_live` | ScriptEngine | Does every call come back? | 99 k |
| `vm` | VbInterp | Does bytecode follow the statements, through errors and calls, and is the stack right at every instruction? | 75 k |
| `objects` | VbObjects | Do counting and closing agree with terminators that run scripts? | 2.5 M |
| `dictionary` | Dictionary | Is it an ordered map, with callbacks and enumerators? | 0.7 M |
| `names` | VbNamespace | Do caches, redeclaration and slots agree? | 0.6 M |
| `regexp` | VbRegexp | Do searches find what patterns mean, and end? | 213 k |
| `textstream` | TextStream | Do readers get their text, and back what was written? | 323 k |
| `arrays` | VbArrays | Are arrays functions of their indices, under loops and terminators? | 340 k |
| `vm_unwind`, `objects_removal`, `names_dim_array` | | see [Disagreements found](#disagreements-found) | |

**engine.** Two threads, sites, codes and items, one name, four operations in
progress, three claims. Two of everything is what the interesting cases need: an
outsider thread, a previous site, code linked behind other code, an item the host
keeps beside one it does not; three claims make two full sessions and the
beginning of a third, with an outsider that looked at the site in one session and
claims in the next; items are plain, with global members, or persistent and code
only (the flag that a second session drops); depth four is a start, a script it runs, a nested start and
its script. `SiteInUse`, `NothingQueuedWhenStarted` and `RunsOncePerSession` are
about re-entrant calls; `ItemsBoundToSession`, `ClassListsSound` and
`PersistentCodeStays` about sessions. `AttachedIsOwned` is about the claim: both
threads may be behind the look at the site when one claims, attaches, or gives the
engine up, and still only the owner attaches, its own site, and while none is there.
The run stops where the bounds stop it, so deadlock is not
checked.

**engine_live.** `CallsReturn`, with one thread, site and item, three operations
in progress (and a fourth that a start begins). Fairness: strong, for the
operation at each depth of the stack (`OperationGoesOn`): the thread that is
inside a call goes on running, and an operation is interrupted by calls of the
host again and again, each of which disables its next step, but only finitely
often between two steps of its own, since we take scripts that end by themselves
and a release runs finitely many terminators: a host that answers one callback
with calls without end is excluded. Otherwise nothing is assumed of the host. What
can fail is the walk over the queue that scripts append to, and over the items.

**vm.** All blocks two deep around every simple statement, with On Error Resume
Next; and procedures with one block around every kind of expression, call and
exit, called with and without On Error Resume Next and calling themselves, with a
depth limit of two (reached, and refused). Two levels suffice for the heights:
each construct computes the height of its catches from one number, the height it
starts at, and at depth two that is non-zero. TLC takes every branch and every
failure. The nested blocks stand before another statement, and also at the end of
the global code with a procedure after it, where a catch too few sends the search
into that procedure. `StackMatchesStatement`: the height at each instruction
is what its enclosing statements hold. `OperandsMatch`: the asserts of interp.c,
and instructions that read hidden values find them. `FollowsStatements`: the
refinement. `OnlyComparisonsStray`: no frame leaves the instructions of its
procedure (the search for OP_catch has no end test, and procedures share one array)
by any step but a failing comparison of a For loop. `TypeOK` says besides the types that
the call depth is the number of frames. The scripts at the end of the code and the
calling ones run with failing comparisons, the others and again the calling
ones without (`Comparable`). With them `FollowsStatements` says nothing and
`StaysInProcedure` is false, which `vm_unwind` shows; the other properties hold.

**objects.** One variable and three objects, with or without terminator, each
terminator any script. Three allow a cycle with something hanging off it and
something referring to it. `RefsCounted`, `NothingDangles`, `NothingLeaks`,
`TerminatorSeesWhole` (every terminator runs before anything is taken apart).
Deadlock is checked: every stack of calls can be finished.

**dictionary.** Five keys: Empty and the string it matches, a string in two
cases, an object whose hash shares the bucket of one of them; items that run a
script when they are released; three pairs, three calls under way, one
enumerator (enumerators do not interact with each other). `BucketsSound`
(with the count, and that every pair is found under its key), `NothingStale`,
`KeepsOrderedMap`.

**names.** Three items (visible with the name of a builtin; global members;
code only), two names, one of them a builtin and the other a property of every
item, three kinds of text that declare the names as variables, as a constant and
a procedure, and as a procedure and a class, three texts in a session, two
running scripts. A third text is what it takes to redeclare a redeclaration;
a text, a lookup that caches and a text that redeclares fit too.
`SlotsMatchEntries`, `LookupsAreFresh`, `DispatchOnlyGrows`, `DeclarationsStand`. The
last has three parts: variables and procedures that were declared are found; a text
that passed the collision check collides with no older code it sees, run or queued
(`OnlyExecuteCollides`); and `New` finds a text's own class from its scope, or one
that Execute or ExecuteGlobal put in front of it (`OnlyExecuteHidesClass`). Those
compile with `skip_collisions` (`global.c:4757`, 4802) and do define classes again: the
run has both an executed class that hides an accepted text's, and the reverse, a text
that was accepted while it waited and hides the class that an earlier text's script
executed meanwhile.

**regexp.** About 14 500 scripts. Every pattern of up to three of fourteen tokens,
every one of four that begins with a group, and alternatives of four, most of them
errors, searched in one string; every atom with every quantifier, in front of
something that makes it go back, in all strings of up to three characters;
IgnoreCase and Multiline with the tokens they change; objects used again after
their pattern or flags changed; replacements with every kind of `$`. Three
characters are enough for a quantifier to take too many, go back and try again,
and to leave a capture behind that must be forgotten. `AnswersAreMeant` compares
every answer with the reference. `MatcherSound`: the program is the one for the
pattern and flags of the call and fits the memory reserved, and the two stacks
agree as the code's assertions and unsigned subtractions assume. `CallsReturn`
under weak fairness of the matcher's own step (`Proceed`): it runs on one thread
and waits for nobody. Scripts end, so deadlock is not checked.

The scripts leave out the patterns where the code is known not to match ECMA-262:
an empty lookahead body (`regexp.c` 2711-2778: it fails), captures in a repeated or lazy
group (2983-2990), captures inside lookaheads that the collection of
submatches counts otherwise (`vbregexp.c` 247-275, 311-345), a replacement `$00`
(1652) and `$1` with no pattern, and what is described as an observation below.

**textstream.** Two streams on one file, opened in every mode and format and with
every combination of create and overwrite; a file that may be there at first with
two characters, a line end and another (three blocks); a text of one character of
two bytes; two streams opened and two texts written. The constants shrink the
code's sizes: the head read on opening and a block are two bytes (64
and 256), a stdio buffer four (4096), so that a line end and a character can lie
across two blocks and a text across two buffers; the disk has room for eight
bytes, which a line and a text in UTF-16 exceed. `ReadsText`: each reader
implements `TextReading`, whatever is done to the file meanwhile. `ReadBack`: what
was written one stream at a time in one format and closed is what the next reader
finds. `CallsReturn` under weak fairness of the read step, which waits for
nothing. The bounds on opening and writing stop the run, so deadlock is not
checked.

**arrays.** Three variables and three arrays, of one element, or two by one, or
two by two; indices up to two (one too many), one object put into a cell by a script
(copies make more of it), statements two deep below a terminator or a loop. An
array that is enumerated, a copy of it and one being built exist at once; two
dimensions are what strides and `Preserve` need. `TypeOK`: besides the types an
array is locked once per loop, resize and Erase under way. `NothingDangles`: every
reference is to an array that exists and has that cell, and no array has two
owners. `OnlyLockedArraysAreLost`: a variable that gets a new value frees its
array, unless it was locked. `ArraysAreFunctions`: the refinement. Deadlock is
checked: whatever is under way can be finished.

## What the host must not do

The code does not defend itself against everything, and the models leave out
what only a host or a script that ignores the rules below can do. They are
guards of the actions, or the switch `Careful`.

* *Engine* (`OuterCall`, `NestedCall`, `HasProcedures`). From a callback the host
  calls back on the thread it was called on; it calls script dispatches on the
  engine's thread; calls on an engine that no thread has claimed come one after
  the other, but for SetScriptSite, which threads may call at once; while a thread
  is in it no other resets an unclaimed engine, closes or releases it. The host does
  not end the session (Close, SetScriptState to UNINITIALIZED, the final Release)
  from inside a callback: the walk over the queue would go on with code that was freed, and `exec_script` with a site that is null. It may
  stop, start and parse there, and from a terminator parse and add items. After a
  SetScriptSite that failed it resets or closes the engine before it tries again,
  since the claim stays. After the final Release nothing is called. A reference
  that a script made with GetRef is not called after its session: unlike a script
  dispatch it keeps its pointer to the context (`vbdisp.c:1173`), and the script
  would run without a site.
* *Named items* are added before scripts run. A builtin that a script has used
  is cached in the tree of the global code, and a visible item of that name
  added later is not found.
* *Objects* (`Settled`, `Readable`, `MayDrop`, `MayCreate` in VbObjects). A
  terminator does not store to the location whose old value is being released,
  nor read an object from one that is being taken apart. While the engine closes, a
  terminator drops no last reference and creates nothing: the loop over the
  objects has already looked up the next one, and an object made by the
  last terminator would lose its class before its own terminator ran.
* *Dictionary* (`Free`, `MayChange`). A script that runs because an item or key is
  released does not remove the pair that is being assigned to, and changes
  nothing while a Key assignment or RemoveAll is under way. After RemoveAll an
  enumerator is reset or released before it is used again.
* *TextStream*. A stream that was closed is not asked for what needs its handle
  (what is left in its buffer may be read). WriteBlankLines, which alone does not
  check the mode, is not called on a stream opened for reading with create.
* *Arrays* (`Settled`, `ArraySettled`, `CellSettled`). A terminator that runs
  because an array is destroyed or erased, or a variable or an element gets a new
  value, does not set that variable, resize or free that array or set that
  element. An element passed by reference is a pointer into the cells that
  outlives the lock (`interp.c:630`); it is not used after its array was resized.

## Disagreements found

Each is a run that TLC must find violated, with the line of the repository that
states the property.

* `vm_unwind`. The comment at the search for an OP_catch says that the bytecode
  guarantees "that simple jump and stack adjustment will guarantee proper execution
  continuation" (`interp.c:3253`). When the values of a For loop cannot be compared,
  `do_for_step` itself jumps to the catch at the end of the loop and then fails, and
  the search starts behind that catch. Under On Error Resume Next, `For i = 1 To arr`
  with an array in `arr` skips the statement after the loop, and as the last
  statement goes on in the code of the next procedure, or past the end of the code.
* `objects_removal`. `collect_objects` uses the list macro "with safety
  against removal"; that is safe for the entry it is at, but the terminator it
  calls can free the next one.
* `names_dim_array`. `interp_dim` asserts that the variable of an array Dim
  exists. It does not when an earlier text has a procedure of that name: the
  declaration is skipped, as the comment in `exec_global_code` says ("keeps an
  existing variable or function of the same name").

Observations that no run is about, because what they contradict is no line of this
repository, or because a run that includes them could say nothing else:

* *Global and empty matches.* `Execute` and `Replace` with Global go on at the end
  of the last match, which an empty match does not move (`vbregexp.c:1448`, 1595):
  the call never returns.
* *Renaming to a key that matches two.* put_Key looks at the first match of the
  new key only. With pairs under `0` and `""` in this order, `0` can be renamed to
  Empty, although Empty matches `""`: "only collisions with a different pair are
  rejected" (`dictionary.c:765`), and this one is not.
* *Characters across blocks.* `TextStream` decodes each block by itself. In UTF-8 a
  character that lies across two blocks is broken in two unknown ones
  (`IsDBCSLeadByte`, which would keep it whole, is false for UTF-8).
* *A full disk.* What is in the C library's buffer when a stream is closed can be lost
  without an error.
* *WriteBlankLines on a reader* sets the file's error flag; later reads fail and
  lose a block.
* *Arrays under a loop.* ReDim, Erase or an assignment to a variable whose array a For
  Each enumerates leaves that array without an owner, since the refusal of
  SafeArrayDestroy is ignored: it leaks, but nothing dangles.
* *Execute in a procedure* with `Dim a(3)`, where a global `a` exists too,
  dimensions the global one: script variables are searched before those of the
  caller.

## Proofs

Proved with TLAPS, for every value of the constants that satisfies the assumption
of the module: any number of threads, codes, keys, names, arrays, and any bounds.

| Module | Theorem | Statement |
|---|---|---|
| ScriptEngineProofs | `TypeCorrect` | `Spec => []TypeOK` |
| | `AttachedIsOwnedAlways` | a site is attached only to a claimed engine with its script object; of threads in SetScriptSite only the owner attaches, its own site |
| | `ActiveHasSiteAlways` | an initialised or started engine has been through InitNew and has a site |
| | `RunningHasSiteAlways` | the site stays while a script runs |
| | `SiteInUseAlways` | `Spec => []SiteInUse`, the two before together |
| ScriptEngineSessionProofs | `NothingQueuedWhenStartedAlways` | a start leaves no code pending |
| | `RunsOncePerSessionAlways` | queued code runs once in a session |
| | `ItemsBoundToSessionAlways` | dispatches of an item belong to the site of the session |
| | `ClassListsSoundAlways` | class lists hold no class of freed code |
| | `PersistentCodeStaysEver` | persistent code leaves an engine only when it is closed |
| DictionaryProofs | `TypesAlways`, `BucketsSoundAlways`, `NothingStaleAlways` | list, buckets, hashes and count agree; enumerators and calls under way stand on pairs that exist |
| | `ImplementsOrderedMap` | every step is a step of OrderedMap or a stutter |
| VbNamespaceProofs | `TypesAlways`, `SlotsMatchAlways` | types; the entry of a name and its slot agree |
| | `DeclarationsStandAlways` | what was declared is found; accepted texts collide with nothing and `New` finds their classes, but for those that Execute declares again |
| | `LookupsAreFreshAlways` | caches never change what a name means |
| | `DispatchOnlyGrowsAlways` | a slot keeps its name for the session |
| VbObjectsProofs | `TypesAlways`, `RefsCountedAlways` | types, no count below zero; the count of an object is the number of its references |
| | `NothingDanglesAlways` | no location and no call refers to a freed object |
| | `NothingLeaksAlways` | after closing only what the host holds is left, cycles included |
| | `TerminatorSeesWholeEver` | a terminator finds its object's property whole; closing takes nothing apart before all have run |
| TextStreamProofs | `StreamsAreTyped` | types; only an open handle has bytes to write; a call that still fetches has its handle |
| | `StreamsReadText` | every stream implements TextReading, step by step |
| | `AlwaysKept` | while the text is known, file and writer's buffer hold it, encoded |
| | `StreamsAreReadBack` | what was written and closed is what the next reader finds |
| VbArraysProofs | `TypesAlways` | types; cells are as many as the bounds say; locks are counted |
| | `NothingDanglesAlways` | no reference to a freed array or a cell outside it |
| | `OnlyLockedArraysAreLostEver` | a variable's old array is freed unless it is locked |
| | `ArraysAreFunctionsAlways` | arrays are functions of their indices and loops visit each element once: VbArrays implements ArrayContents |

`ListFacts` has what these proofs need about sequences and the operators of the
community modules (the first place of a condition, removing an entry, reversed and
concatenated sequences, recursively defined sums), and set induction on the
natural numbers as a lemma without an operator parameter.

### Script engine

The invariant for types and sites is

    IInv == TypeOK /\ FramesSound /\ SiteHasOwner /\ FreeIsIdle
            /\ ActiveHasSite /\ RanHasSite

`SiteHasOwner` and `ActiveHasSite` are not inductive by themselves, because
half of an operation is remembered in a frame: the second half of SetScriptSite
attaches a site, which is right only because the claim made in its first half
still stands; the second half of a release drops the site, which is right only
because no script and no start is beneath it. `FramesSound` says of every frame on
the stack what it relies on: a site being attached is alone on the stack, the
engine claimed by a thread that is in SetScriptSite with that site, and no site
attached; a script and a start have a site; a start has been through InitNew; a release is the outermost operation, its target is the
state already, and no start is above it. `RanHasSite`, code has run only in a
session that is not over, is for `InvokeEx`, which asks for neither state nor
site: that the procedure it runs has a site follows from there being a procedure
to call. `FreeIsIdle`, while no thread owns the engine either nothing is under
way or no thread is in SetScriptSite, is for the claim, which looks at `thread_id` only:
what a thread saw of the site before is stale, and that an engine without an owner has
no site is `SiteHasOwner`. The rest of `AttachedIsOwned`, and `RunningHasSite`, follow from `FramesSound`.

The invariant for sessions is `SInv == IInv /\ QueueSound /\ OwnersSound`, and
`LinksSound` beside it. `QueueSound`: code that has run is not pending, code outside the
list is as it was made, and behind the cursor of a start nothing is pending: this is
what makes a nested start, and text parsed in the middle of one, safe.
`OwnersSound`: whoever has a script object is an item that a release will look at,
and dispatches are from the site that is attached or being attached. `LinksSound`:
the codes that ran can be ranked so that every link goes down, hence a class list
has an end; `ClassListsSound` speaks of what can be reached and follows by induction
along the chain. `EngineAssumption` asks for finitely many codes, since a rank is a
number.

### Dictionary

    IInv == TypeOK /\ ListInv /\ EnumeratorsSound /\ CallsSound /\ CallsNest

`ListInv` says that hashes are those of the keys, that list and buckets hold the
same pairs, that no two keys match and that the count is right. `CallsSound` says
what each C call under way keeps over the script it runs: the pair it is at, or
the pair it looked up before. `CallsNest` says what may be above it. The
refinement maps each place of the list to an entry of the ordered map; a removed
entry is below every enumerator that goes past it.

Two hypotheses, stated in the theorems: `Careful` (the rules
under [What the host must not do](#what-the-host-must-not-do)), and `OneDefault`: at
most one key besides Empty that Empty matches. The second is exactly the observation about
renaming below: with both `0` and `""` the claim is false of the code, which
looks only at the first match. The constants' assumption states what
`dictionary.c`'s hash and comparison have in common (keys that are equal have
equal hashes; Empty hashes like what it matches).

### Names

    IInv == TypeOK /\ WaitsIdle /\ SlotsMatchEntries /\ SlotsHaveEntries
            /\ CachesSound /\ LinkedSound
            /\ DeclarationsResolve /\ OnlyExecuteCollides

`SlotsMatchEntries` needs its converse for the slots in use, or a redeclaration
could leave a slot that no entry leads to. `CachesSound` says what a cached entry may
be: a property of the host in the tree of an item that asks its object, a builtin in
the tree of the global code while no visible item has its name. `WaitsIdle`:
nothing has run before the start. `LinkedSound`: the lists of classes hold the code
that has run, in its own dispatch. `OnlyExecuteCollides` is an invariant because the
check looks at the lists and at the queue; that `New` finds the right class
(`HidesFollows`) follows from it and `LinkedSound`, whatever the order in which
queued and executed texts were linked. No hypotheses.

### TextStream

The assumptions on the constants are those of the code's sizes and of what the model
abstracts: the head that is read on opening and a block are even and at least two
bytes (a character of a Unicode file never lies across two blocks), texts are
characters that a script can write, a Read is of at least one character
(`textstream_Read` returns at once otherwise). No other hypotheses.

`IInv` has the types and, of every stream, what `TypeOK` says (`StreamOK`), and that a
stream that is in use is one of a file that exists. That is what opening relies on: a
file that is created new has no stream on it, however often it is written to.

*Reading.* `StreamsReadText` is a refinement with one abstract stream for every
stream. What is left (`RestOf`) is the buffer and then the file behind the handle's
place, decoded in the blocks in which it is going to be read. Two lemmas carry the
proof. `BlockHidden`: to fetch a block moves its characters from the file to the buffer
and leaves `RestOf` as it is, so that the blocks of a call are stutters of
TextReading; it needs that `fread` returns the next bytes whatever stdio has read ahead
(`Reads`), and that a short block is the last. `HasText`: a call answers only when its buffer
holds what was asked for, or the end was seen and the buffer is all there is; the
position of the first line feed in the buffer is then that in all that is left. Whatever
another stream does to the file between two blocks is a `FileChanges` of this stream,
and one that has seen the end does not notice it.

*Reading back.* `ReadBack` compares a file with texts that were written long before.
Its invariant is

    Kept == history.whole => history.text \in Seq(Plain)
                             /\ \E u \in BOOLEAN, b \in {<<>>, BOM} : KeptAs(u, b)

`KeptAs(u, b)`: what was written is in one format u; there is at most one writer, and
it writes at the end of the file; the file and then the writer's buffer are the mark b
and the text's encoding. Each flush moves bytes from the one to the other. The rest is
about one step, the opening: the head is read and a mark skipped (`HeadIsRead`), and
decoding block by block is decoding the whole, if no block ends within a character
(`BlocksAreWhole`). That exception is the observation *Characters across blocks*.
`DecodeEncode`, decoding takes back encoding, is where a text must be of characters
that can be written.

### Arrays

    IInv == Sound(array, var, frames) /\ LocksCounted(array, frames)

`Sound` is, besides the types: a variable's array is its own, and by
reference only if its size is fixed (`VarSound`); a
frame's array exists, and has the size that the frame took down, although
scripts have run since; an assignment that waits for the release of an old value
finds it still in its variable, and its new value has an array that no variable
has (`FrameSound`); what a frame needs of those below it (`Above`); and two
pending assignments are to different variables (`FramesApart`).
`LocksCounted`, the lock count is the number of loops, resizes and Erases under
way, is what makes `SafeArrayDestroy` refuse exactly when it must. That an index
within the bounds is a cell is proved by induction over the dimensions. No hypotheses
besides the two assumptions, which ask for distinct names of the variables and that
`NoArray` is neither an array nor the contents of one.

The refinement maps an array to the function from its indices to its elements, and
the For Each frames to loops. That it is a function is arithmetic of the strides.
`SafeArrayPtrOfIndex` adds up one product per dimension; indices that differ get
different cells (`PlacesApart`, from `OneDigit` and `ChainInjective`) and every cell
has an index (`PlaceExists`, from `HasDigit` and `ChainOnto`), by induction over the
dimensions. `SafeArrayRedim` takes or adds cells at the end of the memory; this keeps
each element at its index (`PlacesResized`) because only the last dimension changes,
whose bounds are stored first and whose stride is the largest.

`Shown` is what the refinement needs besides `IInv`: every array has a shape that
a script can ask for, and still will when a shrinking under way is over, and
`Loops` is what the For Each frames show, in order. Each action is then one step of
ArrayContents, or none (the lemmas named `...Seen`). Two of them carry the argument:
an array that a loop is over is neither resized nor freed, since its lock is counted
(`NotLooped`, from `LocksCounted`), and EnumNext visits the index whose cell is next
(`NextSeen`).

### Class objects

    ObjectsInv == Sound(live, val, ref, host, calls)
                  /\ Base /\ Fresh /\ Accounted /\ Phases

An action here is several C statements: a release that may begin another call, a
store that holds two objects while it releases a third. `Sound` is therefore an
operator of the objects, the values, the counts and the calls, so that lemmas state
what one such step does to it (`SoundPush`, `SoundPop`, `SoundReleased`,
`SoundStore`, `SoundClear`, `SoundHost`, `SoundGrows`, `SoundShrinks`), and an action
is put together from them at intermediate states that are not states of the
specification.

`Sound` says that counts are the references there are (`CountsSound`) and that
nothing dangles (`Alive`), and what keeps these two going: which call may be under
which (`Nested`: the call above a store or a clear releases exactly the value
that the location still holds), that no location is being cleared twice and no object
released twice at the same time (`AllApart`), and that an object that is being taken apart has
no reference left (`Unused`). Together they give that a script never gets hold of
an object in its last release (`KnownLive`, `Refers`).

`Accounted` is what the absence of leaks needs: an object without references has a
release under way, or is still before the second loop of `collect_objects`.
`Phases` says how far closing has come: before it, objects have their class and
their place in the list; in the first loop, the calls are one of three short
stacks and every object before the loop's has run its terminator; after it, all terminators
have run, only releases are under way, and objects out of the list are empty.

One hypothesis, stated in the theorems: `Careful`, the rules under
[What the host must not do](#what-the-host-must-not-do). Without it the claims are
false of the code, which `objects_removal` shows for one of the rules.

### With TLC only

*Liveness* (`CallsReturn` of three modules): the prover does not support it. *The
interpreter and the regular expressions*: VbSyntax, VbFlow, VbCompile,
VbStatements, VbInterp and the four modules of regular expressions recurse over
trees with RECURSIVE operators, for which the prover has no induction.

## Not modelled

The table of the inventory gives the reason for each part that has no module. Most
of the repository's lines are such parts: Windows headers, tables of the locales,
generated dispatch tables, and functions of variants and strings that keep no
state. Inside the modelled parts: allocation failures everywhere (the memory of
the regular expressions' stacks included); script properties, safety options,
event sinks and AddTypeLib of the engine; arithmetic and the data of Err in the
interpreter; class members and parameterised properties of objects; the final
Release of a dictionary and the arrays of Keys and Items; what the sections on
RegExp, TextStream and arrays say. Of the hazards recorded in `PROJECT.json` six
have no property: two are duties of hosts and scripts (closing the engine from
inside a script, and a terminator that sets a variable whose array is being
destroyed), three are observations above, and DISPID 0 lies between VbNamespace
and a host's side of the dispatch that has no model.

## Plan

1. *Composition.* The script dispatch as the host sees it, over ScriptEngine and
   VbNamespace: DISPIDs across reset and Close.
2. *Algorithms.* Integer conversions and arithmetic with their overflow promotion
   (`variant.c`), formatting, and the enumeration of arrays in arrays.
3. *Proofs.* VbInterp and VbRegexp, once their trees are numbered and the RECURSIVE
   operators are recursive functions on the numbers.
