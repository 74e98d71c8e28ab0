# Verification of CynicScript

CynicScript is a scripting language: a lexer and a parser make a syntax tree, a
few passes rewrite it, a compiler turns it into byte code, and a stack machine
runs the byte code over a heap that a mark-and-sweep collector looks after.
This directory models that program in TLA+, checks the models with TLC on small
instances, and proves the properties that matter most for instances of any size.

Everything runs in one thread. What makes the program hard is not concurrency
but *distance*: the compiler counts on a stack layout, a scope or a reference
that only holds if every instruction, call and collection that comes between
kept a discipline nobody states in one place.

## The parts of the system

| part | state it keeps | operations | hard because |
|---|---|---|---|
| Virtual machine (`VM.cpp`, `Allocator.cpp`) | value stack and its top, call frames, results remembered per function | the byte-code instructions, calls of five kinds, return, `VM::Run` | operands are there only because the compiler's count was right; calls rearrange the stack (packed arguments, cached results, constructors) |
| Allocator and collector (`Allocator.*`, `Object.*`) | the chain of objects, their marks, the gray objects, the open upvalues, the globals | `CreateObject` (constructs, may collect, then links), `GC` (mark roots, trace, sweep) | a collection may run inside any instruction that makes an object; objects made with a plain `new` are outside the chain |
| Upvalues (`Allocator.cpp`) | the list of open upvalues, sorted by slot | capture, close | two closures that capture a variable must share it, and keep sharing it after its slot is gone |
| Compiler: symbols and scopes (`Compiler.cpp`) | a symbol table per function, counts of locals, scope depth, captured variables | define, resolve, enter and leave a block or function | slots are counted at compile time and used at run time |
| Compiler: expressions and statements (`Compiler.cpp`) | code, constants, the pending break and continue jump | one `Compile...` function per kind of node; jumps patched later | one pending address for all jumps, counting that is postponed, byte-sized operands |
| Classes and members (`Object.*`, `VM.cpp`) | members with permissions, objects of the parents, constructors | make an object, look up, write, bind and call | several parents, answers that overwrite one another, permissions that go with values |
| Lexer (`Lexer.*`) | position, line and column, tokens | scan a token | characters read ahead, positions computed backwards |
| Parser (`Parser.*`, `Ast.h`) | the current token, tokens to leave alone | one function per construct; levels of precedence | what takes an operand depends on what stands around it |
| Tree passes (`ConstantFoldPass.*`, ...) | the tree | fold constants, report | folding must agree with the machine |
| Chunk, library, driver | byte code, native functions, options | write and print code, call natives, run a file or a prompt | mostly input and output |

How they interact: the driver calls lexer, parser, passes, compiler and
`VM::Run` in a row, once per file or per line of the prompt. The compiler and
the machine share function objects (byte code, constants, number of upvalues).
The machine calls the allocator for every object and for all stack operations;
the allocator reads the machine's stack and frames as roots.

## Modules

`CallStack` - the height of the value stack and the call frames. State: `top`
is `mStackTop`, `frames` is `mCallFrameStack`, `cached` the functions that
remember a result, `status` whether `VM::Run` is idle, running, or ended by an
error. One action per instruction that moves the top; instructions that leave
it are left out. A frame has a ghost field, `depth`: how many slots the
compiler counts on at this point of the function. An instruction is *enabled*
by what the compiler counts on and *changes* what is there; the properties say
that the two agree. Values are not modelled; kinds of values only where the
effect on the stack depends on them (`IndexedKinds`, `DestructuredKinds`). `StackChecks` is
the build: `PushStack`, `PopStack` and the end of `VM::Run` test the stack only where
`NDEBUG` is not defined (`Allocator.cpp:58-61`, `66-69`, `VM.cpp:28-31`); a release
build has none of these tests. There a value written behind the value stack makes the
status `"overrun"`, and one read below it `"corrupt"`; what the program does afterwards
nothing says, and both are ends of the model. `OP_ADD` and the instructions that move
the top by a number (`MoveStackTop`) test nothing in any build (`Moved`).

`Collector` - objects, the references between them, and the collector. State:
`heap` says whether an object is in the chain, off it (made with a plain
`new`), being made, freed or not there yet; `refs` what it refers to; the
stack, frames, open upvalues and a global variable are as in the code; `marked`
and `gray` are `Object::marked` and `mGrayObjects`; `phase` and `pending` are
where `CreateObject` and `GC` stand. The instructions are there by what they do
to references: values that are no objects are `Null`. `CreateObject` is three
steps, as in the code: construct (`Create`), perhaps collect
(`MarkRootObjects`, `MarkGrayObjects`, `Sweep`), link (`Link`, `LinkUpValue`).

Abstractions in `Collector`, and why they lose nothing that the properties tell
apart:

- `mBytesAllocated` is left out: any `CreateObject` may collect or not. The
  code collects at some of them, `CYS_GC_STRESS` at all.
- A gray object is taken from the back of `mGrayObjects` in the code; here all
  gray objects blacken in one wave. Nothing else runs in between, and marks only
  grow, so the set of marked objects at the end is the same.
- `Sweep` is one step: it calls nothing that can observe it.
- An identity is used once. The number of objects in an instance bounds the
  number of allocations, not of live objects.
- There is one global variable, and a function's constants are chosen by the
  instance.
- Which slots are variables is the compiler's, and left out. The end of a block is one
  action, `ExitScope(n, last)`: it takes *n* slots off, as `OP_POP` and
  `OP_CLOSE_UPVALUE` do without looking at what they take, and closes what the
  instruction for the last captured variable closes. That may be less than it takes (see
  the hazard at `Compiler.cpp:1476`): the upvalue then points above the top, at what
  `left` has kept, and sees what is pushed there next. The ghost `loose` says whether
  that has happened. Until then an operand has no open upvalue (`HasOperands`), since no
  closure captures one.
- References to variables (`OP_REF_*`) are left out.

Where the collector loses objects is controlled by three switches, all properties of
a script (or of how the program was built) and not of the code: `ReturnsObjects`
(functions return objects while `CYS_FUNCTION_CACHE_OPT` remembers them),
`PacksObjects` (objects are stored in the arrays of surplus arguments) and
`BindsTemporaries` (methods are named of objects that nothing else holds).
`WellBehaved` is a script with none of them. Each of them alone makes TLC violate
`NoDangling`. So does a block that leaves an upvalue open: the collector marks that
upvalue, but not what it points to above the top of the stack, and a reachable object is
freed. Such blocks are in the model and in the runs; it is the properties `NoDangling` and
`OpenOnStack` that claim nothing from the first one on (`~loose`).

`UpValues` - captured variables as the machine keeps them. State: the slots
with what they hold (`slots`, also above the top: a slot that is popped keeps
its value), `openList` (`mOpenUpValues` followed through `nextUpValue`),
`location` and `closed` of every `UpValueObject`, and `holds`, the upvalues in
the closures. `location[u] = 0` is `location = &closed`. The two walks of the
list are `Stop` (`CaptureUpValue`) and `Closing` (`ClosedUpValues`); both end
early and rely on the order of the list. `ExitScope` is what the compiler emits
at the end of a block: one instruction per variable, first to last, each of
which takes the *topmost* slot. The switch `AnyBlock` says whether the script
has blocks for which that goes wrong. A closure that captures a variable two
functions out is not modelled: `OP_CLOSURE` compares depths there in a way that
belongs to the compiler's scopes: `Scopes` does, in `Captured`.

`SharedVariables` - what captured variables promise: every variable has a set
of names (its slot, and the places in closures that captured it), all names of
it give one value, and it lives on when its slot is gone. `UpValues` implements
it: a name in use stands for the set of names that lead to the same slot or the
same closed upvalue (`SameNames`, `ValueNow`). Reading a variable is not an
action in either: the value of every name, at every moment, is part of the
refinement mapping.

`FunctionCache` - `CYS_FUNCTION_CACHE_OPT`. State: what each function remembers
(`caches`), the calls in progress with the hash each frame was given at the
call, and what the script's last call gave. A body is the calls it makes, one
after the other; its result is a record of all it can depend on (its function,
what the closure captured, its argument, what the inner calls gave, the effects
it sees), so that two results are equal only when no program could apart. Beside it, `expected` is the same call evaluated without caches
(`Evaluated`). Values hash as in `ValueHash` of `Hashing`, `kind ^ data`; the mixing of several
hashes in `HashValueList` is taken to be injective, which only makes the
property easier to satisfy, and an instance gives every call one argument.

`Scopes` - the compiler's symbol tables. State: `tables` is `mSymbolTable` with
the tables around it, one for each function that is being compiled, with the
symbols, the count of locals, the depth and the upvalues as in the code;
`globals` the machine's global variables. The actions are the handlers of
declarations, functions, lambdas, blocks and identifiers, in the order of a
text that TLC makes up as it goes; a declaration the compiler refuses ends a
compilation and is not taken. The specification side is in ghost fields: `blocks`
is what the text declares, block by block, and `Lexical` looks a name up in it
as a reader would. The run-time side is what the instructions emitted so far
leave: `slots` is the function's frame, `Captured` what `OP_CLOSURE` takes into
its closure, `Meant` the variable that `OP_GET_*` finds. A variable is the number
of its declaration; `Nothing` is a slot or place without one, and a name without
a variable is refused by both or by neither. A function that is being compiled
is read as one that also runs then: at the depth at which it is declared, except
for scripts that pass functions on.

`Uses` lists what a script may do that the compiler gets wrong: declare after a
block with locals (`siblings`), use a variable of a function two out (`deep`),
one around a lambda (`lambdas`), an overload of the function one is in
(`overloads`), and functions that make closures and are called from elsewhere
than where they are declared (`callers`). Any of them breaks `ResolvesLexically`,
and `scopes` has none. Functions with a variable number of parameters are not in
`Scopes`: `Resolve` takes them for any call of their name (`Compiler.cpp:100`), which
`Named` of `CodeGen` has and `scripts` runs.

`Lexing` - the scanner. State: the text, `mCurPos`, `mLine`, `mColumn` and the
tokens. A step is a whole call of `ScanToken`, one action per kind of thing a
token can begin with. `IsLexeme` and `TokensOf` say beside it what a text consists
of, without the order in which the scanner looks at characters; `Misread` names
the few texts the scanner reads otherwise. `Located` relates the position, the line and
the column of each token to the text and to one another.

`Parsing` - the parser, a pure algorithm: an operator per `Parse...` function, of
the tokens and a position, which gives the node and the position after it, or 0
once an error has been reported. The prefix, postfix and infix tables are `CASE`s
on the kind of the token. `for` becomes a `while` inside a block, `switch` and
`match` nested conditions, as in the code. `Grammar` is the other way round,
written from the levels in the comments of `Precedence` alone: the tokens and the
characters of a tree, with parentheses only where they are needed (`TextOf`,
`Written`). `FrontEnd` composes the two: it scans texts, and parses those that were
written from a tree.

`Values` - what the instructions compute, as operators on values. Integers stand
for the 64 bits of the code where they come nowhere near the limits; reals are
fractions. `Folding` is the constant folding pass as a rewriting of the tree,
node by node, with the nodes the pass leaves alone left alone. `CodeGen` is the
compiler for everything but classes and modules: the calls a
`Compile...` function makes are a list of steps (`Plan`), and a step changes the
compiler's state (`Step`); jumps, their patching, the pending break and continue,
the symbols, the ends of blocks and the postponed counting of `a++`
(`StatsPostfixExprs`) are all there. A function is compiled with tables of its own
(`OpenFunction`) and ends as a constant of the one around it (`CloseFunction`);
`Resolve` looks a name up through the tables `enclosing` and captures what it finds
there, and tells overloads apart by the number of arguments. An instruction is a code
with an operand instead of bytes.

`Interpreter` - a script from its text to its end. State: how far it has come, the
tree, the instructions, and the machine with its call frames, stack, captured
variables, globals, output and result. The driver's steps parse (`Parsing`, from the tokens
`Grammar` writes), fold and compile; then every instruction is an action.
`io.println` prints; `host.ask` stands for a function a program registers and
answers as it likes, so that loops run any number of times. Arrays and dictionaries
live in a heap, so that two variables can be names of one; a reference holds the
place of a variable or of an element (`SlotPlace`, `GlobalPlace`, `ElementPlace`),
where the code has a pointer to it. Destructuring packs and unpacks on the stack as
`OP_APPREGATE_RESOLVE` and its variant do. A call pushes a frame, with surplus
arguments packed in the slots (`CallVarArg`); a closure has its upvalues, each of which
is a slot of the stack until that goes (`CaptureAll`, `ClosedFrom`). The functions
remember no results here: the model is of a build without `CYS_FUNCTION_CACHE_OPT`,
and `FunctionCache` compares the two. `Meaning` is the
reference: what a script does, from the tree as it was written, with variables in
scopes and neither instructions nor a stack; a reference is an alias of a variable
by name, whatever slot it has, and a function is its node with the names around it, of
which it sees the variables themselves. It finds the element of an index by a definition
of its own (`Indexed`); the arithmetic of `Values`, the order of what a native does
to an array, and what prints are those of the machine, so that a mistake in them that
parser, folding and machine have in common is not seen.

`Members` - classes and objects. State: the classes of a script, the objects with
their members, permissions and the objects of their parents, the variables, and
the bound method that was named last. A class is instantiated by calling its
function, which calls those of its parents; a member is looked up in the object
and then in the parents' objects in the order of their names, and written to the
object itself; a constructor and three kinds of method bodies write `this.x`, copy
`base.x`, or call a method on the object of a parent. The ghost `written` is what
was written last through each object. The cache of results (`FunctionCache`) is
left out: `Members` is of a build with `CYS_FUNCTION_CACHE_OPT` switched off. The
build has it on unless told otherwise (`CMakeLists.txt:23`), and then the second `new`
of a class without arguments gives the first object, so that `ReadsConfined` does not
hold; its mutant, and `function_cache_objects`, show what happens then.

The `MC` modules give the constants values for TLC. `CallStackProofs`,
`CollectorProofs`, `UpValuesProofs`, `FunctionCacheProofs`, `ScopesProofs`,
`ScopesShapeProofs` and `LexingProofs` hold the theorems, `SequenceFacts` the lemmas
about numbers and sequences that the last four cite. `CallStack`, `Collector`,
`UpValues` and `FunctionCache` model one machine from four sides and share no
state: the stack of `Collector` and of `UpValues` is the
one whose height `CallStack` shows to be right, and the upvalues of `Collector`,
a function from slots, are the list that `UpValues` shows to behave like one.

## Runs

| run | what it shows |
|---|---|
| `callstack_typed` | in a build with `NDEBUG`, which tests nothing: in a well-typed program no instruction, whatever calls, packed arguments, cached results and constructors came before, lacks its operands; a recursion too deep comes to the end of the value stack before that of the frame stack; no value is taken that is not there, and one is left at the end; without break or continue out of blocks with locals the stack is exactly as tall as the compiler counts |
| `callstack_untyped` | even a program that loses operands, or leaves values behind, ends with exactly one value, in a build with the tests |
| `collector_closures` | closures and captured variables under collections at any allocation: until a block leaves an upvalue open on what it pops, nothing reachable is freed and no upvalue stays open on a slot that is gone; after it, too, no mark is left over and every collection ends |
| `collector_binds` | containers, cycles, bound methods and arrays of packed arguments, with results remembered: a collection frees exactly what is unreachable |
| `upvalues` | the list of open upvalues stays sorted, complete and below the top, and upvalues implement shared variables, if blocks end in a captured variable or have none |
| `upvalues_blocks` | *violation*: without that condition a closure sees the variable that takes the slot of its own |
| `function_cache` | recursive functions and functions that call others, with integers and Booleans of different hashes and no effects: a call gives what it gives without caches |
| `function_cache_objects` | *violation*: a function that makes an object gives the same object twice |
| `scopes` | every name of a script is compiled into an instruction that finds the variable it lexically stands for, at every point where it could be used; exactly the redefinitions within a block are refused; the slots of a frame are the variables of its open blocks; captured variables are marked for closing |
| `front_end` | every call of the scanner takes the longest piece of the text and appends the tokens it stands for; tokens know their place; a tree that is written out is parsed back, whatever construct stands in whatever other |
| `scripts` | parser, folding, compiler and machine together do what a script means: same output, same result, an error exactly where there is one, for any answers of a registered function; each statement begins with the slots the compiler counted, in whatever function; every script that runs ends |
| `members` | an object reads what the nearest class declares, or what was last written through it; constants never change, by whatever way; a step changes what is read of one object only |

Bounds. `CallStack`: stacks of 3 to 6 slots hold two nested frames with
operands, or as many minimal frames as slots, which is where overflow, the frame
bound and the copy-down of `OP_RETURN` meet; `MaxDepth`, `MaxArgs` and
`MaxCount` bound the branching, `MaxLocals` the locals a jump skips (0 where the
program is well-typed). `Collector`: 3 or 4 slots, two frames, and five or six
objects; every violation needs at most two collections and three allocations,
and every mutant is found within the same bounds. Symmetry is used over the
objects of `collector_binds`; `collector_closures` checks liveness, which it could hide.
`UpValues`: three slots, two upvalues and three places for them let two closures
share a variable while a third has another, in any order of capture, with
variables below, above and between; a third upvalue would need a third captured
variable, which the walks treat as they treat the second. `FunctionCache`: the
argument values include two integers and a Boolean, one function calls itself,
one is shared by two closures, a constructor runs in between; `MaxTicks` bounds
the effects and is 0 where there are none. `Scopes`: functions nested two deep
inside the script and two blocks within a function are the nesting at which a
capture passes over a block, a parameter or another function; two names, one of
them that of a library, can hide one another in every order, and parameter counts
0 and 1 tell overloads apart. Five variables, the library's included, fill a
table, its parent and a block at once. `FrontEnd`: every text up to five
characters of four alphabets, each of which has the characters that begin longer
tokens together; every expression of two nested constructs in every operand's
place, which is where precedence and the lists of tokens to leave alone meet, and
all pairs of statements. `Interpreter`: all expressions of two constructs printed,
one construct in every place of every statement, loops with all bodies of up
to three statements, breaks and continues included, and arrays and dictionaries that
are read and written in short sequences through two variables, a reference to a
variable, to an element, and several receivers at once; functions with all bodies of
two parts out of nine and a return, calls in every place, recursion, closures that are
made twice, share a variable, outlive it, or are made in a block or a loop, overloads,
arguments from none to one too many, functions as arguments, and references to
variables of the caller; `ConstantMax` is 24 for the 256
of the code, and one script fills it; `MaxAnswers` bounds the turns of the loops.
`Members`: a chain of three classes, two parents, and a diamond, with every way to
declare a member `x` in three classes; two variables; `MaxWritten` bounds the
members that are written, and one value is enough to tell it from those that are
declared. Symmetry is over the variables.

What the instances leave out because the compiler or the machine is known to get
it wrong is named where it is left out, and listed below under
disagreements: `Misread` and `HasBlock` for the front end, `WithoutPostfix`, `IsKept`, `Indices`
and `FunctionBodies` for scripts, `NothingHidden` for classes, `Uses`, `AnyBlock`, the
switches of the collector and the kinds, patterns and locals of `callstack_typed` for theirs.

Deadlock. The `Collector` runs set `CHECK_DEADLOCK FALSE`: a script ends (`phase
= "ended"`), and an instance runs out of object identities. The `CallStack` runs
do because an error ends the process; `front_end` and `scripts` do because a text
and a script end, and `members` because an error ends the process. The others have no
state without a successor, and TLC checks that.

Fairness. `collector_closures` assumes weak fairness of the collector's own steps:
`CreateObject` calls `GC` synchronously and nothing else runs until it returns, so
that the steps of a collection are always taken. Nothing is assumed about the
script there. `scripts` assumes weak fairness of the machine's instructions: the loop
of `VM::Execute` has no way out but a return and an error, and nothing runs beside it.
`Finishes` then depends on the jumps alone, since `host.ask` answers no in the end.

## Proofs

Checked by TLAPS for all values of the constants that satisfy the assumptions
of each module (`ConstantsAssumption`, `UpValuesAssumption`, `ScopesAssumption`,
`FunctionCacheAssumption`, `LexingAssumption`).

| theorem | property | of |
|---|---|---|
| `CallStackProofs!TypeCorrect` | `TypeOK` | every program and build |
| `AlwaysOneResult` | `OneResult` | every program and build |
| `OperandsAlwaysPresent`, `FramesAlwaysBounded`, `NeverUnderflow` | the same | well-typed programs, every build |
| `AlwaysAligned` | `Aligned` | well-counted programs, every build |
| `CollectorProofs!TypeCorrect` | `TypeOK` | every program |
| `AlwaysOpenOnStack` | `OpenOnStack` | every program, until a block leaves an upvalue open |
| `MarksStayClean` | `CleanMarks` | every program |
| `AlwaysCollected` | `GarbageCollected` | every program |
| `NeverDangling` | `NoDangling` | well-behaved programs, until a block leaves an upvalue open |
| `UpValuesProofs!TypeCorrect` | `TypeOK` | every script |
| `AlwaysSorted`, `ImplementsSharing` | `ListSorted`, `SharesVariables` | scripts with `~AnyBlock` |
| `AlwaysCoherent` | (of the abstract specification) | |
| `ScopesProofs!TypeCorrect` | `TypeOK` | every script, whatever it `Uses` |
| `FramesKeepTheirVariables` | `SlotsAreScopes` | scripts without `siblings` |
| `OneNameOneBlock` | `RefusesRedefinitions` | scripts without `siblings` |
| `CapturesAreMarked` | `CapturedIsMarked` | scripts without `siblings`, `deep` and `overloads` |
| `NamesMeanTheirVariables` | `ResolvesLexically` | scripts with none of `Uses` |
| `FunctionCacheProofs!TypeCorrect` | `TypeOK` | every script and hash |
| `AlwaysTransparent` | `Transparent` | scripts that are `Pure` and whose calls end |
| `LexingProofs!TokensAreLocated` | `Located` | texts without a `BreakInQuotes` |

`CallStackProofs`. None of the properties is inductive by itself. For every
program it is enough that the first frame starts at the bottom of the stack
(`Bottomed`), since the last `OP_RETURN` cuts back to it. For well-typed ones the
invariant is `Discipline`: the frames lie above one another, frame *i* keeps at
least slot *i - 1* for itself, and the slots the compiler counts on in a waiting
frame end where the next frame's slot 0 is. From it the number of frames is at
most the number of values, which is why the value stack ends first: where
`StackChecks` holds, in "Stack overflow.", and otherwise in `"overrun"`, so that no
frame is written behind `mCallFrameStack` *before* a value is written behind
`mValueStack`. Of what a release build does after that, nothing is claimed.
`Aligned` adds that an instruction leaves exactly, and
not at least, what the compiler expects: `WellCounted` names the three things a
script may do that leave more.

`CollectorProofs`. `Shaped` is inductive in every program. It has `OpenOnStack`, which
says nothing once a block has closed less than it takes (`loose`). What is proved is
that nothing else leaves an upvalue behind: not the other blocks, calls, returns, nor
allocations, for which `OpenUnderOperands` adds that the operands an instruction drops
after its allocation have no open upvalue. `TypeOK`, `CleanMarks` and
`GarbageCollected` hold with any blocks. The marks need two
facts about the phases of `GC`: a collection begins with no mark in the chain
(`Tidy`), and marks there only what the program gets to over marked objects
(`Traced`). `GarbageCollected` follows, since `Sweep` leaves marked objects their
references: whatever is left in the chain can still be reached after it.

`NoDangling` speaks of paths through the heap, which no
single step can see; the invariant `Sound` says instead that the set of objects
that are in the chain or off it contains the roots and is closed under
references (`Closed`), that objects off the chain only refer to objects off the
chain (`OffChain`: what is never traced again needs no tracing), that the
object being made refers only to roots and their children (`Anchored`: it is not
a root itself while `GC` runs), the tricolour invariant during tracing
(`Marking`), and where the frames lie (`Framed`). Each of the three switches of
`WellBehaved` breaks one conjunct; a block that leaves an upvalue open breaks `Closed`, for
the value it points to need not be a root, so that `Sound` claims these only where
`~loose`; a step to such a state comes from one (`LooseStays`).

`UpValuesProofs`. For scripts that satisfy `~AnyBlock`; `upvalues_blocks` shows
that the condition is needed, and `TypeOK` does not need it.
`TypeOK /\ ListSorted` is inductive, but only because the list is *complete*
(every object that points into the stack is on it): without that conjunct
`CaptureUpValue` could make a second upvalue for a slot. The lemmas `StopIs` and
`ClosingIs` say where the two walks end, `CaptureEffect` and `ClosedEffect` what
that does to the list. For the refinement, `SameIs` says that two names stand for
one variable exactly when they lead to the same slot or, when the slot is gone,
to the same upvalue; sortedness makes the upvalue of a slot unique, which is what
keeps two names together when their slot goes (`ClosedShares`). Each instruction
is then one step of `SharedVariables`, by `ShareShared`, `AssignShared` or
`LoseShared`. `AlwaysCoherent` says of that specification that the names of a variable
always agree, so that the refinement gives the same for the machine.

`ScopesProofs`. `TypeOK` of the symbol tables is not inductive: `ExitScope` pops as
many slots as it marks symbols as gone, and could pop more than there are. `Basic`
adds that the symbols that are still local are as many as the slots, one less while
a function waits for its value (`Counted`), that slot 0 has a symbol that is older
than every block (`HasSelf`), and what the end of a function stores (`Founded`).

`ScopesShapeProofs`. `Shaped` relates what the compiler keeps to what the text says:
the symbols that are not gone are, in order, those of the declarations in the open
blocks (`Placed`, by a witness: an increasing sequence of places in `mSymbols`), each
with the index of its variable and a depth that says which block it is of; a frame
has its variables' values in that order (`InFrame`), the global variables are those
of the outermost block (`GlobalsPlaced`), and a function is stored in the last
declaration of the table around it (`Joined`). `ExitedPlaced` is where the
marking of `ExitScope` is used, `DefinedHere` where the count of locals is. A
declaration after a block with locals breaks `Placed`; without `siblings` it happens
only outside all blocks, where variables are global. From `Shaped`, the slots of a
frame are the variables of its open blocks (`ShapedSlots`); and since the depths of
the symbols increase block by block, the walk of `Define` from the end of `mSymbols`
meets those of the last block and no other (`RedefinedIs`).

The code and the reader of the text look a name up in different ways: `Resolve` walks
the symbols of each table from the end, `Lexical` takes the last declaration of all
that are open. `LookedUp` says that both come to the same declaration: in a table, by
the order of the places in `Placed` (`FoundInTable`); between tables, since a name
that slot 0 of a function has is that of the last declaration around it (`Joined`);
an overload called from its namesake is where this fails. Whose variable that is
needs `InTextOrder`, inductive for every script: variables are numbered as the text
declares them, a function after all that is declared around it but itself. So each
belongs to one function (`OwnerIs`), and a local that a script may name is of the
function itself or of the one around it (`Near`). The rest is where the code looks:
in a slot (`LocalSlot`, from `InFrame`), among the globals (`GlobalPlace`), or among
the captures of its closure (`FoundCaptured`), where `OP_CLOSURE` took it from the
frame around, if that runs at its depth (`FramesInOrder`, the part that `callers`
breaks). `Captured` is a recursive function over the tables: `CapturingExists` shows,
by `Induction`, that there is one, and `CapturedIs` unfolds it once. `CapturedIsMarked`
is inductive next to these: only `Resolve` captures (`Continues` says what the other
handlers leave alone), and no two symbols share a slot (`OneLocal`), so that the
symbol which is marked is the one whose slot is captured.

`SequenceFacts`. The text's blocks are flattened with `FlattenSeq`, a recursive
function. The library's induction theorems take an operator as a parameter, which
the provers cannot instantiate, but a set will do: `Least` says that a set of numbers
has a least one, `Induction` and `InductionBetween` follow, and `FlattenIs` gives the
recursion, from which the other facts are derived.

`FunctionCacheProofs`. The reference, `Plain`, calls itself over the calls of a
script, which no library theorem does. `CallsEnd` says that calls have sizes that
are smaller inside (a script whose calls all end has such sizes: the number of calls
made); by induction over them a function that satisfies the recursion exists up to
every size, any two agree, and so `Plain` satisfies its definition (`PlainIs`).
`Faithful` is inductive: every frame has got what its body has without caches after as
many calls, each frame is of the next call of the one below, and what is remembered
for a hash is what every closure of the function gives for every argument with that
hash. The last needs each condition of `Pure` (no effects, no two arguments with one
hash, closures of one function captured the same), and every one of them is something
the code does not see to. That a constructor's frame has any hash is no condition:
nothing that is remembered for constructors is looked up.

`LexingProofs`. `Located` says nothing of the line and the column of the next character,
from which the next token gets its own. In the inductive invariant, `Counted`, the
line is one more than the breaks that have been read, and column and position of the
next character are as far apart as those of every token of its line. A step adds the
breaks it reads to the line (`BreaksAdd`); if it reads one, the line is over and no
token is on it but strings, and if it reads none, column and position move together
(`ReadKeeps`, with one lemma per kind of token on top). How far a step reads is
`SkipIs`, `SymbolEndIs` and `BlockEndIs`; the last is about a recursive function,
and is proved by induction over the characters that are left. The hypothesis leaves
out one thing the scanner does: a line break that is taken for a quoted character, or
for its second quote, is not counted. Nothing is assumed of comments without an end,
unknown characters or anything else in `Misread`.

Only model-checked: `TypeOK`, `LongestPiece` and `ParsedAsWritten` of `front_end`, and
the properties of `scripts` and `members`. What they compare is the result of recursion
over trees and classes, or of joining characters to strings, which the provers cannot
follow. `CollectionEnds` and `Finishes` are liveness properties under fairness, and out
of their reach, too.

## Disagreements found between the code and what it says

Two are counterexamples of violation runs, see `findings` in `PROJECT.json`: a
captured variable that is not the last of its block is popped open
(`upvalues_blocks`, `Compiler.cpp:1480`), and a function that makes an object gives the
same object for the same arguments (`function_cache_objects`, `VM.cpp:633`).

The others are conditions of the models: what a script must not do for the
properties to hold. Lifting a condition gives the counterexample.

- Functions are not in the collector's chain, stay marked from the first
  collection on and are not traced again, so that an object that a function
  returned and remembers is freed by the second collection while a later call
  still gives it (`Object.cpp:264-276`; `ReturnsObjects` of `Collector`). The arrays
  of packed arguments and temporaries that methods are named of fare alike
  (`PacksObjects`, `BindsTemporaries`), and so does what an upvalue refers to that a
  block has left open (`loose`).
- "Stack overflow." and "Stack underflow." are reported only where `NDEBUG` is not
  defined (`Allocator.cpp:58-61`, `66-69`): in a release build a recursion too deep
  writes behind the value stack (`StackChecks`).
- The symbols of a block that has ended stay as globals with the index of a slot, and
  a later block of the same depth finds them: `let x=7; {let x=1;}
  {io.println("{}",x);}` reads global number 1, a library (`Compiler.cpp:1490`;
  `siblings` of `Uses`). The other members of `Uses` are described with `Scopes`.
- One address is kept for a pending break and one for a continue, and an inner loop
  resets both: a second break in a loop, or one before an inner loop, keeps the
  placeholder for its distance (`Compiler.cpp:464`; `IsKept`). A jump out of a block
  leaves the block's locals on the stack (`MaxLocals` of `CallStack`).
- A postfix `++` is forgotten in a returned value, and emitted where it runs only on
  one of two ways, or after the jump, in the right operand of `&&` and `||`, in the
  branches of `?:`, `match` and `switch`, and at the end of a block that is an
  expression (`Compiler.cpp:1524`; `WithoutPostfix`).
- A block that is an expression pops its locals after its value was pushed
  (`Compiler.cpp:1027`): only a value that is the one local of the block survives.
- `^` and `~` are only computed by folding; the compiler emits `OP_BIT_XOR` not at
  all and `OP_BIT_NOT`, which the machine does not have. `+` on strings joins them in
  the wrong order at run time, and folding joins two strings whatever the operator
  between them.
- `if (false)` without an else becomes no node at all, which the compiler does not
  expect; `for (;;)` and a `match` without a default likewise.
- `return a, b, c` becomes an array whose elements are compiled from last to first, so
  that `examples/destructuring-assignment.cys` prints 60, 40, 20 where its comment says
  20, 40, 60 (`Compiler.cpp:881`).
- In `let [x, ...t] = [1, 2]` there are as many values as names, and `t` is the second
  value itself, not an array of what is left; with fewer it is an empty array, and names
  before it that get none are null (`VM.cpp:943-959`).
- A declaration of several names in a function takes the values in the wrong order:
  only those in a block of the script itself are reversed. `fn f(){ let [x,y]=[1,2];
  ... }` makes `x` 2 and `y` 1 (`Compiler.cpp:1205`).
- A captured variable that holds a reference is overwritten, where a local or a global
  one is written through to what it refers to (`VM.cpp:232-238`, against 194-225;
  `SetUpValue`).
- A lambda is ended with a return unless the second byte from its end says that there
  is one; that byte is the index of a token in an instruction with one operand, and
  stands for a return if it is 18 (`Compiler.cpp:1010`; `SeemsReturned`).
- An index that is a negative multiple of the size is refused although it counts
  from the end as the others do (`Utils.cpp:86`; `Indices` of `MCInterpreter` leaves it out). An index into what is not a container
  drops its operands without an error.
- A reference to false counts as true in a condition: `IsFalsey` looks at the
  reference. A copy of a reference (`let c = b`) is a second reference, not a
  copy of the value.
- `})` and `({` are scanned as one token each, so that a dictionary next to a
  parenthesis needs a blank between them (`Lexer.cpp:116`).
- A function that ends without a return gives itself: what it should give is
  chosen by `kind == kind == CONSTRUCTOR` (`Compiler.cpp:1150`).
- Members: of several parents the last one's answer counts, even where it is that
  there is none, so that in `examples/class-multi-inherit.cys` what only the first
  has cannot be found through an object further down (`Object.cpp:554`;
  `NothingHidden`). The permission goes with the value: after `a.x = a.c` with a constant
  `c`, `x` is constant, too (`VM.cpp:835`). `base` is looked up from the class of the
  receiver, not of the method (`Compiler.cpp:931`). An object reached as
  `a.Parent` is not the copy that `a.x = ...` writes to.
- `%=` is scanned as `%=` and `%`; a `*` next to the beginning or the end of a block
  comment may hide its end; the position of a string is off by its quotes
  (`Lexer.cpp:213`, `Lexer.cpp:342`); a line break in single quotes, or where the
  second one should be, is not counted as a line (`Lexer.cpp:447`; `BreakInQuotes`).

What the models of parser, compiler and machine do was compared with the built
program, built without `CYS_FUNCTION_CACHE_OPT`: 34675 ended paths of `Interpreter` were
written out as scripts, run, and gave the same output and the same kind of end.

## Not modelled

Of containers and references in scripts: copies of references, references in
conditions, as the container or the index of an element, within arrays or as
arguments of natives, and those that outlive their variable or an array that grows or
shrinks; the elements of strings; dictionaries whose keys are strings or reals; arrays
that contain themselves. Functions that capture from two functions out, lambdas that
capture, locals after a block that has some, overloads called from one another:
`Scopes` and `UpValues` have those. Classes in `CodeGen`: what they do is
modelled by itself, in `Members`, against what the others promise it. Modules and
enumerations. The widths of integers and symbol counts. Type annotations
and the passes that check them, import, and the code of the syntax tree itself,
which constructs and prints nodes. The serialization and the disassembly of chunks.
Files, options, formatted output and the natives' own results.

## Plan

1. *done* `CallStack`, `Collector` and their proofs.
2. *done* `UpValues`, shown and proved to implement `SharedVariables`.
3. *done* `FunctionCache`: a call answered from the cache against the call itself.
4. *done* `Scopes`: symbol tables, slots and captures against lexical scope.
5. *done* `Lexing`, `Parsing` and `Grammar`, composed in `FrontEnd`.
6. *done* `Values`, `Folding`, `CodeGen`, `Interpreter`, against `Meaning`.
7. *done* `Members`: lookup through several parents, writes and permissions.
8. *done* containers, indices, references and destructuring in `CodeGen`,
   `Interpreter` and `Meaning`.
9. *done* functions, closures, overloads and variadic parameters in `CodeGen`,
   `Interpreter` and `Meaning`.
10. *done* proofs of `Aligned`, `OneResult`, `OpenOnStack` and `GarbageCollected`;
    the slots and redefinitions of `Scopes`.
11. *done* proofs of `CapturedIsMarked` and `ResolvesLexically`, and of `Located`.
12. *done* a proof of `Transparent`; the hash of `FunctionCache` is a constant, and
    `Hashing` has the one of the code.
