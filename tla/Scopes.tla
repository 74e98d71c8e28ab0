------------------------------- MODULE Scopes -------------------------------
(***************************************************************************)
(* Names, as the compiler turns them into places at run time.              *)
(*                                                                         *)
(* Each function that is being compiled has a SymbolTable.  Define gives a *)
(* name the next index of its kind, Resolve finds it, through the tables   *)
(* of the functions around, and EnterScope and ExitScope begin and end     *)
(* blocks.  The actions are the handlers of the declarations, blocks and   *)
(* identifiers of a script, in the order of its text.                      *)
(*                                                                         *)
(* Next to its symbols a table has, as ghosts, what the text says          *)
(* (`blocks') and what the code emitted so far leaves in the frame that    *)
(* runs it (`slots').  A variable is the number of its declaration.        *)
(***************************************************************************)
EXTENDS Naturals, Sequences, SequencesExt, FiniteSetsExt

CONSTANTS
  Names,            \* names a script declares
  Libraries,        \* names of the native libraries, in order
  ParamCounts,      \* numbers of parameters of its functions
  None,             \* functionSymInfo.paramCount = -1, or no name
  MaxDeclarations,  \* bound on the variables of a script,
  MaxTables,        \* ... on the nesting of functions
  MaxBlocks,        \* ... and on that of blocks in a function
  Uses              \* what a script does that the compiler gets wrong:
                    \*   "siblings"   declares after a block that declared
                    \*   "deep"       names a variable two functions out
                    \*   "lambdas"    names one around from a lambda
                    \*   "overloads"  calls an overload from a namesake
                    \*   "callers"    makes closures in functions that are
                    \*                not called where they are declared

ASSUME ScopesAssumption ==
  /\ Libraries \in Seq(Names) /\ None \notin Names /\ None \notin Nat
  /\ ParamCounts \subseteq Nat
  /\ {MaxDeclarations, MaxTables, MaxBlocks} \subseteq Nat /\ Len(Libraries) <= MaxDeclarations
  /\ Uses \subseteq {"siblings", "deep", "lambdas", "overloads", "callers"}

VARIABLES
  tables,     \* mSymbolTable and what `enclosing' leads to, outermost first
  globals,    \* the variables in VM::mGlobalVariables, by index
  declared    \* how many variables there are so far

vars == <<tables, globals, declared>>

(* A slot or a place that holds no variable. *)
Nothing == 0

Symbol == [name : Names \cup {None}, params : ParamCounts \cup {None}, location : {"GLOBAL", "LOCAL"},
           index : Nat, scopeDepth : Nat, isCaptured : BOOLEAN]

Declaration == [name : Names, params : ParamCounts \cup {None}, variable : Nat]

Table == [symbols : Seq(Symbol), locals : Nat, depth : Nat, upvalues : Seq([location : Nat, depth : Nat]),
          kind : {"main", "function", "lambda"}, into : Symbol,
          blocks : Seq(Seq(Declaration)), slots : Seq(Nat), frame : Nat]

TypeOK ==
  /\ tables \in Seq(Table) /\ tables # <<>>
  /\ globals \in Seq(0..declared)
  /\ declared \in 0..MaxDeclarations

(* The symbol of slot 0, where a frame has the closure that runs. *)
Self(name, depth) ==
  [name |-> name, params |-> None, location |-> "LOCAL", index |-> 0, scopeDepth |-> depth, isCaptured |-> FALSE]

(* Compiler::ResetStatus *)
Start ==
  [symbols |-> <<Self(None, 0)>> \o [i \in DOMAIN Libraries |->
     [Self(Libraries[i], 0) EXCEPT !.location = "GLOBAL", !.index = i - 1]],
   locals |-> 1, depth |-> 0, upvalues |-> <<>>, kind |-> "main", into |-> Self(None, 0),
   blocks |-> <<[i \in DOMAIN Libraries |-> [name |-> Libraries[i], params |-> None, variable |-> i]]>>,
   slots |-> <<Nothing>>, frame |-> 0]

Init ==
  /\ tables = <<Start>>
  /\ globals = [i \in DOMAIN Libraries |-> i]
  /\ declared = Len(Libraries)

Here == Last(tables)
InBlock == Len(Here.blocks) > (IF Here.kind = "main" THEN 1 ELSE 2)

-----------------------------------------------------------------------------
(* SymbolTable *)

Compatible(p, q) == p = None \/ q = None \/ p = q

(* Mutant: a declaration in a block around counts too. *)
RedefinedAround(t, n, p) ==
  \E i \in DOMAIN t.symbols : t.symbols[i].name = n /\ Compatible(t.symbols[i].params, p)

(* Define refuses a name that the symbols since the last one of a block    *)
(* around have.                                                            *)
Redefined(t, n, p) ==
  \E i \in DOMAIN t.symbols :
    /\ t.symbols[i].name = n /\ Compatible(t.symbols[i].params, p)
    /\ \A j \in i..Len(t.symbols) : t.symbols[j].scopeDepth >= t.depth

(* The symbol that Define makes of it. *)
Defined(t, n, p, globalCount) ==
  [name |-> n, params |-> p, location |-> IF t.depth = 0 THEN "GLOBAL" ELSE "LOCAL",
   index |-> IF t.depth = 0 THEN globalCount ELSE t.locals, scopeDepth |-> t.depth, isCaptured |-> FALSE]

(* ... and the table with it.  In the text, v has that name from here on. *)
WithSymbol(t, symbol, v) ==
  [t EXCEPT !.symbols = Append(@, symbol),
            !.locals = IF symbol.location = "LOCAL" THEN @ + 1 ELSE @,
            !.blocks[Len(t.blocks)] =
              IF symbol.name = None THEN @ ELSE Append(@, [name |-> symbol.name, params |-> symbol.params, variable |-> v])]

(* Mutant: the depth of the symbol is not looked at. *)
FoundAnywhere(t, n, c) ==
  Max({0} \cup {i \in DOMAIN t.symbols : t.symbols[i].name = n /\ Compatible(t.symbols[i].params, c)})

(* The symbol Resolve finds in a table, 0 if none.  The functions here take   *)
(* no variable number of arguments; Resolve takes one that does for any call  *)
(* of its name, which CodeGen has (Named).                                    *)
Found(t, n, c) ==
  Max({0} \cup {i \in DOMAIN t.symbols :
                 /\ t.symbols[i].name = n /\ Compatible(t.symbols[i].params, c)
                 /\ t.symbols[i].scopeDepth <= t.depth})

(* The table it finds it in, 0 if none. *)
Home(n, c) == Max({0} \cup {k \in DOMAIN tables : Found(tables[k], n, c) # 0})

AddUpValue(t, location, depth) ==
  IF \E i \in DOMAIN t.upvalues : t.upvalues[i] = [location |-> location, depth |-> depth] THEN t
  ELSE [t EXCEPT !.upvalues = Append(@, [location |-> location, depth |-> depth])]

(* Mutant: the symbol is marked in the wrong table. *)
ResolvedMarkingLate(n, c) ==
  LET home   == Home(n, c)
      i      == Found(tables[home], n, c)
      symbol == tables[home].symbols[i]
  IN [k \in DOMAIN tables |->
        IF k = home /\ Len(tables) = home + 2
          THEN [tables[k] EXCEPT !.symbols[i].isCaptured = TRUE]
        ELSE IF k > home /\ symbol.location = "LOCAL"
          THEN AddUpValue(tables[k], symbol.index, k - 2)
        ELSE tables[k]]

(* What Resolve leaves: every table between has an upvalue with the index  *)
(* of the symbol, of the table around it.                                  *)
Resolved(n, c) ==
  LET home   == Home(n, c)
      i      == Found(tables[home], n, c)
      symbol == tables[home].symbols[i]
  IN [k \in DOMAIN tables |->
        IF k = home /\ Len(tables) = home + 1
          THEN [tables[k] EXCEPT !.symbols[i].isCaptured = TRUE]
        ELSE IF k > home /\ symbol.location = "LOCAL"
          THEN AddUpValue(tables[k], symbol.index, k - 2)
        ELSE tables[k]]

-----------------------------------------------------------------------------
(* What the script says, and what the code does *)

(* The variable a name stands for in the text: that of the last declaration *)
(* in the blocks around, None if there is none.                              *)
Lexical(n, c) ==
  LET all  == FlattenSeq([k \in DOMAIN tables |-> FlattenSeq(tables[k].blocks)])
      here == {i \in DOMAIN all : all[i].name = n /\ Compatible(all[i].params, c)}
  IN IF here = {} THEN None ELSE all[Max(here)].variable

Slot(t, i) == IF i < Len(t.slots) THEN t.slots[i + 1] ELSE Nothing

(* The variables the closures of these tables have captured.  OP_CLOSURE     *)
(* takes a slot of the frame that runs it if that has the right depth, and   *)
(* an upvalue of its closure otherwise; a lambda gets none.                  *)
Captured(ts) ==
  LET captured[k \in 1..Len(ts)] ==
        IF ts[k].kind # "function" THEN <<>>
        ELSE LET around == captured[k - 1] IN
             [j \in DOMAIN ts[k].upvalues |->
               LET u == ts[k].upvalues[j] IN
                 IF u.depth = ts[k - 1].frame THEN Slot(ts[k - 1], u.location)
                 ELSE IF u.location < Len(around) THEN around[u.location + 1]
                 ELSE Nothing]
  IN captured

(* The variable that the code for a name reads or writes, None if there is   *)
(* none because Resolve refuses the name.                                   *)
Meant(n, c) ==
  LET home   == Home(n, c)
      symbol == tables[home].symbols[Found(tables[home], n, c)]
      after  == Resolved(n, c)
      t      == Last(after)
      mine   == Captured(after)[Len(after)]
      j      == CHOOSE i \in DOMAIN t.upvalues : t.upvalues[i] = [location |-> symbol.index, depth |-> Len(after) - 2]
  IN IF home = 0 THEN None
     ELSE IF symbol.location = "GLOBAL"
       THEN (IF symbol.index < Len(globals) THEN globals[symbol.index + 1] ELSE Nothing)
     ELSE IF home = Len(tables) THEN Slot(t, symbol.index)
     ELSE IF j \in DOMAIN mine THEN mine[j] ELSE Nothing

(* The function whose local, parameter or self v is, 1 for the script's own. *)
Owner(v) ==
  Max({1} \cup {k \in DOMAIN tables :
                 \/ Slot(tables[k], 0) = v
                 \/ \E b \in DOMAIN tables[k].blocks : \E i \in DOMAIN tables[k].blocks[b] :
                      tables[k].blocks[b][i].variable = v})

IsGlobal(v) == Owner(v) = 1 /\ \E i \in DOMAIN tables[1].blocks[1] : tables[1].blocks[1][i].variable = v

(* The names a script may use here. *)
Nameable(n, c) ==
  LET v == Lexical(n, c)
      own == v = None \/ IsGlobal(v) \/ Owner(v) = Len(tables)
  IN /\ "deep" \in Uses \/ own \/ Owner(v) = Len(tables) - 1
     /\ "lambdas" \in Uses \/ own \/ Here.kind # "lambda"
     /\ "overloads" \in Uses \/ c = None
          \/ \A k \in 2..Len(tables) : tables[k].symbols[1].name = n => tables[k].into.params = c

(* A block with locals has ended: fewer are on the stack than were counted. *)
Spent == Here.locals # Len(Here.slots)

(* The names it may declare. *)
Declarable(n) ==
  \/ "siblings" \in Uses \/ ~Spent
  \/ Here.depth = 0 /\ \A i \in DOMAIN Here.symbols : Here.symbols[i].name = n => Here.symbols[i].scopeDepth = 0

-----------------------------------------------------------------------------
(* Handlers *)

(* A value becomes that of its symbol: EmitSymbol, and CompileVars, which   *)
(* leaves a local where it is.  Where slots and counts have drifted apart,   *)
(* EmitSymbol also writes above the top, which is not kept here.             *)
Stored(t, symbol, v) == IF symbol.location = "GLOBAL" THEN t ELSE [t EXCEPT !.slots = Append(@, v)]

GlobalsWith(symbol, v) ==
  IF symbol.location = "LOCAL" THEN globals
  ELSE [i \in 1..Max({Len(globals), symbol.index + 1}) |-> IF i = symbol.index + 1 THEN v ELSE globals[i]]

(* Mutant: the variable is not counted. *)
DeclareUncounted(n) ==
  LET v == declared + 1
      symbol == Defined(Here, n, None, Len(globals))
  IN /\ declared < MaxDeclarations /\ Declarable(n) /\ ~Redefined(Here, n, None)
     /\ tables' = [tables EXCEPT ![Len(tables)] = Stored(WithSymbol(Here, symbol, v), symbol, v)]
     /\ globals' = GlobalsWith(symbol, v)
     /\ UNCHANGED declared

(* CompileVars: a variable *)
Declare(n) ==
  LET v == declared + 1
      symbol == Defined(Here, n, None, Len(globals))
  IN /\ declared < MaxDeclarations /\ Declarable(n) /\ ~Redefined(Here, n, None)
     /\ tables' = [tables EXCEPT ![Len(tables)] = Stored(WithSymbol(Here, symbol, v), symbol, v)]
     /\ globals' = GlobalsWith(symbol, v)
     /\ declared' = v

(* The table of a function with these parameters: its slot 0 has v, it is  *)
(* entered for its body, and it will run under so many frames.             *)
NewTable(name, params, v, kind, into, frame) ==
  LET depth == Here.depth + 1
      Parameter(i) == [Self(params[i], depth) EXCEPT !.index = i]
  IN [symbols |-> <<Self(name, depth)>> \o [i \in DOMAIN params |-> Parameter(i)],
      locals |-> Len(params) + 1, depth |-> depth + 1, upvalues |-> <<>>, kind |-> kind, into |-> into,
      blocks |-> <<[i \in DOMAIN params |-> [name |-> params[i], params |-> None, variable |-> v + i]], <<>>>>,
      slots |-> <<v>> \o [i \in DOMAIN params |-> v + i], frame |-> frame]

(* Define refuses a parameter with the name of another, or of its function. *)
Parameters(name) ==
  {ps \in UNION {[1..p -> Names] : p \in ParamCounts} :
     /\ name \notin Range(ps)
     /\ \A i, j \in DOMAIN ps : ps[i] = ps[j] => i = j}

Frames == IF "callers" \in Uses THEN 1..MaxTables ELSE {Len(tables)}

(* CompileFunction, up to the body *)
BeginFunction(n, params) ==
  LET v == declared + 1
      symbol == Defined(Here, n, Len(params), Len(globals))
  IN /\ Len(tables) < MaxTables /\ v + Len(params) <= MaxDeclarations
     /\ Declarable(n) /\ ~Redefined(Here, n, Len(params))
     /\ \E frame \in Frames :
          tables' = Append([tables EXCEPT ![Len(tables)] = WithSymbol(Here, symbol, v)],
                           NewTable(n, params, v, "function", symbol, frame))
     /\ globals' = GlobalsWith(symbol, Nothing)
     /\ declared' = v + Len(params)

(* CompileLambdaExpr, up to the body.  The value is that of a variable n, or *)
(* is dropped.                                                               *)
BeginLambda(n, params) ==
  LET v == declared + 1
      symbol == IF n = None THEN Self(None, 0) ELSE Defined(Here, n, None, Len(globals))
  IN /\ Len(tables) < MaxTables /\ v + Len(params) <= MaxDeclarations
     /\ n # None => Declarable(n) /\ ~Redefined(Here, n, None)
     /\ \E frame \in Frames :
          tables' = Append(tables, NewTable(None, params, v, "lambda", symbol, frame))
     /\ declared' = v + Len(params)
     /\ UNCHANGED globals

(* ... after the body: OP_CLOSURE, and the variable has its value. *)
EndFunction ==
  LET symbol == Here.into
      v      == Here.slots[1]
      around == tables[Len(tables) - 1]
  IN /\ Here.kind # "main" /\ ~InBlock
     /\ IF symbol.name = None
          THEN tables' = Front(tables) /\ UNCHANGED globals
          ELSE /\ tables' = [Front(tables) EXCEPT ![Len(tables) - 1] =
                               Stored(IF Here.kind = "lambda" THEN WithSymbol(around, symbol, v) ELSE around, symbol, v)]
               /\ globals' = GlobalsWith(symbol, v)
     /\ UNCHANGED declared

(* CompileStmt of a block, up to its statements *)
EnterScope ==
  /\ Len(Here.blocks) < MaxBlocks
  /\ "siblings" \in Uses \/ ~Spent
  /\ tables' = [tables EXCEPT ![Len(tables)] = [Here EXCEPT !.depth = @ + 1, !.blocks = Append(@, <<>>)]]
  /\ UNCHANGED <<globals, declared>>

(* Mutant: the symbols are not marked. *)
ExitScopeUnmarked ==
  LET gone == {i \in DOMAIN Here.symbols : Here.symbols[i].location = "LOCAL" /\ Here.symbols[i].scopeDepth >= Here.depth}
  IN /\ InBlock
     /\ tables' = [tables EXCEPT ![Len(tables)] =
                     [Here EXCEPT !.depth = @ - 1, !.blocks = Front(@),
                                  !.slots = SubSeq(@, 1, Len(@) - Cardinality(gone))]]
     /\ UNCHANGED <<globals, declared>>

(* ... and after them: the locals that the block has left are popped, and   *)
(* their symbols marked as global to avoid a second pop.                     *)
ExitScope ==
  LET gone == {i \in DOMAIN Here.symbols : Here.symbols[i].location = "LOCAL" /\ Here.symbols[i].scopeDepth >= Here.depth}
      Marked(i) == IF i \in gone THEN [Here.symbols[i] EXCEPT !.location = "GLOBAL"] ELSE Here.symbols[i]
  IN /\ InBlock
     /\ tables' = [tables EXCEPT ![Len(tables)] =
                     [Here EXCEPT !.depth = @ - 1, !.blocks = Front(@),
                                  !.symbols = [i \in DOMAIN @ |-> Marked(i)],
                                  !.slots = SubSeq(@, 1, Len(@) - Cardinality(gone))]]
     /\ UNCHANGED <<globals, declared>>

(* CompileIdentifierExpr *)
Identifier(n, c) ==
  /\ Nameable(n, c) /\ Home(n, c) # 0
  /\ tables' = Resolved(n, c)
  /\ UNCHANGED <<globals, declared>>

(* The script is compiled, and another one begins. *)
Compile ==
  /\ Here.kind = "main" /\ ~InBlock
  /\ tables' = <<Start>>
  /\ globals' = [i \in DOMAIN Libraries |-> i]
  /\ declared' = Len(Libraries)

Next ==
  \/ \E n \in Names : Declare(n)
  \/ \E n \in Names : \E params \in Parameters(n) : BeginFunction(n, params)
  \/ \E n \in Names \cup {None} : \E params \in Parameters(None) : BeginLambda(n, params)
  \/ EndFunction
  \/ EnterScope
  \/ ExitScope
  \/ \E n \in Names, c \in ParamCounts \cup {None} : Identifier(n, c)
  \/ Compile

Spec == Init /\ [][Next]_vars

-----------------------------------------------------------------------------
(* Properties *)

(* Wherever a script may use a name, the code reads the variable that the    *)
(* text says, through whatever blocks, functions and closures are between;   *)
(* a name without a variable is refused (SymbolTable::Resolve, ExitScope,     *)
(* OP_CLOSURE).                                                              *)
ResolvesLexically ==
  \A n \in Names, c \in ParamCounts \cup {None} : Nameable(n, c) => Meant(n, c) = Lexical(n, c)

(* A declaration is refused if and only if its block has the name already    *)
(* (SymbolTable::Define, "Redefinition symbol").                             *)
RefusesRedefinitions ==
  \A n \in Names, p \in ParamCounts \cup {None} :
    Declarable(n) =>
      (Redefined(Here, n, p) <=> \E i \in DOMAIN Last(Here.blocks) :
                                   Last(Here.blocks)[i].name = n /\ Compatible(Last(Here.blocks)[i].params, p))

(* A frame's slots are the variables of the blocks that are open in it: the  *)
(* pops at the end of a block take its own variables and no other, once      *)
(* (ExitScope).  A function that is being compiled gets its slot at its end. *)
SlotsAreScopes ==
  \A k \in DOMAIN tables :
    LET t       == tables[k]
        blocks  == IF t.kind = "main" THEN Tail(t.blocks) ELSE t.blocks
        all     == FlattenSeq(blocks)
        pending == k < Len(tables) /\ tables[k + 1].kind = "function" /\ tables[k + 1].into.location = "LOCAL"
    IN /\ t.slots # <<>>
       /\ Tail(t.slots) = [i \in 1..(IF pending THEN Len(all) - 1 ELSE Len(all)) |-> all[i].variable]

(* A variable that a closure captures from the frame around is marked, so    *)
(* that the end of its block closes its upvalue (Symbol::isCaptured).         *)
CapturedIsMarked ==
  \A k \in 2..Len(tables) : tables[k].kind = "function" =>
    \A u \in Range(tables[k].upvalues) : \A s \in Range(tables[k - 1].symbols) :
      u.depth = k - 2 /\ s.location = "LOCAL" /\ s.index = u.location => s.isCaptured
=============================================================================
