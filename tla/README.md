# C-to-X86-Compiler in TLA+

A model of the compiler in this repository: its passes as state machines over
abstract data (characters, tokens, trees, IR, machine code), checked with TLC on small
instances, and theorems about the lexer, the parser, the analyzer, the generator, the optimizer,
the back end and the driver proved with TLAPS for every instance. Paths in this file are relative to the repository.

The compiler is sequential. What is hard about it is not concurrency but state
that outlives its use: a register table that one block fills and another one reads, a
table of names that knows no scopes, an insertion point that moves during a
recursive visit, raw pointers to things that a pass frees, and error paths that
leave a pass in the middle of what it was doing. So the models keep all of the
control (order of visits, of mentions of operands, early returns, error paths) and
abstract the data.

## 1. Inventory

| part | source | state it keeps | operations |
|---|---|---|---|
| driver | `src/driver/main.cpp` | flags, input files, one `DiagnosticEngine` for all files, `hadErrors`, `asmFiles` | per file: read, lex, parse, analyze, generate, optimize, emit; then link |
| diagnostics | `include/diagnostics/DiagnosticEngine.h` | list of diagnostics, the current source text | `setSource`, `report`, `hasErrors`, `printSourceLine` |
| lexer | `src/lexer/Lexer.cpp` | offset, line, column, one token of lookahead | `next`, `peek` |
| preprocessor | `src/preprocessor/Preprocessor.cpp` (in no build target) | macro table, stack of conditionals, token buffer | `next`, `peek`, directives |
| parser | `src/parser/Parser.cpp` | current token, C++ stack of parse functions | recursive descent, precedence climbing, panic-mode recovery |
| syntax tree | `include/ast/**` | the tree | visitors; `ASTPrinter` |
| types | `include/types/**` | - | constructors, comparisons; hardly used |
| semantic analyzer | `src/sema/SemanticAnalyzer.cpp`, `include/sema/**` | chain of scopes, `currentReturnType` | one visit method per node class |
| IR | `include/ir/**` | module, functions, blocks, instructions (raw pointers to operands) | `IRBuilder::create*`, `insert`, `createBasicBlock`, `removeInstruction` |
| IR generator | `src/ir/IRGenerator.cpp` | `currentFunction`, insertion point, `namedValues`, `lastValue` | one visit method per node class |
| optimizer | `include/opt/**` | the module; use counts, instructions to remove | constant folding and dead-code elimination until nothing changes |
| back end | `src/codegen/X86Backend.cpp`, `include/codegen/**` | `valueToRegister`, `freeRegisters`, `stackOffsets`, `lastUses`, machine instructions | lowering of functions, blocks and instructions; allocation, spilling, release |
| legacy prototype | `legacy/**` | - | an earlier monolithic compiler, kept for history |
| tests | `tests/**`, `test_*.cpp` | - | one lexer test is built; example programs |

How they interact: `main` runs the passes one after the other on each file; a
pass hands its product (tokens by `TokenStream::next`, tree, module) to the next one by
pointer; all of them report to the one `DiagnosticEngine`, whose `hasErrors()`
decides whether the next pass runs. The analyzer tells the generator one thing, in
the tree: `VariableExpr::isField`. The optimizer rewrites the module in place.
The back end writes assembly, which `gcc` assembles and links.

What makes each part correct:

- lexer: every token is the longest lexeme at its place, nothing is dropped between two
  of them; lookahead neither loses, repeats nor reports twice; a token's caret stands
  below its first character (one behind the quote of a literal), and that of an unexpected
  character one behind it, where the lexer is by then.
- preprocessor: what comes out is what the file means line by line, whatever the order
  of `peek` and `next`; every call is answered; faulty directives are reported once.
- parser: it terminates on every token sequence; it accepts nothing that is not of the
  documented language (README.md:96-101), and reports no error for what is, unless the text
  uses pointers, arrays or unary operators, which it does not know (section 3); the tree groups
  by precedence and loses nothing, parameters included; after an error it recovers.
- semantic analyzer: scopes are balanced whatever is visited; exactly the
  redeclarations, undeclared names and missing return values that the source has are reported,
  but for parameters, `void` functions and returns behind an inner function, of which it does
  not know enough (section 3); field uses are told from others.
- IR generator: what the back end takes for granted of a module; every block
  ends in a branch; accepted programs mean the same as their source.
- optimizer: meaning is kept, no operand dangles, the rounds end, in a fixpoint.
- back end: registers are neither leaked nor shared, slots do not overlap, no
  register is taken from a value that is still used, all code emitted is encodable;
  the code computes what the IR says and keeps to the ABI.
- driver: what is linked is complete and fresh, the exit status tells what happened,
  the flags stop the pipeline where they say.

The hazards of each part are listed, with their lines, in `PROJECT.json`.

## 2. Modules

| module | models | notes |
|---|---|---|
| `IR` | `include/ir/**` as data | operands are immediates or references; blocks by position |
| `IRSemantics` | external: the meaning of IR functions, a reference | `Undef` for what was never written; int of `WordBits` bits |
| `X86Backend` | `X86Backend.cpp`, whole | one action per kind of instruction: placing operands, emitting, releasing |
| `X86Run` | `X86Backend` composed with gcc and the processor | external part: assembling (`Assemble`) and executing the emitted code |
| `Contract` | abstract specification of a compiled program | stops iff its source does, with the same result |
| `X86BackendProofs` | - | theorems about `X86Backend` and `X86Run` |
| `Optimizer` | `PassManager`, `ConstantFoldingPass`, `DeadCodeEliminationPass` | one action per instruction visited |
| `OptimizerProofs` | - | theorems about `Optimizer` |
| `DiagnosticEngine` | `DiagnosticEngine.h` | the list of reports, where the caret is printed |
| `TokenStream` | the interface of that name in `include/lexer/Token.h` | abstract specification: what `next` and `peek` promise |
| `Lexer` | `Lexer.cpp`, whole | implements `TokenStream` (`StreamKept`) |
| `LexerProofs` | - | theorems about `Lexer` |
| `Preprocessor` | `Preprocessor.cpp`, whole | on a stream that keeps the promise of `TokenStream` |
| `Preprocessing` | what a file means, line by line | reference for `Preprocessor`; recursive |
| `AST` | `include/ast/**` as data | an arena of nodes in the order of the source, functions with their parameters and with the return type that the source gives them; `WellShaped`, `IsTree` |
| `Parser` | `Parser.cpp`, whole | one action per decision; the C++ stack is the list `tasks` |
| `ParserProofs` | - | theorems about `Parser` |
| `Grammar` | the language that README.md:96-101 lists, pointers, arrays and unary operators included | reference for `LanguageAccepted`; recursive |
| `SemanticAnalyzer` | `SemanticAnalyzer.cpp`, `Scope.h` | visits as tasks |
| `SemanticProofs` | - | theorems about `SemanticAnalyzer` |
| `IRGenerator` | `IRGenerator.cpp`, `IRBuilder.h` | visits as tasks that carry the locals of the method |
| `IRGeneratorProofs` | - | theorems about `IRGenerator` |
| `IRLemmas` | - | lemmas about modules of the IR as data, for both proofs that rewrite one |
| `SourceSemantics` | C++ semantics of the subset that is generated | external reference; recursive |
| `Driver` | `main.cpp`: arguments, the loop over files, exit status, linking, uncaught exceptions | what a pass finds in a file is a constant |
| `DriverProofs` | - | theorems about `Driver` |
| `Frontend` | analyzer and generator in sequence on one tree | `INSTANCE`s both |
| `Compiler` | the way of one file from its tree to the program that runs | `Frontend`, `Optimizer` and `X86Run` on one module |
| `MC*`, `Programs`, `SourcePrograms` | instances for TLC | |

Composition: `Frontend` instantiates `SemanticAnalyzer` and `IRGenerator` on the same
tree; `Compiler` extends it by `Optimizer` and `X86Run`, which work in turn on the module
that the generator left. `Lexer` implements `TokenStream`, and `Preprocessor` stands on such
a stream and is compared with one again. `X86Run` extends `X86Backend` by the machine that runs its output and
is shown to implement `Contract` by the refinement mapping `Seen`. The
assumption of the back end about modules (`ModulesAssumption` in `X86Backend`) is
part of the invariant `BackendAssumption` of `IRGenerator`, which `MadeForBackend` proves, and
`StaysFit` proves that the optimizer keeps it. `Driver` stands apart: what the passes make of a file is a constant there, and its
`Unfoldable` and `Unlowerable` files are those for which `Compiler` ends in `Aborted`.

Recursion of the C++ code is modelled by an explicit list of what is still to be done
(`tasks`), next task first, so that every step of a visit is a step of the model
and state can be observed in between.

### From code to model

- `Lexer`: a file is a sequence of characters, and a step is a call of `next` or `peek`.
  What `advanceToken` does at an offset is a function of the source (`Lexeme`: kind, text,
  where the token ends); line and column are moved over the characters passed by `AdvanceTo`,
  as `nextChar` and `match` move them. `tokens` holds what a lexer without lookahead makes of
  the file, for `StreamKept` to compare with.
- `Preprocessor`: a step is one turn of the loop in `advanceToken`; `calling` is the call
  in progress. A name is a string, an expansion waits in `buffer`. `meaning` is computed once,
  from the input, by `Preprocessing`, and no action reads it.
- `X86Backend`: `valueToRegister`, `freeRegisters`, `stackOffsets`,
  `currentStackOffset` are the record `ra`; `getOperandForValue` is `Place` (its
  effect) and `OperandIn` (its result); `freeDeadRegisters` is `Release` for each
  operand in turn; `computeLiveness` is a function of the block's code. Constants are
  told from other values by their spelling, as the code does. `Ints` are the numbers that
  `std::stoi` converts; at any other one the exception ends the program (`Terminate`).
- `Optimizer`: the two nested loops over functions, blocks and instructions are the
  cursor `fn, bb, i`; `toRemove` is emptied after the walk over a block.
- `Parser`: `stream` is the position with the set of positions at which an error was
  reported; a task holds the locals of a parse function; `ret` is the value that
  the last call returned. One token kind stands for all that the parser treats
  alike (`Types` for `int`, `float` and `void`, one operator per precedence level
  used). A parameter is a node without children, as the name of a variable is.
- `SemanticAnalyzer`: `scopes` is the chain of scopes, innermost first. The analyzer sets one
  type, `int`, and reads only whether `currentReturnType` is null. A function node has its
  parameters and its return type, `int` standing for every type of a value. No action reads
  either: the parser's `TypeNode` is an empty stub, so the return type is what the source says
  and the code has forgotten. The reference (`Faulty`) reads both.
- `IRGenerator`: `insertBlock` and `currentFunction` are positions in `module`; a
  freed instruction is one that was created without an insertion point, and what
  reading it does is nondeterministic. A visit method that has made blocks keeps them with
  the function they are of (`BlockTask`), as its `BasicBlock*` do: a function declared in a
  body leaves `currentFunction` at itself, and the method around it goes on in its own
  blocks. A branch into another function has the target `Elsewhere`.
- `Driver`: `argv` and `files` are what the two loops have not reached yet, `errors` is
  `diags.hasErrors()`; `stage` is the place in the loop body, and `Continue` the
  `continue` statement. `disk` remembers which source each assembly file was
  made from, or none: an exception in the back end (`Abort`) leaves the file open and
  empty. An exception that nothing catches is the status `"aborted"`.
- `Compiler`: a part begins when the one before it is done, under the condition that
  `main.cpp` puts between them (`!diags.hasErrors()` before the generator).

## 3. Runs

Passing runs (all TLC, all bounds in the MC modules):

| run | question | bounds and why they are enough |
|---|---|---|
| `backend` | the allocator's bookkeeping, encodable code, the frame opened, used and closed as the ABI asks | 2 registers, 3 variables, up to 24 temporaries; flat, branching and looping functions, two functions, also programs that are miscompiled and one with a literal beyond int: registers run out, values are spilled, released and placed again, and the code is executed; programs that spill 15, 16 and 17 values, so that the frame of 16 slots is full and then exceeded |
| `run_tame` | does emitted code compute what the IR says? | programs whose values stay in one block and fit the pool (`Tame`), which is where the allocator is right; the runs below show that it is wrong outside |
| `optimizer` | meaning, no dangling operand, fixpoint, termination | ints of 4 bits so that folds wrap; chains of dead code; a literal beyond int |
| `lexer` | longest lexemes, the promise of `TokenStream`, reports, and the character under each caret | every file of up to 3 characters of 19 that begin every kind of token, and of up to 5 of those that make comments, literals and numbers, which need more than 3; every order of `peek` and `next` |
| `preprocessor` | what the file means, faults reported once, every call answered | files of up to 5 lines with conditionals inside of each other, definitions and, up to 4 lines, their removal; up to 3 lines of every faulty directive; every order of `peek` and `next` |
| `parser` | termination, language, grouping, nothing lost | all sequences of up to 3 tokens; programs that use every construct with any one token changed, dropped or inserted, brackets, `for` and operators at every place among them; expressions of up to 5 operands over 4 levels with parentheses. An error is asked for where the text is not of the documented language, none where it is and holds neither pointers, arrays nor unary operators (`Implemented`); of these, which the parser refuses, see below |
| `sema` | scopes balanced, diagnostics and fields right | two names at every place of nested bodies, globals, records, parameters, and functions and prototypes declared in a body; functions that return `int` and `void`. `Diagnosed` is about every node but three kinds that the analyzer is known to judge wrongly (`AboutParameter`, `FromVoid`, `BehindInner`), see below |
| `generate` | what the back end assumes, blocks closed | statements nested to two levels, globals, members, fields; functions and prototypes declared in a body, in front of, inside and behind `if` and `while`. `TypeOK` is about all of them, `BackendAssumption` and `BlocksClosed` about programs that declare no function in a body (`NoLocalFunctions`): of the others both are false, see below |
| `compiler` | do source, IR and the program that runs mean the same, and does a compilation end? | ints of 4 bits, distinct names, the operators that are generated, two levels of statements, folds that wrap, literals beyond int. `MeaningDelivered` is about the modules of which the back end is right (`Lowerable`) |
| `driver` | complete linking, exit status, halting where asked | up to three arguments in every order, every flag, a file for each way to fail (lexer, parser, analyzer, an exception in optimizer or back end), a name that does not exist, one that cannot be written; no two inputs with one stem. `-ir` is expected to show what `-opt` does, see below |

Runs that end in a violation, each a disagreement between the code and what the
repository says of it (quoted in `PROJECT.json`, "findings"):

| run | what it shows |
|---|---|
| `run_loop` | `test_ctrl.cpp` never returns: liveness is per block, a loop variable loses its register |
| `frontend_shadowing` | an inner variable replaces the outer one of that name for good |

Further disagreements were met while modelling. Each has a configuration that
reproduces it (`tlc -config X.cfg M`), but none is among the runs of `PROJECT.json`,
which keep to the two with the longest way from cause to effect:

| configuration, module | property violated | what happens | source |
|---|---|---|---|
| `run_contradicted`, `MCX86Run` (with `-continue`) | `CalleeSavedKept` | `ebx` is overwritten and never saved (README.md:36, ABI lowering) | `X86Backend.cpp:104` |
| the same | `Assembles` | two `if` statements define the same labels | `X86Backend.cpp:186` |
| `lexer_contradicted`, `MCLexer` (with `-continue`) | `LiteralsWhole` | every string and character literal loses its first character (Lexer.cpp:149, "consume opening quote") | `Lexer.cpp:155` |
| the same | `CaretsUnderFaults` | the report of an unexpected character is placed after it was taken: its caret is one column to the right (README.md:14, carets); `CaretsPoint` says where the caret is | `Lexer.cpp:209` |
| the same | `CaretsAlwaysPoint` | an error at the end of a file that ends in a newline is printed with the first line of the file (README.md:14, source code context) | `DiagnosticEngine.h:97` |
| `preprocessor_line`, `MCPreprocessor` | `EveryFilePreprocessed` | a directive with nothing left on its line costs the line below | `Preprocessor.cpp:75` |
| `parser_contradicted`, `MCParser` (with `-continue`) | `ReportedOnce` | recovery skips a closing brace; later functions fail too (README.md:14, error recovery) | `Parser.cpp:79` |
| the same | `WholeLanguageAccepted` | pointers, arrays and unary operators are syntax errors (README.md:98, "pointers, arrays"; README.md:100, "unary operations") | `Parser.cpp:218`, `:358` |
| `sema_contradicted`, `MCSemanticAnalyzer` (with `-continue`) | `ParametersInScope` | every use of a parameter is reported as undeclared, and none as declared twice (SemanticAnalyzer.cpp:57, "TODO: add parameters to scope here") | `SemanticAnalyzer.cpp:59` |
| the same | `VoidMayReturn` | `void f() { return; }` is reported (SemanticAnalyzer.cpp:129, "Non-void function should return a value"; README.md:98, `void`) | `SemanticAnalyzer.cpp:45` |
| the same | `OuterTypeKept` | behind a function or prototype declared in a body, an empty return of the outer function is not reported (SemanticAnalyzer.cpp:129) | `SemanticAnalyzer.cpp:63` |
| `generate_contradicted`, `MCIRGenerator` (with `-continue`) | `OperandsPresent` | the loop of the README branches on a null operand | `IRGenerator.cpp:255` |
| the same | `TakenForGranted` | behind a prototype in a body, which the parser and the analyzer accept, an `if` puts its blocks into the prototype and branches out of the function | `IRGenerator.cpp:43`, `:96` |
| `driver_contradicted`, `MCDriver` (with `-continue`) | `FilesIndependent` | after one file with an error no later file is compiled (README.md:17) | `main.cpp:88` |
| the same | `IrUnoptimized` | `-ir` shows the optimized module (README.md:85, "unoptimized") | `main.cpp:112` |

Without a configuration of their own: `while (1)` compares an immediate with an immediate
(`X86Backend.cpp:146`); a spilled value that is given a register again
is not reloaded (`X86Backend.cpp:40`); the 17th spilled value lies below the 64-byte frame
(`X86Backend.cpp:62`; `StoresInFrame` is about code that names no more slots than that); `y = x = 3` is grouped from the left (`Parser.cpp:384`); `#else` is never recognised, since the
lexer makes a keyword of `else` and directives are identifiers; `peek()` puts the first token
of an expansion behind the others (`Preprocessor.cpp:59`); a `#` alone on its line is taken
together with the first token of the next one; an `#ifdef` or a block comment that is never
closed is not reported.

Deadlock checking is off where the program ends, which is every run but `preprocessor`, whose
caller may always ask again.

Fairness: liveness is checked of `Parser` (`Parses`), `Optimizer` (`Terminates`),
`Preprocessor` (`Responds`), `Compiler` (`Delivers`) and `X86Run` (`Contract` includes that a
program returns). In `Preprocessor` only `advanceToken` is fair: a call that has begun runs
on, but the parser need not make another one. Each of the others is a plain
sequential call, or a processor executing code, so weak fairness of the whole
next-state relation is what the hardware gives: as long as there is a next step,
it is taken. No fairness among alternatives is assumed.

Every property has a mutant in `PROJECT.json`: a plausible bug in a definition
(an operator with a name of its own, next to the right one) under which the run
finds the property violated.

## 4. Proofs

TLAPS proves, about `X86Backend`, for every set of values, every module that
satisfies `ModulesAssumption`, and every register pool without duplicates that
avoids the scratch registers (`PoolAssumption`):

- `TypeCorrect` (`Spec => []TypeOK`), `RegistersAreConserved`, `SlotsAreDisjoint`
  in `X86BackendProofs`. The inductive invariant `IInv` is `TypeOK` with
  `module \in Modules`, the position of the cursors inside the module, and `Sound(ra)`:
  the type of the allocation together with `PoolConserved` and `OwnSlots`. It is
  needed because a register's uniqueness depends on both the free list and the
  map; each of `Place` and `Release` is shown to preserve `Sound` in a lemma, and each
  lowering action is a composition of at most five of them.
- `RegistersHeldForUse` and `NoRegisterReleasedEarly`. The
  strengthening `HInv` adds `LastUsesKnown`: within a block, `lastUses` of what the block
  uses is its last use there, although entries of earlier blocks are never
  erased. The step proof shows that an instruction releases exactly those of its
  operands whose last use it is (`TurnOfInstruction`).

- `CodeIsEncodable`, for modules in which no number is stored to or branched on
  (`NoImmediateTargets`): every sequence that a lowering action emits has at most one operand in
  memory in each instruction. The hypothesis is needed, for `while (1)` makes the back end compare an
  immediate (section 3).

- `FrameIsRestored`, `MainReturnsToItsCaller` and `StoresStayInFrame`, about the machine that runs what was
  emitted (`X86Run`), for modules with a `main` (`HasMain`) from whose end control does not run into the
  function below (`MainIsLeft`: it ends in a branch or a return, or it is the last one). The last of them says
  what it says of code that names at most 16 slots: the 17th lies below the frame (section 3). The invariant
  `RunInv == IInv /\ FrameLaid /\ SlotsNamed /\ FrameKept` has a part for each of the two machines and one in between.
  `FrameLaid` says of the code while it is emitted that the code of `main` is one stretch (`Segment`): the prologue,
  then instructions that write to pool registers, scratch registers and slots at or below `rbp - 4` only
  (`Ordinary`), and whole epilogues; and that each block's label is in it. `SlotsNamed` says that
  there are as many bytes of slots as there are spilled values (`SlotsCounted`) and that the code names every slot
  handed out, so that the slots of the code bound how far down the allocator has counted. `FrameKept` says of the
  processor where `rsp` and `rbp` stand before each instruction of that stretch (`StackAt`): it enters
  an epilogue at its first instruction only, since what is jumped to is a label. The hypotheses hold of all modules of the
  run `backend`.

The proofs about `X86Backend` include the literals that end the program (`Ints`, `Terminate`):
an exception leaves the allocation as it was.

About `Lexer`, for every set of files (`SourcesAssumption`: sequences of characters) and every
choice of letters, digits and spaces that have nothing in common with each other or with the
punctuators and quotes (`ClassesAssumption`):

- `LookaheadInvisible` (`Lexer` implements `TokenStream`, `StreamKept`), `UnknownsReportedOnce`
  and `CaretsStandBelow` in `LexerProofs`. The invariant is
  `IInv == TypesOfLexer /\ InStream /\ EndKnown /\ ReportedOnce`: what was delivered followed by
  what is coming is what a lexer without lookahead makes of the file, where the token that was
  peeked at comes first; and behind the end of the file there is only the end of the file.
  A call maps to taking or showing the next token, or to a stutter behind the end.
  The carets rest on lemmas about `AdvanceTo`: line and column of an offset are the number of
  line ends before it and the distance from the last one; and every lexeme is placed where
  `StandsAt` says, scanner by scanner (`Taken`), which lasts for what was delivered, shown or
  reported (`Standing`).
- `TokensAreLongest`, for the files of which `MaximalMunch` speaks: no quotes, and every
  comment that begins ends. `LexemeAt` and `CommentAt` say character by character which
  stretches of the source are lexemes and comments, without a look at the lexer; each scanner's
  end is the greatest one at which such a stretch ends (`NamesAreLongest`, `NumbersAreLongest`,
  `PunctuatorsAreLongest`, `LongestComment`); `skipWhitespaceAndComments` ends where `Blank`
  does (`BlanksSkipped`: two different recursions over the same source, compared from the end
  of the file backwards); and from there `TokensMunched` goes token by token. What was
  delivered is the beginning of `TokensFrom[0]` (`IInv`), so the lookahead plays no part.
- The scanning functions are recursive. That such a function exists (`RecursionDefines`) and
  that it ends at or behind the place where it began is proved by taking the least
  counterexample (`WFMin` of the library): the induction theorems themselves take an
  operator as a parameter and cannot be used.

About `Parser`, for every set of token sequences that end in the end of the file and have it nowhere
else (`InputsAssumption`):

- `TreesAreBuilt`, `NothingIsLost` and `PrecedenceIsKept` in `ParserProofs`. None of them is inductive:
  they speak of finished trees, and a parser spends its time with unfinished ones.
  `Built` says that every node made is the child of exactly one other, or held by exactly one task,
  or was just returned (`Owned`), and that below the first task there are only tasks that go
  on with a returned value (`Line`); `Words`, that every name and literal that was passed without an error is in the
  tree, or a task remembers where it stood.
- For the grouping, `Stacked` says which tasks of an expression stand on which and at which
  token each began, and `Grouped` what holds of the tokens read since: parentheses are closed
  (`Closed`), and the operators outside of them bind no weaker than the caller asked for, nor than the
  operator that comes next (`Phrase`). When a binary node is made, the part on its left binds at least
  as tightly as its operator and the part on its right more tightly, which is `PrecedenceKept`. `Depth` counts
  parentheses by cardinalities; that it adds up over two parts (`DepthSplit`) is what lets the
  operators of the whole be taken from those of the parts (`Joined`).
- `ParsingIsLinear`, about `CountSpec`, which is `Spec` with a memory: `steps` counts the steps
  taken and holds none back. At most 13 are taken for every token come to, and the
  calls that are open are no more than what is left of these (`StepsBounded`). The
  argument is a budget: `Work` is what a function or a turn of a loop has still to do before
  it consumes a token, and a function that returns a node has consumed one and saved a
  part of it for its caller, which may be a loop that starts over (`Saved`). `Paid` says that the steps
  taken, what the function on top has still to do (`Now`) and what those below it have (`Owed`)
  are paid for by the tokens; `Pays` says it of one step, and has a lemma for each action. The turns
  that consume nothing are the ones to look at: after a null, `parse()` and `parseBlock()` go on behind
  `synchronize()`, which takes a token first unless the file has ended, and then they stop; and `parseBlock()` is
  only called in front of a brace (`BlockOpens`). This is the safety half of `Parses`: with the
  fairness of a plain call, and no step but those of `Next`, a bounded number of steps is an
  end.

About `SemanticAnalyzer`, for every set of names and every set of trees (`ProgramsAssumption`):

- `AnalyzerTypeCorrect` and `ScopesAreBalanced` in `SemanticProofs`. `ScopesBalanced` alone
  is not inductive: that a visit finds a scope to declare into follows
  from there being a leave task behind it. The invariant `IInv` therefore says that the
  *last* task is one that leaves a scope once the unit's visit has begun
  (`Balanced`), next to `TypeOK` and `ast \in Trees(Names)`. `ReplaceFirst` counts the leave
  tasks when the first task is replaced by others; `PlainVisit`, `EnteringVisit` and
  `LeavingVisit` are the three ways in which a visit method treats scopes, and
  every action is one of them.
- `FieldsAreResolved`: when the analysis ends, `isField` is set on exactly the variables whose
  name means a field by the tree alone (`InView`, `Meant`), which know neither scopes nor
  visits. The invariant `RInv` relates the two while the list of tasks runs down. `Walk` says that
  nodes are visited in the order of their numbers, `c` of them so far, that a pending
  end of a visit stands for a node around all that was visited since, and that every node that is
  still to come is below a pending visit. So the tasks tell which scopes are open (`OpenScopes`) and what was
  declared (`Declared`: a variable only behind its initializer). `Chain` says that the chain of
  scopes, innermost first, is those scopes, each with the first declaration of every name in it,
  and `Resolved` that fields and errors so far are those of the nodes visited and declared so far.
  `ViewFromHere` and `LookupFindsMeant` are the core: at a use of a name, what the tree has in
  view is what is declared in the open scopes, and `Scope::lookup` returns the one that is meant.
- `ErrorsAreThoseOfTheTree` (`Diagnosed`), for every tree, functions inside of functions included.
  `ReturnInv` adds that `currentReturnType` is set while the end of a function is pending behind
  whose head no other function was visited (`Alone`), and that the empty returns visited so far
  that stand in such a place (`Reachable`) were reported. The theorem is about exactly the nodes that
  `Diagnosed` is about.
- Both rest on `IsTree`, which says what the parser's trees are: the numbers of the nodes follow the
  source, and no name is `this`, a keyword of the lexer (`Lexer.cpp:21`). `AroundIsEnclosing`
  turns the recursive definition of the nodes around a node into a condition on the numbers in
  between, by a least counterexample.

About `IRGenerator`, for every set of names (`NamesAssumption`: names are strings, which of
literals the provers do not know, and `this` is one of them) and every set of analyzed trees
(`AnalyzedAssumption`), as long as they declare no function in a body (`NoLocalFunctions`). The
hypothesis is needed, and stands in every theorem: behind a prototype in a body branches do
leave their function (`generate_contradicted`). Of trees that declare one, `TypeOK` is
model-checked only.

- `GeneratorTypeCorrect` and `MadeForBackend` in `IRGeneratorProofs`. Neither is inductive:
  `lastValue` and `namedValues` outlive the function in which they were set, and a
  declaration without a body makes a function and clears nothing, so they may well hold values of
  another function than `currentFunction`. The invariant `IInv` therefore says that an operand in
  hand (`Fits`, `NamesGood`) belongs to the function of the insertion point, and `lastValue` as
  long as the next task reads it. It needs the shape of the list of tasks (`Line`): what follows
  a visit that opens a function is a declaration, what reads a value comes behind what
  yields it, and a statement or a list of blocks in hand means that the insertion point is
  in `currentFunction` (`InBody`). A step replaces the first task (`Replaced`) and
  adds to the module without taking anything from it (`Extends`); `Inserted`, `BlocksCreated` and
  `FunctionAppended` are the ways in which it does.
- `BlocksAreClosed`: every block but the insertion block ends in a branch or a return. `ShutInv`
  adds the exceptions that there are on the way: the blocks that the visits of enclosing `if` and `while`
  statements have made and still have to fill (`Waiting`) are empty, distinct, not the
  insertion block and in the function in hand; a function begins only when nothing waits.
- `ValuesMadeOnce`: an instruction that gives a value has a number, and no other instruction of the module
  has the same (`Numbered`). It is inductive together with `IInv`, which bounds the numbers in the module by
  `nextId`; what an action inserts is numbered from `nextId` on (`Fresh`, `NumberedInsert`). It
  says of values what the walks of the optimizer and the back end take for granted, namely that an
  address tells one instruction.
- `MadeForOptimizer` draws the line from `Spec` to what `Optimizer` assumes of its input, part by part
  (`NoId` is no value, `OncePerBlock`, `FitForBackend`, the types, `OperandsDefined`). The types without
  `NoId` and the definition of operands are stated under `OperandsPresent`: an operand that is null, as
  that of a branch on a comparison is (`generate_contradicted`), is not defined, and
  `MadeForBackend` says that it is the only kind that is not.

About `Optimizer`, for every module in which an instruction is told by the value it
defines and operands are defined (`ModulesAssumption`), and every width of int
(`WrapAssumption`: two to its power is a positive number, which the provers do not know):

- `TypeCorrect`, `NothingDangles` and `FixpointReached` in `OptimizerProofs`. The
  invariant is `IInv == TypeOK /\ Sound /\ Marks /\ Rounds`. `NoDangling` needs `Marks`: what
  waits in `toRemove` stands for one instruction each, of the block being walked, that
  nothing in the whole module uses, although the use counts were taken when the walk
  began and the module is rewritten while it goes on. `Fixpoint` needs `Rounds`: a round that
  has changed nothing yet has seen nothing to change in the part it has walked.
- `StaysFit`: branches inside of the function and uses behind their definitions
  (`FitForBackend`) hold of the module at every step. That is the `ModulesAssumption` of
  `X86Backend`, so its theorems hold of optimized modules. That
  generated modules are ones that `Optimizer` can be given is `MadeForOptimizer` above; of programs with a
  comparison, whose operand is null, the theorems about `Optimizer` say nothing.
- `RoundsAreBounded`: `PassManager::run` goes through at most one round more than the module that it was given has
  instructions. It is a theorem about `CountSpec`, which is `Spec` with a memory that holds no step back: the module at
  the beginning, the number of the round, and the places that the module had when the round began (`Places`). The
  invariant `Dwindles` says that a round which has changed something and removed nothing yet has something left
  to remove (`Doomed`): what was folded is used by nothing, and it is either marked or ahead of the walk
  that removes. It is the safety half of `Terminates`, for modules of every size; that each round comes to its end is left to TLC.

About `Driver`, for every set of command lines and every set of files that a pass refuses:

- `ExitStatusTells` and `HaltsWhereTold` in `DriverProofs`. The invariant `IInv` says what the
  way to a stage tells of the flags and of the current file (`StageReached`) and what
  `hadErrors` and the engine's errors owe to (`Verdicts`): errors are never cleared, so the
  file that is refused need not be the faulty one, but there is a faulty one.
- `LinkedIsComplete`, for command lines in which no two arguments have the same stem
  (`StemsApart`): `a.cpp` and `a.cc` do write the same file.

Only model-checked:

- liveness (weak fairness and ENABLED are out of the prover's reach): of `Parses` and `Terminates`
  the bounds of `ParsingIsLinear` and `RoundsAreBounded` are proved, that the last step
  comes is not;
- what is compared with a RECURSIVE operator, of which the prover's SMT translation knows nothing:
  `LanguageAccepted` (`Grammar`), the meaning of programs (`SourceSemantics`, with it
  `MeaningDelivered`), what a file means to the preprocessor (`Preprocessing`), the refinement of
  `Contract` and the meaning that the optimizer keeps (both run a recursive function for `Fuel`
  steps);
- what `Frontend` and `Compiler` say of the passes together.

## 5. Not modelled

- `ASTPrinter`, `Module::dump`, `MachineInstruction::toString`: layout of output.
- `include/types/**`: nothing reads a type but a null test.
- `legacy/**`: the prototype, kept for history and not built.
- build files.
- Within modelled parts: `Call` instructions (the generator never makes one),
  text of diagnostics, names of temporaries, `Lexer::makeToken` (called from nowhere), bytes
  from 0x80 on (what `isalpha` makes of a negative `char` is undefined), the spelling of
  floating literals in the back end.
- `MaximalMunch` leaves out files with quotes and with a comment that never ends; the
  lexer's own actions do not.
- `Preprocessor.cpp` is in no build target: its module models what the class does for
  whoever calls it, and nothing composes it with the parser.

## 6. Plan

Done: lexer and preprocessor as token streams; parser; analyzer; generator; optimizer;
back end, its machine and contract; the way of one file through all of them from the tree
on; driver; proofs about the lexer as a token stream, the trees the parser builds and the steps it
takes, the analyzer's scopes, fields and errors, what the generator makes, the optimizer, the
allocator, the frame of the running code and the driver. Next, in this order:

1. `Preprocessor`: `DirectivesReported` as a theorem. What the file means to it is a recursive
   definition, so the counting of reports has to be stated without it first.
2. `Optimizer`: that a round ends, with a budget like the one of `ParsingIsLinear`.
