# mCIL in TLA+

mCIL is an interpreter for the small language CIL: a lexer, a scanner that takes
function definitions out of the token stream, a recursive-descent parser, a
tree-walking interpreter and an LLVM backend that is written but not called.
Next to them stands a thread pool meant to run the stages as jobs. This
directory holds TLA+ models of the code under `src/mCIL`, the TLC
configurations that check them, and theorems about them that TLAPS proves.

    tlc -config InterpreterPrograms.cfg MCInterpreter.tla   # a run
    tlapm InterpreterProofs.tla                              # proofs

`PROJECT.json` lists the components, runs, mutants, theorems and hazards, and
names for every definition the lines of the source it models.

## 1. The system

    SourceFileManager -> Lexer -> Scanner -> Parser -> Interpreter (or LLVMBackend)
                                    |          |             |
                                    v          v             v
                               global SymbolTable       Environments, Values
    REPL: the same stages, line by line, one interpreter for all lines
    ErrorManager: all stages report to it; main stops after a stage with errors
    ThreadManager / JobQueue / Worker: the pool, used by no stage yet

| Component | State | Operations | What is hard | What makes it correct |
|---|---|---|---|---|
| Interpreter | `env_`, the C++ stack, the exception in flight | `run`, `run_single_statement`, one function per kind of statement and expression | `env_` is one pointer that every construct sets and restores by hand; exceptions skip the restoring | scopes nest, nothing dangles, the global scope survives, exceptions meet their handler |
| Environment, Object | name tables, `enclosing_` | define, get, assign, add/rem_enclosing, new, delete | objects splice their environment into the chain of scopes during an access | the chain ends; objects outlive the blocks they were made in |
| Thread pool | the queue, two mutexes, three condition variables, the workers' flags | `schedule_func`, `wait`, `wait_all`, destructor; `Worker::run` | the queue written without its mutex, notifications outside of it, flags cleared late | no job lost or run twice, `wait_all` waits long enough, jobs run, waits end |
| Parser | `current`, `func_level`, `loop_level`, `has_return_` | one function per production, `synchronize`, `parse_function` | errors thrown and caught in the middle of productions; token vectors without EOF; calls that parse | levels match the text, the parser stays in its tokens and ends |
| Scanner, SymbolTable | tokens, `current_`, local and global tables | `scan`, `scan_function`, `declare_*`, `make_table_global` | unfinished definitions at the end of the file; errors nobody catches; declarations before definitions | what is declared is what the text defines |
| Lexer | a line, an offset in it | `scan_file`, `next_token`, comments, recovery | comments across lines, the last line, invalid characters | it advances; tokens lie in order in their lines |
| Types, TypeTable | the table of type entries | `register_type`, `is_subtype_of` | one-byte ids, walks along parents | ids are unique, walks end |
| REPL | source lines, lexer, interpreter | `run` | what an error or a value leaves behind for the next line | each line is evaluated once |
| Diagnostics, Position | the error list, ranges | report, clear, ranges of tokens | reversed ranges | ranges cover what they are made of |
| Values | numbers, strings, objects, none | arithmetic, conversion, `++` | values shared by pointers and changed in place | an operation changes only its target |
| LLVM backend | insertion point, named values | `gen_*` | the insertion point after a function | code lands in its function |

main, the AST classes, the printer and the samples keep no state of interest.

## 2. The modules

| Module | What it is |
|---|---|
| `Environment` | heap of environments: tables, chains, lookups, allocation, deletion |
| `Interpreter` | the interpreter over that heap |
| `MCInterpreter` | kinds of programs for TLC |
| `InterpreterProofs` | lemmas on heaps, types and where `return` is caught; scopes, chains and objects |
| `JobPool` | what a pool promises: submit, start, finish |
| `ThreadManager` | the pool as coded; implements `JobPool` (`Pool == INSTANCE JobPool WITH ...`) |
| `MCThreadManager` | the client thread for TLC |
| `ThreadManagerProofs` | types and mutual exclusion of the pool, that it is a `JobPool` until a race, that `wait_all` waits long enough |
| `Parser` | the parser, its recovery, its counters, the parsers of called functions |
| `MCParser` | kinds of texts for TLC |
| `ParserProofs` | that the levels of every parser count what it is in, that the parser of a block reads its block |
| `SymbolTable` | operators: a table, declare, refuse, make global |
| `Scanner` | the scanner over the tokens of a file, with its table |
| `MCScanner` | files for TLC, with where functions were written in them |
| `Lexer` | the cursor over the lines of a file, the tokens as ranges |
| `MCLexer` | files for TLC, with where lexemes and comments were written in them |
| `ScannerProofs` | what the scanner hands to the parser; that it takes the functions out of a file as they were written |
| `LexerProofs` | ranges of tokens, where the lexer leaves its line; that it reads a file as it was written |
| `Operators` | operators: the language's values, what its operators make of them |
| `ValueStore` | what programs compute if every name has a value of its own |
| `Values` | values on the C++ heap, shared by pointers; implements `ValueStore` (`Store == INSTANCE ValueStore WITH ...`) |
| `MCValues` | literals and numbers for TLC |
| `ValuesProofs` | that `Values` implements `ValueStore`, its types, arrays and errors |
| `TypeTable` | the table of types, ids, the walk along super types |
| `Repl` | the loop of the REPL over source, errors and type table |
| `MCRepl` | types for TLC |
| `ReplProofs` | that the walk ends, which lines are read, dropped and shown, which values printed |
| `Backend` | the code generator |
| `MCBackend` | symmetry for TLC |
| `BackendProofs` | its types, where code goes, whose values it uses |

### Interpreter and Environment

The state is the C++ heap of environments (`heap`), `env_` (`env`), the C++
stack (`stack`), the exception in flight (`exc`), `error_ocurred`, and a history
of what went wrong (`events`). A frame stands for each function that catches an
exception or keeps a local environment pointer: `run_block_stmt`, the two loops,
`run_call_expr` (once while arguments are evaluated, once while the body runs)
and `run_access_expr`. An action is what such a function does between two calls
into the interpreter; unwinding leaves one frame per step, with the handler of
that frame. `delete` removes an address from `heap`: a dangling pointer is one
outside its domain.

The interpreted program is arbitrary: each step picks a statement or expression
that the parser would let stand there. So a property holds for every program.
This admits some programs that the real parser cannot process, as recursive global
functions, on which it overflows (see `Parser`). Where a run is to show what the code
does, they are left out: `InterpreterBreak` runs under `SpecNoRecursion`.

### ThreadManager

A step is what a thread does between two points that another thread can notice.
A condition variable is the set of threads that wait on it. `push_job` writes
the `std::priority_queue` without the mutex that `request_job` holds, so both
read the container, then write it back: when another write came between, the
outcome is that of the stale view or of the present queue, and `raced` is
recorded. What a race does to the heap's memory beyond that is not modelled.

### Parser

The parser's C++ stack is a sequence of items: tokens it expects, functions it
calls, handlers, and what it does to its counters in between. A production
replaces the item on top (`Replace`, `Take`), an error drops items down to the
handler (`Fail`, `Throw`). Tokens are chosen when they become current, so all
texts are explored at once. A call of a global function pushes another parser
over the tokens of its body: those of a block end with its brace, those of a
single statement with the first semicolon, and there is no EOF behind them
(`None` is the position behind the vector, and looking at it is `undefined`).

### Scanner and SymbolTable

A step is one turn of a loop of `scan`, `scan_function`, `scan_stmt` or
`scan_block`; `at` says which, `def` holds their locals. The file is a sequence
of tokens with EOF at its end, chosen in the initial state. An error ends the
process (`terminated`), for no function up to main catches it; a look behind the
tokens is `undefined`. The field `functions` of a file is what the properties compare
with, and no action looks at it: `Whole` says that the tokens hold functions there, as
the language has them, and no "def" elsewhere. The table is a function from names to the number of
parameters and the body; `MakeGlobal` merges it as `std::map::insert` does.

### Lexer

A step is one turn of the loop of `next_token`, or of that in `skip_comments`,
which reads lines of its own. Characters stand for their classes (one digit, one
invalid character); a token is its range. Errors are collected by
`ErrorManager::cil_error` and printed after the scan, so they do not move the
source. What lies behind the 0 of a line is not modelled: a cursor that gets
there is `astray`. The fields `lexemes` and `comments` of a file are what the
properties compare with, and no action looks at them: `LaidOut` says, by
the characters and with no reference to a cursor, that the lines hold lexemes and
comments there, and blanks elsewhere.

### Values, Operators and ValueStore

A value is a cell with an address, and lives as long as a pointer to it
(`std::shared_ptr`): of a variable, an element, a member (`slots`), of the class's
member (`class`), or of a function of the interpreter that has evaluated it and
waits for another operand (`operands`). `Point` is every change of pointers, with
the release of what nobody holds any more. Evaluating a name yields the pointer
that is stored there, so places share cells; `Change` is `++` and `--`, which write
into the cell. An operand keeps the place it was read from. That is no state of
the code: the map to `ValueStore` needs it.

There is one array and one class with one member; calls that return bind
parameters as declarations bind variables, and are in `Interpreter`. Calls that do
not return are `CallInVain`. What an access reads when the variable holds no object is
undefined behaviour and `Interpreter`'s too. An operand is evaluated by any
sequence of steps, so every program within the bounds is explored.

### Repl and TypeTable

A step is one of the calls in the loop of `REPL::run`: a line typed, scanned,
parsed as an expression, evaluated, parsed as a statement, executed, and the
cleaning at the end, which the path of a value does not reach. Lines are told
apart by what these calls make of them; from three kinds the lexer does not return
(`lost`): too long a line, an invalid character, and a `//` comment, as no line of the
REPL ends with a newline. The type table is a sequence of entries;
a type's id is its place modulo `IdCount` (256 in the code). Each class declared in a line,
at any depth and also if the line turns out to be broken, registers a type under the
user's name, which may be one that exists (`RegisterClass`).
`builtin` says whether `add_builtin_types` was called: `main` calls it only on the
way that does not start the REPL.

### Backend

The state is what `LLVMBackend` keeps: the functions of the module with their
code, the builder's insertion point (`insert`), `named_values_`, and the parser's
`has_return_`, which decides whether a function gets a `ret void`. Instructions are
told apart by what they are about (a call, a return) and by the functions whose
values they use (`owners`). `written` is a history: what the text says each function
does, independent of where the code went. The evaluation of operands is a stack,
a call marks its base (`calls`). What the backend does not support throws, and
`Compiler::compile` stops.

## 3. What the runs check

| Run | Properties | Instance | Result |
|---|---|---|---|
| `InterpreterPrograms` | `TypeOK`, `GlobalNeverFreed`, `NoDanglingScope`, `ScopesBalanced`, `OnlyBreakTerminates`, `ObjectsAlive`, `LookupsEnd`, `ChainFollowsNesting` | nested functions without classes; a class with method and object member; `run_single_statement` | hold |
| `InterpreterBreak` | `BreakInsideLoop` | 2 functions that do not call themselves | violated |
| `InterpreterElse` | `ElseIsHandled` | | violated |
| `PoolThreads` | `TypeOK`, `RunsAsPool`, `WaitAllComplete`, `JobsRun`, `WaitsEnd`, `BusyWorkersLeave` | 1 client, 2 workers, 3 jobs | hold |
| `ParserTexts` | `TypeOK`, `LevelsMatch`, `ReadsOwnBody`, `ParseEnds` | all tokens, texts of any length, nesting 3; bodies of 14 kinds of tokens, 6 tokens, nesting 4 | hold |
| `ParserTwice` | `ParsedOnce` | | violated |
| `ScannerFiles` | `TypeOK`, `ScansAsWritten`, `FitForParser`, `ScanEnds` | files of up to 3 statements, declarations, definitions; files cut off anywhere or with a broken head | hold |
| `ScannerAgain` | `DuplicatesAllowed` | files of up to 2 of these | violated |
| `LexerFiles` | `TypeOK`, `ReadsAsWritten`, `RangesInOrder`, `StaysInLine`, `LexEnds` | files of 1 or 2 lexemes with what stands behind them; 2 arbitrary lines, with an empty one between or not | hold |
| `ValuesShared` | `TypeOK`, `ElementsTyped`, `ErrorsReported`, `RunsAsValues` | 2 variables, 3 addresses, 2 operands, numbers 0 to 2, one object | hold |
| `ReplSession` | `TypeOK`, `NewLineOnly`, `OwnLineShown`, `DroppedOnce`, `NothingSwallowed`, `SupersDescend` | 5 lines, 5 classes, 8 type ids, with and without the builtin types | hold |
| `BackendPrograms` | `TypeOK`, `CodeInPlace`, `OperandsOwn` | 2 functions, 1 parameter, 2 operands, 3 instructions | hold |

What they show:

- **Scopes.** Exceptions leak scopes but do no worse, as long as no exception
  crosses an access and no object is accessed inside its own access (the
  properties say `Disciplined`). Where one of the two happens, an object's
  environment can be deleted and a chain can become a cycle; `undefined` and
  `overflow` are states of the model. What holds with no such condition is that
  the global scope survives and that only a `Break` can leave `run`. All of this
  is proved for every program.
- **Break and else.** A function that is declared inside a loop may break, and can
  be called behind the loop, where nothing catches the exception: `InterpreterBreak`.
  Its shortest trace has the program call `g`; `g` declares `f`, with a body that
  breaks, in a loop, leaves the loop and calls `f`; the `Break` ends the process. An else or elif branch
  raises an error instead of running: `InterpreterElse`.
- **Pool.** Without a data race no job is lost, duplicated or run twice. With two
  workers every job runs even when a notification is missed; a lone worker
  would starve its queue then, which `JobsRun` allows for one worker only.
  `wait_all` is too early in one case (`stale`), and a wait that does not return
  hangs in one of the three ways that `Hangs` names; `wait(id)` always does.
- **Parser.** The levels are right whatever errors occur, since `statement()`
  catches below every increment. Parsing ends unless recovery meets the end of
  the file, where it steps back before the last token. A parser that met no error
  in a block reads all its tokens and none behind them; after an error, in a single
  statement or for a function that is only declared it reads behind them. Every
  call parses its function again: `ParserTwice`. A class member that is an
  expression statement dereferences nullptr (`crashed`).
- **Scanner.** A file of statements and whole functions, with no plain declaration
  behind a definition, is scanned as written (`ScansAsWritten`): the program is what
  stands between the functions, the table has each with its body, wherever its
  definition stands, and with the parameters of its first declaration if none has a
  default (one with a default is pushed twice); the scan ends in an error exactly if a
  function is defined twice. It also ends in one if a plain declaration stands behind the
  definition, which `CILPlan.txt:25` allows: `ScannerAgain`. Whatever the file holds,
  the bodies handed on have the shape that `Parser` relies on, and the scan ends; a
  definition cut off by the end of the file is read behind it.
- **Lexer.** A file of lexemes and comments is read as these lexemes
  (`ReadsAsWritten`), with some comments left out (`IsComment`): those between
  `/*` and `*/` in which an asterisk stands before an asterisk or a newline, or a
  line is empty. There the lexer may leave its line or miss the end. The cursor
  leaves its line in three cases only: a comment in a line without newline, and in
  a comment an asterisk before the newline or an empty line (`StaysInLine`). The
  asterisk hides the newline, as it hides the slash of `**/`; the newline of an
  empty line is passed over, as the loop takes its next step before it looks.
  Everything else is read to the end, except that the lexer never passes an
  invalid character (`LexEnds`).
- **Values.** Programs compute what they would if every variable, element, member
  and operand had a value of its own, until `++` or `--` changes a cell that somebody
  else holds; after that nothing of the kind holds (`shared`). Even then the
  elements of an array keep its type, since `++` and `--` leave a number a number.
  Error values are swallowed by operators and conditions, but each was reported,
  except the result of a call that ended without `return`: nobody reports it
  (`unreturned`).
- **REPL.** Lines pile up in the source behind every value, yet each line is lexed
  once and none twice, although the guard of `get_next_line` is wrong. As soon as
  lines have piled up, a report shows the wrong line. A line is dropped unread in
  one case, behind a value that came with an error. With no more types than
  ids each value is printed, unless its class is named "error"; with more, a class
  whose id is that of "error" has its values swallowed. However often the ids wrap around, the walk along super types
  ends if the builtin types are registered, for a super type is always an older
  id. (Without them it hangs: `hung`.)
- **Backend.** If functions are defined at the top level only, the code of each
  function is what its text says, though the insertion point stays in a function
  that has ended and the flag for `return` belongs to none. A nested definition
  takes what follows it in the outer function along (`nested`). A name is found
  wherever it is from: `stray` when a body uses another function's parameter,
  `renamed` when a definition calls its parameters otherwise than the declaration.
  Without these, code uses values of its own function.

Each property of a passing run has a mutant in `PROJECT.json`: a definition
changed the way a plausible mistake would change the code (the operators marked
"Mistake"), which the same run then refutes.

### Bounds

- `depth` of a program, `MaxEnv`, `MaxObject` (Interpreter): frames, allocations and
  live objects. Depth 4 lets a break cross a block inside a call inside a loop;
  depth 3 with objects lets an access hold a call that holds a block. Four
  environments are the global one, an object's and two scopes. One variable and one
  function suffice to shadow, to redeclare and to find or miss a name in each table;
  `InterpreterBreak` has two functions, of which one calls the other. A class has a
  method that is declared only, or one whose body may break.
- `MaxJob`, `WorkerCount`, `Client` (ThreadManager): with three jobs and two workers a
  worker gets a second job while another waits, which the stale flag needs. A second
  client would exclude the first while it schedules (the mutex of the manager is held
  until the notification), so a race needs one client and one worker; of two clients
  that wait each waits for the workers alone. The safety properties are proved for any
  number of clients.
- `tokens`, `nesting` of a text (Parser): `tokens` of 0 sets no limit, and
  `nesting` counts statements, expressions and assignments within each other
  and open braces. When a bound is reached the text ends as a text can: EOF, the
  closing brace, the semicolon. Three levels hold a statement in a loop in a
  block; a body of six tokens holds a function or class in a block and the errors
  in it. Runs with one more level or token gave no other result as far as they
  went.
- `MaxPiece` (Scanner): three pieces hold a declaration, a definition and a
  declaration of one function, or two functions and a statement between them.
- `MaxLexeme`, `MaxLine` (Lexer): each lexeme stands before each other one with
  each separator between them, comments of one to three lines included (nothing only
  next to a semicolon). Where an operator joins with the comment behind it, the file
  is not laid out and the property says nothing. An arbitrary line of four characters
  holds the beginning of a comment, an asterisk and what it hides; the second line, of
  two, holds the end of the comment. An empty line between the two is inside a
  comment or not.
- `Address`, `Data`, `MaxOperand`, `MaxSize`, `MaxPlace`, `MaxObject` (Values): with two
  places and two operands a cell is shared by places, by a place and an operand,
  and by two operands of which one is read before the other is changed; three
  addresses let a value be allocated next to both. Two elements are a first and a
  last one. Numbers end at 2 because a computation that leaves `Data` is not taken.
- `MaxLine`, `MaxClass`, `IdCount` (Repl): five lines hold a value, its error and what
  comes behind them, a clearing and the same again in part; five classes are three more
  than are left of eight ids, so that ids wrap around up to that of "error". When the lines are used up or the process hangs the system
  stops, which is why `ReplSession` does not check for deadlock.
- `MaxOperand`, `MaxCall`, `MaxOpen`, `MaxCode` (Backend): two open scopes are a function
  in a block or in a function; three instructions are a call, what follows it
  and a return. Calls as arguments of calls (`MaxCall` of 2) gave no other result
  as far as the run went.

### Fairness

`ThreadManager`: weak fairness of each client's call, each worker and the join,
because the operating system runs every thread that can run; whether a client
begins a call is its own choice, and a job may throw but need not. Condition
variables wake nobody without a notification in the model, which makes the
liveness results stronger and the hangs real possibilities, not certainties.
`Parser`, `Scanner`, `Lexer`: weak fairness of their one step, as the process
runs on one thread.
`Interpreter`, `Values`, `Repl`, `Backend`: none, their properties are safety
properties.

## 4. What is proved

For every value of the constants, with no assumption but the named `ASSUME`s
(which TLC evaluates in the runs):

| Theorem | Statement |
|---|---|
| `InterpreterProofs!TypeCorrect` | `Spec => []TypeOK` of the interpreter |
| `InterpreterProofs!ReturnMeetsCall` | `Spec => []OnlyBreakTerminates` |
| `InterpreterProofs!GlobalSurvives` | `Spec => []GlobalNeverFreed` |
| `InterpreterProofs!ObjectsSurvive` | `Spec => []ObjectsAlive` |
| `InterpreterProofs!ScopesBalance` | `Spec => []ScopesBalanced` |
| `InterpreterProofs!ChainIsNesting` | `Spec => []ChainFollowsNesting` |
| `InterpreterProofs!ScopesAllocated` | `Spec => []NoDanglingScope` |
| `InterpreterProofs!LookupsTerminate` | `Spec => []LookupsEnd`: no chain is a cycle |
| `ThreadManagerProofs!PoolTypeCorrect` | `Spec => []TypeOK` of the pool, with mutual exclusion of both mutexes |
| `ThreadManagerProofs!ManagerIsPool` | `Spec => RunsAsPool`: a `JobPool` until a data race |
| `ThreadManagerProofs!WaitsLongEnough` | `Spec => WaitAllComplete` |
| `ParserProofs!ParserTypeCorrect` | `Spec => []TypeOK` of the parser |
| `ParserProofs!LevelsCounted` | `Spec => []LevelsMatch` |
| `ParserProofs!OwnBodyRead` | `Spec => []ReadsOwnBody` |
| `ScannerProofs!ScannerTypeCorrect` | `Spec => []TypeOK` of the scanner |
| `ScannerProofs!BodiesFit` | `Spec => []FitForParser` |
| `ScannerProofs!FileScanned` | `Spec => []ScansAsWritten` |
| `LexerProofs!LexerTypeCorrect` | `Spec => []TypeOK` of the lexer |
| `LexerProofs!TokensInOrder` | `Spec => []RangesInOrder` |
| `LexerProofs!CommentsAstray` | `Spec => []StaysInLine` |
| `LexerProofs!FileAsWritten` | `Spec => []ReadsAsWritten` |
| `ReplProofs!TypesDescend` | `Spec => []SupersDescend`: no access hangs |
| `ReplProofs!NewLineRead` | `Spec => []NewLineOnly` |
| `ReplProofs!FaultShown` | `Spec => []OwnLineShown` |
| `ReplProofs!LineDropped` | `Spec => []DroppedOnce` |
| `ReplProofs!ReplTypeCorrect` | `Spec => []TypeOK` of the REPL |
| `ReplProofs!ValuesPrinted` | `Spec => []NothingSwallowed` |
| `ValuesProofs!ComputesAsValues` | `Spec => RunsAsValues`: a `ValueStore` until a shared cell changes |
| `ValuesProofs!ErrorsKnown` | `Spec => []ErrorsReported` |
| `ValuesProofs!ElementsKeepType` | `Spec => []ElementsTyped` |
| `ValuesProofs!ValuesTyped` | `Spec => []TypeOK` of the values |
| `BackendProofs!BackendTypeCorrect` | `Spec => []TypeOK` of the code generator |
| `BackendProofs!CodeStaysInPlace` | `Spec => []CodeInPlace` |
| `BackendProofs!CodeUsesOwnValues` | `Spec => []OperandsOwn` |

- *TypeCorrect.* `TypeOK` is inductive: addresses are handed out once, and every
  frame that opens a scope saves an `env_` below `fresh`. Lemmas about heaps say
  what each operation on the heap keeps; `StepTyped` goes through the actions.
- *ReturnMeetsCall.* `OnlyBreakTerminates` needs where statements stand:
  `NestingOK` says that no block or loop is right inside arguments or an access, so
  that the innermost frame which is neither block nor loop is the body of a call
  when `return` runs (`ReturnInBody`; `CallerIs` finds that frame). `HandlerOK`
  keeps it there while blocks and loops are left.
- *GlobalSurvives.* `GlobalNeverFreed` is not inductive: the end of a block
  deletes whatever `env_` is. `GlobalInv` adds that no variable holds the global
  environment as an object's (`HoldsOnly`), that the global environment is a
  scope, and `Away`: inside a block or a call, neither `env_` nor any `previous`
  saved there is the global environment, so that the `env_` a block deletes never
  is it. This holds through every exception, with no discipline assumed.
- *ObjectsSurvive.* `AliveInv` adds, for disciplined programs, where object
  environments may be current: outside of accesses neither `env_` nor a saved
  `previous` is one (`Apart`). So what a block or a call deletes never is one, even when
  exceptions have leaked scopes.
- *ScopesBalance.* `BalanceInv` says, while nothing leaked, that `env_` and each saved
  `previous` are what the innermost frame below made current (`Inner`), and that the
  scopes of the heap are the global one and those the frames own.
- *ChainIsNesting.* `LinkInv`: what a frame owns is allocated, enclosed by its
  `previous` and owned by no other frame. With `AliveInv` and `BalanceInv`, no step
  changes the enclosing environment of a scope that is in use.
- *ScopesAllocated, LookupsTerminate.* `ChainInv` says that the chain from `env_` is a
  finite sequence of distinct allocated environments ending at `nullptr`, on which
  the saved pointers sit at increasing places; an object's environment on it belongs to
  a running access. Leaks only lengthen the chain; leaving a scope cuts it at a saved
  place. The sequence is part of the invariant, so that no induction along the chain
  is needed; a cycle is refuted by the least place of it.
- *PoolTypeCorrect.* `TypeOK` includes `LocksOK` (who holds a mutex is where it is
  held) and `LocalsOK` (a thread that moves a job has one), which the types of the
  next state need.
- *ManagerIsPool.* `RunsAsPool` is an action property and needs `PoolInv`: `TypeOK`
  and, until a race, `PoolOK`. That says that the queue, the workers' hands and the
  executed jobs are disjoint and hold only ids below `next_id_`; that the job of a
  client before `emplace` is in none of them; that two workers hold different jobs;
  and that the job a worker is about to pop was in the queue it has read. Of the
  steps only `Emplace`, `Take` and `Execute` move a job, each as a step of
  `JobPool`; all others map to a stutter. The proof has a lemma for each of these.
- *WaitsLongEnough.* `WaitInv` follows a waiting client through its call. While it
  waits for the queue, its jobs are known somewhere; once it saw the queue empty
  they are taken or executed, and stay so; a worker that it has passed holds none
  of them; a worker it still looks at has not set `finished_` for one of them
  unless `stale` is recorded. Behind the last worker none is in a hand, so all are
  executed. `World` says what the other threads may do to that meanwhile,
  `OwnWait` what the client's own step does.
- *ParserTypeCorrect, LevelsCounted.* Levels are counters, and an error drops items from
  the stack without a look at them, so the invariant (`ParserInv`) is about the whole
  stack, counted from its bottom (`Pile`): above what lowers a level there is the
  statement or the handler it waits for, and above that what raises the level or
  nothing (`Paired`); the level is the number of those that wait (`Open`). Whatever may
  throw is above a handler (`Guarded`), so an error drops whole pairs or none
  (`Cover`, `ThrowKept`); `RowKept` and `BodyReady` are the same for what productions
  push. A report is followed by nothing that could throw (`Reported`). The program's own
  parser keeps `parse` at the bottom (`Rooted`) and so never ends like a function's.
- *OwnBodyRead.* The scanner ends a block where its count of braces comes to 0, the
  parser where its functions return; the invariant (`BodyInv`) relates the count
  (`depth`) to the stack. Counted from the bottom, each item that ends behind a
  right brace (`Closer`: blocks, classes and array values) closes one brace more than
  what is below it, an expected left brace one less, and any other item as many
  (`Weight`, `Climbs`); the stack of a parser that met no error (`Sound`) closes
  `depth` of them, and only the handler at its bottom closes none (`Braced`). So a
  parser whose count is 0 has that handler left, which reads nothing. Productions
  push items that count nothing (`Flat`), end with what they began with
  (`CloserBelow`) or expect both braces (`BracesRow`). Before the first brace there
  is nothing to count, but the stack is known (`Fresh`).
- *BodiesFit.* `ScanInv` says what has been gathered of a body: a block opened by its
  first brace, whose level is the local `depth` and never was 0 (`IsOpen`), or a
  statement without semicolon that did not begin with a brace; and that EOF is in
  neither unless the scanner is behind the tokens, where it cannot declare any more.
  `LevelAppend` counts the braces of a body that grows.
- *FileScanned.* `ScanRead` says that the first n functions of a whole file are in
  the table as they were written and none of them follows its definition
  (`Sorted`), that the program before the scanner is in the list (`Copied`), and
  where the scanner is: between two functions (`Between`), with the first n behind
  it, or in the next one. There it is in the head (`InHead`), whose parts it reads
  one behind the other with as many parameters pushed as they give (`PushedBy`),
  or in the body (`InBody`), of which the local holds what stands before the
  cursor. Heads are followed token by token (`NameRead` to `ResultRead`); that a
  block ends at its last brace and not before comes from `IsOpen` of `ScanInv` and
  the levels of the written body (`LevelOfPart`). `BeginRead` and `FinishRead` say
  that no function is missed; `DefineRead` that one is refused only behind its
  definition. All this is shown of every whole file first (`Scanned`, with the double
  push of defaults in `Pushes`); what `ScansAsWritten` says follows (`WrittenIfScanned`).
  The place of a token in the list is the number of program tokens up
  to it, which `ProgramBefore` counts.
- *TokensInOrder, CommentsAstray.* `LexInv`: tokens lie in front of the cursor
  (`Behind`), and in a comment the cursor is on or behind the newline only if the line
  is one of the three kinds (`Hides`). `RunEnds` finds the end of a word, number or row
  of spaces, `TestStays` says where the test for the end of a comment goes.
- *FileAsWritten.* `ReadInv` says of a laid out file that the tokens are its first
  lexemes (`Found`) and, outside of comments, that each other lexeme begins at the
  cursor or behind it (`ToCome`) and the cursor is at most at the beginning of a
  comment (`Clear`); in a comment, that the cursor is before the asterisk that
  ends it (`InsideOf`). So the character at the cursor is a blank, or the first
  one of a comment or of the next lexeme. What a lexeme is says which function
  reads it (`OnlyWord` and its like) and where that one stops (`RunIs`); the
  characters between are blanks, so nothing else becomes a token. In a comment
  neither a newline nor an asterisk is passed over, as the layout forbids the
  pairs that `TestEnd` would hide (`TestInside`, `LineDone`).
- *TypesDescend.* `SupersDescend` needs the shape of the table (`ReplInv`): when the
  builtin types are there, the first entry is "type", its own super type, and the
  super type of every other entry is the id of an entry with a smaller id. An id is
  that of the first entry with the place it stands for, so what wraps around
  changes nothing (`FirstIsLeast`, by well-founded minimum). A step either leaves the
  table alone or registers a class under "object", which is an older id.
- *NewLineRead, FaultShown, LineDropped.* `LineInv` says, for each point of the
  loop, how many lines are read and which is the last one; `ErrorInv` says which
  lines may have errors there. `OwnLineShown` and `DroppedOnce` follow from the second,
  which needs the first.
- *ReplTypeCorrect.* `CountInv` next to the two: lines in the source have numbers of
  lines that were typed (`Numbered`), and so has the line at fault.
- *ValuesPrinted.* `NothingSwallowed` is inductive next to `ReplInv`: while the table
  is no longer than there are ids, each id is the place of its only entry, so no
  other name has the id of "error" (`ErrorIsItself`); unknown names have the id 0,
  which is that of "type".
- *ComputesAsValues.* `ValuesInv` says that pointers point to cells, and that the
  last operand still has the cell of the place it was read from (`TopInPlace`):
  `++` changes that place, and only that one unless the cell is shared. For earlier
  operands it is false, their variable may have been assigned since. It also needs
  that the object created next has no member yet and that an array without a first
  element has none (`PlacesOK`). `Pointed` says that the maps to `ValueStore` see only
  the cells that are held, so releases never show. Then there is a lemma for
  each step: it is a step of `ValueStore`.
- *ErrorsKnown, ElementsKeepType.* Every step keeps the types of the values that stay,
  and a new error value comes with a report or of an operand that was one
  (`KeepsCells`); elements stay but for the definition of the array, whose values
  were compared with its type (`KeepsElements`, `DefinesChecked`).
- *ValuesTyped.* `ValuesInv` and `Typed`; the operators make values of values.
- *BackendTypeCorrect.* `TypeOK` says too little of calls that wait for arguments: that
  an instruction takes its operands from above the base of the innermost call needs
  that inner calls begin later (`Stacked`).
- *CodeStaysInPlace.* `CodeInv`: without nested functions a function is the outermost
  scope (`Outer`), the insertion point is in it inside of a statement, and
  `has_return_` is set exactly if it has a `return` so far. Then the function the text
  is in and the one that code goes to are the same (`PlaceKnown`), and code and
  text grow together (`EmitInPlace`). A body starts with no text because a function
  that is only declared has no code.
- *CodeUsesOwnValues.* `ValueInv` adds that operands belong to `Outer`, and that the
  parameters of the function around, the last to take their names, are what
  `named_values_` has for them. Blocks have none, so nothing at the top level has a
  name to use.

Only model-checked: liveness (`JobsRun`, `WaitsEnd`, `BusyWorkersLeave`, `ParseEnds`,
`ScanEnds`, `LexEnds`), which is beyond the prover. All other properties of the passing
runs are theorems.

## 5. What is not modelled

- Numbers' arithmetic beyond `+`, `-`, `<`, and the operators that differ from
  those in the number or truth they compute only; the digits of literals.
- `define_global_symbols`: its effect is the interpreter's initial state.
- Tables of arrays and classes, whose code repeats that of variables.
- Spurious wakeups; `Worker::lock_`, which only waiting clients take;
  `wait(JobResult)`, which is `wait(id)` and a copy; `resize`, which is empty.
- In the parser: any identifier may name a type in any text.
- In the scanner: names and types of parameters and results, beyond their number
  and whether they are well formed. In the symbol table: the tables of variables
  and classes, in which nothing declares.
- In the lexer: the enlargement of the line buffer, the values of literals.
- In the REPL: cin at its end, whose empty lines are read for ever; tokens that follow
  a whole expression or statement in its line, which are ignored; what the memory
  behind a comment holds (a newline found there leaves the line as it is without
  the comment, else the process ends).
- In the type table: `is_subtype_of(Type)`, which nobody calls, qualifiers, names of
  types.
- In the backend: `compile_single_statement`, which nobody calls; LLVM itself, external.
- `ThreadSafeObj`: its one user is `SymbolTable::global_table_`, used by one thread.
- Position and SourceRange: ranges of tokens are in `Lexer`; the swap of reversed
  ranges in `SourceRange` changes its parameters only, and the constructors of
  `Position` put reversed ends in order themselves.
- `main`: the stages one behind the other. Each begins in what the one before
  promises: `FitForParser` is what `Parser` assumes, `Interpreter` begins with the
  functions the scanner found, and after a stage with errors nothing runs.
- The AST and its printer, the formatting of reports, build files and samples: no
  state.
