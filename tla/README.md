# A TLA+ development of cling

cling compiles C++ line by line.  What is hard about it is not a line but
what happens between lines: the interpreter commits, nests, rolls back and
unloads pieces of a program that is already running, and every one of those
operations calls back into user code that may call the interpreter again.
Around this core there are parts that keep a state of their own from line to
line: the prompt and its history, the AST that later lines shadow and undo, the
JIT's symbols and the libraries they come from, the Values handed to the
caller, the autoloading maps, and the lookups of an embedding program.  This
directory models these parts, model-checks them on small instances and proves
the main invariants of five of them, and two refinements, for every instance.

Paths below are relative to `src/`.

## The system

| Component | State it keeps | Operations | Interacts with |
|---|---|---|---|
| `Transaction` (`include/cling/Interpreter/Transaction.h`, `lib/Interpreter/Transaction.cpp`), `TransactionPool` | state, parent, nested transactions, decl queue with one marker per nested transaction, `m_Next`, diagnostics, unloading flag; free objects | nest, un-nest, append, release, take | everything below, by raw pointer |
| `IncrementalParser` | deque of top-level transactions, pool, consumer | Initialize, begin/end/commit, code generation, deregister, Compile | DeclCollector, CodeGen, `Interpreter::unload`, callbacks |
| `DeclCollector`, `DeclExtractor`, `DefinitionShadower` | the *current* transaction; names of init-order functions and of shadowing namespaces | collect what Clang hands over, move declarations out of the wrapper, move definitions into a namespace of their own | called by Clang's parser; AST |
| `TransactionUnloader`, `DeclUnloader` | none | walk a transaction backwards and undo it in the AST, the lookup tables, the preprocessor and the module | nested `Interpreter::unload` |
| `Interpreter` | callbacks, options, raw input | process/declare/evaluate, PushTransactionRAII, unload, executeTransaction | all |
| Input wrapping (`lib/Utils/SourceNormalization.cpp`), AST transformers, `Value` | blocks with a reference count | where the wrapper begins; printing, declaring and extracting the last value; copy, move, assign, destroy | wrapper function |
| `IncrementalExecutor`, `OrderedMap` | atexit handlers per transaction in order of insertion, unresolved symbols | register, run at unload, run at shutdown | user code, possibly other threads |
| `IncrementalJIT` | symbols, modules and their trackers | add, remove, replace and look up | executor, host symbols |
| `DynamicLibraryManager`, `Dyld` | loaded libraries, search paths, scanned libraries, caches of paths | find, load, unload, scan, suggest | file system, `dlopen` |
| `MetaProcessor`, `InputValidator`, `MetaParser`, `MetaSema`, `UserInterface` | unfinished input and its open brackets, prompt, settings, redirections, unload points of files | a line at the prompt, every `.` command | Interpreter |
| `textinput` (`Editor`, `TerminalDisplay`, `TextInput`, `History`) | line, cursor, undo buffer, search, history, cells of the terminal, history file | keys, redisplay, append and prune | terminal, other processes (history file) |
| `LookupHelper`, `utils::TypeName`, `utils::Transform` | saved parser state, remembered string types | find types, scopes, functions by their names; print names of types | Clang's parser, nested transactions |
| `AutoloadCallback`, `ForwardDeclPrinter` | default arguments of forward declarations, by header | print a map, include a header | preprocessor |
| `InterpreterCallbacks`, `EnterUserCodeRAII` | lock state of the embedder | enter and leave user code | other threads |

`PROJECT.json` lists every component with the modules that model it; those that
are left out are under "Not modelled".

What makes it hard:

* **Re-entrance.**  Static initializers, `TransactionCommitted`,
  `TransactionUnloaded`, atexit handlers and lookups all run in the middle of
  `commitTransaction` or `unload` and can open transactions themselves.  Locals
  such as `prevConsumerT` are read before such a call and used after it.
* **Raw pointers to pooled objects.**  A transaction can be freed by the callee;
  the address is handed out again at once.
* **Partial failure.**  Errors come from Clang (a global flag), from
  transformers (a flag on the topmost transaction), from instantiations after
  the error check, from CodeGen and from executing initializers.
* **Two descriptions of one thing.**  Nested list and markers, deque and
  `m_Next` chain, map and order vector, path-to-transaction maps, an AST and its
  lookup tables, the line and the cells that show it.
* **Undoing.**  Whatever an input did to the AST, to the code and to the lookup
  tables has to be taken back in reverse, when others have built on it.
* **Ad hoc grammars.**  Commands, brackets of unfinished input, the wrap point and
  the quick path of `LookupHelper` each read C++ tokens with rules of their own
  that must not contradict the compiler's.

## Modules

### `Transaction`

State and helpers, no behaviour of its own.  A transaction is an address; it is
in state `kNumStates` while nobody holds it.  `AddNestedTransaction`,
`ReleaseTransaction`, `AddTransaction`, `BeginTransaction`,
`EndEmptyTransaction`, `EndFullTransaction`, `DeregisterTransaction` are the C++
functions of the same names, as operators on the primed variables.  Decls are
indistinguishable (`"decl"`); a marker is what `addNestedTransaction` leaves in
the queue (a `kCCINone` entry).  Warnings are dropped: nothing branches on them.

### `IncrementalParser`

The thread is a call stack of frames; the comment in the module says what each
program counter stands for.  One action per stretch of code that runs without
user code or Clang deciding anything:

| Action | Code |
|---|---|
| `BootBegin`, `BootCommit` | `IncrementalParser::Initialize`, constructor of `Interpreter` |
| `Begin` | `Compile`, `PushTransactionRAII`: `beginTransaction` |
| `AppendDecl`, `ParseError`, `TransformerError`, `LookupReset` | what Clang and the transformers do between begin and end |
| `EndEmpty`, `EndFull` | `endTransaction` and what its callers do with the result |
| `CommitCheck` | `commitTransaction` to the error check; with errors it enters `unload` |
| `OpenInstantiations`, `OpenDeserialization`, `OpenTranslation` | the three transactions a commit opens |
| `SkipCodeGen`, `Execute`, `InitReturn`, `InitThrow`, `CommitReturn` | code generation, initializers, callback |
| `UnloadLast` | `unload(unsigned)`, one transaction |
| `DtorReturn`, `RevertNested`, `RevertReturn` | `unload(Transaction&)` and `RevertTransaction` |

Assertions are compiled out, as in the release build; the ones that say
something are properties instead.  Its properties come in groups: `DequeOK` is
`ChainOK` (deque and `m_Next` chain agree) and `NoDangling` (no member, and no
local of a running call, points to a transaction that went back to the pool);
`ScopesOK` is `InnermostCollects` (declarations go to the transaction that was
opened last), `ScopesNest` and `NestedSettled`; `RollbackOK` is
`ParseErrorsRollBack`, `RevertsOnlyTheLast`, `NoNestingInUnloading` and
`ResultIsSettled` (of results that point to live transactions).

### `TransactionLog`

The abstract specification: a stack of committed transactions and at most one in
the making.  `LogRefined` states that `IncrementalParser` implements it, the
history being the committed members of `m_Transactions` (`Selected`, a recursive
function over the deque).  This is what `.undo` relies on.  Checked in `core`, and
proved (`LogImplemented`).

### `AtExit`

The exit handlers of `IncrementalExecutor`.  `OrderedMap` is what it is in the
code: a map and a vector of its keys, changed by separate statements.
`runAndRemoveStaticDestructors` and `runAtExitFuncs` move handlers out of the map
into a local, walk over it backwards and call themselves again; their
activations are the frames of `stack`.  The handlers of a frame come in groups:
the code calls itself after every handler when a transaction is unloaded (groups
of one) and only after all handlers of a transaction at shutdown.

| Action | Code |
|---|---|
| `Register` | `AddAtExitFunc`, `OrderedMap::operator[]` |
| `Commit` | a transaction is compiled (`addTransaction`), also by a handler |
| `Unload`, `RunDestructors`, `RunAtExitFuncs` | the calls of the client, the last one also from `~Interpreter` |
| `NestedRunAtExitFuncs` | a handler asks for all handlers to be run |
| `NextTransaction`, `Finish` | `runAndRemoveStaticDestructorsImpl`; the rest of `unload` |
| `Call`, `Return`, `Recurse`, `Done` | the loops over the handlers |

`threads`, chosen at the start, says whether another thread runs JIT-ed code and
registers handlers whenever it likes (the mutex of the executor makes each
registration a single step).  `born`, `owner` and `ran` are history: what was
registered when and for which transaction, and what was called in which order.
`HandlersKept` is `EachOnce`, `Owned` and `ShutdownRunsAll`.

### `RedirectOutput`, `Redirections`

Redirection of stdout and stderr by `.>` and its relatives.  `RedirectOutput`
has the members of the class and, because the class is about descriptors, the
descriptor table of the process: `open` and `dup` hand out the lowest free
number, `dup2` of a closed one fails.  What a descriptor writes to is a file or
the original stdout (1) or stderr (2).  The object exists while its stack is not
empty (`setStdStream`), so that it needs no variable.

| Action | Code |
|---|---|
| `AddFile`, `AddBadFile`, `AddStream` | `redirect` with a file that opens, one that does not, `&1` or `&2` |
| `Unredirect` | `redirect` without a file |
| `Exit` | `~RedirectOutput` with redirections left |
| `ReadLine`, `LineRead` | `MaybeRedirectOutputRAII` around the prompt |

`Erased` models the loop over `Remove` with the iterator the first `erase()`
invalidates: the second one always points behind the last entry (lemma
`RemovedFacts`), and libstdc++ then drops the last entry, which is the right one
by luck.  `target` in an entry is history.

`Redirections` is the abstract specification: each stream has a stack of its own.
`TwoStacks` states that the one stack of entries with scopes implements it; the
mapping, `TargetsOf`, is a recursive function over the entries.  Proved
(`TwoStacksImplemented`).
`StreamsGo` is `PromptOnTerminal` and `StreamsFollow` (output goes where the last
redirection says).

### `UnloadPoints`

`.L`, `.U` and `.undo` (`MetaSema`).  The history of transactions is a stack, as
`TransactionLog` promises.  `m_FEToTransaction` is `point`, `m_TransactionToFE` is
`fileOf`; both know transactions by address only, and `m_TransactionToFE` is
never cleaned.  A reverted transaction goes back to the pool, or to the heap, so
that a new one may lie at any address that is free: one the maps still know, or
one they do not.  `reused` tells the two cases apart.

| Action | Code |
|---|---|
| `Line` | a line is typed and committed |
| `Undo` | one round of `actOnUndoCommand` |
| `UCommand` | the begin of `actOnUCommand`, called by `.U`, and by `.L` before it loads |
| `RevertOne`, `Unloaded` | a round of its loop; what follows the loop |
| `LCommand`, `LCommandFails` | the rest of `actOnLCommand`: the file is loaded and registered, or does not compile |

`since` in an entry and `gone` are history: which files were registered when a
transaction came, and whose unload point has been reverted since.  `PointsStay`
is `LoadedAreRegistered` (`.L` loads nothing twice) and `LibrariesRegistered`.

### `MetaParser`, `InputValidator`, `MetaProcessor`

A line at the prompt.  Tokens are model values or words; blanks count where the
lexer of commands sees them.

`MetaParser` is the grammar of commands.  `Order` is the chain of alternatives in
`isCommand`; each works on the cache of tokens (`LookAhead`, `ConsumeToken`,
`ConsumeAnyStringToken`), and an alternative that fails does not put back what
it took, so that a later one sees the middle of the line.

`InputValidator` reads a line token by token, with what is open from the lines
before: brackets, templates, comments, conditionals, a line that is continued.
The reference is `Unmatched`, a reading of the whole text at once.

`MetaProcessor` is `process` and the loop of `runInteractively`: `BlankLine`,
`Command`, `Collect` (an incomplete statement), `Statement` (complete: it compiles
or throws), `EndOfInput`.  Commands act on `settings`; `did` is what the last
line did.

* `KnowsWhatIsOpen`: what the validator takes to be open is open in the text, and a
  statement it hands over is complete, however it is broken into lines.
* `PromptOK`: the prompt belongs to the state after the line.  The exception: a
  statement that throws leaves the prompt of the line before.
* `CommandIsNamed`: a line runs the command it names, or one of those `FallsTo`
  lists for alternatives that do not put back their tokens (`.storeState undo 5`
  runs `.undo 5`).

### `Editor`, `TerminalDisplay`, `TextInput`

`Editor` is each command of the editor as a function of its state: moving, cutting
and pasting, transposing and changing case, undo, the history and the search in it.
`TerminalDisplay` is what the terminal shows: cells in rows, a cursor that wraps,
erasing to the end, and the range of the text that a command asks to be written
again.  `TextInput` binds keys to commands (`Esc` changes the meaning of the next
one) and runs the loop: `ReadInput`, `ProcessNewInput`, `TakeInput`.

* `DisplayShows`: after every key the terminal shows prompt and line and the
  cursor stands where the next character goes, although only what has changed is
  written.
* `PasteRestores`: what consecutive cuts have taken away, one paste brings back.
* `EntryOK`: the entry of the history that the line is written back to is the one it
  stems from; `astray` names the four commands (undo, `^G`, `^C`, `^O`) after which it
  is not (`Editor.cpp:449`).

Two steps are left out, since what they do is undefined: `^T` on a line of one
character (`SwapsOutside`), and newer-entry at the prompt of an empty history, which
modifies entry 0 of it (`ModifiesNoEntry`).

### `History`

Several processes share one history file.  `AppendToFile` is split at every call
of the system: `AddLine`, `CountLines`, `PruneCopy`, `Unlink`, `Rename`,
`OpenToAppend`, `WriteLine`; `Kill` and `Start` may come between any two.  An
inode tells the file that is open from the one that has the name.

`HistoryKept`: lines of a process keep their order whatever happens (`KeepsOrder`);
as long as no two processes were in `AppendToFile` at once (`raced`), what is in the
file between two calls is the end of what was written (`LosesOldOnly`), and the
file is bounded, but not by `MaxDepth`: each other process may add as many lines
as it does between two counts (`Bounded`).  Kills are included; a process killed
between `Unlink` and `Rename` takes the whole file with it.

### `Ast`, `DeclUnloader`, `DefinitionShadower`, `DeclExtractor`, `Declarations`

What an input does to the AST and what undoing it does.  `Ast` is the part of
Clang's AST that cling touches: declarations with their contexts and redeclaration
chains, lookup tables, identifier chains, lists of specializations, macros.
`DeclUnloader` removes a declaration from all of them and from the module;
`DefinitionShadower` moves a definition into an inline namespace and hides what it
shadows; `DeclExtractor` turns the body of the wrapper into global declarations
and init-order functions.  `Declarations` composes them into a session: `Input`
parses, transforms, collects and commits or rolls back; `Unload` reverts the last
transaction by the walk of `TransactionUnloader`, nested transactions and macros
included.

* `Restores`: undoing an input leaves the AST, its tables and the module as they
  were, up to the entities in `Astray` and what `LeftBehind` names.
* `RunsInOrder`: the statements of an input run in the order of its text, although
  they are spread over initializers and the wrapper.
* `AstOK`: no global value is used that is gone (`NoDanglingUse`), and a name that
  was shadowed has one meaning (`Unambiguous`).

### `LibraryFiles`, `Libraries`, `IncrementalJIT`, `Symbols`

`LibraryFiles` is a file system with links, the cached `realpath` of `Dyld` and the
search for a library by stem, extension and prefix.  `Libraries` loads and
unloads (`DynamicLibraryManager`) and scans and searches (`Dyld`: Bloom filters,
hash tables, queried libraries).  `IncrementalJIT` is the table of symbols with
modules, trackers, weak symbols and the host symbols that the generator defines
on demand, on a model of ORC.  `Symbols` is a session: `Input`, `Undo`, `LCommand`,
`UCommand`, `PragmaLoad`, `Ask` (`getAddressOfGlobal`), `ReplaceSymbol`, `Search`,
`Install` (a library appears on disk).

* `NothingStale`: no symbol and no code that was linked points into a library that
  is unloaded, or into an input that was undone.  The history variables `byAsk`
  and `byPragma`, and `Newer`, name what the code does not prevent: an address
  asked for between `.L` and the next input, a library that a pragma loads, and
  code older than the library it was linked to.
* `AnswersRight`: a library that is suggested for a symbol exports it and is
  found (`Suggests`), and the cached paths are the real ones (`RealPaths`).

### `Values`, `SourceNormalization`, `ValueSynthesizers`, `Evaluate`

`SourceNormalization` is `getWrapPoint` over tokens: it finds where the statements
of an input begin.  `ValueSynthesizers` are the transformers of the wrapper in
their order: auto, value printing, declaration extraction, value extraction.
`Values` is `Value`: handles that share a block with a reference count, a canary
and a destructor.  Its operators say what becomes of a heap; its actions are what
callers do with their Values (`AssignValue`, `MoveValue`, `DropValue`, `Renew`,
`RenewByMove`) and what is left of an evaluation when only the Values are looked at
(`Evaluated`).  `Evaluate` is an embedding program: `Process`, `EvaluateInput`,
`Echo`, `Execute`, `Declare`, `ToggleRawInput`, and its own use of its Values.  It takes
what `getWrapPoint` finds as its constant `WrapPointOf`, which `evaluate.cfg` gives
`WrapPoint` of `SourceNormalization`.  `EvaluateAssumption` says what the pieces of an
input are, as the parser gives them, and that no variable is in front of the
wrapper; TLC evaluates it in the run.

* `Wraps`: an input that makes sense compiles: definitions stay outside of the
  wrapper and statements inside.  `IsMissed` names the inputs for which not.
* `FreshValue`: the caller gets the value of this input and never that of an
  earlier one; `IsLost` names those whose value is lost by design: nothing stands
  for a variable that has been extracted, unless the printer has put it there.
* `PrintsIffAsked`: the prompt prints a value if and only if the input asks for it.
* `OwnsItsObjects`: a block counts the Values that share it (`CountsOwners`), and its
  object is destroyed once, with the last one (`DestroysOnce`), but for
  `IsMisjudged` (the canary, `Value.cpp:119`) and self-assignment.
* `ValuesSpec`: evaluation does nothing to Values but what `Values` says: a reset,
  perhaps one new value, and the end of `resultV` when the caller gave no Value.

### `TypeNames`, `NameLookup`, `LookupHelper`, `ForwardDeclPrinter`, `Autoloading`

Programs are functions from numbers to declarations, and names are paths.
`TypeNames` is `utils::TypeName` and `utils::Transform`: the fully qualified and the
partially desugared form of a type.  `NameLookup` is what Clang finds for a name
(external) and the quick path of `LookupHelper` beside it.  `LookupHelper` is the
state machine: `Declare` and `Undo_` (inputs), `FindScope`, `FindType`,
`FindFunction`, `GetStringType`, and lookups that nest (`BeginLookup`, `EndLookup`,
`Complain`).

`ForwardDeclPrinter` is the recursive visit that prints the forward declarations of
a header, with its one flag `m_SkipFlag`.  `Autoloading` is a session:
`GenerateAutoLoadingMap`, `IncludeMap`, `IncludeHeader`, `DeclareTemplate`, `Undo`.
`MCLang` composes the two state machines; a session is about one of them.

* `QuickIsRight`: what the quick path finds is what the parser would have found
  (the check that is commented out in `findType`); `MisreadScope` and `MisreadType`
  name the exceptions.  `findClassTemplate` and `findDataMember`, which look into one
  scope only, find the same template and the same variable.
* `NamesSurvive`: the name printed for a type names that type again; `Obscured`
  names the exceptions.
* `MatchIsExact`: `matchFunctionProto` finds the function that has exactly these
  parameters, or none, and the finders of any function of the name agree.
* `LookupsLeaveNothing`: a remembered string type is never that of an undone
  transaction (`StringTypesLive`), and once all lookups are over the parser is as
  it was (`Rests`).
* `MapsHold`: a map compiles and leaves out only what cannot be declared ahead.
* `DefaultsGivenOnce`: however maps, headers and undoing follow one another, no
  default argument is given twice and none is lost.

### `MC*`

The `MC` modules have the sessions of their runs.  `IncrementalParser` (with the
choices of user code, `ReenterCommit`), `AtExit`, `RedirectOutput`, `UnloadPoints`
and `History` are checked as they are.

### `SequenceLemmas`, `IncrementalParserProofs`, `AtExitProofs`, `RedirectOutputProofs`, `UnloadPointsProofs`, `TextInputProofs`, `HistoryProofs`, `EvaluateProofs`

The theorems and the lemmas they rest on.

## Runs

| Run | Instance | States | Question |
|---|---|---|---|
| `core` | 5 transactions, with and without `ErrorOut`, initializers and commit callbacks compile and look up | 613,000 | tree, deque, scopes, roll-back, and the refinement of `TransactionLog` |
| `live` | 3 transactions, fairness | 48,000 | every call returns |
| `atexit` | 3 transactions, 4 handlers, with and without another thread | 355,000 | no handler is lost, called twice or outlives its transaction; order at unload |
| `redirect` | 3 redirections, 2 files, 1 that does not open, `&1` and `&2` | 597,000 | `DescriptorsKept` (no descriptor leaks, the originals survive), streams go where the last redirection says, `TwoStacks` |
| `unload` | a file and a library, a history of 4, 5 addresses | 495,000 | `.L` never loads a file twice, `.U` reverts nothing older, the iterator is valid, as long as no address is reused; the loop of `.U` ends: always |
| `meta` | statements of every token shape in up to 7 tokens, commands between their lines, one session per form of a command | 56,000 | what is open, the prompt, which command runs |
| `textinput` | 6 sessions of 5 to 7 keys | 701,000 | the terminal, cutting and pasting, the history entry |
| `history` | 2 processes, a depth of 3, killed at any step | 729,000 | what survives in the history file |
| `decls` | 8 kinds of sessions of 3 inputs | 31,000 | undoing, order of execution, shadowing |
| `symbols` | 4 sessions of 4 or 5 steps | 79,000 | stale addresses, suggested libraries, paths |
| `evaluate` | every input of up to 2 pieces; 3 inputs and 2 Values | 116,000 | wrapping, values, printing, ownership, the refinement of `ValuesSpec` |
| `lang` | 3 sets of headers (up to 6 steps), 3 programs for lookups (4 to 7 steps) | 35,000 | maps, default arguments, names and lookups |

**Bounds.**  `Txn` bounds the transactions alive at once.  Four are what a commit
with a nested commit inside needs at its peak (the transaction, its
instantiations, their instantiations, one more for deserialized decls); five
leave room for a history and for a re-entrant `Compile`.  `Fuel` bounds what one
frame does (decls, errors, calls): one is enough for a transaction to be
non-empty or erroneous or to contain another, and a frame with one event can have
children with one each, so nesting is limited by `Txn` only.  The client is not
bounded.  `Free # {}` in `AppendDecl` keeps the last transaction of the pool for
the commit, so that the bound never blocks a step the code would take: deadlock
is checked in `core`, `live`, `atexit`, `redirect` and `unload`.  The sessions of the
other runs end: there the system really stops, or the bound on inputs, keys or
steps is reached.

In `AtExit` three transactions are one that is unloaded, one below it that stays
and is never unloaded (the first), and one that a handler compiles.  Four handlers
are a handler that registers two others while an older neighbour still waits,
which is the smallest instance where the order within a group, the recursion and
the key that disappears and comes back all matter.

In `RedirectOutput` three redirections are enough for one of both streams below
one of each, which is what the scopes are about, and two files to tell which one
a stream goes to.  `MaxFD = 7` leaves room for two backups and three files, so
that the descriptor table is never full in the run.  `streams` and `failing`
are chosen at the start: the properties of ownership hold in all modes,
`StreamsFollow` for files that open and no `&1` and `&2`.

In `UnloadPoints` a history of four is the first transaction, an unload point, a
file and a later line, or two files with a line between or behind them.  Five
addresses leave one that is in neither history nor maps, so that the behaviours
without reuse go on; addresses are compared and never computed with, hence
symmetric.  `LoopEnds` is the invariant behind the end of the loop: the point is
in the history, and every round makes the history shorter.

`MaxInput = 7` in `meta` is a bracket and its partner with two more tokens of each
of a comment, a template and a conditional around them. In `textinput` a row has 3
cells, so that five characters wrap twice, the undo buffer holds 3 states and is
full after four changes, and the sessions that need a history begin with one. In
`history` a depth of 3 with a prune length of 1 is exceeded by either of two
processes, which add at most 4 lines each (`MaxLines`). Three inputs in `decls` are
a declaration, its redeclaration, and one more that is undone or refused; each
session has inputs that interact. `symbols` has `LoopLevel = 4` links (40 in the
code) and five steps: a library is loaded, used, unloaded, and something is done
with what is left. In `evaluate` two pieces are a definition and a statement behind
it in every order; three inputs and two Values are what one copy, one move and one
assignment need. The headers of `lang` have one declaration of every kind; six
steps are two maps, two headers and two that are undone, in every order.

**Fairness.**  `WF_vars(Run)`: one thread executes the code, so a step that only
the code decides is taken.  `Run` includes the return of user code
(`InitReturn`, `CommitReturn`, `DtorReturn`) and the end of a parse: an
initializer that loops for ever does hang cling.

## Proofs

Of `IncrementalParser`, for any set of transactions, any `Fuel`, with and
without `ErrorOut`, and any `Reenter` (including user code that unloads, which no run has):

* `TypeCorrect`: `Spec => []TypeOK`.  The part that is not a mere type is the
  stack: every frame but the bottom has a transaction, so `unload` never gets a
  null pointer.
* `TreeCorrect`: `Spec => []TreeOK`.  Parents, nested lists and markers agree.

Neither is inductive alone: releasing a transaction removes the n-th marker of
its parent's decl queue, which is well typed only if there is one, and that
there is one follows only if parent and nested list agree.  `IInv` is the
conjunction of the types, the nesting tree, the markers and the shape of the
stack.  `IncrementalParserProofs` shows that each operation of `Transaction` keeps
the part it is about (`BeginPreserves`, `EndEmptyPreserves`, `EndFullPreserves`,
`DeregisterPreserves`, over lemmas on sequences and on counting markers), then the
same of the stack, and combines them action by action (`NextIInv`).

Assumed: `None` is not a transaction, `Fuel` is a natural number, `Reenter` is a
function into sets of calls.

The other safety properties depend on what user code does.  They are proved under
`Tame`: static destructors and callbacks of an unload run nothing of the interpreter
(`Reenter["dtor"] = {}`), and initializers and commit callbacks, which may compile
and look up as they like, do not unload.  Without either half the properties are
false (see the observations on transactions); `ReenterCommit` of the runs satisfies
it, so that the runs check the same cases.

* `DequeCorrect`: `Spec => []DequeOK`; `ScopesCorrect`: `Spec => []ScopesOK`;
  `RollbackCorrect`: `Spec => []RollbackOK`.
* `LogImplemented`: `Spec => LogRefined`.  Every step of the parser is a step of
  `TransactionLog` or none.

The invariant has two parts beside `IInv`.  `CallsInv` (`IncrementalParserProofs`)
says what a function may rely on when a call returns: where the stack can be cut
(`ShapeOK`), that every frame has a transaction of its own, nested in the one that
`Target` names for the frame below (`LineageOK`), which states it can be in and what
the local `prevConsumerT` is (`PhasesOK`), which transaction is current
(`CurrentOK`), and that whoever was last to be pushed to `m_Transactions` is the
root of everything above it (`FrontOK`).  The last needs roots of nested transactions,
which are defined by a path (`RootOf`, `Rooted`): that there is one at all is part of
the invariant.  `ErrorsInv` follows an error from the
parser to the commit that finds it: `Doomed` says that it is in the diagnostics of
the top-level transaction, or still only in the diagnostics engine, where a function on
the stack will collect it before a lookup resets it (`Reported`).  The lemmas go
action by action: first stack and tree (`NextCalls`), then the errors
(`NextErrors`).

The refinement maps the deque to its committed members, a function that is defined
by recursion on the length.  What it does under `Append`, `Front` and a change of
states is shown by taking the least length at which two tables differ
(`LeastNatural` in `SequenceLemmas`), which needs no induction principle.

Of `AtExit`, for any sets of transactions and handlers, with and without other
threads, assuming only that `None` is not a transaction:

* `TypeCorrect`: `Spec => []TypeOK`.  No handler is taken from an empty group and
  no call finishes that was not made.
* `OrderSynced`: `Spec => []OrderSync`.  The map and the vector of its keys
  agree, whatever re-entrant calls do between their updates.
* `HandlersAreKept`: `Spec => []HandlersKept`; `NewestRunsFirst`: `Spec => NewestFirst`.

`IInv` of `AtExitProofs` has four parts: map and order (`OrderSync` and their
types), the stack (only the group whose handler is running may be empty, and
it is the last), the call of the client (an unload is of a log that is not empty,
which `Finish` needs), and the history.

That each handler is kept and called in order is `KeepInv`.  Its core, `KeptOK`, is
about order: of the handlers of one transaction the older lie below the younger on the
stack (`StackSorted`), and those on the stack are older than those in the map
(`StackFirst`).  It implies that a handler is in one place, since nothing is older than
itself, and is kept by all that moves handlers: a frame that takes handlers out of the
map goes on top of older ones (`TakesKeeps`), and a registration is the youngest of all.
Order of calls needs more: when the loop of `runAndRemoveStaticDestructors` takes its
next handler, nothing of its transaction waits in the map (`Settled`).  That holds
because a frame below another one has called a handler or itself, and in the second
case both have the same transaction (`Joined`).  Nothing is left at the end because the
frames of an unload are for its transaction or for all (`TaskKept`), so that one that
has no more handlers has asked the map again (`Drained`).

`SequenceLemmas` has what these proofs
and those of `Transaction` need to know of `Append`, `Front`, `RemoveAt` and
`SubSeq`.

Of `RedirectOutput`, for any set of files, any size of the descriptor table
(also when it is full, where `open` and `dup` fail) and any number of
redirections, assuming that `MaxFD` is a natural number and that files are not
numbers:

* `DescriptorsSafe`: `Spec => []DescriptorsKept`; `TypeCorrect`: `Spec => []TypeOK`.
* `StreamsRight`: `Spec => []StreamsGo`, for a table with room (`Roomy`: `MaxFD` is at
  least `MaxStack + 4`, one descriptor for each file, two backups and one to
  spare).  In a full table `dup` fails and a stream does not follow.  The run
  satisfies it.
* `TwoStacksImplemented`: `Spec => TwoStacks`, without that hypothesis.

`IInv` of `RedirectOutputProofs` relates the table to the backups and the stack
(`DescOK`, `StackOK`) and adds `CurOK`: `m_CurStdOut` is valid only while there is a
backup of stdout, without which the end of a prompt could connect stdout to a
file that nothing remembers to undo.  Each helper of the class keeps `DescOK`
whatever descriptor an entry has, which is why stale descriptors do no more harm
than send output elsewhere.  `ErasedOK` is the lemma on the invalid iterator.

`StreamsRight` adds `GoInv`: the prompt is on the terminal, and when nothing else than
files is redirected to and all of them open (`FilesFollow`), every entry has a file of
its own that is open (`Entries`), a stream has a backup exactly when there is an entry
for it (`Backed`), goes where the last one says (`Connected`), and so does what the
prompt restores (`CurFollows`).  `FreeFD` counts: open descriptors belong to
entries and backups, so that one is free.  The refinement needs that the entries that
stay keep their order (`IsRest`, `ErasedRest`), and what `TargetsOf` is of a stack that
is a part of another: the same, if everything for the stream is left
(`TableOfRest`), and one less, if its last entry has lost the stream
(`ErasedTargets`).

Of `UnloadPoints`, for any sets of files, libraries and addresses and any length
of the history, assuming that libraries are files and that `None` is neither a
file nor an address:

* `PointAhead`: `Spec => []LoopEnds`; `PointsStayed`: `Spec => []PointsStay` (with
  `NeverLoadedTwice` and `LibrariesFound` for its two parts); `OlderSurvives`:
  `Spec => []RevertsOnlyLater`; `ErasedOnce`: `Spec => []IteratorValid`;
  `TypeCorrect`: `Spec => []TypeOK`.

`IInv` of `UnloadPointsProofs` has a part that always holds (no two transactions
at one address, `LoopEnds`, and that `.L` has forgotten a file before it loads it)
and a part, `Known`, that holds until an address is reused.  The central
conjunct of the latter is `LoadedBehind`: a transaction that the map names a file
for is not behind the file's unload point.  When the loop of `.U` meets such a
transaction and erases the file's entry, the unload point is this transaction or
already gone, and so is everything the file was loaded into.  It has to be said
because `m_TransactionToFE` keeps entries of files that were loaded again
elsewhere.

Of `History`, for any finite set of processes, any depth and prune length (but for
the two being equal, where the code divides by zero) and any number of lines:

* `HistoryIsKept`: `Spec => []HistoryKept`.

Order holds in every file that a process may still rename (`Placed`), and a line that
is about to be written is later than any that is there (`Behind`).  What a process
alone in `AppendToFile` knows at each step is `Alone`; it is kept because any step of
another process that matters sets `raced`.  The bound needs an accounting: a process
whose count is `num` adds `After(num)` lines before it counts again or prunes
(`Credit`), each of these is a ticket, and the lines of the file plus the tickets of
all processes never exceed `MostLines` (`SizeOK`).  A count of the lines hands out
new tickets, but at most as many as there are lines missing to the next count; that
is where the remainder of the division by `Period` comes in.

Of `TextInput`, for any characters and maps between the cases, any depth of the undo
buffer, any sessions, keys, histories, prompt and width:

* `DisplayCorrect`: `Spec => []DisplayShows`; `PasteRestored`: `Spec => []PasteRestores`;
  `EntryCorrect`: `Spec => []EntryOK`; `TypeCorrect`: `Spec => []TypeOK`.

Assumed: `^C` and `.q` can be typed (`EditorAssumption`); a row has a cell
(`TerminalAssumption`); prompt, search text and line fit into the screen, and a line is
less than half as long as what `Range::End()` stands for (`TextInputAssumption`).

`Inv` of `TextInputProofs` has three parts. `SessionInv` has the bounds. `EditorInv` says
that the cursor and the entries of the history are in range, what the paste buffer
owes (`PasteOK`), that the range to display is a proper one, and that the line stems
from its entry unless it is astray (`Stems`). `DisplayInv` says that the terminal shows
the text while a line is read (`Shows`), and only old lines before it (`Bare`).

The display is proved in two halves that know nothing of each other. Every command
keeps `Good(x, y)`, whatever it calls: outside of the range that `y` asks to be
displayed, the line is what `x` had at the same place (`Covered`; the lemmas that begin
with `Changes` say how ranges add up, `ShownCovers` what one more function does to them). And a display that
showed `x` and writes that range again shows `y` (`PartShows`, `FullShows`): characters
that moved because of an erasure are behind the range's start, and a line that has
become shorter has the rest of its cells cleared, up to `writeLen`, which therefore
has to be what was last written. The two meet in `ProcessNewInput`.

Of `Evaluate` and `Values`, for any finite set of Values, any number of blocks, and
any sessions of inputs of any length, wherever `getWrapPoint` cuts them:

* `ValueIsFresh`: `Spec => []FreshValue`; `PrintsAsAsked`: `Spec => []PrintsIffAsked`.
* `EvaluationUsesValues`: `Spec => ValuesSpec`, the refinement;
  `ValuesOwnTheirObjects`: `ValuesSpec => []OwnsItsObjects`; hence
  `EvaluationOwnsItsObjects`: `Spec => []OwnsItsObjects`.

Assumed is `EvaluateAssumption`.  `FreshValue` and `PrintsIffAsked` hold of each input by
itself, once Values and blocks have their types; so `EvaluateInv` adds only the
session and `HeapTyped`, which is less than `ValuesSpec` keeps, for a Value that was
assigned to itself may hold a block that is gone.  The work is in what the
transformers do to a body of any length.  `EndsIn(b, T, x)` says that `x` is the last
of `b` that is not in `T`.  Every transformer is a lemma of what it makes of that:
`AutoFixer` and `GetOrCreateLastExpr` turn the last statement into an expression
for its value, the printer and the extraction of declarations and of values keep it
last or leave nothing behind it.  `WrapperBody` ends in what the input ends in, since
nothing in front of the wrapper has a value (`Before`, `Leaves`).  So what is run
hands over nothing, the value of the last statement, or one that a `return` names
(`Handing`), and the heap then has that value or none.

Of `ValuesSpec`: `OwnsItsObjects` is not inductive: that a
freed block has destroyed what was built in it follows from what it looked like
before.  `IInv` of `EvaluateProofs` adds `ObjectOK`: a block asks for the destructor
its type has, but for an array of arrays; one with its canary has no object built
in it, but for a class that writes nothing; one with an object has all of its
elements; and only a freed one has destroyed any.  `Fits` says it of the values and
the blocks of a heap, and that who owns a block names one that is there.  Each
operation is reduced to one of four changes of the two that keep `Fits`: a Value is
dropped (`DropFits`), shares (`ShareFits`) or gives away its block (`GiveFits`), or gets
a new one (`NewFits`, `ConstructedFits`).  `operator=(const Value&)` of another Value is
a destruction and a copy (`AssignOK`).  Between its two halves no invariant
holds, since the Value still names a block that may be gone: this is where an
assignment to itself goes wrong, and why `IInv` ends with `selfAssigned`.

Only model-checked: `MetaProcessor` with `MetaParser` and `InputValidator`, everything of
the modules from `Declarations` to `Autoloading` except `Values`, `ValueSynthesizers` and
`Evaluate`; of these, `Wraps`, which is about `WrapPoint`; and liveness, which this prover
does not do.  `DeclUnloader`, `Declarations`, `ForwardDeclPrinter`,
`TypeNames`, `NameLookup`, `SourceNormalization`, `LibraryFiles`, `Libraries`,
`IncrementalJIT` and `Autoloading` have RECURSIVE operators, which put a module out of
the prover's reach.

## What the models show of the code

Restrictions under which the properties hold, and what happens without them.
These are observations on the code as it is; each is named in the module it
concerns.

Where the code breaks a property, the property leaves that case out and checks the
others, so that the hazard is caught in part only:

| Property | Not caught | Left out by |
|---|---|---|
| `RollbackOK` | user code that compiles or looks up while its transaction is unloaded; a result that names a transaction that went back to the pool | `Reenter`, `Live` |
| `Quiesces` | user code that compiles again and again | the bound of `Txn` |
| `OrderSync` | iterators in `m_Order` behind a rehash | not modelled |
| `HandlersKept` | a handler that another thread registers for a transaction whose handlers have run | `~threads` |
| `StreamsGo` | the backup that entries for both streams share | `streams`, `failing` |
| `RevertsOnlyLater`, `PointsStay`, `IteratorValid` | an address that the maps still know is used again | `reused` |
| `PromptOK` | the prompt behind a statement that throws | `did.kind` |
| `CommandIsNamed` | a line that another command takes | `FallsTo` |
| `EntryOK` | Up after undo, `^G`, `^C`, `^O` or a search for nothing | `astray` |
| `NothingStale`, `AnswersRight` | addresses asked for too early; libraries loaded or installed later | `byAsk`, `byPragma`, `Newer`, `gone` |
| `Wraps`, `FreshValue` | the only token behind a definition; a value that what is declared leaves | `IsMissed`, `IsLost` |
| `OwnsItsObjects` | a Value assigned to itself; a misjudged canary | `selfAssigned`, `IsMisjudged` |

**Transactions.**

* `Reenter` allows initializers and commit callbacks to compile and look up.  A static destructor that compiles during an unload puts a transaction behind
  the one that is being reverted; a look-up in `TransactionUnloaded` opens one that
  nests in it (`Interpreter.cpp:1537`).
* After `kExeNoModule` the result of a parse names a transaction that went back to
  the pool (`IncrementalParser.cpp:685`).
* An error of an instantiation or of CodeGen comes after the error check of the
  enclosing commit and leaves a committed transaction with errors
  (`IncrementalParser.cpp:590`).
* `runStaticInitializersOnce` never returns an error, so that the roll-back of
  `commitTransaction` on errors of initializers never happens.
* `~PushTransactionRAII` of an empty transaction leaves errors of a lookup in the
  diagnostics engine (`Interpreter.cpp:120`).
* A static initializer that unloads frees the transaction that is being committed
  (`Transaction.h:322`); a transaction that could not be unloaded cleanly is
  `kRolledBackWithErrors`, which the assertion of `releaseTransaction` does not expect
  (`TransactionPool.h:64`).

**Exit handlers.**  At shutdown all handlers of a transaction run before those they
registered: newest first holds at unload only.

**Redirections.**  An entry for both streams shares its backup; undone for one, it
may be closed for the other (`MetaProcessor.cpp:166`).

**Unload points.**  After `.undo` of an unload point the next transaction may get
its address; `.U` of the file then reverts lines that have nothing to do with it.
With `--errorout`, `unload()` leaves an erroneous transaction in place and the
loop of `.U` does not end (`MetaSema.cpp:222`).

**Prompt.** An apostrophe in a block comment is lexed as a quote and may take the
end of the comment with it. `.x )` and `.x ;` walk back over the beginning of the
line (`MetaParser.cpp:284`). `^T` on a line of one character swaps it with a
character before the line (`Editor.cpp:377`); `SwapsOutside` names such steps. A
prune length equal to the depth of the history divides by zero (`History.cpp:87`;
`PruneAssumption` excludes it).  A prune goes by the count that the process made some
lines ago, and leaves fewer than `fPruneLength` lines of a file that others have
shortened since (`History.h:63`).

**Undoing.**  `Astray` and `LeftBehind` in `Declarations` name what undoing does not
put right: a class specialization that was redeclared, inline namespaces and
`extern "C++"` blocks that were redeclared lose the outer name, `#undef` stays
undone, the canonical declaration of an explicit function specialization stays.
A refused wrapper is in no transaction (`DeclCollector.cpp:190`).  The marker of a
nested transaction disappears while the queue is walked, so that the next entry
is unloaded twice, which changes nothing (`TransactionUnloader.cpp:57`).  A
forward declaration at the prompt always invalidates what it shadows.

**Symbols.**  An address asked for between `.L` and the next input belongs to an
older transaction and survives the library (`IncrementalJIT.cpp:317`).
`doesSymbolAlreadyExist` finds mere declarations; `m_unresolvedSymbols` is cleared
before initializers are linked; `m_DtorWrappers` keeps the address of a wrapper that
was undone (`Interpreter.cpp:1322`); `ContainsSymbol` does not look at
`SF_Weak`.

**Values.**  `IsMissed`: the only token behind a definition, or all that is behind a
class with variables, is not wrapped.  `IsLost`: what is declared leaves the value; a
declared input and one without a wrapper leave the caller's Value as it was.
`IsMisjudged`: an object whose first bytes look like the canary is not destroyed.

**Names.**  The quick path of `LookupHelper` misreads a leading `::`, an alias of a
namespace, a component hidden by something that is no scope, plain `char`, `T*&`
and a typedef of a reference with another operator.  Fully qualified names drop the
`const` of `const auto` and the qualifiers of an elaborated typedef on an early
return; `N::CT`, a typedef of `const B`, is printed `N::const B`; arrays, functions and
member pointers are not qualified; a typedef of a nested class named `::T` gets the
prefix `::`.  `SelectPrefix` calls `getAsNamespace()` for nothing.
`matchFunctionProto` is lenient on lvalue references, never matches `&&` or a `const`
value, and a reference may lose to a rival by value.  `hasFunction` and
`findAnyFunction` do not count a function template that is alone with its name.

**Lookups.**  `getCompleteContext` may instantiate outside of any transaction
(`LookupHelper.cpp:1573`); `Diags.Reset` in a nested lookup forgets errors of the
outer one (`LookupHelper.cpp:745`); undoing a lookup's instantiation unloads a
specialization that later code may still name (the guard of `Undo_` excludes it);
`getStringType` remembers `getLatestTransaction`, which need not be the one that
declared the string.

**Maps.**  Function templates keep their default arguments in the forward
declarations, so that the header clashes with them; undoing a header restores
neither these nor the entry of `m_Map`.  A nested namespace that is empty is
printed without its parents.  Function types and using types are overlooked by
the visit.  `PrintsDefault`, `LosesDefault`, `Silent` and `Hollow` name these cases.

## What is abstracted

* The transaction `Initialize` makes for a PCH; the rarely taken early return of
  `commitTransaction` for a transaction that is already rolled back (no caller
  of the modelled code gets there); the reset of the diagnostics at the end of
  `codeGenTransaction`, which repeats the one before.
* `emitAllDecls` and the transactions of `codeComplete`.
* `kRolledBackWithErrors`: between `RevertTransaction` and the release only.
* A second thread in `IncrementalParser`.  The embedder's lock is expected to
  exclude it.
* `AtExit`: a handler does not unload, and one that runs in `unload` does not
  compile.  Handlers do not throw.  Whether
  iterators in `m_Order` survive a rehash of `m_Map` is up to the library.
* `RedirectOutput`: flushing, append mode, the console handling of Windows, a
  `dup` that fails for `&1` and `&2` (declared unreachable in the code), an
  `erase()` of another library than libstdc++.
* `UnloadPoints`: a load commits at most one transaction; files that are not
  found, which changes nothing; `--errorout`.
* `MetaParser`, `InputValidator`: characters below tokens; what a command prints.
* `TextInput`: the size of the window, masked input, colours, UTF-8.
* `Declarations`: Clang's parser and Sema are external: `Parse` says what they put
  into the AST for each kind of item.  Variable templates, using declarations and
  constructors are left out, and files that an undone input read.
* `Symbols`: modules of different transactions do not use each other in a circle;
  the working directory holds no libraries; `.gnu.hash` has no false positives (a lookup in
  the symbol table follows, which is exact); a
  file does not change once it is installed; directories are read in a fixed order;
  what ORC does with the symbols of a removed tracker is left open (`defunct`);
  `shouldPermanentlyIgnore` is never consulted on ELF.
* `Evaluate`: `isUnnamedMacro`, attributes of CUDA, tokens that need cleaning.
* `TypeNames`, `NameLookup`, `LookupHelper`: instantiations that fail leave nothing and
  are no actions; packs do not nest; argument expressions (`ParseArgs`) are left
  out, and `includedRuntimePrintValue`.
* `Autoloading`: declarations that come first inside of another template's
  declaration; `m_PrintInstantiation` is never set; maps are not unloaded.

## Not modelled

* `ExternalInterpreterSource`: it imports declarations of a parent interpreter through
  Clang's ASTImporter, and all that could go wrong is there.
* `Display` (`.class`, `.g`, ...), `ValuePrinter`: formatting; they change no state.
* Compiler set-up (`CIFactory`, `Paths`, `BackendPasses` but for weak symbols): command
  lines and pass pipelines, run once.
* CUDA: drives an external compiler.
* `DynamicLookup`, `NullDerefProtectionTransformer`: they rewrite expressions and
  keep no state.
* Jupyter: a pipe around `Interpreter::process`.
* `InterpreterCallbacks`, `EnterUserCodeRAII`: where callbacks run is part of
  `IncrementalParser`; the lock is the embedder's (`EnterUserCodeRAII.h:18`).
* Platform helpers: stateless, except for paths (`LibraryFiles`).

## Plan

1. The prompt of `MetaProcessor` (`PromptOK`, `CommandIsNamed`).
2. The lock callbacks around user code; `--errorout` in `UnloadPoints`;
   `ExternalInterpreterSource` as two sessions of `Declarations`.
