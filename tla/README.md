# A TLA+ model of STELA

STELA compiles a small, statically typed scripting language to machine code with
LLVM and runs it inside a C++ program. This directory holds TLA+ modules that
model the parts of the compiler, and of the code it emits, whose correctness
depends on long sequences of steps; TLC configurations that check them on small
instances; and theorems about them, for instances of any size, that TLAPS checks.
Paths below are relative to `src/` of the repository.

## 1. The system

### Parts, their state and how they interact

The embedding program calls the phases one after the other. Everything runs in
one thread; what makes the code hard is not concurrency but nesting: recursion
that shares fields, destructors that run in the middle of assignments, jumps that
leave several scopes at once.

| part | sources | state | operations |
|---|---|---|---|
| lexer, literals | `Lex/` | position in the text | next token; number and string values |
| parser | `Syntax/` | position in the tokens, context stack | one function per construct |
| module order | `Semantic/modules.cpp` | stack, visited, order | depth-first search over imports |
| analysis driver | `Semantic/semantic analysis.cpp` | scopes of the modules | compile the modules in order |
| scopes and lookup | `Semantic/scope *.cpp`, `expr lookup.cpp`, `traverse.cpp` | tree of scopes, current scope, captures | enter, leave, insert, look up, capture |
| types | `Semantic/infer type.cpp`, `expr stack.cpp`, `compare types.cpp`, `builtin symbols.cpp` | stack of expressions, expected type, aliases | push, pop, resolve calls and members, compare types |
| missing return check | `Semantic/check missing return.cpp` | `term`, `occurs` | judge each statement, append `Terminate` |
| statement generator | `CodeGen/generate stat.cpp`, `function builder.cpp` | blocks, scopes of objects, targets of jumps | one per statement |
| expression generator | `CodeGen/generate expr.cpp`, `lifetime exprs.cpp`, `categories.cpp` | temporaries | one per expression |
| declaration generator | `CodeGen/generate decl.cpp` | constructors and destructors of globals | one per declaration |
| function instances | `CodeGen/func instantiations.*` | cache by type | get, generate on demand |
| pointer runtime | `CodeGen/generate pointer.cpp` | reference counts, heap | inc, dec, copy, move, assign, destroy |
| array runtime | `CodeGen/generate array.cpp`, `generate builtin.cpp` | length, capacity, cells | construct, copy, push, pop, resize, index |
| closure runtime | `CodeGen/generate closure.cpp` | function, captures | construct, copy, move, assign, destroy |
| formatter | `Format/` | the text so far | print each kind of node |
| optimizer, engine, native bindings, reflection, log | the rest | none that other parts rely on | |

The parser produces a syntax tree, the analysis annotates it (symbols, types,
capture indices, `Terminate` statements), the generator reads the annotations.
The runtime functions are emitted as LLVM code once per type and call each other:
assigning an array destroys the old storage, whose destructor destroys elements,
which may be arrays or closures.

### What is hard, and what makes each part correct

* **Lexer and literals.** What begins at a place is found by trying in a fixed
  order, and a number is read as three different types in turn. Correct: tokens
  are what stands outside of comments, each as long as it can be; a literal has
  the value it is written with.
* **Module order.** A diamond of imports must not be taken for a cycle, and a
  cycle must be found although its members are marked visited. Correct: imports
  come first; only defects that exist are reported; the search ends.
* **Scopes and captures.** A lambda in a lambda in a function needs a chain of
  captures, each index relative to a different list, built by a recursion that
  writes one field of the identifier on every level. Correct: every identifier
  reaches the object its name denotes.
* **Types.** The visitor of expressions keeps calls, members and functions on a
  stack whose operations assert what is on top, and carries the type that is
  expected of the expression inside. Correct: no assertion fails, what is accepted
  is well typed, and what is well typed is accepted.
* **Missing return check.** It keeps its verdict in two fields that statements
  without jumps do not touch. Correct: an accepted function returns.
* **Statement generator.** `break`, `continue` and `return` leave several scopes.
  Correct: objects are destroyed exactly once, in reverse order, on every path.
* **Expression generator.** Temporaries live to the end of the full expression,
  objects are constructed in place, copied or moved. Correct: the code computes
  what the expression means and destroys each object once.
* **Pointers, arrays, closures.** A destructor runs between the two halves of an
  assignment. Correct: exact counts, nothing dangles, nothing is destroyed twice,
  only circles of references leak, and the whole behaves like the C++ types that
  `README.md` names.

The hazards, each at its line, are in `PROJECT.json`.

## 2. Modules

```
StackLemmas (lemmas about sequences and counting) <-- the modules of proofs
ModulePlan  <--refines--  ModuleOrder  <-- MCModuleOrder, ModuleOrderProofs
RefPtr <-- RefPtrProofs
SharedFunctions <--refines-- ClosureRuntime (EXTENDS RefPtr) <-- MCClosureRuntime
ClosureRuntime, RefPtrProofs <-- ClosureProofs
SharedVectors <--refines-- ArrayRuntime <-- MCArrayRuntime, ArrayProofs <-- VectorProofs
MissingReturn <-- StatGen <-- MCStatGen      StatSem (INSTANCE in StatGen)
ExprTypes <-- ExprGen <-- ExprRun <-- MCExprGen   ExprTypes <-- ExprSem (INSTANCE in ExprRun)
Captures <-- MCCaptures, CapturesProofs
TypeTable <-- TypeCheck <-- TypeSem <-- MCTypeCheck
Chars <-- NumberLiteral <-- Lexer <-- Tokenize      NumberLiteral <-- StringLiteral
Tokenize, StringLiteral <-- Literals <-- MCLexer, LexerProofs
Parser <-- MCParser                Grammar, Format, Lexer (INSTANCE in MCParser)
```

### ModuleOrder, ModulePlan

`ModuleOrder` translates `findModuleOrder` and `compileModules`. The recursion of
`Visitor::visit` is the code's own `stack`; `dep[i]` is the position of the loop
over the imports of AST `i`. One action is one call, one turn of the loop or one
return: `CheckDuplicateModules`, `VisitRoot`, `CheckCycle`, `VisitDep`,
`VisitOther`, `LeaveVisit`, `ReturnOrder`, `CompileModule`, `CompileNothing`. The
lists of ASTs and of compiled modules are constants, so the theorems hold for all
of them. `ModulePlan` is the promise: fail and name a defect that the input has,
or compile each module once, after its imports.

### RefPtr

A slot is a variable, an element of a storage or a capture; an object is a heap
block with a count. `ptr_dec` calls a destructor which calls `ptr_dec`, so a call
is not one step: `dtors` is the stack of destructors that are running and `asgn`
the assignment that waits for them. `PtrCopAsgn` counts the source up and the
destination down; only `FinishAsgn`, after the destructors, stores, and a move
reads its source only there. `DestroyPart` and `FreeObject` are the body and the
end of a destructor. Which slot may hold which object is a constant, `MayHold`, and
need not rule out that blocks hold each other, since a lambda may capture the array
it is pushed onto. A program can name what it gets to from a variable (`Reached`,
`Accessible`). An assignment whose source belongs to the value it replaces
(`x = x[0]`, `x = x[0][0]`) is included as far as the generated code allows it: the
source is also part of what a temporary holds, however deep (`Held`).

### ArrayRuntime, SharedVectors

Storages with count, length, capacity and cells. A cell is raw memory or holds an
element that counts its handles, so that a missing or a double construction or
destruction shows. Lengths have `W` bits. `MakeCall` chooses a call of the
program, and one action per runtime function performs it. `SharedVectors` is what
`README.md` promises: arrays behave like `std::shared_ptr<std::vector>`, and
panic on a bad index or on popping from an empty array.

### ClosureRuntime, SharedFunctions

`EXTENDS RefPtr`: a closure is a function pointer next to a slot of `RefPtr`, and
each operation of closures is the operation of that slot together with a store to
`fun`. The slots that are not in `Closure` hold arrays, whose functions
(`ArrayOperation`) leave `fun` alone: arrays hold closures and are captured by
them. A part of captures is constructed by a copy only, others also from new values
(`Fresh`). `cloAsgn` assigns the captures only if the destination has some
(`AssignsData`). `SharedFunctions` is the promise: an operation takes over a
closure as a whole.

### MissingReturn, StatGen, StatSem

`MissingReturn` is the visitor of `check missing return.cpp` as operators over a
small statement tree: each returns the tree with `Terminate` appended, the fields
`term` and `occurs` and the first error. They are recursive and only used by TLC.
`StatGen` generates basic blocks from that tree as `generate stat.cpp` does, with
the scopes and the targets of jumps, and then executes them with both outcomes of
every condition. `StatSem` says, by a list of tasks and without blocks, what the
statements do; the code runs beside it and must agree with it at every step.
Objects are named by the path to the statement that makes them.

### ExprTypes, ExprGen, ExprRun, ExprSem

`ExprTypes` has the expressions with their types and how `categories.cpp`
classifies them. `ExprGen` is the generator: a visit returns the state of the
generator, with the blocks, the temporaries of the full expression, the operand
the visit left, and takes the address at which the result shall be constructed.
The lifetime operations choose between copying, moving and constructing in place
as `lifetime exprs.cpp` does, and `lower expressions.cpp` is applied to compound
assignments first. `ExprRun` executes the code over a memory of objects that are
constructed and not yet destroyed; `ExprSem` evaluates the same statement
directly and gives the calls, in order, and the values. The outcome of reference
counting is taken from `RefPtr` and `ClosureRuntime`: a block goes with the last
array or closure that holds it.

### TypeTable, TypeCheck, TypeSem

`TypeTable` has types and the symbol table: the scopes with the symbols under
each name, the nodes of aliases and of functions. A `NamedType` keeps the number
of the alias it was looked up as. `compareTypes`, `validateType`, the lookups and
the predicates of builtin types and functions are operators. In `TypeCheck` a
visitor is a record of the expression stack, the expected type, the last result
and how the visit ended: `"error"` after a fatal message, `"abort"` after an
assertion or `UNREACHABLE`. `Accept` visits an expression; one action per kind of
statement does what `traverse.cpp` and `scope insert.cpp` do to the table. A
function or a lambda is entered by one statement and left by another, so that any
statements may stand between; a lambda is the whole initializer of a variable. A
branch of `?:` sees no expected type, because `visitExprNoCheck` gets a reference
to the member that it moves from. `TypeSem` is the reference, without a stack: a
type is what is left when weak aliases are replaced and strong ones are
identified by their declaration; an expression has a type of its own (`Syn`) or
can be given one (`Chk`).

### Chars, NumberLiteral, StringLiteral, Lexer, Tokenize, Literals

`Chars` has texts and the functions of `ParseString`, `NumberLiteral`
`validNumberLiteral` and `parseNumberLiteral`; `strtold` and `strtoll` are modelled
from their use. The types have a few bits, reals are fractions rounded to
`RealBits` bits, and a conversion that is undefined in C++ has two outcomes
(`nearest`); the character that is read behind the end of the text is `after`.

`Lexer` has what begins at a place, and one operator for a turn of each loop of the
code: `TokenizeTurn` (`tokenize`), `CommentTurn` (`parseMultiComment`), `QuoteTurn`
(`parseString` and `parseChar`, which differ in the quote). They take and return
`lex`: the loop the lexer is in, its position, the depth of comments, where the
string began, and the tokens so far. `Tokenize` makes a step of each:
`TokenizeStep`, `CommentStep`, `QuoteStep`. `Literals` adds what happens later to
the strings and characters among the tokens: `VisitString` or `VisitChar` of
`infer type.cpp` calls `parseStringLiteral`, whose loop (`StringLiteral`) advances
by `UnescapeStep` with its state in `str`, and `VisitEnds` checks that a character
is one. `Reads` is the reference for comments and quotes: it goes through the text
character by character and says of each what it stands in.

### Captures

The traversal opens and closes scopes (`EnterScope`, `LeaveScope`), declares
objects (`InsertParam`, `Insert`) and looks up identifiers (`LookupIdent`). The recursion of
`lambdaCapture` is a stack, `waiting`: `NotCaptured` and `AlreadyCaptured` return,
`AskParent` calls for the scope around the lambda, `PushCapture` continues after
that call, `EndLookup` ends `lookupIdent`. A scope carries the set of the scopes
around it, so `findNearest` and `findScope` need no recursion. Two parameters of
one name are accepted by the code and both are in the table, but `find` always
returns the same of them, so one object stands for both.

### Parser, Grammar

`Parser` has an operator for each parsing function of `Syntax/`. Each takes and
returns the state of `ParseTokens`: the tokens that are left, the node that was
returned and the fatal error, after which nothing happens any more. The ten
functions for binary operators differ only in their tokens and are one operator
over `Levels`. The constructs that contain each other are reached through one
recursive operator, `Parse(construct, s)`: `ParseStat(s)` is `Parse("stat", s)`,
and `Stat(s)` is the body of `parseStat`. `loc()`, `front()` and `expectNode` read the token at `beg` even at
the end of the tokens; the model calls that the error "read past the end", which
is always followed by another fatal error in the code. `Grammar` is the reference
and goes the other way: the canonical text of a tree, from how tightly each
operator binds. `Format` prints a tree as `format.cpp` does, to a text that
`Lexer` and `Parser` read again. The operators are recursive and only used by TLC.

## 3. Runs

All runs pass unless they say *violation*; a violation run states what the
repository's documentation, tests or assertions say and TLC shows what the code
does instead.

| run | what it shows |
|---|---|
| `module_order` | 3 ASTs, up to 2 imports each, 4 names, duplicates, earlier modules: `ImportsFirst`, `ScopesSeeImports`, refinement of `ModulePlan`, termination |
| `array_runtime` | 2 variables, 2 storages, 2 elements, 3-bit lengths: `CellsConstructed`, `ElementsCounted`, `GrowthIsLeast`, refinement of `SharedVectors` |
| `closure_runtime` | 2 closures and an array as variables, a storage of 2 closures, captures of 2 lambdas, of which one captures the array: `RefExact`, `NoDangling`, `DestroyedOnce`, `OnlyCirclesLeak`, `BodyMatches`, destructors end, refinement of `SharedFunctions`, without the assignments of `closure_assign` |
| `closure_circle` | *violation* of `NoLeak`: a lambda is stored in the array it captures, and the variables go out of scope |
| `closure_assign` | *violation* of the refinement: a closure without captures is assigned a lambda |
| `stat_gen` | 2462 functions: `FollowsSource`, `ReturnsWhenAccepted`, `WellFormed` |
| `stat_gen_stale` | *violation* of `ReturnsWhenAccepted`: a plain statement inherits the verdict of the case before |
| `expr_gen` | some 7000 statements, for all values of two conditions: `ObjectsReady`, `Evaluates`, `AllDestroyed`, `Verified` |
| `captures` | 5 scopes, 2 names, 2 objects, 2 identifiers: `CapturesAvailable`, `UsesRefer`, `CapturesNeeded`, and every lookup ends |
| `parser` | 4,900 trees, whole and cut off after each token, and all short strings of tokens and of parts of statements: `RoundTrip`, `CutOff`, `NothingElse`, `FormatKeeps` |
| `lexer` | all texts of up to 5 characters (of comments: 7) over five alphabets, turn by turn, then any string or character among the tokens: `OutsideComments`, `LongestMatch`, `EscapesClosed`, `LiteralsRead` |
| `types` | a prelude, two declarations that hide or overload, one statement with an expression of any kind: `AssertionsHold`, `OverloadsDistinct`, `Sound`, `Complete` |

### Bounds

* `MaxImports = 2`, three ASTs: diamonds, cycles of length 1 to 3 and imports of
  earlier and of missing modules all occur. Proved without bounds.
* Three blocks, six slots: nested destructors three deep, two variables that share,
  assignments between a variable and what it owns, and circles of a storage and
  captures. Proved without bounds.
* `W = 3`, `MaxLen = 3`: growth 1, 2, 4 and from the odd capacities that literals
  (of 3) and `reserve` (5) leave; `MaxLen < 2^(W-1)` because a longer array
  overflows the length, which is undefined in the code.
* Statements: loops, ifs and switches in each other two deep, with jumps, objects
  and plain statements before, in and after them. `stat_gen` runs over the
  functions for which the missing return check is right (`Tidy`), with blocks as
  branches; a violation run and section 5 show the others.
* `MaxScopes = 5`, `MaxObjects = 2`, `MaxUses = 2`: a function with three scopes
  inside it, or four lambdas in each other; two objects, with the same name or
  with different ones, so that captures have different indices in different
  lambdas; two identifiers, so that the second finds what the first captured.
* Trees: expressions of depth two with an operator of every level on both sides
  of every other, which decides precedence and associativity; statements two
  deep; types two deep. `MaxExprTokens = 5`, `MaxStatParts = 5`: enough for a
  ternary and for an `else` after two `if`s; a part is a token or a few that
  belong together (`if a`, `a ++`). An `if` without an
  `else` right before an `else` is not the text of any tree and is left out of
  the trees, and so is a statement without braces that starts with `(` or `[`
  after a condition, which would be read as part of it. `FormatKeeps` is about
  trees that need neither parentheses nor a space after a sign, since the
  formatter prints none.
* Expressions: operands of every kind, with and without temporaries, two or three
  deep, in every kind of statement; the variables are global, local and
  parameters. Left out are the shapes of section 5.
* Texts: `MaxText = 5` holds a sign, a prefix, a fraction, an exponent or a suffix,
  though not all. `MaxLiteral = 4` makes a number of five characters too long, the
  widths of 3, 4 and 6 bits put every limit within a few digits, `LongBits = 7`
  makes `strtoull` wrap negative numbers of three digits into `uint`, and
  `RealMax = 15360`, the largest real of 4 bits with an exponent of 10, is reached
  by exponents only (`MaxExp = 3`), as in the code. `MCInit` chooses texts over one
  alphabet for each thing that is hard. Proved without bounds.
* `MaxStats = 2`: a declaration hides or overloads something of the prelude, or
  opens a scope, the second does so to the first, and a statement uses both. The
  prelude has aliases of both kinds, a structure, a native class, overloads, a
  method, an external function, and a function without a return type whose body
  the program goes on with.

Where a program may simply stop calling (`array_runtime`, closures,
scopes at their bound, a function that returned, a source that is read, a program
that is checked), deadlock is not checked.

### Fairness

`Terminates` assumes weak fairness of the whole search: a sequential function
that is running takes its next step. `UnwindEnds` assumes it of destructors and of
the end of assignments only, `LookupEnds` of the steps of `lambdaCapture` only:
nothing is assumed about the program that calls, or about further declarations.

## 4. Proofs

| theorem | module | for |
|---|---|---|
| `TypeCorrect` | ModuleOrderProofs | any modules and imports |
| `OrderIsTopological` | ModuleOrderProofs | `ImportsFirst` |
| `ScopesAreNested` | ModuleOrderProofs | `ScopesSeeImports` |
| `PtrTypeCorrect` | RefPtrProofs | `TypeOK`, any blocks and slots |
| `CountsAreExact` | RefPtrProofs | `RefExact` |
| `NothingDangles` | RefPtrProofs | `NoDangling` |
| `DestructorsRunOnce` | RefPtrProofs | `DestroyedOnce` |
| `OnlyCirclesAreLeaked` | RefPtrProofs | `OnlyCirclesLeak` |
| `SearchRefinesPlan` | ModuleOrderProofs | `RefinesPlan` |
| `CellsAreConstructed` | ArrayProofs | `CellsConstructed`, any arrays and width |
| `GrowthIsBounded` | ArrayProofs | `GrowthIsLeast`, an action property |
| `ElementsAreCounted` | ArrayProofs | `ElementsCounted` |
| `StoragesAreCounted`, `ArraysTyped` | ArrayProofs | counts and life of storages, types |
| `ArraysAreVectors` | VectorProofs | `BehavesLikeVectors` |
| `BodiesMatchCaptures` | ClosureProofs | `BodyMatches`, any closures |
| `ClosuresAreShared` | ClosureProofs | `BehavesLikeSharedFunctions`, without the wrong assignments |
| `CapturesAreManaged`, `ClosuresTyped` | ClosureProofs | the theorems on pointers, for captures; types |
| `LambdasFindCaptures` | CapturesProofs | `CapturesAvailable`, any tree of scopes |
| `IdentifiersRefer` | CapturesProofs | `UsesRefer` |
| `CapturesAreNeeded`, `ScopesTyped` | CapturesProofs | `CapturesNeeded`, types |
| `TokensOutsideComments` | LexerProofs | `OutsideComments`, any text and widths |
| `TokensLongest` | LexerProofs | `LongestMatch` |
| `LiteralsAreRead` | LexerProofs | `LiteralsRead` |
| `EscapesAreClosed` | LexerProofs | `EscapesClosed` |

The properties in the table are those of the runs, with the same definitions; each
inductive invariant was checked by TLC on the instance of its run before it was
proved.

**Module order.** `ImportsFirst` alone is not inductive: when `LeaveVisit` appends
an AST to the order, its imports are there only because the loop has passed them.
`SearchInv` adds: names are unique after the duplicate check; an AST is visited
exactly when it is at one place of the stack or of the order (`OnePlace`); an
import that an activation has passed is in the order or is the activation right
above it (`PassedImports`); passed names are known; scopes follow the order. One
lemma per action shows that it is kept. The only assumption is that the inputs are
sequences of ASTs and names.

That the search implements `ModulePlan` needs `PlanInv` on top, one clause per
step that the plan restricts. Names differ once the duplicate check has passed
(`NamesDiffer`). Each activation was called for an import of the one below it
(`StackLinked`), so the piece of the stack that `CheckCycle` finds is a cycle of
imports and not a false alarm. The loop over the roots leaves only visited ASTs
behind and compilation starts when it has ended (`RootsVisited`, `SearchOver`), so
a plan that is done has compiled every module.

**Reference counts.** `RefExact` needs the others: a count may be decremented only
because the slot refers to it (`NoDangling`), the destructor's stack holds exactly
the blocks with count zero (`DestroyedOnce`), parts of freed blocks are dead
(`PartsDead`), and the assignment that waits keeps its destination and source
alive (`AsgnSafe`): neither is part of a block under destruction, because a variable
still leads to them by references that are counted. `Reached` says that without
paths, since it has to be proved about: a block is reached if every set of blocks
that it belongs to is entered from outside. A destructor's top block has count zero
and so is reached by nothing (`TopUnreached`), and what it drops was on no path of
the others (`PathsSurvive`). The destination of an assignment is reached without
itself, as a path that goes through it can be cut (`OwnPath`); the source is by
`Held`. `PtrInv` is the conjunction. Counting is done by two lemmas on the
cardinality of the slots that refer to an object. `OnlyCirclesLeak` follows from
exact counts: in a set of blocks without a reference from outside each block has a
referrer within it, and among its subsets that are closed under referrers and not
empty a least one, which exists because blocks that are counted are finitely many,
is a circle (`CircleInside`). Assumed: finitely many slots. Nothing is assumed of
types, so circles are allowed.

**Closures.** Every operation on closures is an operation on the pointer to the
captures (`CloStepIsPtrStep`), so `PtrInv` and the theorems about pointers hold of
captures without being proved again (`CapturesAreManaged`). `BodyMatches` needs
them: between the two halves of an assignment the function pointer is already the
new one while the old captures are being destroyed, and the pair that the closure
is about to have (`DatOf`) stays right only because the destructors that run leave
the destination and the source alone (`AsgnSafe`). `CloInv` is
`PtrInv /\ CloTypeOK /\ BodyMatches`. The refinement assumes `~AssignAny`: a
closure with captures assigned to one without is the finding of the run
`closure_assign`, and the theorem says that it is the only obstacle. The functions
of arrays change no closure that is constructed (`ArraysKeep`). Assumed: that the
functions of lambdas differ from the others, and that a pair of a function and
captures is not the value `Dead`.

**Captures.** `lambdaCapture` recurses from the identifier outwards and assigns
indices on the way back. In `CapInv`, `ScopesNest` describes the tree;
`WaitingChain` says that the activations that wait are those of the closures
around the identifier, from the inside out, all inside the scope of the object;
`WaitingFree`, that none of them has captured the object, so that none is captured
twice; `AskedNext`, whom the innermost activation looks at; `AnswerRight`, what
`true` and `false` mean when they come back: the closure around has captured the
object, or the object is local to it. From these `ResultRefers` and then the three
properties follow. They are clauses of the invariant themselves: a capture refers
to the captures of the closure around it by index, and `UsesRefer` stays true
because captures are only ever appended.

**Arrays.** `BlockInv` holds of the cells alone: the cells of each storage are
constructed up to its length and no further, and the call being performed was
allowed when it was made and still is (`CallAllowed`; without it `PushBack` could
meet a variable without an array, or a length at its limit). It gives
`CellsConstructed` and, with a lemma about `ceil_to_pow_2`, `GrowthIsLeast`.
`CountInv` says that a storage is counted once per variable that holds it, lives
while it is counted, and has no cells left when it is freed: without the last part
a storage that is allocated again would bring back elements that were given up.
`ElementsCounted` is inductive with both. The handles of a storage are counted
apart from all others, so that each function on cells (construct, copy, move,
destroy) needs one lemma about one block. Variables may share a storage;
`StoragesAreCounted` says that it is freed with the last of them. For
`ArraysAreVectors`, the vector of a storage is its prefix of constructed cells,
and each step on blocks is shown to be the step of `SharedVectors` on prefixes:
growing changes nothing, and freed storages are held by no variable, so their
contents do not matter. Assumed: finitely many variables and storages, lengths
below half of the range of the type (section 3), and `PowersOfTwo`, a fact of
arithmetic that the provers do not know and TLC evaluates.

**Lexer.** `OutsideComments` speaks of the end and of a reference that knows
nothing of loops, so `LexInv` says what each loop knows at its head. In `code`, the
tokens cover what the reference calls tokens up to the position (`Told`), and the
reference stands outside of everything there, or on the newline that ends a line
comment (`AtCode`). In `block`, the reference is as deep as `depth` and not within
a pair of characters; in a string, it has been inside from the quote on, and is
not behind a backslash. One lemma per loop shows that it is kept: what
`SkipUntil` passes over changes nothing for the reference (`AlongRange`), and a
token moves it to the end of its text (`TokenText`), because the first character
of an operator is the only one that can begin a comment, and a comment would have
been tried before.

`Good` is what is known of a token for good: it is the longest (`Longest`), a string
is where the reference is inside of one (`Enclosed`), a number is read
(`NumberRead`), and only words and numbers end in a character of words
(`NoWordEnd`). A token that begins between two characters of a word begins where a
token ended, because the reference takes the first of the two for one (`CutOff`);
that was no word, which would have gone on, so it was a number (`CutByNumber`).
`Longest` of operators rests on the order of the table: the
longer ones come first. That of numbers needs to know what
`from_chars` reads (`IsNumber`), and the proof attempt found an exception which the
property now names: a number that begins with 0 and is out of the range of reals
is read in base 8, so that `09e99999` becomes the tokens `0`, `9` and `e99999`.

`LiteralsRead` needs two facts. `validNumberLiteral` reads the number in the text,
`parseNumberLiteral` in the spelling of the token, which is a prefix of it: what is
read of a text is read again of the part that was read (`FromCharsAgain`). And
without a suffix one of `sint`, `uint`, `real` must read all of a plain number: its
value is less than `10^MaxLiteral`, which by `WidthsAssumption` is no more than the
largest real, as it is for the 32 characters and the `float` of the code. A negative
number below `sint` is tried as a `uint` next, for which `strtoull` negates modulo
`2^LongBits`: if the result is a `uint`, the property says that this is what is read
(`Wrapped`), and otherwise that a real is. Values
are recursive functions; that they exist, and follow their definition, is proved
(`StepsExist`) before anything is said of them.

`EscapesClosed` relates two loops far apart, one in the lexer and one in the
analysis. `Follow` says that `prevWasBack` is true exactly if the reference stands
behind a backslash that escapes. A code may take many characters at once, none of
which is a backslash. At the closing quote the reference is closed, so nothing is
escaped before it. `LitSpecIsSpec` says that the visits of literals leave the lexer
alone, so the theorems about `Spec` hold of `LitSpec`, which the run checks.

Assumed: `WidthsAssumption` and that a text is a sequence of characters.

**A note on the prover.** For SMT, tlapm 1.4.5 states that `Len(s) = n` exactly if the
domain of `s` is `1..n`, of every value `s`, which is too much for functions that are
no sequences. No proof here depends on it: all modules were also checked with the
statement replaced by the direction that holds (a domain `1..n` has length `n`).

**Only model-checked.** The liveness properties `Terminates`, `UnwindEnds` and
`LookupEnds`, because the prover has no fairness. Everything about trees: in the
parser (`RoundTrip`, `CutOff`, `NothingElse`, `FormatKeeps`), the statement generator
(`FollowsSource`, `ReturnsWhenAccepted`, `WellFormed`), the expression generator
(`ObjectsReady`, `Evaluates`, `AllDestroyed`, `Verified`) and the types
(`AssertionsHold`, `OverloadsDistinct`, `Sound`, `Complete`), because each is about what
a recursion over a tree computes, and the prover has neither recursive operators
nor induction over data.

## 5. Known wrong, not modelled, and the plan

### Shapes that are left out because the code is wrong there

They are left out of the runs or, as those of numbers, excepted by the property.
Each was seen to violate the property named when it was added to its run. The
hazards at these lines in `PROJECT.json` say more.

| shape | what happens | property |
|---|---|---|
| `let x = same(g)[0];` for an array `g` of arrays | the element is moved out of the storage that `g` shares (`categories.cpp:69`) and leaves null | see the hazard |
| `if (c) return f()[0]; return 1;` | the second return destroys the temporary of the first (`generate stat.cpp:101`) | `FollowsSource` |
| a block that both returns and breaks | its objects are destroyed again behind the `ret` (`check missing return.cpp:43`) | `WellFormed` |
| `a && make_arr()[0] < 1` | the temporary is destroyed even if it was not made (`generate expr.cpp:412`) | `ObjectsReady` |
| `a \|\| b \|\| c`, `?:` in `?:` | the phi names a block that is not a predecessor (`generate expr.cpp:84`) | `Verified` |
| `f(g())` where `g` assigns `f`; `a[0] = g()` where `g` assigns `a` | the call uses freed captures, the store a freed element | `ObjectsReady` |
| `make_arr() == make_arr()` | the arrays are never destroyed (`generate expr.cpp:137`) | `AllDestroyed` |
| a closure assigned, returned or chosen where a `bool` is expected | accepted and not converted (`generate decl.cpp:116`) | see the hazard |
| `.0s`, `0x10b`, numbers that round to a limit | accepted and left unassigned (`number literal.cpp:140`) | see the hazard |
| a method without a return type that calls itself | `assert(funcSym->ret.type)` fails (`expr lookup.cpp:79`); a function gets a message | `AssertionsHold` |
| `let y = t; y();` in a function `t` without a return type | `assert(func->ret)` fails (`expr lookup.cpp:115`) | `AssertionsHold` |
| a strong alias that hides one of the same name | the two are one type (`compare types.cpp:69`) | `Sound` |
| `let s: P = c ? {} : {};` | rejected: the branches see no expected type (`infer type.cpp:110`) | `Complete` |

### Part of the runs, and surprising

Two shapes are in the runs and in what is proved, and the properties name them as
exceptions:

* `strtold` reads `nan`, and numbers are tried before identifiers
  (`lexical analysis.cpp:198`): the identifier `nana` is the number `nan` and the
  identifier `a`, and `nanb` is an error, since `b` is taken for a suffix and a
  byte holds no NaN. `LongestMatch` says that only a number takes the beginning of
  a word away, and that one which begins with a letter is `nan`.
* `-18446744073709551615` is the `uint` 1 (`number literal.cpp:56`): `strtoll` is
  out of range, and `strtoull` negates modulo 2^64 without an error. `LiteralsRead`
  says so of each negative number that wraps into `uint`.

A sign in front of digits belongs to the number, so `a-1` is an identifier and the
number -1. Also met, and taken over by `TypeSem` as they are: only the first
element of an array literal is converted to `bool`; the name of a function is
converted only in a branch of `?:`; parameters of one name are not rejected; a
variable whose type is a weak alias of a function type cannot be called.

### Not modelled

Because it is input and output, tables, templates or calls of LLVM: log, command
line, optimizer, engine, the declarations of the C standard library, bindings and
reflection, layouts of types. Instructions on numbers are taken as LLVM defines
them. Abstracted in what is modelled: byte sizes, locations, the wording of
messages; in `StatGen` an expression is one temporary, and switches test numbers;
in `ExprGen` there is one type of array, closure and structure; hexadecimal
exponents, capital letters, `inf` (which is out of the range of every type) and
`nan` with parentheses, as in `nan(0)`, are left out of literals.

### Plan

1. Theorems about the parts that do not recurse over data and have none yet: the
   order of global objects, once it has a module, and what a run of `ExprRun` keeps
   whatever the instructions are.
2. `GlobalObjects`: constructors and destructors of global objects over several
   modules, which `generate decl.cpp` collects in the same order.
3. Comparisons of arrays, closures and structures element by element, and the
   intrusive pointers of the compiler.
