# Kaula in TLA+

Kaula is a language with a compiler in Go (`src/compiler`) that emits C, a C
runtime (`src/src`) and a standard library in C (`src/std`). This directory
models the parts of it whose correctness depends on order, interleaving,
failure or a long sequence of legal steps. TLC checks the models on small
instances, and TLAPS proves the most important invariants for every value of
the constants. `PROJECT.json` maps every definition that stands for code to the
lines it was translated from, and lists the hazards with the properties that
cover them.

    tlc -workers 2 -config KmmPool.cfg KmmPool
    tlapm KmmPool_proofs.tla

## The system

| component | state | operations | what is hard | what makes it correct |
|---|---|---|---|---|
| KMM pool, `src/src/kmm_scoped_allocator_v4.c` | one offset over a primary region and a chain of extension segments, committed bytes, published capacity, grow flag | refill of a thread heap (fit, CAS, commit, install), grow, trim, reset | lock-free, any number of threads; regions with unusable tails; growth beside refills | blocks are disjoint, inside one region, committed before use; a refill returns |
| KMM thread heap and scopes, `kmm_scoped_allocator_v4.h`, `codegen/stmtgen.go` | base, offset and capacity of the thread's heap, the scope stack, C locals of offset scopes | allocate, refill, push/pop, save/restore, reset | rewinding across a refill; two kinds of scopes nested by the code generator; `size_t` subtraction | no memory of a live object is handed out again |
| KMM survivor segment, same files | bitmap of slots, a hint, the offset of large objects, committed bytes, two flags of first use | allocate, promote, free, realloc, checkpoint and rewind, destroy | CAS loops on two words that belong together; callbacks that fail half-way | every slot and every large object has one holder |
| Channels, `src/std/concurrent/concurrent.c` | ring, closed flag, one mutex, two conditions | send, receive, timed forms, try, close | who is signalled, barging, timeouts, close | FIFO; nobody sleeps beside work; close releases all |
| Thread pool, same file; `src/std/parallel` is a client | growing ring, running flag, workers | add, wait, destroy; a worker's loop | flag stored without the mutex, growth of a wrapped ring | FIFO, every accepted task runs, destroy returns |
| Promises and futures, same file | result, error and done flag under a mutex; detached threads | set, get, get with timeout, map, all | the last worker of a group; who wakes whom | nothing is set early or from another future; waits end |
| Async loop, `src/std/async/async.c` | linked list with atomic head, tail and links, a counter | add, poll | every atomic access interleaves; weak CAS | FIFO, no task overlooked, calls return |
| Parser, `compiler/internal/parser` | the recursion, two tokens, the pending attributes | the parse functions | recovery after errors, loops that wait for a token that does not come | parsing ends; attributes reach their declaration |
| Semantic analysis, `compiler/internal/sema`, `symbol` | a chain of tables, the current function and prefix, flags that are saved and restored by hand | passes, declarations, uses, null checks, reports | context restored by hand; a table per function and not per block | a name means what the text means; what is dereferenced was checked |
| Spend statements, `sema.go`, `stmtgen.go`, `src/src/spend_call.c` | proof of full consumption; the Spendable's marks | analyse, generate, lock, call, consume_all, unlock | the proof is made far from the checks it must imply | an accepted statement meets no check of the runtime and consumes everything |
| Expressions, `parser.go`, `sema.go`, `exprgen.go`, `kaulafmt` | the stack of the precedence parser; trees | parse, infer, emit C, choose a format, format source | a tree without parentheses, types inferred twice | the C text means what the source means |
| Code generation, `codegen/{codegen,funcgen,stmtgen}.go` | counters of open scopes, flags of the current function | functions, lambdas, instances, blocks, loops, returns | fields saved and restored by hand around nested functions | scopes balance; survivors are kept; values are returned |
| SOR ownership analysis, `compiler/internal/sor/{ownership,analyzer,dag}.go` | tracked objects with a state and a name, scopes, release edges, errors | let, yield, release, extract, read, write, call, scopes | names and scope identifiers are reused; holes left by extract | one owner per value; shared is read-only; no resource lost silently |
| Memory decisions of SOR, `sor/{adapter,memory,escape,interproc}.go`, `codegen/sor_codegen.go` | decisions by variable name; the emitted frees | analyse a function, emit allocations, promotions, frees | decisions without flow, keyed by name | emitted frees free what is the function's own, once |
| Package resolution, `compiler/internal/pkgmgr` | `kaula.lock` per project; one cache directory per package with `resolved.json`, shared by all projects | build, `pkg fetch`, `pkg update` | interruptions at every write, failing writes, two projects at one directory | locks only get matching versions; a build loads what it reports |
| Build cache, `compiler/internal/cache`, driver `cmd/kaulac` | `.c` and `.meta` per source, executable | check, store, compile beside the rewrite, reuse by time | two files, not replaced atomically; a goroutine and clang on one file | a build that reports success leaves the program of its text |
| Local imports, `cmd/kaulac/main.go` | the map of compiled paths, the collected names | two walks over the imports | cycles; one file under two paths | each file once, before those that import it |
| Objects and libraries, `cmd/kaulac/main.go`, `stdlib/builder.go` | objects and archives with times | dependencies, parallel clang, archive, link | sources edited meanwhile, compilers that fail | what is linked is what is needed, and current |
| Task queues (`src/std/task`), workspaces, the prefix/tree/spendable structures of the compiler, union election and flow analyses of SOR, lexer, formatter of layout, comptime, stdlib registry, mirrors, configuration, legacy runtime, containers | | | mostly pure translations and I/O of one goroutine | not modelled; reasons in `PROJECT.json` |

How they meet: the driver resolves packages, walks the local imports, runs the
parser, the semantic analysis with the SOR pass and the code generator, and goes
through the build cache and the objects to clang. The code generator emits the
scope calls of KMM around blocks and functions, and the promotions and frees
that SOR decided; scopes take blocks from the pool through refill, and what
outlives them goes to the survivor segment. `std.parallel`, the async loop and
futures hand tasks to the thread pool, and block on its mutexes and conditions.

## Modules

| module | what it is |
|---|---|
| `BlockPool` | abstract: blocks of one size, granted without overlap, taken back all at once |
| `KmmPool`, `KmmPool_proofs` | the concurrent refill; refines `BlockPool` |
| `KmmScope`, `KmmScope_proofs` | one thread's heap and scopes over the blocks a pool grants |
| `KmmSurvivor` | the segment of promoted objects, one step per atomic access |
| `MCKmmScope` | runs `KmmScope` beside `KmmSurvivor`; `KmmScope_proofs` is about both |
| `BoundedFifo` | abstract: a bounded first-in first-out queue that can be closed |
| `Channel` | channels; refines `BoundedFifo` |
| `Futures`, `MCConcurrent` | promises and futures; `MCConcurrent` runs them beside `Channel` |
| `ThreadPool` | workers and clients around the growing ring; its ring refines `BoundedFifo` |
| `MCThreadPool` | `ThreadPool` under names that do not clash with those of `Channel` |
| `AsyncQueue` | the lock-free list, one step per atomic access; refines `BoundedFifo` |
| `MCAsyncQueue` | `AsyncQueue` under names that do not clash with those of `Channel` |
| `Concurrent_proofs` | proofs about `Channel`, `ThreadPool` and `AsyncQueue` |
| `Parser` | the parse functions as a machine over any text; proved about in `Packages_proofs` |
| `Sema` | names, tables and context of the semantic analysis |
| `Spend` | one spend statement: analysis, generated code, runtime |
| `MCSpend` | `Spend` under names that do not clash with those of `Sema` |
| `Sema_proofs` | proofs about `Sema` and `Spend` |
| `Expressions`, `MCTranslation` | one expression from tokens to C; `MCTranslation` runs it beside `MCSpend` |
| `CodeGen`, `CodeGen_proofs` | the statement side of the code generator |
| `SorOwnership` | the ownership tracker driven by any program |
| `Reclaim`, `MCSorOwnership` | what SOR decides about pointers and the C emitted for it; `MCSorOwnership` runs it beside the tracker |
| `SorOwnership_proofs` | proofs about both |
| `Packages` | projects, locks and the shared cache |
| `Packages_proofs` | proofs about `Packages` and, in a second part, about `Parser`: the two have no name in common |
| `BuildCache` | cached C, manifests and the reused executable |
| `Imports`, `Objects`, `MCBuild` | the walks over local imports; what is linked; `MCBuild` runs them beside `BuildCache` |
| `BuildCache_proofs` | proofs about `BuildCache`, `Imports` and `Objects` |

An `MC` module puts components that share no state into one run: a variable says
which of them moves, and the others stay in their initial state. So a run of
several components explores the sum of their states and not the product.

A definition marked `fault:` in a comment is not part of a model: it is what
the definition after it would be with a plausible bug, and each property is
known to fail when one of them takes that definition's place.

### KmmPool

One action per shared-memory access of `kmm_v4_thread_heap_refill` and the
functions it calls: `Refill` reads the offset, `FitFound`/`FitMissing` are one
walk of `pool_fit_offset`, `CasTake`/`CasFail` the CAS at line 556, then
`Commit`/`CommitCas` (`pool_commit_up_to`) and `Install`; `GrowEnter`,
`GrowSpin`, `Recheck`, `LinkSegment`, `GrowFails`, `Publish` and `Release` are
`kmm_v4_pool_grow`. `PopTrim`, `Reset` and `Invalidate` are the callers that
shrink the pool or drop a heap. Sizes are in units of the alignment. A segment
is represented by the cumulative end of its capacity, which is what offsets are
compared with. `malloc` may fail at any time, and fails beyond `MaxSegs`
segments. `level` is the thread safety level: 0 for one thread, which is `Single`
in the run and which trims when a scope is popped, and 1 for several.

`grants` is a history variable: the blocks taken since the last reset. It is
what the refinement of `BlockPool` maps to.

A walk of the chain is one step although segments may be appended while it
goes on. Links are only appended and the walker sees a prefix, which is a walk
that happened earlier.

### KmmScope

`heap` is `g_kmm_v4_thread_heap`. `scopes` is one stack for both kinds of
scopes: frames of `kmm_v4_scope_push` (base and offset) and the C locals of
`{ size_t _scope_start = kmm_v4_offset_save(); ... }` (an offset only), in the
order they were opened. `objects` are the allocations that live, with the scope
they belong to: a scope's objects die when it is left. `Room` is the
subtraction of the fast path modulo the word size. `Nested` says whether a
function that opens a stack scope may be called inside an offset scope.
`OffsetSkipped` is `break`, `continue` or `return`, which leave the C block
without reaching its restore.

### KmmSurvivor

A thread in `kmm_v4_survivor_alloc_global` scans the words of the bitmap from
the hint, sets a bit by CAS, or reserves large space by a CAS on the offset and
commits it; promotions run a callback that may fail, and the shallow, the deep
and the pointer forms differ in what they undo. One bucket stands for the nine,
which share nothing. A checkpoint token is the offset it saw; a rewind is only
for a thread whose token is not older than another's live large objects, as the
header asks. `lost` is the history of slots that a failed
`kmm_v4_scope_promote_p_deep` gave up.

### Channel, Futures and ThreadPool

Everything under the mutex between two blocking points is one step. A call is
at its loop test, blocked, woken or expired; `Spurious` wakes a blocked thread
for no reason, which POSIX allows; a thread that was signalled competes with
threads that never blocked. In `Futures` the same holds for every promise; the
test of `done` in `future_all`, without the mutex, never turns back and is part
of the worker's step. In `ThreadPool`, `running` is an atomic that
`thread_pool_destroy` stores without the mutex, so each of its tests is a step,
and the worker holds the mutex (`owner`) between them. `fate` records what
became of each task; a task is lost when the ring is full and cannot grow.

### AsyncQueue

One step per load, CAS and increment of `light_async_loop_add` and
`light_async_loop_poll`. Memory order is taken as sequential, although the code
uses acquire and release. Nodes are never freed, so a task stands for its node.
The helping step at line 82 of `async.c` exchanges the tail for the value it
already has and is modelled as the no-op it is. The contents of the queue are a
choice: the one sequence of tasks that the links run through, from the head to
an empty link (`Listed`).

### Parser

Each parse function is a sequence of instructions (consume, consume if, call,
call until, give up) over the kinds of the current and the next token; the
machine runs them on a stack of calls. A token is chosen when the lexer is asked
for it, so a run is over every text of `MaxTokens` tokens. What depends on the
text of a token, on its line or on precedence is a choice.

### Sema, Spend, Expressions and CodeGen

`Sema` and `CodeGen` turn the recursion of the Go code into a stack of open
constructs and keep the fields of the analyser and of the generator as
variables; the program is any program. `Sema` has a second view of every
declaration, by the blocks of the text, which is how C scopes it. In `CodeGen`
the history fields `promoted`, `disturbed` and `entered` of a frame say what
happened while a function was generated.

`Spend` is one statement from its analysis to its end: `AnalyseClause` and
`Conclude` are the proof of `sema.go`, `Generated` and `Dispatch` the C that
`stmtgen.go` makes of the clauses, `Lock`, `Call`, `ConsumeAll` and `Unlock` the
calls of `spend_call.c` with their panics. The body of a clause is known by how
it may leave the statement.

`Expressions` is the precedence parser as a machine and, on the tree it
returns, operators for the inferred type, the C text, the format and the
formatted source. Trees carry no parentheses because those of the code do not.

### SorOwnership and Reclaim

One action per statement kind of the symbolic execution: `Let`, `Yield`,
`Release`, `ReleaseToNone`, `ReleaseRefused`, `Extract`, `ExtractRefused`,
`Access`, `Call`, `EnterScope`, `ExitScope`. A program is any sequence of them.
Each tracked object has a ghost field `value`: fresh for a declaration, the
source's after a yield, a part of the source's after an extract. The tracker
does not have it; "two owners" is a statement about it. `Finds` is the lookup
by name, which returns the first object of that name in the innermost scope
that has one. `Typed` says that elements are extracted only from composite
variables.

In `Reclaim` a function is written statement by statement, `Generate` decides
about its variables as the adapter does, and the generated C runs on one path. A
block is on the heap of the thread, in the survivor segment, or foreign. The
properties are about functions that move pointers with `yield` only; *Known
divergences* has what happens to others.

### Packages

One package, any number of projects. `dir` and `resolved` are the cache
directory and its `resolved.json`, `lock` the entry of each project's
`kaula.lock`. The commands are sequences of the steps that touch the disk:
`Remove`, `FetchCached`, `ListTags`, `Replace`, `CloneSkipped`, `CloneBegins`,
`CloneEnds`, `CloneFails`, `Record`, `Save`, `Keep`, `Use`. `Interrupt` ends a
command anywhere and leaves what it was writing cut short. Users edit
constraints and delete locks; the registry publishes versions. The history
variables `shared` and `disturbed` name the reasons for which a build may load
something else than it reports.

### BuildCache, Imports and Objects

`BuildCache` is one compiler at a time over the C files, manifests and the
executable of its inputs: check, front end, two writes of `Store`, the second
write of the C file by a goroutine while clang reads it, reuse of the executable
by its time. It may be killed between any two steps. `Imports` are the two
depth-first walks, with paths as the parser leaves them. `Objects` are the std
modules with their dependencies, the runtime objects, a library's archive and
the bare-metal links, with up to `CPUs` running clang.

## Runs

| run | question | bounds |
|---|---|---|
| `kmm_pool` | Do concurrent refills, with growth, keep `GrantsBacked` and `CommittedBeforeUse`, refine `BlockPool` and return (`RefillReturns`)? Does trimming at level 0 keep every block backed? | two threads at level 1, or one at level 0; primary region of 5 with blocks of 2, pages of 3 and segments of at least 2, so that every region ends in a fragment; two segments |
| `kmm_scope` | Are scopes memory safe as one function emits them (`MemorySafe`)? Has every survivor one holder (`SurvivorsApart`)? | two blocks of 3, sizes 1 and 2, three nested scopes, two stack frames, so that overflow happens; two threads, two slots in one word, room for one large object, one checkpoint each |
| `channel` | FIFO, `NobodyStranded`, `CloseReleases`; `FuturesComplete` | three threads, two slots: two blocked and one that barges in; two promises, a map and a group of two, one caller |
| `thread_pool` | FIFO over a growing ring, `WaitMeansTaken`, `TasksRun`, `DestroyReturns` | two workers, two clients, three tasks through two slots: the ring grows, wrapped and not |
| `async_queue` | FIFO, `EmptyMeansTaken`, `TasksDispatched` | two adders, two pollers, one thread both; two tasks; CAS fail without a cause |
| `parser` | Does parsing end but for the known loops (`EndsOrStays`), and do attributes reach their declaration (`AttributesTaken`)? | 21 kinds of token and the end, five tokens, bodies of two statements |
| `sema` | `ResolvesLexically`, `DereferenceWasChecked`, `WarnedIsUnread` | one name, three open constructs, two declarations alive: one shadows the other |
| `translation` | `NeverPanics` and `ConsumesAll` for spend statements; `MeaningKept` and `TypesAgree` for expressions | three clauses over two elements or variants, of three clauses one leaves early; three operators out of seven, four prefix operators, a pair of parentheses, typed with up to two operators |
| `codegen` | `ScopesBalanced`, `PromotedSurvives`, `ValuesReturned` | three open constructs, one nested function that waits, one instance |
| `sor_ownership` | `UniqueOwner`, `SharedIsReadOnly`, `ResourcesKept` for the tracker; `FreesOnlyItsOwn`, `HandedOutLives` for the emitted code | two names, three objects, two edges, one nested scope; functions of five statements (three when they copy pointers) over two locals and a parameter, one level of `if` |
| `packages` | `LockedVersionsMatch`, `BuildsWhatItReports`, `RemainsDisappear` with interruptions and failing writes | two projects, two versions, two constraints |
| `build` | `BuildsWhatItRead`; `ImportsInOrder`; `LinksWhatIsNeeded` | one input, two texts and one that does not compile, two options; two files of one name in two directories, which may import each other and the program, and two imports of the program; two modules, one runtime file, one library source, two bare-metal files, two CPUs |

Why these bounds are enough. Two refilling threads are what a CAS race, a wait
on the grow flag and a stale offset take; a third adds another loser. The region
sizes are chosen so that a block does not fit at the end of any region, which
is where `pool_fit_offset` differs from an addition. A scope error needs an outer
and an inner scope, a refill between them and an allocation after. A survivor
can be lost to one other thread; a bucket of two slots fills up and spills, and
the large area fills up at once. Channels need a blocked thread, one on its way
and one that overtakes it. Fields that are restored by hand go wrong with a
construct inside a construct inside a third. Two projects and two versions are
what a replaced package takes. A cached build goes wrong with a text, another
one, and a third that fails.

Larger instances were run once, without a violation: the parser on 40 kinds of
token, four at a time; `CodeGen` with two nested functions that wait (2.4
million states); `Sema` with chains of else-if (4.9 million); `KmmSurvivor` with
three slots and with three units of large space (8.7 and 6.4 million); spend
statements with exits in every clause (5.7 million); `BuildCache` with two
inputs (16.2 million); `Imports` with three files beside the program
(1.4 million); `Objects` by itself with three texts (12.0 million), and with
programs that name any modules (1.4 million). The type invariants, which no run lists, and the inductive
invariants of the proofs were checked on the constants of the runs. The theorems
do not depend on the bounds at all.

Deadlock is checked, except where the model really stops: an abort in
`KmmScope`, tasks used up in `ThreadPool`, object numbers used up in
`SorOwnership`, messages in `Channel`, a program that has been analysed, an
expression that has been translated, a build that ran out of stack. `MaxSegs`,
`MaxNesting`, `MaxObjects`, `MaxEdges`, `MaxDepth`, `MaxVersion`, `MaxTokens`,
`MaxPending`, `MaxDecls`, `MaxClauses`, `MaxElements`, `MaxOperators`,
`MaxParens`, `MaxLength`, `MaxShared`, `MaxImports`, `MaxMain` and the sets
`Tasks` and `Messages` are bounds of the models and not of the code.

## Known divergences

What the models show the code to do although a comment or document says, or a
reader would expect, something else. The properties above are stated for the
rest; the conditions that leave these cases out are named operators
(`Regrouped`, `Unwritable`, `Misprinted`, `Mistyped`, `DefaultIsLast`,
`MovesOnly`, `SameProducer`, `Circular`, `disturbed` and the like), each with a
comment.

**Pool and scopes.** The comment at `kmm_scoped_allocator_v4.c:87` says that the
committed bytes are never below the offset. They are, between the CAS on the
offset and the commit, and for all blocks in the extension; users of a heap need
`CommittedBeforeUse`. A function that opens a stack scope, called inside an
offset scope (`Nested = TRUE`): when its scope closed after a refill, the heap
has base NULL, and the restored offset makes the subtraction of the fast path
wrap (`LiveInBlock` fails).

**Survivors.** `kmm_v4_scope_promote_p_deep` loses its copy when the callback
fails, while `promote_deep` frees it. The usage counters are not atomic. After a
failed `mmap` the segment stays unusable until it is destroyed.

**Concurrency.** The output of `future_all` may be done while slots of other
workers are still empty (`concurrent.c:896`); `future_map` never completes on an
input that is NULL or an error (860); `future_any` passes its closure to the
worker of `future_map`, which reads past it. `thread_pool_destroy` broadcasts
without the mutex (545), so a worker about to wait misses it (`missed`). A task
is lost when the ring is full and `malloc` fails. `channel_send_timeout` on a
closed channel stores nothing and returns true, while `channel_send` returns
false. The "lock-free" `light_async_loop_add` is not (`LockFreeAdd` fails): a
thread that stops between its two CAS operations stops the others.

**Parser.** The comment at `parser.go:4054` and `zz_hang_test.go` promise that
parsing ends; five loops wait for a token without moving on (`BareLoops`,
`Terminates` fails).

**Expressions.** The parser drops parentheses and the generator puts back too
few: `(a << 2) + b` and `a + (b & c)` lose theirs, `-(a + b)` becomes `-a + b`,
`-(-x)` becomes `--x`, and an assignment as an operand loses its group. The
parser drops an operator that the next token repeats (`a - -b`, `a * *p`,
`a & &b`) and one without a right operand. `kaulafmt` writes `-(a + b)` as
`-a + b`. A comparison with a float operand is printed with `%f`, a cast to f64
with `%d`, a string assignment with `%d`. `auto` takes the type of literals, so
`200 + 100` goes into a `uint8_t`.

**Spend.** `call(default)` before another clause, and variants of another enum,
pass the analysis and abort at run time, although `spend_call.c:5` says that the
compiler has proved the opposite. `arrayLens` is keyed by the bare name. An exit
inside a nested statement is not seen.

**Semantic analysis.** Only functions, members and prefixes have tables, so a
name declared in a block is accepted after it, where C does not know it. A
nonlocal read does not mark the outer variable, which is then reported unused.
`NullChecked` is never taken back. Fields replace globals of the same name.
Functions nested in methods and prefixes are never analysed.

**Code generation.** `break` and `continue` in a body with a stack scope leave
the do-while(0) of that scope, or a switch, and not the loop (`BreakReachesLoop`
fails). A nested function, lambda or instance generated while a scope is open
pops the scopes of its caller when it returns; it also resets what is known of
promotions and the return type of the function around it (`disturbed`). The
checkpoint flag is that of the previous function. Functions nested in `main`,
methods and lambdas are emitted inside a C function.

**Ownership.** Elements may be extracted from values that are not composite;
`Yield` copies the holes for composite values only (`ownership.go:251`), so that
with `Typed = FALSE` one element gets two owners (`UniqueOwner` fails at four
objects). After `let y; yield y -> z; yield x -> y` the name `y` still means the
moved object, while the comment at `sor/analyzer.go:284` gives the target the
ownership.

**Emitted frees.** `let y = x` and `release x => h` leave two pointers to a
block that is freed for each. After `f(x); yield x -> y` the block is freed for
`y` although the call may have consumed it. Decisions are kept by bare name over the whole
program, and the string order of object identifiers (`obj_10` before `obj_9`)
picks the deciding object. A variable yielded away on some path is not promoted
when it is returned on another.

**Packages.** A lock is honoured when the cache directory has a `.git`, whatever
version another project put there (`LockedBuildsReproducible` fails).

**Build.** A build without cache, with other options, of another input with the
same base name, or from another directory writes the same executable, and a
cached build may reuse it. A failing `Store` is a warning only, and a later
build may reuse the executable over the old entry. The two writes are not
atomic, while `docs/cache-system.md:8,145-156` says they are. Circular local
imports overflow the Go stack in `collectLocal...` although `compileFile`
tolerates them; the map of compiled files is by path, so the same file under two
paths is compiled twice, and of two files with the same relative path the second
is left out. Objects ignore options and headers; a source edited while clang
reads it has an object that looks current (`raced`); a failing runtime
compilation is a warning only.

## Liveness and fairness

Liveness is model-checked only. The fairness assumed is what the code gets:

* `KmmPool`: a thread inside refill keeps running (`WF` on its steps), and a
  weak CAS whose expected value is current does not fail for ever (`SF` on
  `CasTake`). No thread has to call refill. `RefillReturns` excludes runs in
  which refills are started for ever, where a loser may starve as in any
  lock-free retry loop.
* `Channel` and `Futures`: a thread that is not blocked goes on, which is the
  fairness of the mutex. Calls, timeouts, spurious wake-ups and close are not
  fair. In `MCConcurrent` the part that does not move has no fair step enabled.
* `ThreadPool`: workers go on and get the mutex in the end (`SF` on `Lock`);
  a task returns; a destroy that began goes on; a client in `wait_completion`,
  which polls, gets the mutex at a moment of its own (`SF` on `WaitReturns`).
  `DestroyReturns` leaves out the case in which a worker found `running` set and
  was not asleep yet at the broadcast: `missed` records it. There the code can
  hang.
* `AsyncQueue`: threads that do not stall go on, pollers poll again, and the CAS
  that ends a call does not fail for ever (`SF` on `Swaps`).
* `Packages`: a command goes on, projects are built again, the registry answers
  at some time (`SF` on `ListTags`), and a user deletes a lock that does not
  parse. `RemainsDisappear` leaves out runs that are cut short for ever.
* `Parser`: the parser runs (`WF` on its step).

## Proofs

Every theorem holds for all constants that meet the module's named assumption.
The proofs are arithmetic on `Nat`, sequences, functions and finite sets.

* `KmmPool_proofs`. The invariant is built in four parts, each proved with those
  before it. `CInv` (types, `FlagHeld`, `OneGrows`, `Published`): whoever is in
  the growing section is alone, since it took the flag at level 1 and is the
  only thread at level 0, and the published capacity is the chain's except
  between `LinkSegment` and `Publish`. `PoolTypeOK` and `ChainSafe` follow.
  `GInv`: every block granted ends at or below the offset, a block a thread is
  after begins at or above the offset it saw, and a thread at `cas` whose copy
  is current therefore takes a block above all others; `ThreadHeapsApart` and
  the refinement `PoolImplementsBlockPool` follow. `BInv`: a block that fits
  now fits after the chain grew, and trimming keeps segments below the offset;
  `BlocksBacked` follows. `KInv`: committed bytes only grow, and a thread gets
  to `install` only when they cover its block; `CommittedFirst` follows.
* `KmmScope_proofs`. `HeapWellFormed` and `ScopesSafe` under the hypothesis
  `~Nested`. `LiveDisjoint` alone is not inductive: a pop could expose memory of
  an outer object. `IInv` adds that nothing alive lies above the offset of the
  heap (`HeapAbove`), nor above what a frame goes back to when it belongs to a
  scope outside that frame (`FramesAbove`), and that an offset scope saved an
  offset of the heap there is now, because no stack scope lies above it
  (`FramesOK`). That last conjunct is the one a nested stack scope breaks.
  `SegmentSafe` is `SurvivorsApart`, under `SurvivorAssumption`. Its invariant
  `SurvivorInv` has a part about each thread and the segment by themselves
  (`Local`: who may set up while others wait, `SetupOK`; that a thread swaps in a
  bit its word did not have, `BitIsNew`; what is committed) and one about who holds
  what (`Holders`), which is stated of any set of objects and any threads: the
  lemmas `HandGets`, `HandsOut`, `HandTakes` and `HandDrops` say once what becomes of
  it when an object passes from one hand to another, and each step of the code is one
  of these. A large object is owned by the thread that has it in hand, which is why a
  rewind takes nothing from another thread.
* `Packages_proofs`. `BuildsFaithful` and `LocksMatch`. `IInv` says what a
  project may rely on at each place of a command (`PlaceOK`, `LockOK`) and that
  the directory agrees with `resolved.json` but for a clone under way
  (`DirOK`), all unless the history says the run was disturbed; `FetchesMatch`
  carries the version chosen from the registry to the lock.
* `Packages_proofs`, of the parser. `AttributesReachTheirDeclaration` is
  `AttributesTaken`, for a text of any length. `ParserInv` says that while the
  attributes in front of a `pub` function, structure or variable are pending, the
  top of the stack of calls is one of the few places on the way to the function
  that takes them, with the token that leads there (`OnTheWay`). That every
  function of the parser is made of well-formed instructions, and that only
  these places keep or pass on attributes, is read off the table of parse
  functions once, one lemma for each kind of instruction.
* `Concurrent_proofs`, of channels. `NeverStranded`: `NobodyStranded` counts the
  threads that were woken against the messages and the free slots, and is
  inductive with `NoneSleeps`, that nobody is blocked after a close: only then may
  a call return without passing a signal on. Every step moves one thread between
  places, and the lemmas on cardinalities say what that does to each count.
  `ChannelIsFifo`: `QInv` adds `Follows`, that the tail is the head and the count
  modulo the capacity; the contents of the ring, read from the head, are then the
  queue of `BoundedFifo`, and each send, receive and close is one of its steps,
  anything else a stutter.
* `Concurrent_proofs`, of the thread pool, reached through the instance of
  `MCThreadPool`. `PoolIsFifo` reads the ring from its first slot (`Between`,
  `Position` and the lemmas on them are the modular arithmetic) and says of each
  of `PutTask`, `Grow` and `TakeTask` what it does to that sequence. `Control`
  says who holds the mutex and that a worker about to take has found a task;
  `InRing` that what lies between the indices are distinct accepted tasks, so that
  the abstract queue, which has room for every task, never overflows (by
  pigeonhole). `WaitedTasksAreTaken` adds `Somewhere`, that an accepted task that
  is not finished is in the ring or in a worker's hands.
* `Concurrent_proofs`, of the async loop, reached through the instance of
  `MCAsyncQueue`. `LoopIsFifo` and `EmptyIsEmpty` rest on `LoopInv`: the nodes that
  were ever linked form one chain without repetition from the dummy node, and the
  head, the tail and every empty link are where they should be on it (`Chain`);
  what a thread read of it before another one moved still holds in the form in
  which the thread uses it (`ThreadOK`): the node it is about to link is not on
  the chain, what it read as the next node still is, and the tasks that were
  there when it found a link empty are not after that node; two adders hold
  different nodes (`AddersApart`); what the head has passed was taken (`Passed`).
  The queue is then what the chain has after the head (`QueueFollows`, by a least
  counterexample); the CAS on the link appends to it, the CAS on the head takes its
  first, and every other access is a stutter.
* `SorOwnership_proofs`. `SharedHasNoOwner` and `ResourcesAccounted` follow from
  `IInv`: every value is rooted in a declared object (`ValuesRooted`), elements
  have no elements and are no resources (`PartsAreLeaves`), owners are in the list
  of an open scope (`OwnersListed`), and the ends of release edges own nothing.
  `OwnersUnique` needs `UInv`, with `PartsTaken`: while the whole and its element
  have owners of their own, the whole has a hole in that position, or the
  element's object, or a spent one, so that no other extract succeeds. Its
  hypothesis is `Typed`.
* `SorOwnership_proofs`, of the memory of a function, reached through the instance
  of `MCSorOwnership`. `FreesAreItsOwn` is `FreesOnlyItsOwn` and `HandedOutIsAlive`
  is `HandedOutLives`, for functions of any length and nesting over any variables.
  The properties look at one moment of one path, while the decisions are made for
  names over the whole text, so `FunctionInv` has three layers. Of the text: blocks
  nest, and a name is declared once and before its use (`WellFormed`, `Closed`); so
  what a statement can name is at home there or further out (`VisibleIs`). Of the
  decisions, as soon as they are made: what is freed when its scope ends was never
  passed, a foreign pointer is known as foreign in every variable it may be moved to,
  and a tracked variable that is yielded nowhere is on the pool (`Facts`). Of a
  function that moves its pointers only, while it runs (`Held`): no two variables
  hold the same block (`Apart`); what a variable holds is alive and lives as long as
  the variable, because it is on the heap of its home or of a block around it, in the
  survivor segment, or foreign (`SafeIn`); who holds a block that was passed has
  passed it (`PassedBy`), and does not use it again; and what was passed is in the
  segment, with a promotion on record in the text that keeps the rewind away
  (`Kept`). The last conjunct is why the frees, the copy, the rewind and the pop at a
  return may come in the order they do. The proof found a case expression of the
  model with overlapping cases, a refused yield beside an accepted one.
* `CodeGen_proofs`. The three properties read the top of the stack of constructs,
  and are inductive only with what holds of every frame: `Counters` (the counters
  are the numbers of open constructs of each kind), `FramesOK` (a function that
  began when no scope was open has none below it; `main` and methods are
  outermost; a lambda holds the return type of the function around it), `Fields`
  (who set what the generator keeps of the current function) and `Promised` (a
  promotion is known to the generator, or another body is open inside).
* `Sema_proofs`, of the analysis. `ResolvesLexically`, `DereferenceWasChecked` and
  `WarnedIsUnread` speak of the last table only, while closing a construct brings
  back what was saved when it opened. `Inv` therefore says it of every level of
  the stack: there is one table for each construct that has one (`LevelS`); at the
  last construct, and just before each one with a table, what the tables find is
  what the blocks of the text make visible, or the declaration of a block that
  has been closed (`Lexical`); the symbols fit their declarations (`SymbolsFit`),
  and a declaration has one symbol unless `nonlocal` binds it once more
  (`OneSymbol`, `Declared`); each frame holds the function and the prefix around
  it (`Nested`).
* `Sema_proofs`, of spend statements, reached through the instance of `MCSpend`.
  `AcceptedNeverPanics` and `AcceptedConsumesAll`: `CountOK` ties the counter of
  the runtime to its marks, `Analysed` says what the analysis has established of
  the first clauses, `Proved` what of all of them, and `RunOK` carries that
  through the run: after `n` clauses, what they name has been consumed and their
  bodies have run.
* `BuildCache_proofs`, of builds. `BuildsFresh`. `ExeMatchesManifest` is the heart:
  an executable that came through the cache and is not older than its C file is
  what the manifest says. `FileIsNewer` keeps it through the writes of a run, and
  for builds that read the C file back, `CFileMatchesManifest` and `CFileIsRead`
  tie file, manifest and text together as long as nothing was interrupted
  (`Trusted`).
* `BuildCache_proofs`, of the local imports. `ImportsAreInOrder` is
  `ImportsInOrder`, for any files, directories and imports. The paths and the files
  they name make a graph (`IsGraph`). `CollectInv`, of the first walk: each open call
  has taken a prefix of the imports of its file and the last one it took is the file
  of the call above (`FramesAre`); what was taken is collected, and leads into no
  circle unless the call for it is open (`Seen`, `Finished`); nothing else is
  collected (`Least`). A walk that ends, and does not overflow, has therefore
  collected a graph without circles (`Walked`). `CompileInv`, of the second walk:
  whatever the open calls have taken is out already or is the next call
  (`TakenIsOut`), each file comes out once (`OutOnce`) and after its imports
  (`OutInOrder`), when the paths tell files apart (`OnePath`) and no file has errors.
  `MaxStack` is assumed to hold a call for each file, so that only a circle
  overflows.
* `BuildCache_proofs`, of what is linked. `LinkedIsCurrent` is
  `LinksWhatIsNeeded`. The invariant says what an object or an archive has to be
  for the driver to reuse it (`ObjectsReusable`, `ArchiveReusable`), and what each
  stage has left behind for the link (`ModulesFit`, `RuntimeFits`, `LibraryFits`,
  `BareFits`). The proof, and then a run with three texts, corrected the model:
  `raced` has to cover an output that is put in place after an edit, not only an
  edit while clang reads.

### Only model-checked

Every safety property, action property and refinement that a run checks is also a
theorem, but for two: `MeaningKept` and `TypesAgree`. They say of an expression what
`RECURSIVE` operators compute on its tree, for trees of any size, which takes an
induction over data; TLC checks them on the trees of up to three operators. Liveness
is out of reach as well, and anything else about `ENABLED`: `RefillReturns`,
`CloseReleases`, `FuturesComplete`, `TasksRun`, `DestroyReturns`, `TasksDispatched`,
`EndsOrStays` and `RemainsDisappear`. Where an argument is by induction on a number
or a finite set, the proofs take a least or a minimal counterexample instead.

The theorems are about each component by itself. A run that puts two components side
by side moves one and leaves the other in its initial state, so its behaviours are
those of the components.

What is assumed of the constants is what their modules name: sizes and bounds are
numbers, sets that the code holds in memory are finite, and the values that mean
"nothing" are not among the others. `ScopesSafe` has the hypothesis `~Nested` and
`OwnersUnique` the hypothesis `Typed`; without them the properties fail, and *Known
divergences* says how.

## Not modelled

Pool creation and destruction and the freestanding pool; the relaxed memory
orders of the runtime; `future_any`; loops, extracts, strings and classes in the
memory decisions of SOR; members, calls, indices and constant folding in
expressions; types and generics in the semantic analysis; the texts the
generator emits; the statistics of the cache and two compilers at once; mirrors,
patches and texts of versions; and the components listed in `PROJECT.json` as
not modelled, each with its reason.

## What is left

To model: the queues of `std.task`, whose `add` and `dequeue` lose a node between two
adders (the one hazard in `PROJECT.json` without a property); the order of the
members of a workspace; the election of a writer among the holders of a union
release. To prove: `MeaningKept` and `TypesAgree`, once an induction over trees can
be stated.
