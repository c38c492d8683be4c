# A verification project for souther-native-compiler

TLA+ models of the driver from a document to the runs of its object, and of the stateful parts of
the runtime, the command and the bindings; the TLC runs that check them on small instances; and TLAPS
proofs, for every instance, of what the arena, the loader, the bundle, the binding directories and the
bindings' runs must keep.
Every definition is translated from the source; `PROJECT.json` maps each to the lines it models.
Paths below are relative to the repository.

## The system

A checked Souther program is written as a document by the command (Java, `compiler/`), compiled by
the driver (Rust, `native/crates/compiler`) to an object linked with the runtime
(`native/crates/runtime`), and used by a host through a binding generated for PHP, Rust or Go
(`bindings/`).

| Component | State it keeps | Operations | What is hard |
|---|---|---|---|
| Arena and scopes (`runtime/src/lib.rs`) | blocks and a mark per thread, scopes per thread, one token counter | `souther_alloc`, `souther_scope_open`, `souther_scope_close` | a close handed any token by any thread; marks at block boundaries |
| Pattern kernel (`runtime/src/kernels.rs`) | one room per pattern, the list of patterns kept, a lock | `matched`, `souther_release` | double-checked reading; release while others match |
| Rust binding, loading (`bindings/rust/runtime/src/native.rs`) | loads counted per library | load, drop | mapped and not yet counted; the last one out releases |
| Rust binding, runs (`run.rs`, `keep.rs`, `bound.rs`, `failure.rs`) | root runs and calls open on the thread, keepers, what is bound | run, scope, call, `host`, function values | callbacks that nest, fail or panic |
| PHP binding (`bindings/php/runtime/src`) | runs per library, their fiber, sessions, the pending exception | `Binding::run`, `Session::call`, `borrow`, dispatch | fibers suspended anywhere; destructors |
| Go binding (`bindings/go/runtime`) | root runs by thread, nested runs, call frames | `Run`, `Scope`, `Call`, `Host` | runs kept after they end, threads numbered again |
| Kept and run copies (`NativeBundle.java`) | the cache, a directory per use with a lock file | fetch, keep, unpack, lock, sweep, discard | processes beside each other, crashes, POSIX locks |
| Binding directories (`BindingDirectory.java`, `Main.java`) | targets, staged and former directories | check, stage, generate, mark, commit, abandon | crashes between two moves, other commands, users |
| Driver: document, coherence (`transport.rs`, `coherent.rs`) | the document | read, hold coherent | settles again what the checker settled: neither stricter nor weaker |
| Driver: specialisation (`specialize.rs`) | copies of helpers, what each call reaches, what is spent of two limits | resolving the roots' calls, then those of each copy made, in order | growing types, limits spent by calls in any order, completeness of the fixpoint |
| Driver: lowering (`lib.rs`, `closures.rs`, `restating.rs`, `equality.rs`, `hashing.rs`, ...) | what is planned and declared | emit, and what is emitted does | every `expect` rests on a pass before it |
| Collections (`runtime/src/collection.rs`) | none beyond the trie made | find, put, take, union, ... | colliding hashes, the deepest level |
| Numbers and temporals (`decimal.rs`, `rational.rs`, `temporal.rs`) | none | pure functions | limits of width and scale |
| Decoding, codecs, text | none beyond the value made | pure functions | the text itself |
| Generators, manifest, transport | none | writers and readers of text | the text itself |

They interact so: a binding opens a scope of the runtime's arena for each run and closes it when the
run ends; what a call makes stands in the innermost scope; the library calls implementations back
into the binding in the middle of a call; and the loader shares one library, with its arena and its
patterns, between all that load it.  The command hands the driver a document, keeps the driver it
fetched, runs a copy of it, and puts each binding a generator wrote in place.

What makes each part correct: a value stands as long as its scope, and closing gives everything
back; a pattern is read once and used only while it is alive; runs close the innermost scope however
they end, and failures answer the call they belong to; what runs is what was checked, and stands
while it runs; a target is never left without a binding it had, and only what a binding wrote is
replaced; every document the checker writes is accepted, and whatever document is accepted is lowered
without a panic to code that reads every value as it is held and ends for the reason its node names.

## Modules

**ScopePromise** is the abstract specification of the arena: threads open and close scopes as a
stack, a value is promised from where it is made to the close of its scope, and no two values
promised on a thread overlap.

**ArenaScopes** is the arena: `blocks`, `taken`, `TOKENS` and `SCOPES` are the fields and statics of
the code, `Alloc` is `Arena::room` with its choice of block, `ScopeOpen` and `ScopeClose` the two C
functions, and `ResetTurn` one turn of the loop in `Arena::reset`, so what holds between two turns is
checked too.  `made` and `base` are history and no guard reads them.  A refused close changes nothing,
so it is a stuttering step.  `Promise` is the refinement mapping to ScopePromise.

**LibraryLife** composes loading and the pattern kernel of one process: `Open`, `Query`, `Count` are
`NativeLibrary::load`, `Load` to `Match` are `matched` with one step per atomic access or lock
operation, `LetGo` to `Close` are the drop and `souther_release`.  A library of another generation is
in it, since it is mapped and never counted.

**RustRun** is one thread of the Rust binding.  `stack` is the Rust stack; `OPEN` and `CALLS` are the
two thread-local registers; `scopes` is the arena's stack for each library, named by the depth of the
run that opened it.  What the borrow checker admits is the guard `Usable`.  Every frame can be left
by an answer, a failure or a panic; a panic unwinds one frame at a time.

**PhpRun** is the fibers of one PHP thread.  `open`, `holder`, `active`, `opened` and `pending` are
the properties of the classes; `stack` is each fiber's.  `Switch` is a suspension, possible wherever
PHP code of the host runs, inside a run or a callback too.  `Close` and `Ended` are the two halves of
a run's end: between them the session has expired and the scope is open.  `Reentrant` says whether
host code may run there, as the destructor of what a kept closure holds.

**BundleRun** is the driver's bundle: several uses in several processes, one step per file-system
operation, a crash of a process possible between any two.  Locks belong to a process, as POSIX has them.
Every deletion may fail: `Keep` may leave the partial file, and `Release`, `Drop` and a sweep's `Delete`
may delete part of a directory and leave the rest; a directory that `Release` left is asked for again by
`Drop`, unlocked, and `stuck` is the history of the uses it happened to. `Sticky` names the uses whose
files a disk may keep so, which the proofs leave open.  `Settle` is the passing of the ten minutes after
which an unlocked directory is taken for abandoned; a use does not stay that long between making a
directory and locking it, which is what the code relies on.

**BindingCommit** is `Main.written` with the directories: checks, build, staging, generating, marking,
the two moves of a commit, putting back, deleting what was replaced, letting go, each of which may fail,
with crashes, and a user writing into a target.  Letting go goes on past a directory that it cannot
delete, as `Holding.close` does: `LetGo` leaves any of them.  `stuck` and `seen` are history: of which
bindings the disk kept something beside the target, and what a command found in a target when it last
asked whose it is.

**GoRun** is the goroutines and OS threads of one process.  `on` and `locks` are the Go scheduler's
(external), `roots` the list of root runs, `runs` the fields of every `Run` opened, `scopes` the
thread's arenas.  Unlike Rust, nothing but a check keeps a run where it belongs, so any goroutine may
use any run, an ended one too: `AskLive` is the first question of `checkReading`, and the action that
follows asks the thread and the child.  Between the two a goroutine that is locked to no thread may be
moved like anywhere else, and `strayed` is the history of whether a run that had ended has then passed.
The end of a run is one step per deferred effect: `Expire`, `CloseScope`, `Release`, then `LeaveScope`,
or `LeaveRoot` and `Unlock`.  A thread number used again is the same element of `Thread`.

**The driver** is a chain of modules, each named for the pass it translates and extending the one it
asks. `Transport`, `Declarations`, `Unrun` and `Runs` are what a document holds, what its declarations
make of a type, what is written and never run, and what an object runs; a node is a record of what it
is, its type, the reasons it names, the other types it writes and the nodes under it. `Kernels` is the
table of kernels. `Copies` is the making of the copies of helpers, call by call and whatever the bodies
call: a copy's `line` is what walking its parents finds, and what is proved of it needs no recursion.
`Specialize` is what the copies are made of: the types a call settles, the body at them and the calls in
it. `Walk` and `Coherent` are what a body and a document are held to. `Machine` is how a value is held,
compared, ordered and hashed, over `Trie`, the persistent hash trie of the runtime. `Restating` is what
holding a value as another type takes. `Lowering` is what emitting comes to: each `expect`,
`unreachable!` and assertion it may meet is a problem "panicked", each refusal "not lowered", in the
order the code meets them. `Calendar` and `KernelOps` are the operations of the runtime, and `Running`
what the emitted code does, with anything read another way than it is held answering "wrong". `Document`
is the state machine over them: `Write` or `Alter`, `ReadDocument`, `Cohere`, `SpecialiseRoots`,
`SpecialiseCall` once per call of a helper, `SpecialiseNext` once per copy, `Lower`, and `CallObject`
with every sampled input, every construction of a behavior (a requirement missing included) and every
answer of the host. `Alter` writes one annotation as another type, one list of reasons as another, or
one node where another of its type stood: what a checker and a driver that disagree would hand over.

Each `MC*` module gives an instance; each `*.cfg` is one run.

## Runs

| Run | Instance | States | Shows |
|---|---|---|---|
| `arena` | 2 threads, blocks of 3 slots, values of 1, 2 and 4 slots, 5 slots and 3 scopes | 284,469 | types; blocks within capacity and adding up to the mark; values stand; nothing leaks; tokens apart; the arena implements ScopePromise |
| `library` | 3 threads, 2 libraries, 2 patterns | 11,295 | only living patterns are matched; each is read once; nothing outlives the last load; a call that matches answers |
| `rust_run` | 2 libraries, 2 payloads, stack of 5 | 237,772 | registers follow the stack; the innermost scope is closed; rooms outlive what reads them; a call runs one library; a call comes to its first failure, panic or error, with what it carried |
| `php_run` | 2 libraries, 2 fibers, stacks of 5, 3 runs | 246,420 | runs are one stack; the innermost run is found; borrowed values stand; nothing pends |
| `php_destructors` | as above with destructors that use the binding | violation | a value held by the outer run is made in the scope of the inner one |
| `bundle` | 3 uses in 3 processes, the deletions of one may fail | 209,435 | a directory in use stands; what runs was hashed; only a crash or the disk leaves anything; what is left can be swept; every use ends |
| `bundle_shared` | 3 uses in 2 processes | violation | a sweep gives up the lock of another use of its own process |
| `commit` | 2 commands, the same 2 targets in opposite order | 379,710 | what is in place is marked; what was there stands beside it until the next is in place, and comes back where that fails; only the disk leaves anything beside; a refusal changes no target |
| `go_run` | 2 goroutines, 2 threads, 2 libraries, 3 runs, stacks of 6 | 962,333 | until a run that had ended passes a check: calls are made where their run belongs; arenas follow the stacks; a root run is refused exactly inside one of its own; a callback is lent the run of its call; rooms outlive what reads them; the first failure answers |
| `go_moved` | 2 goroutines, 2 threads, 1 library, 2 runs | violation | a goroutine moved between the two questions of a check passes with a run that has ended |
| `document` | 6 programs and each of their 2,698 alterations | 20,088 | no panic; nothing is misread, a copy's parameters included; runs end for what their node names; every helper call has exactly one copy; no checked program is refused |
| `document_tail` | one more program | violation | a tail call lowers a function that was never planned |

*Why the bounds are enough.*  The arena's reset distinguishes a mark before, in and after a block; five
slots over blocks of three reach each with an oversized block among them, and the proofs remove the
bound.  Three threads are a matcher, a second reader and a last one out.  A stack of five holds a run, a
call, a callback and a run with its call inside it, or a nested call with its callback, which is the
deepest shape in which two registers and two libraries can disagree.  Two fibers and three runs nest two
libraries in either order on one fiber or across both.  Three uses are one that leaves something, one
that sweeps it, and one that uses meanwhile; the disk keeps what the first leaves.  Two commands over
two targets in opposite order reach each order of their moves.  Two goroutines over two threads are a
run's own and another that keeps it; three runs nest two and leave one, or keep an ended one beside two;
a stack of six is a run, its call, its callback, a run inside with its call and its callback.  The six
programs hold each kind of node, every way a behavior is defined (a body, a composition, given by the
host, of another build), rows, rules, unions, newtypes, collections under colliding hashes, walks,
generic helpers and one whose copies never end.  `Int`, `Decimal`, `Rational`, years, lists and strings
have small bounds, so that each of their endings is reached; a trie of one bit a level and three levels
reaches entries side by side with three members; `Depth` 3 and `Reentered` 2 reach both limits of
specialisation.  355 of the altered documents are accepted, and 138,757 runs are made of what was
lowered.  A document altered in two places is not in the run.

*Symmetry* is over threads in `arena`, libraries in `rust_run` and `php_run`, and goroutines, threads
and libraries in `go_run`, none of which check liveness.  `go_run` tells states apart without `answer`
(`VIEW`): no step reads it, and the one property that does is asked of every step.  `go_run` leaves out
the states after a run that had ended has passed a check (`CONSTRAINT NotStrayed`): they are what
`go_moved` is about, the properties say nothing of them, and what a library does that was called through
such a run is promised nowhere.

*Fairness.*  `library` assumes weak fairness of each thread's `Call` steps: a thread inside `matched` is
scheduled, and no code in it waits for anything but the lock of `KEPT`, whose holder is such a thread
itself.  Loads and drops are not assumed to happen.  `bundle` assumes weak fairness of each use's own
steps: a process that has not crashed is scheduled, and no step waits, since a sweep only tries a lock
and no other use asks for that of a directory just made.  Crashes and the passing of time are not
assumed.  No liveness is checked of the driver: specialising, its only loop, ends by `Depth` and
`Reentered`, which the finite state space of `document` shows, and what the emitted code does is
evaluated and not stepped.

## Findings

* `bundle_shared`: `NativeBundle.abandonedIn` opens and closes a channel on the lock file of a
  directory another use of the same process holds.  On POSIX closing any channel gives up the
  process's lock, so a sweep of another process may then take the lock and delete the directory.
* `php_destructors`: `NativeLibrary::close` empties what the session kept before `Binding::run` closes
  the scope.  A destructor that runs then and uses the binding finds the outer run, while the arena
  still makes values in the inner run's scope.  The Rust and the Go binding close the scope first and
  let go of what they kept afterwards.
* `go_moved`: the Go binding's `checkReading` asks whether the run is live and then whether this is its
  thread.  A goroutine that holds another's run may be moved onto its thread between the two, after the
  run ended, and passes both.  Asking the thread first closes it: a run found on this thread by a
  goroutine that is not its own has ended, and stays so.  `OwnRunsBelong` proves that it takes a
  goroutine that asks a run of another.
* `document_tail`: `lower_tail` lowers each argument of a self call itself and not through
  `lower_arguments`, so a function that is never applied, which `closures` leaves unplanned, is lowered
  and the `expect` on its plan panics.  The same holds of a `$put` over a map in the call arm of `lower`,
  which lowers its arguments the same way.  `document` leaves this program out.

Three more were met while modelling and stand in no run of their own:

* `BindingDirectory` asks whose a target is before the library is built and when it stages, and not again
  before it moves the directory away and deletes it, so what somebody put there meanwhile is deleted,
  where BindingDirectory.java:28-29 says that a directory holding anything else "is refused rather than
  deleted".  `NothingIsLost` says what holds instead: what goes for good is a directory the generator may
  replace or one the command never saw, and it goes only with the next in place.
* `walk_built` keeps what is bound around a step in force over what is walked and where it starts, where
  `Coherent` scopes it over the step only; a document that binds the same number there again passes
  `Coherent` and meets the assertion of `Bindings::at`.
* The head of `specialize.rs` (lines 31 to 33) says that the `DEPTH`th copy along a chain, or the
  `REENTERED`th made from a copy of its helper, is refused.  The code makes that one and refuses the one
  after, as the comment on `Budget` says; `WithinLimits` states what the code does.

## Proofs

Each module `X_proofs` extends X and proves its theorems for every value of the constants, from X's
named assumptions and no others; where a theorem needs more, its statement says so.  None of the
invariants a run checks is inductive by itself.  Each module therefore has an `IInv` with it inside,
checked by TLC on the run's instance before it was proved, a lemma per action that it is kept
(`...Step` or `...Keeps`), and the theorems drawn from it.

| Module | Theorems | Assumed | Beyond the run's bounds |
|---|---|---|---|
| `ArenaScopes_proofs` | `TypeCorrect`, `BlocksSound`, `ValuesStand`, `ClosingGivesBack`, `TokensStayApart`, `ArenaKeepsPromise` (refinement) | a slot and a block are positive, sizes and bounds are numbers | any threads, blocks and scopes |
| `LibraryLife_proofs` | `TypeCorrect`, `MatchesAlive`, `ReadsOnce`, `NoneOutlives` | finitely many threads | any libraries, patterns and threads |
| `RustRun_proofs` | `RegistersFollow`, `ClosesInnermost`, `RoomsOutlive`, `OneLibrary`, `FirstFailure` (action) | the bounds are numbers, one failure at least is remembered | any libraries, stack and depth of binding |
| `BundleRun_proofs` | `RunsTheHashed`, `LeavesNothing`, `LeftIsFree`, `UsedStands` | each use has a process; for `UsedStands` one use to a process | any uses and processes, any of whose deletions may fail |
| `BindingCommit_proofs` | `PlacedIsMarked`, `LeavesNothingBeside`, `LosesNothing` (action), `RefusalMovesNothing` (action) | a command asks for a binding at least, and each target once | any commands, however their targets overlap |
| `GoRun_proofs` | `CallsBelong`, `ArenasFollow`, `RefusedInside`, `LentTheRun`, `RoomsStand`, `FirstFailure` (action), `OwnRunsBelong` | no thread is `None`, one failure at least is remembered; for `OwnRunsBelong` that no goroutine asks a run of another | any goroutines, threads, libraries, runs and stacks |
| `Copies_proofs` | `EveryCallHasItsCopy`, `CopiesStayApart`, `StaysWithinLimits` | `Depth` is positive, `Reentered` a number | any document: whatever the roots and the bodies of copies call, and any limits |
| `PhpRun_proofs` | `NothingLeftPending`, `RunsAlwaysNest`, `FindsInnermost`, `OneStackOfRuns`, `BorrowedStands` | the main fiber is one; for the last two no reentrant destructor | any fibers, libraries, exceptions and stacks |

**Arena.**  `IInv` is type correctness and, of each thread, `ArenaOk` (the blocks' lengths follow one
another up to `taken`), `ValuesOk` (every promised value lies in its block at the offset its number
gives, and below the mark a close is going back to) and `ScopesOk` (tokens and marks rise inwards, and
the values of a scope lie between its mark and the next scope's), with `ThreadsApart` across threads.
`ValuesOk` carries the link between a value's number and its block that a popped or cut block needs,
and `ScopesOk` is why closing a scope drops only its own values.

**Loading and patterns.**  The counts are the number of the loads they stand for (`Counted`), so a
thread that finds itself the last load is alone (`Exclusive`), and what a library keeps has a load to
answer for it (`Answered`).  What a room points at is owned by what the library keeps, by the thread
that has just read it, or by the release that drops it (`RoomIsOwned`); no pattern is at two rooms
(`OneClaim`), so dropping one leaves no other room pointing at what is gone.

**Rust runs.**  `Framed` says of every frame what stands under it; `Scoped` that the arenas' scopes are
the depths of the runs; `ReadIn` that what is read stands in a scope no further out than the run that
keeps its room; `Registered` that the nth call of the stack is the nth of `CALLS`, and likewise of root
runs and `OPEN`, by counting frames of a kind; `CallsHold` that a call's place in `CALLS` has what was
raised first under it.  What may be bound is a recursive function over the depth of a binding, and that
all of it runs one library is proved by taking the least depth at which it would not.

**Bundle.**  `Hashed` (from its check to its unpacking a use holds the bytes it checked) and `Owned`
(what a use may have on the disk where it stands, and that one that is over has something only if it is
`stuck`) hold of every assignment of uses to processes, and so does `LockHeld`: a lock is held by a use
at work in its directory or by a sweep that is at it.  `Guarded` is about what a lock keeps from others
and needs `OneUseEach`: `bundle_shared` shows it false where a process has two.

**Binding directories.**  `Staged` and `Moved` say, from where a command stands and which binding it is
at, what it has beside each of its targets, but for what `LeftIsStuck` says the disk kept;
`MovedIsMarked` that what it has moved out is marked; `Secured` that where something stands something
stands that is not about to be deleted; and `MayReplaceSeen` that what a command found when it last asked
is what its generator may replace.

**Go runs.**  `Nested` says of a goroutine's stack what stands in each frame (`Stands`), that only the
innermost frame is ending (`Phased`), that the goroutine's live runs are those whose function has not
returned (`LiveIn`), that each run's `child` is the next run of its library on the stack (`Chained`),
and that a run keeps as many calls as are under way through it, each with the first failure left to it
(`Counted`, `Kept`).  `Placed` is why a thread has one such stack: a goroutine with runs open is locked,
as often as it has root runs.  From it the arenas and the roots follow the stacks (`ScopesFollow`,
`RootsFollow`), and a run found live that is on this thread is this goroutine's (`LiveHere`).  The two
questions are asked apart, so all of it holds until a run that had ended has passed (`strayed`), which
each theorem says: `IInv` is kept by every step but the one of `go_moved`, which ends it.  For
`OwnRunsBelong` a goroutine asks its own runs only, and while it is inside a check its own live runs
cannot end, so nothing strays. That `innermost` ends, and at the run of the call, is proved by taking
the least distance at which it would not; that a room outlives its readers, by `ReadStands`, which puts
the reading scope no further out than the run that holds the room.

**PHP runs.**  `Stacks` says what stands in each frame of each fiber and that orders rise inwards;
`OneFiber` and `OpenFollows` that a library's runs are on its holder's stack, in the order of `open`;
`Pends` that the one pending exception is the one the running fiber's call was left.  These hold
whatever destructors do, and give the first three theorems.  Where none uses the binding, `Calm` or
`Closing` says in addition that the scopes are the runs', with one more where a run is ending, and
`ValueStands` that a value is in no scope inside its own run's; `php_destructors` shows that the last
two theorems do need it.

**Copies of helpers.**  The steps are those `Document` takes, with the bodies and the calls of each copy
left open, so what is proved holds of the calls of every document.  `Met` says that each call resolved
so far, of a body read or of the one being read, has its copy, and `KeysApart` that no two copies are of
one helper at one row of types: together, at the end, exactly one copy a call, which is what the
`expect` of `callee` and the `index::unique` of `by_key` rely on.  `Numbered` says that the copies of a
helper are numbered by how many were made before, so that their symbols differ; `Asked` that a call of
the parent's body asked for each.  `Lines` says that a copy's `line` is its parent's with itself, `Deep`
that it holds at most `Depth` of its own helper, and `Spent` that what is spent of a helper is the number
of its copies made from a copy of it, whichever chains they stand on: that is why one count bounds the
branching the chain's limit does not.  `GivenUp` says that a making given up was refused by one of the
two at a call that has no copy.  `CopiesApart` and `WithinLimits` stand in no run; TLC was asked both on
the generic programs before they were proved.

*Only model-checked.*  `MatchAnswers` and `UseComesToAnEnd` are liveness under fairness.  Of `Document`,
`NeverPanics`, `Sound`, `EndsForWhatItNames` and `CheckedIsCoherent` are said of what RECURSIVE operators
over types and nodes compute, which the prover does not take up.  That specialising ends follows from
its limits only together with a document being finite, and is shown by the run alone.

## What is not modelled

*Text.*  Of the kernels over text, joining, length and comparison are run; trimming, case, splitting,
replacing, padding, words, lines and parsing of numbers are pure functions over characters, and a
pattern is taken to match.  Decoding, the codecs, the JSON syntax, the manifest, the generators and the
command's writer read or write text, whose correctness is the text; of the codecs only which
declarations have one is in `Runs`.

*Below and beside.*  `souther_exact`, Cranelift and the linker are external: rounding and greatest common
divisors are taken as what they are, a token's address is a constant, and the emitted code is what it
does and not its instructions.  `GeneratorArtifacts` keeps and checks as `NativeBundle` does, without
locks and sweeping.  The Go binding's loading counts as the Rust one does, and never unloads what
loaded; `runtime.Goexit` in host code is left out.  In the Rust model, `host` is entered only by what a
library calls back.  In the PHP model, loading and the conversions of values are left out, and
destructors are the subject of one run only.  The token counter's 64 bits are not modelled: it would
take 2^63 scopes to wrap.

*A closure in a row.*  A row's own behavior is reached through what the row stands on; a closure in a
row's body does not carry that, and `Running` follows the code in this, but no program of the run has
such a row.

## Plan

Done, in order: ArenaScopes with ScopePromise and its proofs, LibraryLife, RustRun, BundleRun,
BindingCommit, PhpRun, the driver's chain up to Document, GoRun; then the proofs of LibraryLife,
BundleRun, BindingCommit, RustRun, PhpRun and GoRun; then Copies, taken out of Specialize so that it can
be proved about, and its proofs.

Left: what recursion and liveness keep with TLC (above), and the components listed as not modelled.
