# A verification project for piccolo

piccolo is a stackless Lua VM in Rust. This directory holds TLA+ models of the
executor and its coroutines, the stack of a thread, finalization during garbage
collection, the storage of tables, the way of a program through parser, compiler
and virtual machine, and the sequences of the table library, with
TLC configurations that check them on small instances, and TLAPS proofs of the
central results for every instance. Paths below are relative to the repository.

## 1. The system

### Components, their state and their operations

| Component | Sources | State | Operations |
|---|---|---|---|
| Executor | `src/thread/executor.rs` | stack of threads that resumed one another | `step`, `take_result`, `resume`, `resume_err`, `stop`, `reset`, `restart`; `Execution` inside callbacks |
| Thread | `src/thread/thread.rs` | frames, value stack, open upvalues | `start`, `start_suspended`, `resume`, `resume_err`, `take_result`, `reset`; frame pushes and returns |
| VM | `src/thread/vm.rs`, `src/opcode.rs` | program counter, registers | one slice of instructions (`run_vm`), encoding and decoding |
| Fuel | `src/fuel.rs` | remaining fuel, interrupt flag | `consume`, `interrupt`, `should_continue` |
| Coroutine library | `src/stdlib/coroutine.rs` | none | `create`, `resume`, `continue`, `yield`, `yieldto`, `status`, `running` |
| Lua state, collection driver | `src/lua.rs` | the arena and its phase | `enter`, `gc_collect`, `run_finalizers`, `finish`, `execute` |
| Finalizers | `src/finalizers.rs` | weak lists of threads and tables, queue of `__gc` calls | `register_*`, `prepare`, `finalize`, `pop_pending` |
| Upvalues, closures | `src/closure.rs` | open (thread, slot) or closed (value) | open, get, set, close |
| Tables | `src/table/raw.rs`, `src/table/table.rs` | array part, hash map part | `get`, `set`, `length`, `next`, `grow_array`, `reserve_map`, `Iter` |
| Strings, interning | `src/string.rs` | weak set by bytes, map by static address | `intern`, `intern_static` |
| Callbacks, sequences | `src/callback.rs`, `src/async_callback.rs` | a sequence's own state; shadow stack | `call`, `poll`, `error` |
| Lexer, parser | `src/compiler/lexer.rs`, `parser.rs` | tokens read ahead, recursion depth | `parse_chunk` and one function per construct |
| Compiler | `src/compiler/compiler.rs`, `register_allocator.rs`, `operators.rs` | functions being compiled: registers in use, blocks, locals, upvalue descriptors, labels, pending jumps | one function per statement and expression; `find_variable`, `exit_block`, `jump`, `jump_target` |
| Metamethods | `src/meta_ops.rs` | none | `index`, `new_index`, `call`, operators |
| Registry, stashes | `src/registry.rs`, `src/stash.rs` | dynamic roots | `stash`, `fetch` |
| Table library | `src/stdlib/table.rs` | the state of a sequence between two metamethod calls | `remove`, `insert`, `unpack`, `pack`, `concat` |
| Rest of the standard library | `src/stdlib/` | none of its own | patterns, formatting, I/O |
| piccolo-util | `util/` | frozen scopes | `freeze`, serde, user methods |

### How they interact

The host calls `Executor::step` inside `Lua::enter`. One iteration of the step
loop runs the top frame of the top thread: a slice of Lua code, a callback or a
sequence. What that frame answers (return, error, call, yield, resume, yield
to) becomes pushes and pops of frames on one or two threads and a change of the
thread stack. Results are never returned through the Rust stack: they are left
in a `Result` frame and handed to the thread below in a later iteration.
Between two `enter`s the collector may run. It marks, calls
`Finalizers::prepare`, marks, calls `Finalizers::finalize`, marks and sweeps.
Threads hold their open upvalues strongly and upvalues their thread weakly, so
a coroutine can die while closures still use its variables; closing them is
what finalization is for.

### What is hard, and what makes each component correct

- *Executor and threads*: every frame push must leave the frame below it in the
  state that the matching return will expect (otherwise the code panics); every
  thread in the stack but the last must be waiting for the one above it; errors
  must not skip a sequence; control must come back to the host.
- *Finalization*: nothing reachable is freed, no registered thread or table is
  missed, and objects are finalized once, although each stage changes what is
  reachable for the next.
- *Stack and upvalues*: caller and callee share one value stack that is rotated,
  truncated and resized in place; no variable may be overwritten, and a closure
  must go on seeing the variable it captured when the frame under it goes away.
- *Tables*: moving entries between two parts, dead keys and rehashing must be
  invisible; a traversal must survive removals; `length` is a border.
- *Parser, compiler and VM*: an expression is compiled piece by piece into
  registers that are shared with variables and temporaries; on every path each is
  freed once and none is overwritten while in use. A jump must close the upvalues
  of exactly the blocks it leaves, including what is captured further down. The
  test is whether the program does what its source means.
- *Table library*: a sequence waits for metamethods between two accesses; they
  return what they like, fail, or let other code change the table. The fast path
  and the fallback must agree.
- *String matching, registry, interner*: see the plan in section 6.

`PROJECT.json` lists the hazards one by one, at their lines.

## 2. Modules

| Module | Models |
|---|---|
| `Stacks` | a `Vec` used as a stack |
| `Thread` | `Frame`, `ThreadMode` and every operation on a thread's frames, as operators on sequences |
| `Executor` | the step loop, one action per branch, and the host's calls between steps |
| `ThreadStack` | the value stack of one thread: register windows, varargs, results, open upvalues |
| `Coroutines` | what the executor promises: thread modes and the chain of resumers, no frames |
| `Finalizers` | heap, upvalues, finalizer lists and collection cycles |
| `RawTable` | the two parts of a table over hashbrown's buckets, and a traversal |
| `LuaTable` | what a table promises: a map from keys to values |
| `RegisterAllocator` | which registers a function being compiled uses |
| `Compiler` | a function being compiled: blocks, locals, upvalues, labels and jumps, as operators |
| `Statements` | every statement as an action on the functions being compiled |
| `CompiledCode` | what compiled jumps and closures do to variables at run time |
| `Constants` | constants, constant folding and integer arithmetic |
| `Expressions` | expressions and the statements that hold them: descriptors, discharge, instructions |
| `Parser` | recursive descent over tokens |
| `Opcode` | instructions with operands packed into opcodes, and back |
| `Vm` | parser, compiler, encoding and every instruction, one after the other |
| `LuaSyntax`, `LuaMeaning` | how Lua programs are written and what they mean; the reference for `Vm` |
| `TableLibrary` | `remove`, `insert`, `unpack` and `pack` among metamethods and other code |
| `MCExecutor`, `MCThreadStack`, `MCFinalizers`, `MCRawTable`, `MCCompiler`, `MCVm`, `MCTableLibrary` | small instances for TLC |
| `StackLemmas` | facts about stacks and least elements |
| `CoroutinesProofs`, `ExecutorProofs`, `FinalizersProofs`, `ThreadStackProofs`, `TableLibraryProofs`, `RawTableProofs`, `CompilerProofs` | theorems |

Some definitions are preceded by a *mutant*: the same definition with a
plausible mistake in it. A mutant is used by no specification; it is
there to show that the property it is paired with in `PROJECT.json` fails when
the code is wrong.

### Executor, Thread, Coroutines

A frame keeps its kind and one flag: whether a Lua frame expects a return, or
whether a sequence has a pending error. Values, stack bottoms, closures and
program counters are left out. The mode of a thread is computed from its top
frame, as `ThreadState::mode` does. `ThreadMode::Running` is a borrow flag in
the code: the thread being stepped is borrowed, so it cannot resume itself
(`CanResume`), and a host outside of `step` never sees it. Panics of the code
are `Panic` frames in the model, which `FramesWellFormed` excludes.

`StepDone`, `Deliver` and `StepBadThreadMode` are the match at the top of an
iteration; `RunCallback`, `RunSequence`, `RunLua` and `UnwindError` are its four
kinds of frame. `Answer` is everything a callback or a sequence can reply.
`Deliver` is an action of its own although the code goes on, in the same
iteration, to run the thread that was woken: nothing is observed in between, and
no fuel is consumed there. `CreateCoroutine` is a callback that makes a thread
before it answers. A slice of Lua code is a choice between running on, calling,
tail-calling, returning and failing. The fuel an iteration costs follows the
constants of the code; what a slice of `run_vm` consumed is any member of
`VmCosts`.

The host may call every method of `Executor` between steps, and the methods of
`Thread` on threads that are in no stack: that is the documented use
(`Spec`). `MisuseSpec` also lets it change the threads of a running executor,
which is what `BadThreadMode` is for; what still holds then is proved in
`ExecutorProofs`.

Threads abandoned by `stop` and `reset` keep their frames and stay `Waiting`.
`AbandonedUntouched` says that nothing but the host's `Thread::reset` changes
them ever after: no result is handed to them and none becomes a coroutine again.

### ThreadStack

What `Thread` leaves out: `stack`, the bottom and base of every frame,
`is_variable`, `expected_return` and `open_upvalues`, one thread at a time. The
actions are the methods of `LuaFrame` and `LuaRegisters`, what callbacks and
sequences do with their part of the stack, unwinding and the methods of `Thread`.
A closure is the upvalue it captures, so calling it, returning it and storing it
in the variable it captured are all possible. Which instruction runs next is any
choice that compiled code could make: variables are in the first registers,
operands are evaluated above them just before they are consumed (one action with
the instruction that consumes them), and after an instruction that leaves a
variable number of values the next one consumes them. The program counter is left
out, so `MetaReturn::SkipIf` is `MetaReturn::None`. `locals`, `extra` and `mem` are
the program's view: which variable is in which register, which variable arguments
were passed, and what each variable should be worth. The properties compare the
stack with them.

### Finalizers

Objects are threads, upvalues and tables; a table stands for any object that
holds others (closures too), `Root` for the registry and what running code
holds. `live` is what has not been freed, `marked` what the collector has found
or was told to resurrect. `Closure` is gc-arena's marking. Four abstractions
deserve a word:

- marking is incremental, so at its end some objects that were reachable when
  they were met are marked although they are not any more: `EndMark` adds any set
  of live objects (`floating`), which includes every outcome of the real write
  barriers;
- the thread list is a set: `prepare` visits it in any order;
- freeing is atomic at the start of the sweep: from then on a weak pointer to an
  unmarked object does not upgrade, so the moment of the deallocation is not
  observable;
- an object is one identity and is not reused once freed.

`owed` is a history variable: the tables registered since their finalizer was
last queued, as long as they keep a `__gc`. `FinalizersKept` follows one queued
finalizer: it leaves the queue only by being run, over any number of cycles.
It also bounds it from the other side (`NoneRepeated`): `Places` counts where a
table stands in the list, in what `prepare` found and in the queue, and no step but
`setmetatable` adds a place, so a finalizer runs at most as often as its table was
registered.
`RestartDropped` says whether the
host calls `Thread::start` on threads that `finalize` has dropped from its list.
Lua code cannot.

### RawTable, LuaTable

`map` is the sequence of hashbrown's buckets, each EMPTY, DELETED or holding an
entry, and `growth_left` its counter. The place a key hashes to, the bucket
count it grows to and whether an erased bucket becomes EMPTY or DELETED are any
choice the library could make. Keys are integers (small ones, some beyond the
array), integral floats, which are the same keys as their integers, and objects;
nil and NaN are refused. `Bytes` says which string objects have the same bytes:
the interner for static strings and the one for dynamic strings keep separate
sets, so two objects can. `iter` is a traversal with `next`; assigning to an
absent key ends it, because the documentation allows only removal and assignment
to present keys on the way.

### Compiler, Statements, CompiledCode

`fns` is the stack of functions being compiled, `cur` the innermost. `Statements`
meets a program one statement at a time and TLC chooses the statements, so every
short program within a budget is compiled; a construct with a block is opened by
one action and closed by another. Expressions are temporaries here, and an
instruction is what it does to variables: `Decl` starts one in a register, `Use`
reads or writes the one a name stood for, `Closure` captures some. A function that
has compiled is then executed by `CompiledCode`, all conditions going both ways,
with an account of which incarnation of which variable is in each register.
Asserts and panics of the code are the result `"panic"`.

### Parser, Expressions, Opcode, Vm

These take given programs instead, with real expressions. `Parse`, `Compile` and
one action per instruction follow each other. A parser is a function from tokens
to a tree and the tokens left; the state of the compiler is passed through
`expression`, `expr_discharge` and the others as in the code. The function runs on
one frame. What it calls, and every metamethod, is an event of the world: the trace
of events with their operands is compared with the one `LuaMeaning` gives, and so
are tables, upvalues and results. Integers have `IntWidth` bits and wrap; a float is
the operation that made it. `LuaSyntax` writes programs with as few parentheses as
the manual's precedence allows, which makes the parser earn its keep.

### TableLibrary

One call. `own` is what the table holds itself, `backing` what its metamethods read
and write, `plan` the accesses still to make, each with the stack bottom that the
metamethod is called with; an access made directly and one made by a call are
different actions. Metamethods are functions, tables or values that cannot be
called. A function may return nothing, its value or more, or raise an error before
or after its work. Whenever the sequence waits, other code may change the table
(once, `disturbed`); inside a batch nothing else runs. A metatable does not
change during a call. Integers are MIN..MAX for `i64`; the raw length is any
border, which is what `LengthIsBorder` shows of it.

## 3. Runs

| Run | Checks | Bounds |
|---|---|---|
| `executor` | types, `FramesWellFormed`, `WaitChain`, `NoBadThreadMode`, `AbandonedUntouched`, `SequencesNotSkipped`, `ImplementsCoroutines` | 3 threads, calls up to 2 frames (sequences, yields and errors go above); one iteration per step, so the host acts between any two |
| `executor_misuse` | `FramesWellFormed`, when the host also drives threads of a running executor | as `executor`, at most 3 threads in the stack |
| `executor_live` | `StepReturns`, `UnwindingEnds` | 2 threads, 3 frames, fuel for none or several iterations |
| `stack` | types, `LocalsIntact`, `UpValueSeesVariable`, `StackAsserts` | 2 call frames with what waits or fails above them, windows of 2 registers, 1 parameter, 2 variables and 2 upvalues at a time, 0 or 2 values passed by Rust code |
| `finalizers` | types, `UpValueThreadsLive`, `ReachableLive`, `TrackedThreadsLive`, `OwedNotFreed`, `FinalizersKept` | 2 threads, 1 upvalue, 1 table listed at most twice |
| `table` | types, `MapWellFormed`, `TraversalComplete`, `LengthIsBorder`, `NoKeyTwice`, `ImplementsTable` | integers 1..3 with 5 in the role of `i64::MAX`, one object, array up to 4, 2 or 3 buckets |
| `compiler` | types and registers of locals, `NoPanic`, `NamesResolveLexically`, `VariablesInScope`, `ClosuresKeepVariables` | every program of at most 7 statements from one of five families, one name, one label, functions nested 3 deep, 12 registers; gotos forward only, none out of a `for` |
| `expressions` | types, `ProgramsCompile`, `StackProtocol`, `MeaningPreserved` | the programs of `MCVm`: every kind of expression over leaves and nested once, every operator inside every other on either side and under unary ones, every statement, loops with bodies that capture, break, jump and return; 14 registers, 8 bit integers, 2 fields per flush |
| `library` | types, `StackExact`, `ResultCorrect`, `ErrorLosesNothing`, `ShiftsCharged` | tables with keys up to 4 = MAX, each placed in the array, the map or behind metamethods; ten metatables; lengths and indices that are negative, zero, inside and at the end |
| `finalizers_early`, `compiler_goto`, `library_empty` | a counterexample each, see section 4 | |

Why the bounds are enough: three threads are the first number at which a chain
has a middle, and at which a thread can yield to one that is neither itself nor
its resumer; two frames let an error cross a Lua frame and meet a sequence.
In `stack`, two frames are a caller and a callee, two variables let a higher
register be captured before a lower one, and two passed values with one parameter
leave an extra argument to rotate; `StackView` identifies states that differ only
in the names of variables or in temporaries that nothing will read. One
coroutine must be able to die while another lives, and one table is enough to be
registered twice. Two and three buckets make the map overflow, rehash and move
its entries to the array within a few steps. The length's doubling meets holes, and
from 3 it saturates at 5; that the largest key itself is present, and is a border, is
left to the theorem `LengthBorder`. For the compiler, one name is the
hardest case, since every declaration shadows; a loop, a local, a closure and a
jump are enough for a jump to leave or repeat a scope with something captured in
it. In `expressions`, three constants with a short index and two fields per flush
make the long forms happen; one level of nesting puts every kind of expression into
every place that has a destination or a temporary, and two operators are enough to
tell any order of their binding powers. Three elements to shift and a
batch of two are the first with a middle. `MaxFrames` bounds
calls, `UpVals`, `Cells`, `ArgCounts` and `Passed` the inputs of the stack,
`StackBound` misuse, `MaxTracked` registrations, `MaxArray` and `BucketCounts` the parts of a table,
`Budgets`, `Returning`, `ParamLists` and `MaxFunctions` the programs compiled,
`Programs` and `Lasting` those executed, `MaxPacked` the arguments of `pack`. What is proved (section 5) holds without any of them being
small.

Fairness: `StepFairness` says that a call of `step` is executed to its end: the
loop is Rust code without anything that blocks, and callbacks, sequences and
slices of Lua code end by contract (they may lower or interrupt the fuel, and
the model does not let a callback add fuel). `HostFairness` says that the host
goes on calling `step`, as the loop of `Lua::finish` does. `StepReturns` does
not depend on it, since no step of the host is enabled inside `step`.

## 4. Where documentation and code differ

Three are runs that TLC ends with a counterexample.

- `finalizers_early`: a table reachable only through the variable of a dead
  coroutine, by way of an upvalue that is still in use, is queued for `__gc`.
  `prepare` resurrects the variable's value but does not mark again before it asks
  which tables are dead.
- `compiler_goto`: a backward goto closes upvalues if the blocks it leaves own
  some *when it is compiled*. In
  `::l:: local x; while c do if d then goto l end; f = function() return x end end`
  the closure comes later, the jump does not close `x`, and the closure sees the
  `x` of the next round. `tests/scripts/jumps_close_upvalues.lua` has the closure
  before the goto.
- `library_empty`: `table.remove(t)`, or `table.remove(t, 0)`, on an empty table
  returns nil on the fast path. With `__index`, `__newindex` or `__len` it raises an
  error: the fallback tests `index.saturating_sub(1) == length`, which is -1 against
  0. The comments at `src/stdlib/table.rs:191` and 263 say nil, and
  `tests/scripts/table.lua:246` asks a table without metamethods only. `ResultCorrect`
  allows each path what it does in this one case.

Found with the same models; the constant or the property that shows each is named.

- `Executor::step` returns `false` also when the iteration that used up the fuel
  finished the work, while its documentation says that there is more to do
  (`FalseMeansMoreWork`). Harmless to a host that loops.
- Calling `setmetatable` twice lists a table twice; the second entry survives the
  scan in which the first is finalized and is finalized in a later cycle
  (`NeverFinalizedTwice`). It is not finalized more often than it was listed
  (`FinalizersKept`).
- Closing an upvalue can bring back a coroutine that `finalize` has just reset and
  dropped. If the host starts it again it is not registered, and when it dies the
  next access to one of its upvalues panics (`RestartDropped = TRUE`,
  `UpValueThreadsLive`).
- Remove a key set through one string, set it again through another string with
  the same bytes, read it through the first: the dead entry matches by address and
  is found before the live one (`Bytes <- SameBytes`, `EqualKeysAgree`).
- `local x, y = 1, x` gives `y` the new `x`: each name is declared as soon as its
  value is compiled (`Programs <- LocalPrograms`, `MeaningPreserved`).
- A goto out of a numeric or generic `for` to a label that is not the last
  statement of its block fails an assert: the pending jump keeps the stack top of
  the loop's hidden registers, although the comment on `PendingJump` says it is
  lowered as blocks are exited (`AnyGoto = TRUE`, `Budgets <- GotoOut`, `NoPanic`).

Met while translating, and outside of what the runs let happen:

- a second use of a `const` upvalue loses its attribute
  (`tests/goldenscripts/const4.lua` uses it once);
- the smallest integer `% -1` overflows in `modulo`;
- a numeric `for` that starts at the smallest integer runs no round; one with step
  0 never ends instead of raising an error;
- a generic `for` with two expressions takes one value of the second, ignores
  expressions after the third, and stops at `false` as at `nil`;
- `a[i], i = 20, i + 1` stores from right to left and reads `i` for the key late;
- a concatenation compiled with one register left does not end, and one that is cut
  into pieces joins them from the left, which metamethods can see;
- the arithmetic on register numbers is in `u8`: a block of 256 registers wraps, and
  so does a push that ends at the last register (the 256th local variable of a
  function, for one): with overflow checks it traps, without them the last register
  is left unmarked and freeing it panics;
- the fast path of `table.remove` adds 1 to a raw length that may be `i64::MAX`.

## 5. Proofs

All theorems hold for every value of the constants that satisfies the modules'
named assumptions (`FuelAssumption`, `BoundAssumption`, `HeapAssumption`,
`StackAssumption`, `LibraryAssumption`, `TableAssumption`, `NumRegsAssumption`,
`CompilerAssumption`): any number of threads, frames, registers, variables, upvalues,
keys, elements, names and nested functions, not only those of the runs.

- `CoroutinesProofs`. `ChainWellFormed`: in the coroutine protocol the chain is
  injective, all below its last thread wait, the last does not. `ChainInv` is
  inductive as it stands.
- `ExecutorProofs`. `FramesStayWellFormed` and `MisuseKeepsFrames` rest on
  `FrameDiscipline`, the comments of `enum Frame` as one invariant of a frame
  sequence; it is needed because a return only looks at one frame, and the frame
  it will find must have been left in the right state when it was covered.
  The module's first part shows that every frame operation preserves it and to which mode
  it leads; the theorem then goes action by action. `ChainWaits` adds the
  invariant `WaitChain`; `ErrorChannelSilent` follows, since each condition of
  `StepBadThreadMode` contradicts it. `Refinement`: every action maps to the
  coroutine action of the same meaning or to a stutter, with the mode lemmas
  giving the abstract mode before and after. `ContinuationsRun`
  (`SequencesNotSkipped`) goes through the steps of the executor once more: what each
  does to one thread's frames is a frame operation, and none removes more than one
  sequence, the one on top. `MisuseLeavesAbandoned` and `AbandonedStay`
  (`AbandonedUntouched`) say that threads left waiting by `stop` and `reset` are only
  ever reset, under `MisuseSpec` as under `Spec`; a thread that is stepped, resumed
  or given results is in the stack or in another mode.
- `FinalizersProofs`. `HeapInv` is the inductive invariant: gc-arena's promise
  that `live` is closed under strong pointers, that during a collection all that
  the program holds is marked, that after `finalize` the registered threads are
  marked, and that unallocated objects are referred to by nothing. It gives
  `ThreadsNotMissed` and, with `OwedListed` (a table that is owed a finalizer is
  in the list), `FinalizersNotMissed`. `UpValuesKept` needs `LuaInv` as well: a
  thread that was dropped from the list has no frames and no open upvalue. That is
  what restarting a dropped thread breaks, so this theorem and `NothingDangles`
  (`ReachableLive`) assume `RestartDropped = FALSE`. `FinalizersDelivered` is the
  action property `FinalizersKept`, step by step; for its second half it counts a
  table's places in the three lists: `prepare` and `finalize` move them and
  `pop_pending` takes one away.
- `ThreadStackProofs`. `StackInv` is the inductive invariant, and the four theorems
  (`ThreadTyped`, `CallsKeepLocals`, `ClosuresSeeVariables`, `StackAssertsHold`)
  follow from it. `FramesInv`: each frame lies above the variables of all those
  below it, no variable is in two registers, and variables and variable arguments
  are where the frame has them. `UpValuesInv`: the open upvalues are those listed,
  by increasing register; no two capture the same variable; an open one lies on the
  register of the variable it captured, and the variable of a closed one is in no
  register and has its value; the closure that a frame runs has its upvalue below
  that frame. `TopInv`: which frames may be covered and which may be on top, so that
  a return or an error finds its window and a fixed-size window ends at the end of the
  stack. Without the last part of `UpValuesInv` a return could close the upvalue it
  is about to use; without `Apart` an assignment would change a variable in one of
  its registers and not in the other. Pushing, popping and cutting a stack have one
  lemma per part of the invariant, and the windows that a call rotates and a return moves down (`Rotated`, `ReturnToInv`) are
  described element by element; then there is one lemma per action. The binary searches
  of `open_upvalue` and `close_upvalues` are the least position of a sorted list
  (`PositionSplits`); that a set of numbers has a least element (`Least`, in
  `StackLemmas`) follows from the well-founded order of finite sets.
- `TableLibraryProofs`. Two inductive invariants. `CallInv` is about the call alone,
  whatever metamethods return and other code does to the table: types, the stack
  below and above each access, what is packed so far, and that the elements shifted
  so far have been charged. It gives `LibraryTyped`, `StackDiscipline` (`StackExact`)
  and `FuelForShifts` (`ShiftsCharged`). `TableInv` adds the data: as long as nothing
  else changes the table, what it shows, entries and metamethods together, is what
  it showed at the start with as many elements shifted as there are accesses behind,
  and the access in flight carries the next one; `FallbackInv` says which path asks
  `__len`, for the one case in which the paths differ. It gives `LibraryCorrect`
  (`ResultCorrect`) and `ErrorsLoseNothing` (`ErrorLosesNothing`).

- `RawTableProofs`. `TypesInv` alone, with no condition on the keys, gives
  `TableTyped` and `LengthBorder`: the length's searches are recursive functions, and
  what they return is shown by a least counterexample (`BinarySearchBorder`,
  `DoublingAbsent`). The other four assume `DistinctKeys`, that no two objects are
  equal strings; section 4 says what happens to two that are. `WellKept` is
  `MapWellFormed` under that assumption, stated for any map and any length of the
  array (`Kept`): `grow_array` takes entries out of the map one by one while the
  array has its new length already, and a rehash builds a new map. It gives `MapKept` and
  `TableImplemented`, where each action is a step of `LuaTable` or a stutter because
  no entry is lost or changed between the parts. `IterInv` says where a traversal is:
  at an array slot, or at a bucket that still holds the key it returned, dead or not
  (`AtPlace`), and that it has seen what is present up to there and nothing behind
  (`SeenUpTo`). Both are needed: with the place alone a key could come twice, and a
  key removed on the way marks a place only because its bucket is kept. It gives
  `TraversalMissesNothing` and `TraversalRepeatsNothing`.

- `CompilerProofs`. `CompilerSound` is the inductive invariant, kept by every
  statement, by the start of the code and by every instruction. Of each function being
  compiled (`Sound`): the registers in use are the first ones (`Packed`); each of
  them is that of one local variable or one of the three hidden ones of a loop, in
  order (`Layout`); inner blocks start no lower than outer ones, in registers and in
  labels (`Nested`); every construct has as many blocks as its kind and phase say, and
  a loop's lie right above its hidden registers (`Shaped`); jumps and labels lead into
  the code (`Coded`). Of the functions together (`Linked`): an upvalue is the local
  variable of its name in the function around it, if that has one, and otherwise the
  upvalue of its name there. Layout alone is not inductive: when a block is left,
  the registers freed are those from its bottom up, and that these are its variables
  and nothing of a loop around it needs `Nested` and `Shaped`. A statement is a
  sequence of operations between which the blocks do not fit the constructs; `Stage`
  says how many blocks are open in between, and each operation has one lemma about it.
  `NamesResolve` (`NamesResolveLexically`) follows links from function to function; a
  link stays right because a function declares nothing while an inner one is compiled.
  `CompilerTyped` gives `TypeOK` as long as no function has used up its registers
  (`Roomy`), and that condition cannot be dropped: pushing the last register does not
  mark it (section 4), and from then on the allocator's fields disagree.

Only model-checked:

- liveness (`StepReturns`, `UnwindingEnds`), which is beyond the prover;
- `NoPanic`, `VariablesInScope` and `ClosuresKeepVariables` of `CompiledCode`. The
  first and the last do not hold for every value of the constants: `goto` out of a
  `for`, a `goto` backwards and the last register break them (section 4), so the run
  keeps to programs without these. The second would need what each register holds
  at each instruction, along every path of jumps, pending ones included;
- `Vm`: parser, compiler and `LuaMeaning` recurse over programs (`RECURSIVE`),
  which is out of reach.

## 6. Plan

1. Done: executor, finalizers, tables; their abstract specifications; proofs for
   the first two.
2. Done: `ThreadStack`, the value stack of a thread and its upvalues. Next: its
   frames against those of `Thread`, by refinement.
3. Done: parser, compiler and virtual machine; the table library's sequences.
4. `AsyncSequence`: the shared slot of async sequences, the stash and the
   registry; no stashed value outlives its frame, none is lost.
5. Algorithms against reference definitions: pattern matching, the table library's
   `concat`, `move` and `sort`.
6. Chains of `__index`, `__newindex` and `__call` over several objects, and the
   interner's weak set, composed with the collector.
7. Proofs. Done: every safety and action property of the executor, the finalizers,
   the thread's stack, the table library and tables; the compiler's inductive
   invariant. Next: the pending jumps of `CompilerSound` related to the blocks they
   leave, for `NoPanic` of programs without the cases of section 4, and the variable each register holds
   at each instruction, for `VariablesInScope`.

## 7. Not modelled

Text (lexing, formatting, string patterns, error messages, line numbers), I/O and the operating system,
conversions between Rust and Lua values, serde: they keep no state between calls.
gc-arena, hashbrown and `Vec` are external; they are modelled from how this code
uses them. Memory use and the pace of the collector are not modelled: a collection
may start whenever the code allows it. The reuse of a freed object's address by
another key is not modelled in tables. The checks of the VM against malformed
bytecode (`return_upper`, for one, pops its frame before it finds that a variable
stack was expected) are not reachable from compiled code and are left out. The compiler's limits on the
number of constants, upvalues and prototypes are left out too, and `close`
attributes, which it refuses.
