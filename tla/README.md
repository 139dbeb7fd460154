# PyPy: threads, signals, locks and memory in TLA+

This directory is a verification development of the parts of PyPy's runtime in
which several activities meet.  One half is about threads, signal handlers and
forks: the global interpreter lock, the stacks of GC roots that change hands
with it, the delivery of signals and other asynchronous actions, the locks
offered to Python programs, the start and end of threads, and what a forked
child does with all of it.  The other half is about memory: the incremental
generational collector, which runs in steps between which the program goes on
changing the objects it is looking at, and the allocator under it.  Every module
is a translation of code of the repository; `PROJECT.json` maps each definition
to its lines.  Paths below are relative to the root of the repository.

## 1. The system and its parts

PyPy is an interpreter for Python (`pypy/`) written in RPython, a restricted
Python that a tool chain (`rpython/`) translates to C and to which it adds a
garbage collector, a tracing compiler and a C runtime
(`rpython/translator/c/src/`).

| part | state | operations | meets the others through | correct when |
|---|---|---|---|---|
| Interpreter lock: `thread_gil.c`, `thread_pthread.c`, `threadlocal.h` | `rpy_fastgil`, `mutex_gil` (a flag, a pthread mutex, a condition), `mutex_gil_stealer`, `rpy_waiting_threads`, `rpy_early_poll_n` | allocate, acquire (fast, early polling, stealer loop), release, yield, reset after fork | held by whoever runs RPython code | one holder; its two halves never both unlocked; waiters counted; whoever asks gets it |
| Shadow stacks: `rpython/memory/gctransform/shadowstack.py` | installed base and top, `active_tid`, `main_tid`, `thread_stacks`, `unused_full_stack` | `thread_run`, `switch_shadow_stacks`, `thread_die`, `after_fork`, `increase_root_stack_depth`, destructor | called after every acquire of the lock; walked by the collector | roots are pushed on one's own stack; none lost, shared, freed early or leaked |
| Asynchronous actions and signals: `executioncontext.py`, `pyopcode.py`, `module/signal/interp_signal.py`, `signals.c` | ticker, fired bitmask, C flags, `pending_signal`, `fire_in_another_thread`, asynchronous exceptions | C handler, `bytecode_trace`, dispatcher, `CheckSignalAction`, `GILReleaseAction` | the ticker, written by the C handler at any time; the lock's thread switch hook | a signal that arrived is delivered, whoever sees it first and whatever fails on the way |
| Reentrant locks: `module/thread/os_lock.py`, semaphores of `thread_pthread.c` | `rlock_count`, `rlock_owner`, the semaphore | acquire with and without timeout, release, the pair used by `Condition.wait`, reset after fork | releases the interpreter lock while it waits; runs signal handlers | a reentrant lock: one owner, the semaphore accounted for |
| Threads: `module/thread/os_thread.py`, `threadlocals.py`, `os_local.py`, `module/posix/interp_posix.py` | bootstrapper (lock, callable, count), registry of execution contexts, signal permission, sentinel locks | start, bootstrap, end, join, fork, shutdown | the interpreter lock, the system's thread creation, fork hooks | data reaches its thread; contexts registered while they live; handlers in the main thread; joiners woken |
| Import lock: `module/imp/importing.py` | `lock`, `lockowner`, `lockcounter` | acquire, release, three fork hooks | import statements, fork | levels kept through nested imports and forks |
| Plain locks, `threading.local` objects | a semaphore; dictionaries per context | | as above | planned |
| Collector: `rpython/memory/gc/incminimark.py` | headers (flags), card bits, nursery, `gc_state`, the lists of the write barrier, of the marking, of raw-malloced and of pinned objects, shadows | allocation, write barriers, `ll_arraycopy`, `pin`, `id()`, minor collection, `major_collection_step` | every allocation, every store; walks the shadow stacks; frees through the allocator | reachable objects survive, garbage does not, every collection ends |
| Arena allocator: `minimarkpage.py` | pages by size class, free blocks, arenas by free pages | `malloc`, mass free in steps | called by the collector | no memory given out twice, none lost |
| Reference counts shared with C: `rawrefcount.py` | links between objects and C structures | | the collector | planned |
| Generators, continulets | frame, running flag | send, throw, close, finalizer | the interpreter loop | planned |
| Ordered dictionaries: `rordereddict.py` | index table, entries | insert, delete, compact | none | the two agree; planned |
| Tracing compiler: counters, life time of loops, quasi-immutable fields; tracing, optimizer, backends | counters, generations, registered loops | tick, decay, invalidate | the interpreter loop | the first three planned, the compilers proper not |
| Buffered files: `module/_io/interp_bufferedio.py` | positions, buffer, lock | read, write, seek | a lock per file | planned |
| Bytecode, object space, C API, translation tool chain | | | | sequential; not planned |

What is hard to test here is (a) the interleavings inside the interpreter lock
itself, below the level any Python test can control; (b) windows in which the
interpreter lock was given away in the middle of an operation (a semaphore is
taken but no owner recorded, a thread is created but has not read its
arguments); (c) a C signal handler between a read and a write of the ticker,
and exceptions that leave the dispatcher half way; (d) forks at any of these
moments, from any thread, nested in import hooks and in callbacks; (e) idents
reused by the system; (f) stores, array copies, allocations and pins of the
program between any two steps of a marking or a sweep, where one missed pointer
frees an object that is in use, long after the store.  `PROJECT.json` lists each
of these as a hazard at its line, with the property that would catch it.

## 2. The modules

| module | models |
|---|---|
| `InterpreterLock` | abstract: a lock with at most one holder, waiters, forks |
| `Gil` | the implementation of it in C, one step per access another thread can see |
| `ShadowStacks` | the stacks of GC roots |
| `Signals` | ticker, dispatcher, signal delivery |
| `ReentrantLock` | abstract: who owns a reentrant lock and how often |
| `RLock` | `W_RLock` and the semaphore under it |
| `Threads` | start-up, contexts, sentinel locks, fork, shutdown |
| `ImportLock` | the import lock and its fork hooks |
| `IncMinimark` | the collector: program, write barrier, minor and major collection |
| `ArenaCollection` | the allocator of small old objects |
| `GilProofs`, `SignalsProofs`, `ShadowStacksProofs`, `RLockProofs`, `ThreadsProofs`, `ImportLockProofs`, `IncMinimarkProofs`, `ArenaProofs` | theorems and proofs, each about the module of that name |
| `MCGil`, `MCShadowStacks`, `MCSignals`, `MCRLock`, `MCThreads`, `MCImportLock`, `MCIncMinimark`, `MCArena` | instances for TLC: symmetry sets and the configurations `*.cfg` |

`Gil` is shown to implement `InterpreterLock` (property `ImplementsLock`), and
the modules above it take the lock as a variable (`gil`, `holder`) that a step
may take when it is free: the abstract lock.  The fairness they assume of it is
the liveness property checked of `Gil`.  `RLock` is shown to implement
`ReentrantLock` (`ImplementsRLock`) in the same way.  `IncMinimark` sees the
allocator through a set of blocks that the sweep has not reached (`unswept`) and
that may be visited in any order and any number per step; `ArenaCollection`
takes the decision which blocks die as a free choice.

### Gil

Variables are the C globals and, per thread, the program point and the two
locals of `RPyGilAcquireSlowPath`.  `mutex_gil` appears as its flag (`locked`)
and the owner of its pthread mutex (`mut`).  Every access to shared memory that
another thread can observe is a step: the reads and writes of
`rpy_early_poll_n`, which nothing protects, are separate; a read of
`rpy_fastgil` followed by a compare-and-swap is one step, because a failed swap
has the effect of having read a non-zero value.  A condition wait gives up the
mutex and may end at any time, which covers signals, time-outs (0.1 ms) and
spurious wake-ups.  The main thread starts before the lock is allocated, as it
does in the code.  A child of `fork` keeps the thread that forked and runs
`RPyGilAllocate`'s initialisation again.

### ShadowStacks

A buffer is an element of `Buffer` with a size and, for each entry, the ident of
the thread that pushed it, so that a root on the wrong stack is visible.
`thread_stacks` and the fields of the references are as in the code; allocating
a reference is a point at which the collector may look, and `RootsKept` is
stated over what the collector finds at any time.  References that nothing
mentions any more are `garbage` until their destructor runs.  A buffer that
`unused_full_stack` keeps is part of the state.

### Signals

Each thread has a stack of frames, each at a point of the bytecode loop or of
the dispatcher it called; Python code called by the dispatcher (a handler, a
`__del__`, a debugger call) is a further frame.  `decrement_ticker` is two
steps, since the C handler may write the ticker in between; the C handler is two
steps, the flag and then the ticker.  Exceptions leave the dispatcher where the
code lets them, with what was already changed; a delivery may run out of stack,
and the code that puts the signal back is part of the model.  The `StackOverflow`
then reaches `handle_bytecode` of the frame that polled and is handled there as
a Python exception; if that frame was already handling one, it leaves the frame,
and `execute_frame` turns it into an `OperationError` (`pyframe.py:388`,
`error.py:905`), so that the caller sees an ordinary exception of Python code
and never a `StackOverflow` (`RaiseStackOverflow`).  `undelivered` records the
signals that arrived and whose Python handler has not been called.

### RLock

A blocking acquire is: give up the interpreter lock, take or fail to take the
semaphore, get the interpreter lock back, record the owner.  A wait interrupted
by a signal runs Python code with the outer call kept in `frames`, and is then
repeated with the time left.  `sem_getvalue` and `sem_post` of a release are two
steps.  In the child of a fork `_at_fork_reinit` makes a new semaphore: `sem` is
indexed by generation, so that a call that still uses the old one is visible.

### Threads

`start_new_thread` is: test `sys.finalizing`, create the lock if there is none,
wait for it without the interpreter lock, store the callable, create the thread
(or fail and raise), and return.  The new thread calls `bootstrap`, which reads the
callable, counts itself, releases the lock, and enters its context; its end
leaves it, releases the sentinel lock and subtracts itself.  When something other
than an `OperationError` comes out of `run()`, `bootstrap` skips `leave_thread`
(`os_thread.py:98`): the context stays registered under the ident of a thread
that is gone (`abandoned`) until the ident is used again or a fork clears the
registry.  A thread may end in any state of its sentinel lock.  A fork keeps one
thread, calls `reinit_threads`, then the child hooks in the order of their
registration: the callbacks of `os.register_at_fork` run between the first
`reinit_threads` and the second.

### ImportLock

`acquire_lock`, `release_lock` and `reinit_lock` with their asserts, and
`_run_forking_function` around them: the before hook takes a level, the parent's
gives it back, the child's rebuilds the lock.  `levels` records what each thread
took the lock for.  After a fork the model goes on in the parent or in the child.

### IncMinimark

An object is an address of the nursery, of the heap or of the prebuilt objects,
with a kind (a small object with pointers, an array with card marking, an object
without pointers), its pointers, the `GCFLAG_xxx` of its header and its card
bits.  The program, at `pc = "run"`, allocates, loads a pointer to its stack or
drops one, stores with the write barrier of the place, copies arrays, pins and
unpins, and asks for an `id()`; the collector then runs as a sequence of steps,
one per object or place that the inner loops of the code handle, and the program
does not run in between.  `StartMinor` to `FinishMinor` are `_minor_collection`:
`work` holds the places for which `_trace_drag_out` is still to be called, and
its four cases are four actions.  `major_collection_step` has one action for
each branch of its states.  `NonSmall` are the kinds of objects above
`small_request_threshold`: they may be raw-malloced, young (without cards and
with no flag in the header, so traced as a whole when first seen) or old, and
leave the nursery for `old_rawmalloced_objects` instead of a block of the
allocator.  With `JitFrames` a minor collection marks how far it walked the
stack, and the next one may leave out what lies below the mark (`stopped`), in
whole or in part, unless pinned objects are left from earlier, when the code
walks everything.
`ll_arraycopy` copies between two arrays or two disjoint ranges of one, the
starts being different or not.  How much a step does depends on sizes in the code;
the model lets a marking step stop after any object that was white, and a sweep
step after any number of blocks but zero.  `GCFLAG_PINNED` and
`GCFLAG_PINNED_OBJECT_PARENT_KNOWN` are the same bit in the code and one flag
here.  `doomed`, a history variable, holds what was unreachable when the marking
began.

### ArenaCollection

A page has a size class, a chain of free blocks (a sequence, since the code
depends on its order) and a first block that was never used; the chained lists
of pages and arenas are sets, since the code does not depend on their order.
`malloc` is split at its calls: `request` is the size for which a page, and for
which an arena, is being looked for.  `mass_free_in_pages` walks one page per
call of `mass_free_incremental`, which allows the program in at every point at
which any `max_pages` would.  `walk_page` is modelled block by block: the
variable `walk` holds its locals (the page and its class, the block looked at,
the chain with the position up to which it has been followed, which is where
`prevfreeblockat` points, the blocks freed and surviving), and skipping a block
that is already free, linking one that died in front of the next free one,
keeping one and finishing the page are an action each.  Nothing else runs during
a walk.  `live` records the blocks that were given out.  The words in use
(`WordsInUse`) are a set that is counted: no definition is recursive, so that
everything can be proved about.

## 3. What TLC checks

Passing runs:

| run | instance | distinct states | shows |
|---|---|---|---|
| `gil` | 2 threads, poll bounds 1 and 3, fair | 9,587 | exclusion, never both halves unlocked, exact waiter count, refinement of `InterpreterLock`; whoever asks for the lock gets it |
| `signals` | 2 threads, 2 signals, 2 events, 1 overflow, fair | 72,060 | an arrived signal is always in a place a later poll finds; signals, fired actions and asynchronous exceptions are acted upon, also when a delivery runs out of stack, inside the handler of the other signal too, and is retried |
| `shadowstacks` | 2 idents, 6 buffers, depths 1 to 3 | 225,031 | own stack, roots kept, no stack shared, freed early or leaked, every stack large enough, the asserts of the switch |
| `rlock` | 2 threads, 2 levels, 2 signals, 1 fork, fair | 106,911 | asserts hold, semaphore accounted for, refinement of `ReentrantLock`; a timed acquire returns although handlers run past its deadline and the owner never releases |
| `threads` | 3 idents, 3 starts, 2 forks, fair | 86,072 | start-up data, contexts, signal permission; `bootstrapper.lock` does not stay locked |
| `import_lock` | 3 threads, 4 levels, 3 forks | 18,063 | asserts, levels, low-level lock |
| `gc_barrier` | 1 nursery object, 2 heap blocks, 1 prebuilt object, small objects and arrays, 1 root, 1 copy | 3,864,878 | nothing reachable is freed; what was unreachable when a major collection began is free at its end |
| `gc_cards` | 1 nursery object, 3 heap blocks, arrays with cards only, 2 roots, 1 copy | 1,638,206 | the checks of `debug_check_consistency`: no black object points to a white one; flags and cards are clean after a minor collection |
| `gc_pinning` | 1 nursery object, 2 heap blocks, small objects (raw-malloced or not) and leaves, 2 roots, 1 shadow, fair | 527,516 | nothing reachable is freed with pinned objects; lists and flags agree; shadows are kept; every collection and every sweep ends |
| `arena` | 2 arenas of up to 2 pages of 3 words, sizes 1 and 2 | 4,162,782 | no memory is given out twice; pages and arenas are accounted for; free blocks stay in order |

Why the bounds are enough for the interesting cases: two threads give `Gil` a
holder and a stealer or an early poller, and what needs three (a stealer and an
early poller at the same time) is covered by the proofs, which do not depend on
the number; poll bounds 1 and 3 exercise the start, the growth and the wrap of `rpy_early_poll_n`;
two idents in `ShadowStacks` that end and are used again give a thread that died,
its ident's new user and a stack kept in `unused_full_stack`, depths 1 to 3 give
two growths, and six buffers are more than can be live; two forks in `Threads`
give a grandchild, whose main thread may be neither the first nor the second
one, and three starts two threads that start a third and a fourth at the same
time; two events let a signal arrive again in its own handler, or next to an
asynchronous exception, a fired action or a debugger call, and two signals let
one be put back while the other is being handled; one microsecond of
timeout with two interruptions reaches the negative time left that means "for
ever".  Where an instance is smaller than one might wish (two idents, two
threads in `RLock`), the proofs of section 4 do not depend on the number.

In `IncMinimark` an incremental collector goes wrong with three objects: one the
marking has passed, one it has not reached, and one from which the pointer to
the second is taken away.  `gc_barrier` has them as a prebuilt object, the stack
and two blocks, of which a nursery object may become one; `gc_cards` as three
arrays; in `gc_pinning` the third is pinned in the nursery.  One nursery
object is enough because a minor collection empties the nursery and the next
object takes its place.  `MaxRoots`, `MaxCopies` and `MaxShadows` bound the
stack, the calls of `ll_arraycopy` and the objects with an `id()`; `CanAllocate`
keeps room in the heap for what is in the nursery, since running out of memory
aborts the program.  `FirstMarking` restricts `gc_copy` to the first marking.
`NonSmall` is `{"small"}` in `gc_pinning`, where young raw-malloced objects meet
pinned ones, and empty elsewhere; `JitFrames` is `TRUE` in all but `gc_copy`,
which needs no root to be skipped; starts that differ need two indices and are
in `gc_copy`.  In
`ArenaCollection` two arenas are enough for one that is current, one in the
lists and either given back and allocated again; an arena of two pages loses one
to alignment or not; three words hold three blocks of the first size and one of
the second, so a page is full with a rest or without.  The run ends where both
arenas are full, which the code answers with a fatal error: deadlock is not
checked there, and there only.

`MaxEvents`, `MaxNest`, `MaxOverflows`, `MaxForks`, `MaxSignals`, `MaxLevels`,
`MaxCount`, `MaxTime` and `MaxDepth` bound what the code leaves unbounded; each
is a constant with a comment where it is declared.

Two reductions are used.  Idents, threads, heap blocks and arenas are permuted
(`Symmetry`) in runs without liveness.  Buffers and jobs, which differ by name only, are
taken in order (`SmallestFree`, `SmallestJob`); taking one is never an action
with fairness, so that this does not hide a behaviour from a liveness property.

Runs that find a disagreement between the code and what a comment, a docstring
or an assert says (each is a finding, with the quotation, in `PROJECT.json`):

| run | what TLC shows |
|---|---|
| `threads_sentinel` | a thread that called `_set_sentinel()` and ends before it acquired the lock (an asynchronous exception, a `StackOverflow`) leaves it taken for ever: `leave_thread` asks `is_acquired()`, which takes a free lock and keeps it (`os_local.py:100`), so a join waits for ever; `_set_sentinel` promises a lock "that will be released when the current thread state is finalized" (`os_lock.py:172`), and `is_acquired` only to "check if the lock is acquired" (`rthread.py:184`) |
| `gc_copy` | `ll_arraycopy`, during marking, from an array with `GCFLAG_CARDS_SET` but no card set in the copied range into a black array: `manually_copy_card_bits` copies no bit and so does not put the destination on the list, and a black object points to a white one |

In `gc_copy` an index stands for the items that share one byte of card bits; the
source has a card set in the second range and the first is copied.  With a
single range and a single copy (`gc_cards`) a source with `GCFLAG_CARDS_SET` has
a card set for whatever it holds, and the property holds.

Two more disagreements can be reproduced by changing a constant of a run:

* `ForkInHandlers = TRUE` in `MCRLock.cfg` violates `AssertsHold`: a handler
  that interrupts an acquire and forks leaves the child's acquire with the old
  semaphore, and `assert self.rlock_count == 0` (`os_lock.py:237`) fails;
* `ThreadsInHooks = TRUE` in `MCThreads.cfg` violates `StartupDataKept` and
  `ContextsRegistered`: a thread started by an `after_in_child` callback meets
  the second `reinit_threads`, which resets the lock and the callable it is
  about to use (`thread/moduledef.py:45`, against the comment at
  `os_thread.py:60`).

Other disagreements between code and text were met while translating and have
no run of their own: early polling starts below `RPY_GIL_POKE_MIN`
(`thread_gil.c:155`); a fired action waits for more than the next opcode when a
periodic action raises first (`executioncontext.py:542`); `thread_run` allocates
on the first switch away from a thread (`shadowstack.py:158`); a blocking
`RLock.acquire` is interruptible (`os_lock.py:214`); a thread can be created
after shutdown began, when the flag was read before the wait
(`os_thread.py:189`); `_mark_thread_disappeared` marks nothing, since the registry
it goes through has been emptied before (`executioncontext.py:60`,
`interp_posix.py:1593`); `_count()`, documented as "the number of currently
running Python threads, excluding the main thread" (`os_thread.py:263`), is one
too low in the child of a started thread that forked: the reset counts it out
as the new main thread, and its end subtracts it once more; the comment at
`importing.py:195` explains a release by a thread that is not the owner with
"a fork() occurred with the import lock held, and we're the child", but
`reinit_lock` gives the child a lock of its own, so that this is not how it can
come about.

### Fairness

* `Gil`: a thread inside a call goes on (weak).  A thread that waits for a
  pthread mutex that is free again and again gets it some time (strong): the
  mutex that makes one thread the stealer (`LockStealer`), and the mutex inside
  `mutex_gil`, at each of the four places that lock it.  A thread that keeps
  running Python code yields again and again (strong): `GILReleaseAction`, an
  action of the ticker, calls `yield_thread`.  Nothing is assumed of a stealer's
  finding `rpy_fastgil` or `mutex_gil` free when it looks.
* `Signals`: a thread with the lock interprets and the C handler, once started,
  completes (weak); a call that gave the lock away gets it back (strong, by
  `AcquireReturns`); opcodes and called Python code end (strong), which is an
  assumption about the program: a handler that never returns delays others for
  ever.
* `RLock`, `Threads`: Python code gives up the interpreter lock again and again
  (strong, `GILReleaseAction`), a call that wants it back gets it (strong,
  `AcquireReturns`), the semaphore call ends when its deadline has passed and
  the system call that creates a thread returns (weak).  Nothing is assumed of
  the owner of a lock: it may keep it for ever.
* `IncMinimark`: the program fills the nursery again and again and a minor
  collection, once begun, is not interrupted (weak); of the collections,
  infinitely many run a step of the major collection in progress (strong), as
  every collection does that a full nursery starts
  (`minor_collection_with_major_progress`); only `collect(-1)` and a disabled
  collector do not.  With it a sweep ends (`SweepingEnds`).  A marking need not:
  TLC finds a program that changes marked objects between all steps so that each
  step re-marks them; the comment at `incminimark.py:2466` ("to ensure
  termination ... in theory") relies on the size of a step, which the model does
  not have.

## 4. What is proved

The theorems hold for every set of threads and every value of the bounds, from
the assumptions named in each module (distinctness of the null values, types of
the bounds; a finite set of threads in `Gil`, whose waiters are counted).  In
each module an inductive invariant `IInv` is proved of every action, one lemma
or step per action; the properties follow from it.

* `GilProofs`: exclusion is not inductive by itself.  `IInv` adds who owns the
  two pthread mutexes (`MutexesOwned`), that a holder finds `mutex_gil` locked
  unless it is yielding (`HolderKeepsMutexLocked`), that nothing happens before
  the lock is allocated (`IdleBeforeAllocate`), that the count read by a
  thread in the slow path is the one it stored (`StoredCountIsFresh`), that a
  yielding thread has seen waiters (`YieldersSeeWaiters`) and that the waiter
  count is the number of threads in the slow path (`WaitingIsExact`, over
  cardinalities).  `GilImplementsLock` proves step by step that every action is
  a step of `InterpreterLock` or invisible to it.
* `ShadowStacksProofs`: `IInv` adds that a thread past `thread_run` holds the
  lock (`LockHeldInside`), that a thread without the installed stack has a saved
  one that says how many roots it has (`FilledWhileAway`), that the main thread
  has a stack to go back to (`MainHasStack`), that a switch is prepared when it
  happens (`SwitchIsReady`) and which stacks a growth has already moved
  (`ResizeIsPartial`).
* `RLockProofs`: `IInv` adds that the count belongs to the owner
  (`CountOfOwner`), which exists (`OwnerRuns`), that a releasing thread has the
  interpreter lock (`ReleaserHasGil`), that calls refer to the current semaphore
  (`CallsAreCurrent`), that later ones are free (`LaterSemaphoresFree`) and that
  a thread restoring has something to restore (`RestoresSomething`).  The
  theorems assume that no handler that interrupted an acquire forks
  (`~ForkInHandlers`); they fail without it (section 3).
* `ThreadsProofs`: `IInv` adds that the holder of the lock is alive
  (`HolderRuns`), that the hooks run in a child with a single thread
  (`HooksAlone`), that at most one thread is between storing the callable and
  its reading (`OneStarts`), that jobs differ (`JobsDistinct`) and that the
  callable is there while it is needed (`CallableStored`).  Assumed: callbacks
  of fork start no threads (`~ThreadsInHooks`, see section 3).
* `ImportLockProofs`: `IInv` is the conjunction of the checked properties and
  that the owner is alive (`OwnerRuns`).
* `SignalsProofs`: `IInv` adds to `NoSignalLost` the shape of the stacks (every
  frame but the innermost waits for a call, and a frame that reports a signal
  knows which: `FramesOK`), the types of the rest (`SignalsOK`), and that a
  dispatcher with a signal in its hands keeps the interpreter lock and finds
  `pending_signal` empty (`ReporterAlone`): whatever it puts back there, it
  overwrites nothing.  The work is in the stacks: a step replaces the innermost
  frame, pushes one or pops one, and a lemma for each says which signals are
  still in the hands of a dispatcher.  `SignalsKept` holds for any signals and
  any number of overflows.
* `ArenaProofs`: for any arenas, page size and size classes.  `IInv` is what
  holds of the store between walks and, but for the page walked, during them
  (`StoreInv`), and what holds of the walk (`WalkOK`).  `StoreInv` says of
  each page which blocks are free and which were never used (`PageShape`), that
  blocks given out are neither (`LiveAreUsed`), that the pages of an arena are
  untouched, free or in use (`ArenaPages`), in which one list a page is, during
  a mass free too (`PagesPlaced`, `OldEmpty`), and in which one list an arena
  is, under a number that may be behind its free pages while a mass free runs
  (`ArenasPlaced`).  `WordsCounted` makes `total_memory_used` the cardinality of
  the words in use; that blocks of one page share no word is arithmetic
  (a block ends where the next begins).  `WalkOK` says that the chain under
  construction is in order and consists of the blocks that were free and those
  the walk has freed, and that the part already followed is what lies before the
  block looked at.  `ChainsInOrder` follows from it: a dead block is linked
  behind the last free block before it and in front of the first after it.  The
  order is what the loop itself needs, as it recognises a free block by meeting
  it in the chain.
* `IncMinimarkProofs`: for any nursery, heap, prebuilt objects, pointers per
  object, roots and shadows, with pinning and `id()`, whichever kinds are
  raw-malloced and with or without JIT frames.  That nothing reachable is
  freed cannot be shown along paths, which would take an induction over data.
  The proof goes the other way: the set of live addresses (`Live`: allocated,
  not about to be swept, not the shadow of an object that still is in the
  nursery, not a shadow whose owner died) contains the roots (`RootsOK`) and is
  closed under pointers (`ClosedOK`), so what is reachable, the smallest such
  set, is live at every step.  Closure is kept because the collector forgets no
  pointer.  For the minor collection: a pointer from an old to a young object is
  in a remembered object, a marked card, a place that is still to be visited or
  a known parent of a pinned object (`YoungPointersKnown`, `YoungRootsKnown`,
  `WorkOK`, `RootsFirst`, `RememberedOK`, `CardsOK`, `PinnedOK`, `YoungOK`); the
  roots that may be skipped are old and known to the marking (`StoppedOK`), and
  a young raw-malloced object has all its places to be visited once it is seen.
  For the marking: a black object points to nothing white, unless a minor
  collection is going to make it gray (`BlackPointersKnown`, `RootsMarked`,
  `GrayOK`).  For the sweep: the unmarked objects it has not reached are not
  live (`SweepOK`).  For `NoGarbageSurvives`: what was garbage when the marking
  began stays unmarked, and no live object points to it (`DoomedOK`).  Headers,
  shadows and prebuilt objects have a part each (`ObjectsOK`, `NurseryOK`,
  `ShadowsOK`, `PrebuiltOK`).  The theorems assume `NoCardCopies`: the program
  calls no `ll_arraycopy`, or has no arrays with card marking.  They fail
  without it: `gc_copy` ends in a black object that points to a white one.
  Copies together with arrays with cards are in `gc_barrier` and `gc_cards`, for
  which the instances of TLC are the evidence.

The type invariants (`TypeOK`) are theorems or, in `SignalsProofs` (`FramesOK`,
`SignalsOK`) and `IncMinimarkProofs`, parts of the invariant that is one; since
they are proved for all values of the constants, no run repeats them.  The same
is true of `HolderIsFastgil` of `Gil`.  The inductive invariants of the last
three were checked by TLC, on the instances of section 3 or smaller ones, before
they were proved.

Every invariant and every safety property of a step that a passing run checks
is a theorem.  Only model-checked: liveness under fairness (`AcquireReturns`,
`SignalsDelivered`, `FiredActionsPerformed`, `AsyncExceptionsRaised`,
`TimedAcquireReturns`, `BootstrapLockReleased`, `CollectionEnds`,
`SweepingEnds`), which is out of reach of the provers; and the properties
outside the hypotheses named above (array copies in a program with arrays that
have cards), as far as the instances go.

## 5. What is left out, and why

* `Gil`: the Windows primitives; the emulation used when the interpreter runs
  untranslated; the machine code that the tracing compiler's backends generate
  for the same fast path.
* `ShadowStacks`: running out of memory, which is fatal in the code.  The number
  of roots a thread pushes is limited by the check of the machine stack, which
  is not part of this code: `PushRoot` takes `root_stack_depth` as the limit.
  Buffers are interchangeable, and TLC takes the smallest free one
  (`SmallestFree`); the proofs do not.  Forks are not bounded, as idents are
  used again.  `can_look_at_partial_stack`, which `restore_state_from` clears
  (`shadowstack.py:332`, like `gc_modified_shadowstack` at line 251) and the next
  minor collection sets again (line 125), only decides whether that collection
  may stop at a marked JIT frame; every walk of `ShadowStacks` is a complete
  one.  The partial walk is in `IncMinimark`, where a complete one is always
  allowed too, which is what the flag forces after a switch of stacks; the switch
  itself is not in `IncMinimark`.
* `Signals`: tracing and profiling, the wake-up descriptor, timers and masks.
  The set of threads that may run handlers and the check interval do not change.
  Stack overflow is injected where a signal is delivered, as that is where the
  code handles it.
* `RLock`: the variant of the lock on a mutex and a condition, used where there
  are no semaphores; handlers give back what they took of the lock; a condition
  is not waited for inside a handler that interrupted an acquire; the clock does
  not go back; -1 stands for every negative time left, which the code does not
  tell apart.
* `Threads`: running out of memory in `enter_thread`; threads created outside
  Python and their list of weak references,
  the dictionaries of `threading.local` objects, `signals_enter` and
  `signals_exit`; what a program does after a release met a lock that was reset
  (the bootstrapper's, with `ThreadsInHooks`: the model stops there).
* `ImportLock`: threads started by fork callbacks; finding, reading and
  executing modules, which is sequential.
* `IncMinimark`: finalizers and their order, destructors, weak references, the
  links of `rawrefcount`, the JIT's own copies of the write barrier,
  `ll_arraymove`, `move_out_of_nursery`, and all sizes: when a collection starts
  and how much a step does is a free choice.  The order of the lists is left
  out; the code does not depend on it for the properties stated.
* `ArenaCollection`: the counters kept for statistics and the functions for
  tests; running out of memory is fatal in the code.
* Parts that are not modelled at all, with the reason for each, are the
  components with status `not_modelled` in `PROJECT.json`: what remains is
  either sequential code over the Python object model and compilers, where a
  model of this kind would repeat the code, or listed in the plan.

## 6. Plan

1. Proofs: of `IncMinimark`, array copies where an index has a card for
   whatever the source holds, the case in which `gc_cards` finds no violation;
   of `Signals`, that a fired action stays fired until it is performed.
2. Finalizers (`deal_with_objects_with_finalizers` and its four states of an
   object) and weak references, on top of `IncMinimark`; the links of
   `rawrefcount`.
3. Plain locks and the mutex-and-condition variant of `thread_pthread.c`, shown
   to implement one abstract lock with timeouts; `RLock` on top of either.
4. Threads created outside Python, `threading.local` objects and
   `signals_enter`/`signals_exit`, added to `Threads`.
5. Generators and coroutines; continulets.
6. Tracing counters, life time of loops, invalidation of loops by quasi-immutable
   fields.
7. Ordered dictionaries as a pure algorithm against a list of pairs; buffered
   files against the file they buffer.
