# The thread and exception runtime of GCC for OS/2, in TLA+

This directory keeps a verification development beside the sources of GCC for
OS/2: TLA+ modules that model the run-time code, the TLC configurations that
check them on small instances, and theorems whose proofs TLAPS checks for every
instance.  `PROJECT.json` is its index: components, runs, mutants, the map from
definitions to source lines, findings, hazards and theorems.

## 1. Inventory

The repository is the GNU Compiler Collection 9.2 with the patches that make it
run on OS/2 (kLIBC, i386).  The compiler itself is a sequential transformer of
very large data structures and is out of a model checker's reach.  What is
particular to this repository, runs concurrently, and is linked into every
program it compiles is the run-time library: the OS/2 thread layer in libgcc, and
the parts of libgcc and libstdc++ that sit directly on it.

| part | source | state it keeps | operations |
|---|---|---|---|
| once | `libgcc/gthr-os2.h` | two bytes, `started` and `done` | `__gthread_once` |
| mutexes | `libgcc/gthr-os2.c`, `.h` | kind, kernel handle, a static lock | init, destroy, lock, trylock, timedlock, unlock |
| condition variables | `libgcc/gthr-os2.c`, `.h` | events `ev` and `ack`, words `signaled` and `waiters`, a static lock | init, destroy, wait, timedwait, signal, broadcast |
| threads | `libgcc/gthr-os2.c`, `.h` | a global singly linked list of nodes, two events per node | create, `thread_entry`, join, detach (self, equal, yield keep no state) |
| timeouts | `libgcc/gthr-os2.c` | none | `__gthread_os2_abs2rem` and its three callers |
| TLS keys | `libgcc/gthr-os2.h` | kLIBC's | create, delete, get, set |
| guards of local statics | `libstdc++-v3/libsupc++/guard.cc` | two bytes per static; one mutex and one condition variable per process | `__cxa_guard_acquire`, `_release`, `_abort` |
| emulated TLS | `libgcc/emutls.c` | an offset per object, an array per thread | `__emutls_get_address`, destruction at thread exit |
| frame registry | `libgcc/unwind-dw2-fde.c` | lists of unseen and seen objects | register, deregister, find (classify, sort, search) |
| OS/2 start-up | `libgcc/config/i386/emx-eh.c`, `emx-ctordtor.c` | whether a module is set up | register and construct on load, destruct and deregister on unload |
| thread exit handlers | `libstdc++-v3/libsupc++/atexit_thread.cc` | a list of cleanups per thread | `__cxa_thread_atexit`, run at thread end and in exit |
| C++11 threads | `libstdc++-v3/src/c++11/*.cc`, `include/std/mutex` | thread-local call_once pointers, at-exit lists | `call_once`, `thread`, `notify_all_at_thread_exit` |

How they interact.  Everything is a call chain down to OS/2 kernel objects: a
static's guard locks the process-wide recursive mutex and waits on the
process-wide condition variable, both created through `__gthread_once`; a
condition variable unlocks and relocks its client's mutex; a mutex or condition
variable that was initialised statically creates its kernel objects on first use
under a kLIBC `_fmutex`; `std::thread` calls create, join and detach, which share
one unlocked list.  Every thread-local variable of a program goes through emulated
TLS, and its destructor through the exit handlers; both hang on TLS keys.  Every
exception asks the frame registry, with which each module registers when it is
loaded.  The kernel (mutex and event semaphores, `_beginthread`,
`gettimeofday`, the module loader), `_fmutex`, kLIBC's TLS, `malloc` and `free` are external and are modelled from
how this code uses them.

What is hard.  All of this state is shared between threads, much of it is read
without a lock and tested again later, two-phase protocols (signal and
acknowledgement, quit and done) meet timeouts, results of kernel calls are
ignored, and times are kept in 32 bits.  `PROJECT.json` lists each hazard at its
line, with the properties that would catch it.

What makes each part correct:

* once: the function runs at most once and nobody returns before it has; every
  call returns.
* mutex: mutual exclusion; a return code that tells the truth; one semaphore per
  mutex; nothing but a self lock fails the assertion.  In short, an abstract lock.
* condition variable: no wakeup is lost, a signal wakes somebody, a broadcast
  wakes everybody, signalers return, the object can be destroyed after a broadcast.
* threads: the list never leads to freed memory, a node is freed once and in the
  end, join finds its thread and has its result.
* timeouts: a timed call ends at its deadline, to a millisecond, and not before.
* guards: one initialiser at a time, none repeated after success, nobody past an
  unbuilt static, nobody asleep for ever, other statics not held up.
* frame registry: a search is answered with the FDE that the registered modules
  have for the address, nothing freed or unmapped is followed, a module's frames
  are known as long as its code runs, searches end.
* emulated TLS: an object has one slot for good and one address per thread, and the
  memory is freed with the thread.
* thread exit: every destructor runs once, the latest first, on storage that exists.

## 2. Plan

Written, in this order: `GthrOnce`, `AbstractMutex`, `GthrMutex`, `GthrCond`,
`GthrThread`, `GthrTime`, `CxaGuard`, `FdeSort`, `AbstractRegistry`, `FdeRegistry`, `Emutls`
and `ThreadExit`; then, for each component, the proofs of the safety properties
its runs check, and of the two refinements.

Next, in this order:

1. Theorems: refinements of an abstract condition variable by `GthrCond` for
   clients that hold the mutex, and of an abstract "initialise once" by `CxaGuard`;
   that the sort of `FdeSort` keeps multiplicities.
2. `CallOnce`: `std::call_once` through thread-local pointers over `GthrOnce`, thread
   start, and the at-exit notifier over `GthrCond`.

## 3. The modules

One action is one access to shared state: one kernel call, one atomic operation,
one read or write of a shared word.  Between two of them any other thread may
run.  Locals are carried in `pc` or in variables of their own.  Calls that the
code refuses at once, before touching anything (a null argument, a mutex of the
other kind), are a separate action in `GthrOnce` and a guard in `GthrMutex`.

**GthrOnce.** `started` and `done` are the two bytes.  `ExchangeStarted` is the
`__cxchg`; its winner goes through `FuncReturns` or `FuncThrows` and `SetDone`, the
others wait at `Poll`.  The sleeps of the polling loop change nothing and are not
steps; only the read that ends the loop is.

**AbstractMutex** is the promise: an owner and a depth, Acquire and Release.
**GthrMutex** is the code.  `mtx` and `recursive` and `static_lock` are the object's
fields, `owner`, `count`, `created` and `closed` belong to the kernel's semaphores,
`held` is what the client was told.  `TestHandle`, `FmutexRequest`, `Recheck`,
`CreateSem` and `FmutexRelease` are the static initialisation; `Request`, `Granted`
and `TimedOut` are `DosRequestMutexSem`; `Query` is the look at the count with its
three outcomes (return, `BackOut`, the assertion).  `ImplementsMutex` is
AbstractMutex's specification under the mapping "owner is who holds the mutex by
its return codes".

**GthrCond.** The two events, the two words, the clients' mutex, and one location
per step of wait, signal, broadcast and static initialisation.  An OS/2 event
stays posted until it is reset; a post releases every thread that is blocked at
that moment, even if the reset comes before they run: `Post` moves them.  The
variable `use`, fixed in the initial state from the constant `Uses`, is the kind of
clients: "locked" initialise statically and signal with the mutex held; "any" and
"timed" initialise through `__gthread_os2_cond_init` and wait with timeouts, of which
"timed" signals with the mutex held and "any" without; "static" initialises statically,
signals without the mutex, and one thread waits.  `MaxWaits` bounds how often a thread waits (0: no
bound; "locked" is never bounded).  Three history variables record whose token is
in the object and whom a signal found asleep, for signals made with the mutex
held, and whom a broadcast has to wake.

**GthrThread.** Nodes 2, 3, ... are heap nodes, node 1 is the static node of the
main thread.  `heap` tells live from freed memory; freed nodes are not reused, so
that a stale pointer can be recognised.  The kernel's thread ids are reused: `id`
is what a created thread was given, `target` (history) is the thread that a caller
means by the id it passes.  Callers run create, join and detach; every created
thread runs `thread_entry` and, when detached, `__gthread_os2_thread_del`.  The list
walks of find and del are one step per node.  `use`, from the constant `Uses`, is
the kind of callers: "serialized" ones do not overlap their calls and join,
"single" ones share one thread and may detach it, "overlapping" ones overlap.

**GthrTime.** Time in ticks, `TicksPerMs` to the millisecond, and a word of `Word`
values for the 32-bit ULONG, so that both truncations happen in a small model.
`TimedCall` computes the timeout; `Expire` is the kernel's timeout.  A timed lock
waits once.  `cond_timedwait` is the loop of `__gthread_os2_cond_wait_common`: after a
wakeup whose token another thread has taken, `WaitAgain` starts a wait with the same
relative timeout, so `began` (the call) and `since` (the last wait) are two variables.

**CxaGuard.** Per static the two guard bytes; per thread a stack of the statics it
is in the middle of (`depth`, `frame`), since an initialiser may reach other
statics (`Needs`).  The mutex and the condition variable are abstract here, as
GthrMutex and GthrCond establish them for these clients: all waits and broadcasts
are made with the mutex held, so that wait is one step and broadcast wakes every
sleeper.  **MCCxaGuard** fixes `Needs` for TLC.

**FdeSort** has the functions that work on one object's FDEs: the split into a
linear and an erratic part (`Chain` is the chain that `fde_split` overlays onto the
erratic array), `frame_downheap`, `frame_heapsort`, `fde_merge`, `end_fde_sort`, the
binary and the linear search, and what classification finds.  An FDE is its range;
the three ways to decode it are one.  **AbstractRegistry** is the promise of the
registry: a set of modules, and questions that are answered with an FDE of a
registered module.  **FdeRegistry** is the code: the two lists, the
mutex, `ob` for the object of each module, and one location per step of
registration, deregistration and search.  `Memory` is what malloc gives the sort.
The clients are the start-up code: `Load`, `Constructed`, `Unload` and `Destructed`
are `__ctordtorInit` and `__ctordtorTerm` with `__ehInit` and `__ehTerm` in them.  The
program keeps its part of the contract: a search is for an address in a module that
is set up, and a module is unloaded only when nobody is searching for an address
in it.  (The comments at `unwind-dw2-fde.c:109` and `:1035` state the first half.  They
stand beside the flag `any_objects_registered` of `ATOMIC_FDE_FAST_PATH`, which is not
compiled on OS/2: `t-emx:71` compiles the file itself, where `_Unwind_Find_FDE` is no
macro.)  `ImplementsRegistry` is AbstractRegistry under the mapping "registered is
what is on the lists, or between them".  **MCFdeRegistry** gives the tables, and
checks the sort against its definition (`SortSorts`).

**Emutls** has the steps of `__emutls_get_address`: the unlocked load (`Get`), the key
(`Once`), `Lock`, the second test (`Number`), `Unlock`, and the thread's own part
(`Slot`), in which the array is allocated or grown (`Grown`) and the block
allocated.  `given` is history: the address last returned.  **ThreadExit**
composes it with `__cxa_thread_atexit` (`Register`), with run (`CallDestructor`,
`NextElement`), with exit (`Exit`, `DeleteKey`) and with the TLS keys at the end of a
thread: `Round` and `Visit` call the destructors of keys that have a value, having
cleared it, as the code relies on (`PassList` is kLIBC's, `TakeList` the code's own
clearing in exit); which key comes `first` is open, since nothing
specifies it.  A destructor may use variables and register cleanups itself.
**MCThreadExit** says which variables each thread's code names.

`GthrOnceProofs`, `GthrMutexProofs`, `GthrCondProofs`, `GthrThreadProofs`,
`GthrTimeProofs`, `CxaGuardProofs`, `FdeRegistryProofs` and `ThreadExitProofs` hold the
theorems.

## 4. The runs

Passing runs:

| run | instance | what it shows |
|---|---|---|
| once | 4 threads, func may throw | func entered at most once; no success before it returned; unless it throws, every call returns |
| mutex | 3 threads, depth 2, 2 semaphores, creation may fail | mutual exclusion, truthful return codes, the refinement of AbstractMutex, and nobody stuck at the static lock |
| cond | 2 waiters, 2 signalers; "locked" with any number of waits, "any" and "static" | with the mutex held: a signal wakes one, none is lost, the object can be destroyed right after a broadcast, signals and broadcasts return; for every client: waiters counted, a token can be found, each event is created once, and a broadcast passes nobody by (unless the initialisation is raced) |
| thread | 2 callers, 3 threads on 2 ids, "serialized" and "single" | list and nodes sound, the result is that of the thread meant, no leak, joins return, detached threads are freed |
| time | one epoch of a small word | a timed lock meets its deadline to within a millisecond; a timed wait for a condition is late by no more than what had gone by when it last lost a token |
| guard | 3 threads, 2 statics, one needs the other, 1 throw | the four safety properties; initialisers that never end hold up no other static; when they end, every acquire returns |
| fde | 2 threads, 2 modules, 6 layouts, 4 addresses | no freed object is reached, deregistration aborts for FDEs that cannot be handled and for nothing else, nothing of an unloaded module is left, frames are registered while constructors and destructors run, AbstractRegistry is implemented, every search ends |
| thread_local | 2 threads, 3 variables, 2 with destructors, 3 rounds, either order of keys | one offset per object, stable addresses within bounds, no leak, destructors once and in order, on storage that exists if the list's key comes first |

Runs that TLC refutes, each a disagreement between the code and what the
repository says of it; the finding of the same run in `PROJECT.json` quotes the line:

| run | what happens |
|---|---|
| once_throw | func throws: `started` stays 1, `done` stays 0, everybody else polls for ever; `std::call_once` is built on this |
| mutex_timed_self | the owner of a non-recursive mutex locks it with a timeout: the kernel grants the request, the back-out is for trylock only, and the assertion ends the process, where the test of `try_lock_for` expects false |
| time_early | both times are cut down to milliseconds before they are subtracted: a wait for a condition times out before its deadline, where the test of `wait_until` expects it not to |
| thread_two_creators | two creates at once lose a node; join of that thread fails |

Every property of a passing run has a mutant in `PROJECT.json`: a plausible slip in
the code, as an operator beside the original, under which TLC finds the property
violated.  `CHECK_DEADLOCK FALSE` stands where a program may really stop: a process
whose assertion failed, a waiter that nobody signals, a polling thread after a
throw, all threads created and joined, the clock at its bound.

Bounds, and why they are enough.  Races here are between two threads in one
function and a third that relies on the result, so two to four threads show them.
Two waiters and two signalers are the least with a signal under way that meets
another one and leaves a waiter asleep.  `MaxDepth` 2 is the first depth at which the kernel's recursive semaphore
differs from the mutex; `MaxHandles` 2 is one more than correct code creates.
`MaxThreads` 3 gives a list with a first, a middle and a last node before the main
thread's.  `Word` 8 and `TicksPerMs` 3 give all orders of now, deadline, millisecond
boundary and wrap.  `MaxNest` 2 and `MaxThrows` 1 allow an initialiser within an
initialiser, and a second try after an abort.  `MaxIds` 2 for three threads makes
an id come back.  The layouts of `SomeLayouts` are three functions with a gap,
in order, rotated and reversed, beside a module above; and one order with a
function the linker removed, beside a module below, an empty one and one that
cannot be handled.  They satisfy `LayoutAssumption`, which TLC evaluates.  `Pcs` has an
address below, within, in the gap and above; `MaxCount` 2 makes three FDEs overflow
the bit-field.  A module has one object at a time: one whose object was left
behind is not loaded again.  `Slack` 0 in place of 32 makes arrays grow with three
objects, by doubling and beyond; of the three, the main thread names two, so that
the other meets an offset that it did not give out.  `MaxBlocks` is as many as there
are objects.  `MaxRounds` 3 is the least with which a cleanup that was
registered by a destructor runs, in the second round, and its thread ends before the
limit, where nothing is exempt from `CleanupsRun`.

Fairness.  A thread inside the library keeps running until the kernel blocks it:
weak fairness of each thread's own steps, which OS/2's pre-emptive scheduler gives.
Nobody is obliged to call anything, and waits need not time out.  In `GthrThread`
the thread functions return.  In `CxaGuard` taking the mutex is strongly fair, since
the kernel queues those who wait for a mutex semaphore; that initialisers end is
not assumed but a hypothesis of the one property that needs it,
`EveryAcquireReturns`.  In `FdeRegistry` a search is strongly fair for the same
reason, and who holds the mutex goes on; nobody has to load or unload.

## 5. The proofs

TLAPS proves these for every set of threads and every value of the other
constants that the modules' assumptions allow.  Every invariant that a passing run
checks is also the statement of a theorem, and so are the two refinements.  What
the theorems assume beyond the constants' types:

* `CondAssumption`: the threads are finitely many and fewer than a word counts to.
* `CallersAssumption`: a caller of the thread functions is not a node of the list
  (the thread identities of the model are disjoint).
* `LayoutAssumption`: what a linker makes.  FDEs of one module are equal or do not
  overlap, no range is empty, and the spans of two modules have no address in common.
* Some theorems name the clients they are about: `"overlapping" \notin Uses` for
  `GthrThread`, `"timed" \notin Uses` for three theorems of `GthrCond`, `InOnePeriod`
  for `GthrTime`.  Outside these the statements are false: see the refuted runs and
  section 6.

The theorems, and the inductive invariants they rest on:

* `OnceSafe`, `OnceReturnsAfterFunc`: func is entered at most once and success is
  returned only after it has returned.  The invariant ties the two bytes to the
  history: `started` equals the number of entries, only one thread is inside, `done`
  means it has returned.
* `MutexSafe`, `MutexTruthful`, `MutexAbortsSelfLock`, `MutexRefines`: mutual exclusion,
  one semaphore, truthful return codes, the assertion only for a self lock, timed or
  not (`AbortOnlySelfLock`, which is proved and in no run); and
  `MutexSpec` implements AbstractMutex.  The inductive invariant has two parts.
  CreationInv: the static lock is held by whoever is between the second test of
  the handle and its release, so that at most one semaphore ever exists.
  AccountInv: the kernel's count is what the client was told plus a request that
  is granted but not reported yet; from this the look at the count
  (`ulCount > 1`) means exactly "the caller held it already".
* `CondTypes`, `TokensAreReachable` and `CondCreatesOnce` hold for all clients.  StaticInv:
  who is past the second test of the handle holds the static lock, and while `ev`
  is null nobody is past the first test and no token is there.  `CondSafe` and
  `BroadcastsWakeAll` hold unless a waiter can race with the initialisation
  (`InitNotRaced`).  SharedInv: the object is ready, or everybody in the functions
  is still before the first test or in the initialisation, which the mutex keeps
  to one thread.  CountInv: the count is right, and a broadcast has only counted
  threads left to wake.  `SignalsWakeOne`, `NoWakeupIsLost` and `DestroyIsSafe` hold
  for clients that signal with the mutex held and wait without timeouts.
  HandshakeInv: while a signaler is between placing the token and seeing the
  acknowledgement there is either its token or one waiter that has taken it or
  the acknowledgement, and at all other times there is no token and nobody on the
  way to acknowledge one; so a new token never meets an old one, and after a broadcast nobody is left who would
  still acknowledge.
* `ThreadTypes`, `NoFreedNodeIsUsed`, `RefusalsAreStale`, `JoinGivesTheResult`,
  `NodesAreFreed`, for callers that do not overlap their calls or share one thread.
  The invariant speaks of the list without reachability: nodes are allocated in
  ascending order and pushed in front, so `next` of a listed node is the greatest
  listed node below it and `start` the greatest of all (`Descends`).  Beside it: what
  each place in the functions knows about its node (WorkerInv, CallerInv, DelInv),
  that a node has one who will free it (OwnerInv), that calls do not overlap but
  for a thread that is gone (AloneInv), and which thread an id stands for (HandleInv, IdInv).
* `DeadlinesKept`: `DeadlineKept` while the call and its deadline lie in one period of
  the millisecond word and are nearer than `SEM_INDEFINITE_WAIT`, however often the
  loop waits again.  The invariant is that the timeout is still what was computed at
  `began`, and that `since` is not before it; the rest is arithmetic with quotients and
  remainders.
* `GuardSafe`, `StaticsBuiltOnce`, `PassingIsSafe`, `SleepersAreWoken`: one initialiser at a
  time, none repeated after success, nobody past an unbuilt static, no sleeper
  without an initialisation under way or a broadcast to come.  The invariant adds:
  who is inside the mutex holds it, a begun initialisation has its flag set and
  its static not built, and what is built has its guard set or a thread on its
  way to set it.
* `SortSortsAnything`: `end_fde_sort` returns the same elements in ascending order, for
  any FDEs with and without the erratic array.  `RegistryTypes`,
  `NoFreedObjectIsRead`, `AbortsOnlyUnhandled`, `UnloadedModulesAreGone`,
  `TablesThereWhileRunning` and `RegistryRefines` rest on RegistryInv: who is between
  lock and unlock holds the mutex (HolderInv); the lists have no object twice and
  none in common, and `seen` descends by `pc_begin` (ListInv); an object on `seen` is
  classified and has its table, the sorted array of it, or the terminator
  (ObjectInv); what is linked is what is loaded and registered (LinkInv); an
  address that is searched for lies in modules that stay (PcInv); and a search has
  passed only objects that do not have its address (SearchInv).  The refinement then needs that a binary
  search in the sorted array finds the FDE that covers the address, and that the
  search among the seen objects may stop at the first whose `pc_begin` is not above it.
* `NumberingSafe`, `AddressesSafe`, `NoStorageLost` and `TypesRight`, for any variables,
  array sizes, programs and orders of key destructors: `OneOffset`, `AddressStable`,
  `NothingLeaks` and the types.  NumberInv: who is between the second test and the
  unlock holds the mutex, and no offset is above `emutls_size`, so a new offset is
  nobody else's.  StorageInv: the blocks of a thread are exactly those in its
  slots, each in one slot, and what was given is in the slot of its object; the key
  lemma is that a grown array keeps its slots, adds empty ones and has the one asked
  for.  LifeInv: the storage is only used from the program's code, which a thread
  that is gone is not in, so nothing is allocated after the last round.
* `DestructorsRun`, `DestructorsFindStorage`: `CleanupsRun` and `CleanupsFindStorage`.
  CleanupInv: the cleanups registered for a thread are split between the list, the
  one run has taken, and those that have run, no object in two of them (Apart); each
  part is in reverse order of registration, and what runs early precedes what was
  registered late (Ordered); and an early cleanup that is still to run has its
  variable where it was (Intact), because the storage is not freed before the lists
  are visited.

Induction over data.  The library's induction theorems cannot be used with these
provers; where a recursive function has to be understood for every input (the heap
sort, split and merge, the binary search, the sequences of cleanups), the proofs
argue with the least counterexample: a non-empty set of naturals has a least
element, and the step from its predecessor contradicts it.

Only model-checked: liveness (TLAPS has no ENABLED and fairness reasoning here), and
that the sort keeps the number of equal FDEs (`SortSorts` in `MCFdeRegistry`).

## 6. Limits of the code that the models show

The properties of section 4 hold under the conditions their instances state.
Outside these the models, run with other constants, show what the code does;
most are hazards in `PROJECT.json`:

* `GthrCond`, use "any" and two signalers: without its condition on the use
  `SignalersReturn` fails (the second signaler resets the acknowledgement which the first is
  about to wait for), and wakeups are lost (both put their token into the same word).
* `GthrCond`, use "timed": a waiter that times out posts `ack` like one that was woken.
  A signaler takes this for the acknowledgement of its own token and returns:
  `SignalWakesOne` fails, and with three waiters `NoLostWakeup` does, since the next signal
  overwrites the token; POSIX lets a wait that times out consume a signal, so no run
  claims these.  And it uncounts itself (line 184) before it posts (line 186), without
  the mutex: a broadcast in between finds nobody and returns, and if the object is then
  destroyed, as `condition_variable/54185.cc` does after waits without a timeout,
  `ack` is posted to an object that is gone: `NoUseAfterDestroy` fails.
* `GthrCond`, use "static": without its condition `BroadcastWakesAll` fails, since
  the handle `ev` is visible before the counters are cleared.  If the creation of
  `ev` fails, which the models leave out, waits on the null handle return at once and
  the next call clears `waiters` under those who have yet to count themselves out.
* `GthrThread` with two threads and detaching callers: `NoDangling` fails, since a
  detached thread frees its node without a lock while the caller walks the list.
* `GthrTime` with `MaxTime` beyond `Word` milliseconds: `DeadlineKept` fails, a deadline
  after the wrap is taken for passed.  Within an epoch there is no bound on how late
  `cond_timedwait` may end: each token that it loses to another thread starts its
  whole timeout again.
* `CxaGuard` with a static in its own `Needs`: its initialiser sleeps on the
  condition variable, waiting for itself; `recursive_init_error` is thrown only
  when threads are not active.
* `FdeRegistry`: an object with an FDE that cannot be handled gets the empty
  terminator in place of its table when it is first searched, and with it loses the
  key by which it is deregistered: unloading its module then fails the assertion
  at `unwind-dw2-fde.c:244`.  `AbortOnlyUnhandled` says that nothing else does.
* `FdeRegistry`: `__register_frame_table`, which `__ehInit` calls, registers an empty
  table too; `__deregister_frame` returns at once for one ("If .eh_frame is empty, we
  haven't registered", line 257).  The object stays on its list when the module is
  gone, hence the exemption in `UnloadedIsGone`.
* `ThreadExit` with the storage's key first: destructors of thread-local variables
  run on freed memory.  With the list's key first, so does the destructor of a
  variable that another destructor was the first to use: it is run in the second
  round, after the storage was freed in the first.  In exit such a cleanup never
  runs, and neither do those of threads that end after the key was deleted.

## 7. What is not modelled

* Parts listed as not_modelled in `PROJECT.json`: `std::call_once` and `std::thread`
  (planned, section 2); the compiler, preprocessor, build system and other
  libraries, which are sequential or not part of the OS/2 runtime; `gthr-posix.h` and
  `gthr-single.h`, not used here.
* In `GthrCond`, failing `DosCreateEventSem`; in `GthrThread`, failing event creation,
  the `return 1` of join when the wait for `hevDone` fails (`gthr-os2.c:348-349`; the event
  exists as long as the node), reuse of freed memory, and joining the main thread.
* In `FdeRegistry`, the encodings of addresses, the unchecked malloc of the object
  itself (`__register_frame`, `__register_frame_table`), overlapping modules, the fast
  path with `any_objects_registered`, which is not compiled on OS/2, and the
  fork callbacks of `emx-ctordtor.c`, whose registration is commented out.
* In `Emutls`, `__emutls_register_common`, sizes, alignment and contents of blocks, and
  the path without threads (`__gthread_active_p` is always 1 on OS/2).  In
  `ThreadExit`, a key of the lists that could not be created, the exception globals of
  `eh_globals.cc`, and the second construction of a variable: once its storage has been
  freed with its guard byte, a later destructor that names it constructs it and registers
  its cleanup anew, where a thread of the model registers each variable once.
* `guard.cc` compiled with futexes, or without threads.
* Weak memory: the shared words are volatile or accessed with locked
  instructions on x86, and are modelled as sequentially consistent.
