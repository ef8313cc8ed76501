------------------------------ MODULE GthrMutex ------------------------------
(***************************************************************************)
(* The mutex of the OS/2 thread layer (libgcc/gthr-os2.c), for one         *)
(* __gthread_mutex_t or __gthread_recursive_mutex_t.                       *)
(*                                                                         *)
(* The object is a kind, a kernel handle and a small static lock.  A       *)
(* statically initialised mutex has no kernel semaphore yet: the first     *)
(* locker creates it, under the static lock, after testing the handle      *)
(* twice.  The kernel semaphore is always recursive, so the code asks for  *)
(* its count after each request to tell a first lock from a second one.    *)
(*                                                                         *)
(* DosCreateMutexSem, DosRequestMutexSem, DosQueryMutexSem,                *)
(* DosReleaseMutexSem, DosCloseMutexSem and _fmutex belong to OS/2 and     *)
(* kLIBC and are modelled from how this code uses them.  A call whose kind *)
(* does not match the mutex returns 1 before it does anything; such a call *)
(* changes nothing and is the guard KindMatches of every operation.        *)
(***************************************************************************)
EXTENDS Naturals, FiniteSets

CONSTANTS
  Threads,
  NoThread,
  MaxDepth,       \* bound: how deep a thread nests locks
  MaxHandles,     \* bound: how many kernel semaphores may be created
  CreateMayFail   \* whether DosCreateMutexSem may run out of resources

ASSUME MutexAssumption ==
  /\ NoThread \notin Threads
  /\ MaxDepth \in Nat \ {0}
  /\ MaxHandles \in Nat \ {0}
  /\ CreateMayFail \in BOOLEAN

NULLHANDLE == 0
Handles == 1..MaxHandles

\* ulTimeout: SEM_INDEFINITE_WAIT, SEM_IMMEDIATE_RETURN, or a time in between.
Modes == {"indefinite", "immediate", "timed"}

VARIABLES
  recursive,    \* mutex->recursive
  mtx,          \* mutex->mtx
  static_lock,  \* the holder of mutex->static_lock
  created,      \* kernel: semaphores created so far
  closed,       \* kernel: the handles that were closed
  owner,        \* kernel: the owner of each semaphore
  count,        \* kernel: how often the owner has requested it
  pc,           \* where each thread is inside the mutex functions
  mode,         \* the ulTimeout of the call in progress
  handle,       \* the handle the thread gave to DosRequestMutexSem
  held          \* the client's view: locks that returned 0, less unlocks

kernel == <<created, closed, owner, count>>
object == <<recursive, mtx, static_lock>>
mutexVars == <<object, kernel, pc, mode, handle, held>>

Locations ==
  {"idle", "test", "fmRequest", "recheck", "create", "fmRelease",
   "request", "wait", "query", "backOut", "abort"}

(* A statically initialised mutex has no handle; one set up by             *)
(* __gthread_os2_mutex_init before it is shared has the first handle.      *)
MutexInit ==
  /\ recursive \in {0, 1}
  /\ mtx \in {NULLHANDLE, 1}
  /\ created = mtx
  /\ static_lock = NoThread
  /\ closed = {}
  /\ owner = [h \in Handles |-> NoThread]
  /\ count = [h \in Handles |-> 0]
  /\ pc = [t \in Threads |-> "idle"]
  /\ mode = [t \in Threads |-> "indefinite"]
  /\ handle = [t \in Threads |-> NULLHANDLE]
  /\ held = [t \in Threads |-> 0]

Goto(t, from, to) == pc[t] = from /\ pc' = [pc EXCEPT ![t] = to]

KindMatches(r) == recursive = r

Usable(h) == h # NULLHANDLE /\ h \notin closed

-----------------------------------------------------------------------------
(* lock, trylock and the two timedlocks differ only in ulTimeout.          *)
Lock(t, r, m) ==
  /\ KindMatches(r)
  /\ held[t] < MaxDepth
  /\ Goto(t, "idle", "test")
  /\ mode' = [mode EXCEPT ![t] = m]
  /\ UNCHANGED <<object, kernel, handle, held>>

\* The first test of mutex->mtx, outside the static lock.
TestHandle(t) ==
  /\ IF mtx = NULLHANDLE THEN Goto(t, "test", "fmRequest") ELSE Goto(t, "test", "request")
  /\ UNCHANGED <<object, kernel, mode, handle, held>>

FmutexRequest(t) ==
  /\ static_lock = NoThread
  /\ static_lock' = t
  /\ Goto(t, "fmRequest", "recheck")
  /\ UNCHANGED <<recursive, mtx, kernel, mode, handle, held>>

\* Mutant: the handle is not tested again under the static lock.
StillUnsetMutant == TRUE

\* The second test of mutex->mtx, under the static lock.
StillUnset == mtx = NULLHANDLE

Recheck(t) ==
  /\ IF StillUnset THEN Goto(t, "recheck", "create") ELSE Goto(t, "recheck", "fmRelease")
  /\ UNCHANGED <<object, kernel, mode, handle, held>>

(* __gthread_os2_mutex_init: the kind is stored and the semaphore created. *)
(* A failed DosCreateMutexSem leaves the handle null.                      *)
CreateSem(t) ==
  /\ Goto(t, "create", "fmRelease")
  /\ \/ /\ created < MaxHandles
        /\ created' = created + 1
        /\ mtx' = created + 1
     \/ /\ CreateMayFail
        /\ UNCHANGED <<created, mtx>>
  /\ UNCHANGED <<recursive, static_lock, closed, owner, count, mode, handle, held>>

\* Mutant: the static lock is not released.
FmutexReleaseMutant(t) ==
  Goto(t, "fmRelease", "request") /\ UNCHANGED <<object, kernel, mode, handle, held>>

FmutexRelease(t) ==
  /\ Goto(t, "fmRelease", "request")
  /\ static_lock' = NoThread
  /\ UNCHANGED <<recursive, mtx, kernel, mode, handle, held>>

(* DosRequestMutexSem is called with the handle as it is now; without a    *)
(* usable one it fails at once and the lock function returns 1.            *)
Request(t) ==
  /\ IF Usable(mtx) THEN Goto(t, "request", "wait") ELSE Goto(t, "request", "idle")
  /\ handle' = [handle EXCEPT ![t] = mtx]
  /\ UNCHANGED <<object, kernel, mode, held>>

\* The kernel grants the semaphore, to its owner as often as it asks.
Granted(t) ==
  /\ Goto(t, "wait", "query")
  /\ owner[handle[t]] \in {NoThread, t}
  /\ owner' = [owner EXCEPT ![handle[t]] = t]
  /\ count' = [count EXCEPT ![handle[t]] = @ + 1]
  /\ UNCHANGED <<object, created, closed, mode, handle, held>>

\* ERROR_TIMEOUT: the lock function returns 1.
TimedOut(t) ==
  /\ Goto(t, "wait", "idle")
  /\ mode[t] # "indefinite"
  /\ owner[handle[t]] \notin {NoThread, t}
  /\ UNCHANGED <<object, kernel, mode, handle, held>>

\* A trylock of a non-recursive mutex the caller already owns (ulCount > 1).
SecondTry(t) == recursive = 0 /\ mode[t] = "immediate" /\ count[mtx] > 1

\* The negation of what assert (!"Dead lock" ...) requires of ulCount.
SelfDeadlock == recursive = 0 /\ count[mtx] # 1

(* DosQueryMutexSem and what follows: a second trylock is given back, a    *)
(* second blocking lock of a non-recursive mutex aborts the process, any   *)
(* other request returns 0.                                                *)
Query(t) ==
  /\ pc[t] = "query"
  /\ \/ SecondTry(t) /\ Goto(t, "query", "backOut") /\ UNCHANGED held
     \/ ~SecondTry(t) /\ SelfDeadlock /\ Goto(t, "query", "abort") /\ UNCHANGED held
     \/ /\ ~SecondTry(t) /\ ~SelfDeadlock
        /\ Goto(t, "query", "idle") /\ held' = [held EXCEPT ![t] = @ + 1]
  /\ UNCHANGED <<object, kernel, mode, handle>>

\* What DosReleaseMutexSem does for the owner of h.
ReleaseSem(t, h) ==
  /\ count' = [count EXCEPT ![h] = @ - 1]
  /\ owner' = [owner EXCEPT ![h] = IF count[h] = 1 THEN NoThread ELSE t]
  /\ UNCHANGED <<created, closed>>

\* Mutant: the trylock returns 1 but keeps the second request.
BackOutMutant(t) == Goto(t, "backOut", "idle") /\ UNCHANGED <<object, kernel, mode, handle, held>>

\* The refused trylock releases what the kernel had granted, and returns 1.
BackOut(t) ==
  /\ Goto(t, "backOut", "idle")
  /\ ReleaseSem(t, mtx)
  /\ UNCHANGED <<object, mode, handle, held>>

\* DosReleaseMutexSem succeeds for the owner only; for others it changes nothing.
MayRelease(t) == Usable(mtx) /\ owner[mtx] = t

Unlock(t, r) ==
  /\ KindMatches(r)
  /\ pc[t] = "idle"
  /\ MayRelease(t)
  /\ ReleaseSem(t, mtx)
  /\ held' = [held EXCEPT ![t] = IF @ > 0 THEN @ - 1 ELSE 0]
  /\ UNCHANGED <<object, pc, mode, handle>>

(* __gthread_os2_mutex_destroy, by a thread that knows nobody else is      *)
(* inside a mutex function.  DosCloseMutexSem refuses an owned semaphore   *)
(* and mutex->mtx keeps the closed handle.                                 *)
Destroy(t, r) ==
  /\ KindMatches(r)
  /\ \A u \in Threads : pc[u] = "idle"
  /\ Usable(mtx) /\ owner[mtx] = NoThread
  /\ closed' = closed \cup {mtx}
  /\ UNCHANGED <<object, created, owner, count, pc, mode, handle, held>>

LockStep(t) ==
  \/ TestHandle(t) \/ FmutexRequest(t) \/ Recheck(t) \/ CreateSem(t) \/ FmutexRelease(t)
  \/ Request(t) \/ Granted(t) \/ TimedOut(t) \/ Query(t) \/ BackOut(t)

\* The process goes on as long as no assertion has failed in it.
Alive == \A t \in Threads : pc[t] # "abort"

MutexNext ==
  /\ Alive
  /\ \E t \in Threads :
       \/ \E r \in {0, 1} :
            (\E m \in Modes : Lock(t, r, m)) \/ Unlock(t, r) \/ Destroy(t, r)
       \/ LockStep(t)

\* A thread inside a lock function runs on until the kernel blocks it.
MutexSpec ==
  /\ MutexInit
  /\ [][MutexNext]_mutexVars
  /\ \A t \in Threads : WF_mutexVars(Alive /\ LockStep(t))

-----------------------------------------------------------------------------
MutexTypeOK ==
  /\ recursive \in {0, 1}
  /\ mtx \in {NULLHANDLE} \cup Handles
  /\ static_lock \in Threads \cup {NoThread}
  /\ created \in 0..MaxHandles
  /\ closed \subseteq Handles
  /\ owner \in [Handles -> Threads \cup {NoThread}]
  /\ count \in [Handles -> 0..(MaxDepth + 1)]
  /\ pc \in [Threads -> Locations]
  /\ mode \in [Threads -> Modes]
  /\ handle \in [Threads -> {NULLHANDLE} \cup Handles]
  /\ held \in [Threads -> 0..MaxDepth]

(* Two threads never both believe that they hold the mutex, whichever of   *)
(* them created the semaphore and whatever other lockers, timeouts and     *)
(* failed creations came in between.                                       *)
MutualExclusion == \A t, u \in Threads : held[t] > 0 /\ held[u] > 0 => t = u

(* Racing first lockers create one kernel semaphore between them: the      *)
(* double test under the static lock loses no handle.                      *)
OneSemaphore == created <= 1

(* The return codes tell the truth: a thread outside the mutex functions   *)
(* owns the kernel semaphore exactly as often as its successful locks and  *)
(* unlocks say.                                                            *)
ReturnCodesAgree ==
  \A t \in Threads : pc[t] = "idle" =>
    held[t] = IF mtx # NULLHANDLE /\ owner[mtx] = t THEN count[mtx] ELSE 0

(* A non-recursive mutex is held once at most; a thread that asks for it a *)
(* second time is turned away or stopped by the assertion, never told that *)
(* it has locked it again.                                                 *)
NonRecursiveOnce == recursive = 0 => \A t \in Threads : held[t] <= 1

(* The "Dead lock" assertion fires for no other reason than that a thread  *)
(* locks a non-recursive mutex which it already holds, and never in a      *)
(* trylock.  It does fire in a timed lock: see TimedLockReturns.           *)
AbortOnlySelfLock ==
  \A t \in Threads : pc[t] = "abort" =>
    held[t] > 0 /\ recursive = 0 /\ mode[t] # "immediate"

(* A timed lock always returns to its caller, also to one that holds the   *)
(* mutex already (timed_mutex/try_lock_for/3.cc): it is not stopped by the *)
(* assertion.                                                              *)
TimedLockReturns == \A t \in Threads : pc[t] = "abort" => mode[t] # "timed"

(* A first locker is not held up for ever at the static lock: once one of  *)
(* them has created the semaphore, all of them get past it.                *)
StaticInitEnds ==
  \A t \in Threads :
    (pc[t] = "fmRequest" /\ mtx # NULLHANDLE) ~> (pc[t] = "request" \/ ~Alive)

Holder == IF \E t \in Threads : held[t] > 0
          THEN CHOOSE t \in Threads : held[t] > 0
          ELSE NoThread

(* The mutex functions implement the abstract mutex: seen from the return  *)
(* codes there is one owner and one nesting depth.                         *)
Abs == INSTANCE AbstractMutex WITH
         owner <- Holder,
         depth <- IF Holder = NoThread THEN 0 ELSE held[Holder]
ImplementsMutex == Abs!AbsSpec

=============================================================================
