------------------------------- MODULE CxaGuard -------------------------------
(***************************************************************************)
(* Guarded initialisation of function-local statics                        *)
(* (libstdc++-v3/libsupc++/guard.cc), as it is built on the OS/2 thread    *)
(* layer: __gthread_active_p () is 1, condition variables exist and the    *)
(* futex does not.                                                         *)
(*                                                                         *)
(* A guard is two bytes: "initialised" and "being initialised".  One       *)
(* recursive mutex and one condition variable serve all guards of the      *)
(* process.  The mutex is not held while an initialiser runs, so that an   *)
(* initialiser may itself reach other statics: a thread has a stack of     *)
(* guards it is in the middle of.                                          *)
(*                                                                         *)
(* The mutex is a lock with an owner (what GthrMutex implements; nobody    *)
(* locks it twice here).  All broadcasts are made with the mutex held, so  *)
(* that the condition variable is what GthrCond gives such clients: wait   *)
(* leaves the mutex and goes to sleep in one step, broadcast wakes every   *)
(* sleeper.  The two objects are created through __gthread_once (GthrOnce) *)
(* before their first use.                                                 *)
(***************************************************************************)
EXTENDS Naturals, FiniteSets

CONSTANTS
  Threads,
  Guards,      \* the statics
  NoThread,
  NoGuard,
  Needs,       \* <<g, h>>: the initialiser of g may reach the static h
  MaxNest,     \* bound: depth of nested initialisations in one thread
  MaxThrows    \* bound: how often initialisers throw

ASSUME GuardAssumption ==
  /\ NoThread \notin Threads
  /\ NoGuard \notin Guards
  /\ Needs \subseteq Guards \X Guards
  /\ MaxNest \in Nat \ {0}
  /\ MaxThrows \in Nat

VARIABLES
  guard,       \* first byte of the guard: the static is initialised
  inProgress,  \* init_in_progress_flag: its second byte
  mutex,       \* who holds *static_mutex
  pc,
  depth,       \* how many guards the thread is in the middle of
  frame,       \* frame[t][i]: the i-th of them, outermost first
  built,       \* history: how often the initialiser of a static has returned
  throws       \* history: how many initialisers have thrown

guardVars == <<guard, inProgress, mutex, pc, depth, frame, built, throws>>

\* The guard that t is acquiring, initialising, releasing or aborting.
Top(t) == frame[t][depth[t]]

Locations == {"idle", "test", "lock", "loop", "sleep", "relock", "unlock0", "unlock1",
              "init", "relLock", "relClear", "relSet", "abLock", "abClear", "broadcast",
              "unlockR"}

GuardInit ==
  /\ guard = [g \in Guards |-> 0]
  /\ inProgress = [g \in Guards |-> 0]
  /\ mutex = NoThread
  /\ pc = [t \in Threads |-> "idle"]
  /\ depth = [t \in Threads |-> 0]
  /\ frame = [t \in Threads |-> [i \in 1..MaxNest |-> NoGuard]]
  /\ built = [g \in Guards |-> 0]
  /\ throws = 0

Goto(t, from, to) == pc[t] = from /\ pc' = [pc EXCEPT ![t] = to]

\* mutex_wrapper's constructor: the mutex is free or, being recursive, the caller's.
LockMutex(t) == mutex \in {NoThread, t} /\ mutex' = t

\* Back to the caller: to the initialiser around this one, or out of all.
Return(t, from) ==
  /\ Goto(t, from, IF depth[t] > 1 THEN "init" ELSE "idle")
  /\ depth' = [depth EXCEPT ![t] = depth[t] - 1]
  /\ frame' = [frame EXCEPT ![t][depth[t]] = NoGuard]

-----------------------------------------------------------------------------
(* __cxa_guard_acquire                                                     *)

\* The program reaches a static: by itself, or from within an initialiser.
Acquire(t, g) ==
  /\ depth[t] < MaxNest
  /\ \/ Goto(t, "idle", "test")
     \/ Goto(t, "init", "test") /\ <<Top(t), g>> \in Needs
  /\ depth' = [depth EXCEPT ![t] = depth[t] + 1]
  /\ frame' = [frame EXCEPT ![t][depth[t] + 1] = g]
  /\ UNCHANGED <<guard, inProgress, mutex, built, throws>>

\* _GLIBCXX_GUARD_TEST_AND_ACQUIRE, without the mutex.
FastTest(t) ==
  /\ pc[t] = "test"
  /\ IF guard[Top(t)] = 1
     THEN Return(t, "test")
     ELSE Goto(t, "test", "lock") /\ UNCHANGED <<depth, frame>>
  /\ UNCHANGED <<guard, inProgress, mutex, built, throws>>

Lock(t) ==
  /\ LockMutex(t)
  /\ Goto(t, "lock", "loop")
  /\ UNCHANGED <<guard, inProgress, depth, frame, built, throws>>

\* _GLIBCXX_GUARD_TEST under the mutex.
TestUnderLock(g) == guard[g] = 1

LoopDone(t) ==
  /\ Goto(t, "loop", "unlock0")
  /\ TestUnderLock(Top(t))
  /\ UNCHANGED <<guard, inProgress, mutex, depth, frame, built, throws>>

\* Mutant: the flag is not looked at.
InitInProgressMutant(g) == FALSE

InitInProgress(g) == inProgress[g] = 1

\* Mutant: the thread polls the flag and keeps the mutex.
LoopWaitMutant(t) ==
  /\ pc[t] = "loop" /\ ~TestUnderLock(Top(t)) /\ InitInProgress(Top(t))
  /\ UNCHANGED guardVars

\* wait_recursive: the thread sleeps and the mutex is free.
LoopWait(t) ==
  /\ Goto(t, "loop", "sleep")
  /\ ~TestUnderLock(Top(t)) /\ InitInProgress(Top(t))
  /\ mutex' = NoThread
  /\ UNCHANGED <<guard, inProgress, depth, frame, built, throws>>

LoopWin(t) ==
  /\ Goto(t, "loop", "unlock1")
  /\ ~TestUnderLock(Top(t)) /\ ~InitInProgress(Top(t))
  /\ inProgress' = [inProgress EXCEPT ![Top(t)] = 1]
  /\ UNCHANGED <<guard, mutex, depth, frame, built, throws>>

\* wait_recursive returns once the mutex is locked again.
Relock(t) ==
  /\ LockMutex(t)
  /\ Goto(t, "relock", "loop")
  /\ UNCHANGED <<guard, inProgress, depth, frame, built, throws>>

\* return 0: the static is there.
UnlockDone(t) ==
  /\ Return(t, "unlock0")
  /\ mutex' = NoThread
  /\ UNCHANGED <<guard, inProgress, built, throws>>

\* Mutant: the mutex stays locked while the initialiser runs, as it once was.
FreeForInitMutant(t) == t

\* What mutex_wrapper's destructor leaves behind when acquire returns 1.
FreeForInit(t) == NoThread

\* return 1: the caller is to run the initialiser.
UnlockWin(t) ==
  /\ Goto(t, "unlock1", "init")
  /\ mutex' = FreeForInit(t)
  /\ UNCHANGED <<guard, inProgress, depth, frame, built, throws>>

-----------------------------------------------------------------------------
(* The initialiser ends, and with it __cxa_guard_release or                *)
(* __cxa_guard_abort is called.                                            *)
InitReturns(t) ==
  /\ Goto(t, "init", "relLock")
  /\ built' = [built EXCEPT ![Top(t)] = @ + 1]
  /\ UNCHANGED <<guard, inProgress, mutex, depth, frame, throws>>

InitThrows(t) ==
  /\ throws < MaxThrows
  /\ Goto(t, "init", "abLock")
  /\ throws' = throws + 1
  /\ UNCHANGED <<guard, inProgress, mutex, depth, frame, built>>

\* Mutant: an aborted initialisation ends like a successful one.
LockToEndMutant(t) ==
  /\ LockMutex(t)
  /\ Goto(t, "relLock", "relClear") \/ Goto(t, "abLock", "relClear")
  /\ UNCHANGED <<guard, inProgress, depth, frame, built, throws>>

LockToEnd(t) ==
  /\ LockMutex(t)
  /\ Goto(t, "relLock", "relClear") \/ Goto(t, "abLock", "abClear")
  /\ UNCHANGED <<guard, inProgress, depth, frame, built, throws>>

\* set_init_in_progress_flag (g, 0), in release and in abort.
ClearFlag(t) ==
  /\ Goto(t, "relClear", "relSet") \/ Goto(t, "abClear", "broadcast")
  /\ inProgress' = [inProgress EXCEPT ![Top(t)] = 0]
  /\ UNCHANGED <<guard, mutex, depth, frame, built, throws>>

\* Mutant: release forgets to set the guard.
SetGuardMutant(t) ==
  /\ Goto(t, "relSet", "broadcast")
  /\ UNCHANGED <<guard, inProgress, mutex, depth, frame, built, throws>>

\* _GLIBCXX_GUARD_SET_AND_RELEASE.
SetGuard(t) ==
  /\ Goto(t, "relSet", "broadcast")
  /\ guard' = [guard EXCEPT ![Top(t)] = 1]
  /\ UNCHANGED <<inProgress, mutex, depth, frame, built, throws>>

\* Mutant: only the sleepers whose static is initialised by now are woken.
WokenMutant(u) == pc[u] = "sleep" /\ guard[Top(u)] = 1

\* Who a broadcast wakes.
Woken(u) == pc[u] = "sleep"

Broadcast(t) ==
  /\ pc[t] = "broadcast"
  /\ pc' = [u \in Threads |-> IF u = t THEN "unlockR"
                              ELSE IF Woken(u) THEN "relock" ELSE pc[u]]
  /\ UNCHANGED <<guard, inProgress, mutex, depth, frame, built, throws>>

UnlockEnd(t) ==
  /\ Return(t, "unlockR")
  /\ mutex' = NoThread
  /\ UNCHANGED <<guard, inProgress, built, throws>>

-----------------------------------------------------------------------------
\* The steps of the library that wait for nobody, and those that need the mutex.
FreeStep(t) ==
  \/ FastTest(t) \/ LoopDone(t) \/ LoopWait(t) \/ LoopWin(t) \/ UnlockDone(t) \/ UnlockWin(t)
  \/ ClearFlag(t) \/ SetGuard(t) \/ Broadcast(t) \/ UnlockEnd(t)

LockStep(t) == Lock(t) \/ Relock(t) \/ LockToEnd(t)

InitEnds(t) == InitReturns(t) \/ InitThrows(t)

GuardNext ==
  \E t \in Threads :
    (\E g \in Guards : Acquire(t, g)) \/ FreeStep(t) \/ LockStep(t) \/ InitEnds(t)

(* The scheduler lets every thread run, and the kernel serves those who    *)
(* queue for a mutex in turn.  An initialiser need not end.                *)
GuardSpec ==
  /\ GuardInit /\ [][GuardNext]_guardVars
  /\ \A t \in Threads : WF_guardVars(FreeStep(t)) /\ SF_guardVars(LockStep(t))

-----------------------------------------------------------------------------
\* Types and bounds.
GuardTypeOK ==
  /\ guard \in [Guards -> {0, 1}]
  /\ inProgress \in [Guards -> {0, 1}]
  /\ mutex \in Threads \cup {NoThread}
  /\ pc \in [Threads -> Locations]
  /\ depth \in [Threads -> 0..MaxNest]
  /\ frame \in [Threads -> [1..MaxNest -> Guards \cup {NoGuard}]]
  /\ built \in [Guards -> Nat]
  /\ throws \in 0..MaxThrows

\* The locations of a thread that owns the flag of its top guard.
Owning == {"unlock1", "init", "relLock", "relClear", "abLock", "abClear"}

\* The i-th initialisation of t has begun and its flag is not cleared yet.
Initialising(t, i) == i \in 1..depth[t] /\ (i < depth[t] \/ pc[t] \in Owning)

(* At any time a static has one initialiser: not two threads, and not one  *)
(* thread twice, however initialisations nest and however often they are   *)
(* aborted and tried again.                                                *)
OneInitializer ==
  \A t, u \in Threads : \A i, j \in 1..MaxNest :
    Initialising(t, i) /\ Initialising(u, j) /\ frame[t][i] = frame[u][j] => t = u /\ i = j

\* An initialiser that has returned is never run again.
BuiltOnce == \A g \in Guards : built[g] <= 1

(* Whoever gets past a static finds it built: the guard byte, also when it *)
(* is read without the mutex, and the answer "return 0" say so only after  *)
(* the initialiser has returned.                                           *)
PassedIsBuilt ==
  /\ \A g \in Guards : guard[g] = 1 => built[g] = 1
  /\ \A t \in Threads : pc[t] = "unlock0" => built[Top(t)] = 1

(* No wakeup is lost: a thread sleeps only while the initialisation it     *)
(* waits for is under way, or its end is about to be broadcast.            *)
NoStrandedSleeper ==
  \A t \in Threads : pc[t] = "sleep" =>
    inProgress[Top(t)] = 1 \/ \E u \in Threads : pc[u] \in {"relSet", "broadcast"}

(* guard.cc promises that a thread may initialise one static while another *)
(* thread is in the middle of initialising a different one, even if the    *)
(* latter waits for the former: who reaches a static that nobody           *)
(* initialises is not held up by initialisers that never end.              *)
OthersNotBlocked ==
  \A t \in Threads : \A g \in Guards :
    (pc[t] = "test" /\ Top(t) = g) ~> (pc[t] \in {"init", "idle"} \/ inProgress[g] = 1)

(* When initialisers end, by returning or by throwing, every               *)
(* __cxa_guard_acquire returns.                                            *)
EveryAcquireReturns ==
  (\A t \in Threads : SF_guardVars(InitEnds(t))) =>
    \A t \in Threads : (pc[t] = "test") ~> (pc[t] \in {"init", "idle"})

=============================================================================
