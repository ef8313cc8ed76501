------------------------------- MODULE GthrCond -------------------------------
(***************************************************************************)
(* The condition variable of the OS/2 thread layer (libgcc/gthr-os2.c),    *)
(* one __gthread_cond_t with the mutex its waiters use.                    *)
(*                                                                         *)
(* The object has two kernel event semaphores and two words.  A waiter     *)
(* counts itself in waiters, unlocks the mutex and waits for ev; whoever   *)
(* wakes resets ev and competes for the one token in signaled.  A signaler *)
(* places the token, posts ev and waits for ack, which every waiter posts  *)
(* on its way out, with or without the token.  A broadcast signals until   *)
(* waiters is zero.                                                        *)
(*                                                                         *)
(* OS/2 event semaphores are external: a post stays until it is reset, and *)
(* it releases every thread that is blocked at that moment even when the   *)
(* reset comes before they run.  Calls on a null handle fail at once.      *)
(* DosCreateEventSem is taken to succeed (the code does not look at its    *)
(* result).  The mutex is the AbstractMutex that GthrMutex implements, never  *)
(* locked twice.  A call whose mutex is of the other kind returns 1 before *)
(* it does anything and is left out.                                       *)
(***************************************************************************)
EXTENDS Naturals, FiniteSets

CONSTANTS
  Waiters,            \* the threads that wait
  Signalers,          \* the threads that signal, broadcast and destroy
  NoThread,
  UMax,               \* bound: the largest value of an unsigned word
  MaxWaits,           \* bound: how often a thread waits; 0 for no bound
  Uses                \* the ways the object is used that are looked at

Threads == Waiters \cup Signalers

ASSUME CondAssumption ==
  /\ NoThread \notin Threads
  /\ IsFiniteSet(Threads)
  /\ UMax \in Nat /\ UMax > Cardinality(Threads)
  /\ MaxWaits \in Nat
  /\ Uses \subseteq {"locked", "any", "static", "timed"}

VARIABLES
  use,              \* how the clients of this object use it
  ev, ack,          \* cond->ev and cond->ack: 0 is NULLHANDLE
  signaled,         \* cond->signaled
  waiters,          \* cond->waiters
  static_lock,      \* the holder of cond->static_lock
  evPosted,         \* kernel: the state of the event ev
  ackPosted,        \* kernel: the state of the event ack
  mutex,            \* the holder of the clients' mutex
  destroyed,        \* 1 after __gthread_os2_cond_destroy: the memory is gone
  pc,               \* where each thread is inside the functions
  ret,              \* where it goes on after __gthread_os2_static_cond_init
  nested,           \* 1 while it signals on behalf of a broadcast
  waits,            \* how often each thread has waited, when that is bounded
  tokenOf,          \* history: whose token is in signaled
  owed,             \* history: who slept when the thread placed its last token,
                    \*   as long as that token has woken nobody and they sleep
  toWake            \* history: who was waiting when the thread's broadcast began

words == <<signaled, waiters>>
handles == <<ev, ack>>
events == <<evPosted, ackPosted>>
control == <<ret, nested>>
history == <<tokenOf, owed, toWake>>
condVars ==
  <<use, handles, words, static_lock, events, mutex, destroyed, pc, control, waits, history>>

(* Four kinds of clients.  "locked" signals with the mutex held and waits  *)
(* without a timeout, as often as it likes; "timed" has timeouts as well;  *)
(* "any" signals without the mutex, on an object that was initialised      *)
(* first (a signaler that happens to hold it can do nothing more, since    *)
(* the functions it calls do not look at the mutex); "static" does so with *)
(* one that was not, but without timeouts, and one thread waits: waiters   *)
(* hold the mutex while they initialise the object, so that it takes a     *)
(* signaler to race with.                                                  *)
Initialized == use \in {"any", "timed"}
SignalHoldsMutex == use \in {"locked", "timed"}
TimedWaits == use \in {"any", "timed"}
BoundedWaits == use # "locked" /\ MaxWaits # 0
OnlyWaiter(t) == use = "static" => \A u \in Waiters \ {t} : waits[u] = 0

WaitLocs == {"wTest", "wInc", "wUnlock", "wWait", "wBlocked", "wReset", "wCas", "wDec", "wAck"}
InitLocs == {"fmRequest", "recheck", "createEv", "createAck", "clrSignaled", "clrWaiters",
             "fmRelease"}
SignalLocs == {"sTest", "sReset", "sLook", "sXchg", "sPost", "sWait", "sBlocked", "sDone"}
BroadcastLocs == {"bTest", "bLoop", "bDone"}
Locations == {"idle", "wLock"} \cup WaitLocs \cup InitLocs \cup SignalLocs \cup BroadcastLocs

\* The locations of a waiter that has counted itself in waiters.
Counted == {"wUnlock", "wWait", "wBlocked", "wReset", "wCas", "wDec"}

CondInit ==
  /\ use \in Uses
  /\ ev = IF Initialized THEN 1 ELSE 0
  /\ ack = ev
  /\ signaled = 0 /\ waiters = 0
  /\ static_lock = NoThread
  /\ evPosted = 0 /\ ackPosted = 0
  /\ mutex = NoThread
  /\ destroyed = 0
  /\ pc = [t \in Threads |-> "idle"]
  /\ ret = [t \in Threads |-> "idle"]
  /\ nested = [t \in Threads |-> 0]
  /\ tokenOf = NoThread
  /\ waits = [t \in Threads |-> 0]
  /\ owed = [t \in Threads |-> {}]
  /\ toWake = [t \in Threads |-> {}]

Goto(t, from, to) == pc[t] = from /\ pc' = [pc EXCEPT ![t] = to]

\* __atomic_increment and __atomic_decrement on an unsigned word.
Inc(w) == IF w = UMax THEN 0 ELSE w + 1
Dec(w) == IF w = 0 THEN UMax ELSE w - 1

(* DosPostEventSem by t, which goes on from one location to the next: the  *)
(* threads blocked on the event are released to where their wait ends.     *)
Post(t, from, to, blocked, released) ==
  /\ pc[t] = from
  /\ pc' = [u \in Threads |-> IF u = t THEN to ELSE IF pc[u] = blocked THEN released ELSE pc[u]]

-----------------------------------------------------------------------------
(* The clients' own use of the mutex.                                      *)
ClientLock(t) ==
  /\ t \in Waiters \/ SignalHoldsMutex
  /\ pc[t] = "idle" /\ mutex = NoThread /\ destroyed = 0
  /\ mutex' = t
  /\ UNCHANGED <<handles, words, static_lock, events, destroyed, pc, control, waits, history>>

ClientUnlock(t) ==
  /\ pc[t] = "idle" /\ mutex = t
  /\ mutex' = NoThread
  /\ UNCHANGED <<handles, words, static_lock, events, destroyed, pc, control, waits, history>>

-----------------------------------------------------------------------------
(* __gthread_os2_static_cond_init, called when ev is null; the caller goes *)
(* on at ret.                                                              *)
TestEv(t, from, next) ==
  /\ IF ev = 0
     THEN Goto(t, from, "fmRequest") /\ ret' = [ret EXCEPT ![t] = next]
     ELSE Goto(t, from, next) /\ UNCHANGED ret
  /\ UNCHANGED <<handles, words, static_lock, events, mutex, destroyed, nested, waits, history>>

FmutexRequest(t) ==
  /\ static_lock = NoThread
  /\ static_lock' = t
  /\ Goto(t, "fmRequest", "recheck")
  /\ UNCHANGED <<handles, words, events, mutex, destroyed, control, waits, history>>

\* Mutant: the handle is not tested again under the static lock.
StillUnsetMutant == TRUE

\* The second test of cond->ev, under the static lock.
StillUnset == ev = 0

Recheck(t) ==
  /\ IF StillUnset THEN Goto(t, "recheck", "createEv") ELSE Goto(t, "recheck", "fmRelease")
  /\ UNCHANGED <<handles, words, static_lock, events, mutex, destroyed, control, waits, history>>

\* DosCreateEventSem stores the handle of a new, reset event.
CreateEv(t) ==
  /\ Goto(t, "createEv", "createAck")
  /\ ev' = 1 /\ evPosted' = 0
  /\ UNCHANGED <<ack, words, static_lock, ackPosted, mutex, destroyed, control, waits, history>>

CreateAck(t) ==
  /\ Goto(t, "createAck", "clrSignaled")
  /\ ack' = 1 /\ ackPosted' = 0
  /\ UNCHANGED <<ev, words, static_lock, evPosted, mutex, destroyed, control, waits, history>>

ClearSignaled(t) ==
  /\ Goto(t, "clrSignaled", "clrWaiters")
  /\ signaled' = 0
  /\ tokenOf' = NoThread
  /\ UNCHANGED <<handles, waiters, static_lock, events, mutex, destroyed, control, waits, owed,
                 toWake>>

ClearWaiters(t) ==
  /\ Goto(t, "clrWaiters", "fmRelease")
  /\ waiters' = 0
  /\ UNCHANGED <<handles, signaled, static_lock, events, mutex, destroyed, control, waits, history>>

FmutexRelease(t) ==
  /\ Goto(t, "fmRelease", ret[t])
  /\ static_lock' = NoThread
  /\ ret' = [ret EXCEPT ![t] = "idle"]
  /\ UNCHANGED <<handles, words, events, mutex, destroyed, nested, waits, history>>

StaticInitStep(t) ==
  \/ FmutexRequest(t) \/ Recheck(t) \/ CreateEv(t) \/ CreateAck(t)
  \/ ClearSignaled(t) \/ ClearWaiters(t) \/ FmutexRelease(t)

-----------------------------------------------------------------------------
(* __gthread_os2_cond_wait_common, by a thread that holds the mutex.       *)
Wait(t) ==
  /\ mutex = t /\ destroyed = 0
  /\ BoundedWaits => waits[t] < MaxWaits
  /\ OnlyWaiter(t)
  /\ Goto(t, "idle", "wTest")
  /\ waits' = IF BoundedWaits THEN [waits EXCEPT ![t] = @ + 1] ELSE waits
  /\ UNCHANGED <<handles, words, static_lock, events, mutex, destroyed, control, history>>

WaitTestEv(t) == TestEv(t, "wTest", "wInc")

IncWaiters(t) ==
  /\ Goto(t, "wInc", "wUnlock")
  /\ waiters' = Inc(waiters)
  /\ UNCHANGED <<handles, signaled, static_lock, events, mutex, destroyed, control, waits, history>>

UnlockMutex(t) ==
  /\ Goto(t, "wUnlock", "wWait")
  /\ mutex' = NoThread
  /\ UNCHANGED <<handles, words, static_lock, events, destroyed, control, waits, history>>

\* History: t stops sleeping, so that no signal owes it anything.
NotOwed(t) == [u \in Threads |-> owed[u] \ {t}]

(* DosWaitEventSem (ev): returns at once when the event is posted, blocks  *)
(* otherwise.                                                              *)
WaitEv(t) ==
  /\ IF evPosted = 1 THEN Goto(t, "wWait", "wReset") ELSE Goto(t, "wWait", "wBlocked")
  /\ UNCHANGED <<handles, words, static_lock, events, mutex, destroyed, control, waits, history>>

\* ERROR_TIMEOUT ends the loop; the rest of the function is the same.
WaitTimesOut(t) ==
  /\ TimedWaits
  /\ Goto(t, "wBlocked", "wDec")
  /\ owed' = NotOwed(t)
  /\ UNCHANGED <<handles, words, static_lock, events, mutex, destroyed, control, waits, tokenOf,
                 toWake>>

ResetEv(t) ==
  /\ Goto(t, "wReset", "wCas")
  /\ evPosted' = 0
  /\ UNCHANGED <<handles, words, static_lock, ackPosted, mutex, destroyed, control, waits, history>>

\* What __atomic_cmpxchg32 (&cond->signaled, 0, 1) returns.
TokenTaken == signaled = 1

TakeToken(t) ==
  /\ IF TokenTaken
     THEN /\ Goto(t, "wCas", "wDec")
          /\ signaled' = 0
          /\ tokenOf' = NoThread
          /\ owed' = [u \in Threads |-> IF u = tokenOf THEN {} ELSE NotOwed(t)[u]]
     ELSE Goto(t, "wCas", "wWait") /\ UNCHANGED <<signaled, tokenOf, owed>>
  /\ UNCHANGED <<handles, waiters, static_lock, events, mutex, destroyed, control, waits, toWake>>

\* Mutant: a waiter that leaves forgets to uncount itself.
DecWaitersMutant(t) ==
  /\ Goto(t, "wDec", "wAck")
  /\ UNCHANGED <<handles, words, static_lock, events, mutex, destroyed, control, waits, history>>

DecWaiters(t) ==
  /\ Goto(t, "wDec", "wAck")
  /\ waiters' = Dec(waiters)
  /\ toWake' = [u \in Threads |-> toWake[u] \ {t}]
  /\ UNCHANGED <<handles, signaled, static_lock, events, mutex, destroyed, control, waits,
                 tokenOf, owed>>

\* Mutant: a waiter that leaves does not acknowledge.
PostAckMutant(t) ==
  /\ Goto(t, "wAck", "wLock")
  /\ UNCHANGED <<handles, words, static_lock, events, mutex, destroyed, control, waits, history>>

PostAck(t) ==
  /\ IF ack = 1
     THEN Post(t, "wAck", "wLock", "sBlocked", "sDone") /\ ackPosted' = 1
     ELSE Goto(t, "wAck", "wLock") /\ UNCHANGED ackPosted
  /\ UNCHANGED <<handles, words, static_lock, evPosted, mutex, destroyed, control, waits, history>>

\* The mutex is locked again and the function returns.
LockMutex(t) ==
  /\ mutex = NoThread
  /\ Goto(t, "wLock", "idle")
  /\ mutex' = t
  /\ UNCHANGED <<handles, words, static_lock, events, destroyed, control, waits, history>>

WaitStep(t) ==
  \/ WaitTestEv(t) \/ IncWaiters(t) \/ UnlockMutex(t) \/ WaitEv(t) \/ ResetEv(t) \/ TakeToken(t)
  \/ DecWaiters(t) \/ PostAck(t) \/ LockMutex(t)

-----------------------------------------------------------------------------
(* __gthread_os2_cond_signal, on its own or from a broadcast.              *)
MaySignal(t) == destroyed = 0 /\ (SignalHoldsMutex => mutex = t)

Signal(t) ==
  /\ MaySignal(t)
  /\ Goto(t, "idle", "sTest")
  /\ nested' = [nested EXCEPT ![t] = 0]
  /\ UNCHANGED <<handles, words, static_lock, events, mutex, destroyed, ret, waits, history>>

SignalTestEv(t) == TestEv(t, "sTest", "sReset")

\* Mutant: an old acknowledgement is left in place.
ResetAckMutant(t) ==
  /\ Goto(t, "sReset", "sLook")
  /\ UNCHANGED <<handles, words, static_lock, events, mutex, destroyed, control, waits, history>>

ResetAck(t) ==
  /\ Goto(t, "sReset", "sLook")
  /\ ackPosted' = 0
  /\ UNCHANGED <<handles, words, static_lock, evPosted, mutex, destroyed, control, waits, history>>

\* Where a signal returns to.
Caller(t) == IF nested[t] = 1 THEN "bLoop" ELSE "idle"

\* The first test of waiters: nobody waits, nothing to do.
LookForWaiters(t) ==
  /\ IF waiters # 0 THEN Goto(t, "sLook", "sXchg") ELSE Goto(t, "sLook", Caller(t))
  /\ UNCHANGED <<handles, words, static_lock, events, mutex, destroyed, control, waits, history>>

(* __atomic_xchg (&cond->signaled, 1).  History: whose token it is and who *)
(* sleeps, where the mutex keeps signalers apart.                          *)
PlaceToken(t) ==
  /\ Goto(t, "sXchg", "sPost")
  /\ signaled' = 1
  /\ IF SignalHoldsMutex
     THEN /\ tokenOf' = t
          /\ owed' = [owed EXCEPT ![t] = {u \in Threads : pc[u] \in Counted \ {"wDec"}}]
     ELSE UNCHANGED <<tokenOf, owed>>
  /\ UNCHANGED <<handles, waiters, static_lock, events, mutex, destroyed, control, waits, toWake>>

\* Mutant: the token is placed but the event is not posted.
PostEvMutant(t) ==
  /\ Goto(t, "sPost", "sWait")
  /\ UNCHANGED <<handles, words, static_lock, events, mutex, destroyed, control, waits, history>>

PostEv(t) ==
  /\ Post(t, "sPost", "sWait", "wBlocked", "wReset")
  /\ evPosted' = 1
  /\ UNCHANGED <<handles, words, static_lock, ackPosted, mutex, destroyed, control, waits, history>>

\* Mutant: the signaler does not wait to be acknowledged.
AckSeenMutant == TRUE

AckSeen == ack = 0 \/ ackPosted = 1

\* DosWaitEventSem (ack).
WaitAck(t) ==
  /\ IF AckSeen THEN Goto(t, "sWait", "sDone") ELSE Goto(t, "sWait", "sBlocked")
  /\ UNCHANGED <<handles, words, static_lock, events, mutex, destroyed, control, waits, history>>

SignalReturns(t) ==
  /\ Goto(t, "sDone", Caller(t))
  /\ UNCHANGED <<handles, words, static_lock, events, mutex, destroyed, control, waits, history>>

SignalStep(t) ==
  \/ SignalTestEv(t) \/ ResetAck(t) \/ LookForWaiters(t) \/ PlaceToken(t) \/ PostEv(t)
  \/ WaitAck(t) \/ SignalReturns(t)

-----------------------------------------------------------------------------
(* __gthread_os2_cond_broadcast.                                           *)
Broadcast(t) ==
  /\ MaySignal(t)
  /\ Goto(t, "idle", "bTest")
  /\ nested' = [nested EXCEPT ![t] = 1]
  /\ toWake' = [toWake EXCEPT ![t] = {u \in Threads : pc[u] \in Counted}]
  /\ UNCHANGED <<handles, words, static_lock, events, mutex, destroyed, ret, waits, tokenOf, owed>>

BroadcastTestEv(t) == TestEv(t, "bTest", "bLoop")

\* Mutant: the loop stops one waiter too early.
WaitersLeftMutant == waiters > 1

\* The loop condition of the broadcast.
WaitersLeft == waiters # 0

BroadcastLoop(t) ==
  /\ IF WaitersLeft THEN Goto(t, "bLoop", "sTest") ELSE Goto(t, "bLoop", "bDone")
  /\ UNCHANGED <<handles, words, static_lock, events, mutex, destroyed, control, waits, history>>

BroadcastReturns(t) ==
  /\ Goto(t, "bDone", "idle")
  /\ nested' = [nested EXCEPT ![t] = 0]
  /\ UNCHANGED <<handles, words, static_lock, events, mutex, destroyed, ret, waits, history>>

BroadcastStep(t) == BroadcastTestEv(t) \/ BroadcastLoop(t) \/ BroadcastReturns(t)

(* __gthread_os2_cond_destroy, by a client that has just broadcast with    *)
(* the mutex held and lets nobody call the functions again: the threads    *)
(* it has woken may still be on their way out of the wait.                 *)
Destroy(t) ==
  /\ mutex = t /\ destroyed = 0
  /\ Goto(t, "bDone", "idle")
  /\ destroyed' = 1
  /\ UNCHANGED <<handles, words, static_lock, events, mutex, control, waits, history>>

-----------------------------------------------------------------------------
RunStep(t) == StaticInitStep(t) \/ WaitStep(t) \/ SignalStep(t) \/ BroadcastStep(t)

CondNext ==
  /\ UNCHANGED use
  /\ \/ \E t \in Waiters : Wait(t) \/ WaitTimesOut(t)
     \/ \E t \in Signalers : Signal(t) \/ Broadcast(t) \/ Destroy(t)
     \/ \E t \in Threads : ClientLock(t) \/ ClientUnlock(t) \/ RunStep(t)

(* A thread inside the functions runs on until the kernel blocks it.       *)
(* Nobody is obliged to wait, to signal, to broadcast or to give the mutex *)
(* back.                                                                   *)
CondSpec ==
  /\ CondInit
  /\ [][CondNext]_condVars
  /\ \A t \in Threads : WF_condVars(UNCHANGED use /\ RunStep(t))

-----------------------------------------------------------------------------
CondTypeOK ==
  /\ use \in Uses
  /\ ev \in {0, 1} /\ ack \in {0, 1}
  /\ signaled \in {0, 1}
  /\ waiters \in 0..UMax
  /\ static_lock \in Threads \cup {NoThread}
  /\ evPosted \in {0, 1} /\ ackPosted \in {0, 1}
  /\ mutex \in Threads \cup {NoThread}
  /\ destroyed \in {0, 1}
  /\ pc \in [Threads -> Locations]
  /\ ret \in [Threads -> {"idle", "wInc", "sReset", "bLoop"}]
  /\ nested \in [Threads -> {0, 1}]
  /\ tokenOf \in Threads \cup {NoThread}
  /\ waits \in [Threads -> 0..MaxWaits]
  /\ owed \in [Threads -> SUBSET Threads]
  /\ toWake \in [Threads -> SUBSET Threads]

\* Nobody can be counted in before cond->waiters is cleared.
InitNotRaced == Initialized \/ SignalHoldsMutex

CountIsRight == waiters = Cardinality({t \in Threads : pc[t] \in Counted})

(* cond->waiters is the number of threads that have counted themselves in  *)
(* and not out: no waiter is invisible to a signal, and the count never    *)
(* wraps below zero.                                                       *)
WaitersCounted == InitNotRaced => CountIsRight

(* A token that has been placed can be found: ev is posted, or its         *)
(* signaler is about to post it, or an awakened waiter is on its way to    *)
(* the compare-and-exchange.  A wakeup is never stuck in the object while  *)
(* all waiters sleep.                                                      *)
TokenReachable ==
  signaled = 1 => \/ evPosted = 1
                  \/ \E t \in Threads : pc[t] \in {"sPost", "wReset", "wCas"}

(* However many threads find the object uninitialised at once, each event  *)
(* is created once: nobody can be left blocked on an event that another    *)
(* thread has replaced.                                                    *)
EventsCreatedOnce ==
  \A t \in Threads : /\ pc[t] = "createEv" => ev = 0
                     /\ pc[t] = "createAck" => ack = 0

(* A signal that is made with the mutex held and found a waiter has woken  *)
(* one when it returns: its own token was taken.                           *)
SignalWakesOne == SignalHoldsMutex => \A t \in Threads : pc[t] = "sDone" => owed[t] = {}

(* No wakeup is lost to clients that signal with the mutex held: when no   *)
(* token is left to be taken, every signal that found sleepers has woken   *)
(* one of them, unless they all gave up or were woken by others.  Two      *)
(* signals are not merged into one.                                        *)
NoLostWakeup == SignalHoldsMutex /\ tokenOf = NoThread => \A t \in Threads : owed[t] = {}

NoneLeftBehind == \A t \in Threads : pc[t] = "bDone" => toWake[t] = {}

(* When a broadcast returns, no thread that was waiting when it was called *)
(* is waiting still.                                                       *)
BroadcastWakesAll == InitNotRaced => NoneLeftBehind

(* After a broadcast with the mutex held the object can be destroyed at    *)
(* once, although the awakened waiters have not returned: they touch only  *)
(* the mutex.                                                              *)
NoUseAfterDestroy == SignalHoldsMutex /\ destroyed = 1 => \A t \in Threads : pc[t] \in {"idle", "wLock"}

(* Every signal and every broadcast that is made with the mutex held       *)
(* returns: nobody waits for ack for ever.                                 *)
SignalersReturn ==
  \A t \in Signalers :
    (SignalHoldsMutex /\ pc[t] \in SignalLocs \cup BroadcastLocs) ~> (pc[t] = "idle")

=============================================================================
