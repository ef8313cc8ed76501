---------------------------- MODULE GthrCondProofs ----------------------------
(***************************************************************************)
(* Proofs about the OS/2 condition variable for any finite sets of waiters *)
(* and signalers.                                                          *)
(*                                                                         *)
(* StaticInv and TokenInv hold however the object is used, also when       *)
(* threads race for its initialisation.  SharedInv and CountInv need the   *)
(* initialisation not to race with a waiter, because cond->waiters is      *)
(* cleared last; nothing is assumed there about timeouts, about who holds  *)
(* the mutex while signalling, or about how many threads signal at once.   *)
(* HandshakeInv is about clients that signal with the mutex held and wait  *)
(* without a timeout.                                                      *)
(***************************************************************************)
EXTENDS GthrCond, FiniteSetTheorems, TLAPS

CountedSet == {t \in Threads : pc[t] \in Counted}

\* Where a thread may be that has not yet found cond->ev set.
Before == {"idle", "wTest", "sTest", "bTest"}

\* The part of the initialisation that changes the object.
Creating == {"createEv", "createAck", "clrSignaled", "clrWaiters"}

\* Where a thread that signals with the mutex held, or waits, holds it.
Held == {"wTest", "wInc", "wUnlock"} \cup InitLocs \cup SignalLocs \cup BroadcastLocs

\* Where a signaler has placed its token and has not seen the acknowledgement.
Working == {"sPost", "sWait", "sBlocked"}

\* Where a waiter has taken the token and has not acknowledged it.
Leaving == {"wDec", "wAck"}

(* The static initialisation: one thread at a time, and while cond->ev is  *)
(* null nobody has got past the test.                                      *)
StaticInv ==
  /\ \A t \in Threads : pc[t] \in InitLocs \ {"fmRequest"} => static_lock = t
  /\ \A t \in Threads : pc[t] \in InitLocs => ret[t] # "idle"
  /\ EventsCreatedOnce
  /\ ev = 0 => /\ signaled = 0
               /\ \A t \in Threads : pc[t] \in Before \cup {"fmRequest", "recheck", "createEv"}
  /\ ev # ack => \E t \in Threads : pc[t] = "createAck"

\* A token that is there can be found, and where the mutex is held it has an owner.
TokenInv ==
  /\ SignalHoldsMutex => (signaled = 1 <=> tokenOf # NoThread)
  /\ TokenReachable

AlwaysInv == CondTypeOK /\ StaticInv /\ TokenInv

\* The object is initialised and stays so.
Ready == ev = 1 /\ ack = 1 /\ \A t \in Threads : pc[t] \notin Creating

(* The mutex keeps the initialisation apart from everything else, if the   *)
(* object was not initialised before it was shared.                        *)
SharedInv ==
  /\ SignalHoldsMutex => \A t \in Threads : pc[t] \in Held => mutex = t
  /\ Ready \/ (use = "locked" /\ \A t \in Threads : pc[t] \in Before \cup InitLocs)

\* A broadcast still has to wake only threads that are still waiting.
CountInv ==
  /\ CountIsRight
  /\ \A t \in Threads : toWake[t] \subseteq CountedSet
  /\ NoneLeftBehind

(* With the mutex held and no timeouts there is one signal at a time, and  *)
(* between placing the token and seeing the acknowledgement there is the   *)
(* token, or one waiter that has taken it, or the acknowledgement.  Nobody *)
(* is in the functions after a broadcast that found nobody waiting.        *)
HandshakeInv ==
  /\ \A t \in Threads : owed[t] # {} => tokenOf = t
  /\ signaled = 1 => /\ ackPosted = 0
                     /\ \E s \in Threads : pc[s] \in Working
                     /\ \A w \in Threads : pc[w] \notin Leaving
  /\ \A w \in Threads : pc[w] \in Leaving =>
       /\ ackPosted = 0
       /\ \E s \in Threads : pc[s] \in Working
       /\ \A u \in Threads : pc[u] \in Leaving => u = w
  /\ \A s \in Threads : pc[s] \in {"sLook", "sXchg"} => ackPosted = 0
  /\ \A s \in Threads : pc[s] = "bDone" => CountedSet = {}
  /\ NoUseAfterDestroy

CondInv ==
  /\ AlwaysInv
  /\ InitNotRaced => SharedInv /\ CountInv
  /\ use = "locked" => HandshakeInv

-----------------------------------------------------------------------------
(* Counting a set of threads gives a number that fits the type.            *)
LEMMA CountBound ==
  ASSUME NEW S \in SUBSET Threads
  PROVE  /\ IsFiniteSet(S) /\ Cardinality(S) \in 0..Cardinality(Threads)
         /\ Cardinality(Threads) \in Nat /\ UMax \in Nat /\ UMax > Cardinality(Threads)
  <1>1. IsFiniteSet(S) /\ Cardinality(S) <= Cardinality(Threads)
    BY CondAssumption, FS_Subset
  <1>2. Cardinality(S) \in Nat /\ Cardinality(Threads) \in Nat
    BY <1>1, CondAssumption, FS_CardinalityType
  <1> QED
    BY <1>1, <1>2, CondAssumption

(* A condition variable satisfies the invariant before it is used.         *)
LEMMA CondInvInit == CondInit => CondInv
  <1> SUFFICES ASSUME CondInit PROVE CondInv
    OBVIOUS
  <1>1. CountedSet = {} /\ \A t \in Threads : pc[t] = "idle"
    BY DEF CondInit, CountedSet, Counted
  <1>2. Cardinality({}) = 0
    BY FS_EmptySet
  <1>3. CondTypeOK
    BY CondAssumption DEF CondInit, CondTypeOK, Locations, Initialized
  <1>4. StaticInv /\ TokenInv
    BY <1>1, CondAssumption DEF CondInit, StaticInv, TokenInv, TokenReachable, EventsCreatedOnce,
       InitLocs, Before
  <1>5. InitNotRaced => SharedInv
    BY <1>1 DEF CondInit, InitNotRaced, Initialized, SignalHoldsMutex, SharedInv, Ready, Creating, Before, Held,
       InitLocs, SignalLocs, BroadcastLocs
  <1>6. CountInv
    BY <1>1, <1>2 DEF CondInit, CountInv, CountIsRight, CountedSet, NoneLeftBehind
  <1>7. HandshakeInv
    BY <1>1 DEF CondInit, HandshakeInv, Leaving, NoUseAfterDestroy
  <1> QED
    BY <1>3, <1>4, <1>5, <1>6, <1>7 DEF CondInv, AlwaysInv

(* No step leaves the types.                                               *)
LEMMA TypeStep ==
  ASSUME CondTypeOK, [CondNext]_condVars
  PROVE  CondTypeOK'
  <1> USE CondAssumption
  <1> USE DEF Goto, handles, words, events, control, history, CondTypeOK, Locations, WaitLocs, InitLocs, SignalLocs,
              BroadcastLocs
  <1>0. use' = use
    BY DEF CondNext, condVars
  <1> USE <1>0
  <1>1. ASSUME NEW t \in Threads, Wait(t) PROVE CondTypeOK'
    BY <1>1 DEF Wait, BoundedWaits
  <1>2. ASSUME NEW t \in Threads, WaitTimesOut(t) PROVE CondTypeOK'
    BY <1>2 DEF WaitTimesOut, NotOwed
  <1>3. ASSUME NEW t \in Threads, Signal(t) PROVE CondTypeOK'
    BY <1>3 DEF Signal
  <1>4. ASSUME NEW t \in Threads, Broadcast(t) PROVE CondTypeOK'
    BY <1>4 DEF Broadcast
  <1>5. ASSUME NEW t \in Threads, Destroy(t) PROVE CondTypeOK'
    BY <1>5 DEF Destroy
  <1>6. ASSUME NEW t \in Threads, ClientLock(t) PROVE CondTypeOK'
    BY <1>6 DEF ClientLock
  <1>7. ASSUME NEW t \in Threads, ClientUnlock(t) PROVE CondTypeOK'
    BY <1>7 DEF ClientUnlock
  <1>8. ASSUME NEW t \in Threads, FmutexRequest(t) PROVE CondTypeOK'
    BY <1>8 DEF FmutexRequest
  <1>9. ASSUME NEW t \in Threads, Recheck(t) PROVE CondTypeOK'
    BY <1>9 DEF Recheck, StillUnset
  <1>10. ASSUME NEW t \in Threads, CreateEv(t) PROVE CondTypeOK'
    BY <1>10 DEF CreateEv
  <1>11. ASSUME NEW t \in Threads, CreateAck(t) PROVE CondTypeOK'
    BY <1>11 DEF CreateAck
  <1>12. ASSUME NEW t \in Threads, ClearSignaled(t) PROVE CondTypeOK'
    BY <1>12 DEF ClearSignaled
  <1>13. ASSUME NEW t \in Threads, ClearWaiters(t) PROVE CondTypeOK'
    BY <1>13 DEF ClearWaiters
  <1>14. ASSUME NEW t \in Threads, FmutexRelease(t) PROVE CondTypeOK'
    BY <1>14 DEF FmutexRelease
  <1>15. ASSUME NEW t \in Threads, WaitTestEv(t) PROVE CondTypeOK'
    BY <1>15 DEF WaitTestEv, TestEv
  <1>16. ASSUME NEW t \in Threads, IncWaiters(t) PROVE CondTypeOK'
    BY <1>16 DEF IncWaiters, Inc
  <1>17. ASSUME NEW t \in Threads, UnlockMutex(t) PROVE CondTypeOK'
    BY <1>17 DEF UnlockMutex
  <1>18. ASSUME NEW t \in Threads, WaitEv(t) PROVE CondTypeOK'
    BY <1>18 DEF WaitEv
  <1>19. ASSUME NEW t \in Threads, ResetEv(t) PROVE CondTypeOK'
    BY <1>19 DEF ResetEv
  <1>20. ASSUME NEW t \in Threads, TakeToken(t) PROVE CondTypeOK'
    <2>1. owed' \in [Threads -> SUBSET Threads]
      <3>1. NotOwed(t) \in [Threads -> SUBSET Threads]
        BY DEF NotOwed
      <3>2. [u \in Threads |-> IF u = tokenOf THEN {} ELSE NotOwed(t)[u]] \in [Threads -> SUBSET Threads]
        BY <3>1
      <3> QED
        BY <1>20, <3>2 DEF TakeToken
    <2> QED
      BY <1>20, <2>1 DEF TakeToken
  <1>21. ASSUME NEW t \in Threads, DecWaiters(t) PROVE CondTypeOK'
    BY <1>21 DEF DecWaiters, Dec
  <1>22. ASSUME NEW t \in Threads, PostAck(t) PROVE CondTypeOK'
    BY <1>22 DEF PostAck, Post
  <1>23. ASSUME NEW t \in Threads, LockMutex(t) PROVE CondTypeOK'
    BY <1>23 DEF LockMutex
  <1>24. ASSUME NEW t \in Threads, SignalTestEv(t) PROVE CondTypeOK'
    BY <1>24 DEF SignalTestEv, TestEv
  <1>25. ASSUME NEW t \in Threads, ResetAck(t) PROVE CondTypeOK'
    BY <1>25 DEF ResetAck
  <1>26. ASSUME NEW t \in Threads, LookForWaiters(t) PROVE CondTypeOK'
    BY <1>26 DEF LookForWaiters, Caller
  <1>27. ASSUME NEW t \in Threads, PlaceToken(t) PROVE CondTypeOK'
    BY <1>27 DEF PlaceToken
  <1>28. ASSUME NEW t \in Threads, PostEv(t) PROVE CondTypeOK'
    BY <1>28 DEF PostEv, Post
  <1>29. ASSUME NEW t \in Threads, WaitAck(t) PROVE CondTypeOK'
    BY <1>29 DEF WaitAck, AckSeen
  <1>30. ASSUME NEW t \in Threads, SignalReturns(t) PROVE CondTypeOK'
    BY <1>30 DEF SignalReturns, Caller
  <1>31. ASSUME NEW t \in Threads, BroadcastTestEv(t) PROVE CondTypeOK'
    BY <1>31 DEF BroadcastTestEv, TestEv
  <1>32. ASSUME NEW t \in Threads, BroadcastLoop(t) PROVE CondTypeOK'
    BY <1>32 DEF BroadcastLoop, WaitersLeft
  <1>33. ASSUME NEW t \in Threads, BroadcastReturns(t) PROVE CondTypeOK'
    BY <1>33 DEF BroadcastReturns
  <1>34. CASE UNCHANGED condVars
    BY <1>34 DEF condVars
  <1>35. Waiters \subseteq Threads /\ Signalers \subseteq Threads
    BY DEF Threads
  <1> QED
    BY <1>1, <1>2, <1>3, <1>4, <1>5, <1>6, <1>7, <1>8, <1>9, <1>10, <1>11, <1>12, <1>13, <1>14, <1>15, <1>16, <1>17, <1>18, <1>19, <1>20, <1>21, <1>22, <1>23, <1>24, <1>25, <1>26, <1>27, <1>28, <1>29, <1>30, <1>31, <1>32, <1>33, <1>34, <1>35
    DEF CondNext, RunStep, StaticInitStep, WaitStep, SignalStep, BroadcastStep

(* No step disturbs the static initialisation.                             *)
LEMMA StaticStep ==
  ASSUME CondTypeOK, StaticInv, [CondNext]_condVars
  PROVE  StaticInv'
  <1> USE CondAssumption
  <1> USE DEF Goto, handles, words, events, control, history, StaticInv, EventsCreatedOnce, InitLocs, Before
  <1>0. /\ pc \in [Threads -> Locations] /\ ret \in [Threads -> {"idle", "wInc", "sReset", "bLoop"}]
        /\ ev \in {0, 1} /\ ack \in {0, 1} /\ signaled \in {0, 1}
    BY DEF CondTypeOK
  <1> USE <1>0
  <1>1. ASSUME NEW t \in Threads, Wait(t) PROVE StaticInv'
    BY <1>1 DEF Wait, BoundedWaits
  <1>2. ASSUME NEW t \in Threads, WaitTimesOut(t) PROVE StaticInv'
    BY <1>2 DEF WaitTimesOut, NotOwed
  <1>3. ASSUME NEW t \in Threads, Signal(t) PROVE StaticInv'
    BY <1>3 DEF Signal
  <1>4. ASSUME NEW t \in Threads, Broadcast(t) PROVE StaticInv'
    BY <1>4 DEF Broadcast
  <1>5. ASSUME NEW t \in Threads, Destroy(t) PROVE StaticInv'
    BY <1>5 DEF Destroy
  <1>6. ASSUME NEW t \in Threads, ClientLock(t) PROVE StaticInv'
    BY <1>6 DEF ClientLock
  <1>7. ASSUME NEW t \in Threads, ClientUnlock(t) PROVE StaticInv'
    BY <1>7 DEF ClientUnlock
  <1>8. ASSUME NEW t \in Threads, FmutexRequest(t) PROVE StaticInv'
    BY <1>8 DEF FmutexRequest
  <1>9. ASSUME NEW t \in Threads, Recheck(t) PROVE StaticInv'
    BY <1>9 DEF Recheck, StillUnset
  <1>10. ASSUME NEW t \in Threads, CreateEv(t) PROVE StaticInv'
    BY <1>10 DEF CreateEv
  <1>11. ASSUME NEW t \in Threads, CreateAck(t) PROVE StaticInv'
    BY <1>11 DEF CreateAck
  <1>12. ASSUME NEW t \in Threads, ClearSignaled(t) PROVE StaticInv'
    BY <1>12 DEF ClearSignaled
  <1>13. ASSUME NEW t \in Threads, ClearWaiters(t) PROVE StaticInv'
    BY <1>13 DEF ClearWaiters
  <1>14. ASSUME NEW t \in Threads, FmutexRelease(t) PROVE StaticInv'
    BY <1>14 DEF FmutexRelease
  <1>15. ASSUME NEW t \in Threads, WaitTestEv(t) PROVE StaticInv'
    BY <1>15 DEF WaitTestEv, TestEv
  <1>16. ASSUME NEW t \in Threads, IncWaiters(t) PROVE StaticInv'
    BY <1>16 DEF IncWaiters, Inc
  <1>17. ASSUME NEW t \in Threads, UnlockMutex(t) PROVE StaticInv'
    BY <1>17 DEF UnlockMutex
  <1>18. ASSUME NEW t \in Threads, WaitEv(t) PROVE StaticInv'
    BY <1>18 DEF WaitEv
  <1>19. ASSUME NEW t \in Threads, ResetEv(t) PROVE StaticInv'
    BY <1>19 DEF ResetEv
  <1>20. ASSUME NEW t \in Threads, TakeToken(t) PROVE StaticInv'
    BY <1>20 DEF TakeToken, TokenTaken, NotOwed
  <1>21. ASSUME NEW t \in Threads, DecWaiters(t) PROVE StaticInv'
    BY <1>21 DEF DecWaiters, Dec
  <1>22. ASSUME NEW t \in Threads, PostAck(t) PROVE StaticInv'
    BY <1>22 DEF PostAck, Post
  <1>23. ASSUME NEW t \in Threads, LockMutex(t) PROVE StaticInv'
    BY <1>23 DEF LockMutex
  <1>24. ASSUME NEW t \in Threads, SignalTestEv(t) PROVE StaticInv'
    BY <1>24 DEF SignalTestEv, TestEv
  <1>25. ASSUME NEW t \in Threads, ResetAck(t) PROVE StaticInv'
    BY <1>25 DEF ResetAck
  <1>26. ASSUME NEW t \in Threads, LookForWaiters(t) PROVE StaticInv'
    BY <1>26 DEF LookForWaiters, Caller
  <1>27. ASSUME NEW t \in Threads, PlaceToken(t) PROVE StaticInv'
    BY <1>27 DEF PlaceToken
  <1>28. ASSUME NEW t \in Threads, PostEv(t) PROVE StaticInv'
    BY <1>28 DEF PostEv, Post
  <1>29. ASSUME NEW t \in Threads, WaitAck(t) PROVE StaticInv'
    BY <1>29 DEF WaitAck, AckSeen
  <1>30. ASSUME NEW t \in Threads, SignalReturns(t) PROVE StaticInv'
    BY <1>30 DEF SignalReturns, Caller
  <1>31. ASSUME NEW t \in Threads, BroadcastTestEv(t) PROVE StaticInv'
    BY <1>31 DEF BroadcastTestEv, TestEv
  <1>32. ASSUME NEW t \in Threads, BroadcastLoop(t) PROVE StaticInv'
    BY <1>32 DEF BroadcastLoop, WaitersLeft
  <1>33. ASSUME NEW t \in Threads, BroadcastReturns(t) PROVE StaticInv'
    BY <1>33 DEF BroadcastReturns
  <1>34. CASE UNCHANGED condVars
    BY <1>34 DEF condVars
  <1>35. Waiters \subseteq Threads /\ Signalers \subseteq Threads
    BY DEF Threads
  <1> QED
    BY <1>1, <1>2, <1>3, <1>4, <1>5, <1>6, <1>7, <1>8, <1>9, <1>10, <1>11, <1>12, <1>13, <1>14, <1>15, <1>16, <1>17, <1>18, <1>19, <1>20, <1>21, <1>22, <1>23, <1>24, <1>25, <1>26, <1>27, <1>28, <1>29, <1>30, <1>31, <1>32, <1>33, <1>34, <1>35
    DEF CondNext, RunStep, StaticInitStep, WaitStep, SignalStep, BroadcastStep

(* No step puts a token out of reach.                                      *)
LEMMA TokenStep ==
  ASSUME CondTypeOK, StaticInv, TokenInv, [CondNext]_condVars
  PROVE  TokenInv'
  <1> USE CondAssumption
  <1> USE DEF Goto, handles, words, events, control, history, TokenInv, TokenReachable, StaticInv, InitLocs, Before,
              SignalHoldsMutex
  <1>0. /\ pc \in [Threads -> Locations] /\ ret \in [Threads -> {"idle", "wInc", "sReset", "bLoop"}]
        /\ ev \in {0, 1} /\ ack \in {0, 1} /\ signaled \in {0, 1} /\ evPosted \in {0, 1}
        /\ use' = use
    BY DEF CondTypeOK, CondNext, condVars
  <1> USE <1>0
  <1>1. ASSUME NEW t \in Threads, Wait(t) PROVE TokenInv'
    BY <1>1 DEF Wait, BoundedWaits
  <1>2. ASSUME NEW t \in Threads, WaitTimesOut(t) PROVE TokenInv'
    BY <1>2 DEF WaitTimesOut, NotOwed
  <1>3. ASSUME NEW t \in Threads, Signal(t) PROVE TokenInv'
    BY <1>3 DEF Signal
  <1>4. ASSUME NEW t \in Threads, Broadcast(t) PROVE TokenInv'
    BY <1>4 DEF Broadcast
  <1>5. ASSUME NEW t \in Threads, Destroy(t) PROVE TokenInv'
    BY <1>5 DEF Destroy
  <1>6. ASSUME NEW t \in Threads, ClientLock(t) PROVE TokenInv'
    BY <1>6 DEF ClientLock
  <1>7. ASSUME NEW t \in Threads, ClientUnlock(t) PROVE TokenInv'
    BY <1>7 DEF ClientUnlock
  <1>8. ASSUME NEW t \in Threads, FmutexRequest(t) PROVE TokenInv'
    BY <1>8 DEF FmutexRequest
  <1>9. ASSUME NEW t \in Threads, Recheck(t) PROVE TokenInv'
    BY <1>9 DEF Recheck, StillUnset
  <1>10. ASSUME NEW t \in Threads, CreateEv(t) PROVE TokenInv'
    BY <1>10 DEF CreateEv, EventsCreatedOnce
  <1>11. ASSUME NEW t \in Threads, CreateAck(t) PROVE TokenInv'
    BY <1>11 DEF CreateAck
  <1>12. ASSUME NEW t \in Threads, ClearSignaled(t) PROVE TokenInv'
    BY <1>12 DEF ClearSignaled
  <1>13. ASSUME NEW t \in Threads, ClearWaiters(t) PROVE TokenInv'
    BY <1>13 DEF ClearWaiters
  <1>14. ASSUME NEW t \in Threads, FmutexRelease(t) PROVE TokenInv'
    BY <1>14 DEF FmutexRelease
  <1>15. ASSUME NEW t \in Threads, WaitTestEv(t) PROVE TokenInv'
    BY <1>15 DEF WaitTestEv, TestEv
  <1>16. ASSUME NEW t \in Threads, IncWaiters(t) PROVE TokenInv'
    BY <1>16 DEF IncWaiters, Inc
  <1>17. ASSUME NEW t \in Threads, UnlockMutex(t) PROVE TokenInv'
    BY <1>17 DEF UnlockMutex
  <1>18. ASSUME NEW t \in Threads, WaitEv(t) PROVE TokenInv'
    BY <1>18 DEF WaitEv
  <1>19. ASSUME NEW t \in Threads, ResetEv(t) PROVE TokenInv'
    BY <1>19 DEF ResetEv
  <1>20. ASSUME NEW t \in Threads, TakeToken(t) PROVE TokenInv'
    BY <1>20 DEF TakeToken, TokenTaken, NotOwed
  <1>21. ASSUME NEW t \in Threads, DecWaiters(t) PROVE TokenInv'
    BY <1>21 DEF DecWaiters, Dec
  <1>22. ASSUME NEW t \in Threads, PostAck(t) PROVE TokenInv'
    BY <1>22 DEF PostAck, Post
  <1>23. ASSUME NEW t \in Threads, LockMutex(t) PROVE TokenInv'
    BY <1>23 DEF LockMutex
  <1>24. ASSUME NEW t \in Threads, SignalTestEv(t) PROVE TokenInv'
    BY <1>24 DEF SignalTestEv, TestEv
  <1>25. ASSUME NEW t \in Threads, ResetAck(t) PROVE TokenInv'
    BY <1>25 DEF ResetAck
  <1>26. ASSUME NEW t \in Threads, LookForWaiters(t) PROVE TokenInv'
    BY <1>26 DEF LookForWaiters, Caller
  <1>27. ASSUME NEW t \in Threads, PlaceToken(t) PROVE TokenInv'
    BY <1>27 DEF PlaceToken
  <1>28. ASSUME NEW t \in Threads, PostEv(t) PROVE TokenInv'
    BY <1>28 DEF PostEv, Post
  <1>29. ASSUME NEW t \in Threads, WaitAck(t) PROVE TokenInv'
    BY <1>29 DEF WaitAck, AckSeen
  <1>30. ASSUME NEW t \in Threads, SignalReturns(t) PROVE TokenInv'
    BY <1>30 DEF SignalReturns, Caller
  <1>31. ASSUME NEW t \in Threads, BroadcastTestEv(t) PROVE TokenInv'
    BY <1>31 DEF BroadcastTestEv, TestEv
  <1>32. ASSUME NEW t \in Threads, BroadcastLoop(t) PROVE TokenInv'
    BY <1>32 DEF BroadcastLoop, WaitersLeft
  <1>33. ASSUME NEW t \in Threads, BroadcastReturns(t) PROVE TokenInv'
    BY <1>33 DEF BroadcastReturns
  <1>34. CASE UNCHANGED condVars
    BY <1>34 DEF condVars
  <1>35. Waiters \subseteq Threads /\ Signalers \subseteq Threads
    BY DEF Threads
  <1> QED
    BY <1>1, <1>2, <1>3, <1>4, <1>5, <1>6, <1>7, <1>8, <1>9, <1>10, <1>11, <1>12, <1>13, <1>14, <1>15, <1>16, <1>17, <1>18, <1>19, <1>20, <1>21, <1>22, <1>23, <1>24, <1>25, <1>26, <1>27, <1>28, <1>29, <1>30, <1>31, <1>32, <1>33, <1>34, <1>35
    DEF CondNext, RunStep, StaticInitStep, WaitStep, SignalStep, BroadcastStep

(* No step of clients whose initialisation does not race lets go of the    *)
(* mutex inside the functions or uses an object that is not initialised.   *)
LEMMA SharedStep ==
  ASSUME CondTypeOK, StaticInv, SharedInv, [CondNext]_condVars
  PROVE  SharedInv'
  <1> USE CondAssumption
  <1> USE DEF Goto, handles, words, events, control, history, SharedInv, Ready, StaticInv, EventsCreatedOnce, Creating, Before, Held, InitLocs,
              SignalLocs, BroadcastLocs, SignalHoldsMutex
  <1>0. /\ pc \in [Threads -> Locations] /\ ret \in [Threads -> {"idle", "wInc", "sReset", "bLoop"}]
        /\ ev \in {0, 1} /\ ack \in {0, 1} /\ use' = use
    BY DEF CondTypeOK, CondNext, condVars
  <1> USE <1>0
  <1>1. ASSUME NEW t \in Threads, Wait(t) PROVE SharedInv'
    BY <1>1 DEF Wait, BoundedWaits
  <1>2. ASSUME NEW t \in Threads, WaitTimesOut(t) PROVE SharedInv'
    BY <1>2 DEF WaitTimesOut, NotOwed
  <1>3. ASSUME NEW t \in Threads, Signal(t) PROVE SharedInv'
    BY <1>3 DEF Signal, MaySignal
  <1>4. ASSUME NEW t \in Threads, Broadcast(t) PROVE SharedInv'
    BY <1>4 DEF Broadcast, MaySignal
  <1>5. ASSUME NEW t \in Threads, Destroy(t) PROVE SharedInv'
    BY <1>5 DEF Destroy
  <1>6. ASSUME NEW t \in Threads, ClientLock(t) PROVE SharedInv'
    BY <1>6 DEF ClientLock
  <1>7. ASSUME NEW t \in Threads, ClientUnlock(t) PROVE SharedInv'
    BY <1>7 DEF ClientUnlock
  <1>8. ASSUME NEW t \in Threads, FmutexRequest(t) PROVE SharedInv'
    BY <1>8 DEF FmutexRequest
  <1>9. ASSUME NEW t \in Threads, Recheck(t) PROVE SharedInv'
    BY <1>9 DEF Recheck, StillUnset
  <1>10. ASSUME NEW t \in Threads, CreateEv(t) PROVE SharedInv'
    BY <1>10 DEF CreateEv
  <1>11. ASSUME NEW t \in Threads, CreateAck(t) PROVE SharedInv'
    BY <1>11 DEF CreateAck
  <1>12. ASSUME NEW t \in Threads, ClearSignaled(t) PROVE SharedInv'
    BY <1>12 DEF ClearSignaled
  <1>13. ASSUME NEW t \in Threads, ClearWaiters(t) PROVE SharedInv'
    BY <1>13 DEF ClearWaiters
  <1>14. ASSUME NEW t \in Threads, FmutexRelease(t) PROVE SharedInv'
    BY <1>14 DEF FmutexRelease
  <1>15. ASSUME NEW t \in Threads, WaitTestEv(t) PROVE SharedInv'
    BY <1>15 DEF WaitTestEv, TestEv
  <1>16. ASSUME NEW t \in Threads, IncWaiters(t) PROVE SharedInv'
    BY <1>16 DEF IncWaiters, Inc
  <1>17. ASSUME NEW t \in Threads, UnlockMutex(t) PROVE SharedInv'
    BY <1>17 DEF UnlockMutex
  <1>18. ASSUME NEW t \in Threads, WaitEv(t) PROVE SharedInv'
    BY <1>18 DEF WaitEv
  <1>19. ASSUME NEW t \in Threads, ResetEv(t) PROVE SharedInv'
    BY <1>19 DEF ResetEv
  <1>20. ASSUME NEW t \in Threads, TakeToken(t) PROVE SharedInv'
    BY <1>20 DEF TakeToken, TokenTaken, NotOwed
  <1>21. ASSUME NEW t \in Threads, DecWaiters(t) PROVE SharedInv'
    BY <1>21 DEF DecWaiters, Dec
  <1>22. ASSUME NEW t \in Threads, PostAck(t) PROVE SharedInv'
    BY <1>22 DEF PostAck, Post
  <1>23. ASSUME NEW t \in Threads, LockMutex(t) PROVE SharedInv'
    BY <1>23 DEF LockMutex
  <1>24. ASSUME NEW t \in Threads, SignalTestEv(t) PROVE SharedInv'
    BY <1>24 DEF SignalTestEv, TestEv
  <1>25. ASSUME NEW t \in Threads, ResetAck(t) PROVE SharedInv'
    BY <1>25 DEF ResetAck
  <1>26. ASSUME NEW t \in Threads, LookForWaiters(t) PROVE SharedInv'
    BY <1>26 DEF LookForWaiters, Caller
  <1>27. ASSUME NEW t \in Threads, PlaceToken(t) PROVE SharedInv'
    BY <1>27 DEF PlaceToken
  <1>28. ASSUME NEW t \in Threads, PostEv(t) PROVE SharedInv'
    BY <1>28 DEF PostEv, Post
  <1>29. ASSUME NEW t \in Threads, WaitAck(t) PROVE SharedInv'
    BY <1>29 DEF WaitAck, AckSeen
  <1>30. ASSUME NEW t \in Threads, SignalReturns(t) PROVE SharedInv'
    BY <1>30 DEF SignalReturns, Caller
  <1>31. ASSUME NEW t \in Threads, BroadcastTestEv(t) PROVE SharedInv'
    BY <1>31 DEF BroadcastTestEv, TestEv
  <1>32. ASSUME NEW t \in Threads, BroadcastLoop(t) PROVE SharedInv'
    BY <1>32 DEF BroadcastLoop, WaitersLeft
  <1>33. ASSUME NEW t \in Threads, BroadcastReturns(t) PROVE SharedInv'
    BY <1>33 DEF BroadcastReturns
  <1>34. CASE UNCHANGED condVars
    BY <1>34 DEF condVars
  <1>35. Waiters \subseteq Threads /\ Signalers \subseteq Threads
    BY DEF Threads
  <1> QED
    BY <1>1, <1>2, <1>3, <1>4, <1>5, <1>6, <1>7, <1>8, <1>9, <1>10, <1>11, <1>12, <1>13, <1>14, <1>15, <1>16, <1>17, <1>18, <1>19, <1>20, <1>21, <1>22, <1>23, <1>24, <1>25, <1>26, <1>27, <1>28, <1>29, <1>30, <1>31, <1>32, <1>33, <1>34, <1>35
    DEF CondNext, RunStep, StaticInitStep, WaitStep, SignalStep, BroadcastStep

(* No step miscounts the waiters, or makes a broadcast forget one.         *)
LEMMA CountStep ==
  ASSUME CondTypeOK, SharedInv, CountInv, [CondNext]_condVars
  PROVE  CountInv'
  <1> USE CondAssumption
  <1> USE DEF Goto, handles, words, events, control, history, CountInv, CountedSet, Counted, NoneLeftBehind
  <1>0. /\ pc \in [Threads -> Locations] /\ ret \in [Threads -> {"idle", "wInc", "sReset", "bLoop"}]
        /\ toWake \in [Threads -> SUBSET Threads]
    BY DEF CondTypeOK
  <1> USE <1>0
  <1>1. ASSUME NEW t \in Threads, Wait(t) PROVE CountInv'
    <2>1. CountedSet' = CountedSet
      BY <1>1 DEF Wait, BoundedWaits
    <2> QED
      BY <1>1, <2>1 DEF Wait, BoundedWaits, CountIsRight
  <1>2. ASSUME NEW t \in Threads, WaitTimesOut(t) PROVE CountInv'
    <2>1. CountedSet' = CountedSet
      BY <1>2 DEF WaitTimesOut, NotOwed
    <2> QED
      BY <1>2, <2>1 DEF WaitTimesOut, NotOwed, CountIsRight
  <1>3. ASSUME NEW t \in Threads, Signal(t) PROVE CountInv'
    <2>1. CountedSet' = CountedSet
      BY <1>3 DEF Signal, MaySignal
    <2> QED
      BY <1>3, <2>1 DEF Signal, MaySignal, CountIsRight
  <1>4. ASSUME NEW t \in Threads, Broadcast(t) PROVE CountInv'
    <2>1. CountedSet' = CountedSet
      BY <1>4 DEF Broadcast, MaySignal
    <2> QED
      BY <1>4, <2>1 DEF Broadcast, MaySignal, CountIsRight
  <1>5. ASSUME NEW t \in Threads, Destroy(t) PROVE CountInv'
    <2>1. CountedSet' = CountedSet
      BY <1>5 DEF Destroy
    <2> QED
      BY <1>5, <2>1 DEF Destroy, CountIsRight
  <1>6. ASSUME NEW t \in Threads, ClientLock(t) PROVE CountInv'
    <2>1. CountedSet' = CountedSet
      BY <1>6 DEF ClientLock
    <2> QED
      BY <1>6, <2>1 DEF ClientLock, CountIsRight
  <1>7. ASSUME NEW t \in Threads, ClientUnlock(t) PROVE CountInv'
    <2>1. CountedSet' = CountedSet
      BY <1>7 DEF ClientUnlock
    <2> QED
      BY <1>7, <2>1 DEF ClientUnlock, CountIsRight
  <1>8. ASSUME NEW t \in Threads, FmutexRequest(t) PROVE CountInv'
    <2>1. CountedSet' = CountedSet
      BY <1>8 DEF FmutexRequest
    <2> QED
      BY <1>8, <2>1 DEF FmutexRequest, CountIsRight
  <1>9. ASSUME NEW t \in Threads, Recheck(t) PROVE CountInv'
    <2>1. CountedSet' = CountedSet
      BY <1>9 DEF Recheck, StillUnset
    <2> QED
      BY <1>9, <2>1 DEF Recheck, StillUnset, CountIsRight
  <1>10. ASSUME NEW t \in Threads, CreateEv(t) PROVE CountInv'
    <2>1. CountedSet' = CountedSet
      BY <1>10 DEF CreateEv
    <2> QED
      BY <1>10, <2>1 DEF CreateEv, CountIsRight
  <1>11. ASSUME NEW t \in Threads, CreateAck(t) PROVE CountInv'
    <2>1. CountedSet' = CountedSet
      BY <1>11 DEF CreateAck
    <2> QED
      BY <1>11, <2>1 DEF CreateAck, CountIsRight
  <1>12. ASSUME NEW t \in Threads, ClearSignaled(t) PROVE CountInv'
    <2>1. CountedSet' = CountedSet
      BY <1>12 DEF ClearSignaled
    <2> QED
      BY <1>12, <2>1 DEF ClearSignaled, CountIsRight
  <1>13. ASSUME NEW t \in Threads, ClearWaiters(t) PROVE CountInv'
    <2>1. pc[t] = "clrWaiters" /\ pc' = [pc EXCEPT ![t] = "fmRelease"] /\ waiters' = 0 /\ toWake' = toWake
      BY <1>13 DEF ClearWaiters
    <2>2. CountedSet = {} /\ CountedSet' = {}
      BY <2>1 DEF SharedInv, Ready, Creating, Before, InitLocs
    <2> QED
      BY <2>1, <2>2, FS_EmptySet DEF CountIsRight
  <1>14. ASSUME NEW t \in Threads, FmutexRelease(t) PROVE CountInv'
    <2>1. CountedSet' = CountedSet
      BY <1>14 DEF FmutexRelease
    <2> QED
      BY <1>14, <2>1 DEF FmutexRelease, CountIsRight
  <1>15. ASSUME NEW t \in Threads, WaitTestEv(t) PROVE CountInv'
    <2>1. CountedSet' = CountedSet
      BY <1>15 DEF WaitTestEv, TestEv
    <2> QED
      BY <1>15, <2>1 DEF WaitTestEv, TestEv, CountIsRight
  <1>16. ASSUME NEW t \in Threads, IncWaiters(t) PROVE CountInv'
    <2>1. pc[t] = "wInc" /\ pc' = [pc EXCEPT ![t] = "wUnlock"] /\ toWake' = toWake /\ waiters' = Inc(waiters)
      BY <1>16 DEF IncWaiters
    <2>2. t \notin CountedSet /\ CountedSet' = CountedSet \cup {t} /\ CountedSet \subseteq Threads
      BY <2>1
    <2>3. IsFiniteSet(CountedSet) /\ waiters = Cardinality(CountedSet)
      BY <2>2, CountBound DEF CountIsRight
    <2>4. Cardinality(CountedSet') = waiters + 1
      <3> HIDE DEF CountedSet
      <3>1. Cardinality(CountedSet \cup {t}) = Cardinality(CountedSet) + 1
        BY <2>2, <2>3, FS_AddElement
      <3> QED
        BY <2>2, <2>3, <3>1
    <2>5. waiters \in 0..Cardinality(Threads) /\ Cardinality(Threads) \in Nat /\ UMax > Cardinality(Threads)
      BY <2>2, <2>3, CountBound
    <2>6. waiters' = Cardinality(CountedSet')
      BY <2>1, <2>4, <2>5 DEF Inc
    <2> QED
      BY <2>1, <2>2, <2>6 DEF CountIsRight
  <1>17. ASSUME NEW t \in Threads, UnlockMutex(t) PROVE CountInv'
    <2>1. CountedSet' = CountedSet
      BY <1>17 DEF UnlockMutex
    <2> QED
      BY <1>17, <2>1 DEF UnlockMutex, CountIsRight
  <1>18. ASSUME NEW t \in Threads, WaitEv(t) PROVE CountInv'
    <2>1. CountedSet' = CountedSet
      BY <1>18 DEF WaitEv
    <2> QED
      BY <1>18, <2>1 DEF WaitEv, CountIsRight
  <1>19. ASSUME NEW t \in Threads, ResetEv(t) PROVE CountInv'
    <2>1. CountedSet' = CountedSet
      BY <1>19 DEF ResetEv
    <2> QED
      BY <1>19, <2>1 DEF ResetEv, CountIsRight
  <1>20. ASSUME NEW t \in Threads, TakeToken(t) PROVE CountInv'
    <2>1. CountedSet' = CountedSet
      BY <1>20 DEF TakeToken, TokenTaken, NotOwed
    <2> QED
      BY <1>20, <2>1 DEF TakeToken, TokenTaken, NotOwed, CountIsRight
  <1>21. ASSUME NEW t \in Threads, DecWaiters(t) PROVE CountInv'
    <2>1. /\ pc[t] = "wDec" /\ pc' = [pc EXCEPT ![t] = "wAck"] /\ waiters' = Dec(waiters)
          /\ toWake' = [u \in Threads |-> toWake[u] \ {t}]
      BY <1>21 DEF DecWaiters
    <2>2. t \in CountedSet /\ CountedSet' = CountedSet \ {t} /\ CountedSet \subseteq Threads
      BY <2>1
    <2>3. IsFiniteSet(CountedSet) /\ waiters = Cardinality(CountedSet)
      BY <2>2, CountBound DEF CountIsRight
    <2>4. Cardinality(CountedSet') = waiters - 1
      <3> HIDE DEF CountedSet
      <3>1. Cardinality(CountedSet \ {t}) = Cardinality(CountedSet) - 1
        BY <2>2, <2>3, FS_RemoveElement
      <3> QED
        BY <2>2, <2>3, <3>1
    <2>5. waiters \in Nat /\ waiters' = Cardinality(CountedSet')
      <3>1. waiters \in Nat /\ Cardinality(CountedSet') \in Nat
        BY <2>2, <2>3, CountBound
      <3> QED
        BY <2>1, <2>4, <3>1 DEF Dec
    <2> QED
      BY <2>1, <2>2, <2>5 DEF CountIsRight
  <1>22. ASSUME NEW t \in Threads, PostAck(t) PROVE CountInv'
    <2>1. CountedSet' = CountedSet
      BY <1>22 DEF PostAck, Post
    <2> QED
      BY <1>22, <2>1 DEF PostAck, Post, CountIsRight
  <1>23. ASSUME NEW t \in Threads, LockMutex(t) PROVE CountInv'
    <2>1. CountedSet' = CountedSet
      BY <1>23 DEF LockMutex
    <2> QED
      BY <1>23, <2>1 DEF LockMutex, CountIsRight
  <1>24. ASSUME NEW t \in Threads, SignalTestEv(t) PROVE CountInv'
    <2>1. CountedSet' = CountedSet
      BY <1>24 DEF SignalTestEv, TestEv
    <2> QED
      BY <1>24, <2>1 DEF SignalTestEv, TestEv, CountIsRight
  <1>25. ASSUME NEW t \in Threads, ResetAck(t) PROVE CountInv'
    <2>1. CountedSet' = CountedSet
      BY <1>25 DEF ResetAck
    <2> QED
      BY <1>25, <2>1 DEF ResetAck, CountIsRight
  <1>26. ASSUME NEW t \in Threads, LookForWaiters(t) PROVE CountInv'
    <2>1. CountedSet' = CountedSet
      BY <1>26 DEF LookForWaiters, Caller
    <2> QED
      BY <1>26, <2>1 DEF LookForWaiters, Caller, CountIsRight
  <1>27. ASSUME NEW t \in Threads, PlaceToken(t) PROVE CountInv'
    <2>1. CountedSet' = CountedSet
      BY <1>27 DEF PlaceToken
    <2> QED
      BY <1>27, <2>1 DEF PlaceToken, CountIsRight
  <1>28. ASSUME NEW t \in Threads, PostEv(t) PROVE CountInv'
    <2>1. CountedSet' = CountedSet
      BY <1>28 DEF PostEv, Post
    <2> QED
      BY <1>28, <2>1 DEF PostEv, Post, CountIsRight
  <1>29. ASSUME NEW t \in Threads, WaitAck(t) PROVE CountInv'
    <2>1. CountedSet' = CountedSet
      BY <1>29 DEF WaitAck, AckSeen
    <2> QED
      BY <1>29, <2>1 DEF WaitAck, AckSeen, CountIsRight
  <1>30. ASSUME NEW t \in Threads, SignalReturns(t) PROVE CountInv'
    <2>1. CountedSet' = CountedSet
      BY <1>30 DEF SignalReturns, Caller
    <2> QED
      BY <1>30, <2>1 DEF SignalReturns, Caller, CountIsRight
  <1>31. ASSUME NEW t \in Threads, BroadcastTestEv(t) PROVE CountInv'
    <2>1. CountedSet' = CountedSet
      BY <1>31 DEF BroadcastTestEv, TestEv
    <2> QED
      BY <1>31, <2>1 DEF BroadcastTestEv, TestEv, CountIsRight
  <1>32. ASSUME NEW t \in Threads, BroadcastLoop(t) PROVE CountInv'
    <2>1. PICK to \in {"sTest", "bDone"} : /\ pc[t] = "bLoop" /\ pc' = [pc EXCEPT ![t] = to]
                                           /\ to = "bDone" => waiters = 0
      BY <1>32 DEF BroadcastLoop, WaitersLeft
    <2>2. CountedSet' = CountedSet /\ UNCHANGED <<waiters, toWake>>
      BY <1>32, <2>1 DEF BroadcastLoop
    <2>3. waiters = 0 => CountedSet = {}
      BY CountBound, FS_EmptySet DEF CountIsRight
    <2> QED
      BY <2>1, <2>2, <2>3 DEF CountIsRight
  <1>33. ASSUME NEW t \in Threads, BroadcastReturns(t) PROVE CountInv'
    <2>1. CountedSet' = CountedSet
      BY <1>33 DEF BroadcastReturns
    <2> QED
      BY <1>33, <2>1 DEF BroadcastReturns, CountIsRight
  <1>34. CASE UNCHANGED condVars
    BY <1>34 DEF condVars, CountIsRight
  <1>35. Waiters \subseteq Threads /\ Signalers \subseteq Threads
    BY DEF Threads
  <1> QED
    BY <1>1, <1>2, <1>3, <1>4, <1>5, <1>6, <1>7, <1>8, <1>9, <1>10, <1>11, <1>12, <1>13, <1>14, <1>15, <1>16, <1>17, <1>18, <1>19, <1>20, <1>21, <1>22, <1>23, <1>24, <1>25, <1>26, <1>27, <1>28, <1>29, <1>30, <1>31, <1>32, <1>33, <1>34, <1>35
    DEF CondNext, RunStep, StaticInitStep, WaitStep, SignalStep, BroadcastStep

(* No step of clients that signal with the mutex held and wait without a   *)
(* timeout breaks the handshake between a signaler and the waiter that     *)
(* takes its token.                                                        *)
LEMMA HandshakeStep ==
  ASSUME CondTypeOK, StaticInv, TokenInv, SharedInv, CountInv, HandshakeInv, use = "locked", [CondNext]_condVars
  PROVE  HandshakeInv'
  <1> USE CondAssumption
  <1> USE DEF Goto, handles, words, events, control, history, HandshakeInv, NoUseAfterDestroy, CountedSet, Counted,
              Working, Leaving, SignalHoldsMutex
  <1>0. /\ pc \in [Threads -> Locations]
        /\ owed \in [Threads -> SUBSET Threads] /\ destroyed \in {0, 1} /\ signaled \in {0, 1} /\ ackPosted \in {0, 1}
        /\ use' = use /\ use = "locked"
        /\ (signaled = 1 <=> tokenOf # NoThread) /\ tokenOf \in Threads \cup {NoThread}
    BY DEF CondTypeOK, TokenInv, CondNext, condVars
  <1>a. \A t \in Threads : pc[t] \in Held => mutex = t
    BY DEF SharedInv
  <1>b. Ready \/ \A t \in Threads : pc[t] \in Before \cup InitLocs
    BY DEF SharedInv
  <1> USE <1>0, <1>a, <1>b DEF Held, InitLocs, SignalLocs, BroadcastLocs, Before, Ready, Creating
  <1>1. ASSUME NEW t \in Threads, Wait(t) PROVE HandshakeInv'
    BY <1>1 DEF Wait, BoundedWaits
  <1>2. ASSUME NEW t \in Threads, WaitTimesOut(t) PROVE HandshakeInv'
    BY <1>2 DEF WaitTimesOut, TimedWaits
  <1>3. ASSUME NEW t \in Threads, Signal(t) PROVE HandshakeInv'
    BY <1>3 DEF Signal, MaySignal
  <1>4. ASSUME NEW t \in Threads, Broadcast(t) PROVE HandshakeInv'
    BY <1>4 DEF Broadcast, MaySignal
  <1>5. ASSUME NEW t \in Threads, Destroy(t) PROVE HandshakeInv'
    BY <1>5 DEF Destroy, Locations, WaitLocs
  <1>6. ASSUME NEW t \in Threads, ClientLock(t) PROVE HandshakeInv'
    BY <1>6 DEF ClientLock
  <1>7. ASSUME NEW t \in Threads, ClientUnlock(t) PROVE HandshakeInv'
    BY <1>7 DEF ClientUnlock
  <1>8. ASSUME NEW t \in Threads, FmutexRequest(t) PROVE HandshakeInv'
    BY <1>8 DEF FmutexRequest
  <1>9. ASSUME NEW t \in Threads, Recheck(t) PROVE HandshakeInv'
    BY <1>9 DEF Recheck, StillUnset
  <1>10. ASSUME NEW t \in Threads, CreateEv(t) PROVE HandshakeInv'
    BY <1>10 DEF CreateEv
  <1>11. ASSUME NEW t \in Threads, CreateAck(t) PROVE HandshakeInv'
    BY <1>11 DEF CreateAck
  <1>12. ASSUME NEW t \in Threads, ClearSignaled(t) PROVE HandshakeInv'
    BY <1>12 DEF ClearSignaled
  <1>13. ASSUME NEW t \in Threads, ClearWaiters(t) PROVE HandshakeInv'
    BY <1>13 DEF ClearWaiters
  <1>14. ASSUME NEW t \in Threads, FmutexRelease(t) PROVE HandshakeInv'
    <2>1. ret[t] \in {"wInc", "sReset", "bLoop"}
      BY <1>14 DEF FmutexRelease, CondTypeOK, StaticInv
    <2> QED
      BY <1>14, <2>1 DEF FmutexRelease
  <1>15. ASSUME NEW t \in Threads, WaitTestEv(t) PROVE HandshakeInv'
    BY <1>15 DEF WaitTestEv, TestEv
  <1>16. ASSUME NEW t \in Threads, IncWaiters(t) PROVE HandshakeInv'
    BY <1>16 DEF IncWaiters, Inc
  <1>17. ASSUME NEW t \in Threads, UnlockMutex(t) PROVE HandshakeInv'
    BY <1>17 DEF UnlockMutex
  <1>18. ASSUME NEW t \in Threads, WaitEv(t) PROVE HandshakeInv'
    BY <1>18 DEF WaitEv
  <1>19. ASSUME NEW t \in Threads, ResetEv(t) PROVE HandshakeInv'
    BY <1>19 DEF ResetEv
  <1>20. ASSUME NEW t \in Threads, TakeToken(t) PROVE HandshakeInv'
    <2>1. CASE signaled = 1
      <3>1. /\ pc[t] = "wCas" /\ pc' = [pc EXCEPT ![t] = "wDec"]
            /\ signaled' = 0 /\ tokenOf' = NoThread /\ owed' = [u \in Threads |-> IF u = tokenOf THEN {} ELSE NotOwed(t)[u]]
            /\ UNCHANGED <<ackPosted, destroyed, mutex>>
        BY <1>20, <2>1 DEF TakeToken, TokenTaken
      <3>2. \A u \in Threads : owed'[u] = {}
        BY <3>1 DEF NotOwed
      <3> QED
        BY <2>1, <3>1, <3>2
    <2>2. CASE signaled # 1
      BY <1>20, <2>2 DEF TakeToken, TokenTaken
    <2> QED
      BY <2>1, <2>2
  <1>21. ASSUME NEW t \in Threads, DecWaiters(t) PROVE HandshakeInv'
    BY <1>21 DEF DecWaiters, Dec
  <1>22. ASSUME NEW t \in Threads, PostAck(t) PROVE HandshakeInv'
    BY <1>22 DEF PostAck, Post
  <1>23. ASSUME NEW t \in Threads, LockMutex(t) PROVE HandshakeInv'
    BY <1>23 DEF LockMutex
  <1>24. ASSUME NEW t \in Threads, SignalTestEv(t) PROVE HandshakeInv'
    BY <1>24 DEF SignalTestEv, TestEv
  <1>25. ASSUME NEW t \in Threads, ResetAck(t) PROVE HandshakeInv'
    BY <1>25 DEF ResetAck
  <1>26. ASSUME NEW t \in Threads, LookForWaiters(t) PROVE HandshakeInv'
    BY <1>26 DEF LookForWaiters, Caller
  <1>27. ASSUME NEW t \in Threads, PlaceToken(t) PROVE HandshakeInv'
    BY <1>27 DEF PlaceToken
  <1>28. ASSUME NEW t \in Threads, PostEv(t) PROVE HandshakeInv'
    BY <1>28 DEF PostEv, Post
  <1>29. ASSUME NEW t \in Threads, WaitAck(t) PROVE HandshakeInv'
    BY <1>29 DEF WaitAck, AckSeen
  <1>30. ASSUME NEW t \in Threads, SignalReturns(t) PROVE HandshakeInv'
    BY <1>30 DEF SignalReturns, Caller
  <1>31. ASSUME NEW t \in Threads, BroadcastTestEv(t) PROVE HandshakeInv'
    BY <1>31 DEF BroadcastTestEv, TestEv
  <1>32. ASSUME NEW t \in Threads, BroadcastLoop(t) PROVE HandshakeInv'
    <2>1. waiters = 0 => CountedSet = {}
      BY CountBound, FS_EmptySet DEF CountInv, CountIsRight
    <2> QED
      BY <1>32, <2>1 DEF BroadcastLoop, WaitersLeft
  <1>33. ASSUME NEW t \in Threads, BroadcastReturns(t) PROVE HandshakeInv'
    BY <1>33 DEF BroadcastReturns
  <1>34. CASE UNCHANGED condVars
    BY <1>34 DEF condVars, CountIsRight
  <1>35. Waiters \subseteq Threads /\ Signalers \subseteq Threads
    BY DEF Threads
  <1> QED
    BY <1>1, <1>2, <1>3, <1>4, <1>5, <1>6, <1>7, <1>8, <1>9, <1>10, <1>11, <1>12, <1>13, <1>14, <1>15, <1>16, <1>17, <1>18, <1>19, <1>20, <1>21, <1>22, <1>23, <1>24, <1>25, <1>26, <1>27, <1>28, <1>29, <1>30, <1>31, <1>32, <1>33, <1>34, <1>35
    DEF CondNext, RunStep, StaticInitStep, WaitStep, SignalStep, BroadcastStep

(* Every step keeps the invariant.                                         *)
LEMMA CondInvStep ==
  ASSUME CondInv, [CondNext]_condVars
  PROVE  CondInv'
  <1>1. use' = use
    BY DEF CondNext, condVars
  <1>2. AlwaysInv'
    BY TypeStep, StaticStep, TokenStep DEF CondInv, AlwaysInv
  <1>3. InitNotRaced => (SharedInv /\ CountInv)'
    BY SharedStep, CountStep DEF CondInv, AlwaysInv
  <1>4. use = "locked" => HandshakeInv'
    BY HandshakeStep DEF CondInv, AlwaysInv, InitNotRaced, SignalHoldsMutex
  <1> QED
    BY <1>1, <1>2, <1>3, <1>4 DEF CondInv, InitNotRaced, Initialized, SignalHoldsMutex

(* However the object is used, by any number of threads, its parts fit     *)
(* together as CondInv says.                                               *)
THEOREM CondFitsTogether == CondSpec => []CondInv
  BY CondInvInit, CondInvStep, PTL DEF CondSpec

(* The words, the handles and the threads' places keep their types however *)
(* the object is used.                                                     *)
THEOREM CondTypes == CondSpec => []CondTypeOK
  <1>1. CondInv => CondTypeOK
    BY DEF CondInv, AlwaysInv
  <1> QED
    BY <1>1, CondFitsTogether, PTL

(* cond->waiters counts exactly the threads that have counted themselves   *)
(* in and not out, for any number of threads and with or without the mutex *)
(* and timeouts, unless the object was shared without being initialised by *)
(* clients that signal without the mutex.                                  *)
THEOREM CondSafe == CondSpec => []WaitersCounted
  <1>1. CondInv => WaitersCounted
    BY DEF CondInv, CountInv, WaitersCounted
  <1> QED
    BY <1>1, CondFitsTogether, PTL

(* A token that __gthread_os2_cond_signal has placed can always be found,  *)
(* however the object is used.                                             *)
THEOREM TokensAreReachable == CondSpec => []TokenReachable
  <1>1. CondInv => TokenReachable
    BY DEF CondInv, AlwaysInv, TokenInv
  <1> QED
    BY <1>1, CondFitsTogether, PTL

(* However many threads find the object uninitialised at once,             *)
(* __gthread_os2_static_cond_init creates each event once.                 *)
THEOREM CondCreatesOnce == CondSpec => []EventsCreatedOnce
  <1>1. CondInv => EventsCreatedOnce
    BY DEF CondInv, AlwaysInv, StaticInv
  <1> QED
    BY <1>1, CondFitsTogether, PTL

(* When __gthread_os2_cond_broadcast returns, none of the threads that     *)
(* were waiting when it was called is waiting still.                       *)
THEOREM BroadcastsWakeAll == CondSpec => []BroadcastWakesAll
  <1>1. CondInv => BroadcastWakesAll
    BY DEF CondInv, CountInv, BroadcastWakesAll
  <1> QED
    BY <1>1, CondFitsTogether, PTL

(* A signal made with the mutex held, to threads that wait without a       *)
(* timeout, has woken one of them when it returns.                         *)
THEOREM SignalsWakeOne ==
  ASSUME "timed" \notin Uses
  PROVE  CondSpec => []SignalWakesOne
  <1>1. CondInv => SignalWakesOne
    <2> SUFFICES ASSUME CondInv, SignalHoldsMutex, NEW t \in Threads, pc[t] = "sDone"
                 PROVE  owed[t] = {}
      BY DEF SignalWakesOne
    <2>1. use = "locked"
      BY DEF SignalHoldsMutex, CondInv, AlwaysInv, CondTypeOK
    <2>2. HandshakeInv /\ SharedInv /\ TokenInv /\ CondTypeOK
      BY <2>1 DEF CondInv, AlwaysInv, InitNotRaced, SignalHoldsMutex
    <2>3. signaled # 1
      BY <2>2 DEF HandshakeInv, SharedInv, Working, Held, SignalLocs
    <2>4. tokenOf = NoThread
      BY <2>2, <2>3 DEF TokenInv
    <2> QED
      BY <2>2, <2>4, CondAssumption DEF HandshakeInv
  <1> QED
    BY <1>1, CondFitsTogether, PTL

(* No wakeup is lost and no two signals are merged, if the signals are     *)
(* made with the mutex held and nobody waits with a timeout.               *)
THEOREM NoWakeupIsLost ==
  ASSUME "timed" \notin Uses
  PROVE  CondSpec => []NoLostWakeup
  <1>1. CondInv => NoLostWakeup
    BY CondAssumption
    DEF NoLostWakeup, SignalHoldsMutex, CondInv, AlwaysInv, CondTypeOK, HandshakeInv
  <1> QED
    BY <1>1, CondFitsTogether, PTL

(* The object can be destroyed right after a broadcast with the mutex      *)
(* held: the threads it has woken touch only the mutex.                    *)
THEOREM DestroyIsSafe ==
  ASSUME "timed" \notin Uses
  PROVE  CondSpec => []NoUseAfterDestroy
  <1>1. CondInv => NoUseAfterDestroy
    BY DEF NoUseAfterDestroy, SignalHoldsMutex, CondInv, AlwaysInv, CondTypeOK, HandshakeInv
  <1> QED
    BY <1>1, CondFitsTogether, PTL

=============================================================================
