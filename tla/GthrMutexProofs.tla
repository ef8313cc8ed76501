--------------------------- MODULE GthrMutexProofs ---------------------------
(***************************************************************************)
(* Proofs about the OS/2 mutex for any set of threads, any nesting depth   *)
(* and any number of failed semaphore creations.                           *)
(***************************************************************************)
EXTENDS GthrMutex, TLAPS

Requested == {"query", "backOut", "abort"}

\* The request the thread has been granted but has not reported yet.
Extra(t) == IF pc[t] \in Requested THEN 1 ELSE 0

(* The static lock protects the creation, so at most one semaphore exists, *)
(* handle 1.                                                               *)
CreationInv ==
  /\ mtx = created /\ created \in {0, 1}
  /\ \A t \in Threads : pc[t] \in {"recheck", "create", "fmRelease"} => static_lock = t
  /\ \A t \in Threads : pc[t] = "create" => mtx = 0
  /\ \A t \in Threads : pc[t] \in {"wait"} \cup Requested => mtx = 1 /\ handle[t] = 1

(* The kernel's count is what the client was told plus what the thread is  *)
(* about to be told, and zero for everybody but the owner.                 *)
AccountInv ==
  /\ \A h \in Handles : owner[h] = NoThread <=> count[h] = 0
  /\ \A h \in Handles : h > created => count[h] = 0
  /\ \A t \in Threads : held[t] + Extra(t) = IF owner[1] = t THEN count[1] ELSE 0
  /\ \A t \in Threads : pc[t] \notin {"idle", "abort"} => held[t] < MaxDepth
  /\ \A t \in Threads : recursive = 0 => held[t] <= 1
  /\ \A t \in Threads : pc[t] \in {"backOut", "abort"} => held[t] > 0 /\ recursive = 0
  /\ \A t \in Threads : pc[t] = "abort" => mode[t] # "immediate"

MutexInv == MutexTypeOK /\ CreationInv /\ AccountInv

(* A mutex as __GTHREAD_MUTEX_INIT or __gthread_os2_mutex_init leaves it   *)
(* satisfies the invariant.                                                *)
LEMMA MutexInvInit == MutexInit => MutexInv
  BY MutexAssumption DEF MutexInit, MutexInv, MutexTypeOK, CreationInv, AccountInv, Extra,
     Requested, Locations, Modes, Handles, NULLHANDLE

(* Every step of the lock, trylock, timedlock, unlock and destroy          *)
(* functions keeps it.                                                     *)
LEMMA MutexInvStep == MutexInv /\ [MutexNext]_mutexVars => MutexInv'
  <1> SUFFICES ASSUME MutexInv, [MutexNext]_mutexVars PROVE MutexInv'
    OBVIOUS
  <1> USE MutexAssumption DEF MutexInv, MutexTypeOK, CreationInv, AccountInv, Extra, Requested,
      Locations, Modes, Handles, NULLHANDLE, Goto, object, kernel
  <1>0. ASSUME NEW t \in Threads, NEW l \in Locations \ Requested,
               pc[t] \notin Requested \cup {"idle"}, pc' = [pc EXCEPT ![t] = l],
               UNCHANGED <<recursive, created, owner, count, mode, held>>
        PROVE  AccountInv'
    <2>1. \A u \in Threads : Extra(u)' = Extra(u)
      BY <1>0
    <2> QED
      BY <1>0, <2>1
  <1>1. ASSUME NEW t \in Threads, NEW r \in {0, 1}, NEW m \in Modes, Lock(t, r, m)
        PROVE  MutexInv'
    BY <1>1 DEF Lock
  <1>2. ASSUME NEW t \in Threads, TestHandle(t) PROVE MutexInv'
    <2>1. MutexTypeOK'
      BY <1>2 DEF TestHandle
    <2>2. CreationInv'
      BY <1>2 DEF TestHandle
    <2>3. AccountInv'
      BY <1>2 DEF TestHandle
    <2> QED
      BY <2>1, <2>2, <2>3
  <1>3. ASSUME NEW t \in Threads, FmutexRequest(t) PROVE MutexInv'
    BY <1>3 DEF FmutexRequest
  <1>4. ASSUME NEW t \in Threads, Recheck(t) PROVE MutexInv'
    BY <1>4 DEF Recheck, StillUnset
  <1>5. ASSUME NEW t \in Threads, CreateSem(t) PROVE MutexInv'
    BY <1>5 DEF CreateSem
  <1>6. ASSUME NEW t \in Threads, FmutexRelease(t) PROVE MutexInv'
    BY <1>6 DEF FmutexRelease
  <1>7. ASSUME NEW t \in Threads, Request(t) PROVE MutexInv'
    <2>1. PICK l \in {"wait", "idle"} :
            pc' = [pc EXCEPT ![t] = l] /\ (l = "wait" => Usable(mtx))
      BY <1>7 DEF Request
    <2>2. MutexTypeOK' /\ CreationInv'
      BY <1>7, <2>1 DEF Request, Usable
    <2>3. AccountInv'
      BY <1>0, <1>7, <2>1 DEF Request
    <2> QED
      BY <2>2, <2>3
  <1>8. ASSUME NEW t \in Threads, Granted(t) PROVE MutexInv'
    <2>1. /\ handle[t] = 1 /\ mtx = 1 /\ 1 \in Handles
          /\ count[1] = held[t] /\ held[t] < MaxDepth
      <3>1. handle[t] = 1 /\ mtx = 1 /\ 1 \in Handles /\ held[t] < MaxDepth
        BY <1>8 DEF Granted
      <3>2. Extra(t) = 0
        BY <1>8 DEF Granted
      <3>3. owner[1] \in {NoThread, t}
        BY <1>8, <3>1 DEF Granted
      <3> QED
        BY <3>1, <3>2, <3>3
    <2>2. MutexTypeOK'
      <3>1. count' \in [Handles -> 0..(MaxDepth + 1)]
        BY <1>8, <2>1 DEF Granted
      <3> QED
        BY <1>8, <2>1, <3>1 DEF Granted
    <2>3. CreationInv'
      BY <1>8 DEF Granted
    <2>4. AccountInv'
      BY <1>8, <2>1 DEF Granted
    <2> QED
      BY <2>2, <2>3, <2>4
  <1>9. ASSUME NEW t \in Threads, TimedOut(t) PROVE MutexInv'
    BY <1>9 DEF TimedOut
  <1>10. ASSUME NEW t \in Threads, Query(t) PROVE MutexInv'
    <2>1. mtx = 1 /\ owner[1] = t /\ count[1] = held[t] + 1 /\ held[t] < MaxDepth
      BY <1>10 DEF Query
    <2>2. \A u \in Threads : u # t => held[u] = 0 /\ pc[u] \notin Requested
      BY <2>1
    <2>3. CASE SecondTry(t)
      BY <1>10, <2>1, <2>2, <2>3 DEF Query, SecondTry
    <2>4. CASE ~SecondTry(t) /\ SelfDeadlock
      <3>1. pc' = [pc EXCEPT ![t] = "abort"] /\ held[t] > 0 /\ recursive = 0
        BY <1>10, <2>1, <2>4 DEF Query, SelfDeadlock
      <3>2. mode[t] # "immediate"
        BY <2>1, <2>4, <3>1 DEF SecondTry
      <3> QED
        BY <1>10, <2>1, <2>2, <2>4, <3>1, <3>2 DEF Query
    <2>5. CASE ~SecondTry(t) /\ ~SelfDeadlock
      <3>1. pc' = [pc EXCEPT ![t] = "idle"] /\ held' = [held EXCEPT ![t] = @ + 1]
        BY <1>10, <2>5 DEF Query
      <3>2. MutexTypeOK' /\ CreationInv'
        BY <1>10, <2>1, <3>1 DEF Query
      <3>3. AccountInv'
        BY <1>10, <2>1, <2>2, <2>5, <3>1 DEF Query, SelfDeadlock
      <3> QED
        BY <3>2, <3>3
    <2> QED
      BY <2>3, <2>4, <2>5
  <1>11. ASSUME NEW t \in Threads, BackOut(t) PROVE MutexInv'
    BY <1>11 DEF BackOut, ReleaseSem
  <1>12. ASSUME NEW t \in Threads, NEW r \in {0, 1}, Unlock(t, r) PROVE MutexInv'
    BY <1>12 DEF Unlock, MayRelease, Usable, ReleaseSem
  <1>13. ASSUME NEW t \in Threads, NEW r \in {0, 1}, Destroy(t, r) PROVE MutexInv'
    BY <1>13 DEF Destroy, Usable
  <1>14. CASE UNCHANGED mutexVars
    BY <1>14 DEF mutexVars
  <1> HIDE DEF MutexInv, Modes
  <1> QED
    BY <1>1, <1>2, <1>3, <1>4, <1>5, <1>6, <1>7, <1>8, <1>9, <1>10, <1>11, <1>12, <1>13, <1>14
    DEF MutexNext, LockStep

(* Mutual exclusion, truthful return codes, at most one kernel semaphore,  *)
(* no second lock of a non-recursive mutex, and an assertion that stops    *)
(* nothing but a self-deadlock: for any number of threads racing through   *)
(* lock, trylock, timedlock, unlock and destroy.                           *)
THEOREM MutexSafe ==
  MutexSpec => [](/\ MutexTypeOK /\ MutualExclusion /\ OneSemaphore
                  /\ ReturnCodesAgree /\ NonRecursiveOnce /\ AbortOnlySelfLock)
  <1>1. MutexInv => /\ MutexTypeOK /\ OneSemaphore /\ NonRecursiveOnce /\ AbortOnlySelfLock
    BY DEF MutexInv, MutexTypeOK, CreationInv, AccountInv, OneSemaphore, NonRecursiveOnce,
           AbortOnlySelfLock
  <1>2. MutexInv => MutualExclusion
    BY DEF MutexInv, MutexTypeOK, AccountInv, Extra, MutualExclusion
  <1>3. MutexInv => ReturnCodesAgree
    <2> SUFFICES ASSUME MutexInv, NEW t \in Threads, pc[t] = "idle"
                 PROVE  held[t] = IF mtx # NULLHANDLE /\ owner[mtx] = t THEN count[mtx] ELSE 0
      BY DEF ReturnCodesAgree
    <2>1. held[t] = IF owner[1] = t THEN count[1] ELSE 0
      BY DEF MutexInv, MutexTypeOK, AccountInv, Extra, Requested
    <2>2. CASE mtx = 1
      BY <2>1, <2>2 DEF NULLHANDLE
    <2>3. CASE mtx = 0
      <3>1. count[1] = 0
        BY <2>3, MutexAssumption DEF MutexInv, CreationInv, AccountInv, Handles
      <3> QED
        BY <2>1, <2>3, <3>1 DEF NULLHANDLE
    <2> QED
      BY <2>2, <2>3 DEF MutexInv, CreationInv
  <1> QED
    BY MutexInvInit, MutexInvStep, <1>1, <1>2, <1>3, PTL DEF MutexSpec

(* What lock, trylock, timedlock and unlock have returned to a thread is   *)
(* what the kernel's semaphore says, however the calls of threads overlap. *)
THEOREM MutexTruthful == MutexSpec => []ReturnCodesAgree
  BY MutexSafe, PTL

(* The assertion in the lock functions stops nothing but a thread that     *)
(* locks a mutex it holds.                                                 *)
THEOREM MutexAbortsSelfLock == MutexSpec => []AbortOnlySelfLock
  BY MutexSafe, PTL

(* When some thread holds the mutex, it is the one the refinement mapping  *)
(* calls the owner.                                                        *)
LEMMA HolderIs ==
  ASSUME MutualExclusion, NEW t \in Threads, held[t] > 0
  PROVE  Holder = t
  BY DEF MutualExclusion, Holder

(* When nobody holds it, there is no owner.                                *)
LEMMA HolderNone ==
  ASSUME \A t \in Threads : ~(held[t] > 0)
  PROVE  Holder = NoThread
  BY DEF Holder

(* The lock functions of gthr-os2.c implement the abstract mutex: a lock   *)
(* that returns 0 is an Acquire, an unlock that returns 0 is a Release,    *)
(* and everything else, the creation race, timeouts, refused trylocks and  *)
(* failed creations included, is invisible.                                *)
THEOREM MutexRefines == MutexSpec => ImplementsMutex
  <1>1. MutexInit => Abs!AbsInit
    <2> SUFFICES ASSUME MutexInit PROVE Abs!AbsInit
      OBVIOUS
    <2>1. Holder = NoThread
      BY HolderNone DEF MutexInit
    <2> QED
      BY <2>1 DEF MutexInit, Abs!AbsInit
  <1>2. MutexInv /\ MutexInv' /\ [MutexNext]_mutexVars => [Abs!AbsNext]_(Abs!absVars)
    <2> SUFFICES ASSUME MutexInv, MutexInv', [MutexNext]_mutexVars
                 PROVE  [Abs!AbsNext]_(Abs!absVars)
      OBVIOUS
    <2>1. MutualExclusion /\ MutualExclusion'
      BY DEF MutexInv, MutexTypeOK, AccountInv, Extra, MutualExclusion
    <2>2. ASSUME UNCHANGED <<held, recursive>> PROVE UNCHANGED Abs!absVars
      BY <2>2 DEF Abs!absVars, Holder
    <2>3. ASSUME NEW t \in Threads, Query(t), held' = [held EXCEPT ![t] = @ + 1],
                 ~SelfDeadlock
          PROVE  Abs!Acquire(t)
      <3>1. /\ mtx = 1 /\ owner[1] = t /\ count[1] = held[t] + 1 /\ held[t] \in Nat
            /\ pc[t] = "query"
        BY <2>3 DEF Query, MutexInv, MutexTypeOK, CreationInv, AccountInv, Extra, Requested
      <3>2. held'[t] = held[t] + 1 /\ UNCHANGED recursive
        BY <2>3 DEF Query, MutexInv, MutexTypeOK, object
      <3>3. Holder' = t
        BY <2>1, <3>1, <3>2, HolderIs DEF Holder, MutualExclusion
      <3>4. CASE held[t] > 0
        <4>1. Holder = t
          BY <2>1, <3>4, HolderIs
        <4>2. recursive = 1
          BY <2>3, <3>1, <3>4 DEF SelfDeadlock, MutexInv, MutexTypeOK
        <4> QED
          BY <3>1, <3>2, <3>3, <4>1, <4>2, MutexAssumption DEF Abs!Acquire
      <3>5. CASE held[t] = 0
        <4>1. \A u \in Threads : ~(held[u] > 0)
          BY <3>1, <3>5 DEF MutexInv, MutexTypeOK, AccountInv, Extra
        <4>2. Holder = NoThread
          BY <4>1, HolderNone
        <4> QED
          BY <3>1, <3>2, <3>3, <3>5, <4>2, MutexAssumption DEF Abs!Acquire
      <3> QED
        BY <3>1, <3>4, <3>5
    <2>4. ASSUME NEW t \in Threads, NEW r \in {0, 1}, Unlock(t, r)
          PROVE  Abs!Release(t)
      <3>1. mtx = 1 /\ owner[1] = t /\ count[1] = held[t] /\ held[t] \in Nat
        BY <2>4 DEF Unlock, MayRelease, Usable, NULLHANDLE, MutexInv, MutexTypeOK, CreationInv,
                    AccountInv, Extra, Requested
      <3>2. held[t] > 0
        BY <3>1, MutexAssumption DEF MutexInv, AccountInv, Handles
      <3>3. /\ held' = [held EXCEPT ![t] = held[t] - 1] /\ held'[t] = held[t] - 1
            /\ UNCHANGED recursive
        BY <2>4, <3>1, <3>2 DEF Unlock, object, MutexInv, MutexTypeOK
      <3>4. Holder = t
        BY <2>1, <3>2, HolderIs
      <3>5. CASE held[t] = 1
        <4>1. \A u \in Threads : ~(held'[u] > 0)
          BY <2>1, <3>1, <3>2, <3>3, <3>5 DEF MutualExclusion, MutexInv, MutexTypeOK
        <4>2. Holder' = NoThread
          BY <4>1 DEF Holder
        <4> QED
          BY <3>1, <3>3, <3>4, <3>5, <4>2, MutexAssumption DEF Abs!Release
      <3>6. CASE held[t] # 1
        <4>1. Holder' = t
          BY <2>1, <3>1, <3>2, <3>3, <3>6 DEF Holder, MutualExclusion
        <4> QED
          BY <3>1, <3>3, <3>4, <3>6, <4>1, MutexAssumption DEF Abs!Release
      <3> QED
        BY <3>5, <3>6
    <2>5. ASSUME NEW t \in Threads, Query(t) PROVE [Abs!AbsNext]_(Abs!absVars)
      <3>1. CASE UNCHANGED held
        BY <2>2, <2>5, <3>1 DEF Query, object
      <3>2. CASE held' = [held EXCEPT ![t] = @ + 1] /\ ~SelfDeadlock
        BY <2>3, <2>5, <3>2 DEF Abs!AbsNext
      <3> QED
        BY <2>5, <3>1, <3>2 DEF Query
    <2>6. ASSUME NEW t \in Threads, LockStep(t), ~Query(t) PROVE UNCHANGED Abs!absVars
      BY <2>2, <2>6 DEF LockStep, TestHandle, FmutexRequest, Recheck, CreateSem, FmutexRelease,
         Request, Granted, TimedOut, BackOut, object
    <2>7. ASSUME NEW t \in Threads, NEW r \in {0, 1}, NEW m \in Modes,
                 Lock(t, r, m) \/ Destroy(t, r)
          PROVE  UNCHANGED Abs!absVars
      BY <2>2, <2>7 DEF Lock, Destroy, object
    <2>8. CASE UNCHANGED mutexVars
      BY <2>2, <2>8 DEF mutexVars, object
    <2>9. "timed" \in Modes
      BY DEF Modes
    <2> QED
      BY <2>4, <2>5, <2>6, <2>7, <2>8, <2>9 DEF MutexNext, Abs!AbsNext
  <1> QED
    BY <1>1, <1>2, MutexInvInit, MutexInvStep, PTL DEF MutexSpec, ImplementsMutex, Abs!AbsSpec

=============================================================================
