---------------------------- MODULE CxaGuardProofs ----------------------------
(***************************************************************************)
(* Proofs about CxaGuard: however many threads, statics and levels of      *)
(* nesting there are, and whatever the initialisers do, a static has one   *)
(* initialiser at a time, is built once, is not passed before it is built, *)
(* and nobody sleeps through the end of the initialisation it waits for.   *)
(*                                                                         *)
(* The inductive invariant adds to these properties what holds them        *)
(* together: who is inside the mutex holds it; a begun initialisation has  *)
(* its flag set and has built nothing yet; and what is built has its guard *)
(* set, or a thread on the way to set it.                                  *)
(***************************************************************************)
EXTENDS CxaGuard, TLAPS

\* The locations between locking and unlocking the mutex.
Inside == {"loop", "unlock0", "unlock1", "relClear", "relSet", "abClear", "broadcast", "unlockR"}

\* The locations of __cxa_guard_release before the guard is set.
Releasing == {"relLock", "relClear", "relSet"}

FramesInv ==
  \A t \in Threads : /\ pc[t] = "idle" <=> depth[t] = 0
                     /\ \A i \in 1..depth[t] : frame[t][i] \in Guards

MutexInv == \A t \in Threads : pc[t] \in Inside => mutex = t

FlagInv ==
  \A t \in Threads : \A i \in 1..MaxNest :
    Initialising(t, i) => inProgress[frame[t][i]] = 1

FreshInv ==
  \A t \in Threads : \A i \in 1..MaxNest :
    Initialising(t, i) /\ ~(i = depth[t] /\ pc[t] \in Releasing) => built[frame[t][i]] = 0

ReleasingInv == \A t \in Threads : pc[t] \in Releasing => built[Top(t)] = 1

WitnessInv ==
  \A g \in Guards :
    \/ built[g] = 0
    \/ built[g] = 1 /\ (guard[g] = 1 \/ \E t \in Threads : pc[t] \in Releasing /\ Top(t) = g)

GuardInv ==
  /\ GuardTypeOK /\ FramesInv /\ MutexInv
  /\ FlagInv /\ OneInitializer
  /\ FreshInv /\ ReleasingInv /\ WitnessInv /\ PassedIsBuilt
  /\ NoStrandedSleeper

\* In the initial states nobody is anywhere.
LEMMA GuardInvInit == GuardInit => GuardInv
  <1> SUFFICES ASSUME GuardInit PROVE GuardInv
    OBVIOUS
  <1> USE GuardAssumption DEF GuardInit
  <1>1. GuardTypeOK
    BY DEF GuardTypeOK, Locations
  <1>2. FramesInv /\ MutexInv /\ NoStrandedSleeper
    BY DEF FramesInv, MutexInv, Inside, NoStrandedSleeper
  <1>3. FlagInv /\ OneInitializer /\ FreshInv
    BY DEF FlagInv, OneInitializer, FreshInv, Initialising
  <1>4. ReleasingInv /\ WitnessInv /\ PassedIsBuilt
    BY DEF ReleasingInv, Releasing, WitnessInv, PassedIsBuilt
  <1> QED
    BY <1>1, <1>2, <1>3, <1>4 DEF GuardInv

\* A thread that is somewhere has a top guard.
LEMMA TopIsGuard ==
  ASSUME GuardInv, NEW t \in Threads, pc[t] # "idle"
  PROVE  depth[t] \in 1..MaxNest /\ Top(t) \in Guards
  BY GuardAssumption DEF GuardInv, GuardTypeOK, FramesInv, Top

(* What a step of t keeps when it only moves on, with the flags, guards    *)
(* and frames as they are, and does not begin or end an initialisation.    *)
LEMMA QuietMove ==
  ASSUME GuardInv, NEW t \in Threads, NEW to \in Locations \ {"idle"},
         pc' = [pc EXCEPT ![t] = to], pc[t] # "idle",
         pc[t] \in Owning <=> to \in Owning, pc[t] \in Releasing <=> to \in Releasing,
         UNCHANGED <<guard, inProgress, depth, frame, built>>
  PROVE  /\ pc' \in [Threads -> Locations]
         /\ FramesInv' /\ FlagInv' /\ OneInitializer'
         /\ FreshInv' /\ ReleasingInv' /\ WitnessInv'
  <1> USE DEF GuardInv, GuardTypeOK
  <1>1. pc' \in [Threads -> Locations] /\ pc'[t] = to
    OBVIOUS
  <1>2. \A u \in Threads : u # t => pc'[u] = pc[u]
    OBVIOUS
  <1>3. \A u \in Threads : \A i \in 1..MaxNest : Initialising(u, i)' <=> Initialising(u, i)
    BY <1>1, <1>2 DEF Initialising
  <1>4. \A u \in Threads : (pc'[u] \in Releasing <=> pc[u] \in Releasing) /\ Top(u)' = Top(u)
    BY <1>1, <1>2 DEF Top
  <1>5. FramesInv'
    BY <1>1, <1>2 DEF FramesInv
  <1>6. FlagInv' /\ OneInitializer'
    BY <1>3 DEF FlagInv, OneInitializer
  <1>7. FreshInv'
    BY <1>3, <1>4 DEF FreshInv
  <1>8. ReleasingInv' /\ WitnessInv'
    BY <1>4 DEF ReleasingInv, WitnessInv
  <1> QED
    BY <1>1, <1>5, <1>6, <1>7, <1>8

\* What it keeps when it returns from a guard that it does not own.
LEMMA PopMove ==
  ASSUME GuardInv, NEW t \in Threads,
         NEW from \in Locations \ (Owning \cup Releasing \cup {"idle"}),
         Return(t, from), UNCHANGED <<guard, inProgress, built>>
  PROVE  /\ pc' \in [Threads -> Locations] /\ pc'[t] \in {"idle", "init"}
         /\ \A u \in Threads : u # t => pc'[u] = pc[u] /\ Top(u)' = Top(u)
         /\ depth' \in [Threads -> 0..MaxNest]
         /\ frame' \in [Threads -> [1..MaxNest -> Guards \cup {NoGuard}]]
         /\ FramesInv' /\ FlagInv' /\ OneInitializer'
         /\ FreshInv' /\ ReleasingInv' /\ WitnessInv'
  <1> USE GuardAssumption DEF GuardInv, GuardTypeOK
  <1>1. pc[t] = from /\ depth[t] \in 1..MaxNest
    BY DEF Return, Goto, FramesInv
  <1>2. /\ pc' = [pc EXCEPT ![t] = IF depth[t] > 1 THEN "init" ELSE "idle"]
        /\ depth' = [depth EXCEPT ![t] = depth[t] - 1]
        /\ frame' = [frame EXCEPT ![t][depth[t]] = NoGuard]
    BY DEF Return, Goto
  <1>3. /\ pc' \in [Threads -> Locations] /\ pc'[t] \in {"idle", "init"}
        /\ pc'[t] = "idle" <=> depth'[t] = 0
    BY <1>1, <1>2 DEF Locations
  <1>4. /\ depth' \in [Threads -> 0..MaxNest] /\ depth'[t] = depth[t] - 1
        /\ \A u \in Threads : u # t => depth'[u] = depth[u]
    BY <1>1, <1>2
  <1>5. /\ frame' \in [Threads -> [1..MaxNest -> Guards \cup {NoGuard}]]
        /\ \A i \in 1..MaxNest : i # depth[t] => frame'[t][i] = frame[t][i]
        /\ \A u \in Threads : u # t => frame'[u] = frame[u]
    BY <1>1, <1>2
  <1>6. \A u \in Threads : u # t => pc'[u] = pc[u] /\ Top(u)' = Top(u)
    BY <1>2, <1>4, <1>5 DEF Top
  <1>7. \A u \in Threads : \A i \in 1..MaxNest :
          Initialising(u, i)' => Initialising(u, i) /\ frame'[u][i] = frame[u][i]
    <2> SUFFICES ASSUME NEW u \in Threads, NEW i \in 1..MaxNest, Initialising(u, i)'
                 PROVE  Initialising(u, i) /\ frame'[u][i] = frame[u][i]
      OBVIOUS
    <2>1. CASE u # t
      BY <2>1, <1>4, <1>5, <1>6 DEF Initialising
    <2>2. CASE u = t
      <3>1. i < depth[t]
        BY <2>2, <1>1, <1>3, <1>4 DEF Initialising
      <3> QED
        BY <2>2, <3>1, <1>1, <1>5 DEF Initialising
    <2> QED
      BY <2>1, <2>2
  <1>8. FramesInv'
    <2> SUFFICES ASSUME NEW u \in Threads
                 PROVE  /\ pc'[u] = "idle" <=> depth'[u] = 0
                        /\ \A i \in 1..depth'[u] : frame'[u][i] \in Guards
      BY DEF FramesInv
    <2>1. CASE u # t
      BY <2>1, <1>4, <1>5, <1>6 DEF FramesInv
    <2>2. CASE u = t
      <3>1. \A i \in 1..depth'[t] : i \in 1..depth[t] /\ i \in 1..MaxNest /\ i # depth[t]
        BY <1>1, <1>4
      <3>2. \A i \in 1..depth'[t] : frame'[t][i] \in Guards
        BY <3>1, <1>5 DEF FramesInv
      <3> QED
        BY <2>2, <3>2, <1>3
    <2> QED
      BY <2>1, <2>2
  <1>9. FlagInv' /\ OneInitializer'
    <2>1. FlagInv'
      BY <1>7 DEF FlagInv
    <2>2. OneInitializer'
      BY <1>7 DEF OneInitializer
    <2> QED
      BY <2>1, <2>2
  <1>10. FreshInv'
    <2> SUFFICES ASSUME NEW u \in Threads, NEW i \in 1..MaxNest, Initialising(u, i)',
                        ~(i = depth'[u] /\ pc'[u] \in Releasing)
                 PROVE  built'[frame'[u][i]] = 0
      BY DEF FreshInv
    <2>1. ~(i = depth[u] /\ pc[u] \in Releasing)
      BY <1>1, <1>4, <1>6
    <2> QED
      BY <2>1, <1>7 DEF FreshInv
  <1>11. ReleasingInv'
    BY <1>3, <1>6 DEF ReleasingInv, Releasing
  <1>12. WitnessInv'
    <2>1. \A u \in Threads : pc[u] \in Releasing => u # t
      BY <1>1
    <2>2. \A u \in Threads : pc[u] \in Releasing => pc'[u] \in Releasing /\ Top(u)' = Top(u)
      BY <2>1, <1>6
    <2> QED
      BY <2>2 DEF WitnessInv
  <1> QED
    BY <1>3, <1>4, <1>5, <1>6, <1>8, <1>9, <1>10, <1>11, <1>12

\* Every step of the library and of the program keeps the invariant.
LEMMA GuardInvStep == GuardInv /\ [GuardNext]_guardVars => GuardInv'
  <1> SUFFICES ASSUME GuardInv, [GuardNext]_guardVars PROVE GuardInv'
    OBVIOUS
  <1> USE GuardAssumption
  <1>1. ASSUME NEW t \in Threads, Lock(t) PROVE GuardInv'
    <2>1. pc[t] = "lock" /\ pc' = [pc EXCEPT ![t] = "loop"]
      BY <1>1 DEF Lock, Goto
    <2>2. /\ "loop" \in Locations \ {"idle"} /\ pc[t] # "idle"
          /\ pc[t] \in Owning <=> "loop" \in Owning
          /\ pc[t] \in Releasing <=> "loop" \in Releasing
      BY <2>1 DEF Locations, Owning, Releasing
    <2>3. /\ pc' \in [Threads -> Locations] /\ FramesInv' /\ FlagInv' /\ OneInitializer'
          /\ FreshInv' /\ ReleasingInv' /\ WitnessInv'
      BY <1>1, <2>1, <2>2, QuietMove DEF Lock
    <2>5. GuardTypeOK' /\ MutexInv'
      BY <1>1, <2>1, <2>3 DEF Lock, LockMutex, GuardInv, GuardTypeOK, MutexInv, Inside
    <2>6. PassedIsBuilt'
      BY <1>1, <2>1 DEF Lock, GuardInv, GuardTypeOK, PassedIsBuilt, Top
    <2>7. NoStrandedSleeper'
      BY <1>1, <2>1 DEF Lock, GuardInv, GuardTypeOK, NoStrandedSleeper, Top
    <2> QED
      BY <2>3, <2>5, <2>6, <2>7 DEF GuardInv
  <1>2. ASSUME NEW t \in Threads, LoopDone(t) PROVE GuardInv'
    <2>1. pc[t] = "loop" /\ pc' = [pc EXCEPT ![t] = "unlock0"]
      BY <1>2 DEF LoopDone, TestUnderLock, Goto
    <2>2. /\ "unlock0" \in Locations \ {"idle"} /\ pc[t] # "idle"
          /\ pc[t] \in Owning <=> "unlock0" \in Owning
          /\ pc[t] \in Releasing <=> "unlock0" \in Releasing
      BY <2>1 DEF Locations, Owning, Releasing
    <2>3. /\ pc' \in [Threads -> Locations] /\ FramesInv' /\ FlagInv' /\ OneInitializer'
          /\ FreshInv' /\ ReleasingInv' /\ WitnessInv'
      BY <1>2, <2>1, <2>2, QuietMove DEF LoopDone, TestUnderLock
    <2>5. GuardTypeOK' /\ MutexInv'
      BY <1>2, <2>1, <2>3 DEF LoopDone, TestUnderLock, GuardInv, GuardTypeOK, MutexInv, Inside
    <2>6. PassedIsBuilt'
      BY <1>2, <2>1, TopIsGuard DEF LoopDone, TestUnderLock, GuardInv, GuardTypeOK,
         PassedIsBuilt, Top
    <2>7. NoStrandedSleeper'
      BY <1>2, <2>1 DEF LoopDone, TestUnderLock, GuardInv, GuardTypeOK, NoStrandedSleeper, Top
    <2> QED
      BY <2>3, <2>5, <2>6, <2>7 DEF GuardInv
  <1>3. ASSUME NEW t \in Threads, LoopWait(t) PROVE GuardInv'
    <2>1. pc[t] = "loop" /\ pc' = [pc EXCEPT ![t] = "sleep"]
      BY <1>3 DEF LoopWait, TestUnderLock, InitInProgress, Goto
    <2>2. /\ "sleep" \in Locations \ {"idle"} /\ pc[t] # "idle"
          /\ pc[t] \in Owning <=> "sleep" \in Owning
          /\ pc[t] \in Releasing <=> "sleep" \in Releasing
      BY <2>1 DEF Locations, Owning, Releasing
    <2>3. /\ pc' \in [Threads -> Locations] /\ FramesInv' /\ FlagInv' /\ OneInitializer'
          /\ FreshInv' /\ ReleasingInv' /\ WitnessInv'
      BY <1>3, <2>1, <2>2, QuietMove DEF LoopWait, TestUnderLock, InitInProgress
    <2>5. GuardTypeOK' /\ MutexInv'
      BY <1>3, <2>1, <2>3 DEF LoopWait, TestUnderLock, InitInProgress, GuardInv, GuardTypeOK,
         MutexInv, Inside
    <2>6. PassedIsBuilt'
      BY <1>3, <2>1 DEF LoopWait, TestUnderLock, InitInProgress, GuardInv, GuardTypeOK,
         PassedIsBuilt, Top
    <2>7. NoStrandedSleeper'
      BY <1>3, <2>1 DEF LoopWait, TestUnderLock, InitInProgress, GuardInv, GuardTypeOK,
         NoStrandedSleeper, Top
    <2> QED
      BY <2>3, <2>5, <2>6, <2>7 DEF GuardInv
  <1>4. ASSUME NEW t \in Threads, Relock(t) PROVE GuardInv'
    <2>1. pc[t] = "relock" /\ pc' = [pc EXCEPT ![t] = "loop"]
      BY <1>4 DEF Relock, Goto
    <2>2. /\ "loop" \in Locations \ {"idle"} /\ pc[t] # "idle"
          /\ pc[t] \in Owning <=> "loop" \in Owning
          /\ pc[t] \in Releasing <=> "loop" \in Releasing
      BY <2>1 DEF Locations, Owning, Releasing
    <2>3. /\ pc' \in [Threads -> Locations] /\ FramesInv' /\ FlagInv' /\ OneInitializer'
          /\ FreshInv' /\ ReleasingInv' /\ WitnessInv'
      BY <1>4, <2>1, <2>2, QuietMove DEF Relock
    <2>5. GuardTypeOK' /\ MutexInv'
      BY <1>4, <2>1, <2>3 DEF Relock, LockMutex, GuardInv, GuardTypeOK, MutexInv, Inside
    <2>6. PassedIsBuilt'
      BY <1>4, <2>1 DEF Relock, GuardInv, GuardTypeOK, PassedIsBuilt, Top
    <2>7. NoStrandedSleeper'
      BY <1>4, <2>1 DEF Relock, GuardInv, GuardTypeOK, NoStrandedSleeper, Top
    <2> QED
      BY <2>3, <2>5, <2>6, <2>7 DEF GuardInv
  <1>5. ASSUME NEW t \in Threads, UnlockWin(t) PROVE GuardInv'
    <2>1. pc[t] = "unlock1" /\ pc' = [pc EXCEPT ![t] = "init"]
      BY <1>5 DEF UnlockWin, FreeForInit, Goto
    <2>2. /\ "init" \in Locations \ {"idle"} /\ pc[t] # "idle"
          /\ pc[t] \in Owning <=> "init" \in Owning
          /\ pc[t] \in Releasing <=> "init" \in Releasing
      BY <2>1 DEF Locations, Owning, Releasing
    <2>3. /\ pc' \in [Threads -> Locations] /\ FramesInv' /\ FlagInv' /\ OneInitializer'
          /\ FreshInv' /\ ReleasingInv' /\ WitnessInv'
      BY <1>5, <2>1, <2>2, QuietMove DEF UnlockWin, FreeForInit
    <2>5. GuardTypeOK' /\ MutexInv'
      BY <1>5, <2>1, <2>3 DEF UnlockWin, FreeForInit, GuardInv, GuardTypeOK, MutexInv, Inside
    <2>6. PassedIsBuilt'
      BY <1>5, <2>1 DEF UnlockWin, FreeForInit, GuardInv, GuardTypeOK, PassedIsBuilt, Top
    <2>7. NoStrandedSleeper'
      BY <1>5, <2>1 DEF UnlockWin, FreeForInit, GuardInv, GuardTypeOK, NoStrandedSleeper, Top
    <2> QED
      BY <2>3, <2>5, <2>6, <2>7 DEF GuardInv
  <1>6. ASSUME NEW t \in Threads, InitThrows(t) PROVE GuardInv'
    <2>1. pc[t] = "init" /\ pc' = [pc EXCEPT ![t] = "abLock"]
      BY <1>6 DEF InitThrows, Goto
    <2>2. /\ "abLock" \in Locations \ {"idle"} /\ pc[t] # "idle"
          /\ pc[t] \in Owning <=> "abLock" \in Owning
          /\ pc[t] \in Releasing <=> "abLock" \in Releasing
      BY <2>1 DEF Locations, Owning, Releasing
    <2>3. /\ pc' \in [Threads -> Locations] /\ FramesInv' /\ FlagInv' /\ OneInitializer'
          /\ FreshInv' /\ ReleasingInv' /\ WitnessInv'
      BY <1>6, <2>1, <2>2, QuietMove DEF InitThrows
    <2>5. GuardTypeOK' /\ MutexInv'
      BY <1>6, <2>1, <2>3 DEF InitThrows, GuardInv, GuardTypeOK, MutexInv, Inside
    <2>6. PassedIsBuilt'
      BY <1>6, <2>1 DEF InitThrows, GuardInv, GuardTypeOK, PassedIsBuilt, Top
    <2>7. NoStrandedSleeper'
      BY <1>6, <2>1 DEF InitThrows, GuardInv, GuardTypeOK, NoStrandedSleeper, Top
    <2> QED
      BY <2>3, <2>5, <2>6, <2>7 DEF GuardInv
  <1>7. ASSUME NEW t \in Threads, UnlockDone(t) PROVE GuardInv'
    <2>1. Return(t, "unlock0")
      BY <1>7 DEF UnlockDone
    <2>2. "unlock0" \in Locations \ (Owning \cup Releasing \cup {"idle"})
      BY DEF Locations, Owning, Releasing
    <2>3. /\ pc' \in [Threads -> Locations] /\ pc'[t] \in {"idle", "init"}
          /\ \A u \in Threads : u # t => pc'[u] = pc[u] /\ Top(u)' = Top(u)
          /\ depth' \in [Threads -> 0..MaxNest]
          /\ frame' \in [Threads -> [1..MaxNest -> Guards \cup {NoGuard}]]
          /\ FramesInv' /\ FlagInv' /\ OneInitializer'
          /\ FreshInv' /\ ReleasingInv' /\ WitnessInv'
      BY <1>7, <2>1, <2>2, PopMove DEF UnlockDone
    <2>5. GuardTypeOK' /\ MutexInv'
      BY <1>7, <2>1, <2>3 DEF UnlockDone, Return, Goto, GuardInv, GuardTypeOK, MutexInv, Inside
    <2>6. PassedIsBuilt'
      BY <1>7, <2>3 DEF UnlockDone, GuardInv, PassedIsBuilt
    <2>7. NoStrandedSleeper'
      BY <1>7, <2>1, <2>3 DEF UnlockDone, Return, Goto, GuardInv, NoStrandedSleeper
    <2> QED
      BY <2>3, <2>5, <2>6, <2>7 DEF GuardInv
  <1>8. ASSUME NEW t \in Threads, UnlockEnd(t) PROVE GuardInv'
    <2>1. Return(t, "unlockR")
      BY <1>8 DEF UnlockEnd
    <2>2. "unlockR" \in Locations \ (Owning \cup Releasing \cup {"idle"})
      BY DEF Locations, Owning, Releasing
    <2>3. /\ pc' \in [Threads -> Locations] /\ pc'[t] \in {"idle", "init"}
          /\ \A u \in Threads : u # t => pc'[u] = pc[u] /\ Top(u)' = Top(u)
          /\ depth' \in [Threads -> 0..MaxNest]
          /\ frame' \in [Threads -> [1..MaxNest -> Guards \cup {NoGuard}]]
          /\ FramesInv' /\ FlagInv' /\ OneInitializer'
          /\ FreshInv' /\ ReleasingInv' /\ WitnessInv'
      BY <1>8, <2>1, <2>2, PopMove DEF UnlockEnd
    <2>5. GuardTypeOK' /\ MutexInv'
      BY <1>8, <2>1, <2>3 DEF UnlockEnd, Return, Goto, GuardInv, GuardTypeOK, MutexInv, Inside
    <2>6. PassedIsBuilt'
      BY <1>8, <2>3 DEF UnlockEnd, GuardInv, PassedIsBuilt
    <2>7. NoStrandedSleeper'
      BY <1>8, <2>1, <2>3 DEF UnlockEnd, Return, Goto, GuardInv, NoStrandedSleeper
    <2> QED
      BY <2>3, <2>5, <2>6, <2>7 DEF GuardInv
  <1>9. ASSUME NEW t \in Threads, FastTest(t), guard[Top(t)] = 1 PROVE GuardInv'
    <2>1. Return(t, "test")
      BY <1>9 DEF FastTest
    <2>2. "test" \in Locations \ (Owning \cup Releasing \cup {"idle"})
      BY DEF Locations, Owning, Releasing
    <2>3. /\ pc' \in [Threads -> Locations] /\ pc'[t] \in {"idle", "init"}
          /\ \A u \in Threads : u # t => pc'[u] = pc[u] /\ Top(u)' = Top(u)
          /\ depth' \in [Threads -> 0..MaxNest]
          /\ frame' \in [Threads -> [1..MaxNest -> Guards \cup {NoGuard}]]
          /\ FramesInv' /\ FlagInv' /\ OneInitializer'
          /\ FreshInv' /\ ReleasingInv' /\ WitnessInv'
      BY <1>9, <2>1, <2>2, PopMove DEF FastTest
    <2>5. GuardTypeOK' /\ MutexInv'
      BY <1>9, <2>1, <2>3 DEF FastTest, Return, Goto, GuardInv, GuardTypeOK, MutexInv, Inside
    <2>6. PassedIsBuilt'
      BY <1>9, <2>3 DEF FastTest, GuardInv, PassedIsBuilt
    <2>7. NoStrandedSleeper'
      BY <1>9, <2>1, <2>3 DEF FastTest, Return, Goto, GuardInv, NoStrandedSleeper
    <2> QED
      BY <2>3, <2>5, <2>6, <2>7 DEF GuardInv
  <1>10. ASSUME NEW t \in Threads, FastTest(t), guard[Top(t)] # 1 PROVE GuardInv'
    <2>1. pc[t] = "test" /\ pc' = [pc EXCEPT ![t] = "lock"]
      BY <1>10 DEF FastTest, Goto
    <2>2. /\ "lock" \in Locations \ {"idle"} /\ pc[t] # "idle"
          /\ pc[t] \in Owning <=> "lock" \in Owning
          /\ pc[t] \in Releasing <=> "lock" \in Releasing
      BY <2>1 DEF Locations, Owning, Releasing
    <2>3. /\ pc' \in [Threads -> Locations] /\ FramesInv' /\ FlagInv' /\ OneInitializer'
          /\ FreshInv' /\ ReleasingInv' /\ WitnessInv'
      BY <1>10, <2>1, <2>2, QuietMove DEF FastTest
    <2>5. GuardTypeOK' /\ MutexInv'
      BY <1>10, <2>1, <2>3 DEF FastTest, GuardInv, GuardTypeOK, MutexInv, Inside
    <2>6. PassedIsBuilt'
      BY <1>10, <2>1 DEF FastTest, GuardInv, GuardTypeOK, PassedIsBuilt, Top
    <2>7. NoStrandedSleeper'
      BY <1>10, <2>1 DEF FastTest, GuardInv, GuardTypeOK, NoStrandedSleeper, Top
    <2> QED
      BY <2>3, <2>5, <2>6, <2>7 DEF GuardInv
  <1>11. ASSUME NEW t \in Threads, LockToEnd(t), pc[t] = "relLock" PROVE GuardInv'
    <2>1. pc[t] = "relLock" /\ pc' = [pc EXCEPT ![t] = "relClear"]
      BY <1>11 DEF LockToEnd, Goto
    <2>2. /\ "relClear" \in Locations \ {"idle"} /\ pc[t] # "idle"
          /\ pc[t] \in Owning <=> "relClear" \in Owning
          /\ pc[t] \in Releasing <=> "relClear" \in Releasing
      BY <2>1 DEF Locations, Owning, Releasing
    <2>3. /\ pc' \in [Threads -> Locations] /\ FramesInv' /\ FlagInv' /\ OneInitializer'
          /\ FreshInv' /\ ReleasingInv' /\ WitnessInv'
      BY <1>11, <2>1, <2>2, QuietMove DEF LockToEnd
    <2>5. GuardTypeOK' /\ MutexInv'
      BY <1>11, <2>1, <2>3 DEF LockToEnd, LockMutex, GuardInv, GuardTypeOK, MutexInv, Inside
    <2>6. PassedIsBuilt'
      BY <1>11, <2>1 DEF LockToEnd, GuardInv, GuardTypeOK, PassedIsBuilt, Top
    <2>7. NoStrandedSleeper'
      BY <1>11, <2>1 DEF LockToEnd, GuardInv, GuardTypeOK, NoStrandedSleeper, Top
    <2> QED
      BY <2>3, <2>5, <2>6, <2>7 DEF GuardInv
  <1>12. ASSUME NEW t \in Threads, LockToEnd(t), pc[t] = "abLock" PROVE GuardInv'
    <2>1. pc[t] = "abLock" /\ pc' = [pc EXCEPT ![t] = "abClear"]
      BY <1>12 DEF LockToEnd, Goto
    <2>2. /\ "abClear" \in Locations \ {"idle"} /\ pc[t] # "idle"
          /\ pc[t] \in Owning <=> "abClear" \in Owning
          /\ pc[t] \in Releasing <=> "abClear" \in Releasing
      BY <2>1 DEF Locations, Owning, Releasing
    <2>3. /\ pc' \in [Threads -> Locations] /\ FramesInv' /\ FlagInv' /\ OneInitializer'
          /\ FreshInv' /\ ReleasingInv' /\ WitnessInv'
      BY <1>12, <2>1, <2>2, QuietMove DEF LockToEnd
    <2>5. GuardTypeOK' /\ MutexInv'
      BY <1>12, <2>1, <2>3 DEF LockToEnd, LockMutex, GuardInv, GuardTypeOK, MutexInv, Inside
    <2>6. PassedIsBuilt'
      BY <1>12, <2>1 DEF LockToEnd, GuardInv, GuardTypeOK, PassedIsBuilt, Top
    <2>7. NoStrandedSleeper'
      BY <1>12, <2>1 DEF LockToEnd, GuardInv, GuardTypeOK, NoStrandedSleeper, Top
    <2> QED
      BY <2>3, <2>5, <2>6, <2>7 DEF GuardInv
  <1>13. ASSUME NEW t \in Threads, Broadcast(t) PROVE GuardInv'
    <2>1. /\ pc[t] = "broadcast" /\ pc'[t] = "unlockR" /\ pc' \in [Threads -> Locations]
          /\ \A u \in Threads : u # t /\ pc[u] # "sleep" => pc'[u] = pc[u]
          /\ \A u \in Threads : u # t /\ pc[u] = "sleep" => pc'[u] = "relock"
      BY <1>13 DEF Broadcast, Woken, GuardInv, GuardTypeOK, Locations
    <2>2. UNCHANGED <<guard, inProgress, mutex, depth, frame, built, throws>>
      BY <1>13 DEF Broadcast
    <2>3. \A u \in Threads :
            /\ pc'[u] \in Owning <=> pc[u] \in Owning
            /\ pc'[u] \in Releasing <=> pc[u] \in Releasing
            /\ pc'[u] \in Inside <=> pc[u] \in Inside
            /\ pc'[u] = "idle" <=> pc[u] = "idle"
            /\ pc'[u] = "unlock0" <=> pc[u] = "unlock0"
            /\ pc'[u] # "sleep"
            /\ Top(u)' = Top(u)
      BY <2>1, <2>2 DEF Owning, Releasing, Inside, Top
    <2>4. \A u \in Threads : \A i \in 1..MaxNest : Initialising(u, i)' <=> Initialising(u, i)
      BY <2>2, <2>3 DEF Initialising
    <2>5. FramesInv' /\ MutexInv' /\ NoStrandedSleeper'
      BY <2>2, <2>3 DEF GuardInv, FramesInv, MutexInv, NoStrandedSleeper
    <2>6. FlagInv' /\ OneInitializer'
      BY <2>2, <2>4 DEF GuardInv, FlagInv, OneInitializer
    <2>7. FreshInv'
      BY <2>2, <2>3, <2>4 DEF GuardInv, FreshInv
    <2>8. ReleasingInv' /\ WitnessInv' /\ PassedIsBuilt'
      BY <2>2, <2>3 DEF GuardInv, ReleasingInv, WitnessInv, PassedIsBuilt
    <2>9. GuardTypeOK'
      BY <2>1, <2>2 DEF GuardInv, GuardTypeOK
    <2> QED
      BY <2>5, <2>6, <2>7, <2>8, <2>9 DEF GuardInv
  <1>14. ASSUME NEW t \in Threads, NEW g \in Guards, Acquire(t, g) PROVE GuardInv'
    <2>1. /\ pc[t] \in {"idle", "init"} /\ pc' = [pc EXCEPT ![t] = "test"]
          /\ depth' = [depth EXCEPT ![t] = depth[t] + 1] /\ depth[t] < MaxNest
          /\ frame' = [frame EXCEPT ![t][depth[t] + 1] = g]
          /\ UNCHANGED <<guard, inProgress, mutex, built, throws>>
      BY <1>14 DEF Acquire, Goto
    <2>2. /\ pc' \in [Threads -> Locations] /\ pc'[t] = "test"
          /\ depth' \in [Threads -> 0..MaxNest] /\ depth'[t] = depth[t] + 1
          /\ frame' \in [Threads -> [1..MaxNest -> Guards \cup {NoGuard}]]
          /\ depth[t] \in Nat /\ frame'[t][depth[t] + 1] = g
          /\ \A i \in 1..MaxNest : i # depth[t] + 1 => frame'[t][i] = frame[t][i]
      BY <2>1 DEF GuardInv, GuardTypeOK, Locations
    <2>3. \A u \in Threads : u # t =>
            pc'[u] = pc[u] /\ depth'[u] = depth[u] /\ frame'[u] = frame[u] /\ Top(u)' = Top(u)
      BY <2>1 DEF GuardInv, GuardTypeOK, Top
    <2>4. \A u \in Threads : \A i \in 1..MaxNest :
            Initialising(u, i)' => Initialising(u, i) /\ frame'[u][i] = frame[u][i]
      <3> SUFFICES ASSUME NEW u \in Threads, NEW i \in 1..MaxNest, Initialising(u, i)'
                   PROVE  Initialising(u, i) /\ frame'[u][i] = frame[u][i]
        OBVIOUS
      <3>1. CASE u # t
        BY <3>1, <2>3 DEF Initialising
      <3>2. CASE u = t
        <4>1. i \in 1..depth[t]
          BY <3>2, <2>2 DEF Initialising, Owning
        <4>2. pc[t] \in Owning
          BY <4>1, <2>1 DEF Owning, GuardInv, FramesInv
        <4> QED
          BY <3>2, <4>1, <4>2, <2>2 DEF Initialising
      <3> QED
        BY <3>1, <3>2
    <2>5. FramesInv'
      <3>1. \A u \in Threads : u # t =>
              /\ pc'[u] = "idle" <=> depth'[u] = 0
              /\ \A i \in 1..depth'[u] : frame'[u][i] \in Guards
        BY <2>3 DEF GuardInv, FramesInv
      <3>2. \A i \in 1..depth'[t] : frame'[t][i] \in Guards
        <4> SUFFICES ASSUME NEW i \in 1..depth'[t] PROVE frame'[t][i] \in Guards
          OBVIOUS
        <4>1. CASE i = depth[t] + 1
          BY <4>1, <2>2
        <4>2. CASE i # depth[t] + 1
          <5>1. i \in 1..depth[t] /\ i \in 1..MaxNest
            BY <4>2, <2>1, <2>2
          <5> QED
            BY <4>2, <5>1, <2>2 DEF GuardInv, FramesInv
        <4> QED
          BY <4>1, <4>2
      <3>3. pc'[t] # "idle" /\ depth'[t] # 0
        BY <2>2
      <3> QED
        BY <3>1, <3>2, <3>3 DEF FramesInv
    <2>6. FlagInv'
      BY <2>1, <2>4 DEF GuardInv, FlagInv
    <2>7. OneInitializer'
      BY <2>4 DEF GuardInv, OneInitializer
    <2>8. FreshInv'
      BY <2>1, <2>2, <2>3, <2>4 DEF GuardInv, FreshInv, Releasing
    <2>9. ReleasingInv'
      BY <2>1, <2>2, <2>3 DEF GuardInv, ReleasingInv, Releasing
    <2>10. WitnessInv'
      <3>1. \A u \in Threads : pc[u] \in Releasing => pc'[u] \in Releasing /\ Top(u)' = Top(u)
        BY <2>1, <2>3 DEF Releasing
      <3> QED
        BY <2>1, <3>1 DEF GuardInv, WitnessInv
    <2>11. PassedIsBuilt' /\ NoStrandedSleeper'
      BY <2>1, <2>2, <2>3 DEF GuardInv, PassedIsBuilt, NoStrandedSleeper
    <2>12. GuardTypeOK' /\ MutexInv'
      BY <2>1, <2>2, <2>3 DEF GuardInv, GuardTypeOK, MutexInv, Inside
    <2> QED
      BY <2>5, <2>6, <2>7, <2>8, <2>9, <2>10, <2>11, <2>12 DEF GuardInv
  <1>15. ASSUME NEW t \in Threads, LoopWin(t) PROVE GuardInv'
    <2>1. /\ pc[t] = "loop" /\ pc' = [pc EXCEPT ![t] = "unlock1"]
          /\ guard[Top(t)] # 1 /\ inProgress[Top(t)] # 1
          /\ inProgress' = [inProgress EXCEPT ![Top(t)] = 1]
          /\ UNCHANGED <<guard, mutex, depth, frame, built, throws>>
      BY <1>15 DEF LoopWin, Goto, TestUnderLock, InitInProgress
    <2>2. /\ pc' \in [Threads -> Locations] /\ pc'[t] = "unlock1"
          /\ inProgress' \in [Guards -> {0, 1}]
          /\ inProgress'[Top(t)] = 1 /\ \A h \in Guards : inProgress[h] = 1 => inProgress'[h] = 1
          /\ depth[t] \in 1..MaxNest /\ Top(t) \in Guards
      BY <2>1, TopIsGuard DEF GuardInv, GuardTypeOK, Locations
    <2>3. \A u \in Threads : Top(u)' = Top(u) /\ (u # t => pc'[u] = pc[u])
      BY <2>1 DEF GuardInv, GuardTypeOK, Top
    <2>4. \A u \in Threads : \A i \in 1..MaxNest :
            Initialising(u, i)' <=> Initialising(u, i) \/ (u = t /\ i = depth[t])
      BY <2>1, <2>2, <2>3 DEF Initialising, Owning
    <2>5. \A u \in Threads : \A i \in 1..MaxNest : Initialising(u, i) => frame[u][i] # Top(t)
      BY <2>1 DEF GuardInv, FlagInv
    <2>6. \A u \in Threads : \A i \in 1..MaxNest : Initialising(u, i) => frame[u][i] \in Guards
      BY DEF GuardInv, GuardTypeOK, FramesInv, Initialising
    <2>7. FlagInv'
      BY <2>1, <2>2, <2>4, <2>6 DEF GuardInv, FlagInv, Top
    <2>8. OneInitializer'
      BY <2>1, <2>4, <2>5 DEF GuardInv, OneInitializer, Top
    <2>9. built[Top(t)] = 0
      <3>1. ASSUME NEW u \in Threads, pc[u] \in Releasing, Top(u) = Top(t) PROVE FALSE
        <4>1. CASE pc[u] = "relSet"
          BY <4>1, <2>1 DEF GuardInv, MutexInv, Inside
        <4>2. CASE pc[u] # "relSet"
          <5>1. depth[u] \in 1..MaxNest /\ Initialising(u, depth[u])
            BY <4>2, <3>1, TopIsGuard DEF Initialising, Owning, Releasing
          <5> QED
            BY <5>1, <3>1, <2>5 DEF Top
        <4> QED
          BY <4>1, <4>2
      <3> QED
        BY <2>1, <2>2, <3>1 DEF GuardInv, WitnessInv
    <2>10. FreshInv'
      BY <2>1, <2>2, <2>3, <2>4, <2>9 DEF GuardInv, FreshInv, Releasing, Top
    <2>11. ReleasingInv' /\ WitnessInv'
      BY <2>1, <2>2, <2>3 DEF GuardInv, ReleasingInv, WitnessInv, Releasing
    <2>12. FramesInv' /\ PassedIsBuilt'
      BY <2>1, <2>2, <2>3 DEF GuardInv, FramesInv, PassedIsBuilt
    <2>13. NoStrandedSleeper'
      <3>1. \A u \in Threads : pc[u] = "sleep" => Top(u) \in Guards
        BY TopIsGuard
      <3> QED
        BY <2>1, <2>2, <2>3, <3>1 DEF GuardInv, NoStrandedSleeper
    <2>14. GuardTypeOK' /\ MutexInv'
      BY <2>1, <2>2, <2>3 DEF GuardInv, GuardTypeOK, MutexInv, Inside
    <2> QED
      BY <2>7, <2>8, <2>10, <2>11, <2>12, <2>13, <2>14 DEF GuardInv
  <1>16. ASSUME NEW t \in Threads, InitReturns(t) PROVE GuardInv'
    <2>1. /\ pc[t] = "init" /\ pc' = [pc EXCEPT ![t] = "relLock"]
          /\ built' = [built EXCEPT ![Top(t)] = @ + 1]
          /\ UNCHANGED <<guard, inProgress, mutex, depth, frame, throws>>
      BY <1>16 DEF InitReturns, Goto
    <2>2. /\ pc' \in [Threads -> Locations] /\ pc'[t] = "relLock"
          /\ depth[t] \in 1..MaxNest /\ Top(t) \in Guards
          /\ Initialising(t, depth[t])
      BY <2>1, TopIsGuard DEF GuardInv, GuardTypeOK, Locations, Initialising, Owning
    <2>3. \A u \in Threads : Top(u)' = Top(u) /\ (u # t => pc'[u] = pc[u])
      BY <2>1 DEF GuardInv, GuardTypeOK, Top
    <2>4. built[Top(t)] = 0
      BY <2>1, <2>2 DEF GuardInv, FreshInv, Releasing, Top
    <2>5. /\ built' \in [Guards -> Nat] /\ built'[Top(t)] = 1
          /\ \A h \in Guards : h # Top(t) => built'[h] = built[h]
      BY <2>1, <2>2, <2>4 DEF GuardInv, GuardTypeOK
    <2>6. \A u \in Threads : \A i \in 1..MaxNest : Initialising(u, i)' <=> Initialising(u, i)
      BY <2>1, <2>2, <2>3 DEF Initialising, Owning
    <2>7. FlagInv' /\ OneInitializer'
      BY <2>1, <2>6 DEF GuardInv, FlagInv, OneInitializer
    <2>8. FreshInv'
      <3> SUFFICES ASSUME NEW u \in Threads, NEW i \in 1..MaxNest, Initialising(u, i),
                          ~(i = depth[u] /\ pc'[u] \in Releasing)
                   PROVE  built'[frame[u][i]] = 0
        BY <2>1, <2>6 DEF FreshInv
      <3>1. ~(u = t /\ i = depth[t])
        BY <2>2 DEF Releasing
      <3>2. frame[u][i] # Top(t)
        BY <3>1, <2>2 DEF GuardInv, OneInitializer, Top
      <3>3. frame[u][i] \in Guards
        BY DEF GuardInv, GuardTypeOK, FramesInv, Initialising
      <3>4. ~(i = depth[u] /\ pc[u] \in Releasing)
        BY <2>1, <2>3 DEF Releasing
      <3> QED
        BY <3>2, <3>3, <3>4, <2>5 DEF GuardInv, FreshInv
    <2>9. ReleasingInv'
      <3>1. \A u \in Threads : u # t /\ pc[u] \in Releasing =>
              built[Top(u)] = 1 /\ Top(u) \in Guards
        BY TopIsGuard DEF GuardInv, ReleasingInv, Releasing
      <3> QED
        BY <2>2, <2>3, <2>5, <3>1 DEF ReleasingInv
    <2>10. WitnessInv'
      <3>1. pc'[t] \in Releasing
        BY <2>2 DEF Releasing
      <3>2. \A u \in Threads : pc[u] \in Releasing => pc'[u] \in Releasing
        BY <2>3, <3>1
      <3> QED
        BY <2>1, <2>3, <2>5, <3>1, <3>2 DEF GuardInv, WitnessInv
    <2>11. PassedIsBuilt'
      <3>1. \A u \in Threads : pc[u] = "unlock0" => Top(u) \in Guards
        BY TopIsGuard
      <3> QED
        BY <2>1, <2>2, <2>3, <2>4, <2>5, <3>1 DEF GuardInv, PassedIsBuilt
    <2>12. FramesInv' /\ NoStrandedSleeper'
      BY <2>1, <2>2, <2>3 DEF GuardInv, FramesInv, NoStrandedSleeper
    <2>13. GuardTypeOK' /\ MutexInv'
      BY <2>1, <2>2, <2>3, <2>5 DEF GuardInv, GuardTypeOK, MutexInv, Inside
    <2> QED
      BY <2>7, <2>8, <2>9, <2>10, <2>11, <2>12, <2>13 DEF GuardInv
  <1>17. ASSUME NEW t \in Threads, ClearFlag(t), pc[t] = "relClear" PROVE GuardInv'
    <2>1. /\ pc' = [pc EXCEPT ![t] = "relSet"]
          /\ inProgress' = [inProgress EXCEPT ![Top(t)] = 0]
          /\ UNCHANGED <<guard, mutex, depth, frame, built, throws>>
      BY <1>17 DEF ClearFlag, Goto
    <2>2. /\ pc' \in [Threads -> Locations] /\ pc'[t] = "relSet"
          /\ depth[t] \in 1..MaxNest /\ Top(t) \in Guards
          /\ Initialising(t, depth[t])
      BY <1>17, <2>1, TopIsGuard DEF GuardInv, GuardTypeOK, Locations, Initialising, Owning
    <2>3. \A u \in Threads : Top(u)' = Top(u) /\ (u # t => pc'[u] = pc[u])
      BY <2>1 DEF GuardInv, GuardTypeOK, Top
    <2>4. /\ inProgress' \in [Guards -> {0, 1}]
          /\ \A h \in Guards : h # Top(t) => inProgress'[h] = inProgress[h]
      BY <2>1, <2>2 DEF GuardInv, GuardTypeOK
    <2>5. \A u \in Threads : \A i \in 1..MaxNest :
            Initialising(u, i)' => Initialising(u, i) /\ ~(u = t /\ i = depth[t])
      BY <2>1, <2>2, <2>3 DEF Initialising, Owning
    <2>6. \A u \in Threads : \A i \in 1..MaxNest :
            Initialising(u, i)' => frame[u][i] # Top(t) /\ frame[u][i] \in Guards
      <3>1. \A u \in Threads : \A i \in 1..MaxNest : Initialising(u, i) => frame[u][i] \in Guards
        BY DEF GuardInv, GuardTypeOK, FramesInv, Initialising
      <3> QED
        BY <2>2, <2>5, <3>1 DEF GuardInv, OneInitializer, Top
    <2>7. FlagInv'
      BY <2>1, <2>4, <2>5, <2>6 DEF GuardInv, FlagInv
    <2>8. OneInitializer'
      BY <2>1, <2>5 DEF GuardInv, OneInitializer
    <2>9. FreshInv'
      <3>1. \A u \in Threads : pc[u] \in Releasing /\ ~(pc'[u] \in Releasing) => FALSE
        BY <1>17, <2>2, <2>3 DEF Releasing
      <3> QED
        BY <2>1, <2>5, <3>1 DEF GuardInv, FreshInv
    <2>10. \A u \in Threads : pc'[u] \in Releasing <=> pc[u] \in Releasing
      BY <1>17, <2>2, <2>3 DEF Releasing
    <2>11. ReleasingInv' /\ WitnessInv'
      BY <2>1, <2>3, <2>10 DEF GuardInv, ReleasingInv, WitnessInv
    <2>12. FramesInv' /\ PassedIsBuilt'
      BY <1>17, <2>1, <2>2, <2>3 DEF GuardInv, FramesInv, PassedIsBuilt
    <2>13. NoStrandedSleeper'
      BY <2>2 DEF NoStrandedSleeper
    <2>14. GuardTypeOK' /\ MutexInv'
      BY <1>17, <2>1, <2>2, <2>3, <2>4 DEF GuardInv, GuardTypeOK, MutexInv, Inside
    <2> QED
      BY <2>7, <2>8, <2>9, <2>11, <2>12, <2>13, <2>14 DEF GuardInv
  <1>18. ASSUME NEW t \in Threads, ClearFlag(t), pc[t] = "abClear" PROVE GuardInv'
    <2>1. /\ pc' = [pc EXCEPT ![t] = "broadcast"]
          /\ inProgress' = [inProgress EXCEPT ![Top(t)] = 0]
          /\ UNCHANGED <<guard, mutex, depth, frame, built, throws>>
      BY <1>18 DEF ClearFlag, Goto
    <2>2. /\ pc' \in [Threads -> Locations] /\ pc'[t] = "broadcast"
          /\ depth[t] \in 1..MaxNest /\ Top(t) \in Guards
          /\ Initialising(t, depth[t])
      BY <1>18, <2>1, TopIsGuard DEF GuardInv, GuardTypeOK, Locations, Initialising, Owning
    <2>3. \A u \in Threads : Top(u)' = Top(u) /\ (u # t => pc'[u] = pc[u])
      BY <2>1 DEF GuardInv, GuardTypeOK, Top
    <2>4. /\ inProgress' \in [Guards -> {0, 1}]
          /\ \A h \in Guards : h # Top(t) => inProgress'[h] = inProgress[h]
      BY <2>1, <2>2 DEF GuardInv, GuardTypeOK
    <2>5. \A u \in Threads : \A i \in 1..MaxNest :
            Initialising(u, i)' => Initialising(u, i) /\ ~(u = t /\ i = depth[t])
      BY <2>1, <2>2, <2>3 DEF Initialising, Owning
    <2>6. \A u \in Threads : \A i \in 1..MaxNest :
            Initialising(u, i)' => frame[u][i] # Top(t) /\ frame[u][i] \in Guards
      <3>1. \A u \in Threads : \A i \in 1..MaxNest : Initialising(u, i) => frame[u][i] \in Guards
        BY DEF GuardInv, GuardTypeOK, FramesInv, Initialising
      <3> QED
        BY <2>2, <2>5, <3>1 DEF GuardInv, OneInitializer, Top
    <2>7. FlagInv'
      BY <2>1, <2>4, <2>5, <2>6 DEF GuardInv, FlagInv
    <2>8. OneInitializer'
      BY <2>1, <2>5 DEF GuardInv, OneInitializer
    <2>9. FreshInv'
      <3>1. \A u \in Threads : pc[u] \in Releasing /\ ~(pc'[u] \in Releasing) => FALSE
        BY <1>18, <2>2, <2>3 DEF Releasing
      <3> QED
        BY <2>1, <2>5, <3>1 DEF GuardInv, FreshInv
    <2>10. \A u \in Threads : pc'[u] \in Releasing <=> pc[u] \in Releasing
      BY <1>18, <2>2, <2>3 DEF Releasing
    <2>11. ReleasingInv' /\ WitnessInv'
      BY <2>1, <2>3, <2>10 DEF GuardInv, ReleasingInv, WitnessInv
    <2>12. FramesInv' /\ PassedIsBuilt'
      BY <1>18, <2>1, <2>2, <2>3 DEF GuardInv, FramesInv, PassedIsBuilt
    <2>13. NoStrandedSleeper'
      BY <2>2 DEF NoStrandedSleeper
    <2>14. GuardTypeOK' /\ MutexInv'
      BY <1>18, <2>1, <2>2, <2>3, <2>4 DEF GuardInv, GuardTypeOK, MutexInv, Inside
    <2> QED
      BY <2>7, <2>8, <2>9, <2>11, <2>12, <2>13, <2>14 DEF GuardInv
  <1>19. ASSUME NEW t \in Threads, SetGuard(t) PROVE GuardInv'
    <2>1. /\ pc[t] = "relSet" /\ pc' = [pc EXCEPT ![t] = "broadcast"]
          /\ guard' = [guard EXCEPT ![Top(t)] = 1]
          /\ UNCHANGED <<inProgress, mutex, depth, frame, built, throws>>
      BY <1>19 DEF SetGuard, Goto
    <2>2. /\ pc' \in [Threads -> Locations] /\ pc'[t] = "broadcast"
          /\ Top(t) \in Guards /\ built[Top(t)] = 1
      BY <2>1, TopIsGuard DEF GuardInv, GuardTypeOK, Locations, ReleasingInv, Releasing
    <2>3. \A u \in Threads : Top(u)' = Top(u) /\ (u # t => pc'[u] = pc[u])
      BY <2>1 DEF GuardInv, GuardTypeOK, Top
    <2>4. /\ guard' \in [Guards -> {0, 1}] /\ guard'[Top(t)] = 1
          /\ \A h \in Guards : h # Top(t) => guard'[h] = guard[h]
      BY <2>1, <2>2 DEF GuardInv, GuardTypeOK
    <2>5. \A u \in Threads : \A i \in 1..MaxNest : Initialising(u, i)' <=> Initialising(u, i)
      BY <2>1, <2>2, <2>3 DEF Initialising, Owning
    <2>6. FlagInv' /\ OneInitializer'
      BY <2>1, <2>5 DEF GuardInv, FlagInv, OneInitializer
    <2>7. FreshInv'
      <3>1. \A u \in Threads : \A i \in 1..MaxNest :
              Initialising(u, i) => ~(u = t /\ i = depth[t])
        BY <2>1 DEF Initialising, Owning
      <3> QED
        BY <2>1, <2>3, <2>5, <3>1 DEF GuardInv, FreshInv
    <2>8. ReleasingInv'
      BY <2>1, <2>2, <2>3 DEF GuardInv, ReleasingInv, Releasing
    <2>9. WitnessInv'
      <3>1. \A u \in Threads : pc[u] \in Releasing /\ Top(u) # Top(t) =>
              pc'[u] \in Releasing /\ Top(u)' = Top(u)
        BY <2>3
      <3> QED
        BY <2>1, <2>2, <2>4, <3>1 DEF GuardInv, WitnessInv
    <2>10. PassedIsBuilt'
      BY <2>1, <2>2, <2>3, <2>4 DEF GuardInv, PassedIsBuilt
    <2>11. FramesInv'
      BY <2>1, <2>2, <2>3 DEF GuardInv, FramesInv
    <2>12. NoStrandedSleeper'
      BY <2>2 DEF NoStrandedSleeper
    <2>13. GuardTypeOK' /\ MutexInv'
      BY <2>1, <2>2, <2>3, <2>4 DEF GuardInv, GuardTypeOK, MutexInv, Inside
    <2> QED
      BY <2>6, <2>7, <2>8, <2>9, <2>10, <2>11, <2>12, <2>13 DEF GuardInv
  <1>20. CASE UNCHANGED guardVars
    <2>1. \A u \in Threads :
            /\ Top(u)' = Top(u)
            /\ \A i \in 1..MaxNest : Initialising(u, i)' <=> Initialising(u, i)
      BY <1>20 DEF guardVars, Top, Initialising
    <2>2. FlagInv' /\ OneInitializer' /\ FreshInv'
      BY <1>20, <2>1 DEF guardVars, GuardInv, FlagInv, OneInitializer, FreshInv
    <2>3. GuardTypeOK' /\ FramesInv' /\ MutexInv'
      BY <1>20 DEF guardVars, GuardInv, GuardTypeOK, FramesInv, MutexInv
    <2>4. ReleasingInv' /\ WitnessInv' /\ PassedIsBuilt' /\ NoStrandedSleeper'
      BY <1>20, <2>1 DEF guardVars, GuardInv, ReleasingInv, WitnessInv, PassedIsBuilt,
         NoStrandedSleeper
    <2> QED
      BY <2>2, <2>3, <2>4 DEF GuardInv
  <1>21. ASSUME NEW t \in Threads, FreeStep(t) \/ LockStep(t) \/ InitEnds(t) PROVE GuardInv'
    <2>1. CASE FastTest(t)
      BY <2>1, <1>9, <1>10
    <2>2. CASE LockToEnd(t)
      BY <2>2, <1>11, <1>12 DEF LockToEnd, Goto
    <2>3. CASE ClearFlag(t)
      BY <2>3, <1>17, <1>18 DEF ClearFlag, Goto
    <2> QED
      BY <2>1, <2>2, <2>3, <1>1, <1>2, <1>3, <1>4, <1>5, <1>6, <1>7, <1>8, <1>13, <1>15, <1>16,
         <1>19, <1>21 DEF FreeStep, LockStep, InitEnds
  <1> QED
    BY <1>14, <1>20, <1>21 DEF GuardNext

(* Function-local statics on the OS/2 thread layer, for any number of      *)
(* threads, statics and levels of nesting, and whatever the initialisers   *)
(* reach or throw: __cxa_guard_acquire lets one initialiser at a time into *)
(* a static, one that has returned is never run again, nobody gets past a  *)
(* static that is not built, and no waiter misses the broadcast.           *)
THEOREM GuardSafe ==
  GuardSpec => [](GuardTypeOK /\ OneInitializer /\ BuiltOnce /\ PassedIsBuilt
                  /\ NoStrandedSleeper)
  <1>1. GuardInv => GuardTypeOK /\ OneInitializer /\ BuiltOnce /\ PassedIsBuilt
                     /\ NoStrandedSleeper
    BY DEF GuardInv, WitnessInv, BuiltOnce
  <1> QED
    BY GuardInvInit, GuardInvStep, <1>1, PTL DEF GuardSpec

(* An initialiser that has returned is never run again, although others    *)
(* throw and are tried again.                                              *)
THEOREM StaticsBuiltOnce == GuardSpec => []BuiltOnce
  BY GuardSafe, PTL

(* Whoever __cxa_guard_acquire lets past a static, with or without the     *)
(* mutex, finds it built.                                                  *)
THEOREM PassingIsSafe == GuardSpec => []PassedIsBuilt
  BY GuardSafe, PTL

(* A thread sleeps in __cxa_guard_acquire only while the initialisation is *)
(* under way or the broadcast of its end is still to come.                 *)
THEOREM SleepersAreWoken == GuardSpec => []NoStrandedSleeper
  BY GuardSafe, PTL

=============================================================================
