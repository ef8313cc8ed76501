---------------------------- MODULE GthrOnceProofs ----------------------------
(***************************************************************************)
(* Proofs about __gthread_once for any set of threads.                     *)
(***************************************************************************)
EXTENDS GthrOnce, TLAPS

(* The two bytes tell the whole story: started counts the entries of func, *)
(* at most one thread is inside it and only while it has not returned, and *)
(* done, or a thread past func, implies that it has returned.              *)
OnceInv ==
  /\ OnceTypeOK
  /\ runs = started
  /\ started = 0 => \A t \in Threads : pc[t] # "func"
  /\ started = 0 => finished = 0
  /\ \A t, u \in Threads : pc[t] = "func" /\ pc[u] = "func" => t = u
  /\ \A t \in Threads : pc[t] = "func" => finished = 0
  /\ done = 1 => finished = 1
  /\ \A t \in Threads : pc[t] \in {"setDone", "retOk"} => finished = 1

(* What the code behind ExchangeStarted, FuncReturns, SetDone and Poll     *)
(* keeps true from the first call on.                                      *)
LEMMA OnceInvInit == OnceInit => OnceInv
  BY DEF OnceInit, OnceInv, OnceTypeOK, Locations

(* Every step of __gthread_once keeps OnceInv.                             *)
LEMMA OnceInvStep == OnceInv /\ [OnceNext]_onceVars => OnceInv'
  <1> SUFFICES ASSUME OnceInv, [OnceNext]_onceVars PROVE OnceInv'
    OBVIOUS
  <1> USE DEF OnceInv, OnceTypeOK, Locations, Goto
  <1>1. ASSUME NEW t \in Threads, Call(t) PROVE OnceInv'
    BY <1>1 DEF Call
  <1>2. ASSUME NEW t \in Threads, CallInvalid(t) PROVE OnceInv'
    BY <1>2 DEF CallInvalid
  <1>3. ASSUME NEW t \in Threads, ExchangeStarted(t) PROVE OnceInv'
    BY <1>3 DEF ExchangeStarted, FirstCaller
  <1>4. ASSUME NEW t \in Threads, FuncReturns(t) PROVE OnceInv'
    BY <1>4 DEF FuncReturns
  <1>5. ASSUME NEW t \in Threads, FuncThrows(t) PROVE OnceInv'
    BY <1>5 DEF FuncThrows
  <1>6. ASSUME NEW t \in Threads, SetDone(t) PROVE OnceInv'
    BY <1>6 DEF SetDone
  <1>7. ASSUME NEW t \in Threads, Poll(t) PROVE OnceInv'
    BY <1>7 DEF Poll, DoneSeen
  <1>8. ASSUME NEW t \in Threads, Leave(t) PROVE OnceInv'
    BY <1>8 DEF Leave
  <1>9. CASE UNCHANGED onceVars
    BY <1>9 DEF onceVars
  <1> QED
    BY <1>1, <1>2, <1>3, <1>4, <1>5, <1>6, <1>7, <1>8, <1>9 DEF OnceNext, ThreadStep

(* __gthread_once runs its function at most once and never returns         *)
(* success before that one run has completed, for any number of threads    *)
(* and whether or not func throws.                                         *)
THEOREM OnceSafe == OnceSpec => [](OnceTypeOK /\ RunsAtMostOnce /\ ReturnAfterFunc)
  <1>1. OnceInv => OnceTypeOK /\ RunsAtMostOnce /\ ReturnAfterFunc
    BY DEF OnceInv, OnceTypeOK, RunsAtMostOnce, ReturnAfterFunc
  <1> QED
    BY OnceInvInit, OnceInvStep, <1>1, PTL DEF OnceSpec

(* No call of __gthread_once, however it races with the first one and      *)
(* however long func takes, returns success while func has not returned.   *)
THEOREM OnceReturnsAfterFunc == OnceSpec => []ReturnAfterFunc
  BY OnceSafe, PTL

=============================================================================
