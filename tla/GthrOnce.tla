------------------------------- MODULE GthrOnce -------------------------------
(***************************************************************************)
(* __gthread_once of the OS/2 thread layer (libgcc/gthr-os2.h).            *)
(*                                                                         *)
(* A __gthread_once_t is two bytes, started and done.  Whoever exchanges   *)
(* started from 0 to 1 runs the function and then exchanges done to 1;     *)
(* everybody else polls done, sleeping in between.  There is no lock and   *)
(* no kernel object: the two bytes are the whole protocol.                 *)
(***************************************************************************)
EXTENDS Naturals, FiniteSets

CONSTANTS
  Threads,      \* the threads that call __gthread_once on this object
  FuncMayThrow  \* whether func may leave by an exception (std::call_once)

ASSUME OnceAssumption == FuncMayThrow \in BOOLEAN

VARIABLES
  started,      \* once->started
  done,         \* once->done
  pc,           \* where each thread is inside __gthread_once
  runs,         \* history: how many times func was entered
  finished      \* history: how many times func has returned normally

onceVars == <<started, done, pc, runs, finished>>

Locations == {"idle", "xchg", "func", "setDone", "poll", "retOk", "retInval", "thrown"}

OnceInit ==
  /\ started = 0
  /\ done = 0
  /\ pc = [t \in Threads |-> "idle"]
  /\ runs = 0
  /\ finished = 0

Goto(t, from, to) == pc[t] = from /\ pc' = [pc EXCEPT ![t] = to]

-----------------------------------------------------------------------------
(* The call and its argument check: a null object or a null function is    *)
(* refused with EINVAL before anything is touched.                         *)
Call(t) == Goto(t, "idle", "xchg") /\ UNCHANGED <<started, done, runs, finished>>

CallInvalid(t) ==
  Goto(t, "idle", "retInval") /\ UNCHANGED <<started, done, runs, finished>>

\* Mutant: started is read and written separately, as a plain assignment would be.
FirstCallerMutant == started = 0 \/ done = 0

\* What __cxchg (&once->started, 1) == 0 tells the caller.
FirstCaller == started = 0

(* __cxchg (&once->started, 1): one atomic exchange.  The loser looks at   *)
(* done before it goes to sleep.                                           *)
ExchangeStarted(t) ==
  /\ started' = 1
  /\ IF FirstCaller
     THEN Goto(t, "xchg", "func") /\ runs' = runs + 1
     ELSE Goto(t, "xchg", "poll") /\ UNCHANGED runs
  /\ UNCHANGED <<done, finished>>

\* func () returns.
FuncReturns(t) ==
  /\ Goto(t, "func", "setDone")
  /\ finished' = finished + 1
  /\ UNCHANGED <<started, done, runs>>

\* func () leaves by an exception: done is never set.
FuncThrows(t) ==
  /\ FuncMayThrow
  /\ Goto(t, "func", "thrown")
  /\ UNCHANGED <<started, done, runs, finished>>

\* Mutant: the store to done is forgotten.
SetDoneMutant(t) == Goto(t, "setDone", "retOk") /\ UNCHANGED <<started, done, runs, finished>>

\* __cxchg (&once->done, 1).
SetDone(t) ==
  /\ Goto(t, "setDone", "retOk")
  /\ done' = 1
  /\ UNCHANGED <<started, runs, finished>>

\* Mutant: the waiter tests started, which the winner sets before it runs func.
DoneSeenMutant == started = 1

\* The waiter's test of once->done.
DoneSeen == done = 1

(* The polling loop.  4096 zero-length sleeps, then sleeps of growing      *)
(* length: the sleeps change nothing, so only the read that ends the loop  *)
(* is a step.                                                              *)
Poll(t) ==
  /\ DoneSeen
  /\ Goto(t, "poll", "retOk")
  /\ UNCHANGED <<started, done, runs, finished>>

\* The caller goes on, and may call again later.
Leave(t) ==
  /\ \/ Goto(t, "retOk", "idle")
     \/ Goto(t, "retInval", "idle")
     \/ Goto(t, "thrown", "idle")
  /\ UNCHANGED <<started, done, runs, finished>>

ThreadStep(t) ==
  \/ ExchangeStarted(t) \/ FuncReturns(t) \/ FuncThrows(t)
  \/ SetDone(t) \/ Poll(t) \/ Leave(t)

OnceNext == \E t \in Threads : Call(t) \/ CallInvalid(t) \/ ThreadStep(t)

(* A thread inside __gthread_once keeps running: it is not suspended for   *)
(* ever by the scheduler.  Nobody is obliged to call.                      *)
OnceSpec ==
  /\ OnceInit
  /\ [][OnceNext]_onceVars
  /\ \A t \in Threads : WF_onceVars(ThreadStep(t))

-----------------------------------------------------------------------------
OnceTypeOK ==
  /\ started \in {0, 1}
  /\ done \in {0, 1}
  /\ pc \in [Threads -> Locations]
  /\ runs \in Nat
  /\ finished \in {0, 1}

(* However many threads race into __gthread_once, and however often they   *)
(* call it again, func is entered at most once.                            *)
RunsAtMostOnce == runs <= 1

(* A successful return, by the winner or by a thread that only polled,     *)
(* happens after func has returned: nobody uses what func was to set up    *)
(* before it is there.                                                     *)
ReturnAfterFunc == \A t \in Threads : pc[t] = "retOk" => finished = 1

\* func has been entered and left by an exception.
HasThrown == runs = 1 /\ finished = 0 /\ \A t \in Threads : pc[t] # "func"

(* Every call returns, unless func has thrown: no caller polls for ever    *)
(* while the function is under way or has returned.                        *)
EveryCallReturns ==
  \A t \in Threads : (pc[t] = "xchg") ~> (pc[t] = "retOk" \/ HasThrown)

(* Every call ends also when func throws, as the function std::call_once   *)
(* runs may: it returns or passes the exception on.                        *)
EveryCallEnds ==
  \A t \in Threads : (pc[t] = "xchg") ~> (pc[t] \in {"retOk", "thrown"})

=============================================================================
