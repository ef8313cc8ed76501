------------------------------- MODULE GthrTime -------------------------------
(***************************************************************************)
(* Timeouts of the OS/2 thread layer (libgcc/gthr-os2.c).  The timed       *)
(* functions get an absolute deadline; __gthread_os2_abs2rem turns it into *)
(* a relative timeout for the kernel.  It reads the clock, cuts both times *)
(* down to whole milliseconds, keeps 32 bits of each, and subtracts.       *)
(*                                                                         *)
(* Time is counted in ticks, TicksPerMs to the millisecond, so that the    *)
(* cut matters, and Word stands for 2^32: a word of milliseconds wraps     *)
(* about every 50 days.  The wait itself belongs to the kernel, which ends *)
(* it when the timeout has run out and not before; the largest word is     *)
(* SEM_INDEFINITE_WAIT, zero is SEM_IMMEDIATE_RETURN.                      *)
(*                                                                         *)
(* A timed lock waits once.  A timed wait for a condition waits again each *)
(* time it was woken and another thread had taken the token, and each time *)
(* for the whole of the timeout that was computed at the beginning.        *)
(***************************************************************************)
EXTENDS Naturals, Integers

CONSTANTS
  TicksPerMs,
  Word,       \* bound: the number of values of a ULONG
  MaxTime,    \* bound: the last tick of the run
  MaxAway     \* bound: how far a deadline is from the time of the call

ASSUME TimeAssumption == {TicksPerMs, Word, MaxTime, MaxAway} \subseteq Nat \ {0} /\ Word > 1

SEM_INDEFINITE_WAIT == Word - 1

VARIABLES
  now,         \* gettimeofday, in ticks
  pc,          \* "idle", "waiting" or "expired"
  caller,      \* "mutex" for the two timedlocks, "cond" for cond_timedwait
  deadline,    \* *abs_timeout, in ticks
  ulRemain,    \* what __gthread_os2_abs2rem returned, in milliseconds
  began,       \* when the function was called
  since        \* when the kernel's last wait began

timeVars == <<now, pc, caller, deadline, ulRemain, began, since>>

TimeInit ==
  /\ now \in 0..MaxTime
  /\ pc = "idle" /\ caller = "mutex"
  /\ deadline = 0 /\ ulRemain = 0 /\ began = 0 /\ since = 0

\* tv_sec * 1000 + tv_usec / 1000, in a ULONG.
UlongMs(ticks) == (ticks \div TicksPerMs) % Word

\* Mutant: a deadline that has passed is not told from one to come.
Abs2RemMutant(d) == (UlongMs(d) - UlongMs(now)) % Word

Abs2Rem(d) == IF UlongMs(d) > UlongMs(now) THEN UlongMs(d) - UlongMs(now) ELSE 0

(* mutex_timedlock, recursive_mutex_timedlock or cond_timedwait of a       *)
(* semaphore that is not free: the timeout is computed, the wait begins.   *)
TimedCall(c, d) ==
  /\ pc = "idle"
  /\ now - MaxAway <= d /\ d <= now + MaxAway
  /\ pc' = "waiting" /\ caller' = c
  /\ deadline' = d
  /\ ulRemain' = Abs2Rem(d)
  /\ began' = now /\ since' = now
  /\ UNCHANGED now

\* The kernel ends the wait: ERROR_TIMEOUT.
Expire ==
  /\ pc = "waiting"
  /\ ulRemain # SEM_INDEFINITE_WAIT
  /\ now >= since + ulRemain * TicksPerMs
  /\ pc' = "expired"
  /\ UNCHANGED <<now, caller, deadline, ulRemain, began, since>>

(* The event ends the wait for a condition, but the token is gone: the     *)
(* loop calls DosWaitEventSem again, with the same ulTimeout.              *)
WaitAgain ==
  /\ pc = "waiting" /\ caller = "cond"
  /\ since' = now
  /\ UNCHANGED <<now, pc, caller, deadline, ulRemain, began>>

\* The semaphore or the token was obtained, or ERROR_TIMEOUT is handed on.
Return ==
  /\ pc \in {"waiting", "expired"}
  /\ pc' = "idle" /\ caller' = "mutex"
  /\ deadline' = 0 /\ ulRemain' = 0 /\ began' = 0 /\ since' = 0
  /\ UNCHANGED now

Tick ==
  /\ now < MaxTime
  /\ now' = now + 1
  /\ UNCHANGED <<pc, caller, deadline, ulRemain, began, since>>

TimeNext ==
  \/ \E c \in {"mutex", "cond"}, d \in 0..MaxTime : TimedCall(c, d)
  \/ Expire \/ WaitAgain \/ Return \/ Tick

TimeSpec == TimeInit /\ [][TimeNext]_timeVars

-----------------------------------------------------------------------------
\* When the kernel will end the wait.
EndOfWait == since + ulRemain * TicksPerMs

(* A timed call never gives up a millisecond or more before its deadline,  *)
(* and never waits for ever.  A timed lock gives up less than a            *)
(* millisecond after it, or at once when it has passed.  A timed wait for  *)
(* a condition is late by what had gone by, since the call, when it last   *)
(* lost a token, and by no more.                                           *)
DeadlineKept ==
  pc # "idle" =>
    /\ ulRemain # SEM_INDEFINITE_WAIT
    /\ deadline < EndOfWait + TicksPerMs
    /\ caller = "mutex" => EndOfWait < deadline + TicksPerMs \/ EndOfWait = began
    /\ caller = "cond" => \/ EndOfWait < deadline + (since - began) + TicksPerMs
                          \/ EndOfWait = since

(* A wait for a condition that has timed out has lasted until its deadline *)
(* (condition_variable/members/2.cc).                                      *)
NotEarly == pc = "expired" /\ caller = "cond" => now >= deadline

=============================================================================
