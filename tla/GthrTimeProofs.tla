---------------------------- MODULE GthrTimeProofs ----------------------------
(***************************************************************************)
(* Proofs about the timeouts of the OS/2 thread layer, for any resolution  *)
(* of the clock and any width of the word.                                 *)
(***************************************************************************)
EXTENDS GthrTime, TLAPS

\* The period of the word that ticks falls into, and the millisecond.
Ms(ticks) == ticks \div TicksPerMs
Period(ticks) == Ms(ticks) \div Word

(* The word of milliseconds has not wrapped between the call and its       *)
(* deadline, and they are not as far apart as SEM_INDEFINITE_WAIT.  When   *)
(* this is not so the code waits for too short or too long a time.         *)
InOnePeriod ==
  /\ Period(deadline) = Period(began)
  /\ Ms(deadline) - Ms(began) < SEM_INDEFINITE_WAIT

TimeTypeOK ==
  /\ now \in Nat /\ deadline \in Nat /\ began \in Nat /\ since \in Nat /\ ulRemain \in Nat
  /\ caller \in {"mutex", "cond"}

(* A call that waits has what __gthread_os2_abs2rem computed when it       *)
(* began, and only a wait for a condition is begun again.                  *)
Remembered ==
  pc # "idle" =>
    /\ ulRemain = IF UlongMs(deadline) > UlongMs(began) THEN UlongMs(deadline) - UlongMs(began) ELSE 0
    /\ began <= since /\ since <= now
    /\ caller = "mutex" => since = began

TimeInv == TimeTypeOK /\ Remembered

-----------------------------------------------------------------------------
\* Division with remainder.
LEMMA Remainder ==
  ASSUME NEW x \in Nat, NEW k \in Nat \ {0}
  PROVE  /\ x \div k \in Nat /\ x % k \in 0..(k - 1)
         /\ x = k * (x \div k) + (x % k)
  OBVIOUS

\* Cutting down to milliseconds does not change the order of two times.
LEMMA DivMonotone ==
  ASSUME NEW x \in Nat, NEW y \in Nat, NEW k \in Nat \ {0}, x < y
  PROVE  x \div k <= y \div k
<1> DEFINE a == x \div k
           b == y \div k
<1>1. /\ a \in Nat /\ x % k \in 0..(k - 1) /\ x = k * a + (x % k)
      /\ b \in Nat /\ y % k \in 0..(k - 1) /\ y = k * b + (y % k)
  BY Remainder
<1> HIDE DEF a, b
<1>2. ASSUME b < a
      PROVE  FALSE
  <2>1. k * (b + 1) <= k * a
    BY <1>1, <1>2
  <2>2. k * (b + 1) = k * b + k
    BY <1>1
  <2> QED
    BY <1>1, <2>1, <2>2
<1> QED
  BY <1>1, <1>2 DEF a, b

(* What the kernel is asked to wait, from now to a deadline d in the same  *)
(* period, is the difference of their milliseconds.                        *)
LEMMA RemainIsDifference ==
  ASSUME NEW d \in Nat, NEW n \in Nat, Period(d) = Period(n)
  PROVE  /\ UlongMs(d) - UlongMs(n) = Ms(d) - Ms(n)
         /\ UlongMs(d) \in Nat /\ UlongMs(n) \in Nat
         /\ Ms(d) \in Nat /\ Ms(n) \in Nat
<1>1. TicksPerMs \in Nat \ {0} /\ Word \in Nat \ {0}
  BY TimeAssumption
<1>2. Ms(d) \in Nat /\ Ms(n) \in Nat
  BY <1>1, Remainder DEF Ms
<1>3. /\ Ms(d) = Word * Period(d) + UlongMs(d) /\ UlongMs(d) \in Nat /\ Period(d) \in Nat
      /\ Ms(n) = Word * Period(n) + UlongMs(n) /\ UlongMs(n) \in Nat
  <2>1. \A x \in Nat : x = Word * (x \div Word) + (x % Word) /\ x % Word \in Nat /\ x \div Word \in Nat
    BY <1>1, Remainder
  <2> QED
    BY <1>2, <2>1 DEF Ms, Period, UlongMs
<1> QED
  BY <1>1, <1>2, <1>3

\* The word of milliseconds is a number.
LEMMA UlongMsNat == \A x \in Nat : UlongMs(x) \in Nat
<1>1. TicksPerMs \in Nat \ {0} /\ Word \in Nat \ {0}
  BY TimeAssumption
<1>2. \A x \in Nat : x \div TicksPerMs \in Nat /\ x % Word \in Nat
  BY <1>1, Remainder
<1> QED
  BY <1>2 DEF UlongMs

(* The wait that was asked for, counted from the call, ends within a       *)
(* millisecond of the deadline, or at once; what was waited before the     *)
(* last token was lost comes on top.                                       *)
LEMMA DeadlineMet ==
  ASSUME TimeInv, InOnePeriod
  PROVE  DeadlineKept
<1> SUFFICES ASSUME pc # "idle"
             PROVE  DeadlineKept
  BY DEF DeadlineKept
<1> DEFINE T == TicksPerMs
           a == Ms(deadline)
           c == Ms(began)
<1>1. T \in Nat \ {0} /\ Word \in Nat /\ Word > 1 /\ deadline \in Nat /\ began \in Nat
  BY TimeAssumption DEF TimeInv, TimeTypeOK
<1>2. /\ a \in Nat /\ deadline % T \in 0..(T - 1) /\ deadline = T * a + (deadline % T)
      /\ c \in Nat /\ began % T \in 0..(T - 1) /\ began = T * c + (began % T)
  BY <1>1, Remainder DEF Ms
<1>3. ulRemain = IF a > c THEN a - c ELSE 0
  BY <1>1, RemainIsDifference DEF TimeInv, Remembered, InOnePeriod
<1>4. a - c < SEM_INDEFINITE_WAIT
  BY DEF InOnePeriod
<1>5. deadline < began => a <= c
  BY <1>1, DivMonotone DEF Ms
<1>6. began < deadline => c <= a
  BY <1>1, DivMonotone DEF Ms
<1> HIDE DEF T, a, c
<1>7. ulRemain # SEM_INDEFINITE_WAIT
  BY <1>2, <1>3, <1>4, <1>1 DEF SEM_INDEFINITE_WAIT
<1>8. ulRemain * T \in Nat /\ since \in Nat /\ began <= since /\ (caller = "mutex" => since = began)
      /\ EndOfWait = since + ulRemain * T
  BY <1>1 DEF EndOfWait, T, TimeInv, TimeTypeOK, Remembered
<1>9. /\ deadline < began + ulRemain * T + T
      /\ began + ulRemain * T < deadline + T \/ ulRemain * T = 0
  <2>1. CASE a <= c
    <3>1. ulRemain = 0
      BY <1>2, <1>3, <2>1
    <3>2. ulRemain * T = 0
      BY <1>1, <3>1
    <3>3. deadline >= began => a = c
      BY <1>1, <1>2, <1>6, <2>1
    <3> QED
      BY <1>1, <1>2, <3>2, <3>3
  <2>2. CASE a > c
    <3>1. ulRemain * T = T * a - T * c
      BY <1>1, <1>2, <1>3, <2>2
    <3> QED
      BY <1>1, <1>2, <1>8, <3>1
  <2> QED
    BY <1>2, <2>1, <2>2
<1> QED
  BY <1>1, <1>7, <1>8, <1>9 DEF DeadlineKept, T

-----------------------------------------------------------------------------
(* Every step of the timeout computation keeps the invariant.              *)
LEMMA TimeInvNext == TimeInv /\ [TimeNext]_timeVars => TimeInv'
<1> SUFFICES ASSUME TimeInv, [TimeNext]_timeVars
             PROVE  TimeInv'
  OBVIOUS
<1> USE DEF TimeInv, TimeTypeOK, Remembered
<1>1. ASSUME NEW c \in {"mutex", "cond"}, NEW d \in 0..MaxTime, TimedCall(c, d)
      PROVE  TimeInv'
  <2>1. d \in Nat /\ now \in Nat
    BY TimeAssumption
  <2>2. UlongMs(d) \in Nat /\ UlongMs(now) \in Nat
    BY <2>1, UlongMsNat
  <2>3. /\ deadline' = d /\ began' = now /\ since' = now /\ now' = now /\ ulRemain' = Abs2Rem(d)
        /\ caller' = c /\ UlongMs(deadline') = UlongMs(d) /\ UlongMs(began') = UlongMs(now)
    BY <1>1 DEF TimedCall
  <2>4. TimeTypeOK'
    BY <2>1, <2>2, <2>3 DEF Abs2Rem
  <2>5. Remembered'
    BY <2>1, <2>3 DEF Abs2Rem, UlongMs
  <2> QED
    BY <2>4, <2>5
<1>2. CASE Expire
  BY <1>2 DEF Expire, UlongMs
<1>3. CASE WaitAgain
  BY <1>3 DEF WaitAgain, UlongMs
<1>4. CASE Return
  BY <1>4 DEF Return
<1>5. CASE Tick
  BY <1>5 DEF Tick, UlongMs
<1>6. CASE UNCHANGED timeVars
  BY <1>6 DEF timeVars, UlongMs
<1> QED
  BY <1>1, <1>2, <1>3, <1>4, <1>5, <1>6 DEF TimeNext

(* The computation begins with the invariant.                              *)
LEMMA TimeInvInit == TimeInit => TimeInv
  BY TimeAssumption DEF TimeInit, TimeInv, TimeTypeOK, Remembered

(* A timed call of the OS/2 thread layer does not give up a millisecond or *)
(* more before its deadline; a timed lock does so less than a millisecond  *)
(* after it, a timed wait for a condition is late by the time that had     *)
(* passed when it last lost a token; unless the 32-bit word of             *)
(* __gthread_os2_abs2rem wraps in between: for any clock, word and         *)
(* deadlines.                                                              *)
THEOREM DeadlinesKept == TimeSpec => [](InOnePeriod => DeadlineKept)
<1>1. TimeInv => (InOnePeriod => DeadlineKept)
  BY DeadlineMet
<1> QED
  BY <1>1, TimeInvInit, TimeInvNext, PTL DEF TimeSpec

=============================================================================
