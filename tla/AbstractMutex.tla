---------------------------- MODULE AbstractMutex ----------------------------
(***************************************************************************)
(* What a gthread mutex promises its clients: an owner and the number of   *)
(* times the owner has locked it.  Only a recursive mutex is ever locked   *)
(* more than once.                                                         *)
(***************************************************************************)
EXTENDS Naturals

CONSTANTS Threads, NoThread
VARIABLES owner, depth, recursive

absVars == <<owner, depth, recursive>>

AbsInit == owner = NoThread /\ depth = 0 /\ recursive \in {0, 1}

\* A lock, trylock or timedlock that returns zero.
Acquire(t) ==
  /\ \/ owner = NoThread
     \/ owner = t /\ recursive = 1
  /\ owner' = t
  /\ depth' = depth + 1
  /\ UNCHANGED recursive

\* An unlock that returns zero.
Release(t) ==
  /\ owner = t
  /\ depth' = depth - 1
  /\ owner' = IF depth = 1 THEN NoThread ELSE t
  /\ UNCHANGED recursive

AbsNext == \E t \in Threads : Acquire(t) \/ Release(t)

AbsSpec == AbsInit /\ [][AbsNext]_absVars

=============================================================================
