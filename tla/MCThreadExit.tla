---------------------------- MODULE MCThreadExit ----------------------------
(***************************************************************************)
(* An instance of ThreadExit for TLC: the main thread numbers two of the   *)
(* three variables that the other thread uses.                             *)
(***************************************************************************)
EXTENDS ThreadExit, TLC

CONSTANTS t1, x, y, z

TwoAndThree == (Main :> {y, z}) @@ (t1 :> {x, y, z})

=============================================================================
