------------------------------ MODULE MCCxaGuard ------------------------------
(***************************************************************************)
(* Instances of CxaGuard for TLC: which initialiser reaches which static.  *)
(***************************************************************************)
EXTENDS CxaGuard

CONSTANTS g1, g2

\* The initialiser of g1 reaches g2.
OneNeedsTwo == {<<g1, g2>>}

=============================================================================
