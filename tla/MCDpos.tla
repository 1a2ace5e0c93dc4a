------------------------------- MODULE MCDpos -------------------------------
(* Instances of Dpos for TLC; the constants are given in the configurations. *)
EXTENDS Dpos

CONSTANTS n1, n2
=============================================================================
