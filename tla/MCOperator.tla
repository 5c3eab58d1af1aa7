------------------------------ MODULE MCOperator ------------------------------
(***************************************************************************)
(* Instances of the operator for TLC.                                      *)
(***************************************************************************)
EXTENDS Operator, TLC

CONSTANTS offline, online

MCConfig == {offline, online}
MCOnline == {online}

=============================================================================
