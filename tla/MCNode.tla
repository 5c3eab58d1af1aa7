-------------------------------- MODULE MCNode --------------------------------
(***************************************************************************)
(* An instance of the node for TLC.                                        *)
(***************************************************************************)
EXTENDS Node, TLC

CONSTANTS s1, s2, m1

=============================================================================
