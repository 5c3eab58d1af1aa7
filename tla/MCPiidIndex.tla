----------------------------- MODULE MCPiidIndex -----------------------------
(***************************************************************************)
(* An instance of the PIID index for TLC.                                  *)
(***************************************************************************)
EXTENDS PiidIndex

CONSTANTS p1, p2, p3, x, y

=============================================================================
