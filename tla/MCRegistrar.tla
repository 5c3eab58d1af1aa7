----------------------------- MODULE MCRegistrar -----------------------------
(***************************************************************************)
(* Instances of the registrar for TLC.                                     *)
(***************************************************************************)
EXTENDS Registrar, TLC

CONSTANTS p1, p2, d1, d2

PlatformSymmetry == Permutations(Platform)

=============================================================================
