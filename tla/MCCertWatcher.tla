---------------------------- MODULE MCCertWatcher ----------------------------
(***************************************************************************)
(* An instance of the certificate watcher for TLC.                         *)
(***************************************************************************)
EXTENDS CertWatcher, TLC

=============================================================================
