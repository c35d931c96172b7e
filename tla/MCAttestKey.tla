---------------------------- MODULE MCAttestKey ----------------------------
(* Instances of AttestKey for TLC.                                         *)
EXTENDS AttestKey

=============================================================================
