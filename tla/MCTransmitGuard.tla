-------------------------- MODULE MCTransmitGuard --------------------------
(* Small instances of TransmitGuard for TLC. *)
EXTENDS TransmitGuard
=============================================================================
