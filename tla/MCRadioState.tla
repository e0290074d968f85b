---------------------------- MODULE MCRadioState ----------------------------
(* A small instance of RadioState for TLC. *)
EXTENDS RadioState

\* A field of the transmit audio chain.
MCProcTouched == {"ptt", "proc"}
=============================================================================
