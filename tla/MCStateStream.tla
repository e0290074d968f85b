--------------------------- MODULE MCStateStream ---------------------------
(* Small instances of StateStream for TLC. *)
EXTENDS StateStream
=============================================================================
