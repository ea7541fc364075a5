---------------------------- MODULE MCFinalVideo ----------------------------
(* Small instances of FinalVideo for TLC. *)
EXTENDS FinalVideo
=============================================================================
