---------------------------- MODULE MCNetReceiver ----------------------------
(* Small instances of NetReceiver for TLC. *)
EXTENDS NetReceiver
=============================================================================
