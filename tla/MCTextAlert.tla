----------------------------- MODULE MCTextAlert -----------------------------
(* Small instances of TextAlert for TLC. *)
EXTENDS TextAlert
=============================================================================
