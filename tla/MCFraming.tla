------------------------------ MODULE MCFraming ------------------------------
(* Small instances of Framing for TLC. *)
EXTENDS Framing

MCPayload == <<2, 3, 1, 2, 4>>
=============================================================================
