----------------------------- MODULE MCUdpImages ----------------------------
(* A client of a camera and a client of the texts. *)
EXTENDS UdpImages, TLC

CONSTANTS viewer, reader

MCWants == (viewer :> 1) @@ (reader :> Text)
=============================================================================
