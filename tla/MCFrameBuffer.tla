---------------------------- MODULE MCFrameBuffer ----------------------------
(* Small instances of FrameBuffer for TLC. *)
EXTENDS FrameBuffer, TLC

ViewerSymmetry == Permutations(Viewers)
=============================================================================
