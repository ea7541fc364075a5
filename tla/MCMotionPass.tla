---------------------------- MODULE MCMotionPass ----------------------------
(* Two pixels, three images: the scene changes in both pixels, and shows a face or not. *)
EXTENDS MotionPass

CONSTANTS p, q

MCDetectors == <<"phash", "and", "background", "face", "move">>
MCSkip == [phash |-> 3, and |-> 0, background |-> 1, face |-> 2, move |-> 2]
MCImages == {[bright |-> {}, face |-> FALSE],
             [bright |-> {p, q}, face |-> FALSE], [bright |-> {p, q}, face |-> TRUE]}
=============================================================================
