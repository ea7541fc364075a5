----------------------------- MODULE MCEmailSend -----------------------------
(* Small instances of EmailSend for TLC: alerts of the second camera and of a text      *)
(* pattern with both, alone or with the forced mail of the same pass.                   *)
EXTENDS EmailSend, TLC

Lists == {<<1>>, <<0, 1>>}
Together == {{"alert"}, {"alert", "force"}}
Symmetry == Permutations(MailThreads)
=============================================================================
