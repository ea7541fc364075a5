------------------------------ MODULE MCProgram ------------------------------
(* Small instances of Program and MjpegClient for TLC. *)
EXTENDS Program

MCInputs == <<"FILE", "CAMERA", "URL", "URL">>

Get(b, good) == [all |-> FALSE, login |-> TRUE, buffer |-> b, good |-> good]
GetAll == [all |-> TRUE, login |-> TRUE, buffer |-> 1, good |-> TRUE]
Stranger == [all |-> FALSE, login |-> FALSE, buffer |-> 1, good |-> TRUE]

\* Nothing (the rest of a request), one request, or two in one chunk; buffer 5 is none.
MCChunks == {<<>>, <<Get(1, TRUE)>>, <<Get(3, TRUE)>>, <<Get(5, TRUE)>>, <<Get(1, FALSE)>>,
             <<GetAll>>, <<Stranger>>, <<GetAll, Get(2, TRUE)>>}
==============================================================================
