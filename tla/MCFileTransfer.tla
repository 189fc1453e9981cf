--------------------------- MODULE MCFileTransfer ---------------------------
(* FileTransfer for TLC.  Besides an empty file there is one with a NUL in *)
(* its first line and no newline at its end, and two in which an empty     *)
(* line, or one that looks like a marker, gets in the way of the protocol. *)
EXTENDS FileTransfer

OneName == {"f"}

Surprising == {<<>>, <<"nul", "end">>, <<"", "a">>, <<"END", "a">>}

NoNewline == {"end"}

AsSent == [t \in Text |-> IF t = "nul" THEN "n" ELSE t]
=============================================================================
