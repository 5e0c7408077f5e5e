--------------------------- MODULE MCUploadStream ---------------------------
(* An instance of UploadStream for TLC: files around every boundary (the    *)
(* signature, the sniffing buffer, the maximum, a part of the object, the   *)
(* body limit), and forms with more in front of the file than the slack.    *)
EXTENDS UploadStream

Others(n) == [i \in 1..n |-> "other"]
MCForms == {<<>>, <<"unnamed", "file">>} \cup {Others(n) \o <<"file">> : n \in 0..3}
MCMaxima == {0, 1, 3, 4, 6}
MCSizes == 0..9
=============================================================================
