---------------------------- MODULE MCFileStore -----------------------------
(* Instances of FileStore for TLC.  Users and requests are model values no  *)
(* definition tells apart, and so are the identifiers of files.             *)
EXTENDS FileStore, TLC

Symmetry == Permutations(Users) \cup Permutations(Files) \cup Permutations(Requests)
=============================================================================
