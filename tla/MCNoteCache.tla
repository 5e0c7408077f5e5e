----------------------------- MODULE MCNoteCache -----------------------------
(* Instances of NoteCache for TLC.                                           *)
EXTENDS NoteCache, TLC

Symmetry == Permutations(Users) \cup Permutations(Notes)
              \cup Permutations(Requests) \cup Permutations(Texts)
=============================================================================
