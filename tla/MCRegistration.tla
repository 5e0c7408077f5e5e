--------------------------- MODULE MCRegistration ---------------------------
(* Instances of Registration for TLC.                                       *)
EXTENDS Registration, TLC

Symmetry == Permutations(Requests) \cup Permutations(Emails)
=============================================================================
