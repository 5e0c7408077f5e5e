---------------------------- MODULE MCUserDocument ----------------------------
(* Instances of UserDocument for TLC.                                        *)
EXTENDS UserDocument, TLC

Symmetry == Permutations(Users) \cup Permutations(Requests) \cup Permutations(Files)
              \cup Permutations(Tokens) \cup Permutations(Passwords)
=============================================================================
