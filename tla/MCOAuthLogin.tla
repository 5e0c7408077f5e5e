---------------------------- MODULE MCOAuthLogin ----------------------------
(* An instance of OAuthLogin for TLC.  Every constant set is one of model   *)
(* values that no definition tells apart.                                   *)
EXTENDS OAuthLogin, TLC

Symmetry == Permutations(Users) \cup Permutations(Accounts) \cup Permutations(Emails)
            \cup Permutations(States) \cup Permutations(Requests)
=============================================================================
