--------------------------- MODULE MCAuthSessions ---------------------------
(* Instances of AuthSessions for TLC.  Users, pairs and requests are model  *)
(* values that no definition tells apart, so their permutations are         *)
(* symmetries of the safety runs.                                           *)
EXTENDS AuthSessionsProofs, TLC

Symmetry == Permutations(Users) \cup Permutations(Pairs) \cup Permutations(Requests)
=============================================================================
