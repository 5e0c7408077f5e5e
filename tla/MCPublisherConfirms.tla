------------------------- MODULE MCPublisherConfirms -------------------------
(* Instances of PublisherConfirms for TLC.                                   *)
EXTENDS PublisherConfirms, TLC

Symmetry == Permutations(Publishers)
=============================================================================
