------------------------------- MODULE MCChat -------------------------------
(* Instances of QueryChat for TLC.                                           *)
EXTENDS QueryChat, TLC

DocumentSymmetry == Permutations(Documents)

=============================================================================
