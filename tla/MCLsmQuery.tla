----------------------------- MODULE MCLsmQuery -----------------------------
(* LsmQuery for TLC.                                                       *)
EXTENDS LsmQuery, TLC

ReaderSymmetry == Permutations(Writers) \cup Permutations(Readers)
=============================================================================
