----------------------------- MODULE MCLsmTree -----------------------------
(* LsmTree for TLC.  Writers are interchangeable, so are the threads that  *)
(* call compact_now(); no liveness property is checked under symmetry.     *)
EXTENDS LsmTree, TLC

WriterSymmetry == Permutations(Writers)
=============================================================================
