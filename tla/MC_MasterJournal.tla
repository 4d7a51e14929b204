-------------------------- MODULE MC_MasterJournal --------------------------
(* MasterJournal.tla for TLC.                                              *)
EXTENDS MasterJournal, TLC

Symmetry == Permutations(Db) \cup Permutations(Txn)
=============================================================================
