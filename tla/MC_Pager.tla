------------------------------ MODULE MC_Pager ------------------------------
(***************************************************************************)
(* Pager.tla for TLC.  Connections differ in nothing but their names, so   *)
(* they may be exchanged where no liveness property is checked.            *)
(***************************************************************************)
EXTENDS Pager, TLC

ConnSymmetry == Permutations(Conn)
=============================================================================
