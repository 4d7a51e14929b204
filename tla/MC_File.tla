------------------------------ MODULE MC_File ------------------------------
(* VerixFile.tla for TLC.                                                  *)
EXTENDS VerixFile
=============================================================================
