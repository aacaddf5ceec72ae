---------------------------- MODULE MCCloudSync ----------------------------
(* CloudSync with four report identities that TLC may permute. *)
EXTENDS CloudSync, TLC

ReportSymmetry == Permutations(Reports)
=============================================================================
