------------------------ MODULE MCCredentialScheduler ------------------------
(***************************************************************************)
(* Instances of CredentialScheduler for TLC.  Models are only compared, so *)
(* they may be permuted.                                                   *)
(***************************************************************************)
EXTENDS CredentialScheduler, TLC

ModelSymmetry == Permutations(Models)
=============================================================================
