------------------------------ MODULE MCAuthWatch ------------------------------
(* Instances of AuthWatch for TLC.  Contents are only compared. *)
EXTENDS AuthWatch, TLC

ContentSymmetry == Permutations(Contents)
=============================================================================
