---------------------------- MODULE MCTokenRefresh ----------------------------
(* The instances of TokenRefresh that are model-checked. *)
EXTENDS TokenRefresh, TLC

RefresherSymmetry == Permutations(Refreshers)
=============================================================================
