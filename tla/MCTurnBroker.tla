---------------------------- MODULE MCTurnBroker ----------------------------
(***************************************************************************)
(* Instances of TurnBroker for TLC.  Tokens are random values that the     *)
(* broker only compares, so they may be permuted; calls, activities and    *)
(* polls likewise, in the runs that check no liveness.                     *)
(***************************************************************************)
EXTENDS TurnBroker, TLC

TokenSymmetry == Permutations(Tokens)

CallerSymmetry ==
  Permutations(Calls) \cup Permutations(Activities) \cup Permutations(Polls)
=============================================================================
