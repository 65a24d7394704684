--------------------------- MODULE MCAdmissionGate ---------------------------
(***************************************************************************)
(* Instances of AdmissionGate for TLC.  Turns and daemons are only names.  *)
(***************************************************************************)
EXTENDS AdmissionGate, TLC

TurnSymmetry == Permutations(Turns)

DaemonSymmetry == Permutations(Daemons)

Symmetry == DaemonSymmetry \cup TurnSymmetry
=============================================================================
