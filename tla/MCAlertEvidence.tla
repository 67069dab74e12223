-------------------------- MODULE MCAlertEvidence --------------------------
(* AlertEvidence with two alert flags beside CVRF. *)
EXTENDS AlertEvidence, TLC

FlagSymmetry == Permutations(Alerts)
=============================================================================
