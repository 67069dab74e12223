----------------------------- MODULE MCBringupCli -----------------------------
(* Two devices, two clocks; a job lasts two transfers and a half, so the   *)
(* last of its time is too short for one; budgets of none and of more      *)
(* transfers than the time allows.                                         *)
EXTENDS BringupCli

MCAddresses == {1, 2}
MCClocks == {1, 2}
MCBudgets == {0, 1, 3}
=============================================================================
