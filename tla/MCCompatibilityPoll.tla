------------------------ MODULE MCCompatibilityPoll ------------------------
(* CompatibilityPoll on a clock that wraps every five milliseconds, while  *)
(* a job may last up to seven: it is polled across one or two wraps.       *)
EXTENDS CompatibilityPoll

MCWorkMs == [SINGLE_SHOT |-> 4, CONTINUOUS_READ |-> 2, APPLY_MASK_ENABLE |-> 3]
MCOwnerMs == {1, 6}
MCBudgets == {0, 1, 3}
=============================================================================
