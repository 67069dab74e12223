--------------------------- MODULE MCTriggeredSample ---------------------------
(* TriggeredSample with two ticks to the millisecond, or three where the    *)
(* finer clock shows more.  The wait and the timeout are one millisecond,   *)
(* so that the success path of two channel registers needs six; the second  *)
(* deadline leaves room for a recheck, and a poll may bring one that is     *)
(* earlier or later than the job's, or already past.                        *)
EXTENDS TriggeredSample

MCDeadlines == {6, 9}
MCPollDeadlines == {0, 3, 5, 7, 12}
MCBudgets == {0, 1, 3}
=============================================================================
