---------------------------- MODULE MCBlockingCalls ----------------------------
(* BlockingCalls on a clock of sixteen milliseconds, with timeouts that    *)
(* are too short, just long enough and long enough for a recheck.          *)
EXTENDS BlockingCalls

MCTimeouts == {3, 6, 7}
=============================================================================
