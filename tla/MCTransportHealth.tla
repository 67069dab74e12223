-------------------------- MODULE MCTransportHealth --------------------------
(* A "byte" of two, full before the bound of five results is reached; two  *)
(* devices, two clocks, a Wire timeout a call may be shorter than, and a   *)
(* call too long for IDF.                                                  *)
EXTENDS TransportHealth

MCThresholds == 0 .. 2
MCAddresses == {1, 2}
MCClocks == {1, 2}
MCTimeouts == 0 .. 3

(* The view leaves out what no action and no property of the run reads:    *)
(* the total counters, and how the results so far divide into successes    *)
(* and failures.  The last reply serves two of the properties only.        *)
LiveView ==
  <<initialized, driverState, binding, consecutiveFailures, inARow,
    successes + failures, platform, context, i2cAddress,
    NotReachedIsTrue, RightDevice>>
=============================================================================
