---------------------------- MODULE MCOwnerJobs ----------------------------
(* OwnerJobs on a device with one alert register more than it takes to     *)
(* tell "this register" from "the family".                                 *)
EXTENDS OwnerJobs

MCSettings == {"s"}
MCLimits == {"lo", "hi"}
MCCalibrations == {"a", "b"}

(* Triggered and continuous measurement with different alert limits: going *)
(* from one to the other changes CONFIG, one of two alert registers and    *)
(* the calibration.                                                        *)
MCProfile(mode, one, two, calibration) ==
  [config |-> [mode |-> mode, settings |-> "s"], alerts |-> <<one, two>>,
   calibration |-> calibration]

MCCandidates ==
  {MCProfile("TRIGGERED", "lo", "lo", "a"), MCProfile("CONTINUOUS", "lo", "hi", "b")}
=============================================================================
