---------------------------- MODULE MCLegacyApi ----------------------------
(* LegacyApi on Configuration, a limit and Mask/Enable.  The owner has two *)
(* profiles; the legacy calls reach the others.                            *)
EXTENDS LegacyApi

MCSettings == {"s"}
MCLimits == {"lo", "hi"}
MCCalibrations == {"a", "b"}

MCCandidates ==
  { [config |-> [mode |-> "TRIGGERED", settings |-> "s"], alerts |-> <<"lo", "hi">>,
      calibration |-> "a"],
    [config |-> [mode |-> "CONTINUOUS", settings |-> "s"], alerts |-> <<"hi", "lo">>,
      calibration |-> "a"] }

(* States that differ only in what no action and no property of the run    *)
(* reads are one: the content of a pending result, the ghost reached, the  *)
(* fields of a job that has ended, the candidate left from before a sample *)
(* job, and the profile of a sample that cannot be current: of an earlier  *)
(* generation, or of the saturated one, which only an unbind leaves.       *)
LiveJob ==
  CASE job.state # "ACTIVE" -> <<>>
    [] job.state = "ACTIVE" /\ job.kind \in SampleKind -> <<job>>
    [] OTHER -> <<job, pendingProfile>>

LiveSample ==
  IF hasSample /\ sample.generation = generation /\ generation < MaxGeneration
  THEN sample.under ELSE <<>>

LiveView ==
  <<bound, initialized, profile, certainty, generation, hasResult, device, disturbed,
    legacyVars, LiveJob, LiveSample>>
=============================================================================
