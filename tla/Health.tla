-------------------------------- MODULE Health --------------------------------
(***************************************************************************)
(* Passive health tracking: counters of the transport's results and the    *)
(* driver state derived from them.  The state is stored, not computed when *)
(* it is asked for, so bind, a wrong identity and a successful profile job *)
(* must keep it in step with the counters.                                 *)
(*                                                                         *)
(* One step is one tracked callback with what follows it in the same poll. *)
(* The callbacks of probe, and those whose status is INVALID_CONFIG or     *)
(* INVALID_PARAM, are not tracked and change nothing here.                 *)
(***************************************************************************)
EXTENDS Naturals

CONSTANTS
  MaxConsecutive,  \* UINT8_MAX, where _consecutiveFailures stays
  MaxTotal,        \* UINT32_MAX, where the totals stay
  Thresholds,      \* the values of TransportConfig::offlineThreshold, a byte
  MaxCallbacks     \* bound of the model: how many results are tracked

ASSUME HealthAssumption ==
  /\ MaxConsecutive \in Nat \ {0}
  /\ MaxTotal \in Nat \ {0}
  /\ Thresholds \subseteq 0 .. MaxConsecutive
  /\ MaxCallbacks \in Nat

DriverState == {"UNINIT", "READY", "DEGRADED", "OFFLINE"}

VARIABLES
  bound, initialized,
  driverState,
  offlineThreshold,
  consecutiveFailures, totalSuccess, totalFailures,
  inARow,     \* ghost: failures since the last success, not limited
  successes,  \* ghost: all tracked successes, not limited
  failures    \* ghost: all tracked failures, not limited

binding == <<bound, offlineThreshold>>
counters == <<consecutiveFailures, totalSuccess, totalFailures>>
ghosts == <<inARow, successes, failures>>
vars == <<initialized, driverState, binding, counters, ghosts>>

-----------------------------------------------------------------------------
Counted(n, max) == IF n < max THEN n + 1 ELSE n

StateAfterFailure_Strict(inRow) ==
  IF inRow > offlineThreshold THEN "OFFLINE" ELSE "DEGRADED"

StateAfterFailure(inRow) ==
  IF inRow >= offlineThreshold THEN "OFFLINE" ELSE "DEGRADED"

MayCall == bound /\ successes + failures < MaxCallbacks

CountSuccess ==
  /\ totalSuccess' = Counted(totalSuccess, MaxTotal)
  /\ successes' = successes + 1

CountFailure ==
  /\ totalFailures' = Counted(totalFailures, MaxTotal)
  /\ failures' = failures + 1

(* _updateHealth, success *)
CallbackSucceeds ==
  /\ MayCall
  /\ CountSuccess
  /\ consecutiveFailures' = 0
  /\ inARow' = 0
  /\ driverState' = IF initialized THEN "READY" ELSE driverState
  /\ UNCHANGED <<initialized, binding, totalFailures, failures>>

(* _updateHealth, failure *)
CallbackFails ==
  /\ MayCall
  /\ CountFailure
  /\ consecutiveFailures' = Counted(consecutiveFailures, MaxConsecutive)
  /\ inARow' = inARow + 1
  /\ driverState' =
       IF initialized THEN StateAfterFailure(consecutiveFailures') ELSE driverState
  /\ UNCHANGED <<initialized, binding, totalSuccess, successes>>

(* The identity reads of an initialize job: the callback succeeds, then    *)
(* _recordFailure counts the wrong identity as one failure after it.       *)
IdentityIsWrong ==
  /\ MayCall
  /\ CountSuccess
  /\ CountFailure
  /\ consecutiveFailures' = Counted(0, MaxConsecutive)
  /\ inARow' = 1
  /\ driverState' =
       IF initialized THEN StateAfterFailure(consecutiveFailures') ELSE driverState
  /\ UNCHANGED <<initialized, binding>>

(* The last callback of a profile or power-down job, which succeeds, and   *)
(* _finishJobSuccess in the same poll.                                     *)
ProfileJobSucceeds ==
  /\ MayCall
  /\ CountSuccess
  /\ consecutiveFailures' = 0
  /\ inARow' = 0
  /\ initialized' = TRUE
  /\ driverState' = "READY"
  /\ UNCHANGED <<binding, totalFailures, failures>>

(* unbind keeps the counters. *)
Unbind ==
  /\ bound' = FALSE
  /\ initialized' = FALSE
  /\ driverState' = "UNINIT"
  /\ UNCHANGED <<offlineThreshold, counters, ghosts>>

(* bind, which begins by unbinding *)
Bind(threshold) ==
  /\ bound' = TRUE
  /\ initialized' = FALSE
  /\ driverState' = "UNINIT"
  /\ offlineThreshold' = IF threshold = 0 THEN 1 ELSE threshold
  /\ UNCHANGED <<counters, ghosts>>

Init ==
  /\ bound = FALSE
  /\ initialized = FALSE
  /\ driverState = "UNINIT"
  /\ offlineThreshold = 1
  /\ consecutiveFailures = 0 /\ totalSuccess = 0 /\ totalFailures = 0
  /\ inARow = 0 /\ successes = 0 /\ failures = 0

Next ==
  \/ CallbackSucceeds
  \/ CallbackFails
  \/ IdentityIsWrong
  \/ ProfileJobSucceeds
  \/ Unbind
  \/ \E threshold \in Thresholds : Bind(threshold)

Spec == Init /\ [][Next]_vars
-----------------------------------------------------------------------------
(* Properties *)

TypeOK ==
  /\ bound \in BOOLEAN
  /\ initialized \in BOOLEAN
  /\ driverState \in DriverState
  /\ offlineThreshold \in 1 .. MaxConsecutive
  /\ consecutiveFailures \in 0 .. MaxConsecutive
  /\ totalSuccess \in 0 .. MaxTotal
  /\ totalFailures \in 0 .. MaxTotal
  /\ inARow \in Nat /\ successes \in Nat /\ failures \in Nat

(* The stored state is what INA3221.h:17-21 derives from the failures in a *)
(* row, also when the byte that counts them is full and when they began    *)
(* before this initialization.                                             *)
StateIsDerived ==
  driverState =
    IF ~initialized THEN "UNINIT"
    ELSE IF inARow = 0 THEN "READY"
    ELSE IF inARow < offlineThreshold THEN "DEGRADED" ELSE "OFFLINE"

Least(n, max) == IF n < max THEN n ELSE max

(* The counters are the history of all tracked results up to their limits, *)
(* whatever is bound and unbound meanwhile.                                *)
CountersAreHistory ==
  /\ consecutiveFailures = Least(inARow, MaxConsecutive)
  /\ totalSuccess = Least(successes, MaxTotal)
  /\ totalFailures = Least(failures, MaxTotal)

(* The three together are inductive. *)
HealthInv == TypeOK /\ StateIsDerived /\ CountersAreHistory
=============================================================================
