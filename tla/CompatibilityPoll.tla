-------------------------- MODULE CompatibilityPoll --------------------------
(***************************************************************************)
(* The compatibility jobs: startSingleShot, startContinuousRead and        *)
(* startApplyMaskEnable admit an owner job, and their poll methods drive   *)
(* it with a 32-bit clock that wraps and take its result themselves.  The  *)
(* 32-bit time is extended from poll to poll; the deadline is set at the   *)
(* first poll, a duration ahead that is fixed at the start.                *)
(*                                                                         *)
(* The same job slot serves the owner API, whose jobs the compatibility    *)
(* polls must leave alone.  A job here is its deadline and its end: what   *)
(* it does on the bus is in modules OwnerJobs and TriggeredSample.         *)
(***************************************************************************)
EXTENDS Integers

CONSTANTS
  Wrap,         \* the period of the 32-bit clock (2^32)
  WorkMs,       \* what the bounds of callbacks and conversion of each kind add up to
  MarginMs,     \* COMPATIBILITY_SCHEDULING_MARGIN_MS
  Budgets,      \* the values of maxInstructions
  NoDeadline,   \* UINT64_MAX, the deadline until the first poll sets one
  OwnerMs,      \* how far ahead an owner sets its deadlines
  MaxClock      \* bound of the model: the largest true time

ASSUME CompatibilityPollAssumption ==
  /\ Wrap \in Nat \ {0}
  /\ WorkMs \in [{"SINGLE_SHOT", "CONTINUOUS_READ", "APPLY_MASK_ENABLE"} -> Nat \ {0}]
  /\ MarginMs \in Nat \ {0}
  /\ Budgets \subseteq 0 .. MarginMs
  /\ NoDeadline \notin Nat
  /\ OwnerMs \subseteq Nat
  /\ MaxClock \in Nat

PollJobKind == {"NONE", "SINGLE_SHOT", "CONTINUOUS_READ", "APPLY_MASK_ENABLE"}
JobKind == {"NONE", "INITIALIZE", "APPLY_PROFILE", "RECONCILE", "TRIGGERED_SAMPLE",
            "CONTINUOUS_SAMPLE", "POWER_DOWN"}
(* FAILED stands for PARTIAL and INDETERMINATE too. *)
JobState == {"IDLE", "ACTIVE", "SUCCEEDED", "FAILED", "CANCELLED", "TIMED_OUT"}

JobOf ==
  [SINGLE_SHOT |-> "TRIGGERED_SAMPLE", CONTINUOUS_READ |-> "CONTINUOUS_SAMPLE",
   APPLY_MASK_ENABLE |-> "APPLY_PROFILE"]

VARIABLES
  clock,      \* the true time in milliseconds
  poll,       \* the _poll... fields: kind, complete, duration, extended time
  job,        \* _jobKind, _jobState, _jobDeadlineMs; for: who started it (ghost)
  hasResult,  \* _hasPendingJobResult
  first,      \* ghost: the true time of the first poll of the compatibility job
  last,       \* ghost: the true time of its latest poll
  delivered   \* ghost: the last result taken: by whom, and of whose job

vars == <<clock, poll, job, hasResult, first, last, delivered>>

NoPoll == [kind |-> "NONE", complete |-> FALSE, durationMs |-> 0,
           timeInitialized |-> FALSE, lastNowMs |-> 0, extendedNowMs |-> 0]
NoJob == [kind |-> "NONE", state |-> "IDLE", deadlineMs |-> 0, for |-> "NOBODY"]
NoDelivery == [to |-> "NOBODY", of |-> "NOBODY", state |-> "IDLE"]

nowMs == clock % Wrap

CompatibilityDurationMs(kind) == WorkMs[kind] + MarginMs
-----------------------------------------------------------------------------
(* Admission *)

CanStart == ~hasResult /\ job.state # "ACTIVE"

(* _startJob forgets the compatibility job before it. *)
ClearPollJob_Never == UNCHANGED poll

ClearPollJob == poll' = NoPoll

StartOwnerJob(kind, ahead) ==
  /\ CanStart
  /\ ClearPollJob
  /\ job' = [kind |-> kind, state |-> "ACTIVE", deadlineMs |-> clock + ahead, for |-> "OWNER"]
  /\ UNCHANGED <<clock, hasResult, first, last, delivered>>

(* startSingleShot, startContinuousRead, startApplyMaskEnable *)
StartCompatibility(kind) ==
  /\ CanStart
  /\ job' = [kind |-> JobOf[kind], state |-> "ACTIVE", deadlineMs |-> NoDeadline,
             for |-> "COMPATIBILITY"]
  /\ poll' = [NoPoll EXCEPT !.kind = kind, !.durationMs = CompatibilityDurationMs(kind)]
  /\ UNCHANGED <<clock, hasResult, first, last, delivered>>

StartSingleShot == StartCompatibility("SINGLE_SHOT")
StartContinuousRead == StartCompatibility("CONTINUOUS_READ")
StartApplyMaskEnable == StartCompatibility("APPLY_MASK_ENABLE")

-----------------------------------------------------------------------------
(* Polling *)

(* Time left with which a poll may give up before the deadline: less than  *)
(* a millisecond for each of its transfers, or, for a triggered sample,    *)
(* less than the conversion and the callbacks may need.                    *)
MayGiveUp(kind, budget, left) ==
  left < budget \/ (kind = "SINGLE_SHOT" /\ left <= WorkMs[kind])

(* What pollJob leaves of a compatibility job: TIMED_OUT once the deadline *)
(* is reached, otherwise any progress or end.                              *)
PolledStates(deadlineMs, budget, time) ==
  IF job.state # "ACTIVE" THEN {job.state}
  ELSE IF time >= deadlineMs THEN {"TIMED_OUT"}
  ELSE {"ACTIVE", "SUCCEEDED", "FAILED"}
         \union IF MayGiveUp(poll.kind, budget, deadlineMs - time) THEN {"TIMED_OUT"} ELSE {}

(* _prepareCompatibilityPoll: the extended time, *)
Extended ==
  IF poll.timeInitialized
    THEN poll.extendedNowMs + ((Wrap + nowMs - poll.lastNowMs) % Wrap)
    ELSE nowMs

(* and the deadline, which replaces the sentinel at the first poll.        *)
Deadline_Absolute(time) ==
  IF job.deadlineMs = NoDeadline THEN poll.durationMs ELSE job.deadlineMs

Deadline(time) ==
  IF job.deadlineMs = NoDeadline THEN time + poll.durationMs ELSE job.deadlineMs

(* The poll methods: prepare, poll, and take the result if there is one,   *)
(* also one of an earlier cancelJob.                                       *)
PollCompatibility(kind, budget) ==
  /\ poll.kind = kind
  /\ job.kind = JobOf[kind]
  /\ LET time == Extended
         deadline == Deadline(time)
         extended == [poll EXCEPT !.timeInitialized = TRUE, !.lastNowMs = nowMs,
                                  !.extendedNowMs = time]
     IN \E state \in PolledStates(deadline, budget, time) :
          IF state = "ACTIVE"
            THEN /\ poll' = extended
                 /\ job' = [job EXCEPT !.deadlineMs = deadline]
                 /\ UNCHANGED <<hasResult, delivered>>
            ELSE /\ poll' = [extended EXCEPT !.complete = @ \/ state = "SUCCEEDED"]
                 /\ job' = NoJob
                 /\ hasResult' = FALSE
                 /\ delivered' = [to |-> "COMPATIBILITY", of |-> job.for, state |-> state]
  /\ first' = IF poll.timeInitialized THEN first ELSE clock
  /\ last' = clock
  /\ UNCHANGED clock

PollSingleShot(budget) == PollCompatibility("SINGLE_SHOT", budget)
PollContinuousRead(budget) == PollCompatibility("CONTINUOUS_READ", budget)
PollApplyMaskEnable(budget) == PollCompatibility("APPLY_MASK_ENABLE", budget)

(* pollJob on an owner's job, with the owner's 64-bit time; its own poll   *)
(* deadlines may end the job early.                                        *)
PollOwner ==
  /\ job.state = "ACTIVE"
  /\ job.for = "OWNER"
  /\ \E state \in IF clock >= job.deadlineMs THEN {"TIMED_OUT"}
                  ELSE {"ACTIVE", "SUCCEEDED", "FAILED", "TIMED_OUT"} :
       /\ job' = [job EXCEPT !.state = state]
       /\ hasResult' = (state # "ACTIVE")
  /\ UNCHANGED <<clock, poll, first, last, delivered>>

CancelJob ==
  /\ job.state = "ACTIVE"
  /\ job' = [job EXCEPT !.state = "CANCELLED"]
  /\ hasResult' = TRUE
  /\ UNCHANGED <<clock, poll, first, last, delivered>>

(* takeJobResult, which may also fetch the result of a cancelled           *)
(* compatibility job.                                                      *)
TakeJobResult ==
  /\ hasResult
  /\ hasResult' = FALSE
  /\ job' = NoJob
  /\ delivered' = [to |-> "OWNER", of |-> job.for, state |-> job.state]
  /\ UNCHANGED <<clock, poll, first, last>>

(* A legacy write to Configuration, or a soft reset, while no job runs:     *)
(* the compatibility job is forgotten, its pending result is not.          *)
WriteConfigRegister ==
  /\ job.state # "ACTIVE"
  /\ ClearPollJob
  /\ UNCHANGED <<clock, job, hasResult, first, last, delivered>>

(* unbind, at any time; the driver may be bound again at once.             *)
Unbind ==
  /\ ClearPollJob
  /\ job' = NoJob
  /\ hasResult' = FALSE
  /\ UNCHANGED <<clock, first, last, delivered>>

(* The caller must poll a compatibility job at least once per clock period. *)
Tick ==
  /\ clock < MaxClock
  /\ poll.timeInitialized /\ job.for = "COMPATIBILITY" => clock + 1 - last < Wrap
  /\ clock' = clock + 1
  /\ UNCHANGED <<poll, job, hasResult, first, last, delivered>>

-----------------------------------------------------------------------------
Init ==
  /\ clock \in 0 .. Wrap
  /\ poll = NoPoll
  /\ job = NoJob
  /\ hasResult = FALSE
  /\ first = 0
  /\ last = 0
  /\ delivered = NoDelivery

Next ==
  \/ \E kind \in JobKind \ {"NONE"}, ahead \in OwnerMs : StartOwnerJob(kind, ahead)
  \/ StartSingleShot
  \/ StartContinuousRead
  \/ StartApplyMaskEnable
  \/ \E budget \in Budgets :
       \/ PollSingleShot(budget)
       \/ PollContinuousRead(budget)
       \/ PollApplyMaskEnable(budget)
  \/ PollOwner
  \/ CancelJob
  \/ TakeJobResult
  \/ WriteConfigRegister
  \/ Unbind
  \/ Tick

Spec == Init /\ [][Next]_vars
-----------------------------------------------------------------------------
(* Properties *)

TypeOK ==
  /\ clock \in Nat
  /\ poll \in [kind : PollJobKind, complete : BOOLEAN, durationMs : Nat,
               timeInitialized : BOOLEAN, lastNowMs : 0 .. Wrap - 1, extendedNowMs : Nat]
  /\ job \in [kind : JobKind, state : JobState, deadlineMs : Nat \union {NoDeadline},
              for : {"NOBODY", "OWNER", "COMPATIBILITY"}]
  /\ hasResult \in BOOLEAN
  /\ first \in Nat
  /\ last \in Nat

CompatibilityActive ==
  job.state = "ACTIVE" /\ job.for = "COMPATIBILITY" /\ poll.timeInitialized

(* However often the 32-bit clock wraps, the extended time advances by the *)
(* true time, for a caller that polls once per period (README:518).        *)
ExtendedTimeIsTrue ==
  CompatibilityActive => poll.extendedNowMs = (first % Wrap) + (last - first)

(* A compatibility job has its duration and no more, counted from its      *)
(* first poll.                                                             *)
DurationIsKept == CompatibilityActive => last - first < poll.durationMs

(* A compatibility job times out only with too little time left for what   *)
(* it has to do: never at its first poll, however long after the start     *)
(* that comes and whatever the clock shows then.                           *)
TimeoutIsDue ==
  delivered.state = "TIMED_OUT" /\ delivered.of = "COMPATIBILITY"
    /\ poll.timeInitialized /\ job = NoJob
      => /\ last > first
         /\ \E budget \in Budgets :
              LET left == first + poll.durationMs - last
              IN left <= 0 \/ MayGiveUp(poll.kind, budget, left)

(* A compatibility job gets the time it was promised, and no more, on any  *)
(* clock the 32-bit readings can come from.                                *)
DeadlineIsTrue == ExtendedTimeIsTrue /\ DurationIsKept /\ TimeoutIsDue

(* A compatibility poll takes the results of compatibility jobs only: an   *)
(* owner never finds its result gone.                                      *)
OwnersResultIsKept == delivered.to = "COMPATIBILITY" => delivered.of = "COMPATIBILITY"
-----------------------------------------------------------------------------
(* The inductive invariant behind the properties above *)

(* An owner's job leaves no compatibility job to be polled, and only a     *)
(* cancel ends a compatibility job before its own poll does.               *)
SlotIsAttributed ==
  /\ poll.kind = "NONE" => ~poll.timeInitialized
  /\ job.for = "NOBODY" => job.kind = "NONE"
  /\ job.for = "OWNER" => poll.kind = "NONE"
  /\ job.for = "COMPATIBILITY" => job.state \in {"ACTIVE", "CANCELLED"}

(* The duration is the kind's, and the deadline waits for the first poll.  *)
DeadlineAwaitsPoll ==
  job.for = "COMPATIBILITY" /\ poll.kind # "NONE" =>
    /\ poll.durationMs = CompatibilityDurationMs(poll.kind)
    /\ ~poll.timeInitialized => job.deadlineMs = NoDeadline

(* From then on all the times are counted from the first poll.             *)
TimesAreOfFirstPoll ==
  job.for = "COMPATIBILITY" /\ poll.timeInitialized =>
    /\ first <= last /\ clock - last < Wrap
    /\ poll.lastNowMs = last % Wrap
    /\ poll.extendedNowMs = (first % Wrap) + (last - first)
    /\ job.deadlineMs = (first % Wrap) + poll.durationMs
    /\ last - first < poll.durationMs

PollInv ==
  /\ last <= clock
  /\ SlotIsAttributed
  /\ DeadlineAwaitsPoll
  /\ TimesAreOfFirstPoll
=============================================================================
