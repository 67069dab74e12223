---------------------------- MODULE TriggeredSample ----------------------------
(***************************************************************************)
(* The triggered sample job on a real clock: admission against the         *)
(* deadline, the trigger write, the wait for the conversion, the           *)
(* destructive CVRF check and its recheck, and the channel reads, driven   *)
(* by polls that bring their own time, deadline and transfer budget.       *)
(*                                                                         *)
(* Time passes in ticks, TicksPerMs of them in a millisecond; a poll sees  *)
(* the clock truncated to milliseconds, as PollContext::nowMs.  A poll is  *)
(* not atomic: it runs from BeginPoll, through one step for every callback *)
(* its budget allows, to its return, and each callback takes time, though  *)
(* never more than the timeout the driver gives it.                        *)
(***************************************************************************)
EXTENDS Naturals

CONSTANTS
  TicksPerMs,    \* ticks of the real clock in a millisecond
  CycleTicks,    \* maximumCycleTimeUs of the profile, in ticks
  WaitMs,        \* that time with CONVERSION_WAKE_MARGIN_US, rounded up to ms
  RecheckMs,     \* CVRF_FAULT_RECHECK_MS
  Timeout,       \* defaultTransferTimeoutMs of the transport
  ChannelReads,  \* registers of the enabled channels that the mode reads
  Deadlines,     \* absolute deadlines an owner may give a job
  PollDeadlines, \* PollContext::deadlineMs: 0, or a deadline for this poll
  Budgets,       \* PollContext::maxTransfers
  MaxClock       \* bound of the clock, in ticks

ASSUME TriggeredSampleAssumption ==
  /\ {TicksPerMs, WaitMs, RecheckMs, Timeout, ChannelReads} \subseteq Nat \ {0}
  /\ CycleTicks \in Nat /\ CycleTicks < WaitMs * TicksPerMs
  /\ Deadlines \subseteq Nat \ {0}
  /\ PollDeadlines \subseteq Nat
  /\ Budgets \subseteq Nat
  /\ MaxClock \in Nat

VARIABLES
  clock,    \* ghost: the real time, in ticks
  job,      \* the _job... fields that the wait uses
  poll,     \* the locals of the pollJob call that is running
  device,   \* ghost: the conversion in the device
  history   \* ghost: what has happened to this job

vars == <<clock, job, poll, device, history>>

SampleStage ==
  {"SAMPLE_WRITE_CONFIG", "SAMPLE_WAIT_ORIGIN", "SAMPLE_WAIT", "SAMPLE_READ_MASK",
   "SAMPLE_READ_CHANNELS"}
Terminal ==
  {"SUCCEEDED", "FAILED", "CANCELLED", "TIMED_OUT", "PARTIAL", "INDETERMINATE"}

NoJob ==
  [state |-> "IDLE", stage |-> "SAMPLE_WRITE_CONFIG", deadline |-> 0,
   waitDuration |-> 0, originAfter |-> 0, readyAt |-> 0, conversionStart |-> 0,
   snapshotValid |-> FALSE, index |-> 0, written |-> FALSE, effect |-> "NONE"]

NoPoll == [active |-> FALSE, now |-> 0, deadline |-> 0, left |-> 0, timeout |-> 0]

(* triggeredAt is when the device took the trigger; converted says that    *)
(* this conversion has ended, slow that it may exceed the maximum.         *)
NoConversion == [triggeredAt |-> 0, converted |-> FALSE, slow |-> FALSE]

(* firstMask is when the first Mask/Enable read was made (ticks), lowAt    *)
(* the poll time of the last one that showed CVRF low, stale says that a   *)
(* channel register was read before the conversion had ended, prompt that  *)
(* the owner has polled without delay or shortening and nothing failed.    *)
NoHistory == [firstMask |-> 0, lowAt |-> 0, low |-> FALSE, stale |-> FALSE,
              prompt |-> TRUE]

Earlier(a, b) == IF a < b THEN a ELSE b

-----------------------------------------------------------------------------
(* startTriggeredSample, with the driver initialized in a triggered mode. *)
Start(deadline) ==
  /\ job.state = "IDLE"
  /\ job' = [NoJob EXCEPT !.state = "ACTIVE", !.deadline = deadline]
  /\ history' = NoHistory
  /\ UNCHANGED <<clock, poll, device>>

(* _finishJob and _finishJobFailure. *)
FinishJob(state, effect) ==
  /\ job' = [job EXCEPT !.state = state, !.effect = effect]
  /\ poll' = NoPoll

FinishJobFailure(code, ambiguous) ==
  FinishJob(
    IF code = "DEADLINE_EXPIRED" THEN "TIMED_OUT"
    ELSE IF ambiguous THEN "INDETERMINATE"
    ELSE IF job.written THEN "PARTIAL" ELSE "FAILED",
    IF ambiguous THEN "INDETERMINATE" ELSE IF job.written THEN "PARTIAL" ELSE "NONE")

-----------------------------------------------------------------------------
(* pollJob: the deadline of the poll, and the timeout of its callbacks *)

nowMs == clock \div TicksPerMs

EffectiveDeadline_Renewable(pollDeadline) ==
  IF pollDeadline = 0 THEN job.deadline ELSE pollDeadline

EffectiveDeadline(pollDeadline) ==
  IF pollDeadline = 0 THEN job.deadline ELSE Earlier(pollDeadline, job.deadline)

ClampedTransferTimeout_Undivided(remaining, budget) == Earlier(Timeout, remaining)

ClampedTransferTimeout(remaining, budget) ==
  Earlier(Timeout, IF budget > 1 THEN remaining \div budget ELSE remaining)

BeginPoll(pollDeadline, budget) ==
  /\ job.state = "ACTIVE"
  /\ ~poll.active
  /\ LET deadline == EffectiveDeadline(pollDeadline) IN
     IF nowMs >= deadline
       THEN FinishJobFailure("DEADLINE_EXPIRED", FALSE)
       ELSE /\ poll' = [active |-> TRUE, now |-> nowMs, deadline |-> deadline,
                        left |-> budget,
                        timeout |-> ClampedTransferTimeout(deadline - nowMs, budget)]
            /\ UNCHANGED job
  /\ history' = [history EXCEPT !.prompt = @ /\ pollDeadline = 0 /\ budget <= 1]
  /\ UNCHANGED <<clock, device>>

Polling(stage) == poll.active /\ job.stage = stage

(* A callback takes d ticks of its timeout. *)
Callback(d) ==
  /\ poll.left > 0
  /\ poll.timeout > 0
  /\ d <= poll.timeout * TicksPerMs
  /\ clock' = clock + d

CallbackTicks == 0 .. Timeout * TicksPerMs

-----------------------------------------------------------------------------
(* SAMPLE_WRITE_CONFIG *)

(* Latest end of the success path: the one-tick origin advance, the wait   *)
(* and every callback at the transport's own timeout.                      *)
CompletionBound_WithoutCallbacks == poll.now + 1 + WaitMs

CompletionBound == poll.now + 1 + WaitMs + (2 + ChannelReads) * Timeout

RefuseTrigger ==
  /\ Polling("SAMPLE_WRITE_CONFIG")
  /\ CompletionBound > poll.deadline
  /\ FinishJob("TIMED_OUT", "NONE")
  /\ UNCHANGED <<clock, device, history>>

MayTrigger == Polling("SAMPLE_WRITE_CONFIG") /\ CompletionBound <= poll.deadline

(* The device takes the trigger by the end of the callback and starts a    *)
(* new conversion, which may turn out slow.                                *)
Trigger(d, slow) ==
  /\ MayTrigger
  /\ Callback(d)
  /\ job' = [job EXCEPT !.written = TRUE, !.waitDuration = WaitMs,
                        !.originAfter = poll.now, !.readyAt = 0,
                        !.stage = "SAMPLE_WAIT_ORIGIN"]
  /\ poll' = NoPoll
  /\ device' = [triggeredAt |-> clock', converted |-> FALSE, slow |-> slow]
  /\ UNCHANGED history

TriggerFails(d, ambiguous) ==
  /\ MayTrigger
  /\ Callback(d)
  /\ FinishJobFailure("I2C_ERROR", ambiguous)
  /\ \/ UNCHANGED device
     \/ /\ ambiguous
        /\ device' = [triggeredAt |-> clock', converted |-> FALSE, slow |-> FALSE]
  /\ history' = [history EXCEPT !.prompt = FALSE]

-----------------------------------------------------------------------------
(* SAMPLE_WAIT_ORIGIN and SAMPLE_WAIT: no callbacks *)

WaitEnd == poll.now + job.waitDuration

(* _jobConversionStartMs: latched once, and not moved by a recheck. *)
ConversionStart == IF job.snapshotValid THEN job.conversionStart ELSE poll.now

(* The first poll with a strictly later time starts the wait. *)
WaitOrigin ==
  /\ Polling("SAMPLE_WAIT_ORIGIN")
  /\ poll.now > job.originAfter
  /\ LET origin == [job EXCEPT !.stage = "SAMPLE_WAIT", !.readyAt = WaitEnd,
                               !.conversionStart = ConversionStart]
     IN \/ /\ WaitEnd < poll.deadline
           /\ job' = origin
           /\ poll' = NoPoll
        \/ /\ WaitEnd >= poll.deadline
           /\ job.snapshotValid
           /\ job' = [origin EXCEPT !.readyAt = poll.deadline]
           /\ poll' = NoPoll
        \/ /\ WaitEnd >= poll.deadline
           /\ ~job.snapshotValid
           /\ FinishJob("TIMED_OUT", "PARTIAL")
  /\ UNCHANGED <<clock, device, history>>

(* The poll comes too early for the stage, or has no transfer left for it. *)
ReturnInProgress ==
  /\ poll.active
  /\ \/ job.stage = "SAMPLE_WAIT_ORIGIN" /\ poll.now <= job.originAfter
     \/ job.stage = "SAMPLE_WAIT" /\ poll.now < job.readyAt
     \/ poll.left = 0 /\ (MayTrigger \/ job.stage \in {"SAMPLE_READ_MASK", "SAMPLE_READ_CHANNELS"})
  /\ poll' = NoPoll
  /\ UNCHANGED <<clock, job, device, history>>

WaitOver ==
  /\ Polling("SAMPLE_WAIT")
  /\ poll.now >= job.readyAt
  /\ job' = [job EXCEPT !.stage = "SAMPLE_READ_MASK"]
  /\ UNCHANGED <<clock, poll, device, history>>

(* The poll's share of the remaining time rounds to zero. *)
NoTimeForTransfer ==
  /\ MayTrigger \/ Polling("SAMPLE_READ_MASK") \/ Polling("SAMPLE_READ_CHANNELS")
  /\ poll.left > 0
  /\ poll.timeout = 0
  /\ FinishJobFailure("DEADLINE_EXPIRED", FALSE)
  /\ UNCHANGED <<clock, device, history>>

-----------------------------------------------------------------------------
(* SAMPLE_READ_MASK and SAMPLE_READ_CHANNELS *)

(* Whether the conversion has ended by time t: a device that is not slow   *)
(* needs at most the maximum cycle time, and may need less.                *)
Converted(t) ==
  IF device.converted \/ (~device.slow /\ t >= device.triggeredAt + CycleTicks)
    THEN {TRUE} ELSE BOOLEAN

GoOnToChannels ==
  /\ job' = [job EXCEPT !.snapshotValid = TRUE, !.stage = "SAMPLE_READ_CHANNELS"]
  /\ poll' = [poll EXCEPT !.left = @ - 1]

WaitAgain_Ignored == GoOnToChannels

WaitAgain_AfterConversionTime ==
  /\ job' = [job EXCEPT !.snapshotValid = TRUE, !.waitDuration = WaitMs,
                        !.originAfter = poll.now, !.readyAt = 0,
                        !.stage = "SAMPLE_WAIT_ORIGIN"]
  /\ poll' = NoPoll

WaitAgain ==
  /\ job' = [job EXCEPT !.snapshotValid = TRUE, !.waitDuration = RecheckMs,
                        !.originAfter = poll.now, !.readyAt = 0,
                        !.stage = "SAMPLE_WAIT_ORIGIN"]
  /\ poll' = NoPoll

(* The read consumes the alert flags; CVRF low sends the job back to wait. *)
ReadMask(d, cvrf) ==
  /\ Polling("SAMPLE_READ_MASK")
  /\ Callback(d)
  /\ cvrf \in Converted(clock)
  /\ device' = [device EXCEPT !.converted = cvrf]
  /\ IF cvrf THEN GoOnToChannels ELSE WaitAgain
  /\ history' = [history EXCEPT
       !.firstMask = IF job.snapshotValid THEN @ ELSE clock,
       !.lowAt = IF cvrf THEN @ ELSE poll.now,
       !.low = @ \/ ~cvrf]

ReadChannel(d, converted) ==
  /\ Polling("SAMPLE_READ_CHANNELS")
  /\ Callback(d)
  /\ converted \in Converted(clock)
  /\ device' = [device EXCEPT !.converted = converted]
  /\ history' = [history EXCEPT !.stale = @ \/ ~converted]
  /\ IF job.index + 1 = ChannelReads
       THEN FinishJob("SUCCEEDED", IF job.written THEN "CONFIRMED" ELSE "NONE")
       ELSE /\ job' = [job EXCEPT !.index = @ + 1]
            /\ poll' = [poll EXCEPT !.left = @ - 1]

ReadFails(d) ==
  /\ Polling("SAMPLE_READ_MASK") \/ Polling("SAMPLE_READ_CHANNELS")
  /\ Callback(d)
  /\ FinishJobFailure("I2C_ERROR", FALSE)
  /\ history' = [history EXCEPT !.prompt = FALSE]
  /\ UNCHANGED device

-----------------------------------------------------------------------------
CancelJob ==
  /\ job.state = "ACTIVE"
  /\ ~poll.active
  /\ FinishJob("CANCELLED", IF job.written THEN "PARTIAL" ELSE "NONE")
  /\ UNCHANGED <<clock, device, history>>

TakeJobResult ==
  /\ job.state \in Terminal
  /\ job' = NoJob
  /\ history' = NoHistory
  /\ UNCHANGED <<clock, poll, device>>

(* A poll now would do more than return. *)
PollIsDue ==
  /\ job.state = "ACTIVE"
  /\ job.stage = "SAMPLE_WAIT_ORIGIN" => nowMs > job.originAfter
  /\ job.stage = "SAMPLE_WAIT" => nowMs >= job.readyAt

(* Time passes between polls. *)
Tick ==
  /\ ~poll.active
  /\ clock < MaxClock
  /\ clock' = clock + 1
  /\ history' = [history EXCEPT !.prompt = @ /\ ~PollIsDue]
  /\ UNCHANGED <<job, poll, device>>

Init ==
  /\ clock = 0
  /\ job = NoJob
  /\ poll = NoPoll
  /\ device = NoConversion
  /\ history = NoHistory

PollStep ==
  \/ RefuseTrigger
  \/ \E d \in CallbackTicks, slow \in BOOLEAN : Trigger(d, slow)
  \/ \E d \in CallbackTicks, ambiguous \in BOOLEAN : TriggerFails(d, ambiguous)
  \/ WaitOrigin
  \/ ReturnInProgress
  \/ WaitOver
  \/ NoTimeForTransfer
  \/ \E d \in CallbackTicks, cvrf \in BOOLEAN : ReadMask(d, cvrf)
  \/ \E d \in CallbackTicks, converted \in BOOLEAN : ReadChannel(d, converted)
  \/ \E d \in CallbackTicks : ReadFails(d)

Poll == PollStep \/ \E t \in PollDeadlines, b \in Budgets : BeginPoll(t, b)

Next ==
  \/ \E t \in Deadlines : Start(t)
  \/ Poll
  \/ CancelJob
  \/ TakeJobResult
  \/ Tick

Spec == Init /\ [][Next]_vars

(* Real time never stops (not even for an owner that polls without pause), *)
(* and the owner keeps polling while a job is active.                      *)
FairSpec == Spec /\ SF_vars(Tick) /\ WF_vars(Poll)

-----------------------------------------------------------------------------
(* Properties *)

TypeOK ==
  /\ clock \in Nat
  /\ job \in [state : {"IDLE", "ACTIVE"} \union Terminal, stage : SampleStage,
              deadline : Nat, waitDuration : {0, WaitMs, RecheckMs},
              originAfter : Nat, readyAt : Nat, conversionStart : Nat,
              snapshotValid : BOOLEAN, index : 0 .. ChannelReads - 1,
              written : BOOLEAN,
              effect : {"NONE", "CONFIRMED", "PARTIAL", "INDETERMINATE"}]
  /\ poll \in [active : BOOLEAN, now : Nat, deadline : Nat, left : Nat,
               timeout : 0 .. Timeout]
  /\ poll.active => job.state = "ACTIVE"
  /\ device \in [triggeredAt : Nat, converted : BOOLEAN, slow : BOOLEAN]
  /\ history \in [firstMask : Nat, lowAt : Nat, low : BOOLEAN, stale : BOOLEAN,
                  prompt : BOOLEAN]

(* A sample that is delivered is TRIGGERED_ATOMIC: every register was read *)
(* after the conversion that this job triggered had ended, however slow it *)
(* was and whatever an earlier job has left behind.                        *)
SampleIsAtomic == job.state = "SUCCEEDED" => ~history.stale

(* A poll is over by its deadline, up to the truncated part of a           *)
(* millisecond, however many transfers it is allowed and however long each *)
(* of its callbacks takes.                                                 *)
PollEndsByDeadline ==
  [][poll.active => clock' < (poll.deadline + 1) * TicksPerMs]_vars

(* The first Mask/Enable read is at most the truncated part of a           *)
(* millisecond short of the maximum conversion time after the trigger.     *)
WaitIsShortByLessThanAMs ==
  job.snapshotValid =>
    history.firstMask + TicksPerMs > device.triggeredAt + WaitMs * TicksPerMs

(* The conversion start that a sample reports belongs to the trigger: no   *)
(* recheck moves it past the first Mask/Enable read.                       *)
ReportedStartIsTheTriggers ==
  job.state = "SUCCEEDED" =>
    /\ (job.conversionStart + 1) * TicksPerMs > device.triggeredAt
    /\ (job.conversionStart + WaitMs) * TicksPerMs <= history.firstMask

(* What a delivered sample says of its conversion is true: that it is      *)
(* waited for, that it is read, and when it began.                         *)
SampleIsItsOwn ==
  SampleIsAtomic /\ WaitIsShortByLessThanAMs /\ ReportedStartIsTheTriggers

(* Admission is sufficient: if the trigger was let through, the owner      *)
(* polls whenever a poll is due, no callback fails and CVRF is set at its  *)
(* first check, then the job does not run out of time.                     *)
AdmittedTriggerHasTime ==
  history.prompt /\ ~history.low /\ job.written => job.state # "TIMED_OUT"

(* A low CVRF is rechecked no sooner than RecheckMs later.                 *)
RecheckInterval ==
  [][ \A d \in CallbackTicks, cvrf \in BOOLEAN :
        ReadMask(d, cvrf) /\ history.low => poll.now >= history.lowAt + RecheckMs
    ]_vars

(* The same for an owner that polls whenever a poll is due and leaves the  *)
(* deadline to the job.                                                    *)
SteadyRecheckInterval ==
  [][ \A d \in CallbackTicks, cvrf \in BOOLEAN :
        ReadMask(d, cvrf) /\ history.low /\ history.prompt
          => poll.now >= history.lowAt + RecheckMs
    ]_vars

(* A low CVRF is only ever observed after the maximum conversion time, so  *)
(* it is a fault of the device.                                            *)
LowCvrfIsAFault == history.low => device.slow

(* Every sample job ends: if nothing else, the deadline ends it.           *)
SampleJobEnds == job.state = "ACTIVE" ~> job.state # "ACTIVE"
-----------------------------------------------------------------------------
(* The inductive invariant behind the properties above *)

(* A poll began no later than now, and before its deadline; what is left   *)
(* of its budget, at the timeout of its callbacks, fits before that.       *)
PollFits ==
  poll.active =>
    /\ poll.now * TicksPerMs <= clock
    /\ poll.now < poll.deadline
    /\ clock + (poll.left * poll.timeout) * TicksPerMs < (poll.deadline + 1) * TicksPerMs
    /\ job.stage = "SAMPLE_WRITE_CONFIG" => clock < (poll.now + 1) * TicksPerMs

(* What the stages say of the fields.                                      *)
StageIsTold ==
  /\ job.stage = "SAMPLE_WRITE_CONFIG" =>
       ~job.written /\ ~job.snapshotValid /\ ~history.low
  /\ job.stage = "SAMPLE_WAIT_ORIGIN" /\ ~job.snapshotValid => job.waitDuration = WaitMs
  /\ job.stage = "SAMPLE_READ_CHANNELS" => job.snapshotValid /\ device.converted
  /\ job.state = "SUCCEEDED" => job.stage = "SAMPLE_READ_CHANNELS"
  /\ ~history.stale

(* The conversion start is not before the trigger, the wait is counted     *)
(* from it, and the first Mask/Enable read comes after the wait.           *)
StartIsLatched ==
  LET latched == job.snapshotValid \/ job.stage \in {"SAMPLE_WAIT", "SAMPLE_READ_MASK"}
  IN
  /\ job.stage # "SAMPLE_WRITE_CONFIG" =>
       /\ device.triggeredAt <= clock
       /\ poll.active => device.triggeredAt < (poll.now + 1) * TicksPerMs
  /\ latched => device.triggeredAt < (job.conversionStart + 1) * TicksPerMs
  /\ job.stage \in {"SAMPLE_WAIT", "SAMPLE_READ_MASK"} /\ ~job.snapshotValid =>
       job.readyAt = job.conversionStart + WaitMs
  /\ job.stage = "SAMPLE_READ_MASK" =>
       /\ job.readyAt * TicksPerMs <= clock
       /\ poll.active => job.readyAt <= poll.now
  /\ job.snapshotValid =>
       (job.conversionStart + WaitMs) * TicksPerMs <= history.firstMask

(* A prompt owner's polls have the job's deadline and time for a transfer. *)
PromptPollsHaveTime ==
  history.prompt /\ poll.active =>
    poll.deadline = job.deadline /\ poll.left <= 1 /\ poll.timeout > 0

(* What a prompt owner has used of the time that admission granted.        *)
TimeIsUsedAsAdmitted ==
  history.prompt /\ ~history.low /\ job.written /\ job.state = "ACTIVE" =>
    LET By(ms) == clock <= (job.originAfter + WaitMs + ms) * TicksPerMs IN
    /\ job.originAfter + 1 + WaitMs + (2 + ChannelReads) * Timeout <= job.deadline
    /\ job.stage = "SAMPLE_WAIT_ORIGIN" =>
         ~job.snapshotValid /\ clock < (job.originAfter + 1 + Timeout) * TicksPerMs
    /\ job.stage = "SAMPLE_WAIT" => job.readyAt <= job.originAfter + WaitMs + Timeout
    /\ job.stage \in {"SAMPLE_WAIT", "SAMPLE_READ_MASK"} => ~job.snapshotValid /\ By(Timeout)
    /\ job.stage = "SAMPLE_READ_CHANNELS" => By((2 + job.index) * Timeout)

(* After a low CVRF the wait is the recheck's, unless the deadline cuts it *)
(* short.                                                                  *)
RecheckIsAwaited ==
  /\ history.low /\ job.stage = "SAMPLE_WAIT_ORIGIN" =>
       job.originAfter = history.lowAt /\ job.waitDuration = RecheckMs
  /\ history.low /\ history.prompt /\ job.stage \in {"SAMPLE_WAIT", "SAMPLE_READ_MASK"} =>
       job.readyAt >= history.lowAt + RecheckMs \/ job.readyAt >= job.deadline

SampleInv ==
  /\ PollFits
  /\ StageIsTold
  /\ StartIsLatched
  /\ PromptPollsHaveTime
  /\ TimeIsUsedAsAdmitted
  /\ RecheckIsAwaited
=============================================================================
