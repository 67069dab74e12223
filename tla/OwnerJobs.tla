------------------------------ MODULE OwnerJobs ------------------------------
(***************************************************************************)
(* The cooperative owner API of the driver: bind and unbind, the six kinds *)
(* of job, their staged execution by pollJob, cancelJob and takeJobResult, *)
(* together with the registers of the physical device.                     *)
(*                                                                         *)
(* One step of a job is one transport callback (pollJob with maxTransfers  *)
(* = 1, and the unit every larger poll is made of) and everything the      *)
(* driver does up to the next callback.  Time is abstracted here: any poll *)
(* may find its deadline expired, and a wait for a conversion may end at   *)
(* any poll.  Module TriggeredSample has the clock.                        *)
(*                                                                         *)
(* A callback that fails may or may not have reached the device.  The      *)
(* ghost variables record what really happened, which the driver cannot    *)
(* see: the device's registers, the registers an outside reset has changed *)
(* since the driver last touched them, and whether a write of the current  *)
(* job has reached the device.                                             *)
(***************************************************************************)
EXTENDS ManagedRegisters

CONSTANTS
  Candidates,     \* the profiles an owner may bind or apply
  RequestIds,     \* the request IDs an owner may choose (non-zero)
  MaxGeneration,  \* where _profileGeneration saturates (UINT32_MAX)
  SampleReads     \* channel registers one sample reads (1 to 6)

ASSUME OwnerJobsAssumption ==
  /\ Candidates \subseteq DeviceProfile
  /\ RequestIds \subseteq Nat \ {0}
  /\ MaxGeneration \in Nat
  /\ SampleReads \in Nat \ {0}

ProfileKind == {"INITIALIZE", "APPLY_PROFILE", "RECONCILE"}
SampleKind == {"TRIGGERED_SAMPLE", "CONTINUOUS_SAMPLE"}
JobKind == {"NONE", "POWER_DOWN"} \union ProfileKind \union SampleKind

Stage ==
  {"IDLE", "READ_MANUFACTURER_ID", "READ_DIE_ID",
   "PROFILE_READ", "PROFILE_WRITE", "PROFILE_VERIFY",
   "SAMPLE_WRITE_CONFIG", "SAMPLE_WAIT", "SAMPLE_READ_MASK", "SAMPLE_READ_CHANNELS",
   "POWER_READ_CONFIG", "POWER_WRITE_CONFIG", "POWER_VERIFY_CONFIG"}

TerminalState ==
  {"SUCCEEDED", "FAILED", "CANCELLED", "TIMED_OUT", "PARTIAL", "INDETERMINATE"}
JobTerminalState == {"IDLE", "ACTIVE"} \union TerminalState
HardwareEffect == {"NONE", "CONFIRMED", "PARTIAL", "INDETERMINATE"}

(* What one write callback returns, and whether the device took the write. *)
(* I2C_NACK_ADDR stands for the four codes that prove it did not.          *)
WriteOutcome ==
  { [code |-> "OK",               landed |-> TRUE],
    [code |-> "I2C_NACK_ADDR",    landed |-> FALSE],
    [code |-> "I2C_ERROR",        landed |-> TRUE],
    [code |-> "I2C_ERROR",        landed |-> FALSE],
    [code |-> "DEADLINE_EXPIRED", landed |-> TRUE],
    [code |-> "DEADLINE_EXPIRED", landed |-> FALSE] }

VARIABLES
  bound,           \* _bound
  initialized,     \* _initialized
  profile,         \* _profile, the retained desired profile
  pendingProfile,  \* _pendingProfile, the candidate of the job
  certainty,       \* _measurementConfigState, _alertConfigState, _hardwareConfigDirty
  generation,      \* _profileGeneration
  job,             \* the _job... fields
  hasResult,       \* _hasPendingJobResult
  result,          \* _pendingJobResult
  hasSample,       \* _hasLastGoodSample
  sample,          \* _lastGoodSample: provenance, and (ghost) its profile
  device,          \* ghost: the device's managed registers
  disturbed,       \* ghost: registers reset from outside, unseen by the driver
  reached          \* ghost: a write of the current job reached the device

driverVars ==
  <<bound, initialized, profile, pendingProfile, certainty, generation,
    job, hasResult, result, hasSample, sample>>
ghostVars == <<device, disturbed, reached>>
vars == <<driverVars, ghostVars>>

IdleJob ==
  [kind |-> "NONE", stage |-> "IDLE", state |-> "IDLE", requestId |-> 0,
   index |-> 0, anyWriteConfirmed |-> FALSE, generation |-> 0]

NoResult ==
  [kind |-> "NONE", state |-> "IDLE", effect |-> "NONE", requestId |-> 0,
   generation |-> 0, sampleValid |-> FALSE]

NoSample == [generation |-> 0, requestId |-> 0, under |-> DefaultProfile]

-----------------------------------------------------------------------------
(* Binding *)

(* unbind(): allowed at any time, discards the job, its result, the last   *)
(* sample and all certainty; the physical device keeps its registers.  The *)
(* bytes of the discarded result and sample stay in memory, unreadable;    *)
(* here they are cleared.                                                  *)
Unbound ==
  /\ initialized' = FALSE
  /\ certainty' = UnknownCertainty
  /\ generation' = 0
  /\ job' = IdleJob
  /\ hasResult' = FALSE
  /\ result' = NoResult
  /\ hasSample' = FALSE
  /\ sample' = NoSample
  /\ reached' = FALSE
  /\ UNCHANGED <<device, disturbed>>

Unbind ==
  /\ Unbound
  /\ bound' = FALSE
  /\ UNCHANGED <<profile, pendingProfile>>

(* bind(): rejected while a job is active or a result is pending. *)
Bind(p) ==
  /\ job.state # "ACTIVE"
  /\ ~hasResult
  /\ Unbound
  /\ bound' = TRUE
  /\ profile' = p
  /\ pendingProfile' = p

-----------------------------------------------------------------------------
(* Admission *)

(* _startJob: the guards and the fresh job it leaves. *)
CanStart_OverPendingResult == bound /\ job.state # "ACTIVE"

CanStart ==
  /\ bound
  /\ ~hasResult
  /\ job.state # "ACTIVE"

StartJob(kind, stage, id, gen) ==
  /\ CanStart
  /\ job' = [kind |-> kind, stage |-> stage, state |-> "ACTIVE", requestId |-> id,
             index |-> 0, anyWriteConfirmed |-> FALSE, generation |-> gen]
  /\ reached' = FALSE
  /\ UNCHANGED <<bound, initialized, profile, certainty, generation,
                 hasResult, result, hasSample, sample, device, disturbed>>

StartInitialize(id) ==
  /\ StartJob("INITIALIZE", "READ_MANUFACTURER_ID", id, 0)
  /\ pendingProfile' = profile

StartApplyProfile(p, id) ==
  /\ initialized
  /\ StartJob("APPLY_PROFILE", "PROFILE_READ", id, 0)
  /\ pendingProfile' = p

StartReconcile(id) ==
  /\ initialized
  /\ StartJob("RECONCILE", "PROFILE_READ", id, 0)
  /\ pendingProfile' = profile

StartTriggeredSample(id) ==
  /\ initialized
  /\ isTriggeredMode(profile.config.mode)
  /\ certainty.measurement = "APPLIED"
  /\ StartJob("TRIGGERED_SAMPLE", "SAMPLE_WRITE_CONFIG", id, generation)
  /\ UNCHANGED pendingProfile

StartContinuousSample(id, consumeAlertSnapshot) ==
  /\ initialized
  /\ isContinuousMode(profile.config.mode)
  /\ certainty.measurement = "APPLIED"
  /\ StartJob("CONTINUOUS_SAMPLE",
              IF consumeAlertSnapshot THEN "SAMPLE_READ_MASK" ELSE "SAMPLE_READ_CHANNELS",
              id, generation)
  /\ UNCHANGED pendingProfile

StartPowerDown(id) ==
  /\ initialized
  /\ StartJob("POWER_DOWN", "POWER_READ_CONFIG", id, 0)
  /\ pendingProfile' = PoweredDown(profile)

-----------------------------------------------------------------------------
(* Terminalization *)

At(stage) == job.state = "ACTIVE" /\ job.stage = stage

(* _finishJob: the one place where a result is made. *)
FinishJob(state, effect, gen) ==
  /\ job' = [job EXCEPT !.state = state]
  /\ hasResult' = TRUE
  /\ result' = [kind |-> job.kind, state |-> state, effect |-> effect,
                requestId |-> job.requestId, generation |-> gen,
                sampleValid |-> state = "SUCCEEDED" /\ job.kind \in SampleKind]

(* _finishJobFailure.  c is the certainty after the failing stage's own marks; *)
(* ambiguous says that the failed callback was a write that may have landed.   *)
FailureEffect(ambiguous) ==
  IF ambiguous THEN "INDETERMINATE"
  ELSE IF job.anyWriteConfirmed THEN "PARTIAL" ELSE "NONE"

FailureState(code, ambiguous) ==
  IF code = "DEADLINE_EXPIRED" THEN "TIMED_OUT"
  ELSE IF ambiguous THEN "INDETERMINATE"
  ELSE IF job.anyWriteConfirmed THEN "PARTIAL" ELSE "FAILED"

FinishJobFailure(c, code, ambiguous) ==
  /\ certainty' = IF job.anyWriteConfirmed /\ job.kind = "POWER_DOWN"
                  THEN MarkDirty(c, 0) ELSE c
  /\ FinishJob(FailureState(code, ambiguous), FailureEffect(ambiguous), generation)
  /\ UNCHANGED <<bound, initialized, profile, pendingProfile, generation,
                 hasSample, sample>>

(* _finishJobSuccess, by kind. *)
SuccessEffect == IF job.anyWriteConfirmed THEN "CONFIRMED" ELSE "NONE"

NextGeneration == IF generation < MaxGeneration THEN generation + 1 ELSE generation

SuccessCertainty_AllApplied(c) == AppliedCertainty

SuccessCertainty(c) ==
  IF job.kind = "POWER_DOWN"
    THEN [measurement |-> "APPLIED", alert |-> c.alert, dirty |-> c.alert # "APPLIED"]
    ELSE AppliedCertainty

FinishProfileSuccess(c) ==
  /\ profile' = pendingProfile
  /\ certainty' = SuccessCertainty(c)
  /\ initialized' = TRUE
  /\ generation' = NextGeneration
  /\ FinishJob("SUCCEEDED", SuccessEffect, NextGeneration)
  /\ UNCHANGED <<bound, pendingProfile, hasSample, sample>>

FinishSampleSuccess ==
  /\ hasSample' = TRUE
  /\ sample' = [generation |-> job.generation, requestId |-> job.requestId,
                under |-> profile]
  /\ FinishJob("SUCCEEDED", SuccessEffect, generation)
  /\ UNCHANGED <<bound, initialized, profile, pendingProfile, certainty, generation>>

(* The job goes on to another stage; nothing but the job's fields and the *)
(* certainty change.                                                       *)
Continue(newJob, c) ==
  /\ job' = newJob
  /\ certainty' = c
  /\ UNCHANGED <<bound, initialized, profile, pendingProfile, generation,
                 hasResult, result, hasSample, sample>>

GoTo(stage, c) == Continue([job EXCEPT !.stage = stage], c)

-----------------------------------------------------------------------------
(* The device's side of a callback *)

(* A write of v to register i that the device takes, or never sees. *)
DeviceWrite(i, v, landed) ==
  /\ device' = IF landed THEN WithRegister(device, i, v) ELSE device
  /\ disturbed' = IF landed THEN disturbed \ {i} ELSE disturbed
  /\ reached' = (reached \/ landed)

(* A completed read shows the driver register i as it is. *)
DeviceRead(i) ==
  /\ disturbed' = disturbed \ {i}
  /\ UNCHANGED <<device, reached>>

NoManagedRegister == UNCHANGED ghostVars

(* A power cycle or reset of the device, behind the driver's back. *)
DeviceReset ==
  /\ device # ResetImage
  /\ device' = ResetImage
  /\ disturbed' = disturbed \union
       {i \in ManagedIndex : ~RegisterMatches(device, ResetImage, i)}
  /\ UNCHANGED <<driverVars, reached>>

(* _writeMayHaveReachedDevice, for a callback that was invoked and failed. *)
MayHaveReached_NotOnTimeout(code) == code \notin {"I2C_NACK_ADDR", "DEADLINE_EXPIRED"}

MayHaveReached(code) == code # "I2C_NACK_ADDR"

(* One write stage: what follows an accepted write is Accepted. *)
WriteStage(i, v, o, Accepted) ==
  /\ DeviceWrite(i, v, o.landed)
  /\ IF o.code = "OK"
       THEN Accepted
       ELSE FinishJobFailure(
              IF MayHaveReached(o.code) THEN MarkUnknown(certainty, i) ELSE certainty,
              o.code, MayHaveReached(o.code))

-----------------------------------------------------------------------------
(* pollJob *)

(* The deadline has passed, at the start of the poll or when the transfer  *)
(* timeout is clamped to zero: no callback is made.                        *)
PollExpired ==
  /\ job.state = "ACTIVE"
  /\ FinishJobFailure(certainty, "DEADLINE_EXPIRED", FALSE)
  /\ NoManagedRegister

ReadStage ==
  {"READ_MANUFACTURER_ID", "READ_DIE_ID", "PROFILE_READ", "PROFILE_VERIFY",
   "SAMPLE_WAIT", "SAMPLE_READ_MASK", "SAMPLE_READ_CHANNELS",
   "POWER_READ_CONFIG", "POWER_VERIFY_CONFIG"}

(* The read callback of the current stage fails. *)
PollReadFails ==
  /\ job.state = "ACTIVE"
  /\ job.stage \in ReadStage
  /\ FinishJobFailure(
       IF job.stage = "PROFILE_VERIFY" THEN MarkDirty(certainty, job.index)
       ELSE certainty,
       "I2C_ERROR", FALSE)
  /\ NoManagedRegister

(* Manufacturer and die identity: a device that answers with another ID    *)
(* fails the job.                                                          *)
PollIdentity(matches) ==
  /\ job.state = "ACTIVE"
  /\ job.stage \in {"READ_MANUFACTURER_ID", "READ_DIE_ID"}
  /\ IF matches
       THEN GoTo(IF job.stage = "READ_MANUFACTURER_ID" THEN "READ_DIE_ID"
                 ELSE "PROFILE_READ", certainty)
       ELSE FinishJobFailure(certainty, "ID_MISMATCH", FALSE)
  /\ NoManagedRegister

(* The register at job.index is as the candidate wants it: go on to the    *)
(* next one, or finish the job after the last.                             *)
NextRegister_Again(c) ==
  IF job.index = LastIndex
    THEN FinishProfileSuccess(c)
    ELSE Continue([job EXCEPT !.stage = "PROFILE_READ"], c)

NextRegister(c) ==
  IF job.index = LastIndex
    THEN FinishProfileSuccess(c)
    ELSE Continue([job EXCEPT !.index = @ + 1, !.stage = "PROFILE_READ"], c)

(* The certainty after a comparison read of register i: a read that        *)
(* disproves the retained profile takes the family's APPLIED away.         *)
AfterComparison(i) ==
  IF FamilyState(certainty, i) = "APPLIED" /\ ~RegisterMatches(device, profile, i)
    THEN MarkDirty(certainty, i) ELSE certainty

PollProfileRead ==
  /\ At("PROFILE_READ")
  /\ IF RegisterMatches(device, pendingProfile, job.index)
       THEN NextRegister(AfterComparison(job.index))
       ELSE GoTo("PROFILE_WRITE", AfterComparison(job.index))
  /\ DeviceRead(job.index)

PollProfileWrite_Unrecorded(o) ==
  /\ At("PROFILE_WRITE")
  /\ WriteStage(job.index, DesiredRegister(pendingProfile, job.index), o,
       Continue([job EXCEPT !.stage = "PROFILE_VERIFY"], MarkDirty(certainty, job.index)))

PollProfileWrite(o) ==
  /\ At("PROFILE_WRITE")
  /\ WriteStage(job.index, DesiredRegister(pendingProfile, job.index), o,
       Continue([job EXCEPT !.stage = "PROFILE_VERIFY", !.anyWriteConfirmed = TRUE],
                MarkDirty(certainty, job.index)))

PollProfileVerify ==
  /\ At("PROFILE_VERIFY")
  /\ IF RegisterMatches(device, pendingProfile, job.index)
       THEN NextRegister(certainty)
       ELSE /\ certainty' = MarkDirty(certainty, job.index)
            /\ FinishJob("PARTIAL", "PARTIAL", generation)
            /\ UNCHANGED <<bound, initialized, profile, pendingProfile, generation,
                           hasSample, sample>>
  /\ DeviceRead(job.index)

-----------------------------------------------------------------------------
(* pollJob on a power-down job *)

PollPowerRead ==
  /\ At("POWER_READ_CONFIG")
  /\ IF RegisterMatches(device, pendingProfile, 0)
       THEN FinishProfileSuccess(AfterComparison(0))
       ELSE GoTo("POWER_WRITE_CONFIG", AfterComparison(0))
  /\ DeviceRead(0)

PollPowerWrite(o) ==
  /\ At("POWER_WRITE_CONFIG")
  /\ WriteStage(0, pendingProfile.config, o,
       Continue([job EXCEPT !.stage = "POWER_VERIFY_CONFIG", !.anyWriteConfirmed = TRUE],
                MarkDirty(certainty, 0)))

PollPowerVerify ==
  /\ At("POWER_VERIFY_CONFIG")
  /\ IF RegisterMatches(device, pendingProfile, 0)
       THEN FinishProfileSuccess(certainty)
       ELSE /\ FinishJob("PARTIAL", "PARTIAL", generation)
            /\ UNCHANGED <<bound, initialized, profile, pendingProfile, certainty,
                           generation, hasSample, sample>>
  /\ DeviceRead(0)

-----------------------------------------------------------------------------
(* pollJob on a sample job *)

(* The trigger rewrites CONFIG with its verified value; the write starts a *)
(* conversion and does not make the family DIRTY.                          *)
PollTriggerWrite(o) ==
  /\ At("SAMPLE_WRITE_CONFIG")
  /\ WriteStage(0, profile.config, o,
       Continue([job EXCEPT !.stage = "SAMPLE_WAIT", !.anyWriteConfirmed = TRUE],
                certainty))

(* The destructive Mask/Enable read: after the conversion wait of a        *)
(* triggered sample, at once for a continuous sample that consumes alerts. *)
(* A low CVRF sends a triggered job back to its wait.                      *)
PollSampleMask(cvrf) ==
  /\ job.state = "ACTIVE"
  /\ job.stage \in {"SAMPLE_WAIT", "SAMPLE_READ_MASK"}
  /\ GoTo(IF job.kind = "TRIGGERED_SAMPLE" /\ ~cvrf THEN "SAMPLE_WAIT"
          ELSE "SAMPLE_READ_CHANNELS", certainty)
  /\ NoManagedRegister

PollSampleChannel ==
  /\ At("SAMPLE_READ_CHANNELS")
  /\ IF job.index + 1 = SampleReads
       THEN FinishSampleSuccess
       ELSE Continue([job EXCEPT !.index = @ + 1], certainty)
  /\ NoManagedRegister

PollStep ==
  \/ \E matches \in BOOLEAN : PollIdentity(matches)
  \/ PollProfileRead
  \/ \E o \in WriteOutcome : PollProfileWrite(o)
  \/ PollProfileVerify
  \/ PollPowerRead
  \/ \E o \in WriteOutcome : PollPowerWrite(o)
  \/ PollPowerVerify
  \/ \E o \in WriteOutcome : PollTriggerWrite(o)
  \/ \E cvrf \in BOOLEAN : PollSampleMask(cvrf)
  \/ PollSampleChannel

Poll == PollStep \/ PollExpired \/ PollReadFails

-----------------------------------------------------------------------------
(* cancelJob and takeJobResult *)

CancelJob ==
  /\ job.state = "ACTIVE"
  /\ certainty' = IF job.anyWriteConfirmed /\ job.kind = "POWER_DOWN"
                  THEN [certainty EXCEPT !.measurement = "DIRTY"] ELSE certainty
  /\ FinishJob("CANCELLED", FailureEffect(FALSE), generation)
  /\ UNCHANGED <<bound, initialized, profile, pendingProfile, generation,
                 hasSample, sample>>
  /\ UNCHANGED ghostVars

TakeJobResult ==
  /\ hasResult
  /\ hasResult' = FALSE
  /\ result' = NoResult
  /\ job' = IdleJob
  /\ reached' = FALSE
  /\ UNCHANGED <<bound, initialized, profile, pendingProfile, certainty, generation,
                 hasSample, sample, device, disturbed>>

-----------------------------------------------------------------------------
(* The driver object is constructed unbound; the device may hold anything. *)
Init ==
  /\ bound = FALSE
  /\ initialized = FALSE
  /\ profile = DefaultProfile
  /\ pendingProfile = DefaultProfile
  /\ certainty = UnknownCertainty
  /\ generation = 0
  /\ job = IdleJob
  /\ hasResult = FALSE
  /\ result = NoResult
  /\ hasSample = FALSE
  /\ sample = NoSample
  /\ device \in RegisterImage
  /\ disturbed = {}
  /\ reached = FALSE

Admit ==
  \E id \in RequestIds :
    \/ StartInitialize(id)
    \/ \E p \in Candidates : StartApplyProfile(p, id)
    \/ StartReconcile(id)
    \/ StartTriggeredSample(id)
    \/ \E consume \in BOOLEAN : StartContinuousSample(id, consume)
    \/ StartPowerDown(id)

Next ==
  \/ Unbind
  \/ \E p \in Candidates : Bind(p)
  \/ Admit
  \/ Poll
  \/ CancelJob
  \/ TakeJobResult
  \/ DeviceReset

Spec == Init /\ [][Next]_vars
-----------------------------------------------------------------------------
(* Properties *)

TypeOK ==
  /\ bound \in BOOLEAN
  /\ initialized \in BOOLEAN
  /\ profile \in DeviceProfile
  /\ pendingProfile \in DeviceProfile
  /\ certainty \in Certainty
  /\ generation \in 0 .. MaxGeneration
  /\ job \in [kind : JobKind, stage : Stage, state : JobTerminalState,
              requestId : RequestIds \union {0}, index : Nat,
              anyWriteConfirmed : BOOLEAN, generation : 0 .. MaxGeneration]
  /\ hasResult \in BOOLEAN
  /\ result \in [kind : JobKind, state : JobTerminalState, effect : HardwareEffect,
                 requestId : RequestIds \union {0}, generation : 0 .. MaxGeneration,
                 sampleValid : BOOLEAN]
  /\ hasSample \in BOOLEAN
  /\ sample \in [generation : 0 .. MaxGeneration, requestId : RequestIds \union {0},
                 under : DeviceProfile]
  /\ device \in RegisterImage
  /\ disturbed \in SUBSET ManagedIndex
  /\ reached \in BOOLEAN

(* APPLIED is the driver's claim that a register family holds the retained *)
(* profile.  Whatever failed, was cancelled, timed out or was ambiguous    *)
(* before, each register of an APPLIED family does hold its value, unless  *)
(* a device reset changed it and the driver has not touched it since.      *)
HoldsRetained(i) == RegisterMatches(device, profile, i) \/ i \in disturbed

AppliedIsTrue ==
  \A i \in ManagedIndex : FamilyState(certainty, i) = "APPLIED" => HoldsRetained(i)

(* The compatibility view hardwareConfigDirty says exactly that some       *)
(* family of an initialized driver is not APPLIED.                         *)
DirtyFlagAgrees ==
  initialized =>
    (certainty.dirty <=> (certainty.measurement # "APPLIED" \/ certainty.alert # "APPLIED"))

(* The HardwareEffect of a result is honest about the bus: NONE means that *)
(* no write of the job reached the device, CONFIRMED and PARTIAL that one  *)
(* did, and FAILED promises that none was confirmed.                       *)
EffectIsHonest ==
  hasResult =>
    /\ result.effect = "NONE" => ~reached
    /\ result.effect \in {"CONFIRMED", "PARTIAL"} => reached
    /\ result.state = "FAILED" => ~reached

(* A sample labelled with the current profile generation was taken under   *)
(* the current profile, its calibration included: currents, channels and   *)
(* conversion times may be looked up by it.  Only a saturated generation   *)
(* counter, after 2^32 - 1 changes, may lie.                               *)
SampleMatchesGeneration ==
  hasSample /\ sample.generation = generation /\ generation < MaxGeneration
    => sample.under = profile

(* A sample job runs only under a verified Configuration register, in the  *)
(* mode it was admitted for, and under the generation it will report.      *)
SampleJobUnderVerifiedConfig ==
  job.state = "ACTIVE" /\ job.kind \in SampleKind =>
    /\ initialized
    /\ certainty.measurement = "APPLIED"
    /\ job.generation = generation
    /\ IF job.kind = "TRIGGERED_SAMPLE" THEN isTriggeredMode(profile.config.mode)
       ELSE isContinuousMode(profile.config.mode)

(* Certainty is gained only by a verification: a family becomes APPLIED    *)
(* only in the step that makes a SUCCEEDED result of a profile or          *)
(* power-down job, with no write of that job still ambiguous.              *)
Gained(family) == family # "APPLIED" /\ family' = "APPLIED"

CertaintyOnlyByVerification ==
  [][ (Gained(certainty.measurement) \/ Gained(certainty.alert)) =>
        /\ ~hasResult /\ hasResult'
        /\ result'.state = "SUCCEEDED" /\ result'.kind \notin SampleKind
        /\ \A i \in ManagedIndex :
             FamilyState(certainty', i) = "APPLIED" =>
               (RegisterMatches(device, profile', i) \/ i \in disturbed')
    ]_vars

-----------------------------------------------------------------------------
(* The inductive invariant behind the properties above *)

ProfileStage ==
  {"READ_MANUFACTURER_ID", "READ_DIE_ID", "PROFILE_READ", "PROFILE_WRITE", "PROFILE_VERIFY"}
PowerStage == {"POWER_READ_CONFIG", "POWER_WRITE_CONFIG", "POWER_VERIFY_CONFIG"}
SampleStage ==
  {"SAMPLE_WRITE_CONFIG", "SAMPLE_WAIT", "SAMPLE_READ_MASK", "SAMPLE_READ_CHANNELS"}

(* An active job is at a stage of its kind. *)
JobShape ==
  job.state = "ACTIVE" =>
    \/ /\ job.kind \in ProfileKind
       /\ job.stage \in ProfileStage
       /\ job.index \in ManagedIndex
    \/ /\ job.kind = "POWER_DOWN"
       /\ job.stage \in PowerStage
       /\ pendingProfile = PoweredDown(profile)
    \/ /\ job.kind \in SampleKind
       /\ job.stage \in SampleStage

(* A profile job has seen or put the candidate's value in every register   *)
(* it has passed.                                                          *)
PassedRegistersMatch ==
  job.state = "ACTIVE" /\ job.kind \in ProfileKind =>
    \A i \in ManagedIndex :
      i < job.index => RegisterMatches(device, pendingProfile, i) \/ i \in disturbed

(* A pending result and an active job exclude each other.                  *)
SlotIsBlocked == hasResult => job.state # "ACTIVE"

(* While a job runs the driver knows exactly whether it has written: a     *)
(* write it is not sure of ends the job, and only a written register is    *)
(* read back.                                                              *)
WritesAreKnown ==
  job.state = "ACTIVE" =>
    /\ reached = job.anyWriteConfirmed
    /\ job.stage \in {"PROFILE_VERIFY", "POWER_VERIFY_CONFIG"} => job.anyWriteConfirmed

(* A power-down job that has written is marked, whichever way it ends.     *)
PowerDownIsMarked ==
  job.state = "ACTIVE" /\ job.kind = "POWER_DOWN" /\ job.anyWriteConfirmed =>
    certainty.dirty /\ certainty.measurement # "APPLIED"

(* What a job has written and not yet verified is not claimed.             *)
WrittenIsMarked ==
  job.state = "ACTIVE" =>
    /\ job.stage = "PROFILE_VERIFY" => FamilyState(certainty, job.index) # "APPLIED"
    /\ job.stage = "POWER_VERIFY_CONFIG" => certainty.measurement # "APPLIED"

SampleIsNotAhead == hasSample => sample.generation <= generation

OwnerInv ==
  /\ TypeOK
  /\ JobShape
  /\ PassedRegistersMatch
  /\ SlotIsBlocked
  /\ WritesAreKnown
  /\ WrittenIsMarked
  /\ PowerDownIsMarked
  /\ SampleIsNotAhead

-----------------------------------------------------------------------------
(* What the owner is promised *)

(* The job slot as its owner sees it through getJobProgress.               *)
Phase ==
  IF hasResult THEN "PENDING" ELSE IF job.state = "ACTIVE" THEN "ACTIVE" ELSE "FREE"

Contract == INSTANCE OwnerContract WITH
  phase <- Phase,
  request <- IF hasResult THEN result.requestId ELSE job.requestId,
  effect <- result.effect,
  touched <- reached

(* Every admitted request ends in exactly one result, which bears its      *)
(* identity and an honest effect and blocks the slot until it is taken.    *)
ImplementsContract == Contract!ContractSpec

(* The owner calls pollJob while a job is active; nothing obliges it to    *)
(* cancel, to take a result or to start another job.                       *)
FairSpec == Spec /\ WF_vars(Poll)

(* A polled job ends: no register is visited twice however the device      *)
(* changes meanwhile.  A triggered sample may wait for CVRF until its      *)
(* deadline, which needs the clock of module TriggeredSample.              *)
ActiveJobEnds ==
  (job.state = "ACTIVE" /\ job.kind # "TRIGGERED_SAMPLE") ~> (job.state # "ACTIVE")
=============================================================================
