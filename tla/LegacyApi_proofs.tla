--------------------------- MODULE LegacyApi_proofs ---------------------------
(***************************************************************************)
(* Theorems about the owner API, and about the compatibility calls mixed   *)
(* with it, for every number of registers, every set of profiles and       *)
(* request IDs, and every saturation bound.                                *)
(*                                                                         *)
(* The first part is about the specification of module OwnerJobs, the last *)
(* one about LegacyApi's, which extends it.                                *)
(*                                                                         *)
(* An owner step is a step of module OwnerJobs and keeps its invariant; a  *)
(* legacy step runs while no job is active, so what OwnerJobs says of an   *)
(* active job is untouched and only the claims about registers, the dirty  *)
(* flag and the generations have to be proved again.                       *)
(***************************************************************************)
EXTENDS LegacyApi, TLAPS

-----------------------------------------------------------------------------
(* Register images and certainty marks.  Proofs about the jobs use these    *)
(* facts and leave the definitions of ManagedRegisters folded.              *)

(* Index 0 is CONFIG and every other managed index an alert register. *)
LEMMA IndexSplit == \A i \in ManagedIndex : i # 0 => i \in AlertIndex
  BY ManagedRegistersAssumption DEF ManagedIndex, AlertIndex

(* A profile and the image of the device in registers, which are alike but *)
(* for the calibration. *)
HasRegisters(p) == p \in RegisterImage \/ p \in DeviceProfile

(* A write of a profile's own value to a register keeps an image an image. *)
LEMMA WithRegisterType ==
  ASSUME NEW p \in RegisterImage, NEW q \in DeviceProfile, NEW i \in ManagedIndex
  PROVE  WithRegister(p, i, DesiredRegister(q, i)) \in RegisterImage
<1>1. CASE i = 0
  BY <1>1 DEF WithRegister, DesiredRegister, RegisterImage, DeviceProfile
<1>2. CASE i # 0
  <2>1. q.alerts[i] \in Limits
    BY <1>2, IndexSplit DEF DeviceProfile
  <2>2. WithRegister(p, i, DesiredRegister(q, i)) = [p EXCEPT !.alerts[i] = q.alerts[i]]
    BY <1>2 DEF WithRegister, DesiredRegister
  <2>3. [p.alerts EXCEPT ![i] = q.alerts[i]] \in [AlertIndex -> Limits]
    BY <2>1 DEF RegisterImage
  <2> QED BY <2>2, <2>3 DEF RegisterImage
<1> QED BY <1>1, <1>2

(* The written register has the written value ... *)
LEMMA WithRegisterSame ==
  ASSUME NEW p \in RegisterImage, NEW q \in DeviceProfile, NEW i \in ManagedIndex
  PROVE  RegisterMatches(WithRegister(p, i, DesiredRegister(q, i)), q, i)
  BY IndexSplit
     DEF RegisterMatches, WithRegister, DesiredRegister, RegisterImage, DeviceProfile

(* ... and every other register the value it had. *)
LEMMA WithRegisterOther ==
  ASSUME NEW p, HasRegisters(p), NEW v, NEW i \in ManagedIndex,
         NEW j \in ManagedIndex, i # j
  PROVE  DesiredRegister(WithRegister(p, i, v), j) = DesiredRegister(p, j)
  BY DEF HasRegisters, WithRegister, DesiredRegister, RegisterImage, DeviceProfile

(* Powering a profile down changes its Configuration value only. *)
LEMMA PoweredDownFacts ==
  ASSUME NEW p \in DeviceProfile
  PROVE  /\ PoweredDown(p) \in DeviceProfile
         /\ \A i \in AlertIndex : DesiredRegister(PoweredDown(p), i) = DesiredRegister(p, i)
  BY DEF PoweredDown, DeviceProfile, ConfigValue, Mode, DesiredRegister, AlertIndex

LEMMA ResetImageType == ResetImage \in RegisterImage
  BY ManagedRegistersAssumption DEF ResetImage, RegisterImage, ConfigValue, Mode

LEMMA DefaultProfileType == DefaultProfile \in DeviceProfile
  BY ManagedRegistersAssumption, ResetImageType
     DEF DefaultProfile, RegisterImage, DeviceProfile

(* A marked family is not APPLIED, the other one is as it was, and the     *)
(* driver knows itself to be dirty.                                        *)
LEMMA MarkFacts ==
  ASSUME NEW c \in Certainty, NEW i \in ManagedIndex
  PROVE  /\ MarkDirty(c, i) \in Certainty
         /\ MarkUnknown(c, i) \in Certainty
         /\ MarkDirty(c, i).dirty = TRUE
         /\ MarkUnknown(c, i).dirty = TRUE
         /\ FamilyState(MarkDirty(c, i), i) # "APPLIED"
         /\ FamilyState(MarkUnknown(c, i), i) # "APPLIED"
         /\ \A j \in ManagedIndex :
              /\ FamilyState(MarkDirty(c, i), j) = "APPLIED" => FamilyState(c, j) = "APPLIED"
              /\ FamilyState(MarkUnknown(c, i), j) = "APPLIED" => FamilyState(c, j) = "APPLIED"
  BY DEF MarkDirty, MarkUnknown, WithFamilyState, FamilyState, Certainty,
         AppliedConfigState

-----------------------------------------------------------------------------
(* Types *)

JobType ==
  [kind : JobKind, stage : Stage, state : JobTerminalState,
   requestId : RequestIds \union {0}, index : Nat,
   anyWriteConfirmed : BOOLEAN, generation : 0 .. MaxGeneration]

ResultType ==
  [kind : JobKind, state : JobTerminalState, effect : HardwareEffect,
   requestId : RequestIds \union {0}, generation : 0 .. MaxGeneration,
   sampleValid : BOOLEAN]

(* The constants that fix the stages and states of a job. *)
LEMMA IdleTypes ==
  /\ IdleJob \in JobType
  /\ NoResult \in ResultType
  /\ NoSample \in [generation : 0 .. MaxGeneration, requestId : RequestIds \union {0},
                   under : DeviceProfile]
  BY OwnerJobsAssumption, DefaultProfileType
     DEF IdleJob, NoResult, NoSample, JobType, ResultType, JobKind, Stage,
         JobTerminalState, HardwareEffect

LEMMA IndexType == /\ 0 \in ManagedIndex
                   /\ LastIndex \in ManagedIndex
                   /\ ManagedIndex \subseteq Nat
                   /\ \A i \in ManagedIndex : i # LastIndex => i + 1 \in ManagedIndex
  BY ManagedRegistersAssumption DEF ManagedIndex

(* Making a result keeps the types. *)
LEMMA FinishJobType ==
  ASSUME TypeOK, NEW state \in TerminalState, NEW effect \in HardwareEffect,
         NEW gen \in 0 .. MaxGeneration, FinishJob(state, effect, gen)
  PROVE  job' \in JobType /\ hasResult' \in BOOLEAN /\ result' \in ResultType
  BY DEF TypeOK, FinishJob, JobType, ResultType, JobTerminalState

LEMMA FinishJobFailureType ==
  ASSUME TypeOK, NEW c \in Certainty, NEW code, NEW ambiguous \in BOOLEAN,
         FinishJobFailure(c, code, ambiguous),
         \/ UNCHANGED <<device, disturbed>>
         \/ (device' \in RegisterImage /\ disturbed' \in SUBSET ManagedIndex),
         reached' \in BOOLEAN
  PROVE  TypeOK'
<1>1. FailureState(code, ambiguous) \in TerminalState
  BY DEF FailureState, TerminalState
<1>2. FailureEffect(ambiguous) \in HardwareEffect
  BY DEF FailureEffect, HardwareEffect
<1>3. job' \in JobType /\ hasResult' \in BOOLEAN /\ result' \in ResultType
  BY <1>1, <1>2, FinishJobType DEF FinishJobFailure, TypeOK
<1>4. certainty' \in Certainty
  BY MarkFacts, IndexType DEF FinishJobFailure
<1>5. /\ UNCHANGED <<bound, initialized, profile, pendingProfile, generation,
                     hasSample, sample>>
      /\ device' \in RegisterImage /\ disturbed' \in SUBSET ManagedIndex
  BY DEF FinishJobFailure, TypeOK
<1> QED BY <1>3, <1>4, <1>5 DEF TypeOK, JobType, ResultType

LEMMA FinishProfileSuccessType ==
  ASSUME TypeOK, NEW c \in Certainty, FinishProfileSuccess(c),
         device' \in RegisterImage, disturbed' \in SUBSET ManagedIndex,
         reached' \in BOOLEAN
  PROVE  TypeOK'
<1>1. NextGeneration \in 0 .. MaxGeneration
  BY OwnerJobsAssumption DEF NextGeneration, TypeOK
<1>2. SuccessEffect \in HardwareEffect /\ "SUCCEEDED" \in TerminalState
  BY DEF SuccessEffect, HardwareEffect, TerminalState
<1>3. job' \in JobType /\ hasResult' \in BOOLEAN /\ result' \in ResultType
  BY <1>1, <1>2, FinishJobType DEF FinishProfileSuccess
<1>4. certainty' \in Certainty
  BY DEF FinishProfileSuccess, SuccessCertainty, Certainty, AppliedCertainty, AppliedConfigState
<1> QED BY <1>1, <1>3, <1>4
        DEF FinishProfileSuccess, TypeOK, JobType, ResultType

LEMMA ContinueType ==
  ASSUME TypeOK, NEW c \in Certainty, NEW newJob \in JobType, Continue(newJob, c),
         device' \in RegisterImage, disturbed' \in SUBSET ManagedIndex,
         reached' \in BOOLEAN
  PROVE  TypeOK'
  BY DEF Continue, TypeOK, JobType

-----------------------------------------------------------------------------
(* Type correctness, together with the shape of an active job *)

LEMMA GoToType ==
  ASSUME TypeOK, NEW c \in Certainty, NEW stage \in Stage, GoTo(stage, c),
         device' \in RegisterImage, disturbed' \in SUBSET ManagedIndex,
         reached' \in BOOLEAN
  PROVE  TypeOK'
<1>1. [job EXCEPT !.stage = stage] \in JobType
  BY DEF TypeOK, JobType
<1> QED BY <1>1, ContinueType DEF GoTo

LEMMA NextRegisterType ==
  ASSUME TypeOK, NEW c \in Certainty, NextRegister(c),
         device' \in RegisterImage, disturbed' \in SUBSET ManagedIndex,
         reached' \in BOOLEAN
  PROVE  TypeOK'
<1>1. CASE job.index = LastIndex
  BY <1>1, FinishProfileSuccessType DEF NextRegister
<1>2. CASE job.index # LastIndex
  <2>1. job \in JobType /\ job.index + 1 \in Nat /\ "PROFILE_READ" \in Stage
    BY DEF TypeOK, JobType, Stage
  <2>2. [job EXCEPT !.index = @ + 1] \in JobType
    BY <2>1 DEF JobType
  <2>3. [[job EXCEPT !.index = @ + 1] EXCEPT !.stage = "PROFILE_READ"] \in JobType
    BY <2>1, <2>2 DEF JobType
  <2> QED BY <1>2, <2>3, ContinueType DEF NextRegister
<1> QED BY <1>1, <1>2

LEMMA AfterComparisonType ==
  ASSUME TypeOK, NEW i \in ManagedIndex
  PROVE  AfterComparison(i) \in Certainty
  BY MarkFacts DEF AfterComparison, TypeOK

(* A write stage keeps the types, whatever the callback answers. *)
LEMMA WriteStageType ==
  ASSUME TypeOK, NEW i \in ManagedIndex, NEW q \in DeviceProfile,
         NEW o \in WriteOutcome, NEW newJob \in JobType, NEW c \in Certainty,
         WriteStage(i, DesiredRegister(q, i), o, Continue(newJob, c))
  PROVE  TypeOK'
<1>1. /\ device' \in RegisterImage
      /\ disturbed' \in SUBSET ManagedIndex
      /\ reached' \in BOOLEAN
  BY WithRegisterType DEF WriteStage, DeviceWrite, TypeOK, WriteOutcome
<1>2. CASE o.code = "OK"
  BY <1>1, <1>2, ContinueType DEF WriteStage
<1>3. CASE o.code # "OK"
  <2> DEFINE d == IF MayHaveReached(o.code) THEN MarkUnknown(certainty, i) ELSE certainty
  <2>1. d \in Certainty
    BY MarkFacts DEF TypeOK
  <2>2. FinishJobFailure(d, o.code, MayHaveReached(o.code))
    BY <1>3 DEF WriteStage
  <2>3. MayHaveReached(o.code) \in BOOLEAN
    BY DEF MayHaveReached
  <2> QED BY <1>1, <2>1, <2>2, <2>3, FinishJobFailureType
<1> QED BY <1>2, <1>3

LEMMA StartJobType ==
  ASSUME TypeOK, NEW kind \in JobKind, NEW stage \in Stage, NEW id \in RequestIds,
         NEW gen \in 0 .. MaxGeneration, StartJob(kind, stage, id, gen),
         pendingProfile' \in DeviceProfile
  PROVE  TypeOK'
<1>1. job' \in JobType
  BY DEF StartJob, JobType, JobTerminalState
<1> QED BY <1>1 DEF StartJob, TypeOK, JobType

LEMMA DeviceReadType ==
  ASSUME TypeOK, NEW i \in ManagedIndex, DeviceRead(i)
  PROVE  /\ device' \in RegisterImage
         /\ disturbed' \in SUBSET ManagedIndex
         /\ reached' \in BOOLEAN
  BY DEF DeviceRead, TypeOK

LEMMA NoManagedRegisterType ==
  ASSUME TypeOK, NoManagedRegister
  PROVE  /\ device' \in RegisterImage
         /\ disturbed' \in SUBSET ManagedIndex
         /\ reached' \in BOOLEAN
  BY DEF NoManagedRegister, ghostVars, TypeOK

(* Each stage is of one kind. *)
LEMMA StageKind ==
  ASSUME JobShape, job.state = "ACTIVE"
  PROVE  /\ job.stage \in ProfileStage => job.kind \in ProfileKind /\ job.index \in ManagedIndex
         /\ job.stage \in PowerStage =>
              job.kind = "POWER_DOWN" /\ pendingProfile = PoweredDown(profile)
         /\ job.stage \in SampleStage => job.kind \in SampleKind
  BY DEF JobShape, ProfileStage, PowerStage, SampleStage

TypeInv == TypeOK /\ JobShape

LEMMA TypeStep == TypeInv /\ [Next]_vars => TypeOK'
<1> SUFFICES ASSUME TypeInv, [Next]_vars PROVE TypeOK'
  OBVIOUS
<1> USE DEF TypeInv
<1>1. ASSUME Unbound, bound' \in BOOLEAN, profile' \in DeviceProfile,
             pendingProfile' \in DeviceProfile
      PROVE  TypeOK'
  <2>1. /\ certainty' \in Certainty
        /\ generation' \in 0 .. MaxGeneration
    BY <1>1, OwnerJobsAssumption
       DEF Unbound, UnknownCertainty, Certainty, AppliedConfigState
  <2>2. /\ job' \in JobType
        /\ result' \in ResultType
        /\ sample' \in [generation : 0 .. MaxGeneration,
                        requestId : RequestIds \union {0}, under : DeviceProfile]
    BY <1>1, IdleTypes DEF Unbound
  <2>3. /\ initialized' = FALSE /\ hasResult' = FALSE /\ hasSample' = FALSE
        /\ reached' = FALSE
        /\ device' \in RegisterImage /\ disturbed' \in SUBSET ManagedIndex
    BY <1>1 DEF Unbound, TypeOK
  <2> QED BY <1>1, <2>1, <2>2, <2>3 DEF TypeOK, JobType, ResultType
<1>2. CASE Unbind
  BY <1>1, <1>2 DEF Unbind, TypeOK
<1>3. ASSUME NEW p \in Candidates, Bind(p) PROVE TypeOK'
  BY <1>1, <1>3, OwnerJobsAssumption DEF Bind
<1>4. ASSUME NEW id \in RequestIds, StartInitialize(id) PROVE TypeOK'
  BY <1>4, StartJobType, OwnerJobsAssumption
     DEF StartInitialize, TypeOK, JobKind, ProfileKind, Stage
<1>5. ASSUME NEW id \in RequestIds, NEW p \in Candidates, StartApplyProfile(p, id)
      PROVE  TypeOK'
  BY <1>5, StartJobType, OwnerJobsAssumption
     DEF StartApplyProfile, TypeOK, JobKind, ProfileKind, Stage
<1>6. ASSUME NEW id \in RequestIds, StartReconcile(id) PROVE TypeOK'
  BY <1>6, StartJobType, OwnerJobsAssumption
     DEF StartReconcile, TypeOK, JobKind, ProfileKind, Stage
<1>7. ASSUME NEW id \in RequestIds, StartTriggeredSample(id) PROVE TypeOK'
  BY <1>7, StartJobType DEF StartTriggeredSample, TypeOK, JobKind, SampleKind, Stage
<1>8. ASSUME NEW id \in RequestIds, NEW consume \in BOOLEAN,
             StartContinuousSample(id, consume)
      PROVE  TypeOK'
  BY <1>8, StartJobType DEF StartContinuousSample, TypeOK, JobKind, SampleKind, Stage
<1>9. ASSUME NEW id \in RequestIds, StartPowerDown(id) PROVE TypeOK'
  BY <1>9, StartJobType, PoweredDownFacts, OwnerJobsAssumption
     DEF StartPowerDown, TypeOK, JobKind, Stage
<1>10. CASE PollExpired
  BY <1>10, FinishJobFailureType, NoManagedRegisterType DEF PollExpired, TypeOK
<1>11. CASE PollReadFails
  <2>1. job.stage = "PROFILE_VERIFY" => job.index \in ManagedIndex
    BY <1>11, StageKind DEF PollReadFails, ProfileStage
  <2>2. (IF job.stage = "PROFILE_VERIFY" THEN MarkDirty(certainty, job.index)
         ELSE certainty) \in Certainty
    BY <2>1, MarkFacts DEF TypeOK
  <2> QED BY <1>11, <2>2, FinishJobFailureType, NoManagedRegisterType DEF PollReadFails
<1>12. ASSUME NEW matches \in BOOLEAN, PollIdentity(matches) PROVE TypeOK'
  <2>1. CASE matches
    BY <1>12, <2>1, GoToType, NoManagedRegisterType DEF PollIdentity, Stage, TypeOK
  <2>2. CASE ~matches
    BY <1>12, <2>2, FinishJobFailureType, NoManagedRegisterType DEF PollIdentity, TypeOK
  <2> QED BY <2>1, <2>2
<1>13. CASE PollProfileRead
  <2>1. job.index \in ManagedIndex
    BY <1>13, StageKind DEF PollProfileRead, At, ProfileStage
  <2>2. AfterComparison(job.index) \in Certainty
    BY <2>1, AfterComparisonType
  <2> QED BY <1>13, <2>1, <2>2, NextRegisterType, GoToType, DeviceReadType
          DEF PollProfileRead, Stage
<1>14. ASSUME NEW o \in WriteOutcome, PollProfileWrite(o) PROVE TypeOK'
  <2>1. job.index \in ManagedIndex
    BY <1>14, StageKind DEF PollProfileWrite, At, ProfileStage
  <2>2. [job EXCEPT !.stage = "PROFILE_VERIFY", !.anyWriteConfirmed = TRUE] \in JobType
    BY DEF TypeOK, JobType, Stage
  <2>3. MarkDirty(certainty, job.index) \in Certainty
    BY <2>1, MarkFacts DEF TypeOK
  <2> QED BY <1>14, <2>1, <2>2, <2>3, WriteStageType DEF PollProfileWrite, TypeOK
<1>15. CASE PollProfileVerify
  <2>1. job.index \in ManagedIndex
    BY <1>15, StageKind DEF PollProfileVerify, At, ProfileStage
  <2>2. CASE RegisterMatches(device, pendingProfile, job.index)
    BY <1>15, <2>1, <2>2, NextRegisterType, DeviceReadType DEF PollProfileVerify, TypeOK
  <2>3. CASE ~RegisterMatches(device, pendingProfile, job.index)
    <3>1. MarkDirty(certainty, job.index) \in Certainty
      BY <2>1, MarkFacts DEF TypeOK
    <3>2. job' \in JobType /\ hasResult' \in BOOLEAN /\ result' \in ResultType
      BY <1>15, <2>3, FinishJobType
         DEF PollProfileVerify, TerminalState, HardwareEffect, TypeOK
    <3>3. certainty' \in Certainty
      BY <1>15, <2>3, <3>1 DEF PollProfileVerify
    <3> QED BY <1>15, <2>1, <2>3, <3>2, <3>3, DeviceReadType
            DEF PollProfileVerify, TypeOK, JobType, ResultType
  <2> QED BY <2>2, <2>3
<1>16. CASE PollPowerRead
  BY <1>16, IndexType, AfterComparisonType, FinishProfileSuccessType, GoToType,
     DeviceReadType
     DEF PollPowerRead, Stage
<1>17. ASSUME NEW o \in WriteOutcome, PollPowerWrite(o) PROVE TypeOK'
  <2>1. [job EXCEPT !.stage = "POWER_VERIFY_CONFIG", !.anyWriteConfirmed = TRUE] \in JobType
    BY DEF TypeOK, JobType, Stage
  <2>2. MarkDirty(certainty, 0) \in Certainty
    BY MarkFacts, IndexType DEF TypeOK
  <2>3. pendingProfile.config = DesiredRegister(pendingProfile, 0)
    BY DEF DesiredRegister
  <2> QED BY <1>17, <2>1, <2>2, <2>3, IndexType, WriteStageType
          DEF PollPowerWrite, TypeOK
<1>18. CASE PollPowerVerify
  <2>1. CASE RegisterMatches(device, pendingProfile, 0)
    BY <1>18, <2>1, IndexType, FinishProfileSuccessType, DeviceReadType
       DEF PollPowerVerify, TypeOK
  <2>2. CASE ~RegisterMatches(device, pendingProfile, 0)
    <3>1. job' \in JobType /\ hasResult' \in BOOLEAN /\ result' \in ResultType
      BY <1>18, <2>2, FinishJobType
         DEF PollPowerVerify, TerminalState, HardwareEffect, TypeOK
    <3> QED BY <1>18, <2>2, <3>1, IndexType, DeviceReadType
            DEF PollPowerVerify, TypeOK, JobType, ResultType
  <2> QED BY <2>1, <2>2
<1>19. ASSUME NEW o \in WriteOutcome, PollTriggerWrite(o) PROVE TypeOK'
  <2>1. [job EXCEPT !.stage = "SAMPLE_WAIT", !.anyWriteConfirmed = TRUE] \in JobType
    BY DEF TypeOK, JobType, Stage
  <2>2. profile.config = DesiredRegister(profile, 0)
    BY DEF DesiredRegister
  <2> QED BY <1>19, <2>1, <2>2, IndexType, WriteStageType DEF PollTriggerWrite, TypeOK
<1>20. ASSUME NEW cvrf \in BOOLEAN, PollSampleMask(cvrf) PROVE TypeOK'
  BY <1>20, GoToType, NoManagedRegisterType DEF PollSampleMask, Stage, TypeOK
<1>21. CASE PollSampleChannel
  <2>1. CASE job.index + 1 = SampleReads
    <3>1. SuccessEffect \in HardwareEffect /\ "SUCCEEDED" \in TerminalState
      BY DEF SuccessEffect, HardwareEffect, TerminalState
    <3>2. job' \in JobType /\ hasResult' \in BOOLEAN /\ result' \in ResultType
      BY <1>21, <2>1, <3>1, FinishJobType
         DEF PollSampleChannel, FinishSampleSuccess, TypeOK
    <3> QED BY <1>21, <2>1, <3>2, NoManagedRegisterType
            DEF PollSampleChannel, FinishSampleSuccess, TypeOK, JobType, ResultType
  <2>2. CASE job.index + 1 # SampleReads
    <3>1. job \in JobType /\ job.index + 1 \in Nat
      BY DEF TypeOK, JobType
    <3>2. [job EXCEPT !.index = @ + 1] \in JobType
      BY <3>1 DEF JobType
    <3> QED BY <1>21, <2>2, <3>2, ContinueType, NoManagedRegisterType
            DEF PollSampleChannel, TypeOK
  <2> QED BY <2>1, <2>2
<1>22. CASE CancelJob
  <2>1. FailureEffect(FALSE) \in HardwareEffect /\ "CANCELLED" \in TerminalState
    BY DEF FailureEffect, HardwareEffect, TerminalState
  <2>2. job' \in JobType /\ hasResult' \in BOOLEAN /\ result' \in ResultType
    BY <1>22, <2>1, FinishJobType DEF CancelJob, TypeOK
  <2>3. certainty' \in Certainty
    BY <1>22 DEF CancelJob, TypeOK, Certainty, AppliedConfigState
  <2> QED BY <1>22, <2>2, <2>3 DEF CancelJob, ghostVars, TypeOK, JobType, ResultType
<1>23. CASE TakeJobResult
  BY <1>23, IdleTypes DEF TakeJobResult, TypeOK, JobType, ResultType
<1>24. CASE DeviceReset
  BY <1>24, ResetImageType DEF DeviceReset, driverVars, TypeOK
<1>25. CASE UNCHANGED vars
  BY <1>25 DEF vars, driverVars, ghostVars, TypeOK
<1> QED
  BY <1>2, <1>3, <1>4, <1>5, <1>6, <1>7, <1>8, <1>9, <1>10, <1>11, <1>12, <1>13,
     <1>14, <1>15, <1>16, <1>17, <1>18, <1>19, <1>20, <1>21, <1>22, <1>23, <1>24, <1>25
     DEF Next, Admit, Poll, PollStep

(* Whatever finishes a job leaves it inactive, with the job's result. *)
LEMMA FinishJobEnds ==
  ASSUME TypeOK, NEW state \in TerminalState, NEW effect, NEW gen,
         FinishJob(state, effect, gen)
  PROVE  /\ job'.state # "ACTIVE" /\ job'.state = state
         /\ hasResult' = TRUE
         /\ result'.state = state /\ result'.effect = effect
         /\ result'.kind = job.kind /\ result'.requestId = job.requestId
  BY DEF FinishJob, TypeOK, TerminalState

LEMMA FinishJobFailureEnds ==
  ASSUME TypeOK, NEW c, NEW code, NEW ambiguous, FinishJobFailure(c, code, ambiguous)
  PROVE  /\ job'.state # "ACTIVE"
         /\ hasResult' = TRUE
         /\ result'.state = FailureState(code, ambiguous)
         /\ result'.effect = FailureEffect(ambiguous)
         /\ result'.kind = job.kind /\ result'.requestId = job.requestId
<1>1. FailureState(code, ambiguous) \in TerminalState
  BY DEF FailureState, TerminalState
<1> QED BY <1>1, FinishJobEnds DEF FinishJobFailure

LEMMA FinishProfileSuccessEnds ==
  ASSUME TypeOK, NEW c, FinishProfileSuccess(c)
  PROVE  /\ job'.state # "ACTIVE"
         /\ hasResult' = TRUE
         /\ result'.state = "SUCCEEDED" /\ result'.effect = SuccessEffect
         /\ result'.kind = job.kind /\ result'.requestId = job.requestId
  BY FinishJobEnds DEF FinishProfileSuccess, TerminalState

LEMMA FinishSampleSuccessEnds ==
  ASSUME TypeOK, FinishSampleSuccess
  PROVE  /\ job'.state # "ACTIVE"
         /\ hasResult' = TRUE
         /\ result'.state = "SUCCEEDED" /\ result'.effect = SuccessEffect
         /\ result'.kind = job.kind /\ result'.requestId = job.requestId
  BY FinishJobEnds DEF FinishSampleSuccess, TerminalState

(* A write stage either ends the job or goes on after an accepted write. *)
LEMMA WriteStageEnds ==
  ASSUME TypeOK, NEW i, NEW v, NEW o, NEW newJob, NEW c,
         WriteStage(i, v, o, Continue(newJob, c))
  PROVE  \/ o.code = "OK" /\ Continue(newJob, c)
         \/ o.code # "OK" /\ job'.state # "ACTIVE"
  BY FinishJobFailureEnds DEF WriteStage

LEMMA NextRegisterEnds ==
  ASSUME TypeOK, NEW c, NextRegister(c), job.index \in ManagedIndex
  PROVE  \/ /\ job.index = LastIndex /\ FinishProfileSuccess(c)
            /\ job'.state # "ACTIVE"
         \/ /\ job.index # LastIndex
            /\ job' = [job EXCEPT !.index = @ + 1, !.stage = "PROFILE_READ"]
            /\ certainty' = c
            /\ job'.index = job.index + 1 /\ job'.index \in ManagedIndex
            /\ job'.kind = job.kind /\ job'.stage = "PROFILE_READ"
            /\ job'.anyWriteConfirmed = job.anyWriteConfirmed
            /\ UNCHANGED <<bound, initialized, profile, pendingProfile, generation,
                           hasResult, result, hasSample, sample>>
<1>1. CASE job.index = LastIndex
  BY <1>1, FinishProfileSuccessEnds DEF NextRegister
<1>2. CASE job.index # LastIndex
  BY <1>2, IndexType DEF NextRegister, Continue, TypeOK
<1> QED BY <1>1, <1>2

LEMMA ShapeStep == TypeInv /\ [Next]_vars => JobShape'
<1> SUFFICES ASSUME TypeInv, [Next]_vars PROVE JobShape'
  OBVIOUS
<1> USE DEF TypeInv
<1>1. ASSUME job'.state # "ACTIVE" PROVE JobShape'
  BY <1>1 DEF JobShape
<1>2. CASE Unbind \/ (\E p \in Candidates : Bind(p)) \/ TakeJobResult
  BY <1>1, <1>2 DEF Unbind, Bind, Unbound, TakeJobResult, IdleJob
<1>3. CASE Admit
  BY <1>3, IndexType
     DEF Admit, StartInitialize, StartApplyProfile, StartReconcile,
         StartTriggeredSample, StartContinuousSample, StartPowerDown, StartJob,
         JobShape, ProfileKind, ProfileStage, PowerStage, SampleKind, SampleStage
<1>4. CASE PollExpired \/ PollReadFails
  BY <1>1, <1>4, FinishJobFailureEnds DEF PollExpired, PollReadFails
<1>5. ASSUME NEW stage, NEW c, GoTo(stage, c), job.state = "ACTIVE",
             \/ job.stage \in ProfileStage /\ stage \in ProfileStage
             \/ job.stage \in PowerStage /\ stage \in PowerStage
             \/ job.stage \in SampleStage /\ stage \in SampleStage
      PROVE  JobShape'
  <2>1. /\ job'.kind = job.kind /\ job'.stage = stage /\ job'.index = job.index
        /\ pendingProfile' = pendingProfile /\ profile' = profile
    BY <1>5 DEF GoTo, Continue, TypeOK
  <2> QED BY <1>5, <2>1, StageKind
          DEF JobShape, ProfileKind, SampleKind
<1>6. ASSUME NEW matches \in BOOLEAN, PollIdentity(matches) PROVE JobShape'
  BY <1>1, <1>5, <1>6, FinishJobFailureEnds DEF PollIdentity, ProfileStage
<1>7. ASSUME NEW c, NextRegister(c), job.state = "ACTIVE", job.stage \in ProfileStage
      PROVE  JobShape'
  BY <1>1, <1>7, NextRegisterEnds, StageKind DEF JobShape, ProfileStage
<1>8. CASE PollProfileRead
  BY <1>5, <1>7, <1>8 DEF PollProfileRead, At, ProfileStage
<1>9. ASSUME NEW o \in WriteOutcome, PollProfileWrite(o) PROVE JobShape'
  <2>1. CASE job'.state # "ACTIVE"
    BY <1>1, <2>1
  <2>2. CASE Continue([job EXCEPT !.stage = "PROFILE_VERIFY", !.anyWriteConfirmed = TRUE],
                      MarkDirty(certainty, job.index))
    <3>1. /\ job'.kind = job.kind /\ job'.stage = "PROFILE_VERIFY"
          /\ job'.index = job.index
      BY <2>2 DEF Continue, TypeOK
    <3> QED BY <1>9, <3>1, StageKind DEF PollProfileWrite, At, JobShape, ProfileStage
  <2> QED BY <1>9, <2>1, <2>2, WriteStageEnds DEF PollProfileWrite
<1>10. CASE PollProfileVerify
  <2>1. CASE RegisterMatches(device, pendingProfile, job.index)
    BY <1>7, <1>10, <2>1 DEF PollProfileVerify, At, ProfileStage
  <2>2. CASE ~RegisterMatches(device, pendingProfile, job.index)
    BY <1>1, <1>10, <2>2, FinishJobEnds DEF PollProfileVerify, TerminalState
  <2> QED BY <2>1, <2>2
<1>11. CASE PollPowerRead
  BY <1>1, <1>5, <1>11, FinishProfileSuccessEnds DEF PollPowerRead, At, PowerStage
<1>12. ASSUME NEW o \in WriteOutcome, PollPowerWrite(o) PROVE JobShape'
  <2>1. CASE job'.state # "ACTIVE"
    BY <1>1, <2>1
  <2>2. CASE Continue([job EXCEPT !.stage = "POWER_VERIFY_CONFIG",
                                  !.anyWriteConfirmed = TRUE],
                      MarkDirty(certainty, 0))
    <3>1. /\ job'.kind = job.kind /\ job'.stage = "POWER_VERIFY_CONFIG"
          /\ pendingProfile' = pendingProfile /\ profile' = profile
      BY <2>2 DEF Continue, TypeOK
    <3> QED BY <1>12, <3>1, StageKind DEF PollPowerWrite, At, JobShape, PowerStage
  <2> QED BY <1>12, <2>1, <2>2, WriteStageEnds DEF PollPowerWrite
<1>13. CASE PollPowerVerify
  <2>1. CASE RegisterMatches(device, pendingProfile, 0)
    BY <1>1, <1>13, <2>1, FinishProfileSuccessEnds DEF PollPowerVerify
  <2>2. CASE ~RegisterMatches(device, pendingProfile, 0)
    BY <1>1, <1>13, <2>2, FinishJobEnds DEF PollPowerVerify, TerminalState
  <2> QED BY <2>1, <2>2
<1>14. ASSUME NEW o \in WriteOutcome, PollTriggerWrite(o) PROVE JobShape'
  <2>1. CASE job'.state # "ACTIVE"
    BY <1>1, <2>1
  <2>2. CASE Continue([job EXCEPT !.stage = "SAMPLE_WAIT", !.anyWriteConfirmed = TRUE],
                      certainty)
    <3>1. job'.kind = job.kind /\ job'.stage = "SAMPLE_WAIT"
      BY <2>2 DEF Continue, TypeOK
    <3> QED BY <1>14, <3>1, StageKind DEF PollTriggerWrite, At, JobShape, SampleStage
  <2> QED BY <1>14, <2>1, <2>2, WriteStageEnds DEF PollTriggerWrite
<1>15. ASSUME NEW cvrf \in BOOLEAN, PollSampleMask(cvrf) PROVE JobShape'
  BY <1>5, <1>15 DEF PollSampleMask, SampleStage
<1>16. CASE PollSampleChannel
  <2>1. CASE job.index + 1 = SampleReads
    BY <1>1, <1>16, <2>1, FinishSampleSuccessEnds DEF PollSampleChannel
  <2>2. CASE job.index + 1 # SampleReads
    <3>1. job'.kind = job.kind /\ job'.stage = job.stage
      BY <1>16, <2>2 DEF PollSampleChannel, Continue, TypeOK
    <3> QED BY <1>16, <3>1, StageKind DEF PollSampleChannel, At, JobShape, SampleStage
  <2> QED BY <2>1, <2>2
<1>17. CASE CancelJob
  BY <1>1, <1>17, FinishJobEnds DEF CancelJob, TerminalState
<1>18. CASE DeviceReset \/ UNCHANGED vars
  BY <1>18 DEF DeviceReset, driverVars, vars, JobShape
<1> QED
  BY <1>2, <1>3, <1>4, <1>6, <1>8, <1>9, <1>10, <1>11, <1>12, <1>13, <1>14, <1>15,
     <1>16, <1>17, <1>18
     DEF Next, Poll, PollStep

LEMMA InitType == Init => TypeInv
<1> SUFFICES ASSUME Init PROVE TypeInv
  OBVIOUS
<1>1. certainty \in Certainty
  BY DEF Init, UnknownCertainty, Certainty, AppliedConfigState
<1>2. generation \in 0 .. MaxGeneration
  BY OwnerJobsAssumption DEF Init
<1>3. job \in JobType /\ result \in ResultType
      /\ sample \in [generation : 0 .. MaxGeneration,
                     requestId : RequestIds \union {0}, under : DeviceProfile]
  BY IdleTypes DEF Init
<1>4. TypeOK
  BY <1>1, <1>2, <1>3, DefaultProfileType DEF Init, TypeOK, JobType, ResultType
<1>5. JobShape
  BY DEF Init, IdleJob, JobShape
<1> QED BY <1>4, <1>5 DEF TypeInv

(* The type invariant of the specification, with the stages each kind of   *)
(* job may be at.                                                          *)
THEOREM TypeCorrect == Spec => []TypeInv
<1>1. TypeInv /\ [Next]_vars => TypeInv'
  BY TypeStep, ShapeStep DEF TypeInv
<1> QED BY <1>1, InitType, PTL DEF Spec

-----------------------------------------------------------------------------
(* APPLIED is true *)

(* Certainty d claims no more than certainty c. *)
NoNewClaim(d, c) ==
  \A i \in ManagedIndex : FamilyState(d, i) = "APPLIED" => FamilyState(c, i) = "APPLIED"

LEMMA MarksClaimNothing ==
  ASSUME NEW c \in Certainty, NEW i \in ManagedIndex
  PROVE  /\ NoNewClaim(c, c)
         /\ NoNewClaim(MarkDirty(c, i), c)
         /\ NoNewClaim(MarkUnknown(c, i), c)
  BY MarkFacts DEF NoNewClaim

LEMMA FailureClaimsNothing ==
  ASSUME TypeOK, NEW c \in Certainty, NoNewClaim(c, certainty), NEW code,
         NEW ambiguous, FinishJobFailure(c, code, ambiguous)
  PROVE  NoNewClaim(certainty', certainty) /\ profile' = profile
  BY MarksClaimNothing, IndexType DEF FinishJobFailure, NoNewClaim

(* A step that claims nothing new and leaves profile and registers alone,  *)
(* or reads a register of a family that it does not leave APPLIED unless   *)
(* the register matches.                                                   *)
LEMMA QuietStep ==
  ASSUME AppliedIsTrue, profile' = profile, device' = device,
         NoNewClaim(certainty', certainty),
         \A i \in disturbed :
           i \notin disturbed' /\ FamilyState(certainty', i) = "APPLIED"
             => RegisterMatches(device, profile, i)
  PROVE  AppliedIsTrue'
  BY DEF AppliedIsTrue, HoldsRetained, NoNewClaim, RegisterMatches, DesiredRegister,
         FamilyState

LEMMA ComparisonFacts ==
  ASSUME TypeOK, NEW i \in ManagedIndex
  PROVE  /\ AfterComparison(i) \in Certainty
         /\ NoNewClaim(AfterComparison(i), certainty)
         /\ FamilyState(AfterComparison(i), i) = "APPLIED" =>
              RegisterMatches(device, profile, i)
<1>1. certainty \in Certainty
  BY DEF TypeOK
<1>2. CASE FamilyState(certainty, i) = "APPLIED" /\ ~RegisterMatches(device, profile, i)
  BY <1>1, <1>2, MarkFacts, MarksClaimNothing DEF AfterComparison
<1>3. CASE ~(FamilyState(certainty, i) = "APPLIED" /\ ~RegisterMatches(device, profile, i))
  BY <1>1, <1>3, MarksClaimNothing DEF AfterComparison
<1> QED BY <1>2, <1>3

(* A comparison read that goes on, whatever it shows. *)
LEMMA ReadStep ==
  ASSUME TypeOK, AppliedIsTrue, NEW i \in ManagedIndex, DeviceRead(i),
         profile' = profile, certainty' = AfterComparison(i)
  PROVE  AppliedIsTrue'
<1>1. /\ device' = device /\ disturbed' = disturbed \ {i}
      /\ NoNewClaim(certainty', certainty)
      /\ FamilyState(certainty', i) = "APPLIED" => RegisterMatches(device, profile, i)
  BY ComparisonFacts DEF DeviceRead
<1> QED BY <1>1, QuietStep

(* A write stage whose accepted branch leaves the family not APPLIED. *)
LEMMA WriteStep ==
  ASSUME TypeOK, AppliedIsTrue, NEW i \in ManagedIndex, NEW q \in DeviceProfile,
         NEW o \in WriteOutcome, NEW newJob, NEW c,
         WriteStage(i, DesiredRegister(q, i), o, Continue(newJob, c)),
         c \in Certainty, NoNewClaim(c, certainty),
         FamilyState(c, i) = "APPLIED" => RegisterMatches(q, profile, i)
  PROVE  AppliedIsTrue'
<1> DEFINE d == IF MayHaveReached(o.code) THEN MarkUnknown(certainty, i) ELSE certainty
<1>1. certainty \in Certainty
  BY DEF TypeOK
<1>2. /\ d \in Certainty /\ NoNewClaim(d, certainty)
      /\ MayHaveReached(o.code) => FamilyState(d, i) # "APPLIED"
  BY <1>1, MarkFacts, MarksClaimNothing
<1>3. CASE ~o.landed
  <2>1. device' = device /\ disturbed' = disturbed
    BY <1>3 DEF WriteStage, DeviceWrite
  <2>2. NoNewClaim(certainty', certainty) /\ profile' = profile
    <3>1. CASE o.code = "OK"
      BY <3>1 DEF WriteStage, Continue
    <3>2. CASE o.code # "OK"
      BY <3>2, <1>2, FailureClaimsNothing DEF WriteStage
    <3> QED BY <3>1, <3>2
  <2> QED BY <2>1, <2>2, QuietStep
<1>4. CASE o.landed
  <2>1. /\ device' = WithRegister(device, i, DesiredRegister(q, i))
        /\ disturbed' = disturbed \ {i}
    BY <1>4 DEF WriteStage, DeviceWrite
  <2>2. device \in RegisterImage
    BY DEF TypeOK
  <2>3. /\ RegisterMatches(device', q, i)
        /\ \A j \in ManagedIndex : j # i =>
             DesiredRegister(device', j) = DesiredRegister(device, j)
    BY <2>1, <2>2, WithRegisterSame, WithRegisterOther DEF HasRegisters
  <2>4. /\ NoNewClaim(certainty', certainty) /\ profile' = profile
        /\ FamilyState(certainty', i) = "APPLIED" => RegisterMatches(q, profile, i)
    <3>1. CASE o.code = "OK"
      BY <3>1 DEF WriteStage, Continue
    <3>2. CASE o.code # "OK"
      <4>1. o.code # "I2C_NACK_ADDR"
        BY <1>4 DEF WriteOutcome
      <4>2. /\ FinishJobFailure(d, o.code, MayHaveReached(o.code))
            /\ MayHaveReached(o.code)
        BY <3>2, <4>1 DEF WriteStage, MayHaveReached
      <4>3. NoNewClaim(certainty', d)
        BY <1>2, <4>2, MarksClaimNothing, IndexType DEF FinishJobFailure
      <4> QED BY <1>2, <4>2, <4>3, FailureClaimsNothing DEF NoNewClaim
    <3> QED BY <3>1, <3>2
  <2> QED BY <2>1, <2>3, <2>4
          DEF AppliedIsTrue, HoldsRetained, NoNewClaim, RegisterMatches
<1> QED BY <1>3, <1>4

(* A job that succeeds on its last register has proved its whole candidate. *)
LEMMA ProfileSuccessStep ==
  ASSUME TypeOK, PassedRegistersMatch, At(job.stage), job.kind \in ProfileKind,
         job.index = LastIndex, RegisterMatches(device, pendingProfile, LastIndex),
         NEW c, FinishProfileSuccess(c), DeviceRead(LastIndex)
  PROVE  AppliedIsTrue'
<1>1. profile' = pendingProfile /\ device' = device /\ disturbed' = disturbed \ {LastIndex}
  BY DEF FinishProfileSuccess, DeviceRead
<1>2. ASSUME NEW i \in ManagedIndex
      PROVE  RegisterMatches(device, pendingProfile, i) \/ i \in disturbed \ {LastIndex}
  <2>1. i = LastIndex \/ i < LastIndex
    BY ManagedRegistersAssumption DEF ManagedIndex
  <2> QED BY <2>1 DEF PassedRegistersMatch, At
<1> QED BY <1>1, <1>2 DEF AppliedIsTrue, HoldsRetained, RegisterMatches

(* A power-down that succeeds has proved CONFIG, and the alert family is  *)
(* the same in the powered-down profile.                                   *)
LEMMA PowerSuccessStep ==
  ASSUME TypeOK, AppliedIsTrue, pendingProfile = PoweredDown(profile),
         job.kind = "POWER_DOWN", RegisterMatches(device, pendingProfile, 0),
         NEW c \in Certainty, NoNewClaim(c, certainty),
         FinishProfileSuccess(c), DeviceRead(0)
  PROVE  AppliedIsTrue'
<1>1. profile' = PoweredDown(profile) /\ device' = device /\ disturbed' = disturbed \ {0}
  BY DEF FinishProfileSuccess, DeviceRead
<1>2. certainty'.alert = c.alert
  BY DEF FinishProfileSuccess, SuccessCertainty
<1>3. ASSUME NEW i \in ManagedIndex, i # 0, FamilyState(certainty', i) = "APPLIED"
      PROVE  HoldsRetained(i)'
  <2>1. FamilyState(certainty, i) = "APPLIED"
    BY <1>2, <1>3 DEF FamilyState, NoNewClaim
  <2>2. DesiredRegister(PoweredDown(profile), i) = DesiredRegister(profile, i)
    BY <1>3, IndexSplit, PoweredDownFacts DEF TypeOK
  <2> QED BY <1>1, <1>3, <2>1, <2>2 DEF AppliedIsTrue, HoldsRetained, RegisterMatches
<1>4. HoldsRetained(0)'
  BY <1>1 DEF HoldsRetained, RegisterMatches
<1> QED BY <1>3, <1>4 DEF AppliedIsTrue

(* A failure that does not touch the device. *)
LEMMA FailureStep ==
  ASSUME TypeOK, AppliedIsTrue, NEW c \in Certainty, NoNewClaim(c, certainty),
         NEW code, NEW ambiguous, FinishJobFailure(c, code, ambiguous),
         NoManagedRegister
  PROVE  AppliedIsTrue'
  BY FailureClaimsNothing, QuietStep DEF NoManagedRegister, ghostVars

(* No family is left APPLIED, or nothing that AppliedIsTrue reads changes. *)
LEMMA SameClaims ==
  ASSUME AppliedIsTrue, UNCHANGED <<profile, certainty, device, disturbed>>
  PROVE  AppliedIsTrue'
  BY DEF AppliedIsTrue, HoldsRetained, RegisterMatches, DesiredRegister, FamilyState

AppliedInv == TypeInv /\ AppliedIsTrue /\ PassedRegistersMatch /\ WrittenIsMarked

LEMMA AppliedStep == AppliedInv /\ [Next]_vars => AppliedIsTrue'
<1> SUFFICES ASSUME AppliedInv, [Next]_vars PROVE AppliedIsTrue'
  OBVIOUS
<1> USE DEF AppliedInv, TypeInv
<1>a. certainty \in Certainty /\ profile \in DeviceProfile /\ pendingProfile \in DeviceProfile
  BY DEF TypeOK
<1>b. NoNewClaim(certainty, certainty)
  BY DEF NoNewClaim
<1>1. ASSUME Unbound PROVE AppliedIsTrue'
  BY <1>1 DEF Unbound, AppliedIsTrue, FamilyState, UnknownCertainty
<1>2. CASE Unbind \/ \E p \in Candidates : Bind(p)
  BY <1>1, <1>2 DEF Unbind, Bind
<1>3. CASE Admit \/ TakeJobResult
  BY <1>3, SameClaims
     DEF Admit, StartInitialize, StartApplyProfile, StartReconcile, StartTriggeredSample,
         StartContinuousSample, StartPowerDown, StartJob, TakeJobResult
<1>4. CASE PollExpired
  BY <1>a, <1>b, <1>4, FailureStep DEF PollExpired
<1>5. CASE PollReadFails
  <2>1. job.stage = "PROFILE_VERIFY" => job.index \in ManagedIndex
    BY <1>5, StageKind DEF PollReadFails, ProfileStage
  <2>2. /\ (IF job.stage = "PROFILE_VERIFY" THEN MarkDirty(certainty, job.index)
            ELSE certainty) \in Certainty
        /\ NoNewClaim(IF job.stage = "PROFILE_VERIFY"
                        THEN MarkDirty(certainty, job.index) ELSE certainty, certainty)
    BY <1>a, <1>b, <2>1, MarkFacts, MarksClaimNothing
  <2> QED BY <1>5, <2>2, FailureStep DEF PollReadFails
<1>6. ASSUME NEW matches \in BOOLEAN, PollIdentity(matches) PROVE AppliedIsTrue'
  <2>1. CASE matches
    BY <1>6, <2>1, SameClaims DEF PollIdentity, GoTo, Continue, NoManagedRegister, ghostVars
  <2>2. CASE ~matches
    BY <1>a, <1>b, <1>6, <2>2, FailureStep DEF PollIdentity
  <2> QED BY <2>1, <2>2
<1>7. CASE PollProfileRead
  <2>1. job.index \in ManagedIndex /\ job.kind \in ProfileKind /\ At(job.stage)
    BY <1>7, StageKind DEF PollProfileRead, At, ProfileStage
  <2>2. DeviceRead(job.index)
    BY <1>7 DEF PollProfileRead
  <2>3. CASE RegisterMatches(device, pendingProfile, job.index) /\ job.index = LastIndex
    BY <1>7, <2>1, <2>2, <2>3, ProfileSuccessStep DEF PollProfileRead, NextRegister
  <2>4. CASE ~(RegisterMatches(device, pendingProfile, job.index) /\ job.index = LastIndex)
    <3>1. profile' = profile /\ certainty' = AfterComparison(job.index)
      BY <1>7, <2>4 DEF PollProfileRead, NextRegister, GoTo, Continue
    <3> QED BY <2>1, <2>2, <3>1, ReadStep
  <2> QED BY <2>3, <2>4
<1>8. ASSUME NEW o \in WriteOutcome, PollProfileWrite(o) PROVE AppliedIsTrue'
  <2>1. job.index \in ManagedIndex
    BY <1>8, StageKind DEF PollProfileWrite, At, ProfileStage
  <2>2. /\ MarkDirty(certainty, job.index) \in Certainty
        /\ NoNewClaim(MarkDirty(certainty, job.index), certainty)
        /\ FamilyState(MarkDirty(certainty, job.index), job.index) # "APPLIED"
    BY <1>a, <2>1, MarkFacts, MarksClaimNothing
  <2> QED BY <1>a, <1>8, <2>1, <2>2, WriteStep DEF PollProfileWrite
<1>9. CASE PollProfileVerify
  <2>1. job.index \in ManagedIndex /\ job.kind \in ProfileKind /\ At(job.stage)
    BY <1>9, StageKind DEF PollProfileVerify, At, ProfileStage
  <2>2. DeviceRead(job.index)
    BY <1>9 DEF PollProfileVerify
  <2>3. CASE RegisterMatches(device, pendingProfile, job.index) /\ job.index = LastIndex
    BY <1>9, <2>1, <2>2, <2>3, ProfileSuccessStep DEF PollProfileVerify, NextRegister
  <2>4. CASE ~(RegisterMatches(device, pendingProfile, job.index) /\ job.index = LastIndex)
    <3>1. /\ profile' = profile
          /\ certainty' = certainty \/ certainty' = MarkDirty(certainty, job.index)
      BY <1>9, <2>4 DEF PollProfileVerify, NextRegister, Continue
    <3>2. FamilyState(certainty, job.index) # "APPLIED"
      BY <1>9 DEF PollProfileVerify, At, WrittenIsMarked
    <3>3. /\ NoNewClaim(certainty', certainty)
          /\ FamilyState(certainty', job.index) # "APPLIED"
      BY <1>a, <2>1, <3>1, <3>2, MarkFacts, MarksClaimNothing
    <3> QED BY <2>2, <3>1, <3>3, QuietStep DEF DeviceRead
  <2> QED BY <2>3, <2>4
<1>10. ASSUME job.stage \in PowerStage, job.state = "ACTIVE",
              RegisterMatches(device, pendingProfile, 0), DeviceRead(0),
              NEW c \in Certainty, NoNewClaim(c, certainty), FinishProfileSuccess(c)
       PROVE  AppliedIsTrue'
  BY <1>10, StageKind, PowerSuccessStep
<1>11. CASE PollPowerRead
  <2>1. /\ AfterComparison(0) \in Certainty /\ NoNewClaim(AfterComparison(0), certainty)
        /\ DeviceRead(0) /\ job.stage \in PowerStage /\ job.state = "ACTIVE"
    BY <1>11, ComparisonFacts, IndexType DEF PollPowerRead, At, PowerStage
  <2>2. CASE RegisterMatches(device, pendingProfile, 0)
    BY <1>10, <1>11, <2>1, <2>2 DEF PollPowerRead
  <2>3. CASE ~RegisterMatches(device, pendingProfile, 0)
    <3>1. profile' = profile /\ certainty' = AfterComparison(0)
      BY <1>11, <2>3 DEF PollPowerRead, GoTo, Continue
    <3> QED BY <2>1, <3>1, IndexType, ReadStep
  <2> QED BY <2>2, <2>3
<1>12. ASSUME NEW o \in WriteOutcome, PollPowerWrite(o) PROVE AppliedIsTrue'
  <2>1. /\ MarkDirty(certainty, 0) \in Certainty
        /\ NoNewClaim(MarkDirty(certainty, 0), certainty)
        /\ FamilyState(MarkDirty(certainty, 0), 0) # "APPLIED"
    BY <1>a, IndexType, MarkFacts, MarksClaimNothing
  <2>2. pendingProfile.config = DesiredRegister(pendingProfile, 0)
    BY DEF DesiredRegister
  <2> QED BY <1>a, <1>12, <2>1, <2>2, IndexType, WriteStep DEF PollPowerWrite
<1>13. CASE PollPowerVerify
  <2>1. DeviceRead(0) /\ job.stage \in PowerStage /\ job.state = "ACTIVE"
    BY <1>13 DEF PollPowerVerify, At, PowerStage
  <2>2. CASE RegisterMatches(device, pendingProfile, 0)
    BY <1>a, <1>b, <1>10, <1>13, <2>1, <2>2 DEF PollPowerVerify
  <2>3. CASE ~RegisterMatches(device, pendingProfile, 0)
    <3>1. profile' = profile /\ certainty' = certainty
      BY <1>13, <2>3 DEF PollPowerVerify
    <3>2. FamilyState(certainty', 0) # "APPLIED"
      BY <1>13, <3>1 DEF PollPowerVerify, At, WrittenIsMarked, FamilyState
    <3> QED BY <1>b, <2>1, <3>1, <3>2, QuietStep DEF DeviceRead
  <2> QED BY <2>2, <2>3
<1>14. ASSUME NEW o \in WriteOutcome, PollTriggerWrite(o) PROVE AppliedIsTrue'
  <2>1. profile.config = DesiredRegister(profile, 0) /\ RegisterMatches(profile, profile, 0)
    BY DEF DesiredRegister, RegisterMatches
  <2> QED BY <1>a, <1>b, <1>14, <2>1, IndexType, WriteStep DEF PollTriggerWrite
<1>15. ASSUME NEW cvrf \in BOOLEAN, PollSampleMask(cvrf) PROVE AppliedIsTrue'
  BY <1>15, SameClaims DEF PollSampleMask, GoTo, Continue, NoManagedRegister, ghostVars
<1>16. CASE PollSampleChannel
  BY <1>16, SameClaims
     DEF PollSampleChannel, FinishSampleSuccess, Continue, NoManagedRegister, ghostVars
<1>17. CASE CancelJob
  <2>1. NoNewClaim(certainty', certainty)
    BY <1>17, <1>a DEF CancelJob, NoNewClaim, FamilyState, Certainty
  <2> QED BY <1>17, <2>1, QuietStep DEF CancelJob, ghostVars
<1>18. CASE DeviceReset
  BY <1>18 DEF DeviceReset, driverVars, AppliedIsTrue, HoldsRetained, RegisterMatches
<1>19. CASE UNCHANGED vars
  BY <1>19, SameClaims DEF vars, driverVars, ghostVars
<1> QED
  BY <1>2, <1>3, <1>4, <1>5, <1>6, <1>7, <1>8, <1>9, <1>11, <1>12, <1>13, <1>14,
     <1>15, <1>16, <1>17, <1>18, <1>19
     DEF Next, Poll, PollStep

(* What is written and not yet verified stays marked. *)
LEMMA MarkedStep == TypeInv /\ WrittenIsMarked /\ [Next]_vars => WrittenIsMarked'
<1> SUFFICES ASSUME TypeInv, WrittenIsMarked, [Next]_vars PROVE WrittenIsMarked'
  OBVIOUS
<1> USE DEF TypeInv
<1>1. ASSUME \/ job'.state # "ACTIVE"
             \/ job'.stage \notin {"PROFILE_VERIFY", "POWER_VERIFY_CONFIG"}
      PROVE  WrittenIsMarked'
  BY <1>1 DEF WrittenIsMarked
<1>2. CASE Unbind \/ (\E p \in Candidates : Bind(p)) \/ TakeJobResult
  BY <1>1, <1>2 DEF Unbind, Bind, Unbound, TakeJobResult, IdleJob
<1>3. CASE Admit
  BY <1>1, <1>3
     DEF Admit, StartInitialize, StartApplyProfile, StartReconcile,
         StartTriggeredSample, StartContinuousSample, StartPowerDown, StartJob
<1>4. CASE PollExpired \/ PollReadFails
  BY <1>1, <1>4, FinishJobFailureEnds DEF PollExpired, PollReadFails
<1>5. ASSUME NEW stage, NEW c, GoTo(stage, c),
             stage \notin {"PROFILE_VERIFY", "POWER_VERIFY_CONFIG"}
      PROVE  WrittenIsMarked'
  BY <1>1, <1>5 DEF GoTo, Continue, TypeOK
<1>6. ASSUME NEW c, NextRegister(c), job.index \in ManagedIndex PROVE WrittenIsMarked'
  BY <1>1, <1>6, NextRegisterEnds
<1>7. \A matches \in BOOLEAN : PollIdentity(matches) => WrittenIsMarked'
  BY <1>1, <1>5, FinishJobFailureEnds DEF PollIdentity
<1>8. CASE PollProfileRead
  <2>1. job.index \in ManagedIndex
    BY <1>8, StageKind DEF PollProfileRead, At, ProfileStage
  <2> QED BY <1>5, <1>6, <1>8, <2>1 DEF PollProfileRead
<1>9. ASSUME NEW o \in WriteOutcome, PollProfileWrite(o) PROVE WrittenIsMarked'
  <2>1. CASE Continue([job EXCEPT !.stage = "PROFILE_VERIFY", !.anyWriteConfirmed = TRUE],
                      MarkDirty(certainty, job.index))
    <3>1. /\ job'.stage = "PROFILE_VERIFY" /\ job'.index = job.index
          /\ certainty' = MarkDirty(certainty, job.index)
      BY <2>1 DEF Continue, TypeOK
    <3>2. job.index \in ManagedIndex
      BY <1>9, StageKind DEF PollProfileWrite, At, ProfileStage
    <3>3. FamilyState(certainty', job'.index) # "APPLIED"
      BY <3>1, <3>2, MarkFacts DEF TypeOK
    <3> QED BY <3>1, <3>3 DEF WrittenIsMarked
  <2> QED BY <1>1, <1>9, <2>1, WriteStageEnds DEF PollProfileWrite
<1>10. CASE PollProfileVerify
  <2>1. job.index \in ManagedIndex
    BY <1>10, StageKind DEF PollProfileVerify, At, ProfileStage
  <2> QED BY <1>1, <1>6, <1>10, <2>1, FinishJobEnds DEF PollProfileVerify, TerminalState
<1>11. CASE PollPowerRead
  BY <1>1, <1>5, <1>11, FinishProfileSuccessEnds DEF PollPowerRead
<1>12. ASSUME NEW o \in WriteOutcome, PollPowerWrite(o) PROVE WrittenIsMarked'
  <2>1. CASE Continue([job EXCEPT !.stage = "POWER_VERIFY_CONFIG",
                                  !.anyWriteConfirmed = TRUE], MarkDirty(certainty, 0))
    <3>1. job'.stage = "POWER_VERIFY_CONFIG" /\ certainty' = MarkDirty(certainty, 0)
      BY <2>1 DEF Continue, TypeOK
    <3>2. certainty'.measurement # "APPLIED"
      BY <3>1, MarkFacts, IndexType DEF TypeOK, FamilyState
    <3> QED BY <3>1, <3>2 DEF WrittenIsMarked
  <2> QED BY <1>1, <1>12, <2>1, WriteStageEnds DEF PollPowerWrite
<1>13. CASE PollPowerVerify
  BY <1>1, <1>13, FinishJobEnds, FinishProfileSuccessEnds DEF PollPowerVerify, TerminalState
<1>14. ASSUME NEW o \in WriteOutcome, PollTriggerWrite(o) PROVE WrittenIsMarked'
  <2>1. CASE Continue([job EXCEPT !.stage = "SAMPLE_WAIT", !.anyWriteConfirmed = TRUE],
                      certainty)
    <3>1. job'.stage = "SAMPLE_WAIT"
      BY <2>1 DEF Continue, TypeOK
    <3> QED BY <1>1, <3>1
  <2> QED BY <1>1, <1>14, <2>1, WriteStageEnds DEF PollTriggerWrite
<1>15. \A cvrf \in BOOLEAN : PollSampleMask(cvrf) => WrittenIsMarked'
  BY <1>5 DEF PollSampleMask
<1>16. CASE PollSampleChannel
  <2>1. CASE job.index + 1 = SampleReads
    BY <1>1, <1>16, <2>1, FinishSampleSuccessEnds DEF PollSampleChannel
  <2>2. CASE job.index + 1 # SampleReads
    <3>1. job'.stage = "SAMPLE_READ_CHANNELS"
      BY <1>16, <2>2 DEF PollSampleChannel, At, Continue, TypeOK
    <3> QED BY <1>1, <3>1
  <2> QED BY <2>1, <2>2
<1>17. CASE CancelJob
  BY <1>1, <1>17, FinishJobEnds DEF CancelJob, TerminalState
<1>18. CASE DeviceReset \/ UNCHANGED vars
  BY <1>18 DEF DeviceReset, driverVars, vars, WrittenIsMarked, FamilyState
<1> QED
  BY <1>2, <1>3, <1>4, <1>7, <1>8, <1>9, <1>10, <1>11, <1>12, <1>13, <1>14, <1>15,
     <1>16, <1>17, <1>18
     DEF Next, Poll, PollStep

(* A comparison read passes register job.index on, if it matches. *)
LEMMA NextRegisterPasses ==
  ASSUME TypeOK, PassedRegistersMatch, At(job.stage), job.kind \in ProfileKind,
         job.index \in ManagedIndex, RegisterMatches(device, pendingProfile, job.index),
         NEW c, NextRegister(c), DeviceRead(job.index)
  PROVE  PassedRegistersMatch'
<1>1. CASE job'.state # "ACTIVE"
  BY <1>1 DEF PassedRegistersMatch
<1>2. CASE job'.state = "ACTIVE"
  <2>1. /\ job'.index = job.index + 1 /\ pendingProfile' = pendingProfile
        /\ device' = device /\ disturbed' = disturbed \ {job.index}
    BY <1>2, NextRegisterEnds DEF DeviceRead
  <2>2. ASSUME NEW i \in ManagedIndex, i < job.index + 1
        PROVE  RegisterMatches(device, pendingProfile, i) \/ i \in disturbed \ {job.index}
    <3>1. i \in Nat /\ job.index \in Nat
      BY <2>2, IndexType
    <3>2. i = job.index \/ i < job.index
      BY <2>2, <3>1
    <3> QED BY <2>2, <3>2 DEF PassedRegistersMatch, At
  <2> QED BY <2>1, <2>2 DEF PassedRegistersMatch, RegisterMatches
<1> QED BY <1>1, <1>2

LEMMA PassedStep == TypeInv /\ PassedRegistersMatch /\ [Next]_vars => PassedRegistersMatch'
<1> SUFFICES ASSUME TypeInv, PassedRegistersMatch, [Next]_vars PROVE PassedRegistersMatch'
  OBVIOUS
<1>1. ASSUME job'.state # "ACTIVE" \/ job'.kind \notin ProfileKind \/ job'.index = 0
      PROVE  PassedRegistersMatch'
  <2>1. \A i \in ManagedIndex : ~(i < 0)
    BY IndexType
  <2> QED BY <1>1, <2>1, Zenon DEF PassedRegistersMatch
<1> USE DEF TypeInv
<1>2. CASE Unbind \/ (\E p \in Candidates : Bind(p)) \/ TakeJobResult
  BY <1>1, <1>2 DEF Unbind, Bind, Unbound, TakeJobResult, IdleJob
<1>3. CASE Admit
  BY <1>1, <1>3
     DEF Admit, StartInitialize, StartApplyProfile, StartReconcile,
         StartTriggeredSample, StartContinuousSample, StartPowerDown, StartJob
<1>4. CASE PollExpired \/ PollReadFails
  BY <1>1, <1>4, FinishJobFailureEnds DEF PollExpired, PollReadFails
<1>5. ASSUME job.state = "ACTIVE", job'.kind = job.kind, job'.index = job.index,
             pendingProfile' = pendingProfile, device' = device,
             disturbed' = disturbed \/ disturbed' = disturbed \ {job.index}
      PROVE  PassedRegistersMatch'
  BY <1>5, IndexType DEF PassedRegistersMatch, RegisterMatches
<1>6. ASSUME NEW matches \in BOOLEAN, PollIdentity(matches) PROVE PassedRegistersMatch'
  <2>1. CASE matches
    <3>1. /\ job'.kind = job.kind /\ job'.index = job.index
          /\ pendingProfile' = pendingProfile
      BY <1>6, <2>1 DEF PollIdentity, GoTo, Continue, TypeOK
    <3> QED BY <1>5, <1>6, <3>1 DEF PollIdentity, NoManagedRegister, ghostVars
  <2>2. CASE ~matches
    BY <1>1, <1>6, <2>2, FinishJobFailureEnds DEF PollIdentity
  <2> QED BY <2>1, <2>2
<1>7. CASE PollProfileRead
  <2>1. job.index \in ManagedIndex /\ job.kind \in ProfileKind /\ At(job.stage)
    BY <1>7, StageKind DEF PollProfileRead, At, ProfileStage
  <2>2. DeviceRead(job.index)
    BY <1>7 DEF PollProfileRead
  <2>3. CASE RegisterMatches(device, pendingProfile, job.index)
    BY <1>7, <2>1, <2>2, <2>3, NextRegisterPasses DEF PollProfileRead
  <2>4. CASE ~RegisterMatches(device, pendingProfile, job.index)
    <3>1. /\ job'.kind = job.kind /\ job'.index = job.index
          /\ pendingProfile' = pendingProfile
      BY <1>7, <2>4 DEF PollProfileRead, GoTo, Continue, TypeOK
    <3> QED BY <1>5, <2>1, <2>2, <3>1 DEF DeviceRead, At
  <2> QED BY <2>3, <2>4
<1>8. ASSUME NEW o \in WriteOutcome, PollProfileWrite(o) PROVE PassedRegistersMatch'
  <2>1. CASE Continue([job EXCEPT !.stage = "PROFILE_VERIFY", !.anyWriteConfirmed = TRUE],
                      MarkDirty(certainty, job.index))
    <3>1. /\ job'.kind = job.kind /\ job'.index = job.index
          /\ pendingProfile' = pendingProfile
      BY <2>1 DEF Continue, TypeOK
    <3>2. job.index \in ManagedIndex /\ device \in RegisterImage
      BY <1>8, StageKind DEF PollProfileWrite, At, ProfileStage, TypeOK
    <3>3. \A i \in ManagedIndex : i < job.index =>
            /\ DesiredRegister(device', i) = DesiredRegister(device, i)
            /\ i \in disturbed => i \in disturbed'
      BY <1>8, <3>2, IndexType, WithRegisterOther
         DEF PollProfileWrite, WriteStage, DeviceWrite, HasRegisters
    <3> QED BY <1>8, <3>1, <3>3
            DEF PollProfileWrite, At, PassedRegistersMatch, RegisterMatches
  <2> QED BY <1>1, <1>8, <2>1, WriteStageEnds DEF PollProfileWrite
<1>9. CASE PollProfileVerify
  <2>1. job.index \in ManagedIndex /\ job.kind \in ProfileKind /\ At(job.stage)
    BY <1>9, StageKind DEF PollProfileVerify, At, ProfileStage
  <2>2. CASE RegisterMatches(device, pendingProfile, job.index)
    BY <1>9, <2>1, <2>2, NextRegisterPasses DEF PollProfileVerify
  <2>3. CASE ~RegisterMatches(device, pendingProfile, job.index)
    BY <1>1, <1>9, <2>3, FinishJobEnds DEF PollProfileVerify, TerminalState
  <2> QED BY <2>2, <2>3
(* No other job is a profile job. *)
<1>10. ASSUME job.state = "ACTIVE", job.stage \in PowerStage \union SampleStage,
              job'.kind = job.kind \/ job'.state # "ACTIVE"
       PROVE  PassedRegistersMatch'
  <2>1. job.kind \notin ProfileKind
    BY <1>10, StageKind DEF ProfileKind, SampleKind
  <2> QED BY <1>1, <1>10, <2>1
<1>11. CASE PollPowerRead
  <2>1. job'.kind = job.kind \/ job'.state # "ACTIVE"
    BY <1>11, FinishProfileSuccessEnds DEF PollPowerRead, GoTo, Continue, TypeOK
  <2> QED BY <1>10, <1>11, <2>1 DEF PollPowerRead, At, PowerStage
<1>12. ASSUME NEW o \in WriteOutcome, PollPowerWrite(o) PROVE PassedRegistersMatch'
  <2>1. job'.kind = job.kind \/ job'.state # "ACTIVE"
    BY <1>12, WriteStageEnds DEF PollPowerWrite, Continue, TypeOK
  <2> QED BY <1>10, <1>12, <2>1 DEF PollPowerWrite, At, PowerStage
<1>13. CASE PollPowerVerify
  BY <1>1, <1>13, FinishJobEnds, FinishProfileSuccessEnds DEF PollPowerVerify, TerminalState
<1>14. ASSUME NEW o \in WriteOutcome, PollTriggerWrite(o) PROVE PassedRegistersMatch'
  <2>1. job'.kind = job.kind \/ job'.state # "ACTIVE"
    BY <1>14, WriteStageEnds DEF PollTriggerWrite, Continue, TypeOK
  <2> QED BY <1>10, <1>14, <2>1 DEF PollTriggerWrite, At, SampleStage
<1>15. ASSUME NEW cvrf \in BOOLEAN, PollSampleMask(cvrf) PROVE PassedRegistersMatch'
  <2>1. job'.kind = job.kind
    BY <1>15 DEF PollSampleMask, GoTo, Continue, TypeOK
  <2> QED BY <1>10, <1>15, <2>1 DEF PollSampleMask, SampleStage
<1>16. CASE PollSampleChannel
  <2>1. job'.kind = job.kind \/ job'.state # "ACTIVE"
    BY <1>16, FinishSampleSuccessEnds DEF PollSampleChannel, Continue, TypeOK
  <2> QED BY <1>10, <1>16, <2>1 DEF PollSampleChannel, At, SampleStage
<1>17. CASE CancelJob
  BY <1>1, <1>17, FinishJobEnds DEF CancelJob, TerminalState
<1>18. CASE DeviceReset
  BY <1>18 DEF DeviceReset, driverVars, PassedRegistersMatch, RegisterMatches
<1>19. CASE UNCHANGED vars
  BY <1>19 DEF vars, driverVars, ghostVars, PassedRegistersMatch, RegisterMatches
<1> QED
  BY <1>2, <1>3, <1>4, <1>6, <1>7, <1>8, <1>9, <1>11, <1>12, <1>13, <1>14, <1>15,
     <1>16, <1>17, <1>18, <1>19
     DEF Next, Poll, PollStep

(* Certainty is earned: every register of a family that the driver calls   *)
(* APPLIED holds the retained profile's value, unless an outside reset has *)
(* changed it and the driver has not touched it since.  This holds through *)
(* partial profiles, ambiguous writes, cancelled and timed out jobs.       *)
THEOREM AppliedCorrect == Spec => []AppliedIsTrue
<1>1. Init => AppliedInv
  <2>1. Init => AppliedIsTrue /\ PassedRegistersMatch /\ WrittenIsMarked
    BY DEF Init, AppliedIsTrue, PassedRegistersMatch, WrittenIsMarked, FamilyState,
           UnknownCertainty, IdleJob
  <2> QED BY <2>1, InitType DEF AppliedInv
<1>2. AppliedInv /\ [Next]_vars => AppliedInv'
  BY TypeStep, ShapeStep, AppliedStep, PassedStep, MarkedStep DEF AppliedInv, TypeInv
<1>3. AppliedInv => AppliedIsTrue
  BY DEF AppliedInv
<1> QED BY <1>1, <1>2, <1>3, PTL DEF Spec

-----------------------------------------------------------------------------
(* The effect of a result is honest *)

KnownWrites == SlotIsBlocked /\ WritesAreKnown /\ EffectIsHonest

(* A job that ends without a write callback: its flag tells what it did. *)
LEMMA QuietEndIsHonest ==
  ASSUME job.state = "ACTIVE", WritesAreKnown, reached' = reached,
         job'.state # "ACTIVE",
         \/ /\ result'.effect = FailureEffect(FALSE)
            /\ result'.state = "FAILED" => ~job.anyWriteConfirmed
         \/ result'.effect = SuccessEffect /\ result'.state # "FAILED"
         \/ /\ result'.effect = "PARTIAL" /\ result'.state # "FAILED"
            /\ job.anyWriteConfirmed
  PROVE  KnownWrites'
  BY DEF WritesAreKnown, KnownWrites, SlotIsBlocked, EffectIsHonest, FailureEffect,
         SuccessEffect

LEMMA QuietFailureIsHonest ==
  ASSUME TypeOK, job.state = "ACTIVE", WritesAreKnown, reached' = reached,
         NEW c, NEW code, FinishJobFailure(c, code, FALSE)
  PROVE  KnownWrites'
<1>1. /\ job'.state # "ACTIVE" /\ result'.effect = FailureEffect(FALSE)
      /\ result'.state = FailureState(code, FALSE)
  BY FinishJobFailureEnds
<1>2. result'.state = "FAILED" => ~job.anyWriteConfirmed
  BY <1>1 DEF FailureState
<1> QED BY <1>1, <1>2, QuietEndIsHonest

(* A job that goes on without a write callback. *)
LEMMA QuietProgress ==
  ASSUME job.state = "ACTIVE", SlotIsBlocked, WritesAreKnown, reached' = reached,
         hasResult' = hasResult, job'.anyWriteConfirmed = job.anyWriteConfirmed,
         job'.stage \notin {"PROFILE_VERIFY", "POWER_VERIFY_CONFIG"}
  PROVE  KnownWrites'
  BY DEF WritesAreKnown, KnownWrites, SlotIsBlocked, EffectIsHonest

LEMMA WriteIsKnown ==
  ASSUME TypeOK, job.state = "ACTIVE", SlotIsBlocked, WritesAreKnown, NEW i, NEW v,
         NEW o \in WriteOutcome, NEW newJob, NEW c, newJob.anyWriteConfirmed = TRUE,
         WriteStage(i, v, o, Continue(newJob, c))
  PROVE  KnownWrites'
<1>1. CASE o.code = "OK"
  <2>1. o.landed
    BY <1>1 DEF WriteOutcome
  <2>2. reached' = (reached \/ o.landed) /\ Continue(newJob, c)
    BY <1>1 DEF WriteStage, DeviceWrite
  <2>3. reached' = TRUE
    BY <2>1, <2>2
  <2>4. job'.anyWriteConfirmed = TRUE /\ hasResult' = hasResult
    BY <2>2 DEF Continue
  <2> QED BY <2>3, <2>4, <1>1 DEF KnownWrites, SlotIsBlocked, WritesAreKnown, EffectIsHonest
<1>2. CASE o.code = "I2C_NACK_ADDR"
  <2>1. reached' = reached
    BY <1>2 DEF WriteStage, DeviceWrite, WriteOutcome, TypeOK
  <2>2. FinishJobFailure(certainty, o.code, FALSE)
    BY <1>2 DEF WriteStage, MayHaveReached
  <2> QED BY <2>1, <2>2, QuietFailureIsHonest
<1>3. CASE o.code \notin {"OK", "I2C_NACK_ADDR"}
  <2>1. PICK d : FinishJobFailure(d, o.code, TRUE)
    BY <1>3 DEF WriteStage, MayHaveReached
  <2>2. /\ job'.state # "ACTIVE" /\ result'.effect = "INDETERMINATE"
        /\ result'.state \in {"TIMED_OUT", "INDETERMINATE"}
    BY <2>1, FinishJobFailureEnds DEF FailureEffect, FailureState
  <2> QED BY <2>2 DEF KnownWrites, SlotIsBlocked, WritesAreKnown, EffectIsHonest
<1> QED BY <1>1, <1>2, <1>3

LEMMA KnownStep == TypeInv /\ KnownWrites /\ [Next]_vars => KnownWrites'
<1> SUFFICES ASSUME TypeInv, KnownWrites, [Next]_vars PROVE KnownWrites'
  OBVIOUS
<1> USE DEF TypeInv
<1>a. SlotIsBlocked /\ WritesAreKnown /\ EffectIsHonest
  BY DEF KnownWrites
<1>1. CASE Unbind \/ (\E p \in Candidates : Bind(p)) \/ TakeJobResult
  BY <1>1
     DEF Unbind, Bind, Unbound, TakeJobResult, IdleJob, KnownWrites, SlotIsBlocked,
         WritesAreKnown, EffectIsHonest
<1>2. CASE Admit
  <2>1. /\ hasResult' = FALSE /\ reached' = FALSE /\ job'.anyWriteConfirmed = FALSE
        /\ job'.stage \notin {"PROFILE_VERIFY", "POWER_VERIFY_CONFIG"}
    BY <1>2
       DEF Admit, StartInitialize, StartApplyProfile, StartReconcile,
           StartTriggeredSample, StartContinuousSample, StartPowerDown, StartJob,
           CanStart, TypeOK
  <2> QED BY <2>1 DEF KnownWrites, SlotIsBlocked, WritesAreKnown, EffectIsHonest
<1>3. CASE PollExpired \/ PollReadFails
  BY <1>a, <1>3, QuietFailureIsHonest
     DEF PollExpired, PollReadFails, NoManagedRegister, ghostVars
<1>4. ASSUME NEW stage, NEW c, GoTo(stage, c), job.state = "ACTIVE", reached' = reached,
             stage \notin {"PROFILE_VERIFY", "POWER_VERIFY_CONFIG"}
      PROVE  KnownWrites'
  <2>1. /\ hasResult' = hasResult /\ job'.anyWriteConfirmed = job.anyWriteConfirmed
        /\ job'.stage = stage
    BY <1>4 DEF GoTo, Continue, TypeOK
  <2> QED BY <1>a, <1>4, <2>1, QuietProgress
<1>5. ASSUME NEW c, FinishProfileSuccess(c), job.state = "ACTIVE", reached' = reached
      PROVE  KnownWrites'
  BY <1>a, <1>5, FinishProfileSuccessEnds, QuietEndIsHonest
<1>6. ASSUME NEW c, NextRegister(c), job.state = "ACTIVE", reached' = reached,
             job.index \in ManagedIndex
      PROVE  KnownWrites'
  <2>1. CASE job.index = LastIndex
    BY <1>5, <1>6, <2>1 DEF NextRegister
  <2>2. CASE job.index # LastIndex
    BY <1>a, <1>6, <2>2, NextRegisterEnds, QuietProgress
  <2> QED BY <2>1, <2>2
<1>7. ASSUME NEW matches \in BOOLEAN, PollIdentity(matches) PROVE KnownWrites'
  BY <1>a, <1>4, <1>7, QuietFailureIsHonest
     DEF PollIdentity, NoManagedRegister, ghostVars
<1>8. CASE PollProfileRead
  <2>1. job.index \in ManagedIndex
    BY <1>8, StageKind DEF PollProfileRead, At, ProfileStage
  <2> QED BY <1>4, <1>6, <1>8, <2>1 DEF PollProfileRead, At, DeviceRead
<1>9. ASSUME NEW o \in WriteOutcome, PollProfileWrite(o) PROVE KnownWrites'
  <2>1. [job EXCEPT !.stage = "PROFILE_VERIFY",
                    !.anyWriteConfirmed = TRUE].anyWriteConfirmed = TRUE
    BY DEF TypeOK
  <2> QED BY <1>a, <1>9, <2>1, WriteIsKnown DEF PollProfileWrite, At
<1>10. CASE PollProfileVerify
  <2>1. job.index \in ManagedIndex
    BY <1>10, StageKind DEF PollProfileVerify, At, ProfileStage
  <2>2. CASE RegisterMatches(device, pendingProfile, job.index)
    BY <1>6, <1>10, <2>1, <2>2 DEF PollProfileVerify, At, DeviceRead
  <2>3. CASE ~RegisterMatches(device, pendingProfile, job.index)
    <3>1. /\ job'.state # "ACTIVE" /\ result'.state = "PARTIAL"
          /\ result'.effect = "PARTIAL"
      BY <1>10, <2>3, FinishJobEnds DEF PollProfileVerify, TerminalState
    <3> QED BY <1>a, <1>10, <3>1, QuietEndIsHonest
            DEF PollProfileVerify, At, DeviceRead, WritesAreKnown
  <2> QED BY <2>2, <2>3
<1>11. CASE PollPowerRead
  BY <1>4, <1>5, <1>11 DEF PollPowerRead, At, DeviceRead
<1>12. ASSUME NEW o \in WriteOutcome, PollPowerWrite(o) PROVE KnownWrites'
  <2>1. [job EXCEPT !.stage = "POWER_VERIFY_CONFIG",
                    !.anyWriteConfirmed = TRUE].anyWriteConfirmed = TRUE
    BY DEF TypeOK
  <2> QED BY <1>a, <1>12, <2>1, WriteIsKnown DEF PollPowerWrite, At
<1>13. CASE PollPowerVerify
  <2>1. CASE RegisterMatches(device, pendingProfile, 0)
    BY <1>5, <1>13, <2>1 DEF PollPowerVerify, At, DeviceRead
  <2>2. CASE ~RegisterMatches(device, pendingProfile, 0)
    <3>1. /\ job'.state # "ACTIVE" /\ result'.state = "PARTIAL"
          /\ result'.effect = "PARTIAL"
      BY <1>13, <2>2, FinishJobEnds DEF PollPowerVerify, TerminalState
    <3> QED BY <1>a, <1>13, <3>1, QuietEndIsHonest
            DEF PollPowerVerify, At, DeviceRead, WritesAreKnown
  <2> QED BY <2>1, <2>2
<1>14. ASSUME NEW o \in WriteOutcome, PollTriggerWrite(o) PROVE KnownWrites'
  <2>1. [job EXCEPT !.stage = "SAMPLE_WAIT",
                    !.anyWriteConfirmed = TRUE].anyWriteConfirmed = TRUE
    BY DEF TypeOK
  <2> QED BY <1>a, <1>14, <2>1, WriteIsKnown DEF PollTriggerWrite, At
<1>15. ASSUME NEW cvrf \in BOOLEAN, PollSampleMask(cvrf) PROVE KnownWrites'
  BY <1>4, <1>15 DEF PollSampleMask, NoManagedRegister, ghostVars
<1>16. CASE PollSampleChannel
  <2>1. CASE job.index + 1 = SampleReads
    BY <1>a, <1>16, <2>1, FinishSampleSuccessEnds, QuietEndIsHonest
       DEF PollSampleChannel, At, NoManagedRegister, ghostVars
  <2>2. CASE job.index + 1 # SampleReads
    <3>1. /\ hasResult' = hasResult /\ job'.anyWriteConfirmed = job.anyWriteConfirmed
          /\ job'.stage = "SAMPLE_READ_CHANNELS"
      BY <1>16, <2>2 DEF PollSampleChannel, At, Continue, TypeOK
    <3> QED BY <1>a, <1>16, <3>1, QuietProgress
            DEF PollSampleChannel, At, NoManagedRegister, ghostVars
  <2> QED BY <2>1, <2>2
<1>17. CASE CancelJob
  <2>1. job'.state # "ACTIVE" /\ result'.effect = FailureEffect(FALSE)
        /\ result'.state = "CANCELLED"
    BY <1>17, FinishJobEnds DEF CancelJob, TerminalState
  <2> QED BY <1>a, <1>17, <2>1, QuietEndIsHonest DEF CancelJob, ghostVars
<1>18. CASE DeviceReset \/ UNCHANGED vars
  BY <1>18
     DEF DeviceReset, driverVars, ghostVars, vars, KnownWrites, SlotIsBlocked,
         WritesAreKnown, EffectIsHonest
<1> QED
  BY <1>1, <1>2, <1>3, <1>7, <1>8, <1>9, <1>10, <1>11, <1>12, <1>13, <1>14, <1>15,
     <1>16, <1>17, <1>18
     DEF Next, Poll, PollStep

(* Results never misreport the bus: an effect NONE and a state FAILED mean *)
(* that no write of the job reached the device, CONFIRMED and PARTIAL that *)
(* one did, whichever callback failed and whenever the job was cancelled.  *)
THEOREM EffectCorrect == Spec => []EffectIsHonest
<1>1. Init => TypeInv /\ KnownWrites
  <2>1. Init => KnownWrites
    BY DEF Init, KnownWrites, SlotIsBlocked, WritesAreKnown, EffectIsHonest, IdleJob
  <2> QED BY <2>1, InitType
<1>2. TypeInv /\ KnownWrites /\ [Next]_vars => (TypeInv /\ KnownWrites)'
  BY TypeStep, ShapeStep, KnownStep DEF TypeInv
<1>3. KnownWrites => EffectIsHonest
  BY DEF KnownWrites
<1> QED BY <1>1, <1>2, <1>3, PTL DEF Spec

-----------------------------------------------------------------------------
(* What one step may do *)

(* Certainty d is c, or c after marks. *)
Marked(d, c) ==
  /\ d \in Certainty
  /\ NoNewClaim(d, c)
  /\ d # c => d.dirty /\ (d.measurement # "APPLIED" \/ d.alert # "APPLIED")

JobGoesOn ==
  /\ job.state = "ACTIVE" /\ job'.state = "ACTIVE"
  /\ job'.kind = job.kind /\ job'.generation = job.generation
  /\ job'.requestId = job.requestId
  /\ UNCHANGED <<hasResult, result>>
  /\ reached' \in {reached, TRUE}
  /\ job.kind \in SampleKind => certainty' = certainty
  /\ job.kind = "POWER_DOWN" /\ job'.anyWriteConfirmed =>
       job.anyWriteConfirmed \/ (certainty'.dirty /\ certainty'.measurement # "APPLIED")

JobEnds ==
  /\ job.state = "ACTIVE" /\ job'.state # "ACTIVE"
  /\ hasResult' = TRUE
  /\ result'.requestId = job.requestId
  /\ result'.effect \in HardwareEffect
  /\ reached' \in {reached, TRUE}

(* What only a success, a new binding or a legacy call changes. *)
Retained == <<bound, initialized, profile, generation, hasSample, sample>>

(* A poll or a cancellation that is no success. *)
MarkingStep ==
  /\ UNCHANGED Retained
  /\ Marked(certainty', certainty)
  /\ JobGoesOn \/ JobEnds

ProfileSuccess ==
  /\ JobEnds
  /\ job.kind \notin SampleKind
  /\ result'.state = "SUCCEEDED" /\ result'.kind = job.kind
  /\ device' = device
  /\ \E c : Marked(c, certainty) /\ FinishProfileSuccess(c)

SampleSuccess ==
  /\ JobEnds
  /\ job.kind \in SampleKind
  /\ FinishSampleSuccess

PollCase == MarkingStep \/ ProfileSuccess \/ SampleSuccess

LEMMA MarksAreMarks ==
  ASSUME NEW c \in Certainty, NEW i \in ManagedIndex
  PROVE  /\ Marked(c, c)
         /\ Marked(MarkDirty(c, i), c)
         /\ Marked(MarkUnknown(c, i), c)
<1>1. /\ c.measurement \in AppliedConfigState /\ c.alert \in AppliedConfigState
      /\ \A d : FamilyState(d, i) \in {d.measurement, d.alert}
  BY DEF Certainty, FamilyState
<1> QED BY <1>1, MarkFacts, MarksClaimNothing DEF Marked

LEMMA ComparisonMarks ==
  ASSUME TypeOK, NEW i \in ManagedIndex
  PROVE  Marked(AfterComparison(i), certainty)
  BY MarksAreMarks DEF AfterComparison, TypeOK

(* Every job that ends, ends so. *)
LEMMA FinishEnds ==
  ASSUME TypeOK, job.state = "ACTIVE", NEW state \in TerminalState,
         NEW effect \in HardwareEffect, NEW gen, FinishJob(state, effect, gen),
         reached' \in {reached, TRUE}
  PROVE  JobEnds
  BY FinishJobEnds DEF JobEnds

LEMMA FailureIsMarking ==
  ASSUME TypeOK, PowerDownIsMarked, job.state = "ACTIVE", NEW c, Marked(c, certainty),
         NEW code, NEW ambiguous \in BOOLEAN, FinishJobFailure(c, code, ambiguous),
         reached' \in {reached, TRUE}
  PROVE  MarkingStep
<1>1. FailureState(code, ambiguous) \in TerminalState
  BY DEF FailureState, TerminalState
<1>2. FailureEffect(ambiguous) \in HardwareEffect
  BY DEF FailureEffect, HardwareEffect
<1>3. JobEnds
  BY <1>1, <1>2, FinishEnds DEF FinishJobFailure
<1>4. Marked(certainty', certainty)
  <2>1. Marked(MarkDirty(c, 0), c) /\ c \in Certainty
    BY MarksAreMarks, IndexType DEF Marked
  <2>2. MarkDirty(c, 0).dirty /\ MarkDirty(c, 0).measurement # "APPLIED"
    BY <2>1, MarkFacts, IndexType DEF FamilyState
  <2>3. certainty' = c \/ certainty' = MarkDirty(c, 0)
    BY DEF FinishJobFailure
  <2> QED BY <2>1, <2>2, <2>3 DEF Marked, NoNewClaim
<1> QED BY <1>3, <1>4 DEF MarkingStep, FinishJobFailure, Retained

LEMMA ContinueIsMarking ==
  ASSUME TypeOK, job.state = "ACTIVE", NEW c, Marked(c, certainty), NEW newJob,
         Continue(newJob, c), newJob.state = "ACTIVE", newJob.kind = job.kind,
         newJob.generation = job.generation, newJob.requestId = job.requestId,
         reached' \in {reached, TRUE},
         job.kind \in SampleKind => c = certainty,
         newJob.anyWriteConfirmed = job.anyWriteConfirmed \/ job.kind # "POWER_DOWN"
           \/ (c.dirty /\ c.measurement # "APPLIED")
  PROVE  MarkingStep
  BY DEF MarkingStep, JobGoesOn, Continue, Retained

LEMMA GoToIsMarking ==
  ASSUME TypeOK, job.state = "ACTIVE", NEW c, Marked(c, certainty), NEW stage,
         GoTo(stage, c), reached' = reached, job.kind \in SampleKind => c = certainty
  PROVE  MarkingStep
<1>1. /\ [job EXCEPT !.stage = stage].state = "ACTIVE"
      /\ [job EXCEPT !.stage = stage].kind = job.kind
      /\ [job EXCEPT !.stage = stage].generation = job.generation
      /\ [job EXCEPT !.stage = stage].requestId = job.requestId
      /\ [job EXCEPT !.stage = stage].anyWriteConfirmed = job.anyWriteConfirmed
  BY DEF TypeOK
<1> QED BY <1>1, ContinueIsMarking DEF GoTo

LEMMA ProfileSuccessCase ==
  ASSUME TypeOK, job.state = "ACTIVE", job.kind \notin SampleKind, NEW c,
         Marked(c, certainty), FinishProfileSuccess(c), UNCHANGED <<device, reached>>
  PROVE  ProfileSuccess
<1>1. SuccessEffect \in HardwareEffect /\ "SUCCEEDED" \in TerminalState
  BY DEF SuccessEffect, HardwareEffect, TerminalState
<1>2. JobEnds
  BY <1>1, FinishEnds DEF FinishProfileSuccess
<1> QED BY <1>2, FinishProfileSuccessEnds DEF ProfileSuccess

LEMMA NextRegisterCase ==
  ASSUME TypeOK, job.state = "ACTIVE", job.kind \in ProfileKind, NEW c,
         Marked(c, certainty), NextRegister(c), UNCHANGED <<device, reached>>
  PROVE  PollCase
<1>1. job.kind \notin SampleKind /\ job.kind # "POWER_DOWN"
  BY DEF ProfileKind, SampleKind
<1>2. CASE job.index = LastIndex
  BY <1>1, <1>2, ProfileSuccessCase DEF NextRegister, PollCase
<1>3. CASE job.index # LastIndex
  <2> DEFINE next == [job EXCEPT !.index = @ + 1, !.stage = "PROFILE_READ"]
  <2>1. /\ next.state = job.state /\ next.kind = job.kind
        /\ next.generation = job.generation /\ next.requestId = job.requestId
    BY DEF TypeOK
  <2> HIDE DEF next
  <2>2. Continue(next, c)
    BY <1>3 DEF NextRegister, next
  <2> QED BY <1>1, <2>1, <2>2, ContinueIsMarking DEF PollCase, TypeOK
<1> QED BY <1>2, <1>3

LEMMA WriteStageCase ==
  ASSUME TypeOK, PowerDownIsMarked, job.state = "ACTIVE", NEW i \in ManagedIndex, NEW v,
         NEW o \in WriteOutcome, NEW c, Marked(c, certainty), NEW newJob,
         WriteStage(i, v, o, Continue(newJob, c)),
         newJob.state = "ACTIVE", newJob.kind = job.kind,
         newJob.generation = job.generation, newJob.requestId = job.requestId,
         newJob.anyWriteConfirmed = TRUE,
         job.kind \in SampleKind => c = certainty,
         job.kind = "POWER_DOWN" => c.dirty /\ c.measurement # "APPLIED"
  PROVE  MarkingStep
<1>1. reached' \in {reached, TRUE}
  BY DEF WriteStage, DeviceWrite, WriteOutcome, TypeOK
<1>2. CASE o.code = "OK"
  <2>1. Continue(newJob, c)
    BY <1>2 DEF WriteStage
  <2> QED BY <1>1, <2>1 DEF MarkingStep, JobGoesOn, Continue, Retained
<1>3. CASE o.code # "OK"
  <2> DEFINE d == IF MayHaveReached(o.code) THEN MarkUnknown(certainty, i) ELSE certainty
  <2>1. Marked(d, certainty)
    BY MarksAreMarks DEF TypeOK
  <2>2. FinishJobFailure(d, o.code, MayHaveReached(o.code))
    BY <1>3 DEF WriteStage
  <2>3. MayHaveReached(o.code) \in BOOLEAN
    BY DEF MayHaveReached
  <2> HIDE DEF d
  <2> QED BY <1>1, <2>1, <2>2, <2>3, FailureIsMarking
<1> QED BY <1>2, <1>3

(* A poll marks and goes on, or ends the job. *)
LEMMA PollCases == ASSUME TypeInv, PowerDownIsMarked, Poll PROVE PollCase
<1> USE DEF TypeInv
<1>a. /\ certainty \in Certainty /\ Marked(certainty, certainty)
      /\ 0 \in ManagedIndex
  BY MarksAreMarks, IndexType DEF TypeOK
<1>1. CASE PollExpired
  BY <1>1, <1>a, FailureIsMarking
     DEF PollExpired, NoManagedRegister, ghostVars, PollCase
<1>2. CASE PollReadFails
  <2>1. job.stage = "PROFILE_VERIFY" => job.index \in ManagedIndex
    BY <1>2, StageKind DEF PollReadFails, ProfileStage
  <2> DEFINE c == IF job.stage = "PROFILE_VERIFY" THEN MarkDirty(certainty, job.index)
                  ELSE certainty
  <2>2. Marked(c, certainty)
    BY <1>a, <2>1, MarksAreMarks
  <2>3. /\ job.state = "ACTIVE" /\ FinishJobFailure(c, "I2C_ERROR", FALSE)
        /\ reached' = reached
    BY <1>2 DEF PollReadFails, NoManagedRegister, ghostVars
  <2> HIDE DEF c
  <2> QED BY <2>2, <2>3, FailureIsMarking DEF PollCase
<1>3. ASSUME NEW matches \in BOOLEAN, PollIdentity(matches) PROVE PollCase
  <2>1. job.state = "ACTIVE" /\ reached' = reached
    BY <1>3 DEF PollIdentity, NoManagedRegister, ghostVars
  <2>2. CASE matches
    BY <1>a, <1>3, <2>1, <2>2, GoToIsMarking DEF PollIdentity, PollCase
  <2>3. CASE ~matches
    BY <1>a, <1>3, <2>1, <2>3, FailureIsMarking DEF PollIdentity, PollCase
  <2> QED BY <2>2, <2>3
<1>4. CASE PollProfileRead
  <2>1. /\ job.state = "ACTIVE" /\ job.kind \in ProfileKind /\ job.index \in ManagedIndex
        /\ job.kind \notin SampleKind /\ UNCHANGED <<device, reached>>
    BY <1>4, StageKind
       DEF PollProfileRead, At, ProfileStage, DeviceRead, ProfileKind, SampleKind
  <2>2. Marked(AfterComparison(job.index), certainty)
    BY <2>1, ComparisonMarks
  <2> QED BY <1>4, <2>1, <2>2, NextRegisterCase, GoToIsMarking
          DEF PollProfileRead, PollCase
<1>5. ASSUME NEW o \in WriteOutcome, PollProfileWrite(o) PROVE PollCase
  <2>1. /\ job.state = "ACTIVE" /\ job.kind \in ProfileKind /\ job.index \in ManagedIndex
        /\ job.kind \notin SampleKind /\ job.kind # "POWER_DOWN"
    BY <1>5, StageKind
       DEF PollProfileWrite, At, ProfileStage, ProfileKind, SampleKind
  <2> DEFINE next == [job EXCEPT !.stage = "PROFILE_VERIFY", !.anyWriteConfirmed = TRUE]
  <2>2. /\ next.state = "ACTIVE" /\ next.kind = job.kind
        /\ next.generation = job.generation /\ next.requestId = job.requestId
        /\ next.anyWriteConfirmed = TRUE
    BY <2>1 DEF TypeOK
  <2>3. Marked(MarkDirty(certainty, job.index), certainty)
    BY <1>a, <2>1, MarksAreMarks
  <2>4. WriteStage(job.index, DesiredRegister(pendingProfile, job.index), o,
                   Continue(next, MarkDirty(certainty, job.index)))
    BY <1>5 DEF PollProfileWrite
  <2> HIDE DEF next
  <2> QED BY <2>1, <2>2, <2>3, <2>4, WriteStageCase DEF PollCase
<1>6. CASE PollProfileVerify
  <2>1. /\ job.state = "ACTIVE" /\ job.kind \in ProfileKind /\ job.index \in ManagedIndex
        /\ UNCHANGED <<device, reached>>
    BY <1>6, StageKind DEF PollProfileVerify, At, ProfileStage, DeviceRead
  <2>2. CASE RegisterMatches(device, pendingProfile, job.index)
    BY <1>a, <1>6, <2>1, <2>2, NextRegisterCase DEF PollProfileVerify
  <2>3. CASE ~RegisterMatches(device, pendingProfile, job.index)
    <3>1. JobEnds
      BY <1>6, <2>1, <2>3, FinishEnds DEF PollProfileVerify, TerminalState, HardwareEffect
    <3>2. Marked(certainty', certainty)
      BY <1>a, <1>6, <2>1, <2>3, MarksAreMarks DEF PollProfileVerify
    <3> QED BY <1>6, <2>3, <3>1, <3>2
            DEF PollProfileVerify, PollCase, MarkingStep, Retained
  <2> QED BY <2>2, <2>3
<1>7. CASE PollPowerRead
  <2>1. /\ job.state = "ACTIVE" /\ job.kind \notin SampleKind /\ UNCHANGED <<device, reached>>
    BY <1>7, StageKind DEF PollPowerRead, At, PowerStage, DeviceRead, SampleKind
  <2>2. Marked(AfterComparison(0), certainty)
    BY <1>a, ComparisonMarks
  <2> QED BY <1>7, <2>1, <2>2, ProfileSuccessCase, GoToIsMarking DEF PollPowerRead, PollCase
<1>8. ASSUME NEW o \in WriteOutcome, PollPowerWrite(o) PROVE PollCase
  <2>1. job.state = "ACTIVE" /\ job.kind \notin SampleKind
    BY <1>8, StageKind DEF PollPowerWrite, At, PowerStage, SampleKind
  <2> DEFINE next == [job EXCEPT !.stage = "POWER_VERIFY_CONFIG", !.anyWriteConfirmed = TRUE]
  <2>2. /\ next.state = "ACTIVE" /\ next.kind = job.kind
        /\ next.generation = job.generation /\ next.requestId = job.requestId
        /\ next.anyWriteConfirmed = TRUE
    BY <2>1 DEF TypeOK
  <2>3. /\ Marked(MarkDirty(certainty, 0), certainty)
        /\ MarkDirty(certainty, 0).dirty /\ MarkDirty(certainty, 0).measurement # "APPLIED"
    BY <1>a, MarksAreMarks, MarkFacts DEF FamilyState
  <2>4. WriteStage(0, pendingProfile.config, o, Continue(next, MarkDirty(certainty, 0)))
    BY <1>8 DEF PollPowerWrite
  <2> HIDE DEF next
  <2> QED BY <1>a, <2>1, <2>2, <2>3, <2>4, WriteStageCase DEF PollCase
<1>9. CASE PollPowerVerify
  <2>1. /\ job.state = "ACTIVE" /\ job.kind \notin SampleKind /\ UNCHANGED <<device, reached>>
    BY <1>9, StageKind DEF PollPowerVerify, At, PowerStage, DeviceRead, SampleKind
  <2>2. CASE RegisterMatches(device, pendingProfile, 0)
    BY <1>a, <1>9, <2>1, <2>2, ProfileSuccessCase DEF PollPowerVerify, PollCase
  <2>3. CASE ~RegisterMatches(device, pendingProfile, 0)
    <3>1. JobEnds
      BY <1>9, <2>1, <2>3, FinishEnds DEF PollPowerVerify, TerminalState, HardwareEffect
    <3> QED BY <1>a, <1>9, <2>3, <3>1 DEF PollPowerVerify, PollCase, MarkingStep, Retained
  <2> QED BY <2>2, <2>3
<1>10. ASSUME NEW o \in WriteOutcome, PollTriggerWrite(o) PROVE PollCase
  <2>1. job.state = "ACTIVE" /\ job.kind # "POWER_DOWN"
    BY <1>10, StageKind DEF PollTriggerWrite, At, SampleStage, SampleKind
  <2> DEFINE next == [job EXCEPT !.stage = "SAMPLE_WAIT", !.anyWriteConfirmed = TRUE]
  <2>2. /\ next.state = "ACTIVE" /\ next.kind = job.kind
        /\ next.generation = job.generation /\ next.requestId = job.requestId
        /\ next.anyWriteConfirmed = TRUE
    BY <2>1 DEF TypeOK
  <2>3. WriteStage(0, profile.config, o, Continue(next, certainty))
    BY <1>10 DEF PollTriggerWrite
  <2> HIDE DEF next
  <2> QED BY <1>a, <2>1, <2>2, <2>3, WriteStageCase DEF PollCase
<1>11. ASSUME NEW cvrf \in BOOLEAN, PollSampleMask(cvrf) PROVE PollCase
  BY <1>a, <1>11, GoToIsMarking DEF PollSampleMask, NoManagedRegister, ghostVars, PollCase
<1>12. CASE PollSampleChannel
  <2>1. job.state = "ACTIVE" /\ job.kind \in SampleKind /\ reached' = reached
    BY <1>12, StageKind
       DEF PollSampleChannel, At, SampleStage, NoManagedRegister, ghostVars
  <2>2. CASE job.index + 1 = SampleReads
    <3>1. SuccessEffect \in HardwareEffect /\ "SUCCEEDED" \in TerminalState
      BY DEF SuccessEffect, HardwareEffect, TerminalState
    <3>2. FinishSampleSuccess
      BY <1>12, <2>2 DEF PollSampleChannel
    <3>3. JobEnds
      BY <2>1, <3>1, <3>2, FinishEnds DEF FinishSampleSuccess
    <3> QED BY <2>1, <3>2, <3>3 DEF PollCase, SampleSuccess
  <2>3. CASE job.index + 1 # SampleReads
    <3> DEFINE next == [job EXCEPT !.index = @ + 1]
    <3>1. /\ next.state = job.state /\ next.kind = job.kind
          /\ next.generation = job.generation /\ next.requestId = job.requestId
          /\ next.anyWriteConfirmed = job.anyWriteConfirmed
      BY DEF TypeOK
    <3>2. Continue(next, certainty)
      BY <1>12, <2>3 DEF PollSampleChannel
    <3> HIDE DEF next
    <3> QED BY <1>a, <2>1, <3>1, <3>2, ContinueIsMarking DEF PollCase
  <2> QED BY <2>2, <2>3
<1> QED
  BY <1>1, <1>2, <1>3, <1>4, <1>5, <1>6, <1>7, <1>8, <1>9, <1>10, <1>11, <1>12
     DEF Poll, PollStep

(* What an admission leaves alone, and what an admitted sample relies on.  *)
LEMMA AdmitFacts ==
  ASSUME TypeOK, Admit
  PROVE  /\ UNCHANGED Retained /\ UNCHANGED <<certainty, hasResult, result, device, disturbed>>
         /\ ~hasResult /\ job.state # "ACTIVE"
         /\ job'.state = "ACTIVE" /\ job'.anyWriteConfirmed = FALSE
         /\ job'.requestId \in RequestIds
         /\ reached' = FALSE
         /\ job'.kind \in SampleKind =>
              /\ initialized /\ certainty.measurement = "APPLIED"
              /\ job'.generation = generation
              /\ IF job'.kind = "TRIGGERED_SAMPLE" THEN isTriggeredMode(profile.config.mode)
                 ELSE isContinuousMode(profile.config.mode)
<1>1. PICK id, kind, stage, gen :
        /\ id \in RequestIds
        /\ StartJob(kind, stage, id, gen)
        /\ kind \in SampleKind =>
              /\ initialized /\ certainty.measurement = "APPLIED"
              /\ gen = generation
              /\ IF kind = "TRIGGERED_SAMPLE" THEN isTriggeredMode(profile.config.mode)
                 ELSE isContinuousMode(profile.config.mode)
  BY DEF Admit, StartInitialize, StartApplyProfile, StartReconcile,
         StartTriggeredSample, StartContinuousSample, StartPowerDown, SampleKind
<1> QED BY <1>1 DEF StartJob, CanStart, Retained, TypeOK

(* Every step is one of these. *)
LEMMA StepCases ==
  ASSUME TypeInv, PowerDownIsMarked, [Next]_vars
  PROVE  \/ Unbind \/ \E p \in Candidates : Bind(p)
         \/ Admit
         \/ PollCase
         \/ TakeJobResult
         \/ UNCHANGED <<driverVars, reached>>
<1> USE DEF TypeInv
<1>1. CASE CancelJob
  <2>1. FailureEffect(FALSE) \in HardwareEffect /\ "CANCELLED" \in TerminalState
    BY DEF FailureEffect, HardwareEffect, TerminalState
  <2>2. JobEnds
    BY <1>1, <2>1, FinishEnds DEF CancelJob, ghostVars
  <2>3. Marked(certainty', certainty)
    <3> DEFINE d == [certainty EXCEPT !.measurement = "DIRTY"]
    <3>1. /\ certainty \in Certainty
          /\ certainty' = certainty \/ (certainty' = d /\ certainty.dirty)
      BY <1>1 DEF CancelJob, PowerDownIsMarked, TypeOK
    <3>2. /\ d \in Certainty /\ d.dirty = certainty.dirty
          /\ d.measurement # "APPLIED" /\ d.alert = certainty.alert
      BY <3>1 DEF Certainty, AppliedConfigState
    <3>3. NoNewClaim(d, certainty) /\ NoNewClaim(certainty, certainty)
      BY <3>2 DEF NoNewClaim, FamilyState
    <3> HIDE DEF d
    <3> QED BY <3>1, <3>2, <3>3 DEF Marked
  <2> QED BY <1>1, <2>2, <2>3 DEF CancelJob, PollCase, MarkingStep, Retained
<1>2. CASE Poll
  BY <1>2, PollCases
<1>3. CASE DeviceReset \/ UNCHANGED vars
  BY <1>3 DEF DeviceReset, vars, ghostVars
<1> QED BY <1>1, <1>2, <1>3 DEF Next

-----------------------------------------------------------------------------
(* The dirty flag *)

LEMMA DirtyStep ==
  ASSUME TypeInv, PowerDownIsMarked, DirtyFlagAgrees, [Next]_vars
  PROVE  DirtyFlagAgrees' /\ PowerDownIsMarked'
<1> USE DEF TypeInv
<1>1. CASE Unbind \/ \E p \in Candidates : Bind(p)
  BY <1>1 DEF Unbind, Bind, Unbound, IdleJob, DirtyFlagAgrees, PowerDownIsMarked
<1>2. CASE Admit
  <2>1. /\ initialized' = initialized /\ certainty' = certainty
        /\ job'.anyWriteConfirmed = FALSE
    BY <1>2, AdmitFacts DEF Retained
  <2>2. DirtyFlagAgrees'
    BY <2>1 DEF DirtyFlagAgrees
  <2>3. PowerDownIsMarked'
    BY <2>1 DEF PowerDownIsMarked
  <2> QED BY <2>2, <2>3
<1>3. CASE MarkingStep
  <2>1. /\ certainty'.measurement = "APPLIED" => certainty.measurement = "APPLIED"
        /\ certainty' # certainty =>
             certainty'.dirty /\ (certainty'.measurement # "APPLIED" \/ certainty'.alert # "APPLIED")
    <3>1. Marked(certainty', certainty)
      BY <1>3 DEF MarkingStep
    <3>2. FamilyState(certainty', 0) = "APPLIED" => FamilyState(certainty, 0) = "APPLIED"
      BY <3>1, IndexType DEF Marked, NoNewClaim
    <3>3. certainty' # certainty =>
            certainty'.dirty /\ (certainty'.measurement # "APPLIED" \/ certainty'.alert # "APPLIED")
      BY <3>1 DEF Marked
    <3>4. certainty'.measurement = "APPLIED" => certainty.measurement = "APPLIED"
      BY <3>2 DEF FamilyState
    <3> QED BY <3>3, <3>4
  <2> QED BY <1>3, <2>1
          DEF MarkingStep, JobGoesOn, JobEnds, Retained, DirtyFlagAgrees, PowerDownIsMarked
<1>4. CASE ProfileSuccess
  <2>1. PICK c : certainty' = SuccessCertainty(c)
    BY <1>4 DEF ProfileSuccess, FinishProfileSuccess
  <2>2. certainty'.dirty <=>
          (certainty'.measurement # "APPLIED" \/ certainty'.alert # "APPLIED")
    BY <2>1 DEF SuccessCertainty, AppliedCertainty
  <2> QED BY <1>4, <2>2 DEF ProfileSuccess, JobEnds, DirtyFlagAgrees, PowerDownIsMarked
<1>5. CASE SampleSuccess
  BY <1>5 DEF SampleSuccess, JobEnds, FinishSampleSuccess, DirtyFlagAgrees, PowerDownIsMarked
<1>6. CASE TakeJobResult
  BY <1>6 DEF TakeJobResult, IdleJob, DirtyFlagAgrees, PowerDownIsMarked
<1>7. CASE UNCHANGED <<driverVars, reached>>
  BY <1>7 DEF driverVars, DirtyFlagAgrees, PowerDownIsMarked
<1> QED
  BY <1>1, <1>2, <1>3, <1>4, <1>5, <1>6, <1>7, StepCases DEF PollCase

-----------------------------------------------------------------------------
(* Samples, their generation and the configuration they were admitted under *)

SampleInv ==
  SampleIsNotAhead /\ SampleMatchesGeneration /\ SampleJobUnderVerifiedConfig

LEMMA SampleStep ==
  ASSUME TypeInv, PowerDownIsMarked, SampleInv, [Next]_vars
  PROVE  SampleInv'
<1> USE DEF TypeInv
<1>a. generation \in 0 .. MaxGeneration /\ sample.generation \in 0 .. MaxGeneration
      /\ MaxGeneration \in Nat
  BY OwnerJobsAssumption DEF TypeOK
<1>b. SampleIsNotAhead /\ SampleMatchesGeneration /\ SampleJobUnderVerifiedConfig
  BY DEF SampleInv
<1>1. CASE Unbind \/ \E p \in Candidates : Bind(p)
  BY <1>1
     DEF Unbind, Bind, Unbound, IdleJob, SampleInv, SampleIsNotAhead,
         SampleMatchesGeneration, SampleJobUnderVerifiedConfig
<1>2. CASE Admit
  <2>1. SampleJobUnderVerifiedConfig'
    BY <1>2, AdmitFacts DEF Retained, SampleJobUnderVerifiedConfig
  <2>2. UNCHANGED <<hasSample, sample, generation, profile>>
    BY <1>2, AdmitFacts DEF Retained
  <2> QED BY <1>b, <2>1, <2>2 DEF SampleInv, SampleIsNotAhead, SampleMatchesGeneration
<1>3. CASE MarkingStep
  <2>1. SampleJobUnderVerifiedConfig'
    BY <1>b, <1>3 DEF MarkingStep, JobGoesOn, JobEnds, Retained, SampleJobUnderVerifiedConfig
  <2>2. UNCHANGED <<hasSample, sample, generation, profile>>
    BY <1>3 DEF MarkingStep, Retained
  <2> QED BY <1>b, <2>1, <2>2 DEF SampleInv, SampleIsNotAhead, SampleMatchesGeneration
<1>4. CASE ProfileSuccess
  <2>1. /\ generation' = NextGeneration /\ UNCHANGED <<hasSample, sample>>
        /\ job'.state # "ACTIVE"
    BY <1>4 DEF ProfileSuccess, JobEnds, FinishProfileSuccess
  <2>2. hasSample' => sample'.generation <= generation' /\
                      (sample'.generation = generation' => generation' >= MaxGeneration)
    BY <1>a, <1>b, <2>1 DEF NextGeneration, SampleIsNotAhead
  <2>3. generation' \in 0 .. MaxGeneration
    BY <1>a, <2>1 DEF NextGeneration
  <2> QED BY <1>a, <2>1, <2>2, <2>3
          DEF SampleInv, SampleIsNotAhead, SampleMatchesGeneration,
              SampleJobUnderVerifiedConfig
<1>5. CASE SampleSuccess
  <2>1. job.generation = generation
    BY <1>b, <1>5 DEF SampleSuccess, JobEnds, SampleJobUnderVerifiedConfig
  <2>2. /\ sample'.generation = generation /\ sample'.under = profile
        /\ UNCHANGED <<generation, profile>> /\ job'.state # "ACTIVE"
    BY <1>5, <2>1 DEF SampleSuccess, JobEnds, FinishSampleSuccess
  <2> QED BY <1>a, <2>2
          DEF SampleInv, SampleIsNotAhead, SampleMatchesGeneration,
              SampleJobUnderVerifiedConfig
<1>6. CASE TakeJobResult
  BY <1>b, <1>6
     DEF TakeJobResult, IdleJob, SampleInv, SampleIsNotAhead, SampleMatchesGeneration,
         SampleJobUnderVerifiedConfig
<1>7. CASE UNCHANGED <<driverVars, reached>>
  BY <1>b, <1>7
     DEF driverVars, SampleInv, SampleIsNotAhead, SampleMatchesGeneration,
         SampleJobUnderVerifiedConfig
<1> QED
  BY <1>1, <1>2, <1>3, <1>4, <1>5, <1>6, <1>7, StepCases DEF PollCase

-----------------------------------------------------------------------------
(* All of it together, and what follows *)

OwnerIInv ==
  AppliedInv /\ KnownWrites /\ PowerDownIsMarked /\ DirtyFlagAgrees /\ SampleInv

LEMMA OwnerInvStep == OwnerIInv /\ [Next]_vars => OwnerIInv'
  BY TypeStep, ShapeStep, AppliedStep, PassedStep, MarkedStep, KnownStep, DirtyStep,
     SampleStep
     DEF OwnerIInv, AppliedInv, TypeInv

LEMMA OwnerInvInit == Init => OwnerIInv
<1>1. Init => AppliedInv /\ KnownWrites
  BY InitType
     DEF Init, AppliedInv, AppliedIsTrue, PassedRegistersMatch, WrittenIsMarked,
         KnownWrites, SlotIsBlocked, WritesAreKnown, EffectIsHonest, IdleJob,
         UnknownCertainty, FamilyState
<1>2. Init => PowerDownIsMarked /\ DirtyFlagAgrees /\ SampleInv
  BY DEF Init, IdleJob, PowerDownIsMarked, DirtyFlagAgrees, SampleInv, SampleIsNotAhead,
         SampleMatchesGeneration, SampleJobUnderVerifiedConfig
<1> QED BY <1>1, <1>2 DEF OwnerIInv

(* The inductive invariant of the owner API.                               *)
THEOREM OwnerInvariant == Spec => []OwnerIInv
  BY OwnerInvInit, OwnerInvStep, PTL DEF Spec

(* hardwareConfigDirty, the flag older callers decide by, says the same as *)
(* the states of the two families.                                         *)
THEOREM DirtyFlagCorrect == Spec => []DirtyFlagAgrees
<1>1. OwnerIInv => DirtyFlagAgrees
  BY DEF OwnerIInv
<1> QED BY <1>1, OwnerInvariant, PTL

(* Calibration and channels may be looked up by a sample's generation: it  *)
(* was taken under the present profile while its generation is current.    *)
THEOREM SampleCorrect ==
  Spec => [](SampleMatchesGeneration /\ SampleJobUnderVerifiedConfig)
<1>1. OwnerIInv => SampleMatchesGeneration /\ SampleJobUnderVerifiedConfig
  BY DEF OwnerIInv, SampleInv
<1> QED BY <1>1, OwnerInvariant, PTL

-----------------------------------------------------------------------------
(* Certainty and the contract *)

LEMMA NothingGained ==
  ASSUME Marked(certainty', certainty)
  PROVE  ~Gained(certainty.measurement) /\ ~Gained(certainty.alert)
<1>1. \A i \in ManagedIndex :
        FamilyState(certainty', i) = "APPLIED" => FamilyState(certainty, i) = "APPLIED"
  BY DEF Marked, NoNewClaim
<1>2. 0 \in ManagedIndex /\ LastIndex \in ManagedIndex /\ LastIndex # 0
  BY IndexType, ManagedRegistersAssumption
<1>3. /\ FamilyState(certainty, 0) = certainty.measurement
      /\ FamilyState(certainty', 0) = certainty'.measurement
      /\ FamilyState(certainty, LastIndex) = certainty.alert
      /\ FamilyState(certainty', LastIndex) = certainty'.alert
  BY <1>2 DEF FamilyState
<1> QED BY <1>1, <1>2, <1>3 DEF Gained

(* The step of CertaintyOnlyByVerification.                                *)
GainIsVerified ==
  (Gained(certainty.measurement) \/ Gained(certainty.alert)) =>
    /\ ~hasResult /\ hasResult'
    /\ result'.state = "SUCCEEDED" /\ result'.kind \notin SampleKind
    /\ \A i \in ManagedIndex :
         FamilyState(certainty', i) = "APPLIED" =>
           (RegisterMatches(device, profile', i) \/ i \in disturbed')

LEMMA GainStep == ASSUME OwnerIInv, OwnerIInv', [Next]_vars PROVE GainIsVerified
<1>1. TypeInv /\ PowerDownIsMarked /\ SlotIsBlocked /\ AppliedIsTrue'
  BY DEF OwnerIInv, AppliedInv, KnownWrites
<1>2. CASE Unbind \/ \E p \in Candidates : Bind(p)
  BY <1>2 DEF Unbind, Bind, Unbound, UnknownCertainty, Gained, GainIsVerified
<1>3. CASE UNCHANGED certainty
  BY <1>3 DEF Gained, GainIsVerified
<1>4. CASE MarkingStep
  BY <1>4, NothingGained DEF MarkingStep, GainIsVerified
<1>5. CASE ProfileSuccess
  <2>1. ~hasResult /\ hasResult' /\ result'.state = "SUCCEEDED" /\ result'.kind \notin SampleKind
    BY <1>1, <1>5 DEF ProfileSuccess, JobEnds, SlotIsBlocked
  <2>2. device' = device
    BY <1>5 DEF ProfileSuccess
  <2>3. \A i \in ManagedIndex :
          FamilyState(certainty', i) = "APPLIED" =>
            (RegisterMatches(device, profile', i) \/ i \in disturbed')
    BY <1>1, <2>2 DEF AppliedIsTrue, HoldsRetained, RegisterMatches
  <2> QED BY <2>1, <2>3 DEF GainIsVerified
<1>6. CASE SampleSuccess
  BY <1>3, <1>6 DEF SampleSuccess, FinishSampleSuccess
<1>7. CASE Admit \/ TakeJobResult \/ UNCHANGED <<driverVars, reached>>
  BY <1>1, <1>3, <1>7, AdmitFacts DEF TakeJobResult, driverVars, TypeInv
<1> QED BY <1>1, <1>2, <1>4, <1>5, <1>6, <1>7, StepCases DEF PollCase

(* A family becomes APPLIED only with the SUCCEEDED result of a profile or *)
(* power-down job, and only when all its registers hold the new profile.   *)
THEOREM CertaintyCorrect == Spec => CertaintyOnlyByVerification
<1>1. OwnerIInv /\ OwnerIInv' /\ [Next]_vars => [GainIsVerified]_vars
  BY GainStep
<1>2. Spec => [][GainIsVerified]_vars
  BY <1>1, OwnerInvariant, PTL DEF Spec
<1> QED BY <1>2 DEF CertaintyOnlyByVerification, GainIsVerified

(* Every step of the job machinery is a step of the owner's contract, or   *)
(* none that the owner can see.                                            *)
LEMMA ContractStep ==
  ASSUME OwnerIInv, OwnerIInv', [Next]_vars
  PROVE  [Contract!ContractNext]_(Contract!contractVars)
<1> USE DEF Contract!ContractNext, Contract!contractVars, Phase
<1>1. /\ TypeInv /\ PowerDownIsMarked /\ SlotIsBlocked /\ WritesAreKnown
      /\ EffectIsHonest' /\ reached' \in BOOLEAN
  BY DEF OwnerIInv, AppliedInv, KnownWrites, TypeInv, TypeOK
<1>2. CASE Unbind \/ (\E p \in Candidates : Bind(p)) \/ TakeJobResult
  BY <1>2
     DEF Unbind, Bind, Unbound, TakeJobResult, IdleJob, NoResult, Contract!Release
<1>3. CASE Admit
  <2>1. /\ ~hasResult /\ hasResult' = hasResult /\ result' = result
        /\ job.state # "ACTIVE" /\ job'.state = "ACTIVE"
        /\ job'.requestId \in RequestIds /\ reached' = FALSE
    BY <1>1, <1>3, AdmitFacts DEF TypeInv
  <2> QED BY <2>1 DEF Contract!Accept
<1>4. ASSUME JobGoesOn PROVE Contract!Touch \/ UNCHANGED Contract!contractVars
  BY <1>1, <1>4 DEF JobGoesOn, SlotIsBlocked, Contract!Touch
<1>5. ASSUME JobEnds PROVE Contract!Conclude
  <2>1. hasResult = FALSE /\ hasResult' = TRUE
    BY <1>1, <1>5 DEF JobEnds, SlotIsBlocked, TypeInv, TypeOK
  <2>2. result'.effect \in HardwareEffect /\ Contract!Honest(result'.effect, reached')
    BY <1>1, <1>5, <2>1 DEF JobEnds, EffectIsHonest, Contract!Honest
  <2> QED BY <1>5, <2>1, <2>2 DEF JobEnds, HardwareEffect, Contract!Conclude
<1>6. CASE PollCase
  BY <1>4, <1>5, <1>6 DEF PollCase, MarkingStep, ProfileSuccess, SampleSuccess
<1>7. CASE UNCHANGED <<driverVars, reached>>
  BY <1>7 DEF driverVars
<1> QED BY <1>1, <1>2, <1>3, <1>6, <1>7, StepCases

(* The job slot implements the owner's contract: one result per admitted   *)
(* request, with its identity and an honest effect, blocking the slot      *)
(* until it is taken.                                                      *)
THEOREM ContractCorrect == Spec => ImplementsContract
<1>1. Init => Contract!ContractInit
  BY DEF Init, IdleJob, NoResult, Phase, Contract!ContractInit
<1>2. OwnerIInv /\ OwnerIInv' /\ [Next]_vars =>
        [Contract!ContractNext]_(Contract!contractVars)
  BY ContractStep
<1> QED BY <1>1, <1>2, OwnerInvariant, PTL DEF Spec, ImplementsContract, Contract!ContractSpec

-----------------------------------------------------------------------------
(* The legacy calls mixed with the owner API *)

CallType ==
  [step : Step, index : ManagedIndex, candidate : DeviceProfile,
   renew : BOOLEAN, prior : Certainty]

ViewType == [config : ConfigValue, calibration : Calibrations]

(* LegacyTypeOK beyond OwnerJobs' TypeOK. *)
LegacyTypes ==
  /\ call \in CallType
  /\ view \in ViewType
  /\ conversion \in Conversion
  /\ adc \in Adc

(* The invariant of the calls and of the conversion. *)
LegacyPart ==
  CallIsPrepared /\ WrittenIsUnclaimed /\ ConversionIsTriggered /\ ViewAgrees
    /\ ReadinessIsAccounted

LegacyIInv == OwnerIInv /\ LegacyTypes /\ LegacyPart

(* The parts of the owner's invariant. *)
LEMMA OwnerTypes ==
  ASSUME OwnerIInv
  PROVE  TypeInv /\ TypeOK /\ PowerDownIsMarked /\ AppliedIsTrue /\ DirtyFlagAgrees
  BY DEF OwnerIInv, AppliedInv, TypeInv

(* A raw value written to a register keeps an image an image. *)
LEMMA WriteValueType ==
  ASSUME NEW p, NEW i \in ManagedIndex, NEW v,
         IF i = 0 THEN v \in ConfigValue ELSE v \in Limits
  PROVE  /\ p \in RegisterImage => WithRegister(p, i, v) \in RegisterImage
         /\ p \in DeviceProfile => /\ WithRegister(p, i, v) \in DeviceProfile
                                   /\ WithRegister(p, i, v).calibration = p.calibration
<1>1. CASE i = 0
  BY <1>1 DEF WithRegister, RegisterImage, DeviceProfile
<1>2. CASE i # 0
  <2>1. HasRegisters(p) => [p.alerts EXCEPT ![i] = v] \in [AlertIndex -> Limits]
    BY <1>2 DEF HasRegisters, RegisterImage, DeviceProfile
  <2> QED BY <1>2, <2>1 DEF WithRegister, HasRegisters, RegisterImage, DeviceProfile
<1> QED BY <1>1, <1>2

(* A register of a profile has a value that can be written to it. *)
LEMMA ValueTypes ==
  ASSUME NEW p \in DeviceProfile, NEW i \in ManagedIndex
  PROVE  IF i = 0 THEN DesiredRegister(p, i) \in ConfigValue
         ELSE DesiredRegister(p, i) \in Limits
  BY IndexSplit DEF DesiredRegister, DeviceProfile

(* No call, and no certainty, have their types. *)
LEMMA NoCallType == NoCall \in CallType /\ UnknownCertainty \in Certainty
  BY DefaultProfileType, IndexType
     DEF NoCall, CallType, Step, UnknownCertainty, Certainty, AppliedConfigState

(* The view of a profile shows the profile. *)
LEMMA ViewOfType ==
  ASSUME NEW p \in DeviceProfile
  PROVE  /\ ViewOf(p) \in ViewType
         /\ ViewOf(p).config = p.config /\ ViewOf(p).calibration = p.calibration
  BY DEF ViewOf, ViewType, DeviceProfile

-----------------------------------------------------------------------------
(* What a legacy step keeps of the owner's invariant *)

(* What OwnerJobs says of an active job, of a pending result and of the    *)
(* last sample's age is not about a legacy step.                           *)
LEMMA OffJob ==
  ASSUME OwnerIInv, job.state # "ACTIVE", OwnerFrame, TypeOK', AppliedIsTrue',
         DirtyFlagAgrees', SampleIsNotAhead', SampleMatchesGeneration'
  PROVE  OwnerIInv'
<1>1. UNCHANGED <<job, hasResult, result, reached>>
  BY DEF OwnerFrame
<1>2. /\ JobShape' /\ PassedRegistersMatch' /\ WrittenIsMarked' /\ PowerDownIsMarked'
      /\ SampleJobUnderVerifiedConfig'
  BY <1>1
     DEF JobShape, PassedRegistersMatch, WrittenIsMarked, PowerDownIsMarked,
         SampleJobUnderVerifiedConfig
<1>3. KnownWrites'
  BY <1>1 DEF OwnerIInv, KnownWrites, SlotIsBlocked, WritesAreKnown, EffectIsHonest
<1> QED BY <1>2, <1>3 DEF OwnerIInv, AppliedInv, TypeInv, SampleInv

(* Marks alone keep the dirty flag in agreement. *)
LEMMA MarksKeepDirty ==
  ASSUME DirtyFlagAgrees, Marked(certainty', certainty), initialized' = initialized
  PROVE  DirtyFlagAgrees'
  BY DEF Marked, DirtyFlagAgrees

(* Marks alone claim no measurement. *)
LEMMA MarksKeepMeasurement ==
  ASSUME Marked(certainty', certainty)
  PROVE  certainty'.measurement = "APPLIED" => certainty.measurement = "APPLIED"
<1>1. FamilyState(certainty', 0) = "APPLIED" => FamilyState(certainty, 0) = "APPLIED"
  BY IndexType DEF Marked, NoNewClaim
<1> QED BY <1>1 DEF FamilyState

(* A view and a profile that stay agree as they did. *)
LEMMA ViewStays ==
  ASSUME ViewAgrees, UNCHANGED <<bound, profile, view>>,
         certainty'.measurement = "APPLIED" => certainty.measurement = "APPLIED"
  PROVE  ViewAgrees'
  BY DEF ViewAgrees

(* A step that marks and keeps the profile and its generation. *)
LEMMA MarkingCall ==
  ASSUME OwnerIInv, job.state # "ACTIVE", OwnerFrame, UNCHANGED <<profile, generation>>,
         Marked(certainty', certainty), device' \in RegisterImage,
         disturbed' \in SUBSET ManagedIndex, AppliedIsTrue'
  PROVE  OwnerIInv'
<1>1. TypeOK'
  BY OwnerTypes DEF OwnerFrame, TypeOK, Marked
<1>2. DirtyFlagAgrees'
  BY OwnerTypes, MarksKeepDirty DEF OwnerFrame
<1>3. SampleIsNotAhead' /\ SampleMatchesGeneration'
  BY DEF OwnerIInv, SampleInv, OwnerFrame, SampleIsNotAhead, SampleMatchesGeneration
<1> QED BY <1>1, <1>2, <1>3, OffJob

(* A callback that writes a register of a family it does not leave APPLIED. *)
LEMMA WriteClaims ==
  ASSUME TypeOK, AppliedIsTrue, NEW i \in ManagedIndex, NEW v, NEW landed,
         RegisterWrite(i, v, landed), profile' = profile, Marked(certainty', certainty),
         landed => FamilyState(certainty', i) # "APPLIED"
  PROVE  AppliedIsTrue'
<1>1. CASE ~landed
  <2>1. device' = device /\ disturbed' = disturbed
    BY <1>1 DEF RegisterWrite
  <2> QED BY <2>1, QuietStep DEF Marked
<1>2. CASE landed
  <2>1. /\ device' = WithRegister(device, i, v) /\ disturbed' = disturbed \ {i}
        /\ device \in RegisterImage
    BY <1>2 DEF RegisterWrite, TypeOK
  <2>2. ASSUME NEW j \in ManagedIndex, FamilyState(certainty', j) = "APPLIED"
        PROVE  HoldsRetained(j)'
    <3>1. i # j
      BY <1>2, <2>2
    <3>2. DesiredRegister(device', j) = DesiredRegister(device, j)
      BY <2>1, <3>1, WithRegisterOther DEF HasRegisters
    <3>3. HoldsRetained(j)
      BY <2>2 DEF AppliedIsTrue, Marked, NoNewClaim
    <3> QED BY <2>1, <3>1, <3>2, <3>3 DEF HoldsRetained, RegisterMatches
  <2> QED BY <2>2 DEF AppliedIsTrue
<1> QED BY <1>1, <1>2

(* The certainty after a write callback that was not accepted. *)
LEMMA OutcomeMarks ==
  ASSUME TypeOK, NEW i \in ManagedIndex, NEW o \in WriteOutcome, NEW c,
         c = IF MayHaveReached(o.code) THEN MarkUnknown(certainty, i) ELSE certainty
  PROVE  /\ Marked(c, certainty)
         /\ o.landed => MayHaveReached(o.code)
         /\ MayHaveReached(o.code) => FamilyState(c, i) # "APPLIED"
<1>1. certainty \in Certainty
  BY DEF TypeOK
<1>2. o.landed => o.code # "I2C_NACK_ADDR"
  BY DEF WriteOutcome
<1>3. /\ Marked(c, certainty)
      /\ MayHaveReached(o.code) => FamilyState(c, i) # "APPLIED"
  BY <1>1, MarksAreMarks, MarkFacts
<1> QED BY <1>2, <1>3 DEF MayHaveReached

-----------------------------------------------------------------------------
(* Owner steps *)

(* Only an active job is polled or cancelled. *)
LEMMA PollIsOfActiveJob ==
  ASSUME OwnerIInv, Poll \/ CancelJob
  PROVE  job.state = "ACTIVE"
<1>1. CASE Poll
  BY <1>1, OwnerTypes, PollCases
     DEF PollCase, MarkingStep, JobGoesOn, ProfileSuccess, SampleSuccess, JobEnds
<1>2. CASE CancelJob
  BY <1>2 DEF CancelJob
<1> QED BY <1>1, <1>2

(* Without a call and without a conversion nothing else has to be shown but *)
(* that the view agrees.                                                    *)
LEMMA QuietPart ==
  ASSUME call'.step = "NONE", conversion' = "NONE", ViewAgrees'
  PROVE  LegacyPart'
  BY DEF LegacyPart, CallIsPrepared, WrittenIsUnclaimed, ConversionIsTriggered,
         ReadinessIsAccounted

(* A step of the owner's API, between two calls of the legacy one. *)
LEMMA OwnerStepKeeps ==
  ASSUME LegacyIInv, OwnerStep
  PROVE  LegacyIInv'
<1>1. /\ OwnerIInv /\ LegacyTypes /\ ConversionIsTriggered /\ ViewAgrees
      /\ ReadinessIsAccounted
  BY DEF LegacyIInv, LegacyPart
<1>2. OwnerIInv'
  <2>1. Next
    BY DEF OwnerStep, OwnerUnbind, OwnerBind, OwnerAdmit, OwnerPoll, Next
  <2> QED BY <1>1, <2>1, OwnerInvStep
<1>3. call.step = "NONE" /\ call' = call
  BY DEF OwnerStep, OwnerUnbind, OwnerBind, OwnerAdmit, OwnerPoll, NoCall, legacyVars
<1>4. CASE OwnerUnbind \/ \E p \in Candidates : OwnerBind(p)
  <2>1. /\ certainty' = UnknownCertainty /\ conversion' = "NONE" /\ adc' = "NONE"
        /\ \E p \in DeviceProfile : view' = ViewOf(p) /\ (bound' = TRUE => profile' = p)
    BY <1>4, DefaultProfileType, OwnerJobsAssumption
       DEF OwnerUnbind, Unbind, OwnerBind, Bind, Unbound
  <2>2. LegacyTypes'
    BY <1>1, <1>3, <2>1, ViewOfType DEF LegacyTypes, Conversion, Adc
  <2>3. ViewAgrees'
    <3>1. bound' \in BOOLEAN
      BY <1>2, OwnerTypes DEF OwnerIInv, AppliedInv, TypeInv, TypeOK
    <3> QED BY <2>1, <3>1, ViewOfType DEF ViewAgrees, UnknownCertainty
  <2> QED BY <1>2, <1>3, <2>1, <2>2, <2>3, QuietPart DEF LegacyIInv
<1>5. CASE OwnerAdmit
  <2>1. /\ conversion' = "NONE" /\ adc' = "NONE" /\ view' = view
        /\ UNCHANGED <<bound, profile, certainty>>
    BY <1>1, <1>5, AdmitFacts, OwnerTypes DEF OwnerAdmit, TakeOver, Retained
  <2>2. LegacyTypes'
    BY <1>1, <1>3, <2>1 DEF LegacyTypes, Conversion, Adc
  <2>3. ViewAgrees'
    BY <1>1, <2>1, ViewStays
  <2> QED BY <1>2, <1>3, <2>1, <2>2, <2>3, QuietPart DEF LegacyIInv
<1>6. CASE OwnerPoll
  <2>1. conversion' = "NONE" /\ adc' = adc
    BY <1>1, <1>6, PollIsOfActiveJob DEF OwnerPoll, ConversionIsTriggered
  <2>2. PollCase
    BY <1>1, <1>6, OwnerTypes, PollCases DEF OwnerPoll
  <2>3. view' = ViewOf(profile') \/ (view' = view /\ ~ProfileSuccess)
    BY <1>6 DEF OwnerPoll, ProfileSuccess
  <2>a. profile' \in DeviceProfile
    BY <1>2, OwnerTypes DEF OwnerIInv, AppliedInv, TypeInv, TypeOK
  <2>4. ViewAgrees'
    <3>1. CASE view' = ViewOf(profile')
      BY <2>a, <3>1, ViewOfType DEF ViewAgrees
    <3>2. CASE view' = view /\ MarkingStep
      BY <1>1, <3>2, MarksKeepMeasurement, ViewStays DEF MarkingStep, Retained
    <3>3. CASE view' = view /\ SampleSuccess
      BY <1>1, <3>3, ViewStays DEF SampleSuccess, FinishSampleSuccess
    <3> QED BY <2>2, <2>3, <3>1, <3>2, <3>3 DEF PollCase
  <2>5. LegacyTypes'
    <3>1. view' \in ViewType
      BY <1>1, <2>3, <2>a, ViewOfType DEF LegacyTypes
    <3> QED BY <1>1, <1>3, <2>1, <3>1 DEF LegacyTypes, Conversion
  <2> QED BY <1>2, <1>3, <2>1, <2>4, <2>5, QuietPart DEF LegacyIInv
<1>7. CASE CancelJob /\ UNCHANGED legacyVars
  <2>1. conversion' = "NONE"
    BY <1>1, <1>7, PollIsOfActiveJob DEF ConversionIsTriggered, legacyVars
  <2>2. ViewAgrees'
    <3>1. certainty'.measurement = "APPLIED" => certainty.measurement = "APPLIED"
      BY <1>1, <1>7, OwnerTypes DEF CancelJob, Certainty, TypeOK
    <3> QED BY <1>1, <1>7, <3>1, ViewStays DEF CancelJob, legacyVars
  <2>3. LegacyTypes'
    BY <1>1, <1>7 DEF LegacyTypes, legacyVars
  <2> QED BY <1>2, <1>3, <2>1, <2>2, <2>3, QuietPart DEF LegacyIInv
<1>8. CASE TakeJobResult /\ UNCHANGED legacyVars
  <2>1. LegacyTypes'
    BY <1>1, <1>8 DEF LegacyTypes, legacyVars
  <2>2. ViewAgrees' /\ ReadinessIsAccounted' /\ ConversionIsTriggered'
    BY <1>1, <1>8 DEF TakeJobResult, IdleJob, legacyVars, ViewAgrees,
                      ReadinessIsAccounted, ConversionIsTriggered
  <2>3. CallIsPrepared' /\ WrittenIsUnclaimed'
    BY <1>3 DEF CallIsPrepared, WrittenIsUnclaimed
  <2> QED BY <1>2, <2>1, <2>2, <2>3 DEF LegacyIInv, LegacyPart
<1> QED BY <1>4, <1>5, <1>6, <1>7, <1>8 DEF OwnerStep

-----------------------------------------------------------------------------
(* Steps that leave the owner's state alone *)

(* The parts of the invariant. *)
LEMMA InvParts ==
  ASSUME LegacyIInv
  PROVE  /\ OwnerIInv /\ TypeOK /\ AppliedIsTrue /\ DirtyFlagAgrees
         /\ certainty \in Certainty /\ profile \in DeviceProfile /\ device \in RegisterImage
         /\ disturbed \in SUBSET ManagedIndex
         /\ call \in CallType /\ view \in ViewType /\ conversion \in Conversion
         /\ adc \in Adc
         /\ CallIsPrepared /\ WrittenIsUnclaimed /\ ConversionIsTriggered /\ ViewAgrees
         /\ ReadinessIsAccounted
  BY OwnerTypes DEF LegacyIInv, LegacyTypes, LegacyPart, TypeOK

(* A verified write begins with a candidate that differs from the profile  *)
(* in the register it writes.                                              *)
LEMMA BeginWriteKeeps ==
  ASSUME LegacyIInv, NEW i \in ManagedIndex, NEW candidate \in DeviceProfile,
         NEW renew \in BOOLEAN, BeginWrite(i, candidate, renew),
         \A j \in ManagedIndex : j # i => RegisterMatches(candidate, profile, j),
         candidate.calibration = profile.calibration,
         ~renew => candidate = profile
  PROVE  LegacyIInv'
<1>1. UNCHANGED <<vars, view, conversion, adc>>
  BY DEF BeginWrite
<1>2. OwnerIInv'
  BY <1>1, OwnerInvStep, InvParts
<1>3. /\ call' \in CallType /\ call'.step \in {"OBSERVE", "WRITE"}
      /\ call'.index = i /\ call'.candidate = candidate /\ call'.renew = renew
  BY NoCallType DEF BeginWrite, CallType, Step
<1>4. /\ UNCHANGED <<bound, device, disturbed, certainty, profile, job, initialized>>
      /\ job.state # "ACTIVE" /\ initialized /\ call.step = "NONE"
  BY <1>1 DEF vars, driverVars, ghostVars, BeginWrite, CanCall, NoCall
<1>5. CallIsPrepared' /\ WrittenIsUnclaimed'
  BY <1>3, <1>4 DEF CallIsPrepared, WrittenIsUnclaimed, RegisterMatches, DesiredRegister
<1>6. ConversionIsTriggered' /\ ViewAgrees' /\ ReadinessIsAccounted'
  BY <1>1, <1>4, InvParts, ViewStays DEF ConversionIsTriggered, ReadinessIsAccounted
<1>7. LegacyTypes'
  BY <1>1, <1>3, InvParts DEF LegacyTypes
<1> QED BY <1>2, <1>5, <1>6, <1>7 DEF LegacyIInv, LegacyPart

(* A new configuration changes its own register. *)
LEMMA ConfigCandidate ==
  ASSUME NEW p \in DeviceProfile, NEW v \in ConfigValue
  PROVE  /\ [p EXCEPT !.config = v] \in DeviceProfile
         /\ [p EXCEPT !.config = v].calibration = p.calibration
         /\ \A j \in ManagedIndex :
              j # 0 => RegisterMatches([p EXCEPT !.config = v], p, j)
  BY DEF DeviceProfile, RegisterMatches, DesiredRegister

(* A new limit changes its own register. *)
LEMMA AlertCandidate ==
  ASSUME NEW p \in DeviceProfile, NEW i \in AlertIndex, NEW v \in Limits
  PROVE  /\ i \in ManagedIndex /\ i # 0
         /\ WithRegister(p, i, v) \in DeviceProfile
         /\ WithRegister(p, i, v).calibration = p.calibration
         /\ \A j \in ManagedIndex : j # i => RegisterMatches(WithRegister(p, i, v), p, j)
<1>1. i \in ManagedIndex /\ i # 0
  BY ManagedRegistersAssumption DEF AlertIndex, ManagedIndex
<1> QED BY <1>1, WriteValueType, WithRegisterOther DEF RegisterMatches, HasRegisters

(* The setters and the triggers begin such a write. *)
LEMMA BeginsKeep ==
  ASSUME LegacyIInv,
         \/ StartConversion
         \/ \E mode \in Mode : StartConversionIn(mode)
         \/ \E v \in ConfigValue : SetConfig(v)
         \/ \E i \in AlertIndex, v \in Limits : SetLimit(i, v)
         \/ \E v \in Limits : SetMaskEnable(v)
  PROVE  LegacyIInv'
<1>a. profile \in DeviceProfile /\ 0 \in ManagedIndex /\ profile.config \in ConfigValue
  BY InvParts, IndexType DEF DeviceProfile
<1>1. CASE StartConversion
  BY <1>1, <1>a, BeginWriteKeeps DEF StartConversion, RegisterMatches
<1>2. ASSUME NEW v \in ConfigValue, BeginWrite(0, [profile EXCEPT !.config = v], TRUE)
      PROVE  LegacyIInv'
  BY <1>2, <1>a, ConfigCandidate, BeginWriteKeeps
<1>3. ASSUME NEW mode \in Mode, StartConversionIn(mode) PROVE LegacyIInv'
  <2> DEFINE v == [profile.config EXCEPT !.mode = mode]
  <2>1. v \in ConfigValue
    BY <1>a DEF ConfigValue
  <2>2. [profile EXCEPT !.config.mode = mode] = [profile EXCEPT !.config = v]
    OBVIOUS
  <2>3. BeginWrite(0, [profile EXCEPT !.config = v], TRUE)
    BY <1>3, <2>2 DEF StartConversionIn
  <2> HIDE DEF v
  <2> QED BY <1>2, <2>1, <2>3
<1>4. ASSUME NEW i \in AlertIndex, NEW v \in Limits,
             BeginWrite(i, WithRegister(profile, i, v), TRUE)
      PROVE  LegacyIInv'
  <2>1. /\ i \in ManagedIndex /\ WithRegister(profile, i, v) \in DeviceProfile
        /\ WithRegister(profile, i, v).calibration = profile.calibration
        /\ \A j \in ManagedIndex : j # i => RegisterMatches(WithRegister(profile, i, v), profile, j)
    BY <1>a, AlertCandidate
  <2> QED BY <1>4, <2>1, BeginWriteKeeps
<1> QED
  BY <1>1, <1>2, <1>3, <1>4, LegacyApiAssumption DEF SetConfig, SetLimit, SetMaskEnable

(* What a read of Mask/Enable does to the conversion, however it ends. *)
MaskRead == MaskAnswered \/ \E outcome \in ReadOutcome : MaskUnanswered(outcome)

(* A read of Mask/Enable keeps the account of the conversion. *)
LEMMA MaskReadKeeps ==
  ASSUME conversion \in Conversion, adc \in Adc, MaskRead
  PROVE  /\ conversion' \in Conversion /\ adc' \in Adc
         /\ conversion' # "NONE" => conversion # "NONE"
         /\ (\/ conversion = "READY" /\ adc = "SHOWN"
             \/ conversion = "STARTED" /\ adc \in {"RUNNING", "FLAGGED", "LOST"})
            => (\/ conversion' = "READY" /\ adc' = "SHOWN"
                \/ conversion' = "STARTED" /\ adc' \in {"RUNNING", "FLAGGED", "LOST"})
  BY DEF MaskRead, MaskAnswered, Handoff, MaskUnanswered, Conversion, Adc

(* ConversionEnds, a legacy read of Mask/Enable and CancelConversion. *)
LEMMA SilentKeeps ==
  ASSUME LegacyIInv,
         \/ ConversionEnds
         \/ \E outcome \in ReadOutcome : ReadMaskEnable(outcome)
         \/ CancelConversion
         \/ UNCHANGED allVars
  PROVE  LegacyIInv'
<1>1. UNCHANGED <<vars, call, view>>
  BY DEF ConversionEnds, ReadMaskEnable, CancelConversion, allVars, legacyVars
<1>2. OwnerIInv'
  BY <1>1, OwnerInvStep, InvParts
<1>3. UNCHANGED <<bound, device, disturbed, certainty, profile, job, initialized, call, view>>
  BY <1>1 DEF vars, driverVars, ghostVars
<1>4. CallIsPrepared' /\ ViewAgrees'
  BY <1>3, InvParts, ViewStays DEF CallIsPrepared, RegisterMatches, DesiredRegister
<1>5. \/ ConversionEnds
      \/ MaskRead /\ call.step = "NONE"
      \/ CancelConversion
      \/ UNCHANGED allVars
  BY DEF ReadMaskEnable, MaskRead, CanCall, NoCall, ReadOutcome
<1>6. WrittenIsUnclaimed'
  BY <1>3, <1>5, InvParts
     DEF WrittenIsUnclaimed, HoldsRetained, RegisterMatches, DesiredRegister, FamilyState,
         ConversionEnds, CancelConversion, NoCall, allVars, legacyVars
<1>7. conversion' \in Conversion /\ adc' \in Adc
  BY <1>5, MaskReadKeeps, InvParts
     DEF ConversionEnds, CancelConversion, Conversion, Adc, allVars, legacyVars
<1>8. ConversionIsTriggered' /\ ReadinessIsAccounted'
  <2>1. CASE ConversionEnds \/ CancelConversion \/ UNCHANGED allVars
    BY <1>3, <2>1, InvParts
       DEF ConversionEnds, CancelConversion, ConversionIsTriggered, ReadinessIsAccounted,
           allVars, legacyVars
  <2>2. CASE MaskRead
    BY <1>3, <2>2, InvParts, MaskReadKeeps DEF ConversionIsTriggered, ReadinessIsAccounted
  <2> QED BY <1>5, <2>1, <2>2
<1>9. LegacyTypes'
  BY <1>3, <1>7, InvParts DEF LegacyTypes
<1> QED BY <1>2, <1>4, <1>6, <1>8, <1>9 DEF LegacyIInv, LegacyPart

(* A power cycle disturbs every register whose value it changes. *)
LEMMA PowerCycleKeeps == ASSUME LegacyIInv, PowerCycle PROVE LegacyIInv'
<1>1. /\ OwnerIInv' /\ UNCHANGED <<bound, certainty, profile, job, initialized, call, view, conversion>>
      /\ device' = ResetImage /\ adc' = "NONE"
      /\ disturbed' = disturbed \union
           {i \in ManagedIndex : ~RegisterMatches(device, ResetImage, i)}
  BY OwnerInvStep, InvParts DEF PowerCycle, DeviceReset, driverVars, Next
<1>2. \A i \in ManagedIndex : HoldsRetained(i) => HoldsRetained(i)'
  BY <1>1 DEF HoldsRetained, RegisterMatches, DesiredRegister
<1>3. /\ ~isTriggeredMode(device'.config.mode)
      /\ isTriggeredMode(device.config.mode) => 0 \in disturbed'
  BY <1>1, IndexType DEF ResetImage, isTriggeredMode, RegisterMatches, DesiredRegister
<1>4. CallIsPrepared' /\ ViewAgrees'
  BY <1>1, InvParts, ViewStays DEF CallIsPrepared, RegisterMatches, DesiredRegister
<1>5. WrittenIsUnclaimed'
  <2>1. \A i \in AlertIndex : i \in ManagedIndex
    BY DEF AlertIndex, ManagedIndex
  <2> QED BY <1>1, <1>2, <1>3, <2>1, InvParts DEF WrittenIsUnclaimed, FamilyState
<1>6. ConversionIsTriggered' /\ ReadinessIsAccounted'
  BY <1>1, <1>3, InvParts DEF ConversionIsTriggered, ReadinessIsAccounted
<1>7. LegacyTypes'
  BY <1>1, InvParts DEF LegacyTypes, Adc
<1> QED BY <1>1, <1>4, <1>5, <1>6, <1>7 DEF LegacyIInv, LegacyPart

-----------------------------------------------------------------------------
(* Steps of a verified write *)

(* While a call runs, no job does. *)
LEMMA CallFacts ==
  ASSUME LegacyIInv, call.step # "NONE"
  PROVE  /\ job.state # "ACTIVE" /\ initialized
         /\ call.index \in ManagedIndex /\ call.candidate \in DeviceProfile
         /\ call.prior \in Certainty /\ call.renew \in BOOLEAN
  BY InvParts DEF CallIsPrepared, CallType

(* Giving a call up with marks: nothing is prepared or unclaimed any more. *)
LEMMA GiveUpPart ==
  ASSUME LegacyIInv, call' = NoCall, UNCHANGED <<bound, profile, view>>,
         Marked(certainty', certainty)
  PROVE  CallIsPrepared' /\ WrittenIsUnclaimed' /\ ViewAgrees'
<1>1. ViewAgrees'
  BY InvParts, MarksKeepMeasurement, ViewStays
<1> QED BY <1>1 DEF NoCall, CallIsPrepared, WrittenIsUnclaimed

(* The observation of Mask/Enable before a write. *)
LEMMA ObserveKeeps ==
  ASSUME LegacyIInv, NEW outcome \in ReadOutcome, Observe(outcome)
  PROVE  LegacyIInv'
<1>a. /\ job.state # "ACTIVE" /\ call.step = "OBSERVE" /\ OwnerFrame
      /\ MaskIndex \in ManagedIndex /\ MaskIndex # 0
      /\ UNCHANGED <<profile, generation, device, view>>
  BY CallFacts, LegacyApiAssumption, ManagedRegistersAssumption
     DEF Observe, AlertIndex, ManagedIndex
<1>1. /\ Marked(certainty', certainty) /\ AppliedIsTrue'
      /\ disturbed' \in SUBSET ManagedIndex /\ (0 \in disturbed => 0 \in disturbed')
      /\ \/ call' = NoCall
         \/ call' = [call EXCEPT !.step = "WRITE"]
      /\ MaskRead
  <2>1. CASE outcome = "OK"
    <3>1. /\ certainty' = AfterComparison(MaskIndex) /\ disturbed' = disturbed \ {MaskIndex}
          /\ call' = [call EXCEPT !.step = "WRITE"] /\ MaskRead
      BY <2>1 DEF Observe, MaskRead
    <3>2. Marked(certainty', certainty)
      BY <1>a, <3>1, ComparisonMarks, InvParts
    <3>3. FamilyState(certainty', MaskIndex) = "APPLIED" =>
            RegisterMatches(device, profile, MaskIndex)
      BY <1>a, <3>1, ComparisonFacts, InvParts
    <3>4. AppliedIsTrue'
      BY <1>a, <3>1, <3>2, <3>3, QuietStep, InvParts DEF Marked
    <3> QED BY <1>a, <3>1, <3>2, <3>4, InvParts
  <2>2. CASE outcome # "OK"
    <3>1. /\ UNCHANGED <<certainty, disturbed>> /\ call' = NoCall /\ MaskRead
      BY <2>2 DEF Observe, MaskRead
    <3>2. Marked(certainty', certainty) /\ AppliedIsTrue'
      BY <1>a, <3>1, MarksAreMarks, SameClaims, InvParts
    <3> QED BY <3>1, <3>2, InvParts
  <2> QED BY <2>1, <2>2
<1>2. OwnerIInv'
  BY <1>a, <1>1, MarkingCall, InvParts
<1>3. CallIsPrepared' /\ WrittenIsUnclaimed' /\ ViewAgrees' /\ call' \in CallType
      /\ call'.step # "VERIFY"
  <2>1. CASE call' = NoCall
    BY <1>a, <1>1, <2>1, GiveUpPart, NoCallType DEF NoCall, OwnerFrame
  <2>2. CASE call' = [call EXCEPT !.step = "WRITE"]
    <3>1. /\ call' \in CallType /\ call'.step = "WRITE" /\ call'.index = call.index
          /\ call'.candidate = call.candidate /\ call'.renew = call.renew
      BY <2>2, InvParts DEF CallType, Step
    <3>2. CallIsPrepared'
      BY <1>a, <3>1, InvParts
         DEF CallIsPrepared, OwnerFrame, RegisterMatches, DesiredRegister
    <3>3. ViewAgrees'
      BY <1>a, <1>1, InvParts, MarksKeepMeasurement, ViewStays DEF OwnerFrame
    <3> QED BY <3>1, <3>2, <3>3 DEF WrittenIsUnclaimed
  <2> QED BY <1>1, <2>1, <2>2
<1>4. ConversionIsTriggered' /\ ReadinessIsAccounted'
  BY <1>a, <1>1, MaskReadKeeps, InvParts
     DEF OwnerFrame, ConversionIsTriggered, ReadinessIsAccounted
<1>5. LegacyTypes'
  BY <1>a, <1>1, <1>3, MaskReadKeeps, InvParts DEF LegacyTypes
<1> QED BY <1>2, <1>3, <1>4, <1>5 DEF LegacyIInv, LegacyPart

(* What a write callback does to the registers and the conversion. *)
LEMMA RegisterWriteFacts ==
  ASSUME LegacyIInv, NEW i \in ManagedIndex, NEW v, NEW landed,
         IF i = 0 THEN v \in ConfigValue ELSE v \in Limits, RegisterWrite(i, v, landed)
  PROVE  /\ device' \in RegisterImage /\ disturbed' \in SUBSET ManagedIndex /\ adc' \in Adc
         /\ landed /\ i = 0 => device'.config = v /\ (isTriggeredMode(v.mode) => adc' = "RUNNING")
         /\ ~landed => UNCHANGED <<device, disturbed, adc>>
         /\ i # 0 => /\ device'.config = device.config /\ adc' = adc
                     /\ 0 \in disturbed => 0 \in disturbed'
         /\ \A j \in ManagedIndex : j # i => (HoldsRetained(j) /\ profile' = profile => HoldsRetained(j)')
<1>1. /\ device' \in RegisterImage /\ disturbed' \in SUBSET ManagedIndex /\ adc' \in Adc
  BY InvParts, WriteValueType DEF RegisterWrite, Adc
<1>2. /\ landed /\ i = 0 => device'.config = v /\ (isTriggeredMode(v.mode) => adc' = "RUNNING")
      /\ ~landed => UNCHANGED <<device, disturbed, adc>>
  BY InvParts DEF RegisterWrite, WithRegister, RegisterImage
<1>3. i # 0 => /\ device'.config = device.config /\ adc' = adc
               /\ 0 \in disturbed => 0 \in disturbed'
  BY InvParts DEF RegisterWrite, WithRegister, RegisterImage
<1>4. ASSUME NEW j \in ManagedIndex, j # i, HoldsRetained(j), profile' = profile
      PROVE  HoldsRetained(j)'
  <2>1. DesiredRegister(device', j) = DesiredRegister(device, j)
    BY <1>4, InvParts, WithRegisterOther DEF RegisterWrite, HasRegisters
  <2> QED BY <1>4, <2>1 DEF RegisterWrite, HoldsRetained, RegisterMatches
<1> QED BY <1>1, <1>2, <1>3, <1>4

(* The write: from here on the register is claimed by nobody. *)
LEMMA WriteDesiredKeeps ==
  ASSUME LegacyIInv, NEW o \in WriteOutcome, WriteDesired(o)
  PROVE  LegacyIInv'
<1> DEFINE i == call.index
           v == DesiredRegister(call.candidate, i)
<1>a. /\ job.state # "ACTIVE" /\ initialized /\ OwnerFrame /\ call.step = "WRITE"
      /\ UNCHANGED <<profile, generation, view>>
      /\ i \in ManagedIndex /\ RegisterWrite(i, v, o.landed)
      /\ IF i = 0 THEN v \in ConfigValue ELSE v \in Limits
      /\ CallIsPrepared /\ call \in CallType
  BY CallFacts, ValueTypes, InvParts DEF WriteDesired
<1>b. /\ device' \in RegisterImage /\ disturbed' \in SUBSET ManagedIndex /\ adc' \in Adc
      /\ o.landed /\ i = 0 =>
           device'.config = v /\ (isTriggeredMode(v.mode) => adc' = "RUNNING")
      /\ ~o.landed => UNCHANGED <<device, disturbed, adc>>
      /\ i # 0 => /\ device'.config = device.config /\ adc' = adc
                  /\ 0 \in disturbed => 0 \in disturbed'
      /\ \A j \in ManagedIndex : j # i => (HoldsRetained(j) => HoldsRetained(j)')
  <2> HIDE DEF v, i
  <2> QED BY <1>a, RegisterWriteFacts
<1>1. /\ Marked(certainty', certainty)
      /\ o.landed => FamilyState(certainty', i) # "APPLIED"
  <2>1. CASE o.code = "OK"
    BY <1>a, <2>1, MarksAreMarks, MarkFacts, InvParts DEF WriteDesired
  <2>2. CASE o.code # "OK"
    BY <1>a, <2>2, OutcomeMarks, InvParts DEF WriteDesired
  <2> QED BY <2>1, <2>2
<1>2. AppliedIsTrue'
  <2> HIDE DEF v, i
  <2> QED BY <1>a, <1>1, WriteClaims, InvParts
<1>3. OwnerIInv'
  BY <1>a, <1>b, <1>1, <1>2, MarkingCall, InvParts
<1>4. CASE o.code = "OK"
  <2>1. /\ o.landed
        /\ certainty' = MarkDirty(certainty, i) /\ conversion' = conversion
        /\ call' = [call EXCEPT !.step = "VERIFY", !.prior = certainty]
    BY <1>4 DEF WriteDesired, WriteOutcome
  <2>2. /\ call' \in CallType /\ call'.step = "VERIFY" /\ call'.index = i
        /\ call'.candidate = call.candidate /\ call'.renew = call.renew
        /\ call'.prior = certainty
    BY <1>a, <2>1, InvParts DEF CallType, Step
  <2>3. CallIsPrepared'
    BY <1>a, <2>2 DEF CallIsPrepared, OwnerFrame, RegisterMatches, DesiredRegister
  <2>4. WrittenIsUnclaimed'
    <3>1. FamilyState(certainty', i) # "APPLIED"
      BY <1>1, <2>1
    <3>2. ASSUME NEW j \in AlertIndex, j # i, certainty.alert = "APPLIED"
          PROVE  HoldsRetained(j)'
      <4>1. j \in ManagedIndex /\ FamilyState(certainty, j) = "APPLIED"
        BY <3>2, ManagedRegistersAssumption DEF AlertIndex, ManagedIndex, FamilyState
      <4> QED BY <1>b, <3>2, <4>1, InvParts DEF AppliedIsTrue
    <3>3. i = 0 /\ isTriggeredMode(device'.config.mode) => adc' = "RUNNING"
      BY <1>b, <2>1
    <3> QED BY <2>2, <3>1, <3>2, <3>3 DEF WrittenIsUnclaimed, FamilyState
  <2>5. ViewAgrees'
    BY <1>a, <1>1, InvParts, MarksKeepMeasurement, ViewStays DEF OwnerFrame
  <2>6. ConversionIsTriggered' /\ ReadinessIsAccounted'
    BY <1>a, <1>b, <2>1, <2>2, InvParts
       DEF OwnerFrame, ConversionIsTriggered, ReadinessIsAccounted
  <2>7. LegacyTypes'
    BY <1>a, <1>b, <2>1, <2>2, InvParts DEF LegacyTypes
  <2> QED BY <1>3, <2>3, <2>4, <2>5, <2>6, <2>7 DEF LegacyIInv, LegacyPart
<1>5. CASE o.code # "OK"
  <2>1. /\ call' = NoCall
        /\ conversion' = IF i = 0 /\ MayHaveReached(o.code) THEN "NONE" ELSE conversion
        /\ o.landed => MayHaveReached(o.code)
    BY <1>a, <1>5, OutcomeMarks, InvParts DEF WriteDesired
  <2>2. CallIsPrepared' /\ WrittenIsUnclaimed' /\ ViewAgrees'
    BY <1>a, <1>1, <2>1, GiveUpPart DEF OwnerFrame
  <2>3. ConversionIsTriggered' /\ ReadinessIsAccounted'
    BY <1>a, <1>b, <2>1, InvParts
       DEF OwnerFrame, ConversionIsTriggered, ReadinessIsAccounted
  <2>4. LegacyTypes'
    BY <1>a, <1>b, <2>1, NoCallType, InvParts DEF LegacyTypes, Conversion
  <2> QED BY <1>3, <2>2, <2>3, <2>4 DEF LegacyIInv, LegacyPart
<1> QED BY <1>4, <1>5

(* The certainty that a verification leaves is true of the new profile.    *)
LEMMA VerifiedIsTrue == ASSUME LegacyIInv, VerifyOk PROVE AppliedIsTrue'
<1>a. /\ call.step = "VERIFY" /\ profile' = call.candidate /\ device' = device
      /\ certainty' = VerifiedCertainty /\ disturbed' = disturbed \ {call.index}
      /\ RegisterMatches(device, call.candidate, call.index)
      /\ call.index \in ManagedIndex
  BY CallFacts DEF VerifyOk
<1>1. RegisterMatches(device', profile', call.index)
  BY <1>a
<1>2. ASSUME NEW j \in ManagedIndex, j # call.index, HoldsRetained(j)
      PROVE  HoldsRetained(j)'
  <2>1. RegisterMatches(call.candidate, profile, j)
    BY <1>a, <1>2, InvParts DEF CallIsPrepared
  <2> QED BY <1>a, <1>2, <2>1 DEF HoldsRetained, RegisterMatches
<1>3. ASSUME NEW j \in ManagedIndex, j # call.index, FamilyState(certainty', j) = "APPLIED"
      PROVE  HoldsRetained(j)
  <2>1. CASE call.index = 0 \/ j = 0
    <3>1. FamilyState(certainty, j) = "APPLIED"
      BY <1>a, <1>3, <2>1 DEF VerifiedCertainty, FamilyState
    <3> QED BY <1>3, <3>1, InvParts DEF AppliedIsTrue
  <2>2. CASE call.index # 0 /\ j # 0
    <3>1. call.prior.alert = "APPLIED" /\ j \in AlertIndex
      BY <1>a, <1>3, <2>2, IndexSplit DEF VerifiedCertainty, FamilyState
    <3> QED BY <1>a, <1>3, <2>2, <3>1, InvParts DEF WrittenIsUnclaimed
  <2> QED BY <2>1, <2>2
<1> QED BY <1>1, <1>2, <1>3 DEF AppliedIsTrue, HoldsRetained

(* A renewed generation is ahead of every sample, unless it is saturated. *)
LEMMA GenerationKeeps ==
  ASSUME OwnerIInv, UNCHANGED <<hasSample, sample>>,
         \/ generation' = NextGeneration
         \/ UNCHANGED <<profile, generation>>
  PROVE  SampleIsNotAhead' /\ SampleMatchesGeneration' /\ generation' \in 0 .. MaxGeneration
<1>1. /\ generation \in 0 .. MaxGeneration /\ sample.generation \in 0 .. MaxGeneration
      /\ MaxGeneration \in Nat
      /\ SampleIsNotAhead /\ SampleMatchesGeneration
  BY OwnerTypes, OwnerJobsAssumption DEF TypeOK, OwnerIInv, SampleInv
<1>2. CASE generation' = NextGeneration
  BY <1>1, <1>2 DEF NextGeneration, SampleIsNotAhead, SampleMatchesGeneration
<1>3. CASE UNCHANGED <<profile, generation>>
  BY <1>1, <1>3 DEF SampleIsNotAhead, SampleMatchesGeneration
<1> QED BY <1>2, <1>3

(* The verification: what is claimed now is what was read. *)
LEMMA VerifyOkKeeps == ASSUME LegacyIInv, VerifyOk PROVE LegacyIInv'
<1>a. /\ call.step = "VERIFY" /\ profile' = call.candidate /\ device' = device
      /\ certainty' = VerifiedCertainty /\ disturbed' = disturbed \ {call.index}
      /\ RegisterMatches(device, call.candidate, call.index)
      /\ call' = NoCall /\ generation' = Renewed /\ OwnerFrame
      /\ call.index \in ManagedIndex /\ job.state # "ACTIVE" /\ initialized
      /\ call.candidate \in DeviceProfile /\ call.prior \in Certainty
  BY CallFacts DEF VerifyOk
<1>b. /\ call.index # 0 => call.candidate.config = profile.config
      /\ call.candidate.calibration = profile.calibration
  BY <1>a, InvParts, IndexType DEF CallIsPrepared, RegisterMatches, DesiredRegister
<1>1. SampleIsNotAhead' /\ SampleMatchesGeneration' /\ generation' \in 0 .. MaxGeneration
  <2>1. generation' = NextGeneration \/ UNCHANGED <<profile, generation>>
    BY <1>a, InvParts DEF Renewed, CallIsPrepared
  <2>2. UNCHANGED <<hasSample, sample>>
    BY <1>a DEF OwnerFrame
  <2> QED BY <2>1, <2>2, GenerationKeeps, InvParts
<1>2. /\ certainty' \in Certainty
      /\ certainty'.dirty <=>
           (certainty'.measurement # "APPLIED" \/ certainty'.alert # "APPLIED")
  <2>1. /\ certainty.measurement \in AppliedConfigState /\ certainty.alert \in AppliedConfigState
        /\ call.prior.alert \in AppliedConfigState /\ "APPLIED" \in AppliedConfigState
    BY <1>a, InvParts DEF Certainty, AppliedConfigState
  <2> QED BY <1>a, <2>1 DEF VerifiedCertainty, Certainty
<1>3. TypeOK'
  BY <1>a, <1>1, <1>2, InvParts DEF TypeOK, OwnerFrame
<1>4. OwnerIInv'
  <2>1. DirtyFlagAgrees'
    BY <1>2 DEF DirtyFlagAgrees
  <2> QED BY <1>a, <1>1, <1>3, <2>1, VerifiedIsTrue, OffJob, InvParts
<1>5. CallIsPrepared' /\ WrittenIsUnclaimed'
  BY <1>a DEF NoCall, CallIsPrepared, WrittenIsUnclaimed
<1>6. CASE call.index = 0
  <2>1. /\ conversion' = IF isTriggeredMode(call.candidate.config.mode)
                         THEN "STARTED" ELSE "NONE"
        /\ view' = ViewOf(call.candidate) /\ adc' = adc
    BY <1>6 DEF VerifyOk, RetainConfig
  <2>2. device.config = call.candidate.config
    BY <1>a, <1>6 DEF RegisterMatches, DesiredRegister
  <2>3. isTriggeredMode(device.config.mode) => adc \in {"RUNNING", "FLAGGED"}
    BY <1>a, <1>6, InvParts DEF WrittenIsUnclaimed
  <2>4. ConversionIsTriggered' /\ ReadinessIsAccounted' /\ ViewAgrees'
    BY <1>a, <2>1, <2>2, <2>3, ViewOfType
       DEF OwnerFrame, ConversionIsTriggered, ReadinessIsAccounted, ViewAgrees
  <2>5. LegacyTypes'
    BY <1>a, <2>1, NoCallType, ViewOfType, InvParts DEF LegacyTypes, Conversion
  <2> QED BY <1>4, <1>5, <2>4, <2>5 DEF LegacyIInv, LegacyPart
<1>7. CASE call.index # 0
  <2>1. /\ MaskRead \/ UNCHANGED <<conversion, adc>>
        /\ view' = view /\ (0 \in disturbed => 0 \in disturbed')
    BY <1>a, <1>7 DEF VerifyOk, MaskRead
  <2>2. ViewAgrees'
    BY <1>a, <1>b, <1>7, <2>1, InvParts DEF VerifiedCertainty, ViewAgrees, OwnerFrame
  <2>3. ConversionIsTriggered' /\ ReadinessIsAccounted'
    BY <1>a, <1>7, <2>1, MaskReadKeeps, InvParts
       DEF OwnerFrame, ConversionIsTriggered, ReadinessIsAccounted
  <2>4. LegacyTypes'
    BY <1>a, <2>1, NoCallType, MaskReadKeeps, InvParts DEF LegacyTypes
  <2> QED BY <1>4, <1>5, <2>2, <2>3, <2>4 DEF LegacyIInv, LegacyPart
<1> QED BY <1>6, <1>7

(* A verification that fails claims nothing. *)
LEMMA VerifyFailsKeeps ==
  ASSUME LegacyIInv, NEW outcome \in ReadOutcome, VerifyFails(outcome)
  PROVE  LegacyIInv'
<1>a. /\ call.step = "VERIFY" /\ call' = NoCall /\ OwnerFrame
      /\ UNCHANGED <<profile, certainty, generation, device, view>>
      /\ disturbed' \in {disturbed, disturbed \ {call.index}}
      /\ call.index \in ManagedIndex /\ job.state # "ACTIVE"
  BY CallFacts DEF VerifyFails
<1>1. /\ call.index = 0 => conversion' = "NONE" /\ adc' = adc
      /\ call.index # 0 => MaskRead \/ UNCHANGED <<conversion, adc>>
  <2>a. MaskIndex # 0
    BY LegacyApiAssumption, ManagedRegistersAssumption DEF AlertIndex
  <2>1. CASE call.index = 0
    BY <2>a, <2>1 DEF VerifyFails
  <2>2. CASE call.index = MaskIndex
    BY <2>a, <2>2 DEF VerifyFails, MaskRead
  <2>3. CASE call.index # 0 /\ call.index # MaskIndex
    BY <2>3 DEF VerifyFails
  <2> QED BY <2>1, <2>2, <2>3
<1>2. AppliedIsTrue'
  <2>1. \A j \in ManagedIndex : FamilyState(certainty, j) = "APPLIED" =>
          j # call.index /\ HoldsRetained(j)
    BY <1>a, InvParts DEF AppliedIsTrue, WrittenIsUnclaimed
  <2> QED BY <1>a, <2>1 DEF AppliedIsTrue, HoldsRetained, RegisterMatches, DesiredRegister,
                            FamilyState
<1>3. Marked(certainty', certainty)
  BY <1>a, MarksAreMarks, IndexType, InvParts
<1>4. OwnerIInv'
  BY <1>a, <1>2, <1>3, MarkingCall, InvParts
<1>5. CallIsPrepared' /\ WrittenIsUnclaimed' /\ ViewAgrees'
  BY <1>a, <1>3, GiveUpPart DEF OwnerFrame
<1>6. ConversionIsTriggered' /\ ReadinessIsAccounted'
  BY <1>a, <1>1, MaskReadKeeps, InvParts
     DEF OwnerFrame, ConversionIsTriggered, ReadinessIsAccounted
<1>7. LegacyTypes'
  BY <1>a, <1>1, NoCallType, MaskReadKeeps, InvParts DEF LegacyTypes, Conversion
<1> QED BY <1>4, <1>5, <1>6, <1>7 DEF LegacyIInv, LegacyPart

-----------------------------------------------------------------------------
(* Calls of one callback *)

(* A raw write takes back what was claimed of its register. *)
LEMMA RawKeeps ==
  ASSUME LegacyIInv, NEW i \in ManagedIndex, NEW v, NEW o \in WriteOutcome,
         IF i = 0 THEN v \in ConfigValue ELSE v \in Limits,
         Raw(o, i), RegisterWrite(i, v, o.landed),
         view' \in ViewType, view'.calibration = view.calibration,
         conversion' \in Conversion,
         ~MayHaveReached(o.code) => UNCHANGED <<view, conversion>>,
         i # 0 => UNCHANGED <<view, conversion>>,
         i = 0 /\ MayHaveReached(o.code) /\ conversion' # "NONE" =>
           o.landed /\ conversion' = "STARTED" /\ isTriggeredMode(v.mode)
  PROVE  LegacyIInv'
<1>a. /\ job.state # "ACTIVE" /\ call.step = "NONE" /\ call' = call /\ OwnerFrame
      /\ UNCHANGED <<profile, generation>>
  BY DEF Raw, CanCall, NoCall
<1>1. /\ Marked(certainty', certainty)
      /\ o.landed => MayHaveReached(o.code)
      /\ MayHaveReached(o.code) => FamilyState(certainty', i) # "APPLIED"
  BY OutcomeMarks, InvParts DEF Raw
<1>2. AppliedIsTrue'
  BY <1>a, <1>1, WriteClaims, InvParts
<1>3. OwnerIInv'
  BY <1>a, <1>1, <1>2, RegisterWriteFacts, MarkingCall, InvParts
<1>4. CallIsPrepared' /\ WrittenIsUnclaimed'
  BY <1>a DEF CallIsPrepared, WrittenIsUnclaimed
<1>5. ViewAgrees'
  <2>1. certainty'.measurement = "APPLIED" => certainty.measurement = "APPLIED" /\ view' = view
    BY <1>1, MarksKeepMeasurement DEF FamilyState
  <2> QED BY <1>a, <2>1, InvParts DEF ViewAgrees, OwnerFrame
<1>6. ConversionIsTriggered' /\ ReadinessIsAccounted'
  BY <1>a, <1>1, RegisterWriteFacts, InvParts
     DEF OwnerFrame, ConversionIsTriggered, ReadinessIsAccounted
<1>7. LegacyTypes'
  BY <1>a, RegisterWriteFacts, InvParts DEF LegacyTypes
<1> QED BY <1>3, <1>4, <1>5, <1>6, <1>7 DEF LegacyIInv, LegacyPart

(* writeConfig is such a write. *)
LEMMA WriteConfigKeeps ==
  ASSUME LegacyIInv, NEW v \in ConfigValue, NEW o \in WriteOutcome, WriteConfig(v, o)
  PROVE  LegacyIInv'
<1>1. /\ 0 \in ManagedIndex /\ Raw(o, 0) /\ RegisterWrite(0, v, o.landed)
      /\ o.code = "OK" => o.landed /\ MayHaveReached(o.code)
  BY IndexType DEF WriteConfig, WriteOutcome, MayHaveReached
<1>2. /\ view' = IF o.code = "OK" THEN [view EXCEPT !.config = v] ELSE view
      /\ conversion' =
           IF o.code = "OK" THEN IF isTriggeredMode(v.mode) THEN "STARTED" ELSE "NONE"
           ELSE IF MayHaveReached(o.code) THEN "NONE" ELSE conversion
  BY DEF WriteConfig
<1>3. view' \in ViewType /\ view'.calibration = view.calibration /\ conversion' \in Conversion
  BY <1>2, InvParts DEF Conversion, ViewType
<1> QED BY <1>1, <1>2, <1>3, RawKeeps

(* writeRegister16 is such a write. *)
LEMMA WriteRegister16Keeps ==
  ASSUME LegacyIInv, NEW i \in ManagedIndex, NEW v, NEW o \in WriteOutcome,
         IF i = 0 THEN v \in ConfigValue ELSE v \in Limits, WriteRegister16(i, v, o)
  PROVE  LegacyIInv'
<1>1. /\ Raw(o, i) /\ RegisterWrite(i, v, o.landed) /\ view' = view
      /\ conversion' = IF i = 0 /\ MayHaveReached(o.code) THEN "NONE" ELSE conversion
  BY DEF WriteRegister16
<1>2. view' \in ViewType /\ conversion' \in Conversion
  BY <1>1, InvParts DEF Conversion
<1> QED BY <1>1, <1>2, RawKeeps

(* A soft reset changes all registers, and everything is marked. *)
LEMMA SoftResetKeeps ==
  ASSUME LegacyIInv, NEW o \in WriteOutcome, SoftReset(o)
  PROVE  LegacyIInv'
<1>a. /\ job.state # "ACTIVE" /\ call.step = "NONE" /\ call' = call /\ OwnerFrame
      /\ UNCHANGED <<profile, generation>>
  BY DEF SoftReset, CanCall, NoCall
<1>1. CASE ~MayHaveReached(o.code)
  <2>1. ~o.landed /\ o.code # "OK"
    BY <1>1 DEF MayHaveReached, WriteOutcome
  <2>2. UNCHANGED <<certainty, device, disturbed, adc, conversion, view>>
    BY <1>1, <2>1 DEF SoftReset, ResetCertainty
  <2>3. /\ Marked(certainty', certainty) /\ AppliedIsTrue'
        /\ device' \in RegisterImage /\ disturbed' \in SUBSET ManagedIndex
    BY <1>a, <2>2, MarksAreMarks, IndexType, SameClaims, InvParts
  <2>4. OwnerIInv'
    BY <1>a, <2>3, MarkingCall, InvParts
  <2>5. LegacyTypes'
    BY <1>a, <2>2, InvParts DEF LegacyTypes
  <2>6. LegacyPart'
    BY <1>a, <2>2, InvParts
       DEF OwnerFrame, LegacyPart, CallIsPrepared, WrittenIsUnclaimed, ConversionIsTriggered,
           ViewAgrees, ReadinessIsAccounted
  <2> QED BY <2>4, <2>5, <2>6 DEF LegacyIInv
<1>2. CASE MayHaveReached(o.code)
  <2>1. /\ certainty' \in Certainty /\ certainty'.dirty
        /\ certainty'.measurement # "APPLIED" /\ certainty'.alert # "APPLIED"
    BY <1>2 DEF SoftReset, ResetCertainty, Certainty, AppliedConfigState
  <2>2. Marked(certainty', certainty) /\ AppliedIsTrue'
    BY <2>1 DEF Marked, NoNewClaim, AppliedIsTrue, FamilyState
  <2>3. device' \in RegisterImage /\ disturbed' \in SUBSET ManagedIndex
    BY InvParts, ResetImageType DEF SoftReset
  <2>4. OwnerIInv'
    BY <1>a, <2>2, <2>3, MarkingCall, InvParts
  <2>5. /\ conversion' = "NONE" /\ adc' \in Adc
        /\ view' \in ViewType /\ view'.calibration = view.calibration
    BY <1>2, InvParts, ResetImageType DEF SoftReset, Adc, RegisterImage, ViewType
  <2>6. LegacyTypes'
    BY <1>a, <2>5, InvParts DEF LegacyTypes, Conversion
  <2>7. LegacyPart'
    BY <1>a, <2>1, <2>5, InvParts, QuietPart DEF ViewAgrees, OwnerFrame
  <2> QED BY <2>4, <2>6, <2>7 DEF LegacyIInv
<1> QED BY <1>1, <1>2

(* A new calibration reaches the profile and the view together, changes no *)
(* register, and leaves every sample behind by its generation.             *)
LEMMA SetShuntResistanceKeeps ==
  ASSUME LegacyIInv, NEW c \in Calibrations, SetShuntResistance(c)
  PROVE  LegacyIInv'
<1>a. /\ job.state # "ACTIVE" /\ call.step = "NONE" /\ OwnerFrame
      /\ profile' = [profile EXCEPT !.calibration = c]
      /\ view' = [view EXCEPT !.calibration = c]
      /\ generation' = NextGeneration
      /\ UNCHANGED <<certainty, device, disturbed, call, conversion, adc>>
  BY DEF SetShuntResistance, Recalibrate, CanCall, NoCall, OwnerFrame
<1>b. /\ profile' \in DeviceProfile /\ view' \in ViewType
      /\ profile'.config = profile.config /\ profile'.alerts = profile.alerts
      /\ view'.config = view.config /\ profile'.calibration = view'.calibration
  BY <1>a, InvParts DEF DeviceProfile, ViewType
<1>1. SampleIsNotAhead' /\ SampleMatchesGeneration' /\ generation' \in 0 .. MaxGeneration
  BY <1>a, GenerationKeeps, InvParts DEF OwnerFrame
<1>2. AppliedIsTrue' /\ DirtyFlagAgrees'
  BY <1>a, <1>b, InvParts
     DEF AppliedIsTrue, HoldsRetained, RegisterMatches, DesiredRegister, OwnerFrame,
         DirtyFlagAgrees
<1>3. TypeOK'
  BY <1>a, <1>b, <1>1, InvParts DEF TypeOK, OwnerFrame
<1>4. OwnerIInv'
  BY <1>a, <1>1, <1>2, <1>3, OffJob, InvParts
<1>5. LegacyTypes'
  BY <1>a, <1>b, InvParts DEF LegacyTypes
<1>6. LegacyPart'
  BY <1>a, <1>b, InvParts
     DEF OwnerFrame, LegacyPart, CallIsPrepared, WrittenIsUnclaimed,
         ConversionIsTriggered, ViewAgrees, ReadinessIsAccounted
<1> QED BY <1>4, <1>5, <1>6 DEF LegacyIInv

-----------------------------------------------------------------------------
(* The theorems *)

(* Each step, the owner's or the legacy API's, keeps the invariant. *)
LEMMA LegacyInvStep == LegacyIInv /\ [LegacyNext]_allVars => LegacyIInv'
<1> SUFFICES ASSUME LegacyIInv, [LegacyNext]_allVars PROVE LegacyIInv'
  OBVIOUS
<1>a. 0 \in ManagedIndex /\ \A i \in AlertIndex : i \in ManagedIndex /\ i # 0
  BY IndexType DEF AlertIndex, ManagedIndex
<1>1. CASE OwnerStep
  BY <1>1, OwnerStepKeeps
<1>2. CASE VerifiedWrite
  BY <1>2, BeginsKeep, ObserveKeeps, WriteDesiredKeeps, VerifyOkKeeps, VerifyFailsKeeps
     DEF VerifiedWrite
<1>3. CASE \E v \in ConfigValue, o \in WriteOutcome : WriteConfig(v, o)
  BY <1>3, WriteConfigKeeps
<1>4. CASE \/ \E v \in ConfigValue, o \in WriteOutcome : WriteRegister16(0, v, o)
           \/ \E i \in AlertIndex, v \in Limits, o \in WriteOutcome : WriteRegister16(i, v, o)
  BY <1>4, <1>a, WriteRegister16Keeps
<1>5. CASE \/ \E o \in WriteOutcome : SoftReset(o)
           \/ \E c \in Calibrations : SetShuntResistance(c)
           \/ PowerCycle
  BY <1>5, SoftResetKeeps, SetShuntResistanceKeeps, PowerCycleKeeps
<1>6. CASE \/ ConversionEnds
           \/ \E outcome \in ReadOutcome : ReadMaskEnable(outcome)
           \/ CancelConversion
           \/ UNCHANGED allVars
  BY <1>6, SilentKeeps
<1> QED BY <1>1, <1>2, <1>3, <1>4, <1>5, <1>6 DEF LegacyNext, LegacyStep

(* The inductive invariant of both interfaces together.                    *)
THEOREM LegacyInvariant == LegacySpec => []LegacyIInv
<1>1. LegacyInit => LegacyIInv
  <2>1. LegacyInit => OwnerIInv
    BY OwnerInvInit DEF LegacyInit
  <2>2. LegacyInit => LegacyTypes /\ LegacyPart
    BY NoCallType, DefaultProfileType, ViewOfType
       DEF LegacyInit, Init, LegacyTypes, LegacyPart, NoCall, Conversion, Adc, DeviceProfile,
           CallIsPrepared, WrittenIsUnclaimed, ConversionIsTriggered, ViewAgrees,
           ReadinessIsAccounted, UnknownCertainty
  <2> QED BY <2>1, <2>2 DEF LegacyIInv
<1> QED BY <1>1, LegacyInvStep, PTL DEF LegacySpec

(* Setters, raw writes, soft resets and owner jobs in any order keep what  *)
(* the driver claims about the device true, and its three ways of saying   *)
(* so (the family states, the dirty flag, the legacy view) in agreement.   *)
THEOREM HonestyCorrect == LegacySpec => []CertaintyIsHonest
<1>1. LegacyIInv => CertaintyIsHonest
  BY InvParts DEF CertaintyIsHonest
<1> QED BY <1>1, LegacyInvariant, PTL

(* No setter lets a sample bear a generation that is not its own profile's. *)
THEOREM SampleGenerationCorrect == LegacySpec => []SampleMatchesGeneration
<1>1. LegacyIInv => SampleMatchesGeneration
  BY DEF LegacyIInv, OwnerIInv, SampleInv
<1> QED BY <1>1, LegacyInvariant, PTL

(* No legacy call takes the verified Configuration from under a sample job. *)
THEOREM SampleJobCorrect == LegacySpec => []SampleJobUnderVerifiedConfig
<1>1. LegacyIInv => SampleJobUnderVerifiedConfig
  BY DEF LegacyIInv, OwnerIInv, SampleInv
<1> QED BY <1>1, LegacyInvariant, PTL

(* Readiness belongs to an ended conversion of the present Configuration,  *)
(* whichever call or job consumed CVRF.                                    *)
THEOREM ReadinessCorrect == LegacySpec => []ReadinessIsAccounted
<1>1. LegacyIInv => ReadinessIsAccounted
  BY InvParts
<1> QED BY <1>1, LegacyInvariant, PTL

(* The legacy calls share the driver with the owner and still leave its    *)
(* job slot alone: results stay unique, identified, honest and blocking.   *)
THEOREM LegacyContractCorrect == LegacySpec => ImplementsContract /\ []EffectIsHonest
<1>1. [LegacyNext]_allVars => [Next]_vars \/ OwnerFrame
  BY DEF LegacyNext, OwnerStep, OwnerUnbind, OwnerBind, OwnerAdmit, OwnerPoll, PowerCycle,
         ConversionEnds, LegacyStep, VerifiedWrite, StartConversion, StartConversionIn,
         SetConfig, SetLimit, SetMaskEnable, BeginWrite, Observe, WriteDesired, VerifyOk,
         VerifyFails, ReadMaskEnable, WriteConfig, WriteRegister16, Raw, SoftReset,
         CancelConversion, SetShuntResistance, Recalibrate, OwnerFrame, Next, allVars
<1>2. OwnerFrame => UNCHANGED Contract!contractVars
  BY DEF OwnerFrame, Contract!contractVars, Phase
<1>3. LegacyIInv /\ LegacyIInv' /\ [LegacyNext]_allVars =>
        [Contract!ContractNext]_(Contract!contractVars)
  BY <1>1, <1>2, ContractStep DEF LegacyIInv
<1>4. LegacyInit => Contract!ContractInit
  BY DEF LegacyInit, Init, IdleJob, NoResult, Phase, Contract!ContractInit
<1>5. LegacyIInv => EffectIsHonest
  BY DEF LegacyIInv, OwnerIInv, KnownWrites
<1> QED BY <1>3, <1>4, <1>5, LegacyInvariant, PTL
        DEF LegacySpec, ImplementsContract, Contract!ContractSpec

=============================================================================
