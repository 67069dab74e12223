------------------------------ MODULE LegacyApi ------------------------------
(***************************************************************************)
(* The compatibility calls that touch registers directly, beside the owner *)
(* API of module OwnerJobs and on the same state: typed setters that write *)
(* and verify one register, raw register writes, the soft reset, and the   *)
(* legacy conversion with its readiness flag.                              *)
(*                                                                         *)
(* A legacy call blocks, so owner calls never run inside it; but it makes  *)
(* up to three callbacks, and between them the device may be reset or      *)
(* finish a conversion.  Variable call holds its locals meanwhile.         *)
(*                                                                         *)
(* The device sets CVRF when a triggered conversion ends, and clears it on *)
(* a write to Configuration and on every read of Mask/Enable, also on one  *)
(* whose answer never arrives.                                             *)
(***************************************************************************)
EXTENDS OwnerJobs

CONSTANT MaskIndex  \* the managed index of Mask/Enable (8 in the driver)

ASSUME LegacyApiAssumption == MaskIndex \in AlertIndex

VARIABLES
  call,        \* locals of the _writeManagedRegisterVerified that is running
  view,        \* _legacyConfigView: its Configuration fields and its shunts
  conversion,  \* _conversionStarted ("STARTED") or _conversionReady ("READY")
  adc          \* ghost: the device's conversion for the last legacy trigger

legacyVars == <<call, view, conversion, adc>>
allVars == <<vars, legacyVars>>

Step == {"NONE", "OBSERVE", "WRITE", "VERIFY"}
Conversion == {"NONE", "STARTED", "READY"}

(* RUNNING, then FLAGGED with CVRF set, then the flag is SHOWN to the      *)
(* driver by a read, or LOST in a read that failed.                        *)
Adc == {"NONE", "RUNNING", "FLAGGED", "SHOWN", "LOST"}

(* A read fails before or after the device has taken it.                   *)
ReadOutcome == {"OK", "NOT_DONE", "LOST"}

NoCall == [step |-> "NONE", index |-> 0, candidate |-> DefaultProfile, renew |-> FALSE,
           prior |-> UnknownCertainty]

(* _syncLegacyConfigViewFromProfile: what the view shows of profile p. *)
ViewOf(p) == [config |-> p.config, calibration |-> p.calibration]

-----------------------------------------------------------------------------
(* The owner API, with what it does to the legacy state *)

OwnerUnbind ==
  /\ Unbind
  /\ view' = ViewOf(DefaultProfile)
  /\ conversion' = "NONE"
  /\ adc' = "NONE"
  /\ UNCHANGED call

OwnerBind(p) ==
  /\ Bind(p)
  /\ view' = ViewOf(p)
  /\ conversion' = "NONE"
  /\ adc' = "NONE"
  /\ UNCHANGED call

(* _startJob refuses a sample while a legacy conversion is under way, and  *)
(* any job it accepts, which may rewrite Configuration, abandons it.       *)
TakeOver ==
  /\ conversion' = "NONE"
  /\ adc' = "NONE"

OwnerAdmit ==
  /\ Admit
  /\ job'.kind \in SampleKind => conversion # "STARTED"
  /\ TakeOver
  /\ UNCHANGED <<call, view>>

(* _finishJobSuccess refreshes the view with the profile it retains. *)
OwnerPoll ==
  /\ Poll
  /\ view' = IF result'.state = "SUCCEEDED" /\ job.kind \notin SampleKind
             THEN ViewOf(profile') ELSE view
  /\ UNCHANGED <<call, conversion, adc>>

OwnerStep ==
  /\ call = NoCall
  /\ \/ OwnerUnbind
     \/ \E p \in Candidates : OwnerBind(p)
     \/ OwnerAdmit
     \/ OwnerPoll
     \/ (CancelJob \/ TakeJobResult) /\ UNCHANGED legacyVars

-----------------------------------------------------------------------------
(* The device *)

RegisterWrite(i, v, landed) ==
  /\ device' = IF landed THEN WithRegister(device, i, v) ELSE device
  /\ disturbed' = IF landed THEN disturbed \ {i} ELSE disturbed
  /\ adc' = IF landed /\ i = 0
            THEN IF isTriggeredMode(v.mode) THEN "RUNNING" ELSE "NONE"
            ELSE adc

ConversionEnds ==
  /\ adc = "RUNNING"
  /\ adc' = "FLAGGED"
  /\ UNCHANGED <<vars, call, view, conversion>>

PowerCycle ==
  /\ DeviceReset
  /\ adc' = "NONE"
  /\ UNCHANGED <<call, view, conversion>>

(* _handoffConversionReady: every read of Mask/Enable, whoever makes it,   *)
(* credits CVRF to the outstanding conversion.                             *)
Handoff_Skipped == UNCHANGED conversion

Handoff ==
  conversion' = IF adc = "FLAGGED" /\ conversion = "STARTED" THEN "READY" ELSE conversion

MaskAnswered ==
  /\ adc' = IF adc = "FLAGGED" THEN "SHOWN" ELSE adc
  /\ Handoff

MaskUnanswered(outcome) ==
  /\ outcome # "OK"
  /\ adc' = IF adc = "FLAGGED" /\ outcome = "LOST" THEN "LOST" ELSE adc
  /\ UNCHANGED conversion

-----------------------------------------------------------------------------
(* Verified writes *)

(* What no legacy call changes. *)
OwnerFrame ==
  UNCHANGED <<bound, initialized, pendingProfile, job, hasResult, result, hasSample,
              sample, reached>>

CanCall_DuringJob == initialized /\ call = NoCall

(* _requireNoOwnerJob: a pending result does not keep a legacy call out. *)
CanCall ==
  /\ initialized
  /\ job.state # "ACTIVE"
  /\ call = NoCall

BeginWrite(i, candidate, renew) ==
  /\ CanCall
  /\ call' = [step |-> IF i = MaskIndex THEN "OBSERVE" ELSE "WRITE",
              index |-> i, candidate |-> candidate, renew |-> renew,
              prior |-> UnknownCertainty]
  /\ UNCHANGED <<vars, view, conversion, adc>>

(* startConversion(): rewrites the retained Configuration. *)
StartConversion ==
  /\ isTriggeredMode(profile.config.mode)
  /\ conversion # "STARTED"
  /\ BeginWrite(0, profile, FALSE)

StartConversionIn(mode) ==
  /\ isTriggeredMode(mode)
  /\ conversion # "STARTED"
  /\ BeginWrite(0, [profile EXCEPT !.config.mode = mode], TRUE)

(* setMode, setAveraging, setVBusConvTime, setVShuntConvTime, setChannelEnable. *)
SetConfig(v) == BeginWrite(0, [profile EXCEPT !.config = v], TRUE)

(* The setters of the limits. *)
SetLimit(i, v) ==
  /\ i # MaskIndex
  /\ BeginWrite(i, WithRegister(profile, i, v), TRUE)

(* setSummationChannels, setAlertLatchEnable. *)
SetMaskEnable(v) == BeginWrite(MaskIndex, WithRegister(profile, MaskIndex, v), TRUE)

(* The flags of Mask/Enable are read, and so cleared, before it is written; *)
(* without that read there is no write.                                     *)
Observe(outcome) ==
  /\ call.step = "OBSERVE"
  /\ IF outcome = "OK"
       THEN /\ certainty' = AfterComparison(MaskIndex)
            /\ call' = [call EXCEPT !.step = "WRITE"]
            /\ disturbed' = disturbed \ {MaskIndex}
            /\ MaskAnswered
       ELSE /\ call' = NoCall
            /\ MaskUnanswered(outcome)
            /\ UNCHANGED <<certainty, disturbed>>
  /\ OwnerFrame
  /\ UNCHANGED <<profile, generation, device, view>>

WriteDesired(o) ==
  /\ call.step = "WRITE"
  /\ RegisterWrite(call.index, DesiredRegister(call.candidate, call.index), o.landed)
  /\ IF o.code = "OK"
       THEN /\ certainty' = MarkDirty(certainty, call.index)
            /\ call' = [call EXCEPT !.step = "VERIFY", !.prior = certainty]
            /\ UNCHANGED conversion
       ELSE /\ certainty' = IF MayHaveReached(o.code) THEN MarkUnknown(certainty, call.index)
                            ELSE certainty
            /\ call' = NoCall
            /\ conversion' = IF call.index = 0 /\ MayHaveReached(o.code) THEN "NONE"
                             ELSE conversion
  /\ OwnerFrame
  /\ UNCHANGED <<profile, generation, view>>

(* The measurement family is one register: verified, it is APPLIED.  The   *)
(* alert family is ten: one of them restores what was known before.        *)
VerifiedCertainty_Gained ==
  WithFamilyState(certainty, call.index, "APPLIED")

VerifiedCertainty ==
  LET m == IF call.index = 0 THEN "APPLIED" ELSE certainty.measurement
      a == IF call.index = 0 THEN certainty.alert ELSE call.prior.alert
  IN [measurement |-> m, alert |-> a, dirty |-> m # "APPLIED" \/ a # "APPLIED"]

(* startConversion(mode) and the typed setters change the profile. *)
Renewed == IF call.renew THEN NextGeneration ELSE generation

(* _handleConfigWriteSideEffects and the synchronized view. *)
RetainConfig ==
  /\ conversion' = IF isTriggeredMode(call.candidate.config.mode) THEN "STARTED" ELSE "NONE"
  /\ view' = ViewOf(call.candidate)

VerifyOk ==
  /\ call.step = "VERIFY"
  /\ RegisterMatches(device, call.candidate, call.index)
  /\ certainty' = VerifiedCertainty
  /\ profile' = call.candidate
  /\ generation' = Renewed
  /\ IF call.index = 0 THEN RetainConfig /\ UNCHANGED adc
     ELSE /\ IF call.index = MaskIndex THEN MaskAnswered ELSE UNCHANGED <<conversion, adc>>
          /\ UNCHANGED view
  /\ disturbed' = disturbed \ {call.index}
  /\ call' = NoCall
  /\ OwnerFrame
  /\ UNCHANGED device

(* The readback fails or shows another value: the marks of the write stay. *)
VerifyFails(outcome) ==
  /\ call.step = "VERIFY"
  /\ outcome = "OK" => ~RegisterMatches(device, call.candidate, call.index)
  /\ disturbed' = IF outcome = "OK" THEN disturbed \ {call.index} ELSE disturbed
  /\ CASE call.index = 0 -> conversion' = "NONE" /\ UNCHANGED adc
       [] call.index = MaskIndex ->
            IF outcome = "OK" THEN MaskAnswered ELSE MaskUnanswered(outcome)
       [] OTHER -> UNCHANGED <<conversion, adc>>
  /\ call' = NoCall
  /\ OwnerFrame
  /\ UNCHANGED <<profile, certainty, generation, device, view>>

-----------------------------------------------------------------------------
(* Calls of one callback, or of none *)

(* Any legacy read of Mask/Enable: readAlertFlags, readRegister16, and the *)
(* readiness checks of tickStatus, readConversionReady and the measurement *)
(* reads.                                                                  *)
ReadMaskEnable(outcome) ==
  /\ CanCall
  /\ IF outcome = "OK" THEN MaskAnswered ELSE MaskUnanswered(outcome)
  /\ UNCHANGED <<vars, call, view>>

Raw(o, i) ==
  /\ CanCall
  /\ certainty' = IF MayHaveReached(o.code) THEN MarkUnknown(certainty, i) ELSE certainty
  /\ OwnerFrame
  /\ UNCHANGED <<profile, generation, call>>

(* writeConfig without RST: the view follows the write, the profile does not. *)
WriteConfig(v, o) ==
  /\ Raw(o, 0)
  /\ RegisterWrite(0, v, o.landed)
  /\ view' = IF o.code = "OK" THEN [view EXCEPT !.config = v] ELSE view
  /\ conversion' =
       IF o.code = "OK" THEN IF isTriggeredMode(v.mode) THEN "STARTED" ELSE "NONE"
       ELSE IF MayHaveReached(o.code) THEN "NONE" ELSE conversion

WriteRegister16(i, v, o) ==
  /\ Raw(o, i)
  /\ RegisterWrite(i, v, o.landed)
  /\ conversion' = IF i = 0 /\ MayHaveReached(o.code) THEN "NONE" ELSE conversion
  /\ UNCHANGED view

(* softReset, and writes of RST by the raw calls. *)
ResetCertainty(code) ==
  CASE code = "OK" -> [measurement |-> "DIRTY", alert |-> "DIRTY", dirty |-> TRUE]
    [] code # "OK" /\ MayHaveReached(code) ->
         [measurement |-> "UNKNOWN", alert |-> "UNKNOWN", dirty |-> TRUE]
    [] OTHER -> certainty

SoftReset(o) ==
  /\ CanCall
  /\ certainty' = ResetCertainty(o.code)
  /\ device' = IF o.landed THEN ResetImage ELSE device
  /\ disturbed' = IF o.landed THEN {} ELSE disturbed
  /\ adc' = IF o.landed THEN "NONE" ELSE adc
  /\ conversion' = IF MayHaveReached(o.code) THEN "NONE" ELSE conversion
  /\ view' = IF o.code = "OK" THEN [view EXCEPT !.config = ResetImage.config] ELSE view
  /\ OwnerFrame
  /\ UNCHANGED <<profile, generation, call>>

CancelConversion ==
  /\ call = NoCall
  /\ conversion = "STARTED"
  /\ conversion' = "NONE"
  /\ UNCHANGED <<vars, call, view, adc>>

(* setShuntResistance: the retained profile and the view change without a  *)
(* write to the device.                                                    *)
Recalibrate(c) ==
  /\ CanCall
  /\ profile' = [profile EXCEPT !.calibration = c]
  /\ view' = [view EXCEPT !.calibration = c]
  /\ UNCHANGED <<bound, initialized, pendingProfile, job, hasResult, result, hasSample,
                 sample, reached, certainty, device, disturbed, call, conversion, adc>>

SetShuntResistance_Quiet(c) == Recalibrate(c) /\ UNCHANGED generation

SetShuntResistance(c) == Recalibrate(c) /\ generation' = NextGeneration

-----------------------------------------------------------------------------
LegacyInit ==
  /\ Init
  /\ call = NoCall
  /\ view = ViewOf(DefaultProfile)
  /\ conversion = "NONE"
  /\ adc = "NONE"

VerifiedWrite ==
  \/ StartConversion
  \/ \E mode \in Mode : StartConversionIn(mode)
  \/ \E v \in ConfigValue : SetConfig(v)
  \/ \E i \in AlertIndex, v \in Limits : SetLimit(i, v)
  \/ \E v \in Limits : SetMaskEnable(v)
  \/ \E outcome \in ReadOutcome : Observe(outcome)
  \/ \E o \in WriteOutcome : WriteDesired(o)
  \/ VerifyOk
  \/ \E outcome \in ReadOutcome : VerifyFails(outcome)

LegacyStep ==
  \/ VerifiedWrite
  \/ \E outcome \in ReadOutcome : ReadMaskEnable(outcome)
  \/ \E v \in ConfigValue, o \in WriteOutcome : WriteConfig(v, o)
  \/ \E v \in ConfigValue, o \in WriteOutcome : WriteRegister16(0, v, o)
  \/ \E i \in AlertIndex, v \in Limits, o \in WriteOutcome : WriteRegister16(i, v, o)
  \/ \E o \in WriteOutcome : SoftReset(o)
  \/ CancelConversion
  \/ \E c \in Calibrations : SetShuntResistance(c)

LegacyNext == OwnerStep \/ LegacyStep \/ ConversionEnds \/ PowerCycle

LegacySpec == LegacyInit /\ [][LegacyNext]_allVars
-----------------------------------------------------------------------------
(* Properties, beside those of OwnerJobs, which must survive the legacy calls *)

LegacyTypeOK ==
  /\ TypeOK
  /\ call \in [step : Step, index : ManagedIndex, candidate : DeviceProfile,
               renew : BOOLEAN, prior : Certainty]
  /\ view \in [config : ConfigValue, calibration : Calibrations]
  /\ conversion \in Conversion
  /\ adc \in Adc

(* Where the legacy code decides by the view (_readConversionReadyAt) and  *)
(* the rest by the profile (_ensureMeasurementReadyForRead), they agree:   *)
(* the view may differ only while measurement reads are refused.  The      *)
(* shunts it shows are at all times those that currents are converted by.  *)
ViewAgrees ==
  /\ certainty.measurement = "APPLIED" => view.config = profile.config
  /\ bound => view.calibration = profile.calibration

(* The legacy calls, mixed with the owner's jobs, keep what the driver     *)
(* claims to know about the device true and in agreement: the families,    *)
(* the dirty flag and the legacy view.                                     *)
CertaintyIsHonest == AppliedIsTrue /\ DirtyFlagAgrees /\ ViewAgrees

(* The readiness that lets a measurement read of a triggered mode through  *)
(* belongs to a conversion that has ended under the present Configuration, *)
(* and an outstanding conversion never misses its CVRF because another     *)
(* call consumed it; only a read that failed, or a reset of the device,    *)
(* may lose it.  Not while a call rewrites Configuration.                  *)
ReadinessIsAccounted ==
  \/ call.step = "VERIFY" /\ call.index = 0
  \/ conversion = "READY" /\ adc = "SHOWN"
  \/ conversion = "STARTED" /\ adc \in {"RUNNING", "FLAGGED", "LOST"}
  \/ conversion = "NONE"
  \/ 0 \in disturbed

-----------------------------------------------------------------------------
(* The inductive invariant behind the properties above *)

(* A running call found no job, and its candidate differs from the profile *)
(* only in the register it writes, not in the calibration; one that keeps  *)
(* the generation does not differ at all.                                  *)
CallIsPrepared ==
  call.step # "NONE" =>
    /\ job.state # "ACTIVE"
    /\ initialized
    /\ \A i \in ManagedIndex :
         i # call.index => RegisterMatches(call.candidate, profile, i)
    /\ call.candidate.calibration = profile.calibration
    /\ ~call.renew => call.candidate = profile

(* A written register is not claimed until it is verified; what the call   *)
(* may claim again of the other alert registers still holds.               *)
WrittenIsUnclaimed ==
  call.step = "VERIFY" =>
    /\ FamilyState(certainty, call.index) # "APPLIED"
    /\ call.index # 0 /\ call.prior.alert = "APPLIED" =>
         \A i \in AlertIndex : i # call.index => HoldsRetained(i)
    /\ call.index = 0 /\ isTriggeredMode(device.config.mode) => adc \in {"RUNNING", "FLAGGED"}

(* A job runs without a conversion, and a conversion without a job: its    *)
(* triggered mode is in the device unless the device has been reset.       *)
ConversionIsTriggered ==
  conversion # "NONE" =>
    /\ job.state # "ACTIVE"
    /\ \/ call.step = "VERIFY" /\ call.index = 0
       \/ isTriggeredMode(device.config.mode)
       \/ 0 \in disturbed

LegacyInv ==
  /\ LegacyTypeOK
  /\ CallIsPrepared
  /\ WrittenIsUnclaimed
  /\ ConversionIsTriggered
  /\ PowerDownIsMarked
  /\ SampleIsNotAhead

=============================================================================
