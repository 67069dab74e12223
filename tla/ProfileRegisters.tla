--------------------------- MODULE ProfileRegisters ---------------------------
(***************************************************************************)
(* The retained profile, the register words it stands for, and the calls   *)
(* that change the one by way of the other: profile jobs, typed setters,   *)
(* raw writes, the soft reset and a restart from the legacy settings.      *)
(*                                                                         *)
(* Modules OwnerJobs and LegacyApi treat a register as an abstract value   *)
(* and fail at every callback.  This module is their complement: words     *)
(* have bits, fields and reserved bits, every field has its range, and the *)
(* bus and the device work.  What remains is whether the driver's several  *)
(* ways of computing the same word agree after any sequence of calls.      *)
(*                                                                         *)
(* A call is one step.  Calls that validation refuses change nothing, and  *)
(* are not steps.                                                          *)
(***************************************************************************)
EXTENDS Integers, FiniteSets

CONSTANTS
  FloatBits,        \* significant bits of a float (24)
  MicroPerUnit,     \* micro-ohms per ohm
  MaxMicroOhms,     \* UINT32_MAX, the largest calibration
  Profiles,         \* the profiles an application binds or applies
  SettableModes, SettableAveragings, SettableTimes, SettableChannels,
  SettableLatches,  \* pairs of warning and critical latch
  SettableMicroOhms,
  LimitWords,       \* raw words for channel limits, as <<index, word>>
  SumWords, UpperWords, LowerWords, MaskWords, ConfigWords,  \* further raw words
  RawWrites,        \* what writeRegister16 is given, as <<register, word>>
  StatusBits        \* what Mask/Enable shows below its writable bits

(* The fixed-unit functions at the driver's widths. *)
Units == INSTANCE FixedUnits WITH
  WordBits <- 16, DataShift <- 3, DataBits <- 13, SumShift <- 1, SumBits <- 15,
  ShuntLsb <- 40, BusLsb <- 8, MaximumBus <- 26000, IntMax <- 2147483647,
  Resistances <- {}, Ranges <- {}, WindowWidths <- {}, input <- 0

-----------------------------------------------------------------------------
(* Fields *)

Channel == 0 .. 2

Field(word, low, width) == (word \div 2 ^ low) % 2 ^ width
Without(word, low, width) == word - Field(word, low, width) * 2 ^ low
IsSet(word, bit) == Field(word, bit, 1) = 1
Bit(condition, bit) == IF condition THEN 2 ^ bit ELSE 0

(* One bit per channel, the first channel at the highest. *)
ChannelBits(channels, top) ==
  Bit(0 \in channels, top) + Bit(1 \in channels, top - 1) + Bit(2 \in channels, top - 2)
BitsToChannels(word, top) == {c \in Channel : IsSet(word, top - c)}

isPowerDownMode(mode) == mode \in {0, 4}
isTriggeredMode(mode) == mode \in {1, 2, 3}
modeReadsShunt(mode) == mode \in {1, 3, 5, 7}
modeReadsBus(mode) == mode \in {2, 3, 6, 7}

(* The part of a profile that Configuration holds. *)
Settings == [channels : SUBSET Channel, averaging : 0 .. 7, vBusCt : 0 .. 7,
             vShCt : 0 .. 7, mode : 0 .. 7]

buildConfigRegister(s) ==
  ChannelBits(s.channels, 14) + s.averaging * 2 ^ 9 + s.vBusCt * 2 ^ 6 + s.vShCt * 2 ^ 3 + s.mode

DecodeConfig(word) ==
  [channels |-> BitsToChannels(word, 14), averaging |-> Field(word, 9, 3),
   vBusCt |-> Field(word, 6, 3), vShCt |-> Field(word, 3, 3), mode |-> Field(word, 0, 3)]

buildMaskEnable(alerts) ==
  ChannelBits(alerts.summation, 14) + Bit(alerts.warningLatch, 11) + Bit(alerts.criticalLatch, 10)

ResetSettings == [channels |-> Channel, averaging |-> 0, vBusCt |-> 4, vShCt |-> 4, mode |-> 7]

DefaultAlerts ==
  [critical |-> [c \in Channel |-> 163800], warning |-> [c \in Channel |-> 163800],
   summation |-> {}, sum |-> 655320, upper |-> 10000, lower |-> 9000,
   warningLatch |-> FALSE, criticalLatch |-> FALSE]

-----------------------------------------------------------------------------
(* Register addresses, and which words a healthy device holds *)

REG_CONFIG == 0
REG_SHUNT_SUM_LIMIT == 14
REG_MASK_ENABLE == 15
REG_PV_UPPER_LIMIT == 16
REG_PV_LOWER_LIMIT == 17

critRegAddr(c) == 7 + 2 * c
warnRegAddr(c) == 8 + 2 * c

LimitAddress == {critRegAddr(c) : c \in Channel} \union {warnRegAddr(c) : c \in Channel}

WritableAddress ==
  {REG_CONFIG, REG_SHUNT_SUM_LIMIT, REG_MASK_ENABLE, REG_PV_UPPER_LIMIT, REG_PV_LOWER_LIMIT}
    \union LimitAddress

(* Reserved bits read as zero, and RST clears itself. *)
Held(reg, word) ==
  CASE reg = REG_CONFIG -> Without(word, 15, 1)
    [] reg = REG_MASK_ENABLE -> Field(word, 10, 5) * 2 ^ 10
    [] reg = REG_SHUNT_SUM_LIMIT -> Without(word, 0, 1)
    [] OTHER -> Without(word, 0, 3)

ResetRegisters ==
  [reg \in WritableAddress |->
     CASE reg = REG_CONFIG -> 28967           \* 0x7127
       [] reg = REG_MASK_ENABLE -> 0          \* 0x0002, of which nothing is writable
       [] reg = REG_SHUNT_SUM_LIMIT -> 32766  \* 0x7FFE
       [] reg = REG_PV_UPPER_LIMIT -> 10000   \* 0x2710
       [] reg = REG_PV_LOWER_LIMIT -> 9000    \* 0x2328
       [] OTHER -> 32760]                     \* 0x7FF8

registerMatches_AllBits(reg, actual, desired) == actual = desired

registerMatches(reg, actual, desired) ==
  IF reg = REG_MASK_ENABLE THEN Field(actual, 10, 5) = Field(desired, 10, 5)
  ELSE IF reg = REG_CONFIG THEN Without(actual, 15, 1) = Without(desired, 15, 1)
  ELSE actual = desired

(* A job's index, its register and the word for a profile. *)
LastIndex == 10

RegisterAt(index) ==
  CASE index = 0 -> REG_CONFIG
    [] index \in 1 .. 6 /\ index % 2 = 1 -> critRegAddr((index - 1) \div 2)
    [] index \in 1 .. 6 /\ index % 2 = 0 -> warnRegAddr((index - 1) \div 2)
    [] index = 7 -> REG_SHUNT_SUM_LIMIT
    [] index = 8 -> REG_MASK_ENABLE
    [] index = 9 -> REG_PV_UPPER_LIMIT
    [] index = 10 -> REG_PV_LOWER_LIMIT

DesiredWord(index, p) ==
  LET channel == (index - 1) \div 2 IN
  CASE index = 0 -> buildConfigRegister(p.settings)
    [] index \in 1 .. 6 /\ index % 2 = 1 -> Units!encodeShuntMicroVolts(p.alerts.critical[channel]).value
    [] index \in 1 .. 6 /\ index % 2 = 0 -> Units!encodeShuntMicroVolts(p.alerts.warning[channel]).value
    [] index = 7 -> Units!encodeShuntSumMicroVolts(p.alerts.sum).value
    [] index = 8 -> buildMaskEnable(p.alerts)
    [] index = 9 -> Units!encodeBusMilliVolts(p.alerts.upper).value
    [] index = 10 -> Units!encodeBusMilliVolts(p.alerts.lower).value

-----------------------------------------------------------------------------
(* Validation *)

ValidSettings(s) ==
  /\ s \in Settings
  /\ isPowerDownMode(s.mode) \/ s.channels # {}

validateProfile(p) ==
  /\ ValidSettings(p.settings)
  /\ p.alerts.summation \subseteq p.settings.channels
  /\ \A c \in p.settings.channels : p.resistance[c] # 0
  /\ \A c \in Channel : /\ Units!encodeShuntMicroVolts(p.alerts.critical[c]).ok
                        /\ Units!encodeShuntMicroVolts(p.alerts.warning[c]).ok
  /\ Units!encodeShuntSumMicroVolts(p.alerts.sum).ok
  /\ Units!validatePowerValidWindow(p.alerts.lower, p.alerts.upper)

-----------------------------------------------------------------------------
(* The legacy view keeps a resistance as a float number of ohms: mantissa  *)
(* / 2^scale, with a mantissa of FloatBits bits.                           *)

RoundHalfEven(n, d) ==
  LET quotient == n \div d
      rest == 2 * (n % d)
  IN IF rest > d \/ (rest = d /\ quotient % 2 = 1) THEN quotient + 1 ELSE quotient

(* The float nearest to an integer, which drops the bits below FloatBits. *)
NearestFloat(n) ==
  IF n < 2 ^ FloatBits THEN n
  ELSE LET low == CHOOSE k \in 1 .. FloatBits :
                    n >= 2 ^ (FloatBits + k - 1) /\ n < 2 ^ (FloatBits + k)
       IN RoundHalfEven(n, 2 ^ low) * 2 ^ low

(* The quotient is scaled to FloatBits bits before it is rounded. *)
IsScale(n, k) ==
  /\ n * 2 ^ k < 2 ^ FloatBits * MicroPerUnit
  /\ n * 2 ^ (k + 1) >= 2 ^ FloatBits * MicroPerUnit

FloatOhms(micro) ==
  IF micro = 0 THEN [mantissa |-> 0, scale |-> 0]
  ELSE LET n == NearestFloat(micro)
           scale == CHOOSE k \in 0 .. 2 * FloatBits : IsScale(n, k)
       IN [mantissa |-> RoundHalfEven(n * 2 ^ scale, MicroPerUnit), scale |-> scale]

(* A double holds the product exactly.  Less than one micro-ohm, or more   *)
(* than a uint32 holds, is no calibration: 0 for a disabled channel, and a *)
(* refusal for an enabled one, as validateProfile refuses 0.               *)
MicroOhms_Truncated(ohms) ==
  LET product == ohms.mantissa * MicroPerUnit
      one == 2 ^ ohms.scale
  IN IF product < one \/ product > MaxMicroOhms * one THEN 0 ELSE product \div one

MicroOhms(ohms) ==
  LET product == ohms.mantissa * MicroPerUnit
      one == 2 ^ ohms.scale
  IN IF product < one \/ product > MaxMicroOhms * one THEN 0
     ELSE (2 * product + one) \div (2 * one)

syncLegacyConfigViewFromProfile(p) ==
  [settings |-> p.settings, ohms |-> [c \in Channel |-> FloatOhms(p.resistance[c])]]

legacyToContracts(legacy) ==
  [settings |-> legacy.settings,
   resistance |-> [c \in Channel |-> MicroOhms(legacy.ohms[c])],
   alerts |-> DefaultAlerts]

-----------------------------------------------------------------------------
(* Timing *)

convTimeMaximumUs == [ct \in 0 .. 7 |->
  CASE ct = 0 -> 154 [] ct = 1 -> 224 [] ct = 2 -> 365 [] ct = 3 -> 646
    [] ct = 4 -> 1210 [] ct = 5 -> 2328 [] ct = 6 -> 4572 [] ct = 7 -> 9068]

convTimeUs == [ct \in 0 .. 7 |->
  CASE ct = 0 -> 140 [] ct = 1 -> 204 [] ct = 2 -> 332 [] ct = 3 -> 588
    [] ct = 4 -> 1100 [] ct = 5 -> 2116 [] ct = 6 -> 4156 [] ct = 7 -> 8244]

averagingSampleCount == [avg \in 0 .. 7 |->
  CASE avg = 0 -> 1 [] avg = 1 -> 4 [] avg = 2 -> 16 [] avg = 3 -> 64
    [] avg = 4 -> 128 [] avg = 5 -> 256 [] avg = 6 -> 512 [] avg = 7 -> 1024]

CycleTimeUs(s, time) ==
  ((IF modeReadsShunt(s.mode) THEN time[s.vShCt] ELSE 0) +
   (IF modeReadsBus(s.mode) THEN time[s.vBusCt] ELSE 0))
  * Cardinality(s.channels) * averagingSampleCount[s.averaging]

maximumCycleTimeUs(s) == CycleTimeUs(s, convTimeMaximumUs)
getCycleTimeUs(legacy) == CycleTimeUs(legacy.settings, convTimeUs)

WakeMarginUs == 100

conversionReadyDelayMs(s) == (maximumCycleTimeUs(s) + WakeMarginUs + 999) \div 1000

-----------------------------------------------------------------------------
(* What the constants stand for.  Enumerations and masks arrive as numbers *)
(* and sets of channels, of which _validateProfile takes the valid ones.   *)

Calibration == 0 .. MaxMicroOhms

RequestedSettings == [channels : SUBSET Channel, averaging : Nat, vBusCt : Nat, vShCt : Nat,
                      mode : Nat]

AlertProfiles == [critical : [Channel -> Int], warning : [Channel -> Int],
                  summation : SUBSET Channel, sum : Int, upper : Int, lower : Int,
                  warningLatch : BOOLEAN, criticalLatch : BOOLEAN]

DeviceProfiles == [settings : RequestedSettings, resistance : [Channel -> Calibration],
                   alerts : AlertProfiles]

RawWords == 0 .. Units!Word - 1

(* The sizes of float and uint32: 2^24 <= 2^32 - 1 and so on. *)
FloatAssumption ==
  /\ {FloatBits, MicroPerUnit, MaxMicroOhms} \subseteq Nat \ {0}
  /\ MicroPerUnit <= 2 ^ (FloatBits + 1)
  /\ 2 ^ FloatBits <= MaxMicroOhms
  /\ MaxMicroOhms < 2 ^ (2 * FloatBits)
  /\ 2 * MaxMicroOhms < 2 ^ FloatBits * MicroPerUnit

ASSUME ProfileRegistersAssumption ==
  /\ FloatAssumption
  /\ Profiles \subseteq DeviceProfiles
  /\ SettableModes \cup SettableAveragings \cup SettableTimes \subseteq 0 .. 7
  /\ SettableChannels \subseteq Channel
  /\ SettableLatches \subseteq BOOLEAN \X BOOLEAN
  /\ SettableMicroOhms \subseteq Calibration \ {0}
  /\ LimitWords \subseteq (1 .. 6) \X RawWords
  /\ SumWords \cup UpperWords \cup LowerWords \cup MaskWords \cup ConfigWords \subseteq RawWords
  /\ RawWrites \subseteq Nat \X RawWords
  /\ StatusBits \subseteq 0 .. 2 ^ 10 - 1

-----------------------------------------------------------------------------
VARIABLES
  profile,     \* _profile
  registers,   \* the device's words, at the writable addresses
  applied,     \* the families whose state is APPLIED
  view,        \* _legacyConfigView
  viewed,      \* ghost: Configuration was last written by a call that updates the view
  conversion,  \* a legacy conversion: its state and _conversionReadyDelayMs
  outcome      \* the last call's status

vars == <<profile, registers, applied, view, viewed, conversion, outcome>>

Family == {"MEASUREMENT", "ALERT"}
FamilyOf(reg) == IF reg = REG_CONFIG THEN "MEASUREMENT" ELSE "ALERT"

NoConversion == [state |-> "NONE", delay |-> 0]

(* Started by a write of Configuration in a triggered mode. *)
ConversionUnder(s) ==
  IF isTriggeredMode(s.mode)
    THEN [state |-> "STARTED", delay |-> conversionReadyDelayMs(s)]
    ELSE NoConversion

(* A read of Mask/Enable may find CVRF set. *)
MaybeReady ==
  {conversion} \union
  IF conversion.state = "STARTED" THEN {[conversion EXCEPT !.state = "READY"]} ELSE {}

-----------------------------------------------------------------------------
(* Profile jobs: every register is read, written only if it differs, and   *)
(* read again.                                                             *)

AfterProfileJob(p) ==
  [reg \in WritableAddress |->
     LET index == CHOOSE i \in 0 .. LastIndex : RegisterAt(i) = reg
         desired == DesiredWord(index, p)
     IN IF registerMatches(reg, registers[reg], desired) THEN registers[reg] ELSE Held(reg, desired)]

JobVerifies(p) ==
  \A i \in 0 .. LastIndex, status \in StatusBits :
    LET reg == RegisterAt(i)
        actual == AfterProfileJob(p)[reg] + IF reg = REG_MASK_ENABLE THEN status ELSE 0
    IN registerMatches(reg, actual, DesiredWord(i, p))

ProfileJob(p) ==
  /\ registers' = AfterProfileJob(p)
  /\ conversion' = NoConversion
  /\ IF JobVerifies(p)
       THEN /\ profile' = p
            /\ view' = syncLegacyConfigViewFromProfile(p)
            /\ viewed' = TRUE
            /\ applied' = Family
            /\ outcome' = "OK"
       ELSE /\ outcome' = "PROFILE_MISMATCH"
            /\ viewed' = FALSE
            /\ applied' = {}
            /\ UNCHANGED <<profile, view>>

ApplyProfile ==
  \E p \in Profiles :
    /\ validateProfile(p)
    /\ ProfileJob(p)

Reconcile == validateProfile(profile) /\ ProfileJob(profile)

ApplyMaskEnable ==
  \E word \in MaskWords :
    LET p == [profile EXCEPT !.alerts.summation = BitsToChannels(word, 14),
                             !.alerts.warningLatch = IsSet(word, 11),
                             !.alerts.criticalLatch = IsSet(word, 10)]
    IN validateProfile(p) /\ ProfileJob(p)

(* begin with the settings of getConfig: the alert limits are not among    *)
(* them.                                                                   *)
Restart ==
  LET p == legacyToContracts(view)
  IN validateProfile(p) /\ ProfileJob(p)

-----------------------------------------------------------------------------
(* Typed setters write one register and verify it, and retain the profile  *)
(* only then.  The flags that are read before a write of Mask/Enable show  *)
(* nothing new on a device that no one else resets.                        *)

Verifies(reg, word) ==
  \A status \in StatusBits :
    registerMatches(reg, Held(reg, word) + IF reg = REG_MASK_ENABLE THEN status ELSE 0, word)

WriteVerified(reg, word, p) ==
  /\ registers' = [registers EXCEPT ![reg] = Held(reg, word)]
  /\ IF Verifies(reg, word)
       THEN /\ profile' = p
            /\ applied' = applied \union (IF reg = REG_CONFIG THEN {"MEASUREMENT"} ELSE {})
            /\ outcome' = "OK"
       ELSE /\ outcome' = "PROFILE_MISMATCH"
            /\ applied' = applied \ {FamilyOf(reg)}
            /\ UNCHANGED profile

applyConfigVerified(p) ==
  /\ WriteVerified(REG_CONFIG, buildConfigRegister(p.settings), p)
  /\ IF outcome' = "OK"
       THEN /\ view' = syncLegacyConfigViewFromProfile(p)
            /\ viewed' = TRUE
            /\ conversion' = ConversionUnder(p.settings)
       ELSE /\ conversion' = NoConversion
            /\ viewed' = FALSE
            /\ UNCHANGED view

WriteAlert(reg, word, p) ==
  /\ WriteVerified(reg, word, p)
  /\ conversion' \in IF reg = REG_MASK_ENABLE THEN MaybeReady ELSE {conversion}
  /\ UNCHANGED <<view, viewed>>

SetTiming ==
  \/ \E avg \in SettableAveragings :
       applyConfigVerified([profile EXCEPT !.settings.averaging = avg])
  \/ \E ct \in SettableTimes :
       \/ applyConfigVerified([profile EXCEPT !.settings.vBusCt = ct])
       \/ applyConfigVerified([profile EXCEPT !.settings.vShCt = ct])

SetMode ==
  \E mode \in SettableModes :
    LET p == [profile EXCEPT !.settings.mode = mode]
    IN validateProfile(p) /\ applyConfigVerified(p)

SetChannelEnable_Unvalidated ==
  \E c \in SettableChannels, enable \in BOOLEAN :
    applyConfigVerified(
      [profile EXCEPT !.settings.channels = IF enable THEN @ \union {c} ELSE @ \ {c}])

SetChannelEnable ==
  \E c \in SettableChannels, enable \in BOOLEAN :
    LET p == [profile EXCEPT !.settings.channels = IF enable THEN @ \union {c} ELSE @ \ {c}]
    IN validateProfile(p) /\ applyConfigVerified(p)

StartConversion ==
  /\ isTriggeredMode(profile.settings.mode)
  /\ profile.settings.channels # {}
  /\ conversion.state # "STARTED"
  /\ applyConfigVerified(profile)

StartConversionIn ==
  /\ profile.settings.channels # {}
  /\ conversion.state # "STARTED"
  /\ \E mode \in SettableModes :
       LET p == [profile EXCEPT !.settings.mode = mode] IN
       /\ isTriggeredMode(mode)
       /\ validateProfile(p)
       /\ applyConfigVerified(p)

SetChannelLimit ==
  \E entry \in LimitWords :
    LET index == entry[1]
        word == Without(entry[2], 0, 3)
        limit == Units!decodeShuntMicroVolts(word)
        c == (index - 1) \div 2
    IN IF index % 2 = 1
         THEN WriteAlert(critRegAddr(c), word, [profile EXCEPT !.alerts.critical[c] = limit])
         ELSE WriteAlert(warnRegAddr(c), word, [profile EXCEPT !.alerts.warning[c] = limit])

SetShuntSumLimit_WrongWidth ==
  \E raw \in SumWords :
    LET word == Without(raw, 0, 1)
    IN WriteAlert(REG_SHUNT_SUM_LIMIT, word,
                  [profile EXCEPT !.alerts.sum = Units!decodeShuntMicroVolts(word)])

SetShuntSumLimit ==
  \E raw \in SumWords :
    LET word == Without(raw, 0, 1)
    IN WriteAlert(REG_SHUNT_SUM_LIMIT, word,
                  [profile EXCEPT !.alerts.sum = Units!SignExtendField(word, 1, 15) * 40])

(* The sign bit is masked, so a limit below zero becomes a high one. *)
PowerValidWord(raw) == Without(Without(raw, 15, 1), 0, 3)

SetPowerValidUpperLimit ==
  \E raw \in UpperWords :
    LET word == PowerValidWord(raw)
        limit == Units!decodeBusMilliVolts(word)
    IN /\ Units!validatePowerValidWindow(profile.alerts.lower, limit)
       /\ WriteAlert(REG_PV_UPPER_LIMIT, word, [profile EXCEPT !.alerts.upper = limit])

SetPowerValidLowerLimit ==
  \E raw \in LowerWords :
    LET word == PowerValidWord(raw)
        limit == Units!decodeBusMilliVolts(word)
    IN /\ Units!validatePowerValidWindow(limit, profile.alerts.upper)
       /\ WriteAlert(REG_PV_LOWER_LIMIT, word, [profile EXCEPT !.alerts.lower = limit])

SetSummationChannels ==
  \E channels \in SUBSET SettableChannels :
    LET p == [profile EXCEPT !.alerts.summation = channels] IN
    /\ validateProfile(p)
    /\ WriteAlert(REG_MASK_ENABLE, buildMaskEnable(p.alerts), p)

SetAlertLatchEnable ==
  \E latches \in SettableLatches :
    LET p == [profile EXCEPT !.alerts.warningLatch = latches[1],
                             !.alerts.criticalLatch = latches[2]]
    IN WriteAlert(REG_MASK_ENABLE, buildMaskEnable(p.alerts), p)

SetShuntResistance ==
  \E c \in SettableChannels, micro \in SettableMicroOhms :
    /\ MicroOhms(FloatOhms(micro)) # 0
    /\ profile' = [profile EXCEPT !.resistance[c] = MicroOhms(FloatOhms(micro))]
    /\ view' = [view EXCEPT !.ohms[c] = FloatOhms(profile'.resistance[c])]
    /\ outcome' = "OK"
    /\ UNCHANGED <<registers, applied, viewed, conversion>>

-----------------------------------------------------------------------------
(* Raw writes are not verified.  Either of them with the reset bit set is a *)
(* SoftReset.                                                              *)

SoftReset ==
  /\ registers' = ResetRegisters
  /\ applied' = {}
  /\ view' = [view EXCEPT !.settings = ResetSettings]
  /\ viewed' = TRUE
  /\ conversion' = NoConversion
  /\ outcome' = "OK"
  /\ UNCHANGED profile

WriteConfig ==
  \E word \in ConfigWords :
    /\ ~IsSet(word, 15)
    /\ ValidSettings(DecodeConfig(word))
    /\ registers' = [registers EXCEPT ![REG_CONFIG] = Held(REG_CONFIG, word)]
    /\ applied' = applied \ {"MEASUREMENT"}
    /\ view' = [view EXCEPT !.settings = DecodeConfig(word)]
    /\ viewed' = TRUE
    /\ conversion' = ConversionUnder(DecodeConfig(word))
    /\ outcome' = "OK"
    /\ UNCHANGED profile

WriteRegister16 ==
  \E write \in RawWrites :
    LET reg == write[1]
        word == write[2]
    IN /\ reg \in WritableAddress
       /\ reg = REG_CONFIG => ~IsSet(word, 15)
       /\ registers' = [registers EXCEPT ![reg] = Held(reg, word)]
       /\ applied' = applied \ {FamilyOf(reg)}
       /\ viewed' = (viewed /\ reg # REG_CONFIG)
       /\ conversion' = IF reg = REG_CONFIG THEN NoConversion ELSE conversion
       /\ outcome' = "OK"
       /\ UNCHANGED <<profile, view>>

-----------------------------------------------------------------------------
(* Measurement reads.  They change nothing, but may find the conversion    *)
(* ready.                                                                  *)

ReadFrame ==
  /\ outcome' = "OK"
  /\ UNCHANGED <<profile, registers, applied, view, viewed>>

ensureMeasurementReadyForRead_AnyState == TRUE

ensureMeasurementReadyForRead ==
  /\ "MEASUREMENT" \in applied
  /\ isTriggeredMode(profile.settings.mode) => conversion.state # "NONE"

validateMeasurementRead(c, quantities) ==
  /\ c \in profile.settings.channels
  /\ "SHUNT" \in quantities => modeReadsShunt(profile.settings.mode)
  /\ "BUS" \in quantities => modeReadsBus(profile.settings.mode)

AdmitsRead(channels, quantities) ==
  /\ \A c \in channels : validateMeasurementRead(c, quantities)
  /\ ensureMeasurementReadyForRead

AdmitsSumRead ==
  /\ modeReadsShunt(profile.settings.mode)
  /\ profile.alerts.summation # {}
  /\ "ALERT" \in applied
  /\ ensureMeasurementReadyForRead

Quantities == {{"SHUNT"}, {"BUS"}, {"SHUNT", "BUS"}}

ReadMeasurement ==
  /\ AdmitsSumRead \/ \E c \in Channel, quantities \in Quantities : AdmitsRead({c}, quantities)
  /\ conversion' \in MaybeReady
  /\ ReadFrame

ReadConversionReady ==
  /\ conversion.state = "STARTED"
  /\ conversion' \in MaybeReady
  /\ ReadFrame

CancelConversion ==
  /\ conversion.state = "STARTED"
  /\ conversion' = NoConversion
  /\ ReadFrame

-----------------------------------------------------------------------------
(* begin with a valid profile on a device that has just been powered up.   *)
Init ==
  /\ profile \in {p \in Profiles : validateProfile(p)}
  /\ registers =
       [reg \in WritableAddress |->
          LET index == CHOOSE i \in 0 .. LastIndex : RegisterAt(i) = reg
          IN IF registerMatches(reg, ResetRegisters[reg], DesiredWord(index, profile))
               THEN ResetRegisters[reg] ELSE Held(reg, DesiredWord(index, profile))]
  /\ applied = Family
  /\ view = syncLegacyConfigViewFromProfile(profile)
  /\ viewed = TRUE
  /\ conversion = NoConversion
  /\ outcome = "OK"

Next ==
  \/ ApplyProfile \/ Reconcile \/ ApplyMaskEnable \/ Restart
  \/ SetTiming \/ SetMode \/ SetChannelEnable \/ StartConversion \/ StartConversionIn
  \/ SetChannelLimit \/ SetShuntSumLimit \/ SetPowerValidUpperLimit \/ SetPowerValidLowerLimit
  \/ SetSummationChannels \/ SetAlertLatchEnable \/ SetShuntResistance
  \/ SoftReset \/ WriteConfig \/ WriteRegister16
  \/ ReadMeasurement \/ ReadConversionReady \/ CancelConversion

Spec == Init /\ [][Next]_vars

-----------------------------------------------------------------------------
(* Properties *)

TypeOK ==
  /\ profile \in DeviceProfiles
  /\ registers \in [WritableAddress -> RawWords]
  /\ applied \subseteq Family
  /\ view \in [settings : Settings, ohms : {[c \in Channel |-> FloatOhms(profile.resistance[c])]}]
  /\ viewed \in BOOLEAN
  /\ conversion \in [state : {"NONE", "STARTED", "READY"}, delay : Nat]

(* No sequence of setters, each of which validates only what it touches,   *)
(* leaves a profile that bind or startReconcile would refuse.              *)
ProfileStaysValid == validateProfile(profile)

(* The word a setter writes, the value it retains and the word a later     *)
(* profile job computes from that value are the same: as long as a family  *)
(* is APPLIED, its registers hold the profile (INA3221.h, AppliedConfigState). *)
RegistersHoldTheProfile ==
  \A i \in 0 .. LastIndex :
    FamilyOf(RegisterAt(i)) \in applied =>
      registerMatches(RegisterAt(i), registers[RegisterAt(i)], DesiredWord(i, profile))

(* Whatever passes validation can be held by a healthy device: no call     *)
(* writes a reserved bit and then reports a mismatch about it.             *)
HealthyDeviceVerifies == outcome # "PROFILE_MISMATCH"

(* getConfig and the typed getters show what Configuration holds, unless   *)
(* it was written by writeRegister16; and a restart from them keeps the    *)
(* measurement settings, and calibrations of less than FloatBits - 1 bits  *)
(* but for 1 micro-ohm, whose float may be below it and is refused then.   *)
LegacyViewIsTrue ==
  /\ viewed => registers[REG_CONFIG] = buildConfigRegister(legacyToContracts(view).settings)
  /\ \A c \in Channel :
       profile.resistance[c] # 1 /\ profile.resistance[c] < 2 ^ (FloatBits - 1) =>
         legacyToContracts(view).resistance[c] = profile.resistance[c]

(* A measurement that is read is one the device is configured to make, and *)
(* the wait for a legacy conversion covers the longest cycle of what       *)
(* Configuration holds, and so the time getCycleTimeUs tells.              *)
ReadingsAreMeasured ==
  LET actual == DecodeConfig(registers[REG_CONFIG])
      Measured(channels, quantities) ==
        /\ channels \subseteq actual.channels
        /\ "SHUNT" \in quantities => modeReadsShunt(actual.mode)
        /\ "BUS" \in quantities => modeReadsBus(actual.mode)
  IN
  /\ \A c \in Channel, quantities \in Quantities :
       AdmitsRead({c}, quantities) => Measured({c}, quantities)
  /\ AdmitsSumRead => Measured(BitsToChannels(registers[REG_MASK_ENABLE], 14), {"SHUNT"})
  /\ conversion.state # "NONE" =>
       /\ isTriggeredMode(actual.mode)
       /\ conversion.delay * 1000 >= maximumCycleTimeUs(actual) + WakeMarginUs
       /\ maximumCycleTimeUs(actual) >= getCycleTimeUs(view)

-----------------------------------------------------------------------------
(* The inductive invariant: the five properties need each other, and what  *)
(* a healthy device can hold at all.                                       *)

Holdable(reg, word) == word \in RawWords /\ Held(reg, word) = word

WordsAreHoldable == \A reg \in WritableAddress : Holdable(reg, registers[reg])

(* A conversion is of what getConfig shows, and that is what the device    *)
(* has: every call that writes Configuration unseen ends the conversion.   *)
ConversionIsViewed ==
  conversion.state # "NONE" =>
    /\ viewed
    /\ isTriggeredMode(view.settings.mode)
    /\ conversion.delay = conversionReadyDelayMs(view.settings)

ViewHolds == viewed => registers[REG_CONFIG] = buildConfigRegister(view.settings)

ProfileIInv ==
  /\ TypeOK
  /\ ProfileStaysValid
  /\ WordsAreHoldable
  /\ RegistersHoldTheProfile
  /\ HealthyDeviceVerifies
  /\ ViewHolds
  /\ ConversionIsViewed
=============================================================================
