--------------------------- MODULE ManagedRegisters ---------------------------
(***************************************************************************)
(* The registers of the INA3221 that the driver manages, and the profile   *)
(* it keeps of them.                                                       *)
(*                                                                         *)
(* A DeviceProfile is seen as the register image that _desiredRegister     *)
(* encodes from it, and the calibration of the shunts, which is in no      *)
(* register.  The image has one Configuration value, and one value for     *)
(* each register of the alert family, in the order in which the profile    *)
(* jobs visit them.  Index 0 is the Configuration register, the whole of   *)
(* the measurement family; indices 1 .. LastIndex are the alert family (in *)
(* the driver LastIndex = 10).  A register value only matters up to        *)
(* _registerMatches, so the read-only bits of Mask/Enable and the RST bit  *)
(* are no part of it.                                                      *)
(***************************************************************************)
EXTENDS Naturals

CONSTANTS
  LastIndex,     \* last managed register index (MANAGED_PROFILE_REGISTER_COUNT - 1)
  Settings,      \* channel enables, averaging and conversion times of CONFIG
  Limits,        \* encoded values of an alert-family register
  Calibrations,  \* resistances and directions of the three shunts
  ResetSetting,  \* the Settings that a device reset leaves in CONFIG
  ResetLimit,    \* the value a device reset leaves in an alert register
  DefaultCalibration  \* the shunts of a profile or Config nobody has filled in

ASSUME ManagedRegistersAssumption ==
  /\ LastIndex \in Nat \ {0}
  /\ ResetSetting \in Settings
  /\ ResetLimit \in Limits
  /\ DefaultCalibration \in Calibrations

(* The driver distinguishes three classes of operating mode. *)
Mode == {"POWER_DOWN", "TRIGGERED", "CONTINUOUS"}

isTriggeredMode(mode) == mode = "TRIGGERED"
isContinuousMode(mode) == mode = "CONTINUOUS"

ManagedIndex == 0 .. LastIndex
AlertIndex == 1 .. LastIndex

ConfigValue == [mode : Mode, settings : Settings]

RegisterImage == [config : ConfigValue, alerts : [AlertIndex -> Limits]]

DeviceProfile ==
  [config : ConfigValue, alerts : [AlertIndex -> Limits], calibration : Calibrations]

(* The value of managed register i under profile p (_desiredRegister), or  *)
(* in image p.                                                             *)
DesiredRegister(p, i) == IF i = 0 THEN p.config ELSE p.alerts[i]

(* Image or profile p after a write of v to managed register i. *)
WithRegister(p, i, v) ==
  IF i = 0 THEN [p EXCEPT !.config = v] ELSE [p EXCEPT !.alerts[i] = v]

RegisterMatches(p, q, i) == DesiredRegister(p, i) = DesiredRegister(q, i)

(* startPowerDown: the retained profile with mode POWER_DOWN. *)
PoweredDown(p) == [p EXCEPT !.config.mode = "POWER_DOWN"]

(* What a power cycle or reset of the device leaves in its registers. *)
ResetImage ==
  [config |-> [mode |-> "CONTINUOUS", settings |-> ResetSetting],
   alerts |-> [i \in AlertIndex |-> ResetLimit]]

(* DeviceProfile{}: the register defaults. *)
DefaultProfile ==
  [config |-> ResetImage.config, alerts |-> ResetImage.alerts,
   calibration |-> DefaultCalibration]

-----------------------------------------------------------------------------
(* Certainty about the two register families. *)

AppliedConfigState == {"UNKNOWN", "APPLIED", "DIRTY"}

Certainty ==
  [measurement : AppliedConfigState, alert : AppliedConfigState, dirty : BOOLEAN]

(* State of register i's family in certainty c. *)
FamilyState(c, i) == IF i = 0 THEN c.measurement ELSE c.alert

WithFamilyState(c, i, s) ==
  IF i = 0 THEN [c EXCEPT !.measurement = s, !.dirty = TRUE]
           ELSE [c EXCEPT !.alert = s, !.dirty = TRUE]

(* _markRegisterUnknown and _markRegisterDirty: DIRTY never replaces UNKNOWN. *)
MarkUnknown(c, i) == WithFamilyState(c, i, "UNKNOWN")

MarkDirty(c, i) ==
  WithFamilyState(c, i, IF FamilyState(c, i) = "UNKNOWN" THEN "UNKNOWN" ELSE "DIRTY")

UnknownCertainty == [measurement |-> "UNKNOWN", alert |-> "UNKNOWN", dirty |-> FALSE]
AppliedCertainty == [measurement |-> "APPLIED", alert |-> "APPLIED", dirty |-> FALSE]

=============================================================================
