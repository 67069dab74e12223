------------------------------ MODULE FixedUnits ------------------------------
(***************************************************************************)
(* The fixed-unit arithmetic: encoding and decoding of register fields,    *)
(* current, power, and the conversion of a raw channel with its mask of    *)
(* valid quantities.                                                       *)
(*                                                                         *)
(* The functions are static and pure.  The specification takes an input to *)
(* its successor, so that its properties relate the results for one value, *)
(* and for two successive ones, to definitions without division.  The      *)
(* 64-bit intermediate results cannot overflow; the 32-bit results can,    *)
(* beyond IntMax.                                                          *)
(***************************************************************************)
EXTENDS Integers

CONSTANTS
  WordBits,               \* width of a register
  DataShift, DataBits,    \* shunt and bus field: shift and width
  SumShift, SumBits,      \* shunt-sum field
  ShuntLsb, BusLsb,       \* microvolts and millivolts of the lowest bit
  MaximumBus,             \* kMaximumBusMilliVolts
  IntMax,                 \* INT32_MAX
  Resistances,            \* the values of resistanceMicroOhms, 0 for none
  Ranges,                 \* first and last of each range of inputs
  WindowWidths            \* how far the upper limit of a window is above the lower

ASSUME FixedUnitsAssumption ==
  /\ {WordBits, DataBits, SumBits, ShuntLsb, BusLsb} \subseteq Nat \ {0}
  /\ DataShift \in Nat /\ DataShift + DataBits = WordBits
  /\ SumShift \in Nat /\ SumShift + SumBits = WordBits
  /\ \E steps \in 0 .. MaximumBus : MaximumBus = steps * BusLsb
  /\ MaximumBus \in Nat /\ IntMax \in Nat
  /\ Resistances \subseteq Nat
  /\ Ranges \subseteq Int \X Int
  /\ WindowWidths \subseteq Int

VARIABLE input

ErrorResult == [ok |-> FALSE, value |-> 0]
OkResult(value) == [ok |-> TRUE, value |-> value]

-----------------------------------------------------------------------------
(* C++ division truncates towards zero; \div rounds down. *)
Truncated(a, b) == IF a >= 0 THEN a \div b ELSE -((-a) \div b)

RoundDivide_Truncating(numerator, denominator) ==
  IF denominator <= 0 THEN 0 ELSE Truncated(numerator, denominator)

RoundDivide(numerator, denominator) ==
  IF denominator <= 0 THEN 0
  ELSE IF numerator >= 0
    THEN Truncated(numerator + denominator \div 2, denominator)
    ELSE Truncated(numerator - denominator \div 2, denominator)

Word == 2 ^ WordBits

(* A field of the register, sign-extended *)
SignExtendField(raw, shift, width) ==
  LET value == (raw \div 2 ^ shift) % 2 ^ width
  IN IF value >= 2 ^ (width - 1) THEN value - 2 ^ width ELSE value

InField_Symmetric(code, width) == code > -(2 ^ (width - 1)) /\ code < 2 ^ (width - 1)

InField(code, width) == code >= -(2 ^ (width - 1)) /\ code < 2 ^ (width - 1)

Encode(value, lsb, shift, width) ==
  LET code == RoundDivide(value, lsb) IN
  IF InField(code, width) THEN OkResult(((code % Word) * 2 ^ shift) % Word) ELSE ErrorResult

decodeShuntMicroVolts(raw) == SignExtendField(raw, DataShift, DataBits) * ShuntLsb
decodeBusMilliVolts(raw) == SignExtendField(raw, DataShift, DataBits) * BusLsb
encodeShuntMicroVolts(value) == Encode(value, ShuntLsb, DataShift, DataBits)
encodeBusMilliVolts(value) == Encode(value, BusLsb, DataShift, DataBits)
encodeShuntSumMicroVolts(value) == Encode(value, ShuntLsb, SumShift, SumBits)

validatePowerValidWindow(lower, upper) ==
  /\ lower < upper
  /\ upper <= MaximumBus
  /\ encodeBusMilliVolts(lower).ok
  /\ encodeBusMilliVolts(upper).ok

-----------------------------------------------------------------------------
InInt(n) == -IntMax - 1 <= n /\ n <= IntMax

(* A calibration is a resistance and a direction, 1 or -1. *)
calculateCurrentMilliAmps(microVolts, calibration) ==
  LET result == RoundDivide(microVolts * 1000 * calibration.direction,
                            calibration.resistance)
  IN IF calibration.resistance # 0 /\ InInt(result) THEN OkResult(result) ELSE ErrorResult

calculatePowerMilliWatts(milliVolts, milliAmps) ==
  LET result == RoundDivide(milliVolts * milliAmps, 1000)
  IN IF InInt(result) THEN OkResult(result) ELSE ErrorResult

BusInRange(milliVolts) == milliVolts >= 0 /\ milliVolts <= MaximumBus

NoReading == [valid |-> {}, shunt |-> 0, bus |-> 0, current |-> 0, power |-> 0]

(* What is left of a reading whose current is refused *)
WithoutCurrent_Marked(microVolts) ==
  [NoReading EXCEPT !.valid = {"SHUNT", "CURRENT"}, !.shunt = microVolts]

WithoutCurrent(microVolts) ==
  [NoReading EXCEPT !.valid = {"SHUNT"}, !.shunt = microVolts]

(* Whether the conversion succeeds, and the reading it leaves: it stops at *)
(* the first overflow.                                                     *)
convertRawChannel(shuntRaw, busRaw, requested, calibration) ==
  LET shunt == IF "SHUNT" \in requested THEN decodeShuntMicroVolts(shuntRaw) ELSE 0
      current == calculateCurrentMilliAmps(shunt, calibration)
      bus == decodeBusMilliVolts(busRaw)
      withShunt ==
        IF "SHUNT" \in requested
          THEN [NoReading EXCEPT !.valid = {"SHUNT", "CURRENT"}, !.shunt = shunt,
                                 !.current = current.value]
          ELSE NoReading
      withBus ==
        IF "BUS" \in requested
          THEN [withShunt EXCEPT
                  !.bus = bus,
                  !.valid = @ \union IF BusInRange(bus) THEN {"BUS"} ELSE {}]
          ELSE withShunt
      power == calculatePowerMilliWatts(withBus.bus, withBus.current)
  IN IF "SHUNT" \in requested /\ ~current.ok
       THEN [ok |-> FALSE, reading |-> WithoutCurrent(shunt)]
     ELSE IF ~({"BUS", "CURRENT"} \subseteq withBus.valid)
       THEN [ok |-> TRUE, reading |-> withBus]
     ELSE IF ~power.ok
       THEN [ok |-> FALSE, reading |-> withBus]
     ELSE [ok |-> TRUE, reading |-> [withBus EXCEPT !.power = power.value,
                                                    !.valid = @ \union {"POWER"}]]

-----------------------------------------------------------------------------
Init == \E range \in Ranges : input \in range[1] .. range[2]

Advance ==
  /\ \E range \in Ranges : input >= range[1] /\ input < range[2]
  /\ input' = input + 1

Spec == Init /\ [][Advance]_input
-----------------------------------------------------------------------------
(* Properties *)

TypeOK == input \in Int

Distance(a, b) == IF a < b THEN b - a ELSE a - b

(* A limit is accepted exactly when a code of the field is nearest to it,  *)
(* ties going away from zero, and what is written is within half a step of *)
(* it (INA3221.h:1023-1039).                                               *)
Nearest(value, encoded, decoded, lsb, width) ==
  /\ encoded.ok => 2 * Distance(decoded, value) <= lsb
  /\ encoded.ok <=> /\ 2 * (value - (2 ^ (width - 1) - 1) * lsb) < lsb
                    /\ 2 * (-(2 ^ (width - 1)) * lsb - value) < lsb

EncodeIsNearest ==
  LET shunt == encodeShuntMicroVolts(input)
      bus == encodeBusMilliVolts(input)
      sum == encodeShuntSumMicroVolts(input)
  IN /\ Nearest(input, shunt, decodeShuntMicroVolts(shunt.value), ShuntLsb, DataBits)
     /\ Nearest(input, bus, decodeBusMilliVolts(bus.value), BusLsb, DataBits)
     /\ Nearest(input, sum, SignExtendField(sum.value, SumShift, SumBits) * ShuntLsb,
                ShuntLsb, SumBits)

(* What a register shows is what writing the decoded value back writes,    *)
(* but for the reserved bits: a verified limit survives reading and        *)
(* setting it again.                                                       *)
DecodeEncodeRoundTrip ==
  LET raw == input % Word
      reserved == raw % 2 ^ DataShift
  IN /\ encodeShuntMicroVolts(decodeShuntMicroVolts(raw)) = OkResult(raw - reserved)
     /\ encodeBusMilliVolts(decodeBusMilliVolts(raw)) = OkResult(raw - reserved)

(* An accepted power-valid window is still a window once it is rounded: it *)
(* may be empty, as INA3221.h:1046 says, but not upside down or beyond     *)
(* 26 V.                                                                   *)
AcceptedWindowIsOrdered ==
  \A width \in WindowWidths :
    input >= 0 /\ input + width >= 0 /\ validatePowerValidWindow(input, input + width) =>
      LET lower == decodeBusMilliVolts(encodeBusMilliVolts(input).value)
          upper == decodeBusMilliVolts(encodeBusMilliVolts(input + width).value)
      IN 0 <= lower /\ lower <= upper /\ upper <= MaximumBus

(* Limits and windows survive the way into the registers and back.         *)
EncodingIsFaithful ==
  EncodeIsNearest /\ DecodeEncodeRoundTrip /\ AcceptedWindowIsOrdered

Calibrations == [resistance : Resistances, direction : {1, -1}]

(* The current is the nearest integer to shunt / resistance, refused only  *)
(* if that does not fit, and reversing the direction negates it.           *)
CurrentIsNearest ==
  \A c \in Calibrations :
    LET result == calculateCurrentMilliAmps(input, c)
        exact == input * 1000 * c.direction  \* times the resistance
        reversed == calculateCurrentMilliAmps(input, [c EXCEPT !.direction = -@])
    IN /\ result.ok => 2 * Distance(result.value * c.resistance, exact) <= c.resistance
       /\ result.ok /\ reversed.ok => reversed.value = -result.value
       /\ ~result.ok => \/ c.resistance = 0
                        \/ 2 * (Distance(exact, 0) - IntMax * c.resistance) >= c.resistance

(* The integer nearest to exact / unit, ties going away from zero, is one  *)
(* of 32 bits.                                                             *)
Fits(exact, unit) ==
  /\ 2 * (exact - IntMax * unit) < unit
  /\ 2 * (-(IntMax + 1) * unit - exact) < unit

(* The mask of a reading says exactly which of its quantities hold, also   *)
(* of one whose conversion failed: what was requested, is in range and did *)
(* not overflow, and nothing else; what comes after an overflow is not     *)
(* marked.  What is marked is the value of the registers, or nearest to    *)
(* it, and a conversion fails exactly for an overflow (INA3221.cpp:442).   *)
ReadingIsConsistent ==
  input \in 0 .. Word - 1 =>
  \A c \in Calibrations, requested \in {{"SHUNT"}, {"BUS"}, {"SHUNT", "BUS"}} :
  \A busRaw \in 0 .. Word - 1 :
    LET result == convertRawChannel(input, busRaw, requested, c)
        reading == result.reading
        shunt == decodeShuntMicroVolts(input)
        bus == decodeBusMilliVolts(busRaw)
        exact == shunt * 1000 * c.direction  \* the current times the resistance
        noCurrent == "SHUNT" \in requested /\ (c.resistance = 0 \/ ~Fits(exact, c.resistance))
        hasCurrent == "SHUNT" \in requested /\ ~noCurrent
        hasBus == "BUS" \in requested /\ ~noCurrent /\ bus >= 0 /\ bus <= MaximumBus
        powerFits == Fits(bus * reading.current, 1000)
    IN /\ reading.valid =
            {q \in {"SHUNT", "CURRENT", "BUS", "POWER"} :
               \/ q = "SHUNT" /\ "SHUNT" \in requested
               \/ q = "CURRENT" /\ hasCurrent
               \/ q = "BUS" /\ hasBus
               \/ q = "POWER" /\ hasCurrent /\ hasBus /\ powerFits}
       /\ result.ok <=> ~noCurrent /\ (hasCurrent /\ hasBus => powerFits)
       /\ "SHUNT" \in reading.valid => reading.shunt = shunt
       /\ "BUS" \in reading.valid => reading.bus = bus
       /\ "CURRENT" \in reading.valid =>
            2 * Distance(reading.current * c.resistance, exact) <= c.resistance
       /\ "POWER" \in reading.valid =>
            2 * Distance(reading.power * 1000, bus * reading.current) <= 1000
=============================================================================
