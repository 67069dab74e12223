----------------------------- MODULE IdfTransport -----------------------------
(***************************************************************************)
(* The ESP-IDF adapter of the examples.  The address and the clock belong  *)
(* to a device handle installed on the bus, so changing either removes the *)
(* handle and installs another one, and puts the old one back when that    *)
(* fails.                                                                  *)
(*                                                                         *)
(* An operation takes the context t = [bus, dev, address, frequency] with  *)
(* two ghosts, the handles installed on the bus and whether IDF refused to *)
(* give one up, and yields the set of its possible replies, as in          *)
(* WireTransport.  dev holds the handle, if there is one.  Before there is *)
(* a bus no operation uses the address and clock the record starts with.   *)
(* What IDF answers is external.                                           *)
(***************************************************************************)
EXTENDS Naturals

CONSTANTS ValidClock(_),    \* 10000 <= frequencyHz <= 400000
          ValidAddress(_),  \* a seven-bit address, 0x08 .. 0x77
          LongestTimeout    \* INT_MAX

Unset ==
  [bus |-> FALSE, dev |-> {}, address |-> 0, frequency |-> 0,
   installed |-> {}, refused |-> FALSE]

NotSent(t, code) ==
  [t |-> t, code |-> code, to |-> 0, delivered |-> FALSE]

Sent(t, handle, code, delivered) ==
  [t |-> t, code |-> code, to |-> handle.address,
   delivered |-> delivered]

(* The errors mapEspErr tells apart. *)
EspErrors == {"ESP_ERR_TIMEOUT", "ESP_ERR_INVALID_RESPONSE", "ESP_FAIL"}

mapEspErr_ResponseIsNack(err) ==
  CASE err = "ESP_OK" -> "OK"
    [] err = "ESP_ERR_TIMEOUT" -> "I2C_TIMEOUT"
    [] err = "ESP_ERR_INVALID_RESPONSE" -> "I2C_NACK_ADDR"
    [] OTHER -> "I2C_BUS"

mapEspErr(err) ==
  CASE err = "ESP_OK" -> "OK"
    [] err = "ESP_ERR_TIMEOUT" -> "I2C_TIMEOUT"
    [] err = "ESP_ERR_INVALID_RESPONSE" -> "I2C_ERROR"
    [] OTHER -> "I2C_BUS"

-----------------------------------------------------------------------------
(* Handles *)

addDevice(t, address) ==
  LET handle == [address |-> address, speed |-> t.frequency]
  IN [t EXCEPT !.dev = {handle}, !.installed = @ \cup {handle}]

Removed(t) == [t EXCEPT !.dev = {}, !.installed = @ \ t.dev]

(* The record is changed for the handle to be installed from it, and put   *)
(* back before the old handle is installed again.                          *)
replaceDevice(t, address, freq) ==
  LET changed == [Removed(t) EXCEPT !.address = address, !.frequency = freq]
      restored == addDevice(Removed(t), t.address)
  IN IF ~t.bus THEN {NotSent(t, "I2C_BUS")}
     ELSE IF ~ValidAddress(address) THEN {NotSent(t, "INVALID_PARAM")}
     ELSE IF ~ValidClock(freq) THEN {NotSent(t, "OUT_OF_RANGE")}
     ELSE {NotSent(addDevice(changed, address), "OK"), NotSent(Removed(t), "I2C_BUS")}
            \cup {NotSent(restored, mapEspErr(err)) : err \in EspErrors}
            \cup {NotSent(t, mapEspErr(err)) : err \in IF t.dev = {} THEN {} ELSE EspErrors}

ina3221IdfSetAddress(t, address) == replaceDevice(t, address, t.frequency)

ina3221IdfSetFrequency(t, freq) == replaceDevice(t, t.address, freq)

(* What IDF refuses here is ignored: the handle, and then the bus, which   *)
(* is not deleted while a handle is installed, stay allocated.             *)
ina3221IdfDeinitI2c(t) ==
  LET released == [Removed(t) EXCEPT !.bus = FALSE]
      kept == [t EXCEPT !.bus = FALSE, !.dev = {}, !.refused = TRUE]
  IN IF t.bus THEN {released, kept} ELSE {released}

(* Without a device the new bus is deleted again. *)
ina3221IdfInitI2c(t, freq, address) ==
  UNION {{d,
          [d EXCEPT !.frequency = freq, !.address = address],
          addDevice([d EXCEPT !.bus = TRUE, !.frequency = freq, !.address = address], address)}
           : d \in ina3221IdfDeinitI2c(t)}

-----------------------------------------------------------------------------
(* Transfers *)

validateContext_AnyAddress(t, addr) == IF t.dev = {} THEN "I2C_BUS" ELSE "OK"

validateContext(t, addr) ==
  IF t.dev = {} THEN "I2C_BUS"
  ELSE IF addr # t.address THEN "INVALID_PARAM" ELSE "OK"

validateTimeout(timeout) ==
  IF timeout = 0 \/ timeout > LongestTimeout THEN "INVALID_PARAM" ELSE "OK"

(* i2c_master_transmit and i2c_master_transmit_receive: after an error the *)
(* device may have taken the bytes or not.                                 *)
Attempts(t, handle) ==
  {Sent(t, handle, mapEspErr("ESP_OK"), TRUE)}
    \cup {Sent(t, handle, mapEspErr(err), TRUE) : err \in EspErrors}
    \cup {Sent(t, handle, mapEspErr(err), FALSE) : err \in EspErrors}

ina3221IdfI2cWrite(t, addr, timeout) ==
  LET context == validateContext(t, addr)
  IN IF context # "OK" THEN {NotSent(t, context)}
     ELSE IF validateTimeout(timeout) # "OK" THEN {NotSent(t, validateTimeout(timeout))}
     ELSE UNION {Attempts(t, handle) : handle \in t.dev}

(* One combined attempt. *)
ina3221IdfI2cWriteRead(t, addr, timeout) == ina3221IdfI2cWrite(t, addr, timeout)

(* A handle for this one transfer, removed whatever came of it; an error   *)
(* of the removal replaces the transfer's.                                 *)
ThroughTemporary_KeptOnError(t, addr) ==
  LET with == addDevice(t, addr)
      temporary == [address |-> addr, speed |-> t.frequency]
  IN {NotSent(t, mapEspErr(err)) : err \in EspErrors}
       \cup {[r EXCEPT !.t = IF r.code = "OK" THEN t ELSE [with EXCEPT !.dev = t.dev]]
               : r \in Attempts(t, temporary)}

ThroughTemporary(t, addr) ==
  LET temporary == [address |-> addr, speed |-> t.frequency]
      kept == [t EXCEPT !.installed = @ \cup {temporary}, !.refused = TRUE]
  IN {NotSent(t, mapEspErr(err)) : err \in EspErrors}
       \cup Attempts(t, temporary)
       \cup {[r EXCEPT !.t = kept, !.code = "I2C_BUS"] : r \in Attempts(t, temporary)}

ina3221IdfI2cWriteReadAt(t, addr, timeout) ==
  IF ~t.bus THEN {NotSent(t, "I2C_BUS")}
  ELSE IF validateTimeout(timeout) # "OK" THEN {NotSent(t, validateTimeout(timeout))}
  ELSE IF addr # t.address THEN ThroughTemporary(t, addr)
  ELSE IF t.dev = {} THEN {NotSent(t, "I2C_BUS")}
  ELSE UNION {Attempts(t, handle) : handle \in t.dev}

ina3221IdfProbeAddress(t, addr) ==
  IF ~t.bus THEN {NotSent(t, "I2C_BUS")}
  ELSE LET sent(code, delivered) ==
             Sent(t, [address |-> addr, speed |-> t.frequency], code, delivered)
       IN {sent("OK", TRUE), sent("I2C_NACK_ADDR", FALSE)}
            \cup {sent(mapEspErr(err), FALSE) : err \in EspErrors}
=============================================================================
