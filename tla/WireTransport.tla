---------------------------- MODULE WireTransport ----------------------------
(***************************************************************************)
(* The Arduino adapter of the examples: the library's two callbacks over   *)
(* TwoWire, one physical attempt each.  TwoWire has one timeout for the    *)
(* whole bus, so the adapter refuses a call that is given less.            *)
(*                                                                         *)
(* An operation takes the context w = [up, timeout, frequency] and yields  *)
(* the set of its possible replies: the context after it, the status code, *)
(* the address it was sent to (0: nothing was sent) and whether the device *)
(* took it.  What TwoWire answers is external.                             *)
(***************************************************************************)
EXTENDS Naturals

CONSTANTS WireTimeout,    \* initWire's timeoutMs
          ValidClock(_)   \* 10000 <= frequencyHz <= 400000

(* wireContext before the first initWire, and one whose initWire failed. *)
Fresh == [up |-> TRUE, timeout |-> 0, frequency |-> 0]
Unset == [up |-> FALSE, timeout |-> 0, frequency |-> 0]

NotSent(t, code) ==
  [t |-> t, code |-> code, to |-> 0, delivered |-> FALSE]

Sent(w, addr, code, delivered) ==
  [t |-> w, code |-> code, to |-> addr, delivered |-> delivered]

(* endTransmission: 1, too long for the buffer, and 2, the address is not  *)
(* acknowledged, come before the device takes anything; after 3, 4, 5 and  *)
(* the unknown results it may have.                                        *)
EndTransmission ==
  {[result |-> 0, delivered |-> TRUE],
   [result |-> 1, delivered |-> FALSE], [result |-> 2, delivered |-> FALSE]}
    \cup [result : 3 .. 6, delivered : BOOLEAN]

wireStatus(result) ==
  IF result > 5 THEN "I2C_ERROR"
  ELSE <<"OK", "INVALID_PARAM", "I2C_NACK_ADDR", "I2C_NACK_DATA",
         "I2C_BUS", "I2C_TIMEOUT">>[result + 1]

validateTransferContext(w, timeout) ==
  IF ~w.up THEN "INVALID_CONFIG"
  ELSE IF timeout = 0 \/ w.timeout = 0 THEN "INVALID_PARAM"
  ELSE IF timeout < w.timeout THEN "INVALID_CONFIG" ELSE "OK"

(* Validated attempts, or the refusal. *)
Attempts(w, timeout, replies) ==
  LET code == validateTransferContext(w, timeout)
  IN IF code = "OK" THEN replies ELSE {NotSent(w, code)}

(* A short write into the buffer sends nothing. *)
wireWrite(w, addr, timeout) ==
  Attempts(w, timeout,
    {NotSent(w, "I2C_ERROR")}
      \cup {Sent(w, addr, wireStatus(e.result), e.delivered) : e \in EndTransmission})

(* The register address, a repeated start, then the answer, which may be   *)
(* short.                                                                  *)
wireWriteRead(w, addr, timeout) ==
  wireWrite(w, addr, timeout)
    \cup Attempts(w, timeout, {Sent(w, addr, "I2C_ERROR", TRUE)})

wireWriteReadAt(w, addr, timeout) == wireWriteRead(w, addr, timeout)

(* No payload: a result of 1 is an unknown error here. *)
probeAddress(w, addr, timeout) ==
  Attempts(w, timeout,
    {Sent(w, addr,
          IF e.result = 1 THEN "I2C_ERROR" ELSE wireStatus(e.result), e.delivered)
       : e \in EndTransmission})

(* The context is emptied first, so a bus that does not come up, or comes  *)
(* up at another clock, leaves it empty.                                   *)
initWire(freq) == {Unset, [up |-> TRUE, timeout |-> WireTimeout, frequency |-> freq]}

setFrequency(w, freq) ==
  IF ~w.up \/ w.timeout = 0 THEN {NotSent(w, "I2C_BUS")}
  ELSE IF ~ValidClock(freq) THEN {NotSent(w, "OUT_OF_RANGE")}
  ELSE {NotSent(w, "I2C_BUS"), NotSent([w EXCEPT !.frequency = freq], "OK")}
=============================================================================
