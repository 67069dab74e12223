--------------------------- MODULE TransportHealth ---------------------------
(***************************************************************************)
(* The driver's health tracking over a real transport: Health's steps are  *)
(* taken with what one of the two example adapters replies, so which       *)
(* callbacks are tracked, and as what, follows from the adapter's mapping  *)
(* of the bus's results to status codes.  Meanwhile the application        *)
(* reconfigures the adapter and reads other devices through it.            *)
(***************************************************************************)
EXTENDS Health

CONSTANTS
  Addresses, Clocks,  \* the valid ones the application uses
  BadAddress, BadClock,
  Timeouts,           \* what the driver's calls are given
  WireTimeout, LongestTimeout

ASSUME TransportAssumption ==
  /\ Addresses \subseteq Nat \ {0} /\ BadAddress \in Nat \ Addresses
  /\ Clocks \subseteq Nat \ {0} /\ BadClock \in Nat \ Clocks
  /\ Timeouts \subseteq Nat
  /\ WireTimeout \in Nat \ {0} /\ LongestTimeout \in Nat

VARIABLES
  platform,    \* "ARDUINO" or "IDF", the adapter that is built
  context,     \* its context
  i2cAddress,  \* the driver's profile's
  last         \* ghost: the last reply, and what was asked of whom

transportVars == <<platform, context, i2cAddress, last>>

ValidClock(clock) == clock \in Clocks
ValidAddress(address) == address \in Addresses

Wire == INSTANCE WireTransport
Idf == INSTANCE IdfTransport

(* What the adapter did, with the one who asked and the address asked for. *)
Answered(by, asked, reply) ==
  /\ context' = reply.t
  /\ last' = [by |-> by, asked |-> asked, code |-> reply.code, to |-> reply.to,
              delivered |-> reply.delivered]

-----------------------------------------------------------------------------
(* The driver's calls *)

Untracked == {"INVALID_CONFIG", "INVALID_PARAM"}

Writes(timeout) ==
  IF platform = "IDF" THEN Idf!ina3221IdfI2cWrite(context, i2cAddress, timeout)
  ELSE Wire!wireWrite(context, i2cAddress, timeout)

Reads(timeout) ==
  IF platform = "IDF" THEN Idf!ina3221IdfI2cWriteRead(context, i2cAddress, timeout)
  ELSE Wire!wireWriteRead(context, i2cAddress, timeout)

(* _i2cWriteTracked and _i2cWriteReadTracked with what follows a success:  *)
(* nothing, an identity found wrong, or the end of a profile job.          *)
Tracked(code) ==
  IF code \in Untracked
  THEN bound /\ UNCHANGED vars
  ELSE IF code = "OK"
       THEN CallbackSucceeds \/ IdentityIsWrong \/ ProfileJobSucceeds
       ELSE CallbackFails

DriverTransfers ==
  /\ \E timeout \in Timeouts :
       \E reply \in Writes(timeout) \cup Reads(timeout) :
          Tracked(reply.code) /\ Answered("DRIVER", i2cAddress, reply)
  /\ UNCHANGED <<platform, i2cAddress>>

(* probe reads past the tracking. *)
Probe ==
  /\ bound
  /\ \E timeout \in Timeouts : \E reply \in Reads(timeout) :
       Answered("DRIVER", i2cAddress, reply)
  /\ UNCHANGED <<vars, platform, i2cAddress>>

DriverBinds ==
  /\ \E threshold \in Thresholds : Bind(threshold)
  /\ i2cAddress' \in Addresses
  /\ UNCHANGED <<platform, context, last>>

DriverUnbinds == Unbind /\ UNCHANGED transportVars

-----------------------------------------------------------------------------
(* The application's calls of the adapter *)

InitBus ==
  /\ \E clock \in Clocks, address \in Addresses :
       context' \in IF platform = "IDF"
                    THEN Idf!ina3221IdfInitI2c(context, clock, address)
                    ELSE Wire!initWire(clock)
  /\ UNCHANGED <<vars, platform, i2cAddress, last>>

DeinitBus ==
  /\ platform = "IDF"
  /\ context' \in Idf!ina3221IdfDeinitI2c(context)
  /\ UNCHANGED <<vars, platform, i2cAddress, last>>

SetFrequency ==
  /\ \E clock \in Clocks \cup {BadClock} :
       \E reply \in IF platform = "IDF" THEN Idf!ina3221IdfSetFrequency(context, clock)
                    ELSE Wire!setFrequency(context, clock) :
          Answered("APPLICATION", 0, reply)
  /\ UNCHANGED <<vars, platform, i2cAddress>>

SetAddress ==
  /\ platform = "IDF"
  /\ \E address \in Addresses \cup {BadAddress} :
       \E reply \in Idf!ina3221IdfSetAddress(context, address) :
          Answered("APPLICATION", 0, reply)
  /\ UNCHANGED <<vars, platform, i2cAddress>>

(* The scanner and the register reads of the command line, at any address. *)
ReadAt(address, timeout) ==
  IF platform = "IDF"
  THEN Idf!ina3221IdfI2cWriteReadAt(context, address, timeout)
         \cup Idf!ina3221IdfProbeAddress(context, address)
  ELSE Wire!wireWriteReadAt(context, address, timeout)
         \cup Wire!probeAddress(context, address, timeout)

ReadsAnother ==
  /\ \E address \in Addresses, timeout \in Timeouts :
       \E reply \in ReadAt(address, timeout) : Answered("APPLICATION", address, reply)
  /\ UNCHANGED <<vars, platform, i2cAddress>>

-----------------------------------------------------------------------------
TransportInit ==
  /\ Init
  /\ platform \in {"ARDUINO", "IDF"}
  /\ context = IF platform = "IDF" THEN Idf!Unset ELSE Wire!Fresh
  /\ i2cAddress \in Addresses
  /\ last = [by |-> "APPLICATION", asked |-> 0, code |-> "OK", to |-> 0, delivered |-> FALSE]

TransportNext ==
  \/ DriverTransfers
  \/ Probe
  \/ DriverBinds
  \/ DriverUnbinds
  \/ InitBus
  \/ DeinitBus
  \/ SetFrequency
  \/ SetAddress
  \/ ReadsAnother

TransportSpec == TransportInit /\ [][TransportNext]_<<vars, transportVars>>
-----------------------------------------------------------------------------
(* Properties; StateIsDerived is Health's *)

(* The codes _writeMayHaveReachedDevice (INA3221.cpp:967-973) takes as     *)
(* proof that a write changed nothing are true of both adapters: after one *)
(* of them no device took the transfer.  A write that was taken and is     *)
(* reported as one of these would leave the driver certain of a register   *)
(* it no longer knows.                                                     *)
NotReachedIsTrue ==
  /\ last.by = "DRIVER"
  /\ last.code \in {"I2C_NACK_ADDR", "DEVICE_NOT_FOUND"} \cup Untracked
  => ~last.delivered

(* Whatever reconfigurations succeeded, failed or were rolled back before  *)
(* it, a transfer a device took went to the address it was asked for.      *)
RightDevice == last.delivered /\ last.asked # 0 => last.to = last.asked

(* The handle the driver's transfers go through is the one the record      *)
(* describes, and unless IDF itself refused to give one up no other is     *)
(* left installed: not by a failed transfer through a temporary handle,    *)
(* nor by a rollback (Ina3221IdfI2cTransport.cpp:62-90, 258-275).          *)
HandlesAreAccounted ==
  platform = "IDF" =>
    /\ \A handle \in context.dev :
         handle = [address |-> context.address, speed |-> context.frequency]
    /\ context.dev # {} => context.bus
    /\ ~context.refused => context.installed = context.dev
=============================================================================
