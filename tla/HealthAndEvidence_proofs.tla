----------------------- MODULE HealthAndEvidence_proofs -----------------------
(***************************************************************************)
(* Theorems about the two records the driver keeps of its transfers: the   *)
(* health tracking with the adapters below it, for any sizes of the        *)
(* counters, any thresholds, addresses, clocks and timeouts; and the alert *)
(* evidence, for any set of alert flags and levels.                        *)
(***************************************************************************)
EXTENDS TransportHealth, AlertEvidence, TLAPS

-----------------------------------------------------------------------------
(* Health.  The driver state and the counters agree with the history of    *)
(* all tracked results.  The type invariant, the derived state and the     *)
(* counters are inductive together: the state after a failure is computed  *)
(* from the limited counter, which stands for the true number of failures  *)
(* only because it is full no sooner than the threshold is reached.        *)

(* Counting up to a limit keeps within it and keeps the counter equal to   *)
(* what is counted, as far as the limit allows.                            *)
LEMMA CountedLeast ==
  ASSUME NEW max \in Nat \ {0}, NEW n \in Nat
  PROVE  /\ Least(n, max) \in 0 .. max
         /\ Counted(Least(n, max), max) = Least(n + 1, max)
BY DEF Counted, Least

(* The limited counter decides the threshold as the true number does.      *)
LEMMA LimitDecidesThreshold ==
  ASSUME NEW max \in Nat \ {0}, NEW n \in Nat, NEW threshold \in 1 .. max
  PROVE  Least(n, max) >= threshold <=> n >= threshold
BY DEF Least

LEMMA InitHolds == Init => HealthInv
<1> USE HealthAssumption DEF HealthAssumption
<1>1. Least(0, MaxConsecutive) = 0 /\ Least(0, MaxTotal) = 0
  BY DEF Least
<1>2. 0 \in Nat /\ 1 \in 1 .. MaxConsecutive /\ 0 \in 0 .. MaxConsecutive /\ 0 \in 0 .. MaxTotal
  OBVIOUS
<1>3. Init => TypeOK
  BY <1>2, Zenon DEF Init, TypeOK, DriverState
<1>4. Init => StateIsDerived /\ CountersAreHistory
  BY <1>1 DEF Init, StateIsDerived, CountersAreHistory
<1> QED BY <1>3, <1>4 DEF HealthInv

LEMMA StepKeepsHealthInv == HealthInv /\ [Next]_vars => HealthInv'
<1> SUFFICES ASSUME HealthInv, [Next]_vars
             PROVE  HealthInv'
  OBVIOUS
<1> USE HealthAssumption DEF HealthAssumption
<1> USE DEF HealthInv, TypeOK, StateIsDerived, CountersAreHistory, binding, counters,
            ghosts, DriverState
<1>0. /\ Counted(consecutiveFailures, MaxConsecutive) = Least(inARow + 1, MaxConsecutive)
      /\ Counted(totalSuccess, MaxTotal) = Least(successes + 1, MaxTotal)
      /\ Counted(totalFailures, MaxTotal) = Least(failures + 1, MaxTotal)
      /\ Least(inARow + 1, MaxConsecutive) \in 0 .. MaxConsecutive
      /\ Least(successes + 1, MaxTotal) \in 0 .. MaxTotal
      /\ Least(failures + 1, MaxTotal) \in 0 .. MaxTotal
      /\ Least(0, MaxConsecutive) = 0
  BY CountedLeast DEF Least
<1>1. CASE CallbackSucceeds
  BY <1>0, <1>1 DEF CallbackSucceeds, CountSuccess
<1>2. CASE CallbackFails
  <2>1. (Least(inARow + 1, MaxConsecutive) >= offlineThreshold)
          <=> inARow + 1 >= offlineThreshold
    BY LimitDecidesThreshold
  <2>2. TypeOK' /\ CountersAreHistory'
    BY <1>0, <1>2 DEF CallbackFails, CountFailure, StateAfterFailure
  <2>3. StateIsDerived'
    BY <1>0, <1>2, <2>1 DEF CallbackFails, CountFailure, StateAfterFailure
  <2> QED BY <2>2, <2>3
<1>3. CASE IdentityIsWrong
  <2>1. /\ Counted(0, MaxConsecutive) = Least(1, MaxConsecutive)
        /\ Least(1, MaxConsecutive) \in 0 .. MaxConsecutive
        /\ (Least(1, MaxConsecutive) >= offlineThreshold) <=> 1 >= offlineThreshold
    BY DEF Counted, Least
  <2>2. TypeOK' /\ CountersAreHistory'
    BY <1>0, <1>3, <2>1 DEF IdentityIsWrong, CountSuccess, CountFailure, StateAfterFailure
  <2>3. StateIsDerived'
    BY <1>0, <1>3, <2>1 DEF IdentityIsWrong, CountSuccess, CountFailure, StateAfterFailure
  <2> QED BY <2>2, <2>3
<1>4. CASE ProfileJobSucceeds
  BY <1>0, <1>4 DEF ProfileJobSucceeds, CountSuccess
<1>5. CASE Unbind
  BY <1>5 DEF Unbind
<1>6. ASSUME NEW threshold \in Thresholds, Bind(threshold)
      PROVE  HealthInv'
  <2>1. (IF threshold = 0 THEN 1 ELSE threshold) \in 1 .. MaxConsecutive
    BY <1>6
  <2> QED BY <1>6, <2>1 DEF Bind
<1>7. CASE UNCHANGED vars
  BY <1>7 DEF vars
<1> QED
  BY <1>1, <1>2, <1>3, <1>4, <1>5, <1>6, <1>7 DEF Next

(* The stored driver state is the one that the failures in a row give, and *)
(* the counters are the history: _updateHealth, _recordFailure, bind and   *)
(* _finishJobSuccess keep them in step.                                    *)
THEOREM StateCorrect == Spec => [](StateIsDerived /\ CountersAreHistory)
<1>1. HealthInv => StateIsDerived /\ CountersAreHistory
  BY DEF HealthInv
<1> QED BY InitHolds, StepKeepsHealthInv, <1>1, PTL DEF Spec

-----------------------------------------------------------------------------
(* The ESP-IDF adapter *)

IdfHandle == [address : Nat, speed : Nat]

IdfContext ==
  [bus : BOOLEAN, dev : SUBSET IdfHandle, address : Nat, frequency : Nat,
   installed : SUBSET IdfHandle, refused : BOOLEAN]

(* HandlesAreAccounted of a context. *)
Accounted(t) ==
  /\ t \in IdfContext
  /\ \A handle \in t.dev : handle = [address |-> t.address, speed |-> t.frequency]
  /\ t.dev # {} => t.bus
  /\ ~t.refused => t.installed = t.dev

(* What a reply to a request for an address promises; 0 asks for none. *)
RightReply(r, asked) ==
  /\ r.delivered /\ asked # 0 => r.to = asked
  /\ r.code \in {"I2C_NACK_ADDR", "DEVICE_NOT_FOUND"} \cup Untracked => ~r.delivered

(* No error of ESP-IDF is mapped to a code that the health ignores. *)
LEMMA IdfCodes ==
  \A err \in {"ESP_OK"} \cup Idf!EspErrors :
    Idf!mapEspErr(err) \notin {"I2C_NACK_ADDR", "DEVICE_NOT_FOUND"} \cup Untracked
  BY DEF Idf!EspErrors, Idf!mapEspErr, Untracked

(* A request that is refused before the bus changes nothing. *)
LEMMA IdfNotSent ==
  ASSUME NEW t, NEW code, NEW asked, Accounted(t)
  PROVE  /\ Accounted(Idf!NotSent(t, code).t)
         /\ RightReply(Idf!NotSent(t, code), asked)
  BY DEF Idf!NotSent, RightReply

(* Without a handle the adapter has given all back it was not refused. *)
LEMMA RemovedAccounted ==
  ASSUME NEW t, Accounted(t)
  PROVE  /\ Accounted(Idf!Removed(t))
         /\ Idf!Removed(t).dev = {} /\ Idf!Removed(t).bus = t.bus
         /\ Idf!Removed(t).address = t.address
         /\ Idf!Removed(t).frequency = t.frequency
         /\ Idf!Removed(t).refused = t.refused
  BY DEF Accounted, IdfContext, Idf!Removed

(* A handle that is added is accounted for. *)
LEMMA AddedAccounted ==
  ASSUME NEW t, Accounted(t), t.dev = {}, t.bus
  PROVE  Accounted(Idf!addDevice(t, t.address))
<1> DEFINE handle == [address |-> t.address, speed |-> t.frequency]
           added == Idf!addDevice(t, t.address)
<1>1. t \in IdfContext /\ handle \in IdfHandle
  BY DEF Accounted, IdfContext, IdfHandle
<1>2. /\ added \in IdfContext /\ added.dev = {handle}
      /\ added.installed = t.installed \cup {handle} /\ added.bus = TRUE
      /\ added.address = t.address /\ added.frequency = t.frequency
      /\ added.refused = t.refused
  BY <1>1 DEF IdfContext, Idf!addDevice
<1>3. ~t.refused => t.installed = {}
  BY DEF Accounted
<1>4. ~added.refused => added.installed = added.dev
  BY <1>2, <1>3
<1>5. \A h \in added.dev : h = [address |-> added.address, speed |-> added.frequency]
  BY <1>2
<1>6. Accounted(added)
  <2> HIDE DEF added
  <2> QED BY <1>2, <1>4, <1>5 DEF Accounted
<1> QED BY <1>6

(* Another address or clock for a context without a handle. *)
LEMMA ChangedAccounted ==
  ASSUME NEW t, Accounted(t), t.dev = {}, NEW changed \in IdfContext, changed.dev = {},
         changed.installed = t.installed, changed.refused = t.refused
  PROVE  Accounted(changed)
  BY DEF Accounted

(* replaceDevice: the new handle, none, or the old one again. *)
LEMMA ReplaceAccounted ==
  ASSUME NEW t, Accounted(t), NEW address \in Nat, NEW freq \in Nat,
         NEW r \in Idf!replaceDevice(t, address, freq)
  PROVE  Accounted(r.t) /\ RightReply(r, 0)
<1> DEFINE removed == Idf!Removed(t)
           changed == [removed EXCEPT !.address = address, !.frequency = freq]
           restored == Idf!addDevice(removed, t.address)
<1>1. PICK u, code : r = Idf!NotSent(u, code) /\
        u \in {t, removed} \cup {x \in {Idf!addDevice(changed, address), restored} : t.bus}
  BY DEF Idf!replaceDevice
<1>2. /\ Accounted(removed) /\ removed.dev = {} /\ removed.address = t.address
      /\ t.bus => removed.bus
  BY RemovedAccounted
<1>3. t.bus => Accounted(restored)
  <2> HIDE DEF removed
  <2> QED BY <1>2, AddedAccounted
<1>4. t.bus => Accounted(Idf!addDevice(changed, address))
  <2>1. /\ Accounted(changed) /\ changed.dev = {} /\ (t.bus => changed.bus)
        /\ changed.address = address
    <3> HIDE DEF removed
    <3>1. removed \in IdfContext
      BY <1>2 DEF Accounted
    <3>2. /\ changed \in IdfContext /\ changed.dev = {} /\ changed.bus = removed.bus
          /\ changed.installed = removed.installed /\ changed.refused = removed.refused
          /\ changed.address = address
      BY <1>2, <3>1 DEF IdfContext
    <3> HIDE DEF changed
    <3> QED BY <1>2, <3>2, ChangedAccounted
  <2> HIDE DEF changed
  <2> QED BY <2>1, AddedAccounted
<1>5. Accounted(u)
  <2> HIDE DEF removed, changed, restored
  <2> QED BY <1>1, <1>2, <1>3, <1>4
<1>6. r.t = u /\ r.delivered = FALSE
  BY <1>1 DEF Idf!NotSent
<1> QED BY <1>5, <1>6 DEF RightReply

(* Deinitialization gives the handle back, or is refused. *)
LEMMA DeinitAccounted ==
  ASSUME NEW t, Accounted(t), NEW d \in Idf!ina3221IdfDeinitI2c(t)
  PROVE  Accounted(d) /\ d.dev = {}
<1>1. t \in IdfContext
  BY DEF Accounted
<1>2. CASE d = [Idf!Removed(t) EXCEPT !.bus = FALSE]
  <2> DEFINE removed == Idf!Removed(t)
  <2>1. Accounted(removed) /\ removed \in IdfContext /\ removed.dev = {}
    BY RemovedAccounted DEF Accounted
  <2> HIDE DEF removed
  <2>2. d = [removed EXCEPT !.bus = FALSE]
    BY <1>2 DEF removed
  <2>3. /\ d \in IdfContext /\ d.dev = {} /\ d.installed = removed.installed
        /\ d.refused = removed.refused
    BY <2>1, <2>2 DEF IdfContext
  <2> QED BY <2>1, <2>3, ChangedAccounted
<1>3. CASE d = [t EXCEPT !.bus = FALSE, !.dev = {}, !.refused = TRUE]
  BY <1>1, <1>3 DEF Accounted, IdfContext
<1> QED BY <1>2, <1>3 DEF Idf!ina3221IdfDeinitI2c

(* Initialization keeps the account, however far it gets. *)
LEMMA InitI2cAccounted ==
  ASSUME NEW t, Accounted(t), NEW freq \in Nat, NEW address \in Nat,
         NEW u \in Idf!ina3221IdfInitI2c(t, freq, address)
  PROVE  Accounted(u)
<1>1. PICK d \in Idf!ina3221IdfDeinitI2c(t) :
        u \in {d,
               [d EXCEPT !.frequency = freq, !.address = address],
               Idf!addDevice([d EXCEPT !.bus = TRUE, !.frequency = freq, !.address = address],
                             address)}
  BY DEF Idf!ina3221IdfInitI2c
<1>2. Accounted(d) /\ d.dev = {} /\ d \in IdfContext
  BY DeinitAccounted DEF Accounted
<1>3. CASE u = [d EXCEPT !.frequency = freq, !.address = address]
  <2>1. /\ u \in IdfContext /\ u.dev = {} /\ u.installed = d.installed
        /\ u.refused = d.refused
    BY <1>2, <1>3 DEF IdfContext
  <2> QED BY <1>2, <2>1, ChangedAccounted
<1>4. ASSUME NEW up, up = [d EXCEPT !.bus = TRUE, !.frequency = freq, !.address = address]
      PROVE  Accounted(Idf!addDevice(up, address))
  <2>1. /\ up \in IdfContext /\ up.dev = {} /\ up.installed = d.installed
        /\ up.refused = d.refused /\ up.bus /\ up.address = address
    BY <1>2, <1>4 DEF IdfContext
  <2>2. Accounted(up)
    BY <1>2, <2>1, ChangedAccounted
  <2> QED BY <2>1, <2>2, AddedAccounted
<1> QED BY <1>1, <1>2, <1>3, <1>4

(* One attempt through a handle for the address asked. *)
LEMMA AttemptRight ==
  ASSUME NEW t, NEW handle, NEW asked, handle.address = asked,
         NEW r \in Idf!Attempts(t, handle)
  PROVE  r.t = t /\ RightReply(r, asked)
<1>1. ASSUME NEW err \in {"ESP_OK"} \cup Idf!EspErrors, NEW delivered,
             r = Idf!Sent(t, handle, Idf!mapEspErr(err), delivered)
      PROVE  r.t = t /\ RightReply(r, asked)
  BY <1>1, IdfCodes DEF Idf!Sent, RightReply
<1>2. \E err \in {"ESP_OK"} \cup Idf!EspErrors, delivered \in BOOLEAN :
         r = Idf!Sent(t, handle, Idf!mapEspErr(err), delivered)
  BY DEF Idf!Attempts
<1> QED BY <1>1, <1>2

(* The driver's transfers go to the address they are checked against.      *)
LEMMA IdfTransferRight ==
  ASSUME NEW t, Accounted(t), NEW addr, NEW timeout,
         NEW r \in Idf!ina3221IdfI2cWrite(t, addr, timeout)
  PROVE  Accounted(r.t) /\ RightReply(r, addr)
<1>1. CASE \E code : r = Idf!NotSent(t, code)
  BY <1>1, IdfNotSent
<1>2. CASE addr = t.address /\ \E handle \in t.dev : r \in Idf!Attempts(t, handle)
  <2>1. PICK handle \in t.dev : r \in Idf!Attempts(t, handle)
    BY <1>2
  <2>2. handle.address = addr
    BY <1>2 DEF Accounted
  <2> QED BY <2>1, <2>2, AttemptRight
<1> QED BY <1>1, <1>2 DEF Idf!ina3221IdfI2cWrite, Idf!validateContext

(* A read at another address uses a handle of that address. *)
LEMMA ReadAtRight ==
  ASSUME NEW t, Accounted(t), NEW addr \in Nat, NEW timeout,
         NEW r \in Idf!ina3221IdfI2cWriteReadAt(t, addr, timeout)
  PROVE  Accounted(r.t) /\ RightReply(r, addr)
<1> DEFINE temporary == [address |-> addr, speed |-> t.frequency]
           kept == [t EXCEPT !.installed = @ \cup {temporary}, !.refused = TRUE]
<1>1. CASE \E code : r = Idf!NotSent(t, code)
  BY <1>1, IdfNotSent
<1>2. CASE addr = t.address /\ \E handle \in t.dev : r \in Idf!Attempts(t, handle)
  <2>1. PICK handle \in t.dev : r \in Idf!Attempts(t, handle)
    BY <1>2
  <2>2. handle.address = addr
    BY <1>2 DEF Accounted
  <2> QED BY <2>1, <2>2, AttemptRight
<1>3. CASE r \in Idf!Attempts(t, temporary)
  BY <1>3, AttemptRight
<1>4. CASE \E s \in Idf!Attempts(t, temporary) : r = [s EXCEPT !.t = kept, !.code = "I2C_BUS"]
  <2>1. PICK s \in Idf!Attempts(t, temporary) : r = [s EXCEPT !.t = kept, !.code = "I2C_BUS"]
    BY <1>4
  <2>2. /\ r.t = kept /\ r.code = "I2C_BUS" /\ r.to = addr
    BY <2>1 DEF Idf!Attempts, Idf!Sent
  <2>3. Accounted(kept)
    <3>1. t \in IdfContext /\ temporary \in IdfHandle
      BY DEF Accounted, IdfContext, IdfHandle
    <3>2. /\ kept \in IdfContext /\ kept.dev = t.dev /\ kept.bus = t.bus
          /\ kept.address = t.address /\ kept.frequency = t.frequency /\ kept.refused
      BY <3>1 DEF IdfContext
    <3> HIDE DEF kept
    <3> QED BY <3>2 DEF Accounted
  <2> QED BY <2>2, <2>3 DEF RightReply, Untracked
<1> QED
  BY <1>1, <1>2, <1>3, <1>4 DEF Idf!ina3221IdfI2cWriteReadAt, Idf!ThroughTemporary

(* A probe reaches the address that it asks for. *)
LEMMA IdfProbeRight ==
  ASSUME NEW t, Accounted(t), NEW addr, NEW r \in Idf!ina3221IdfProbeAddress(t, addr)
  PROVE  Accounted(r.t) /\ RightReply(r, addr)
  BY IdfNotSent, IdfCodes
     DEF Idf!ina3221IdfProbeAddress, Idf!Sent, RightReply, Untracked, Idf!EspErrors

-----------------------------------------------------------------------------
(* The Arduino adapter *)

(* Only results 1 and 2 are mapped to codes that prove nothing was taken,  *)
(* and after those nothing was.                                            *)
LEMMA WireCodes ==
  \A e \in Wire!EndTransmission :
    /\ Wire!wireStatus(e.result) \in {"I2C_NACK_ADDR", "DEVICE_NOT_FOUND"} \cup Untracked
         => ~e.delivered
    /\ Wire!wireStatus(e.result) = "I2C_NACK_ADDR" => e.result = 2
<1> SUFFICES ASSUME NEW e \in Wire!EndTransmission
             PROVE  /\ Wire!wireStatus(e.result) \in
                         {"I2C_NACK_ADDR", "DEVICE_NOT_FOUND"} \cup Untracked => ~e.delivered
                    /\ Wire!wireStatus(e.result) = "I2C_NACK_ADDR" => e.result = 2
  OBVIOUS
<1>1. /\ Wire!wireStatus(0) = "OK" /\ Wire!wireStatus(1) = "INVALID_PARAM"
      /\ Wire!wireStatus(2) = "I2C_NACK_ADDR" /\ Wire!wireStatus(3) = "I2C_NACK_DATA"
      /\ Wire!wireStatus(4) = "I2C_BUS" /\ Wire!wireStatus(5) = "I2C_TIMEOUT"
      /\ Wire!wireStatus(6) = "I2C_ERROR"
  BY DEF Wire!wireStatus
<1>2. CASE e = [result |-> 0, delivered |-> TRUE]
  BY <1>1, <1>2 DEF Untracked
<1>3. CASE \/ e = [result |-> 1, delivered |-> FALSE]
           \/ e = [result |-> 2, delivered |-> FALSE]
  BY <1>1, <1>3
<1>4. CASE e.result \in {3, 4, 5, 6}
  BY <1>1, <1>4 DEF Untracked
<1> QED BY <1>2, <1>3, <1>4 DEF Wire!EndTransmission

(* A transfer of Wire reaches the address it is for. *)
LEMMA WireTransferRight ==
  ASSUME NEW w, NEW addr, NEW timeout,
         NEW r \in Wire!wireWriteRead(w, addr, timeout)
  PROVE  RightReply(r, addr)
<1>1. CASE \E code : r = Wire!NotSent(w, code)
  BY <1>1 DEF Wire!NotSent, RightReply
<1>2. CASE r = Wire!Sent(w, addr, "I2C_ERROR", TRUE)
  BY <1>2 DEF Wire!Sent, RightReply, Untracked
<1>3. CASE \E e \in Wire!EndTransmission :
             r = Wire!Sent(w, addr, Wire!wireStatus(e.result), e.delivered)
  BY <1>3, WireCodes DEF Wire!Sent, RightReply
<1> QED BY <1>1, <1>2, <1>3 DEF Wire!wireWriteRead, Wire!wireWrite, Wire!Attempts

(* So does a probe. *)
LEMMA WireProbeRight ==
  ASSUME NEW w, NEW addr, NEW timeout, NEW r \in Wire!probeAddress(w, addr, timeout)
  PROVE  r.delivered /\ addr # 0 => r.to = addr
  BY DEF Wire!probeAddress, Wire!Attempts, Wire!NotSent, Wire!Sent

-----------------------------------------------------------------------------
(* The driver over either adapter *)

(* A step of the driver over a transport is a step of its health tracking, *)
(* or none.                                                                *)
LEMMA TransportStepIsHealthStep == [TransportNext]_<<vars, transportVars>> => [Next]_vars
<1> SUFFICES ASSUME [TransportNext]_<<vars, transportVars>> PROVE [Next]_vars
  OBVIOUS
<1>1. CASE DriverTransfers
  BY <1>1 DEF DriverTransfers, Tracked, Next
<1>2. CASE DriverBinds \/ DriverUnbinds
  BY <1>2 DEF DriverBinds, DriverUnbinds, Next
<1>3. CASE UNCHANGED vars
  BY <1>3
<1> QED
  BY <1>1, <1>2, <1>3
     DEF TransportNext, Probe, InitBus, DeinitBus, SetFrequency, SetAddress, ReadsAnother

(* Whatever adapter answers, the driver state and the counters agree with  *)
(* the history of the results that the adapter lets it track.              *)
THEOREM TransportStateCorrect == TransportSpec => [](StateIsDerived /\ CountersAreHistory)
<1>1. TransportSpec => Spec
  BY TransportStepIsHealthStep, PTL DEF TransportSpec, TransportInit, Spec
<1> QED BY <1>1, StateCorrect, PTL

(* What is invariant of the adapter and of its last reply.                 *)
AdapterInv ==
  /\ platform = "IDF" => Accounted(context)
  /\ NotReachedIsTrue
  /\ RightDevice

(* A reply with these promises keeps them. *)
LEMMA AnsweredKeeps ==
  ASSUME NEW by, NEW asked, NEW r, Answered(by, asked, r), platform' = platform,
         platform = "IDF" => Accounted(r.t),
         r.delivered /\ asked # 0 => r.to = asked,
         by = "DRIVER" => RightReply(r, asked)
  PROVE  AdapterInv'
  BY DEF Answered, AdapterInv, NotReachedIsTrue, RightDevice, RightReply

(* Each step of the driver over either adapter keeps the invariant. *)
LEMMA AdapterStep == AdapterInv /\ [TransportNext]_<<vars, transportVars>> => AdapterInv'
<1> SUFFICES ASSUME AdapterInv, [TransportNext]_<<vars, transportVars>> PROVE AdapterInv'
  OBVIOUS
<1>a. platform = "IDF" => Accounted(context)
  BY DEF AdapterInv
<1>b. Addresses \subseteq Nat /\ Clocks \subseteq Nat /\ BadAddress \in Nat /\ BadClock \in Nat
  BY TransportAssumption
<1>1. ASSUME NEW timeout, NEW r \in Writes(timeout) \cup Reads(timeout),
             Answered("DRIVER", i2cAddress, r), platform' = platform
      PROVE  AdapterInv'
  <2>1. CASE platform = "IDF"
    <3>1. Accounted(r.t) /\ RightReply(r, i2cAddress)
      BY <1>a, <1>1, <2>1, IdfTransferRight DEF Writes, Reads, Idf!ina3221IdfI2cWriteRead
    <3> QED BY <1>1, <3>1, AnsweredKeeps DEF RightReply
  <2>2. CASE platform # "IDF"
    <3>1. RightReply(r, i2cAddress)
      BY <1>1, <2>2, WireTransferRight DEF Writes, Reads, Wire!wireWriteRead
    <3> QED BY <1>1, <2>2, <3>1, AnsweredKeeps DEF RightReply
  <2> QED BY <2>1, <2>2
<1>2. CASE DriverTransfers \/ Probe
  BY <1>1, <1>2 DEF DriverTransfers, Probe
<1>3. CASE DriverBinds \/ DriverUnbinds \/ UNCHANGED <<vars, transportVars>>
  BY <1>3 DEF DriverBinds, DriverUnbinds, transportVars, AdapterInv, NotReachedIsTrue,
              RightDevice
<1>4. CASE InitBus
  <2>1. platform = "IDF" => Accounted(context')
    BY <1>a, <1>b, <1>4, InitI2cAccounted DEF InitBus
  <2> QED BY <1>4, <2>1 DEF InitBus, AdapterInv, NotReachedIsTrue, RightDevice
<1>5. CASE DeinitBus
  BY <1>a, <1>5, DeinitAccounted DEF DeinitBus, AdapterInv, NotReachedIsTrue, RightDevice
<1>6. CASE SetFrequency
  <2>1. PICK clock \in Clocks \cup {BadClock} :
          \E r \in IF platform = "IDF" THEN Idf!ina3221IdfSetFrequency(context, clock)
                   ELSE Wire!setFrequency(context, clock) : Answered("APPLICATION", 0, r)
    BY <1>6 DEF SetFrequency
  <2>2. PICK r \in IF platform = "IDF" THEN Idf!ina3221IdfSetFrequency(context, clock)
                   ELSE Wire!setFrequency(context, clock) : Answered("APPLICATION", 0, r)
    BY <2>1
  <2>3. platform = "IDF" => Accounted(r.t)
    <3>1. platform = "IDF" => context.address \in Nat /\ clock \in Nat
      BY <1>a, <1>b, <2>1 DEF Accounted, IdfContext
    <3> QED BY <1>a, <2>2, <3>1, ReplaceAccounted DEF Idf!ina3221IdfSetFrequency
  <2> QED BY <1>6, <2>2, <2>3, AnsweredKeeps DEF SetFrequency
<1>7. CASE SetAddress
  <2>1. PICK address \in Addresses \cup {BadAddress} :
          \E r \in Idf!ina3221IdfSetAddress(context, address) : Answered("APPLICATION", 0, r)
    BY <1>7 DEF SetAddress
  <2>2. PICK r \in Idf!ina3221IdfSetAddress(context, address) : Answered("APPLICATION", 0, r)
    BY <2>1
  <2>3. Accounted(r.t)
    <3>1. platform = "IDF" /\ context.frequency \in Nat /\ address \in Nat
      BY <1>a, <1>b, <1>7, <2>1 DEF SetAddress, Accounted, IdfContext
    <3> QED BY <1>a, <2>2, <3>1, ReplaceAccounted DEF Idf!ina3221IdfSetAddress
  <2> QED BY <1>7, <2>2, <2>3, AnsweredKeeps DEF SetAddress
<1>8. CASE ReadsAnother
  <2>1. PICK address \in Addresses, timeout \in Timeouts :
          \E r \in ReadAt(address, timeout) : Answered("APPLICATION", address, r)
    BY <1>8 DEF ReadsAnother
  <2>2. PICK r \in ReadAt(address, timeout) : Answered("APPLICATION", address, r)
    BY <2>1
  <2>3. CASE platform = "IDF"
    <3>1. Accounted(r.t) /\ RightReply(r, address)
      BY <1>a, <1>b, <2>2, <2>3, ReadAtRight, IdfProbeRight DEF ReadAt
    <3> QED BY <1>8, <2>2, <3>1, AnsweredKeeps DEF ReadsAnother, RightReply
  <2>4. CASE platform # "IDF"
    <3>1. r.delivered /\ address # 0 => r.to = address
      BY <2>2, <2>4, WireTransferRight, WireProbeRight
         DEF ReadAt, Wire!wireWriteReadAt, RightReply
    <3> QED BY <1>8, <2>2, <2>4, <3>1, AnsweredKeeps DEF ReadsAnother
  <2> QED BY <2>3, <2>4
<1> QED
  BY <1>2, <1>3, <1>4, <1>5, <1>6, <1>7, <1>8 DEF TransportNext

(* The inductive invariant of the adapters, in every reachable state: no   *)
(* reply is another device's and every handle is accounted for.            *)
THEOREM AdapterInvariant == TransportSpec => []AdapterInv
<1>1. TransportInit => AdapterInv
  BY DEF TransportInit, Idf!Unset, Accounted, IdfContext, AdapterInv, NotReachedIsTrue,
         RightDevice
<1> QED BY <1>1, AdapterStep, PTL DEF TransportSpec

(* The codes the driver takes as proof that a write changed nothing are    *)
(* true of both adapters.                                                  *)
THEOREM NotReachedCorrect == TransportSpec => []NotReachedIsTrue
<1>1. AdapterInv => NotReachedIsTrue
  BY DEF AdapterInv
<1> QED BY <1>1, AdapterInvariant, PTL

(* A delivered transfer went to the address it was asked for, whatever     *)
(* reconfigurations succeeded, failed or were rolled back before.          *)
THEOREM RightDeviceCorrect == TransportSpec => []RightDevice
<1>1. AdapterInv => RightDevice
  BY DEF AdapterInv
<1> QED BY <1>1, AdapterInvariant, PTL

(* The adapter's record describes the handle it uses, and no handle leaks  *)
(* unless IDF refused to give one up.                                      *)
THEOREM HandlesCorrect == TransportSpec => []HandlesAreAccounted
<1>1. AdapterInv => HandlesAreAccounted
  BY DEF AdapterInv, Accounted, HandlesAreAccounted
<1> QED BY <1>1, AdapterInvariant, PTL

-----------------------------------------------------------------------------
(* Alert evidence.  AlertTypeOK and EvidenceInv are inductive together:    *)
(* each action that touches the retained record or the work of the sample  *)
(* touches the matching ghost in the same way, and a read that fails ends  *)
(* the job it was for.                                                     *)

(* The empty records are of their types. *)
LEMMA EmptyRecords ==
  /\ NoEvidence \in Snapshot
  /\ NoSample \in [alerts : Snapshot, alertSnapshotValid : BOOLEAN]
  /\ NoJob \in [kind : Kind, stage : Stage]
  /\ NoJob.stage \notin SampleStage
<1>1. NoEvidence \in Snapshot
  BY DEF NoEvidence, Snapshot
<1>2. NoSample \in [alerts : Snapshot, alertSnapshotValid : BOOLEAN]
  BY <1>1 DEF NoSample
<1>3. NoJob \in [kind : Kind, stage : Stage] /\ NoJob.stage \notin SampleStage
  BY DEF NoJob, Kind, Stage, SampleStage
<1> QED
  BY <1>1, <1>2, <1>3

(* The state is well typed and no evidence is lost or invented, initially. *)
LEMMA EvidenceInit == AlertInit => AlertTypeOK /\ EvidenceInv
<1> SUFFICES ASSUME AlertInit
             PROVE  AlertTypeOK /\ EvidenceInv
  OBVIOUS
<1>1. AlertTypeOK
  BY EmptyRecords DEF AlertInit, AlertTypeOK
<1>2. NoSilentLoss /\ NothingFabricated /\ UncertainForAReason
  BY DEF AlertInit, NoSilentLoss, NothingFabricated, UncertainForAReason, NoEvidence
<1>3. WorkIsTheJobs
  BY EmptyRecords DEF AlertInit, WorkIsTheJobs
<1>4. SlotIsBlocked
  BY DEF AlertInit, SlotIsBlocked
<1> QED
  BY <1>1, <1>2, <1>3, <1>4 DEF EvidenceInv

(* What one read of Mask/Enable does to the retained record and the ghosts *)
(* keeps their relation, whatever the outcome of the read.                 *)
LEMMA ReadKeepsEvidence ==
  ASSUME AlertTypeOK, NoSilentLoss, NothingFabricated, UncertainForAReason,
         NEW o \in ReadOutcome, NEW levels \in SUBSET Levels,
         ReadMaskEnable(o, latched \union levels)
  PROVE  /\ retained' \in Snapshot
         /\ latched' \subseteq Events
         /\ cleared' \subseteq Events
         /\ ambiguous' \in BOOLEAN
         /\ jobCleared' \subseteq Events
         /\ NoSilentLoss'
         /\ NothingFabricated'
         /\ UncertainForAReason'
<1>1. (latched \union levels) \intersect Events = latched
  BY AlertEvidenceAssumption DEF AlertTypeOK
<1>2. CASE o.code = "OK"
  <2>1. o.clears = TRUE
    BY <1>2 DEF ReadOutcome
  <2>2. retained' = [retained EXCEPT !.events = @ \union latched]
    BY <1>1, <1>2 DEF ReadMaskEnable, Retain, DestructiveEvents
  <2>3. /\ latched' = {}
        /\ cleared' = cleared \union latched
        /\ ambiguous' = (ambiguous \/ FALSE)
        /\ jobCleared' \in {jobCleared, jobCleared \union latched}
    BY <1>2, <2>1 DEF ReadMaskEnable, DeviceReads
  <2> QED
    BY <2>2, <2>3 DEF AlertTypeOK, Snapshot, NoSilentLoss, NothingFabricated, UncertainForAReason
<1>3. CASE o.code # "OK"
  <2>1. retained' = [retained EXCEPT !.evidenceUncertain = @ \/ MayHaveReached(o.code)]
    BY <1>3 DEF ReadMaskEnable
  <2>0. o.clears => o.code = "I2C_ERROR"
    BY <1>3 DEF ReadOutcome
  <2>2. /\ latched' \in {{}, latched}
        /\ cleared' = IF o.clears THEN cleared \union latched ELSE cleared
        /\ ambiguous' = (ambiguous \/ o.code = "I2C_ERROR")
        /\ jobCleared' \in {jobCleared, jobCleared \union latched}
    BY DEF ReadMaskEnable, DeviceReads
  <2>3. MayHaveReached(o.code) \in BOOLEAN /\ (MayHaveReached(o.code) <=> o.code = "I2C_ERROR")
    BY DEF MayHaveReached
  <2>4. /\ retained' \in Snapshot
        /\ retained'.events = retained.events
        /\ retained'.evidenceUncertain <=> retained.evidenceUncertain \/ o.code = "I2C_ERROR"
    BY <2>1, <2>3 DEF AlertTypeOK, Snapshot
  <2>5. /\ latched' \subseteq Events
        /\ cleared' \subseteq Events
        /\ ambiguous' \in BOOLEAN
        /\ jobCleared' \subseteq Events
    BY <2>2 DEF AlertTypeOK
  <2>6. NoSilentLoss' /\ NothingFabricated'
    BY <2>0, <2>2, <2>4 DEF NoSilentLoss, NothingFabricated
  <2>7. UncertainForAReason'
    BY <2>2, <2>4 DEF UncertainForAReason
  <2> QED
    BY <2>4, <2>5, <2>6, <2>7
<1> QED
  BY <1>2, <1>3

(* Every step of the driver, the application and the device keeps it. *)
LEMMA EvidenceNext ==
  AlertTypeOK /\ EvidenceInv /\ [AlertNext]_alertVars => AlertTypeOK' /\ EvidenceInv'
<1> SUFFICES ASSUME AlertTypeOK, EvidenceInv, [AlertNext]_alertVars
             PROVE  AlertTypeOK' /\ EvidenceInv'
  OBVIOUS
<1> USE AlertEvidenceAssumption
<1>1. ASSUME NEW o \in ReadOutcome, NEW levels \in SUBSET Levels, LegacyRead(o, levels)
      PROVE  AlertTypeOK' /\ EvidenceInv'
  <2>1. job = NoJob /\ UNCHANGED <<job, pending, work, published>>
    BY <1>1 DEF LegacyRead
  <2>2. ReadMaskEnable(o, latched \union levels)
    BY <1>1 DEF LegacyRead
  <2>3. WorkIsTheJobs' /\ SlotIsBlocked'
    BY <2>1 DEF WorkIsTheJobs, SampleStage, NoJob, SlotIsBlocked
  <2> QED
    BY <2>1, <2>2, <2>3, ReadKeepsEvidence DEF AlertTypeOK, EvidenceInv
<1>2. ASSUME NEW o \in ReadOutcome, NEW levels \in SUBSET Levels, ProfileRead(o, levels)
      PROVE  AlertTypeOK' /\ EvidenceInv'
  <2>1. ReadMaskEnable(o, latched \union levels) /\ UNCHANGED <<work, published>>
    BY <1>2 DEF ProfileRead
  <2>2. job.stage = "PROFILE" /\ pending' \in BOOLEAN /\ job' \in {job, NoJob}
    BY <1>2 DEF ProfileRead, Finish, AlertTypeOK
  <2>3. WorkIsTheJobs'
    BY <2>2 DEF WorkIsTheJobs, SampleStage, NoJob
  <2>4. job' \in [kind : Kind, stage : Stage]
    BY <2>2, EmptyRecords DEF AlertTypeOK
  <2>5. SlotIsBlocked'
    BY <1>2 DEF ProfileRead, Finish, SlotIsBlocked, EvidenceInv
  <2> QED
    BY <2>1, <2>2, <2>3, <2>4, <2>5, ReadKeepsEvidence DEF AlertTypeOK, EvidenceInv
<1>3. ASSUME NEW o \in ReadOutcome, NEW levels \in SUBSET Levels, SampleRead(o, levels)
      PROVE  AlertTypeOK' /\ EvidenceInv'
  <2>1. /\ ReadMaskEnable(o, latched \union levels)
        /\ job.stage = "SAMPLE_READ_MASK"
        /\ UNCHANGED published
    BY <1>3 DEF SampleRead
  <2>2. job # NoJob
    BY <2>1 DEF NoJob
  <2>3. work.alerts.events = jobCleared /\ ~work.alerts.evidenceUncertain
    BY <2>1 DEF EvidenceInv, WorkIsTheJobs, SampleStage
  <2>4. CASE o.code = "OK"
    <3>1. work' = [alerts |-> [work.alerts EXCEPT !.events = @ \union latched],
                   alertSnapshotValid |-> TRUE]
      <4>1. (latched \union levels) \intersect Events = latched
        BY DEF AlertTypeOK
      <4> QED
        BY <1>3, <2>4, <4>1 DEF SampleRead, ConsumeInto, Retain, DestructiveEvents
    <3>2. jobCleared' = jobCleared \union latched
      <4>1. o.clears
        BY <2>4 DEF ReadOutcome
      <4> QED
        BY <2>1, <2>2, <4>1 DEF ReadMaskEnable, DeviceReads
    <3>3. /\ job' \in {job, [job EXCEPT !.stage = "SAMPLE_READ_CHANNELS"]}
          /\ UNCHANGED pending
      BY <1>3, <2>4 DEF SampleRead
    <3>4. job' \in [kind : Kind, stage : Stage]
      BY <3>3 DEF AlertTypeOK, Stage
    <3>5. work' \in [alerts : Snapshot, alertSnapshotValid : BOOLEAN]
      BY <3>1 DEF AlertTypeOK, Snapshot
    <3>6. WorkIsTheJobs'
      BY <2>3, <3>1, <3>2 DEF WorkIsTheJobs, AlertTypeOK, Snapshot
    <3>7. SlotIsBlocked'
      BY <2>2, <3>3 DEF SlotIsBlocked, EvidenceInv
    <3> QED
      BY <2>1, <3>3, <3>4, <3>5, <3>6, <3>7, ReadKeepsEvidence DEF AlertTypeOK, EvidenceInv
  <2>5. CASE o.code # "OK"
    <3>1. /\ work' = [work EXCEPT !.alerts.evidenceUncertain = @ \/ MayHaveReached(o.code)]
          /\ job' = NoJob
          /\ pending' = TRUE
      BY <1>3, <2>5 DEF SampleRead, Finish
    <3>2. work' \in [alerts : Snapshot, alertSnapshotValid : BOOLEAN]
      BY <3>1 DEF AlertTypeOK, Snapshot, MayHaveReached
    <3>3. WorkIsTheJobs'
      BY <3>1 DEF WorkIsTheJobs, SampleStage, NoJob
    <3>4. job' \in [kind : Kind, stage : Stage] /\ SlotIsBlocked'
      BY <3>1, EmptyRecords DEF SlotIsBlocked
    <3> QED
      BY <2>1, <3>1, <3>2, <3>3, <3>4, ReadKeepsEvidence DEF AlertTypeOK, EvidenceInv
  <2> QED
    BY <2>4, <2>5
<1> USE DEF AlertTypeOK, EvidenceInv, NoSilentLoss, NothingFabricated, UncertainForAReason,
            WorkIsTheJobs, SlotIsBlocked
<1>4. CASE TakeAlertEvents
  BY <1>4 DEF TakeAlertEvents, NoEvidence, Snapshot
<1>5. CASE UnbindAlerts
  <2>1. AlertTypeOK'
    BY <1>5, EmptyRecords DEF UnbindAlerts
  <2>2. NoSilentLoss' /\ NothingFabricated' /\ UncertainForAReason'
    BY <1>5 DEF UnbindAlerts, NoEvidence
  <2>3. WorkIsTheJobs' /\ SlotIsBlocked'
    BY <1>5, EmptyRecords DEF UnbindAlerts
  <2> QED
    BY <2>1, <2>2, <2>3
<1>6. ASSUME NEW kind \in Kind, NEW stage \in Stage, StartJob(kind, stage)
      PROVE  AlertTypeOK' /\ EvidenceInv'
  BY <1>6 DEF StartJob, NoSample, NoEvidence, Snapshot
<1>7. CASE StartJob("PROFILE", "PROFILE") \/ StartJob("TRIGGERED_SAMPLE", "SAMPLE_WRITE_CONFIG")
  BY <1>6, <1>7 DEF Kind, Stage
<1>8. ASSUME NEW consume \in BOOLEAN, StartContinuousSample(consume)
      PROVE  AlertTypeOK' /\ EvidenceInv'
  <2>1. PICK stage \in {"SAMPLE_READ_MASK", "SAMPLE_READ_CHANNELS"} :
          StartJob("CONTINUOUS_SAMPLE", stage)
    BY <1>8 DEF StartContinuousSample
  <2> QED
    BY <1>6, <2>1 DEF Kind, Stage
<1>9. CASE Trigger
  BY <1>9 DEF Trigger, SampleStage, Stage, NoJob
<1>10. CASE CommitSample
  BY <1>10 DEF CommitSample, Finish, NoJob, SampleStage, Kind, Stage
<1>11. CASE EndJob
  BY <1>11 DEF EndJob, Finish, NoJob, SampleStage, Kind, Stage
<1>12. CASE TakeJobResult
  <2>1. job = NoJob
    BY <1>12 DEF TakeJobResult
  <2> QED
    BY <1>12, <2>1, EmptyRecords DEF TakeJobResult
<1>13. ASSUME NEW flag \in Events, Latch(flag)
       PROVE  AlertTypeOK' /\ EvidenceInv'
  BY <1>13 DEF Latch
<1>14. ASSUME NEW flags, DeviceDrops(flags)
       PROVE  AlertTypeOK' /\ EvidenceInv'
  BY <1>14 DEF DeviceDrops
<1>15. CASE UNCHANGED alertVars
  BY <1>15 DEF alertVars
<1> QED
  BY <1>1, <1>2, <1>3, <1>4, <1>5, <1>7, <1>8, <1>9, <1>10, <1>11, <1>12, <1>13, <1>14, <1>15
     DEF AlertNext

(* The invariant behind the theorems below. *)
LEMMA EvidenceInvariant == AlertSpec => [](AlertTypeOK /\ EvidenceInv)
<1>1. AlertInit => AlertTypeOK /\ EvidenceInv
  BY EvidenceInit
<1>2. AlertTypeOK /\ EvidenceInv /\ [AlertNext]_alertVars => (AlertTypeOK /\ EvidenceInv)'
  BY EvidenceNext
<1> QED
  BY <1>1, <1>2, PTL DEF AlertSpec

(* No flag that the driver's reads have cleared is missing without a mark, *)
(* none is invented, and no mark is raised without a reason, for any set   *)
(* of flags and any sequence of reads, failures and acknowledgements.      *)
THEOREM EvidenceCorrect == AlertSpec => []EvidenceIsTrue
<1>1. AlertTypeOK /\ EvidenceInv => EvidenceIsTrue
  BY DEF EvidenceInv, EvidenceIsTrue
<1> QED
  BY <1>1, EvidenceInvariant, PTL

(* The action property of a published sample follows from the invariant of *)
(* the state in which it is published.                                     *)
THEOREM SampleAlertsCorrect == AlertSpec => SampleAlertsAreItsOwn
<1>1. ASSUME AlertTypeOK /\ EvidenceInv, [AlertNext]_alertVars
      PROVE  [ published' # published /\ published'.alertSnapshotValid =>
                 /\ published'.alerts.events = jobCleared
                 /\ ~published'.alerts.evidenceUncertain ]_alertVars
  <2> SUFFICES ASSUME published' # published, published'.alertSnapshotValid
               PROVE  /\ published'.alerts.events = jobCleared
                      /\ ~published'.alerts.evidenceUncertain
    OBVIOUS
  <2>1. CASE CommitSample
    BY <1>1, <2>1 DEF CommitSample, EvidenceInv, WorkIsTheJobs, SampleStage
  <2>2. CASE UnbindAlerts
    BY <2>2 DEF UnbindAlerts, NoSample
  <2>3. ~CommitSample /\ ~UnbindAlerts => UNCHANGED published
    BY <1>1 DEF AlertNext, alertVars, LegacyRead, TakeAlertEvents, StartJob, StartContinuousSample,
                ProfileRead, Trigger, SampleRead, EndJob, TakeJobResult, Latch, DeviceDrops
  <2> QED
    BY <2>1, <2>2, <2>3
<1> QED
  BY <1>1, EvidenceInvariant, PTL DEF AlertSpec, SampleAlertsAreItsOwn
=============================================================================
