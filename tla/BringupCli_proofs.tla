-------------------------- MODULE BringupCli_proofs --------------------------
(***************************************************************************)
(* Theorems about the example application over either adapter, for every   *)
(* set of addresses and clocks, every timeout of a transfer and duration   *)
(* of a job, and every budget the user may ask for.                        *)
(*                                                                         *)
(* The adapters' replies come first, then a poll with a budget that the    *)
(* transport honours, then the servicing of the job, which every command   *)
(* that polls or cancels shares, and then the commands one by one.         *)
(***************************************************************************)
EXTENDS BringupCli, TLAPS

-----------------------------------------------------------------------------
(* The adapters *)

Failure == {"I2C_BUS", "I2C_TIMEOUT", "I2C_ERROR", "INVALID_PARAM", "OUT_OF_RANGE"}

(* ESP-IDF's errors are never mapped to a success or a bad parameter. *)
LEMMA IdfCodes ==
  /\ Idf!mapEspErr("ESP_OK") = "OK"
  /\ \A err \in Idf!EspErrors :
       Idf!mapEspErr(err) \in {"I2C_TIMEOUT", "I2C_ERROR", "I2C_BUS"}
  BY DEF Idf!EspErrors, Idf!mapEspErr

(* A removed handle leaves the record as it is but for the handle. *)
LEMMA IdfRemoved ==
  ASSUME NEW t \in IdfContext
  PROVE  /\ Idf!Removed(t) \in IdfContext /\ Idf!Removed(t).dev = {}
         /\ Idf!Removed(t).address = t.address
         /\ Idf!Removed(t).frequency = t.frequency
  BY DEF IdfContext, Idf!Removed

(* An installed handle is there. *)
LEMMA IdfAdded ==
  ASSUME NEW t \in IdfContext, NEW address \in Nat
  PROVE  LET u == Idf!addDevice(t, address)
         IN /\ u \in IdfContext /\ u.dev # {}
            /\ u.address = t.address /\ u.frequency = t.frequency /\ u.bus = t.bus
<1> DEFINE handle == [address |-> address, speed |-> t.frequency]
<1>1. handle \in Handle /\ Idf!addDevice(t, address) =
        [t EXCEPT !.dev = {handle}, !.installed = t.installed \cup {handle}]
  BY DEF IdfContext, Handle, Idf!addDevice
<1> HIDE DEF handle
<1> QED BY <1>1 DEF IdfContext

(* replaceDevice: after a success the handle is the new one; otherwise the *)
(* record is the old one, with or without a handle.                        *)
LEMMA IdfReplaced ==
  ASSUME NEW t \in IdfContext, NEW address \in Nat, NEW freq \in Nat,
         NEW reply \in Idf!replaceDevice(t, address, freq)
  PROVE  /\ reply.t \in IdfContext
         /\ reply.code = "OK" =>
              reply.t.dev # {} /\ reply.t.address = address /\ reply.t.frequency = freq
         /\ reply.code # "OK" =>
              reply.t.address = t.address /\ reply.t.frequency = t.frequency
<1> DEFINE removed == Idf!Removed(t)
           changed == [removed EXCEPT !.address = address, !.frequency = freq]
           added == Idf!addDevice(changed, address)
           restored == Idf!addDevice(removed, t.address)
<1>1. \/ reply = Idf!NotSent(added, "OK")
      \/ \E u \in {t, removed, restored}, code \in Failure : reply = Idf!NotSent(u, code)
  <2> HIDE DEF removed, changed, added, restored
  <2>1. Idf!replaceDevice(t, address, freq) =
          IF ~t.bus THEN {Idf!NotSent(t, "I2C_BUS")}
          ELSE IF ~ValidAddress(address) THEN {Idf!NotSent(t, "INVALID_PARAM")}
          ELSE IF ~ValidClock(freq) THEN {Idf!NotSent(t, "OUT_OF_RANGE")}
          ELSE {Idf!NotSent(added, "OK"), Idf!NotSent(removed, "I2C_BUS")}
                 \cup {Idf!NotSent(restored, Idf!mapEspErr(err)) : err \in Idf!EspErrors}
                 \cup {Idf!NotSent(t, Idf!mapEspErr(err)) :
                         err \in IF t.dev = {} THEN {} ELSE Idf!EspErrors}
    BY Zenon DEF Idf!replaceDevice, removed, changed, added, restored
  <2> QED BY <2>1, IdfCodes DEF Failure
<1>2. /\ removed \in IdfContext
      /\ removed.address = t.address /\ removed.frequency = t.frequency
  BY IdfRemoved
<1> HIDE DEF removed
<1>3. changed \in IdfContext /\ changed.address = address /\ changed.frequency = freq
  BY <1>2 DEF IdfContext
<1>4. restored \in IdfContext /\ restored.address = t.address
      /\ restored.frequency = t.frequency
  BY <1>2, IdfAdded DEF IdfContext
<1> HIDE DEF changed, restored
<1>5. added \in IdfContext /\ added.dev # {} /\ added.address = address
      /\ added.frequency = freq
  BY <1>3, IdfAdded
<1> HIDE DEF added
<1>6. CASE reply = Idf!NotSent(added, "OK")
  BY <1>5, <1>6 DEF Idf!NotSent
<1>7. CASE \E u \in {t, removed, restored}, code \in Failure :
             reply = Idf!NotSent(u, code)
  BY <1>2, <1>4, <1>7 DEF Idf!NotSent, Failure
<1> QED BY <1>1, <1>6, <1>7

(* A bus that has come up has a handle at the address asked for. *)
LEMMA IdfInitialized ==
  ASSUME NEW u \in Idf!ina3221IdfInitI2c(Idf!Unset, 1, 1)
  PROVE  u \in IdfContext /\ (u.bus => u.dev # {} /\ u.address = 1)
<1>1. PICK d \in Idf!ina3221IdfDeinitI2c(Idf!Unset) :
        u \in {d, [d EXCEPT !.frequency = 1, !.address = 1],
               Idf!addDevice([d EXCEPT !.bus = TRUE, !.frequency = 1, !.address = 1], 1)}
  BY DEF Idf!ina3221IdfInitI2c
<1>2. Idf!Unset \in IdfContext
  BY DEF Idf!Unset, IdfContext
<1>3. d \in IdfContext /\ d.bus = FALSE
  <2> DEFINE removed == Idf!Removed(Idf!Unset)
  <2>1. removed \in IdfContext
    BY <1>2, IdfRemoved
  <2> HIDE DEF removed
  <2>2. d = [removed EXCEPT !.bus = FALSE]
    BY DEF Idf!ina3221IdfDeinitI2c, Idf!Unset, removed
  <2> QED BY <2>1, <2>2 DEF IdfContext
<1>4. CASE u = [d EXCEPT !.frequency = 1, !.address = 1]
  BY <1>3, <1>4 DEF IdfContext
<1>5. ASSUME NEW up, up = [d EXCEPT !.bus = TRUE, !.frequency = 1, !.address = 1]
      PROVE  LET added == Idf!addDevice(up, 1)
             IN added \in IdfContext /\ added.dev # {} /\ added.address = 1
  <2>1. up \in IdfContext /\ up.address = 1
    BY <1>3, <1>5 DEF IdfContext
  <2> QED BY <2>1, IdfAdded
<1> QED BY <1>1, <1>3, <1>4, <1>5

(* The address, or Wire's bus, is as it was. *)
SameDevice(t, u) ==
  IF OnIdf THEN u.address = t.address ELSE u.up = t.up /\ u.timeout = t.timeout

ContextType == IF OnIdf THEN IdfContext ELSE WireContext

(* A change of the clock keeps the device; the record's clock is the new   *)
(* one exactly after a success.                                            *)
LEMMA ClockIsSet ==
  ASSUME NEW t \in ContextType, NEW clock \in Nat, NEW reply \in SetClock(t, clock)
  PROVE  /\ reply.t \in ContextType /\ SameDevice(t, reply.t)
         /\ reply.code = "OK" => reply.t.frequency = clock /\ (OnIdf => reply.t.dev # {})
         /\ reply.code # "OK" => reply.t.frequency = t.frequency
<1>1. CASE OnIdf
  <2>1. t \in IdfContext /\ t.address \in Nat
    BY <1>1 DEF ContextType, IdfContext
  <2>2. reply \in Idf!replaceDevice(t, t.address, clock)
    BY <1>1 DEF SetClock, Idf!ina3221IdfSetFrequency
  <2>3. /\ reply.t \in IdfContext /\ reply.t.address = t.address
        /\ reply.code = "OK" => reply.t.frequency = clock /\ reply.t.dev # {}
        /\ reply.code # "OK" => reply.t.frequency = t.frequency
    BY <2>1, <2>2, IdfReplaced
  <2> QED BY <1>1, <2>3 DEF ContextType, SameDevice
<1>2. CASE ~OnIdf
  <2>1. t \in WireContext
    BY <1>2 DEF ContextType
  <2>2. \/ \E code \in Failure : reply = Wire!NotSent(t, code)
        \/ reply = Wire!NotSent([t EXCEPT !.frequency = clock], "OK")
    BY <1>2 DEF SetClock, Wire!setFrequency, Failure
  <2>3. [t EXCEPT !.frequency = clock] \in WireContext
    BY <2>1 DEF WireContext
  <2> QED BY <1>2, <2>1, <2>2, <2>3 DEF ContextType, SameDevice, WireContext, Wire!NotSent,
       Failure
<1> QED BY <1>1, <1>2

-----------------------------------------------------------------------------
(* Polls *)

(* A code may be REFUSED only while the Arduino bus is not up. *)
Unrefused(code) == code = "REFUSED" => ~OnIdf /\ ~context.up

(* A budget of transfers for which there is time at Wire's timeout. *)
Honoured(remaining, budget) == OnIdf \/ budget <= remaining \div TransferMs

(* What is assumed of the constants *)
LEMMA Assumptions ==
  /\ TransferMs \in Nat \ {0} /\ JobMs \in Nat \ {0} /\ Budgets \subseteq Nat
  /\ Addresses \subseteq Nat \ {0} /\ 1 \in Addresses
  /\ Clocks \subseteq Nat /\ 1 \in Clocks
  BY CliAssumption

(* The share of each of so many transfers is Wire's timeout at least. *)
LEMMA ShareIsEnough ==
  ASSUME NEW r \in Nat, NEW T \in Nat \ {0}, NEW b \in Nat \ {0}, b <= r \div T
  PROVE  r \div b >= T
<1>1. /\ r \div T \in Nat /\ (r \div T) * T <= r
      /\ r \div b \in Nat /\ r < (r \div b) * b + b
  OBVIOUS
<1>2. b * T <= (r \div T) * T
  BY <1>1
<1>3. SUFFICES ASSUME r \div b + 1 <= T PROVE FALSE
  BY <1>1
<1> DEFINE q == r \div b
<1>4. q \in Nat /\ q + 1 <= T /\ b * T <= r /\ r < q * b + b
  BY <1>1, <1>2, <1>3
<1> HIDE DEF q
<1>5. b * (q + 1) <= b * T
  BY <1>4
<1> QED BY <1>4, <1>5

(* _clampedTransferTimeout yields a timeout the adapter takes, or none. *)
LEMMA TimeoutIsTaken ==
  ASSUME NEW r \in 0 .. JobMs, NEW b \in Nat \ {0}, Honoured(r, b)
  PROVE  LET timeout == ClampedTimeout(r, b)
         IN /\ timeout \in 0 .. JobMs
            /\ timeout # 0 => OnIdf \/ timeout = TransferMs
<1>1. r \div b \in 0 .. r
  <2>1. r \div b \in Nat /\ (r \div b) * b <= r /\ r \div b <= (r \div b) * b
    OBVIOUS
  <2> QED BY <2>1
<1>2. ~OnIdf => r \div b >= TransferMs /\ r >= TransferMs
  BY <1>1, Assumptions, ShareIsEnough DEF Honoured
<1> QED BY <1>1, <1>2, Assumptions DEF ClampedTimeout, Least

(* ... so that its transfer is refused only by a bus that is not up. *)
LEMMA TransferIsTaken ==
  ASSUME TypeOK, DriverHasItsDevice, driver.bound,
         NEW timeout \in 1 .. JobMs, OnIdf \/ timeout = TransferMs,
         NEW code \in TransferResults(timeout)
  PROVE  code \in Code /\ Unrefused(code)
<1>1. code \in {"OK", "REFUSED", "FAILED"}
  BY DEF TransferResults, TransferResult
<1>2. CASE OnIdf
  <2>1. /\ context.dev # {} /\ driver.profile.address = context.address
        /\ timeout # 0 /\ ~(timeout > JobMs)
    BY <1>2, Assumptions DEF DriverHasItsDevice
  <2>2. Idf!ina3221IdfI2cWriteRead(context, driver.profile.address, timeout)
          = UNION {Idf!Attempts(context, handle) : handle \in context.dev}
    BY <2>1 DEF Idf!ina3221IdfI2cWriteRead, Idf!ina3221IdfI2cWrite, Idf!validateContext,
         Idf!validateTimeout
  <2>3. PICK handle \in context.dev :
          \E reply \in Idf!Attempts(context, handle) : code = TransferResult(reply)
    BY <1>2, <2>2 DEF TransferResults
  <2>4. PICK reply \in Idf!Attempts(context, handle) : code = TransferResult(reply)
    BY <2>3
  <2>5. reply.code \in {"OK", "I2C_TIMEOUT", "I2C_ERROR", "I2C_BUS"}
    BY IdfCodes DEF Idf!Attempts, Idf!Sent
  <2> QED BY <1>1, <2>4, <2>5 DEF TransferResult, Code, Unrefused
<1>3. CASE ~OnIdf /\ context.up
  <2> DEFINE address == driver.profile.address
  <2>1. /\ context.timeout = TransferMs /\ timeout = TransferMs /\ address # 0
        /\ TransferMs \in Nat \ {0}
    BY <1>3, Assumptions DEF DriverHasItsDevice, TypeOK, Driver, Profile
  <2> HIDE DEF address
  <2>2. Wire!validateTransferContext(context, timeout) = "OK"
    BY <1>3, <2>1 DEF Wire!validateTransferContext
  <2>3. PICK reply \in Wire!wireWriteRead(context, address, timeout) :
          code = TransferResult(reply)
    BY <1>3 DEF TransferResults, address
  <2>4. reply.to = address \/ reply.code = "I2C_ERROR"
    BY <2>2 DEF Wire!wireWriteRead, Wire!wireWrite, Wire!Attempts, Wire!NotSent, Wire!Sent
  <2> QED BY <1>1, <2>1, <2>3, <2>4 DEF TransferResult, Code, Unrefused
<1>4. CASE ~OnIdf /\ ~context.up
  BY <1>1, <1>4 DEF Code, Unrefused
<1> QED BY <1>2, <1>3, <1>4

(* What a poll or a cancel may make of an active job. *)
Follows(k, j) ==
  \/ k = j
  \/ /\ k \in Job /\ k.slot = "PENDING" /\ k.kind = j.kind
     /\ Unrefused(k.code)

(* A job that is cancelled, or ends with a transfer *)
LEMMA EndedFollows ==
  ASSUME NEW j \in Job, NEW code \in Code, Unrefused(code)
  PROVE  Follows(Ended(j, code), j)
<1>1. 0 \in 0 .. JobMs
  BY Assumptions
<1> QED BY <1>1 DEF Follows, Ended, Job

(* A poll within an honoured budget: the job goes on or ends with a code of its transfer *)
LEMMA PollFollows ==
  ASSUME TypeOK, DriverHasItsDevice, driver.bound,
         NEW j \in Job, NEW budget \in Nat, Honoured(j.remaining, budget),
         NEW k \in PollJob(j, budget)
  PROVE  Follows(k, j)
<1> DEFINE timeout == ClampedTimeout(j.remaining, budget)
<1>1. "EXPIRED" \in Code /\ Unrefused("EXPIRED")
  BY DEF Code, Unrefused
<1>2. CASE k = j
  BY <1>2 DEF Follows
<1>3. CASE k = Ended(j, "EXPIRED")
  BY <1>1, <1>3, EndedFollows
<1>4. CASE budget # 0 /\ timeout # 0 /\ \E code \in TransferResults(timeout) : k = Ended(j, code)
  <2>1. j.remaining \in 0 .. JobMs
    BY DEF Job
  <2>2. timeout \in 1 .. JobMs /\ (OnIdf \/ timeout = TransferMs)
    BY <1>4, <2>1, TimeoutIsTaken, Assumptions
  <2> HIDE DEF timeout
  <2>3. PICK code \in TransferResults(timeout) : k = Ended(j, code)
    BY <1>4
  <2>4. code \in Code /\ Unrefused(code)
    BY <2>2, TransferIsTaken
  <2> QED BY <2>3, <2>4, EndedFollows
<1>5. k = j \/ k = Ended(j, "EXPIRED")
        \/ (budget # 0 /\ timeout # 0 /\ \E code \in TransferResults(timeout) : k = Ended(j, code))
  BY DEF PollJob
<1> QED BY <1>2, <1>3, <1>4, <1>5

(* The budget the application asks for is one the transport honours. *)
LEMMA BudgetIsHonoured ==
  ASSUME TypeOK, NEW requested \in Nat
  PROVE  Budget(requested) \in Nat /\ Honoured(job.remaining, Budget(requested))
<1>1. job.remaining \in Nat /\ job.remaining \div TransferMs \in Nat
  BY Assumptions DEF TypeOK, Job
<1> QED
  BY <1>1 DEF Budget, Honoured, wireSafeTransferBudget, Least

(* ... and so does the application's poll, whatever the user asked for *)
LEMMA PolledFollows ==
  ASSUME CliInv, job.slot = "ACTIVE", NEW requested \in Nat, NEW k \in Polled(requested)
  PROVE  Follows(k, job)
<1>1. TypeOK /\ DriverHasItsDevice /\ driver.bound /\ job \in Job
  BY DEF CliInv, DriverHasItsDevice, TypeOK
<1> QED BY <1>1, BudgetIsHonoured, PollFollows DEF Polled

-----------------------------------------------------------------------------
(* Servicing *)

(* The slot of a job that is started, and without one *)
LEMMA IdleJobs ==
  /\ NoJob \in Job
  /\ \A kind \in Kinds : ActiveJob(kind) \in Job /\ ActiveJob(kind).slot = "ACTIVE"
  BY Assumptions DEF NoJob, ActiveJob, Job, Code

(* What serviceOwnerJob leaves of a job that was active: none of its       *)
(* results, and a phase that agrees with the slot.                         *)
LEMMA TakenAgrees ==
  ASSUME app \in App, app.phase = "ACTIVE", Unrefused(app.last),
         NEW j \in Job, j.slot \in {"ACTIVE", "PENDING"},
         j.slot = "PENDING" => Unrefused(j.code),
         NEW d \in Driver, NEW taken \in Taken(j, d)
  PROVE  /\ taken.job \in Job /\ taken.app \in App
         /\ taken.app.phase = "ACTIVE" <=> taken.job.slot = "ACTIVE"
         /\ taken.job.slot # "PENDING"
         /\ Unrefused(taken.app.last)
<1> DEFINE a == [app EXCEPT !.last = j.code, !.startup = FALSE]
           kept == IF j.code = "OK" /\ d.bound
                   THEN [a EXCEPT !.retained = d.profile, !.valid = TRUE,
                                  !.selected = d.profile.address]
                   ELSE a
           idle == [kept EXCEPT !.phase = "IDLE"]
<1>1. /\ d.profile \in Profile /\ d.profile.address \in Addresses
      /\ j.code \in Code \cup {"NONE"}
  BY DEF Driver, Profile, Job
<1>2. a \in App /\ a.last = j.code /\ a.phase = "ACTIVE"
  BY <1>1 DEF App
<1> HIDE DEF a
<1>3. kept \in App /\ kept.last = j.code /\ kept.phase = "ACTIVE"
  BY <1>1, <1>2 DEF App
<1> HIDE DEF kept
<1>4. idle \in App /\ idle.last = j.code /\ idle.phase = "IDLE"
  BY <1>3 DEF App
<1> HIDE DEF idle
<1>5. NoJob \in Job /\ NoJob.slot = "FREE"
  BY IdleJobs DEF NoJob
<1>6. ActiveJob("SAMPLE") \in Job /\ ActiveJob("SAMPLE").slot = "ACTIVE"
  BY IdleJobs DEF Kinds
<1>7. CASE j.slot = "ACTIVE"
  <2>1. taken = [job |-> j, app |-> app]
    BY <1>7 DEF Taken
  <2> QED BY <1>7, <2>1
<1>8. CASE j.slot = "PENDING"
  <2>1. \/ taken = [job |-> NoJob, app |-> idle]
        \/ taken = [job |-> ActiveJob("SAMPLE"), app |-> kept]
    BY <1>8 DEF Taken, StartupSample, a, kept, idle
  <2> QED BY <1>3, <1>4, <1>5, <1>6, <1>8, <2>1
<1> QED BY <1>7, <1>8

(* A serviced job keeps the invariant; its driver stays bound, so that the *)
(* retained profile is not spoken of.                                      *)
LEMMA ServicedKeeps ==
  ASSUME CliInv, job.slot = "ACTIVE",
         NEW jobs, \A j \in jobs : Follows(j, job),
         NEW auto \in BOOLEAN, Serviced(jobs, auto)
  PROVE  CliInv'
<1>1. PICK j \in jobs :
        /\ driver' = DriverAfter(j) /\ ghost' = GhostAfter(j)
        /\ \E taken \in Taken(j, driver') :
             job' = taken.job /\ app' = [taken.app EXCEPT !.auto = auto]
        /\ platform' = platform /\ context' = context
  BY DEF Serviced
<1>2. PICK taken \in Taken(j, driver') :
        job' = taken.job /\ app' = [taken.app EXCEPT !.auto = auto]
  BY <1>1
<1>3. /\ TypeOK /\ driver.bound /\ driver \in Driver /\ job \in Job /\ app \in App
      /\ ghost \in Ghost /\ app.phase = "ACTIVE" /\ Unrefused(app.last)
  BY DEF CliInv, TypeOK, NoOrphanJob, DriverHasItsDevice, IdfRefusesNothing,
         JobsReachTheBus, BusUp, Unrefused
<1>4. /\ j \in Job /\ j.slot \in {"ACTIVE", "PENDING"}
      /\ j.slot = "PENDING" => Unrefused(j.code)
  BY <1>1, <1>3 DEF Follows
<1>5. /\ driver' \in Driver /\ driver'.bound
      /\ driver'.profile.address = driver.profile.address
      /\ driver'.initialized => driver.initialized \/ (j.slot = "PENDING" /\ j.code = "OK")
  BY <1>1, <1>3 DEF DriverAfter, Driver, Profile
<1>6. /\ taken.job \in Job /\ taken.app \in App
      /\ taken.app.phase = "ACTIVE" <=> taken.job.slot = "ACTIVE"
      /\ taken.job.slot # "PENDING"
      /\ Unrefused(taken.app.last)
  BY <1>2, <1>3, <1>4, <1>5, TakenAgrees
<1>7. /\ app' \in App /\ app'.phase = taken.app.phase /\ app'.last = taken.app.last
  BY <1>2, <1>6 DEF App
<1>8. context.frequency \in Nat
  BY <1>3 DEF TypeOK, IdfContext, WireContext
<1>9. ghost' \in Ghost
      /\ (driver'.initialized /\ ~ghost'.unrestored => context.frequency = ghost'.verified)
  BY <1>1, <1>3, <1>5, <1>8 DEF GhostAfter, Ghost, CliInv, FrequencyIsTrusted
<1>10. TypeOK'
  BY <1>1, <1>2, <1>3, <1>5, <1>6, <1>7, <1>9 DEF TypeOK, OnIdf
<1>11. NoOrphanJob'
  BY <1>2, <1>6, <1>7 DEF NoOrphanJob
<1>12. DriverHasItsDevice'
  BY <1>1, <1>3, <1>5 DEF CliInv, DriverHasItsDevice, OnIdf
<1>13. IdfRefusesNothing' /\ JobsReachTheBus'
  BY <1>1, <1>6, <1>7 DEF IdfRefusesNothing, JobsReachTheBus, Unrefused, BusUp, OnIdf
<1>14. FrequencyIsTrusted' /\ LastProfileIsKept'
  BY <1>1, <1>5, <1>9 DEF FrequencyIsTrusted, LastProfileIsKept
<1> QED BY <1>10, <1>11, <1>12, <1>13, <1>14 DEF CliInv

(* A turn of the loop, and the commands that poll or cancel a job *)
LEMMA LoopKeeps ==
  ASSUME CliInv, ServiceOwnerJob
  PROVE  CliInv'
<1>1. job.slot = "ACTIVE" /\ app.auto \in BOOLEAN
  BY DEF ServiceOwnerJob, CliInv, NoOrphanJob, TypeOK, App
<1>2. \A j \in IF app.auto THEN Polled(1) ELSE {job} : Follows(j, job)
  BY <1>1, PolledFollows DEF Follows
<1> QED BY <1>1, <1>2, ServicedKeeps DEF ServiceOwnerJob

(* job step *)
LEMMA JobStepKeeps ==
  ASSUME CliInv, NEW requested \in Budgets, JobStep(requested)
  PROVE  CliInv'
<1>1. job.slot = "ACTIVE" /\ requested \in Nat
  BY Assumptions DEF JobStep
<1>2. \A j \in Polled(requested) : Follows(j, job)
  BY <1>1, PolledFollows
<1> QED BY <1>1, <1>2, ServicedKeeps DEF JobStep

(* job cancel *)
LEMMA JobCancelKeeps ==
  ASSUME CliInv, JobCancel
  PROVE  CliInv'
<1>1. /\ job.slot = "ACTIVE" /\ app.auto \in BOOLEAN /\ job \in Job
      /\ "CANCELLED" \in Code /\ Unrefused("CANCELLED")
  BY DEF JobCancel, CliInv, TypeOK, App, Code, Unrefused
<1>2. \A j \in {Ended(job, "CANCELLED")} : Follows(j, job)
  BY <1>1, EndedFollows
<1> QED BY <1>1, <1>2, ServicedKeeps DEF JobCancel

-----------------------------------------------------------------------------
(* The other commands *)

(* The types of the variables, by name. *)
LEMMA Types ==
  ASSUME CliInv
  PROVE  /\ driver \in Driver /\ job \in Job /\ app \in App /\ ghost \in Ghost
         /\ context \in ContextType /\ context.frequency \in Nat
         /\ Unrefused(app.last)
  BY DEF CliInv, TypeOK, ContextType, IdfContext, WireContext, IdfRefusesNothing,
         JobsReachTheBus, BusUp, Unrefused

(* A command that leaves the driver and the context alone only has to keep *)
(* phase and slot, the retained profile and the last code in order.        *)
LEMMA QuietKeeps ==
  ASSUME CliInv, UNCHANGED <<platform, context, driver>>,
         job' \in Job, app' \in App, ghost' \in Ghost,
         job'.slot = "ACTIVE" => driver.bound, job'.slot # "PENDING",
         app'.phase = "ACTIVE" <=> job'.slot = "ACTIVE",
         Unrefused(app'.last),
         app'.retained = app.retained, app'.valid = app.valid,
         ghost' = ghost \/ ghost'.verified = context.frequency
  PROVE  CliInv'
<1>1. TypeOK'
  BY DEF CliInv, TypeOK, OnIdf
<1>2. NoOrphanJob' /\ DriverHasItsDevice'
  BY DEF CliInv, NoOrphanJob, DriverHasItsDevice, OnIdf
<1>3. IdfRefusesNothing' /\ JobsReachTheBus'
  BY DEF IdfRefusesNothing, JobsReachTheBus, Unrefused, BusUp, OnIdf
<1>4. FrequencyIsTrusted' /\ LastProfileIsKept'
  BY DEF CliInv, FrequencyIsTrusted, LastProfileIsKept
<1> QED BY <1>1, <1>2, <1>3, <1>4 DEF CliInv

(* A unit of time *)
LEMMA TickKeeps ==
  ASSUME CliInv, Tick
  PROVE  CliInv'
<1>1. job' \in Job /\ job'.slot = job.slot
  <2>1. job.remaining - 1 \in 0 .. JobMs
    BY Types, Assumptions DEF Tick, Job
  <2> QED BY <2>1, Types DEF Tick, Job
<1>2. /\ job.slot = "ACTIVE" => driver.bound
      /\ job.slot # "PENDING" /\ (app.phase = "ACTIVE" <=> job.slot = "ACTIVE")
  BY DEF CliInv, NoOrphanJob, DriverHasItsDevice
<1>3. UNCHANGED <<platform, context, driver, app, ghost>>
  BY DEF Tick
<1> QED BY <1>1, <1>2, <1>3, Types, QuietKeeps DEF Unrefused, OnIdf

(* job init ... continuous, and direction *)
LEMMA JobStartKeeps ==
  ASSUME CliInv,
         \/ \E kind \in Kinds : JobStart(kind)
         \/ Direction
  PROVE  CliInv'
<1>1. PICK kind \in Kinds : job' = ActiveJob(kind) /\ CanStart(kind)
  BY DEF JobStart, Direction, Kinds
<1>2. /\ app' \in App /\ app'.phase = "ACTIVE" /\ app'.last = app.last
      /\ app'.retained = app.retained /\ app'.valid = app.valid
  BY Types DEF JobStart, Direction, trackOwnerStart, App
<1>3. UNCHANGED <<platform, context, driver, ghost>>
  BY DEF JobStart, Direction
<1>4. job' \in Job /\ job'.slot = "ACTIVE" /\ driver.bound
  BY <1>1, IdleJobs DEF CanStart
<1> QED BY <1>2, <1>3, <1>4, Types, QuietKeeps DEF Unrefused, OnIdf

(* job auto and addr *)
LEMMA JobAutoKeeps ==
  ASSUME CliInv,
         \/ \E enabled \in BOOLEAN : JobAuto(enabled)
         \/ \E address \in Addresses : Addr(address)
  PROVE  CliInv'
<1>1. /\ app' \in App /\ app'.phase = app.phase /\ app'.last = app.last
      /\ app'.retained = app.retained /\ app'.valid = app.valid
  BY Types DEF JobAuto, Addr, App
<1>2. UNCHANGED <<platform, context, driver, job, ghost>>
  BY DEF JobAuto, Addr
<1>3. /\ job.slot = "ACTIVE" => driver.bound
      /\ job.slot # "PENDING" /\ (app.phase = "ACTIVE" <=> job.slot = "ACTIVE")
  BY DEF CliInv, NoOrphanJob, DriverHasItsDevice
<1> QED BY <1>1, <1>2, <1>3, Types, QuietKeeps DEF Unrefused, OnIdf

(* IDF's startup comes to its end *)
LEMMA DemoEndsKeeps ==
  ASSUME CliInv, DemoEnds
  PROVE  CliInv'
<1>1. UNCHANGED <<platform, context, driver, ghost>>
  BY DEF DemoEnds
<1>2. /\ job.slot = "ACTIVE" => driver.bound
      /\ job.slot # "PENDING" /\ (app.phase = "ACTIVE" <=> job.slot = "ACTIVE")
  BY DEF CliInv, NoOrphanJob, DriverHasItsDevice
<1>3. CASE app.phase = "IDLE" /\ job' = job /\ app' = [app EXCEPT !.demo = FALSE]
  <2>1. /\ app' \in App /\ app'.phase = app.phase /\ app'.last = app.last
        /\ app'.retained = app.retained /\ app'.valid = app.valid
    BY <1>3, Types DEF App
  <2> QED BY <1>1, <1>2, <1>3, <2>1, Types, QuietKeeps DEF Unrefused, OnIdf
<1>4. CASE app.phase = "ACTIVE"
           /\ \E taken \in Taken(Ended(job, "CANCELLED"), driver) :
                job' = taken.job /\ app' = [taken.app EXCEPT !.demo = FALSE]
  <2> DEFINE j == Ended(job, "CANCELLED")
  <2>1. /\ j \in Job /\ j.slot = "PENDING" /\ j.code = "CANCELLED"
    <3>1. 0 \in 0 .. JobMs /\ "CANCELLED" \in Code
      BY Assumptions DEF Code
    <3> QED BY <3>1, Types DEF Ended, Job
  <2>2. PICK taken \in Taken(j, driver) :
          job' = taken.job /\ app' = [taken.app EXCEPT !.demo = FALSE]
    BY <1>4
  <2> HIDE DEF j
  <2>3. Unrefused("CANCELLED")
    BY DEF Unrefused
  <2>4. /\ taken.job \in Job /\ taken.app \in App
        /\ taken.app.phase = "ACTIVE" <=> taken.job.slot = "ACTIVE"
        /\ taken.job.slot # "PENDING"
        /\ Unrefused(taken.app.last)
    BY <1>4, <2>1, <2>2, <2>3, Types, TakenAgrees
  <2>5. taken.app.retained = app.retained /\ taken.app.valid = app.valid
        /\ taken.job.slot # "ACTIVE"
    <3> DEFINE ended == [app EXCEPT !.last = j.code, !.startup = FALSE]
    <3>1. taken = [job |-> NoJob, app |-> [ended EXCEPT !.phase = "IDLE"]]
      BY <1>4, <2>1, <2>2 DEF Taken
    <3>2. ended \in App /\ ended.retained = app.retained /\ ended.valid = app.valid
      BY <2>1, Types DEF App, Job
    <3> HIDE DEF ended
    <3> QED BY <3>1, <3>2 DEF App, NoJob
  <2>6. /\ app' \in App /\ app'.phase = taken.app.phase /\ app'.last = taken.app.last
        /\ app'.retained = app.retained /\ app'.valid = app.valid
    BY <2>2, <2>4, <2>5 DEF App
  <2> QED BY <1>1, <2>2, <2>4, <2>5, <2>6, Types, QuietKeeps DEF Unrefused, OnIdf
<1> QED BY <1>3, <1>4 DEF DemoEnds

(* The iteration of stress_owner ends with a code that a poll may give. *)
LEMMA StressKeeps ==
  ASSUME CliInv, StressOwner
  PROVE  CliInv'
<1> DEFINE start == ActiveJob("SAMPLE")
           budget(left) == IF OnIdf THEN 1 ELSE wireSafeTransferBudget(left, 1)
<1>0. PICK left \in 0 .. JobMs :
        \E j \in PollJob([start EXCEPT !.remaining = left], budget(left)) :
          /\ j.slot = "PENDING"
          /\ app' = [app EXCEPT !.last = j.code, !.phase = "IDLE"]
          /\ ghost' = GhostAfter(j)
  BY DEF StressOwner
<1> DEFINE begun == [start EXCEPT !.remaining = left]
<1>1. PICK j \in PollJob(begun, budget(left)) :
        /\ j.slot = "PENDING"
        /\ app' = [app EXCEPT !.last = j.code, !.phase = "IDLE"]
        /\ ghost' = GhostAfter(j)
  BY <1>0
<1>2. UNCHANGED <<platform, context, driver, job>> /\ job.slot = "FREE" /\ driver.bound
  BY DEF StressOwner, CanStart
<1>3. begun \in Job /\ begun.remaining = left /\ begun.slot = "ACTIVE"
  <2>1. start \in Job /\ start.slot = "ACTIVE"
    BY IdleJobs DEF Kinds
  <2> HIDE DEF start
  <2> QED BY <2>1 DEF Job
<1>4. budget(left) \in Nat /\ Honoured(left, budget(left))
  <2>1. left \div TransferMs \in Nat
    BY Assumptions
  <2> QED BY <2>1 DEF Honoured, wireSafeTransferBudget, Least
<1> HIDE DEF budget, begun
<1>5. Follows(j, begun)
  BY <1>1, <1>2, <1>3, <1>4, PollFollows DEF CliInv, begun
<1>6. j \in Job /\ Unrefused(j.code) /\ j.code \in Code
  BY <1>1, <1>3, <1>5 DEF Follows, Job
<1>7. /\ app' \in App /\ app'.phase = "IDLE" /\ app'.last = j.code
      /\ app'.retained = app.retained /\ app'.valid = app.valid
  BY <1>1, <1>6, Types DEF App
<1>8. ghost' \in Ghost /\ (ghost' = ghost \/ ghost'.verified = context.frequency)
  BY <1>1, Types DEF GhostAfter, Ghost
<1> QED BY <1>2, <1>6, <1>7, <1>8, Types, QuietKeeps DEF Unrefused, OnIdf

(* recover *)
LEMMA RecoverKeeps ==
  ASSUME CliInv, Recover
  PROVE  CliInv'
<1>1. UNCHANGED <<platform, context, driver, job, app>>
  BY DEF Recover
<1>2. ghost' = [verified |-> context.frequency, unrestored |-> FALSE]
  BY DEF Recover, GhostAfter, Ended
<1>3. ghost' \in Ghost /\ ghost'.verified = context.frequency
  BY <1>2, Types DEF Ghost
<1>4. /\ job.slot = "ACTIVE" => driver.bound
      /\ job.slot # "PENDING" /\ (app.phase = "ACTIVE" <=> job.slot = "ACTIVE")
  BY DEF CliInv, NoOrphanJob, DriverHasItsDevice
<1> QED BY <1>1, <1>3, <1>4, Types, QuietKeeps DEF Unrefused, OnIdf

(* mode *)
LEMMA SetModeKeeps ==
  ASSUME CliInv, NEW mode \in {"ON", "DOWN"}, SetMode(mode)
  PROVE  CliInv'
<1>1. UNCHANGED <<platform, context, job, app, ghost>>
  BY DEF SetMode
<1>2. /\ driver' \in Driver /\ driver'.bound = driver.bound /\ driver.bound
      /\ driver'.initialized = driver.initialized
      /\ driver'.profile.address = driver.profile.address
  BY Types DEF SetMode, CanStart, Driver, Profile
<1>3. TypeOK'
  BY <1>1, <1>2 DEF CliInv, TypeOK, OnIdf
<1>4. NoOrphanJob' /\ IdfRefusesNothing' /\ JobsReachTheBus'
  BY <1>1 DEF CliInv, NoOrphanJob, IdfRefusesNothing, JobsReachTheBus, BusUp, OnIdf
<1>5. DriverHasItsDevice' /\ FrequencyIsTrusted' /\ LastProfileIsKept'
  BY <1>1, <1>2 DEF CliInv, DriverHasItsDevice, FrequencyIsTrusted, LastProfileIsKept, OnIdf
<1> QED BY <1>3, <1>4, <1>5 DEF CliInv

(* The commands that rebind the driver or move the bus need a free slot. *)

(* retainCurrentProfile holds on to the profile of a bound driver. *)
LEMMA RetainedIsLast ==
  ASSUME CliInv
  PROVE  LET a == retainCurrentProfile(app)
         IN /\ a \in App /\ a.phase = app.phase /\ a.last = app.last
            /\ a.valid => a.retained.mode = driver.profile.mode
<1>1. driver.profile \in Profile /\ driver.bound \in BOOLEAN
  BY Types DEF Driver
<1>2. CASE driver.bound
  BY <1>1, <1>2, Types DEF retainCurrentProfile, App
<1>3. CASE ~driver.bound
  BY <1>3, Types DEF retainCurrentProfile, CliInv, LastProfileIsKept
<1> QED BY <1>2, <1>3

(* What remains to be shown of a command that keeps the slot free. *)
LEMMA FreeKeeps ==
  ASSUME CliInv, job.slot = "FREE", UNCHANGED <<platform, job>>,
         context' \in ContextType, SameDevice(context, context') \/ ~driver'.bound,
         driver' \in Driver, app' \in App, ghost' \in Ghost,
         ~OnIdf => context'.up = context.up /\ context'.timeout = context.timeout,
         app'.phase = "IDLE", app'.last = app.last,
         driver'.bound => driver' = driver /\ (OnIdf => context'.dev # {}),
         driver'.initialized /\ ~ghost'.unrestored => context'.frequency = ghost'.verified,
         ~driver'.bound /\ app'.valid => app'.retained.mode = driver'.profile.mode
  PROVE  CliInv'
<1>1. TypeOK'
  BY Types DEF CliInv, TypeOK, OnIdf, ContextType
<1>2. NoOrphanJob' /\ LastProfileIsKept' /\ FrequencyIsTrusted'
  BY DEF NoOrphanJob, LastProfileIsKept, FrequencyIsTrusted
<1>3. DriverHasItsDevice'
  BY DEF CliInv, DriverHasItsDevice, SameDevice, OnIdf
<1>4. IdfRefusesNothing' /\ JobsReachTheBus'
  BY Types DEF IdfRefusesNothing, JobsReachTheBus, Unrefused, BusUp, OnIdf
<1> QED BY <1>1, <1>2, <1>3, <1>4 DEF CliInv

(* Without a job the application is idle. *)
LEMMA FreeIsIdle ==
  ASSUME CliInv, requireIdleOwnerJob
  PROVE  job.slot = "FREE" /\ app.phase = "IDLE"
  BY Types DEF CliInv, NoOrphanJob, requireIdleOwnerJob, App

(* The driver is given up with its profile retained. *)
LEMMA UnboundKeepsItsProfile ==
  ASSUME CliInv, driver' = [driver EXCEPT !.bound = FALSE, !.initialized = FALSE],
         \/ app' = [retainCurrentProfile(app) EXCEPT !.phase = "IDLE"]
         \/ app' = [retainCurrentProfile(app) EXCEPT !.phase = "IDLE", !.startup = FALSE]
  PROVE  /\ driver' \in Driver /\ ~driver'.bound /\ ~driver'.initialized
         /\ app' \in App /\ app'.phase = "IDLE" /\ app'.last = app.last
         /\ app'.valid => app'.retained.mode = driver'.profile.mode
<1> DEFINE a == retainCurrentProfile(app)
<1>1. /\ a \in App /\ a.last = app.last
      /\ a.valid => a.retained.mode = driver.profile.mode
  BY RetainedIsLast
<1>2. /\ driver' \in Driver /\ ~driver'.bound /\ ~driver'.initialized
      /\ driver'.profile = driver.profile
  BY Types DEF Driver
<1>3. \/ app' = [a EXCEPT !.phase = "IDLE"]
      \/ app' = [a EXCEPT !.phase = "IDLE", !.startup = FALSE]
  OBVIOUS
<1> HIDE DEF a
<1>4. /\ app' \in App /\ app'.phase = "IDLE" /\ app'.last = a.last
      /\ app'.retained = a.retained /\ app'.valid = a.valid
  BY <1>1, <1>3 DEF App
<1> QED BY <1>1, <1>2, <1>4

(* end *)
LEMMA EndKeeps ==
  ASSUME CliInv, End
  PROVE  CliInv'
<1>1. UNCHANGED <<platform, context, job, ghost>> /\ job.slot = "FREE"
  BY FreeIsIdle DEF End
<1>2. /\ driver' \in Driver /\ ~driver'.bound /\ ~driver'.initialized
      /\ app' \in App /\ app'.phase = "IDLE" /\ app'.last = app.last
      /\ app'.valid => app'.retained.mode = driver'.profile.mode
  BY UnboundKeepsItsProfile DEF End
<1> QED BY <1>1, <1>2, Types, FreeKeeps

(* init: the adapter has a handle for the address before the driver is     *)
(* bound to it.                                                            *)
LEMMA RebindKeeps ==
  ASSUME CliInv, NEW address \in Addresses, Rebind(address, TRUE),
         UNCHANGED <<platform, ghost>>, context' \in ContextType,
         IF OnIdf THEN context'.dev # {} /\ context'.address = address
         ELSE context' = context
  PROVE  CliInv'
<1> DEFINE a == retainCurrentProfile(app)
           new == [address |-> address,
                   mode |-> IF a.valid THEN a.retained.mode ELSE "ON"]
<1>1. a \in App /\ a.last = app.last
  BY RetainedIsLast
<1>2. /\ driver' = [bound |-> TRUE, initialized |-> FALSE, profile |-> new]
      /\ job' = ActiveJob("INITIALIZE")
      /\ app' = [a EXCEPT !.phase = "ACTIVE", !.auto = TRUE, !.startup = FALSE,
                          !.selected = address, !.active = address,
                          !.retained = new, !.valid = TRUE]
  BY DEF Rebind
<1>3. new \in Profile /\ new.address = address
  <2> HIDE DEF a
  <2> QED BY <1>1 DEF App, Profile
<1> HIDE DEF a, new
<1>4. /\ driver' \in Driver /\ driver'.bound /\ ~driver'.initialized
      /\ driver'.profile.address = address
  BY <1>2, <1>3 DEF Driver
<1>5. app' \in App /\ app'.phase = "ACTIVE" /\ app'.last = app.last
  BY <1>1, <1>2, <1>3 DEF App
<1>6. job' \in Job /\ job'.slot = "ACTIVE"
  BY <1>2, IdleJobs DEF Kinds
<1>7. TypeOK' /\ NoOrphanJob'
  BY <1>4, <1>5, <1>6 DEF CliInv, TypeOK, OnIdf, ContextType, NoOrphanJob
<1>8. DriverHasItsDevice'
  BY <1>4 DEF CliInv, DriverHasItsDevice, OnIdf
<1>9. IdfRefusesNothing' /\ JobsReachTheBus'
  BY <1>5, Types DEF IdfRefusesNothing, JobsReachTheBus, Unrefused, BusUp, OnIdf
<1>10. FrequencyIsTrusted' /\ LastProfileIsKept'
  BY <1>4 DEF FrequencyIsTrusted, LastProfileIsKept
<1> QED BY <1>7, <1>8, <1>9, <1>10 DEF CliInv

(* ... and init as a whole *)
LEMMA InitCommandKeeps ==
  ASSUME CliInv, NEW address \in Addresses, initializeDeviceAt(address)
  PROVE  CliInv'
<1>1. UNCHANGED <<platform, ghost>> /\ job.slot = "FREE" /\ app.phase = "IDLE"
  BY FreeIsIdle DEF initializeDeviceAt
<1>2. CASE ~OnIdf
  BY <1>1, <1>2, Types, RebindKeeps DEF initializeDeviceAt
<1>3. CASE OnIdf
  <2>1. PICK reply \in Idf!ina3221IdfSetAddress(context, address) :
          /\ context' = reply.t
          /\ IF reply.code = "OK" THEN Rebind(address, TRUE)
             ELSE /\ UNCHANGED job
                  /\ IF reply.t.dev = {} THEN UnbindDriver
                     ELSE app' = retainCurrentProfile(app) /\ UNCHANGED driver
    BY <1>3 DEF initializeDeviceAt
  <2>2. /\ context \in IdfContext /\ address \in Nat /\ context.frequency \in Nat
        /\ reply \in Idf!replaceDevice(context, address, context.frequency)
    BY <1>3, Types, Assumptions DEF ContextType, Idf!ina3221IdfSetAddress
  <2>3. /\ reply.t \in IdfContext
        /\ reply.code = "OK" =>
             reply.t.dev # {} /\ reply.t.address = address
               /\ reply.t.frequency = context.frequency
        /\ reply.code # "OK" =>
             reply.t.address = context.address /\ reply.t.frequency = context.frequency
    BY <2>2, IdfReplaced
  <2>4. context' \in ContextType
    BY <1>3, <2>1, <2>3 DEF ContextType
  <2>5. CASE reply.code = "OK"
    BY <1>1, <1>3, <2>1, <2>3, <2>4, <2>5, RebindKeeps
  <2>6. CASE reply.code # "OK" /\ reply.t.dev = {}
    <3>1. /\ driver' \in Driver /\ ~driver'.bound /\ ~driver'.initialized
          /\ app' \in App /\ app'.phase = "IDLE" /\ app'.last = app.last
          /\ app'.valid => app'.retained.mode = driver'.profile.mode
      BY <2>1, <2>6, UnboundKeepsItsProfile DEF UnbindDriver
    <3> QED BY <1>1, <1>3, <2>1, <2>4, <2>6, <3>1, Types, FreeKeeps
  <2>7. CASE reply.code # "OK" /\ reply.t.dev # {}
    <3>1. /\ driver' = driver /\ app' \in App /\ app'.phase = "IDLE"
          /\ app'.last = app.last
          /\ app'.valid => app'.retained.mode = driver'.profile.mode
      BY <1>1, <2>1, <2>7, RetainedIsLast
    <3>2. SameDevice(context, context') /\ context'.frequency = context.frequency
      BY <1>3, <2>1, <2>3, <2>7 DEF SameDevice
    <3>3. driver.initialized /\ ~ghost.unrestored => context'.frequency = ghost.verified
      BY <3>2 DEF CliInv, FrequencyIsTrusted
    <3> QED BY <1>1, <1>3, <2>1, <2>4, <2>7, <3>1, <3>2, <3>3, Types, FreeKeeps
  <2> QED BY <2>5, <2>6, <2>7
<1> QED BY <1>2, <1>3

(* freq: verified at the new clock, rolled back to the old one, or given   *)
(* up, by unbinding on IDF and by a report on Arduino.                     *)
LEMMA RollsBackKeeps ==
  ASSUME CliInv, job.slot = "FREE", app.phase = "IDLE", UNCHANGED <<platform, job>>,
         NEW t \in ContextType, SameDevice(context, t), RollsBack(t)
  PROVE  CliInv'
<1>1. PICK back \in RolledBack(t, context.frequency) :
        /\ context' = back.t
        /\ IF back.code = "OK" THEN UNCHANGED <<driver, app, ghost>>
           ELSE IF OnIdf THEN UnbindDriver /\ UNCHANGED ghost
           ELSE ghost' = [ghost EXCEPT !.unrestored = TRUE] /\ UNCHANGED <<driver, app>>
  BY DEF RollsBack
<1>2. /\ back.t \in ContextType /\ SameDevice(t, back.t)
      /\ back.code = "OK" =>
           back.t.frequency = context.frequency /\ (OnIdf => back.t.dev # {})
  BY Types, ClockIsSet DEF RolledBack
<1>3. SameDevice(context, context') /\ context' \in ContextType
  BY <1>1, <1>2 DEF SameDevice
<1>4. ~OnIdf => context'.up = context.up /\ context'.timeout = context.timeout
  BY <1>3 DEF SameDevice
<1>5. /\ ~driver.bound /\ app.valid => app.retained.mode = driver.profile.mode
      /\ driver.initialized /\ ~ghost.unrestored => context.frequency = ghost.verified
  BY DEF CliInv, LastProfileIsKept, FrequencyIsTrusted
<1>6. CASE back.code = "OK"
  BY <1>1, <1>2, <1>3, <1>4, <1>5, <1>6, Types, FreeKeeps
<1>7. CASE back.code # "OK" /\ OnIdf
  <2>1. /\ driver' \in Driver /\ ~driver'.bound /\ ~driver'.initialized
        /\ app' \in App /\ app'.phase = "IDLE" /\ app'.last = app.last
        /\ app'.valid => app'.retained.mode = driver'.profile.mode
    BY <1>1, <1>7, UnboundKeepsItsProfile DEF UnbindDriver
  <2> QED BY <1>1, <1>3, <1>4, <1>7, <2>1, Types, FreeKeeps
<1>8. CASE back.code # "OK" /\ ~OnIdf
  <2>1. ghost' \in Ghost /\ ghost'.unrestored
    BY <1>1, <1>8, Types DEF Ghost
  <2> QED BY <1>1, <1>3, <1>4, <1>5, <1>8, <2>1, Types, FreeKeeps
<1> QED BY <1>6, <1>7, <1>8

(* freq as a whole *)
LEMMA FreqKeeps ==
  ASSUME CliInv, NEW clock \in Clocks, setExampleFrequency(clock)
  PROVE  CliInv'
<1>1. UNCHANGED <<platform, job>> /\ job.slot = "FREE" /\ app.phase = "IDLE"
  BY FreeIsIdle DEF setExampleFrequency
<1>2. PICK reply \in SetClock(context, clock) :
        \/ /\ reply.code # "OK"
           /\ context' = reply.t
           /\ IF OnIdf /\ reply.t.dev = {} THEN UnbindDriver ELSE UNCHANGED <<driver, app>>
           /\ UNCHANGED ghost
        \/ /\ reply.code = "OK" /\ ~driver.initialized
           /\ context' = reply.t
           /\ UNCHANGED <<driver, app, ghost>>
        \/ /\ reply.code = "OK" /\ driver.initialized
           /\ \E identified \in Identified(reply.t) :
                IF ~identified THEN RollsBack(reply.t)
                ELSE /\ context' = reply.t
                     /\ ghost' = [verified |-> clock, unrestored |-> FALSE]
                     /\ UNCHANGED <<driver, app>>
  BY DEF setExampleFrequency
<1>3. clock \in Nat
  BY Assumptions
<1>4. /\ reply.t \in ContextType /\ SameDevice(context, reply.t)
      /\ reply.code = "OK" => reply.t.frequency = clock /\ (OnIdf => reply.t.dev # {})
      /\ reply.code # "OK" => reply.t.frequency = context.frequency
  BY <1>3, Types, ClockIsSet
<1>5. ~OnIdf => reply.t.up = context.up /\ reply.t.timeout = context.timeout
  BY <1>4 DEF SameDevice
<1>6. /\ ~driver.bound /\ app.valid => app.retained.mode = driver.profile.mode
      /\ driver.initialized /\ ~ghost.unrestored => context.frequency = ghost.verified
  BY DEF CliInv, LastProfileIsKept, FrequencyIsTrusted
<1>7. CASE /\ reply.code # "OK" /\ context' = reply.t /\ UNCHANGED ghost
           /\ OnIdf /\ reply.t.dev = {} /\ UnbindDriver
  <2>1. /\ driver' \in Driver /\ ~driver'.bound /\ ~driver'.initialized
        /\ app' \in App /\ app'.phase = "IDLE" /\ app'.last = app.last
        /\ app'.valid => app'.retained.mode = driver'.profile.mode
    BY <1>7, UnboundKeepsItsProfile DEF UnbindDriver
  <2> QED BY <1>1, <1>4, <1>5, <1>7, <2>1, Types, FreeKeeps
<1>8. CASE /\ reply.code # "OK" /\ context' = reply.t /\ UNCHANGED <<driver, app, ghost>>
           /\ ~(OnIdf /\ reply.t.dev = {})
  BY <1>1, <1>4, <1>5, <1>6, <1>8, Types, FreeKeeps
<1>9. CASE /\ reply.code = "OK" /\ ~driver.initialized /\ context' = reply.t
           /\ UNCHANGED <<driver, app, ghost>>
  BY <1>1, <1>4, <1>5, <1>6, <1>9, Types, FreeKeeps
<1>10. CASE RollsBack(reply.t)
  BY <1>1, <1>4, <1>10, RollsBackKeeps
<1>11. CASE /\ reply.code = "OK" /\ context' = reply.t /\ UNCHANGED <<driver, app>>
            /\ ghost' = [verified |-> clock, unrestored |-> FALSE]
  <2>1. ghost' \in Ghost /\ ghost'.verified = clock
    BY <1>3, <1>11 DEF Ghost
  <2> QED BY <1>1, <1>4, <1>5, <1>6, <1>11, <2>1, Types, FreeKeeps
<1> QED BY <1>2, <1>7, <1>8, <1>9, <1>10, <1>11

-----------------------------------------------------------------------------
(* The theorems *)

(* After setup *)
LEMMA InitHolds == Init => CliInv
<1> SUFFICES ASSUME Init PROVE CliInv
  OBVIOUS
<1>1. /\ DefaultProfile \in Profile /\ DefaultProfile.address = 1
      /\ NoJob \in Job /\ NoJob.slot = "FREE"
      /\ ActiveJob("INITIALIZE") \in Job /\ ActiveJob("INITIALIZE").slot = "ACTIVE"
  BY Assumptions, IdleJobs DEF DefaultProfile, Profile, NoJob, Kinds
<1>2. /\ context \in ContextType /\ BusUp \in BOOLEAN
      /\ OnIdf /\ BusUp => context.dev # {} /\ context.address = 1
      /\ ~OnIdf /\ context.up => context.timeout = TransferMs
  <2>1. CASE OnIdf
    BY <2>1, IdfInitialized DEF Init, ContextType, BusUp, IdfContext
  <2>2. CASE ~OnIdf
    <3>1. \/ context = [up |-> FALSE, timeout |-> 0, frequency |-> 0]
          \/ context = [up |-> TRUE, timeout |-> TransferMs, frequency |-> 1]
      BY <2>2 DEF Init, Wire!initWire, Wire!Unset
    <3>2. CASE context = [up |-> FALSE, timeout |-> 0, frequency |-> 0]
      BY <2>2, <3>2 DEF WireContext, ContextType, BusUp
    <3>3. CASE context = [up |-> TRUE, timeout |-> TransferMs, frequency |-> 1]
      BY <2>2, <3>3, Assumptions DEF WireContext, ContextType, BusUp
    <3> QED BY <3>1, <3>2, <3>3
  <2> QED BY <2>1, <2>2
<1>3. /\ driver \in Driver /\ driver.bound = BusUp /\ ~driver.initialized
      /\ driver.profile = DefaultProfile
  BY <1>1, <1>2 DEF Init, Driver
<1>4. job \in Job /\ job.slot # "PENDING" /\ (job.slot = "ACTIVE" <=> BusUp)
  BY <1>1 DEF Init
<1>5. /\ app \in App /\ (app.phase = "ACTIVE" <=> BusUp)
      /\ app.last = "NONE" /\ app.retained = DefaultProfile
  <2>1. OnIdf \in BOOLEAN
    BY DEF OnIdf
  <2> QED BY <1>1, <1>2, <2>1, Assumptions DEF Init, App
<1>6. TypeOK
  <2>1. ghost \in Ghost /\ platform \in {"ARDUINO", "IDF"}
    BY DEF Init, Ghost
  <2> QED BY <1>2, <1>3, <1>4, <1>5, <2>1 DEF TypeOK, ContextType
<1>7. NoOrphanJob /\ DriverHasItsDevice
  BY <1>1, <1>2, <1>3, <1>4, <1>5 DEF NoOrphanJob, DriverHasItsDevice
<1>8. IdfRefusesNothing /\ JobsReachTheBus /\ FrequencyIsTrusted /\ LastProfileIsKept
  BY <1>3, <1>5 DEF IdfRefusesNothing, JobsReachTheBus, FrequencyIsTrusted, LastProfileIsKept
<1> QED BY <1>6, <1>7, <1>8 DEF CliInv

(* Every step *)
LEMMA StepKeeps == CliInv /\ [Next]_vars => CliInv'
<1> SUFFICES ASSUME CliInv, [Next]_vars PROVE CliInv'
  OBVIOUS
<1>1. CASE ServiceOwnerJob
  BY <1>1, LoopKeeps
<1>2. CASE Tick
  BY <1>2, TickKeeps
<1>3. CASE DemoEnds
  BY <1>3, DemoEndsKeeps
<1>4. CASE Command
  BY <1>4, JobStartKeeps, JobCancelKeeps, JobAutoKeeps, JobStepKeeps, StressKeeps,
     SetModeKeeps, RecoverKeeps, InitCommandKeeps, EndKeeps, FreqKeeps
     DEF Command
<1>5. CASE UNCHANGED vars
  <2>1. UNCHANGED <<platform, context, driver, job, app, ghost>>
    BY <1>5 DEF vars
  <2> QED
    BY <2>1 DEF CliInv, TypeOK, OnIdf, NoOrphanJob, DriverHasItsDevice, IdfRefusesNothing,
         JobsReachTheBus, BusUp, FrequencyIsTrusted, LastProfileIsKept
<1> QED BY <1>1, <1>2, <1>3, <1>4, <1>5 DEF Next

(* The inductive invariant of the application, in every reachable state.   *)
THEOREM CliInvariant == Spec => []CliInv
  BY InitHolds, StepKeeps, PTL DEF Spec

(* The application's phase and the driver's slot never part, whatever      *)
(* command comes between a start, a poll and the taking of the result.     *)
THEOREM PhaseCorrect == Spec => []NoOrphanJob
<1>1. CliInv => NoOrphanJob
  BY DEF CliInv
<1> QED BY <1>1, CliInvariant, PTL

(* The budget and the timeout of every poll are ones the adapter takes: a  *)
(* transfer is refused only where no bus ever came up.                     *)
THEOREM PollsCorrect == Spec => []JobsReachTheBus
<1>1. CliInv => JobsReachTheBus
  BY DEF CliInv
<1> QED BY <1>1, CliInvariant, PTL

(* An initialized driver's bus runs at a clock at which the device has     *)
(* answered, through every failed change and failed rollback.              *)
THEOREM ClockCorrect == Spec => []FrequencyIsTrusted
<1>1. CliInv => FrequencyIsTrusted
  BY DEF CliInv
<1> QED BY <1>1, CliInvariant, PTL

(* However the driver comes to be unbound, its last profile is retained.   *)
THEOREM ProfileCorrect == Spec => []LastProfileIsKept
<1>1. CliInv => LastProfileIsKept
  BY DEF CliInv
<1> QED BY <1>1, CliInvariant, PTL

=============================================================================
