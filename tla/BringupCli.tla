------------------------------ MODULE BringupCli ------------------------------
(***************************************************************************)
(* The example application, in its Arduino and its ESP-IDF form: one loop  *)
(* that services the owner job with at most one transfer a turn and then   *)
(* runs at most one command of the user.  It is the library's model owner: *)
(* it keeps its own phase beside the driver's job slot, gives each poll a  *)
(* transfer budget its transport can honour, keeps the last profile across *)
(* unbind, and moves bus address and clock under a bound driver.           *)
(*                                                                         *)
(* A command is one step, a turn of the loop another, and so is a unit of  *)
(* time passing.  The driver is what the application sees of it: whether   *)
(* it is bound and initialized, its profile, and the job's slot; the poll  *)
(* of a job is one transfer that may end it.                               *)
(***************************************************************************)
EXTENDS Naturals

CONSTANTS
  Addresses, Clocks,  \* the valid ones
  TransferMs,         \* I2C_TIMEOUT_MS
  JobMs,              \* what ownerDeadlineFor gives a job
  Budgets             \* what the user may ask "job step" for

ASSUME CliAssumption ==
  /\ 1 \in Addresses /\ Addresses \subseteq Nat \ {0}
  /\ 1 \in Clocks /\ Clocks \subseteq Nat \ {0}
  /\ TransferMs \in Nat \ {0} /\ JobMs \in Nat \ {0} /\ Budgets \subseteq Nat

VARIABLES
  platform,  \* "ARDUINO" or "IDF"
  context,   \* of the platform's adapter
  driver,    \* bound, initialized, profile
  job,       \* the driver's job slot
  app,       \* the application's variables
  ghost      \* clock the device last answered at; a failed rollback reported

vars == <<platform, context, driver, job, app, ghost>>

ValidClock(clock) == clock \in Clocks
ValidAddress(address) == address \in Addresses

Wire == INSTANCE WireTransport WITH WireTimeout <- TransferMs
Idf == INSTANCE IdfTransport WITH LongestTimeout <- JobMs

Least(m, n) == IF m < n THEN m ELSE n
OnIdf == platform = "IDF"
BusUp == IF OnIdf THEN context.bus ELSE context.up

-----------------------------------------------------------------------------
(* The driver's job slot *)

NoJob == [slot |-> "FREE", kind |-> "NONE", remaining |-> 0, code |-> "OK"]
ActiveJob(kind) ==
  [slot |-> "ACTIVE", kind |-> kind, remaining |-> JobMs, code |-> "OK"]
Ended(j, code) == [j EXCEPT !.slot = "PENDING", !.code = code, !.remaining = 0]

(* The start calls' own checks. *)
CanStart(kind) ==
  /\ driver.bound /\ job.slot = "FREE"
  /\ kind # "INITIALIZE" => driver.initialized
  /\ kind = "SAMPLE" => driver.profile.mode # "DOWN"

(* What a transfer's failure or success makes of a job that ends with it;  *)
(* REFUSED is an adapter that would not attempt it.                        *)
TransferResult(reply) ==
  IF reply.code = "OK" THEN "OK"
  ELSE IF reply.to = 0 /\ reply.code \in {"INVALID_CONFIG", "INVALID_PARAM"}
  THEN "REFUSED" ELSE "FAILED"

TransferResults(timeout) ==
  {TransferResult(reply) :
     reply \in IF OnIdf
               THEN Idf!ina3221IdfI2cWriteRead(context, driver.profile.address, timeout)
               ELSE Wire!wireWriteRead(context, driver.profile.address, timeout)}

(* _clampedTransferTimeout: the time left, shared among the budget. *)
ClampedTimeout(remaining, budget) ==
  Least(TransferMs, IF budget > 1 THEN remaining \div budget ELSE remaining)

(* pollJob: past its deadline the job ends; without a budget nothing       *)
(* happens; otherwise it goes on, or ends with a transfer.                 *)
PollJob(j, budget) ==
  LET timeout == ClampedTimeout(j.remaining, budget)
  IN IF j.remaining = 0 THEN {Ended(j, "EXPIRED")}
     ELSE IF budget = 0 THEN {j}
     ELSE {j} \cup {Ended(j, code) : code \in IF timeout = 0 THEN {"EXPIRED"}
                                              ELSE TransferResults(timeout)}

(* What a job that ends well leaves in the driver. *)
DriverAfter(j) ==
  IF j.slot # "PENDING" \/ j.code # "OK" \/ j.kind = "SAMPLE" THEN driver
  ELSE [driver EXCEPT !.initialized = TRUE,
                      !.profile.mode = IF j.kind = "POWER_DOWN" THEN "DOWN" ELSE @]

GhostAfter(j) ==
  IF j.slot = "PENDING" /\ j.code = "OK"
  THEN [verified |-> context.frequency, unrestored |-> FALSE] ELSE ghost

-----------------------------------------------------------------------------
(* Servicing the owner job *)

wireSafeTransferBudget_Unlimited(remaining, requested) == requested

wireSafeTransferBudget(remaining, requested) ==
  Least(remaining \div TransferMs, requested)

(* IDF's transfers take any timeout. *)
Budget(requested) ==
  IF OnIdf THEN requested ELSE wireSafeTransferBudget(job.remaining, requested)

(* startOwnerSample after the startup's initialize; the driver may refuse. *)
StartupSample(d, a) ==
  {[job |-> NoJob, app |-> [a EXCEPT !.phase = "IDLE"]]}
    \cup IF d.profile.mode = "DOWN" THEN {}
         ELSE {[job |-> ActiveJob("SAMPLE"), app |-> a]}

(* serviceOwnerJob once the result is there: it is taken, a profile that   *)
(* was verified is retained, and the startup goes on to its sample.        *)
Taken(j, d) ==
  LET a == [app EXCEPT !.last = j.code, !.startup = FALSE]
      kept == IF j.code = "OK" /\ d.bound
              THEN [a EXCEPT !.retained = d.profile, !.valid = TRUE,
                             !.selected = d.profile.address]
              ELSE a
  IN IF j.slot # "PENDING" \/ app.phase = "IDLE" THEN {[job |-> j, app |-> app]}
     ELSE IF app.startup /\ j.kind = "INITIALIZE" /\ j.code = "OK"
     THEN StartupSample(d, kept)
     ELSE {[job |-> NoJob, app |-> [kept EXCEPT !.phase = "IDLE"]]}

Polled_NotWithoutBudget(requested) ==
  IF job.slot # "ACTIVE" \/ Budget(requested) = 0 THEN {job}
  ELSE PollJob(job, Budget(requested))

Polled(requested) ==
  IF job.slot # "ACTIVE" THEN {job} ELSE PollJob(job, Budget(requested))

(* The job after it was polled, or not, and serviceOwnerJob's second half. *)
Serviced(jobs, auto) ==
  \E j \in jobs :
    /\ driver' = DriverAfter(j)
    /\ ghost' = GhostAfter(j)
    /\ \E taken \in Taken(j, driver') :
         /\ job' = taken.job
         /\ app' = [taken.app EXCEPT !.auto = auto]
    /\ UNCHANGED <<platform, context>>

ServiceOwnerJob ==
  /\ app.phase = "ACTIVE"
  /\ Serviced(IF app.auto THEN Polled(1) ELSE {job}, app.auto)

Tick ==
  /\ job.slot = "ACTIVE" /\ job.remaining > 0
  /\ job' = [job EXCEPT !.remaining = @ - 1]
  /\ UNCHANGED <<platform, context, driver, app, ghost>>

-----------------------------------------------------------------------------
(* Commands.  IDF runs its startup to the end before it takes one; the     *)
(* bound of that wait is past both jobs' deadlines.                        *)

AtPrompt == ~app.demo

DemoEnds ==
  /\ app.demo
  /\ \/ app.phase = "IDLE" /\ app' = [app EXCEPT !.demo = FALSE]
        /\ UNCHANGED <<job, driver, ghost>>
     \/ /\ app.phase = "ACTIVE" /\ job.remaining = 0
        /\ \E taken \in Taken(Ended(job, "CANCELLED"), driver) :
             /\ job' = taken.job
             /\ app' = [taken.app EXCEPT !.demo = FALSE]
        /\ UNCHANGED <<driver, ghost>>
  /\ UNCHANGED <<platform, context>>

trackOwnerStart_Unmarked(a) == [a EXCEPT !.startup = FALSE, !.auto = FALSE]

trackOwnerStart(a) ==
  [a EXCEPT !.phase = "ACTIVE", !.startup = FALSE, !.auto = FALSE]

(* job init, apply, reconcile, powerdown, sample, continuous: polled only  *)
(* by "job step", or by the loop after "job auto 1".                       *)
JobStart(kind) ==
  /\ AtPrompt /\ CanStart(kind)
  /\ job' = ActiveJob(kind)
  /\ app' = trackOwnerStart(app)
  /\ UNCHANGED <<platform, context, driver, ghost>>

(* direction: a profile applied by the loop. *)
Direction ==
  /\ AtPrompt /\ CanStart("APPLY_PROFILE")
  /\ job' = ActiveJob("APPLY_PROFILE")
  /\ app' = [app EXCEPT !.phase = "ACTIVE", !.startup = FALSE, !.auto = TRUE]
  /\ UNCHANGED <<platform, context, driver, ghost>>

JobCancel ==
  /\ AtPrompt /\ job.slot = "ACTIVE"
  /\ Serviced({Ended(job, "CANCELLED")}, app.auto)

JobAuto(enabled) ==
  /\ AtPrompt
  /\ app' = [app EXCEPT !.auto = enabled]
  /\ UNCHANGED <<platform, context, driver, job, ghost>>

(* stepOwnerJob *)
JobStep(requested) ==
  /\ AtPrompt /\ job.slot = "ACTIVE"
  /\ Serviced(Polled(requested), FALSE)

(* runOneOwnerSample, the iteration of stress_owner, blocks until its job  *)
(* has ended one way or the other.                                         *)
StressOwner ==
  LET polls == UNION {PollJob([ActiveJob("SAMPLE") EXCEPT !.remaining = left],
                              IF OnIdf THEN 1 ELSE wireSafeTransferBudget(left, 1))
                        : left \in 0 .. JobMs}
  IN /\ AtPrompt /\ CanStart("SAMPLE")
     /\ \E j \in {p \in polls : p.slot = "PENDING"} :
          /\ app' = [app EXCEPT !.last = j.code, !.phase = "IDLE"]
          /\ ghost' = GhostAfter(j)
     /\ UNCHANGED <<platform, context, driver, job>>

(* mode: the legacy write, refused while a job is active.  recover: a      *)
(* blocking initialize job.                                                *)
SetMode(mode) ==
  /\ AtPrompt /\ CanStart("APPLY_PROFILE")
  /\ driver' = [driver EXCEPT !.profile.mode = mode]
  /\ UNCHANGED <<platform, context, job, app, ghost>>

Recover ==
  /\ AtPrompt /\ CanStart("APPLY_PROFILE")
  /\ "OK" \in TransferResults(TransferMs)
  /\ ghost' = GhostAfter(Ended(ActiveJob("INITIALIZE"), "OK"))
  /\ UNCHANGED <<platform, context, driver, job, app>>

Addr(address) ==
  /\ AtPrompt
  /\ app' = [app EXCEPT !.selected = address]
  /\ UNCHANGED <<platform, context, driver, job, ghost>>

-----------------------------------------------------------------------------
(* Commands that rebind the driver or move the bus under it *)

requireIdleOwnerJob == job.slot = "FREE"

retainCurrentProfile_Never(a) == a

retainCurrentProfile(a) ==
  IF driver.bound THEN [a EXCEPT !.retained = driver.profile, !.valid = TRUE] ELSE a

(* retainCurrentProfile and unbind; the driver object keeps its profile. *)
UnbindDriver ==
  /\ driver' = [driver EXCEPT !.bound = FALSE, !.initialized = FALSE]
  /\ app' = [retainCurrentProfile(app) EXCEPT !.phase = "IDLE"]

(* unbind, bind and startInitialize at the address, under the retained     *)
(* profile or the default one.                                             *)
Rebind(address, auto) ==
  LET a == retainCurrentProfile(app)
      profile == [address |-> address,
                  mode |-> IF a.valid THEN a.retained.mode ELSE "ON"]
  IN /\ driver' = [bound |-> TRUE, initialized |-> FALSE, profile |-> profile]
     /\ job' = ActiveJob("INITIALIZE")
     /\ app' = [a EXCEPT !.phase = "ACTIVE", !.auto = auto, !.startup = FALSE,
                         !.selected = address, !.active = address,
                         !.retained = profile, !.valid = TRUE]

(* init: on IDF the adapter's device is moved first, and an adapter left   *)
(* without one leaves no driver bound to it.                               *)
initializeDeviceAt(address) ==
  /\ AtPrompt /\ requireIdleOwnerJob
  /\ IF ~OnIdf THEN Rebind(address, TRUE) /\ UNCHANGED context
     ELSE \E reply \in Idf!ina3221IdfSetAddress(context, address) :
            /\ context' = reply.t
            /\ IF reply.code = "OK" THEN Rebind(address, TRUE)
               ELSE /\ UNCHANGED job
                    /\ IF reply.t.dev = {} THEN UnbindDriver
                       ELSE app' = retainCurrentProfile(app) /\ UNCHANGED driver
  /\ UNCHANGED <<platform, ghost>>

End ==
  /\ AtPrompt /\ requireIdleOwnerJob
  /\ driver' = [driver EXCEPT !.bound = FALSE, !.initialized = FALSE]
  /\ app' = [retainCurrentProfile(app) EXCEPT !.phase = "IDLE", !.startup = FALSE]
  /\ UNCHANGED <<platform, context, job, ghost>>

SetClock(t, clock) ==
  IF OnIdf THEN Idf!ina3221IdfSetFrequency(t, clock) ELSE Wire!setFrequency(t, clock)

RolledBack_Never(t, clock) == {[t |-> t, code |-> "OK"]}

RolledBack(t, clock) == SetClock(t, clock)

(* The identity registers read at the new clock; they may also be wrong. *)
Identified(t) ==
  {FALSE} \cup
  {reply.code = "OK" :
     reply \in IF OnIdf THEN Idf!ina3221IdfI2cWriteReadAt(t, app.active, TransferMs)
               ELSE Wire!wireWriteReadAt(t, driver.profile.address, TransferMs)}

(* Unverified at the new clock, the old one is restored; when that fails   *)
(* too, IDF unbinds the driver and Arduino reports it.                     *)
RollsBack(t) ==
  \E back \in RolledBack(t, context.frequency) :
    /\ context' = back.t
    /\ IF back.code = "OK" THEN UNCHANGED <<driver, app, ghost>>
       ELSE IF OnIdf THEN UnbindDriver /\ UNCHANGED ghost
       ELSE ghost' = [ghost EXCEPT !.unrestored = TRUE] /\ UNCHANGED <<driver, app>>

setExampleFrequency(clock) ==
  /\ AtPrompt /\ requireIdleOwnerJob
  /\ \E reply \in SetClock(context, clock) :
       \/ /\ reply.code # "OK"
          /\ context' = reply.t
          /\ IF OnIdf /\ reply.t.dev = {} THEN UnbindDriver ELSE UNCHANGED <<driver, app>>
          /\ UNCHANGED ghost
       \/ /\ reply.code = "OK" /\ ~driver.initialized
          /\ context' = reply.t
          /\ UNCHANGED <<driver, app, ghost>>
       \/ /\ reply.code = "OK" /\ driver.initialized
          /\ \E identified \in Identified(reply.t) :
               IF ~identified THEN RollsBack(reply.t)
               ELSE /\ context' = reply.t
                    /\ ghost' = [verified |-> clock, unrestored |-> FALSE]
                    /\ UNCHANGED <<driver, app>>
  /\ UNCHANGED <<platform, job>>

-----------------------------------------------------------------------------
DefaultProfile == [address |-> 1, mode |-> "ON"]

(* After setup: the bus did not come up and nothing is bound, or the       *)
(* driver's initialize job was started.                                    *)
Init ==
  /\ platform \in {"ARDUINO", "IDF"}
  /\ context \in IF OnIdf THEN Idf!ina3221IdfInitI2c(Idf!Unset, 1, 1)
                 ELSE Wire!initWire(1)
  /\ driver = [bound |-> BusUp, initialized |-> FALSE, profile |-> DefaultProfile]
  /\ job = IF BusUp THEN ActiveJob("INITIALIZE") ELSE NoJob
  /\ app = [phase |-> IF BusUp THEN "ACTIVE" ELSE "IDLE", auto |-> TRUE,
            startup |-> BusUp, demo |-> OnIdf /\ BusUp,
            retained |-> DefaultProfile, valid |-> BusUp,
            selected |-> 1, active |-> 1, last |-> "NONE"]
  /\ ghost = [verified |-> 1, unrestored |-> FALSE]

Kinds == {"INITIALIZE", "APPLY_PROFILE", "RECONCILE", "POWER_DOWN", "SAMPLE"}

Command ==
  \/ \E kind \in Kinds : JobStart(kind)
  \/ Direction
  \/ JobCancel
  \/ \E enabled \in BOOLEAN : JobAuto(enabled)
  \/ \E requested \in Budgets : JobStep(requested)
  \/ StressOwner
  \/ \E mode \in {"ON", "DOWN"} : SetMode(mode)
  \/ Recover
  \/ \E address \in Addresses : Addr(address)
  \/ \E address \in Addresses : initializeDeviceAt(address)
  \/ End
  \/ \E clock \in Clocks : setExampleFrequency(clock)

Next == ServiceOwnerJob \/ Tick \/ DemoEnds \/ Command

(* The loop comes round again and time passes. *)
Spec == Init /\ [][Next]_vars /\ WF_vars(ServiceOwnerJob) /\ WF_vars(Tick)
-----------------------------------------------------------------------------
(* Properties *)

(* The application's phase and the driver's slot never part: no job is     *)
(* left to nobody, and none is waited for that is not there, whatever      *)
(* command came between a start, a poll and the taking of the result.      *)
NoOrphanJob ==
  /\ app.phase = "ACTIVE" <=> job.slot = "ACTIVE"
  /\ job.slot # "PENDING"

(* A bus that came up is never refused a transfer of an owner job: the     *)
(* timeout the driver derives from the time left and the budget is one the *)
(* transport can honour (main.cpp:759-764 against I2cTransport.h:76-79),   *)
(* and the address is the one the adapter's device has.                    *)
JobsReachTheBus == app.last = "REFUSED" => ~BusUp

(* An initialized driver's bus runs at a clock the device has answered at, *)
(* or the user was told that the old clock could not be restored.          *)
FrequencyIsTrusted ==
  driver.initialized /\ ~ghost.unrestored => context.frequency = ghost.verified

(* However the driver came to be unbound, the profile it had is the one    *)
(* the next init binds, but for the address.                               *)
LastProfileIsKept ==
  ~driver.bound /\ app.valid => app.retained.mode = driver.profile.mode

(* A job the loop services ends, if the user leaves it to the loop: also   *)
(* when too little time is left for a transfer the bus would take.         *)
ServicedJobEnds ==
  (app.phase = "ACTIVE" /\ app.auto) ~> (app.phase = "IDLE" \/ ~app.auto)

-----------------------------------------------------------------------------
(* The inductive invariant behind the properties above *)

Profile == [address : Addresses, mode : {"ON", "DOWN"}]
Driver == [bound : BOOLEAN, initialized : BOOLEAN, profile : Profile]
Code == {"OK", "REFUSED", "FAILED", "EXPIRED", "CANCELLED"}
Job ==
  [slot : {"FREE", "ACTIVE", "PENDING"}, kind : Kinds \cup {"NONE"},
   remaining : 0 .. JobMs, code : Code]
App ==
  [phase : {"IDLE", "ACTIVE"}, auto : BOOLEAN, startup : BOOLEAN, demo : BOOLEAN,
   retained : Profile, valid : BOOLEAN, selected : Addresses, active : Addresses,
   last : Code \cup {"NONE"}]
Ghost == [verified : Nat, unrestored : BOOLEAN]

WireContext == [up : BOOLEAN, timeout : {0, TransferMs}, frequency : Nat]
Handle == [address : Nat, speed : Nat]
IdfContext ==
  [bus : BOOLEAN, dev : SUBSET Handle, address : Nat, frequency : Nat,
   installed : SUBSET Handle, refused : BOOLEAN]

TypeOK ==
  /\ platform \in {"ARDUINO", "IDF"}
  /\ context \in IF OnIdf THEN IdfContext ELSE WireContext
  /\ driver \in Driver
  /\ job \in Job
  /\ app \in App
  /\ ghost \in Ghost

(* An active job has a driver, and on IDF the driver's device is the one   *)
(* the adapter has a handle of.  Wire, once up, has initWire's timeout.    *)
DriverHasItsDevice ==
  /\ job.slot = "ACTIVE" => driver.bound
  /\ OnIdf /\ driver.bound =>
       context.dev # {} /\ context.address = driver.profile.address
  /\ ~OnIdf /\ context.up => context.timeout = TransferMs

(* IDF takes every address and timeout that its jobs use. *)
IdfRefusesNothing == OnIdf => app.last # "REFUSED"

CliInv ==
  /\ TypeOK
  /\ NoOrphanJob
  /\ DriverHasItsDevice
  /\ IdfRefusesNothing
  /\ JobsReachTheBus
  /\ FrequencyIsTrusted
  /\ LastProfileIsKept

=============================================================================
