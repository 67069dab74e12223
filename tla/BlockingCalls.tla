----------------------------- MODULE BlockingCalls -----------------------------
(***************************************************************************)
(* The calls that start a job and poll it themselves until it ends:        *)
(* readBlocking for a sample, and _driveCompatibilityJob for begin,        *)
(* recover and powerDown.  They must return on any clock, one that stands  *)
(* still included, hand the job slot back free, and leave alone a job or a *)
(* result of the owner that they find in it.                               *)
(*                                                                         *)
(* A call runs to its end before the owner can act again.  The job is its  *)
(* stages and how many transfers it still makes; each poll makes at most   *)
(* one.  The 32-bit clock wraps, and no time need pass between polls.      *)
(***************************************************************************)
EXTENDS Integers

CONSTANTS
  Wrap,              \* the period of the 32-bit clock (2^32)
  WaitMs,            \* the conversion wait, in milliseconds
  RecheckMs,         \* CONVERSION_RECHECK_INTERVAL_MS
  TimeoutMs,         \* defaultTransferTimeoutMs: how long a callback may take
  ChannelReads,      \* the channel registers of a sample
  JobTransfers,      \* the most transfers of an initialize or power-down job
  Timeouts,          \* the values of readBlocking's timeoutMs
  SpinLimit,         \* STALLED_CLOCK_SPIN_LIMIT
  Never,             \* UINT64_MAX, the deadline of the driven jobs
  MaxClock           \* bound of the model: the largest true time

ASSUME BlockingCallsAssumption ==
  /\ {WaitMs, RecheckMs, TimeoutMs, ChannelReads, JobTransfers} \subseteq Nat \ {0}
  /\ Timeouts \subseteq 1 .. Wrap \div 2 - 1
  /\ SpinLimit \in Nat
  /\ Wrap \in Nat \ {0} /\ MaxClock \in Nat
  /\ Never \notin Nat

Method == {"NONE", "SAMPLE", "DRIVE"}
Stage == {"IDLE", "PROFILE", "TRIGGER", "ORIGIN", "WAIT", "CHANNELS"}
State == {"IDLE", "ACTIVE", "SUCCEEDED", "FAILED", "CANCELLED", "TIMED_OUT"}

VARIABLES
  clock,      \* the true time in milliseconds
  hook,       \* whether the transport has a clock (nowMs)
  job,        \* the job slot; for: who started the job in it (ghost)
  hasResult,  \* _hasPendingJobResult
  call,       \* the running call and its locals
  seen,       \* ghost: true times of the call and of its last poll, polls since
              \* the clock or the job moved (no more than tells the limit),
              \* whether a transfer has begun past the deadline
  returned    \* ghost: how the last call ended

vars == <<clock, hook, job, hasResult, call, seen, returned>>

NoJob == [for |-> "NOBODY", state |-> "IDLE", stage |-> "IDLE", left |-> 0,
          deadline |-> 0, originAfter |-> 0, readyAt |-> 0, recheck |-> FALSE]
NoCall == [method |-> "NONE", start |-> 0, polls |-> 0, lastElapsed |-> 0, spins |-> 0]
NotReturned == [state |-> "IDLE", still |-> 0, method |-> "NONE"]
NothingSeen == [begun |-> 0, polledAt |-> 0, still |-> 0, late |-> FALSE]

-----------------------------------------------------------------------------
(* The owner's use of the job slot, between calls *)

OwnerStart ==
  /\ call.method = "NONE"
  /\ job.state # "ACTIVE" /\ ~hasResult
  /\ job' = [NoJob EXCEPT !.for = "OWNER", !.state = "ACTIVE"]
  /\ UNCHANGED <<clock, hook, hasResult, call, seen, returned>>

OwnerEnd ==
  /\ call.method = "NONE"
  /\ job.state = "ACTIVE"
  /\ \E state \in {"SUCCEEDED", "FAILED", "CANCELLED", "TIMED_OUT"} :
       job' = [job EXCEPT !.state = state]
  /\ hasResult' = TRUE
  /\ UNCHANGED <<clock, hook, call, seen, returned>>

OwnerTake ==
  /\ call.method = "NONE"
  /\ hasResult
  /\ hasResult' = FALSE
  /\ job' = NoJob
  /\ UNCHANGED <<clock, hook, call, seen, returned>>

-----------------------------------------------------------------------------
(* Beginning a call *)

nowMs == IF hook THEN clock % Wrap ELSE 0

(* _requireNoOwnerJob, and what _startJob refuses *)
SlotIsFree_OfActiveJobs == job.state # "ACTIVE"

SlotIsFree == job.state # "ACTIVE" /\ ~hasResult

Begin(method, started) ==
  /\ call.method = "NONE"
  /\ SlotIsFree
  /\ job' = started
  /\ call' = [NoCall EXCEPT !.method = method, !.start = nowMs]
  /\ seen' = [begun |-> clock, polledAt |-> clock, still |-> 0, late |-> FALSE]
  /\ returned' = NotReturned
  /\ UNCHANGED <<clock, hook, hasResult>>

(* A triggered sample needs a clock, a continuous one does not. *)
ReadBlocking(triggered, timeout) ==
  /\ triggered => hook
  /\ Begin("SAMPLE",
       [NoJob EXCEPT !.for = "CALL", !.state = "ACTIVE",
                     !.stage = IF triggered THEN "TRIGGER" ELSE "CHANNELS",
                     !.left = ChannelReads, !.deadline = nowMs + timeout])

(* begin and recover, powerDown *)
DriveJob(transfers) ==
  Begin("DRIVE",
    [NoJob EXCEPT !.for = "CALL", !.state = "ACTIVE", !.stage = "PROFILE",
                  !.left = transfers, !.deadline = Never])

-----------------------------------------------------------------------------
(* pollJob with a budget of one transfer: what it may leave of the job *)

Ended(state) == [job EXCEPT !.state = state]

(* One transfer fewer; the last one ends the job. *)
TransferDone ==
  IF job.left = 1 THEN Ended("SUCCEEDED") ELSE [job EXCEPT !.left = @ - 1]

AtOrigin(time, recheck) ==
  [job EXCEPT !.stage = "ORIGIN", !.originAfter = time, !.recheck = recheck]

OriginPassed(time) ==
  LET end == time + (IF job.recheck THEN RecheckMs ELSE WaitMs) IN
  IF end < job.deadline THEN [job EXCEPT !.stage = "WAIT", !.readyAt = end]
  ELSE IF job.recheck THEN [job EXCEPT !.stage = "WAIT", !.readyAt = job.deadline]
  ELSE Ended("TIMED_OUT")

TriggerFits(time) ==
  time + 1 + WaitMs + (2 + ChannelReads) * TimeoutMs <= job.deadline

Expired(time) == job.deadline # Never /\ time >= job.deadline

(* Polls that make no transfer *)
SilentlyPolled(time) ==
  CASE Expired(time) -> {Ended("TIMED_OUT")}
    [] ~Expired(time) /\ job.stage = "TRIGGER" /\ ~TriggerFits(time) -> {Ended("TIMED_OUT")}
    [] ~Expired(time) /\ job.stage = "ORIGIN" ->
         {IF time <= job.originAfter THEN job ELSE OriginPassed(time)}
    [] ~Expired(time) /\ job.stage = "WAIT" /\ time < job.readyAt -> {job}
    [] OTHER -> {}

(* Polls that make one.  CVRF low sends a triggered sample back to wait; a *)
(* register that matches spares a profile job its write and verification.  *)
TransferPolled(time) ==
  {Ended("FAILED")} \union
    (CASE job.stage = "TRIGGER" -> {AtOrigin(time, FALSE)}
       [] job.stage = "WAIT" ->
            {AtOrigin(time, TRUE), [job EXCEPT !.stage = "CHANNELS"]}
       [] job.stage = "CHANNELS" -> {TransferDone}
       [] job.stage = "PROFILE" -> {TransferDone, Ended("SUCCEEDED")})

-----------------------------------------------------------------------------
(* The loop of readBlocking *)

Elapsed_Unwrapped == nowMs - call.start

Elapsed == (Wrap + nowMs - call.start) % Wrap

Spins_NeverCounted(moved) == 0

Spins_NeverReset(moved) == call.spins + 1

Spins(moved) == IF moved THEN 0 ELSE call.spins + 1

(* What the loop does with a poll at the given time: time and transferred  *)
(* say whether anything moved since the poll before.                       *)
AfterSamplePoll(elapsed, transferred) ==
  LET moved == elapsed # call.lastElapsed \/ transferred
  IN call' = [call EXCEPT !.lastElapsed = elapsed, !.spins = Spins(moved)]

AfterDrivePoll == call' = [call EXCEPT !.polls = @ + 1]

MaxPolls == JobTransfers * 3 + 8

(* The loops go on until there is a result, or they give up. *)
GaveUp ==
  \/ call.method = "SAMPLE" /\ call.spins > SpinLimit
  \/ call.method = "DRIVE" /\ call.polls >= MaxPolls

PollTime == IF call.method = "SAMPLE" THEN call.start + Elapsed ELSE nowMs

PollLeaves(left, transferred) ==
  /\ job' = left
  /\ hasResult' = (left.state # "ACTIVE")
  /\ \/ call.method = "SAMPLE" /\ AfterSamplePoll(Elapsed, transferred)
     \/ call.method = "DRIVE" /\ AfterDrivePoll
  /\ seen' = [seen EXCEPT
       !.polledAt = clock,
       !.still = IF transferred \/ clock # seen.polledAt THEN 0
                 ELSE IF @ > SpinLimit THEN @ ELSE @ + 1,
       !.late = @ \/ (hook /\ transferred /\ call.method = "SAMPLE"
                        /\ clock - seen.begun >= job.deadline - call.start)]
  /\ UNCHANGED <<hook, returned>>

LoopGoesOn == call.method # "NONE" /\ ~hasResult /\ ~GaveUp

PollSilent ==
  /\ LoopGoesOn
  /\ \E left \in SilentlyPolled(PollTime) : PollLeaves(left, FALSE)
  /\ UNCHANGED clock

(* The callback takes no longer than its timeout, nor past the deadline.   *)
PollTransfer(d) ==
  /\ LoopGoesOn
  /\ SilentlyPolled(PollTime) = {}
  /\ \E left \in TransferPolled(PollTime) : PollLeaves(left, TRUE)
  /\ job.deadline # Never => PollTime + d <= job.deadline
  /\ clock + d <= MaxClock
  /\ clock' = clock + d

(* cancelJob when the loop gave up *)
GiveUp ==
  /\ call.method # "NONE" /\ ~hasResult /\ GaveUp
  /\ job' = Ended("CANCELLED")
  /\ hasResult' = TRUE
  /\ UNCHANGED <<clock, hook, call, seen, returned>>

(* takeJobResult and the return *)
TakeResult_KeepingIt == UNCHANGED <<job, hasResult>>

TakeResult == hasResult' = FALSE /\ job' = NoJob

Return ==
  /\ call.method # "NONE" /\ hasResult
  /\ TakeResult
  /\ returned' = [state |-> job.state, still |-> seen.still,
                  method |-> call.method]
  /\ call' = NoCall
  /\ seen' = NothingSeen
  /\ UNCHANGED <<clock, hook>>

(* Time passes, if it does, between any two steps.  A loop that pauses for *)
(* half a period of the clock (25 days) is not considered.                 *)
Tick ==
  /\ clock < MaxClock
  /\ call.method # "NONE" => clock + 1 - seen.polledAt < Wrap \div 2
  /\ clock' = clock + 1
  /\ UNCHANGED <<hook, job, hasResult, call, seen, returned>>

Init ==
  /\ clock \in {0, Wrap - 1}
  /\ hook \in BOOLEAN
  /\ job = NoJob
  /\ hasResult = FALSE
  /\ call = NoCall
  /\ seen = NothingSeen
  /\ returned = NotReturned

LoopStep ==
  \/ PollSilent
  \/ \E d \in 0 .. TimeoutMs : PollTransfer(d)
  \/ GiveUp
  \/ Return

Next ==
  \/ OwnerStart \/ OwnerEnd \/ OwnerTake
  \/ \E triggered \in BOOLEAN, timeout \in Timeouts : ReadBlocking(triggered, timeout)
  \/ DriveJob(JobTransfers)
  \/ LoopStep
  \/ Tick

(* The call's own code keeps running; the clock need not.                  *)
FairSpec == Init /\ [][Next]_vars /\ WF_vars(LoopStep)
-----------------------------------------------------------------------------
(* Properties *)

TypeOK ==
  /\ clock \in Nat
  /\ hook \in BOOLEAN
  /\ job \in [for : {"NOBODY", "OWNER", "CALL"}, state : State, stage : Stage, left : Nat,
              deadline : Nat \union {Never}, originAfter : Nat, readyAt : Nat,
              recheck : BOOLEAN]
  /\ hasResult \in BOOLEAN
  /\ call \in [method : Method, start : 0 .. Wrap - 1, polls : 0 .. MaxPolls,
               lastElapsed : 0 .. Wrap - 1, spins : 0 .. SpinLimit + 1]
  /\ seen \in [begun : Nat, polledAt : Nat, still : Nat, late : BOOLEAN]
  /\ returned \in [state : State, still : Nat, method : Method]

(* A blocking call returns, whether or not the clock moves and whatever    *)
(* the callbacks answer (README: bounded compatibility tools).             *)
CallReturns == call.method # "NONE" ~> call.method = "NONE"

(* A call leaves no job and no result of its own behind: the owner can     *)
(* start its next job at once.                                             *)
SlotIsHandedBack == call.method = "NONE" => job.for # "CALL"

(* No call replaces a job of the owner, or takes its result.               *)
OwnerKeepsItsSlot ==
  [][job.for = "OWNER" /\ job'.for # "OWNER" => OwnerTake]_vars

(* A sample is given up only on a clock and a job that stood still for all *)
(* the polls of the limit, and a driven job never: its bound on the polls  *)
(* is beyond its longest sequence of transfers.                            *)
GivenUpOnlyWhenStalled ==
  returned.state = "CANCELLED" => returned.method = "SAMPLE" /\ returned.still > SpinLimit

(* No sample call begins a transfer when its timeout is over, wherever the *)
(* clock wraps; its clock may move by less than half a period between two  *)
(* polls, which is why a timeout is limited to INT32_MAX.                  *)
NoLateTransfer == ~seen.late
-----------------------------------------------------------------------------
(* The inductive invariant behind the properties above *)

Running == call.method # "NONE" /\ ~hasResult

(* While a call runs the slot holds its job, and outside of calls no job   *)
(* but the owner's; an owner's job is active or has a result to be taken.  *)
SlotIsAttributed ==
  /\ call.method = "NONE" => job.for # "CALL"
  /\ call.method # "NONE" => job.for = "CALL" /\ (job.state = "ACTIVE" <=> ~hasResult)
  /\ job.for = "OWNER" => job.state = "ACTIVE" \/ hasResult

(* A driven job makes a transfer at every poll, and a sample too without a *)
(* clock.                                                                  *)
JobIsTheCalls ==
  Running =>
    /\ job.left >= 1
    /\ call.method = "DRIVE" =>
         /\ job.stage = "PROFILE" /\ job.deadline = Never
         /\ call.polls + job.left <= JobTransfers
    /\ call.method = "SAMPLE" =>
         /\ job.stage \in {"TRIGGER", "ORIGIN", "WAIT", "CHANNELS"}
         /\ job.deadline # Never /\ job.deadline - call.start \in Timeouts
         /\ ~hook => job.stage = "CHANNELS" /\ call.start = 0 /\ call.spins = 0

(* What a sample call has seen of the clock is the true time, and its      *)
(* spins count the polls at which nothing moved.                           *)
ClockIsFollowed ==
  Running /\ call.method = "SAMPLE" /\ hook =>
    /\ call.start = seen.begun % Wrap
    /\ seen.begun <= seen.polledAt /\ seen.polledAt <= clock
    /\ clock - seen.polledAt < Wrap \div 2
    /\ seen.polledAt - seen.begun < job.deadline - call.start
    /\ call.lastElapsed = seen.polledAt - seen.begun
    /\ call.spins <= seen.still

CancelledIsStalled ==
  call.method # "NONE" /\ job.state = "CANCELLED" =>
    call.method = "SAMPLE" /\ seen.still > SpinLimit

BlockingInv ==
  /\ SlotIsAttributed
  /\ JobIsTheCalls
  /\ ClockIsFollowed
  /\ CancelledIsStalled
=============================================================================
