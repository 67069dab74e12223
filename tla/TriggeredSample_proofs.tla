----------------------- MODULE TriggeredSample_proofs -----------------------
(***************************************************************************)
(* Theorems about the triggered sample job for every resolution of the     *)
(* clock, every conversion, recheck and callback time, every deadline and  *)
(* every budget of the polls.                                              *)
(***************************************************************************)
EXTENDS TriggeredSample, TLAPS

USE TriggeredSampleAssumption

-----------------------------------------------------------------------------
(* Milliseconds and ticks *)

(* Products with the ticks of a millisecond follow the milliseconds. *)
LEMMA TicksAreMonotone ==
  ASSUME NEW a \in Nat, NEW b \in Nat, a <= b
  PROVE  a * TicksPerMs <= b * TicksPerMs
  OBVIOUS

(* Products of sums, which the arithmetic of the proofs takes apart. *)
LEMMA TicksAdd ==
  ASSUME NEW a \in Nat, NEW b \in Nat
  PROVE  /\ (a + b) * TicksPerMs = a * TicksPerMs + b * TicksPerMs
         /\ a * TicksPerMs \in Nat /\ b * TicksPerMs \in Nat
         /\ (a + 1) * TicksPerMs = a * TicksPerMs + TicksPerMs
  OBVIOUS

(* The clock of the polls is the real one, truncated. *)
LEMMA NowIsTruncated ==
  ASSUME clock \in Nat
  PROVE  /\ nowMs \in Nat
         /\ nowMs * TicksPerMs <= clock
         /\ clock < (nowMs + 1) * TicksPerMs
  BY DEF nowMs

(* A clock before a millisecond is seen before it. *)
LEMMA NowBelow ==
  ASSUME clock \in Nat, NEW m \in Nat, clock < m * TicksPerMs
  PROVE  nowMs < m
<1>1. nowMs \in Nat /\ nowMs * TicksPerMs <= clock
  BY NowIsTruncated
<1> SUFFICES ASSUME m <= nowMs PROVE FALSE
  BY <1>1
<1>2. m * TicksPerMs <= nowMs * TicksPerMs
  BY <1>1, TicksAreMonotone
<1>3. m * TicksPerMs \in Nat /\ nowMs * TicksPerMs \in Nat
  BY <1>1, TicksAdd
<1> QED
  BY <1>1, <1>2, <1>3

(* A clock up to a millisecond is seen up to it. *)
LEMMA NowAtMost ==
  ASSUME clock \in Nat, NEW m \in Nat, clock <= m * TicksPerMs
  PROVE  nowMs <= m
<1>0. (m + 1) * TicksPerMs = m * TicksPerMs + TicksPerMs /\ m * TicksPerMs \in Nat
  OBVIOUS
<1>1. clock < (m + 1) * TicksPerMs
  BY <1>0
<1>2. nowMs < m + 1
  BY <1>1, NowBelow
<1> QED
  BY <1>2, NowIsTruncated

(* A millisecond that the polls have not seen has not been reached. *)
LEMMA NowReached ==
  ASSUME clock \in Nat, NEW m \in Nat, nowMs < m
  PROVE  clock < m * TicksPerMs
<1>1. nowMs \in Nat /\ clock < (nowMs + 1) * TicksPerMs
  BY NowIsTruncated
<1>2. (nowMs + 1) * TicksPerMs <= m * TicksPerMs
  BY <1>1, TicksAreMonotone
<1>3. (nowMs + 1) * TicksPerMs \in Nat /\ m * TicksPerMs \in Nat
  <2>1. \A a \in Nat : a * TicksPerMs \in Nat
    OBVIOUS
  <2>2. nowMs + 1 \in Nat
    BY <1>1
  <2> QED
    BY <2>1, <2>2
<1> QED
  BY <1>1, <1>2, <1>3

(* The timeout that a poll gives its callbacks: all of them together fit   *)
(* into the time that remains.                                             *)
LEMMA ClampedFits ==
  ASSUME NEW remaining \in Nat \ {0}, NEW budget \in Nat
  PROVE  LET timeout == ClampedTransferTimeout(remaining, budget) IN
         /\ timeout \in 0 .. Timeout
         /\ budget * timeout <= remaining
         /\ budget <= 1 => timeout > 0
<1> DEFINE share == IF budget > 1 THEN remaining \div budget ELSE remaining
           timeout == ClampedTransferTimeout(remaining, budget)
<1>1. CASE budget > 1
  <2>1. share = remaining \div budget /\ share \in Nat /\ budget * share <= remaining
    BY <1>1
  <2>2. timeout \in Nat /\ timeout <= share /\ timeout <= Timeout
    BY <2>1 DEF ClampedTransferTimeout, Earlier
  <2> HIDE DEF share, timeout
  <2>3. budget * timeout <= budget * share
    BY <2>1, <2>2
  <2>4. budget * timeout \in Nat /\ budget * share \in Nat
    BY <2>1, <2>2
  <2>5. budget * timeout <= remaining
    BY <2>1, <2>3, <2>4
  <2> QED
    BY <1>1, <2>2, <2>5 DEF timeout
<1>2. CASE budget = 0 \/ budget = 1
  <2>1. timeout \in Nat /\ timeout <= remaining /\ timeout <= Timeout /\ timeout > 0
    BY <1>2 DEF ClampedTransferTimeout, Earlier
  <2> HIDE DEF timeout
  <2>2. budget * timeout <= remaining
    BY <1>2, <2>1
  <2> QED
    BY <2>1, <2>2 DEF timeout
<1> QED
  BY <1>1, <1>2

-----------------------------------------------------------------------------
(* Types *)

Effect == {"NONE", "CONFIRMED", "PARTIAL", "INDETERMINATE"}

JobRecord ==
  [state : {"IDLE", "ACTIVE"} \union Terminal, stage : SampleStage, deadline : Nat,
   waitDuration : {0, WaitMs, RecheckMs}, originAfter : Nat, readyAt : Nat,
   conversionStart : Nat, snapshotValid : BOOLEAN, index : 0 .. ChannelReads - 1,
   written : BOOLEAN, effect : Effect]
PollRecord ==
  [active : BOOLEAN, now : Nat, deadline : Nat, left : Nat, timeout : 0 .. Timeout]
DeviceRecord == [triggeredAt : Nat, converted : BOOLEAN, slow : BOOLEAN]
HistoryRecord ==
  [firstMask : Nat, lowAt : Nat, low : BOOLEAN, stale : BOOLEAN, prompt : BOOLEAN]

(* The type invariant by the types of the variables. *)
LEMMA TypeParts ==
  TypeOK <=>
    /\ clock \in Nat /\ job \in JobRecord /\ poll \in PollRecord
    /\ poll.active => job.state = "ACTIVE"
    /\ device \in DeviceRecord /\ history \in HistoryRecord
  BY Zenon DEF TypeOK, JobRecord, PollRecord, DeviceRecord, HistoryRecord, Effect

(* The values that stand for nothing have their types. *)
LEMMA NothingTypes ==
  /\ NoJob \in JobRecord /\ NoPoll \in PollRecord
  /\ NoConversion \in DeviceRecord /\ NoHistory \in HistoryRecord
<1>1. 0 \in 0 .. ChannelReads - 1 /\ 0 \in 0 .. Timeout
  OBVIOUS
<1>2. NoJob \in JobRecord
  BY <1>1 DEF NoJob, JobRecord, SampleStage, Effect
<1>3. NoPoll \in PollRecord
  BY <1>1 DEF NoPoll, PollRecord
<1>4. NoConversion \in DeviceRecord /\ NoHistory \in HistoryRecord
  BY DEF NoConversion, DeviceRecord, NoHistory, HistoryRecord
<1> QED
  BY <1>2, <1>3, <1>4

(* Everything of the job but its state and its effect is as it was. *)
SameCourse ==
  /\ job'.stage = job.stage /\ job'.deadline = job.deadline
  /\ job'.waitDuration = job.waitDuration /\ job'.originAfter = job.originAfter
  /\ job'.readyAt = job.readyAt /\ job'.conversionStart = job.conversionStart
  /\ job'.snapshotValid = job.snapshotValid /\ job'.index = job.index
  /\ job'.written = job.written

(* Ending a job leaves its course as it was, and ends the poll. *)
LEMMA Finished ==
  ASSUME TypeOK, NEW state \in Terminal, NEW effect \in Effect, FinishJob(state, effect)
  PROVE  /\ job' \in JobRecord /\ SameCourse /\ job'.state = state /\ job'.effect = effect
         /\ poll' \in PollRecord /\ ~poll'.active
<1>1. job \in JobRecord
  BY TypeParts
<1>2. job' = [job EXCEPT !.state = state, !.effect = effect] /\ poll' = NoPoll
  BY DEF FinishJob
<1>3. job' \in JobRecord /\ job'.state = state /\ job'.effect = effect
  BY <1>1, <1>2 DEF JobRecord
<1>4. SameCourse
  BY <1>1, <1>2 DEF JobRecord, SameCourse
<1>5. poll' \in PollRecord /\ ~poll'.active
  BY <1>2, NothingTypes DEF NoPoll
<1> QED
  BY <1>3, <1>4, <1>5

(* A failure ends the job in a terminal state that is no success, and as   *)
(* timed out only for an expired deadline.                                 *)
LEMMA FailureFinished ==
  ASSUME TypeOK, NEW code, NEW ambiguous \in BOOLEAN, FinishJobFailure(code, ambiguous)
  PROVE  /\ job' \in JobRecord /\ SameCourse
         /\ job'.state \in Terminal \ {"SUCCEEDED"}
         /\ job'.state = "TIMED_OUT" <=> code = "DEADLINE_EXPIRED"
         /\ poll' \in PollRecord /\ ~poll'.active
<1> DEFINE state == IF code = "DEADLINE_EXPIRED" THEN "TIMED_OUT"
                    ELSE IF ambiguous THEN "INDETERMINATE"
                    ELSE IF job.written THEN "PARTIAL" ELSE "FAILED"
           effect == IF ambiguous THEN "INDETERMINATE"
                     ELSE IF job.written THEN "PARTIAL" ELSE "NONE"
<1>1. FinishJob(state, effect)
  BY Zenon DEF FinishJobFailure
<1>2. /\ state \in Terminal \ {"SUCCEEDED"} /\ effect \in Effect
      /\ state = "TIMED_OUT" <=> code = "DEADLINE_EXPIRED"
  BY DEF Terminal, Effect
<1> HIDE DEF state, effect
<1> QED
  BY <1>1, <1>2, Finished

(* The types hold at the start. *)
LEMMA TypeInit == Init => TypeOK
<1> SUFFICES ASSUME Init PROVE TypeOK
  OBVIOUS
<1>1. clock \in Nat /\ job = NoJob /\ poll = NoPoll /\ device = NoConversion /\ history = NoHistory
  BY DEF Init
<1>2. ~NoPoll.active
  BY DEF NoPoll
<1> QED
  BY <1>1, <1>2, NothingTypes, TypeParts

-----------------------------------------------------------------------------
(* The inductive invariant: steps that end a job or leave it alone *)

SampleIInv == TypeOK /\ SampleInv /\ AdmittedTriggerHasTime

(* The invariant holds at the start. *)
LEMMA IInvInit == Init => SampleIInv
<1> SUFFICES ASSUME Init PROVE SampleIInv
  OBVIOUS
<1>1. job = NoJob /\ poll = NoPoll /\ history = NoHistory
  BY DEF Init
<1>2. /\ job.state = "IDLE" /\ job.stage = "SAMPLE_WRITE_CONFIG" /\ ~job.written
      /\ ~job.snapshotValid /\ ~poll.active /\ ~history.low /\ ~history.stale
  BY <1>1 DEF NoJob, NoPoll, NoHistory
<1> QED
  BY <1>2, TypeInit
     DEF SampleIInv, SampleInv, PollFits, StageIsTold, StartIsLatched, PromptPollsHaveTime,
         TimeIsUsedAsAdmitted, RecheckIsAwaited, AdmittedTriggerHasTime

(* A job that ends, at whatever time, leaves the invariant as it was. *)
LEMMA EndingKeepsIInv ==
  ASSUME SampleIInv, clock' \in Nat, clock' >= clock,
         job' \in JobRecord, SameCourse, job'.state \in Terminal,
         job'.state = "SUCCEEDED" => job.stage = "SAMPLE_READ_CHANNELS",
         poll' \in PollRecord, ~poll'.active,
         device' \in DeviceRecord,
         job.stage = "SAMPLE_WRITE_CONFIG" \/ device'.triggeredAt = device.triggeredAt,
         job.stage = "SAMPLE_READ_CHANNELS" => device'.converted,
         history' \in HistoryRecord, history'.firstMask = history.firstMask,
         history'.lowAt = history.lowAt, history'.low = history.low, ~history'.stale,
         history'.prompt => history.prompt,
         job'.state = "TIMED_OUT" => ~(history'.prompt /\ ~history.low /\ job.written)
  PROVE  SampleIInv'
<1>1. TypeOK'
  BY TypeParts DEF TypeOK, JobRecord, PollRecord, DeviceRecord, HistoryRecord, Effect
<1>2. PollFits' /\ PromptPollsHaveTime'
  BY DEF PollFits, PromptPollsHaveTime
<1>3. StageIsTold'
  BY DEF StageIsTold, SameCourse, SampleIInv, SampleInv
<1>4. /\ clock \in Nat /\ job.readyAt * TicksPerMs \in Nat /\ device.triggeredAt \in Nat
  <2>1. clock \in Nat /\ job.readyAt \in Nat /\ device.triggeredAt \in Nat
    BY DEF SampleIInv, TypeOK
  <2> QED
    BY <2>1
<1>5. StartIsLatched'
  <2>1. StartIsLatched /\ StageIsTold
    BY DEF SampleIInv, SampleInv
  <2>2. CASE job.stage = "SAMPLE_WRITE_CONFIG"
    BY <2>1, <2>2 DEF StartIsLatched, StageIsTold, SameCourse
  <2>3. CASE device'.triggeredAt = device.triggeredAt
    BY <1>4, <2>1, <2>3 DEF StartIsLatched, SameCourse
  <2> QED
    BY <2>2, <2>3
<1>6. TimeIsUsedAsAdmitted'
  BY DEF TimeIsUsedAsAdmitted, Terminal
<1>7. RecheckIsAwaited'
  BY DEF RecheckIsAwaited, SameCourse, SampleIInv, SampleInv
<1>8. AdmittedTriggerHasTime'
  BY DEF AdmittedTriggerHasTime, SameCourse
<1> QED
  BY <1>1, <1>2, <1>3, <1>5, <1>6, <1>7, <1>8 DEF SampleIInv, SampleInv

(* A poll that only returns, or that only waits, changes nothing else. *)
LEMMA ReturningKeepsIInv ==
  ASSUME SampleIInv, poll' = NoPoll, UNCHANGED <<clock, job, device, history>>
  PROVE  SampleIInv'
<1>1. poll' \in PollRecord /\ ~poll'.active
  BY NothingTypes DEF NoPoll
<1>2. TypeOK'
  BY <1>1, TypeParts DEF SampleIInv, TypeOK, JobRecord, PollRecord, DeviceRecord,
       HistoryRecord, Effect
<1> QED
  BY <1>1, <1>2 DEF SampleIInv, SampleInv, PollFits, StageIsTold, StartIsLatched,
       PromptPollsHaveTime, TimeIsUsedAsAdmitted, RecheckIsAwaited, AdmittedTriggerHasTime

(* A callback takes its share of what is left of the poll. *)
LEMMA CallbackFits ==
  ASSUME SampleIInv, poll.active, NEW d \in CallbackTicks, Callback(d)
  PROVE  /\ clock' \in Nat /\ clock' = clock + d
         /\ d <= Timeout * TicksPerMs
         /\ poll.left >= 1 /\ poll.timeout > 0
         /\ clock' + ((poll.left - 1) * poll.timeout) * TicksPerMs
              < (poll.deadline + 1) * TicksPerMs
         /\ clock' < (poll.deadline + 1) * TicksPerMs
<1>1. /\ clock' = clock + d /\ poll.left > 0 /\ poll.timeout > 0
      /\ d <= poll.timeout * TicksPerMs
  BY DEF Callback
<1>2. clock \in Nat /\ poll.left \in Nat /\ poll.timeout \in 0 .. Timeout /\ poll.deadline \in Nat
  BY DEF SampleIInv, TypeOK
<1>3. d \in Nat /\ d <= Timeout * TicksPerMs
  BY DEF CallbackTicks
<1>4. clock + (poll.left * poll.timeout) * TicksPerMs < (poll.deadline + 1) * TicksPerMs
  BY DEF SampleIInv, SampleInv, PollFits
<1> DEFINE rest == (poll.left - 1) * poll.timeout
<1>5. rest \in Nat /\ poll.left * poll.timeout = rest + poll.timeout
  BY <1>1, <1>2
<1> HIDE DEF rest
<1>6. /\ (poll.left * poll.timeout) * TicksPerMs
           = rest * TicksPerMs + poll.timeout * TicksPerMs
      /\ rest * TicksPerMs \in Nat /\ poll.timeout * TicksPerMs \in Nat
  <2>1. poll.timeout \in Nat
    BY <1>2
  <2>2. /\ (rest + poll.timeout) * TicksPerMs = rest * TicksPerMs + poll.timeout * TicksPerMs
        /\ rest * TicksPerMs \in Nat /\ poll.timeout * TicksPerMs \in Nat
    BY <1>5, <2>1, TicksAdd
  <2> QED
    BY <1>5, <2>2
<1>7. (poll.deadline + 1) * TicksPerMs \in Nat
  BY <1>2
<1>8. clock' + rest * TicksPerMs < (poll.deadline + 1) * TicksPerMs
  BY <1>1, <1>2, <1>3, <1>4, <1>6, <1>7
<1> QED
  BY <1>1, <1>2, <1>3, <1>6, <1>7, <1>8 DEF rest

(* Steps that end the job. *)
LEMMA EndStepsKeepIInv ==
  ASSUME SampleIInv,
         \/ RefuseTrigger
         \/ \E d \in CallbackTicks, ambiguous \in BOOLEAN : TriggerFails(d, ambiguous)
         \/ NoTimeForTransfer
         \/ \E d \in CallbackTicks : ReadFails(d)
         \/ CancelJob
  PROVE  SampleIInv'
<1>a. /\ TypeOK /\ clock \in Nat /\ device \in DeviceRecord /\ history \in HistoryRecord
      /\ ~history.stale
      /\ job.stage = "SAMPLE_READ_CHANNELS" => device.converted
      /\ job.stage = "SAMPLE_WRITE_CONFIG" => ~job.written
  BY TypeParts DEF SampleIInv, SampleInv, StageIsTold
<1>1. CASE RefuseTrigger
  <2>1. FinishJob("TIMED_OUT", "NONE") /\ UNCHANGED <<clock, device, history>>
        /\ job.stage = "SAMPLE_WRITE_CONFIG"
    BY <1>1 DEF RefuseTrigger, Polling
  <2>2. /\ job' \in JobRecord /\ SameCourse /\ job'.state = "TIMED_OUT"
        /\ poll' \in PollRecord /\ ~poll'.active
    BY <1>a, <2>1, Finished DEF Terminal, Effect
  <2> QED
    BY <1>a, <2>1, <2>2, EndingKeepsIInv DEF Terminal
<1>2. ASSUME NEW d \in CallbackTicks, NEW ambiguous \in BOOLEAN, TriggerFails(d, ambiguous)
      PROVE  SampleIInv'
  <2>1. /\ FinishJobFailure("I2C_ERROR", ambiguous) /\ Callback(d)
        /\ history' = [history EXCEPT !.prompt = FALSE]
        /\ poll.active /\ job.stage = "SAMPLE_WRITE_CONFIG"
        /\ \/ device' = device
           \/ device' = [triggeredAt |-> clock', converted |-> FALSE, slow |-> FALSE]
    BY <1>2 DEF TriggerFails, MayTrigger, Polling
  <2>2. /\ job' \in JobRecord /\ SameCourse
        /\ job'.state \in Terminal \ {"SUCCEEDED"} /\ job'.state # "TIMED_OUT"
        /\ poll' \in PollRecord /\ ~poll'.active
    BY <1>a, <2>1, FailureFinished
  <2>3. clock' \in Nat /\ clock' >= clock
    BY <1>a, <2>1, CallbackFits DEF CallbackTicks
  <2>4. device' \in DeviceRecord
    <3>1. [triggeredAt |-> clock', converted |-> FALSE, slow |-> FALSE] \in DeviceRecord
      BY <2>3 DEF DeviceRecord
    <3> QED
      BY <1>a, <2>1, <3>1
  <2>5. /\ history' \in HistoryRecord /\ history'.firstMask = history.firstMask
        /\ history'.lowAt = history.lowAt /\ history'.low = history.low
        /\ ~history'.stale /\ ~history'.prompt
    BY <1>a, <2>1 DEF HistoryRecord
  <2> QED
    BY <2>1, <2>2, <2>3, <2>4, <2>5, EndingKeepsIInv
<1>3. CASE NoTimeForTransfer
  <2>1. FinishJobFailure("DEADLINE_EXPIRED", FALSE) /\ UNCHANGED <<clock, device, history>>
        /\ poll.active /\ poll.timeout = 0
    BY <1>3 DEF NoTimeForTransfer, MayTrigger, Polling
  <2>2. /\ job' \in JobRecord /\ SameCourse /\ job'.state \in Terminal \ {"SUCCEEDED"}
        /\ poll' \in PollRecord /\ ~poll'.active
    BY <1>a, <2>1, FailureFinished
  <2>3. ~history.prompt
    BY <2>1 DEF SampleIInv, SampleInv, PromptPollsHaveTime
  <2> QED
    BY <1>a, <2>1, <2>2, <2>3, EndingKeepsIInv
<1>4. ASSUME NEW d \in CallbackTicks, ReadFails(d)
      PROVE  SampleIInv'
  <2>1. /\ FinishJobFailure("I2C_ERROR", FALSE) /\ Callback(d)
        /\ history' = [history EXCEPT !.prompt = FALSE]
        /\ poll.active /\ device' = device
    BY <1>4 DEF ReadFails, Polling
  <2>2. /\ job' \in JobRecord /\ SameCourse
        /\ job'.state \in Terminal \ {"SUCCEEDED"} /\ job'.state # "TIMED_OUT"
        /\ poll' \in PollRecord /\ ~poll'.active
    <3>1. /\ job' \in JobRecord /\ SameCourse /\ job'.state \in Terminal \ {"SUCCEEDED"}
          /\ poll' \in PollRecord /\ ~poll'.active
      BY <1>a, <2>1, FailureFinished
    <3>2. job'.state = "TIMED_OUT" <=> "I2C_ERROR" = "DEADLINE_EXPIRED"
      BY <1>a, <2>1, FailureFinished
    <3> QED
      BY <3>1, <3>2
  <2>3. clock' \in Nat /\ clock' >= clock
    BY <1>a, <2>1, CallbackFits DEF CallbackTicks
  <2>5. /\ history' \in HistoryRecord /\ history'.firstMask = history.firstMask
        /\ history'.lowAt = history.lowAt /\ history'.low = history.low
        /\ ~history'.stale /\ ~history'.prompt
    BY <1>a, <2>1 DEF HistoryRecord
  <2> QED
    BY <1>a, <2>1, <2>2, <2>3, <2>5, EndingKeepsIInv
<1>5. CASE CancelJob
  <2> DEFINE effect == IF job.written THEN "PARTIAL" ELSE "NONE"
  <2>1. FinishJob("CANCELLED", effect) /\ UNCHANGED <<clock, device, history>>
    BY <1>5 DEF CancelJob
  <2>2. effect \in Effect /\ "CANCELLED" \in Terminal
    BY DEF Effect, Terminal
  <2> HIDE DEF effect
  <2>3. /\ job' \in JobRecord /\ SameCourse /\ job'.state = "CANCELLED"
        /\ poll' \in PollRecord /\ ~poll'.active
    BY <1>a, <2>1, <2>2, Finished
  <2> QED
    BY <1>a, <2>1, <2>2, <2>3, EndingKeepsIInv
<1> QED
  BY <1>1, <1>2, <1>3, <1>4, <1>5

-----------------------------------------------------------------------------
(* Steps between the polls *)

(* A job without a past, or none, keeps the invariant. *)
LEMMA NewJobKeepsIInv ==
  ASSUME SampleIInv, job' \in JobRecord, job'.stage = "SAMPLE_WRITE_CONFIG",
         ~job'.snapshotValid, ~job'.written, job'.state \in {"IDLE", "ACTIVE"},
         ~poll.active, history' = NoHistory, UNCHANGED <<clock, poll, device>>
  PROVE  SampleIInv'
<1>1. ~history'.low /\ ~history'.stale /\ history' \in HistoryRecord
  BY NothingTypes DEF NoHistory
<1>2. TypeOK'
  BY <1>1, TypeParts DEF SampleIInv, TypeOK, JobRecord, PollRecord, DeviceRecord,
       HistoryRecord, Effect
<1>3. AdmittedTriggerHasTime'
  BY DEF AdmittedTriggerHasTime
<1> QED
  BY <1>1, <1>2, <1>3 DEF SampleIInv, SampleInv, PollFits, StageIsTold, StartIsLatched,
       PromptPollsHaveTime, TimeIsUsedAsAdmitted, RecheckIsAwaited

(* Starting a job: nothing is written and nothing is latched. *)
LEMMA StartKeepsIInv ==
  ASSUME SampleIInv, NEW deadline \in Deadlines, Start(deadline)
  PROVE  SampleIInv'
<1>1. job' = [NoJob EXCEPT !.state = "ACTIVE", !.deadline = deadline]
  BY DEF Start
<1>2. deadline \in Nat /\ NoJob \in JobRecord
  BY NothingTypes
<1>3. /\ job' \in JobRecord /\ job'.stage = "SAMPLE_WRITE_CONFIG"
      /\ ~job'.snapshotValid /\ ~job'.written /\ job'.state = "ACTIVE"
  <2>1. job' \in JobRecord
    BY <1>1, <1>2 DEF JobRecord
  <2> QED
    BY <1>1, <2>1 DEF NoJob
<1>4. ~poll.active
  BY DEF Start, SampleIInv, TypeOK
<1> QED
  BY <1>3, <1>4, NewJobKeepsIInv DEF Start

(* Taking the result: the job and its history are forgotten. *)
LEMMA TakeKeepsIInv ==
  ASSUME SampleIInv, TakeJobResult
  PROVE  SampleIInv'
<1>1. job' = NoJob /\ history' = NoHistory /\ UNCHANGED <<clock, poll, device>>
  BY DEF TakeJobResult
<1>2. /\ job' \in JobRecord /\ job'.stage = "SAMPLE_WRITE_CONFIG"
      /\ ~job'.snapshotValid /\ ~job'.written /\ job'.state = "IDLE"
  BY <1>1, NothingTypes DEF NoJob
<1>3. ~poll.active
  BY DEF TakeJobResult, SampleIInv, TypeOK, Terminal
<1> QED
  BY <1>1, <1>2, <1>3, NewJobKeepsIInv

(* Time passes: a prompt owner lets none pass when a poll is due. *)
LEMMA TickKeepsIInv ==
  ASSUME SampleIInv, Tick
  PROVE  SampleIInv'
<1>1. /\ clock' = clock + 1 /\ ~poll.active /\ UNCHANGED <<job, poll, device>>
      /\ history' = [history EXCEPT !.prompt = @ /\ ~PollIsDue]
  BY DEF Tick
<1>2. /\ clock \in Nat /\ job \in JobRecord /\ poll \in PollRecord /\ device \in DeviceRecord
      /\ history \in HistoryRecord
  BY TypeParts DEF SampleIInv
<1> DEFINE prompt == history.prompt /\ ~PollIsDue
<1>3. prompt \in BOOLEAN
  BY <1>2 DEF HistoryRecord
<1>4. prompt => history.prompt /\ ~PollIsDue
  OBVIOUS
<1> HIDE DEF prompt
<1>5. /\ history' \in HistoryRecord /\ history'.firstMask = history.firstMask
      /\ history'.lowAt = history.lowAt /\ history'.low = history.low
      /\ history'.stale = history.stale /\ history'.prompt = prompt
  BY <1>1, <1>2, <1>3 DEF HistoryRecord, prompt
<1>6. TypeOK'
  BY <1>1, <1>2, <1>5 DEF TypeOK, JobRecord, PollRecord, DeviceRecord, HistoryRecord, Effect
<1>7. PollFits' /\ PromptPollsHaveTime'
  BY <1>1 DEF PollFits, PromptPollsHaveTime
<1>8. StageIsTold'
  BY <1>1, <1>5 DEF StageIsTold, SampleIInv, SampleInv
<1>9. StartIsLatched'
  <2>1. /\ job.readyAt \in Nat /\ device.triggeredAt \in Nat
        /\ job.readyAt * TicksPerMs \in Nat
    <3>1. job.readyAt \in Nat /\ device.triggeredAt \in Nat
      BY <1>2 DEF JobRecord, DeviceRecord
    <3> QED
      BY <3>1
  <2>2. StartIsLatched
    BY DEF SampleIInv, SampleInv
  <2> QED
    BY <1>1, <1>2, <1>5, <2>1, <2>2 DEF StartIsLatched
<1>10. RecheckIsAwaited'
  BY <1>1, <1>4, <1>5 DEF RecheckIsAwaited, SampleIInv, SampleInv
<1>11. AdmittedTriggerHasTime'
  BY <1>1, <1>4, <1>5 DEF AdmittedTriggerHasTime, SampleIInv
<1>12. TimeIsUsedAsAdmitted'
  <2> SUFFICES ASSUME prompt, ~history.low, job.written, job.state = "ACTIVE"
               PROVE  TimeIsUsedAsAdmitted'
    BY <1>1, <1>5 DEF TimeIsUsedAsAdmitted
  <2> DEFINE By(ms) == (job.originAfter + WaitMs + ms) * TicksPerMs
             origin == (job.originAfter + 1 + Timeout) * TicksPerMs
  <2>1. /\ job.originAfter + 1 + WaitMs + (2 + ChannelReads) * Timeout <= job.deadline
        /\ job.stage = "SAMPLE_WAIT_ORIGIN" => ~job.snapshotValid /\ clock < origin
        /\ job.stage = "SAMPLE_WAIT" => job.readyAt <= job.originAfter + WaitMs + Timeout
        /\ job.stage \in {"SAMPLE_WAIT", "SAMPLE_READ_MASK"} =>
             ~job.snapshotValid /\ clock <= By(Timeout)
    BY <1>4 DEF SampleIInv, SampleInv, TimeIsUsedAsAdmitted
  <2>2. job.originAfter \in Nat /\ job.readyAt \in Nat
    BY <1>2 DEF JobRecord
  <2>3. \/ job.stage = "SAMPLE_WAIT_ORIGIN" /\ ~(nowMs > job.originAfter)
        \/ job.stage = "SAMPLE_WAIT" /\ ~(nowMs >= job.readyAt)
    BY <1>4 DEF PollIsDue
  <2>4. nowMs \in Nat
    BY <1>2, NowIsTruncated
  <2>5. CASE job.stage = "SAMPLE_WAIT_ORIGIN" /\ ~(nowMs > job.originAfter)
    <3>1. clock < (job.originAfter + 1) * TicksPerMs
      BY <1>2, <2>2, <2>4, <2>5, NowReached
    <3>2. (job.originAfter + 1) * TicksPerMs + TicksPerMs <= origin
      <4>1. (job.originAfter + 2) * TicksPerMs <= origin
        BY <2>2, TicksAreMonotone
      <4>2. (job.originAfter + 2) * TicksPerMs = (job.originAfter + 1) * TicksPerMs + TicksPerMs
        BY <2>2
      <4> QED
        BY <4>1, <4>2
    <3>3. (job.originAfter + 1) * TicksPerMs \in Nat /\ origin \in Nat
      BY <2>2
    <3> HIDE DEF origin
    <3>4. clock + 1 < origin
      BY <1>2, <3>1, <3>2, <3>3
    <3> QED
      BY <1>1, <1>5, <2>1, <2>5, <3>4 DEF TimeIsUsedAsAdmitted, origin
  <2>6. CASE job.stage = "SAMPLE_WAIT" /\ ~(nowMs >= job.readyAt)
    <3>1. clock < job.readyAt * TicksPerMs
      BY <1>2, <2>2, <2>4, <2>6, NowReached
    <3>2. job.readyAt * TicksPerMs <= By(Timeout)
      BY <2>1, <2>2, <2>6, TicksAreMonotone
    <3>3. job.readyAt * TicksPerMs \in Nat /\ By(Timeout) \in Nat
      BY <2>2
    <3>4. clock + 1 <= By(Timeout)
      BY <1>2, <3>1, <3>2, <3>3
    <3> QED
      BY <1>1, <1>5, <2>1, <2>6, <3>4 DEF TimeIsUsedAsAdmitted
  <2> QED
    BY <2>3, <2>5, <2>6
<1> QED
  BY <1>6, <1>7, <1>8, <1>9, <1>10, <1>11, <1>12 DEF SampleIInv, SampleInv

-----------------------------------------------------------------------------
(* The beginning of a poll *)

(* The deadline of the job is not reached while its time is used as it was *)
(* admitted.                                                               *)
LEMMA PromptIsInTime ==
  ASSUME SampleIInv, history.prompt, ~history.low, job.written, job.state = "ACTIVE"
  PROVE  nowMs < job.deadline
<1>1. /\ clock \in Nat /\ job.originAfter \in Nat /\ job.deadline \in Nat
      /\ job.index \in 0 .. ChannelReads - 1 /\ job.stage \in SampleStage
  BY DEF SampleIInv, TypeOK
<1> DEFINE By(ms) == clock <= (job.originAfter + WaitMs + ms) * TicksPerMs
<1>2. /\ job.originAfter + 1 + WaitMs + (2 + ChannelReads) * Timeout <= job.deadline
      /\ job.stage = "SAMPLE_WAIT_ORIGIN" =>
           clock < (job.originAfter + 1 + Timeout) * TicksPerMs
      /\ job.stage \in {"SAMPLE_WAIT", "SAMPLE_READ_MASK"} => By(Timeout)
      /\ job.stage = "SAMPLE_READ_CHANNELS" => By((2 + job.index) * Timeout)
  BY DEF SampleIInv, SampleInv, TimeIsUsedAsAdmitted
<1>3. job.stage # "SAMPLE_WRITE_CONFIG"
  BY DEF SampleIInv, SampleInv, StageIsTold
<1>4. nowMs \in Nat
  BY <1>1, NowIsTruncated
<1>5. /\ (2 + job.index) * Timeout \in Nat /\ (2 + ChannelReads) * Timeout \in Nat
      /\ (2 + job.index) * Timeout <= (2 + ChannelReads) * Timeout
      /\ Timeout <= (2 + ChannelReads) * Timeout
  BY <1>1
<1> HIDE DEF By
<1>6. CASE job.stage = "SAMPLE_WAIT_ORIGIN"
  <2>1. nowMs < job.originAfter + 1 + Timeout
    BY <1>1, <1>2, <1>6, NowBelow
  <2> QED
    BY <1>1, <1>2, <1>4, <1>5, <2>1
<1>7. CASE job.stage \in {"SAMPLE_WAIT", "SAMPLE_READ_MASK"}
  <2>1. nowMs <= job.originAfter + WaitMs + Timeout
    BY <1>1, <1>2, <1>7, NowAtMost DEF By
  <2> QED
    BY <1>1, <1>2, <1>4, <1>5, <2>1
<1>8. CASE job.stage = "SAMPLE_READ_CHANNELS"
  <2> DEFINE used == (2 + job.index) * Timeout
  <2>1. used \in Nat /\ used <= (2 + ChannelReads) * Timeout
    BY <1>5
  <2>2. clock <= (job.originAfter + WaitMs + used) * TicksPerMs
    BY <1>2, <1>8 DEF By
  <2> HIDE DEF used
  <2>3. nowMs <= job.originAfter + WaitMs + used
    BY <1>1, <2>1, <2>2, NowAtMost
  <2> QED
    BY <1>1, <1>2, <1>4, <1>5, <2>1, <2>3
<1> QED
  BY <1>1, <1>3, <1>6, <1>7, <1>8 DEF SampleStage

(* A poll begins: the job ends at an expired deadline, or the timeout of   *)
(* the callbacks splits what remains before it.                            *)
LEMMA BeginKeepsIInv ==
  ASSUME SampleIInv, NEW pollDeadline \in PollDeadlines, NEW budget \in Budgets,
         BeginPoll(pollDeadline, budget)
  PROVE  SampleIInv'
<1> DEFINE deadline == EffectiveDeadline(pollDeadline)
           prompt == history.prompt /\ pollDeadline = 0 /\ budget <= 1
<1>1. /\ job.state = "ACTIVE" /\ ~poll.active /\ UNCHANGED <<clock, device>>
      /\ history' = [history EXCEPT !.prompt = @ /\ pollDeadline = 0 /\ budget <= 1]
      /\ \/ nowMs >= deadline /\ FinishJobFailure("DEADLINE_EXPIRED", FALSE)
         \/ /\ ~(nowMs >= deadline)
            /\ poll' = [active |-> TRUE, now |-> nowMs, deadline |-> deadline,
                        left |-> budget,
                        timeout |-> ClampedTransferTimeout(deadline - nowMs, budget)]
            /\ UNCHANGED job
  BY DEF BeginPoll
<1>2. /\ TypeOK /\ clock \in Nat /\ job \in JobRecord /\ device \in DeviceRecord
      /\ history \in HistoryRecord /\ budget \in Nat /\ pollDeadline \in Nat
      /\ ~history.stale
      /\ job.stage = "SAMPLE_READ_CHANNELS" => device.converted
  BY TypeParts DEF SampleIInv, SampleInv, StageIsTold
<1>3. deadline \in Nat /\ (pollDeadline = 0 => deadline = job.deadline)
  BY <1>2 DEF EffectiveDeadline, Earlier, JobRecord
<1>4. nowMs \in Nat /\ nowMs * TicksPerMs <= clock /\ clock < (nowMs + 1) * TicksPerMs
  BY <1>2, NowIsTruncated
<1>5. prompt \in BOOLEAN /\ (prompt => history.prompt /\ pollDeadline = 0 /\ budget <= 1)
  OBVIOUS
<1> HIDE DEF prompt
<1>6. /\ history' \in HistoryRecord /\ history'.firstMask = history.firstMask
      /\ history'.lowAt = history.lowAt /\ history'.low = history.low
      /\ history'.stale = history.stale /\ history'.prompt = prompt
  BY <1>1, <1>2, <1>5 DEF HistoryRecord, prompt
<1> HIDE DEF deadline
<1>7. CASE nowMs >= deadline /\ FinishJobFailure("DEADLINE_EXPIRED", FALSE)
  <2>1. /\ job' \in JobRecord /\ SameCourse /\ job'.state \in Terminal \ {"SUCCEEDED"}
        /\ poll' \in PollRecord /\ ~poll'.active
    BY <1>2, <1>7, FailureFinished
  <2>2. ~(history'.prompt /\ ~history.low /\ job.written)
    <3> SUFFICES ASSUME prompt, ~history.low, job.written PROVE FALSE
      BY <1>6
    <3>1. nowMs < job.deadline
      BY <1>1, <1>5, PromptIsInTime
    <3> QED
      BY <1>3, <1>4, <1>5, <1>7, <3>1
  <2>3. history'.prompt => history.prompt
    BY <1>5, <1>6
  <2> QED
    BY <1>1, <1>2, <1>6, <2>1, <2>2, <2>3, EndingKeepsIInv
<1>8. CASE /\ ~(nowMs >= deadline)
           /\ poll' = [active |-> TRUE, now |-> nowMs, deadline |-> deadline,
                       left |-> budget,
                       timeout |-> ClampedTransferTimeout(deadline - nowMs, budget)]
           /\ UNCHANGED job
  <2> DEFINE timeout == ClampedTransferTimeout(deadline - nowMs, budget)
  <2>1. deadline - nowMs \in Nat \ {0}
    BY <1>3, <1>4, <1>8
  <2>2. timeout \in 0 .. Timeout /\ budget * timeout <= deadline - nowMs
        /\ (budget <= 1 => timeout > 0)
    BY <1>2, <2>1, ClampedFits
  <2>3. /\ poll'.active /\ poll'.now = nowMs /\ poll'.deadline = deadline
        /\ poll'.left = budget /\ poll'.timeout = timeout
    BY <1>8
  <2> HIDE DEF timeout
  <2>4. poll' \in PollRecord
    BY <1>2, <1>3, <1>4, <1>8, <2>2 DEF PollRecord, timeout
  <2>5. TypeOK'
    BY <1>1, <1>2, <1>6, <1>8, <2>4
       DEF TypeOK, JobRecord, PollRecord, DeviceRecord, HistoryRecord, Effect
  <2>6. clock + (budget * timeout) * TicksPerMs < (deadline + 1) * TicksPerMs
    <3> DEFINE all == budget * timeout
               rest == deadline - nowMs
    <3>1. all \in Nat /\ rest \in Nat /\ all <= rest /\ deadline + 1 = (nowMs + 1) + rest
      BY <1>2, <1>3, <1>4, <2>1, <2>2
    <3> HIDE DEF all, rest
    <3>2. all * TicksPerMs <= rest * TicksPerMs
      BY <3>1, TicksAreMonotone
    <3>3. nowMs + 1 \in Nat
      BY <1>4
    <3>4. /\ ((nowMs + 1) + rest) * TicksPerMs = (nowMs + 1) * TicksPerMs + rest * TicksPerMs
          /\ (nowMs + 1) * TicksPerMs \in Nat /\ rest * TicksPerMs \in Nat
      BY <3>1, <3>3, TicksAdd
    <3>5. all * TicksPerMs \in Nat
      BY <3>1
    <3>6. clock + all * TicksPerMs < (deadline + 1) * TicksPerMs
      BY <1>2, <1>4, <3>1, <3>2, <3>4, <3>5
    <3> QED
      BY <3>6 DEF all
  <2>7. PollFits'
    BY <1>1, <1>3, <1>4, <1>8, <2>3, <2>6 DEF PollFits
  <2>8. StageIsTold'
    BY <1>1, <1>6, <1>8 DEF StageIsTold, SampleIInv, SampleInv
  <2>9. StartIsLatched'
    <3>1. StartIsLatched
      BY DEF SampleIInv, SampleInv
    <3>2. job.readyAt \in Nat /\ device.triggeredAt \in Nat
      BY <1>2 DEF JobRecord, DeviceRecord
    <3>3. device.triggeredAt <= clock => device.triggeredAt < (nowMs + 1) * TicksPerMs
      <4>1. (nowMs + 1) * TicksPerMs \in Nat
        BY <1>4
      <4> QED
        BY <1>2, <1>4, <3>2, <4>1
    <3>4. job.readyAt * TicksPerMs <= clock => job.readyAt <= nowMs
      <4> SUFFICES ASSUME job.readyAt * TicksPerMs <= clock, nowMs < job.readyAt
                   PROVE  FALSE
        BY <1>4, <3>2
      <4>1. clock < job.readyAt * TicksPerMs
        BY <1>2, <3>2, NowReached
      <4>2. job.readyAt * TicksPerMs \in Nat
        BY <3>2
      <4> QED
        BY <1>2, <4>1, <4>2
    <3> QED
      BY <1>1, <1>6, <1>8, <2>3, <3>1, <3>3, <3>4 DEF StartIsLatched
  <2>10. PromptPollsHaveTime'
    BY <1>2, <1>3, <1>5, <1>6, <1>8, <2>2, <2>3 DEF PromptPollsHaveTime
  <2>11. TimeIsUsedAsAdmitted' /\ RecheckIsAwaited' /\ AdmittedTriggerHasTime'
    BY <1>1, <1>5, <1>6, <1>8
       DEF TimeIsUsedAsAdmitted, RecheckIsAwaited, AdmittedTriggerHasTime, SampleIInv, SampleInv
  <2> QED
    BY <2>5, <2>7, <2>8, <2>9, <2>10, <2>11 DEF SampleIInv, SampleInv
<1> QED
  BY <1>1, <1>7, <1>8

-----------------------------------------------------------------------------
(* The steps of a poll *)

(* The trigger: it is with the device by the end of its callback, at most  *)
(* a timeout after the poll began.                                         *)
LEMMA TriggerKeepsIInv ==
  ASSUME SampleIInv, NEW d \in CallbackTicks, NEW slow \in BOOLEAN, Trigger(d, slow)
  PROVE  SampleIInv'
<1>1. /\ poll.active /\ job.stage = "SAMPLE_WRITE_CONFIG" /\ Callback(d)
      /\ CompletionBound <= poll.deadline
      /\ job' = [job EXCEPT !.written = TRUE, !.waitDuration = WaitMs,
                            !.originAfter = poll.now, !.readyAt = 0,
                            !.stage = "SAMPLE_WAIT_ORIGIN"]
      /\ poll' = NoPoll
      /\ device' = [triggeredAt |-> clock', converted |-> FALSE, slow |-> slow]
      /\ history' = history
  BY DEF Trigger, MayTrigger, Polling
<1>2. /\ clock \in Nat /\ job \in JobRecord /\ poll \in PollRecord /\ history \in HistoryRecord
      /\ job.state = "ACTIVE" /\ ~job.snapshotValid /\ ~history.low /\ ~history.stale
      /\ clock < (poll.now + 1) * TicksPerMs
  BY <1>1, TypeParts DEF SampleIInv, SampleInv, StageIsTold, PollFits
<1>3. clock' \in Nat /\ clock' = clock + d /\ d \in Nat /\ d <= Timeout * TicksPerMs
  BY <1>1, CallbackFits DEF CallbackTicks
<1>4. /\ job'.state = "ACTIVE" /\ job'.stage = "SAMPLE_WAIT_ORIGIN"
      /\ job'.waitDuration = WaitMs /\ job'.originAfter = poll.now
      /\ ~job'.snapshotValid /\ job'.deadline = job.deadline
  BY <1>1, <1>2 DEF JobRecord
<1>5. job' \in JobRecord
  <2>1. poll.now \in Nat
    BY <1>2 DEF PollRecord
  <2> QED
    BY <1>1, <1>2, <2>1 DEF JobRecord, SampleStage
<1>6. /\ device' \in DeviceRecord /\ device'.triggeredAt = clock'
      /\ poll' \in PollRecord /\ ~poll'.active
  BY <1>1, <1>3, NothingTypes DEF DeviceRecord, NoPoll
<1>7. TypeOK'
  BY <1>1, <1>2, <1>3, <1>5, <1>6
     DEF TypeOK, JobRecord, PollRecord, DeviceRecord, HistoryRecord, Effect
<1>8. PollFits' /\ PromptPollsHaveTime' /\ StageIsTold' /\ RecheckIsAwaited'
  BY <1>1, <1>2, <1>4, <1>6 DEF PollFits, PromptPollsHaveTime, StageIsTold, RecheckIsAwaited
<1>9. StartIsLatched'
  BY <1>3, <1>4, <1>6 DEF StartIsLatched
<1>10. AdmittedTriggerHasTime'
  BY <1>4 DEF AdmittedTriggerHasTime
<1>11. TimeIsUsedAsAdmitted'
  <2> SUFFICES ASSUME history.prompt
               PROVE  /\ poll.now + 1 + WaitMs + (2 + ChannelReads) * Timeout <= job.deadline
                      /\ clock' < (poll.now + 1 + Timeout) * TicksPerMs
    BY <1>1, <1>4 DEF TimeIsUsedAsAdmitted
  <2>1. poll.deadline = job.deadline
    BY <1>1 DEF SampleIInv, SampleInv, PromptPollsHaveTime
  <2>2. poll.now + 1 \in Nat /\ Timeout \in Nat
    BY <1>2 DEF PollRecord
  <2>3. /\ (poll.now + 1 + Timeout) * TicksPerMs
             = (poll.now + 1) * TicksPerMs + Timeout * TicksPerMs
        /\ (poll.now + 1) * TicksPerMs \in Nat /\ Timeout * TicksPerMs \in Nat
    BY <2>2, TicksAdd
  <2> QED
    BY <1>1, <1>2, <1>3, <2>1, <2>3 DEF CompletionBound
<1> QED
  BY <1>7, <1>8, <1>9, <1>10, <1>11 DEF SampleIInv, SampleInv

(* The wait is over: the first read comes after it. *)
LEMMA WaitOverKeepsIInv ==
  ASSUME SampleIInv, WaitOver
  PROVE  SampleIInv'
<1>1. /\ poll.active /\ job.stage = "SAMPLE_WAIT" /\ poll.now >= job.readyAt
      /\ job' = [job EXCEPT !.stage = "SAMPLE_READ_MASK"]
      /\ UNCHANGED <<clock, poll, device, history>>
  BY DEF WaitOver, Polling
<1>2. /\ clock \in Nat /\ job \in JobRecord /\ poll \in PollRecord /\ device \in DeviceRecord
      /\ history \in HistoryRecord /\ job.state = "ACTIVE"
      /\ poll.now * TicksPerMs <= clock
  BY <1>1, TypeParts DEF SampleIInv, SampleInv, PollFits
<1>3. /\ job' \in JobRecord
      /\ job'.stage = "SAMPLE_READ_MASK" /\ job'.state = job.state
      /\ job'.deadline = job.deadline /\ job'.originAfter = job.originAfter
      /\ job'.readyAt = job.readyAt /\ job'.conversionStart = job.conversionStart
      /\ job'.snapshotValid = job.snapshotValid /\ job'.written = job.written
  BY <1>1, <1>2 DEF JobRecord, SampleStage
<1>4. TypeOK'
  BY <1>1, <1>2, <1>3 DEF TypeOK, JobRecord, PollRecord, DeviceRecord, HistoryRecord, Effect
<1>5. PollFits' /\ PromptPollsHaveTime'
  BY <1>1, <1>3 DEF PollFits, PromptPollsHaveTime, SampleIInv, SampleInv
<1>6. StageIsTold' /\ RecheckIsAwaited' /\ AdmittedTriggerHasTime'
  BY <1>1, <1>2, <1>3
     DEF StageIsTold, RecheckIsAwaited, AdmittedTriggerHasTime, SampleIInv, SampleInv
<1>7. StartIsLatched'
  <2>1. job.readyAt \in Nat /\ poll.now \in Nat
    BY <1>2 DEF JobRecord, PollRecord
  <2>2. job.readyAt * TicksPerMs <= poll.now * TicksPerMs
    BY <1>1, <2>1, TicksAreMonotone
  <2>3. job.readyAt * TicksPerMs \in Nat /\ poll.now * TicksPerMs \in Nat
    BY <2>1
  <2>4. job.readyAt * TicksPerMs <= clock
    BY <1>2, <2>2, <2>3
  <2> QED
    BY <1>1, <1>3, <2>4 DEF StartIsLatched, SampleIInv, SampleInv
<1>8. TimeIsUsedAsAdmitted'
  BY <1>1, <1>3 DEF TimeIsUsedAsAdmitted, SampleIInv, SampleInv
<1> QED
  BY <1>4, <1>5, <1>6, <1>7, <1>8 DEF SampleIInv, SampleInv

(* The wait begins: its origin is later than the trigger, and the deadline *)
(* leaves room for it if admission has counted it.                         *)
LEMMA WaitOriginKeepsIInv ==
  ASSUME SampleIInv, WaitOrigin
  PROVE  SampleIInv'
<1> DEFINE origin == [job EXCEPT !.stage = "SAMPLE_WAIT", !.readyAt = WaitEnd,
                                 !.conversionStart = ConversionStart]
<1>1. /\ poll.active /\ job.stage = "SAMPLE_WAIT_ORIGIN" /\ poll.now > job.originAfter
      /\ UNCHANGED <<clock, device, history>>
      /\ \/ WaitEnd < poll.deadline /\ job' = origin /\ poll' = NoPoll
         \/ /\ WaitEnd >= poll.deadline /\ job.snapshotValid
            /\ job' = [origin EXCEPT !.readyAt = poll.deadline] /\ poll' = NoPoll
         \/ /\ WaitEnd >= poll.deadline /\ ~job.snapshotValid
            /\ FinishJob("TIMED_OUT", "PARTIAL")
  BY DEF WaitOrigin, Polling
<1>2. /\ clock \in Nat /\ job \in JobRecord /\ poll \in PollRecord /\ device \in DeviceRecord
      /\ history \in HistoryRecord /\ job.state = "ACTIVE" /\ TypeOK
      /\ poll.now * TicksPerMs <= clock /\ ~history.stale
      /\ ~job.snapshotValid => job.waitDuration = WaitMs
      /\ history.low => job.originAfter = history.lowAt /\ job.waitDuration = RecheckMs
      /\ history.prompt => poll.deadline = job.deadline
  BY <1>1, TypeParts DEF SampleIInv, SampleInv, PollFits, StageIsTold, RecheckIsAwaited,
       PromptPollsHaveTime
<1>3. /\ poll.now \in Nat /\ job.originAfter \in Nat /\ job.waitDuration \in Nat
      /\ poll.deadline \in Nat /\ job.deadline \in Nat /\ job.conversionStart \in Nat
      /\ history.lowAt \in Nat
  BY <1>2 DEF PollRecord, JobRecord, HistoryRecord
<1>4. WaitEnd \in Nat /\ WaitEnd = poll.now + job.waitDuration /\ ConversionStart \in Nat
  BY <1>3 DEF WaitEnd, ConversionStart
<1>5. ASSUME history.prompt, ~history.low, job.written
      PROVE  /\ ~job.snapshotValid
             /\ job.originAfter + 1 + WaitMs + (2 + ChannelReads) * Timeout <= job.deadline
             /\ poll.now <= job.originAfter + Timeout
             /\ clock <= (job.originAfter + WaitMs + Timeout) * TicksPerMs
  <2>1. /\ job.originAfter + 1 + WaitMs + (2 + ChannelReads) * Timeout <= job.deadline
        /\ ~job.snapshotValid /\ clock < (job.originAfter + 1 + Timeout) * TicksPerMs
    BY <1>1, <1>2, <1>5 DEF SampleIInv, SampleInv, TimeIsUsedAsAdmitted
  <2> DEFINE m == job.originAfter + 1 + Timeout
             n == job.originAfter + WaitMs + Timeout
  <2>2. m \in Nat /\ n \in Nat /\ m <= n
    BY <1>3
  <2>3. clock < m * TicksPerMs
    BY <2>1
  <2> HIDE DEF m, n
  <2>4. m * TicksPerMs <= n * TicksPerMs /\ m * TicksPerMs \in Nat /\ n * TicksPerMs \in Nat
    <3>1. m * TicksPerMs <= n * TicksPerMs
      BY <2>2, TicksAreMonotone
    <3> QED
      BY <2>2, <3>1
  <2>5. clock <= n * TicksPerMs
    BY <1>2, <2>3, <2>4
  <2>6. poll.now < m
    <3> SUFFICES ASSUME m <= poll.now PROVE FALSE
      BY <1>3, <2>2
    <3>1. m * TicksPerMs <= poll.now * TicksPerMs
      BY <1>3, <2>2, TicksAreMonotone
    <3>2. poll.now * TicksPerMs \in Nat
      BY <1>3
    <3> QED
      BY <1>2, <2>3, <2>4, <3>1, <3>2
  <2> QED
    BY <1>3, <2>1, <2>5, <2>6 DEF m, n
<1>6. ASSUME NEW readyAt \in {WaitEnd, poll.deadline},
             job' = [job EXCEPT !.stage = "SAMPLE_WAIT", !.readyAt = readyAt,
                                !.conversionStart = ConversionStart],
             poll' = NoPoll,
             readyAt = WaitEnd \/ job.snapshotValid
      PROVE  SampleIInv'
  <2>1. readyAt \in Nat /\ ~poll'.active /\ poll' \in PollRecord
    BY <1>3, <1>4, <1>6, NothingTypes DEF NoPoll
  <2>2. /\ job' \in JobRecord
        /\ job'.stage = "SAMPLE_WAIT" /\ job'.state = "ACTIVE"
        /\ job'.deadline = job.deadline /\ job'.originAfter = job.originAfter
        /\ job'.readyAt = readyAt /\ job'.conversionStart = ConversionStart
        /\ job'.snapshotValid = job.snapshotValid /\ job'.written = job.written
    BY <1>2, <1>4, <1>6, <2>1 DEF JobRecord, SampleStage
  <2>3. TypeOK'
    BY <1>1, <1>2, <2>1, <2>2
       DEF TypeOK, JobRecord, PollRecord, DeviceRecord, HistoryRecord, Effect
  <2>4. PollFits' /\ PromptPollsHaveTime'
    BY <2>1 DEF PollFits, PromptPollsHaveTime
  <2>5. StageIsTold' /\ AdmittedTriggerHasTime'
    BY <1>1, <1>2, <2>2 DEF StageIsTold, AdmittedTriggerHasTime
  <2>6. RecheckIsAwaited'
    BY <1>1, <1>2, <1>3, <1>4, <1>6, <2>2 DEF RecheckIsAwaited
  <2>7. StartIsLatched'
    <3>1. /\ device.triggeredAt <= clock
          /\ device.triggeredAt < (poll.now + 1) * TicksPerMs
          /\ job.snapshotValid =>
               /\ device.triggeredAt < (job.conversionStart + 1) * TicksPerMs
               /\ (job.conversionStart + WaitMs) * TicksPerMs <= history.firstMask
      BY <1>1 DEF StartIsLatched, SampleIInv, SampleInv
    <3>2. CASE job.snapshotValid
      <4>1. ConversionStart = job.conversionStart
        BY <3>2 DEF ConversionStart
      <4> QED
        BY <1>1, <2>1, <2>2, <3>1, <3>2, <4>1 DEF StartIsLatched
    <3>3. CASE ~job.snapshotValid
      <4>1. ConversionStart = poll.now /\ readyAt = poll.now + WaitMs
        BY <1>2, <1>4, <1>6, <3>3 DEF ConversionStart
      <4> QED
        BY <1>1, <2>1, <2>2, <3>1, <3>3, <4>1 DEF StartIsLatched
    <3> QED
      BY <3>2, <3>3
  <2>8. TimeIsUsedAsAdmitted'
    <3> SUFFICES ASSUME history.prompt, ~history.low, job.written
                 PROVE  TimeIsUsedAsAdmitted'
      BY <1>1, <2>2 DEF TimeIsUsedAsAdmitted
    <3>1. readyAt = poll.now + WaitMs /\ readyAt <= job.originAfter + WaitMs + Timeout
      BY <1>2, <1>3, <1>4, <1>5, <1>6
    <3> QED
      BY <1>1, <1>5, <2>2, <3>1 DEF TimeIsUsedAsAdmitted
  <2> QED
    BY <2>3, <2>4, <2>5, <2>6, <2>7, <2>8 DEF SampleIInv, SampleInv
<1>7. CASE WaitEnd < poll.deadline /\ job' = origin /\ poll' = NoPoll
  BY <1>6, <1>7
<1>8. CASE /\ WaitEnd >= poll.deadline /\ job.snapshotValid
           /\ job' = [origin EXCEPT !.readyAt = poll.deadline] /\ poll' = NoPoll
  <2>1. [origin EXCEPT !.readyAt = poll.deadline]
          = [job EXCEPT !.stage = "SAMPLE_WAIT", !.readyAt = poll.deadline,
                        !.conversionStart = ConversionStart]
    BY <1>2 DEF JobRecord
  <2> HIDE DEF origin
  <2> QED
    BY <1>6, <1>8, <2>1
<1>9. CASE /\ WaitEnd >= poll.deadline /\ ~job.snapshotValid
           /\ FinishJob("TIMED_OUT", "PARTIAL")
  <2>1. /\ job' \in JobRecord /\ SameCourse /\ job'.state = "TIMED_OUT"
        /\ poll' \in PollRecord /\ ~poll'.active
    BY <1>2, <1>9, Finished DEF Terminal, Effect
  <2>2. ~(history.prompt /\ ~history.low /\ job.written)
    <3> SUFFICES ASSUME history.prompt, ~history.low, job.written PROVE FALSE
      OBVIOUS
    <3>1. (2 + ChannelReads) * Timeout \in Nat /\ (2 + ChannelReads) * Timeout >= Timeout
      OBVIOUS
    <3> QED
      BY <1>2, <1>3, <1>4, <1>5, <1>9, <3>1
  <2> QED
    BY <1>1, <1>2, <2>1, <2>2, EndingKeepsIInv DEF Terminal
<1> QED
  BY <1>1, <1>7, <1>8, <1>9

(* The Mask/Enable read: what it finds, and what it leaves in the history. *)
LEMMA MaskIsRead ==
  ASSUME SampleIInv, NEW d \in CallbackTicks, NEW cvrf \in BOOLEAN, ReadMask(d, cvrf)
  PROVE  /\ poll.active /\ job.stage = "SAMPLE_READ_MASK" /\ Callback(d)
         /\ IF cvrf THEN GoOnToChannels ELSE WaitAgain
         /\ device' \in DeviceRecord /\ device'.triggeredAt = device.triggeredAt
         /\ device'.converted = cvrf
         /\ history' \in HistoryRecord
         /\ history'.firstMask = IF job.snapshotValid THEN history.firstMask ELSE clock
         /\ history'.lowAt = IF cvrf THEN history.lowAt ELSE poll.now
         /\ history'.low <=> history.low \/ ~cvrf
         /\ ~history'.stale /\ history'.prompt = history.prompt
<1> DEFINE firstMask == IF job.snapshotValid THEN history.firstMask ELSE clock
           lowAt == IF cvrf THEN history.lowAt ELSE poll.now
           low == history.low \/ ~cvrf
<1>1. /\ poll.active /\ job.stage = "SAMPLE_READ_MASK" /\ Callback(d)
      /\ device' = [device EXCEPT !.converted = cvrf]
      /\ IF cvrf THEN GoOnToChannels ELSE WaitAgain
      /\ history' = [history EXCEPT !.firstMask = firstMask, !.lowAt = lowAt, !.low = low]
  BY Zenon DEF ReadMask, Polling
<1>2. /\ device \in DeviceRecord /\ history \in HistoryRecord /\ ~history.stale
      /\ clock \in Nat /\ poll.now \in Nat
  BY TypeParts DEF SampleIInv, SampleInv, StageIsTold, PollRecord
<1>3. firstMask \in Nat /\ lowAt \in Nat
  BY <1>2 DEF HistoryRecord
<1>4. low \in BOOLEAN
  BY Zenon
<1>5. device' \in DeviceRecord /\ device'.triggeredAt = device.triggeredAt
      /\ device'.converted = cvrf
  BY <1>1, <1>2 DEF DeviceRecord
<1> HIDE DEF firstMask, lowAt, low
<1>6. /\ history' \in HistoryRecord /\ history'.firstMask = firstMask
      /\ history'.lowAt = lowAt /\ history'.low = low
      /\ history'.stale = history.stale /\ history'.prompt = history.prompt
  BY <1>1, <1>2, <1>3, <1>4 DEF HistoryRecord
<1> QED
  BY <1>1, <1>2, <1>5, <1>6, Zenon DEF firstMask, lowAt, low

(* The first Mask/Enable read of the job comes after its wait. *)
LEMMA FirstMaskIsAfterWait ==
  ASSUME SampleIInv, poll.active, job.stage = "SAMPLE_READ_MASK"
  PROVE  (job.conversionStart + WaitMs) * TicksPerMs
           <= (IF job.snapshotValid THEN history.firstMask ELSE clock)
<1>1. /\ job.snapshotValid => (job.conversionStart + WaitMs) * TicksPerMs <= history.firstMask
      /\ ~job.snapshotValid => job.readyAt = job.conversionStart + WaitMs
      /\ job.readyAt * TicksPerMs <= clock
  BY DEF SampleIInv, SampleInv, StartIsLatched
<1> QED
  BY <1>1

(* CVRF low: the job goes back to wait, for the recheck. *)
LEMMA WaitAgainKeepsIInv ==
  ASSUME SampleIInv, NEW d \in CallbackTicks, ReadMask(d, FALSE)
  PROVE  SampleIInv'
<1>1. /\ poll.active /\ job.stage = "SAMPLE_READ_MASK" /\ Callback(d) /\ WaitAgain
      /\ device' \in DeviceRecord /\ device'.triggeredAt = device.triggeredAt
      /\ history' \in HistoryRecord
      /\ history'.firstMask = IF job.snapshotValid THEN history.firstMask ELSE clock
      /\ history'.lowAt = poll.now /\ history'.low /\ ~history'.stale
  BY MaskIsRead
<1>2. job \in JobRecord /\ poll \in PollRecord /\ clock \in Nat /\ device \in DeviceRecord
      /\ job.state = "ACTIVE"
  BY <1>1, TypeParts DEF SampleIInv
<1>3. clock' \in Nat /\ clock' >= clock
  BY <1>1, <1>2, CallbackFits DEF CallbackTicks
<1>4. poll' \in PollRecord /\ ~poll'.active
  BY <1>1, NothingTypes DEF WaitAgain, NoPoll
<1>5. /\ job' \in JobRecord
      /\ job'.stage = "SAMPLE_WAIT_ORIGIN" /\ job'.state = "ACTIVE" /\ job'.snapshotValid
      /\ job'.originAfter = poll.now /\ job'.waitDuration = RecheckMs
      /\ job'.conversionStart = job.conversionStart
  <2>1. poll.now \in Nat
    BY <1>2 DEF PollRecord
  <2> QED
    BY <1>1, <1>2, <2>1 DEF WaitAgain, JobRecord, SampleStage
<1>6. TypeOK'
  BY <1>1, <1>3, <1>4, <1>5 DEF TypeOK, JobRecord, PollRecord, DeviceRecord, HistoryRecord, Effect
<1>7. PollFits' /\ PromptPollsHaveTime' /\ StageIsTold' /\ AdmittedTriggerHasTime'
  BY <1>1, <1>4, <1>5 DEF PollFits, PromptPollsHaveTime, StageIsTold, AdmittedTriggerHasTime
<1>8. TimeIsUsedAsAdmitted' /\ RecheckIsAwaited'
  BY <1>1, <1>5 DEF TimeIsUsedAsAdmitted, RecheckIsAwaited
<1>9. StartIsLatched'
  <2>1. /\ device.triggeredAt <= clock
        /\ device.triggeredAt < (job.conversionStart + 1) * TicksPerMs
    BY <1>1 DEF SampleIInv, SampleInv, StartIsLatched
  <2>2. (job.conversionStart + WaitMs) * TicksPerMs <= history'.firstMask
    BY <1>1, FirstMaskIsAfterWait
  <2>3. device.triggeredAt <= clock'
    <3>1. device.triggeredAt \in Nat
      BY <1>2 DEF DeviceRecord
    <3> QED
      BY <1>2, <1>3, <2>1, <3>1
  <2> QED
    BY <1>1, <1>4, <1>5, <2>1, <2>2, <2>3 DEF StartIsLatched
<1> QED
  BY <1>6, <1>7, <1>8, <1>9 DEF SampleIInv, SampleInv

(* CVRF set: the poll goes on to the channels. *)
LEMMA GoOnKeepsIInv ==
  ASSUME SampleIInv, NEW d \in CallbackTicks, ReadMask(d, TRUE)
  PROVE  SampleIInv'
<1>1. /\ poll.active /\ job.stage = "SAMPLE_READ_MASK" /\ Callback(d) /\ GoOnToChannels
      /\ device' \in DeviceRecord /\ device'.triggeredAt = device.triggeredAt
      /\ device'.converted
      /\ history' \in HistoryRecord
      /\ history'.firstMask = IF job.snapshotValid THEN history.firstMask ELSE clock
      /\ history'.low = history.low /\ ~history'.stale /\ history'.prompt = history.prompt
  <2>1. history'.low <=> history.low
    BY MaskIsRead
  <2>2. history.low \in BOOLEAN /\ history'.low \in BOOLEAN
    <3>1. history \in HistoryRecord /\ history' \in HistoryRecord
      BY MaskIsRead, TypeParts DEF SampleIInv
    <3> QED
      BY <3>1, Zenon DEF HistoryRecord
  <2>3. history'.low = history.low
    BY <2>1, <2>2
  <2> QED
    BY <2>3, MaskIsRead
<1>2. job \in JobRecord /\ poll \in PollRecord /\ clock \in Nat /\ device \in DeviceRecord
      /\ job.state = "ACTIVE"
  BY <1>1, TypeParts DEF SampleIInv
<1>3. /\ clock' \in Nat /\ clock' = clock + d /\ d \in Nat /\ d <= Timeout * TicksPerMs
      /\ poll.left >= 1
      /\ clock' + ((poll.left - 1) * poll.timeout) * TicksPerMs
           < (poll.deadline + 1) * TicksPerMs
  BY <1>1, CallbackFits DEF CallbackTicks
<1>4. /\ poll' \in PollRecord /\ poll'.active = poll.active /\ poll'.now = poll.now
      /\ poll'.deadline = poll.deadline /\ poll'.left = poll.left - 1
      /\ poll'.timeout = poll.timeout
  <2>1. poll.left - 1 \in Nat
    BY <1>2, <1>3 DEF PollRecord
  <2>2. poll' = [poll EXCEPT !.left = poll.left - 1]
    BY <1>1 DEF GoOnToChannels
  <2> QED
    BY <1>2, <2>1, <2>2 DEF PollRecord
<1>5. /\ job' \in JobRecord
      /\ job'.stage = "SAMPLE_READ_CHANNELS" /\ job'.state = "ACTIVE" /\ job'.snapshotValid
      /\ job'.deadline = job.deadline /\ job'.originAfter = job.originAfter
      /\ job'.index = job.index /\ job'.written = job.written
      /\ job'.conversionStart = job.conversionStart
  BY <1>1, <1>2 DEF GoOnToChannels, JobRecord, SampleStage
<1>6. TypeOK'
  BY <1>1, <1>3, <1>4, <1>5 DEF TypeOK, JobRecord, PollRecord, DeviceRecord, HistoryRecord, Effect
<1>7. PollFits'
  <2>1. poll.now * TicksPerMs <= clock /\ poll.now < poll.deadline
    BY <1>1 DEF SampleIInv, SampleInv, PollFits
  <2>2. poll.now \in Nat /\ poll.now * TicksPerMs \in Nat
    <3>1. poll.now \in Nat
      BY <1>2 DEF PollRecord
    <3> QED
      BY <3>1
  <2>3. poll'.now * TicksPerMs <= clock'
    BY <1>2, <1>3, <1>4, <2>1, <2>2
  <2> QED
    BY <1>3, <1>4, <1>5, <2>1, <2>3 DEF PollFits
<1>8. StageIsTold' /\ RecheckIsAwaited' /\ AdmittedTriggerHasTime'
  BY <1>1, <1>5 DEF StageIsTold, RecheckIsAwaited, AdmittedTriggerHasTime
<1>9. PromptPollsHaveTime'
  <2>1. history.prompt =>
          poll.deadline = job.deadline /\ poll.left <= 1 /\ poll.timeout > 0
    BY <1>1 DEF SampleIInv, SampleInv, PromptPollsHaveTime
  <2>2. poll.left \in Nat
    BY <1>2 DEF PollRecord
  <2> QED
    BY <1>1, <1>4, <1>5, <2>1, <2>2 DEF PromptPollsHaveTime
<1>10. StartIsLatched'
  <2>1. /\ device.triggeredAt <= clock
        /\ device.triggeredAt < (poll.now + 1) * TicksPerMs
        /\ device.triggeredAt < (job.conversionStart + 1) * TicksPerMs
    BY <1>1 DEF SampleIInv, SampleInv, StartIsLatched
  <2>2. (job.conversionStart + WaitMs) * TicksPerMs <= history'.firstMask
    BY <1>1, FirstMaskIsAfterWait
  <2>3. device.triggeredAt <= clock'
    <3>1. device.triggeredAt \in Nat
      BY <1>2 DEF DeviceRecord
    <3> QED
      BY <1>2, <1>3, <2>1, <3>1
  <2> QED
    BY <1>1, <1>4, <1>5, <2>1, <2>2, <2>3 DEF StartIsLatched
<1>11. TimeIsUsedAsAdmitted'
  <2> SUFFICES ASSUME history.prompt, ~history.low, job.written
               PROVE  /\ job.originAfter + 1 + WaitMs + (2 + ChannelReads) * Timeout
                           <= job.deadline
                      /\ clock' <= (job.originAfter + WaitMs + (2 + job.index) * Timeout)
                                     * TicksPerMs
    BY <1>1, <1>5 DEF TimeIsUsedAsAdmitted
  <2>1. /\ job.originAfter + 1 + WaitMs + (2 + ChannelReads) * Timeout <= job.deadline
        /\ clock <= (job.originAfter + WaitMs + Timeout) * TicksPerMs
    BY <1>1, <1>2 DEF SampleIInv, SampleInv, TimeIsUsedAsAdmitted
  <2> DEFINE m == job.originAfter + WaitMs + Timeout
             n == job.originAfter + WaitMs + (2 + job.index) * Timeout
  <2>2. m \in Nat /\ n \in Nat /\ m + Timeout <= n
    <3>1. job.originAfter \in Nat /\ job.index \in Nat /\ Timeout \in Nat
      BY <1>2 DEF JobRecord
    <3>2. (2 + job.index) * Timeout = 2 * Timeout + job.index * Timeout
          /\ job.index * Timeout \in Nat
      BY <3>1
    <3> QED
      BY <3>1, <3>2
  <2>3. clock <= m * TicksPerMs
    BY <2>1
  <2> HIDE DEF m, n
  <2>4. (m + Timeout) * TicksPerMs <= n * TicksPerMs
    <3>1. m + Timeout \in Nat
      BY <2>2
    <3> QED
      BY <2>2, <3>1, TicksAreMonotone
  <2>5. (m + Timeout) * TicksPerMs = m * TicksPerMs + Timeout * TicksPerMs
        /\ m * TicksPerMs \in Nat /\ Timeout * TicksPerMs \in Nat /\ n * TicksPerMs \in Nat
    <3>1. Timeout \in Nat
      OBVIOUS
    <3> QED
      BY <2>2, <3>1, TicksAdd
  <2>6. clock' <= n * TicksPerMs
    BY <1>2, <1>3, <2>3, <2>4, <2>5
  <2> QED
    BY <2>1, <2>6 DEF n
<1> QED
  BY <1>6, <1>7, <1>8, <1>9, <1>10, <1>11 DEF SampleIInv, SampleInv

(* A channel register is read from the conversion that the job triggered;  *)
(* the last of them ends the job.                                          *)
LEMMA ReadChannelKeepsIInv ==
  ASSUME SampleIInv, NEW d \in CallbackTicks, NEW converted \in BOOLEAN,
         ReadChannel(d, converted)
  PROVE  SampleIInv'
<1>1. /\ poll.active /\ job.stage = "SAMPLE_READ_CHANNELS" /\ Callback(d)
      /\ converted \in Converted(clock)
      /\ device' = [device EXCEPT !.converted = converted]
      /\ history' = [history EXCEPT !.stale = @ \/ ~converted]
      /\ IF job.index + 1 = ChannelReads
           THEN FinishJob("SUCCEEDED", IF job.written THEN "CONFIRMED" ELSE "NONE")
           ELSE /\ job' = [job EXCEPT !.index = @ + 1]
                /\ poll' = [poll EXCEPT !.left = @ - 1]
  BY DEF ReadChannel, Polling
<1>2. /\ job \in JobRecord /\ poll \in PollRecord /\ clock \in Nat /\ device \in DeviceRecord
      /\ history \in HistoryRecord /\ job.state = "ACTIVE" /\ TypeOK
      /\ job.snapshotValid /\ device.converted /\ ~history.stale
  BY <1>1, TypeParts DEF SampleIInv, SampleInv, StageIsTold
<1>3. converted = TRUE
  BY <1>1, <1>2 DEF Converted
<1>4. /\ clock' \in Nat /\ clock' = clock + d /\ d \in Nat /\ d <= Timeout * TicksPerMs
      /\ poll.left >= 1
      /\ clock' + ((poll.left - 1) * poll.timeout) * TicksPerMs
           < (poll.deadline + 1) * TicksPerMs
  BY <1>1, CallbackFits DEF CallbackTicks
<1>5. device' \in DeviceRecord /\ device'.triggeredAt = device.triggeredAt
      /\ device'.converted
  BY <1>1, <1>2, <1>3 DEF DeviceRecord
<1>6. /\ history' \in HistoryRecord /\ history'.firstMask = history.firstMask
      /\ history'.lowAt = history.lowAt /\ history'.low = history.low
      /\ ~history'.stale /\ history'.prompt = history.prompt
  <2> DEFINE stale == history.stale \/ ~converted
  <2>1. stale = FALSE
    BY <1>2, <1>3
  <2>2. history' = [history EXCEPT !.stale = stale]
    BY <1>1
  <2> HIDE DEF stale
  <2> QED
    BY <1>2, <2>1, <2>2 DEF HistoryRecord
<1>7. CASE job.index + 1 = ChannelReads
  <2> DEFINE effect == IF job.written THEN "CONFIRMED" ELSE "NONE"
  <2>1. FinishJob("SUCCEEDED", effect) /\ effect \in Effect /\ "SUCCEEDED" \in Terminal
    BY <1>1, <1>7 DEF Effect, Terminal
  <2> HIDE DEF effect
  <2>2. /\ job' \in JobRecord /\ SameCourse /\ job'.state = "SUCCEEDED"
        /\ poll' \in PollRecord /\ ~poll'.active
    BY <1>2, <2>1, Finished
  <2>3. clock' >= clock
    BY <1>2, <1>4
  <2> QED
    BY <1>1, <1>4, <1>5, <1>6, <2>1, <2>2, <2>3, EndingKeepsIInv
<1>8. CASE job.index + 1 # ChannelReads
  <2>1. /\ poll' \in PollRecord /\ poll'.active = poll.active /\ poll'.now = poll.now
        /\ poll'.deadline = poll.deadline /\ poll'.left = poll.left - 1
        /\ poll'.timeout = poll.timeout
    <3>1. poll.left - 1 \in Nat
      BY <1>2, <1>4 DEF PollRecord
    <3>2. poll' = [poll EXCEPT !.left = poll.left - 1]
      BY <1>1, <1>8
    <3> QED
      BY <1>2, <3>1, <3>2 DEF PollRecord
  <2>2. /\ job' \in JobRecord
        /\ job'.stage = job.stage /\ job'.state = "ACTIVE" /\ job'.snapshotValid
        /\ job'.deadline = job.deadline /\ job'.originAfter = job.originAfter
        /\ job'.index = job.index + 1 /\ job'.written = job.written
        /\ job'.conversionStart = job.conversionStart
    <3>1. job' = [job EXCEPT !.index = job.index + 1]
      BY <1>1, <1>8
    <3>2. job.index + 1 \in 0 .. ChannelReads - 1
      <4>1. job.index \in 0 .. ChannelReads - 1
        BY <1>2 DEF JobRecord
      <4> QED
        BY <1>8, <4>1
    <3> QED
      BY <1>2, <3>1, <3>2 DEF JobRecord
  <2>3. TypeOK'
    BY <1>1, <1>4, <1>5, <1>6, <2>1, <2>2
       DEF TypeOK, JobRecord, PollRecord, DeviceRecord, HistoryRecord, Effect
  <2>4. PollFits'
    <3>1. poll.now * TicksPerMs <= clock /\ poll.now < poll.deadline
      BY <1>1 DEF SampleIInv, SampleInv, PollFits
    <3>2. poll.now \in Nat /\ poll.now * TicksPerMs \in Nat
      <4>1. poll.now \in Nat
        BY <1>2 DEF PollRecord
      <4> QED
        BY <4>1
    <3>3. poll'.now * TicksPerMs <= clock'
      BY <1>2, <1>4, <2>1, <3>1, <3>2
    <3> QED
      BY <1>1, <1>4, <2>1, <2>2, <3>1, <3>3 DEF PollFits
  <2>5. StageIsTold' /\ RecheckIsAwaited' /\ AdmittedTriggerHasTime'
    BY <1>1, <1>5, <1>6, <2>2 DEF StageIsTold, RecheckIsAwaited, AdmittedTriggerHasTime
  <2>6. PromptPollsHaveTime'
    <3>1. history.prompt =>
            poll.deadline = job.deadline /\ poll.left <= 1 /\ poll.timeout > 0
      BY <1>1 DEF SampleIInv, SampleInv, PromptPollsHaveTime
    <3>2. poll.left \in Nat
      BY <1>2 DEF PollRecord
    <3> QED
      BY <1>6, <2>1, <2>2, <3>1, <3>2 DEF PromptPollsHaveTime
  <2>7. StartIsLatched'
    <3>1. /\ device.triggeredAt <= clock
          /\ device.triggeredAt < (poll.now + 1) * TicksPerMs
          /\ device.triggeredAt < (job.conversionStart + 1) * TicksPerMs
          /\ (job.conversionStart + WaitMs) * TicksPerMs <= history.firstMask
      BY <1>1, <1>2 DEF SampleIInv, SampleInv, StartIsLatched
    <3>2. device.triggeredAt <= clock'
      <4>1. device.triggeredAt \in Nat
        BY <1>2 DEF DeviceRecord
      <4> QED
        BY <1>2, <1>4, <3>1, <4>1
    <3> QED
      BY <1>1, <1>5, <1>6, <2>1, <2>2, <3>1, <3>2 DEF StartIsLatched
  <2>8. TimeIsUsedAsAdmitted'
    <3> SUFFICES ASSUME history.prompt, ~history.low, job.written
                 PROVE  /\ job.originAfter + 1 + WaitMs + (2 + ChannelReads) * Timeout
                             <= job.deadline
                        /\ clock' <= (job.originAfter + WaitMs
                                       + (2 + (job.index + 1)) * Timeout) * TicksPerMs
      BY <1>1, <1>6, <2>2 DEF TimeIsUsedAsAdmitted
    <3>1. /\ job.originAfter + 1 + WaitMs + (2 + ChannelReads) * Timeout <= job.deadline
          /\ clock <= (job.originAfter + WaitMs + (2 + job.index) * Timeout) * TicksPerMs
      BY <1>1, <1>2 DEF SampleIInv, SampleInv, TimeIsUsedAsAdmitted
    <3> DEFINE m == job.originAfter + WaitMs + (2 + job.index) * Timeout
               n == job.originAfter + WaitMs + (2 + (job.index + 1)) * Timeout
    <3>2. m \in Nat /\ n \in Nat /\ n = m + Timeout
      <4>1. job.originAfter \in Nat /\ job.index \in Nat /\ Timeout \in Nat
        BY <1>2 DEF JobRecord
      <4>2. (2 + (job.index + 1)) * Timeout = (2 + job.index) * Timeout + Timeout
            /\ (2 + job.index) * Timeout \in Nat
        BY <4>1
      <4> QED
        BY <4>1, <4>2
    <3>3. clock <= m * TicksPerMs
      BY <3>1
    <3> HIDE DEF m, n
    <3>4. n * TicksPerMs = m * TicksPerMs + Timeout * TicksPerMs
          /\ m * TicksPerMs \in Nat /\ Timeout * TicksPerMs \in Nat
      <4>1. Timeout \in Nat
        OBVIOUS
      <4> QED
        BY <3>2, <4>1, TicksAdd
    <3>5. clock' <= n * TicksPerMs
      BY <1>2, <1>4, <3>3, <3>4
    <3> QED
      BY <3>1, <3>5 DEF n
  <2> QED
    BY <2>3, <2>4, <2>5, <2>6, <2>7, <2>8 DEF SampleIInv, SampleInv
<1> QED
  BY <1>7, <1>8

-----------------------------------------------------------------------------
(* Every step keeps the invariant *)

(* Each step of the job keeps the invariant. *)
LEMMA IInvStep == SampleIInv /\ [Next]_vars => SampleIInv'
<1> SUFFICES ASSUME SampleIInv, [Next]_vars PROVE SampleIInv'
  OBVIOUS
<1>1. ASSUME NEW t \in Deadlines, Start(t) PROVE SampleIInv'
  BY <1>1, StartKeepsIInv
<1>2. CASE RefuseTrigger
  BY <1>2, EndStepsKeepIInv
<1>3. ASSUME NEW d \in CallbackTicks, NEW slow \in BOOLEAN, Trigger(d, slow)
      PROVE  SampleIInv'
  BY <1>3, TriggerKeepsIInv
<1>4. CASE \E d \in CallbackTicks, ambiguous \in BOOLEAN : TriggerFails(d, ambiguous)
  BY <1>4, EndStepsKeepIInv
<1>5. CASE WaitOrigin
  BY <1>5, WaitOriginKeepsIInv
<1>6. CASE ReturnInProgress
  BY <1>6, ReturningKeepsIInv DEF ReturnInProgress
<1>7. CASE WaitOver
  BY <1>7, WaitOverKeepsIInv
<1>8. CASE NoTimeForTransfer
  BY <1>8, EndStepsKeepIInv
<1>9. ASSUME NEW d \in CallbackTicks, NEW cvrf \in BOOLEAN, ReadMask(d, cvrf)
      PROVE  SampleIInv'
  <2>1. CASE cvrf = TRUE
    BY <1>9, <2>1, GoOnKeepsIInv
  <2>2. CASE cvrf = FALSE
    BY <1>9, <2>2, WaitAgainKeepsIInv
  <2> QED
    BY <2>1, <2>2
<1>10. ASSUME NEW d \in CallbackTicks, NEW converted \in BOOLEAN, ReadChannel(d, converted)
       PROVE  SampleIInv'
  BY <1>10, ReadChannelKeepsIInv
<1>11. CASE \E d \in CallbackTicks : ReadFails(d)
  BY <1>11, EndStepsKeepIInv
<1>12. ASSUME NEW t \in PollDeadlines, NEW b \in Budgets, BeginPoll(t, b)
       PROVE  SampleIInv'
  BY <1>12, BeginKeepsIInv
<1>13. CASE CancelJob
  BY <1>13, EndStepsKeepIInv
<1>14. CASE TakeJobResult
  BY <1>14, TakeKeepsIInv
<1>15. CASE Tick
  BY <1>15, TickKeepsIInv
<1>16. CASE UNCHANGED vars
  BY <1>16 DEF vars, SampleIInv, SampleInv, TypeOK, PollFits, StageIsTold, StartIsLatched,
       PromptPollsHaveTime, TimeIsUsedAsAdmitted, RecheckIsAwaited, AdmittedTriggerHasTime
<1> QED
  BY <1>1, <1>2, <1>3, <1>4, <1>5, <1>6, <1>7, <1>8, <1>9, <1>10, <1>11, <1>12, <1>13,
     <1>14, <1>15, <1>16 DEF Next, Poll, PollStep

(* The inductive invariant, in every reachable state. *)
THEOREM SampleInvariant == Spec => []SampleIInv
<1> QED
  BY IInvInit, IInvStep, PTL DEF Spec

-----------------------------------------------------------------------------
(* What the invariant says of the properties *)

(* A delivered sample is its own, by the invariant. *)
LEMMA InvariantImpliesItsOwn == SampleIInv => SampleIsItsOwn
<1> SUFFICES ASSUME SampleIInv PROVE SampleIsItsOwn
  OBVIOUS
<1>1. SampleIsAtomic
  BY DEF SampleIsAtomic, SampleIInv, SampleInv, StageIsTold
<1>2. ASSUME job.snapshotValid
      PROVE  /\ device.triggeredAt < (job.conversionStart + 1) * TicksPerMs
             /\ (job.conversionStart + WaitMs) * TicksPerMs <= history.firstMask
  BY <1>2 DEF SampleIInv, SampleInv, StartIsLatched
<1>3. WaitIsShortByLessThanAMs
  <2> SUFFICES ASSUME job.snapshotValid
               PROVE  history.firstMask + TicksPerMs
                        > device.triggeredAt + WaitMs * TicksPerMs
    BY DEF WaitIsShortByLessThanAMs
  <2> DEFINE start == job.conversionStart
  <2>1. start \in Nat /\ WaitMs \in Nat /\ history.firstMask \in Nat /\ device.triggeredAt \in Nat
    BY TypeParts DEF SampleIInv, JobRecord, HistoryRecord, DeviceRecord
  <2>2. device.triggeredAt < (start + 1) * TicksPerMs
        /\ (start + WaitMs) * TicksPerMs <= history.firstMask
    BY <1>2
  <2> HIDE DEF start
  <2>3. /\ (start + WaitMs) * TicksPerMs = start * TicksPerMs + WaitMs * TicksPerMs
        /\ (start + 1) * TicksPerMs = start * TicksPerMs + TicksPerMs
        /\ start * TicksPerMs \in Nat /\ WaitMs * TicksPerMs \in Nat
    BY <2>1, TicksAdd
  <2> QED
    BY <2>1, <2>2, <2>3
<1>4. ReportedStartIsTheTriggers
  <2>1. job.state = "SUCCEEDED" => job.snapshotValid
    BY DEF SampleIInv, SampleInv, StageIsTold
  <2>2. device.triggeredAt \in Nat /\ (job.conversionStart + 1) * TicksPerMs \in Nat
    <3>1. device.triggeredAt \in Nat /\ job.conversionStart \in Nat
      BY TypeParts DEF SampleIInv, JobRecord, DeviceRecord
    <3> QED
      BY <3>1
  <2> QED
    BY <1>2, <2>1, <2>2 DEF ReportedStartIsTheTriggers
<1> QED
  BY <1>1, <1>3, <1>4 DEF SampleIsItsOwn

(* No step of a poll, and no time passing under it, takes it past its      *)
(* deadline.                                                               *)
LEMMA StepEndsByDeadline ==
  ASSUME SampleIInv, [Next]_vars, poll.active
  PROVE  clock' < (poll.deadline + 1) * TicksPerMs
<1>1. ASSUME NEW d \in CallbackTicks, Callback(d)
      PROVE  clock' < (poll.deadline + 1) * TicksPerMs
  BY <1>1, CallbackFits
<1>2. ASSUME clock' = clock
      PROVE  clock' < (poll.deadline + 1) * TicksPerMs
  <2>1. clock + (poll.left * poll.timeout) * TicksPerMs < (poll.deadline + 1) * TicksPerMs
    BY DEF SampleIInv, SampleInv, PollFits
  <2>2. clock \in Nat /\ poll.left * poll.timeout \in Nat /\ poll.deadline + 1 \in Nat
    <3>1. /\ poll.left \in Nat /\ poll.timeout \in Nat /\ poll.deadline \in Nat
          /\ clock \in Nat
      BY DEF SampleIInv, TypeOK
    <3> QED
      BY <3>1
  <2>3. /\ (poll.left * poll.timeout) * TicksPerMs \in Nat
        /\ (poll.deadline + 1) * TicksPerMs \in Nat
    BY <2>2
  <2> QED
    BY <1>2, <2>1, <2>2, <2>3
<1>3. \/ clock' = clock
      \/ \E d \in CallbackTicks : Callback(d)
  <2>1. ~Tick
    BY DEF Tick
  <2>2. CASE PollStep
    BY <2>2 DEF PollStep, RefuseTrigger, Trigger, TriggerFails, WaitOrigin, ReturnInProgress,
         WaitOver, NoTimeForTransfer, ReadMask, ReadChannel, ReadFails
  <2>3. CASE ~PollStep
    BY <2>1, <2>3 DEF Next, Poll, BeginPoll, Start, CancelJob, TakeJobResult, vars
  <2> QED
    BY <2>2, <2>3
<1> QED
  BY <1>1, <1>2, <1>3

(* A recheck under a prompt owner is a whole RecheckMs after the low read: *)
(* the deadline, which alone may shorten it, is not reached by a poll.     *)
LEMMA RecheckIsSteady ==
  ASSUME SampleIInv, NEW d \in CallbackTicks, NEW cvrf \in BOOLEAN, ReadMask(d, cvrf),
         history.low, history.prompt
  PROVE  poll.now >= history.lowAt + RecheckMs
<1>1. poll.active /\ job.stage = "SAMPLE_READ_MASK"
  BY DEF ReadMask, Polling
<1>2. /\ poll.now < poll.deadline /\ poll.deadline = job.deadline
      /\ job.readyAt <= poll.now
      /\ job.readyAt >= history.lowAt + RecheckMs \/ job.readyAt >= job.deadline
  BY <1>1 DEF SampleIInv, SampleInv, PollFits, PromptPollsHaveTime, StartIsLatched,
       RecheckIsAwaited
<1>3. /\ poll.now \in Nat /\ job.deadline \in Nat /\ job.readyAt \in Nat
      /\ history.lowAt \in Nat
  BY TypeParts DEF SampleIInv, PollRecord, JobRecord, HistoryRecord
<1> QED
  BY <1>2, <1>3

(* The fields of the job, the poll, the device and the history keep their  *)
(* types, however long the job runs.                                       *)
THEOREM SampleTypeCorrect == Spec => []TypeOK
<1>1. SampleIInv => TypeOK
  BY DEF SampleIInv
<1> QED
  BY <1>1, SampleInvariant, PTL

(* A delivered sample is the conversion that its job triggered: it was     *)
(* waited for, it had ended before every read of a register, and the start *)
(* that is reported is the trigger's (_stepTriggeredSample).               *)
THEOREM SampleIsOwnCorrect == Spec => []SampleIsItsOwn
<1> QED
  BY InvariantImpliesItsOwn, SampleInvariant, PTL

(* Admission against the deadline is enough: a job whose trigger was let   *)
(* through does not run out of time under a prompt owner with CVRF set.    *)
THEOREM AdmissionCorrect == Spec => []AdmittedTriggerHasTime
<1>1. SampleIInv => AdmittedTriggerHasTime
  BY DEF SampleIInv
<1> QED
  BY <1>1, SampleInvariant, PTL

(* No poll runs past its deadline: the timeouts that it gives its          *)
(* callbacks, which split the remaining time, cannot add up to more.       *)
THEOREM PollDeadlineCorrect == Spec => PollEndsByDeadline
<1>1. SampleIInv /\ [Next]_vars =>
        [poll.active => clock' < (poll.deadline + 1) * TicksPerMs]_vars
  BY StepEndsByDeadline
<1> QED
  BY <1>1, SampleInvariant, PTL DEF Spec, PollEndsByDeadline

(* A prompt owner's rechecks of CVRF keep their distance: none comes       *)
(* within RecheckMs of the read that showed CVRF low.                      *)
THEOREM RecheckCorrect == Spec => SteadyRecheckInterval
<1> DEFINE Steady == \A d \in CallbackTicks, cvrf \in BOOLEAN :
                       ReadMask(d, cvrf) /\ history.low /\ history.prompt
                         => poll.now >= history.lowAt + RecheckMs
<1>1. SampleIInv /\ [Next]_vars => [Steady]_vars
  BY RecheckIsSteady
<1> QED
  BY <1>1, SampleInvariant, PTL DEF Spec, SteadyRecheckInterval

=============================================================================
