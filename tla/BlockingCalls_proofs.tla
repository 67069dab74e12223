------------------------- MODULE BlockingCalls_proofs -------------------------
(***************************************************************************)
(* Theorems about the blocking calls for every period of the clock, every  *)
(* number of transfers and every limit of the loops.                       *)
(***************************************************************************)
EXTENDS BlockingCalls, TLAPS

-----------------------------------------------------------------------------
(* Time on a clock that wraps *)

(* The quotient and the remainder, for the provers. *)
LEMMA Division ==
  ASSUME NEW W \in Nat \ {0}, NEW a \in Nat
  PROVE  /\ a \div W \in Nat
         /\ a % W \in 0 .. W - 1
         /\ a % W = a - (a \div W) * W
<1>1. a % W = a - (a \div W) * W
  OBVIOUS
<1>2. a \div W \in Nat
  OBVIOUS
<1>3. a % W \in 0 .. W - 1
  OBVIOUS
<1> QED
  BY <1>1, <1>2, <1>3

(* Two times less than a period apart lie in the same period of the clock *)
(* or in consecutive ones.                                                 *)
LEMMA OneMultiple ==
  ASSUME NEW W \in Nat \ {0}, NEW p \in Nat, NEW q \in Nat, NEW t \in Int,
         NEW r \in 0 .. W - 1, NEW s \in 0 .. W - 1, p * W + r - (q * W + s) = t, t >= 0, t < W
  PROVE  IF r >= s THEN t = r - s ELSE t = W + r - s
<1> DEFINE k == p - q
<1>1. k \in Int /\ k * W = p * W - q * W
  OBVIOUS
<1>2. k * W = t - r + s
  BY <1>1
<1>3. k * W > -W /\ k * W < 2 * W
  BY <1>2
<1> HIDE DEF k
<1>4. k = 0 \/ k = 1
  BY <1>1, <1>3
<1> QED
  BY <1>2, <1>4

(* The wrapping difference of two readings of the clock is the true time   *)
(* between them, when that is less than a period.                          *)
LEMMA ElapsedIsTrue ==
  ASSUME NEW W \in Nat \ {0}, NEW a \in Nat, NEW b \in Nat, b <= a, a - b < W
  PROVE  (W + (a % W) - (b % W)) % W = a - b
<1> DEFINE p == a \div W
           q == b \div W
           r == a % W
           s == b % W
<1>1. /\ p \in Nat /\ q \in Nat /\ r \in 0 .. W - 1 /\ s \in 0 .. W - 1
      /\ r = a - p * W /\ s = b - q * W
  BY Division
<1>2. (p * W + r) - (q * W + s) = a - b
  BY <1>1
<1> HIDE DEF p, q, r, s
<1>3. IF r >= s THEN a - b = r - s ELSE a - b = W + r - s
  BY <1>1, <1>2, OneMultiple
<1>4. CASE r >= s
  <2>1. W + r - s = (r - s) + W /\ r - s \in 0 .. W - 1
    BY <1>1, <1>4
  <2>2. ((r - s) + W) % W = r - s
    BY <2>1
  <2>3. (W + r - s) % W = a - b
    BY <1>1, <1>3, <1>4, <2>1, <2>2
  <2> QED
    BY <2>3 DEF r, s
<1>5. CASE r < s
  <2>1. W + r - s \in 0 .. W - 1
    BY <1>1, <1>5
  <2>2. (W + r - s) % W = W + r - s
    BY <2>1
  <2>3. ~(r >= s)
    BY <1>1, <1>5
  <2>4. (W + r - s) % W = a - b
    BY <1>3, <2>2, <2>3
  <2> QED
    BY <2>4 DEF r, s
<1> QED
  BY <1>1, <1>4, <1>5

-----------------------------------------------------------------------------
(* Types *)

USE BlockingCallsAssumption

JobRecord ==
  [for : {"NOBODY", "OWNER", "CALL"}, state : State, stage : Stage, left : Nat,
   deadline : Nat \union {Never}, originAfter : Nat, readyAt : Nat, recheck : BOOLEAN]

(* The empty slot, call and history have the types of the variables. *)
LEMMA NothingTypes ==
  /\ NoJob \in JobRecord
  /\ NoCall \in [method : Method, start : 0 .. Wrap - 1, polls : 0 .. MaxPolls,
                 lastElapsed : 0 .. Wrap - 1, spins : 0 .. SpinLimit + 1]
  /\ NothingSeen \in [begun : Nat, polledAt : Nat, still : Nat, late : BOOLEAN]
  /\ NotReturned \in [state : State, still : Nat, method : Method]
<1>1. NoJob \in JobRecord
  BY DEF NoJob, JobRecord, State, Stage
<1>2. MaxPolls \in Nat /\ 0 \in 0 .. MaxPolls /\ 0 \in 0 .. Wrap - 1 /\ 0 \in 0 .. SpinLimit + 1
  BY DEF MaxPolls
<1>3. NoCall \in [method : Method, start : 0 .. Wrap - 1, polls : 0 .. MaxPolls,
                  lastElapsed : 0 .. Wrap - 1, spins : 0 .. SpinLimit + 1]
  BY <1>2 DEF NoCall, Method
<1>4. NothingSeen \in [begun : Nat, polledAt : Nat, still : Nat, late : BOOLEAN]
  BY DEF NothingSeen
<1>5. NotReturned \in [state : State, still : Nat, method : Method]
  BY DEF NotReturned, State, Method
<1> QED
  BY <1>1, <1>3, <1>4, <1>5

(* The times the loops compute with. *)
LEMMA TimeTypes ==
  ASSUME TypeOK
  PROVE  /\ nowMs \in 0 .. Wrap - 1
         /\ Elapsed \in 0 .. Wrap - 1
         /\ PollTime \in Nat
         /\ MaxPolls \in Nat
         /\ job \in JobRecord
<1>1. \A t \in Nat : t % Wrap \in 0 .. Wrap - 1
  BY Division
<1>2. nowMs \in 0 .. Wrap - 1
  BY <1>1 DEF TypeOK, nowMs
<1>3. call.start \in 0 .. Wrap - 1
  BY DEF TypeOK
<1>4. Wrap + nowMs - call.start \in Nat
  BY <1>2, <1>3
<1>5. Elapsed \in 0 .. Wrap - 1
  BY <1>1, <1>4 DEF Elapsed
<1>6. PollTime \in Nat
  BY <1>2, <1>3, <1>5 DEF PollTime
<1> QED
  BY <1>2, <1>5, <1>6 DEF MaxPolls, TypeOK, JobRecord

(* A timeout is less than half a period of the clock. *)
LEMMA TimeoutRange ==
  ASSUME NEW t \in Timeouts
  PROVE  t \in Nat /\ t >= 1 /\ t < Wrap \div 2 /\ Wrap \div 2 \in Nat
<1>1. t \in 1 .. Wrap \div 2 - 1
  OBVIOUS
<1>2. Wrap \div 2 \in Nat
  OBVIOUS
<1> QED
  BY <1>1, <1>2

(* Ending a job changes nothing but its state. *)
LEMMA EndedType ==
  ASSUME job \in JobRecord, NEW state \in State
  PROVE  /\ Ended(state) \in JobRecord
         /\ Ended(state).for = job.for /\ Ended(state).state = state
         /\ Ended(state).stage = job.stage /\ Ended(state).left = job.left
         /\ Ended(state).deadline = job.deadline
  BY DEF Ended, JobRecord

(* A poll without a transfer times the job out, or moves it on in its wait. *)
LEMMA SilentlyLeaves ==
  ASSUME job \in JobRecord, job.deadline # Never, NEW t \in Nat, NEW left \in SilentlyPolled(t)
  PROVE  /\ left \in JobRecord
         /\ left.for = job.for /\ left.left = job.left /\ left.deadline = job.deadline
         /\ left.state \in {job.state, "TIMED_OUT"}
         /\ left.state # "TIMED_OUT" => ~Expired(t) /\ job.stage \in {"ORIGIN", "WAIT"}
         /\ left.stage \in {job.stage, "WAIT"}
<1> DEFINE Good(x) ==
         /\ x \in JobRecord
         /\ x.for = job.for /\ x.left = job.left /\ x.deadline = job.deadline
         /\ x.state \in {job.state, "TIMED_OUT"}
         /\ x.stage \in {job.stage, "WAIT"}
<1>1. job.deadline \in Nat /\ job.state \in State
  BY DEF JobRecord
<1>2. Good(Ended("TIMED_OUT")) /\ Ended("TIMED_OUT").state = "TIMED_OUT"
  BY EndedType DEF State
<1>3. Good(job)
  OBVIOUS
<1>4. \A w \in Nat : Good([job EXCEPT !.stage = "WAIT", !.readyAt = w])
  BY DEF JobRecord, Stage
<1>5. t + WaitMs \in Nat /\ t + RecheckMs \in Nat
  OBVIOUS
<1> HIDE DEF Good
<1>6. Good(OriginPassed(t))
  <2> DEFINE end == t + (IF job.recheck THEN RecheckMs ELSE WaitMs)
  <2>1. end \in Nat
    BY <1>5
  <2>2. \/ OriginPassed(t) = [job EXCEPT !.stage = "WAIT", !.readyAt = end]
        \/ OriginPassed(t) = [job EXCEPT !.stage = "WAIT", !.readyAt = job.deadline]
        \/ OriginPassed(t) = Ended("TIMED_OUT")
    BY Zenon DEF OriginPassed
  <2> HIDE DEF end
  <2> QED
    BY <1>1, <1>2, <1>4, <2>1, <2>2, Zenon
<1>7. CASE Expired(t)
  <2>1. left = Ended("TIMED_OUT")
    BY <1>7 DEF SilentlyPolled
  <2> QED
    BY <1>2, <2>1 DEF Good
<1>8. CASE ~Expired(t) /\ job.stage = "TRIGGER"
  <2>1. left = Ended("TIMED_OUT")
    BY <1>8 DEF SilentlyPolled
  <2> QED
    BY <1>2, <2>1 DEF Good
<1>9. CASE ~Expired(t) /\ job.stage = "ORIGIN"
  <2>1. left = IF t <= job.originAfter THEN job ELSE OriginPassed(t)
    BY <1>9 DEF SilentlyPolled
  <2>2. Good(left)
    BY <1>3, <1>6, <2>1
  <2> QED
    BY <1>9, <2>2 DEF Good
<1>10. CASE ~Expired(t) /\ job.stage = "WAIT"
  <2>1. left = job
    BY <1>10 DEF SilentlyPolled
  <2> QED
    BY <1>3, <1>10, <2>1 DEF Good
<1>11. CASE ~Expired(t) /\ job.stage \notin {"TRIGGER", "ORIGIN", "WAIT"}
  <2>1. SilentlyPolled(t) = {}
    BY <1>11 DEF SilentlyPolled
  <2> QED
    BY <2>1
<1> QED
  BY <1>7, <1>8, <1>9, <1>10, <1>11

(* A transfer is made before the deadline, and not at the wait's origin. *)
LEMMA TransferNeedsTime ==
  ASSUME job \in JobRecord, NEW t \in Nat, SilentlyPolled(t) = {}
  PROVE  ~Expired(t) /\ job.stage # "ORIGIN"
<1>1. CASE Expired(t)
  <2>1. SilentlyPolled(t) = {Ended("TIMED_OUT")}
    BY <1>1 DEF SilentlyPolled
  <2> QED
    BY <2>1
<1>2. CASE ~Expired(t) /\ job.stage = "ORIGIN"
  <2>1. SilentlyPolled(t) = {IF t <= job.originAfter THEN job ELSE OriginPassed(t)}
    BY <1>2 DEF SilentlyPolled
  <2> QED
    BY <2>1
<1> QED
  BY <1>1, <1>2

(* A transfer ends the job or takes it one stage or one transfer further. *)
LEMMA TransferLeaves ==
  ASSUME job \in JobRecord, job.left >= 1, NEW t \in Nat, NEW left \in TransferPolled(t),
         job.stage \in {"TRIGGER", "WAIT", "CHANNELS", "PROFILE"}
  PROVE  /\ left \in JobRecord
         /\ left.for = job.for /\ left.deadline = job.deadline
         /\ left.state \in {job.state, "FAILED", "SUCCEEDED"}
         /\ left.state \notin {"FAILED", "SUCCEEDED"} =>
              /\ left.left >= 1
              /\ job.stage = "PROFILE" => left.left = job.left - 1 /\ left.stage = "PROFILE"
              /\ job.stage = "CHANNELS" => left.stage = "CHANNELS"
              /\ job.stage # "PROFILE" => left.stage \in {"ORIGIN", "CHANNELS"}
<1>1. Ended("FAILED") \in JobRecord /\ Ended("SUCCEEDED") \in JobRecord
  BY EndedType DEF State
<1>2. TransferDone = Ended("SUCCEEDED") \/
        /\ TransferDone = [job EXCEPT !.left = @ - 1]
        /\ job.left - 1 \in Nat /\ job.left - 1 >= 1
  BY DEF TransferDone, JobRecord
<1>3. /\ AtOrigin(t, FALSE) = [job EXCEPT !.stage = "ORIGIN", !.originAfter = t, !.recheck = FALSE]
      /\ AtOrigin(t, TRUE) = [job EXCEPT !.stage = "ORIGIN", !.originAfter = t, !.recheck = TRUE]
  BY DEF AtOrigin
<1>4. CASE left = Ended("FAILED") \/ left = Ended("SUCCEEDED")
  BY <1>4, EndedType DEF State
<1>5. CASE job.stage = "TRIGGER" /\ left = AtOrigin(t, FALSE)
  <2>1. left \in JobRecord /\ left.for = job.for /\ left.deadline = job.deadline
        /\ left.state = job.state /\ left.left = job.left /\ left.stage = "ORIGIN"
    BY <1>3, <1>5 DEF JobRecord, Stage
  <2> QED
    BY <1>5, <2>1
<1>6. CASE job.stage = "WAIT" /\ left = AtOrigin(t, TRUE)
  <2>1. left \in JobRecord /\ left.for = job.for /\ left.deadline = job.deadline
        /\ left.state = job.state /\ left.left = job.left /\ left.stage = "ORIGIN"
    BY <1>3, <1>6 DEF JobRecord, Stage
  <2> QED
    BY <1>6, <2>1
<1>7. CASE job.stage = "WAIT" /\ left = [job EXCEPT !.stage = "CHANNELS"]
  <2>1. left \in JobRecord /\ left.for = job.for /\ left.deadline = job.deadline
        /\ left.state = job.state /\ left.left = job.left /\ left.stage = "CHANNELS"
    BY <1>7 DEF JobRecord, Stage
  <2> QED
    BY <1>7, <2>1
<1>8. CASE job.stage \in {"CHANNELS", "PROFILE"} /\ left = [job EXCEPT !.left = @ - 1]
           /\ job.left - 1 \in Nat /\ job.left - 1 >= 1
  <2>1. left \in JobRecord /\ left.for = job.for /\ left.deadline = job.deadline
        /\ left.state = job.state /\ left.left = job.left - 1 /\ left.stage = job.stage
    BY <1>8 DEF JobRecord
  <2> QED
    BY <1>8, <2>1
<1> QED
  BY <1>2, <1>4, <1>5, <1>6, <1>7, <1>8 DEF TransferPolled

CallRecord ==
  [method : Method, start : 0 .. Wrap - 1, polls : 0 .. MaxPolls,
   lastElapsed : 0 .. Wrap - 1, spins : 0 .. SpinLimit + 1]
SeenRecord == [begun : Nat, polledAt : Nat, still : Nat, late : BOOLEAN]

(* What a poll makes of the locals of the loop and of what was seen. *)
LEMMA PollFields ==
  ASSUME TypeOK, ~GaveUp, NEW left \in JobRecord, NEW transferred \in BOOLEAN,
         PollLeaves(left, transferred)
  PROVE  /\ job' = left /\ hasResult' = (left.state # "ACTIVE") /\ hasResult' \in BOOLEAN
         /\ call'.method = call.method /\ call'.start = call.start
         /\ call.method = "SAMPLE" =>
              /\ call'.lastElapsed = Elapsed
              /\ call'.spins = IF Elapsed # call.lastElapsed \/ transferred
                               THEN 0 ELSE call.spins + 1
         /\ call.method = "DRIVE" => call'.polls = call.polls + 1
         /\ call' \in CallRecord
         /\ call.method \in {"SAMPLE", "DRIVE"}
<1>1. call \in CallRecord
  BY DEF TypeOK, CallRecord
<1>2. job' = left /\ hasResult' = (left.state # "ACTIVE")
  BY DEF PollLeaves
<1>3. (left.state # "ACTIVE") \in BOOLEAN
  OBVIOUS
<1>4. Elapsed \in 0 .. Wrap - 1 /\ MaxPolls \in Nat
  BY TimeTypes
<1>5. CASE call.method = "SAMPLE" /\ AfterSamplePoll(Elapsed, transferred)
  <2> DEFINE spins == IF Elapsed # call.lastElapsed \/ transferred THEN 0 ELSE call.spins + 1
  <2>1. call' = [call EXCEPT !.lastElapsed = Elapsed, !.spins = spins]
    BY <1>5, Zenon DEF AfterSamplePoll, Spins
  <2>2. spins \in 0 .. SpinLimit + 1
    BY <1>1, <1>5 DEF GaveUp, CallRecord
  <2> HIDE DEF spins
  <2>3. /\ call'.method = call.method /\ call'.start = call.start
        /\ call'.lastElapsed = Elapsed /\ call'.spins = spins
        /\ call' \in CallRecord
    BY <1>1, <1>4, <2>1, <2>2 DEF CallRecord
  <2> QED
    BY <1>2, <1>3, <1>5, <2>3 DEF spins
<1>6. CASE call.method = "DRIVE" /\ AfterDrivePoll
  <2>1. call' = [call EXCEPT !.polls = @ + 1]
    BY <1>6 DEF AfterDrivePoll
  <2>2. call.polls + 1 \in 0 .. MaxPolls
    BY <1>1, <1>4, <1>6 DEF GaveUp, CallRecord
  <2>3. /\ call'.method = call.method /\ call'.start = call.start
        /\ call'.polls = call.polls + 1
        /\ call' \in CallRecord
    BY <1>1, <2>1, <2>2 DEF CallRecord
  <2> QED
    BY <1>2, <1>3, <1>6, <2>3
<1> QED
  BY <1>5, <1>6 DEF PollLeaves

(* What a poll leaves in the ghost variables. *)
LEMMA PollSeen ==
  ASSUME TypeOK, NEW left, NEW transferred \in BOOLEAN, PollLeaves(left, transferred)
  PROVE  /\ seen'.begun = seen.begun /\ seen'.polledAt = clock
         /\ seen'.still = IF transferred \/ clock # seen.polledAt THEN 0
                          ELSE IF seen.still > SpinLimit THEN seen.still ELSE seen.still + 1
         /\ seen'.late => \/ seen.late
                          \/ hook /\ transferred /\ call.method = "SAMPLE"
                               /\ clock - seen.begun >= job.deadline - call.start
         /\ seen' \in SeenRecord
         /\ UNCHANGED <<hook, returned>>
<1> DEFINE still == IF transferred \/ clock # seen.polledAt THEN 0
                    ELSE IF seen.still > SpinLimit THEN seen.still ELSE seen.still + 1
           over == hook /\ transferred /\ call.method = "SAMPLE"
                     /\ clock - seen.begun >= job.deadline - call.start
           late == seen.late \/ over
<1>1. seen \in SeenRecord /\ clock \in Nat
  BY DEF TypeOK, SeenRecord
<1>2. seen' = [seen EXCEPT !.polledAt = clock, !.still = still, !.late = late]
  BY <1>1, Zenon DEF PollLeaves, SeenRecord
<1>3. still \in Nat
  BY <1>1 DEF SeenRecord
<1>4. late \in BOOLEAN
  BY <1>1 DEF SeenRecord
<1> HIDE DEF late, still
<1>5. /\ seen'.begun = seen.begun /\ seen'.polledAt = clock /\ seen'.still = still
      /\ seen'.late = late
      /\ seen' \in SeenRecord
  BY <1>1, <1>2, <1>3, <1>4 DEF SeenRecord
<1>6. UNCHANGED <<hook, returned>>
  BY DEF PollLeaves
<1>7. late => seen.late \/ over
  BY DEF late
<1> HIDE DEF over
<1>8. seen'.late => seen.late \/ over
  BY <1>5, <1>7, Zenon
<1> QED
  BY <1>5, <1>6, <1>8 DEF still, over

-----------------------------------------------------------------------------
(* The polls *)

BlockingIInv == TypeOK /\ BlockingInv /\ GivenUpOnlyWhenStalled /\ NoLateTransfer

(* A driven job is never polled without a transfer. *)
LEMMA SilentIsOfSample ==
  ASSUME BlockingIInv, LoopGoesOn, SilentlyPolled(PollTime) # {}
  PROVE  /\ call.method = "SAMPLE" /\ job.deadline # Never
         /\ ~Expired(PollTime) => hook
<1>1. call.method \in {"SAMPLE", "DRIVE"} /\ Running
  BY DEF LoopGoesOn, BlockingIInv, TypeOK, Method, Running
<1>2. call.method # "DRIVE"
  <2> SUFFICES ASSUME call.method = "DRIVE" PROVE FALSE
    OBVIOUS
  <2>1. job.stage = "PROFILE" /\ job.deadline = Never
    BY <1>1 DEF BlockingIInv, BlockingInv, JobIsTheCalls
  <2>2. ~Expired(PollTime)
    BY <2>1 DEF Expired
  <2>3. SilentlyPolled(PollTime) = {}
    BY <2>1, <2>2 DEF SilentlyPolled
  <2> QED
    BY <2>3
<1>3. call.method = "SAMPLE"
  BY <1>1, <1>2
<1>4. job.deadline # Never /\ (~hook => job.stage = "CHANNELS")
  BY <1>1, <1>3 DEF BlockingIInv, BlockingInv, JobIsTheCalls
<1>5. ASSUME ~Expired(PollTime), ~hook
      PROVE  FALSE
  <2>1. SilentlyPolled(PollTime) = {}
    BY <1>4, <1>5 DEF SilentlyPolled
  <2> QED
    BY <2>1
<1> QED
  BY <1>3, <1>4, <1>5

(* What a sample call takes for the time since it began is that time.      *)
LEMMA SampleTime ==
  ASSUME BlockingIInv, LoopGoesOn, call.method = "SAMPLE", hook
  PROVE  /\ Elapsed = clock - seen.begun
         /\ PollTime = call.start + (clock - seen.begun)
         /\ seen.begun <= clock
         /\ job.deadline \in Nat
         /\ ~Expired(PollTime) => clock - seen.begun < job.deadline - call.start
         /\ Elapsed = call.lastElapsed => clock = seen.polledAt
<1>1. /\ call.start = seen.begun % Wrap
      /\ seen.begun <= seen.polledAt /\ seen.polledAt <= clock
      /\ clock - seen.polledAt < Wrap \div 2
      /\ seen.polledAt - seen.begun < job.deadline - call.start
      /\ call.lastElapsed = seen.polledAt - seen.begun
  BY DEF BlockingIInv, BlockingInv, ClockIsFollowed, LoopGoesOn, Running
<1>2. /\ clock \in Nat /\ seen.begun \in Nat /\ seen.polledAt \in Nat
      /\ call.start \in Nat /\ job.deadline \in Nat
      /\ job.deadline - call.start <= (Wrap \div 2) - 1
  BY DEF BlockingIInv, BlockingInv, TypeOK, JobIsTheCalls, LoopGoesOn, Running
<1>3. Wrap \div 2 \in Nat /\ (Wrap \div 2) + (Wrap \div 2) <= Wrap
  OBVIOUS
<1>4. clock - seen.begun < Wrap /\ seen.begun <= clock
  BY <1>1, <1>2, <1>3
<1>5. (Wrap + (clock % Wrap) - (seen.begun % Wrap)) % Wrap = clock - seen.begun
  BY <1>2, <1>4, ElapsedIsTrue
<1>6. Elapsed = clock - seen.begun
  BY <1>1, <1>5, Zenon DEF Elapsed, nowMs
<1>7. PollTime = call.start + (clock - seen.begun)
  BY <1>6 DEF PollTime
<1>8. ~Expired(PollTime) => clock - seen.begun < job.deadline - call.start
  BY <1>2, <1>4, <1>7 DEF Expired
<1> QED
  BY <1>1, <1>2, <1>4, <1>6, <1>7, <1>8

(* A poll without one keeps it too: spins are counted only while the clock  *)
(* stands still.                                                            *)
LEMMA SilentKeepsIInv ==
  ASSUME BlockingIInv, PollSilent
  PROVE  BlockingIInv'
<1>1. PICK left \in SilentlyPolled(PollTime) : PollLeaves(left, FALSE)
  BY DEF PollSilent
<1>2. LoopGoesOn /\ ~GaveUp /\ clock' = clock /\ TypeOK
  BY DEF PollSilent, LoopGoesOn, BlockingIInv
<1>3. /\ call.method = "SAMPLE" /\ job.deadline # Never /\ job \in JobRecord
      /\ ~Expired(PollTime) => hook
      /\ PollTime \in Nat
  BY <1>1, <1>2, SilentIsOfSample, TimeTypes
<1>4. /\ left \in JobRecord
      /\ left.for = job.for /\ left.left = job.left /\ left.deadline = job.deadline
      /\ left.state \in {job.state, "TIMED_OUT"}
      /\ left.state # "TIMED_OUT" => ~Expired(PollTime) /\ job.stage \in {"ORIGIN", "WAIT"}
      /\ left.stage \in {job.stage, "WAIT"}
  BY <1>1, <1>3, SilentlyLeaves
<1>5. /\ job' = left /\ hasResult' = (left.state # "ACTIVE") /\ hasResult' \in BOOLEAN
      /\ call'.method = "SAMPLE" /\ call'.start = call.start
      /\ call'.lastElapsed = Elapsed
      /\ call'.spins = IF Elapsed # call.lastElapsed THEN 0 ELSE call.spins + 1
      /\ call' \in CallRecord
  BY <1>1, <1>2, <1>3, <1>4, PollFields
<1>6. /\ seen'.begun = seen.begun /\ seen'.polledAt = clock
      /\ seen'.still = IF clock # seen.polledAt THEN 0
                       ELSE IF seen.still > SpinLimit THEN seen.still ELSE seen.still + 1
      /\ seen'.late => seen.late
      /\ seen' \in SeenRecord
      /\ hook' = hook /\ returned' = returned
  BY <1>1, <1>2, PollSeen
<1>7. TypeOK'
  BY <1>2, <1>4, <1>5, <1>6 DEF TypeOK, JobRecord, CallRecord, SeenRecord
<1>8. Running /\ job.for = "CALL" /\ job.state = "ACTIVE"
  BY <1>2, <1>3 DEF LoopGoesOn, Running, BlockingIInv, BlockingInv, SlotIsAttributed
<1>9. SlotIsAttributed'
  BY <1>4, <1>5, <1>8 DEF SlotIsAttributed
<1>10. CancelledIsStalled'
  BY <1>4, <1>5, <1>8 DEF CancelledIsStalled
<1>11. GivenUpOnlyWhenStalled' /\ NoLateTransfer'
  BY <1>6 DEF BlockingIInv, GivenUpOnlyWhenStalled, NoLateTransfer
<1>12. ASSUME Running'
       PROVE  /\ hook /\ left.state = "ACTIVE" /\ job.stage \in {"ORIGIN", "WAIT"}
              /\ ~Expired(PollTime)
  BY <1>3, <1>4, <1>5, <1>8, <1>12 DEF Running
<1>13. JobIsTheCalls'
  <2> SUFFICES ASSUME Running'
               PROVE  /\ left.left >= 1
                      /\ left.stage \in {"TRIGGER", "ORIGIN", "WAIT", "CHANNELS"}
                      /\ left.deadline # Never /\ left.deadline - call.start \in Timeouts
                      /\ hook
    BY <1>5, <1>6 DEF JobIsTheCalls
  <2>1. job.left >= 1 /\ job.deadline - call.start \in Timeouts
    BY <1>3, <1>8 DEF BlockingIInv, BlockingInv, JobIsTheCalls
  <2> QED
    BY <1>3, <1>4, <1>12, <2>1
<1>14. ClockIsFollowed'
  <2> SUFFICES ASSUME Running'
               PROVE  /\ call'.start = seen'.begun % Wrap
                      /\ seen'.begun <= seen'.polledAt /\ seen'.polledAt <= clock'
                      /\ clock' - seen'.polledAt < Wrap \div 2
                      /\ seen'.polledAt - seen'.begun < job'.deadline - call'.start
                      /\ call'.lastElapsed = seen'.polledAt - seen'.begun
                      /\ call'.spins <= seen'.still
    BY DEF ClockIsFollowed
  <2>1. hook /\ ~Expired(PollTime)
    BY <1>12
  <2>2. /\ Elapsed = clock - seen.begun /\ seen.begun <= clock
        /\ clock - seen.begun < job.deadline - call.start
        /\ Elapsed = call.lastElapsed => clock = seen.polledAt
    BY <1>2, <1>3, <2>1, SampleTime
  <2>3. /\ call.start = seen.begun % Wrap /\ call.spins <= seen.still
        /\ clock - seen.polledAt < Wrap \div 2 /\ seen.polledAt <= clock
    BY <1>3, <1>8, <2>1 DEF BlockingIInv, BlockingInv, ClockIsFollowed
  <2>4. clock \in Nat /\ seen.still \in Nat /\ call.spins <= SpinLimit /\ call.spins \in Nat
    BY <1>2, <1>3 DEF TypeOK, GaveUp
  <2>5. call'.spins <= seen'.still
    BY <1>5, <1>6, <2>2, <2>3, <2>4
  <2>6. seen.polledAt \in Nat
    BY <1>2 DEF TypeOK
  <2>7. 0 < Wrap \div 2
    BY <2>3, <2>4, <2>6
  <2> QED
    BY <1>2, <1>4, <1>5, <1>6, <2>2, <2>3, <2>4, <2>5, <2>7
<1> QED
  BY <1>7, <1>9, <1>10, <1>11, <1>13, <1>14 DEF BlockingIInv, BlockingInv

(* A poll with a transfer keeps the invariant: it begins in time, and a     *)
(* driven job has one transfer fewer to make.                               *)
LEMMA TransferKeepsIInv ==
  ASSUME BlockingIInv, NEW d \in 0 .. TimeoutMs, PollTransfer(d)
  PROVE  BlockingIInv'
<1>1. PICK left \in TransferPolled(PollTime) : PollLeaves(left, TRUE)
  BY DEF PollTransfer
<1>2. /\ LoopGoesOn /\ ~GaveUp /\ clock' = clock + d /\ TypeOK
      /\ SilentlyPolled(PollTime) = {}
      /\ job.deadline # Never => PollTime + d <= job.deadline
  BY DEF PollTransfer, LoopGoesOn, BlockingIInv
<1>3. job \in JobRecord /\ PollTime \in Nat
  BY <1>2, TimeTypes
<1>4. /\ Running /\ job.for = "CALL" /\ job.state = "ACTIVE"
      /\ call.method \in {"SAMPLE", "DRIVE"}
  BY <1>2 DEF LoopGoesOn, Running, BlockingIInv, BlockingInv, SlotIsAttributed, TypeOK, Method
<1>5. /\ job.left >= 1
      /\ call.method = "DRIVE" =>
           /\ job.stage = "PROFILE" /\ job.deadline = Never
           /\ call.polls + job.left <= JobTransfers
      /\ call.method = "SAMPLE" =>
           /\ job.stage \in {"TRIGGER", "ORIGIN", "WAIT", "CHANNELS"}
           /\ job.deadline # Never /\ job.deadline - call.start \in Timeouts
           /\ ~hook => job.stage = "CHANNELS" /\ call.start = 0 /\ call.spins = 0
  BY <1>4 DEF BlockingIInv, BlockingInv, JobIsTheCalls
<1>6. ~Expired(PollTime) /\ job.stage # "ORIGIN"
  BY <1>2, <1>3, TransferNeedsTime
<1>7. /\ left \in JobRecord
      /\ left.for = job.for /\ left.deadline = job.deadline
      /\ left.state \in {job.state, "FAILED", "SUCCEEDED"}
      /\ left.state \notin {"FAILED", "SUCCEEDED"} =>
           /\ left.left >= 1
           /\ job.stage = "PROFILE" => left.left = job.left - 1 /\ left.stage = "PROFILE"
           /\ job.stage = "CHANNELS" => left.stage = "CHANNELS"
           /\ job.stage # "PROFILE" => left.stage \in {"ORIGIN", "CHANNELS"}
  <2>1. job.stage \in {"TRIGGER", "WAIT", "CHANNELS", "PROFILE"}
    BY <1>4, <1>5, <1>6
  <2> QED
    BY <1>1, <1>3, <1>5, <2>1, TransferLeaves
<1>8. /\ job' = left /\ hasResult' = (left.state # "ACTIVE") /\ hasResult' \in BOOLEAN
      /\ call'.method = call.method /\ call'.start = call.start
      /\ call.method = "SAMPLE" => call'.lastElapsed = Elapsed /\ call'.spins = 0
      /\ call.method = "DRIVE" => call'.polls = call.polls + 1
      /\ call' \in CallRecord
  BY <1>1, <1>2, <1>7, PollFields
<1>9. /\ seen'.begun = seen.begun /\ seen'.polledAt = clock /\ seen'.still = 0
      /\ seen'.late => \/ seen.late
                       \/ hook /\ call.method = "SAMPLE"
                            /\ clock - seen.begun >= job.deadline - call.start
      /\ seen' \in SeenRecord
      /\ hook' = hook /\ returned' = returned
  BY <1>1, <1>2, PollSeen
<1>10. clock' \in Nat
  BY <1>2 DEF TypeOK
<1>11. TypeOK'
  BY <1>2, <1>7, <1>8, <1>9, <1>10 DEF TypeOK, JobRecord, CallRecord, SeenRecord
<1>12. SlotIsAttributed'
  BY <1>4, <1>7, <1>8 DEF SlotIsAttributed
<1>13. CancelledIsStalled'
  BY <1>4, <1>7, <1>8 DEF CancelledIsStalled
<1>14. GivenUpOnlyWhenStalled'
  BY <1>9 DEF BlockingIInv, GivenUpOnlyWhenStalled
<1>15. ASSUME call.method = "SAMPLE", hook
       PROVE  /\ Elapsed = clock - seen.begun
              /\ PollTime = call.start + (clock - seen.begun)
              /\ seen.begun <= clock /\ job.deadline \in Nat
              /\ clock - seen.begun < job.deadline - call.start
  BY <1>2, <1>6, <1>15, SampleTime
<1>16. clock \in Nat /\ seen.begun \in Nat /\ call.start \in Nat /\ call.polls \in Nat
       /\ job.left \in Nat
  BY <1>2 DEF TypeOK
<1>17. NoLateTransfer'
  <2>1. ~(hook /\ call.method = "SAMPLE" /\ clock - seen.begun >= job.deadline - call.start)
    BY <1>15, <1>16
  <2> QED
    BY <1>9, <2>1 DEF BlockingIInv, NoLateTransfer
<1>18. Running' => left.state \notin {"FAILED", "SUCCEEDED"}
  BY <1>7, <1>8 DEF Running
<1>19. JobIsTheCalls'
  <2> SUFFICES ASSUME Running'
               PROVE  /\ left.left >= 1
                      /\ call.method = "DRIVE" =>
                           /\ left.stage = "PROFILE" /\ left.deadline = Never
                           /\ call'.polls + left.left <= JobTransfers
                      /\ call.method = "SAMPLE" =>
                           /\ left.stage \in {"TRIGGER", "ORIGIN", "WAIT", "CHANNELS"}
                           /\ left.deadline # Never /\ left.deadline - call.start \in Timeouts
                           /\ ~hook => left.stage = "CHANNELS" /\ call.start = 0 /\ call'.spins = 0
    BY <1>8, <1>9 DEF JobIsTheCalls
  <2>1. CASE call.method = "DRIVE"
    <3>1. left.left = job.left - 1 /\ left.stage = "PROFILE" /\ left.left >= 1
      BY <1>5, <1>7, <1>18, <2>1
    <3> QED
      BY <1>5, <1>7, <1>8, <1>16, <2>1, <3>1
  <2>2. CASE call.method = "SAMPLE"
    BY <1>5, <1>7, <1>8, <1>18, <2>2
  <2> QED
    BY <1>4, <2>1, <2>2
<1>20. ClockIsFollowed'
  <2> SUFFICES ASSUME call.method = "SAMPLE", hook
               PROVE  /\ call'.start = seen'.begun % Wrap
                      /\ seen'.begun <= seen'.polledAt /\ seen'.polledAt <= clock'
                      /\ clock' - seen'.polledAt < Wrap \div 2
                      /\ seen'.polledAt - seen'.begun < job'.deadline - call'.start
                      /\ call'.lastElapsed = seen'.polledAt - seen'.begun
                      /\ call'.spins <= seen'.still
    BY <1>8, <1>9 DEF ClockIsFollowed
  <2>1. call.start = seen.begun % Wrap
    BY <1>4 DEF BlockingIInv, BlockingInv, ClockIsFollowed
  <2>2. d < Wrap \div 2
    <3> DEFINE t == job.deadline - call.start
    <3>3. t \in Timeouts
      BY <1>5
    <3>4. t \in Nat /\ t < Wrap \div 2 /\ Wrap \div 2 \in Nat
      BY <3>3, TimeoutRange
    <3>1. job.deadline - call.start < Wrap \div 2 /\ Wrap \div 2 \in Nat
      BY <3>4
    <3>2. call.start + (clock - seen.begun) + d <= job.deadline
      BY <1>2, <1>5, <1>15
    <3> QED
      BY <1>15, <1>16, <3>1, <3>2
  <2> QED
    BY <1>2, <1>7, <1>8, <1>9, <1>15, <1>16, <2>1, <2>2
<1> QED
  BY <1>11, <1>12, <1>13, <1>14, <1>17, <1>19, <1>20 DEF BlockingIInv, BlockingInv

-----------------------------------------------------------------------------
(* The other steps *)

(* The job a call starts. *)
LEMMA StartedType ==
  ASSUME NEW stage \in Stage, NEW left \in Nat, NEW deadline \in Nat \union {Never}
  PROVE  [NoJob EXCEPT !.for = "CALL", !.state = "ACTIVE", !.stage = stage,
                       !.left = left, !.deadline = deadline] \in JobRecord
<1>1. NoJob \in JobRecord
  BY NothingTypes
<1>2. "ACTIVE" \in State
  BY DEF State
<1> QED
  BY <1>1, <1>2 DEF JobRecord

(* Beginning a call establishes what holds while it runs. *)
LEMMA BeginKeepsIInv ==
  ASSUME BlockingIInv, NEW method \in {"SAMPLE", "DRIVE"}, NEW started \in JobRecord,
         Begin(method, started),
         started.for = "CALL", started.state = "ACTIVE", started.left >= 1,
         method = "DRIVE" =>
           /\ started.stage = "PROFILE" /\ started.deadline = Never
           /\ started.left <= JobTransfers,
         method = "SAMPLE" =>
           /\ started.stage \in {"TRIGGER", "CHANNELS"}
           /\ started.deadline # Never /\ started.deadline - nowMs \in Timeouts
           /\ ~hook => started.stage = "CHANNELS"
  PROVE  BlockingIInv'
<1>1. TypeOK /\ nowMs \in 0 .. Wrap - 1 /\ MaxPolls \in Nat /\ clock \in Nat
  BY TimeTypes DEF BlockingIInv, TypeOK
<1>2. /\ job' = started /\ clock' = clock /\ hook' = hook /\ hasResult' = hasResult
      /\ ~hasResult /\ returned' = NotReturned
  BY DEF Begin, SlotIsFree
<1>3. /\ call'.method = method /\ call'.start = nowMs /\ call'.polls = 0
      /\ call'.lastElapsed = 0 /\ call'.spins = 0
      /\ call' \in CallRecord
  <2>1. call' = [NoCall EXCEPT !.method = method, !.start = nowMs]
    BY DEF Begin
  <2>2. 0 \in 0 .. MaxPolls /\ 0 \in 0 .. Wrap - 1 /\ 0 \in 0 .. SpinLimit + 1
    BY <1>1
  <2> QED
    BY <1>1, <2>1, <2>2 DEF NoCall, CallRecord, Method
<1>4. /\ seen'.begun = clock /\ seen'.polledAt = clock /\ seen'.still = 0 /\ seen'.late = FALSE
      /\ seen' \in SeenRecord
  BY <1>1 DEF Begin, SeenRecord
<1>5. returned' \in [state : State, still : Nat, method : Method] /\ returned'.state = "IDLE"
  BY <1>2, NothingTypes DEF NotReturned
<1>6. TypeOK'
  BY <1>1, <1>2, <1>3, <1>4, <1>5 DEF TypeOK, JobRecord, CallRecord, SeenRecord
<1>7. SlotIsAttributed' /\ CancelledIsStalled' /\ GivenUpOnlyWhenStalled' /\ NoLateTransfer'
  BY <1>2, <1>3, <1>4, <1>5
     DEF SlotIsAttributed, CancelledIsStalled, GivenUpOnlyWhenStalled, NoLateTransfer
<1>8. ~hook => nowMs = 0
  BY DEF nowMs
<1>9. JobIsTheCalls'
  <2>1. call'.polls + job'.left = started.left
    BY <1>2, <1>3 DEF JobRecord
  <2> QED
    BY <1>2, <1>3, <1>8, <2>1 DEF JobIsTheCalls, Running
<1>10. ClockIsFollowed'
  <2> SUFFICES ASSUME method = "SAMPLE", hook
               PROVE  /\ call'.start = seen'.begun % Wrap
                      /\ seen'.begun <= seen'.polledAt /\ seen'.polledAt <= clock'
                      /\ clock' - seen'.polledAt < Wrap \div 2
                      /\ seen'.polledAt - seen'.begun < job'.deadline - call'.start
                      /\ call'.lastElapsed = seen'.polledAt - seen'.begun
                      /\ call'.spins <= seen'.still
    BY <1>2, <1>3 DEF ClockIsFollowed
  <2>1. call'.start = seen'.begun % Wrap
    BY <1>3, <1>4, Zenon DEF nowMs
  <2> DEFINE t == started.deadline - nowMs
  <2>2. t \in Timeouts
    OBVIOUS
  <2>3. t \in Nat /\ t >= 1 /\ t < Wrap \div 2 /\ Wrap \div 2 \in Nat
    BY <2>2, TimeoutRange
  <2>4. job'.deadline - call'.start = t
    BY <1>2, <1>3
  <2> HIDE DEF t
  <2>5. clock - clock = 0 /\ 0 < t /\ 0 < Wrap \div 2
    BY <1>1, <2>3
  <2> QED
    BY <1>1, <1>2, <1>3, <1>4, <2>1, <2>4, <2>5
<1> QED
  BY <1>6, <1>7, <1>9, <1>10 DEF BlockingIInv, BlockingInv

(* Every step keeps the invariant, *)
LEMMA IInvStep == BlockingIInv /\ [Next]_vars => BlockingIInv'
<1> SUFFICES ASSUME BlockingIInv, [Next]_vars PROVE BlockingIInv'
  OBVIOUS
<1>a. /\ TypeOK /\ SlotIsAttributed /\ JobIsTheCalls /\ ClockIsFollowed /\ CancelledIsStalled
      /\ GivenUpOnlyWhenStalled /\ NoLateTransfer
      /\ job \in JobRecord /\ nowMs \in 0 .. Wrap - 1
  BY TimeTypes DEF BlockingIInv, BlockingInv
<1>1. ASSUME call.method = "NONE", UNCHANGED <<clock, hook, call, seen, returned>>,
             job' \in JobRecord, hasResult' \in BOOLEAN, SlotIsAttributed'
      PROVE  BlockingIInv'
  <2>1. TypeOK'
    BY <1>a, <1>1 DEF TypeOK, JobRecord
  <2> QED
    BY <1>a, <1>1, <2>1 DEF BlockingIInv, BlockingInv, JobIsTheCalls, ClockIsFollowed,
         CancelledIsStalled, GivenUpOnlyWhenStalled, NoLateTransfer, Running
<1>2. CASE OwnerStart
  <2>1. job' \in JobRecord /\ job'.for = "OWNER" /\ job'.state = "ACTIVE"
    BY <1>2, NothingTypes DEF OwnerStart, JobRecord, State
  <2>2. hasResult' = hasResult /\ hasResult' \in BOOLEAN /\ call.method = "NONE" /\ call' = call
    BY <1>a, <1>2 DEF OwnerStart, TypeOK
  <2>3. SlotIsAttributed'
    BY <2>1, <2>2 DEF SlotIsAttributed
  <2> QED
    BY <1>1, <1>2, <2>1, <2>2, <2>3 DEF OwnerStart
<1>3. CASE OwnerEnd
  <2>1. job' \in JobRecord /\ job'.for = job.for
    BY <1>a, <1>3 DEF OwnerEnd, JobRecord, State
  <2>2. SlotIsAttributed'
    BY <1>a, <1>3, <2>1 DEF SlotIsAttributed, OwnerEnd
  <2> QED
    BY <1>1, <1>3, <2>1, <2>2 DEF OwnerEnd
<1>4. CASE OwnerTake
  <2>1. job' \in JobRecord /\ job'.for = "NOBODY"
    BY <1>4, NothingTypes DEF OwnerTake, NoJob
  <2>2. SlotIsAttributed'
    BY <1>4, <2>1 DEF SlotIsAttributed, OwnerTake
  <2> QED
    BY <1>1, <1>4, <2>1, <2>2 DEF OwnerTake
<1>5. ASSUME NEW triggered \in BOOLEAN, NEW timeout \in Timeouts,
             ReadBlocking(triggered, timeout)
      PROVE  BlockingIInv'
  <2> DEFINE stage == IF triggered THEN "TRIGGER" ELSE "CHANNELS"
             started == [NoJob EXCEPT !.for = "CALL", !.state = "ACTIVE", !.stage = stage,
                                      !.left = ChannelReads, !.deadline = nowMs + timeout]
  <2>1. Begin("SAMPLE", started) /\ (triggered => hook)
    BY <1>5 DEF ReadBlocking
  <2>2. nowMs + timeout \in Nat /\ (nowMs + timeout) - nowMs = timeout
    BY <1>a, <1>5
  <2>3. stage \in {"TRIGGER", "CHANNELS"} /\ (~hook => stage = "CHANNELS")
    BY <2>1
  <2> HIDE DEF stage
  <2>4. /\ started.for = "CALL" /\ started.state = "ACTIVE"
        /\ started.left >= 1 /\ started.stage = stage
        /\ started.deadline = nowMs + timeout
    BY DEF NoJob
  <2>6. started \in JobRecord
    BY <2>2, <2>3, StartedType DEF Stage
  <2> HIDE DEF started
  <2>5. started.deadline # Never /\ started.deadline - nowMs \in Timeouts
    BY <2>2, <2>4
  <2> QED
    BY <2>1, <2>3, <2>4, <2>5, <2>6, BeginKeepsIInv
<1>6. CASE DriveJob(JobTransfers)
  <2> DEFINE started == [NoJob EXCEPT !.for = "CALL", !.state = "ACTIVE", !.stage = "PROFILE",
                                      !.left = JobTransfers, !.deadline = Never]
  <2>1. Begin("DRIVE", started)
    BY <1>6 DEF DriveJob
  <2>2. /\ started.for = "CALL" /\ started.state = "ACTIVE"
        /\ started.left >= 1 /\ started.left <= JobTransfers
        /\ started.stage = "PROFILE" /\ started.deadline = Never
    BY DEF NoJob
  <2>3. started \in JobRecord
    BY StartedType DEF Stage
  <2> HIDE DEF started
  <2> QED
    BY <2>1, <2>2, <2>3, BeginKeepsIInv
<1>7. CASE PollSilent
  BY <1>7, SilentKeepsIInv
<1>8. ASSUME NEW d \in 0 .. TimeoutMs, PollTransfer(d)
      PROVE  BlockingIInv'
  BY <1>8, TransferKeepsIInv
<1>9. CASE GiveUp
  <2>1. Running /\ GaveUp /\ call.method \in {"SAMPLE", "DRIVE"}
    BY <1>a, <1>9 DEF GiveUp, Running, TypeOK, Method
  <2>2. job' = Ended("CANCELLED") /\ hasResult' = TRUE
        /\ UNCHANGED <<clock, hook, call, seen, returned>>
    BY <1>9 DEF GiveUp
  <2>3. job' \in JobRecord /\ job'.for = job.for /\ job'.state = "CANCELLED"
    BY <1>a, <2>2, EndedType DEF State
  <2>4. TypeOK'
    BY <1>a, <2>2, <2>3 DEF TypeOK, JobRecord
  <2>5. call.method = "SAMPLE" /\ seen.still > SpinLimit
    <3>1. call.method # "DRIVE"
      <4> SUFFICES ASSUME call.method = "DRIVE" PROVE FALSE
        OBVIOUS
      <4>1. call.polls + job.left <= JobTransfers /\ job.left >= 1
        BY <1>a, <2>1 DEF JobIsTheCalls
      <4>2. call.polls >= MaxPolls /\ MaxPolls = JobTransfers * 3 + 8
        BY <2>1 DEF GaveUp, MaxPolls
      <4>3. call.polls \in Nat /\ job.left \in Nat
        BY <1>a DEF TypeOK
      <4> QED
        BY <4>1, <4>2, <4>3
    <3>2. call.method = "SAMPLE" /\ call.spins > SpinLimit
      BY <2>1, <3>1 DEF GaveUp
    <3>3. call.spins \in Nat /\ seen.still \in Nat
      BY <1>a DEF TypeOK
    <3>4. hook
      BY <1>a, <2>1, <3>2, <3>3 DEF JobIsTheCalls
    <3>5. call.spins <= seen.still
      BY <1>a, <2>1, <3>2, <3>4 DEF ClockIsFollowed
    <3> QED
      BY <3>2, <3>3, <3>5
  <2> QED
    BY <1>a, <2>1, <2>2, <2>3, <2>4, <2>5
       DEF BlockingIInv, BlockingInv, SlotIsAttributed, JobIsTheCalls, ClockIsFollowed,
           CancelledIsStalled, GivenUpOnlyWhenStalled, NoLateTransfer, Running
<1>10. CASE Return
  <2>1. /\ job' = NoJob /\ hasResult' = FALSE /\ call' = NoCall /\ seen' = NothingSeen
        /\ clock' = clock /\ hook' = hook
        /\ returned' = [state |-> job.state, still |-> seen.still, method |-> call.method]
        /\ call.method # "NONE"
    BY <1>10 DEF Return, TakeResult
  <2>2. /\ job'.for = "NOBODY" /\ call'.method = "NONE" /\ seen'.late = FALSE
    BY <2>1 DEF NoJob, NoCall, NothingSeen
  <2>3. returned' \in [state : State, still : Nat, method : Method]
    BY <1>a, <2>1 DEF TypeOK
  <2>4. TypeOK'
    BY <1>a, <2>1, <2>3, NothingTypes DEF TypeOK, JobRecord
  <2>5. GivenUpOnlyWhenStalled'
    BY <1>a, <2>1 DEF GivenUpOnlyWhenStalled, CancelledIsStalled
  <2> QED
    BY <2>2, <2>4, <2>5
       DEF BlockingIInv, BlockingInv, SlotIsAttributed, JobIsTheCalls, ClockIsFollowed,
           CancelledIsStalled, NoLateTransfer, Running
<1>11. CASE Tick
  <2>1. /\ clock' = clock + 1 /\ UNCHANGED <<hook, job, hasResult, call, seen, returned>>
        /\ call.method # "NONE" => clock + 1 - seen.polledAt < Wrap \div 2
        /\ clock \in Nat /\ seen.polledAt \in Nat
    BY <1>a, <1>11 DEF Tick, TypeOK
  <2>2. TypeOK'
    BY <1>a, <2>1 DEF TypeOK, MaxPolls
  <2>3. ClockIsFollowed'
    BY <1>a, <2>1 DEF ClockIsFollowed, Running
  <2> QED
    BY <1>a, <2>1, <2>2, <2>3
       DEF BlockingIInv, BlockingInv, SlotIsAttributed, JobIsTheCalls,
           CancelledIsStalled, GivenUpOnlyWhenStalled, NoLateTransfer, Running
<1>12. CASE UNCHANGED vars
  BY <1>a, <1>12
     DEF vars, BlockingIInv, BlockingInv, TypeOK, SlotIsAttributed, JobIsTheCalls,
         ClockIsFollowed, CancelledIsStalled, GivenUpOnlyWhenStalled, NoLateTransfer, Running,
         MaxPolls
<1> QED
  BY <1>2, <1>3, <1>4, <1>5, <1>6, <1>7, <1>8, <1>9, <1>10, <1>11, <1>12 DEF Next, LoopStep

(* it holds at the start, *)
LEMMA IInvInit == Init => BlockingIInv
<1> SUFFICES ASSUME Init PROVE BlockingIInv
  OBVIOUS
<1>1. clock \in Nat /\ hook \in BOOLEAN /\ job = NoJob /\ call = NoCall /\ seen = NothingSeen
      /\ returned = NotReturned
  BY DEF Init
<1>2. hasResult = FALSE /\ hasResult \in BOOLEAN
  BY Zenon DEF Init
<1>3. TypeOK
  BY <1>1, <1>2, NothingTypes, Zenon DEF TypeOK, JobRecord
<1>4. /\ job.for = "NOBODY" /\ call.method = "NONE" /\ seen.late = FALSE
      /\ returned.state = "IDLE"
  BY <1>1 DEF NoJob, NoCall, NothingSeen, NotReturned
<1> QED
  BY <1>3, <1>4
     DEF BlockingIInv, BlockingInv, SlotIsAttributed, JobIsTheCalls, ClockIsFollowed,
         CancelledIsStalled, GivenUpOnlyWhenStalled, NoLateTransfer, Running

(* and so throughout. *)
LEMMA IInvAlways == FairSpec => []BlockingIInv
  BY IInvInit, IInvStep, PTL DEF FairSpec

-----------------------------------------------------------------------------
(* The theorems *)

(* Outside of a call the slot holds no job of a call: the owner can start  *)
(* its next job at once.                                                   *)
THEOREM SlotCorrect == FairSpec => []SlotIsHandedBack
<1>1. BlockingIInv => SlotIsHandedBack
  BY DEF BlockingIInv, BlockingInv, SlotIsAttributed, SlotIsHandedBack
<1> QED
  BY <1>1, IInvAlways, PTL

(* Only a sample is ever given up, and only after as many polls as the     *)
(* limit allows at which neither the clock nor the job has moved; a driven *)
(* job's bound on its polls is never reached.                              *)
THEOREM GivingUpCorrect == FairSpec => []GivenUpOnlyWhenStalled
<1>1. BlockingIInv => GivenUpOnlyWhenStalled
  BY DEF BlockingIInv
<1> QED
  BY <1>1, IInvAlways, PTL

(* No sample call begins a transfer after its timeout, on any 32-bit clock *)
(* and for every timeout that is accepted.                                 *)
THEOREM TimeoutCorrect == FairSpec => []NoLateTransfer
<1>1. BlockingIInv => NoLateTransfer
  BY DEF BlockingIInv
<1> QED
  BY <1>1, IInvAlways, PTL

(* No call replaces a job of the owner or takes its result.                *)
THEOREM OwnersSlotCorrect == FairSpec => OwnerKeepsItsSlot
<1>1. BlockingIInv /\ [Next]_vars => [job.for = "OWNER" /\ job'.for # "OWNER" => OwnerTake]_vars
  <2> SUFFICES ASSUME BlockingIInv, Next, job.for = "OWNER", job'.for # "OWNER"
               PROVE  OwnerTake
    OBVIOUS
  <2>1. TypeOK /\ call.method = "NONE" /\ (job.state = "ACTIVE" \/ hasResult)
    BY DEF BlockingIInv, BlockingInv, SlotIsAttributed
  <2>2. ~OwnerStart
    BY <2>1 DEF OwnerStart
  <2>3. ~OwnerEnd
    BY <2>1 DEF OwnerEnd, TypeOK
  <2>4. \A method, started : ~Begin(method, started)
    BY <2>1 DEF Begin, SlotIsFree
  <2>5. /\ \A triggered \in BOOLEAN, timeout \in Timeouts : ~ReadBlocking(triggered, timeout)
        /\ ~DriveJob(JobTransfers)
    BY <2>4 DEF ReadBlocking, DriveJob
  <2>6. ~LoopStep
    BY <2>1 DEF LoopStep, PollSilent, PollTransfer, GiveUp, Return, LoopGoesOn
  <2>7. ~Tick
    BY DEF Tick
  <2> QED
    BY <2>2, <2>3, <2>5, <2>6, <2>7 DEF Next
<1> QED
  BY <1>1, IInvAlways, PTL DEF FairSpec, OwnerKeepsItsSlot

=============================================================================
