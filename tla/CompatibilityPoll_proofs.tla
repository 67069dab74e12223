---------------------- MODULE CompatibilityPoll_proofs ----------------------
(***************************************************************************)
(* Theorems about the compatibility jobs for every period of the clock,    *)
(* every bound of the work and however late or often they are polled.      *)
(***************************************************************************)
EXTENDS CompatibilityPoll, TLAPS

-----------------------------------------------------------------------------
(* Time on a clock that wraps *)

(* The quotient and the remainder, for the provers. *)
LEMMA Division ==
  ASSUME NEW W \in Nat \ {0}, NEW a \in Nat
  PROVE  /\ a \div W \in Nat
         /\ a % W \in 0 .. W - 1
         /\ a % W = a - (a \div W) * W
<1>1. a % W = a - (a \div W) * W
  OBVIOUS
<1>2. a \div W \in Nat
  OBVIOUS
<1>3. a % W \in 0 .. W - 1
  OBVIOUS
<1> QED
  BY <1>1, <1>2, <1>3

(* Two times less than a period apart lie in the same period of the clock *)
(* or in consecutive ones.                                                 *)
LEMMA OneMultiple ==
  ASSUME NEW W \in Nat \ {0}, NEW p \in Nat, NEW q \in Nat, NEW t \in Int,
         NEW r \in 0 .. W - 1, NEW s \in 0 .. W - 1, p * W + r - (q * W + s) = t, t >= 0, t < W
  PROVE  IF r >= s THEN t = r - s ELSE t = W + r - s
<1> DEFINE k == p - q
<1>1. k \in Int /\ k * W = p * W - q * W
  OBVIOUS
<1>2. k * W = t - r + s
  BY <1>1
<1>3. k * W > -W /\ k * W < 2 * W
  BY <1>2
<1> HIDE DEF k
<1>4. k = 0 \/ k = 1
  BY <1>1, <1>3
<1> QED
  BY <1>2, <1>4

(* The wrapping difference of two readings of the clock is the true time   *)
(* between them, when that is less than a period.                          *)
LEMMA ElapsedIsTrue ==
  ASSUME NEW W \in Nat \ {0}, NEW a \in Nat, NEW b \in Nat, b <= a, a - b < W
  PROVE  (W + (a % W) - (b % W)) % W = a - b
<1> DEFINE p == a \div W
           q == b \div W
           r == a % W
           s == b % W
<1>1. /\ p \in Nat /\ q \in Nat /\ r \in 0 .. W - 1 /\ s \in 0 .. W - 1
      /\ r = a - p * W /\ s = b - q * W
  BY Division
<1>2. (p * W + r) - (q * W + s) = a - b
  BY <1>1
<1> HIDE DEF p, q, r, s
<1>3. IF r >= s THEN a - b = r - s ELSE a - b = W + r - s
  BY <1>1, <1>2, OneMultiple
<1>4. CASE r >= s
  <2>1. W + r - s = (r - s) + W /\ r - s \in 0 .. W - 1
    BY <1>1, <1>4
  <2>2. ((r - s) + W) % W = r - s
    BY <2>1
  <2>3. (W + r - s) % W = a - b
    BY <1>1, <1>3, <1>4, <2>1, <2>2
  <2> QED
    BY <2>3 DEF r, s
<1>5. CASE r < s
  <2>1. W + r - s \in 0 .. W - 1
    BY <1>1, <1>5
  <2>2. (W + r - s) % W = W + r - s
    BY <2>1
  <2>3. ~(r >= s)
    BY <1>1, <1>5
  <2>4. (W + r - s) % W = a - b
    BY <1>3, <2>2, <2>3
  <2> QED
    BY <2>4 DEF r, s
<1> QED
  BY <1>1, <1>4, <1>5

-----------------------------------------------------------------------------
(* Types *)

USE CompatibilityPollAssumption

(* No poll and no job, as members of the types of the variables. *)
LEMMA NothingTypes ==
  /\ NoPoll \in [kind : PollJobKind, complete : BOOLEAN, durationMs : Nat,
                         timeInitialized : BOOLEAN, lastNowMs : 0 .. Wrap - 1,
                         extendedNowMs : Nat]
  /\ NoJob \in [kind : JobKind, state : JobState, deadlineMs : Nat \union {NoDeadline},
                        for : {"NOBODY", "OWNER", "COMPATIBILITY"}]
<1>1. 0 \in 0 .. Wrap - 1 /\ FALSE \in BOOLEAN /\ "NONE" \in PollJobKind
  BY DEF PollJobKind
<1>2. NoPoll \in [kind : PollJobKind, complete : BOOLEAN, durationMs : Nat,
                         timeInitialized : BOOLEAN, lastNowMs : 0 .. Wrap - 1,
                         extendedNowMs : Nat]
  BY <1>1 DEF NoPoll
<1>3. NoJob \in [kind : JobKind, state : JobState, deadlineMs : Nat \union {NoDeadline},
                        for : {"NOBODY", "OWNER", "COMPATIBILITY"}]
  BY DEF NoJob, JobKind, JobState
<1> QED
  BY <1>2, <1>3

(* The types hold at the start. *)
LEMMA TypeInit == Init => TypeOK
<1> SUFFICES ASSUME Init PROVE TypeOK
  OBVIOUS
<1>1. clock \in Nat /\ first \in Nat /\ last \in Nat
  BY DEF Init
<1>2. poll = NoPoll /\ job = NoJob /\ hasResult \in BOOLEAN
  BY Zenon DEF Init
<1> QED
  BY <1>1, <1>2, NothingTypes, Zenon DEF TypeOK

(* Every kind of compatibility job has a duration longer than its margin. *)
LEMMA Durations ==
  ASSUME NEW kind \in PollJobKind \ {"NONE"}
  PROVE  /\ WorkMs[kind] \in Nat \ {0}
         /\ CompatibilityDurationMs(kind) \in Nat
         /\ CompatibilityDurationMs(kind) = WorkMs[kind] + MarginMs
         /\ JobOf[kind] \in JobKind \ {"NONE"}
  BY DEF PollJobKind, CompatibilityDurationMs, JobOf, JobKind

(* Starting a compatibility job keeps the types. *)
LEMMA StartType ==
  ASSUME TypeOK, NEW kind \in PollJobKind \ {"NONE"}, StartCompatibility(kind)
  PROVE  TypeOK'
<1>1. [NoPoll EXCEPT !.kind = kind, !.durationMs = CompatibilityDurationMs(kind)]
        \in [kind : PollJobKind, complete : BOOLEAN, durationMs : Nat,
                         timeInitialized : BOOLEAN, lastNowMs : 0 .. Wrap - 1,
                         extendedNowMs : Nat]
  BY NothingTypes, Durations
<1>2. [kind |-> JobOf[kind], state |-> "ACTIVE", deadlineMs |-> NoDeadline,
       for |-> "COMPATIBILITY"]
        \in [kind : JobKind, state : JobState, deadlineMs : Nat \union {NoDeadline},
                        for : {"NOBODY", "OWNER", "COMPATIBILITY"}]
  BY Durations DEF JobState
<1> QED
  BY <1>1, <1>2 DEF TypeOK, StartCompatibility

(* Extended time and deadline are natural numbers. *)
LEMMA PollTimes ==
  ASSUME TypeOK
  PROVE  /\ nowMs \in 0 .. Wrap - 1
         /\ Extended \in Nat
         /\ Deadline(Extended) \in Nat
<1>1. nowMs \in 0 .. Wrap - 1
  BY DEF TypeOK, nowMs
<1>2. (Wrap + nowMs - poll.lastNowMs) % Wrap \in Nat
  BY <1>1 DEF TypeOK
<1>3. Extended \in Nat
  BY <1>1, <1>2 DEF TypeOK, Extended
<1>4. Deadline(Extended) \in Nat
  BY <1>3 DEF TypeOK, Deadline
<1> QED
  BY <1>1, <1>3, <1>4

(* A compatibility poll keeps the types. *)
LEMMA PollType ==
  ASSUME TypeOK, NEW kind \in PollJobKind \ {"NONE"}, NEW budget \in Budgets,
         PollCompatibility(kind, budget)
  PROVE  TypeOK'
<1> DEFINE time == Extended
           deadline == Deadline(time)
           extended == [poll EXCEPT !.timeInitialized = TRUE, !.lastNowMs = nowMs,
                                    !.extendedNowMs = time]
<1>1. nowMs \in 0 .. Wrap - 1 /\ time \in Nat /\ deadline \in Nat
  BY PollTimes
<1>2. PICK state \in PolledStates(deadline, budget, time) :
          IF state = "ACTIVE"
            THEN /\ poll' = extended
                 /\ job' = [job EXCEPT !.deadlineMs = deadline]
                 /\ UNCHANGED <<hasResult, delivered>>
            ELSE /\ poll' = [extended EXCEPT !.complete = @ \/ state = "SUCCEEDED"]
                 /\ job' = NoJob
                 /\ hasResult' = FALSE
                 /\ delivered' = [to |-> "COMPATIBILITY", of |-> job.for, state |-> state]
  BY DEF PollCompatibility
<1> HIDE DEF time, deadline
<1>3. extended \in [kind : PollJobKind, complete : BOOLEAN, durationMs : Nat,
               timeInitialized : BOOLEAN, lastNowMs : 0 .. Wrap - 1, extendedNowMs : Nat]
  BY <1>1 DEF TypeOK
<1>4. clock' \in Nat /\ first' \in Nat /\ last' \in Nat
  BY DEF PollCompatibility, TypeOK
<1> HIDE DEF extended
<1>5. CASE state = "ACTIVE"
  BY <1>1, <1>2, <1>3, <1>4, <1>5 DEF TypeOK
<1>6. CASE state # "ACTIVE"
  <2>1. (extended.complete \/ state = "SUCCEEDED") \in BOOLEAN
    OBVIOUS
  <2>2. poll' \in [kind : PollJobKind, complete : BOOLEAN, durationMs : Nat,
               timeInitialized : BOOLEAN, lastNowMs : 0 .. Wrap - 1, extendedNowMs : Nat]
    BY <1>2, <1>3, <1>6, <2>1
  <2>3. job' \in [kind : JobKind, state : JobState, deadlineMs : Nat \union {NoDeadline},
              for : {"NOBODY", "OWNER", "COMPATIBILITY"}]
    BY <1>2, <1>6 DEF NoJob, JobKind, JobState
  <2> QED
    BY <1>2, <1>4, <1>6, <2>2, <2>3 DEF TypeOK
<1> QED
  BY <1>5, <1>6

(* So does every step. *)
LEMMA TypeStep == TypeOK /\ [Next]_vars => TypeOK'
<1> SUFFICES ASSUME TypeOK, [Next]_vars PROVE TypeOK'
  OBVIOUS
<1>1. ASSUME NEW kind \in JobKind \ {"NONE"}, NEW ahead \in OwnerMs, StartOwnerJob(kind, ahead)
      PROVE  TypeOK'
  BY <1>1 DEF TypeOK, StartOwnerJob, ClearPollJob, NoPoll, PollJobKind, JobState
<1>2. ASSUME StartSingleShot \/ StartContinuousRead \/ StartApplyMaskEnable
      PROVE  TypeOK'
  BY <1>2, StartType DEF StartSingleShot, StartContinuousRead, StartApplyMaskEnable, PollJobKind
<1>3. ASSUME NEW budget \in Budgets,
             PollSingleShot(budget) \/ PollContinuousRead(budget) \/ PollApplyMaskEnable(budget)
      PROVE  TypeOK'
  BY <1>3, PollType DEF PollSingleShot, PollContinuousRead, PollApplyMaskEnable, PollJobKind
<1>4. CASE PollOwner
  <2>1. PICK state \in JobState :
            job' = [job EXCEPT !.state = state] /\ hasResult' = (state # "ACTIVE")
    BY <1>4 DEF PollOwner, JobState
  <2>2. (state # "ACTIVE") \in BOOLEAN
    OBVIOUS
  <2> QED
    BY <1>4, <2>1, <2>2 DEF PollOwner, TypeOK
<1>5. CASE CancelJob
  BY <1>5 DEF TypeOK, CancelJob, JobState
<1>6. CASE TakeJobResult
  BY <1>6, NothingTypes DEF TypeOK, TakeJobResult
<1>7. CASE WriteConfigRegister
  BY <1>7, NothingTypes DEF TypeOK, WriteConfigRegister, ClearPollJob
<1>8. CASE Unbind
  BY <1>8, NothingTypes DEF TypeOK, Unbind, ClearPollJob
<1>9. CASE Tick
  BY <1>9 DEF TypeOK, Tick
<1>10. CASE UNCHANGED vars
  BY <1>10 DEF TypeOK, vars
<1> QED
  BY <1>1, <1>2, <1>3, <1>4, <1>5, <1>6, <1>7, <1>8, <1>9, <1>10 DEF Next

-----------------------------------------------------------------------------
(* What one compatibility poll does *)

(* A compatibility poll finds a compatibility job, or does nothing. *)
LEMMA OnlyCompatibilityIsPolled ==
  ASSUME TypeOK, PollInv, NEW kind \in PollJobKind \ {"NONE"}, NEW budget \in Budgets,
         PollCompatibility(kind, budget)
  PROVE  /\ poll.kind = kind
         /\ job.for = "COMPATIBILITY"
         /\ job.state \in {"ACTIVE", "CANCELLED"}
<1>1. poll.kind = kind /\ job.kind = JobOf[kind]
  BY DEF PollCompatibility
<1>2. job.for # "NOBODY"
  BY <1>1, Durations DEF PollInv, SlotIsAttributed
<1>3. job.for # "OWNER"
  BY <1>1 DEF PollInv, SlotIsAttributed
<1> QED
  BY <1>1, <1>2, <1>3 DEF TypeOK, PollInv, SlotIsAttributed

(* Its extended time and its deadline are counted from the first poll, the  *)
(* poll itself if it is the first one.                                      *)
LEMMA PollCountsFromFirst ==
  ASSUME TypeOK, PollInv, NEW kind \in PollJobKind \ {"NONE"}, NEW budget \in Budgets,
         PollCompatibility(kind, budget)
  PROVE  /\ first' \in Nat /\ first' <= clock
         /\ Extended = (first' % Wrap) + (clock - first')
         /\ Deadline(Extended) = (first' % Wrap) + poll.durationMs
         /\ poll.durationMs = WorkMs[kind] + MarginMs
         /\ clock > first' \/ first' = clock
<1>1. job.for = "COMPATIBILITY" /\ poll.kind = kind
  BY OnlyCompatibilityIsPolled
<1>2. poll.durationMs = WorkMs[kind] + MarginMs /\ poll.durationMs \in Nat
  BY <1>1, Durations DEF PollInv, DeadlineAwaitsPoll
<1>3. CASE poll.timeInitialized
  <2>1. first' = first
    BY <1>3 DEF PollCompatibility
  <2>2. /\ first <= last /\ last <= clock /\ clock - last < Wrap
        /\ poll.lastNowMs = last % Wrap
        /\ poll.extendedNowMs = (first % Wrap) + (last - first)
        /\ job.deadlineMs = (first % Wrap) + poll.durationMs
    BY <1>1, <1>3 DEF PollInv, TimesAreOfFirstPoll
  <2>3. clock \in Nat /\ last \in Nat /\ first \in Nat /\ Wrap \in Nat \ {0}
    BY DEF TypeOK
  <2>9. (Wrap + (clock % Wrap) - (last % Wrap)) % Wrap = clock - last
    BY <2>2, <2>3, ElapsedIsTrue
  <2>4. (Wrap + nowMs - poll.lastNowMs) % Wrap = clock - last
    BY <2>2, <2>9, Zenon DEF nowMs
  <2>5. first % Wrap \in Nat
    BY <2>3, Division
  <2>6. Extended = (first % Wrap) + (clock - first)
    BY <1>3, <2>2, <2>3, <2>4, <2>5 DEF Extended
  <2>7. job.deadlineMs # NoDeadline
    BY <1>2, <2>2, <2>5
  <2>8. Deadline(Extended) = (first % Wrap) + poll.durationMs
    BY <2>2, <2>7 DEF Deadline
  <2> QED
    BY <1>2, <2>1, <2>2, <2>3, <2>6, <2>8
<1>4. CASE ~poll.timeInitialized
  <2>1. first' = clock /\ clock \in Nat
    BY <1>4 DEF PollCompatibility, TypeOK
  <2>2. nowMs \in Nat
    BY PollTimes
  <2>3. Extended = clock % Wrap
    BY <1>4 DEF Extended, nowMs
  <2>4. job.deadlineMs = NoDeadline
    BY <1>1, <1>4 DEF PollInv, DeadlineAwaitsPoll
  <2>5. Deadline(Extended) = (clock % Wrap) + poll.durationMs
    BY <2>3, <2>4 DEF Deadline
  <2>6. (clock % Wrap) + (clock - clock) = clock % Wrap
    BY <2>1, <2>2 DEF nowMs
  <2> QED
    BY <1>2, <2>1, <2>3, <2>5, <2>6
<1> QED
  BY <1>3, <1>4

(* It leaves the job active before its deadline, or it ends it and takes    *)
(* the result, TIMED_OUT only when the time is over or too short.           *)
LEMMA PollEnds ==
  ASSUME TypeOK, PollInv, NEW kind \in PollJobKind \ {"NONE"}, NEW budget \in Budgets,
         PollCompatibility(kind, budget)
  PROVE  /\ poll'.kind = kind /\ poll'.durationMs = poll.durationMs
         /\ poll'.timeInitialized /\ poll'.lastNowMs = nowMs
         /\ poll'.extendedNowMs = Extended
         /\ last' = clock /\ clock' = clock
         /\ \/ /\ job'.state = job.state /\ job.state = "ACTIVE"
               /\ job'.kind = job.kind /\ job'.for = job.for
               /\ job'.deadlineMs = Deadline(Extended)
               /\ Extended < Deadline(Extended)
               /\ UNCHANGED delivered
            \/ /\ job' = NoJob
               /\ delivered'.to = "COMPATIBILITY"
               /\ delivered'.of = job.for
               /\ delivered'.state = "TIMED_OUT" =>
                    \/ Extended >= Deadline(Extended)
                    \/ MayGiveUp(kind, budget, Deadline(Extended) - Extended)
<1> DEFINE time == Extended
           deadline == Deadline(time)
           extended == [poll EXCEPT !.timeInitialized = TRUE, !.lastNowMs = nowMs,
                                    !.extendedNowMs = time]
<1>1. nowMs \in 0 .. Wrap - 1 /\ time \in Nat /\ deadline \in Nat
  BY PollTimes
<1>2. /\ poll.kind = kind
      /\ job.state \in {"ACTIVE", "CANCELLED"}
  BY OnlyCompatibilityIsPolled
<1>3. last' = clock /\ clock' = clock
  BY DEF PollCompatibility
<1>4. PICK state \in PolledStates(deadline, budget, time) :
          IF state = "ACTIVE"
            THEN /\ poll' = extended
                 /\ job' = [job EXCEPT !.deadlineMs = deadline]
                 /\ UNCHANGED <<hasResult, delivered>>
            ELSE /\ poll' = [extended EXCEPT !.complete = @ \/ state = "SUCCEEDED"]
                 /\ job' = NoJob
                 /\ hasResult' = FALSE
                 /\ delivered' = [to |-> "COMPATIBILITY", of |-> job.for, state |-> state]
  BY DEF PollCompatibility
<1>5. state \in PolledStates(deadline, budget, time)
  BY <1>4
<1> HIDE DEF time, deadline
<1>6. /\ extended.kind = kind /\ extended.durationMs = poll.durationMs
      /\ extended.timeInitialized /\ extended.lastNowMs = nowMs
      /\ extended.extendedNowMs = time
      /\ extended \in [kind : PollJobKind, complete : BOOLEAN, durationMs : Nat,
                       timeInitialized : BOOLEAN, lastNowMs : 0 .. Wrap - 1,
                       extendedNowMs : Nat]
  BY <1>1, <1>2 DEF TypeOK
<1> HIDE DEF extended
<1>7. CASE state = "ACTIVE"
  <2>1. job.state = "ACTIVE" /\ time < deadline
    BY <1>1, <1>2, <1>5, <1>7 DEF PolledStates
  <2>2. poll' = extended /\ job' = [job EXCEPT !.deadlineMs = deadline] /\ UNCHANGED delivered
    BY <1>4, <1>7
  <2>3. /\ job'.state = job.state /\ job'.kind = job.kind /\ job'.for = job.for
        /\ job'.deadlineMs = deadline
    BY <2>2 DEF TypeOK
  <2> QED
    BY <1>3, <1>6, <2>1, <2>2, <2>3 DEF time, deadline
<1>8. CASE state # "ACTIVE"
  <2>1. /\ poll' = [extended EXCEPT !.complete = @ \/ state = "SUCCEEDED"]
        /\ job' = NoJob
        /\ delivered' = [to |-> "COMPATIBILITY", of |-> job.for, state |-> state]
    BY <1>4, <1>8
  <2>2. /\ poll'.kind = extended.kind /\ poll'.durationMs = extended.durationMs
        /\ poll'.timeInitialized = extended.timeInitialized
        /\ poll'.lastNowMs = extended.lastNowMs
        /\ poll'.extendedNowMs = extended.extendedNowMs
    BY <2>1, <1>6
  <2>3. /\ delivered'.to = "COMPATIBILITY" /\ delivered'.of = job.for
        /\ delivered'.state = state
    BY <2>1
  <2>4. state = "TIMED_OUT" =>
           time >= deadline \/ MayGiveUp(kind, budget, deadline - time)
    BY <1>1, <1>2, <1>5 DEF PolledStates
  <2> QED
    BY <1>3, <1>6, <2>1, <2>2, <2>3, <2>4 DEF time, deadline
<1> QED
  BY <1>7, <1>8

-----------------------------------------------------------------------------
(* The inductive invariant *)

CompatibilityIInv == TypeOK /\ PollInv /\ TimeoutIsDue /\ OwnersResultIsKept

(* The invariant holds at the start, *)
LEMMA IInvInit == Init => CompatibilityIInv
<1> SUFFICES ASSUME Init PROVE CompatibilityIInv
  OBVIOUS
<1>1. TypeOK
  BY TypeInit
<1>2. last <= clock
  BY DEF Init
<1>3. /\ poll = NoPoll /\ job = NoJob /\ delivered = NoDelivery
  BY DEF Init
<1>4. /\ poll.kind = "NONE" /\ ~poll.timeInitialized
      /\ job.kind = "NONE" /\ job.for = "NOBODY"
      /\ delivered.state = "IDLE" /\ delivered.to = "NOBODY"
  BY <1>3 DEF NoPoll, NoJob, NoDelivery
<1>5. PollInv
  BY <1>2, <1>4 DEF PollInv, SlotIsAttributed, DeadlineAwaitsPoll, TimesAreOfFirstPoll
<1> QED
  BY <1>1, <1>4, <1>5 DEF CompatibilityIInv, TimeoutIsDue, OwnersResultIsKept

(* a compatibility poll keeps it, *)
LEMMA PollKeepsIInv ==
  ASSUME CompatibilityIInv, NEW kind \in PollJobKind \ {"NONE"}, NEW budget \in Budgets,
         PollCompatibility(kind, budget)
  PROVE  (PollInv /\ TimeoutIsDue /\ OwnersResultIsKept)'
<1> USE DEF CompatibilityIInv
<1>1. /\ first' \in Nat /\ first' <= clock
      /\ Extended = (first' % Wrap) + (clock - first')
      /\ Deadline(Extended) = (first' % Wrap) + poll.durationMs
      /\ poll.durationMs = WorkMs[kind] + MarginMs
      /\ WorkMs[kind] \in Nat \ {0}
  BY PollCountsFromFirst, Durations
<1>2. clock \in Nat /\ Wrap \in Nat \ {0} /\ first' % Wrap \in Nat
  <2>1. \A t \in Nat : t % Wrap \in Nat
    BY Division
  <2> QED
    BY <1>1, <2>1 DEF TypeOK
<1>3. job.for = "COMPATIBILITY" /\ poll.kind = kind
  BY OnlyCompatibilityIsPolled
<1>4. /\ poll'.kind = kind /\ poll'.durationMs = poll.durationMs
      /\ poll'.timeInitialized /\ poll'.lastNowMs = nowMs
      /\ poll'.extendedNowMs = Extended
      /\ last' = clock /\ clock' = clock
  BY PollEnds
<1>5. CASE /\ job'.state = job.state /\ job.state = "ACTIVE"
           /\ job'.kind = job.kind /\ job'.for = job.for
           /\ job'.deadlineMs = Deadline(Extended)
           /\ Extended < Deadline(Extended)
           /\ UNCHANGED delivered
  <2>1. SlotIsAttributed'
    BY <1>3, <1>4, <1>5 DEF SlotIsAttributed
  <2>2. DeadlineAwaitsPoll'
    BY <1>1, <1>4, <1>5, Durations DEF DeadlineAwaitsPoll
  <2>3. clock - first' < poll.durationMs
    BY <1>1, <1>2, <1>5
  <2>4. TimesAreOfFirstPoll'
    <3> SUFFICES /\ first' <= last' /\ clock' - last' < Wrap
                 /\ poll'.lastNowMs = last' % Wrap
                 /\ poll'.extendedNowMs = (first' % Wrap) + (last' - first')
                 /\ job'.deadlineMs = (first' % Wrap) + poll'.durationMs
                 /\ last' - first' < poll'.durationMs
      BY DEF TimesAreOfFirstPoll
    <3>1. first' <= last' /\ clock' - last' < Wrap
      BY <1>1, <1>2, <1>4
    <3>2. poll'.lastNowMs = last' % Wrap
      BY <1>4, Zenon DEF nowMs
    <3>3. poll'.extendedNowMs = (first' % Wrap) + (last' - first')
      BY <1>1, <1>4
    <3>4. job'.deadlineMs = (first' % Wrap) + poll'.durationMs
      BY <1>1, <1>4, <1>5
    <3> QED
      BY <1>4, <2>3, <3>1, <3>2, <3>3, <3>4
  <2>5. PollInv'
    BY <1>2, <1>4, <2>1, <2>2, <2>4 DEF PollInv
  <2>6. TimeoutIsDue'
    <3>1. job'.for # "NOBODY"
      BY <1>3, <1>5
    <3>2. job' # NoJob
      BY <3>1 DEF NoJob
    <3> QED
      BY <3>2 DEF TimeoutIsDue, NoJob
  <2> QED
    BY <1>5, <2>5, <2>6 DEF OwnersResultIsKept
<1>6. CASE /\ job' = NoJob
           /\ delivered'.to = "COMPATIBILITY"
           /\ delivered'.of = job.for
           /\ delivered'.state = "TIMED_OUT" =>
                \/ Extended >= Deadline(Extended)
                \/ MayGiveUp(kind, budget, Deadline(Extended) - Extended)
  <2>1. job'.for = "NOBODY" /\ job'.kind = "NONE"
    BY <1>6 DEF NoJob
  <2>2. PollInv'
    BY <1>2, <1>4, <2>1
       DEF PollInv, SlotIsAttributed, DeadlineAwaitsPoll, TimesAreOfFirstPoll, PollJobKind
  <2>3. OwnersResultIsKept'
    BY <1>3, <1>6 DEF OwnersResultIsKept
  <2>4. ASSUME delivered'.state = "TIMED_OUT"
        PROVE  /\ last' > first'
               /\ \E b \in Budgets :
                    LET left == first' + poll'.durationMs - last'
                    IN left <= 0 \/ MayGiveUp(poll'.kind, b, left)
    <3> DEFINE left == first' + poll'.durationMs - last'
    <3>1. left = Deadline(Extended) - Extended /\ left \in Int
      BY <1>1, <1>2, <1>4
    <3>2. Deadline(Extended) \in Int /\ Extended \in Int
      BY <1>1, <1>2
    <3>3. left <= 0 \/ MayGiveUp(kind, budget, left)
      <4>1. CASE Extended >= Deadline(Extended)
        BY <3>1, <3>2, <4>1
      <4>2. CASE MayGiveUp(kind, budget, Deadline(Extended) - Extended)
        <5> HIDE DEF left
        <5> QED
          BY <3>1, <4>2
      <4> QED
        BY <1>6, <2>4, <4>1, <4>2
    <3>4. last' # first'
      <4> SUFFICES ASSUME last' = first' PROVE FALSE
        OBVIOUS
      <4>1. left = WorkMs[kind] + MarginMs
        BY <1>1, <1>2, <1>4
      <4>2. ~(left <= 0) /\ ~(left < budget) /\ ~(left <= WorkMs[kind])
        BY <1>1, <4>1
      <4> QED
        BY <3>3, <4>2 DEF MayGiveUp
    <3>5. last' > first'
      BY <1>1, <1>2, <1>4, <3>4
    <3>6. left <= 0 \/ MayGiveUp(poll'.kind, budget, left)
      BY <1>4, <3>3
    <3> QED
      BY <3>5, <3>6
  <2> QED
    BY <2>2, <2>3, <2>4 DEF TimeoutIsDue
<1> QED
  BY <1>5, <1>6, PollEnds

(* and so does the start of a compatibility job, *)
LEMMA StartKeepsIInv ==
  ASSUME CompatibilityIInv, NEW kind \in PollJobKind \ {"NONE"}, StartCompatibility(kind)
  PROVE  (PollInv /\ TimeoutIsDue /\ OwnersResultIsKept)'
<1>1. /\ poll'.kind = kind /\ poll'.durationMs = CompatibilityDurationMs(kind)
      /\ ~poll'.timeInitialized
      /\ job'.for = "COMPATIBILITY" /\ job'.state = "ACTIVE" /\ job'.deadlineMs = NoDeadline
      /\ UNCHANGED <<clock, last, delivered>>
  BY DEF StartCompatibility, NoPoll
<1> QED
  BY <1>1 DEF CompatibilityIInv, PollInv, SlotIsAttributed, DeadlineAwaitsPoll,
              TimesAreOfFirstPoll, TimeoutIsDue, OwnersResultIsKept

(* what the other steps leave of a poll and a job, *)
LEMMA NoPollFields == NoPoll.kind = "NONE" /\ ~NoPoll.timeInitialized
  BY DEF NoPoll

(* No job is of no kind and for nobody. *)
LEMMA NoJobFields == NoJob.kind = "NONE" /\ NoJob.for = "NOBODY"
  BY DEF NoJob

(* and every step keeps it, *)
LEMMA IInvStep == CompatibilityIInv /\ [Next]_vars => CompatibilityIInv'
<1> SUFFICES ASSUME CompatibilityIInv, [Next]_vars
             PROVE  (PollInv /\ TimeoutIsDue /\ OwnersResultIsKept)'
  BY TypeStep DEF CompatibilityIInv
<1>a. TypeOK /\ PollInv /\ TimeoutIsDue /\ OwnersResultIsKept
  BY DEF CompatibilityIInv
<1> USE DEF PollInv, SlotIsAttributed, DeadlineAwaitsPoll, TimesAreOfFirstPoll,
            OwnersResultIsKept
<1>1. ASSUME NEW kind \in JobKind \ {"NONE"}, NEW ahead \in OwnerMs, StartOwnerJob(kind, ahead)
      PROVE  (PollInv /\ TimeoutIsDue /\ OwnersResultIsKept)'
  <2>1. poll' = NoPoll /\ job'.for = "OWNER" /\ UNCHANGED <<clock, last, delivered>>
    BY <1>1 DEF StartOwnerJob, ClearPollJob
  <2> QED
    BY <1>a, <2>1, NoPollFields DEF TimeoutIsDue
<1>2. ASSUME StartSingleShot \/ StartContinuousRead \/ StartApplyMaskEnable
      PROVE  (PollInv /\ TimeoutIsDue /\ OwnersResultIsKept)'
  BY <1>2, StartKeepsIInv
     DEF StartSingleShot, StartContinuousRead, StartApplyMaskEnable, PollJobKind
<1>3. ASSUME NEW budget \in Budgets,
             PollSingleShot(budget) \/ PollContinuousRead(budget) \/ PollApplyMaskEnable(budget)
      PROVE  (PollInv /\ TimeoutIsDue /\ OwnersResultIsKept)'
  BY <1>3, PollKeepsIInv DEF PollSingleShot, PollContinuousRead, PollApplyMaskEnable, PollJobKind
<1>4. CASE PollOwner
  <2>1. /\ job.for = "OWNER" /\ job'.for = "OWNER" /\ job'.kind = job.kind
        /\ UNCHANGED <<clock, poll, first, last, delivered>>
    BY <1>a, <1>4 DEF PollOwner, TypeOK
  <2> QED
    BY <1>a, <2>1 DEF TimeoutIsDue, NoJob
<1>5. CASE CancelJob
  <2>1. /\ job'.state = "CANCELLED" /\ job'.for = job.for /\ job'.kind = job.kind
        /\ job'.deadlineMs = job.deadlineMs
        /\ UNCHANGED <<clock, poll, first, last, delivered>>
    BY <1>a, <1>5 DEF CancelJob, TypeOK
  <2>2. job' # NoJob
    BY <2>1 DEF NoJob
  <2>3. UNCHANGED CompatibilityDurationMs(poll.kind)
    BY <2>1 DEF CompatibilityDurationMs
  <2> QED
    BY <1>a, <2>1, <2>2, <2>3 DEF TimeoutIsDue, NoJob
<1>6. CASE TakeJobResult
  <2>1. /\ job' = NoJob /\ UNCHANGED <<clock, poll, last>>
        /\ delivered'.to = "OWNER" /\ delivered'.of = job.for
        /\ delivered'.state = job.state
    BY <1>6 DEF TakeJobResult
  <2>2. ~(delivered'.of = "COMPATIBILITY" /\ delivered'.state = "TIMED_OUT")
    BY <1>a, <2>1
  <2>3. TimeoutIsDue'
    BY <2>2 DEF TimeoutIsDue, NoJob
  <2> QED
    BY <1>a, <2>1, <2>3, NoJobFields
<1>7. CASE WriteConfigRegister
  <2>1. poll' = NoPoll /\ UNCHANGED <<clock, job, first, last, delivered>>
    BY <1>7 DEF WriteConfigRegister, ClearPollJob
  <2> QED
    BY <1>a, <2>1, NoPollFields DEF TimeoutIsDue
<1>8. CASE Unbind
  <2>1. poll' = NoPoll /\ job' = NoJob /\ UNCHANGED <<clock, first, last, delivered>>
    BY <1>8 DEF Unbind, ClearPollJob
  <2> QED
    BY <1>a, <2>1, NoPollFields, NoJobFields DEF TimeoutIsDue
<1>9. CASE Tick
  <2>1. /\ clock' = clock + 1 /\ UNCHANGED <<poll, job, first, last, delivered>>
        /\ job.for = "COMPATIBILITY" /\ poll.timeInitialized => clock + 1 - last < Wrap
        /\ clock \in Nat /\ last \in Nat
    BY <1>a, <1>9 DEF Tick, TypeOK
  <2>2. TimeoutIsDue'
    BY <1>a, <2>1 DEF TimeoutIsDue, NoJob, MayGiveUp
  <2> QED
    BY <1>a, <2>1, <2>2 DEF CompatibilityDurationMs
<1>10. CASE UNCHANGED vars
  <2>1. UNCHANGED <<clock, poll, job, first, last, delivered>>
    BY <1>10 DEF vars
  <2>2. TimeoutIsDue'
    BY <1>a, <2>1 DEF TimeoutIsDue, NoJob, MayGiveUp
  <2> QED
    BY <1>a, <2>1, <2>2 DEF CompatibilityDurationMs
<1> QED
  BY <1>1, <1>2, <1>3, <1>4, <1>5, <1>6, <1>7, <1>8, <1>9, <1>10 DEF Next

(* so it holds throughout. *)
LEMMA IInvAlways == Spec => []CompatibilityIInv
  BY IInvInit, IInvStep, PTL DEF Spec

-----------------------------------------------------------------------------
(* The theorems *)

(* The extended time of an active compatibility job is the true time since *)
(* its first poll, the job gets its duration and no more, and a timeout is *)
(* never reported while there is time for its work: for every period of    *)
(* the clock, every bound of the work and every number of wraps.           *)
THEOREM DeadlineCorrect == Spec => []DeadlineIsTrue
<1>1. CompatibilityIInv => DeadlineIsTrue
  BY DEF CompatibilityIInv, PollInv, TimesAreOfFirstPoll, DeadlineIsTrue,
         ExtendedTimeIsTrue, DurationIsKept, CompatibilityActive
<1> QED
  BY <1>1, IInvAlways, PTL

(* The poll methods of the compatibility jobs never take the result of an  *)
(* owner's job.                                                            *)
THEOREM OwnersResultCorrect == Spec => []OwnersResultIsKept
<1>1. CompatibilityIInv => OwnersResultIsKept
  BY DEF CompatibilityIInv
<1> QED
  BY <1>1, IInvAlways, PTL

=============================================================================
