---------------------------- MODULE AlertEvidence ----------------------------
(***************************************************************************)
(* The flags of Mask/Enable.  The device clears them when they are read,   *)
(* so every read the driver makes, for whatever reason, takes evidence     *)
(* away that the application has not seen.  The driver retains it until    *)
(* takeAlertEvents, and gives a sample the flags its own job has read.     *)
(*                                                                         *)
(* A read may fail after the device has cleared the flags: then the        *)
(* evidence is gone, and the driver must say so.                           *)
(*                                                                         *)
(* Jobs appear with the stages that matter here: a profile job may read    *)
(* Mask/Enable several times (comparison and verification), a sample job   *)
(* reads it before its channels.                                           *)
(***************************************************************************)
EXTENDS Naturals

CONSTANTS
  Alerts,  \* the latched alert flags CF, SF and WF
  CVRF,    \* the conversion-ready flag, which is destructive too
  Levels   \* the condition levels PVF and TCF, which a read leaves alone

Events == Alerts \union {CVRF}  \* kDestructiveAlertEvents

ASSUME AlertEvidenceAssumption ==
  /\ CVRF \notin Alerts
  /\ Levels \intersect Events = {}

Kind == {"NONE", "PROFILE", "TRIGGERED_SAMPLE", "CONTINUOUS_SAMPLE"}
Stage == {"IDLE", "PROFILE", "SAMPLE_WRITE_CONFIG", "SAMPLE_READ_MASK", "SAMPLE_READ_CHANNELS"}

(* AlertSnapshot, as far as it is evidence. *)
Snapshot == [events : SUBSET Events, evidenceUncertain : BOOLEAN]
NoEvidence == [events |-> {}, evidenceUncertain |-> FALSE]

(* How one read of Mask/Enable ends.  ABORTED: the driver gives up before  *)
(* the callback.  I2C_NACK_ADDR stands for the codes that prove that the   *)
(* device was not reached.                                                 *)
ReadOutcome ==
  { [code |-> "OK",            clears |-> TRUE],
    [code |-> "ABORTED",       clears |-> FALSE],
    [code |-> "I2C_NACK_ADDR", clears |-> FALSE],
    [code |-> "I2C_ERROR",     clears |-> FALSE],
    [code |-> "I2C_ERROR",     clears |-> TRUE] }

VARIABLES
  retained,   \* _retainedAlerts
  job,        \* _jobKind, _jobStage of the active job
  pending,    \* _hasPendingJobResult
  work,       \* _sampleWork: alerts and alertSnapshotValid
  published,  \* _lastGoodSample, the same fields
  latched,    \* ghost: the flags the device holds
  cleared,    \* ghost: flags cleared by the driver's reads, not yet acknowledged
  ambiguous,  \* ghost: such a read failed and may have reached the device
  jobCleared  \* ghost: flags cleared by the reads of the current job

alertVars == <<retained, job, pending, work, published, latched, cleared, ambiguous, jobCleared>>

NoJob == [kind |-> "NONE", stage |-> "IDLE"]
NoSample == [alerts |-> NoEvidence, alertSnapshotValid |-> FALSE]
-----------------------------------------------------------------------------
(* _writeMayHaveReachedDevice, for a failed read. *)
MayHaveReached(code) == code = "I2C_ERROR"

(* _retainMaskEnable, for the retained record and for the sample's; raw is *)
(* the set of bits that are set.                                           *)
DestructiveEvents(raw) == raw \intersect Events

Retain_Latest(snapshot, raw) == [snapshot EXCEPT !.events = DestructiveEvents(raw)]

Retain(snapshot, raw) == [snapshot EXCEPT !.events = @ \union DestructiveEvents(raw)]

ConsumeInto_Latest(snapshot, raw) == Retain_Latest(snapshot, raw)

ConsumeInto(snapshot, raw) == Retain(snapshot, raw)

(* The device's side of a read, and what really happened. *)
DeviceReads(o) ==
  /\ latched' = IF o.clears THEN {} ELSE latched
  /\ cleared' = IF o.clears THEN cleared \union latched ELSE cleared
  /\ jobCleared' = IF o.clears /\ job # NoJob THEN jobCleared \union latched ELSE jobCleared
  /\ ambiguous' = (ambiguous \/ o.code = "I2C_ERROR")

(* _readMaskEnableWithTimeout *)
ReadMaskEnable(o, raw) ==
  /\ DeviceReads(o)
  /\ retained' = IF o.code = "OK" THEN Retain(retained, raw)
                 ELSE [retained EXCEPT !.evidenceUncertain = @ \/ MayHaveReached(o.code)]

-----------------------------------------------------------------------------
(* Outside jobs *)

(* readAlertFlags, readRegister16, the observation and the verification of *)
(* a Mask/Enable setter, the readiness checks: each refused during a job.  *)
LegacyRead(o, levels) ==
  /\ job = NoJob
  /\ ReadMaskEnable(o, latched \union levels)
  /\ UNCHANGED <<job, pending, work, published>>

(* takeAlertEvents: at any time, also during a job. *)
TakeAlertEvents ==
  /\ retained' = NoEvidence
  /\ cleared' = {}
  /\ ambiguous' = FALSE
  /\ UNCHANGED <<job, pending, work, published, latched, jobCleared>>

UnbindAlerts ==
  /\ retained' = NoEvidence
  /\ job' = NoJob
  /\ pending' = FALSE
  /\ work' = NoSample
  /\ published' = NoSample
  /\ cleared' = {}
  /\ ambiguous' = FALSE
  /\ jobCleared' = {}
  /\ UNCHANGED latched

-----------------------------------------------------------------------------
(* Jobs *)

(* _startJob resets the work of the job before it. *)
StartJob(kind, stage) ==
  /\ job = NoJob
  /\ ~pending
  /\ job' = [kind |-> kind, stage |-> stage]
  /\ work' = NoSample
  /\ jobCleared' = {}
  /\ UNCHANGED <<retained, pending, published, latched, cleared, ambiguous>>

StartContinuousSample(consumeAlertSnapshot) ==
  StartJob("CONTINUOUS_SAMPLE",
           IF consumeAlertSnapshot THEN "SAMPLE_READ_MASK" ELSE "SAMPLE_READ_CHANNELS")

Finish ==
  /\ job' = NoJob
  /\ pending' = TRUE

(* A profile job reads Mask/Enable with no sample to consume it. *)
ProfileRead(o, levels) ==
  /\ job.stage = "PROFILE"
  /\ ReadMaskEnable(o, latched \union levels)
  /\ IF o.code = "OK" THEN UNCHANGED <<job, pending>> ELSE Finish
  /\ UNCHANGED <<work, published>>

(* The trigger writes Configuration, which makes the device drop CVRF. *)
Trigger ==
  /\ job.stage = "SAMPLE_WRITE_CONFIG"
  /\ job' = [job EXCEPT !.stage = "SAMPLE_READ_MASK"]
  /\ latched' = latched \ {CVRF}
  /\ UNCHANGED <<retained, pending, work, published, cleared, ambiguous, jobCleared>>

(* The read of a sample job, which repeats while CVRF is low after a trigger. *)
SampleRead(o, levels) ==
  /\ job.stage = "SAMPLE_READ_MASK"
  /\ ReadMaskEnable(o, latched \union levels)
  /\ IF o.code = "OK"
       THEN /\ work' = [alerts |-> ConsumeInto(work.alerts, latched \union levels),
                         alertSnapshotValid |-> TRUE]
            /\ job' = IF job.kind = "TRIGGERED_SAMPLE" /\ CVRF \notin latched THEN job
                      ELSE [job EXCEPT !.stage = "SAMPLE_READ_CHANNELS"]
            /\ UNCHANGED pending
       ELSE /\ work' = [work EXCEPT !.alerts.evidenceUncertain = @ \/ MayHaveReached(o.code)]
            /\ Finish
  /\ UNCHANGED published

(* _finishJobSuccess of a sample: the whole work is published. *)
CommitSample ==
  /\ job.stage = "SAMPLE_READ_CHANNELS"
  /\ published' = work
  /\ Finish
  /\ UNCHANGED <<retained, work, latched, cleared, ambiguous, jobCleared>>

(* The end of a profile job, and every failure, timeout or cancellation. *)
EndJob ==
  /\ job # NoJob
  /\ Finish
  /\ UNCHANGED <<retained, work, published, latched, cleared, ambiguous, jobCleared>>

TakeJobResult ==
  /\ pending
  /\ pending' = FALSE
  /\ work' = NoSample
  /\ UNCHANGED <<retained, job, published, latched, cleared, ambiguous, jobCleared>>

-----------------------------------------------------------------------------
(* The device latches flags, and a reset or a write of Configuration drops *)
(* what no read has taken.                                                 *)
Latch(flag) ==
  /\ latched' = latched \union {flag}
  /\ UNCHANGED <<retained, job, pending, work, published, cleared, ambiguous, jobCleared>>

DeviceDrops(flags) ==
  /\ latched' = latched \ flags
  /\ UNCHANGED <<retained, job, pending, work, published, cleared, ambiguous, jobCleared>>

AlertInit ==
  /\ retained = NoEvidence
  /\ job = NoJob
  /\ pending = FALSE
  /\ work = NoSample
  /\ published = NoSample
  /\ latched \in SUBSET Events
  /\ cleared = {}
  /\ ambiguous = FALSE
  /\ jobCleared = {}

AlertNext ==
  \/ \E o \in ReadOutcome, levels \in SUBSET Levels :
       o.code # "ABORTED" /\ LegacyRead(o, levels)
  \/ TakeAlertEvents
  \/ UnbindAlerts
  \/ StartJob("PROFILE", "PROFILE")
  \/ StartJob("TRIGGERED_SAMPLE", "SAMPLE_WRITE_CONFIG")
  \/ \E consume \in BOOLEAN : StartContinuousSample(consume)
  \/ \E o \in ReadOutcome, levels \in SUBSET Levels : ProfileRead(o, levels)
  \/ Trigger
  \/ \E o \in ReadOutcome, levels \in SUBSET Levels : SampleRead(o, levels)
  \/ CommitSample
  \/ EndJob
  \/ TakeJobResult
  \/ \E flag \in Events : Latch(flag)
  \/ DeviceDrops({CVRF}) \/ DeviceDrops(Events)

AlertSpec == AlertInit /\ [][AlertNext]_alertVars
-----------------------------------------------------------------------------
(* Properties *)

AlertTypeOK ==
  /\ retained \in Snapshot
  /\ job \in [kind : Kind, stage : Stage]
  /\ pending \in BOOLEAN
  /\ work \in [alerts : Snapshot, alertSnapshotValid : BOOLEAN]
  /\ published \in [alerts : Snapshot, alertSnapshotValid : BOOLEAN]
  /\ latched \subseteq Events
  /\ cleared \subseteq Events
  /\ ambiguous \in BOOLEAN
  /\ jobCleared \subseteq Events

(* Whatever flag a read of the driver has cleared on the device is in the  *)
(* retained record until the application acknowledges it, or the record    *)
(* says that evidence may be missing (README: "Every library read retains  *)
(* those event bits", "never fabricates").                                 *)
NoSilentLoss == cleared \subseteq retained.events \/ retained.evidenceUncertain

NothingFabricated == retained.events \subseteq cleared

(* The mark of uncertainty is not raised by a read that cannot have        *)
(* reached the device, and not kept after an acknowledgement.              *)
UncertainForAReason == retained.evidenceUncertain => ambiguous

(* The retained record is neither short of flags nor invented, and admits  *)
(* uncertainty exactly as far as a failed read caused it.                  *)
EvidenceIsTrue == NoSilentLoss /\ NothingFabricated /\ UncertainForAReason

(* A published sample that claims an alert snapshot bears every flag its   *)
(* own job cleared, over all its rechecks, even if the application took    *)
(* the retained events meanwhile, and none of another job; its evidence is *)
(* complete.                                                               *)
SampleAlertsAreItsOwn ==
  [][ published' # published /\ published'.alertSnapshotValid =>
        /\ published'.alerts.events = jobCleared
        /\ ~published'.alerts.evidenceUncertain ]_alertVars

(* Why it holds: at every stage of a sample job, the work holds exactly    *)
(* what the job cleared; a read that fails ends the job.                   *)
SampleStage == {"SAMPLE_WRITE_CONFIG", "SAMPLE_READ_MASK", "SAMPLE_READ_CHANNELS"}

WorkIsTheJobs ==
  job.stage \in SampleStage =>
    work.alerts.events = jobCleared /\ ~work.alerts.evidenceUncertain

SlotIsBlocked == pending => job = NoJob

EvidenceInv ==
  /\ NoSilentLoss
  /\ NothingFabricated
  /\ UncertainForAReason
  /\ WorkIsTheJobs
  /\ SlotIsBlocked
=============================================================================
