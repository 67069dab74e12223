# Formal model of the INA3221 driver

The INA3221 is a three-channel current and bus-voltage monitor on an I2C bus.
This driver for it (`src/INA3221.cpp`, `include/INA3221/`) is a single C++ class
that owns no bus, no thread and no clock: the application passes it transport
callbacks and calls it, from one thread, with the current time. Everything hard
about it comes from what happens *between* those calls and callbacks: a job
takes many polls, every callback may fail after the device has obeyed it, the
device may be reset without the driver's knowledge, reading an alert destroys
it, and time passes inside a poll as well as between polls. The repository also
holds two example applications, one for Arduino and one for ESP-IDF, each with a
transport adapter and a command line that owns the driver; they are modelled as
the driver's environment and as its model owner.

Contents: [inventory](#inventory), [modules](#modules-and-the-code-they-model),
[runs](#runs), [bounds](#bounds), [fairness](#fairness), [proofs](#proofs),
[divergences found](#divergences-between-documentation-and-code),
[not modelled](#what-is-not-modelled), [plan](#plan).

## Inventory

| Part of the driver | State it keeps | Operations | Module |
|---|---|---|---|
| Managed registers | desired `DeviceProfile`, `AppliedConfigState` of two register families, dirty flag | `_desiredRegister`, `_registerMatches`, `_markRegister...` | `ManagedRegisters` |
| Profile encoding | the profile, the device's register words, the legacy view | `_validateProfile`, `_desiredRegister`, `_buildConfigRegister`, `_legacyToContracts`, every setter and raw write | `ProfileRegisters` |
| Cooperative owner API | bound, initialized, profile, candidate, generation, job, pending result, last sample | `bind`, `unbind`, six `start...` calls, `pollJob`, `cancelJob`, `takeJobResult` | `OwnerJobs`, `OwnerContract` |
| Triggered sample timing | deadline, wait origin, wait duration, ready time, transfer budget | `pollJob` on a triggered sample | `TriggeredSample` |
| Legacy verified writes | legacy view of Configuration and shunts, on top of the owner state | typed setters, `writeRegister16`, `writeConfig`, `softReset`, `setShuntResistance` | `LegacyApi` |
| Legacy conversions | `_conversionStarted`, `_conversionReady` | `startConversion`, `cancelConversion`, `readConversionReady`, alert reads | `LegacyApi` |
| Alert evidence | retained events, uncertainty mark, alerts of the running and of the last sample | every read of Mask/Enable, `takeAlertEvents` | `AlertEvidence` |
| Compatibility poll jobs | kind, duration, extended time, deadline sentinel | `startSingleShot`, `startContinuousRead`, `startApplyMaskEnable` and their polls | `CompatibilityPoll` |
| Blocking calls | locals of one call | `readBlocking`, `begin`, `recover`, `powerDown` | `BlockingCalls` |
| Health tracking | three counters, threshold, `DriverState` | `_updateHealth`, `_recordFailure` | `Health`, `TransportHealth` |
| Fixed-unit arithmetic | none | `encode...`, `decode...`, `calculate...`, `convertRawChannel` | `FixedUnits` |
| Platform transports | bus, clock, timeout; on ESP-IDF the device handle | `wireWrite`, `wireWriteRead`, `initWire`, `setFrequency`; `ina3221Idf...` | `WireTransport`, `IdfTransport` |
| Bring-up command line | owner phase, automatic service, retained profile, addresses | `setup`, `serviceOwnerJob`, `job ...`, `init`, `end`, `freq`, `addr`, `mode`, `recover` | `BringupCli` |

How they interact. There is one job slot. The owner API, the compatibility poll
jobs and the blocking calls all start their work through `_startJob` and end it
through `_finishJob...`; the legacy setters write registers beside it and are
refused while a job is ACTIVE (not while a result is pending). All of them
change the same certainty state (`_measurementConfigState`, `_alertConfigState`,
`_hardwareConfigDirty`), the same retained profile and the same generation. Every
read of Mask/Enable, whoever makes it, goes through `_readMaskEnableWithTimeout`,
which retains the flags the device has just cleared and hands CVRF on to a
legacy conversion. Every tracked callback passes `_updateHealth`. Nothing runs
concurrently inside the driver; the other party is the device, which resets,
converts and latches alerts at any moment.

Below the driver, an adapter turns what `TwoWire` or the ESP-IDF master driver
answers into a `Status`, and the driver draws two conclusions from the code
alone: `INVALID_CONFIG` and `INVALID_PARAM` are not tracked, and these two,
`I2C_NACK_ADDR` and `DEVICE_NOT_FOUND` prove that a write changed nothing. Above
it, the command line keeps a phase of its own beside the job slot, polls with a
budget its transport can honour, and changes address and clock of the bus
under a bound driver.

What is hard, and what makes each part correct:

| Part | Hard behaviour | Correct when |
|---|---|---|
| Managed registers, owner API | a write that failed may have landed; a reset nobody reports; cancellation, deadline or mismatch between write and read-back; unbinding with a result or a sample outstanding | APPLIED is never a false claim; dirty flag and families agree; the `HardwareEffect` of a result is honest; certainty is gained only by verification; a sample with the current generation was taken under the current profile; one request, one result; a polled job ends |
| Triggered sample | time is read once per poll, truncated; callbacks take time; every poll brings its own deadline and budget; the device may be slow, and CVRF is cleared by looking at it | a delivered sample is of its own conversion; polls end by their deadline; admission is sufficient; wait and recheck are as long as documented; the job ends |
| Legacy writes and conversions | same state, other code paths; family of ten registers verified one at a time; raw writes; another call consumes CVRF | the owner's invariants survive; the legacy view never decides on outdated data and shows the shunts in use; readiness belongs to the present conversion |
| Alert evidence | destructive reads that fail half way | no cleared flag is missing without a mark, none is invented, no mark without a reason |
| Compatibility polls | 32-bit time extended to 64 bits, deadline set at the first poll, slot shared with the owner | extended time is true time, deadline is neither early nor renewed, an owner's result is not consumed |
| Blocking calls | a clock that may stand still or wrap | every call returns, leaves the slot free, spares the owner's job and gives up only on a clock that stands still |
| Health | saturating counters, state stored rather than derived | stored state equals the derived one, counters are the history |
| Profile encoding | several ways of computing the same word; setters that validate only what they touch; reserved bits; a float between two integers | the profile stays valid, the device holds the words it encodes to, the view leads back to it, an admitted read is measured |
| Transports | one timeout for the whole Wire bus; a bus error after the bytes were taken; failed and rolled back reconfiguration; temporary handles | codes that prove "not reached" are true, transfers reach the device that was asked, no handle is lost |
| Command line | phase and slot are changed by different commands; time left too short for the bus; unbinding on failure | phase and slot agree, a job is never refused by a bus that is up, an initialized driver's clock is verified, the profile survives unbind, serviced jobs end |
| Fixed units | rounding of negative values and ties, asymmetric fields, overflow, partial results | nearest codes, round trip, validity masks that say exactly what holds |

`PROJECT.json` lists each hazard at its line with the properties that cover it.

## Modules and the code they model

`map` in `PROJECT.json` gives the lines of every definition. Names follow the
source; the constants stand for values that the code fixes (`UINT32_MAX`,
`LastIndex` = 10) or the application chooses (profiles, deadlines, budgets).

**`ManagedRegisters`** has no variables. A register image is what the device
holds: a Configuration value (mode and an abstract setting) and one
abstract value for each managed alert register. Two values are different exactly
if `_registerMatches` tells them apart, so a profile *is* its register image and
its `calibration`: resistances and directions of the shunts, which are in no
register and still decide what a sample's currents are.
`MarkUnknown`/`MarkDirty` are `_markRegisterUnknown`/`_markRegisterDirty`.

**`OwnerJobs`** (extends it) is the cooperative API. Each `start...` call is an
action, and each stage of `pollJob` is an action per transport callback: the
callback with its outcome, plus everything the driver does until the next one.
This is `pollJob` with `maxTransfers = 1`; a poll with a larger budget is a
sequence of such steps. A write callback ends in one of six `WriteOutcome`s,
which pair what the driver is told with whether the device took the write; a read may
fail at every stage; `PollExpired` is a deadline noticed before a callback. Time
is abstract. `device`, `disturbed` (registers changed by a reset and not touched
by the driver since) and `reached` (a write of this job has landed) are ghosts:
no action of the driver depends on them except through the callback's outcome.
Calls that are refused change nothing and are not actions, nor is the guard
against an `i2cAddress` that differs. A callback that returns IN_PROGRESS is
excluded by the contract in `Config.h`.

**`OwnerContract`** is the abstract specification of the job slot: free, active,
pending; one request holds it; its result has an honest effect. `OwnerJobs`
instantiates it with a refinement mapping (`Contract`, `ImplementsContract`).

**`TriggeredSample`** is the triggered sample job on a clock of `TicksPerMs`
ticks. A poll is not atomic here: `BeginPoll` reads the time (truncated) and
computes the effective deadline and the divided transfer timeout, `Trigger`,
`ReadMask` and `ReadChannel` each take up to their timeout, and the poll returns
when its budget, the wait or the job is over. The device converts on its own.

**`LegacyApi`** extends `OwnerJobs` by the calls that touch registers directly.
`_writeManagedRegisterVerified` takes three steps (`Observe` the Mask/Enable
flags, `WriteDesired`, `VerifyOk`/`VerifyFails`), with device resets and ends of
conversions between them but no owner calls, because the call blocks; `call`
holds its locals. Owner actions are those of `OwnerJobs` with their effect on
the legacy view and conversion conjoined. The view is the Configuration fields
and the shunts of `_legacyConfigView`: raw writes change the former without the
profile, `SetShuntResistance` the latter together with the profile and the
generation.

**`AlertEvidence`** follows sets of flags from the device (`latched`) through the
read that clears them to `retained`, the running sample's `work` and the
`published` sample. `cleared`, `ambiguous` and `jobCleared` are ghosts that
record what the driver's reads really did.

**`CompatibilityPoll`** keeps the clock, the `_poll...` fields and a job reduced
to its deadline and its end. A poll may give up early by as much as the divided
transfer timeout and the admission of the trigger can cause (`MayGiveUp`).

**`BlockingCalls`** has the loops of `readBlocking` and
`_driveCompatibilityJob`, over the stages of a job that differ in whether a poll
makes a transfer or is silent. The clock advances, jumps or stands still.

**`Health`** counts tracked results, up to the limits, beside unlimited ghosts.

**`ProfileRegisters`** is the complement of `OwnerJobs` and `LegacyApi`: registers
are words of 16 bits with their fields, widths and reserved bits, and the bus
works, so that a call is one step. It contains the computation of every word
(`DesiredWord`, `buildConfigRegister`), what a healthy device makes of a word
(`Held`), `validateProfile`, the legacy view with its float resistances
(mantissa and exponent, rounded half to even, both when the integer becomes a float
and when it is divided), the cycle time tables, and one action per setter, raw write, profile job and read. `viewed` and `outcome` are
ghosts. It instantiates `FixedUnits` at the driver's widths.

**`WireTransport`** and **`IdfTransport`** have no variables. An operation maps the
adapter's context to the set of possible replies: next context, code, the
address it was sent to and whether the device took it. What the bus libraries
answer (`EndTransmission`, `EspErrors`, `Attempts`) is external. The IDF context
has the handles still installed and whether IDF refused to remove one.

**`TransportHealth`** extends `Health`: its steps are taken with the replies of one
of the adapters, while the application initializes, deinitializes and retunes
the adapter, moves it to another address and reads other devices. An untracked code
changes nothing in the driver.

**`BringupCli`** is the application: a turn of the service loop, a command and a
unit of time are steps. The driver is what the application sees of it (bound,
initialized, profile, slot); a poll is a transfer through the adapter that may
end the job. `ghost` records the clock at which the device last answered and
whether a failed restoration of the clock was reported.

**`FixedUnits`** contains the pure functions. Its behaviours walk through an
interval of inputs, so that invariants check each value. Division in C++
truncates; `Truncated` says so.

**`..._proofs`** modules hold the theorems about the module they are named after
(`LegacyApi_proofs` those about `OwnerJobs` as well, which `LegacyApi` extends;
`HealthAndEvidence_proofs` those about `Health`, `TransportHealth` and
`AlertEvidence`), **`MC...`** modules values for the constants of the runs.

## Runs

All state spaces are explored completely. Sizes are distinct states.

| Run | States | Question it answers |
|---|---|---|
| `owner_jobs` | 625 k | Do APPLIED and `HardwareEffect` stay true under every interleaving of calls, callback outcomes, cancellations, expiries and device resets; is certainty gained only by verification; is `OwnerJobs` an implementation of `OwnerContract`, with two requests to tell apart; and does every job but a triggered sample end under polling, without its deadline and though registers change while it runs? |
| `triggered_sample` | 314 k | Is a delivered sample of its own conversion, with its wait and reported start; do polls keep their deadline; is the admission bound enough; is the recheck interval kept; and does the job end, whatever deadlines its polls bring? |
| `recheck_shortened`, `low_cvrf` | | The two divergences described below (expected violations). |
| `legacy_calls` | 1.9 M | Do the legacy calls, mixed with owner jobs, keep APPLIED true, the dirty flag in agreement and the view current (`CertaintyIsHonest`); was a sample of the current generation taken under the present profile, its calibration included; are sample, mode and readiness consistent? |
| `alert_evidence` | 84 k | Is every destroyed flag delivered or marked, none invented and no mark without a reason (`EvidenceIsTrue`), in the retained evidence and in the sample? |
| `compatibility_poll` | 2.4 M | Does time extension survive wraps, is the deadline neither early nor renewed (`DeadlineIsTrue`), and are owner results spared? |
| `transport_health` | 34 k | Is the stored state the derived one over a real adapter; are the codes that stand for "not reached" true; do transfers reach the device asked for; are handles accounted for, through every failed and rolled back reconfiguration? |
| `blocking_calls` | 163 k | Do blocking calls return, hand back the slot, keep to their timeout, and give up only on a dead clock? |
| `fixed_units` | 27 k | Are the encodings nearest and reversible and is an accepted window a window (`EncodingIsFaithful`); are current, power, the outcome and the whole validity mask right for every pair of raw words, request and calibration (`ReadingIsConsistent`)? |
| `profile_registers` | 72 k | Do setters, raw writes, jobs, resets and restarts, in any order, keep profile, words, view and admission of reads in step? |
| `bringup_cli` | 35 k | Do phase and slot of the example applications agree; are their polls always ones the bus accepts; is the clock trusted and the profile kept; do serviced jobs end? |

A few properties are conjunctions of named parts, each stated with its own
comment: `SampleIsItsOwn`, `DeadlineIsTrue`, `EncodingIsFaithful`,
`CertaintyIsHonest` (which contains `AppliedIsTrue`, `DirtyFlagAgrees` and
`ViewAgrees`) and `EvidenceIsTrue`. `SampleMatchesGeneration` and
`SampleJobUnderVerifiedConfig` are defined in `OwnerJobs` and checked in
`legacy_calls`, whose behaviours contain those of the owner API.

Every property of a passing run has a mutant in `PROJECT.json`: a plausible bug
in a modelled definition under which TLC finds that property violated.

## Bounds

| Constant | Value | Why it is enough |
|---|---|---|
| `LastIndex` | 2 | Configuration, the register being handled and another of its family: the code treats all alert registers alike, by family. The theorems hold for every number. |
| `Candidates` | 2 profiles | they differ in mode and in alert registers (in `owner_jobs` also in calibration); a setter, a raw write or a reset changes either alone |
| `Calibrations`, `DefaultCalibration` | 2 | the one a sample was taken under and another |
| `MaxGeneration` | 3 (1 in `owner_jobs`, where no property reads it) | fresh, older, current, saturated |
| `RequestIds` | 1 or 2 | two where results must be told apart |
| `SampleReads`, `ChannelReads` | 1 or 2 | a first and a last read |
| `TicksPerMs`, `CycleTicks`, `WaitMs` | 2, 1, 1 (3, 2, 1 in the runs of the divergences) | a callback may end within a millisecond, at its end and after it; the cycle is shorter than the wait by a margin, as 100 µs and the rounding make it |
| `Deadlines`, `PollDeadlines`, `MaxClock` | {6, 9}, {0, 3, 5, 7, 12}, 9 ms | six milliseconds is the shortest deadline that admits a trigger; nine leave room for a recheck; polls bring earlier and later deadlines, and none. The clock bound disables only passage of time, not driver steps. |
| `Wrap` | 5 (`CompatibilityPoll`), 16 (`BlockingCalls`) | jobs last longer than one period, resp. calls straddle the wrap anywhere |
| `WorkMs`, `MarginMs`, `Budgets` | 4/2/3, 3, {0, 1, 3} | each kind its own duration; no transfers, one, all |
| `SpinLimit`, `JobTransfers` | 2, 3 | reset of the counter before and at the limit |
| `Thresholds`, `MaxConsecutive`, `MaxTotal`, `MaxCallbacks` | 0 to 2, 2, 2, 5 | both counters fill; thresholds 0 to the limit |
| `Addresses`, `Clocks`, `Timeouts` | two of each and one invalid, 0 to 3 ms | the address in use and another; timeouts of zero, shorter than Wire's, equal, longer than IDF allows |
| `TransferMs`, `JobMs`, `Budgets` (`BringupCli`) | 2, 5, {0, 1, 3} | two transfers and a rest too short for one; no budget, one, more than time allows |
| `FloatBits`, `MicroPerUnit`, `MaxMicroOhms` | 8, 500, 2000 | resistances of less than 7 bits must return exactly, one of 8 bits and one of 10 (no float itself) are rounded, the least is below one micro-ohm as a float. The real 24, 10^6 and 2^32 - 1 satisfy the same inequalities, under which the theorem holds. |
| profiles and words of `profile_registers` | 3 profiles, 1 or 2 words each | defaults, limits that are negative or between two codes, a window whose ends round to one code, a channel without calibration (refused), the least calibration and a large one; words with reserved bits and signs; masks with every status bit set and clear |
| widths in `fixed_units` | fields of 5 and 7 bits at the driver's shifts, steps 40 and 800, `IntMax` 5000 | every limit over the range of each field and beyond, every word; currents and powers overflow on both sides, bus voltages beyond the maximum exist. The functions are the same at every width. |

`legacy_calls` and `transport_health` use a `VIEW`. The first leaves out the
content of a pending result, the ghost `reached`, the fields of a job that has
ended, the candidate left from before a sample job, and the profile of a sample
of an earlier or the saturated generation; the second the total counters, and of
the last reply everything but the verdict of the two properties about it. No
action of these runs reads what is left out and no property of the run depends
on it, so states equal under the view have equal futures.
`alert_evidence` uses the symmetry of the alert flags, none of which any definition names.

Constraints on the environment that are part of the models: at most one device
reset between two callbacks changes anything (a second is the same image); a
caller of the staged compatibility polls polls once per clock period, as
`README.md:518` of the driver demands, and does not mix native `pollJob` calls,
whose time base is another, into a compatibility job; within one blocking call the clock does not
stand unread for half a period or more. `CHECK_DEADLOCK FALSE` stands only where
the behaviour does end: at the last input of `FixedUnits`, and where
`CompatibilityPoll` has used up its clock.

## Fairness

- `OwnerJobs!FairSpec`: weak fairness of `Poll`. The owner calls `pollJob` while a
  job is active, which is how the API is defined to be used; it need not cancel,
  take results or start anything, and callbacks may fail or succeed at will.
- `TriggeredSample!FairSpec`: weak fairness of `Poll` for the same reason and
  strong fairness of `Tick`: real time passes, though polls interrupt it.
- `BlockingCalls!FairSpec`: weak fairness of the loop step only. The call runs by itself;
  nothing is assumed of the clock, which may stand still for ever.
- `BringupCli!Spec`: weak fairness of a turn of the loop and of the clock. `loop()`
  and `app_main` come round again after every command, and time passes. Nothing
  is assumed of the user or of the bus.

No device is assumed to be fair: a conversion may never end.

## Proofs

The theorems hold for all values of the constants that satisfy the named
`ASSUME`s, which TLC evaluates in every run. Most only say that the constants have
sensible types. Those that say more follow the code: in `FixedUnits`, `WordBits` is
the sum of a field's shift and width and `MaximumBus` a whole number of steps
(26000 mV is 3250 steps of 8 mV); in `BlockingCalls`, accepted timeouts are below
half a period of the clock (`INT32_MAX`); in `CompatibilityPoll`, a poll's transfers
fit into the margin of the job's duration; in `TriggeredSample`, the wait is longer
than the conversion cycle; in `ProfileRegisters`, four inequalities between the bits of a
float, the micro-ohms of an ohm and the largest `uint32_t` (`FloatAssumption`; they
hold of 24, 10^6 and 2^32 - 1).

### Inductive invariants

Hardly a property above is inductive as it stands. The invariants that make it so end
the component's module, those of the adapters are in `HealthAndEvidence_proofs`; TLC checked them on the instances of
the runs before they were proved, and being proved, no run repeats them.

- **Owner API** (`OwnerIInv`, from `TypeInv`, `AppliedInv`, `KnownWrites` and `SampleInv`).
  `TypeOK` needs `JobShape`, that an active job is at a stage of its kind, for
  `index + 1` to be an index. APPLIED is set when a job has passed the last register, so every
  register it has passed must hold the candidate's value or have been changed by a
  reset since (`PassedRegistersMatch`), and a register that is written and not yet verified
  must not be claimed (`WrittenIsMarked`). While a job runs the driver knows
  whether it has written (`WritesAreKnown`), because a write it is not sure of ends the job at
  once; `SlotIsBlocked` keeps the ghost from moving on while the result is pending. The
  dirty flag needs `PowerDownIsMarked`, the generations `SampleIsNotAhead`.
- **Legacy calls** (`LegacyIInv`: `OwnerIInv` and `CallIsPrepared`,
  `WrittenIsUnclaimed`, `ConversionIsTriggered`). An owner step is a step of
  `OwnerJobs`, so its lemmas are reused; a legacy step runs while no job is active. A
  call's candidate differs from the profile only in the register it writes, and what
  it may claim again of the *other* alert registers must still hold when it verifies.
- **Alert evidence** (`EvidenceInv`). One lemma about a read with any outcome
  (`ReadKeepsEvidence`) serves every action that reads; the sample's part needs
  `WorkIsTheJobs`, that the working copy has seen what the job's reads cleared.
- **Triggered sample** (`SampleIInv`). `PollFits`: what is left of a poll's budget, times the
  divided timeout, fits before its deadline; `StageIsTold` and `StartIsLatched`: the reported
  start is no earlier than the trigger's millisecond, the wait is counted from it, and Mask/Enable is
  read after it. Admission needs `TimeIsUsedAsAdmitted`, which says at every stage
  how much of the admitted time a prompt owner can have used, and `PromptPollsHaveTime`;
  the recheck interval needs `RecheckIsAwaited`.
- **Compatibility poll** (`CompatibilityIInv`). `TimesAreOfFirstPoll` relates the truncated
  clock to the true one: since a caller polls once per period, the unsigned difference of
  two readings is the true difference, and the extended time the true time since the first poll.
- **Blocking calls** (`BlockingIInv`). `ClockIsFollowed` does the same for the sample's
  loop and bounds its spins by the polls at which nothing moved; `JobIsTheCalls` bounds the
  polls of a driven job by its transfers, so that its limit is never reached.
- **Health** (`HealthInv`). A counter that is full still decides every admissible
  threshold (`LimitDecidesThreshold`).
- **Adapters** (`AdapterInv`). Every handle that is installed is the record's, unless IDF
  refused to give one up, which `Accounted` states of a context, so that there is one
  lemma per operation of the adapter, with any reply.
- **Application** (`CliInv`). An active job has a bound driver, on IDF with a
  handle for the driver's address, and Wire has `initWire`'s timeout (`DriverHasItsDevice`). With
  it, the share of the remaining time that a budget leaves each transfer is at least Wire's
  timeout (`ShareIsEnough`) and IDF refuses nothing (`IdfRefusesNothing`).
- **Profile and words** (`ProfileIInv`). The five properties need each other: a read is admitted
  by the retained profile and measured by the registers (`RegistersHoldTheProfile`), an
  invalid profile has no words, and a job skips a register that matches, so that even a raw
  write must leave a word a device can hold (`WordsAreHoldable`). Of words that can be held,
  `_registerMatches` is equality (`MatchIsEquality`). `ViewHolds` and `ConversionIsViewed` say that
  whatever writes Configuration unseen ends the conversion; hence its delay is that of what
  Configuration shows. The calls reduce to three lemmas: a job (`JobKeeps`), a write
  of Configuration (`ConfigWriteKeeps`), a write of one alert register, whose word no other
  setting changes (`AlertWriteKeeps`). They rest on lemmas about the encodings at the
  driver's 16 bits: every accepted setting has a word that can be held, and every masked
  word is the word of the value that is retained for it (`ConfigIsBuiltBack`,
  `MaskIsReadBack`, `LimitIsReadBack`, `SumIsReadBack`).
- **Float resistances** (`SmallIsReadBack`). A float has a scale (`ScaleExists`, by the least
  element of a set of numbers); the rounding error of a calibration below 2^(FloatBits - 1)
  is then less than half a micro-ohm.
- **Fixed units**. There is no state to speak of; the theorems are about operators. Rounding to the
  nearest follows from the defining inequalities of a floor quotient, with negative numerators by symmetry.
  That fields are read back needs that powers of two are positive and that
  2^(m+n) = 2^m 2^n, which are inductions over data; the number of subsets of an interval,
  from the library's theorems on cardinality, gives both (`SubsetCount`, `PowerOfSum`).

### Theorems

| Module | Theorems | What they state |
|---|---|---|
| `LegacyApi_proofs`, of `OwnerJobs!Spec` | `TypeCorrect`, `AppliedCorrect`, `EffectCorrect`, `OwnerInvariant`, `DirtyFlagCorrect`, `SampleCorrect` | `TypeOK`, `AppliedIsTrue`, `EffectIsHonest`, `OwnerIInv`, `DirtyFlagAgrees`; `SampleMatchesGeneration` and `SampleJobUnderVerifiedConfig` |
| | `CertaintyCorrect` | the action property `CertaintyOnlyByVerification` |
| | `ContractCorrect` | `ImplementsContract`: `OwnerJobs` refines `OwnerContract`, step by step |
| `LegacyApi_proofs`, of `LegacySpec` | `LegacyInvariant`, `HonestyCorrect`, `SampleGenerationCorrect`, `SampleJobCorrect`, `ReadinessCorrect` | `LegacyIInv`, `CertaintyIsHonest`, `SampleMatchesGeneration`, `SampleJobUnderVerifiedConfig`, `ReadinessIsAccounted` |
| | `LegacyContractCorrect` | `ImplementsContract` and `EffectIsHonest`: the legacy calls leave the contract intact |
| `HealthAndEvidence_proofs` | `EvidenceCorrect`, `SampleAlertsCorrect` | `EvidenceIsTrue`, and the step property `SampleAlertsAreItsOwn` |
| `TriggeredSample_proofs` | `SampleInvariant`, `SampleTypeCorrect`, `SampleIsOwnCorrect`, `AdmissionCorrect` | `SampleIInv`, `TypeOK`, `SampleIsItsOwn`, `AdmittedTriggerHasTime` |
| | `PollDeadlineCorrect`, `RecheckCorrect` | the step properties `PollEndsByDeadline` and `SteadyRecheckInterval` |
| `CompatibilityPoll_proofs` | `DeadlineCorrect`, `OwnersResultCorrect` | `DeadlineIsTrue`, `OwnersResultIsKept` |
| `BlockingCalls_proofs` | `SlotCorrect`, `GivingUpCorrect`, `TimeoutCorrect`, `OwnersSlotCorrect` | `SlotIsHandedBack`, `GivenUpOnlyWhenStalled`, `NoLateTransfer`, and the step property `OwnerKeepsItsSlot` |
| `HealthAndEvidence_proofs` | `StateCorrect` (of `Health!Spec`), `TransportStateCorrect` | `StateIsDerived` and `CountersAreHistory`; over the adapters because every step is one of `Health` or leaves it unchanged |
| | `AdapterInvariant`, `NotReachedCorrect`, `RightDeviceCorrect`, `HandlesCorrect` | `AdapterInv`, `NotReachedIsTrue`, `RightDevice`, `HandlesAreAccounted` |
| `BringupCli_proofs` | `CliInvariant`, `PhaseCorrect`, `PollsCorrect`, `ClockCorrect`, `ProfileCorrect` | `CliInv`, `NoOrphanJob`, `JobsReachTheBus`, `FrequencyIsTrusted`, `LastProfileIsKept` |
| `ProfileRegisters_proofs` | `ProfileInvariant`, `ProfileCorrect`, `RegistersCorrect`, `VerificationCorrect`, `ViewCorrect`, `ReadingsCorrect` | `ProfileIInv`, `ProfileStaysValid`, `RegistersHoldTheProfile`, `HealthyDeviceVerifies`, `LegacyViewIsTrue`, `ReadingsAreMeasured`: for every profile, word, mask of status bits and size of float |
| `FixedUnits_proofs` | `RoundDivideNearest`, `CurrentCorrect`, `EncodingCorrect`, `ReadingCorrect` | `_roundDivide` is nearest; `CurrentIsNearest`, `EncodingIsFaithful`, `ReadingIsConsistent`: outcome, values and validity mask, as equalities |

Theorems of a specification with fairness do not use the fairness.

### Only model-checked

- Liveness: `ActiveJobEnds`, `SampleJobEnds`, `CallReturns`, `ServicedJobEnds`. With it
  ENABLED and fairness are out of the prover's reach.
- The two expected violations, which are counterexamples.

## Divergences between documentation and code

1. `recheck_shortened`. A low CVRF is documented to be rechecked no sooner than
   50 ms later. The code stores the *poll's* effective deadline as the end of the
   wait when the interval does not fit (`INA3221.cpp:1541`). If that deadline came from
   `PollContext::deadlineMs` of this one poll, a later poll without it rechecks
   early. `SteadyRecheckInterval` shows that nothing happens to an owner that leaves the deadline to the job.
2. `low_cvrf`. A comment says CVRF is only seen low after the maximum conversion
   time. The wait begins at a poll time later than the `nowMs` the trigger poll was
   given, which was read *before* the write; a callback that ends late in the
   next millisecond makes the wait up to a millisecond short.
   `WaitIsShortByLessThanAMs` shows that it is never more, and `SampleIsAtomic`
   that no wrong sample is delivered: the cost is a needless recheck.

Observations that contradict no document: a Mask/Enable read that fails after the device has
taken it leaves a legacy conversion STARTED until `cancelConversion` or a
profile job (`adc = "LOST"`); legacy calls are refused only while a job is
ACTIVE, so a raw Configuration write may forget a compatibility poll job and leave its
result pending for `takeJobResult`; cancelling a power-down whose write was confirmed
makes an UNKNOWN measurement family DIRTY; a calibration of 1 micro-ohm, which `bind`
accepts, is a float just below 10^-6 ohms in `getConfig`, which `begin` refuses for an enabled channel
(`INA3221.cpp:632`), as `setShuntResistance` refuses it: the one small calibration that
`LegacyViewIsTrue` excepts.

Of the examples: the address chosen by `addr` ("run init to apply",
`main.cpp:2233`) is forgotten when a job's result is taken in between, because
`serviceOwnerJob` selects the address in use; near its deadline `readBlocking`
asks for a shorter transfer than the Arduino bus takes and ends with
`INVALID_CONFIG` rather than `TIMEOUT`, which is what `wireSafeTransferBudget`
avoids for the command line's own jobs; after a bus that did not come up, `init` still binds on
Arduino and its job ends with an untracked `INVALID_CONFIG`; the branch of `initializeDeviceAt` for a
`bind` that fails cannot be reached, the profile having been validated before.

## What is not modelled

- `maximumJobTransfers`, the float helpers and the float results of the legacy
  measurement reads: products of numbers. The former enters as a constant.
- Timestamps of the last success and failure, which decide nothing; content of
  snapshots, progress and settings getters.
- `begin` unbinding after a failed start (a composition of `Unbind` with the
  driven job), and two drivers on one bus.
- Adapters: transfer statistics and the last IDF error, which nothing reads
  back; the pin sequence that frees a stuck bus; a clock that a rejected
  `setClock` has changed after all (`I2cTransport.h:219`), of which the adapter's record, which is what
  the model follows, knows nothing.
- Command line: text, parsing, self-test and the framing for hardware-in-the-loop
  runs; commands that only print or set one field beyond the mode, which are
  calls of the driver's modules. `stress_freq` is a sequence of `freq` commands.
- The stand-alone scanner and board constants, tests and tools: no state of the
  driver's.

## Plan

Built, in this order: `ManagedRegisters`, `OwnerJobs` with its first theorems,
`OwnerContract`, `TriggeredSample`, `LegacyApi`, `AlertEvidence`,
`CompatibilityPoll`, `Health`, `BlockingCalls`, `FixedUnits`, `ProfileRegisters`,
`WireTransport`, `IdfTransport`, `TransportHealth`, `BringupCli`.

To extend the model: `maximumJobTransfers` and the documented callback bounds (a
profile job never exceeds its 35 or 33 callbacks, whatever the device does);
`begin` and `recover` as a composition of `BlockingCalls` with the lifecycle.

To prove more: every safety and step property of a run is a theorem. What is left
needs more model first: the bound on a profile job's callbacks, and that the
blocking `begin` and `recover` keep `OwnerIInv`.
