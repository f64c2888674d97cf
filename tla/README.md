# ThermoLedger: a TLA+ model of guarded building control

ThermoLedger drives one cooling setpoint of a simulated five-zone office
(EnergyPlus) from Python. A deterministic fallback controller decides, an
independent safety guard judges and audits, an executor writes to the
actuator; operator-approved plans can be executed in its place; states and
decisions travel through bounded queues into SQLite. Around that core, offline
programs train a micro-twin, evaluate plans with a comfort ledger and keep
their evidence in shared databases, a supervisor lets a language model ask for
this evidence through tools, and a dashboard serves a snapshot of it. The
modules here are translated from the code under `src/src/` and `src/scripts/`
(paths below are relative to the repository root, so `src/safety/guard.py` is
the file `src/src/safety/guard.py` of `PROJECT.json`).

The document has six parts: the inventory of the system, the modules and how
they correspond to the code, the runs of TLC, the theorems, where the code and
its documents disagree, and the plan for what is not done yet.

## 1. Inventory

### Parts that are modelled

| Part | State | Operations | Hard behaviour | What makes it correct |
| --- | --- | --- | --- | --- |
| **Fallback controller** `src/control/fallback_policy.py`, `decision_engine.py`, `controller_memory.py` | one memory per zone: occupancy counters, hold countdown, recovery and active flags, frozen baseline, last command; last sequence | `evaluate_zone`, `FallbackDecisionEngine.evaluate` | a minimum hold is consulted before occupancy, protection and recovery; a baseline that must not be the controller's own override | commands stay within the bounds and the delta; holds last; occupants and hot zones are served within a hold |
| **Safety guard and audit store** `src/safety/guard.py`, `memory.py`, `models.py`, `src/storage/safety_store.py` | switches, run context, last safe command, highest source sequence, decision per command id; committed rows and an open transaction | `evaluate` (about twenty ordered checks), `reset_for_run`, `reset_for_environment`, `warmup_complete`, `disable`, `begin_shutdown`; `append`, commit, rollback | the audit write lies between the decision and the memory; duplicates, holds and the rate limit refer to earlier decisions | what is released is in bounds, on record and under a unique id |
| **Guarded actuation** `scripts/fallback_live_common.py`, `src/safety/write_gate.py`, `executor.py`, with the numbering of `sensor_collector.py` and `normalizer.py` | one-slot command buffer, executor's sequence, handle and active flag, the actuator | `publish_snapshot`, the system timestep callback, `close` | two callbacks alternate; any step of the hook may fail after the ones before it took effect | nothing stands on the actuator without a committed grant in its time; resets reach it |
| **Module 7 executor** `src/control/fallback_executor.py`, `command_buffer.py` | buffer with its ids, executor's sequence and flag, the actuator | the same callbacks without a guard; `close` | the clock of the executor stands still when the hook fails | what stands was asked for by a command in its time; nothing stands after the run |
| **Scripted actuator test** (Module 5) `src/energyplus/actuator_controller.py`, `actuator_registry.py`, `actuator_plan.py`, `scripts/run_actuator_test.py`, `validate_actuator_test.py` | handles, flags, call counts, events, files | set in the window, reset after it, observe, close, verdict, validation | API calls that take effect and raise; handles that stay missing; files that stay incomplete | what outlives its window is on record; PASS is confirmed by the validator, but for what the script overlooks |
| **Candidate plans** `src/planning/generator.py`, `validator.py` | none | `generate_plans`, `validate_actions` | limits of planning and of the guard meet | what validation accepts the guard does not change |
| **Plan execution** `src/execution/*`, `src/storage/execution_store.py`, `scripts/run_execution_short.py`, `run_module14a_aligned_short.py` | approval file and its database row, scheduler, a guard of its own, report | approve, arm, observe, act, fail, reset, close, consume | artifacts change between approval and execution; callbacks continue after an error or a stop; readings, writes and resets fail | the approved plan is executed as planned, once, and the actuator is given back |
| **Sensing run and state pipeline** `src/energyplus/runner.py`, `src/state/bus.py`, `src/storage/persistence_worker.py`, `src/control/writers.py`, `scripts/run_state_bus_integration.py`, `fallback_live_common.py`, `replay_sensor_states.py` | four threads, two bounded queues with batches, the API state, the rows of the run, the script's verdict | start, handles, wait with soft timeout, publish, enqueue, store, finalise, stop and join, report | timeouts, interrupts, writers that are slow or die, shutdown whose steps may each fail | no state vanishes uncounted; the rows and the verdict tell the truth; every thread ends; the API state outlives the simulation |
| **MCP tool service** `src/mcp_server/service.py`, `src/storage/mcp_store.py` | the audit of calls, planning contexts and selections, what is recorded on disk | look-up, one of 44 handlers, insertion; several processes | look-up, handler and insertion are three steps; an id is answered from the record, failures included | a request id is answered once and for all |
| **Supervisor** `src/agent/*`, `src/storage/llm_store.py` | a session per request: iteration, steps, corrections, prefetch; the recorded responses | generate, correct, call, prefetch, answer, refuse, record, look up | everything the provider and the tools may do; restarts; two processes with one request | no success without audited evidence; calls within the limit; what is returned is recorded; sessions end |
| **Comfort ledger and thermal bank** `src/ledger/evaluation.py`, `src/thermal_bank/accounting.py` | burden, credit, debt; the movements of the bank | one entry per predicted timestep, totals, settlement | rounding, clamps and the order in which reserves and withdrawals take from what is left | debt and balance account for what moved |
| **Evidence stores and offline programs** `src/storage/microtwin_store.py`, `ledger_store.py`, `execution_store.py` with their schemas; ten scripts | planning.db, microtwin.db with three schemas in one file, model files, approval artifacts | plan, train, evaluate, evaluate the ledger, approve, replay, compare, assess | programs stopped between two commits; INSERT OR IGNORE and REPLACE; migrations in any order | evidence names only evidence that is there, and is added to, not changed |
| **Evidence dashboard** `src/dashboard/evidence.py`, `server.py`, `scripts/build_dashboard_evidence.py` | artifacts, the snapshot file, what the server presents | check, hash, read, write, validate, serve | three passes over files that others write | a server presents one moment |

Of these, guarded actuation, dashboard and micro-twin are listed as *partly*
modelled in `PROJECT.json`, each with what is left out. *Partly* are also the
parts of which only the effect on others is modelled: the sensor registry and
writers (handles and files in `SensingRun`), the state model (sequences and
readings), the LLM providers (the environment of `Supervisor`), the planning
context (when it can be built and what is stored of it), and execution
alignment and assessment (what its programs read and write in
`EvidenceStore`).

### Parts that are not modelled

| Part | Why |
| --- | --- |
| **Regression, forecasts, scores, energy comparison** | Floating-point numbers that no state of another part depends on beyond an order, which is a free choice in the models, or a qualification, which is a constant. |
| **EnergyPlus installation and run configuration** | Loading a library, parsing configuration and collecting messages; the failure to load is the fault `api` of `SensingRun`. |
| **Conversion of states and queries** | Pure conversions of a row; that a repeated sequence is refused is modelled. |
| **Pages and sections of the dashboard** | They copy what was read. |
| **Offline validation and demo scripts** | Sequential readers of files whose only state is what they print; `validate_actuator_test.py` is the exception, since `PassIsValidated` is about it. |
| **Texts of the language model** | A free choice: any call of an offered or another tool, an answer, or nonsense. |

### How the parts interact

EnergyPlus calls Python back in its own thread: a system timestep callback
(`SafetyExecutor`, or one of its two predecessors), then the end of a zone
timestep (`SensorCollector`), whose hook `publish_snapshot` normalises the
snapshot, publishes it on the `StateBus`, lets the engine decide, queues the
decision for the `ControllerWriter`, asks the guard and publishes the command
for the next timestep. The subscriber of the bus queues states for the
`StatePersistenceWorker`. The main thread starts the extensions, waits for
EnergyPlus, closes the extensions in reverse order and reports. Plan execution
is a separate process: approval files and planning artifacts are read, each
action passes through a new guard without a store.

The offline programs share databases and files, not memory: the stores of
candidates, ledger and executions migrate the same microtwin.db, the tools of
the MCP service read what the programs left, the supervisor calls the service
in its own process, and the dashboard hashes the artifacts of all of them.

## 2. Modules

Setpoints and temperatures are integers, in hundredths of a degree. A
fingerprint or an id that is a hash is the value it hashes. Wording, logging
and the layout of files are left out.

| Module | Models | Composes |
| --- | --- | --- |
| `FallbackController` | the policy and the engine: `Evaluate` is one call of `FallbackDecisionEngine.evaluate` | |
| `SafetyGuard` | `Judgement` is `_evaluate`; `ReturnOriginal`, `FailInternally`, `FailClosed`, `Finish` are the ways `evaluate` returns; `Append`, `Rollback`, `StoreRefuses` are the store; the memory's operations | |
| `GuardedControl` | one action per callback outcome: `SystemTimestep`, `SensorFailure`, `RepeatedSequence`, `EnqueueFailure`, `PublishSnapshot`, `CloseActive`, `CloseInactive` | `FallbackController`, `SafetyGuard`; refines `AuthorisedActuation` |
| `AuthorisedActuation` | the abstract promise: the actuator moves only to what a recorded grant says, while the clock is in the grant's periods, and grants are recorded one at a time under new ids | |
| `EnergyPlusRun` | the weather run as an extension with one actuator sees it: timesteps, calls in them, schedule, override, error flag | |
| `ScriptedActuation` | Module 5: the controller's callbacks as operators from a record to the records it may become; the verdicts of script and validator | `EnergyPlusRun` |
| `FallbackActuation` | Module 7: buffer, executor, hook | `EnergyPlusRun`, `FallbackController` |
| `UnguardedRun` | a run of one of the two, and their properties | `ScriptedActuation`, `FallbackActuation` |
| `Planning` | `Candidates` is `generate_plans`, `Valid` is `validate_actions` | |
| `PlanExecution` | approvals, arming, and the three runners: the orchestrator's loop, the callbacks of the short and the aligned run | `Planning`, `SafetyGuard` |
| `WriterThread` | a bounded queue, its batching thread and STOP | |
| `SensingRun` | main thread, simulation thread and two writers; live sensing, live control, and replay | `WriterThread` twice |
| `ToolHandlers` | one operator per handler: what it answers with what is on disk | |
| `ToolService` | a call as `Execute`, `OpenAudit`, `AppendAnswer` of a process | `ToolHandlers`; refines `ToolAudit` |
| `ToolAudit` | the abstract promise: an id has one answer, told to all who ask | |
| `SupervisorPolicy` | required evidence, offered tools, canonicalisation, prefetch arguments, the policy | `ToolHandlers` |
| `Supervisor` | the bounded loop and the session store | `ToolService`, `SupervisorPolicy` |
| `ComfortLedger` | `evaluate_rollout` as a machine over the timesteps: `AddEntry`, `Total`, `Settle` | |
| `MicroTwin` | the files of a training, and rollouts of what they hold | |
| `EvidenceStore` | the offline programs, each as its commits | `MicroTwin` |
| `EvidenceDashboard` | builder and server, one artifact at a time | |
| `MC...` | values of constants, fairness and history variables for TLC | the module they are named after |
| `SafetyGuardProofs`, `GuardedControlProofs`, `PlanExecutionProofs`, `SensingRunProofs`, `UnguardedRunProofs` | theorems | the module they are named after |
| `FallbackControllerProofs` | theorems about the controller, and about its history | `MCFallbackController` |
| `ToolServiceProofs` | theorems about the service and the sessions | `Supervisor` |
| `EvidenceProofs` | theorems about evidence as it is computed, stored and presented | `ComfortLedger`, `EvidenceStore`, `EvidenceDashboard` |

Conventions. A fault is something the environment may do and the code handles;
the composed models have a variable `faults`, fixed when a run or a session
starts, so that a property can say which faults it excepts. A fault in the set
may happen any number of times and need not happen. Operators whose comment
begins with "Mutant" are plausible bugs, used only to confirm that the
properties notice them.

Correspondence that is not obvious:

* `GuardedControl` starts in the weather run after warmup: before that every
  callback returns without effect. `currentSequence` is the executor's
  attribute, which the hook sets (`fallback_live_common.py:244`); commands
  expire against it.
* The reading of the effective setpoint is the override while one stands and
  the building's schedule otherwise. This is how EnergyPlus reports it, and it
  is external to the code.
* The hook's exceptions are caught by the collector, so each failure is an
  action that keeps what was done before it: `EnqueueFailure` has advanced the
  normaliser and the controller, not the guard nor the count of snapshots.
* A call to the actuator's API (`Writes` of `EnergyPlusRun`) may take effect
  or not and may raise the error flag or not, under the fault `api`. Module 5
  looks at the flag and Module 7 does not, which is the difference the
  exception of `UnguardedReleases` states.
* Severe errors of EnergyPlus that leave the exit code 0 (`severe`), and a
  source, baseline or weather file that is exchanged before the validation
  (`ExchangeInputs`), are choices of the environment: nothing in a run of the
  script looks at either.
* A file of `MicroTwin` that a training writes but no rollout reads is left out:
  weights, feature schema, validation report and manifest remain.
* `PlanExecution` draws the guard's proposals from the plan, with `Audited`
  FALSE: the executors construct `SafetyGuard` without a store.
* In `SensingRun` the loop of `EnergyPlusRunner.run` that closes the
  extensions is split wherever another thread can run in between: before each
  `put`, `join`, and the deletion of the API state. `main = "escaped"` is an
  exception that leaves `run` (a `queue.Full` raised by `stop()`).
* `rows` of `WriterThread` is what SQLite has committed, so a crash of the
  process at any point leaves exactly a reachable value of it. Nothing reads
  the database at the next start: there is no recovery to model.
* A tool's answer is the code of its envelope. Its data is fixed by the
  request and the artifacts on disk, so two answers with one code may differ
  in data only when the disk has changed in between; no property needs that.
* A session of the supervisor is a process, `place` is where it is in `run`.
  `Raised` is an exception that leaves `run` without a response
  (`supervisor.py:151`), and `Stop` the end of the process anywhere.
* The code's binary fractions are the integers of `ComfortLedger` up to an
  error far below their unit. It decides only where a number is rounded from a
  tie (`Rounded`, a set) or compared with one that it equals (`Exceeds`,
  `MayOverdraw`, `MayOverfill`), and there both outcomes are possible: 0.03 and
  0.27 together are more than 0.3, and `closing_balance` refuses them.
  Units are chosen so that every constant of the computation is whole: see
  the module's comment.
* A program of `EvidenceStore` computes its batch from the files when it
  starts, then migrates, then persists. The operators `OrIgnore`, `OrReplace`,
  `Kept` and `NewTransactions` are the conflict clauses and foreign keys of the
  schemas, in the transactions of the stores.

## 3. Runs

Deadlock is checked in `MCSafetyGuard`, where some action is always possible.
The other specifications end (a run is closed, a session or a bound is over),
so `CHECK_DEADLOCK` is FALSE there, and termination is stated instead, as
`ThreadsEnd`, `SessionsEnd`, `SnapshotsDecided`.

### Runs that pass

Every safety property and action property of these runs is also proved, for all
values of the constants that part 4 admits: a run shows a property on a small
instance, and that its case happens there at all. What is left to TLC alone is
liveness: `SnapshotsDecided`, `ResetsReachActuator`, `ThreadsEnd`,
`SessionsEnd`.

**MCFallbackController.** The deployed limits, hold and grace, one zone, every
sequence of 16 states with four temperatures on both sides of the recovery,
hysteresis and protection thresholds, three native setpoints and missing
readings. Sixteen evaluations span three holds of four with the grace period
between, so a take-over, relaxation, recovery, reset and second take-over all
occur. Shows the bounds on commands, that a hold repeats its setpoint, that
relaxation yields to occupants and to protection, and that recovery begins,
within a hold.

**MCSafetyGuard.** Two commands, with values near and far on both sides of the
bounds, every single defect of the second command, unusable values, resets, a
store that fails at any time or is full, the switches and resets of the
memory. Two ids suffice: every check compares a proposal with one earlier
decision, and uniqueness with any number of ids is proved (part 4). Shows bounds, audit
before release, unique ids, that only resets are released after disable or
shutdown, rate limit.

**MCGuardedControl.** Four timesteps of a live run under three sets of faults.
Four timesteps with a hold and a grace of one contain a take-over, a
re-application, a change of setpoint that the rate limit cuts, a reset and a
second take-over. Shows `Authorised`, the refinement of `AuthorisedActuation`,
and, unless the store fails, that the baseline is the building's
(`BaselineIsNative`), that no command outlives its time (`ExpiredIsReplaced`)
and that a closed run has given the actuator back (`ClosedReleases`).

**MCControlFair.** The same with the fairness below: every snapshot is decided
on, and a decision to reset gives the actuator back.

**MCPlanExecution.** One session of each runner in each mode, over the plans
of four contexts (the canonical one, a vacancy, setpoints at and beyond the
bounds), with no faults, with all, and with all but a failing or refused
reset; the horizon is the deployed twelve. Shows `ExecutedAsPlanned`,
`FaultlessPasses`, `SessionsRelease`, `OverrideIsApproved`. One session is
enough for these: a session starts with a fresh guard, scheduler and actuator,
and what a second one could inherit (approval, package, inputs) changes freely
before the first as well.

**MCSensingRun.** Four timesteps, queues of one and batches of two, so that
queues fill, batches fill, and a last batch is incomplete; three callers;
three sets of faults (all with an answer, all but slow writers and failing
files, and also without failing stores and starts). Shows that no state
vanishes uncounted, that a clean row is complete, that rows and verdict tell
the outcome, that the API state outlives the simulation and that run and
threads end. The fault `interrupt` is in none of the sets: see part 5.

**MCSupervisor.** Two supervisor processes and a direct caller, two starts in
all, three requests of which two share a request id, three iterations, three
calls, one correction; the state database appears at any time. Two starts
suffice for a restart with the same request, for two processes with it, and
for a conflict. Three iterations are what a correction, a prefetch of two
tools and an answer need. Shows `EvidenceIsAudited`, `StepsWithinLimit`,
`ReturnedIsRecorded`, `SessionsEnd`, and `CallsAreAudited`, the refinement of
`ToolAudit`.

**MCComfortLedger.** Rollouts of five timesteps over six kinds of point
(within, bound beyond, prediction beyond on either side, beyond in a protected
event only, unoccupied), four opening debts, four opening balances, every
strategy. The limits are small, so that credits, debt, deposits, withdrawals
and balance all reach them, and are met exactly: an evaluation whose reserves
are its whole deposit is among the cases, as is one that fills the bank. Shows
`DebtIsAccounted`, `BankIsBalanced`, `RefusalIsRounding`.

**MCEvidenceStore.** Six programs started in any order, each stopped anywhere,
two qualified models and one that is not, two versions of the settings, two
interchangeable approvals (symmetry). Six suffice for training, candidates,
ledger, approval and replay in sequence, and one of them again in any place.
Shows `EvidenceIsLinked`, `EvidenceIsAdditive`, `SessionsAreApproved`.

**MCUnguardedRun.** Five timesteps with up to two system timesteps in each; a
window of two timesteps with one before it and two after, eight sets of
faults, severe errors and exchanged inputs among them. Shows
`OverrunIsReported`, `PassIsValidated`, `UnguardedReleases`.

**MCEvidenceDashboard.** Three artifacts, one of them only hashed, one the
database; three changes in all, so that one may change and change back while
another changes. Shows `ServedIsOfOneMoment`.

### The run that finds a disagreement

**MCPlanApproval** checks `ConsumedNeverRuns`, which
`docs/OPERATOR_APPROVAL.md:7` and `docs/RISK_REGISTER.md:96` promise
("one-time consumption fail closed"): a consumed approval arms a second
session, because what is consumed is the row and what is validated the file.
The run allows two sessions and needs no fault.

### Bounds

Every bound is a constant: `MaximumSequence` (evaluations of the controller,
snapshots of a run), `MaximumRows` of `SafetyGuard` (of the audit store, whose
being full is a failure it has anyway), `MaximumSessions`, `MaximumStarts`,
`MaxPrograms`, `MaxRewrites` and `MaxContent`, `MaximumCalls` of
`EnergyPlusRun`, `RolloutSteps` of `ComfortLedger` (the predicted timesteps of a
rollout), `Horizon` of a plan, `Steps` of a run, `Capacity`, `BatchSize`. Values of
setpoints and temperatures are chosen on both sides of, and at, every
threshold that the code compares with. Sequences are not collapsed by
symmetry: there is one controlled zone and one actuator.

### Fairness

* `FairSpec` (MCControlFair): weak fairness of `SystemTimestep`, since
  EnergyPlus calls the system callback in every timestep, and strong fairness
  of `RepeatedSequence \/ PublishSnapshot`, since a sensor that fails need not
  fail for good: a run in which every reading fails decides on nothing. There
  is no fairness on `close`; properties name it as the alternative.
* `SensingSpec`: weak fairness of each thread. All waits of the main thread
  and of the callbacks have a timeout, except the one for the simulation after
  the grace period, and EnergyPlus is assumed to return from a run. A timeout
  fires only when what is waited for is slow (fault `slow`) or can no longer
  happen.
* `SupervisorFairness`: weak fairness of a session's next step. The provider
  has a timeout of its own and the session another; tools are calls in the
  same process. A process may still be stopped, which ends its session.

## 4. Theorems

Every theorem holds for all constants that the named assumptions of its
modules admit; TLC evaluates those on each run. Theorems that need more say so
in an `ASSUME`, listed below with what in the code justifies it. Most proofs
have the same shape: an inductive invariant as a conjunction of named parts, a
lemma per action (or one per part that says when a step leaves it alone), one
step lemma by cases of the next-state relation, and theorems that read the
property off the invariant.

### What is assumed beyond the modules' own assumptions

| Assumption | Theorems | Why the code justifies it |
| --- | --- | --- |
| `NearBounds`: a native setpoint lies outside the absolute bounds by the delta at most | `Authority` | the schedules of the model and `config/fallback_controller.yaml`; otherwise the two clamps of `evaluate_zone` cannot both hold, and the code prefers the upper one |
| `Gaps \subseteq 1 .. MaximumSequenceGap` | `HoldRepeats` | the collector numbers the snapshots of a live run one by one; after a larger gap the engine replaces the decision by a reset but keeps the memory of it, and the next hold applies a setpoint that was never issued |
| `AboveMinimum`: no native setpoint under the minimum | `RelaxationEnds` | the same schedules; the lower clamp would otherwise raise a command over its baseline |
| `Zones \subseteq ApprovedZones`, `MinimumSetpoint <= RecoverySetpoint` | `RecoveryActs` | the policy controls no other zone, and is configured with 22.0 and 23.9 |
| `CommandTtl >= 1` | `BaselineNative`, `ExpiredReplaced`, `ReleasedAtClose` | the time to live is configured and a command with none expires before it is valid |
| `NoInterrupt`: no fault set holds `interrupt` | `PublishedIsStored`, `CleanRow`, `RowTells`, `PassStored` | not justified, but a disagreement (part 5): an interrupt in the first wait or in the grace period closes the writers under a running simulation |
| `NobodyIsNoRecord`: the value of a caller without a call has no field `request` | `ServiceImplementsAudit` | `None` of Python has none |
| `MaximumIterations <= MaximumCalls` | `WithinCallLimit` | six and six are configured; the smoke scripts set three or four calls with six iterations, where up to two more are made (part 5) |
| `WindowEnd <= Steps`, `RecoverySteps >= 1` | `PassValidated` | the window is a day in July of a run of a year; the validator looks at eight observations after the window |

Two named assumptions of the modules carry weight as well.
`LimitsAssumption` of `PlanExecution` says that the limits of planning lie
within those of the guard: both configurations have 22 to 30 C and steps of
1.61 K (`config/planning.yaml`, `config/safety_guard.yaml`), and that the last
action of a template with its hold ends within the horizon of twelve.
`DashboardAssumption` says that what is read is also hashed, as
`MANDATORY_ARTIFACTS` has it.

### Guard and controller

`SafetyGuardProofs`: `TypeCorrect`, `InBounds`, `OnRecord`, `IdsAreUnique`,
`RememberedOnRecord` (the last three with one row per transaction, which is
the live setting), `StoppedResets`, `RateLimited`. The inductive invariant is

    GuardInv == GuardTypeOK /\ MemorySound
                  /\ (Audited /\ CommitInterval = 1 => StoreSound)

`ReleasedInBounds` is not inductive: a hold re-issues and the rate limit adds
to the setpoint of `lastSafe`, so the memory must refer to released and sound
commands only (`MemorySound`). That what is remembered is on record depends on
the open transaction being empty between calls, since a rollback discards it
(`StoreSound`), and unique ids depend on the store's primary key, because the
memory forgets its ids when it is reset. `JudgementSound` says, once and for
all checks, what an answer may be; `FinishInv`, `FailClosedInv` and
`ReturnOriginalInv` take the ways `evaluate` returns one by one.
`StoppedResets` needs no invariant: it is the order of the checks, and the
mutant that looks for duplicates first refutes it.

`FallbackControllerProofs`: `TypeCorrect`, `Authority`, `HoldRepeats`, and,
with the history of `MCFallbackController`, `RelaxationEnds` and
`RecoveryActs`. A command is near its baseline because the baseline of an
active zone stays the setpoint it was taken over with (`WithinAuthority`). The
two about time rest on a sum: for as long as a zone has been hot (or occupied,
or protected) and a hold still runs, the length of that streak and what is left
of the hold are together no more than `MinimumHold` (`Recovers`, `Yields`), so
that a streak beyond it meets an evaluation that is not held.

### Guarded control

`GuardedControlProofs`: `ActuationAuthorised` is the refinement of
`AuthorisedActuation`; `BaselineNative`, `ExpiredReplaced`, `ReleasedAtClose`
are about runs whose store does not fail. They use the theorems of guard and
controller through `INSTANCE` (`GuardFacts`, `ControllerFacts`): the guard's
invariant holds in the composition, since each step of it is a step of the
guard or leaves it alone, and the controller's types hold for any reading,
since it may read its own override back.

The refinement needs little more than that (`ContractInv`): what is in the
buffer was released by a guard that is never stopped here, and each row was
decided from an earlier state (`Counters`). The other three share an inductive
invariant in three parts, none of which holds alone. There is one row per
counted snapshot, so that ids are fresh and the store is never full
(`OneRowPerSnapshot`); therefore the guard answers, and the buffer has the
command for the period at hand, which the executor puts on the actuator
(`LatestIsCurrent`); therefore a zone that the controller has released has been
given back (`ReleasedWhenInactive`), and the next baseline it reads is the
building's.

### The unguarded runs

`UnguardedRunProofs`: `UnguardedInvariant`, `OverrunReported`,
`CommandsRelease`, `PassValidated`. The scripted controller may be wrong about
the actuator, since a call may take effect and raise. The invariant is therefore
conditional on its errors: as long as none is on record, what it believes to
stand does stand (`Standing`), and every write of an earlier timestep has been
seen by an observation, as has the recovery after the window (`Witnessed`). What
it has recorded is consistent in either case (`Recorded`). From these
`PassValidated` follows: the validator refuses a passed run only for what the
script overlooks (`Overlooked`; part 5). The executor of
Module 7 keeps no errors; without faults of the API its flag, its handle and
the actuator agree, and the period of the command that stands is the current one
(`FallbackInv`).

### Plan execution

`PlanExecutionProofs`: `ExecutionInvariant`, and from it `Planned`, `Passes`,
`Released`, `Approved`, for all planning contexts and all sets of faults. That
the guard changes no planned value is the core of it (`MemoryInv`): its last
safe command is the action executed last, or the next action has already been
judged; and as values of a plan differ by `PlanChange` at most, within both rate
limits, the guard allows the value as it is. `ProgressInv` makes of it that
the executed actions are the beginning of the plan, `ReleaseInv` relates the
actuator, the report and the reset, and `FaultlessInv` counts: without faults
nothing is refused, nothing comes late, and everything due is done.

### Sensing run

`SensingRunProofs`: `SensingInvariant`, `StateOutlives`, `PublishedIsStored`,
`CleanRow`, `RowTells`, `PassStored`, for every number of timesteps, queue
length and batch size. The invariant is conservation: what a writer has stored,
taken and queued, one after the other, is what it was given, in order and once,
with STOP at the end (`StatesInv`, `DecisionsInv`, over `Carries`). A state
that is not in that sequence was refused by the full queue, and counted, or is
with the callback (`Missing`). The rest is about the reports: the main thread
is behind the `put` of STOP when STOP is in a queue or a writer has stopped
(`StatesClosing`), so that what it then reads of the writers is final
(`ClosedInv`, `RowInv`, `VerdictInv`).

### Tool service and sessions

`ToolServiceProofs`: `ServiceImplementsAudit`, that the service, under
supervisors that are stopped and started at any point, implements `ToolAudit`,
for any callers, sessions, requests and handlers. The invariant (`ServiceInv`)
only says that the audit is a sequence of rows of a request and a code. The
work is in the steps: a call that is not answered by the step makes its caller
forget (`UnansweredForgets`), an answered one tells it its row
(`AnsweredTells`), and each of the five steps of a call gives a row that the
abstract audit has (`Repeat`), may record (`Record`), must refuse (`Refuse`) or
promises nothing of (`Mismatch`). What the look-up has found does not enter:
`Record` follows from the keys of the table at the insertion
(`AppendAnswerAnswers`).

`SupervisorInvariant` adds the sessions: what a session counts as a success is a
row of the audit under an id of its own (`StepsAudited`), which stays one since
the audit only grows, and a response is backed by such rows from the moment it
is made (`Fit`), also while another process inserts one for the same request.
`EvidenceBacked`, `WithinCallLimit` and `ReturnsRecorded` follow. The limit of
calls rests on `Budget`: a prefetch is preceded by a correction, which took an
iteration without a call, and what is left to prefetch is counted in advance.

### Evidence

`EvidenceProofs` has three parts.

*As it is computed*, for every rollout, number of steps, opening and limit that
`PointsAssumption` and `SettingsAssumption` admit: `DebtAlwaysAccounted`,
`BankAlwaysBalanced`, `RefusalAlwaysRounding`. The inductive invariant
(`LedgerInv`) adds to the three properties that amounts are natural numbers.
The argument is about rounding: the uncertainty reserve, a tenth of the
deposit, stays within the balance even when it is rounded up
(`UncertaintyFacts`); the event reserve exceeds what then remains by half a
millionth at most (`ReserveFacts`), in which case nothing is left to withdraw,
and that half is the whole overdraft that `closing_balance` can see, up to the
last bit of its sum (`CloseFacts`, `SettleInv`). The theorem does not say that a
refusal needs a rounding: movements that leave exactly nothing are refused or
not by that bit, and it says that these two are all the overdrafts there are,
whatever is withdrawn or charged.

*As it is stored*, for every set of plans, trainings and approvals and every
number of programs, each stopped between any two commits: `StoreInvariant`,
`Linked`, `SessionsApproved`, `Additive`. `EvidenceIsLinked` is not inductive:
the batch that a program holds between its computation and its commit must
refer to plans that are on record (`ProgramInv`), and rows are replaced under
keys that stay (`KeysKept`). `EvidenceIsAdditive` is an action property: rows
are added, or replaced under their own key where the table allows it, and an
approval keeps its row and its consumption (`ApprovalsStep`).

*As it is presented*: `DashboardInvariant`, `ServedOfOneMoment`, for any
artifacts in any order and any number of rewritings. The builder hashes and
reads, the server validates, each one artifact at a time. The invariant counts:
an artifact that showed a checksum, the content of the moment, a value read and
the present content has changed since the first at least as often as two
neighbours of these differ (`Apart`). A server that finds the checksum again
has made a circle of them, so that a value that is not of the moment has cost
two changes (`MatchedOneMoment`).

### Only model-checked

The four liveness properties, which need fairness and so are beyond the prover,
and `ConsumedNeverRuns`, which is false. No module declares a `RECURSIVE`
operator.

## 5. Where code and documents disagree

Besides the consumed approval, which has a run. The properties are stated so
that they hold of the code; where one excepts a case, the case is below.

*Guard and control*

* The rate limit is 1.61 C per decision (`docs/SAFETY_GUARD.md:42`), but a
  value within the marginal clamp of a bound is clamped before the rate check
  (`guard.py:143`) and may move by as much as the bounds are apart;
  `MovesWithinRate` excepts clamps.
* `config/fallback_controller.yaml:49,53` lets an expired command release the
  actuator; a command whose successor could not be audited expires in the
  buffer and stays on the actuator (`executor.py:55`); `ExpiredIsReplaced`
  excepts a failing store.
* "Stop rather than drop decisions" (`docs/RISK_REGISTER.md:66`): after one
  exception of the hook (`sensor_collector.py:210`) every later snapshot
  repeats a sequence that the normaliser refuses, and the run goes on without
  decisions; `SnapshotsDecided` has no fault of the queue. The repeated
  sequence is written to the snapshots' file twice, which the replay refuses.
* A chain of holds extends itself: the held command becomes the last safe one
  with a new expiry (`guard.py:263`); `last_safe_ttl_zone_timesteps` of
  `config/safety_guard.yaml:21` is read by no check, and
  `docs/SAFETY_GUARD.md:35` promises an unexpired command.
* An internal error is answered with a rejection, the configuration
  (`safety_guard.yaml:6`) says reset to native.
* With more than one row per transaction (shadow mode) a rollback takes rows
  whose results the memory still returns for duplicates
  (`safety_store.py:91`).
* The time to live of a command counts published snapshots, not timesteps
  (`fallback_live_common.py:244`).
* The reset at the end of a run is lost when its audit row fails
  (`executor.py:99`), although `fallback_controller.yaml:54` and
  `safety_guard.yaml:35` require it; this is why `ClosedReleases` and
  `ResetsReachActuator` except a failing store.
* After such a lost reset the controller takes its own override for the native
  baseline (`fallback_policy.py:96`); `BaselineIsNative` excepts a failing
  store.

*Actuator test*

* `config/actuators.yaml` requires occupancy, but an override that stands when
  the zone becomes vacant is left standing until the window ends
  (`actuator_controller.py:195-203`).
* `run_actuator_test` prints PASS (`run_actuator_test.py:115-123`) without
  looking at four things that the validator refuses a run for: severe errors in
  `thermoledger.err`, which `config/actuators.yaml:69-70` requires to be none;
  a source, baseline or weather file with another checksum
  (`validate_actuator_test.py:209-231`; nor does it look at the status that the
  runner returns); errors of the registry's API; and files that are incomplete
  because an extension's close failed. `PassIsValidated` excepts these four.

*Plan execution*

* `run_execution_short.py:44` executes the plan it names, whatever was
  approved, so `OverrideIsApproved` excepts it.
* `validate_exact_approval` checks neither expiry, mode nor consumption.
* The mandatory reset is refused by the guard when the last live state is
  unfit (`orchestrator.py:140`).
* Callbacks after `stop_simulation` go on executing after an error
  (`run_execution_short.py:173`).
* `persist_report` marks the approval consumed also for failed sessions.
* `run_llm_mock_replay`, `run_module14a_replay` and
  `run_execution_mock_replay` report most of their scenarios as PASS without
  exercising them.

*Runs*

* A KeyboardInterrupt during the runner's first wait or in the grace period
  (`runner.py:107`) closes the extensions and deletes the API state under a
  running simulation, against `docs/PYTHON_API_RUNNER.md:58-62`;
  `StateOutlivesSimulation` excepts the fault `interrupt`.
* `queue.Full` of a `stop()` passes the runner's `finally` (`runner.py:290`):
  callbacks stay registered, the API state stays, the run lock stays taken,
  although `docs/PYTHON_API_RUNNER.md:25` promises cleanup.
* An `OSError` while the sensor's files are closed skips the close of the
  publisher, and the worker's thread keeps the process alive; likewise a
  failed `controller_writer.stop()`, or a start that times out before there is
  a controller writer. `ThreadsEnd` excepts these.
* The worker completes the row as COMPLETED even when EnergyPlus failed; only
  `run_live` corrects it, and a slow worker may overwrite the correction.
  `RowTellsOutcome` excepts slow writers.
* A control run prints PASS though a batch of states was lost: the verdict
  (`fallback_live_common.py:472`) reads neither the bus's errors nor the
  persisted count nor the extension's error, against
  `docs/STATE_BUS_AND_STORAGE.md:61-63`; this is why `PassMeansStored` is about
  the other two callers, and about the runner's own PASS.
* The scripts do not look at `RunResult.status`. `replay_sensor_states` never
  stops its worker after a line it cannot use; `replay_fallback_controller`
  records a fixed expected count of states.

*Tools and supervisor*

* Identical calls are idempotent (`docs/MCP_SERVER.md:19-22`), but of two
  processes that execute one request at once the second raises an
  IntegrityError out of `call()` (`service.py:96`).
* `docs/LLM_SUPERVISOR.md:7` requires objective-specific evidence; some
  objectives are in no entry of `REQUIRED_EVIDENCE`.
* `get_microtwin_rollout` is prefetched with no arguments and can then never
  succeed. READ_ONLY planning tools write planning.db. The registry says of
  `select_ledger_advisory_plan` that it persists a selection; it records
  nothing. A `context_id` hashes run, state, zone, horizon and sources only, so
  rows of older settings are kept for it.
* An exception that leaves `run` leaves no row of the session, in spite of
  `fail_closed: true`. With the smoke settings of three calls a prefetch can
  exceed the limit, since only iterations bound it; `StepsWithinLimit` holds
  because the deployed limits leave as many iterations as calls.

*Ledger and bank*

* Evaluations from a legal balance are refused for an overdraft: reserves that
  round up take half a millionth more than there is (`evaluation.py:235-241`),
  and movements that leave nothing may leave the last bit less. A deposit of
  0.3 with an event and no opening balance has reserves of exactly 0.03 and
  0.27, of which `accounting.py:38` subtracts 0.30000000000000004. Either
  refusal aborts the whole batch of evaluations. `RefusalIsRounding` says that
  otherwise only a deposit that reaches the maximum is refused.
* The count of consecutive burdens uses occupied bounds also in protected
  events (`evaluation.py:165-170`). The windows of temporal fairness are
  strided, not contiguous. Openings are never carried over.
* The sequence of bank transactions restarts at 1 in every batch, under INSERT
  OR IGNORE, so that transactions of every later evaluation are lost
  (`ledger_store.py:102`), where `docs/THERMAL_BANK.md` says they are persisted.

*Evidence*

* An evaluation after a torn training or another configuration is ignored
  under its known id while its transactions are numbered anew: rows of two
  evaluations mix.
* `microtwin_store` ranks rollouts that are not qualified, against
  `docs/MICROTWIN_REPLAY_COVERAGE.md:78`, and writes the status QUALIFIED
  whatever the model is. A training that is stopped leaves a manifest of other
  weights.
* `compare_execution_runs` replaces the rows of its fixed session ids.
  `resolve_execution_binding` computes the evaluation again instead of using
  the persisted selection (`docs/COMFORT_LEDGER.md:13`).
* `create_module14a_approval` records approvals of a package that is in no
  table; `assess_module14a_results` assesses whatever results are on disk under
  whichever exact_approval.json is there, and consumes that one.
* The migrations read the version outside their transaction;
  `validate_execution.py` requires version 9 after migrating to 10,
  `validate_ledger` and `validate_microtwin` require 8, and `validate_ledger`
  exactly five evaluations.

*Dashboard*

* `/api/health` says CURRENT for as long as the server runs (`server.py:96`).
* `build_snapshot` never compares approval and results with the package they
  belong to (`docs/EVIDENCE_DASHBOARD.md:9-10`); the manifest is written after
  the snapshot, not with it.

## 6. Plan

Done, in this order: controller, guard, guarded control with its abstract
specification, plan execution, state pipeline, tool service with its abstract
audit, supervisor, ledger and bank, evidence stores, scripted and unguarded
actuation, replay, dashboard; then the theorems of part 4, so that every safety
and action property of a run is one. The runs that each showed one disagreement
of the first group have given way to those of the new parts; what they showed
is in part 5.

Next:

1. Abstract specifications: `NothingVanishes` and the conservation of
   `SensingRunProofs` as a refinement of a queue that loses only what it counts,
   for both writers; `EvidenceStore` as a refinement of a store that is only
   added to.
2. Runs. The `queue.Full` that escapes the runner (`CleanupInFinally`: a run
   that ended has deleted its API state) and the interrupt outside its loop, as
   runs of `SensingRun` that find a disagreement.
3. Second sessions of `PlanExecution` that inherit rows from `EvidenceStore`.
4. Safety facts on which liveness rests, such as that a thread which has met
   STOP takes nothing more, and that the work left for a session falls with each
   iteration, as theorems beside `ThreadsEnd` and `SessionsEnd`.
