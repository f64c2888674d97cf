---------------------------- MODULE PlanExecution ----------------------------
(***************************************************************************)
(* Approval-gated execution of a plan (Modules 14 and 14A).  An operator   *)
(* approves a plan; a session is armed by an approval that still fits the  *)
(* artifacts it was given for, and runs the plan's actions, each through a *)
(* fresh safety guard, over the timesteps it observes:                     *)
(*   orchestrator  ExecutionOrchestrator.execute, over a tuple of trusted  *)
(*                 live states, through an ExecutionWriter;                *)
(*   short         run_execution_short.py, in EnergyPlus callbacks, always *)
(*                 with the one plan it names itself;                      *)
(*   aligned       run_module14a_aligned_short.py, in EnergyPlus callbacks *)
(*                 on one calendar day, with the plan of its package.      *)
(* Each session is a process of its own with a new EnergyPlus: the         *)
(* actuator starts without an override.  Sequences of states differ from   *)
(* timesteps by a constant, which is left out.                             *)
(***************************************************************************)
EXTENDS Planning

CONSTANTS
  Hold,                  \* minimum_hold_timesteps of the schedulers
  Horizon,               \* the timesteps of a short or aligned run: 12
  Ttl,                   \* safety.command_ttl
  Minimum, Maximum, MarginalClamp, MaximumStep, StepPerTimestep,
  MaximumStateAge,       \* as in SafetyGuard
  CanonicalContext,      \* the context of the plan run_execution_short names
  FaultSets,             \* the sets of faults that a session may meet
  MaximumSessions,       \* bound on the sessions
  NonNumeric, NaN, Infinite, Oversized

FaultKinds ==
  {"untrusted",  \* a live state validate_live_state refuses, the guard not
   "unfit",      \* a live state both refuse: warmup, not ready, other run
   "writer",     \* a write to the actuator fails
   "reset",      \* a reset of the actuator fails
   "handle",     \* the handles are not available
   "value",      \* a reading fails
   "gap",        \* a timestep is not observed
   "timeout",    \* the simulation ends before it is stopped
   "callback"}   \* EnergyPlus calls back after stop_simulation

ASSUME ExecutionAssumption ==
  /\ FaultSets \subseteq SUBSET FaultKinds
  /\ {Hold, Ttl, MaximumSessions} \subseteq Nat
  /\ Horizon \in Nat \ {0}

VARIABLES
  build,      \* the planning context planning_common.build resolves
  package,    \* the plan selected in context_selection_report.json
  approval,   \* the approval file, or None
  row,        \* execution_approvals.status of that approval, or None
  sessions,   \* the sessions armed so far
  faults,     \* history: what may fail in this session
  runner,     \* which of the three runs the session
  live,       \* whether its writes are physical
  plan,       \* the plan of its ActionScheduler
  phase,
  clock,      \* the timestep observed last
  sequence,   \* the sequence number of its state
  recorded,   \* how many states are in the report
  initial,    \* whether the aligned run has its initial_state
  done,       \* ActionScheduler.completed: the first so many actions
  executed,   \* history: the value each action was executed with, and when
  failed,     \* fallback > 0, or errors is not empty
  resetOk,    \* reset_ok, or reset_success
  handle,     \* whether the actuator's handle is "unknown", "found" or "missing"
  stopRequested,
  passed,     \* the status of the report is PASS
  override,   \* the actuator
  disabled, shutdown, context, lastSafe, lastValid, observed,
  committed, pending, pendingCount, released     \* the session's safety guard

artifactVars == <<build, package, approval, row, sessions>>
fixedVars    == <<faults, runner, live, plan>>
reportVars   == <<recorded, initial, failed, resetOk, stopRequested, passed>>
planVars     == <<done, executed, override>>
guardVars    == <<disabled, shutdown, context, lastSafe, lastValid, observed,
                  committed, pending, pendingCount, released>>
executionVars == <<artifactVars, fixedVars, reportVars, planVars, guardVars,
                   phase, clock, sequence, handle>>

Runners == {"orchestrator", "short", "aligned"}
Modes   == {"REPLAY_DRY_RUN", "LIVE_SHADOW", "LIVE_SHORT_HORIZON"}

Space3 == [component |-> "Zone Temperature Control", control |-> "Cooling Setpoint",
           key |-> "SPACE3-1", units |-> "C"]

SessionContext == [run |-> "module14", environment |-> "weather-3"]

Names == {"module14", "weather-3", "SPACE3-1", "Zone Temperature Control",
          "Cooling Setpoint", "C"}

ResetId == 0     \* the id of the mandatory native reset
NoId    == -1    \* the empty id, which nothing here uses

Guard == INSTANCE SafetyGuard WITH
  Enabled <- TRUE, Audited <- FALSE, CommitInterval <- 1, SchemaVersion <- 1,
  EnvironmentTypes <- {3}, ApprovedZones <- {"SPACE3-1"}, PlenumZones <- {"PLENUM-1"},
  ApprovedActuator <- Space3, Names <- Names, Contexts <- {SessionContext},
  CommandIds <- NoId .. ActionLimit, NoCommandId <- NoId, Proposals <- {},
  MaximumRows <- 0

ASSUME NoneAssumption == None \notin Guard!Decision

-----------------------------------------------------------------------------
(* Approval.                                                               *)

\* The modes an orchestrator may be asked for, and what the scripts require.
ModesOf(r) == IF r = "orchestrator" THEN Modes ELSE Modes \ {"REPLAY_DRY_RUN"}

\* validate_approval, for the plan the approval selects.  It reads the
\* approval's own consumed_session_id, which nothing ever sets.
ValidApproval(mode) ==
  /\ ~approval.expired
  /\ approval.plan \in EligiblePlans(build)
  /\ approval.mode = mode

\* Mutant: the plan of the package is not compared.
ValidExactApprovalAnyPlan == approval.exact

\* validate_exact_approval.
ValidExactApproval == approval.exact /\ approval.plan = package

\* The plan that run_execution_short takes, by its id, from those of build.
ShortPlan == CHOOSE p \in Candidates(CanonicalContext) : p.strategy = "COMFORT_FIRST"

\* The limits of planning.yaml lie within those of safety_guard.yaml, in value
\* and in change, and the last window of a template, at the sixth timestep, is
\* over before the horizon is.
ASSUME LimitsAssumption ==
  /\ {PlanMinimum, PlanMaximum, PlanChange, Minimum, Maximum} \subseteq Int
  /\ Minimum <= PlanMinimum /\ PlanMaximum <= Maximum
  /\ {MarginalClamp, MaximumStep, StepPerTimestep, MaximumStateAge, ActionLimit} \subseteq Nat
  /\ PlanChange <= MaximumStep /\ PlanChange <= StepPerTimestep
  /\ {None, NonNumeric, NaN, Infinite, Oversized} \cap Int = {}
  /\ 6 + Hold <= Horizon
  /\ Valid(ShortPlan)

\* create_execution_approval.py and create_module14a_approval.py, which also
\* persist the approval.
Approve ==
  /\ phase = "IDLE"
  /\ \/ \E p \in EligiblePlans(build), mode \in Modes :
          approval' = [plan |-> p, mode |-> mode, exact |-> FALSE, expired |-> FALSE]
     \/ approval' = [plan |-> package, mode |-> "LIVE_SHORT_HORIZON",
                     exact |-> TRUE, expired |-> FALSE]
  /\ row' = "ACTIVE"
  /\ UNCHANGED <<build, package, sessions, fixedVars, reportVars, planVars,
                 guardVars, phase, clock, sequence, handle>>

\* After an approval time passes; the inputs of planning and the package change.
ArtifactsChange ==
  /\ phase = "IDLE"
  /\ approval # None
  /\ \/ /\ approval' = [approval EXCEPT !.expired = TRUE]
        /\ UNCHANGED <<build, package>>
     \/ /\ build' \in PlanContexts
        /\ package' \in EligiblePlans(build')
        /\ UNCHANGED approval
  /\ UNCHANGED <<row, sessions, fixedVars, reportVars, planVars, guardVars,
                 phase, clock, sequence, handle>>

\* Nothing done, nothing reported, and a guard with an empty memory and no
\* store.
Fresh ==
  /\ sequence' = 0
  /\ recorded' = 0
  /\ initial' = FALSE
  /\ done' = 0
  /\ executed' = <<>>
  /\ failed' = FALSE
  /\ stopRequested' = FALSE
  /\ passed' = FALSE
  /\ handle' = "unknown"
  /\ override' = None
  /\ lastSafe' = None
  /\ lastValid' = 0
  /\ observed' = [id \in NoId .. ActionLimit |-> None]
  /\ released' = {}
  /\ UNCHANGED <<disabled, shutdown, context, committed, pending, pendingCount>>

\* A session starts, armed by the approval.
Arm ==
  /\ phase = "IDLE"
  /\ sessions < MaximumSessions
  /\ sessions' = sessions + 1
  /\ approval # None
  /\ faults' \in FaultSets
  /\ runner' \in Runners
  /\ \E mode \in ModesOf(runner') :
       /\ live' = (mode = "LIVE_SHORT_HORIZON")
       /\ IF runner' = "aligned" THEN ValidExactApproval ELSE ValidApproval(mode)
  /\ runner' = "short" => ShortPlan \in Candidates(build)
  /\ plan' = CASE runner' = "orchestrator" -> approval.plan
               [] runner' = "short" -> ShortPlan
               [] runner' = "aligned" -> package
  /\ phase' = "EXECUTING"
  /\ clock' = IF runner' = "aligned" THEN -1 ELSE 0
  /\ resetOk' = (runner' # "orchestrator" /\ ~live')
  /\ Fresh
  /\ UNCHANGED <<build, package, approval, row>>

\* The session's process ends.  Its approval's row is marked by persist_report,
\* by compare_execution_runs.py or by assess_module14a_results.py; a process
\* that dies, or an evaluation that never runs, leaves it as it was.
Exit ==
  /\ phase = "ENDED"
  /\ row' \in {row, "CONSUMED"}
  /\ phase' = "IDLE"
  /\ faults' = {}
  /\ runner' = None
  /\ live' = FALSE
  /\ plan' = None
  /\ clock' = 0
  /\ resetOk' = FALSE
  /\ Fresh
  /\ UNCHANGED <<build, package, approval, sessions>>

-----------------------------------------------------------------------------
(* ActionScheduler, build_proposal and the guard.                          *)

NextAction == plan.actions[done + 1]

Due(s) ==
  IF done = Len(plan.actions) \/ s < NextAction.offset THEN "none"
  ELSE IF s > NextAction.offset + Hold THEN "late"
  ELSE "due"

Completed == done + 1

\* Mutant: a command for the sequence after the one it is given in.
ProposalAhead(id, value, s, fit) ==
  [id |-> id, context |-> SessionContext, environment |-> 3,
   zone |-> "SPACE3-1", actuator |-> Space3, value |-> value,
   source |-> s - 1, decided |-> s - 1, validFrom |-> s + 1,
   expires |-> s + Ttl, current |-> s, warmup |-> ~fit, ready |-> TRUE,
   reset |-> (id = ResetId), schema |-> 1]

\* build_proposal and build_reset_proposal: an action's id is its position.
Proposal(id, value, s, fit) ==
  [id |-> id, context |-> SessionContext, environment |-> 3,
   zone |-> "SPACE3-1", actuator |-> Space3, value |-> value,
   source |-> s - 1, decided |-> s - 1, validFrom |-> s,
   expires |-> s + Ttl, current |-> s, warmup |-> ~fit, ready |-> TRUE,
   reset |-> (id = ResetId), schema |-> 1]

ResetProposal(s, fit) == Proposal(ResetId, 2200, s, fit)

\* What a session's writer leaves on the actuator for a command.  EnergyPlus
\* takes a write through a missing handle without effect.
Written(d) == IF live /\ handle' # "missing" THEN d.applied ELSE override

\* The scheduler's due action goes through guard and writer and is complete.
Executes(s) ==
  /\ Due(s) = "due"
  /\ LET p == Proposal(done + 1, NextAction.value, s, TRUE)
     IN  \E d \in Guard!Returns(p) :
           /\ Guard!Evaluate(p, d)
           /\ Guard!IsCommand(d)
           /\ override' = Written(d)
           /\ executed' = Append(executed, [value |-> d.applied, at |-> s])
  /\ done' = Completed

\* Nothing is due.
Waits(s) == Due(s) = "none" /\ UNCHANGED <<planVars, guardVars>>

\* The action is late, or the guard refuses its command, or the writer fails.
Refused(s) ==
  /\ UNCHANGED planVars
  /\ \/ Due(s) = "late" /\ UNCHANGED guardVars
     \/ /\ Due(s) = "due"
        /\ LET p == Proposal(done + 1, NextAction.value, s, TRUE)
           IN  \E d \in Guard!Returns(p) :
                 /\ Guard!Evaluate(p, d)
                 /\ Guard!IsCommand(d) => "writer" \in faults

\* The mandatory native reset: whether it succeeded.
Resets(s, fit) ==
  LET p == ResetProposal(s, fit)
  IN  \E d \in Guard!Returns(p) :
        /\ Guard!Evaluate(p, d)
        /\ \/ /\ Guard!IsCommand(d)
              /\ override' = Written(d)
              /\ resetOk' = (d.outcome = "RESET_TO_NATIVE")
           \/ /\ Guard!IsCommand(d) => "reset" \in faults
              /\ resetOk' = FALSE
              /\ UNCHANGED override

-----------------------------------------------------------------------------
(* ExecutionOrchestrator.execute.                                          *)

\* The next of the live states, one timestep on unless states are missing.
Observes ==
  /\ runner = "orchestrator"
  /\ phase = "EXECUTING"
  /\ clock < Horizon
  /\ clock' \in {clock + 1} \cup (IF "gap" \in faults THEN {clock + 2} ELSE {})
  /\ sequence' = clock'
  /\ UNCHANGED <<artifactVars, fixedVars, reportVars, handle>>

OrchestratorActs ==
  /\ Observes
  /\ Executes(sequence') \/ Waits(sequence')
  /\ UNCHANGED phase

\* validate_live_state refuses the state, or what follows raises or is
\* rejected.
OrchestratorFails ==
  /\ runner = "orchestrator" /\ phase = "EXECUTING" /\ clock < Horizon
  /\ clock' \in {clock + 1} \cup (IF "gap" \in faults THEN {clock + 2} ELSE {})
  /\ sequence' = clock'
  /\ \/ faults \cap {"untrusted", "unfit"} # {} /\ UNCHANGED <<planVars, guardVars>>
     \/ Refused(sequence')
  /\ phase' = "FALLBACK_ACTIVE"
  /\ failed' = TRUE
  /\ UNCHANGED <<artifactVars, fixedVars, recorded, initial, resetOk,
                 stopRequested, passed, handle>>

\* The reset is built from the last of the live states: the one at hand when
\* all were consumed, otherwise that one or a later one, of any kind.
OrchestratorResets ==
  /\ runner = "orchestrator"
  /\ phase \in {"EXECUTING", "FALLBACK_ACTIVE"}
  /\ clock > 0
  /\ UNCHANGED <<clock, handle>>
  /\ sequence' \in IF failed THEN sequence .. sequence + 1 ELSE {sequence}
  /\ \E fit \in IF failed /\ "unfit" \in faults THEN BOOLEAN ELSE {TRUE} :
       Resets(sequence', fit)
  /\ passed' = (resetOk' /\ ~failed)
  /\ phase' = "ENDED"
  /\ UNCHANGED <<artifactVars, fixedVars, recorded, initial, failed,
                 stopRequested, done, executed>>

-----------------------------------------------------------------------------
(* The callbacks of a short or an aligned run, at the end of a timestep.   *)

\* EnergyPlus calls back: until it is stopped, or a few times more.
CallsBack ==
  /\ runner \in {"short", "aligned"}
  /\ \/ phase = "EXECUTING"
     \/ phase = "STOPPING" /\ "callback" \in faults
  /\ clock <= Horizon
  /\ clock' = clock + 1
  /\ UNCHANGED <<artifactVars, fixedVars, passed>>

\* Whether the callback of a timestep is one the run is about.
Target(c) == runner = "short" \/ c \in 1 .. Horizon

\* A callback that returns early: not ready, or not a target; the aligned run
\* takes its initial state from the timestep before the first.
CallbackReturns ==
  /\ CallsBack
  /\ \/ "gap" \in faults /\ UNCHANGED <<initial, handle>>
     \/ /\ runner = "aligned"
        /\ ~Target(clock')
        /\ handle' = IF handle = "unknown" THEN "found" ELSE handle
        /\ initial' = (initial \/ clock' = 0)
  /\ UNCHANGED <<recorded, failed, resetOk, stopRequested, planVars, guardVars, phase,
                 sequence>>

\* The short run counts its states, the aligned run reads the clock.
Sequence == IF runner = "short" THEN sequence + 1 ELSE clock'

\* The handles are looked up once, and kept whatever the lookup found.
LooksUp ==
  handle' = IF handle = "unknown" THEN "found" ELSE handle

Fails ==
  /\ failed' = TRUE
  /\ phase' = "STOPPING"
  /\ UNCHANGED <<recorded, initial, resetOk, stopRequested>>

\* A handle is missing, the actuator's or another, which the aligned run may
\* find before its first target.  Without its zone's handle the short run will
\* look again.
CallbackLacksHandles ==
  /\ CallsBack
  /\ handle = "unknown" /\ "handle" \in faults
  /\ handle' \in {"missing", "found"} \cup
                 (IF runner = "short" THEN {"unknown"} ELSE {})
  /\ Fails
  /\ UNCHANGED <<sequence, planVars, guardVars>>

\* A reading fails, before the action or (the short run's meters) after it; or
\* the action is refused.
CallbackFails ==
  /\ CallsBack
  /\ LooksUp
  /\ sequence' = Sequence
  /\ \/ "value" \in faults /\ UNCHANGED <<planVars, guardVars>>
     \/ /\ "value" \in faults /\ runner = "short"
        /\ Executes(sequence') \/ Waits(sequence')
     \/ Target(clock') /\ Refused(sequence')
  /\ Fails

\* Whether the state of this sequence is the last one.
AtHorizon(s) == IF runner = "short" THEN s >= Horizon ELSE s = Horizon

\* A callback without a failure.  At the horizon it goes on to the reset.
CallbackActs ==
  /\ CallsBack
  /\ Target(clock')
  /\ LooksUp
  /\ sequence' = Sequence
  /\ Executes(sequence') \/ Waits(sequence')
  /\ recorded' = recorded + 1
  /\ IF AtHorizon(sequence') /\ ~stopRequested
       THEN IF live
              THEN phase' = "RESETTING_TO_NATIVE" /\ UNCHANGED stopRequested
              ELSE phase' = "STOPPING" /\ stopRequested' = TRUE
       ELSE UNCHANGED <<phase, stopRequested>>
  /\ UNCHANGED <<initial, failed, resetOk>>

\* The rest of that callback: the guarded reset, then stop_simulation.
CallbackResets ==
  /\ phase = "RESETTING_TO_NATIVE"
  /\ phase' = "STOPPING"
  /\ UNCHANGED handle
  /\ \/ /\ Resets(sequence, TRUE)
        /\ stopRequested' = TRUE
        /\ UNCHANGED failed
     \/ /\ "reset" \in faults
        /\ failed' = TRUE
        /\ UNCHANGED <<resetOk, stopRequested, override>>
        /\ LET p == ResetProposal(sequence, TRUE)
           IN  \E d \in Guard!Returns(p) : Guard!Evaluate(p, d)
  /\ UNCHANGED <<artifactVars, fixedVars, clock, sequence, recorded, initial,
                 passed, done, executed>>

\* Mutant: only a run without errors is closed with a reset.
ClosesWithoutErrors == live /\ ~resetOk /\ ~failed /\ handle = "found"

\* Whether close resets the actuator, past guard and gate.
ClosesWithReset == live /\ ~resetOk /\ handle = "found"

\* The run is over, close is called and the report made.
Close ==
  /\ runner \in {"short", "aligned"}
  /\ \/ phase = "STOPPING"
     \/ phase = "EXECUTING" /\ ("timeout" \in faults \/ clock > Horizon)
  /\ phase' = "ENDED"
  /\ \/ override' = IF ClosesWithReset THEN None ELSE override
     \/ "reset" \in faults /\ UNCHANGED override
  /\ passed' = (/\ recorded = Horizon
                /\ runner = "aligned" => initial
                /\ ~failed
                /\ resetOk)
  /\ UNCHANGED <<artifactVars, fixedVars, clock, sequence, recorded, initial,
                 failed, resetOk, stopRequested, done, executed, guardVars, handle>>

-----------------------------------------------------------------------------
ExecutionInit ==
  /\ build \in PlanContexts
  /\ package \in EligiblePlans(build)
  /\ approval = None
  /\ row = None
  /\ sessions = 0
  /\ phase = "IDLE"
  /\ faults = {}
  /\ runner = None
  /\ live = FALSE
  /\ plan = None
  /\ clock = 0
  /\ sequence = 0
  /\ recorded = 0
  /\ initial = FALSE
  /\ done = 0
  /\ executed = <<>>
  /\ failed = FALSE
  /\ resetOk = FALSE
  /\ stopRequested = FALSE
  /\ passed = FALSE
  /\ handle = "unknown"
  /\ override = None
  /\ Guard!GuardInit

ExecutionNext ==
  \/ Approve \/ ArtifactsChange \/ Arm \/ Exit
  \/ OrchestratorActs \/ OrchestratorFails \/ OrchestratorResets
  \/ CallbackReturns \/ CallbackLacksHandles \/ CallbackFails
  \/ CallbackActs \/ CallbackResets \/ Close

ExecutionSpec == ExecutionInit /\ [][ExecutionNext]_executionVars

-----------------------------------------------------------------------------
(* Properties.                                                             *)

\* The plan is executed from its first action on, each action once, in order,
\* within its window of timesteps and with the very setpoint it planned:
\* nothing an eligible plan asks for is clamped, held or replaced by a reset of
\* the guard, also when timesteps are missed or EnergyPlus calls back too often.
ExecutedAsPlanned ==
  \A i \in DOMAIN executed :
    /\ i \in DOMAIN plan.actions
    /\ executed[i].value = plan.actions[i].value
    /\ executed[i].at - plan.actions[i].offset \in 0 .. Hold

\* A session that meets no fault executes its plan, as far as the timesteps it
\* was given reach, and its report is PASS.
FaultlessPasses ==
  phase = "ENDED" /\ faults = {} =>
    /\ passed
    /\ \A i \in DOMAIN plan.actions :
         plan.actions[i].offset <= clock => i \in DOMAIN executed

\* "Completion is blocked without it": a session whose report is PASS has given
\* the actuator back, and so has every session that ended, whatever failed in
\* it, unless the reset itself was refused or failed.
SessionsRelease ==
  phase = "ENDED" /\ override # None =>
    /\ ~passed
    /\ faults \cap {"reset", "unfit"} # {}

\* The setpoint on the actuator was approved: a live session of the orchestrator
\* or the aligned run applies values of the approval's plan only.
OverrideIsApproved ==
  override # None /\ runner # "short" =>
    /\ approval.mode = "LIVE_SHORT_HORIZON"
    /\ \E i \in DOMAIN approval.plan.actions : override = approval.plan.actions[i].value

\* "One-time consumption fail closed": no session runs on an approval that is
\* recorded as consumed.
ConsumedNeverRuns == phase \notin {"IDLE", "ENDED"} => row # "CONSUMED"
=============================================================================
