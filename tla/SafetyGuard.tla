----------------------------- MODULE SafetyGuard -----------------------------
(***************************************************************************)
(* The independent safety guard (Module 8): SafetyGuard.evaluate, the      *)
(* SafetyMemory it decides from, and the SafetyStore it must write its     *)
(* audit row to before a command may leave it.                             *)
(*                                                                         *)
(* A fingerprint is the record it hashes: two proposals have one           *)
(* fingerprint when they are equal, and a guard decision is identified by  *)
(* its proposal, outcome, reason and applied value, the fields its id is   *)
(* the hash of.  A GuardedCommand is the decision it was made from, since  *)
(* it copies the proposal's fields.  Setpoints are integers (hundredths of *)
(* a degree); the other things a requested value can be are constants.     *)
(***************************************************************************)
EXTENDS Integers, FiniteSets

CONSTANTS
  Enabled,               \* safety.enabled
  Audited,               \* whether the guard was given a store (persist)
  CommitInterval,        \* audit rows per transaction: 1 live, 500 shadow
  Minimum, Maximum,      \* limits.minimum_celsius, maximum_celsius
  MarginalClamp,         \* limits.marginal_clamp_celsius
  MaximumStep,           \* maximum_change_per_decision_celsius
  StepPerTimestep,       \* maximum_change_per_zone_timestep_celsius
  MaximumStateAge,       \* maximum_state_age_zone_timesteps
  SchemaVersion,         \* safety.schema_version
  EnvironmentTypes,      \* runtime.permitted_environment_types
  ApprovedZones, PlenumZones,
  ApprovedActuator,      \* approved_actuator, a record of its four names
  Names,                 \* the names of runs, environments, zones and actuators
  Contexts,              \* [run, environment] pairs a memory may be reset to
  CommandIds,            \* every command id in use
  NoCommandId,           \* the empty command id
  Proposals,             \* the proposals a caller may make
  MaximumRows,           \* bound on the audit rows: a full store fails
  None, NonNumeric, NaN, Infinite, Oversized   \* values that are no setpoint

Unusable == {None, NonNumeric, NaN, Infinite, Oversized}

VARIABLES
  disabled, shutdown,    \* SafetyMemory.disabled, shutdown
  context,               \* SafetyMemory.run_id, environment_id
  lastSafe,              \* SafetyMemory.last_safe
  lastValid,             \* SafetyMemory.last_valid_state_sequence
  observed,              \* SafetyMemory.observed: the decision kept for an id
  committed,             \* audit rows in committed transactions
  pending,               \* audit rows of the open transaction
  pendingCount,          \* SafetyStore._pending
  released               \* history: every command evaluate has returned

memoryVars == <<disabled, shutdown, context, lastSafe, lastValid, observed>>
storeVars  == <<committed, pending, pendingCount>>
guardVars  == <<memoryVars, storeVars, released>>

-----------------------------------------------------------------------------
(* Data.                                                                   *)

Actuator == [component : Names, control : Names, key : Names, units : Names]

Context  == [run : Names, environment : Names]

Proposal == [id          : CommandIds,
             context     : Context,
             environment : Nat,             \* environment_type
             zone        : Names,
             actuator    : Actuator,
             value       : Int \cup Unusable,   \* requested_value
             source      : Int,             \* source_state_sequence
             decided     : Int,             \* decision_sequence
             validFrom   : Int,
             expires     : Int,             \* expires_after_sequence
             current     : Int,             \* current_sequence
             warmup      : BOOLEAN,
             ready       : BOOLEAN,         \* api_ready
             reset       : BOOLEAN,         \* reset_required
             schema      : Nat]

ASSUME GuardAssumption ==
  /\ {Enabled, Audited} \subseteq BOOLEAN
  /\ CommitInterval \in Nat \ {0}
  /\ {Minimum, Maximum} \subseteq Int
  /\ Minimum <= Maximum
  /\ {MarginalClamp, MaximumStep, StepPerTimestep, MaximumStateAge} \subseteq Nat
  /\ Unusable \cap Int = {}
  /\ NoCommandId \in CommandIds
  /\ Contexts \subseteq Context
  /\ Proposals \subseteq Proposal

SetOutcomes == {"ALLOW", "CLAMP", "HOLD_LAST_SAFE"}
Outcomes    == SetOutcomes \cup {"RESET_TO_NATIVE", "REJECT_NO_WRITE"}

\* SafetyReason, as far as evaluate uses it; "unusable_value" stands for the
\* reasons of a value that is missing, not a number or not finite.
IdentityReasons ==
  {"plenum_zone_rejected", "unapproved_zone", "unapproved_component_type",
   "unapproved_control_type", "unapproved_actuator_key", "unit_mismatch"}

Reasons ==
  IdentityReasons \cup
  {"allowed", "allowed_native_reset", "clamped_absolute_bound",
   "clamped_rate_limit", "held_last_safe", "unusable_value",
   "out_of_absolute_bounds", "stale_state", "future_state",
   "non_monotonic_state", "wrong_run_id", "wrong_environment",
   "warmup_state_rejected", "simulation_not_ready", "missing_command_id",
   "conflicting_duplicate", "expired_command", "command_from_future",
   "unsupported_schema_version", "disabled_control", "shutdown_in_progress",
   "guard_internal_error", "persistence_failure_fail_closed"}

Decision == [proposal : Proposal,
             outcome  : Outcomes,
             reason   : Reasons,
             applied  : Int \cup {None}]

\* make_guarded_command: every decision but a rejection carries a command.
IsCommand(d) == d.outcome # "REJECT_NO_WRITE"

Lesser(a, b)  == IF a <= b THEN a ELSE b
Greater(a, b) == IF a >= b THEN a ELSE b
Distance(a, b) == IF a >= b THEN a - b ELSE b - a

-----------------------------------------------------------------------------
(* SafetyGuard._evaluate: the first check that fails decides.              *)

Decided(p, outcome, reason, applied) ==
  [proposal |-> p, outcome |-> outcome, reason |-> reason, applied |-> applied]

Reject(p, reason) == Decided(p, "REJECT_NO_WRITE", reason, None)
Reset(p, reason)  == Decided(p, "RESET_TO_NATIVE", reason, None)

\* Mutant: the requested setpoint while the last safe command is unexpired.
RecoverRequested(p, reason) ==
  IF lastSafe # None /\ p.current <= lastSafe.proposal.expires
    THEN Decided(p, "HOLD_LAST_SAFE", "held_last_safe", p.value)
    ELSE Reset(p, reason)

\* _recover: the last safe setpoint again while its command is unexpired.
Recover(p, reason) ==
  IF lastSafe # None /\ p.current <= lastSafe.proposal.expires
    THEN Decided(p, "HOLD_LAST_SAFE", "held_last_safe", lastSafe.applied)
    ELSE Reset(p, reason)

\* _identity_reason: the first name that is not the approved one, or None.
IdentityReason(p) ==
  LET a == p.actuator
  IN  IF p.zone \in PlenumZones THEN "plenum_zone_rejected"
      ELSE IF p.zone \notin ApprovedZones THEN "unapproved_zone"
      ELSE IF a.component # ApprovedActuator.component THEN "unapproved_component_type"
      ELSE IF a.control # ApprovedActuator.control THEN "unapproved_control_type"
      ELSE IF a.key # ApprovedActuator.key THEN "unapproved_actuator_key"
      ELSE IF a.units # ApprovedActuator.units THEN "unit_mismatch"
      ELSE None

\* Mutant: no limit per decision.
PermittedPerTimestep(p) ==
  StepPerTimestep * Greater(1, p.source - lastSafe.proposal.source)

\* The largest move from the last safe setpoint the rate limit permits.
Permitted(p) ==
  Lesser(MaximumStep,
         StepPerTimestep * Greater(1, p.source - lastSafe.proposal.source))

\* The value rules: type and finiteness, absolute bounds, then the rate.
JudgeValue(p) ==
  LET v == p.value
      boundary == Lesser(Greater(v, Minimum), Maximum)
  IN  IF v \in Unusable THEN Recover(p, "unusable_value")
      ELSE IF v # boundary /\ Distance(v, boundary) <= MarginalClamp
        THEN Decided(p, "CLAMP", "clamped_absolute_bound", boundary)
      ELSE IF v # boundary THEN Recover(p, "out_of_absolute_bounds")
      ELSE IF lastSafe # None /\ Distance(v, lastSafe.applied) > Permitted(p)
        THEN Decided(p, "CLAMP", "clamped_rate_limit",
                     IF v > lastSafe.applied THEN lastSafe.applied + Permitted(p)
                                             ELSE lastSafe.applied - Permitted(p))
      ELSE Decided(p, "ALLOW", "allowed", v)

\* The checks that follow the duplicate test: whose command it is, which
\* states it is based on, when it may act and on what.
JudgeNew(p) ==
  IF p.context.run # context.run THEN Reject(p, "wrong_run_id")
  ELSE IF p.context # context \/ p.environment \notin EnvironmentTypes
    THEN Reject(p, "wrong_environment")
  ELSE IF p.source < lastValid THEN Reset(p, "non_monotonic_state")
  ELSE IF p.source >= p.validFrom \/ p.source > p.decided
    THEN Reject(p, "future_state")
  ELSE IF p.current < p.validFrom THEN Reject(p, "command_from_future")
  ELSE IF p.current > p.expires THEN Recover(p, "expired_command")
  ELSE IF p.current - p.source > MaximumStateAge + 1 THEN Recover(p, "stale_state")
  ELSE IF IdentityReason(p) # None THEN Reject(p, IdentityReason(p))
  ELSE IF p.reset THEN Reset(p, "allowed_native_reset")
  ELSE JudgeValue(p)

\* Mutant: duplicates looked up before the guard's own switches.
ReachesDuplicatesFirst(p) == p.schema = SchemaVersion /\ p.id # NoCommandId

\* Whether p gets past the checks that precede the duplicate test.
ReachesDuplicates(p) ==
  /\ Enabled /\ ~disabled /\ ~shutdown
  /\ p.ready /\ ~p.warmup
  /\ p.schema = SchemaVersion
  /\ p.id # NoCommandId

Judgement(p) ==
  IF ~Enabled \/ disabled THEN Reset(p, "disabled_control")
  ELSE IF shutdown THEN Reset(p, "shutdown_in_progress")
  ELSE IF ~p.ready THEN Reject(p, "simulation_not_ready")
  ELSE IF p.warmup THEN Reject(p, "warmup_state_rejected")
  ELSE IF p.schema # SchemaVersion THEN Reject(p, "unsupported_schema_version")
  ELSE IF p.id = NoCommandId THEN Reject(p, "missing_command_id")
  ELSE IF observed[p.id] # None THEN Reject(p, "conflicting_duplicate")
  ELSE JudgeNew(p)

ExactDuplicate(p) ==
  ReachesDuplicates(p) /\ observed[p.id] # None /\ observed[p.id].proposal = p

\* A value too large for a float breaks the value rules, and the making of
\* any command that copies it.
Crashes(d) == d.proposal.value = Oversized /\ IsCommand(d)

-----------------------------------------------------------------------------
(* SafetyStore.append.                                                     *)

Rows == committed \cup pending

\* Mutant: command ids that need not be unique.
StoreRefusesDecisions(d) ==
  \/ d.proposal.value \in {NaN, Infinite}
  \/ d \in Rows
  \/ Cardinality(Rows) >= MaximumRows

\* The primary keys (decision id; command id of a guarded command), and the
\* requested value, which is stored as JSON without NaN or infinities.
StoreRefuses(d) ==
  \/ d.proposal.value \in {NaN, Infinite}
  \/ d \in Rows
  \/ IsCommand(d) /\ \E row \in Rows : IsCommand(row) /\ row.proposal.id = d.proposal.id
  \/ Cardinality(Rows) >= MaximumRows

\* Mutant: a transaction that is one row longer than its interval.
AppendLate(d) ==
  IF pendingCount + 1 > CommitInterval
    THEN /\ committed' = committed \cup pending \cup {d}
         /\ pending' = {}
         /\ pendingCount' = 0
    ELSE /\ pending' = pending \cup {d}
         /\ pendingCount' = pendingCount + 1
         /\ UNCHANGED committed

Append(d) ==
  IF pendingCount + 1 >= CommitInterval
    THEN /\ committed' = committed \cup pending \cup {d}
         /\ pending' = {}
         /\ pendingCount' = 0
    ELSE /\ pending' = pending \cup {d}
         /\ pendingCount' = pendingCount + 1
         /\ UNCHANGED committed

\* A failing append rolls the whole open transaction back.
Rollback ==
  /\ pending' = {}
  /\ pendingCount' = 0
  /\ UNCHANGED committed

-----------------------------------------------------------------------------
(* SafetyGuard.evaluate: d is what it returns for p, one action for each   *)
(* way it returns.                                                         *)

Released(d) == released' = IF IsCommand(d) THEN released \cup {d} ELSE released

ReturnOriginal(p, d) ==
  /\ ExactDuplicate(p)
  /\ d = observed[p.id]
  /\ Released(d)
  /\ UNCHANGED <<memoryVars, storeVars>>

FailInternally(p, d) ==
  /\ ~ExactDuplicate(p)
  /\ Crashes(Judgement(p))
  /\ d = Reject(p, "guard_internal_error")
  /\ UNCHANGED guardVars

\* The part of _finish that updates the memory, once the audit row is written.
Remember(d) ==
  /\ lastValid' = Greater(lastValid, d.proposal.source)
  /\ observed' = [observed EXCEPT ![d.proposal.id] = d]
  /\ lastSafe' = IF d.outcome \in SetOutcomes THEN d ELSE lastSafe
  /\ UNCHANGED <<disabled, shutdown, context>>

\* The audit row could not be written (or the store fails for a reason of
\* its own): nothing is released and nothing is remembered.
FailClosed(p, d) ==
  /\ ~ExactDuplicate(p)
  /\ Audited
  /\ ~Crashes(Judgement(p))
  /\ d = Reject(p, "persistence_failure_fail_closed")
  /\ Rollback
  /\ UNCHANGED <<memoryVars, released>>

Finish(p, d) ==
  /\ ~ExactDuplicate(p)
  /\ d = Judgement(p)
  /\ ~Crashes(d)
  /\ IF Audited THEN ~StoreRefuses(d) /\ Append(d) ELSE UNCHANGED storeVars
  /\ IF d.reason = "conflicting_duplicate" THEN UNCHANGED memoryVars
                                           ELSE Remember(d)
  /\ Released(d)

Evaluate(p, d) ==
  \/ ReturnOriginal(p, d)
  \/ FailInternally(p, d)
  \/ FailClosed(p, d)
  \/ Finish(p, d)

\* What evaluate may return for p.
Returns(p) ==
  {observed[p.id], Judgement(p), Reject(p, "guard_internal_error"),
   Reject(p, "persistence_failure_fail_closed")}

-----------------------------------------------------------------------------
(* SafetyMemory's own operations.                                          *)

\* reset_for_run, and reset_for_environment, which keeps the run.
ResetFor(c) ==
  /\ context' = c
  /\ lastSafe' = None
  /\ lastValid' = 0
  /\ observed' = [id \in CommandIds |-> None]
  /\ disabled' = FALSE
  /\ shutdown' = FALSE
  /\ UNCHANGED <<storeVars, released>>

WarmupComplete ==
  /\ lastValid' = 0
  /\ UNCHANGED <<disabled, shutdown, context, lastSafe, observed, storeVars,
                 released>>

Disable ==
  /\ disabled' = TRUE
  /\ lastSafe' = None
  /\ UNCHANGED <<shutdown, context, lastValid, observed, storeVars, released>>

BeginShutdown ==
  /\ shutdown' = TRUE
  /\ lastSafe' = None
  /\ UNCHANGED <<disabled, context, lastValid, observed, storeVars, released>>

-----------------------------------------------------------------------------
GuardInit ==
  /\ disabled = FALSE
  /\ shutdown = FALSE
  /\ context \in Contexts
  /\ lastSafe = None
  /\ lastValid = 0
  /\ observed = [id \in CommandIds |-> None]
  /\ committed = {}
  /\ pending = {}
  /\ pendingCount = 0
  /\ released = {}

GuardNext ==
  \/ \E p \in Proposals : \E d \in Returns(p) : Evaluate(p, d)
  \/ \E c \in Contexts : ResetFor(c)
  \/ WarmupComplete
  \/ Disable
  \/ BeginShutdown

GuardSpec == GuardInit /\ [][GuardNext]_guardVars

-----------------------------------------------------------------------------
(* Properties.                                                             *)

\* The type of the guard's memory and of the audit store.
GuardTypeOK ==
  /\ {disabled, shutdown} \subseteq BOOLEAN
  /\ context \in Contexts
  /\ lastSafe \in Decision \cup {None}
  /\ lastValid \in Int
  /\ observed \in [CommandIds -> Decision \cup {None}]
  /\ committed \subseteq Decision
  /\ pending \subseteq Decision
  /\ pendingCount \in Nat
  /\ released \subseteq Decision

\* "Unknown errors never default to allow": whatever was requested, held,
\* clamped to a boundary or moved by the rate limit from an earlier setpoint,
\* a command that leaves the guard either gives the actuator back or carries
\* a setpoint within the absolute bounds.
ReleasedInBounds ==
  \A c \in released :
    IF c.outcome = "RESET_TO_NATIVE" THEN c.applied = None
                                     ELSE c.applied \in Minimum .. Maximum

\* "Live control commits each decision before eligibility for a physical
\* write": with one row per transaction, every command that ever left the
\* guard is in a committed row, through rollbacks, duplicates and resets.
ReleasedIsCommitted ==
  Audited /\ CommitInterval = 1 => released \subseteq committed

\* No two different commands ever leave the guard under one command id, over
\* duplicates, conflicting duplicates, shutdowns and resets of the memory,
\* which forgets the ids: the audit's primary key stands behind the memory.
OneCommandPerId ==
  Audited /\ CommitInterval = 1 =>
    \A a, b \in released : a.proposal.id = b.proposal.id => a = b

\* exact_duplicate: return_persisted_result.  A result the memory would return
\* for a duplicate is one the store still has.
RememberedIsPersisted ==
  Audited => \A id \in CommandIds : observed[id] \in Rows \cup {None}

\* After disable or begin_shutdown evaluate answers with resets and rejections
\* only, until the memory is reset: not with the setpoint it held, and not with
\* the original answer to a duplicate of an allowed command.
StoppedOnlyResets ==
  disabled \/ shutdown =>
    \A p \in Proposals :
      LET d == IF ExactDuplicate(p) THEN observed[p.id] ELSE Judgement(p)
      IN  d.outcome \in {"RESET_TO_NATIVE", "REJECT_NO_WRITE"}

\* The setpoint the guard holds moves by at most the rate limit at a time,
\* and by at most the per-timestep rate over the states that lie between,
\* except where the absolute clamp chose it.
MovesWithinRate ==
  [][lastSafe # None /\ lastSafe' # None
       /\ lastSafe'.reason # "clamped_absolute_bound" =>
         /\ Distance(lastSafe'.applied, lastSafe.applied) <= MaximumStep
         /\ Distance(lastSafe'.applied, lastSafe.applied) <=
              StepPerTimestep * Greater(1, lastSafe'.proposal.source
                                             - lastSafe.proposal.source)]_guardVars
=============================================================================
