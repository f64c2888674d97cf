--------------------------- MODULE GuardedControl ---------------------------
(***************************************************************************)
(* Guarded live control: what happens to one controlled zone from one      *)
(* EnergyPlus callback to the next.  At the end of a zone timestep the     *)
(* sensor collector hands a snapshot to publish_snapshot, which normalises *)
(* it, lets the fallback controller decide, queues the decision for the    *)
(* controller's database, has the safety guard judge the command and puts  *)
(* what the guard returns in the guarded buffer.  During the next zone     *)
(* timestep the SafetyExecutor fetches the buffer's command in a system    *)
(* timestep and passes it through the PhysicalWriteGate to the actuator.   *)
(* At the end of the run the executor asks the guard for a reset.          *)
(*                                                                         *)
(* EnergyPlus runs its callbacks one at a time, so each callback is one    *)
(* action.  The model starts in the weather run after warmup: before that  *)
(* every callback returns without effect.                                  *)
(***************************************************************************)
EXTENDS Integers

CONSTANTS
  MinimumSetpoint, MaximumSetpoint, MaximumDelta, HotThreshold, RecoverySetpoint,
  Hysteresis, RelaxedOffset, MaximumRelaxed, ProtectionThreshold, MinimumHold,
  OccupancyGrace, MaximumSequenceGap, CommandTtl,      \* as in FallbackController
  Minimum, Maximum, MarginalClamp, MaximumStep, StepPerTimestep,
  MaximumStateAge,                                     \* as in SafetyGuard
  Temperatures,          \* what the zone's temperature may be
  NativeSetpoints,       \* the setpoints of the building's own schedule
  FaultSets,             \* the sets of faults that a run may meet
  MaximumSequence,       \* bound on the snapshots of a run
  None, NonNumeric, NaN, Infinite, Oversized

FaultKinds ==
  {"sensor",     \* a required sensor is missing or not finite
   "effective",  \* the effective setpoint reads as missing or not finite
   "enqueue",    \* the controller writer has failed or its queue is full
   "audit",      \* the safety store fails
   "handle"}     \* the actuator's handle is not available

ASSUME ControlAssumption ==
  /\ FaultSets \subseteq SUBSET FaultKinds
  /\ Temperatures \cup NativeSetpoints \subseteq Int
  /\ {MinimumSetpoint, MaximumSetpoint, HotThreshold, RecoverySetpoint,
      MaximumRelaxed, ProtectionThreshold, Minimum, Maximum} \subseteq Int
  /\ {MaximumDelta, Hysteresis, RelaxedOffset, MinimumHold, OccupancyGrace,
      MaximumSequenceGap, CommandTtl, MarginalClamp, MaximumStep, StepPerTimestep,
      MaximumStateAge, MaximumSequence} \subseteq Nat
  /\ MinimumSetpoint <= MaximumSetpoint
  /\ Minimum <= Maximum
  /\ {None, NonNumeric, NaN, Infinite, Oversized} \cap Int = {}
  /\ None \notin {NonNumeric, NaN, Infinite, Oversized}

VARIABLES
  faults,                        \* history: what may fail in this run
  native, override,              \* the zone's schedule, and the actuator over it
  phase,                         \* "system" until the timestep's system callback ran
  snapshots,                     \* SensorCollector: successful_snapshots
  normalised,                    \* StateNormalizer._last_sequence
  lastSequence, memory, decision,            \* the fallback controller
  disabled, shutdown, context, lastSafe, lastValid, observed,
  committed, pending, pendingCount, released,          \* the safety guard
  latest,                        \* GuardedCommandBuffer._latest
  currentSequence, active, handle,           \* SafetyExecutor
  authority,                     \* history: the latest command the gate let through
  closed

RealZone == "SPACE3-1"

Space3 == [component |-> "Zone Temperature Control", control |-> "Cooling Setpoint",
           key |-> "SPACE3-1", units |-> "C"]

LiveContext == [run |-> "module8-live_control", environment |-> "weather-1"]

ShutdownId == 0    \* "module8-shutdown-reset"
NoId       == -1   \* the empty id, which nothing here uses

\* Every name that occurs in a proposal of this run.
Names == {RealZone, "module8-live_control", "weather-1", "Zone Temperature Control",
          "Cooling Setpoint", "C"}

Controller == INSTANCE FallbackController WITH
  Zones <- {RealZone}, ApprovedZones <- {RealZone}, Gaps <- {1},
  Setpoints <- NativeSetpoints

Guard == INSTANCE SafetyGuard WITH
  Enabled <- TRUE, Audited <- TRUE, CommitInterval <- 1, SchemaVersion <- 1,
  EnvironmentTypes <- {3}, ApprovedZones <- {RealZone}, PlenumZones <- {"PLENUM-1"},
  ApprovedActuator <- Space3, Names <- Names, Contexts <- {LiveContext},
  CommandIds <- NoId .. MaximumSequence, NoCommandId <- NoId, Proposals <- {},
  MaximumRows <- 2 * MaximumSequence

\* What is None is no command.
ASSUME NoneAssumption == None \notin Guard!Decision

plantVars      == <<faults, native, override, phase>>
sensorVars     == <<snapshots, normalised>>
controllerVars == <<lastSequence, memory, decision>>
guardVars      == <<disabled, shutdown, context, lastSafe, lastValid, observed,
                    committed, pending, pendingCount, released>>
executorVars   == <<currentSequence, active, handle, authority>>
controlVars    == <<plantVars, sensorVars, controllerVars, guardVars, latest,
                    executorVars, closed>>

-----------------------------------------------------------------------------
(* The guarded buffer and the physical write gate.                         *)

\* Mutant: a command that lives one sequence longer.
ExpiredLate(command, sequence) == sequence > command.proposal.expires + 1

Expired(command, sequence) == sequence > command.proposal.expires

\* GuardedCommandBuffer.latest: what it keeps, and what it returns.
Kept(command, sequence) ==
  IF command # None /\ Expired(command, sequence) THEN None ELSE command

Fetched(command, sequence) ==
  IF Kept(command, sequence) = None \/ sequence < command.proposal.validFrom
    THEN None
    ELSE command

\* Mutant: a reset that forgets to give the actuator back.
SubmitKeeping(command, sequence) ==
  IF command = None \/ Expired(command, sequence)
    THEN UNCHANGED <<override, active, authority>>
    ELSE /\ override' = IF command.applied = None THEN override ELSE command.applied
         /\ active' = (command.outcome # "RESET_TO_NATIVE")
         /\ authority' = command

\* PhysicalWriteGate.submit and what SafetyExecutor makes of the attempt.
Submit(command, sequence) ==
  IF command = None \/ Expired(command, sequence)
    THEN UNCHANGED <<override, active, authority>>
    ELSE /\ override' = command.applied
         /\ active' = (command.outcome # "RESET_TO_NATIVE")
         /\ authority' = command

-----------------------------------------------------------------------------
(* The safety guard as publish_snapshot and close use it.                  *)

\* ProposedCommand.from_control_command for the command of decision d.
ProposalOf(d) ==
  [id |-> d.sequence, context |-> LiveContext, environment |-> 3,
   zone |-> RealZone, actuator |-> Space3, value |-> d.approved,
   source |-> d.sequence, decided |-> d.sequence,
   validFrom |-> Controller!ValidFrom(d), expires |-> Controller!ExpiresAfter(d),
   current |-> d.sequence + 1, warmup |-> FALSE, ready |-> TRUE,
   reset |-> (d.action = "RESET"), schema |-> 1]

\* Mutant: a reset decided from the state of the period it is for.
ShutdownProposalNow ==
  [id |-> ShutdownId, context |-> LiveContext, environment |-> 3,
   zone |-> RealZone, actuator |-> Space3, value |-> None,
   source |-> currentSequence, decided |-> currentSequence,
   validFrom |-> currentSequence, expires |-> currentSequence + 1,
   current |-> currentSequence, warmup |-> FALSE, ready |-> TRUE,
   reset |-> TRUE, schema |-> 1]

\* What close proposes: a reset decided from the last completed state.
ShutdownProposal ==
  [id |-> ShutdownId, context |-> LiveContext, environment |-> 3,
   zone |-> RealZone, actuator |-> Space3, value |-> None,
   source |-> currentSequence - 1, decided |-> currentSequence - 1,
   validFrom |-> currentSequence, expires |-> currentSequence + 1,
   current |-> currentSequence, warmup |-> FALSE, ready |-> TRUE,
   reset |-> TRUE, schema |-> 1]

\* evaluate returns d for p; its store fails only if it refuses the row or
\* stores may fail in this run.
Judged(p, d) ==
  /\ Guard!Evaluate(p, d)
  /\ d.reason = "persistence_failure_fail_closed" =>
       "audit" \in faults \/ Guard!StoreRefuses(Guard!Judgement(p))

\* Mutants: only setpoints are published; the first command stays published.
PublishedSetpoint(d) == IF d.outcome \in Guard!SetOutcomes THEN d ELSE latest

PublishedFirst(d) == IF Guard!IsCommand(d) /\ latest = None THEN d ELSE latest

\* What the buffer holds once a command the guard returned is published.  Its
\* test for an id published before has nothing to find: the guard returns a
\* command for an id once (SafetyGuard's OneCommandPerId), and no two snapshots
\* that get this far have the same sequence.
Published(d) == IF Guard!IsCommand(d) THEN d ELSE latest

-----------------------------------------------------------------------------
(* The system timestep callback of SafetyExecutor.                         *)

SystemTimestep ==
  /\ ~closed
  /\ phase' = "zone"
  /\ \/ /\ handle' = TRUE
        /\ latest' = Kept(latest, currentSequence)
        /\ Submit(Fetched(latest, currentSequence), currentSequence)
     \/ /\ "handle" \in faults /\ ~handle
        /\ UNCHANGED <<handle, latest, override, active, authority>>
  /\ UNCHANGED <<faults, native, sensorVars, controllerVars, guardVars,
                 currentSequence, closed>>

-----------------------------------------------------------------------------
(* The end of a zone timestep: SensorCollector's callback, and the hook    *)
(* publish_snapshot.  An exception anywhere in it is recorded by the       *)
(* collector and leaves what was done before it in place; only a callback  *)
(* that ends without one counts its snapshot.                              *)

Reading ==
  [occupied    : BOOLEAN,
   temperature : Temperatures,
   effective   : {IF override = None THEN native ELSE override}
                   \cup (IF "effective" \in faults THEN {None} ELSE {})]

EndOfTimestep ==
  /\ ~closed
  /\ phase = "zone"
  /\ phase' = "system"
  /\ native' \in NativeSetpoints
  /\ UNCHANGED faults

\* Mutant: a snapshot that could not be built counts as normalised.
SensorFailureCounted ==
  /\ EndOfTimestep
  /\ "sensor" \in faults
  /\ normalised' = snapshots + 1
  /\ UNCHANGED <<override, snapshots, controllerVars, guardVars, latest,
                 executorVars, closed>>

\* No snapshot could be built.
SensorFailure ==
  /\ EndOfTimestep
  /\ "sensor" \in faults
  /\ UNCHANGED <<override, sensorVars, controllerVars, guardVars, latest,
                 executorVars, closed>>

\* A snapshot whose sequence the normaliser has already seen is refused.
RepeatedSequence ==
  /\ EndOfTimestep
  /\ snapshots + 1 <= normalised
  /\ UNCHANGED <<override, sensorVars, controllerVars, guardVars, latest,
                 executorVars, closed>>

\* The controller has decided, but its decision cannot be queued.
EnqueueFailure ==
  /\ EndOfTimestep
  /\ "enqueue" \in faults
  /\ snapshots + 1 > normalised
  /\ normalised' = snapshots + 1
  /\ normalised' <= MaximumSequence
  /\ \E reading \in Reading :
       Controller!Evaluate(normalised', [z \in {RealZone} |-> reading])
  /\ UNCHANGED <<override, snapshots, guardVars, latest, executorVars, closed>>

\* The whole of publish_snapshot.
PublishSnapshot ==
  /\ EndOfTimestep
  /\ snapshots + 1 > normalised
  /\ normalised' = snapshots + 1
  /\ normalised' <= MaximumSequence
  /\ \E reading \in Reading :
       Controller!Evaluate(normalised', [z \in {RealZone} |-> reading])
  /\ LET p == ProposalOf(decision'[RealZone])
     IN  \E d \in Guard!Returns(p) :
           /\ Judged(p, d)
           /\ latest' = Published(d)
  /\ currentSequence' = normalised' + 1
  /\ snapshots' = normalised'
  /\ UNCHANGED <<override, active, handle, authority, closed>>

-----------------------------------------------------------------------------
(* SafetyExecutor.close, after EnergyPlus has ended.                       *)

CloseActive ==
  /\ ~closed /\ active
  /\ \E d \in Guard!Returns(ShutdownProposal) :
       /\ Judged(ShutdownProposal, d)
       /\ LET command == Fetched(Published(d), currentSequence)
          IN  IF command = None
                THEN UNCHANGED <<override, active, authority>>
                ELSE /\ override' = command.applied
                     /\ active' = FALSE
                     /\ authority' = command
  /\ latest' = None
  /\ closed' = TRUE
  /\ UNCHANGED <<faults, native, phase, sensorVars, controllerVars,
                 currentSequence, handle>>

CloseInactive ==
  /\ ~closed /\ ~active
  /\ latest' = None
  /\ closed' = TRUE
  /\ UNCHANGED <<plantVars, sensorVars, controllerVars, guardVars, executorVars>>

-----------------------------------------------------------------------------
ControlInit ==
  /\ faults \in FaultSets
  /\ native \in NativeSetpoints
  /\ override = None
  /\ phase = "system"
  /\ snapshots = 0
  /\ normalised = 0
  /\ Controller!ControllerInit
  /\ Guard!GuardInit
  /\ latest = None
  /\ currentSequence = 0
  /\ active = FALSE
  /\ handle = FALSE
  /\ authority = None
  /\ closed = FALSE

Callback ==
  SystemTimestep \/ SensorFailure \/ RepeatedSequence \/ EnqueueFailure
    \/ PublishSnapshot

ControlNext == Callback \/ CloseActive \/ CloseInactive

ControlSpec == ControlInit /\ [][ControlNext]_controlVars

-----------------------------------------------------------------------------
(* Properties.                                                             *)

zone == memory[RealZone]

\* Whether the latest decision of the controller got as far as the guard.
Settled == snapshots = lastSequence

\* While it controls the zone, the controller's baseline is a setpoint of the
\* building's schedule and not the value of its own override read back, in a
\* run whose store does not fail.
BaselineIsNative ==
  "audit" \notin faults /\ zone.active => zone.native \in NativeSetpoints

\* reset_on_expiry: what stands on the actuator once the executor has run is a
\* command that has not expired, as long as the store does not fail; the executor
\* itself leaves an expired one standing (executor.py, 55), and must be given
\* another in time whatever else is lost.
ExpiredIsReplaced ==
  "audit" \notin faults /\ phase = "zone" /\ override # None =>
    ~Expired(authority, currentSequence)

\* final_cleanup_reset: when the run is closed the actuator is released, unless
\* the store fails.
ClosedReleases == "audit" \notin faults /\ closed => override = None

-----------------------------------------------------------------------------
(* The contract: whatever fails, the actuator is moved only by a grant the *)
(* audit has on record, in its own time (see AuthorisedActuation).         *)

GrantOf(c) == [id |-> c.proposal.id, setpoint |-> c.applied,
               source |-> c.proposal.source, from |-> c.proposal.validFrom,
               until |-> c.proposal.expires]

Contract == INSTANCE AuthorisedActuation WITH
  clock <- currentSequence,
  granted <- {GrantOf(c) : c \in {row \in committed : Guard!IsCommand(row)}}

Authorised == Contract!Spec
=============================================================================
