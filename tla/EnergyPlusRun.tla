---------------------------- MODULE EnergyPlusRun ----------------------------
(***************************************************************************)
(* The weather run of EnergyPlus as an extension with one actuator sees    *)
(* it: zone timesteps, in each of which the callback after the predictor   *)
(* runs once per system timestep and the one after zone reporting at the   *)
(* end, the zone's own setpoint schedule, and the override over it; and    *)
(* what the sensor collector, the first to be called at the end, counts.   *)
(* Callbacks before the weather run are skipped by the extensions and left *)
(* out.  EnergyPlus itself is not part of the repository.                  *)
(***************************************************************************)
EXTENDS Integers

CONSTANTS
  None,
  Steps,             \* zone timesteps of the run: minimum_snapshots
  MaximumCalls,      \* bound on the system timesteps of a zone timestep
  NativeSetpoints,   \* the setpoints of the building's own schedule
  FaultSets          \* the sets of faults that a run may meet

FaultKinds ==
  {"api",          \* an actuator call raises the API error flag, done or not
   "discovery",    \* the actuator is not found, or found with the flag raised
   "variable",     \* the handle of a target variable is -1
   "event",        \* an event cannot be written
   "close",        \* files cannot be completed at the end
   "sensor",       \* a required sensor is missing or not finite
   "effective",    \* the effective setpoint reads as missing or not finite
   "enqueue",      \* the controller writer has failed or its queue is full
   "handle",       \* the actuator's handle is not available yet
   "exit",         \* EnergyPlus ends before the last timestep
   "severe",       \* EnergyPlus reports severe or fatal errors
   "inputs"}       \* the files of the model or the weather are exchanged

ASSUME EnergyPlusAssumption ==
  /\ {Steps, MaximumCalls} \subseteq Nat \ {0}
  /\ NativeSetpoints \subseteq Int
  /\ None \notin Int
  /\ FaultSets \subseteq SUBSET FaultKinds

VARIABLES
  faults,        \* history: what may fail in this run
  timestep,      \* of the weather run
  calls,         \* system timesteps in it so far
  occupied,      \* whether the zone is
  native,        \* what the zone's schedule says
  override,      \* what stands on the actuator over it, or None
  exitCode,      \* None while EnergyPlus runs
  severe,        \* whether thermoledger.err counts severe or fatal errors
  snapshots,     \* SensorCollector: successful_snapshots
  sensorErrors   \* whether it has callback_errors

sensorVars == <<snapshots, sensorErrors>>
plantVars == <<timestep, calls, occupied, native>>
endVars == <<exitCode, severe>>

May(fault) == fault \in faults

Running == exitCode = None

\* What set_actuator_value, or reset_actuator with None, leaves behind: the
\* override, and the API error flag.
Writes(value) ==
  {[override |-> value, flag |-> FALSE]} \cup
  (IF May("api") THEN {[override |-> o, flag |-> TRUE] : o \in {value, override}} ELSE {})

\* The zone's effective setpoint.
Effective == IF override = None THEN native ELSE override

\* The callback after the predictor runs.
SystemTimestep ==
  /\ Running
  /\ timestep <= Steps
  /\ calls < MaximumCalls
  /\ calls' = calls + 1
  /\ UNCHANGED <<faults, timestep, occupied, native, endVars, sensorVars>>

\* The callbacks after zone reporting run, and the next timestep is begun.
ZoneTimestep(schedule) ==
  /\ Running
  /\ calls > 0
  /\ timestep' = timestep + 1
  /\ calls' = 0
  /\ occupied' \in BOOLEAN
  /\ native' \in schedule
  /\ UNCHANGED <<faults, override, endVars>>

\* EnergyPlus returns, and it may return 0 with severe errors.
Exit ==
  /\ Running
  /\ calls = 0
  /\ \/ timestep = Steps + 1 /\ exitCode' = 0
     \/ May("exit") /\ exitCode' \in {0, 1}
  /\ severe' \in IF May("severe") THEN BOOLEAN ELSE {FALSE}
  /\ UNCHANGED <<faults, plantVars, override, sensorVars>>

\* A snapshot that cannot be built is an error of the collector.
SensorFails == May("sensor") /\ sensorErrors' = TRUE /\ UNCHANGED snapshots

\* It is counted once everything that is made of it is done.
SensorCounts == snapshots' = snapshots + 1 /\ UNCHANGED sensorErrors

PlantInit ==
  /\ faults \in FaultSets
  /\ timestep = 1 /\ calls = 0
  /\ occupied \in BOOLEAN
  /\ override = None
  /\ exitCode = None
  /\ severe = FALSE
  /\ snapshots = 0
  /\ sensorErrors = FALSE

=============================================================================
