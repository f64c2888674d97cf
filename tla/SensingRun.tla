----------------------------- MODULE SensingRun -----------------------------
(***************************************************************************)
(* One run of EnergyPlus in a process, and the way of its states into the  *)
(* database.  EnergyPlusRunner.run starts the extensions of the run,       *)
(* simulates in a thread, waits for it, closes the extensions and deletes  *)
(* the API state.  In the simulation's thread the sensor collector makes a *)
(* snapshot of every timestep, which is normalised and published on the    *)
(* StateBus, to which the StatePersistenceWorker (this module's writer)    *)
(* has subscribed.  Two callers:                                           *)
(*   sensing   run_live of run_state_bus_integration.py                    *)
(*   control   run_live_mode of fallback_live_common.py, which also queues *)
(*             a decision about every state for a ControllerWriter         *)
(* and a third that has no EnergyPlus:                                     *)
(*   replay    replay of replay_sensor_states.py, whose main thread reads  *)
(*             the snapshots of an earlier run from a file and publishes   *)
(*             them through the same bus and worker                        *)
(* What a decision is, and the actuator, are in GuardedControl.  The       *)
(* script is the last thing its process runs: threads that are not daemons *)
(* keep the process alive.                                                 *)
(***************************************************************************)
EXTENDS WriterThread, FiniteSets

CONSTANTS
  None,
  Kinds,         \* the callers
  Steps,         \* timesteps of a run: expected_snapshot_count
  FaultSets      \* the sets of faults a run may meet

FaultKinds ==
  {"api",        \* the API or the configuration cannot be loaded
   "start",      \* a writer cannot open its store
   "slow",       \* a writer is slower than who waits for it is patient
   "store",      \* a transaction fails
   "sensor",     \* a snapshot cannot be read or written
   "output",     \* the sensor's files cannot be opened or closed
   "exit",       \* EnergyPlus returns early or with an error
   "timeout",    \* the run exceeds timeout_seconds
   "input",      \* a replayed file is short, or a line of it is no new snapshot
   "cancel",     \* KeyboardInterrupt while the main thread waits, but not ...
   "interrupt"}  \* ... while the simulation runs and the wait has a timeout

ASSUME RunAssumption ==
  /\ {Capacity, BatchSize, Steps} \subseteq Nat \ {0}
  /\ Finalises = TRUE
  /\ Kinds \subseteq {"sensing", "control", "replay"}
  /\ FaultSets \subseteq SUBSET FaultKinds

VARIABLES
  kind, faults,
  main,            \* where the main thread is
  apiState,        \* "none", "live" or "deleted"
  simulation,      \* "none", "running", "ok" or "failed"
  stopRequested,   \* runtime.stop_simulation
  exitCode,        \* of the result: None, 0 or 1
  extensionError,  \* whether an extension could not be closed
  runStatus,       \* of the result
  handles,         \* of the sensors: "unknown", "ready" or "missing"
  hook,            \* where the snapshot hook is
  timestep,        \* calls of the collector's callback
  snapshots,       \* counters.successful_snapshots
  callbackErrors,  \* whether the collector has any
  bus,             \* "idle", "subscribed", "unsubscribed" or "shut"
  published,       \* latest_sequence, the normaliser's, state_count
  refused,         \* subscriber_errors, as the sequences they are about
  completion,      \* _completion of the state worker
  row,             \* of simulation_runs
  dRow,            \* of controller_runs
  verdict,         \* what the script prints at the end
  dThread, dQueue, dBatch, dRows    \* the ControllerWriter

Decisions == INSTANCE WriterThread WITH Finalises <- FALSE,
  thread <- dThread, queue <- dQueue, batch <- dBatch, rows <- dRows

decisionVars == <<dThread, dQueue, dBatch, dRows>>
fixedVars    == <<kind, faults>>
resultVars   == <<exitCode, extensionError, runStatus>>
runVars      == <<fixedVars, stopRequested, resultVars>>
apiVars      == <<apiState, simulation>>
hookVars     == <<handles, hook, timestep, snapshots, callbackErrors, published, refused>>
reportVars   == <<completion, row, dRow, verdict>>
sensingVars  == <<runVars, main, apiVars, hookVars, bus, reportVars,
                  writerVars, decisionVars>>

May(fault) == fault \in faults

Slow == May("slow")

\* A writer that cannot go on, whether or not it has ended.
Blocked(t, q) == t = "taking" /\ q = <<>>

Row(status, last, persisted, errors, drained) ==
  [status |-> status, last |-> last, persisted |-> persisted,
   errors |-> errors, drained |-> drained]

Rows == [status : {"RUNNING", "COMPLETED", "FAILED"}, last : Nat, persisted : Nat,
         errors : Nat, drained : BOOLEAN]

ASSUME NoneAssumption == None \notin Nat /\ None # "PASS" /\ None \notin Rows

\* begin_run of the state store, and of the controller store.
Begun == Row("RUNNING", 0, 0, 0, FALSE)

DecisionRow(status, states, decisions) ==
  [status |-> status, states |-> states, decisions |-> decisions]

DecisionsBegun == DecisionRow("RUNNING", 0, 0)

Unsubscribe(b) == IF b = "subscribed" THEN "unsubscribed" ELSE b

-----------------------------------------------------------------------------
(* The main thread: the extensions start.                                  *)

\* Loading fails before there is a worker.
LoadFails ==
  /\ main = "idle" /\ kind # "replay"
  /\ May("api")
  /\ main' = "closing"
  /\ UNCHANGED <<runVars, apiVars, hookVars, bus, reportVars, writerVars, decisionVars>>

\* A store may have no directory, a database of another version, or a row of the
\* run already.
Opens(ok) == ok \/ May("start")

\* start() waits for the worker to be ready, and not for ever.
StartsWriter(ok, inTime) == Opens(ok) /\ (inTime \/ Slow)

\* A replay has no runner that would catch the error and close.
StartStates ==
  /\ main = "idle"
  /\ apiState' = IF kind = "replay" THEN apiState ELSE "live"
  /\ \E ok, inTime \in BOOLEAN :
       /\ StartsWriter(ok, inTime)
       /\ Start(ok)
       /\ row' = IF ok THEN Begun ELSE None
       /\ IF ok /\ inTime
            THEN /\ bus' = "subscribed"
                 /\ main' = CASE kind = "control" -> "starting"
                              [] kind = "sensing" -> "entering"
                              [] kind = "replay"  -> "replaying"
            ELSE /\ UNCHANGED bus
                 /\ main' = IF kind = "replay" THEN "raised" ELSE "closing"
  /\ UNCHANGED <<runVars, simulation, hookVars, completion, dRow, verdict, decisionVars>>

StartDecisions ==
  /\ main = "starting"
  /\ \E ok, inTime \in BOOLEAN :
       /\ StartsWriter(ok, inTime)
       /\ Decisions!Start(ok)
       /\ dRow' = IF ok THEN DecisionsBegun ELSE None
       /\ main' = IF ok /\ inTime THEN "entering" ELSE "closing"
  /\ UNCHANGED <<runVars, apiVars, hookVars, bus, completion, row, verdict, writerVars>>

\* The sensor's files are opened, and EnergyPlus runs.
Enter ==
  /\ main = "entering"
  /\ \/ main' = "waiting" /\ simulation' = "running"
     \/ May("output") /\ main' = "closing" /\ UNCHANGED simulation
  /\ UNCHANGED <<runVars, apiState, hookVars, bus, reportVars, writerVars, decisionVars>>

-----------------------------------------------------------------------------
(* The main thread: run_with_soft_timeout.                                 *)

Waits == {"waiting", "grace", "polling", "cancelling"}

Returned == simulation \in {"ok", "failed"}

Completed ==
  /\ main \in Waits
  /\ Returned
  /\ main' = "closing"
  /\ exitCode' = IF simulation = "ok" THEN 0 ELSE 1
  /\ UNCHANGED <<fixedVars, stopRequested, extensionError, runStatus, apiVars, hookVars,
                 bus, reportVars, writerVars, decisionVars>>

\* stop_simulation is called at the timeout, and again at an interrupt.
Stops(from, to) ==
  /\ main = from
  /\ main' = to
  /\ stopRequested' = TRUE
  /\ UNCHANGED <<fixedVars, resultVars, apiVars, hookVars, bus, reportVars, writerVars,
                 decisionVars>>

TimesOut == May("timeout") /\ simulation = "running" /\ Stops("waiting", "grace")

Cancelled == May("cancel") /\ Stops("polling", "cancelling")

\* Mutant: the run is closed when the grace period has passed.
GraceEndsRun ==
  /\ main = "grace"
  /\ main' = "closing"
  /\ UNCHANGED <<runVars, apiVars, hookVars, bus, reportVars, writerVars, decisionVars>>

GraceEnds ==
  /\ main = "grace"
  /\ main' = "polling"
  /\ UNCHANGED <<runVars, apiVars, hookVars, bus, reportVars, writerVars, decisionVars>>

\* Outside the loop an interrupt ends the waiting, without an exit code.
Interrupted ==
  /\ IF Returned THEN May("cancel") ELSE May("interrupt")
  /\ main \in Waits \ {"polling"}
  /\ main' = "closing"
  /\ UNCHANGED <<runVars, apiVars, hookVars, bus, reportVars, writerVars, decisionVars>>

-----------------------------------------------------------------------------
(* The main thread of a replay.  Until the end of the file it publishes.   *)

\* The lines of the file, or as many as the limit, have been published.
ReplayEnds ==
  /\ main = "replaying" /\ hook = "none"
  /\ published = Steps \/ May("input")
  /\ main' = "stop_states"
  /\ UNCHANGED <<runVars, apiVars, hookVars, bus, reportVars, writerVars, decisionVars>>

\* A line that is no snapshot, or whose number does not follow: the bus is shut
\* down, the worker is not stopped.
ReplayFails ==
  /\ main = "replaying" /\ hook = "none"
  /\ May("input")
  /\ main' = "raised"
  /\ bus' = "shut"
  /\ UNCHANGED <<runVars, apiVars, hookVars, reportVars, writerVars, decisionVars>>

-----------------------------------------------------------------------------
(* The main thread: CompositeExtension.close, the last extension first.    *)

\* The runner catches the error of close(): the extensions before are not closed.
CloseFails == main' = "clearing" /\ extensionError' = TRUE

\* The sensor's files; then close() of the publisher or of the runtime, which
\* returns when it has no worker.
CloseSensor ==
  /\ main = "closing"
  /\ \/ May("output") /\ CloseFails /\ UNCHANGED bus
     \/ /\ kind = "control"
        /\ main' = IF "none" \in {thread, dThread} THEN "clearing" ELSE "stop_decisions"
        /\ UNCHANGED <<bus, extensionError>>
     \/ /\ kind = "sensing" /\ thread = "none"
        /\ main' = "clearing" /\ bus' = "shut"
        /\ UNCHANGED extensionError
     \/ /\ kind = "sensing" /\ thread # "none"
        /\ main' = "stop_states"
        /\ UNCHANGED <<bus, extensionError>>
  /\ UNCHANGED <<fixedVars, stopRequested, exitCode, runStatus, apiVars, hookVars,
                 reportVars, writerVars, decisionVars>>

\* queue.Full is none of the exceptions that the runner catches.
StopDecisions ==
  /\ main = "stop_decisions"
  /\ \/ Decisions!Put(STOP) /\ main' = "join_decisions"
     \/ Decisions!PutTimesOut(Slow) /\ main' = "escaped"
  /\ UNCHANGED <<runVars, apiVars, hookVars, bus, reportVars, writerVars>>

\* stop() raises when the thread has failed or is still alive.
JoinDecisions ==
  /\ main = "join_decisions"
  /\ \/ dThread = "stopped" /\ main' = "stop_states" /\ UNCHANGED extensionError
     \/ dThread = "failed" /\ CloseFails
     \/ Decisions!Alive /\ (Slow \/ Blocked(dThread, dQueue)) /\ CloseFails
  /\ UNCHANGED <<fixedVars, stopRequested, exitCode, runStatus, apiVars, hookVars, bus,
                 reportVars, writerVars, decisionVars>>

\* A replay shuts the bus down however the worker's stop() ends.
ReplayRaises == kind = "replay" /\ main' = "raised" /\ bus' = "shut"

StopStates ==
  /\ main = "stop_states"
  /\ completion' = [last |-> published, errors |-> Cardinality(refused)]
  /\ \/ /\ Put(STOP)
        /\ main' = "join_states"
        /\ bus' = Unsubscribe(bus)
     \/ /\ PutTimesOut(Slow)
        /\ \/ ReplayRaises
           \/ kind # "replay" /\ main' = "escaped" /\ bus' = Unsubscribe(bus)
  /\ UNCHANGED <<runVars, apiVars, hookVars, row, dRow, verdict, decisionVars>>

JoinStates ==
  /\ main = "join_states"
  /\ \/ /\ thread = "stopped"
        /\ main' = IF kind = "replay" THEN "reporting" ELSE "clearing"
        /\ bus' = "shut"
        /\ UNCHANGED extensionError
     \/ /\ thread = "failed" \/ (Alive /\ (Slow \/ Blocked(thread, queue)))
        /\ \/ ReplayRaises /\ UNCHANGED extensionError
           \/ kind # "replay" /\ CloseFails /\ UNCHANGED bus
  /\ UNCHANGED <<fixedVars, stopRequested, exitCode, runStatus, apiVars, hookVars,
                 reportVars, writerVars, decisionVars>>

\* Mutant: an error of close() is in the result but not in its status.
RequiredOfSimulation == exitCode = 0 /\ ~stopRequested

\* required_ok of what is modelled: no timeout, no cancellation, and no error of
\* the extensions.
Required == exitCode = 0 /\ ~stopRequested /\ ~extensionError

\* The callbacks are cleared, the API state deleted and the lock released; the
\* messages and outputs of EnergyPlus may still fail the run.
Clear ==
  /\ main = "clearing"
  /\ main' = "reporting"
  /\ apiState' = IF apiState = "live" THEN "deleted" ELSE apiState
  /\ runStatus' \in {"FAIL"} \union (IF Required THEN {"PASS"} ELSE {})
  /\ UNCHANGED <<fixedVars, stopRequested, exitCode, extensionError, simulation, hookVars,
                 bus, reportVars, writerVars, decisionVars>>

-----------------------------------------------------------------------------
(* The main thread: what the script reports.                               *)

\* Mutant: what was normalised, as in the completion of close().
PersistedOfClose == published

\* persisted_count of the worker's statistics.
Persisted == Len(rows)

\* The checks of the script.  Left out are the integrity of the database, the
\* comparison of outputs, and what the actuator contributes to control.
Passes ==
  /\ published = Steps
  /\ kind # "replay" => exitCode = 0 /\ ~callbackErrors
  /\ kind # "control" => Persisted = published /\ refused = {}

Raises == main' = "raised" /\ UNCHANGED verdict

Returns == main' = "returned" /\ verdict' = IF Passes THEN "PASS" ELSE "FAIL"

\* run_live completes the row of the run again.  A row that was never begun, or
\* a failing transaction, raises.
ReportSensing ==
  /\ kind = "sensing"
  /\ \/ /\ row = None \/ May("store")
        /\ Raises
        /\ UNCHANGED row
     \/ /\ row # None
        /\ Returns
        /\ row' = Row(IF exitCode = 0 THEN "COMPLETED" ELSE "FAILED",
                      published, Persisted, Cardinality(refused), thread = "stopped")
  /\ UNCHANGED dRow

\* The row of the controller's run.
Finalised ==
  DecisionRow(IF exitCode = 0 THEN "COMPLETED" ELSE "FAILED", published, published)

\* run_live_mode stores the executor's events, each of which must name a
\* command in the database, completes the row of the controller, if it was
\* begun, and reads the output of the simulation.
ReportControl ==
  /\ kind = "control"
  /\ \/ /\ \/ May("store")
           \/ Len(dRows) < snapshots   \* a command of which there is no row
        /\ Raises
        /\ UNCHANGED dRow
     \/ /\ dRow' = IF dRow = None THEN None ELSE Finalised
        /\ IF simulation = "none" THEN Raises ELSE Returns
  /\ UNCHANGED row

ReportReplay == kind = "replay" /\ Returns /\ UNCHANGED <<row, dRow>>

Report ==
  /\ main = "reporting"
  /\ ReportSensing \/ ReportControl \/ ReportReplay
  /\ UNCHANGED <<runVars, apiVars, hookVars, bus, completion, writerVars, decisionVars>>

-----------------------------------------------------------------------------
(* The simulation's thread.                                                *)

\* The first call looks all handles up, and no later one does.
HandlesThen ==
  IF handles # "unknown" THEN {handles}
  ELSE {"ready"} \union (IF May("sensor") THEN {"missing"} ELSE {})

\* The call that misses a handle returns without an error, and so does one that
\* repeats a time.
SnapshotSkipped ==
  /\ May("sensor")
  /\ UNCHANGED <<hook, snapshots, callbackErrors, published, refused>>

\* A snapshot that cannot be made, or whose number the normaliser has seen.
SnapshotFails ==
  /\ May("sensor") \/ snapshots # published \/ bus = "shut"
  /\ hook' = "none"
  /\ callbackErrors' = TRUE
  /\ UNCHANGED <<snapshots, published, refused>>

\* The subscriber has queued the state, or its error was recorded.
AfterState(sequence) ==
  IF kind # "control"
  THEN hook' = "none" /\ snapshots' = sequence /\ UNCHANGED callbackErrors
  ELSE IF dThread = "failed"
  THEN hook' = "none" /\ callbackErrors' = TRUE /\ UNCHANGED snapshots
  ELSE hook' = "decision" /\ UNCHANGED <<snapshots, callbackErrors>>

\* The bus publishes; enqueue raises at once when the worker has failed.
Publish ==
  /\ snapshots = published
  /\ bus # "shut"
  /\ published' = published + 1
  /\ IF bus # "subscribed"
     THEN AfterState(published') /\ UNCHANGED refused
     ELSE IF thread = "failed"
     THEN AfterState(published') /\ refused' = refused \union {published'}
     ELSE hook' = "state" /\ UNCHANGED <<snapshots, callbackErrors, refused>>

\* A line of the file is normalised and published.
ReplayLine ==
  /\ main = "replaying"
  /\ hook = "none"
  /\ published < Steps
  /\ Publish
  /\ UNCHANGED <<runVars, main, apiVars, handles, timestep, bus, reportVars, writerVars,
                 decisionVars>>

Callback ==
  /\ simulation = "running"
  /\ hook = "none"
  /\ timestep < Steps
  /\ timestep' = timestep + 1
  /\ handles' \in HandlesThen
  /\ \/ SnapshotSkipped
     \/ SnapshotFails
     \/ handles' = "ready" /\ Publish
  /\ UNCHANGED <<runVars, main, apiVars, bus, reportVars, writerVars, decisionVars>>

\* Mutant: the bus does not record the subscriber's error.
EnqueueStateQuietly ==
  /\ hook = "state"
  /\ Put(published) \/ PutTimesOut(Slow)
  /\ AfterState(published)
  /\ UNCHANGED <<runVars, main, apiVars, handles, timestep, published, refused, bus,
                 reportVars, decisionVars>>

EnqueueState ==
  /\ hook = "state"
  /\ \/ Put(published) /\ UNCHANGED refused
     \/ PutTimesOut(Slow) /\ refused' = refused \union {published}
  /\ AfterState(published)
  /\ UNCHANGED <<runVars, main, apiVars, handles, timestep, published, bus, reportVars,
                 decisionVars>>

EnqueueDecision ==
  /\ hook = "decision"
  /\ hook' = "none"
  /\ \/ Decisions!Put(published) /\ snapshots' = published /\ UNCHANGED callbackErrors
     \/ Decisions!PutTimesOut(Slow) /\ callbackErrors' = TRUE /\ UNCHANGED snapshots
  /\ UNCHANGED <<runVars, main, apiVars, handles, timestep, published, refused, bus,
                 reportVars, writerVars>>

\* run_energyplus returns at the end, early with an error, or when stopped.
SimulationReturns ==
  /\ simulation = "running"
  /\ hook = "none"
  /\ \/ timestep = Steps /\ simulation' = "ok"
     \/ stopRequested /\ simulation' \in {"ok", "failed"}
     \/ May("exit") /\ simulation' = "failed"
  /\ UNCHANGED <<runVars, main, apiState, hookVars, bus, reportVars, writerVars,
                 decisionVars>>

-----------------------------------------------------------------------------
(* The writers' threads.                                                   *)

\* The worker completes the row with its own count.
StatesStep ==
  /\ \/ (Take \/ Store \/ (May("store") /\ Fail)) /\ UNCHANGED row
     \/ /\ Finalise
        /\ row' = Row("COMPLETED", completion.last, Len(rows), completion.errors, TRUE)
  /\ UNCHANGED <<runVars, main, apiVars, hookVars, bus, completion, dRow, verdict,
                 decisionVars>>

\* A batch of decisions, each with its command if it has one, in a transaction.
StoreDecisions == Decisions!Store

DecisionsStep ==
  /\ Decisions!Take \/ StoreDecisions \/ (May("store") /\ Decisions!Fail)
  /\ UNCHANGED <<runVars, main, apiVars, hookVars, bus, reportVars, writerVars>>

-----------------------------------------------------------------------------
SensingInit ==
  /\ kind \in Kinds
  /\ faults \in FaultSets
  /\ main = "idle"
  /\ apiState = "none" /\ simulation = "none" /\ stopRequested = FALSE
  /\ exitCode = None /\ extensionError = FALSE /\ runStatus = None
  /\ handles = "unknown" /\ hook = "none"
  /\ timestep = 0 /\ snapshots = 0 /\ callbackErrors = FALSE
  /\ bus = "idle" /\ published = 0 /\ refused = {}
  /\ completion = None /\ row = None /\ dRow = None /\ verdict = None
  /\ WriterInit
  /\ Decisions!WriterInit

MainStep ==
  \/ LoadFails \/ StartStates \/ StartDecisions \/ Enter
  \/ Completed \/ TimesOut \/ GraceEnds \/ Cancelled \/ Interrupted
  \/ ReplayLine \/ ReplayEnds \/ ReplayFails
  \/ CloseSensor \/ StopDecisions \/ JoinDecisions \/ StopStates \/ JoinStates
  \/ Clear \/ Report

SimulationStep == Callback \/ EnqueueState \/ EnqueueDecision \/ SimulationReturns

SensingNext == MainStep \/ SimulationStep \/ StatesStep \/ DecisionsStep

\* Every thread that can go on does: all waits but those for the simulation
\* have timeouts, and EnergyPlus returns from a run.
SensingSpec ==
  /\ SensingInit
  /\ [][SensingNext]_sensingVars
  /\ WF_sensingVars(MainStep)
  /\ WF_sensingVars(SimulationStep)
  /\ WF_sensingVars(StatesStep)
  /\ WF_sensingVars(DecisionsStep)

-----------------------------------------------------------------------------
(* Properties.                                                             *)

Ended == main \in {"returned", "raised", "escaped"}

\* A state that was published is in the database when the worker has stopped, in
\* order and once, unless the bus counts an error for it; so is the decision
\* about every snapshot that the collector counts.  Bounded queues, batches, the
\* last batch and the order of shutdown must all hold for that.
NothingVanishes ==
  /\ thread = "stopped" =>
       /\ {rows[i] : i \in DOMAIN rows} = (1 .. published) \ refused
       /\ \A i, j \in DOMAIN rows : i < j => rows[i] < rows[j]
  /\ dThread = "stopped" => dRows = [i \in 1 .. snapshots |-> i]

\* A row that reports a drained queue and no errors describes a database that
\* holds every state up to the last it names, whoever wrote the row.
CleanRowIsComplete ==
  row # None /\ row.drained /\ row.errors = 0 => rows = [i \in 1 .. row.last |-> i]

\* When the script has returned, the rows tell whether EnergyPlus did what it
\* should and what the database holds, although the workers write them too.  A
\* worker that is slow or was never stopped may write later.
RowTellsOutcome ==
  /\ main = "returned" /\ kind # "control" /\ ~Slow /\ ~May("output") =>
       /\ kind = "sensing" /\ row.status = "COMPLETED" => simulation = "ok"
       /\ row.persisted = Len(rows)
       /\ row.errors = Cardinality(refused)
  /\ main = "returned" /\ kind = "control" /\ dRow # None =>
       /\ dRow.status = "COMPLETED" => simulation = "ok"
       /\ dThread = "stopped" /\ ~callbackErrors => dRow.decisions = Len(dRows)

\* A sensing run or a replay that prints PASS has every state of the year in the
\* database.  A run whose result is PASS has every state that was published, and
\* the decision about each, unless the bus counts an error for it: the writers
\* have been stopped, and the simulation was not.
PassMeansStored ==
  /\ verdict = "PASS" /\ kind # "control" => rows = [i \in 1 .. Steps |-> i]
  /\ runStatus = "PASS" =>
       /\ simulation = "ok" /\ thread = "stopped" /\ completion.last = published
       /\ kind = "control" => dThread = "stopped"

\* The API state is never deleted under a running simulation, however often the
\* waiting times out and whatever raises on the way to the deletion, except after
\* an interrupt outside the loop that answers one (runner.py, 94-120).
StateOutlivesSimulation ==
  apiState = "deleted" /\ "interrupt" \notin faults => simulation # "running"

\* No failure skips the stop() of a writer.
StopIsReached ==
  /\ ~May("output") /\ ~Slow
  /\ May("store") \/ May("start") => kind # "control"
  /\ May("input") => kind # "replay"

\* The main thread comes to an end, whatever fails in the other threads.  So do
\* the threads of the writers, which keep the process alive, except after the
\* failures that skip a writer's stop().
ThreadsEnd ==
  /\ <>Ended
  /\ Ended /\ StopIsReached ~> ~Alive /\ ~Decisions!Alive
=============================================================================
