---------------------------- MODULE MCSensingRun ----------------------------
(***************************************************************************)
(* Runs of a few timesteps with queues of one and batches of two: a batch  *)
(* is full, a last batch is incomplete, and a queue is full in a run.      *)
(***************************************************************************)
EXTENDS SensingRun

\* Every fault that has an answer, and as many as each of the properties with an
\* exception admits.  A fault may but need not happen.  An interrupt outside the
\* loop that answers one closes everything under a running simulation, after which
\* little holds.
MCFaults == FaultKinds \ {"interrupt"}

MCFaultSets == {MCFaults,
                MCFaults \ {"slow", "output", "input"},
                MCFaults \ {"slow", "output", "input", "store", "start"}}
=============================================================================
