--------------------------- MODULE MCUnguardedRun ---------------------------
(***************************************************************************)
(* Five timesteps, with a window of two of them and two after it; two      *)
(* system timesteps in each.  The faults come in sets, so that those that  *)
(* hide one another are met apart, and those that combine together.        *)
(***************************************************************************)
EXTENDS UnguardedRun

MCFaultSets ==
  {{}, {"api"}, {"discovery", "variable"}, {"event", "api"}, {"close", "exit", "sensor"},
   {"sensor", "effective", "enqueue", "handle"}, {"effective", "enqueue", "exit"},
   {"severe", "inputs"}}

=============================================================================
