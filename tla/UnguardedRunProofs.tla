------------------------- MODULE UnguardedRunProofs -------------------------
(***************************************************************************)
(* Theorems about UnguardedRun, for every window, setpoint and number of   *)
(* timesteps, and every set of faults.                                     *)
(*                                                                         *)
(* What the scripted test promises, it promises for a controller without   *)
(* an error on record (Standing, Witnessed): what stands on the actuator   *)
(* is then what the controller believes to stand there, and each of its    *)
(* writes has been seen by an observation at the end of its timestep.      *)
(* The fallback executor has no such memory: what stands is the command    *)
(* that was valid when it was last called (FallbackInv).                   *)
(***************************************************************************)
EXTENDS UnguardedRun, FiniteSetTheorems, TLAPS

-----------------------------------------------------------------------------
(* The scripted test.                                                      *)

WriteTypes == {"OVERRIDE_APPLIED", "OVERRIDE_REAPPLIED"}
ObservationTypes == {"CONTROL_RUN_OBSERVATION", "POST_RESET_VERIFIED"}

\* A controller is a record with the fields of NewController.
IsController(c) ==
  /\ c = [handle |-> c.handle, registryErrors |-> c.registryErrors,
          variables |-> c.variables, overrideActive |-> c.overrideActive,
          resetComplete |-> c.resetComplete, setCalls |-> c.setCalls,
          resetCalls |-> c.resetCalls, apiErrors |-> c.apiErrors,
          errors |-> c.errors, events |-> c.events]
  /\ c.setCalls \in Nat /\ c.resetCalls \in Nat
  /\ c.handle \in {"unknown", "none", "approved"}
  /\ c.variables \in {"unknown", "found", "missing"}

\* What the records of a controller say at timestep t, errors or not.
Recorded(c, t) ==
  /\ IsController(c)
  /\ c.apiErrors => c.errors
  /\ c.variables = "missing" => c.errors
  /\ c.handle # "approved" => c.setCalls = 0 /\ ~c.overrideActive
  /\ runType = "control" => c.setCalls = 0
  /\ \A e \in c.events : e.type \in WriteTypes =>
       /\ Position(e.timestep) = "during"
       /\ e.timestep \in Int /\ e.timestep <= t
       /\ c.setCalls > 0

HasReset(c) ==
  c.resetCalls > 0 /\ \E e \in c.events : e.type = "OVERRIDE_RESET"

\* What stands on the actuator, o, is what a controller without errors believes,
\* as long as its files are open; late says that it has been called after the
\* window.
Standing(c, o, late, open) ==
  ~c.errors =>
    /\ late => o = None /\ ~c.overrideActive
    /\ c.resetComplete => late
    /\ open => IF c.overrideActive THEN o = ApprovedSetpoint /\ ~c.resetComplete ELSE o = None
    /\ c.setCalls > 0 =>
         /\ \E e \in c.events : e.type \in WriteTypes
         /\ IF late THEN HasReset(c) ELSE open => c.overrideActive

Saw(c, t, effective) ==
  \E e \in c.events :
    e.type \in ObservationTypes /\ e.timestep = t /\ e.effective = effective

\* The writes of the timesteps before t have been seen, and so has the recovery.
Witnessed(c, t) ==
  ~c.errors =>
    /\ \A e \in c.events : e.type \in WriteTypes =>
         e.timestep = t \/ Saw(c, e.timestep, ApprovedSetpoint)
    /\ t > WindowEnd /\ c.setCalls > 0 => Saw(c, WindowEnd, BaselineSetpoint)

AllFiles == {"closed", "actuator", "sensors"}

Late(t, k) == t > WindowEnd \/ (t = WindowEnd /\ k > 0)

ScriptInv ==
  /\ timestep \in Nat /\ calls \in Nat
  /\ snapshots \in Nat /\ snapshots < timestep
  /\ native = BaselineSetpoint
  /\ files # {} => ~Running
  /\ Recorded(controller, timestep)
  /\ Standing(controller, override, Late(timestep, calls), files = {})
  /\ Witnessed(controller, timestep)

-----------------------------------------------------------------------------
(* The fallback executor.                                                  *)

Answered(o, sequence, commands) ==
  \E d \in commands :
    d.approved = o /\ sequence \in Fallback!ValidFrom(d) .. Fallback!ExpiresAfter(d)

FallbackInv ==
  /\ snapshots \in Nat /\ currentSequence \in Nat /\ normalised \in Nat
  /\ \A d \in published : d.sequence \in Nat
  /\ latest \in published \cup {None}
  /\ closed => ~Running
  /\ "api" \notin faults /\ override # None =>
       /\ active /\ handle /\ ~closed
       /\ calls > 0 => Answered(override, currentSequence, published)

UnguardedInv ==
  /\ kind = "script" => ScriptInv
  /\ kind = "fallback" => FallbackInv

-----------------------------------------------------------------------------
(* What an operation that writes nothing does to a controller.             *)

\* d is c after operations that leave the actuator alone.
Grows(c, d) ==
  /\ IsController(d)
  /\ d.overrideActive = c.overrideActive /\ d.resetComplete = c.resetComplete
  /\ d.setCalls = c.setCalls /\ d.resetCalls = c.resetCalls
  /\ d.apiErrors = c.apiErrors
  /\ c.errors => d.errors
  /\ d.variables = "missing" => c.variables = "missing" \/ d.errors
  /\ c.handle = "approved" => d.handle = "approved"
  /\ c.events \subseteq d.events
  /\ \A e \in d.events \ c.events : e.type \notin WriteTypes

LEMMA GrowsTwice ==
  ASSUME NEW c, NEW d, NEW e, Grows(c, d), Grows(d, e)
  PROVE  Grows(c, e)
BY DEF Grows

LEMMA GrowsSelf ==
  ASSUME NEW c, IsController(c)
  PROVE  Grows(c, c)
BY DEF Grows

LEMMA GrowsRecorded ==
  ASSUME NEW c, NEW d, NEW t, Recorded(c, t), Grows(c, d)
  PROVE  Recorded(d, t)
BY DEF Recorded, Grows

LEMMA GrowsStanding ==
  ASSUME NEW c, NEW d, NEW o, NEW late, NEW open, Standing(c, o, late, open), Grows(c, d)
  PROVE  Standing(d, o, late, open)
<1>1. HasReset(c) => HasReset(d)
  BY DEF Grows, HasReset
<1>2. (\E e \in c.events : e.type \in WriteTypes) => (\E e \in d.events : e.type \in WriteTypes)
  BY DEF Grows
<1>3. /\ d.overrideActive = c.overrideActive /\ d.resetComplete = c.resetComplete
      /\ d.setCalls = c.setCalls
      /\ ~d.errors => ~c.errors
  BY DEF Grows
<1> QED
  BY <1>1, <1>2, <1>3 DEF Standing

LEMMA GrowsWitnessed ==
  ASSUME NEW c, NEW d, NEW t, Witnessed(c, t), Grows(c, d)
  PROVE  Witnessed(d, t)
<1>1. \A u, f : Saw(c, u, f) => Saw(d, u, f)
  BY DEF Grows, Saw
<1>2. /\ d.setCalls = c.setCalls
      /\ ~d.errors => ~c.errors
      /\ \A e \in d.events : e.type \in WriteTypes => e \in c.events
  BY DEF Grows
<1> QED
  BY <1>1, <1>2 DEF Witnessed

\* An exception, and an event that is no write.
LEMMA RaisesFacts ==
  ASSUME NEW c, IsController(c)
  PROVE  Grows(c, Raises(c)) /\ Raises(c).errors
<1>1. PICK d : d = Raises(c)
  OBVIOUS
<1>2. d = [handle |-> c.handle, registryErrors |-> c.registryErrors,
           variables |-> c.variables, overrideActive |-> c.overrideActive,
           resetComplete |-> c.resetComplete, setCalls |-> c.setCalls,
           resetCalls |-> c.resetCalls, apiErrors |-> c.apiErrors,
           errors |-> TRUE, events |-> c.events]
  BY <1>1 DEF IsController, Raises
<1>3. Grows(c, d) /\ d.errors
  BY <1>2 DEF Grows, IsController
<1> QED
  BY <1>1, <1>3

LEMMA EmitFacts ==
  ASSUME NEW c, IsController(c), NEW event, NEW d \in Emit(c, event)
  PROVE  /\ event.type \notin WriteTypes => Grows(c, d)
         /\ IsController(d)
         /\ d.errors \/ (d.events = c.events \cup {event} /\ d.errors = c.errors)
         /\ /\ d.handle = c.handle /\ d.variables = c.variables
            /\ d.overrideActive = c.overrideActive /\ d.resetComplete = c.resetComplete
            /\ d.setCalls = c.setCalls /\ d.resetCalls = c.resetCalls
            /\ d.apiErrors = c.apiErrors /\ (c.errors => d.errors)
            /\ d.events \in {c.events, c.events \cup {event}}
<1>1. CASE d = Raises(c)
  <2>1. d = [handle |-> c.handle, registryErrors |-> c.registryErrors,
             variables |-> c.variables, overrideActive |-> c.overrideActive,
             resetComplete |-> c.resetComplete, setCalls |-> c.setCalls,
             resetCalls |-> c.resetCalls, apiErrors |-> c.apiErrors,
             errors |-> TRUE, events |-> c.events]
    BY <1>1 DEF IsController, Raises
  <2> QED
    BY <2>1 DEF Grows, IsController
<1>2. CASE d = [c EXCEPT !.events = @ \cup {event}]
  <2>1. d = [handle |-> c.handle, registryErrors |-> c.registryErrors,
             variables |-> c.variables, overrideActive |-> c.overrideActive,
             resetComplete |-> c.resetComplete, setCalls |-> c.setCalls,
             resetCalls |-> c.resetCalls, apiErrors |-> c.apiErrors,
             errors |-> c.errors, events |-> c.events \cup {event}]
    BY <1>2 DEF IsController
  <2> QED
    BY <2>1 DEF Grows, IsController
<1> QED
  BY <1>1, <1>2 DEF Emit

\* The handles: once they are there, the approved actuator's is among them.
LEMMA EnsuredFacts ==
  ASSUME NEW c, IsController(c), NEW h \in Ensured(c)
  PROVE  /\ Grows(c, h.c)
         /\ h.ready => h.c.handle = "approved" /\ h.c.variables # "unknown"
         /\ ~h.ready => h.c.handle = "none" \/ h.c.errors
<1>1. PICK d \in Registered(c) :
        h \in (IF d.handle = "none" THEN {[c |-> d, ready |-> FALSE]} ELSE Observed(d))
  BY DEF Ensured
<1>2. Grows(c, d) /\ d.variables = c.variables
      /\ (d.handle = c.handle \/ d.handle \in {"approved", "none"}) /\ d.handle # "unknown"
  <2>1. CASE c.handle # "unknown"
    BY <1>1, <2>1, GrowsSelf DEF Registered
  <2>2. CASE c.handle = "unknown"
    <3>1. ASSUME NEW found, NEW raised,
                 d = [handle |-> found, registryErrors |-> raised,
                      variables |-> c.variables, overrideActive |-> c.overrideActive,
                      resetComplete |-> c.resetComplete, setCalls |-> c.setCalls,
                      resetCalls |-> c.resetCalls, apiErrors |-> c.apiErrors,
                      errors |-> c.errors, events |-> c.events],
                 found \in {"approved", "none"}
          PROVE  /\ Grows(c, d) /\ d.variables = c.variables
                 /\ d.handle \in {"approved", "none"}
      BY <2>2, <3>1 DEF Grows, IsController
    <3>2. ASSUME NEW found
          PROVE  [c EXCEPT !.handle = found] =
                   [handle |-> found, registryErrors |-> c.registryErrors,
                    variables |-> c.variables, overrideActive |-> c.overrideActive,
                    resetComplete |-> c.resetComplete, setCalls |-> c.setCalls,
                    resetCalls |-> c.resetCalls, apiErrors |-> c.apiErrors,
                    errors |-> c.errors, events |-> c.events]
      BY DEF IsController
    <3>3. ASSUME NEW found
          PROVE  [c EXCEPT !.handle = found, !.registryErrors = TRUE] =
                   [handle |-> found, registryErrors |-> TRUE,
                    variables |-> c.variables, overrideActive |-> c.overrideActive,
                    resetComplete |-> c.resetComplete, setCalls |-> c.setCalls,
                    resetCalls |-> c.resetCalls, apiErrors |-> c.apiErrors,
                    errors |-> c.errors, events |-> c.events]
      <4>1. PICK e : e = [c EXCEPT !.handle = found]
        OBVIOUS
      <4>2. PICK f : f = [e EXCEPT !.registryErrors = TRUE]
        OBVIOUS
      <4>3. [c EXCEPT !.handle = found, !.registryErrors = TRUE] = f
        BY <4>1, <4>2
      <4>4. e = [handle |-> found, registryErrors |-> c.registryErrors,
                 variables |-> c.variables, overrideActive |-> c.overrideActive,
                 resetComplete |-> c.resetComplete, setCalls |-> c.setCalls,
                 resetCalls |-> c.resetCalls, apiErrors |-> c.apiErrors,
                 errors |-> c.errors, events |-> c.events]
        BY <3>2, <4>1
      <4>5. f = [handle |-> e.handle, registryErrors |-> TRUE,
                 variables |-> e.variables, overrideActive |-> e.overrideActive,
                 resetComplete |-> e.resetComplete, setCalls |-> e.setCalls,
                 resetCalls |-> e.resetCalls, apiErrors |-> e.apiErrors,
                 errors |-> e.errors, events |-> e.events]
        BY <4>2, <4>4
      <4>6. /\ e.handle = found /\ e.variables = c.variables
            /\ e.overrideActive = c.overrideActive /\ e.resetComplete = c.resetComplete
            /\ e.setCalls = c.setCalls /\ e.resetCalls = c.resetCalls
            /\ e.apiErrors = c.apiErrors /\ e.errors = c.errors /\ e.events = c.events
        BY <4>4
      <4> QED
        BY <4>3, <4>5, <4>6
    <3>4. \/ \E found \in {"approved", "none"} : d = [c EXCEPT !.handle = found]
          \/ \E found \in {"approved", "none"} :
               d = [c EXCEPT !.handle = found, !.registryErrors = TRUE]
      BY <1>1, <2>2 DEF Registered
    <3> QED
      BY <3>1, <3>2, <3>3, <3>4
  <2> QED
    BY <2>1, <2>2
<1>3. IsController(d)
  BY <1>2 DEF Grows
<1>4. CASE d.handle = "none"
  <2>1. h.c = d /\ h.ready = FALSE
    BY <1>1, <1>4
  <2> QED
    BY <1>2, <1>4, <2>1
<1>5. CASE d.handle # "none" /\ d.variables # "unknown"
  <2>1. h.c = d /\ h.ready = TRUE
    BY <1>1, <1>5 DEF Observed
  <2> QED
    BY <1>2, <1>3, <1>5, <2>1 DEF IsController
<1>6. CASE d.handle # "none" /\ d.variables = "unknown"
  <2>1. d.handle = "approved"
    BY <1>2, <1>3, <1>6 DEF IsController
  <2>2. ASSUME NEW v \in {"found", "missing"}, NEW e, e = [d EXCEPT !.variables = v]
        PROVE  /\ e = [handle |-> d.handle, registryErrors |-> d.registryErrors,
                       variables |-> v, overrideActive |-> d.overrideActive,
                       resetComplete |-> d.resetComplete, setCalls |-> d.setCalls,
                       resetCalls |-> d.resetCalls, apiErrors |-> d.apiErrors,
                       errors |-> d.errors, events |-> d.events]
               /\ IsController(e)
    BY <1>3, <2>2 DEF IsController
  <2>3. PICK f : f = [d EXCEPT !.variables = "found"]
    OBVIOUS
  <2>4. PICK m : m = [d EXCEPT !.variables = "missing"]
    OBVIOUS
  <2>5. IsController(f) /\ f.variables = "found" /\ Grows(d, f)
    BY <2>2, <2>3 DEF Grows
  <2>6. IsController(m) /\ m.variables = "missing" /\ Grows(m, Raises(m)) /\ Raises(m).errors
    BY <2>2, <2>4, RaisesFacts
  <2>7. Grows(d, Raises(m))
    <3>1. /\ d.overrideActive = m.overrideActive /\ d.resetComplete = m.resetComplete
          /\ d.setCalls = m.setCalls /\ d.resetCalls = m.resetCalls
          /\ d.apiErrors = m.apiErrors /\ d.handle = m.handle /\ d.events = m.events
      BY <2>2, <2>4
    <3> QED
      BY <2>6, <3>1 DEF Grows
  <2>8. \/ \E g \in Emit(f, Event("HANDLE_ACQUIRED", None)) : h = [c |-> g, ready |-> ~g.errors]
        \/ h = [c |-> Raises(m), ready |-> FALSE]
    BY <1>1, <1>6, <2>3, <2>4 DEF Observed
  <2>9. CASE h = [c |-> Raises(m), ready |-> FALSE]
    BY <1>2, <2>6, <2>7, <2>9, GrowsTwice
  <2>10. ASSUME NEW g \in Emit(f, Event("HANDLE_ACQUIRED", None)),
                h = [c |-> g, ready |-> ~g.errors]
         PROVE  /\ Grows(c, h.c)
                /\ h.ready => h.c.handle = "approved" /\ h.c.variables = "found"
                /\ ~h.ready => h.c.errors
    <3>1. PICK event : event = Event("HANDLE_ACQUIRED", None)
      OBVIOUS
    <3>2. event.type \notin WriteTypes
      BY <3>1 DEF Event, WriteTypes
    <3>3. Grows(f, g) /\ g.variables = "found" /\ g.handle = f.handle
      BY <2>5, <2>10, <3>1, <3>2, EmitFacts
    <3>4. Grows(c, g)
      BY <1>2, <2>5, <3>3, GrowsTwice
    <3>5. g.handle = "approved"
      BY <2>1, <2>5, <3>3 DEF Grows
    <3> QED
      BY <2>10, <3>3, <3>4, <3>5
  <2> QED
    BY <2>8, <2>9, <2>10
<1> QED
  BY <1>4, <1>5, <1>6

-----------------------------------------------------------------------------
(* actuation_callback.                                                     *)

\* All that is kept of a controller in a run whose files are open.
Sound(c, o, t, late) == Recorded(c, t) /\ Standing(c, o, late, TRUE) /\ Witnessed(c, t)

LEMMA GrowsSound ==
  ASSUME NEW c, NEW d, NEW o, NEW t, NEW late, Sound(c, o, t, late), Grows(c, d)
  PROVE  Sound(d, o, t, late)
BY GrowsRecorded, GrowsStanding, GrowsWitnessed DEF Sound

\* With an error on record nothing but the records counts.
LEMMA ErrorSound ==
  ASSUME NEW c, NEW o, NEW t, NEW late, Recorded(c, t), c.errors
  PROVE  Sound(c, o, t, late)
BY DEF Sound, Standing, Witnessed

LEMMA PositionFacts ==
  ASSUME NEW t \in Int, NEW k \in Nat
  PROVE  /\ Position(t) \in {"before", "during"} => ~Late(t, k)
         /\ Position(t) = "after" => Late(t, k + 1)
         /\ Position(t) = "after" => ~(t < WindowEnd)
         /\ Position(WindowEnd) = "after"
         /\ Position(t) \in {"before", "during", "after"}
         /\ k > 0 => (Late(t, k) <=> Late(t + 1, 0))
         /\ Late(t, k) => Late(t, k + 1)
<1>1. WindowStart \in Int /\ WindowEnd \in Int /\ WindowStart < WindowEnd
  BY ScriptAssumption
<1> QED
  BY <1>1 DEF Position, Late

\* Where nothing stands the end of the window changes nothing.
LEMMA LateBegins ==
  ASSUME NEW c, NEW o, NEW t, NEW late \in BOOLEAN, Sound(c, o, t, late),
         ~c.overrideActive
  PROVE  Sound(c, o, t, TRUE)
<1>1. Standing(c, o, TRUE, TRUE)
  <2>1. CASE late
    <3>1. late = TRUE
      BY <2>1
    <3> QED
      BY <3>1 DEF Sound
  <2>2. CASE ~late
    BY <2>2 DEF Sound, Standing
  <2> QED
    BY <2>1, <2>2
<1> QED
  BY <1>1 DEF Sound

LEMMA FlaggedSound ==
  ASSUME NEW c, NEW o, NEW t, NEW late, Recorded(c, t)
  PROVE  Sound(Raises([c EXCEPT !.apiErrors = TRUE]), o, t, late)
<1>1. PICK e : e = [c EXCEPT !.apiErrors = TRUE]
  OBVIOUS
<1>2. e = [handle |-> c.handle, registryErrors |-> c.registryErrors,
           variables |-> c.variables, overrideActive |-> c.overrideActive,
           resetComplete |-> c.resetComplete, setCalls |-> c.setCalls,
           resetCalls |-> c.resetCalls, apiErrors |-> TRUE,
           errors |-> c.errors, events |-> c.events]
  BY <1>1 DEF Recorded, IsController
<1>3. PICK d : d = Raises(e)
  OBVIOUS
<1>4. d = [handle |-> c.handle, registryErrors |-> c.registryErrors,
           variables |-> c.variables, overrideActive |-> c.overrideActive,
           resetComplete |-> c.resetComplete, setCalls |-> c.setCalls,
           resetCalls |-> c.resetCalls, apiErrors |-> TRUE,
           errors |-> TRUE, events |-> c.events]
  BY <1>2, <1>3 DEF Raises
<1>5. IsController(d)
  BY <1>4 DEF Recorded, IsController
<1>6. Recorded(d, t) /\ d.errors
  BY <1>4, <1>5 DEF Recorded
<1> QED
  BY <1>1, <1>3, <1>6, ErrorSound

LEMMA AppliedSound ==
  ASSUME NEW c, NEW o, timestep \in Nat, Sound(c, o, timestep, FALSE),
         c.handle = "approved", runType = "intervention",
         Position(timestep) = "during", NEW d \in Applied(c)
  PROVE  Sound(d, ApprovedSetpoint, timestep, FALSE)
<1>1. PICK e : e = [c EXCEPT !.overrideActive = TRUE, !.setCalls = @ + 1]
  OBVIOUS
<1>2. IsController(c)
  BY DEF Sound, Recorded
<1>3. e = [handle |-> c.handle, registryErrors |-> c.registryErrors,
           variables |-> c.variables, overrideActive |-> TRUE,
           resetComplete |-> c.resetComplete, setCalls |-> c.setCalls + 1,
           resetCalls |-> c.resetCalls, apiErrors |-> c.apiErrors,
           errors |-> c.errors, events |-> c.events]
  BY <1>1, <1>2 DEF IsController
<1>4. IsController(e) /\ e.setCalls > 0
  <2>1. c.setCalls + 1 \in Nat /\ c.setCalls + 1 > 0
    BY <1>2 DEF IsController
  <2> QED
    BY <1>2, <1>3, <2>1 DEF IsController
<1>5. PICK event :
        /\ event = Event(IF c.overrideActive THEN "OVERRIDE_REAPPLIED"
                                             ELSE "OVERRIDE_APPLIED", None)
        /\ d \in Emit(e, event)
  BY <1>1 DEF Applied
<1>6. event.type \in WriteTypes /\ event.timestep = timestep
  BY <1>5 DEF Event, WriteTypes
<1>7. /\ IsController(d)
      /\ d.errors \/ (d.events = c.events \cup {event} /\ d.errors = c.errors)
      /\ d.handle = "approved" /\ d.variables = c.variables
      /\ d.overrideActive = TRUE /\ d.resetComplete = c.resetComplete
      /\ d.setCalls > 0 /\ d.apiErrors = c.apiErrors /\ (c.errors => d.errors)
      /\ d.events \in {c.events, c.events \cup {event}}
  BY <1>3, <1>4, <1>5, EmitFacts
<1>8. Recorded(d, timestep)
  <2>1. ASSUME NEW w \in d.events, w.type \in WriteTypes
        PROVE  /\ Position(w.timestep) = "during"
               /\ w.timestep \in Int /\ w.timestep <= timestep
    <3>1. CASE w \in c.events
      BY <2>1, <3>1 DEF Sound, Recorded
    <3>2. CASE w = event
      BY <1>6, <3>2
    <3> QED
      BY <1>7, <3>1, <3>2
  <2> QED
    BY <1>7, <2>1 DEF Sound, Recorded
<1>9. ASSUME ~d.errors
      PROVE  /\ ~c.errors /\ event \in d.events
             /\ c.events \subseteq d.events /\ d.events = c.events \cup {event}
  BY <1>7, <1>9
<1>10. Standing(d, ApprovedSetpoint, FALSE, TRUE)
  BY <1>6, <1>7, <1>9 DEF Sound, Standing
<1>11. Witnessed(d, timestep)
  <2> SUFFICES ASSUME ~d.errors
               PROVE  /\ \A w \in d.events : w.type \in WriteTypes =>
                            w.timestep = timestep \/ Saw(d, w.timestep, ApprovedSetpoint)
                      /\ ~(timestep > WindowEnd)
    BY DEF Witnessed
  <2>1. ~(timestep > WindowEnd)
    BY ScriptAssumption DEF Position
  <2>2. \A u, f : Saw(c, u, f) => Saw(d, u, f)
    BY <1>9 DEF Saw
  <2> QED
    BY <1>6, <1>9, <2>1, <2>2 DEF Sound, Witnessed
<1> QED
  BY <1>8, <1>10, <1>11 DEF Sound

LEMMA ResetSound ==
  ASSUME NEW c, NEW o, NEW late \in BOOLEAN, timestep \in Nat, Sound(c, o, timestep, late),
         NEW d \in ResetDone(c)
  PROVE  Sound(d, None, timestep, TRUE)
<1>1. PICK e : e = [c EXCEPT !.overrideActive = FALSE, !.resetComplete = TRUE,
                             !.resetCalls = @ + 1]
  OBVIOUS
<1>2. IsController(c)
  BY DEF Sound, Recorded
<1>3. e = [handle |-> c.handle, registryErrors |-> c.registryErrors,
           variables |-> c.variables, overrideActive |-> FALSE,
           resetComplete |-> TRUE, setCalls |-> c.setCalls,
           resetCalls |-> c.resetCalls + 1, apiErrors |-> c.apiErrors,
           errors |-> c.errors, events |-> c.events]
  BY <1>1, <1>2 DEF IsController
<1>4. IsController(e) /\ e.resetCalls > 0
  <2>1. c.resetCalls + 1 \in Nat /\ c.resetCalls + 1 > 0
    BY <1>2 DEF IsController
  <2> QED
    BY <1>2, <1>3, <2>1 DEF IsController
<1>5. PICK event : event = Event("OVERRIDE_RESET", None) /\ d \in Emit(e, event)
  BY <1>1 DEF ResetDone
<1>6. event.type = "OVERRIDE_RESET" /\ event.type \notin WriteTypes
  BY <1>5 DEF Event, WriteTypes
<1>7. /\ IsController(d)
      /\ d.errors \/ (d.events = c.events \cup {event} /\ d.errors = c.errors)
      /\ d.handle = c.handle /\ d.variables = c.variables
      /\ d.overrideActive = FALSE /\ d.resetComplete = TRUE
      /\ d.setCalls = c.setCalls /\ d.resetCalls > 0
      /\ d.apiErrors = c.apiErrors /\ (c.errors => d.errors)
      /\ d.events \in {c.events, c.events \cup {event}}
  BY <1>3, <1>4, <1>5, EmitFacts
<1>8. Recorded(d, timestep)
  <2>1. \A w \in d.events : w.type \in WriteTypes => w \in c.events
    BY <1>6, <1>7
  <2> QED
    BY <1>7, <2>1 DEF Sound, Recorded
<1>9. ASSUME ~d.errors
      PROVE  ~c.errors /\ d.events = c.events \cup {event} /\ HasReset(d)
  BY <1>6, <1>7, <1>9 DEF HasReset
<1>10. Standing(d, None, TRUE, TRUE)
  BY <1>7, <1>9 DEF Sound, Standing
<1>11. Witnessed(d, timestep)
  <2> SUFFICES ASSUME ~d.errors
               PROVE  /\ \A w \in d.events : w.type \in WriteTypes =>
                            w.timestep = timestep \/ Saw(d, w.timestep, ApprovedSetpoint)
                      /\ timestep > WindowEnd /\ d.setCalls > 0 =>
                           Saw(d, WindowEnd, BaselineSetpoint)
    BY DEF Witnessed
  <2>1. \A u, f : Saw(c, u, f) => Saw(d, u, f)
    BY <1>9 DEF Saw
  <2> QED
    BY <1>6, <1>7, <1>9, <2>1 DEF Sound, Witnessed
<1> QED
  BY <1>8, <1>10, <1>11 DEF Sound

LEMMA ApiCallFacts ==
  ASSUME NEW c, NEW value, NEW after, NEW out \in ApiCall(c, value, after)
  PROVE  \/ out.c = Raises([c EXCEPT !.apiErrors = TRUE])
         \/ out.c \in after /\ out.override = value
<1>1. PICK w \in Writes(value) :
        out \in Outcomes(IF Flagged(w) THEN {Raises([c EXCEPT !.apiErrors = TRUE])} ELSE after,
                        w.override)
  BY DEF ApiCall
<1>2. ~Flagged(w) => w.override = value
  BY DEF Writes, Flagged
<1>3. PICK raised : raised = Raises([c EXCEPT !.apiErrors = TRUE])
  OBVIOUS
<1>4. CASE Flagged(w)
  BY <1>1, <1>3, <1>4 DEF Outcomes
<1>5. CASE ~Flagged(w)
  BY <1>1, <1>2, <1>5 DEF Outcomes
<1> QED
  BY <1>4, <1>5

LEMMA ActuatedSound ==
  ASSUME NEW c, timestep \in Nat, calls \in Nat,
         Sound(c, override, timestep, Late(timestep, calls)),
         c.handle = "approved", NEW out \in Actuated(c)
  PROVE  Sound(out.c, out.override, timestep, Late(timestep, calls + 1))
<1> DEFINE late == Late(timestep, calls)
           later == Late(timestep, calls + 1)
<1>1. /\ late \in BOOLEAN /\ later \in BOOLEAN
      /\ Position(timestep) = "during" => late = FALSE /\ later = FALSE
      /\ Position(timestep) = "after" => later = TRUE
      /\ Position(timestep) = "before" => late = FALSE /\ later = FALSE
      /\ Position(timestep) \in {"before", "during", "after"}
  <2>1. late \in BOOLEAN /\ later \in BOOLEAN
    BY DEF Late
  <2>2. calls + 1 \in Nat
    OBVIOUS
  <2> QED
    BY <2>1, <2>2, PositionFacts
<1>2. Sound(c, override, timestep, late)
  OBVIOUS
<1> HIDE DEF late, later
<1>3. CASE Position(timestep) = "during" /\ runType = "intervention" /\ ReadsOccupied(c)
  <2>1. out \in ApiCall(c, ApprovedSetpoint, Applied(c))
    BY <1>3 DEF Actuated
  <2>2. CASE out.c = Raises([c EXCEPT !.apiErrors = TRUE])
    BY <1>2, <2>2, FlaggedSound DEF Sound, later
  <2>3. CASE out.c \in Applied(c) /\ out.override = ApprovedSetpoint
    <3>1. Sound(c, override, timestep, FALSE)
      BY <1>1, <1>2, <1>3
    <3>2. Sound(out.c, ApprovedSetpoint, timestep, FALSE)
      BY <1>3, <2>3, <3>1, AppliedSound
    <3> QED
      BY <1>1, <1>3, <2>3, <3>2 DEF later
  <2> QED
    BY <2>1, <2>2, <2>3, ApiCallFacts
<1>4. CASE Position(timestep) = "during" /\ runType = "intervention" /\ ~ReadsOccupied(c)
  <2>1. out \in Outcomes(Emit(c, Event("WRITE_REJECTED", None)), override)
    BY <1>4 DEF Actuated
  <2>2. PICK event : event = Event("WRITE_REJECTED", None)
    OBVIOUS
  <2>3. event.type \notin WriteTypes
    BY <2>2 DEF Event, WriteTypes
  <2>4. out.c \in Emit(c, event) /\ out.override = override
    BY <2>1, <2>2 DEF Outcomes
  <2>5. Grows(c, out.c)
    BY <1>2, <2>3, <2>4, EmitFacts DEF Sound, Recorded
  <2>6. Sound(out.c, override, timestep, late)
    BY <1>2, <2>5, GrowsSound
  <2> QED
    BY <1>1, <1>4, <2>4, <2>6 DEF later
<1>5. CASE Position(timestep) = "after" /\ c.overrideActive /\ ~c.resetComplete
  <2>1. out \in ApiCall(c, None, ResetDone(c))
    BY <1>5 DEF Actuated
  <2>2. CASE out.c = Raises([c EXCEPT !.apiErrors = TRUE])
    BY <1>2, <2>2, FlaggedSound DEF Sound, later
  <2>3. CASE out.c \in ResetDone(c) /\ out.override = None
    <3>1. Sound(out.c, None, timestep, TRUE)
      BY <1>1, <1>2, <2>3, ResetSound
    <3> QED
      BY <1>1, <1>5, <2>3, <3>1 DEF later
  <2> QED
    BY <2>1, <2>2, <2>3, ApiCallFacts
<1>6. CASE /\ ~(Position(timestep) = "during" /\ runType = "intervention")
           /\ ~(Position(timestep) = "after" /\ c.overrideActive /\ ~c.resetComplete)
  <2>1. out \in Outcomes({c}, override)
    BY <1>6 DEF Actuated
  <2>2. out.c = c /\ out.override = override
    BY <2>1 DEF Outcomes
  <2>3. CASE Position(timestep) # "after"
    <3>1. late = FALSE /\ later = FALSE
      BY <1>1, <2>3
    <3> QED
      BY <1>2, <2>2, <3>1 DEF later
  <2>4. CASE Position(timestep) = "after"
    <3>1. CASE c.errors
      BY <1>2, <2>2, <3>1, ErrorSound DEF Sound
    <3>2. CASE ~c.errors
      <4>1. ~c.overrideActive
        BY <1>2, <1>6, <2>4, <3>2 DEF Sound, Standing
      <4>2. Sound(c, override, timestep, TRUE)
        BY <1>1, <1>2, <4>1, LateBegins
      <4> QED
        BY <1>1, <2>2, <2>4, <4>2 DEF later
    <3> QED
      BY <3>1, <3>2
  <2> QED
    BY <2>3, <2>4
<1> QED
  BY <1>3, <1>4, <1>5, <1>6

LEMMA ActuateInv ==
  ASSUME ScriptInv, Actuate
  PROVE  ScriptInv'
<1>1. /\ Running /\ calls' = calls + 1
      /\ UNCHANGED <<faults, timestep, occupied, native, exitCode, snapshots, sensorErrors>>
      /\ UNCHANGED <<runType, files>>
  BY DEF Actuate, SystemTimestep, sensorVars, endVars
<1>2. files = {} /\ timestep \in Nat /\ calls \in Nat
  BY <1>1 DEF ScriptInv
<1> DEFINE late == Late(timestep, calls)
           later == Late(timestep, calls + 1)
<1>3. Sound(controller, override, timestep, late)
  <2>1. (files = {}) = TRUE
    BY <1>2
  <2> QED
    BY <2>1 DEF ScriptInv, Sound
<1>4. PICK h \in Ensured(controller) :
        \E o \in (IF h.ready THEN Actuated(h.c) ELSE Outcomes({h.c}, override)) :
          controller' = o.c /\ override' = o.override
  BY DEF Actuate
<1>5. /\ Grows(controller, h.c)
      /\ h.ready => h.c.handle = "approved"
      /\ ~h.ready => h.c.handle = "none" \/ h.c.errors
  BY <1>3, EnsuredFacts DEF Sound, Recorded
<1>6. Sound(h.c, override, timestep, late)
  BY <1>3, <1>5, GrowsSound
<1>7. Sound(controller', override', timestep, later)
  <2>1. CASE h.ready
    BY <1>2, <1>4, <1>5, <1>6, <2>1, ActuatedSound
  <2>2. CASE ~h.ready
    <3>1. controller' = h.c /\ override' = override
      BY <1>4, <2>2 DEF Outcomes
    <3>2. CASE h.c.errors
      BY <1>6, <3>1, <3>2, ErrorSound DEF Sound
    <3>3. CASE h.c.handle = "none"
      <4>1. ~h.c.overrideActive
        BY <1>6, <3>3 DEF Sound, Recorded
      <4>2. late \in BOOLEAN /\ later \in BOOLEAN /\ (late => later)
        BY <1>2, PositionFacts DEF Late
      <4>3. Sound(h.c, override, timestep, TRUE)
        BY <1>6, <4>1, <4>2, LateBegins
      <4>4. later = TRUE \/ later = late
        BY <4>2
      <4> QED
        BY <1>6, <3>1, <4>3, <4>4
    <3> QED
      BY <1>5, <2>2, <3>2, <3>3
  <2> QED
    BY <2>1, <2>2
<1>8. (files = {})' = TRUE
  BY <1>1, <1>2
<1>9. /\ Recorded(controller, timestep)' /\ Witnessed(controller, timestep)'
      /\ Standing(controller, override, Late(timestep, calls), files = {})'
  <2>1. Late(timestep, calls)' = later
    BY <1>1 DEF Late
  <2>2. Recorded(controller, timestep)'
    BY <1>1, <1>7 DEF Sound, Recorded, IsController, Position
  <2>3. Witnessed(controller, timestep)'
    BY <1>1, <1>7 DEF Sound, Witnessed, Saw
  <2>4. Standing(controller', override', later, TRUE)
    BY <1>7 DEF Sound
  <2>5. Standing(controller, override, Late(timestep, calls), files = {})'
    BY <2>1, <2>4, <1>8 DEF Standing, HasReset, ApprovedSetpoint
  <2> QED
    BY <2>2, <2>3, <2>5
<1> QED
  BY <1>1, <1>2, <1>9 DEF ScriptInv, Running

-----------------------------------------------------------------------------
(* observation_callback, and the end of the run.                           *)

\* The observation at the end of a timestep sees the write of that timestep, or,
\* in the first one after the window, the recovery.
LEMMA ObservationWitnesses ==
  ASSUME NEW c, NEW late, timestep \in Nat, calls \in Nat, calls > 0,
         native = BaselineSetpoint, Late(timestep, calls) <=> late,
         Sound(c, override, timestep, late),
         c.variables # "unknown", NEW d \in Observation(c)
  PROVE  Grows(c, d) /\ Witnessed(d, timestep + 1)
<1>1. PICK event :
        /\ event = Event(IF c.resetComplete /\ Position(timestep) = "after"
                           THEN "POST_RESET_VERIFIED" ELSE "CONTROL_RUN_OBSERVATION",
                         ReadsEffective(c))
        /\ d \in Emit(c, event)
  BY DEF Observation
<1>2. /\ event.type \in ObservationTypes /\ event.type \notin WriteTypes
      /\ event.timestep = timestep /\ event.effective = ReadsEffective(c)
  BY <1>1 DEF Event, ObservationTypes, WriteTypes
<1>3. IsController(c) /\ Recorded(c, timestep) /\ Standing(c, override, late, TRUE)
      /\ Witnessed(c, timestep)
  BY DEF Sound, Recorded
<1>4. Grows(c, d) /\ (~d.errors => ~c.errors /\ event \in d.events)
  BY <1>1, <1>2, <1>3, EmitFacts
<1>5. Witnessed(d, timestep + 1)
  <2> SUFFICES ASSUME ~d.errors
               PROVE  /\ \A w \in d.events : w.type \in WriteTypes =>
                            Saw(d, w.timestep, ApprovedSetpoint)
                      /\ timestep + 1 > WindowEnd /\ d.setCalls > 0 =>
                            Saw(d, WindowEnd, BaselineSetpoint)
    BY DEF Witnessed
  <2>1. ~c.errors /\ event \in d.events
    BY <1>4
  <2>2. c.variables = "found"
    BY <1>3, <2>1 DEF Recorded, IsController
  <2>3. event.effective = Effective
    BY <1>2, <2>2 DEF ReadsEffective
  <2>4. Saw(d, timestep, Effective)
    BY <1>2, <2>1, <2>3 DEF Saw
  <2>5. \A u, f : Saw(c, u, f) => Saw(d, u, f)
    BY <1>4 DEF Grows, Saw
  <2>6. ASSUME NEW w \in d.events, w.type \in WriteTypes
        PROVE  Saw(d, w.timestep, ApprovedSetpoint)
    <3>1. w \in c.events
      BY <1>4, <2>6 DEF Grows
    <3>2. Position(w.timestep) = "during" /\ c.setCalls > 0
      BY <1>3, <2>6, <3>1 DEF Recorded
    <3>3. CASE w.timestep = timestep
      <4>1. ~late
        BY <3>2, <3>3, PositionFacts
      <4>2. override = ApprovedSetpoint
        BY <1>3, <2>1, <3>2, <4>1 DEF Standing
      <4>3. ApprovedSetpoint # None
        BY ScriptAssumption, EnergyPlusAssumption DEF ApprovedSetpoint
      <4>4. Effective = ApprovedSetpoint
        BY <4>2, <4>3 DEF Effective
      <4> QED
        BY <2>4, <3>3, <4>4
    <3>4. CASE w.timestep # timestep
      BY <1>3, <2>1, <2>5, <2>6, <3>1, <3>4 DEF Witnessed
    <3> QED
      BY <3>3, <3>4
  <2>7. ASSUME timestep + 1 > WindowEnd, d.setCalls > 0
        PROVE  Saw(d, WindowEnd, BaselineSetpoint)
    <3>1. c.setCalls > 0
      BY <1>4, <2>7 DEF Grows
    <3>2. CASE timestep > WindowEnd
      BY <1>3, <2>1, <2>5, <3>1, <3>2 DEF Witnessed
    <3>3. CASE timestep = WindowEnd
      <4>1. late
        BY <3>3 DEF Late
      <4>2. override = None
        BY <1>3, <2>1, <4>1 DEF Standing
      <4> QED
        BY <2>4, <3>3, <4>2 DEF Effective
    <3> QED
      BY <2>7, <3>2, <3>3, ScriptAssumption
  <2> QED
    BY <2>6, <2>7
<1> QED
  BY <1>4, <1>5

LEMMA ObserveInv ==
  ASSUME ScriptInv, Observe
  PROVE  ScriptInv'
<1>1. /\ Running /\ calls > 0 /\ timestep' = timestep + 1 /\ calls' = 0
      /\ native' = BaselineSetpoint
      /\ UNCHANGED <<faults, override, exitCode, runType, files>>
  BY DEF Observe, ZoneTimestep, endVars
<1>2. files = {} /\ timestep \in Nat /\ calls \in Nat /\ native = BaselineSetpoint
      /\ snapshots \in Nat /\ snapshots < timestep
  BY <1>1 DEF ScriptInv
<1>3. snapshots' \in Nat /\ snapshots' < timestep'
  BY <1>1, <1>2 DEF Observe, SensorCounts, SensorFails
<1>4. PICK late \in BOOLEAN : late <=> Late(timestep, calls)
  BY DEF Late
<1>5. Sound(controller, override, timestep, late)
  <2>1. (files = {}) = TRUE /\ late = Late(timestep, calls)
    BY <1>2, <1>4 DEF Late
  <2> QED
    BY <2>1 DEF ScriptInv, Sound
<1>6. PICK h \in Ensured(controller) :
        controller' \in IF h.ready THEN Observation(h.c) ELSE {h.c}
  BY DEF Observe
<1>7. /\ Grows(controller, h.c)
      /\ h.ready => h.c.variables # "unknown"
      /\ ~h.ready => h.c.handle = "none" \/ h.c.errors
  BY <1>5, <1>6, EnsuredFacts DEF Sound, Recorded
<1>8. Sound(h.c, override, timestep, late)
  BY <1>5, <1>7, GrowsSound
<1>9. Grows(h.c, controller') /\ Witnessed(controller', timestep + 1)
  <2>1. CASE h.ready
    <3>1. controller' \in Observation(h.c)
      BY <1>6, <2>1
    <3> QED
      BY <1>1, <1>2, <1>4, <1>7, <1>8, <2>1, <3>1, ObservationWitnesses
  <2>2. CASE ~h.ready
    <3>1. controller' = h.c
      BY <1>6, <2>2
    <3>2. Grows(h.c, h.c)
      BY <1>7, GrowsSelf DEF Grows
    <3>3. h.c.errors \/ (h.c.setCalls = 0 /\ \A e \in h.c.events : e.type \notin WriteTypes)
      BY <1>7, <1>8, <2>2 DEF Sound, Recorded
    <3>4. Witnessed(h.c, timestep + 1)
      BY <3>3 DEF Witnessed
    <3> QED
      BY <3>1, <3>2, <3>4
  <2> QED
    BY <2>1, <2>2
<1>10. Sound(controller', override, timestep, late)
  BY <1>8, <1>9, GrowsSound
<1>11. Recorded(controller', timestep + 1)
  <2>1. IsController(controller')
    BY <1>9 DEF Grows
  <2>2. \A e \in controller'.events : e.type \in WriteTypes =>
          /\ Position(e.timestep) = "during"
          /\ e.timestep \in Int /\ e.timestep <= timestep
          /\ controller'.setCalls > 0
    BY <1>10 DEF Sound, Recorded
  <2>3. \A u \in Int : u <= timestep => u <= timestep + 1
    BY <1>2
  <2> QED
    BY <1>10, <2>1, <2>2, <2>3 DEF Sound, Recorded
<1>12. Recorded(controller, timestep)'
  BY <1>1, <1>11 DEF Recorded, IsController, Position
<1>13. Witnessed(controller, timestep)'
  BY <1>1, <1>9 DEF Witnessed, Saw, ApprovedSetpoint
<1>14. Standing(controller, override, Late(timestep, calls), files = {})'
  <2>1. Late(timestep, calls)' <=> late
    <3>1. Late(timestep, calls) <=> Late(timestep + 1, 0)
      BY <1>1, <1>2, PositionFacts
    <3>2. Late(timestep, calls)' <=> Late(timestep + 1, 0)
      BY <1>1 DEF Late
    <3> QED
      BY <1>4, <3>1, <3>2
  <2>2. Standing(controller', override, late, TRUE)
    BY <1>10 DEF Sound
  <2>3. (files = {})'
    BY <1>1, <1>2
  <2> QED
    BY <1>1, <2>1, <2>2, <2>3 DEF Standing, HasReset, ApprovedSetpoint
<1> QED
  BY <1>1, <1>2, <1>3, <1>12, <1>13, <1>14 DEF ScriptInv, Running

LEMMA ScriptCloseInv ==
  ASSUME ScriptInv, ScriptClose
  PROVE  ScriptInv'
<1>1. /\ files = {} /\ ~Running
      /\ UNCHANGED <<faults, timestep, calls, occupied, native, exitCode, snapshots,
                     sensorErrors, runType>>
  BY DEF ScriptClose, plantVars, sensorVars, endVars
<1>2. files' # {}
  BY DEF ScriptClose
<1>3. /\ Recorded(controller, timestep) /\ Witnessed(controller, timestep)
      /\ Standing(controller, override, Late(timestep, calls), TRUE)
  <2>1. (files = {}) = TRUE
    BY <1>1
  <2> QED
    BY <2>1 DEF ScriptInv
<1>4. PICK late : late <=> Late(timestep, calls)
  OBVIOUS
<1>5. /\ Recorded(controller', timestep) /\ Witnessed(controller', timestep)
      /\ Standing(controller', override', late, FALSE)
  <2>1. CASE controller' = controller /\ override' = override
    BY <1>3, <1>4, <2>1 DEF Standing
  <2>2. CASE /\ controller' = [controller EXCEPT !.overrideActive = FALSE, !.resetCalls = @ + 1]
             /\ override' \in {w.override : w \in Writes(None)}
    <3>1. PICK c : c = controller
      OBVIOUS
    <3>2. PICK d : d = controller'
      OBVIOUS
    <3>3. IsController(c)
      BY <1>3, <3>1 DEF Recorded
    <3>4. d = [handle |-> c.handle, registryErrors |-> c.registryErrors,
               variables |-> c.variables, overrideActive |-> FALSE,
               resetComplete |-> c.resetComplete, setCalls |-> c.setCalls,
               resetCalls |-> c.resetCalls + 1, apiErrors |-> c.apiErrors,
               errors |-> c.errors, events |-> c.events]
      BY <2>2, <3>1, <3>2, <3>3 DEF IsController
    <3>5. c.resetCalls + 1 \in Nat /\ (c.resetCalls > 0 => c.resetCalls + 1 > 0)
      BY <3>3 DEF IsController
    <3>6. IsController(d)
      BY <3>3, <3>4, <3>5 DEF IsController
    <3>7. override' \in {None, override}
      BY <2>2 DEF Writes
    <3>8. Recorded(d, timestep)
      BY <1>3, <3>1, <3>4, <3>6 DEF Recorded
    <3>9. Witnessed(d, timestep)
      <4>1. d.setCalls = c.setCalls /\ d.events = c.events /\ (d.errors <=> c.errors)
        BY <3>4
      <4> QED
        BY <1>3, <3>1, <4>1 DEF Witnessed, Saw
    <3>10. Standing(d, override', late, FALSE)
      <4>1. /\ d.setCalls = c.setCalls /\ d.events = c.events /\ (d.errors <=> c.errors)
            /\ ~d.overrideActive /\ d.resetComplete = c.resetComplete
            /\ d.resetCalls = c.resetCalls + 1
        BY <3>4
      <4>2. HasReset(c) => HasReset(d)
        BY <3>5, <4>1 DEF HasReset
      <4>3. Standing(c, override, late, TRUE)
        BY <1>3, <1>4, <3>1 DEF Standing
      <4>4. d.resetComplete => c.resetComplete
        BY <4>1
      <4> QED
        BY <3>7, <4>1, <4>2, <4>3, <4>4 DEF Standing
    <3> QED
      BY <3>2, <3>8, <3>9, <3>10
  <2> QED
    BY <2>1, <2>2 DEF ScriptClose, ControllerClose
<1>6. Recorded(controller, timestep)' /\ Witnessed(controller, timestep)'
  BY <1>1, <1>5 DEF Recorded, IsController, Position, Witnessed, Saw, ApprovedSetpoint
<1>7. Standing(controller, override, Late(timestep, calls), files = {})'
  <2>1. (Late(timestep, calls)' <=> late) /\ ~(files = {})'
    BY <1>1, <1>2, <1>4 DEF Late
  <2> QED
    BY <1>5, <2>1 DEF Standing, HasReset, ApprovedSetpoint
<1> QED
  BY <1>1, <1>2, <1>6, <1>7 DEF ScriptInv, Running

LEMMA ScriptFrame ==
  ASSUME ScriptInv, ~Running => ~Running',
         UNCHANGED <<faults, plantVars, override, sensorVars, runType, controller, files>>
  PROVE  ScriptInv'
<1>1. UNCHANGED <<faults, timestep, calls, native, override, snapshots, runType, controller,
                  files>>
  BY DEF plantVars, sensorVars
<1>2. Recorded(controller, timestep)' /\ Witnessed(controller, timestep)'
  BY <1>1 DEF ScriptInv, Recorded, IsController, Position, Witnessed, Saw, ApprovedSetpoint
<1>3. Standing(controller, override, Late(timestep, calls), files = {})'
  BY <1>1 DEF ScriptInv, Standing, HasReset, ApprovedSetpoint, Late
<1> QED
  BY <1>1, <1>2, <1>3 DEF ScriptInv

-----------------------------------------------------------------------------
(* The fallback executor.                                                  *)

\* Without the flag of the API a call does what it is asked to.
LEMMA WritesFacts ==
  ASSUME "api" \notin faults, NEW value, NEW w \in Writes(value)
  PROVE  w.override = value
BY DEF Writes, May

\* What the buffer returns is valid in the period it was asked for.
LEMMA FetchedFacts ==
  ASSUME FallbackInv, Fetched(currentSequence) # None
  PROVE  /\ Fetched(currentSequence) \in published
         /\ Answered(Fetched(currentSequence).approved, currentSequence, published)
<1>1. /\ Fetched(currentSequence) = latest /\ latest # None
      /\ ~Expired(latest, currentSequence)
      /\ ~(currentSequence < Fallback!ValidFrom(latest))
  BY DEF Fetched, Kept
<1>2. latest \in published /\ latest.sequence \in Nat /\ currentSequence \in Nat
  BY <1>1 DEF FallbackInv
<1>3. currentSequence \in Fallback!ValidFrom(latest) .. Fallback!ExpiresAfter(latest)
  <2>1. CommandTtl \in Nat
    BY FallbackAssumption
  <2> QED
    BY <1>1, <1>2, <2>1 DEF Expired, Fallback!ValidFrom, Fallback!ExpiresAfter
<1> QED
  BY <1>1, <1>2, <1>3 DEF Answered

\* What the executor leaves on the actuator was asked for by a valid command.
LEMMA ControlInv ==
  ASSUME FallbackInv, Control
  PROVE  FallbackInv'
<1>1. /\ Running /\ calls' = calls + 1
      /\ UNCHANGED <<faults, exitCode, snapshots, normalised, published, currentSequence, closed>>
  BY DEF Control, SystemTimestep, sensorVars, endVars
<1>2. ~closed
  BY <1>1 DEF FallbackInv
<1>3. latest' \in published \cup {None}
  BY DEF Control, Kept, FallbackInv
<1>4. ASSUME "api" \notin faults, override' # None
      PROVE  active' /\ handle' /\ Answered(override', currentSequence, published)
  <2>1. CASE handle' = TRUE /\ Execute(Fetched(currentSequence))
    <3>1. PICK command : command = Fetched(currentSequence)
      OBVIOUS
    <3>2. CASE command = None \/ command.action = "RESET"
      <4>1. override' \in IF active THEN {w.override : w \in Writes(None)} ELSE {override}
        BY <2>1, <3>1, <3>2 DEF Execute
      <4>2. override' = None
        BY <1>4, <4>1, WritesFacts DEF FallbackInv
      <4> QED
        BY <1>4, <4>2
    <3>3. CASE ~(command = None \/ command.action = "RESET")
      <4>1. override' \in {w.override : w \in Writes(command.approved)} /\ active' = TRUE
        BY <2>1, <3>1, <3>3 DEF Execute
      <4>2. override' = command.approved
        BY <1>4, <4>1, WritesFacts
      <4> QED
        BY <2>1, <3>1, <3>3, <4>1, <4>2, FetchedFacts
    <3> QED
      BY <3>2, <3>3
  <2>2. CASE ~handle /\ UNCHANGED <<handle, latest, override, active>>
    BY <1>4, <2>2 DEF FallbackInv
  <2> QED
    BY <2>1, <2>2 DEF Control
<1> QED
  BY <1>1, <1>2, <1>3, <1>4 DEF FallbackInv, Running, Answered, Fallback!ValidFrom,
                                Fallback!ExpiresAfter

LEMMA FallbackCloseInv ==
  ASSUME FallbackInv, FallbackClose
  PROVE  FallbackInv'
<1>1. /\ ~Running /\ closed' = TRUE /\ latest' = None
      /\ UNCHANGED <<faults, calls, exitCode, snapshots, normalised, published,
                     currentSequence, handle>>
  BY DEF FallbackClose, plantVars, sensorVars, endVars
<1>2. "api" \notin faults => override' = None
  <2>1. CASE active /\ handle
    BY <2>1, WritesFacts DEF FallbackClose
  <2>2. CASE ~(active /\ handle)
    BY <2>2 DEF FallbackClose, FallbackInv
  <2> QED
    BY <2>1, <2>2
<1> QED
  BY <1>1, <1>2 DEF FallbackInv, Running

\* The end of a zone timestep leaves the actuator alone.
LEMMA FallbackFrame ==
  ASSUME FallbackInv, UNCHANGED <<faults, override, active, handle, closed>>,
         ~Running => ~Running',
         calls' = 0 \/ UNCHANGED <<calls, currentSequence>>,
         snapshots' \in Nat, normalised' \in Nat, currentSequence' \in Nat,
         published \subseteq published',
         \A d \in published' : d.sequence \in Nat,
         latest' \in published' \cup {None}
  PROVE  FallbackInv'
<1>1. Answered(override, currentSequence, published)
        => Answered(override, currentSequence, published')
  BY DEF Answered
<1> QED
  BY <1>1 DEF FallbackInv, Answered, Fallback!ValidFrom, Fallback!ExpiresAfter

\* A decision carries the sequence it was made for.
LEMMA DecidedFacts ==
  ASSUME NEW sequence, Decided(sequence)
  PROVE  normalised' = sequence /\ decision'[RealZone].sequence = sequence
<1>1. PICK state : Fallback!Evaluate(sequence, state)
  BY DEF Decided
<1> QED
  BY <1>1 DEF Decided, Fallback!Evaluate, Fallback!Decide

LEMMA TimestepInv ==
  ASSUME FallbackInv, NoSnapshot \/ HookRaises \/ Publish
  PROVE  FallbackInv'
<1>1. /\ Running /\ calls' = 0
      /\ UNCHANGED <<faults, override, active, handle, closed>>
  BY DEF NoSnapshot, HookRaises, Publish, ZoneTimestep, fallbackVars
<1>2. snapshots + 1 \in Nat
  BY DEF FallbackInv
<1>3. CASE NoSnapshot
  <2>1. UNCHANGED <<normalised, currentSequence, published, latest, snapshots>>
    BY <1>3 DEF NoSnapshot, fallbackVars, SensorFails
  <2> QED
    BY <1>1, <2>1, FallbackFrame DEF FallbackInv
<1>4. CASE HookRaises
  <2>1. UNCHANGED <<currentSequence, published, latest, snapshots>>
    BY <1>4 DEF HookRaises
  <2>2. normalised' \in Nat
    BY <1>2, <1>4, DecidedFacts DEF HookRaises
  <2> QED
    BY <1>1, <2>1, <2>2, FallbackFrame DEF FallbackInv
<1>5. CASE Publish
  <2>1. normalised' = snapshots + 1 /\ decision'[RealZone].sequence = snapshots + 1
    BY <1>5, DecidedFacts DEF Publish
  <2>2. PICK d : d = decision'[RealZone]
    OBVIOUS
  <2>3. \/ latest' = d /\ published' = published \cup {d}
        \/ UNCHANGED <<latest, published>>
    BY <1>5, <2>2 DEF Publish
  <2>4. currentSequence' = normalised' + 1 /\ snapshots' = snapshots + 1
    BY <1>5 DEF Publish, SensorCounts
  <2>5. \A e \in published' : e.sequence \in Nat
    BY <1>2, <2>1, <2>2, <2>3 DEF FallbackInv
  <2>6. published \subseteq published' /\ latest' \in published' \cup {None}
    BY <2>3 DEF FallbackInv
  <2>7. snapshots' \in Nat /\ normalised' \in Nat /\ currentSequence' \in Nat
    BY <1>2, <2>1, <2>4
  <2> QED
    BY <1>1, <2>5, <2>6, <2>7, FallbackFrame
<1> QED
  BY <1>3, <1>4, <1>5

-----------------------------------------------------------------------------
(* The invariant, and the theorems.                                        *)

LEMMA UnguardedInitInv == UnguardedInit => UnguardedInv
<1> SUFFICES ASSUME UnguardedInit PROVE UnguardedInv
  OBVIOUS
<1>1. ASSUME kind = "script" PROVE ScriptInv
  <2>1. /\ timestep = 1 /\ calls = 0 /\ snapshots = 0 /\ native = BaselineSetpoint
        /\ override = None /\ files = {} /\ controller = NewController
    BY <1>1 DEF UnguardedInit, PlantInit, ScriptInit
  <2>2. IsController(NewController)
    BY DEF NewController, IsController
  <2>3. Recorded(controller, timestep)
    BY <2>1, <2>2 DEF Recorded, NewController
  <2>4. Standing(controller, override, Late(timestep, calls), files = {})
    BY <2>1 DEF Standing, NewController
  <2>5. Witnessed(controller, timestep)
    BY <2>1 DEF Witnessed, NewController
  <2> QED
    BY <2>1, <2>3, <2>4, <2>5 DEF ScriptInv
<1>2. ASSUME kind = "fallback" PROVE FallbackInv
  BY DEF UnguardedInit, PlantInit, FallbackInit, FallbackInv
<1> QED
  BY <1>1, <1>2 DEF UnguardedInv

LEMMA UnguardedStepInv ==
  UnguardedInv /\ [UnguardedNext]_unguardedVars => UnguardedInv'
<1> SUFFICES ASSUME UnguardedInv, [UnguardedNext]_unguardedVars
             PROVE  UnguardedInv'
  OBVIOUS
<1>1. CASE kind = "script" /\ ScriptNext /\ UNCHANGED <<kind, fallbackVars>>
  <2>1. CASE ExchangeInputs
    <3>1. Running' <=> Running
      BY <2>1 DEF ExchangeInputs, endVars, Running
    <3>2. ScriptInv'
      BY <1>1, <2>1, <3>1, ScriptFrame DEF UnguardedInv, ExchangeInputs
    <3> QED
      BY <1>1, <3>2 DEF UnguardedInv
  <2>2. CASE ~ExchangeInputs
    <3>1. ScriptInv'
      BY <1>1, <2>2, ActuateInv, ObserveInv, ScriptCloseInv DEF UnguardedInv, ScriptNext
    <3> QED
      BY <1>1, <3>1 DEF UnguardedInv
  <2> QED
    BY <2>1, <2>2
<1>2. CASE kind = "fallback" /\ FallbackNext /\ UNCHANGED <<kind, scriptVars>>
  <2>1. FallbackInv'
    BY <1>2, ControlInv, FallbackCloseInv, TimestepInv DEF UnguardedInv, FallbackNext
  <2> QED
    BY <1>2, <2>1 DEF UnguardedInv
<1>3. CASE /\ ~Running => ~Running'
           /\ UNCHANGED <<faults, plantVars, override, sensorVars, kind, scriptVars,
                          fallbackVars>>
  <2>1. kind = "script" => ScriptInv'
    BY <1>3, ScriptFrame DEF UnguardedInv, scriptVars
  <2>2. kind = "fallback" => FallbackInv'
    <3> SUFFICES ASSUME kind = "fallback" PROVE FallbackInv'
      OBVIOUS
    <3>1. /\ UNCHANGED <<faults, override, active, handle, closed, calls, currentSequence>>
          /\ UNCHANGED <<snapshots, normalised, published, latest>>
      BY <1>3 DEF plantVars, sensorVars, fallbackVars
    <3> QED
      BY <1>3, <3>1, FallbackFrame DEF UnguardedInv, FallbackInv
  <2> QED
    BY <1>3, <2>1, <2>2 DEF UnguardedInv
<1>4. CASE Exit /\ UNCHANGED <<kind, scriptVars, fallbackVars>>
  BY <1>3, <1>4 DEF Exit, Running
<1>5. CASE UNCHANGED unguardedVars
  <2>1. ~Running => ~Running'
    BY <1>5 DEF unguardedVars, endVars, Running
  <2> QED
    BY <1>3, <1>5, <2>1 DEF unguardedVars
<1> QED
  BY <1>1, <1>2, <1>4, <1>5 DEF UnguardedNext

\* The records of the scripted controller, the actuator, and the commands of the
\* fallback executor agree in every state of a run, whatever faults it meets.
THEOREM UnguardedInvariant == UnguardedSpec => []UnguardedInv
BY UnguardedInitInv, UnguardedStepInv, PTL DEF UnguardedSpec

\* For every window and every combination of faults: an override that stands
\* after the controller was called in a timestep after the window has left an
\* error on record (actuator_controller.py).
THEOREM OverrunReported == UnguardedSpec => []OverrunIsReported
<1>1. UnguardedInv => OverrunIsReported
  BY DEF UnguardedInv, ScriptInv, Standing, OverrunIsReported, CalledAfterWindow, Late
<1> QED
  BY <1>1, UnguardedInvariant, PTL

\* Whatever an executor without faults of the API has left on the actuator was
\* asked for by a command that was valid in the period, however many system
\* timesteps it has, and nothing is left at the end (fallback_executor.py).
THEOREM CommandsRelease == UnguardedSpec => []UnguardedReleases
<1>1. UnguardedInv => UnguardedReleases
  BY DEF UnguardedInv, FallbackInv, Answered, UnguardedReleases
<1> QED
  BY <1>1, UnguardedInvariant, PTL

\* For every window that ends within the run, whatever faults it meets, and a
\* validator that looks at one observation after it at least: PASS of the script
\* is confirmed by the validator, but for the four things that the script does not
\* look at (run_actuator_test.py, 115-123; validate_actuator_test.py, 77-231).
THEOREM PassValidated ==
  ASSUME WindowEnd <= Steps, RecoverySteps >= 1
  PROVE  UnguardedSpec => []PassIsValidated
<1>1. ASSUME UnguardedInv, kind = "script", ScriptPasses, ~Overlooked
      PROVE  ValidatorPasses
  <2>1. /\ files = AllFiles /\ exitCode = 0 /\ snapshots = Steps
        /\ controller.handle = "approved" /\ ~controller.errors
        /\ runType = "control" \/ controller.setCalls > 0
        /\ ~severe /\ inputs /\ ~controller.registryErrors
    BY <1>1 DEF ScriptPasses, Overlooked, AllFiles
  <2>2. /\ Recorded(controller, timestep) /\ Witnessed(controller, timestep)
        /\ Standing(controller, override, Late(timestep, calls), files = {})
    BY <1>1 DEF UnguardedInv, ScriptInv
  <2>3. ~controller.apiErrors
    BY <2>1, <2>2 DEF Recorded
  <2>4. \A e \in WriteEvents : /\ e \in controller.events
                              /\ e.type \in WriteTypes
                              /\ Position(e.timestep) = "during"
                              /\ controller.setCalls > 0
    BY <2>2 DEF WriteEvents, EventsOf, WriteTypes, Recorded
  <2>5. runType = "control" => WriteEvents = {} /\ controller.setCalls = 0
    <3>1. runType = "control" => controller.setCalls = 0
      BY <2>2 DEF Recorded
    <3> QED
      BY <2>4, <3>1
  <2>6. ASSUME runType # "control"
        PROVE  /\ WriteEvents # {} /\ controller.setCalls > 0
               /\ EventsOf({"OVERRIDE_RESET"}) # {} /\ controller.resetCalls > 0
               /\ \E e \in Observations("during") : e.effective = ApprovedSetpoint
               /\ \E e \in FirstAfter : e.effective = BaselineSetpoint
    <3>1. controller.setCalls > 0
      BY <2>1, <2>6
    <3>2. timestep > WindowEnd /\ Late(timestep, calls)
      <4>1. Steps < timestep /\ timestep \in Nat
        BY <1>1, <2>1 DEF UnguardedInv, ScriptInv
      <4> QED
        BY <4>1, ScriptAssumption, EnergyPlusAssumption DEF Late
    <3>3. HasReset(controller)
      BY <2>1, <2>2, <3>1, <3>2 DEF Standing
    <3>4. PICK w \in controller.events : w.type \in WriteTypes
      BY <2>1, <2>2, <3>1 DEF Standing
    <3>5. w \in WriteEvents /\ Position(w.timestep) = "during"
      BY <2>4, <3>4 DEF WriteEvents, EventsOf, WriteTypes
    <3>6. w.timestep # timestep
      BY <3>2, <3>5, ScriptAssumption, <1>1 DEF Position, UnguardedInv, ScriptInv
    <3>7. Saw(controller, w.timestep, ApprovedSetpoint)
      BY <2>1, <2>2, <3>4, <3>6 DEF Witnessed
    <3>8. \E e \in Observations("during") : e.effective = ApprovedSetpoint
      BY <3>5, <3>7 DEF Saw, Observations, EventsOf, ObservationTypes
    <3>9. PICK e \in controller.events :
            /\ e.type \in ObservationTypes /\ e.timestep = WindowEnd
            /\ e.effective = BaselineSetpoint
      BY <2>1, <2>2, <3>1, <3>2 DEF Witnessed, Saw
    <3>10. e \in FirstAfter
      <4>1. Position(WindowEnd) = "after"
        BY ScriptAssumption DEF Position
      <4>2. e \in Observations("after")
        BY <3>9, <4>1 DEF Observations, EventsOf, ObservationTypes
      <4>3. \A f \in Observations("after") : ~(f.timestep < WindowEnd)
        BY DEF Observations, Position
      <4>4. {f \in Observations("after") : f.timestep < e.timestep} = {}
        BY <3>9, <4>3
      <4>5. Cardinality({f \in Observations("after") : f.timestep < e.timestep}) = 0
        BY <4>4, FS_EmptySet
      <4>6. 0 < RecoverySteps
        BY ScriptAssumption
      <4> QED
        BY <4>2, <4>5, <4>6 DEF FirstAfter
    <3>11. EventsOf({"OVERRIDE_RESET"}) # {} /\ controller.resetCalls > 0
      BY <3>3 DEF HasReset, EventsOf
    <3> QED
      BY <3>1, <3>5, <3>8, <3>9, <3>10, <3>11
  <2> QED
    BY <1>1, <2>1, <2>3, <2>4, <2>5, <2>6 DEF ValidatorPasses, AllFiles
<1>2. UnguardedInv => PassIsValidated
  BY <1>1 DEF PassIsValidated
<1> QED
  BY <1>2, UnguardedInvariant, PTL

=============================================================================
