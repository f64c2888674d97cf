------------------------- MODULE AuthorisedActuation -------------------------
(***************************************************************************)
(* What guarded control promises of the one actuator it writes to, without *)
(* any of the machinery that keeps the promise.  Permission to move the    *)
(* actuator is a grant: recorded once under its own id, for a setpoint     *)
(* within the absolute bounds or for giving the actuator back (None),      *)
(* decided from a state that lies before the periods it may act in.  The   *)
(* actuator changes only to what a recorded grant says, and only while the *)
(* period is one the grant is for.                                         *)
(***************************************************************************)
EXTENDS Integers

CONSTANTS Minimum, Maximum, None

VARIABLES
  granted,    \* the grants on record
  clock,      \* the period the writer is in
  override    \* what stands on the actuator, None when it has been given back

vars == <<granted, clock, override>>

Grant == [id : Int, setpoint : (Minimum .. Maximum) \cup {None},
          source : Int, from : Int, until : Int]

Init ==
  /\ granted = {}
  /\ clock \in Int
  /\ override = None

\* At most one grant is recorded at a time, and none is changed or withdrawn.
Record ==
  \/ UNCHANGED granted
  \/ \E g \in granted' :
       /\ g \in Grant
       /\ g.source < g.from
       /\ \A h \in granted : h.id # g.id
       /\ granted' = granted \cup {g}

Move ==
  \/ UNCHANGED override
  \/ \E g \in granted' : clock \in g.from .. g.until /\ override' = g.setpoint

Next == Record /\ Move /\ clock' >= clock

Spec == Init /\ [][Next]_vars
=============================================================================
