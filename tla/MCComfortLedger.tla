--------------------------- MODULE MCComfortLedger ---------------------------
(***************************************************************************)
(* Rollouts of five timesteps, temperatures in steps of which two hundred  *)
(* are between the occupied boundaries.  The debt and the balances reach   *)
(* their limits, and credits are odd and even.                             *)
(***************************************************************************)
EXTENDS ComfortLedger

Point(lower, predicted, upper, occupied, protected) ==
  [lower |-> lower, predicted |-> predicted, upper |-> upper,
   occupied |-> occupied, protected |-> protected]

MCPoints ==
  {Point(105, 110, 115, TRUE, FALSE),          \* within
   Point(250, 293, 307, TRUE, FALSE),      \* the upper bound beyond
   Point(290, 330, 360, TRUE, FALSE),      \* the prediction beyond
   Point(70, 91, 110, TRUE, FALSE),
   Point(200, 270, 283, TRUE, TRUE),       \* beyond in a protected event only
   Point(290, 295, 299, FALSE, FALSE)}

=============================================================================
