--------------------------- MODULE MCEvidenceStore ---------------------------
(***************************************************************************)
(* Two qualified models, of which the second is out of range for the first *)
(* plan, and one that is not qualified at all; two versions of the         *)
(* planning settings; two approvals; six programs, of which some stop.     *)
(***************************************************************************)
EXTENDS EvidenceStore, TLC

CONSTANTS t1, t2, t3, a1, a2

MCEligible(s) == IF s = "few" THEN {1} ELSE {1, 2}

MCOodSteps(t, s, p) ==
  IF s # t2 THEN 0 ELSE IF t = t2 /\ p = 1 THEN 2 ELSE 1

MCMovements(t, u, p) ==
  IF p = 2 THEN 2 ELSE IF t = t2 \/ u = t2 THEN 1 ELSE 0

MCSymmetry == Permutations({a1, a2})

=============================================================================
