------------------------- MODULE MCEvidenceDashboard -------------------------
(***************************************************************************)
(* Three artifacts, of which one is only hashed; the database is hashed    *)
(* and read last.  They are changed three times at most: each of them      *)
(* once, or one there and back while another changes.                      *)
(***************************************************************************)
EXTENDS EvidenceDashboard

MCHashOrder == <<"project", "approval", "database">>

MCReadOrder == <<"approval", "database">>

=============================================================================
