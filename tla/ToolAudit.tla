----------------------------- MODULE ToolAudit -----------------------------
(***************************************************************************)
(* What the audit of the tool service promises, whoever calls, when and    *)
(* how often: a request id is answered once and for all.  Who asks again   *)
(* is told what was recorded; who asks something else under the same id is *)
(* refused.  A step of the service tells one caller something, which is    *)
(* heard' of that caller.                                                  *)
(***************************************************************************)
CONSTANTS Callers, Nobody

VARIABLES
  recorded,    \* the answered requests
  heard        \* what each caller was told last, or Nobody

auditVars == <<recorded, heard>>

AuditInit ==
  /\ recorded = {}
  /\ heard = [c \in Callers |-> Nobody]

Told(c, row) == row # Nobody /\ heard' = [heard EXCEPT ![c] = row]

\* The first answer of a request id.
Record(row) ==
  /\ \A r \in recorded : r.request.id # row.request.id
  /\ recorded' = recorded \cup {row}

Repeat(row) == row \in recorded /\ UNCHANGED recorded

\* The id was used for something else.
Refuse(row) ==
  /\ row.code = "conflicting_duplicate"
  /\ \E r \in recorded : r.request.id = row.request.id /\ r.request # row.request
  /\ UNCHANGED recorded

\* A request that is not looked at: nothing is promised of its id.
Mismatch(row) ==
  /\ row.code = "schema_version_mismatch"
  /\ row.request.version # 1
  /\ UNCHANGED recorded

Tell(c) ==
  LET row == heard'[c]
  IN  /\ Told(c, row)
      /\ Record(row) \/ Repeat(row) \/ Refuse(row) \/ Mismatch(row)

Forget(c) == heard' = [heard EXCEPT ![c] = Nobody] /\ UNCHANGED recorded

AuditNext == \E c \in Callers : Tell(c) \/ Forget(c)

AuditSpec == AuditInit /\ [][AuditNext]_auditVars

=============================================================================
