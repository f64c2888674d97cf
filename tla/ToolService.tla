---------------------------- MODULE ToolService ----------------------------
(***************************************************************************)
(* MCPToolService.call and its audit (Module 9).  Callers are processes    *)
(* that share mcp_audit.db and planning.db: sessions of the supervisor,    *)
(* and the scripts that call tools directly.  A call looks its request up  *)
(* in the audit and runs the handler (Execute), opens the audit again      *)
(* (OpenAudit), and inserts the answer (AppendAnswer); the other processes *)
(* come in between.  A handler is one step: it reads what was recorded,    *)
(* and writes, if anything, in one transaction.                            *)
(***************************************************************************)
EXTENDS ToolHandlers, Sequences

CONSTANTS
  Callers,
  Recorded,        \* the artifacts recorded before
  Nobody           \* no call

VARIABLES
  disk,        \* the recorded artifacts
  audit,       \* the rows of mcp_tool_calls, in their deterministic_order
  contexts,    \* the planning contexts of planning.db, with their plans
  selections,  \* planning_sessions with their plan_selections
  calls        \* each caller's call, or Nobody

serviceVars == <<disk, audit, contexts, selections, calls>>

NoCode == "none"

ToolRequest(id, tool, arguments, version) ==
  [id |-> id, tool |-> tool, arguments |-> arguments, version |-> version]

Call(stage, request, order, code) ==
  [stage |-> stage, request |-> request, order |-> order, code |-> code]

Stage(c) == IF calls[c] = Nobody THEN "none" ELSE calls[c].stage

\* The call of c is under way.
Calling(c) == Stage(c) \in {"asked", "handled", "opened"}

\* The call of c goes on to stage; an opened audit is read up to its last row.
Becomes(c, stage, code) ==
  calls' = [calls EXCEPT ![c] =
              Call(stage, @.request, IF stage = "opened" THEN Len(audit) ELSE 0, code)]

ServiceInit ==
  /\ disk = Recorded
  /\ audit = <<>>
  /\ contexts = {}
  /\ selections = {}
  /\ calls = [c \in Callers |-> Nobody]

Ask(c, request) ==
  /\ calls' = [calls EXCEPT ![c] = Call("asked", request, 0, NoCode)]
  /\ UNCHANGED <<disk, audit, contexts, selections>>

\* MCPAuditStore.existing: the rows of a request id.
Existing(request) == {i \in 1 .. Len(audit) : audit[i].request.id = request.id}

\* select_advisory_plan: INSERT OR IGNORE, the id being a hash of context and plan.
Select(context, plan) ==
  selections' = selections \cup {[context |-> context, plan |-> plan,
                                  agrees |-> plan = BestId]}

Sessions == {[context |-> s.context, plan |-> s.plan] : s \in selections}

\* The handler runs; what it stores stays, whatever becomes of the call.
Handle(c, request) ==
  LET code == Handled(request.tool, request.arguments, disk, Sessions)
      planned == Persisted(request.tool, request.arguments, disk)
  IN  \/ /\ contexts' = contexts \cup planned
         /\ IF request.tool = "select_advisory_plan" /\ code = "ok"
              THEN Select(PlanningContext(request.arguments), request.arguments["plan_id"])
              ELSE UNCHANGED selections
         /\ Becomes(c, "handled", code)
      \/ /\ planned # {}                     \* sqlite3.Error: planning.db is locked
         /\ UNCHANGED <<contexts, selections>>
         /\ Becomes(c, "handled", "invalid_request")

\* A request of another schema version is answered before the audit is looked at.
RefuseVersion(c) ==
  /\ Stage(c) = "asked"
  /\ calls[c].request.tool \in Tools
  /\ calls[c].request.version # 1
  /\ Becomes(c, "answered", "schema_version_mismatch")
  /\ UNCHANGED <<disk, audit, contexts, selections>>

\* The request id is known: its answer is repeated, or the payload differs,
\* which the branch of unregistered tools does not catch.
AnswerFromAudit(c) ==
  /\ Stage(c) = "asked"
  /\ LET request == calls[c].request
     IN  /\ request.tool \in Tools => request.version = 1
         /\ \E i \in Existing(request) :
              Becomes(c,
                      IF audit[i].request = request \/ request.tool \in Tools
                        THEN "answered" ELSE "raised",
                      IF audit[i].request = request
                        THEN audit[i].code ELSE "conflicting_duplicate")
  /\ UNCHANGED <<disk, audit, contexts, selections>>

Execute(c) ==
  /\ Stage(c) = "asked"
  /\ LET request == calls[c].request
     IN  /\ Existing(request) = {}
         /\ IF request.tool \in Tools
              THEN request.version = 1 /\ Handle(c, request)
              ELSE /\ Becomes(c, "opened", "unknown_tool")
                   /\ UNCHANGED <<contexts, selections>>
  /\ UNCHANGED <<disk, audit>>

\* MCPAuditStore.__init__, before the answer is inserted.
OpenAudit(c) ==
  /\ Stage(c) = "handled"
  /\ Becomes(c, "opened", calls[c].code)
  /\ UNCHANGED <<disk, audit, contexts, selections>>

\* Mutant: INSERT OR REPLACE, in whatever order.
AppendAnyway(c) ==
  /\ Stage(c) = "opened"
  /\ LET row == [request |-> calls[c].request, code |-> calls[c].code]
         others == SelectSeq(audit, LAMBDA r : r.request.id # row.request.id)
     IN  audit' = Append(others, row)
  /\ Becomes(c, "answered", calls[c].code)
  /\ UNCHANGED <<disk, contexts, selections>>

\* The answer is inserted under the order that was next when the audit was
\* opened.  When another row has that order or the request's id by now, the
\* insertion fails and call raises.
AppendAnswer(c) ==
  /\ Stage(c) = "opened"
  /\ IF Len(audit) = calls[c].order /\ Existing(calls[c].request) = {}
       THEN /\ audit' = Append(audit, [request |-> calls[c].request, code |-> calls[c].code])
            /\ Becomes(c, "answered", calls[c].code)
       ELSE Becomes(c, "raised", calls[c].code) /\ UNCHANGED audit
  /\ UNCHANGED <<disk, contexts, selections>>

Serves(c) ==
  \/ RefuseVersion(c)
  \/ AnswerFromAudit(c)
  \/ Execute(c)
  \/ OpenAudit(c)
  \/ AppendAnswer(c)

\* Another program records an artifact.
RecordArtifact(artifact) ==
  /\ disk' = disk \cup {artifact}
  /\ UNCHANGED <<audit, contexts, selections, calls>>

-----------------------------------------------------------------------------

Audit == INSTANCE ToolAudit WITH
  recorded <- {audit[i] : i \in 1 .. Len(audit)},
  heard <- [c \in Callers |->
              IF calls[c] # Nobody /\ calls[c].stage = "answered"
                THEN [request |-> calls[c].request, code |-> calls[c].code]
                ELSE Nobody]

=============================================================================
