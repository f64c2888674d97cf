----------------------------- MODULE Supervisor -----------------------------
(***************************************************************************)
(* The supervisor (Module 10): a bounded loop in which a language model    *)
(* calls tools and then answers, the objective's required evidence being   *)
(* fetched for it when it does not.  A session belongs to one request,     *)
(* whose hash is the session id, and is recorded in llm_audit.db when it   *)
(* has ended.  Sessions are processes over the shared databases; a process *)
(* may stop at any point and be started again with the same request, and   *)
(* two may be given the same one.  The other callers call tools directly.  *)
(***************************************************************************)
EXTENDS ToolService, SupervisorPolicy

LOCAL INSTANCE FiniteSetsExt

CONSTANTS
  SupervisorRequests,   \* the request of each session id
  Supervisors,          \* the callers that run sessions
  Given,                \* the session ids of the requests each may be given
  ClientRequests,       \* the tool requests of the other callers
  Artifacts,            \* the artifacts that others record
  MaximumIterations,    \* maximum_supervisor_iterations: 6
  MaximumCalls,         \* maximum_tool_calls: 6
  MaximumCorrections,   \* maximum_correction_attempts: 2
  MaximumStarts         \* bound on the sessions and direct calls

ASSUME SupervisorAssumption ==
  /\ Supervisors \subseteq Callers
  /\ Given \in [Supervisors -> SUBSET DOMAIN SupervisorRequests]
  /\ {MaximumIterations, MaximumCalls, MaximumStarts} \subseteq Nat \ {0}
  /\ MaximumCorrections \in Nat

VARIABLES
  sessions,     \* what each supervisor process is at, or Nobody
  responses,    \* llm_sessions with their llm_final_responses
  starts

supervisorVars == <<serviceVars, sessions, responses, starts>>

-----------------------------------------------------------------------------
(* A session.                                                              *)

Request(s) == SupervisorRequests[s.sid]

Places ==
  {"thinking",      \* the provider generates
   "calling",       \* a tool the model has selected is called
   "prefetching",   \* the required tools of todo are called
   "recording",     \* the response is made
   "inserting",     \* the session was not recorded when it was looked up
   "returned",
   "abandoned"}     \* run has raised, or its process has stopped

Running(p) ==
  sessions[p] # Nobody /\ sessions[p].place \in Places \ {"returned", "abandoned"}

NewSession(sid) ==
  [sid |-> sid, place |-> "thinking", iteration |-> 0, seen |-> {}, steps |-> <<>>,
   corrections |-> 0, corrected |-> FALSE, prefetched |-> FALSE, todo |-> {},
   response |-> Nobody]

\* The results of the session that succeeded, by tool_call_id.
Evidence(s) == {s.steps[i].request : i \in {k \in 1 .. Len(s.steps) : s.steps[k].code = "ok"}}

\* A response: its status, how many calls were made, and the evidence cited.
Response(s, status) ==
  [status |-> status, steps |-> Len(s.steps),
   evidence |-> IF status = "COMPLETED" THEN Evidence(s) ELSE {}]

\* Of a session that is over, the response it records or returned is left.
Ended(s, place, response) ==
  [NewSession(s.sid) EXCEPT !.place = place, !.response = response]

Raised(s) == Ended(s, "abandoned", Nobody)

Failure(s) == Ended(s, "recording", Response(s, "FAILED_CLOSED"))

\* The next round of the loop.
NextIteration(s) ==
  IF s.iteration + 1 = MaximumIterations
    THEN Failure(s)
    ELSE [s EXCEPT !.place = "thinking", !.iteration = @ + 1]

Required(s) == RequiredEvidence(Request(s).objective)

\* Mutant: a call that failed counts as evidence.
MissingAttempted(s) ==
  {i \in DOMAIN Required(s) :
     ~\E k \in 1 .. Len(s.steps) : s.steps[k].tool = Required(s)[i]}

\* _missing_required_evidence, as positions among the required tools.
Missing(s) ==
  {i \in DOMAIN Required(s) :
     ~\E k \in 1 .. Len(s.steps) : s.steps[k].tool = Required(s)[i] /\ s.steps[k].code = "ok"}

Goes(p, s) == sessions' = [sessions EXCEPT ![p] = s]

Thinking(p) == sessions[p] # Nobody /\ sessions[p].place = "thinking"

SessionUnchanged == UNCHANGED <<responses, starts>>

\* The session timeout is looked at before each generation.
TimeOut(p) ==
  /\ Thinking(p)
  /\ Goes(p, Failure(sessions[p]))
  /\ UNCHANGED serviceVars /\ SessionUnchanged

\* The context budget, the provider or canonicalisation raises.
ProviderRaises(p) ==
  /\ Thinking(p)
  /\ Goes(p, Raised(sessions[p]))
  /\ UNCHANGED serviceVars /\ SessionUnchanged

\* Mutant: without usable output the session is begun again.
RetryUnparsable(p) ==
  /\ Thinking(p)
  /\ Goes(p, NewSession(sessions[p].sid))
  /\ UNCHANGED serviceVars /\ SessionUnchanged

Unparsable(p) ==
  /\ Thinking(p)
  /\ LET s == [sessions[p] EXCEPT !.corrections = @ + 1]
     IN  Goes(p, IF s.corrections > MaximumCorrections
                   THEN Failure(s) ELSE NextIteration(s))
  /\ UNCHANGED serviceVars /\ SessionUnchanged

\* Mutant: the prefetch is repeated until the evidence is there.
PrefetchAgain(p) ==
  /\ Thinking(p)
  /\ Missing(sessions[p]) # {}
  /\ LET s == sessions[p]
     IN  Goes(p,
           IF ~s.corrected
             THEN [s EXCEPT !.corrected = TRUE]
             ELSE [s EXCEPT !.prefetched = TRUE, !.place = "prefetching", !.todo = Missing(s)])
  /\ UNCHANGED serviceVars /\ SessionUnchanged

\* An answer with evidence outstanding: one correction, then one prefetch.
AnswerWithoutEvidence(p) ==
  /\ Thinking(p)
  /\ Missing(sessions[p]) # {}
  /\ LET s == sessions[p]
     IN  Goes(p,
           CASE ~s.corrected ->
                  NextIteration([s EXCEPT !.corrected = TRUE, !.corrections = @ + 1])
             [] s.corrected /\ ~s.prefetched ->
                  [s EXCEPT !.prefetched = TRUE, !.place = "prefetching", !.todo = Missing(s)]
             [] OTHER -> Failure(s))
  /\ UNCHANGED serviceVars /\ SessionUnchanged

\* _final: the response is made, or a claim in the text makes it raise.
AnswerFinally(p) ==
  /\ Thinking(p)
  /\ Missing(sessions[p]) = {}
  /\ LET s == sessions[p]
     IN  \/ Goes(p, Ended(s, "recording", Response(s, "COMPLETED")))
         \/ Goes(p, Raised(s))
  /\ UNCHANGED serviceVars /\ SessionUnchanged

\* The session id's first 16 digits, the iteration and, of a prefetch, the step.
CallId(s, kind, n) == [session |-> s.sid, kind |-> kind, iteration |-> s.iteration, n |-> n]

\* The model calls a tool: the call is refused, and the session with it, or made.
SelectsTool(p, call) ==
  LET s == sessions[p]
      canonical == Canonicalise(Request(s), call)
      seen == [s EXCEPT !.seen = @ \cup {canonical}]
  IN  /\ Thinking(p)
      /\ IF CanonicaliseRaises(Request(s), call)
           THEN Goes(p, Raised(s)) /\ UNCHANGED serviceVars
         ELSE IF Len(s.steps) >= MaximumCalls
           THEN Goes(p, Failure(s)) /\ UNCHANGED serviceVars
         ELSE IF canonical \in s.seen
           THEN Goes(p, Failure(s)) /\ UNCHANGED serviceVars
         ELSE IF ~PolicyAccepts(canonical)
           THEN Goes(p, Failure(s)) /\ UNCHANGED serviceVars
         ELSE /\ Ask(p, ToolRequest(CallId(s, "model", 0), canonical.tool,
                                    canonical.arguments, 1))
              /\ Goes(p, [seen EXCEPT !.place = "calling"])
      /\ SessionUnchanged

\* _execute_required_prefetch, for the first tool of todo.
Prefetch(p) ==
  /\ sessions[p] # Nobody /\ sessions[p].place = "prefetching"
  /\ ~Calling(p)
  /\ LET s == sessions[p]
         tool == Required(s)[Min(s.todo)]
     IN  IF PrefetchRaises(tool, Request(s))
           THEN Goes(p, Raised(s)) /\ UNCHANGED serviceVars
           ELSE /\ Ask(p, ToolRequest(CallId(s, "prefetch", Len(s.steps)), tool,
                                      PrefetchArguments(tool, Request(s)), 1))
                /\ UNCHANGED sessions
  /\ SessionUnchanged

\* The tool's answer is a step of the session, and ends the iteration unless
\* more is to be prefetched.
Heard(s, call) ==
  LET step == [tool |-> call.request.tool, request |-> call.request, code |-> call.code]
      more == [s EXCEPT !.steps = Append(@, step),
                        !.todo = {i \in @ : \E j \in @ : j < i}]
  IN  IF more.todo = {} THEN NextIteration(more) ELSE more

\* The service works for a session, and the session goes on with its answer.
ServeSession(p) ==
  /\ sessions[p] # Nobody /\ sessions[p].place \in {"calling", "prefetching"}
  /\ Serves(p)
  /\ LET call == calls'[p]
     IN  CASE call.stage = "answered" -> Goes(p, Heard(sessions[p], call))
           [] call.stage = "raised" -> Goes(p, Raised(sessions[p]))
           [] OTHER -> UNCHANGED sessions
  /\ SessionUnchanged

\* The recorded responses of a session, and those of other sessions with its
\* request id.
SameSession(s) == {r \in responses : r.sid = s.sid}

Conflicts(s) ==
  {r \in responses : SupervisorRequests[r.sid].id = Request(s).id} \ SameSession(s)

\* LLMStore.append first looks whether the session is recorded, and returns what
\* is; a request id that another session has used raises.
LookUp(p) ==
  /\ sessions[p] # Nobody /\ sessions[p].place = "recording"
  /\ LET s == sessions[p]
     IN  IF SameSession(s) # {}
           THEN \E r \in SameSession(s) : Goes(p, Ended(s, "returned", r.response))
         ELSE IF Conflicts(s) # {}
           THEN Goes(p, Raised(s))
           ELSE Goes(p, Ended(s, "inserting", s.response))
  /\ UNCHANGED serviceVars /\ SessionUnchanged

\* Mutant: INSERT OR IGNORE, and the session's own response is returned.
InsertOwn(p) ==
  /\ sessions[p] # Nobody /\ sessions[p].place = "inserting"
  /\ LET s == sessions[p]
     IN  /\ responses' = IF SameSession(s) \cup Conflicts(s) # {}
                           THEN responses
                           ELSE responses \cup {[sid |-> s.sid, response |-> s.response]}
         /\ Goes(p, Ended(s, "returned", s.response))
  /\ UNCHANGED <<serviceVars, starts>>

\* It then inserts the session, unless another process has done so since.
Insert(p) ==
  /\ sessions[p] # Nobody /\ sessions[p].place = "inserting"
  /\ LET s == sessions[p]
     IN  IF SameSession(s) \cup Conflicts(s) # {}
           THEN Goes(p, Raised(s)) /\ UNCHANGED responses
           ELSE /\ responses' = responses \cup {[sid |-> s.sid, response |-> s.response]}
                /\ Goes(p, Ended(s, "returned", s.response))
  /\ UNCHANGED <<serviceVars, starts>>

\* A session is started in a process that runs none.
Start(p, sid) ==
  /\ ~Running(p)
  /\ starts < MaximumStarts
  /\ starts' = starts + 1
  /\ Goes(p, NewSession(sid))
  /\ calls' = [calls EXCEPT ![p] = Nobody]
  /\ UNCHANGED <<disk, audit, contexts, selections, responses>>

\* The process stops, in the middle of whatever it does.
Stop(p) ==
  /\ Running(p)
  /\ Goes(p, Raised(sessions[p]))
  /\ calls' = [calls EXCEPT ![p] = Nobody]
  /\ UNCHANGED <<disk, audit, contexts, selections, responses, starts>>

\* A caller without a session calls a tool, or the service works for it.
Client(c) ==
  /\ \/ /\ Serves(c)
        /\ UNCHANGED starts
     \/ /\ ~Calling(c)
        /\ starts < MaximumStarts
        /\ starts' = starts + 1
        /\ \E request \in ClientRequests : Ask(c, request)
  /\ UNCHANGED <<sessions, responses>>

-----------------------------------------------------------------------------

SupervisorInit ==
  /\ ServiceInit
  /\ sessions = [p \in Supervisors |-> Nobody]
  /\ responses = {}
  /\ starts = 0

SessionStep(p) ==
  \/ TimeOut(p) \/ ProviderRaises(p) \/ Unparsable(p)
  \/ AnswerWithoutEvidence(p) \/ AnswerFinally(p)
  \/ Thinking(p) /\ \E call \in CallsOf(Request(sessions[p])) : SelectsTool(p, call)
  \/ Prefetch(p) \/ ServeSession(p) \/ LookUp(p) \/ Insert(p)

SupervisorNext ==
  \/ \E p \in Supervisors :
       \/ SessionStep(p)
       \/ Stop(p)
       \/ \E sid \in Given[p] : Start(p, sid)
  \/ \E c \in Callers \ Supervisors : Client(c)
  \/ /\ \E artifact \in Artifacts \ disk : RecordArtifact(artifact)
     /\ UNCHANGED <<sessions, responses, starts>>

\* A process that is not stopped goes on: its provider and its tools answer or
\* raise within their timeouts.
SupervisorFairness == \A p \in Supervisors : WF_supervisorVars(SessionStep(p))

SupervisorSpec ==
  SupervisorInit /\ [][SupervisorNext]_supervisorVars /\ SupervisorFairness

-----------------------------------------------------------------------------

\* docs/LLM_SUPERVISOR.md: "success remains impossible until required evidence
\* exists and reconciles".  A recorded COMPLETED session has, for each tool its
\* objective requires, a success of that tool in the audit, under an id of its
\* own (supervisor.py, 184-189 and 445-484), whoever else called it and however
\* often the session was started again.
EvidenceIsAudited ==
  \A r \in responses :
    r.response.status = "COMPLETED" =>
      LET required == RequiredEvidence(SupervisorRequests[r.sid].objective)
      IN  \A i \in 1 .. Len(required) :
            \E k \in 1 .. Len(audit) :
              /\ audit[k].request.tool = required[i]
              /\ audit[k].code = "ok"
              /\ audit[k].request.id.session = r.sid
              /\ audit[k].request \in r.response.evidence

\* "six iterations, six MCP calls": the calls of a session stay within the limit,
\* although the prefetch does not look at it: the correction and the prefetch
\* take as many iterations as a prefetch makes calls.  It takes as many calls as
\* iterations; with six and three a session may make five (supervisor.py, 92-182).
StepsWithinLimit ==
  \A p \in Supervisors : sessions[p] # Nobody => 
    /\ Len(sessions[p].steps) <= MaximumCalls
    /\ sessions[p].response # Nobody => sessions[p].response.steps <= MaximumCalls

\* What run returns is what llm_audit.db holds of the session, so that all runs
\* of a request return the same (supervisor.py, 69-77; llm_store.py, 19-91).
ReturnedIsRecorded ==
  \A p \in Supervisors :
    sessions[p] # Nobody /\ sessions[p].place = "returned" =>
      [sid |-> sessions[p].sid, response |-> sessions[p].response] \in responses

\* The audit of the service implements the abstract one.
CallsAreAudited == Audit!AuditSpec

\* A session ends: it returns, raises or is stopped.
SessionsEnd == \A p \in Supervisors : Running(p) ~> ~Running(p)

=============================================================================
