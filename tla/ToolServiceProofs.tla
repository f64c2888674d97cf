-------------------------- MODULE ToolServiceProofs --------------------------
(***************************************************************************)
(* The tool service implements ToolAudit for any number of callers and     *)
(* sessions, any requests and any handlers: a step of the service changes  *)
(* the call of one caller, and only an insertion changes the audit.  That  *)
(* it found no row with its id when it opened the audit does not matter,   *)
(* what matters is the key of the table when it inserts.  The second half  *)
(* is about the sessions: what they answered with, how often they called,  *)
(* and what they returned.                                                 *)
(***************************************************************************)
EXTENDS Supervisor, TLAPS

\* Rows are pairs of a request and its code, in a sequence.
ServiceInv ==
  /\ calls = [c \in Callers |-> calls[c]]
  /\ \E rows : audit \in Seq(rows)
  /\ \A i \in 1 .. Len(audit) :
       audit[i] = [request |-> audit[i].request, code |-> audit[i].code]

\* Nobody is told from calls and rows by its not having their fields.
NobodyIsNoRecord == "request" \notin DOMAIN Nobody

Row(call) == [request |-> call.request, code |-> call.code]

\* A step gives caller c a new call and leaves the audit alone.
CallsOnly(c, call) == calls' = [calls EXCEPT ![c] = call] /\ UNCHANGED audit

-----------------------------------------------------------------------------
(* What a change of one call means to the abstract audit.                  *)

LEMMA OneCallChanges ==
  ASSUME ServiceInv, NEW c \in Callers, NEW x, calls' = [calls EXCEPT ![c] = x]
  PROVE  /\ calls'[c] = x
         /\ \A e \in Callers \ {c} : calls'[e] = calls[e]
         /\ calls' = [e \in Callers |-> calls'[e]]
  BY DEF ServiceInv

\* What the caller of a call has heard, as the refinement mapping has it.
HeardOf(call) ==
  IF call # Nobody /\ call.stage = "answered" THEN Row(call) ELSE Nobody

LEMMA HeardChanges ==
  ASSUME ServiceInv, NEW c \in Callers, NEW x, calls' = [calls EXCEPT ![c] = x]
  PROVE  [e \in Callers |-> HeardOf(calls'[e])]
           = [[e \in Callers |-> HeardOf(calls[e])] EXCEPT ![c] = HeardOf(x)]
  BY OneCallChanges

\* A call that is not answered is one whose caller has heard nothing.
LEMMA UnansweredForgets ==
  ASSUME ServiceInv, NEW c \in Callers, NEW x, CallsOnly(c, x),
         x = Nobody \/ x.stage # "answered"
  PROVE  ServiceInv' /\ Audit!Forget(c)
<1>1. ServiceInv'
  BY OneCallChanges DEF CallsOnly, ServiceInv
<1>2. HeardOf(x) = Nobody
  BY DEF HeardOf
<1>3. Audit!Forget(c)
  BY <1>2, HeardChanges DEF CallsOnly, Audit!Forget, HeardOf, Row
<1> QED
  BY <1>1, <1>3

\* An answered call is one whose caller is told its row.
LEMMA AnsweredTells ==
  ASSUME ServiceInv, NobodyIsNoRecord, NEW c \in Callers, NEW x,
         calls' = [calls EXCEPT ![c] = x],
         x # Nobody, x.stage = "answered",
         \/ Audit!Record(Row(x)) \/ Audit!Repeat(Row(x))
         \/ Audit!Refuse(Row(x)) \/ Audit!Mismatch(Row(x))
  PROVE  Audit!Tell(c)
<1>1. HeardOf(calls'[c]) = Row(x) /\ HeardOf(x) = Row(x)
  BY OneCallChanges DEF HeardOf
<1>2. Row(x) # Nobody
  BY DEF Row, NobodyIsNoRecord
<1>3. Audit!Told(c, Row(x))
  BY <1>1, <1>2, HeardChanges DEF Audit!Told, HeardOf, Row
<1> DEFINE row == [e \in Callers |-> HeardOf(calls'[e])][c]
<1>4. row = Row(x)
  BY <1>1
<1>5. /\ Audit!Told(c, row)
      /\ \/ Audit!Record(row) \/ Audit!Repeat(row)
         \/ Audit!Refuse(row) \/ Audit!Mismatch(row)
  <2> HIDE DEF row
  <2> QED
    BY <1>3, <1>4 DEF Audit!Told, Audit!Record, Audit!Repeat, Audit!Refuse, Audit!Mismatch
<1> QED
  BY <1>5 DEF Audit!Tell, Audit!Told, Audit!Record, Audit!Repeat, Audit!Refuse,
       Audit!Mismatch, HeardOf, Row

-----------------------------------------------------------------------------
(* The steps of the service.                                               *)

Answers(c) == ServiceInv' /\ (Audit!Tell(c) \/ Audit!Forget(c))

LEMMA BecomesUnanswered ==
  ASSUME ServiceInv, NEW c \in Callers, NEW stage, NEW code,
         Becomes(c, stage, code), stage # "answered", UNCHANGED audit
  PROVE  Answers(c)
<1> DEFINE x == Call(stage, calls[c].request,
                     IF stage = "opened" THEN Len(audit) ELSE 0, code)
<1>1. CallsOnly(c, x) /\ x.stage # "answered"
  BY DEF Becomes, CallsOnly, Call
<1> HIDE DEF x
<1> QED
  BY <1>1, UnansweredForgets DEF Answers

LEMMA BecomesAnswered ==
  ASSUME ServiceInv, NobodyIsNoRecord, NEW c \in Callers, NEW code,
         Becomes(c, "answered", code),
         LET row == [request |-> calls[c].request, code |-> code]
         IN  \/ Audit!Record(row) \/ Audit!Repeat(row)
             \/ Audit!Refuse(row) \/ Audit!Mismatch(row)
  PROVE  Audit!Tell(c)
<1> DEFINE x == Call("answered", calls[c].request, 0, code)
<1>1. calls' = [calls EXCEPT ![c] = x]
  BY DEF Becomes, Call
<1>2. x # Nobody
  BY DEF Call, NobodyIsNoRecord
<1>3. x.stage = "answered" /\ Row(x) = [request |-> calls[c].request, code |-> code]
  BY DEF Call, Row
<1>4. \/ Audit!Record(Row(x)) \/ Audit!Repeat(Row(x))
      \/ Audit!Refuse(Row(x)) \/ Audit!Mismatch(Row(x))
  <2> HIDE DEF x
  <2> QED
    BY <1>3 DEF Audit!Record, Audit!Repeat, Audit!Refuse, Audit!Mismatch
<1> HIDE DEF x
<1> QED
  BY <1>1, <1>2, <1>3, <1>4, AnsweredTells
     DEF Audit!Record, Audit!Repeat, Audit!Refuse, Audit!Mismatch

\* An answer that is not inserted leaves the rows as they are.
LEMMA AnswerKeepsRows ==
  ASSUME ServiceInv, NEW c \in Callers, NEW stage, NEW code,
         Becomes(c, stage, code), UNCHANGED audit
  PROVE  ServiceInv'
  BY DEF Becomes, ServiceInv

LEMMA RefuseVersionAnswers ==
  ASSUME ServiceInv, NobodyIsNoRecord, NEW c \in Callers, RefuseVersion(c)
  PROVE  Answers(c)
<1>1. Audit!Mismatch([request |-> calls[c].request, code |-> "schema_version_mismatch"])
  BY DEF RefuseVersion, Audit!Mismatch
<1>2. Becomes(c, "answered", "schema_version_mismatch") /\ UNCHANGED audit
  BY DEF RefuseVersion
<1> QED
  BY <1>1, <1>2, BecomesAnswered, AnswerKeepsRows DEF Answers

\* The answer is a row of the audit, or a refusal because of one.
LEMMA AnswerFromAuditAnswers ==
  ASSUME ServiceInv, NobodyIsNoRecord, NEW c \in Callers, AnswerFromAudit(c)
  PROVE  Answers(c)
<1> DEFINE request == calls[c].request
<1>1. PICK i \in Existing(request) :
        Becomes(c, IF audit[i].request = request \/ request.tool \in Tools
                     THEN "answered" ELSE "raised",
                   IF audit[i].request = request
                     THEN audit[i].code ELSE "conflicting_duplicate")
  BY DEF AnswerFromAudit
<1>2. i \in 1 .. Len(audit) /\ audit[i].request.id = request.id /\ UNCHANGED audit
  BY <1>1 DEF Existing, AnswerFromAudit
<1>3. CASE audit[i].request = request
  <2>1. Becomes(c, "answered", audit[i].code)
    BY <1>1, <1>3
  <2>2. [request |-> request, code |-> audit[i].code] = audit[i]
    BY <1>2, <1>3 DEF ServiceInv
  <2>3. Audit!Repeat([request |-> request, code |-> audit[i].code])
    BY <1>2, <2>2 DEF Audit!Repeat
  <2> QED
    BY <1>2, <2>1, <2>3, BecomesAnswered, AnswerKeepsRows DEF Answers
<1>4. CASE audit[i].request # request /\ request.tool \in Tools
  <2>1. Becomes(c, "answered", "conflicting_duplicate")
    BY <1>1, <1>4
  <2>2. Audit!Refuse([request |-> request, code |-> "conflicting_duplicate"])
    BY <1>2, <1>4 DEF Audit!Refuse
  <2> QED
    BY <1>2, <2>1, <2>2, BecomesAnswered, AnswerKeepsRows DEF Answers
<1>5. CASE audit[i].request # request /\ request.tool \notin Tools
  <2>1. Becomes(c, "raised", "conflicting_duplicate")
    BY <1>1, <1>5
  <2> QED
    BY <1>2, <2>1, BecomesUnanswered
<1> QED
  BY <1>3, <1>4, <1>5

LEMMA ExecuteAnswers ==
  ASSUME ServiceInv, NEW c \in Callers, Execute(c)
  PROVE  Answers(c)
<1>1. \E code : Becomes(c, "handled", code) \/ Becomes(c, "opened", code)
  BY DEF Execute, Handle
<1> QED
  BY <1>1, BecomesUnanswered DEF Execute

LEMMA OpenAuditAnswers ==
  ASSUME ServiceInv, NEW c \in Callers, OpenAudit(c)
  PROVE  Answers(c)
  BY BecomesUnanswered DEF OpenAudit

\* A row is inserted only when none has its id, whatever was looked up before.
LEMMA AppendAnswerAnswers ==
  ASSUME ServiceInv, NobodyIsNoRecord, NEW c \in Callers, AppendAnswer(c)
  PROVE  Answers(c)
<1> DEFINE row == [request |-> calls[c].request, code |-> calls[c].code]
<1>1. CASE Existing(calls[c].request) = {} /\ audit' = Append(audit, row)
             /\ Becomes(c, "answered", calls[c].code)
  <2>1. PICK rows : audit \in Seq(rows)
    BY DEF ServiceInv
  <2>2. /\ audit' \in Seq(rows \cup {row})
        /\ Len(audit') = Len(audit) + 1 /\ Len(audit) \in Nat
        /\ audit'[Len(audit) + 1] = row
        /\ \A i \in 1 .. Len(audit) : audit'[i] = audit[i]
    BY <1>1, <2>1
  <2>3. ServiceInv'
    <3>1. calls' = [e \in Callers |-> calls'[e]]
      BY <1>1 DEF Becomes, ServiceInv
    <3>2. \A i \in 1 .. Len(audit') :
            audit'[i] = [request |-> audit'[i].request, code |-> audit'[i].code]
      <4>1. row = [request |-> row.request, code |-> row.code]
        OBVIOUS
      <4>2. \A i \in 1 .. Len(audit') : i \in 1 .. Len(audit) \/ i = Len(audit) + 1
        BY <2>2
      <4> HIDE DEF row
      <4> QED
        BY <2>2, <4>1, <4>2 DEF ServiceInv
    <3> QED
      BY <2>2, <3>1, <3>2 DEF ServiceInv
  <2>4. \A i \in 1 .. Len(audit) : audit[i].request.id # row.request.id
    BY <1>1 DEF Existing
  <2>5. {audit'[i] : i \in 1 .. Len(audit')} = {audit[i] : i \in 1 .. Len(audit)} \cup {row}
    BY <2>2
  <2>6. Audit!Record(row)
    BY <2>4, <2>5 DEF Audit!Record
  <2> QED
    BY <1>1, <2>3, <2>6, BecomesAnswered
       DEF Answers, Audit!Record, Audit!Repeat, Audit!Refuse, Audit!Mismatch
<1>2. CASE Becomes(c, "raised", calls[c].code) /\ UNCHANGED audit
  BY <1>2, BecomesUnanswered
<1> QED
  BY <1>1, <1>2 DEF AppendAnswer

LEMMA ServesAnswers ==
  ASSUME ServiceInv, NobodyIsNoRecord, NEW c \in Callers, Serves(c)
  PROVE  Answers(c)
  BY RefuseVersionAnswers, AnswerFromAuditAnswers, ExecuteAnswers, OpenAuditAnswers,
     AppendAnswerAnswers DEF Serves

LEMMA AskAnswers ==
  ASSUME ServiceInv, NEW c \in Callers, NEW request, Ask(c, request)
  PROVE  Answers(c)
<1> DEFINE x == Call("asked", request, 0, NoCode)
<1>1. CallsOnly(c, x) /\ x.stage # "answered"
  BY DEF Ask, CallsOnly, Call
<1> HIDE DEF x
<1> QED
  BY <1>1, UnansweredForgets DEF Answers

-----------------------------------------------------------------------------
(* The sessions and the other callers.                                     *)

Implements == ServiceInv' /\ [Audit!AuditNext]_Audit!auditVars

LEMMA AnswersImplement ==
  ASSUME NEW c \in Callers, Answers(c)
  PROVE  Implements
  BY DEF Answers, Implements, Audit!AuditNext

LEMMA QuietImplements ==
  ASSUME ServiceInv, UNCHANGED <<calls, audit>>
  PROVE  Implements
<1>1. ServiceInv'
  BY DEF ServiceInv
<1>2. UNCHANGED Audit!auditVars
  BY DEF Audit!auditVars
<1> QED
  BY <1>1, <1>2 DEF Implements

\* A process that is started or stopped has no call.
LEMMA NoCallImplements ==
  ASSUME ServiceInv, NEW c \in Callers, CallsOnly(c, Nobody)
  PROVE  Implements
<1>1. Answers(c)
  BY UnansweredForgets DEF Answers
<1> QED
  BY <1>1, AnswersImplement

LEMMA SessionImplements ==
  ASSUME ServiceInv, NobodyIsNoRecord, NEW p \in Supervisors, SessionStep(p)
  PROVE  Implements
<1>1. p \in Callers
  BY SupervisorAssumption
<1>2. CASE UNCHANGED serviceVars
  BY <1>2, QuietImplements DEF serviceVars
<1>3. CASE \E request : Ask(p, request)
  BY <1>1, <1>3, AskAnswers, AnswersImplement
<1>4. CASE Serves(p)
  BY <1>1, <1>4, ServesAnswers, AnswersImplement
<1>5. ASSUME NEW call, SelectsTool(p, call)
      PROVE  UNCHANGED serviceVars \/ \E request : Ask(p, request)
  BY <1>5 DEF SelectsTool
<1>6. ASSUME Prefetch(p)
      PROVE  UNCHANGED serviceVars \/ \E request : Ask(p, request)
  BY <1>6 DEF Prefetch
<1>7. ASSUME \/ TimeOut(p) \/ ProviderRaises(p) \/ Unparsable(p)
             \/ AnswerWithoutEvidence(p) \/ AnswerFinally(p) \/ LookUp(p) \/ Insert(p)
      PROVE  UNCHANGED serviceVars
  BY <1>7 DEF TimeOut, ProviderRaises, Unparsable, AnswerWithoutEvidence, AnswerFinally,
       LookUp, Insert
<1>8. ServeSession(p) => Serves(p)
  BY DEF ServeSession
<1> QED
  BY <1>2, <1>3, <1>4, <1>5, <1>6, <1>7, <1>8 DEF SessionStep

LEMMA StepImplements ==
  ASSUME ServiceInv, NobodyIsNoRecord, [SupervisorNext]_supervisorVars
  PROVE  Implements
<1>1. ASSUME NEW p \in Supervisors, SessionStep(p)
      PROVE  Implements
  BY <1>1, SessionImplements
<1>2. ASSUME NEW p \in Supervisors, Stop(p) \/ \E sid \in Given[p] : Start(p, sid)
      PROVE  Implements
  <2>1. p \in Callers /\ CallsOnly(p, Nobody)
    BY <1>2, SupervisorAssumption DEF Stop, Start, CallsOnly
  <2> QED
    BY <2>1, NoCallImplements
<1>3. ASSUME NEW c \in Callers \ Supervisors, Client(c)
      PROVE  Implements
  <2>1. Serves(c) \/ \E request : Ask(c, request)
    BY <1>3 DEF Client
  <2>2. Answers(c)
    BY <2>1, ServesAnswers, AskAnswers
  <2> QED
    BY <2>2, AnswersImplement
<1>4. ASSUME NEW artifact, RecordArtifact(artifact)
      PROVE  Implements
  BY <1>4, QuietImplements DEF RecordArtifact
<1>5. CASE UNCHANGED supervisorVars
  BY <1>5, QuietImplements DEF supervisorVars, serviceVars
<1> QED
  BY <1>1, <1>2, <1>3, <1>4, <1>5 DEF SupervisorNext

\* For every set of sessions and callers, stopped and started again at any
\* point, and whatever the handlers answer: a request id is answered once, and
\* whoever asks again is told the same (MCPToolService.call and
\* MCPAuditStore.append, whose table has the request id as its key).
THEOREM ServiceImplementsAudit ==
  ASSUME NobodyIsNoRecord
  PROVE  SupervisorSpec => CallsAreAudited
<1>1. SupervisorInit => ServiceInv /\ Audit!AuditInit
  <2> SUFFICES ASSUME SupervisorInit PROVE ServiceInv /\ Audit!AuditInit
    OBVIOUS
  <2>1. calls = [c \in Callers |-> Nobody] /\ audit = <<>>
    BY DEF SupervisorInit, ServiceInit
  <2>2. audit \in Seq({}) /\ 1 .. Len(audit) = {}
    BY <2>1
  <2>3. ServiceInv
    BY <2>1, <2>2 DEF ServiceInv
  <2>4. Audit!AuditInit
    BY <2>1, <2>2 DEF Audit!AuditInit
  <2> QED
    BY <2>3, <2>4
<1>2. ServiceInv /\ [SupervisorNext]_supervisorVars
        => ServiceInv' /\ [Audit!AuditNext]_Audit!auditVars
  BY StepImplements DEF Implements
<1> QED
  BY <1>1, <1>2, PTL DEF SupervisorSpec, CallsAreAudited, Audit!AuditSpec
-----------------------------------------------------------------------------
(* The invariant of the sessions.  It is stated of a session, of the rows  *)
(* of the audit and of the recorded responses, and every step keeps it     *)
(* because rows and responses are only added.                              *)

\* Prefetches are at most two: with as many calls as iterations allowed, the
\* limit is kept, otherwise it may be exceeded by those two.
Limit == IF MaximumIterations <= MaximumCalls THEN MaximumCalls ELSE MaximumCalls + 2

Left(todo) == (IF 1 \in todo THEN 1 ELSE 0) + (IF 2 \in todo THEN 1 ELSE 0)

IsSession(s) ==
  /\ s = [sid |-> s.sid, place |-> s.place, iteration |-> s.iteration, seen |-> s.seen,
          steps |-> s.steps, corrections |-> s.corrections, corrected |-> s.corrected,
          prefetched |-> s.prefetched, todo |-> s.todo, response |-> s.response]
  /\ s.iteration \in 0 .. MaximumIterations - 1
  /\ \E T : s.steps \in Seq(T)
  /\ s.todo \subseteq {1, 2}

\* How many calls a session has made, and may still make.  Until the prefetch
\* each call, and the correction before the prefetch, has taken an iteration.
Budget(s, iterations) ==
  /\ Len(s.steps) + Left(s.todo) <= Limit
  /\ ~s.prefetched =>
       /\ Len(s.steps) <= MaximumCalls
       /\ Len(s.steps) <= iterations
       /\ s.corrected => Len(s.steps) + 1 <= iterations

AtPlace(s) ==
  /\ s.place = "calling" => Len(s.steps) < MaximumCalls
  /\ s.place = "prefetching" => s.prefetched /\ s.todo # {}
  /\ s.place # "prefetching" => s.todo = {}

\* A request of the session with an answer among the rows.
Audited(rows, sid, request) ==
  /\ request.id.session = sid
  /\ \E k \in 1 .. Len(rows) : rows[k].request = request /\ rows[k].code = "ok"

StepsAudited(s, rows) ==
  \A i \in 1 .. Len(s.steps) :
    s.steps[i].code = "ok" =>
      s.steps[i].request.tool = s.steps[i].tool /\ Audited(rows, s.sid, s.steps[i].request)

\* A success of the tool, in the session and in its evidence.
Evident(rows, sid, tool, evidence) ==
  \E k \in 1 .. Len(rows) :
    /\ rows[k].request.tool = tool
    /\ rows[k].code = "ok"
    /\ rows[k].request.id.session = sid
    /\ rows[k].request \in evidence

RequiredOf(sid) == RequiredEvidence(SupervisorRequests[sid].objective)

\* The evidence of a response, as EvidenceIsAudited has it.
Backed(rows, sid, response) ==
  response.status = "COMPLETED" =>
    \A i \in 1 .. Len(RequiredOf(sid)) : Evident(rows, sid, RequiredOf(sid)[i], response.evidence)

Fit(rows, sid, response) == response.steps <= Limit /\ Backed(rows, sid, response)

Entry(sid, response) == [sid |-> sid, response |-> response]

Good(s, rows, recorded) ==
  /\ IsSession(s) /\ Budget(s, s.iteration) /\ AtPlace(s) /\ StepsAudited(s, rows)
  /\ s.place \in {"recording", "inserting", "returned"} => Fit(rows, s.sid, s.response)
  /\ s.place \notin {"recording", "inserting", "returned"} => s.response = Nobody
  /\ s.place = "returned" => Entry(s.sid, s.response) \in recorded

\* The call of a session is its own.
OwnCall(s, call) == call # Nobody => call.request.id.session = s.sid

ResponsesInv ==
  \A r \in responses : r = Entry(r.sid, r.response) /\ Fit(audit, r.sid, r.response)

SessionsInv ==
  /\ sessions = [p \in Supervisors |-> sessions[p]]
  /\ \A p \in Supervisors :
       sessions[p] # Nobody =>
         Good(sessions[p], audit, responses) /\ OwnCall(sessions[p], calls[p])

SupervisorInv == ServiceInv /\ ResponsesInv /\ SessionsInv

\* Rows are added at the end.
Extends(more, rows) ==
  /\ Len(rows) <= Len(more)
  /\ \A i \in 1 .. Len(rows) : more[i] = rows[i]

-----------------------------------------------------------------------------
(* Operators on sessions.                                                  *)

LEMMA LimitNat == Limit \in Nat /\ MaximumCalls \in Nat \ {0} /\ MaximumCalls <= Limit
                  /\ MaximumIterations \in Nat \ {0}
  BY SupervisorAssumption DEF Limit

LEMMA AtMostTwo ==
  ASSUME NEW objective
  PROVE  /\ Len(RequiredEvidence(objective)) \in {0, 1, 2}
         /\ DOMAIN RequiredEvidence(objective) = 1 .. Len(RequiredEvidence(objective))
<1> DEFINE Short(seq) == Len(seq) \in {0, 1, 2} /\ DOMAIN seq = 1 .. Len(seq)
<1>1. \A a, b : Short(<<a, b>>)
  OBVIOUS
<1>2. \A a : Short(<<a>>)
  OBVIOUS
<1>3. Short(<<>>)
  OBVIOUS
<1> HIDE DEF Short
<1>4. Short(RequiredEvidence(objective))
  BY <1>1, <1>2, <1>3 DEF RequiredEvidence
<1> QED
  BY <1>4 DEF Short

LEMMA LeftBounds ==
  /\ \A todo \in SUBSET {1, 2} : Left(todo) \in 0 .. 2
  /\ Left({}) = 0
  /\ \A todo \in SUBSET {1, 2} :
       /\ {i \in todo : \E j \in todo : j < i} \in SUBSET {1, 2}
       /\ todo # {} => Left({i \in todo : \E j \in todo : j < i}) + 1 <= Left(todo)
<1>1. \A todo \in SUBSET {1, 2} : Left(todo) \in 0 .. 2
  BY DEF Left
<1>2. Left({}) = 0
  BY DEF Left
<1>3. ASSUME NEW todo \in SUBSET {1, 2}
      PROVE  /\ {i \in todo : \E j \in todo : j < i} \in SUBSET {1, 2}
             /\ todo # {} => Left({i \in todo : \E j \in todo : j < i}) + 1 <= Left(todo)
  <2> DEFINE rest == {i \in todo : \E j \in todo : j < i}
  <2>1. 1 \notin rest /\ rest \subseteq todo
    OBVIOUS
  <2>2. 2 \in rest => 1 \in todo /\ 2 \in todo
    OBVIOUS
  <2>3. todo # {} => 1 \in todo \/ 2 \in todo
    OBVIOUS
  <2> HIDE DEF rest
  <2>4. todo # {} => Left(rest) + 1 <= Left(todo)
    BY <2>1, <2>2, <2>3 DEF Left
  <2> QED
    BY <2>1, <2>4 DEF rest
<1> QED
  BY <1>1, <1>2, <1>3

\* A session that is over, with a response that fits.
LEMMA EndedGood ==
  ASSUME NEW s, NEW place, NEW response, NEW rows, NEW recorded,
         place \notin {"calling", "prefetching"},
         place \in {"recording", "inserting", "returned"} => Fit(rows, s.sid, response),
         place \notin {"recording", "inserting", "returned"} => response = Nobody,
         place = "returned" => Entry(s.sid, response) \in recorded
  PROVE  Good(Ended(s, place, response), rows, recorded) /\ Ended(s, place, response).sid = s.sid
<1>1. PICK t : t = Ended(s, place, response)
  OBVIOUS
<1>2. t = [sid |-> s.sid, place |-> place, iteration |-> 0, seen |-> {}, steps |-> <<>>,
           corrections |-> 0, corrected |-> FALSE, prefetched |-> FALSE, todo |-> {},
           response |-> response]
  BY <1>1 DEF Ended, NewSession
<1>3. /\ t.sid = s.sid /\ t.place = place /\ t.iteration = 0 /\ t.steps = <<>>
      /\ t.todo = {} /\ t.response = response
  BY <1>2
<1>4. ~t.corrected /\ ~t.prefetched
  BY <1>2
<1>5. IsSession(t)
  <2>1. t = [sid |-> t.sid, place |-> t.place, iteration |-> t.iteration, seen |-> t.seen,
             steps |-> t.steps, corrections |-> t.corrections, corrected |-> t.corrected,
             prefetched |-> t.prefetched, todo |-> t.todo, response |-> t.response]
    BY <1>2
  <2>2. t.steps \in Seq({})
    BY <1>3
  <2> QED
    BY <1>3, <2>1, <2>2, LimitNat DEF IsSession
<1>6. Len(t.steps) = 0
  BY <1>3
<1>7. Budget(t, t.iteration) /\ AtPlace(t) /\ StepsAudited(t, rows)
  BY <1>3, <1>4, <1>6, LimitNat, LeftBounds DEF Budget, AtPlace, StepsAudited
<1> QED
  BY <1>1, <1>3, <1>5, <1>7 DEF Good

LEMMA NewGood ==
  ASSUME NEW sid, NEW rows, NEW recorded
  PROVE  Good(NewSession(sid), rows, recorded) /\ NewSession(sid).sid = sid
<1>1. PICK s : s = NewSession(sid)
  OBVIOUS
<1>2. s = [sid |-> sid, place |-> "thinking", iteration |-> 0, seen |-> {}, steps |-> <<>>,
           corrections |-> 0, corrected |-> FALSE, prefetched |-> FALSE, todo |-> {},
           response |-> Nobody]
  BY <1>1 DEF NewSession
<1>3. s.sid = sid
  BY <1>2
<1>4. s = Ended(s, "thinking", Nobody)
  <2>1. PICK e : e = Ended(s, "thinking", Nobody)
    OBVIOUS
  <2>2. e = [sid |-> sid, place |-> "thinking", iteration |-> 0, seen |-> {}, steps |-> <<>>,
             corrections |-> 0, corrected |-> FALSE, prefetched |-> FALSE, todo |-> {},
             response |-> Nobody]
    BY <1>3, <2>1 DEF Ended, NewSession
  <2> QED
    BY <1>2, <2>1, <2>2
<1>5. Good(Ended(s, "thinking", Nobody), rows, recorded)
  BY EndedGood
<1> QED
  BY <1>1, <1>3, <1>4, <1>5

LEMMA RaisedGood ==
  ASSUME NEW s, NEW rows, NEW recorded
  PROVE  Good(Raised(s), rows, recorded) /\ Raised(s).sid = s.sid
  BY EndedGood DEF Raised

LEMMA FailureGood ==
  ASSUME NEW s, NEW rows, NEW recorded, Len(s.steps) <= Limit
  PROVE  Good(Failure(s), rows, recorded) /\ Failure(s).sid = s.sid
<1>1. PICK response : response = Response(s, "FAILED_CLOSED")
  OBVIOUS
<1>2. response.status = "FAILED_CLOSED" /\ response.steps = Len(s.steps)
  BY <1>1 DEF Response
<1>3. Fit(rows, s.sid, response)
  BY <1>2 DEF Fit, Backed
<1> QED
  BY <1>1, <1>3, EndedGood DEF Failure

\* The next iteration, after a session has used the one it is in.
LEMMA NextGood ==
  ASSUME NEW s, NEW rows, NEW recorded,
         IsSession(s), Budget(s, s.iteration + 1), s.todo = {}, StepsAudited(s, rows),
         s.response = Nobody
  PROVE  Good(NextIteration(s), rows, recorded) /\ NextIteration(s).sid = s.sid
<1>1. Len(s.steps) <= Limit
  BY LeftBounds, LimitNat DEF Budget, IsSession
<1>2. CASE s.iteration + 1 = MaximumIterations
  BY <1>1, <1>2, FailureGood DEF NextIteration
<1>3. CASE s.iteration + 1 # MaximumIterations
  <2>1. PICK t : t = [s EXCEPT !.place = "thinking", !.iteration = @ + 1]
    OBVIOUS
  <2>2. t = [sid |-> s.sid, place |-> "thinking", iteration |-> s.iteration + 1, seen |-> s.seen,
             steps |-> s.steps, corrections |-> s.corrections, corrected |-> s.corrected,
             prefetched |-> s.prefetched, todo |-> s.todo, response |-> s.response]
    BY <2>1 DEF IsSession
  <2>3. /\ t.sid = s.sid /\ t.place = "thinking" /\ t.iteration = s.iteration + 1
        /\ t.steps = s.steps /\ t.todo = s.todo /\ t.response = s.response
    BY <2>2
  <2>4. (t.corrected <=> s.corrected) /\ (t.prefetched <=> s.prefetched)
    BY <2>2, Zenon
  <2>5. t = [sid |-> t.sid, place |-> t.place, iteration |-> t.iteration, seen |-> t.seen,
             steps |-> t.steps, corrections |-> t.corrections, corrected |-> t.corrected,
             prefetched |-> t.prefetched, todo |-> t.todo, response |-> t.response]
    BY <2>2
  <2>6. t.iteration \in 0 .. MaximumIterations - 1
    BY <1>3, <2>3, LimitNat DEF IsSession
  <2>7. IsSession(t)
    BY <2>3, <2>5, <2>6 DEF IsSession
  <2>8. Budget(t, t.iteration)
    BY <2>3, <2>4 DEF Budget
  <2>9. AtPlace(t) /\ StepsAudited(t, rows)
    BY <2>3 DEF AtPlace, StepsAudited
  <2>10. Good(t, rows, recorded)
    BY <2>3, <2>7, <2>8, <2>9 DEF Good
  <2> QED
    BY <1>3, <2>1, <2>3, <2>10 DEF NextIteration
<1> QED
  BY <1>2, <1>3

\* A session that goes to another place with the steps it has.
LEMMA MovedGood ==
  ASSUME NEW s, NEW rows, NEW recorded, Good(s, rows, recorded), s.response = Nobody,
         NEW t,
         t = [sid |-> t.sid, place |-> t.place, iteration |-> t.iteration, seen |-> t.seen,
              steps |-> t.steps, corrections |-> t.corrections, corrected |-> t.corrected,
              prefetched |-> t.prefetched, todo |-> t.todo, response |-> t.response],
         t.sid = s.sid, t.iteration = s.iteration, t.steps = s.steps,
         t.response = s.response, t.todo \in SUBSET {1, 2},
         t.place \in {"calling", "prefetching"}, AtPlace(t), Budget(t, t.iteration)
  PROVE  Good(t, rows, recorded) /\ t.sid = s.sid
<1>1. IsSession(s) /\ StepsAudited(s, rows)
  BY DEF Good
<1>2. IsSession(t)
  BY <1>1 DEF IsSession
<1>3. StepsAudited(t, rows)
  BY <1>1 DEF StepsAudited
<1> QED
  BY <1>2, <1>3 DEF Good

\* What is good stays so when rows and responses are added.
LEMMA AuditedStays ==
  ASSUME NEW rows, NEW more, Len(rows) \in Nat, Len(more) \in Nat, Extends(more, rows),
         NEW sid, NEW request, Audited(rows, sid, request)
  PROVE  Audited(more, sid, request)
<1>1. PICK k \in 1 .. Len(rows) : rows[k].request = request /\ rows[k].code = "ok"
  BY DEF Audited
<1>2. k \in 1 .. Len(more) /\ more[k] = rows[k]
  BY DEF Extends
<1> QED
  BY <1>1, <1>2 DEF Audited

LEMMA FitStays ==
  ASSUME NEW rows, NEW more, Len(rows) \in Nat, Len(more) \in Nat, Extends(more, rows),
         NEW sid, NEW response, Fit(rows, sid, response)
  PROVE  Fit(more, sid, response)
<1>1. ASSUME NEW tool, Evident(rows, sid, tool, response.evidence)
      PROVE  Evident(more, sid, tool, response.evidence)
  <2>1. PICK k \in 1 .. Len(rows) :
          /\ rows[k].request.tool = tool
          /\ rows[k].code = "ok"
          /\ rows[k].request.id.session = sid
          /\ rows[k].request \in response.evidence
    BY <1>1 DEF Evident
  <2>2. k \in 1 .. Len(more) /\ more[k] = rows[k]
    BY DEF Extends
  <2> QED
    BY <2>1, <2>2 DEF Evident
<1> QED
  BY <1>1 DEF Fit, Backed

LEMMA GoodStays ==
  ASSUME NEW rows, NEW more, Len(rows) \in Nat, Len(more) \in Nat, Extends(more, rows),
         NEW recorded, NEW grown, recorded \subseteq grown,
         NEW s, Good(s, rows, recorded)
  PROVE  Good(s, more, grown)
<1>1. StepsAudited(s, more)
  BY AuditedStays DEF Good, StepsAudited
<1>2. Fit(rows, s.sid, s.response) => Fit(more, s.sid, s.response)
  BY FitStays
<1> QED
  BY <1>1, <1>2 DEF Good

-----------------------------------------------------------------------------
(* What a step does to rows, responses, sessions and calls.                *)

LEMMA RowsAreCounted ==
  ASSUME ServiceInv
  PROVE  Len(audit) \in Nat
  BY DEF ServiceInv

\* The service works for a caller: its call stays its own, rows are only added,
\* and an answer "ok" is in a row.
Served(c) ==
  /\ ServiceInv'
  /\ Extends(audit', audit)
  /\ \A e \in Callers \ {c} : calls'[e] = calls[e]
  /\ calls'[c].request = calls[c].request
  /\ calls'[c].stage = "answered" /\ calls'[c].code = "ok" =>
       \E k \in 1 .. Len(audit') :
         audit'[k].request = calls[c].request /\ audit'[k].code = "ok"

LEMMA BecomesServed ==
  ASSUME ServiceInv, NEW c \in Callers, NEW stage, NEW code, Becomes(c, stage, code)
  PROVE  /\ calls' = [e \in Callers |-> calls'[e]]
         /\ \A e \in Callers \ {c} : calls'[e] = calls[e]
         /\ calls'[c].request = calls[c].request
         /\ calls'[c].stage = stage
         /\ calls'[c].code = code
<1>1. PICK x : x = Call(stage, calls[c].request, IF stage = "opened" THEN Len(audit) ELSE 0, code)
  OBVIOUS
<1>2. calls' = [calls EXCEPT ![c] = x]
  BY <1>1 DEF Becomes, Call
<1>3. x.request = calls[c].request /\ x.stage = stage /\ x.code = code
  BY <1>1 DEF Call
<1> QED
  BY <1>2, <1>3, OneCallChanges

LEMMA QuietServed ==
  ASSUME ServiceInv, NEW c \in Callers, NEW stage, NEW code, Becomes(c, stage, code),
         UNCHANGED audit,
         stage = "answered" /\ code = "ok" =>
           \E k \in 1 .. Len(audit) :
             audit[k].request = calls[c].request /\ audit[k].code = "ok"
  PROVE  Served(c)
<1>1. ServiceInv'
  BY AnswerKeepsRows
<1>2. Extends(audit', audit)
  BY RowsAreCounted DEF Extends
<1> QED
  BY <1>1, <1>2, BecomesServed DEF Served

LEMMA AppendedServed ==
  ASSUME ServiceInv, NEW c \in Callers, NEW code, Becomes(c, "answered", code),
         audit' = Append(audit, [request |-> calls[c].request, code |-> code])
  PROVE  Served(c)
<1> DEFINE row == [request |-> calls[c].request, code |-> code]
<1>1. PICK rows : audit \in Seq(rows)
  BY DEF ServiceInv
<1>2. /\ audit' \in Seq(rows \cup {row})
      /\ Len(audit') = Len(audit) + 1 /\ Len(audit) \in Nat
      /\ audit'[Len(audit) + 1] = row
      /\ \A i \in 1 .. Len(audit) : audit'[i] = audit[i]
  BY <1>1
<1>3. row.request = calls[c].request /\ row.code = code
  OBVIOUS
<1>4. row = [request |-> row.request, code |-> row.code]
  OBVIOUS
<1> HIDE DEF row
<1>5. \A i \in 1 .. Len(audit') :
        audit'[i] = [request |-> audit'[i].request, code |-> audit'[i].code]
  <2>1. \A i \in 1 .. Len(audit') : i \in 1 .. Len(audit) \/ i = Len(audit) + 1
    BY <1>2
  <2> QED
    BY <1>2, <1>4, <2>1 DEF ServiceInv
<1>6. ServiceInv'
  BY <1>2, <1>5, BecomesServed DEF ServiceInv
<1>7. Extends(audit', audit)
  BY <1>2 DEF Extends
<1>8. /\ Len(audit) + 1 \in 1 .. Len(audit')
      /\ audit'[Len(audit) + 1].request = calls[c].request
      /\ audit'[Len(audit) + 1].code = code
  BY <1>2, <1>3
<1>9. code = "ok" => \E k \in 1 .. Len(audit') :
                       audit'[k].request = calls[c].request /\ audit'[k].code = "ok"
  BY <1>8
<1> QED
  BY <1>6, <1>7, <1>9, BecomesServed DEF Served

LEMMA ServesServed ==
  ASSUME ServiceInv, NEW c \in Callers, Serves(c)
  PROVE  Served(c)
<1>1. CASE RefuseVersion(c)
  BY <1>1, QuietServed DEF RefuseVersion
<1>2. CASE AnswerFromAudit(c)
  <2>1. PICK i \in Existing(calls[c].request) :
          Becomes(c, IF audit[i].request = calls[c].request \/ calls[c].request.tool \in Tools
                       THEN "answered" ELSE "raised",
                     IF audit[i].request = calls[c].request
                       THEN audit[i].code ELSE "conflicting_duplicate")
    BY <1>2 DEF AnswerFromAudit
  <2>2. PICK stage, code :
          /\ stage = (IF audit[i].request = calls[c].request \/ calls[c].request.tool \in Tools
                        THEN "answered" ELSE "raised")
          /\ code = (IF audit[i].request = calls[c].request
                       THEN audit[i].code ELSE "conflicting_duplicate")
    OBVIOUS
  <2>3. Becomes(c, stage, code) /\ UNCHANGED audit
    BY <1>2, <2>1, <2>2 DEF AnswerFromAudit
  <2>4. i \in 1 .. Len(audit)
    BY <2>1 DEF Existing
  <2>5. code = "ok" => audit[i].request = calls[c].request /\ audit[i].code = "ok"
    BY <2>2
  <2> QED
    BY <2>3, <2>4, <2>5, QuietServed
<1>3. CASE Execute(c)
  <2>1. \E code : Becomes(c, "handled", code) \/ Becomes(c, "opened", code)
    BY <1>3 DEF Execute, Handle
  <2>2. UNCHANGED audit
    BY <1>3 DEF Execute
  <2> QED
    BY <2>1, <2>2, QuietServed
<1>4. CASE OpenAudit(c)
  BY <1>4, QuietServed DEF OpenAudit
<1>5. CASE AppendAnswer(c)
  <2>1. CASE /\ audit' = Append(audit, [request |-> calls[c].request, code |-> calls[c].code])
             /\ Becomes(c, "answered", calls[c].code)
    BY <2>1, AppendedServed
  <2>2. CASE Becomes(c, "raised", calls[c].code) /\ UNCHANGED audit
    BY <2>2, QuietServed
  <2> QED
    BY <1>5, <2>1, <2>2 DEF AppendAnswer
<1> QED
  BY <1>1, <1>2, <1>3, <1>4, <1>5 DEF Serves

\* What was recorded stays, and more may be.
Grows ==
  /\ ServiceInv'
  /\ Extends(audit', audit)
  /\ responses \subseteq responses'
  /\ \A r \in responses' \ responses :
       r = Entry(r.sid, r.response) /\ Fit(audit', r.sid, r.response)

LEMMA ResponsesGrow ==
  ASSUME SupervisorInv, Grows
  PROVE  ResponsesInv'
<1>1. ASSUME NEW r \in responses'
      PROVE  r = Entry(r.sid, r.response) /\ Fit(audit', r.sid, r.response)
  <2>1. CASE r \in responses
    <3>1. r = Entry(r.sid, r.response) /\ Fit(audit, r.sid, r.response)
      BY <2>1 DEF SupervisorInv, ResponsesInv
    <3>2. Len(audit) \in Nat /\ Len(audit') \in Nat /\ Extends(audit', audit)
      BY RowsAreCounted DEF Grows, SupervisorInv, ServiceInv
    <3> QED
      BY <3>1, <3>2, FitStays
  <2>2. CASE r \notin responses
    BY <2>2 DEF Grows
  <2> QED
    BY <2>1, <2>2
<1> QED
  BY <1>1 DEF ResponsesInv

\* A step that leaves the sessions of all but p as they are.
LEMMA OneSession ==
  ASSUME SupervisorInv, Grows, NEW p \in Supervisors, NEW t,
         sessions' = [sessions EXCEPT ![p] = t],
         \A e \in Supervisors \ {p} : calls'[e] = calls[e],
         t # Nobody => Good(t, audit', responses') /\ OwnCall(t, calls'[p])
  PROVE  SupervisorInv'
<1>1. /\ Len(audit) \in Nat /\ Len(audit') \in Nat /\ Extends(audit', audit)
      /\ responses \subseteq responses'
  BY RowsAreCounted DEF Grows, SupervisorInv, ServiceInv
<1>2. /\ sessions' = [e \in Supervisors |-> sessions'[e]]
      /\ sessions'[p] = t
      /\ \A e \in Supervisors \ {p} : sessions'[e] = sessions[e]
  BY DEF SupervisorInv, SessionsInv
<1>3. ASSUME NEW e \in Supervisors, sessions'[e] # Nobody
      PROVE  Good(sessions'[e], audit', responses') /\ OwnCall(sessions'[e], calls'[e])
  <2>1. CASE e = p
    BY <1>2, <1>3, <2>1
  <2>2. CASE e # p
    <3>1. Good(sessions[e], audit, responses) /\ OwnCall(sessions[e], calls[e])
      BY <1>2, <1>3, <2>2 DEF SupervisorInv, SessionsInv
    <3>2. Good(sessions[e], audit', responses')
      BY <1>1, <3>1, GoodStays
    <3> QED
      BY <1>2, <2>2, <3>1, <3>2
  <2> QED
    BY <2>1, <2>2
<1>4. SessionsInv'
  BY <1>2, <1>3 DEF SessionsInv
<1> QED
  BY <1>4, ResponsesGrow DEF SupervisorInv, Grows

-----------------------------------------------------------------------------
(* The steps of a session.                                                 *)

LEMMA Own ==
  ASSUME SupervisorInv, NEW p \in Supervisors, sessions[p] # Nobody
  PROVE  /\ p \in Callers
         /\ Good(sessions[p], audit, responses)
         /\ OwnCall(sessions[p], calls[p])
  BY SupervisorAssumption DEF SupervisorInv, SessionsInv

LEMMA StepsCounted ==
  ASSUME NEW s, NEW rows, NEW recorded, Good(s, rows, recorded)
  PROVE  /\ Len(s.steps) \in Nat /\ Len(s.steps) <= Limit
         /\ s.iteration \in Nat /\ s.iteration < MaximumIterations
<1>1. Len(s.steps) \in Nat
  BY DEF Good, IsSession
<1>2. s.iteration \in Nat /\ s.iteration < MaximumIterations
  BY LimitNat DEF Good, IsSession
<1>3. Left(s.todo) \in Nat /\ Len(s.steps) + Left(s.todo) <= Limit
  BY LeftBounds DEF Good, IsSession, Budget
<1> QED
  BY <1>1, <1>2, <1>3, LimitNat

LEMMA QuietGrows ==
  ASSUME SupervisorInv, UNCHANGED <<calls, audit, responses>>
  PROVE  Grows
<1>1. ServiceInv'
  BY DEF SupervisorInv, ServiceInv
<1>2. Extends(audit', audit)
  BY RowsAreCounted DEF SupervisorInv, Extends
<1> QED
  BY <1>1, <1>2 DEF Grows

\* The session goes on, and nothing else happens.
LEMMA GoesQuietly ==
  ASSUME SupervisorInv, NEW p \in Supervisors, sessions[p] # Nobody, NEW t, Goes(p, t),
         UNCHANGED <<serviceVars, responses>>,
         Good(t, audit, responses), t.sid = sessions[p].sid
  PROVE  SupervisorInv'
<1>1. UNCHANGED <<calls, audit, responses>>
  BY DEF serviceVars
<1>2. sessions' = [sessions EXCEPT ![p] = t]
  BY DEF Goes
<1>3. Good(t, audit', responses') /\ OwnCall(t, calls'[p])
  BY <1>1, Own DEF OwnCall
<1> QED
  BY <1>1, <1>2, <1>3, QuietGrows, OneSession

LEMMA FailsQuietly ==
  ASSUME SupervisorInv, NEW p \in Supervisors, sessions[p] # Nobody,
         UNCHANGED <<serviceVars, responses>>,
         \/ Goes(p, Failure(sessions[p]))
         \/ Goes(p, Raised(sessions[p]))
  PROVE  SupervisorInv'
<1>1. PICK s : s = sessions[p]
  OBVIOUS
<1>2. Len(s.steps) <= Limit
  BY <1>1, Own, StepsCounted
<1>3. CASE Goes(p, Failure(sessions[p]))
  <2>1. PICK t : t = Failure(s)
    OBVIOUS
  <2>2. Good(t, audit, responses) /\ t.sid = s.sid
    BY <1>2, <2>1, FailureGood
  <2> QED
    BY <1>1, <1>3, <2>1, <2>2, GoesQuietly
<1>4. CASE Goes(p, Raised(sessions[p]))
  <2>1. PICK t : t = Raised(s)
    OBVIOUS
  <2>2. Good(t, audit, responses) /\ t.sid = s.sid
    BY <2>1, RaisedGood
  <2> QED
    BY <1>1, <1>4, <2>1, <2>2, GoesQuietly
<1> QED
  BY <1>3, <1>4

\* A correction: the session counts it and takes the next iteration.
LEMMA CorrectedGood ==
  ASSUME NEW s, NEW rows, NEW recorded, Good(s, rows, recorded), s.place = "thinking",
         NEW corrected, NEW u,
         u = [sid |-> s.sid, place |-> s.place, iteration |-> s.iteration, seen |-> s.seen,
              steps |-> s.steps, corrections |-> s.corrections + 1, corrected |-> corrected,
              prefetched |-> s.prefetched, todo |-> s.todo, response |-> s.response]
  PROVE  Good(NextIteration(u), rows, recorded) /\ NextIteration(u).sid = s.sid
<1>1. /\ u.sid = s.sid /\ u.iteration = s.iteration
      /\ u.steps = s.steps /\ u.todo = s.todo /\ u.response = s.response
  OBVIOUS
<1>2. (u.corrected <=> corrected) /\ (u.prefetched <=> s.prefetched)
  BY Zenon
<1>3. u = [sid |-> u.sid, place |-> u.place, iteration |-> u.iteration, seen |-> u.seen,
           steps |-> u.steps, corrections |-> u.corrections, corrected |-> u.corrected,
           prefetched |-> u.prefetched, todo |-> u.todo, response |-> u.response]
  OBVIOUS
<1>4. IsSession(s) /\ Budget(s, s.iteration) /\ AtPlace(s) /\ StepsAudited(s, rows)
  BY DEF Good
<1>5. IsSession(u)
  BY <1>1, <1>3, <1>4 DEF IsSession
<1>6. Len(s.steps) \in Nat /\ s.iteration \in Nat
  BY StepsCounted
<1>7. Budget(u, u.iteration + 1)
  <2>1. Len(s.steps) + Left(s.todo) <= Limit
    BY <1>4 DEF Budget
  <2>2. ASSUME ~s.prefetched
        PROVE  Len(s.steps) <= MaximumCalls /\ Len(s.steps) <= s.iteration
    BY <1>4, <2>2 DEF Budget
  <2> QED
    BY <1>1, <1>2, <1>6, <2>1, <2>2, LimitNat DEF Budget
<1>8. u.todo = {} /\ StepsAudited(u, rows) /\ u.response = Nobody
  BY <1>1, <1>4 DEF AtPlace, StepsAudited, Good
<1> QED
  BY <1>1, <1>5, <1>7, <1>8, NextGood

LEMMA UnparsableStep ==
  ASSUME SupervisorInv, NEW p \in Supervisors, Unparsable(p)
  PROVE  SupervisorInv'
<1>1. PICK s : s = sessions[p]
  OBVIOUS
<1>2. /\ s # Nobody /\ s.place = "thinking" /\ Good(s, audit, responses)
      /\ UNCHANGED <<serviceVars, responses>>
  BY <1>1, Own DEF Unparsable, Thinking, SessionUnchanged
<1>3. PICK u : u = [s EXCEPT !.corrections = @ + 1]
  OBVIOUS
<1>4. u = [sid |-> s.sid, place |-> s.place, iteration |-> s.iteration, seen |-> s.seen,
           steps |-> s.steps, corrections |-> s.corrections + 1,
           corrected |-> s.corrected, prefetched |-> s.prefetched, todo |-> s.todo,
           response |-> s.response]
  BY <1>2, <1>3 DEF Good, IsSession
<1>5. u.sid = s.sid /\ Len(u.steps) <= Limit
  BY <1>2, <1>4, StepsCounted
<1>6. PICK t : t = IF u.corrections > MaximumCorrections THEN Failure(u) ELSE NextIteration(u)
  OBVIOUS
<1>7. Good(NextIteration(u), audit, responses) /\ NextIteration(u).sid = s.sid
  BY <1>2, <1>4, CorrectedGood
<1>8. Good(Failure(u), audit, responses) /\ Failure(u).sid = s.sid
  BY <1>5, FailureGood
<1>9. Good(t, audit, responses) /\ t.sid = s.sid
  BY <1>6, <1>7, <1>8
<1>10. Goes(p, t)
  BY <1>1, <1>3, <1>6 DEF Unparsable
<1> QED
  BY <1>1, <1>2, <1>9, <1>10, GoesQuietly

LEMMA MissingAmongTwo ==
  ASSUME NEW s
  PROVE  Missing(s) \in SUBSET {1, 2}
<1>1. PICK required : required = Required(s)
  OBVIOUS
<1>2. DOMAIN required \subseteq {1, 2}
  BY <1>1, AtMostTwo DEF Required
<1>3. Missing(s) \subseteq DOMAIN required
  BY <1>1 DEF Missing
<1> QED
  BY <1>2, <1>3

\* The prefetch makes at most two calls, and comes after an iteration without one.
LEMMA PrefetchWithinLimit ==
  ASSUME NEW s, NEW rows, NEW recorded, Good(s, rows, recorded), s.corrected, ~s.prefetched
  PROVE  Len(s.steps) + Left(Missing(s)) <= Limit
<1>1. Left(Missing(s)) \in 0 .. 2
  BY MissingAmongTwo, LeftBounds
<1>2. Len(s.steps) <= MaximumCalls /\ Len(s.steps) + 1 <= s.iteration
  BY DEF Good, Budget
<1>3. /\ Len(s.steps) \in Nat /\ s.iteration \in Nat /\ s.iteration < MaximumIterations
      /\ MaximumCalls \in Nat /\ MaximumIterations \in Nat
  BY StepsCounted, LimitNat
<1> QED
  BY <1>1, <1>2, <1>3 DEF Limit

LEMMA AnswerWithoutEvidenceStep ==
  ASSUME SupervisorInv, NEW p \in Supervisors, AnswerWithoutEvidence(p)
  PROVE  SupervisorInv'
<1>1. PICK s : s = sessions[p]
  OBVIOUS
<1>2. /\ s # Nobody /\ s.place = "thinking" /\ Good(s, audit, responses)
      /\ UNCHANGED <<serviceVars, responses>> /\ Missing(s) # {}
  BY <1>1, Own DEF AnswerWithoutEvidence, Thinking, SessionUnchanged
<1>3. s.response = Nobody
  BY <1>2 DEF Good
<1>4. \/ Goes(p, NextIteration([s EXCEPT !.corrected = TRUE, !.corrections = @ + 1]))
      \/ /\ s.corrected /\ ~s.prefetched
         /\ Goes(p, [s EXCEPT !.prefetched = TRUE, !.place = "prefetching", !.todo = Missing(s)])
      \/ Goes(p, Failure(s))
  BY <1>1 DEF AnswerWithoutEvidence
<1>5. CASE Goes(p, NextIteration([s EXCEPT !.corrected = TRUE, !.corrections = @ + 1]))
  <2>1. PICK u : u = [s EXCEPT !.corrected = TRUE, !.corrections = @ + 1]
    OBVIOUS
  <2>2. u = [sid |-> s.sid, place |-> s.place, iteration |-> s.iteration, seen |-> s.seen,
             steps |-> s.steps, corrections |-> s.corrections + 1, corrected |-> TRUE,
             prefetched |-> s.prefetched, todo |-> s.todo, response |-> s.response]
    BY <1>2, <2>1 DEF Good, IsSession
  <2>3. PICK t : t = NextIteration(u)
    OBVIOUS
  <2>4. Good(t, audit, responses) /\ t.sid = s.sid
    BY <1>2, <2>2, <2>3, CorrectedGood
  <2> QED
    BY <1>1, <1>2, <1>5, <2>1, <2>3, <2>4, GoesQuietly
<1>6. CASE /\ s.corrected /\ ~s.prefetched
           /\ Goes(p, [s EXCEPT !.prefetched = TRUE, !.place = "prefetching",
                                !.todo = Missing(s)])
  <2>1. PICK t : t = [s EXCEPT !.prefetched = TRUE, !.place = "prefetching", !.todo = Missing(s)]
    OBVIOUS
  <2>2. PICK todo : todo = Missing(s)
    OBVIOUS
  <2>3. t = [sid |-> s.sid, place |-> "prefetching", iteration |-> s.iteration, seen |-> s.seen,
             steps |-> s.steps, corrections |-> s.corrections, corrected |-> s.corrected,
             prefetched |-> TRUE, todo |-> todo, response |-> s.response]
    BY <1>2, <2>1, <2>2 DEF Good, IsSession
  <2>4. Len(s.steps) + Left(todo) <= Limit /\ todo \in SUBSET {1, 2} /\ todo # {}
    BY <1>2, <1>6, <2>2, PrefetchWithinLimit, MissingAmongTwo
  <2>5. Good(t, audit, responses) /\ t.sid = s.sid
    <3>1. t = [sid |-> t.sid, place |-> t.place, iteration |-> t.iteration, seen |-> t.seen,
               steps |-> t.steps, corrections |-> t.corrections, corrected |-> t.corrected,
               prefetched |-> t.prefetched, todo |-> t.todo, response |-> t.response]
      BY <2>3
    <3>2. /\ t.sid = s.sid /\ t.iteration = s.iteration /\ t.steps = s.steps
          /\ t.response = s.response /\ t.todo = todo /\ t.place = "prefetching"
      BY <2>3
    <3>3. t.prefetched
      BY <2>3
    <3>4. AtPlace(t) /\ Budget(t, t.iteration)
      BY <2>4, <3>2, <3>3 DEF AtPlace, Budget
    <3> QED
      BY <1>2, <1>3, <2>4, <3>1, <3>2, <3>4, MovedGood
  <2> QED
    BY <1>1, <1>2, <1>6, <2>1, <2>5, GoesQuietly
<1>7. CASE Goes(p, Failure(s))
  BY <1>1, <1>2, <1>7, FailsQuietly
<1> QED
  BY <1>4, <1>5, <1>6, <1>7

\* When nothing is missing, the successes of the session back its response.
LEMMA CompletedFits ==
  ASSUME NEW s, NEW rows, NEW recorded, Good(s, rows, recorded), Missing(s) = {}
  PROVE  Fit(rows, s.sid, Response(s, "COMPLETED"))
<1>1. PICK response : response = Response(s, "COMPLETED")
  OBVIOUS
<1>2. response.steps = Len(s.steps) /\ response.evidence = Evidence(s)
  BY <1>1 DEF Response
<1>3. PICK required : required = Required(s) /\ required = RequiredOf(s.sid)
  BY DEF Required, RequiredOf, Request
<1>4. DOMAIN required = 1 .. Len(required)
  BY <1>3, AtMostTwo DEF Required
<1>5. ASSUME NEW i \in 1 .. Len(required)
      PROVE  Evident(rows, s.sid, required[i], Evidence(s))
  <2>1. PICK j \in 1 .. Len(s.steps) : s.steps[j].tool = required[i] /\ s.steps[j].code = "ok"
    BY <1>3, <1>4, <1>5 DEF Missing
  <2>2. /\ s.steps[j].request.tool = required[i]
        /\ Audited(rows, s.sid, s.steps[j].request)
    BY <2>1 DEF Good, StepsAudited
  <2>3. s.steps[j].request \in Evidence(s)
    BY <2>1 DEF Evidence
  <2>4. PICK k \in 1 .. Len(rows) : rows[k].request = s.steps[j].request /\ rows[k].code = "ok"
    BY <2>2 DEF Audited
  <2>5. s.steps[j].request.id.session = s.sid
    BY <2>2 DEF Audited
  <2> QED
    BY <2>2, <2>3, <2>4, <2>5 DEF Evident
<1>6. Len(s.steps) <= Limit
  BY StepsCounted
<1>7. \A i \in 1 .. Len(RequiredOf(s.sid)) :
        Evident(rows, s.sid, RequiredOf(s.sid)[i], response.evidence)
  BY <1>2, <1>3, <1>5
<1> QED
  BY <1>1, <1>2, <1>6, <1>7 DEF Fit, Backed

LEMMA AnswerFinallyStep ==
  ASSUME SupervisorInv, NEW p \in Supervisors, AnswerFinally(p)
  PROVE  SupervisorInv'
<1>1. PICK s : s = sessions[p]
  OBVIOUS
<1>2. /\ s # Nobody /\ s.place = "thinking" /\ Good(s, audit, responses)
      /\ UNCHANGED <<serviceVars, responses>> /\ Missing(s) = {}
  BY <1>1, Own DEF AnswerFinally, Thinking, SessionUnchanged
<1>3. CASE Goes(p, Ended(s, "recording", Response(s, "COMPLETED")))
  <2>1. PICK response : response = Response(s, "COMPLETED")
    OBVIOUS
  <2>2. Fit(audit, s.sid, response)
    BY <1>2, <2>1, CompletedFits
  <2>3. PICK t : t = Ended(s, "recording", response)
    OBVIOUS
  <2>4. Good(t, audit, responses) /\ t.sid = s.sid
    BY <2>2, <2>3, EndedGood
  <2> QED
    BY <1>1, <1>2, <1>3, <2>1, <2>3, <2>4, GoesQuietly
<1>4. CASE Goes(p, Raised(s))
  BY <1>1, <1>2, <1>4, FailsQuietly
<1> QED
  BY <1>1, <1>3, <1>4 DEF AnswerFinally

\* A session asks the service, for itself.
LEMMA AsksOwn ==
  ASSUME SupervisorInv, NEW p \in Supervisors, sessions[p] # Nobody,
         NEW request, request.id.session = sessions[p].sid, Ask(p, request),
         NEW t, sessions' = [sessions EXCEPT ![p] = t], UNCHANGED responses,
         Good(t, audit, responses), t.sid = sessions[p].sid
  PROVE  SupervisorInv'
<1>1. PICK call : call = Call("asked", request, 0, NoCode)
  OBVIOUS
<1>2. call.request = request
  BY <1>1 DEF Call
<1>3. /\ calls' = [calls EXCEPT ![p] = call]
      /\ UNCHANGED audit
  BY <1>1 DEF Ask
<1>4. /\ calls'[p] = call
      /\ \A e \in Callers \ {p} : calls'[e] = calls[e]
      /\ calls' = [e \in Callers |-> calls'[e]]
  BY <1>3, Own, OneCallChanges DEF SupervisorInv
<1>5. ServiceInv'
  BY <1>3, <1>4 DEF SupervisorInv, ServiceInv
<1>6. Grows
  BY <1>3, <1>5, RowsAreCounted DEF SupervisorInv, Grows, Extends
<1>7. OwnCall(t, calls'[p]) /\ Good(t, audit', responses')
  BY <1>2, <1>3, <1>4 DEF OwnCall
<1>8. \A e \in Supervisors \ {p} : calls'[e] = calls[e]
  BY <1>4, SupervisorAssumption
<1> QED
  BY <1>6, <1>7, <1>8, OneSession

LEMMA SelectsToolStep ==
  ASSUME SupervisorInv, NEW p \in Supervisors, NEW call, SelectsTool(p, call)
  PROVE  SupervisorInv'
<1>1. PICK s : s = sessions[p]
  OBVIOUS
<1>2. PICK canonical : canonical = Canonicalise(Request(s), call)
  OBVIOUS
<1>3. /\ s # Nobody /\ s.place = "thinking" /\ Good(s, audit, responses)
      /\ UNCHANGED responses
  BY <1>1, Own DEF SelectsTool, Thinking, SessionUnchanged
<1>4. \/ Goes(p, Raised(s)) /\ UNCHANGED serviceVars
      \/ Goes(p, Failure(s)) /\ UNCHANGED serviceVars
      \/ /\ ~(Len(s.steps) >= MaximumCalls)
         /\ Ask(p, ToolRequest(CallId(s, "model", 0), canonical.tool, canonical.arguments, 1))
         /\ Goes(p, [[s EXCEPT !.seen = @ \cup {canonical}] EXCEPT !.place = "calling"])
  BY <1>1, <1>2 DEF SelectsTool
<1>5. CASE Goes(p, Raised(s)) /\ UNCHANGED serviceVars
  BY <1>1, <1>3, <1>5, FailsQuietly
<1>6. CASE Goes(p, Failure(s)) /\ UNCHANGED serviceVars
  BY <1>1, <1>3, <1>6, FailsQuietly
<1>7. CASE /\ ~(Len(s.steps) >= MaximumCalls)
           /\ Ask(p, ToolRequest(CallId(s, "model", 0), canonical.tool, canonical.arguments, 1))
           /\ Goes(p, [[s EXCEPT !.seen = @ \cup {canonical}] EXCEPT !.place = "calling"])
  <2>1. PICK t : t = [[s EXCEPT !.seen = @ \cup {canonical}] EXCEPT !.place = "calling"]
    OBVIOUS
  <2>2. t = [sid |-> s.sid, place |-> "calling", iteration |-> s.iteration,
             seen |-> s.seen \cup {canonical}, steps |-> s.steps,
             corrections |-> s.corrections, corrected |-> s.corrected,
             prefetched |-> s.prefetched, todo |-> s.todo, response |-> s.response]
    BY <1>3, <2>1 DEF Good, IsSession
  <2>3. s.todo = {} /\ s.response = Nobody
    BY <1>3 DEF Good, AtPlace
  <2>4. Len(s.steps) < MaximumCalls
    BY <1>3, <1>7, StepsCounted, LimitNat
  <2>5. Good(t, audit, responses) /\ t.sid = s.sid
    <3>1. t = [sid |-> t.sid, place |-> t.place, iteration |-> t.iteration, seen |-> t.seen,
               steps |-> t.steps, corrections |-> t.corrections, corrected |-> t.corrected,
               prefetched |-> t.prefetched, todo |-> t.todo, response |-> t.response]
      BY <2>2
    <3>2. /\ t.sid = s.sid /\ t.iteration = s.iteration /\ t.steps = s.steps
          /\ t.response = s.response /\ t.todo = {} /\ t.place = "calling"
      BY <2>2, <2>3
    <3>3. (t.prefetched <=> s.prefetched) /\ (t.corrected <=> s.corrected)
      BY <2>2, Zenon
    <3>4. AtPlace(t)
      BY <2>4, <3>2 DEF AtPlace
    <3>5. Budget(t, t.iteration)
      <4>1. Budget(s, s.iteration)
        BY <1>3 DEF Good
      <4> QED
        BY <2>3, <3>2, <3>3, <4>1 DEF Budget
    <3> QED
      BY <1>3, <2>3, <3>1, <3>2, <3>4, <3>5, MovedGood
  <2>6. PICK request : request = ToolRequest(CallId(s, "model", 0), canonical.tool,
                                             canonical.arguments, 1)
    OBVIOUS
  <2>7. request.id.session = s.sid
    BY <2>6 DEF ToolRequest, CallId
  <2>8. sessions' = [sessions EXCEPT ![p] = t]
    BY <1>7, <2>1 DEF Goes
  <2> QED
    BY <1>1, <1>3, <1>7, <2>5, <2>6, <2>7, <2>8, AsksOwn
<1> QED
  BY <1>4, <1>5, <1>6, <1>7

LEMMA PrefetchStep ==
  ASSUME SupervisorInv, NEW p \in Supervisors, Prefetch(p)
  PROVE  SupervisorInv'
<1>1. PICK s : s = sessions[p]
  OBVIOUS
<1>2. s # Nobody /\ Good(s, audit, responses) /\ UNCHANGED responses
  BY <1>1, Own DEF Prefetch, SessionUnchanged
<1>3. \/ Goes(p, Raised(s)) /\ UNCHANGED serviceVars
      \/ /\ UNCHANGED sessions
         /\ \E tool, arguments :
              Ask(p, ToolRequest(CallId(s, "prefetch", Len(s.steps)), tool, arguments, 1))
  BY <1>1 DEF Prefetch
<1>4. CASE Goes(p, Raised(s)) /\ UNCHANGED serviceVars
  BY <1>1, <1>2, <1>4, FailsQuietly
<1>5. ASSUME UNCHANGED sessions, NEW tool, NEW arguments,
             Ask(p, ToolRequest(CallId(s, "prefetch", Len(s.steps)), tool, arguments, 1))
      PROVE  SupervisorInv'
  <2>1. PICK request :
          request = ToolRequest(CallId(s, "prefetch", Len(s.steps)), tool, arguments, 1)
    OBVIOUS
  <2>2. request.id.session = s.sid
    BY <2>1 DEF ToolRequest, CallId
  <2>3. sessions' = [sessions EXCEPT ![p] = s]
    BY <1>1, <1>5 DEF SupervisorInv, SessionsInv
  <2> QED
    BY <1>1, <1>2, <1>5, <2>1, <2>2, <2>3, AsksOwn
<1> QED
  BY <1>3, <1>4, <1>5

\* The answer is a step, and with code "ok" it is in the audit.
LEMMA HeardGood ==
  ASSUME NEW s, NEW rows, NEW recorded, Good(s, rows, recorded),
         s.place \in {"calling", "prefetching"},
         NEW call, call.code = "ok" => Audited(rows, s.sid, call.request)
  PROVE  Good(Heard(s, call), rows, recorded) /\ Heard(s, call).sid = s.sid
<1>1. PICK step : step = [tool |-> call.request.tool, request |-> call.request,
                          code |-> call.code]
  OBVIOUS
<1>2. PICK rest : rest = {i \in s.todo : \E j \in s.todo : j < i}
  OBVIOUS
<1>3. PICK more : more = [s EXCEPT !.steps = Append(@, step),
                                   !.todo = {i \in @ : \E j \in @ : j < i}]
  OBVIOUS
<1>4. more = [sid |-> s.sid, place |-> s.place, iteration |-> s.iteration, seen |-> s.seen,
              steps |-> Append(s.steps, step), corrections |-> s.corrections,
              corrected |-> s.corrected, prefetched |-> s.prefetched, todo |-> rest,
              response |-> s.response]
  BY <1>2, <1>3 DEF Good, IsSession
<1>5. /\ more.sid = s.sid /\ more.place = s.place /\ more.iteration = s.iteration
      /\ more.steps = Append(s.steps, step) /\ more.todo = rest /\ more.response = Nobody
  BY <1>4 DEF Good
<1>6. (more.corrected <=> s.corrected) /\ (more.prefetched <=> s.prefetched)
  BY <1>4, Zenon
<1>7. more = [sid |-> more.sid, place |-> more.place, iteration |-> more.iteration,
              seen |-> more.seen, steps |-> more.steps, corrections |-> more.corrections,
              corrected |-> more.corrected, prefetched |-> more.prefetched,
              todo |-> more.todo, response |-> more.response]
  BY <1>4
<1>8. PICK T : s.steps \in Seq(T)
  BY DEF Good, IsSession
<1>9. /\ more.steps \in Seq(T \cup {step}) /\ Len(s.steps) \in Nat
      /\ Len(more.steps) = Len(s.steps) + 1
      /\ more.steps[Len(s.steps) + 1] = step
      /\ \A i \in 1 .. Len(s.steps) : more.steps[i] = s.steps[i]
  BY <1>5, <1>8
<1>10. IsSession(more)
  <2>1. rest \subseteq {1, 2}
    BY <1>2, LeftBounds DEF Good, IsSession
  <2>2. more.iteration \in 0 .. MaximumIterations - 1
    BY <1>5 DEF Good, IsSession
  <2> QED
    BY <1>5, <1>7, <1>9, <2>1, <2>2 DEF IsSession
<1>11. StepsAudited(more, rows)
  <2>1. ASSUME NEW i \in 1 .. Len(more.steps), more.steps[i].code = "ok"
        PROVE  /\ more.steps[i].request.tool = more.steps[i].tool
               /\ Audited(rows, more.sid, more.steps[i].request)
    <3>1. CASE i = Len(s.steps) + 1
      <4>1. /\ step.request = call.request /\ step.code = call.code
            /\ step.tool = call.request.tool
        BY <1>1
      <4> QED
        BY <1>5, <1>9, <2>1, <3>1, <4>1
    <3>2. CASE i # Len(s.steps) + 1
      <4>1. i \in 1 .. Len(s.steps)
        BY <1>9, <3>2
      <4> QED
        BY <1>5, <1>9, <2>1, <4>1 DEF Good, StepsAudited
    <3> QED
      BY <3>1, <3>2
  <2> QED
    BY <2>1 DEF StepsAudited
<1>12. s.iteration \in Nat /\ Left(rest) \in Nat
  BY <1>2, StepsCounted, LeftBounds DEF Good, IsSession
<1>13. CASE s.place = "calling"
  <2>1. rest = {} /\ Len(s.steps) < MaximumCalls
    BY <1>2, <1>13 DEF Good, AtPlace
  <2>2. Budget(s, s.iteration)
    BY DEF Good
  <2>3. Budget(more, more.iteration + 1)
    BY <1>5, <1>6, <1>9, <1>12, <2>1, <2>2, LimitNat, LeftBounds DEF Budget
  <2>4. Good(NextIteration(more), rows, recorded) /\ NextIteration(more).sid = s.sid
    BY <1>5, <1>10, <1>11, <2>1, <2>3, NextGood
  <2> QED
    BY <1>1, <1>3, <1>5, <2>1, <2>4 DEF Heard
<1>14. CASE s.place = "prefetching"
  <2>1. s.prefetched /\ s.todo # {}
    BY <1>14 DEF Good, AtPlace
  <2>2. Left(rest) + 1 <= Left(s.todo) /\ Left(s.todo) \in Nat
    BY <1>2, <2>1, LeftBounds DEF Good, IsSession
  <2>3. Len(s.steps) + Left(s.todo) <= Limit
    BY DEF Good, Budget
  <2>4. Len(more.steps) + Left(more.todo) <= Limit
    BY <1>5, <1>9, <1>12, <2>2, <2>3, LimitNat
  <2>5. \A n : Budget(more, n)
    BY <1>6, <2>1, <2>4 DEF Budget
  <2>6. CASE rest = {}
    <3>1. Good(NextIteration(more), rows, recorded) /\ NextIteration(more).sid = s.sid
      BY <1>5, <1>10, <1>11, <2>5, <2>6, NextGood
    <3> QED
      BY <1>1, <1>3, <1>5, <2>6, <3>1 DEF Heard
  <2>7. CASE rest # {}
    <3>1. AtPlace(more)
      BY <1>5, <1>6, <1>14, <2>1, <2>7 DEF AtPlace
    <3>2. Good(more, rows, recorded)
      BY <1>5, <1>10, <1>11, <1>14, <2>5, <3>1 DEF Good
    <3> QED
      BY <1>1, <1>3, <1>5, <2>7, <3>2 DEF Heard
  <2> QED
    BY <2>6, <2>7
<1> QED
  BY <1>13, <1>14

LEMMA ServeSessionStep ==
  ASSUME SupervisorInv, NEW p \in Supervisors, ServeSession(p)
  PROVE  SupervisorInv'
<1>1. PICK s : s = sessions[p]
  OBVIOUS
<1>2. /\ s # Nobody /\ s.place \in {"calling", "prefetching"} /\ Good(s, audit, responses)
      /\ p \in Callers /\ UNCHANGED responses /\ Serves(p) /\ OwnCall(s, calls[p])
  BY <1>1, Own DEF ServeSession, SessionUnchanged
<1>3. Served(p)
  BY <1>2, ServesServed DEF SupervisorInv
<1>4. calls[p] # Nobody
  BY <1>2 DEF Serves, RefuseVersion, AnswerFromAudit, Execute, OpenAudit, AppendAnswer, Stage
<1>5. PICK call : call = calls'[p]
  OBVIOUS
<1>6. call.request.id.session = s.sid
  BY <1>2, <1>3, <1>4, <1>5 DEF Served, OwnCall
<1>7. Grows
  BY <1>2, <1>3 DEF Served, Grows
<1>8. Good(s, audit', responses')
  <2>1. Len(audit) \in Nat /\ Len(audit') \in Nat /\ Extends(audit', audit)
    BY <1>3, RowsAreCounted DEF SupervisorInv, Served, ServiceInv
  <2> QED
    BY <1>2, <2>1, GoodStays
<1>9. \A e \in Supervisors \ {p} : calls'[e] = calls[e]
  BY <1>3, SupervisorAssumption DEF Served
<1>10. ASSUME NEW t, sessions' = [sessions EXCEPT ![p] = t],
              Good(t, audit', responses'), t.sid = s.sid
       PROVE  SupervisorInv'
  <2>1. OwnCall(t, calls'[p])
    BY <1>5, <1>6, <1>10 DEF OwnCall
  <2> QED
    BY <1>7, <1>9, <1>10, <2>1, OneSession
<1>11. CASE call.stage = "answered"
  <2>1. sessions' = [sessions EXCEPT ![p] = Heard(s, call)]
    BY <1>1, <1>5, <1>11 DEF ServeSession, Goes
  <2>2. call.code = "ok" => Audited(audit', s.sid, call.request)
    BY <1>3, <1>5, <1>6, <1>11 DEF Served, Audited
  <2>3. PICK t : t = Heard(s, call)
    OBVIOUS
  <2>4. Good(t, audit', responses') /\ t.sid = s.sid
    BY <1>2, <1>8, <2>2, <2>3, HeardGood
  <2> QED
    BY <1>10, <2>1, <2>3, <2>4
<1>12. CASE call.stage = "raised"
  <2>1. sessions' = [sessions EXCEPT ![p] = Raised(s)]
    BY <1>1, <1>5, <1>12 DEF ServeSession, Goes
  <2>2. PICK t : t = Raised(s)
    OBVIOUS
  <2>3. Good(t, audit', responses') /\ t.sid = s.sid
    BY <2>2, RaisedGood
  <2> QED
    BY <1>10, <2>1, <2>2, <2>3
<1>13. CASE call.stage \notin {"answered", "raised"}
  <2>1. UNCHANGED sessions
    BY <1>5, <1>13 DEF ServeSession
  <2>2. sessions' = [sessions EXCEPT ![p] = s]
    BY <1>1, <2>1 DEF SupervisorInv, SessionsInv
  <2> QED
    BY <1>8, <1>10, <2>2
<1> QED
  BY <1>11, <1>12, <1>13

LEMMA LookUpStep ==
  ASSUME SupervisorInv, NEW p \in Supervisors, LookUp(p)
  PROVE  SupervisorInv'
<1>1. PICK s : s = sessions[p]
  OBVIOUS
<1>2. /\ s # Nobody /\ s.place = "recording" /\ Good(s, audit, responses)
      /\ UNCHANGED <<serviceVars, responses>>
  BY <1>1, Own DEF LookUp, SessionUnchanged
<1>3. Fit(audit, s.sid, s.response)
  BY <1>2 DEF Good
<1>4. \/ \E r \in SameSession(s) : Goes(p, Ended(s, "returned", r.response))
      \/ Goes(p, Raised(s))
      \/ Goes(p, Ended(s, "inserting", s.response))
  BY <1>1 DEF LookUp
<1>5. ASSUME NEW r \in SameSession(s), Goes(p, Ended(s, "returned", r.response))
      PROVE  SupervisorInv'
  <2>1. r \in responses /\ r.sid = s.sid
    BY DEF SameSession
  <2>2. r = Entry(s.sid, r.response) /\ Fit(audit, s.sid, r.response)
    BY <2>1 DEF SupervisorInv, ResponsesInv
  <2>3. PICK t : t = Ended(s, "returned", r.response)
    OBVIOUS
  <2>4. Entry(s.sid, r.response) \in responses
    BY <2>1, <2>2
  <2>5. Good(t, audit, responses) /\ t.sid = s.sid
    BY <2>2, <2>3, <2>4, EndedGood
  <2> QED
    BY <1>1, <1>2, <1>5, <2>3, <2>5, GoesQuietly
<1>6. CASE Goes(p, Raised(s))
  BY <1>1, <1>2, <1>6, FailsQuietly
<1>7. CASE Goes(p, Ended(s, "inserting", s.response))
  <2>1. PICK t : t = Ended(s, "inserting", s.response)
    OBVIOUS
  <2>2. Good(t, audit, responses) /\ t.sid = s.sid
    BY <1>3, <2>1, EndedGood
  <2> QED
    BY <1>1, <1>2, <1>7, <2>1, <2>2, GoesQuietly
<1> QED
  BY <1>4, <1>5, <1>6, <1>7

LEMMA InsertStep ==
  ASSUME SupervisorInv, NEW p \in Supervisors, Insert(p)
  PROVE  SupervisorInv'
<1>1. PICK s : s = sessions[p]
  OBVIOUS
<1>2. /\ s # Nobody /\ s.place = "inserting" /\ Good(s, audit, responses)
      /\ OwnCall(s, calls[p]) /\ UNCHANGED serviceVars
  BY <1>1, Own DEF Insert
<1>3. UNCHANGED <<calls, audit>>
  BY <1>2 DEF serviceVars
<1>4. CASE Goes(p, Raised(s)) /\ UNCHANGED responses
  BY <1>1, <1>2, <1>4, FailsQuietly
<1>5. CASE /\ responses' = responses \cup {[sid |-> s.sid, response |-> s.response]}
           /\ Goes(p, Ended(s, "returned", s.response))
  <2>1. PICK entry : entry = Entry(s.sid, s.response)
    OBVIOUS
  <2>2. /\ entry = Entry(entry.sid, entry.response)
        /\ entry.sid = s.sid /\ entry.response = s.response
    BY <2>1 DEF Entry
  <2>3. responses' = responses \cup {entry}
    BY <1>5, <2>1 DEF Entry
  <2>4. Fit(audit, s.sid, s.response)
    BY <1>2 DEF Good
  <2>5. Extends(audit', audit) /\ ServiceInv'
    BY <1>3, RowsAreCounted DEF SupervisorInv, ServiceInv, Extends
  <2>6. \A r \in responses' \ responses :
          r = Entry(r.sid, r.response) /\ Fit(audit', r.sid, r.response)
    BY <1>3, <2>2, <2>3, <2>4
  <2>7. Grows
    BY <2>3, <2>5, <2>6 DEF Grows
  <2>8. PICK t : t = Ended(s, "returned", s.response)
    OBVIOUS
  <2>9. Good(t, audit', responses') /\ t.sid = s.sid
    BY <1>3, <2>1, <2>3, <2>4, <2>8, EndedGood
  <2>10. OwnCall(t, calls'[p])
    BY <1>2, <1>3, <2>9 DEF OwnCall
  <2>11. sessions' = [sessions EXCEPT ![p] = t]
    BY <1>1, <1>5, <2>8 DEF Goes
  <2> QED
    BY <1>3, <2>7, <2>9, <2>10, <2>11, OneSession
<1> QED
  BY <1>1, <1>4, <1>5 DEF Insert

\* A process that is started or stopped forgets its call.
LEMMA ForgetsCall ==
  ASSUME SupervisorInv, NEW p \in Supervisors,
         NEW t, sessions' = [sessions EXCEPT ![p] = t],
         calls' = [calls EXCEPT ![p] = Nobody], UNCHANGED <<audit, responses>>,
         Good(t, audit, responses)
  PROVE  SupervisorInv'
<1>1. /\ p \in Callers /\ calls'[p] = Nobody
      /\ \A e \in Callers \ {p} : calls'[e] = calls[e]
      /\ calls' = [e \in Callers |-> calls'[e]]
  BY SupervisorAssumption, OneCallChanges DEF SupervisorInv
<1>2. ServiceInv'
  BY <1>1 DEF SupervisorInv, ServiceInv
<1>3. Grows
  BY <1>2, RowsAreCounted DEF SupervisorInv, Grows, Extends
<1>4. OwnCall(t, calls'[p]) /\ Good(t, audit', responses')
  BY <1>1 DEF OwnCall
<1>5. \A e \in Supervisors \ {p} : calls'[e] = calls[e]
  BY <1>1, SupervisorAssumption
<1> QED
  BY <1>3, <1>4, <1>5, OneSession

LEMMA StartStep ==
  ASSUME SupervisorInv, NEW p \in Supervisors, NEW sid, Start(p, sid)
  PROVE  SupervisorInv'
<1>1. PICK t : t = NewSession(sid)
  OBVIOUS
<1>2. Good(t, audit, responses)
  BY <1>1, NewGood
<1> QED
  BY <1>1, <1>2, ForgetsCall DEF Start, Goes

LEMMA StopStep ==
  ASSUME SupervisorInv, NEW p \in Supervisors, Stop(p)
  PROVE  SupervisorInv'
<1>1. PICK s, t : s = sessions[p] /\ t = Raised(s)
  OBVIOUS
<1>2. Good(t, audit, responses)
  BY <1>1, RaisedGood
<1> QED
  BY <1>1, <1>2, ForgetsCall DEF Stop, Goes

\* What the others do only adds rows.
LEMMA OthersStep ==
  ASSUME SupervisorInv, Grows, UNCHANGED sessions,
         \A e \in Supervisors : calls'[e] = calls[e]
  PROVE  SupervisorInv'
<1>1. CASE Supervisors = {}
  BY <1>1, ResponsesGrow DEF SupervisorInv, SessionsInv, Grows
<1>2. ASSUME NEW p \in Supervisors
      PROVE  SupervisorInv'
  <2>1. PICK s : s = sessions[p]
    OBVIOUS
  <2>2. sessions' = [sessions EXCEPT ![p] = s]
    BY <2>1 DEF SupervisorInv, SessionsInv
  <2>3. /\ Len(audit) \in Nat /\ Len(audit') \in Nat /\ Extends(audit', audit)
        /\ responses \subseteq responses'
    BY RowsAreCounted DEF Grows, SupervisorInv, ServiceInv
  <2>4. s # Nobody => Good(s, audit', responses')
    BY <2>1, <2>3, Own, GoodStays
  <2>5. s # Nobody => OwnCall(s, calls'[p])
    BY <2>1, Own
  <2> QED
    BY <2>2, <2>4, <2>5, OneSession
<1> QED
  BY <1>1, <1>2

LEMMA ClientStep ==
  ASSUME SupervisorInv, NEW c \in Callers \ Supervisors, Client(c)
  PROVE  SupervisorInv'
<1>1. UNCHANGED <<sessions, responses>>
  BY DEF Client
<1>2. CASE Serves(c)
  <2>1. Served(c)
    BY <1>2, ServesServed DEF SupervisorInv
  <2> QED
    BY <1>1, <2>1, OthersStep, SupervisorAssumption DEF Served, Grows
<1>3. ASSUME NEW request, Ask(c, request)
      PROVE  SupervisorInv'
  <2>1. PICK call : call = Call("asked", request, 0, NoCode)
    OBVIOUS
  <2>2. calls' = [calls EXCEPT ![c] = call] /\ UNCHANGED audit
    BY <1>3, <2>1 DEF Ask
  <2>3. /\ \A e \in Callers \ {c} : calls'[e] = calls[e]
        /\ calls' = [e \in Callers |-> calls'[e]]
    BY <2>2, OneCallChanges DEF SupervisorInv
  <2>4. ServiceInv'
    BY <2>2, <2>3 DEF SupervisorInv, ServiceInv
  <2>5. Grows
    BY <1>1, <2>2, <2>4, RowsAreCounted DEF SupervisorInv, Grows, Extends
  <2> QED
    BY <1>1, <2>3, <2>5, OthersStep, SupervisorAssumption
<1> QED
  BY <1>2, <1>3 DEF Client

LEMMA SupervisorStep ==
  ASSUME SupervisorInv, [SupervisorNext]_supervisorVars
  PROVE  SupervisorInv'
<1>1. ASSUME NEW p \in Supervisors, TimeOut(p) \/ ProviderRaises(p)
      PROVE  SupervisorInv'
  BY <1>1, FailsQuietly DEF TimeOut, ProviderRaises, Thinking, SessionUnchanged
<1>2. ASSUME NEW p \in Supervisors, SessionStep(p)
      PROVE  SupervisorInv'
  BY <1>1, <1>2, UnparsableStep, AnswerWithoutEvidenceStep, AnswerFinallyStep, SelectsToolStep,
     PrefetchStep, ServeSessionStep, LookUpStep, InsertStep DEF SessionStep
<1>3. ASSUME NEW artifact, RecordArtifact(artifact), UNCHANGED <<sessions, responses>>
      PROVE  SupervisorInv'
  <2>1. UNCHANGED <<calls, audit, responses, sessions>>
    BY <1>3 DEF RecordArtifact
  <2> QED
    BY <2>1, QuietGrows, OthersStep
<1>4. CASE UNCHANGED supervisorVars
  <2>1. UNCHANGED <<calls, audit, responses, sessions>>
    BY <1>4 DEF supervisorVars, serviceVars
  <2> QED
    BY <2>1, QuietGrows, OthersStep
<1> QED
  BY <1>2, <1>3, <1>4, StopStep, StartStep, ClientStep DEF SupervisorNext

LEMMA SupervisorStarts ==
  ASSUME SupervisorInit
  PROVE  SupervisorInv
<1>1. /\ calls = [c \in Callers |-> Nobody] /\ audit = <<>>
      /\ sessions = [p \in Supervisors |-> Nobody] /\ responses = {}
  BY DEF SupervisorInit, ServiceInit
<1>2. audit \in Seq({}) /\ 1 .. Len(audit) = {}
  BY <1>1
<1>3. ServiceInv
  BY <1>1, <1>2 DEF ServiceInv
<1>4. ResponsesInv /\ SessionsInv
  BY <1>1 DEF ResponsesInv, SessionsInv
<1> QED
  BY <1>3, <1>4 DEF SupervisorInv

-----------------------------------------------------------------------------

\* Whatever a model, the other processes and the handlers do: a session makes at
\* most maximum_tool_calls calls, or two more where more iterations than calls
\* are allowed; its successes are rows of the audit under its own ids; and what
\* it returns is recorded (Supervisor._run, LLMStore.append).
THEOREM SupervisorInvariant == SupervisorSpec => []SupervisorInv
<1>1. SupervisorInit => SupervisorInv
  BY SupervisorStarts
<1>2. SupervisorInv /\ [SupervisorNext]_supervisorVars => SupervisorInv'
  BY SupervisorStep
<1> QED
  BY <1>1, <1>2, PTL DEF SupervisorSpec

\* docs/LLM_SUPERVISOR.md: "success remains impossible until required evidence
\* exists and reconciles", for every request, model and number of processes.
THEOREM EvidenceBacked == SupervisorSpec => []EvidenceIsAudited
<1>1. SupervisorInv => EvidenceIsAudited
  BY DEF SupervisorInv, ResponsesInv, Fit, Backed, Evident, RequiredOf, EvidenceIsAudited
<1> QED
  BY <1>1, SupervisorInvariant, PTL

\* "six iterations, six MCP calls" (docs/LLM_SUPERVISOR.md): the limit of calls
\* is kept by the prefetch too, when it is no less than the iterations.
THEOREM WithinCallLimit ==
  ASSUME MaximumIterations <= MaximumCalls
  PROVE  SupervisorSpec => []StepsWithinLimit
<1>1. Limit = MaximumCalls
  BY DEF Limit
<1>2. ASSUME SupervisorInv, NEW p \in Supervisors, sessions[p] # Nobody
      PROVE  /\ Len(sessions[p].steps) <= MaximumCalls
             /\ sessions[p].response # Nobody => sessions[p].response.steps <= MaximumCalls
  <2>1. Good(sessions[p], audit, responses)
    BY <1>2, Own
  <2>2. Len(sessions[p].steps) <= MaximumCalls
    BY <1>1, <2>1, StepsCounted
  <2>3. sessions[p].response # Nobody => sessions[p].response.steps <= MaximumCalls
    BY <1>1, <2>1 DEF Good, Fit
  <2> QED
    BY <2>2, <2>3
<1>3. SupervisorInv => StepsWithinLimit
  BY <1>2 DEF StepsWithinLimit
<1> QED
  BY <1>3, SupervisorInvariant, PTL

\* All runs of a request return the response that llm_audit.db holds, however
\* many processes run it (LLMStore.append).
THEOREM ReturnsRecorded == SupervisorSpec => []ReturnedIsRecorded
<1>1. ASSUME SupervisorInv, NEW p \in Supervisors, sessions[p] # Nobody,
             sessions[p].place = "returned"
      PROVE  [sid |-> sessions[p].sid, response |-> sessions[p].response] \in responses
  BY <1>1, Own DEF Good, Entry
<1>2. SupervisorInv => ReturnedIsRecorded
  BY <1>1 DEF ReturnedIsRecorded
<1> QED
  BY <1>2, SupervisorInvariant, PTL
=============================================================================
