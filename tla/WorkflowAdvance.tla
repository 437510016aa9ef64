-------------------------- MODULE WorkflowAdvance --------------------------
(***************************************************************************)
(* Approving, rejecting and escalating workflows.  Node's handlers         *)
(* (routes/spa-api/workflows.js) run on one event loop: what a handler     *)
(* does between two awaits is one step here.  Every decision is first      *)
(* written by Python (routers/workflow.py, a table of its own), then by    *)
(* Node in one transaction; a WebAuthn assertion is checked, and spent, by *)
(* Python before either (services/stepup/verify.py).  Python's endpoints   *)
(* run in a thread pool, so calls of different requests interleave.        *)
(*                                                                         *)
(* A request may wait at two points, for the verification of its assertion *)
(* and for the /advance call of each row that has a document.  The call    *)
(* lives on in Python when Node has given it up.                           *)
(***************************************************************************)
EXTENDS StageRules, FiniteSets

CONSTANTS
    Requests,        \* HTTP requests, each carrying one input of Inputs
    Inputs,          \* the request bodies the run considers
    Workflows, Docs, NoDoc,
    DocOf,           \* workflows.doc_id
    Dated,           \* documents with an expiry_date
    Existing,        \* workflows created before the run, without a pinned version
    Users, RoleOf,
    Assertions,      \* rows of stepup_challenges with kind 'authenticate'
    AssertionOwner,  \* their user_sub
    NoAssertion,
    Configs,         \* values the 'workflows' namespace of tenant_config may take
    MaxBulk,         \* bulk_action_max
    MaxSteps,        \* bound on Python's workflow_steps
    Faults,          \* TRUE: calls fail or time out, the Node process crashes
    SideDoors        \* TRUE: the routes that write the same rows without a decision run too

VARIABLES
    \* Node's database and configuration
    stage,           \* workflows.stage; NoStage: no such row yet
    pin,             \* workflows.template_version_id
    vstatus,         \* wf_template_versions.status
    docStatus,       \* documents.status
    journal,         \* wf_actions in id order
    restamped,       \* history: documents whose status was written since their last decision
    moved,           \* history: workflows whose stage was
    config,          \* the step-up policy in force
    \* Python's database
    steps,           \* workflow_steps; a step's id is its position
    pyStatus,        \* documents.status on Python's side
    challenge,       \* issued | completed | expired
    spent,           \* stepup_used_assertions: who used the assertion
    \* per request: the handler's locals and its outstanding call
    pc, input, needed, seen, got, call

nodeVars    == <<stage, pin, vstatus, docStatus, journal, restamped, moved>>
pythonVars  == <<steps, pyStatus, challenge, spent>>
requestVars == <<pc, input, needed, seen, got, call>>
vars        == <<nodeVars, config, pythonVars, requestVars>>

NoStage == ""
NoStep  == 0          \* python_step_id IS NULL
NoBy    == <<>>

\* The rows of a bulk input are the ids that exist; an unknown id is reported
\* to the caller and skipped, and a single action on one is a 404.
\* `bodyOk` says whether the body passes validateActionBody and, to escalate,
\* the check of the target.
Input == [kind : {"single", "bulk"}, user : Users, action : Actions,
          rows : Seq(Workflows), assertion : Assertions \cup {NoAssertion},
          bodyOk : BOOLEAN]

NoInput == [kind |-> "none"]
NoCall  == [op |-> "none", st |-> "none", row |-> 0, step |-> NoStep]

ASSUME InputsAssumption ==
    /\ Inputs \subseteq Input
    /\ \A i \in Inputs : i.rows # <<>> /\ (i.kind = "single" => Len(i.rows) = 1)

ASSUME DocsAssumption ==
    /\ NoDoc \notin Docs
    /\ DocOf \in [Workflows -> Docs \cup {NoDoc}]
    /\ Existing \subseteq Workflows
    /\ Dated \subseteq Docs

ASSUME UsersAssumption ==
    /\ RoleOf \in [Users -> STRING]
    /\ NoAssertion \notin Assertions
    /\ AssertionOwner \in [Assertions -> Users]

ASSUME ConfigsAssumption == Configs \subseteq Config

ASSUME BoundsAssumption ==
    MaxBulk \in Nat /\ MaxSteps \in Nat /\ Faults \in BOOLEAN /\ SideDoors \in BOOLEAN

HasDoc(w)    == DocOf[w] # NoDoc
Exists(w)    == stage[w] # NoStage
Published    == {v \in Versions : vstatus[v] = "published"}
Waiting      == {"verifying", "advancing"}
Active(r)    == pc[r] \in Waiting
Answered     == {"ok", "refused", "failed"}

Init ==
    /\ stage     = [w \in Workflows |-> IF w \in Existing THEN "Maker Review" ELSE NoStage]
    /\ pin       = [w \in Workflows |-> NoVersion]
    /\ vstatus   = [v \in Versions |-> "draft"]
    /\ docStatus = [d \in Docs |-> "Valid"]
    /\ journal   = <<>>
    /\ restamped = {}
    /\ moved     = {}
    /\ config \in Configs
    /\ steps     = <<>>
    /\ pyStatus  = [d \in Docs |-> "captured"]
    /\ challenge = [a \in Assertions |-> "issued"]
    /\ spent     = [a \in Assertions |-> {}]
    /\ pc        = [r \in Requests |-> "idle"]
    /\ input     = [r \in Requests |-> NoInput]
    /\ needed    = [r \in Requests |-> FALSE]
    /\ seen      = [r \in Requests |-> <<>>]
    /\ got       = [r \in Requests |-> <<>>]
    /\ call      = [r \in Requests |-> NoCall]

-----------------------------------------------------------------------------
(* Node: the two handlers.                                                 *)

\* Conditions the handlers check before the first await.  A bulk request also
\* verifies an assertion nobody asked for; a single one does not.
RoleAllowed(i) == RoleOf[i.user] \in ActionRoles[i.action]
MissesStepUp(i) == NeedsStepUp(config) /\ i.assertion = NoAssertion
\* Regression: only the bulk handler verifies.
WillVerifyBulkOnly(i) == i.assertion # NoAssertion /\ i.kind = "bulk"

WillVerify(i)  == i.assertion # NoAssertion /\ (i.kind = "bulk" \/ NeedsStepUp(config))
RefusedFirst(i) ==
    \/ ~RoleAllowed(i)
    \/ MissesStepUp(i)
    \/ i.kind = "bulk" /\ (Len(i.rows) > MaxBulk \/ ~i.bodyOk)

\* The rows a handler has read so far: a single action reads its row before
\* any await, a bulk request reads each row as its turn comes.
ReadUpTo(i, rd, k) ==
    [n \in 1..k |-> IF n <= Len(rd) THEN rd[n] ELSE stage[i.rows[n]]]

\* The next row that needs an /advance call, after `done` rows are settled.
NextCall(i, done) == {k \in done + 1 .. Len(i.rows) :
                         /\ HasDoc(i.rows[k])
                         /\ \A n \in done + 1 .. k - 1 : ~HasDoc(i.rows[n])}

\* Rows without a document are settled with no step.
\* Regression: rows without a document are left out of the results, so that the
\* step ids slide to later rows.
SettledUpToShifted(g, k) ==
    [n \in 1..k |-> IF n + Len(g) > k THEN g[n + Len(g) - k] ELSE NoStep]

SettledUpTo(g, k) == [n \in 1..k |-> IF n <= Len(g) THEN g[n] ELSE NoStep]

\* The rows a transaction inserts into wf_actions.  `by` is history: it names
\* the request and the row of it that the code knows as the handler's call.
JournalRows(r, i, g) ==
    [n \in 1..Len(i.rows) |->
        [wf |-> i.rows[n], user |-> i.user, action |-> i.action,
         assertion |-> i.assertion, step |-> g[n], by |-> <<r, n>>]]

\* advanceWorkflow for every row, with the row as the handler read it; a
\* workflow listed twice keeps what its last row wrote.
StagesAfter(i, rd) ==
    [w \in Workflows |->
        LET at == {n \in 1..Len(i.rows) : i.rows[n] = w}
            n  == CHOOSE m \in at : \A k \in at : k <= m
        IN  IF at = {} THEN stage[w]
            ELSE NextStage(i.action, rd[n], pin[w], Published)]

\* Regression: a batch mirrors only its first document.
DocStatusesAfterFirst(i) ==
    [docStatus EXCEPT ![DocOf[i.rows[1]]] = DocStatusMap[i.action]]

\* Regression: a decision does not lift an expiry.
DocStatusesAfterUnexpired(i) ==
    [d \in Docs |-> IF /\ \E n \in 1..Len(i.rows) : DocOf[i.rows[n]] = d
                       /\ docStatus[d] \notin {"Expiring", "Expired"}
                    THEN DocStatusMap[i.action] ELSE docStatus[d]]

DocStatusesAfter(i) ==
    [d \in Docs |-> IF \E n \in 1..Len(i.rows) : DocOf[i.rows[n]] = d
                    THEN DocStatusMap[i.action] ELSE docStatus[d]]

\* The Node transaction, and the 200 answer.
Commit(r, i, rd, g) ==
    /\ stage'     = StagesAfter(i, rd)
    /\ docStatus' = DocStatusesAfter(i)
    /\ journal'   = journal \o JournalRows(r, i, g)
    /\ restamped' = {d \in restamped : \A n \in 1..Len(i.rows) : DocOf[i.rows[n]] # d}
    /\ moved'     = {w \in moved : \A n \in 1..Len(i.rows) : i.rows[n] # w}
    /\ pc'        = [pc EXCEPT ![r] = "ok"]
    /\ seen'      = [seen EXCEPT ![r] = rd]
    /\ got'       = [got EXCEPT ![r] = g]
    /\ call'      = [call EXCEPT ![r] = NoCall]

SendAdvance(r, rd, g, k) ==
    /\ pc'   = [pc EXCEPT ![r] = "advancing"]
    /\ seen' = [seen EXCEPT ![r] = rd]
    /\ got'  = [got EXCEPT ![r] = g]
    /\ call' = [call EXCEPT ![r] = [op |-> "advance", st |-> "sent", row |-> k, step |-> NoStep]]
    /\ UNCHANGED <<stage, docStatus, journal, restamped, moved>>

\* Go on to the next row that needs a call, or commit when none is left.
Continue(r, i, rd, g) ==
    LET next == NextCall(i, Len(g))
    IN  \/ \E k \in next : SendAdvance(r, ReadUpTo(i, rd, k), SettledUpTo(g, k - 1), k)
        \/ /\ next = {}
           /\ Commit(r, i, ReadUpTo(i, rd, Len(i.rows)), SettledUpTo(g, Len(i.rows)))

Answer(r, how) ==
    /\ pc' = [pc EXCEPT ![r] = how]
    /\ UNCHANGED <<stage, docStatus, journal, restamped, moved, seen, got, call>>

\* The handler up to its first await.
Start(r, i) ==
    LET rd == IF i.kind = "single" THEN <<stage[i.rows[1]]>> ELSE <<>>
    IN  /\ pc[r] = "idle"
        /\ \A n \in 1..Len(i.rows) : Exists(i.rows[n])
        /\ input'  = [input EXCEPT ![r] = i]
        /\ needed' = [needed EXCEPT ![r] = NeedsStepUp(config)]
        /\ \/ /\ RefusedFirst(i)
              /\ Answer(r, "refused")
           \/ /\ ~RefusedFirst(i)
              /\ WillVerify(i)
              /\ pc'     = [pc EXCEPT ![r] = "verifying"]
              /\ seen'   = [seen EXCEPT ![r] = rd]
              /\ call'   = [call EXCEPT ![r] = [NoCall EXCEPT !.op = "verify", !.st = "sent"]]
              /\ UNCHANGED <<stage, docStatus, journal, restamped, moved, got>>
           \/ /\ ~RefusedFirst(i)
              /\ ~WillVerify(i)
              /\ IF i.bodyOk THEN Continue(r, i, rd, <<>>) ELSE Answer(r, "refused")
        /\ UNCHANGED <<pin, vstatus, config, pythonVars>>

\* The awaits return.  The body of a single action is validated only here.
Verified(r) ==
    /\ pc[r] = "verifying"
    /\ call[r].st = "ok"
    /\ IF input[r].bodyOk THEN Continue(r, input[r], seen[r], <<>>) ELSE Answer(r, "refused")
    /\ UNCHANGED <<pin, vstatus, config, pythonVars, input, needed>>

VerifyRefused(r) ==
    /\ pc[r] = "verifying"
    /\ call[r].st = "bad"
    /\ Answer(r, "refused")
    /\ UNCHANGED <<pin, vstatus, config, pythonVars, input, needed>>

\* Regression: a reply that comes after the timeout is still served.
AdvancedLate(r) ==
    /\ call[r].op = "advance"
    /\ call[r].st = "ok"
    /\ Continue(r, input[r], seen[r], Append(got[r], call[r].step))
    /\ UNCHANGED <<pin, vstatus, config, pythonVars, input, needed>>

Advanced(r) ==
    /\ pc[r] = "advancing"
    /\ call[r].st = "ok"
    /\ Continue(r, input[r], seen[r], Append(got[r], call[r].step))
    /\ UNCHANGED <<pin, vstatus, config, pythonVars, input, needed>>

AdvanceFailed(r) ==
    /\ pc[r] = "advancing"
    /\ call[r].st = "bad"
    /\ Answer(r, "failed")
    /\ UNCHANGED <<pin, vstatus, config, pythonVars, input, needed>>

\* Regression: the /advance call has no timeout.
TimeoutOfVerify(r) ==
    /\ Faults
    /\ pc[r] = "verifying"
    /\ Answer(r, "refused")
    /\ UNCHANGED <<pin, vstatus, config, pythonVars, input, needed>>

\* 8 s for a verification (answered 401), 10 s for an /advance (502).  The
\* socket is destroyed; Python does not notice.  The timer is the socket's:
\* once that is closed it does not fire.
Timeout(r) ==
    /\ Faults
    /\ Active(r)
    /\ call[r].st # "cut"
    /\ Answer(r, IF pc[r] = "verifying" THEN "refused" ELSE "failed")
    /\ UNCHANGED <<pin, vstatus, config, pythonVars, input, needed>>

\* Regression: the rows are inserted outside a transaction.
CommitErrorHalfway(r) ==
    /\ Faults
    /\ pc[r] = "advancing"
    /\ call[r].st = "ok"
    /\ input[r].kind = "bulk"
    /\ NextCall(input[r], Len(got[r]) + 1) = {}
    /\ pc'      = [pc EXCEPT ![r] = "failed"]
    /\ journal' = Append(journal, JournalRows(r, input[r],
                     SettledUpTo(Append(got[r], call[r].step), Len(input[r].rows)))[1])
    /\ UNCHANGED <<stage, docStatus, restamped, moved, seen, got, call>>
    /\ UNCHANGED <<pin, vstatus, config, pythonVars, input, needed>>

\* The Node transaction of a bulk request throws and is rolled back (500).
CommitError(r) ==
    /\ Faults
    /\ pc[r] = "advancing"
    /\ call[r].st = "ok"
    /\ input[r].kind = "bulk"
    /\ NextCall(input[r], Len(got[r]) + 1) = {}
    /\ Answer(r, "failed")
    /\ UNCHANGED <<pin, vstatus, config, pythonVars, input, needed>>

\* The process dies; it comes back with its database and no request.
NodeCrash ==
    /\ Faults
    /\ \E r \in Requests : Active(r)
    /\ pc' = [r \in Requests |-> IF Active(r) THEN "crashed" ELSE pc[r]]
    /\ UNCHANGED <<nodeVars, config, pythonVars, input, needed, seen, got, call>>

-----------------------------------------------------------------------------
(* Python: POST /api/v1/stepup/verify.  Two transactions may both read the *)
(* replay table before either inserts: the primary key decides.            *)

Reply(r, st, step) == call' = [call EXCEPT ![r].st = st, ![r].step = step]

Acceptable(a, u) ==
    /\ spent[a] = {}
    /\ challenge[a] = "completed"
    /\ AssertionOwner[a] = u

PyVerifyCheck(r) ==
    /\ call[r].op = "verify"
    /\ call[r].st = "sent"
    /\ Reply(r, IF Acceptable(input[r].assertion, input[r].user) THEN "checked" ELSE "bad", NoStep)
    /\ UNCHANGED <<nodeVars, config, pythonVars, pc, input, needed, seen, got>>

\* Regression: the replay table has no primary key.
PyVerifyCommitBlind(r) ==
    /\ call[r].op = "verify"
    /\ call[r].st = "checked"
    /\ Reply(r, "ok", NoStep)
    /\ spent' = [spent EXCEPT ![input[r].assertion] = {input[r].user}]
    /\ UNCHANGED <<nodeVars, config, steps, pyStatus, challenge, pc, input, needed, seen, got>>

PyVerifyCommit(r) ==
    LET a == input[r].assertion
    IN  /\ call[r].op = "verify"
        /\ call[r].st = "checked"
        /\ IF spent[a] = {}
           THEN Reply(r, "ok", NoStep) /\ spent' = [spent EXCEPT ![a] = {input[r].user}]
           ELSE Reply(r, "bad", NoStep) /\ UNCHANGED spent
        /\ UNCHANGED <<nodeVars, config, steps, pyStatus, challenge, pc, input, needed, seen, got>>

(* Python: POST /api/v1/workflow/{doc_id}/advance, one transaction.  After *)
(* the commit the provenance record may still raise, and the reply is 500. *)

StepOf(r) ==
    LET i == input[r]
        k == call[r].row
    IN  [doc |-> DocOf[i.rows[k]], action |-> i.action, actor |-> i.user,
         assertion |-> i.assertion, by |-> <<r, k>>]

\* Regression: step.id is read before the insert is flushed.
PyAdvanceUnflushed(r) ==
    LET s == StepOf(r)
    IN  /\ call[r].op = "advance"
        /\ call[r].st = "sent"
        /\ Len(steps) < MaxSteps
        /\ steps'    = Append(steps, s)
        /\ pyStatus' = [pyStatus EXCEPT ![s.doc] = NextStatus(@, s.action, StageMap[s.action])]
        /\ Reply(r, "ok", NoStep)
        /\ UNCHANGED <<nodeVars, config, challenge, spent, pc, input, needed, seen, got>>

PyAdvance(r) ==
    LET s == StepOf(r)
    IN  /\ call[r].op = "advance"
        /\ call[r].st = "sent"
        /\ Len(steps) < MaxSteps
        /\ steps'    = Append(steps, s)
        /\ pyStatus' = [pyStatus EXCEPT ![s.doc] = NextStatus(@, s.action, StageMap[s.action])]
        /\ \/ Reply(r, "ok", Len(steps) + 1)
           \/ Faults /\ Reply(r, "bad", NoStep)
        /\ UNCHANGED <<nodeVars, config, challenge, spent, pc, input, needed, seen, got>>

\* The call ends without a commit: Python refuses an approval of a high-risk
\* document (403), is down, restarts, or cannot write.
PyFail(r) ==
    /\ Faults
    /\ call[r].st \in {"sent", "checked"}
    /\ Reply(r, "bad", NoStep)
    /\ UNCHANGED <<nodeVars, config, pythonVars, pc, input, needed, seen, got>>

\* Python dies, or the connection closes, after the headers of the reply and
\* before the end of its body.  pyCall listens to the response's data and end
\* only: neither comes, and the promise is never settled.
ReplyCut(r) ==
    /\ Faults
    /\ Active(r)
    /\ call[r].st \in {"ok", "bad"}
    /\ Reply(r, "cut", NoStep)
    /\ UNCHANGED <<nodeVars, config, pythonVars, pc, input, needed, seen, got>>

(* The user's authenticator answers (finish_authentication); a challenge   *)
(* older than 300 s no longer counts.                                      *)

FinishAuthentication(a) ==
    /\ challenge[a] = "issued"
    /\ challenge' = [challenge EXCEPT ![a] = "completed"]
    /\ UNCHANGED <<nodeVars, config, steps, pyStatus, spent, requestVars>>

Expire(a) ==
    /\ challenge[a] # "expired"
    /\ challenge' = [challenge EXCEPT ![a] = "expired"]
    /\ UNCHANGED <<nodeVars, config, steps, pyStatus, spent, requestVars>>

-----------------------------------------------------------------------------
(* What else writes these tables.                                          *)

\* An administrator edits the namespace.
ChangeConfig ==
    /\ config' \in Configs \ {config}
    /\ UNCHANGED <<nodeVars, pythonVars, requestVars>>

\* Regression: pinned to some version that is not archived.
CreateWorkflowAnyVersion(w) ==
    \E v \in {u \in Versions : vstatus[u] # "archived"} :
        /\ ~Exists(w)
        /\ pin'   = [pin EXCEPT ![w] = v]
        /\ stage' = [stage EXCEPT ![w] = InitialStage(v)]
        /\ UNCHANGED <<vstatus, docStatus, journal, restamped, moved, config, pythonVars, requestVars>>

\* POST /spa/api/workflows: pinned to the published version, if there is one.
CreateWorkflow(w) ==
    LET v == IF Published = {} THEN NoVersion ELSE CHOOSE p \in Published : TRUE
    IN  /\ ~Exists(w)
        /\ pin'   = [pin EXCEPT ![w] = v]
        /\ stage' = [stage EXCEPT ![w] = InitialStage(v)]
        /\ UNCHANGED <<vstatus, docStatus, journal, restamped, moved, config, pythonVars, requestVars>>

\* POST /spa/api/workflow-templates/:tid/versions/:vid/publish.
Publish(v) ==
    /\ vstatus[v] = "draft"
    /\ vstatus' = [u \in Versions |-> IF u = v THEN "published"
                                      ELSE IF vstatus[u] = "published" THEN "archived"
                                      ELSE vstatus[u]]
    /\ UNCHANGED <<stage, pin, docStatus, journal, restamped, moved, config, pythonVars, requestVars>>

\* POST /workflows/:id/action, POST /api/v1/workflows/:id/action and the
\* GraphQL mutation workflowAction: the stage alone.  The first falls back to
\* 'Maker Review' for an action it does not know.
LegacyAction(w, s) ==
    /\ SideDoors
    /\ Exists(w)
    /\ stage' = [stage EXCEPT ![w] = s]
    /\ moved' = moved \cup {w}
    /\ UNCHANGED <<pin, vstatus, docStatus, journal, restamped, config, pythonVars, requestVars>>

LegacyStages == {StageMap[a] : a \in Actions} \cup {"Maker Review"}

DocStatuses == {"Valid", "Pending Review", "Expiring", "Expired"}

\* POST /documents/bulk with action 'status' writes whatever status it is given
\* to the documents it is given and asks for no permission; an import writes
\* Valid, Expiring or Expired to those of a customer.
SetStatus(D, s) ==
    /\ SideDoors
    /\ D # {}
    /\ docStatus' = [d \in Docs |-> IF d \in D THEN s ELSE docStatus[d]]
    /\ restamped' = restamped \cup D
    /\ UNCHANGED <<stage, pin, vstatus, journal, moved, config, pythonVars, requestVars>>

\* scanExpiries, on a timer: `late` are past their expiry_date, `soon` inside a
\* notification band.  It looks at no workflow.
ExpiryScan(late, soon) ==
    LET expired  == {d \in late : docStatus[d] # "Expired"}
        expiring == {d \in soon \ late : docStatus[d] \notin {"Expiring", "Expired"}}
    IN  /\ expired \cup expiring # {}
        /\ docStatus' = [d \in Docs |-> IF d \in expired THEN "Expired"
                                        ELSE IF d \in expiring THEN "Expiring"
                                        ELSE docStatus[d]]
        /\ restamped' = restamped \cup expired \cup expiring
        /\ UNCHANGED <<stage, pin, vstatus, journal, moved, config, pythonVars, requestVars>>

\* Python's own POST /api/v1/workflow/{doc_id}/actions, with any stage.
PyDirectAction(d, u, a, s) ==
    /\ SideDoors
    /\ Len(steps) < MaxSteps
    /\ steps'    = Append(steps, [doc |-> d, action |-> a, actor |-> u,
                                  assertion |-> NoAssertion, by |-> NoBy])
    /\ pyStatus' = [pyStatus EXCEPT ![d] = NextStatus(@, a, s)]
    /\ UNCHANGED <<nodeVars, config, challenge, spent, requestVars>>

-----------------------------------------------------------------------------

NodeStep(r) ==
    \/ Verified(r) \/ VerifyRefused(r)
    \/ Advanced(r) \/ AdvanceFailed(r) \/ Timeout(r) \/ CommitError(r)

PythonStep(r) ==
    \/ PyVerifyCheck(r) \/ PyVerifyCommit(r) \/ PyAdvance(r)
    \/ PyFail(r) \/ ReplyCut(r)

Environment ==
    \/ \E a \in Assertions : FinishAuthentication(a) \/ Expire(a)
    \/ ChangeConfig
    \/ \E w \in Workflows : CreateWorkflow(w)
    \/ \E v \in Versions : Publish(v)
    \/ \E w \in Workflows, s \in LegacyStages : LegacyAction(w, s)
    \/ \E D \in SUBSET Docs, s \in DocStatuses : SetStatus(D, s)
    \/ \E late, soon \in SUBSET Dated : ExpiryScan(late, soon)
    \/ \E d \in Docs, u \in Users, a \in Actions, s \in {"checker", "approve"} :
           PyDirectAction(d, u, a, s)

Next ==
    \/ \E r \in Requests, i \in Inputs : Start(r, i)
    \/ \E r \in Requests : NodeStep(r) \/ PythonStep(r)
    \/ NodeCrash
    \/ Environment

Spec == Init /\ [][Next]_vars

\* The event loop serves every reply and fires every timer.  Nothing is
\* assumed of Python, of the network or of the users.
FairSpec == Spec /\ \A r \in Requests : WF_vars(NodeStep(r))
-----------------------------------------------------------------------------
(* Properties.                                                             *)

Call == [op : {"none", "verify", "advance"}, st : {"none", "sent", "checked", "ok", "bad", "cut"},
         row : Nat, step : Nat]
Step == [doc : Docs, action : Actions, actor : Users,
         assertion : Assertions \cup {NoAssertion}, by : {NoBy} \cup (Requests \X Nat)]
Row  == [wf : Workflows, user : Users, action : Actions,
         assertion : Assertions \cup {NoAssertion}, step : Nat, by : Requests \X Nat]

\* Types of every variable; the handlers' locals only once there is an input.
TypeOK ==
    /\ stage \in [Workflows -> StageNames \cup {NoStage}]
    /\ pin \in [Workflows -> Versions \cup {NoVersion}]
    /\ vstatus \in [Versions -> {"draft", "published", "archived"}]
    /\ docStatus \in [Docs -> DocStatuses]
    /\ journal \in Seq(Row)
    /\ restamped \subseteq Docs
    /\ moved \subseteq Workflows
    /\ config \in Configs
    /\ steps \in Seq(Step)
    /\ pyStatus \in [Docs -> PyStatuses]
    /\ challenge \in [Assertions -> {"issued", "completed", "expired"}]
    /\ spent \in [Assertions -> SUBSET Users]
    /\ pc \in [Requests -> {"idle", "verifying", "advancing", "crashed"} \cup Answered]
    /\ input \in [Requests -> Inputs \cup {NoInput}]
    /\ needed \in [Requests -> BOOLEAN]
    /\ seen \in [Requests -> Seq(StageNames \cup {NoStage})]
    /\ got \in [Requests -> Seq(Nat)]
    /\ call \in [Requests -> Call]

\* The strengthening the proofs need.  Settles(r, n, s): s is what row n of
\* request r must carry, the id of the step of that row or none.
Settles(r, n, s) ==
    LET i == input[r]
    IN  IF HasDoc(i.rows[n])
        THEN /\ s \in DOMAIN steps
             /\ steps[s] = [doc |-> DocOf[i.rows[n]], action |-> i.action, actor |-> i.user,
                            assertion |-> i.assertion, by |-> <<r, n>>]
        ELSE s = NoStep

\* A handler's locals: rows are settled in order, and the call in flight is
\* that of the first row not settled.
RequestInv(r) ==
    /\ pc[r] = "idle" <=> input[r] = NoInput
    /\ pc[r] = "idle" => got[r] = <<>> /\ call[r] = NoCall
    /\ pc[r] = "verifying" => call[r].op = "verify" /\ got[r] = <<>>
    /\ pc[r] = "advancing" => call[r].op = "advance"
    /\ call[r].op = "advance" =>
          /\ call[r].row = Len(got[r]) + 1
          /\ call[r].row <= Len(input[r].rows)
          /\ HasDoc(input[r].rows[call[r].row])
          /\ call[r].st = "ok" => Settles(r, call[r].row, call[r].step)
    /\ pc[r] # "idle" =>
          /\ Len(got[r]) <= Len(input[r].rows)
          /\ \A n \in 1..Len(got[r]) : Settles(r, n, got[r][n])

\* A wf_actions row is a row of a request answered 200, and each such row is
\* inserted once.
Records(n) ==
    LET j == journal[n]
        r == j.by[1]
        i == input[r]
        k == j.by[2]
    IN  /\ pc[r] = "ok"
        /\ k \in 1..Len(i.rows)
        /\ j.wf = i.rows[k] /\ j.user = i.user /\ j.action = i.action
        /\ j.assertion = i.assertion
        /\ Settles(r, k, j.step)

JournalInv ==
    /\ \A n \in DOMAIN journal : Records(n)
    /\ \A m, n \in DOMAIN journal : journal[m].by = journal[n].by => m = n

\* Linked rows, as an inductive invariant.
LinkInv == TypeOK /\ (\A r \in Requests : RequestInv(r)) /\ JournalInv

OwnSteps(r) == {s \in DOMAIN steps : steps[s].by # NoBy /\ steps[s].by[1] = r}
OwnRows(r)  == {n \in DOMAIN journal : journal[n].by[1] = r}
Effects(r)  == OwnSteps(r) # {} \/ OwnRows(r) # {}
Linked(s)   == \E n \in DOMAIN journal : journal[n].step = s

\* Every wf_actions row of a workflow with a document carries the id of a
\* committed workflow_steps row of the same document, action, actor and
\* assertion, and no two rows carry the same id: python_step_id is a sound
\* cross-reference whatever calls fail, time out or interleave.
LinkedStep ==
    /\ \A n \in DOMAIN journal :
          IF HasDoc(journal[n].wf)
          THEN /\ journal[n].step \in DOMAIN steps
               /\ steps[journal[n].step].doc       = DocOf[journal[n].wf]
               /\ steps[journal[n].step].action    = journal[n].action
               /\ steps[journal[n].step].actor     = journal[n].user
               /\ steps[journal[n].step].assertion = journal[n].assertion
          ELSE journal[n].step = NoStep
    /\ \A m, n \in DOMAIN journal :
          m # n /\ journal[m].step = journal[n].step => journal[n].step = NoStep

\* A request's decision is recorded whole or not at all: answered 200, it has
\* one wf_actions row per row of its input and none of its Python steps is
\* left without one; otherwise it has no wf_actions row.
WholeDecision ==
    \A r \in Requests :
        /\ {journal[n].by[2] : n \in OwnRows(r)} =
               IF pc[r] = "ok" THEN 1..Len(input[r].rows) ELSE {}
        /\ pc[r] = "ok" => \A s \in OwnSteps(r) : Linked(s)

\* A request that needed a step-up leaves a trace in either database only if
\* its assertion is that user's own and was spent by that user (SOX-1).
StepUpBeforeEffect ==
    \A r \in Requests :
        needed[r] /\ Effects(r) =>
            /\ input[r].assertion # NoAssertion
            /\ spent[input[r].assertion] = {input[r].user}
            /\ AssertionOwner[input[r].assertion] = input[r].user

\* No two requests that had to verify act on the strength of one assertion,
\* however their verifications interleave in Python.
OneAssertionOneRequest ==
    \A r1, r2 \in Requests :
        /\ r1 # r2
        /\ \A r \in {r1, r2} : Effects(r) /\ (needed[r] \/ input[r].kind = "bulk")
        => input[r1].assertion # input[r2].assertion \/ input[r1].assertion = NoAssertion

LastRow(S) == CHOOSE n \in S : \A m \in S : m <= n

\* The columns that show a decision, documents.status and, of an unpinned
\* workflow, workflows.stage, show the last recorded one, however decisions
\* fail and overlap, until another writer of that very column comes: the expiry
\* job, an import, the bulk and the legacy routes.
MirrorsJournal ==
    /\ \A d \in Docs :
          LET at == {n \in DOMAIN journal : DocOf[journal[n].wf] = d}
          IN  at # {} /\ d \notin restamped
              => docStatus[d] = DocStatusMap[journal[LastRow(at)].action]
    /\ \A w \in Workflows :
          LET at == {n \in DOMAIN journal : journal[n].wf = w}
          IN  at # {} /\ w \notin moved /\ pin[w] = NoVersion
              => stage[w] = StageMap[journal[LastRow(at)].action]

\* A request that was answered, or died with the process, writes nothing more
\* on Node's side: a reply that arrives after its timeout is ignored.
AnswerIsFinal ==
    [][\A r \in Requests :
          pc[r] \in Answered \cup {"crashed"} =>
              pc'[r] = pc[r] /\ OwnRows(r)' = OwnRows(r)]_vars

\* Every request that waits for Python is answered or dies with the process,
\* though Python may never reply; only a reply cut off inside its body leaves
\* one waiting.
EveryRequestAnswered ==
    \A r \in Requests : Active(r) ~> (~Active(r) \/ call[r].st = "cut")

\* A workflow is never pinned to a draft, whose graph can still be edited, and
\* at most one version of the template is published at a time.
PinsFrozen ==
    /\ \A w \in Workflows : pin[w] # NoVersion => vstatus[pin[w]] # "draft"
    /\ \A u, v \in Published : u = v

DL == INSTANCE DecisionLog
      WITH Deciders <- Requests, Subjects <- Workflows, DocOfSubject <- DocOf,
           NoDocument <- NoDoc, recorded <- steps, log <- journal,
           decided <- {r \in Requests : pc[r] = "ok"}

\* Node and Python together implement the decision log of ADR-0014: whatever
\* fails, a decision appears whole, once, and on steps recorded before it.
ImplementsDecisionLog == DL!DLSpec

(* Statements of the documentation that the code does not keep: README,    *)
(* section 14.                                                             *)

\* "If Python fails, Node writes nothing.  Both sides are always in sync.": a
\* request answered 502 left nothing in Python either.
FailedLeavesNoStep == \A r \in Requests : pc[r] = "failed" => OwnSteps(r) = {}
=============================================================================
