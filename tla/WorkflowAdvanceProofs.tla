----------------------- MODULE WorkflowAdvanceProofs -----------------------
(***************************************************************************)
(* What TLAPS proves of WorkflowAdvance, for any number of requests,       *)
(* workflows, documents, assertions and template versions, with every      *)
(* fault and every other writer of the same rows.  In this order:          *)
(* types; a wf_actions row cites a workflow_steps row of its own; pins     *)
(* are frozen; a decision is whole or absent, an effect rests on a         *)
(* step-up of its own and an answer is final; statuses agree with the      *)
(* last decision; the two services implement DecisionLog.                  *)
(***************************************************************************)
EXTENDS WorkflowAdvance, SequenceTheorems, WellFoundedInduction, TLAPS

-----------------------------------------------------------------------------
(* The rules of StageRules: whatever the graphs of the template versions look  *)
(* like, the stage an action leads to is one the code or a graph names, and    *)
(* Python's next status is one of its own.                                     *)

\* A non-empty set of naturals has a least element.
LEMMA LeastExists ==
    ASSUME NEW S \in SUBSET Nat, S # {}
    PROVE  \E x \in S : \A y \in S : x <= y
<1> DEFINE R == {ss \in Nat \X Nat : ss[1] < ss[2]}
<1>1. IsWellFoundedOn(R, Nat)
  BY NatLessThanWellFounded, Zenon DEF OpToRel
<1>2. \A x, y \in S : (<<y, x>> \in R) <=> y < x
  OBVIOUS
<1>3. \A x, y \in S : ~(y < x) => x <= y
  OBVIOUS
<1> HIDE DEF R
<1>4. \E x \in S : \A y \in S : ~ (<<y, x>> \in R)
  BY <1>1, WFMin, Zenon
<1> QED BY <1>2, <1>3, <1>4, Zenon

\* The first index among some of a sequence's is one of them.
LEMMA FirstIndex ==
    ASSUME NEW n \in Nat, NEW I \in SUBSET (1..n), I # {}
    PROVE  Min(I) \in 1..n
<1>1. \E x \in I : \A y \in I : x <= y
  <2>1. I \in SUBSET Nat
    OBVIOUS
  <2> QED BY <2>1, LeastExists, Zenon
<1>2. Min(I) \in I
  BY <1>1, Zenon DEF Min
<1> QED BY <1>2

\* The labels of a version's nodes are stage names.
LEMMA LabelNamed ==
    ASSUME NEW v \in Versions, NEW n \in DOMAIN Bpmn[v].nodes
    PROVE  Bpmn[v].nodes[n].label \in StageNames
<1>1. Bpmn[v].nodes[n].label \in {Bpmn[v].nodes[m].label : m \in DOMAIN Bpmn[v].nodes}
  OBVIOUS
<1> QED BY <1>1, Zenon DEF StageNames

\* GraphNext finds nothing or the label of a node of the version's graph.
LEMMA GraphNextLabel ==
    ASSUME NEW v \in Versions, NEW shown
    PROVE  GraphNext(v, shown) \in StageNames \cup {NoLabel}
<1> DEFINE nodes == Bpmn[v].nodes
           edges == Bpmn[v].edges
           here  == SelectInSeq(nodes, LAMBDA n : IsStageNode(n) /\ n.label = shown)
           out   == IF here = 0 THEN 0
                    ELSE SelectInSeq(edges, LAMBDA e : e.from = nodes[here].id)
           I     == {n \in 1..Len(nodes) : nodes[n].id = edges[out].to}
           next  == IF out = 0 THEN 0 ELSE IF I # {} THEN Min(I) ELSE 0
<1>1. GraphNext(v, shown) = IF next = 0 THEN NoLabel ELSE nodes[next].label
  BY Zenon DEF GraphNext, SelectInSeq
<1> HIDE DEF out, edges
<1>2. nodes \in Seq(Node)
  BY BpmnAssumption
<1>3. next = 0 \/ next \in 1..Len(nodes)
  <2>1. I \in SUBSET (1..Len(nodes)) /\ Len(nodes) \in Nat
    BY <1>2
  <2> HIDE DEF nodes, I
  <2>2. I # {} => Min(I) \in 1..Len(nodes)
    BY <2>1, FirstIndex, Zenon
  <2> QED BY <2>2, Zenon
<1> HIDE DEF next
<1>4. ASSUME next # 0 PROVE nodes[next].label \in StageNames
  <2>1. next \in DOMAIN Bpmn[v].nodes
    BY <1>2, <1>3, <1>4
  <2> QED BY <2>1, LabelNamed
<1> HIDE DEF nodes
<1> QED BY <1>1, <1>4, Zenon

\* The stage after any action has a name.
LEMMA NextStageNamed ==
    ASSUME NEW action \in Actions, NEW shown, NEW pinned,
           NEW published \in SUBSET Versions
    PROVE  NextStage(action, shown, pinned, published) \in StageNames
<1>1. StageMap[action] \in StageNames
  BY DEF StageNames
<1>2. pinned \in published => GraphNext(pinned, shown) \in StageNames \cup {NoLabel}
  BY GraphNextLabel
<1> QED BY <1>1, <1>2 DEF NextStage

\* So has the stage a workflow starts at.
LEMMA InitialStageNamed ==
    ASSUME NEW v \in Versions \cup {NoVersion}
    PROVE  InitialStage(v) \in StageNames
<1> DEFINE nodes == IF v = NoVersion THEN <<>> ELSE Bpmn[v].nodes
           I     == {n \in 1..Len(nodes) : IsStageNode(nodes[n])}
           first == IF I # {} THEN Min(I) ELSE 0
<1>1. InitialStage(v) = IF first = 0 \/ nodes[first].label = NoLabel
                        THEN "Maker Review" ELSE nodes[first].label
  BY Zenon DEF InitialStage, SelectInSeq
<1>2. nodes \in Seq(Node)
  BY BpmnAssumption
<1>3. first = 0 \/ first \in 1..Len(nodes)
  <2>1. I \in SUBSET (1..Len(nodes)) /\ Len(nodes) \in Nat
    BY <1>2
  <2> HIDE DEF nodes, I
  <2>2. I # {} => Min(I) \in 1..Len(nodes)
    BY <2>1, FirstIndex, Zenon
  <2> QED BY <2>2, Zenon
<1>5. v = NoVersion => first = 0
  OBVIOUS
<1> HIDE DEF first
<1>4. ASSUME first # 0, v # NoVersion PROVE nodes[first].label \in StageNames
  <2>1. first \in DOMAIN Bpmn[v].nodes /\ v \in Versions
    BY <1>2, <1>3, <1>4
  <2>2. Bpmn[v].nodes[first].label \in StageNames
    BY <2>1, LabelNamed
  <2> QED BY <2>2, <1>4
<1> HIDE DEF nodes
<1> QED BY <1>1, <1>4, <1>5 DEF StageNames

\* Python's status stays among its own, and an action of the SPA that is not
\* a rejection leaves it alone: its stage is none Python knows.
LEMMA NextStatusTyped ==
    ASSUME NEW current \in PyStatuses, NEW action \in Actions, NEW shown
    PROVE  NextStatus(current, action, shown) \in PyStatuses
<1> DEFINE I  == {n \in 1..Len(StageOrder) : StageOrder[n] = shown}
           at == IF I # {} THEN Min(I) ELSE 0
<1>1. NextStatus(current, action, shown) =
        CASE action = "reject"                          -> "rejected"
          [] action = "approve" /\ shown = "approve"    -> "archived"
          [] action = "approve" /\ shown # "approve" /\ at # 0 ->
                 IF at < Len(StageOrder) THEN StageOrder[at + 1] ELSE StageOrder[at]
          [] OTHER                                      -> current
  BY Zenon DEF NextStatus, SelectInSeq
<1>2. Len(StageOrder) = 6
  BY DEF StageOrder
<1>3. at = 0 \/ at \in 1..Len(StageOrder)
  <2>1. I \in SUBSET (1..6)
    BY <1>2
  <2> HIDE DEF I
  <2>2. I # {} => Min(I) \in 1..6
    BY <2>1, FirstIndex
  <2> QED BY <2>2, <1>2, Zenon
<1> HIDE DEF at
<1>4. \A n \in 1..6 : StageOrder[n] \in PyStatuses
  BY DEF PyStatuses, StageOrder
<1>5. {"rejected", "archived"} \subseteq PyStatuses
  BY DEF PyStatuses
<1>6. at # 0 => (IF at < Len(StageOrder) THEN StageOrder[at + 1] ELSE StageOrder[at]) \in PyStatuses
  BY <1>2, <1>3, <1>4
<1> QED BY <1>1, <1>5, <1>6

-----------------------------------------------------------------------------
(* Inputs, and what a handler computes from one.                           *)

\* The fields of an input.
LEMMA InputFields ==
    ASSUME NEW i \in Inputs
    PROVE  /\ i.user \in Users /\ i.action \in Actions
           /\ i.assertion \in Assertions \cup {NoAssertion}
           /\ i.kind \in {"single", "bulk"} /\ i.bodyOk \in BOOLEAN
           /\ i.rows \in Seq(Workflows) /\ Len(i.rows) \in Nat
           /\ \A n \in 1..Len(i.rows) : i.rows[n] \in Workflows
           /\ i # NoInput
<1>1. i \in Input
  BY InputsAssumption
<1> QED BY <1>1 DEF Input, NoInput

\* A workflow's document, if it has one, is a document.
LEMMA DocTyped ==
    ASSUME NEW w \in Workflows, HasDoc(w) PROVE DocOf[w] \in Docs
BY DocsAssumption DEF HasDoc

\* The row behind the next call is one of the rows left, has a document, and
\* the rows skipped before it have none.
LEMMA NextCallBounds ==
    ASSUME NEW i \in Inputs, NEW done \in Nat, NEW k \in NextCall(i, done)
    PROVE  /\ k \in 1..Len(i.rows) /\ k >= done + 1
           /\ HasDoc(i.rows[k])
           /\ \A n \in done + 1 .. k - 1 : ~HasDoc(i.rows[n])
BY InputFields DEF NextCall

\* When no row needs a call any more, no row left has a document.
LEMMA NoNextCall ==
    ASSUME NEW i \in Inputs, NEW done \in Nat, NextCall(i, done) = {}
    PROVE  \A n \in done + 1 .. Len(i.rows) : ~HasDoc(i.rows[n])
<1> DEFINE S == {n \in done + 1 .. Len(i.rows) : HasDoc(i.rows[n])}
<1>1. Len(i.rows) \in Nat
  BY InputFields
<1>2. S \in SUBSET Nat
  BY <1>1
<1> SUFFICES ASSUME S # {} PROVE FALSE
  OBVIOUS
<1>3. PICK k \in S : \A n \in S : k <= n
  <2> HIDE DEF S
  <2> QED BY <1>2, LeastExists
<1>4. k \in done + 1 .. Len(i.rows) /\ HasDoc(i.rows[k])
  OBVIOUS
<1>5. ASSUME NEW n \in done + 1 .. k - 1 PROVE ~HasDoc(i.rows[n])
  <2>1. n \in done + 1 .. Len(i.rows) /\ ~(k <= n)
    BY <1>1, <1>4
  <2>2. n \notin S
    BY <1>3, <2>1
  <2> QED BY <2>1, <2>2
<1>6. k \in NextCall(i, done)
  BY <1>4, <1>5 DEF NextCall
<1> QED BY <1>6

\* The step ids of k rows: those settled so far, then none.
LEMMA SettledTyped ==
    ASSUME NEW g \in Seq(Nat), NEW k \in Nat
    PROVE  /\ SettledUpTo(g, k) \in Seq(Nat)
           /\ Len(SettledUpTo(g, k)) = k
           /\ \A n \in 1..k : SettledUpTo(g, k)[n] = IF n <= Len(g) THEN g[n] ELSE NoStep
BY DEF SettledUpTo, NoStep

Stages == StageNames \cup {NoStage}

\* The stages read for k rows.
LEMMA ReadTyped ==
    ASSUME stage \in [Workflows -> Stages], NEW i \in Inputs,
           NEW rd \in Seq(Stages), NEW k \in 0..Len(i.rows)
    PROVE  ReadUpTo(i, rd, k) \in Seq(Stages)
<1>1. \A n \in 1..k : (IF n <= Len(rd) THEN rd[n] ELSE stage[i.rows[n]]) \in Stages
  BY InputFields
<1> QED BY <1>1, InputFields DEF ReadUpTo

\* The wf_actions rows of a request.
LEMMA JournalRowsTyped ==
    ASSUME NEW r \in Requests, NEW i \in Inputs, NEW g \in Seq(Nat), Len(g) = Len(i.rows)
    PROVE  /\ JournalRows(r, i, g) \in Seq(Row)
           /\ Len(JournalRows(r, i, g)) = Len(i.rows)
<1>1. \A n \in 1..Len(i.rows) :
         [wf |-> i.rows[n], user |-> i.user, action |-> i.action,
          assertion |-> i.assertion, step |-> g[n], by |-> <<r, n>>] \in Row
  BY InputFields DEF Row
<1> QED BY <1>1, InputFields DEF JournalRows

-----------------------------------------------------------------------------
(* Types.                                                                  *)

\* The variables a handler's step may change.
HandlerTypes ==
    /\ stage \in [Workflows -> Stages]
    /\ docStatus \in [Docs -> DocStatuses]
    /\ journal \in Seq(Row)
    /\ restamped \subseteq Docs
    /\ moved \subseteq Workflows
    /\ pc \in [Requests -> {"idle", "verifying", "advancing", "crashed"} \cup Answered]
    /\ seen \in [Requests -> Seq(Stages)]
    /\ got \in [Requests -> Seq(Nat)]
    /\ call \in [Requests -> Call]

\* The stages a transaction writes.
LEMMA StagesAfterTyped ==
    ASSUME TypeOK, NEW i \in Inputs, NEW rd
    PROVE  StagesAfter(i, rd) \in [Workflows -> Stages]
<1> SUFFICES ASSUME NEW w \in Workflows
             PROVE  StagesAfter(i, rd)[w] \in Stages
  BY Zenon DEF StagesAfter
<1> DEFINE at == {n \in 1..Len(i.rows) : i.rows[n] = w}
           n  == CHOOSE m \in at : \A k \in at : k <= m
<1>1. StagesAfter(i, rd)[w] =
         IF at = {} THEN stage[w] ELSE NextStage(i.action, rd[n], pin[w], Published)
  BY Zenon DEF StagesAfter
<1>2. Published \in SUBSET Versions /\ i.action \in Actions
  BY InputFields DEF Published
<1>3. NextStage(i.action, rd[n], pin[w], Published) \in StageNames
  <2> HIDE DEF n
  <2> QED BY <1>2, NextStageNamed
<1>4. stage[w] \in Stages
  BY DEF TypeOK, Stages
<1> QED BY <1>1, <1>3, <1>4, Zenon DEF Stages

\* A commit, typed.
LEMMA CommitTyped ==
    ASSUME TypeOK, NEW r \in Requests, NEW i \in Inputs, NEW rd \in Seq(Stages),
           NEW g \in Seq(Nat), Len(g) = Len(i.rows), Commit(r, i, rd, g)
    PROVE  HandlerTypes'
<1>1. stage' \in [Workflows -> Stages]
  BY StagesAfterTyped, Zenon DEF Commit
<1>2. docStatus' \in [Docs -> DocStatuses]
  <2>1. i.action \in Actions
    BY InputFields
  <2>2. DocStatusMap[i.action] \in {"Valid", "Pending Review"}
    <3>1. /\ DocStatusMap["approve"] = "Valid"
          /\ DocStatusMap["reject"] = "Pending Review"
          /\ DocStatusMap["escalate"] = "Pending Review"
      BY DEF DocStatusMap
    <3> QED BY <2>1, <3>1, Zenon DEF Actions
  <2> QED BY <2>2 DEF Commit, DocStatusesAfter, TypeOK, DocStatuses
<1>3. journal' \in Seq(Row)
  BY JournalRowsTyped, ConcatProperties DEF Commit, TypeOK
<1>4. /\ pc' \in [Requests -> {"idle", "verifying", "advancing", "crashed"} \cup Answered]
      /\ seen' \in [Requests -> Seq(Stages)]
      /\ got' \in [Requests -> Seq(Nat)]
  BY DEF Commit, TypeOK, Answered, Stages
<1>5. call' \in [Requests -> Call]
  BY DEF Commit, TypeOK, NoCall, Call, NoStep
<1>6. restamped' \subseteq Docs /\ moved' \subseteq Workflows
  BY DEF Commit, TypeOK
<1> QED BY <1>1, <1>2, <1>3, <1>4, <1>5, <1>6 DEF HandlerTypes

\* Sending the next /advance, typed.
LEMMA SendTyped ==
    ASSUME TypeOK, NEW r \in Requests, NEW rd \in Seq(Stages),
           NEW g \in Seq(Nat), NEW k \in Nat, SendAdvance(r, rd, g, k)
    PROVE  HandlerTypes'
<1>1. UNCHANGED <<stage, docStatus, journal, restamped, moved>>
  BY DEF SendAdvance
<1>2. /\ pc' \in [Requests -> {"idle", "verifying", "advancing", "crashed"} \cup Answered]
      /\ seen' \in [Requests -> Seq(Stages)]
      /\ got' \in [Requests -> Seq(Nat)]
  BY DEF SendAdvance, TypeOK, Answered, Stages
<1>3. call' \in [Requests -> Call]
  <2>1. [op |-> "advance", st |-> "sent", row |-> k, step |-> NoStep] \in Call
    BY DEF Call, NoStep
  <2>2. call' = [call EXCEPT ![r] = [op |-> "advance", st |-> "sent", row |-> k, step |-> NoStep]]
    BY DEF SendAdvance
  <2> QED BY <2>1, <2>2, Zenon DEF TypeOK
<1> QED BY <1>1, <1>2, <1>3 DEF HandlerTypes, TypeOK, Stages

\* The rest of the handler after an await, typed.
LEMMA ContinueTyped ==
    ASSUME TypeOK, NEW r \in Requests, NEW i \in Inputs, NEW rd \in Seq(Stages),
           NEW g \in Seq(Nat), Continue(r, i, rd, g)
    PROVE  HandlerTypes'
<1>0. stage \in [Workflows -> Stages] /\ Len(g) \in Nat /\ Len(i.rows) \in Nat
  <2>1. stage \in [Workflows -> Stages]
    BY DEF TypeOK, Stages
  <2> QED BY <2>1, InputFields
<1>1. ASSUME NEW k \in NextCall(i, Len(g)),
             SendAdvance(r, ReadUpTo(i, rd, k), SettledUpTo(g, k - 1), k)
      PROVE  HandlerTypes'
  <2>1. k \in 1..Len(i.rows)
    BY <1>0, <1>1, NextCallBounds
  <2>2. ReadUpTo(i, rd, k) \in Seq(Stages)
    BY <1>0, <2>1, ReadTyped
  <2>3. SettledUpTo(g, k - 1) \in Seq(Nat)
    BY <1>0, <2>1, SettledTyped
  <2>4. k \in Nat
    BY <1>0, <2>1
  <2> QED BY <1>1, <2>2, <2>3, <2>4, SendTyped
<1>2. ASSUME Commit(r, i, ReadUpTo(i, rd, Len(i.rows)), SettledUpTo(g, Len(i.rows)))
      PROVE  HandlerTypes'
  <2>1. ReadUpTo(i, rd, Len(i.rows)) \in Seq(Stages)
    BY <1>0, ReadTyped
  <2>2. /\ SettledUpTo(g, Len(i.rows)) \in Seq(Nat)
        /\ Len(SettledUpTo(g, Len(i.rows))) = Len(i.rows)
    BY <1>0, SettledTyped
  <2> QED BY <1>2, <2>1, <2>2, CommitTyped
<1> QED BY <1>1, <1>2 DEF Continue

\* An answer that commits nothing, typed.
LEMMA AnswerTyped ==
    ASSUME TypeOK, NEW r \in Requests, NEW how \in Answered, Answer(r, how)
    PROVE  HandlerTypes'
BY DEF Answer, HandlerTypes, TypeOK, Stages

\* The other variables.
OtherTypes ==
    /\ pin \in [Workflows -> Versions \cup {NoVersion}]
    /\ vstatus \in [Versions -> {"draft", "published", "archived"}]
    /\ config \in Configs
    /\ steps \in Seq(Step)
    /\ pyStatus \in [Docs -> PyStatuses]
    /\ challenge \in [Assertions -> {"issued", "completed", "expired"}]
    /\ spent \in [Assertions -> SUBSET Users]
    /\ input \in [Requests -> Inputs \cup {NoInput}]
    /\ needed \in [Requests -> BOOLEAN]

\* TypeOK in its two parts, now and after a step.
LEMMA TypesSplit ==
    /\ TypeOK <=> HandlerTypes /\ OtherTypes
    /\ TypeOK' <=> HandlerTypes' /\ OtherTypes'
BY DEF TypeOK, HandlerTypes, OtherTypes, Stages

\* The step Python records for a call, typed.
LEMMA StepOfTyped ==
    ASSUME NEW r \in Requests, input[r] \in Inputs,
           call[r].row \in 1..Len(input[r].rows), HasDoc(input[r].rows[call[r].row])
    PROVE  StepOf(r) \in Step
<1>1. input[r].rows[call[r].row] \in Workflows
  BY InputFields
<1>2. DocOf[input[r].rows[call[r].row]] \in Docs
  BY <1>1, DocTyped
<1>3. <<r, call[r].row>> \in Requests \X Nat
  BY InputFields
<1> QED BY <1>2, <1>3, InputFields DEF StepOf, Step

\* One step of Node's handler for request r that waits.
LEMMA NodeStepTyped ==
    ASSUME TypeOK, NEW r \in Requests, NodeStep(r), RequestInv(r)
    PROVE  TypeOK'
<1>1. OtherTypes'
  BY DEF NodeStep, Verified, VerifyRefused, Advanced, AdvanceFailed, Timeout, CommitError,
         pythonVars, TypeOK, OtherTypes
<1>2. HandlerTypes'
  <2>0. /\ seen[r] \in Seq(Stages) /\ got[r] \in Seq(Nat) /\ call[r].step \in Nat
        /\ {"ok", "refused", "failed"} \subseteq Answered
    BY DEF TypeOK, Stages, Call, Answered
  <2>1. pc[r] \in Waiting => input[r] \in Inputs
    BY DEF RequestInv, TypeOK, Waiting
  <2>2. CASE Verified(r)
    <3>1. input[r] \in Inputs
      BY <2>1, <2>2 DEF Verified, Waiting
    <3>2. <<>> \in Seq(Nat)
      OBVIOUS
    <3> QED BY <2>0, <2>2, <3>1, <3>2, ContinueTyped, AnswerTyped DEF Verified
  <2>3. CASE VerifyRefused(r)
    BY <2>0, <2>3, AnswerTyped DEF VerifyRefused
  <2>4. CASE Advanced(r)
    <3>1. input[r] \in Inputs
      BY <2>1, <2>4 DEF Advanced, Waiting
    <3>2. Append(got[r], call[r].step) \in Seq(Nat)
      BY <2>0
    <3> QED BY <2>0, <2>4, <3>1, <3>2, ContinueTyped DEF Advanced
  <2>5. CASE AdvanceFailed(r)
    BY <2>0, <2>5, AnswerTyped DEF AdvanceFailed
  <2>6. CASE Timeout(r)
    BY <2>0, <2>6, AnswerTyped DEF Timeout
  <2>7. CASE CommitError(r)
    BY <2>0, <2>7, AnswerTyped DEF CommitError
  <2> QED BY <2>2, <2>3, <2>4, <2>5, <2>6, <2>7 DEF NodeStep
<1> QED BY <1>1, <1>2, TypesSplit

\* The start of a request.
LEMMA StartTyped ==
    ASSUME TypeOK, NEW r \in Requests, NEW i \in Inputs, Start(r, i)
    PROVE  TypeOK'
<1>1. OtherTypes'
  BY DEF Start, pythonVars, TypeOK, OtherTypes, NeedsStepUp
<1>2. HandlerTypes'
  <2> DEFINE rd == IF i.kind = "single" THEN <<stage[i.rows[1]]>> ELSE <<>>
  <2>0. stage \in [Workflows -> Stages] /\ "refused" \in Answered
    BY DEF TypeOK, Stages, Answered
  <2>1. rd \in Seq(Stages)
    <3>1. Len(i.rows) >= 1
      BY InputsAssumption, InputFields
    <3>2. stage[i.rows[1]] \in Stages
      BY <2>0, <3>1, InputFields
    <3> QED BY <3>2
  <2>2. <<>> \in Seq(Nat)
    OBVIOUS
  <2>3. CASE Answer(r, "refused")
    BY <2>0, <2>3, AnswerTyped
  <2>4. CASE /\ pc'   = [pc EXCEPT ![r] = "verifying"]
             /\ seen' = [seen EXCEPT ![r] = rd]
             /\ call' = [call EXCEPT ![r] = [NoCall EXCEPT !.op = "verify", !.st = "sent"]]
             /\ UNCHANGED <<stage, docStatus, journal, restamped, moved, got>>
    <3>1. [NoCall EXCEPT !.op = "verify", !.st = "sent"] \in Call
      BY DEF NoCall, NoStep, Call
    <3> HIDE DEF rd
    <3> QED BY <2>1, <2>4, <3>1 DEF TypeOK, HandlerTypes, Stages
  <2>5. CASE Continue(r, i, rd, <<>>)
    <3> HIDE DEF rd
    <3> QED BY <2>1, <2>2, <2>5, ContinueTyped
  <2> QED BY <2>3, <2>4, <2>5 DEF Start
<1> QED BY <1>1, <1>2, TypesSplit

\* A reply, typed.
LEMMA ReplyTyped ==
    ASSUME call \in [Requests -> Call], NEW r \in Requests,
           NEW st \in {"none", "sent", "checked", "ok", "bad", "cut"}, NEW step \in Nat,
           Reply(r, st, step)
    PROVE  call' \in [Requests -> Call]
<1>1. call[r] \in Call
  OBVIOUS
<1>2. [call[r] EXCEPT !.st = st, !.step = step] \in Call
  BY <1>1 DEF Call
<1>3. call' = [call EXCEPT ![r] = [call[r] EXCEPT !.st = st, !.step = step]]
  BY DEF Reply
<1> QED BY <1>2, <1>3, Zenon

\* Whoever has a call in flight has an input.
LEMMA CallHasInput ==
    ASSUME TypeOK, NEW r \in Requests, RequestInv(r), call[r].op # "none"
    PROVE  input[r] \in Inputs
<1>1. NoCall.op = "none"
  BY DEF NoCall
<1>2. pc[r] # "idle"
  BY <1>1 DEF RequestInv
<1>3. input[r] # NoInput
  BY <1>2 DEF RequestInv
<1> QED BY <1>3 DEF TypeOK

\* One step of Python for the call of request r.
LEMMA PythonStepTyped ==
    ASSUME TypeOK, NEW r \in Requests, PythonStep(r), RequestInv(r)
    PROVE  TypeOK'
<1>0. call \in [Requests -> Call]
  BY DEF TypeOK
<1>1. NoStep \in Nat
  BY DEF NoStep
<1>2. CASE PyVerifyCheck(r) \/ PyFail(r) \/ ReplyCut(r)
  <2>1. call' \in [Requests -> Call]
    BY <1>0, <1>1, <1>2, ReplyTyped DEF PyVerifyCheck, PyFail, ReplyCut
  <2> QED BY <1>2, <2>1 DEF PyVerifyCheck, PyFail, ReplyCut, TypeOK, nodeVars, pythonVars
<1>3. CASE PyVerifyCommit(r)
  <2>1. call' \in [Requests -> Call]
    BY <1>0, <1>1, <1>3, ReplyTyped DEF PyVerifyCommit
  <2>3. input[r] \in Inputs
    BY <1>3, CallHasInput DEF PyVerifyCommit
  <2>4. input[r].user \in Users
    BY <2>3, InputFields
  <2>5. spent' \in [Assertions -> SUBSET Users]
    <3>1. spent \in [Assertions -> SUBSET Users]
      BY DEF TypeOK
    <3>2. \/ spent' = [spent EXCEPT ![input[r].assertion] = {input[r].user}]
          \/ spent' = spent
      BY <1>3 DEF PyVerifyCommit
    <3>3. {input[r].user} \in SUBSET Users
      BY <2>4
    <3> QED BY <3>1, <3>2, <3>3, Zenon
  <2> QED BY <1>3, <2>1, <2>5 DEF PyVerifyCommit, TypeOK, nodeVars
<1>4. CASE PyAdvance(r)
  <2>1. call' \in [Requests -> Call]
    <3>0. steps \in Seq(Step)
      BY DEF TypeOK
    <3>1. Len(steps) + 1 \in Nat
      BY <3>0
    <3>2. Reply(r, "ok", Len(steps) + 1) \/ Reply(r, "bad", NoStep)
      BY <1>4 DEF PyAdvance
    <3> QED BY <1>0, <1>1, <3>1, <3>2, ReplyTyped
  <2>2. input[r] \in Inputs
    BY <1>4, CallHasInput DEF PyAdvance
  <2>3. call[r].row \in 1..Len(input[r].rows) /\ HasDoc(input[r].rows[call[r].row])
    <3>1. /\ call[r].row = Len(got[r]) + 1
          /\ call[r].row <= Len(input[r].rows)
          /\ HasDoc(input[r].rows[call[r].row])
      BY <1>4 DEF PyAdvance, RequestInv
    <3>0. got[r] \in Seq(Nat)
      BY DEF TypeOK
    <3>2. Len(got[r]) \in Nat
      BY <3>0
    <3>3. Len(input[r].rows) \in Nat
      BY <2>2, InputFields
    <3> QED BY <3>1, <3>2, <3>3
  <2>4. StepOf(r) \in Step
    BY <2>2, <2>3, StepOfTyped
  <2>5. steps' \in Seq(Step)
    <3>1. steps \in Seq(Step) /\ steps' = Append(steps, StepOf(r))
      BY <1>4 DEF PyAdvance, TypeOK
    <3> QED BY <2>4, <3>1, AppendProperties
  <2>6. pyStatus' \in [Docs -> PyStatuses]
    <3>1. StepOf(r).action \in Actions /\ StepOf(r).doc \in Docs
      BY <2>4 DEF Step
    <3>2. pyStatus[StepOf(r).doc] \in PyStatuses
      BY <3>1 DEF TypeOK
    <3>3. NextStatus(pyStatus[StepOf(r).doc], StepOf(r).action, StageMap[StepOf(r).action])
            \in PyStatuses
      BY <3>1, <3>2, NextStatusTyped
    <3> QED BY <1>4, <3>1, <3>3 DEF PyAdvance, TypeOK
  <2> QED BY <1>4, <2>1, <2>5, <2>6 DEF PyAdvance, TypeOK, nodeVars
<1> QED BY <1>2, <1>3, <1>4 DEF PythonStep

\* A crash of the Node process, and what the environment does.
LEMMA OtherStepsTyped ==
    ASSUME TypeOK, NodeCrash \/ Environment
    PROVE  TypeOK'
<1>1. CASE NodeCrash
  BY <1>1 DEF NodeCrash, TypeOK, nodeVars, pythonVars
<1>2. CASE \E a \in Assertions : FinishAuthentication(a) \/ Expire(a)
  <2>1. challenge' \in [Assertions -> {"issued", "completed", "expired"}]
    BY <1>2 DEF FinishAuthentication, Expire, TypeOK
  <2>2. UNCHANGED <<nodeVars, config, steps, pyStatus, spent, requestVars>>
    BY <1>2 DEF FinishAuthentication, Expire
  <2> QED BY <2>1, <2>2 DEF TypeOK, nodeVars, requestVars
<1>3. CASE ChangeConfig
  BY <1>3 DEF ChangeConfig, TypeOK, nodeVars, pythonVars, requestVars
<1>4. ASSUME NEW w \in Workflows, CreateWorkflow(w) PROVE TypeOK'
  <2> DEFINE v == IF Published = {} THEN NoVersion ELSE CHOOSE p \in Published : TRUE
  <2>1. v \in Versions \cup {NoVersion}
    BY DEF Published
  <2>2. InitialStage(v) \in StageNames
    <3> HIDE DEF v
    <3> QED BY <2>1, InitialStageNamed
  <2>3. pin' = [pin EXCEPT ![w] = v] /\ stage' = [stage EXCEPT ![w] = InitialStage(v)]
    BY <1>4 DEF CreateWorkflow
  <2> HIDE DEF v
  <2>4. pin' \in [Workflows -> Versions \cup {NoVersion}]
    BY <2>1, <2>3 DEF TypeOK
  <2>5. stage' \in [Workflows -> StageNames \cup {NoStage}]
    BY <2>2, <2>3 DEF TypeOK
  <2>6. UNCHANGED <<vstatus, docStatus, journal, restamped, moved, config, pythonVars, requestVars>>
    BY <1>4 DEF CreateWorkflow
  <2> QED BY <2>4, <2>5, <2>6 DEF TypeOK, pythonVars, requestVars
<1>5. ASSUME NEW v \in Versions, Publish(v) PROVE TypeOK'
  <2>1. vstatus' \in [Versions -> {"draft", "published", "archived"}]
    BY <1>5 DEF Publish, TypeOK
  <2>2. UNCHANGED <<stage, pin, docStatus, journal, restamped, moved, config, pythonVars, requestVars>>
    BY <1>5 DEF Publish
  <2> QED BY <2>1, <2>2 DEF TypeOK, pythonVars, requestVars
<1>6. ASSUME NEW w \in Workflows, NEW s \in LegacyStages, LegacyAction(w, s) PROVE TypeOK'
  <2>1. s \in StageNames
    BY DEF LegacyStages, StageNames
  <2> QED BY <1>6, <2>1 DEF LegacyAction, TypeOK, pythonVars, requestVars
<1>7. ASSUME NEW d \in Docs, NEW u \in Users, NEW a \in Actions, NEW s,
             PyDirectAction(d, u, a, s)
      PROVE  TypeOK'
  <2>1. [doc |-> d, action |-> a, actor |-> u, assertion |-> NoAssertion, by |-> NoBy] \in Step
    BY DEF Step
  <2>2. steps' \in Seq(Step)
    <3>1. /\ steps \in Seq(Step)
          /\ steps' = Append(steps, [doc |-> d, action |-> a, actor |-> u,
                                     assertion |-> NoAssertion, by |-> NoBy])
      BY <1>7 DEF PyDirectAction, TypeOK
    <3> QED BY <2>1, <3>1, AppendProperties
  <2>3. NextStatus(pyStatus[d], a, s) \in PyStatuses
    BY NextStatusTyped DEF TypeOK
  <2>4. pyStatus' \in [Docs -> PyStatuses]
    BY <1>7, <2>3 DEF PyDirectAction, TypeOK
  <2> QED BY <1>7, <2>2, <2>4 DEF PyDirectAction, TypeOK, nodeVars, requestVars
<1>8. ASSUME NEW D \in SUBSET Docs, NEW s \in DocStatuses, SetStatus(D, s) PROVE TypeOK'
  BY <1>8 DEF SetStatus, TypeOK, pythonVars, requestVars
<1>9. ASSUME NEW late \in SUBSET Dated, NEW soon \in SUBSET Dated, ExpiryScan(late, soon)
      PROVE  TypeOK'
  <2>1. docStatus' \in [Docs -> DocStatuses]
    BY <1>9 DEF ExpiryScan, TypeOK, DocStatuses
  <2>2. restamped' \subseteq Docs
    BY <1>9, DocsAssumption DEF ExpiryScan, TypeOK
  <2> QED BY <1>9, <2>1, <2>2 DEF ExpiryScan, TypeOK, pythonVars, requestVars
<1> QED BY <1>1, <1>2, <1>3, <1>4, <1>5, <1>6, <1>7, <1>8, <1>9 DEF Environment

-----------------------------------------------------------------------------
(* Links.  The argument: a step is never taken back, so what a row of a    *)
(* handler or of wf_actions has settled on stays settled; a handler        *)
(* settles its rows in order and commits when all are; and the step names  *)
(* the row of the request it was made for, so two rows cannot share it.    *)

\* What row n of request r with input i must carry, given the table `table`.
SettlesIn(table, i, r, n, s) ==
    IF HasDoc(i.rows[n])
    THEN /\ s \in DOMAIN table
         /\ table[s] = [doc |-> DocOf[i.rows[n]], action |-> i.action, actor |-> i.user,
                        assertion |-> i.assertion, by |-> <<r, n>>]
    ELSE s = NoStep

\* Python's table only grows.
StepsKept == \A s \in DOMAIN steps : s \in DOMAIN steps' /\ steps'[s] = steps[s]

\* Appending keeps the steps there are.
LEMMA AppendKeeps ==
    ASSUME steps \in Seq(Step), NEW s, steps' = Append(steps, s)
    PROVE  StepsKept /\ Len(steps) + 1 \in DOMAIN steps' /\ steps'[Len(steps) + 1] = s
BY DEF StepsKept

\* Settled rows stay settled.
LEMMA SettledStays ==
    ASSUME StepsKept, NEW i, NEW r, NEW n, NEW s, SettlesIn(steps, i, r, n, s)
    PROVE  SettlesIn(steps', i, r, n, s)
BY DEF StepsKept, SettlesIn

\* A request that does not move keeps its invariant.
LEMMA RequestFrame ==
    ASSUME StepsKept, NEW q \in Requests, RequestInv(q),
           pc'[q] = pc[q], input'[q] = input[q], got'[q] = got[q], call'[q] = call[q]
    PROVE  RequestInv(q)'
<1>1. \A n, s : SettlesIn(steps, input[q], q, n, s) => SettlesIn(steps', input[q], q, n, s)
  BY SettledStays
<1> QED BY <1>1 DEF RequestInv, Settles, SettlesIn

\* The wf_actions rows there are stay good while requests that were answered
\* 200 keep their answer and their input.
LEMMA RecordsFrame ==
    ASSUME StepsKept, JournalInv, journal \in Seq(Row),
           \A q \in Requests : pc[q] = "ok" => pc'[q] = "ok" /\ input'[q] = input[q]
    PROVE  \A n \in DOMAIN journal :
              journal'[n] = journal[n] => Records(n)'
<1> SUFFICES ASSUME NEW n \in DOMAIN journal, journal'[n] = journal[n]
             PROVE  Records(n)'
  OBVIOUS
<1> DEFINE q == journal[n].by[1]
           k == journal[n].by[2]
<1>1. q \in Requests
  <2>1. journal[n] \in Row
    OBVIOUS
  <2>2. journal[n].by \in Requests \X Nat
    BY <2>1 DEF Row
  <2> QED BY <2>2
<1>2. Records(n)
  BY DEF JournalInv
<1>3. pc[q] = "ok" /\ SettlesIn(steps, input[q], q, k, journal[n].step)
  BY <1>2 DEF Records, Settles, SettlesIn
<1>4. pc'[q] = "ok" /\ input'[q] = input[q]
  BY <1>1, <1>3
<1>5. SettlesIn(steps', input[q], q, k, journal[n].step)
  BY <1>3, SettledStays
<1> QED BY <1>2, <1>4, <1>5 DEF Records, Settles, SettlesIn

\* The same for the whole table, when it does not change.
LEMMA JournalFrame ==
    ASSUME StepsKept, JournalInv, journal \in Seq(Row), journal' = journal,
           \A q \in Requests : pc[q] = "ok" => pc'[q] = "ok" /\ input'[q] = input[q]
    PROVE  JournalInv'
<1>1. \A n \in DOMAIN journal : Records(n)'
  BY RecordsFrame
<1> QED BY <1>1 DEF JournalInv

\* Where the elements of a concatenation come from.
LEMMA Concatenated ==
    ASSUME NEW S, NEW a \in Seq(S), NEW b \in Seq(S), NEW c, c = a \o b
    PROVE  /\ Len(c) = Len(a) + Len(b) /\ DOMAIN c = 1..(Len(a) + Len(b))
           /\ \A n \in 1..Len(a) : c[n] = a[n]
           /\ \A n \in Len(a) + 1 .. Len(a) + Len(b) : c[n] = b[n - Len(a)]
OBVIOUS

\* Inserting the rows of a settled request.
LEMMA JournalGrows ==
    ASSUME StepsKept, JournalInv, journal \in Seq(Row),
           NEW r \in Requests, NEW i \in Inputs, NEW g \in Seq(Nat), Len(g) = Len(i.rows),
           \A q \in Requests : pc[q] = "ok" => pc'[q] = "ok" /\ input'[q] = input[q],
           pc[r] # "ok", pc'[r] = "ok", input'[r] = i,
           \A n \in 1..Len(i.rows) : SettlesIn(steps', i, r, n, g[n]),
           journal' = journal \o JournalRows(r, i, g)
    PROVE  JournalInv'
<1> DEFINE new == JournalRows(r, i, g)
           L   == Len(journal)
<1>1. /\ new \in Seq(Row) /\ Len(new) = Len(i.rows) /\ Len(i.rows) \in Nat
      /\ L \in Nat /\ DOMAIN journal = 1..L
  BY JournalRowsTyped, InputFields
<1>2. /\ Len(journal') = L + Len(new) /\ DOMAIN journal' = 1..(L + Len(new))
      /\ \A n \in 1..L : journal'[n] = journal[n]
      /\ \A n \in L + 1 .. L + Len(new) : journal'[n] = new[n - L]
  <2> HIDE DEF new
  <2>1. journal \in Seq(Row) /\ new \in Seq(Row) /\ journal' = journal \o new
    BY <1>1 DEF new
  <2> QED BY <2>1, Concatenated
<1>3. \A m \in 1..Len(i.rows) :
         new[m] = [wf |-> i.rows[m], user |-> i.user, action |-> i.action,
                   assertion |-> i.assertion, step |-> g[m], by |-> <<r, m>>]
  BY DEF JournalRows
<1>4. \A n \in 1..L : Records(n)'
  BY <1>1, <1>2, RecordsFrame
<1>5. \A n \in 1..L : journal[n].by[1] # r
  <2>1. ASSUME NEW n \in 1..L PROVE pc[journal[n].by[1]] = "ok"
    <3>1. Records(n)
      BY <1>1 DEF JournalInv
    <3> QED BY <3>1 DEF Records
  <2> QED BY <2>1
<1> HIDE DEF new, L
<1>6. ASSUME NEW n \in L + 1 .. L + Len(new)
      PROVE  Records(n)' /\ journal'[n].by = <<r, n - L>>
  <2>1. PICK k \in 1..Len(i.rows) : k = n - L
    BY <1>1
  <2>2. journal'[n] = [wf |-> i.rows[k], user |-> i.user, action |-> i.action,
                       assertion |-> i.assertion, step |-> g[k], by |-> <<r, k>>]
    BY <1>2, <1>3, <2>1
  <2>3. SettlesIn(steps', i, r, k, g[k])
    BY <2>1
  <2>4. journal'[n].by[1] = r /\ journal'[n].by[2] = k
    BY <2>2
  <2>5. Settles(r, k, g[k])'
    BY <2>3 DEF Settles, SettlesIn
  <2>6. Records(n)'
    BY <2>1, <2>2, <2>4, <2>5 DEF Records
  <2> QED BY <2>1, <2>2, <2>6
<1>7. \A n \in DOMAIN journal' : Records(n)'
  BY <1>1, <1>2, <1>4, <1>6
<1>8. \A m, n \in DOMAIN journal' : journal'[m].by = journal'[n].by => m = n
  <2> SUFFICES ASSUME NEW m \in DOMAIN journal', NEW n \in DOMAIN journal',
                      journal'[m].by = journal'[n].by
               PROVE  m = n
    OBVIOUS
  <2>1. CASE m \in 1..L /\ n \in 1..L
    BY <1>1, <1>2, <2>1 DEF JournalInv
  <2>2. CASE m \in 1..L /\ n \in L + 1 .. L + Len(new)
    <3>1. journal'[m].by[1] # r
      BY <1>2, <1>5, <2>2
    <3>2. journal'[n].by = <<r, n - L>>
      BY <1>6, <2>2
    <3>3. journal'[n].by[1] = r
      BY <3>2
    <3> QED BY <3>1, <3>3
  <2>3. CASE n \in 1..L /\ m \in L + 1 .. L + Len(new)
    <3>1. journal'[n].by[1] # r
      BY <1>2, <1>5, <2>3
    <3>2. journal'[m].by = <<r, m - L>>
      BY <1>6, <2>3
    <3>3. journal'[m].by[1] = r
      BY <3>2
    <3> QED BY <3>1, <3>3
  <2>4. CASE m \in L + 1 .. L + Len(new) /\ n \in L + 1 .. L + Len(new)
    <3>1. <<r, m - L>> = <<r, n - L>>
      BY <1>6, <2>4
    <3> QED BY <1>1, <2>4, <3>1
  <2> QED BY <1>1, <1>2, <2>1, <2>2, <2>3, <2>4
<1> QED BY <1>7, <1>8 DEF JournalInv

Links == (\A q \in Requests : RequestInv(q)) /\ JournalInv

\* Only the locals of request r move.
OthersStill(r) ==
    \A q \in Requests \ {r} :
        pc'[q] = pc[q] /\ input'[q] = input[q] /\ got'[q] = got[q] /\ call'[q] = call[q]

\* A step of one request that inserts no wf_actions row: its own invariant is
\* all there is to show.
LEMMA OneRequest ==
    ASSUME StepsKept, LinkInv, NEW r \in Requests, OthersStill(r), RequestInv(r)',
           pc[r] = "ok" => pc'[r] = "ok" /\ input'[r] = input[r],
           journal' = journal
    PROVE  Links'
<1>1. ASSUME NEW q \in Requests PROVE RequestInv(q)'
  <2>1. CASE q = r
    BY <2>1
  <2>2. CASE q # r
    <3>1. RequestInv(q)
      BY DEF LinkInv
    <3> QED BY <2>2, <3>1, RequestFrame DEF OthersStill
  <2> QED BY <2>1, <2>2
<1>2. \A q \in Requests : pc[q] = "ok" => pc'[q] = "ok" /\ input'[q] = input[q]
  BY DEF OthersStill
<1>3. JournalInv'
  BY <1>2, JournalFrame DEF LinkInv, TypeOK
<1> QED BY <1>1, <1>3 DEF Links

\* The request goes on to the next row that needs a call.
LEMMA SendKeeps ==
    ASSUME LinkInv, NEW r \in Requests, NEW i \in Inputs, NEW rd, NEW g \in Seq(Nat),
           Len(g) <= Len(i.rows),
           \A n \in 1..Len(g) : SettlesIn(steps, i, r, n, g[n]),
           pc[r] # "ok", input'[r] = i, steps' = steps,
           \A q \in Requests \ {r} : input'[q] = input[q],
           NEW k \in NextCall(i, Len(g)),
           SendAdvance(r, rd, SettledUpTo(g, k - 1), k)
    PROVE  Links'
<1> DEFINE h == SettledUpTo(g, k - 1)
<1>1. /\ Len(g) \in Nat /\ k \in 1..Len(i.rows) /\ k >= Len(g) + 1
      /\ HasDoc(i.rows[k])
      /\ \A n \in Len(g) + 1 .. k - 1 : ~HasDoc(i.rows[n])
  BY NextCallBounds
<1>2. /\ Len(h) = k - 1
      /\ \A n \in 1..k - 1 : h[n] = IF n <= Len(g) THEN g[n] ELSE NoStep
  <2>1. k - 1 \in Nat
    BY <1>1
  <2> QED BY <2>1, SettledTyped, Zenon
<1> HIDE DEF h
<1>3. \A n \in 1..k - 1 : SettlesIn(steps', i, r, n, h[n])
  <2> SUFFICES ASSUME NEW n \in 1..k - 1 PROVE SettlesIn(steps', i, r, n, h[n])
    OBVIOUS
  <2>1. CASE n <= Len(g)
    BY <1>1, <1>2, <2>1
  <2>2. CASE n > Len(g)
    <3>1. h[n] = NoStep /\ ~HasDoc(i.rows[n])
      BY <1>1, <1>2, <2>2
    <3> QED BY <3>1 DEF SettlesIn
  <2> QED BY <1>1, <2>1, <2>2
<1>4. /\ pc'[r] = "advancing" /\ got'[r] = h
      /\ call'[r].op = "advance" /\ call'[r].st = "sent" /\ call'[r].row = k
      /\ journal' = journal /\ OthersStill(r)
  <2>1. TypeOK
    BY DEF LinkInv
  <2> QED BY <2>1 DEF h, SendAdvance, TypeOK, OthersStill
<1>5. i # NoInput
  BY InputFields
<1>6. RequestInv(r)'
  <2>1. (\A n \in 1..Len(got[r]) : Settles(r, n, got[r][n]))'
    BY <1>2, <1>3, <1>4 DEF Settles, SettlesIn
  <2> QED BY <1>1, <1>2, <1>4, <1>5, <2>1 DEF RequestInv
<1> QED BY <1>4, <1>6, OneRequest DEF StepsKept

\* The request commits.
LEMMA CommitKeeps ==
    ASSUME LinkInv, NEW r \in Requests, NEW i \in Inputs, NEW rd, NEW g \in Seq(Nat),
           Len(g) <= Len(i.rows),
           \A n \in 1..Len(g) : SettlesIn(steps, i, r, n, g[n]),
           pc[r] # "ok", input'[r] = i, steps' = steps,
           \A q \in Requests \ {r} : input'[q] = input[q],
           NextCall(i, Len(g)) = {},
           Commit(r, i, rd, SettledUpTo(g, Len(i.rows)))
    PROVE  Links'
<1> DEFINE h == SettledUpTo(g, Len(i.rows))
<1>1. /\ Len(g) \in Nat /\ Len(i.rows) \in Nat /\ i # NoInput
      /\ \A n \in Len(g) + 1 .. Len(i.rows) : ~HasDoc(i.rows[n])
  BY InputFields, NoNextCall
<1>2. /\ h \in Seq(Nat) /\ Len(h) = Len(i.rows)
      /\ \A n \in 1..Len(i.rows) : h[n] = IF n <= Len(g) THEN g[n] ELSE NoStep
  BY <1>1, SettledTyped
<1> HIDE DEF h
<1>3. \A n \in 1..Len(i.rows) : SettlesIn(steps', i, r, n, h[n])
  <2> SUFFICES ASSUME NEW n \in 1..Len(i.rows) PROVE SettlesIn(steps', i, r, n, h[n])
    OBVIOUS
  <2>1. CASE n <= Len(g)
    BY <1>1, <1>2, <2>1
  <2>2. CASE n > Len(g)
    <3>1. h[n] = NoStep /\ ~HasDoc(i.rows[n])
      BY <1>1, <1>2, <2>2
    <3> QED BY <3>1 DEF SettlesIn
  <2> QED BY <1>1, <2>1, <2>2
<1>4. /\ pc'[r] = "ok" /\ got'[r] = h /\ call'[r] = NoCall
      /\ journal' = journal \o JournalRows(r, i, h) /\ OthersStill(r)
  <2>1. TypeOK
    BY DEF LinkInv
  <2> QED BY <2>1 DEF h, Commit, TypeOK, OthersStill
<1>5. StepsKept
  BY DEF StepsKept
<1>6. RequestInv(r)'
  <2>1. (\A n \in 1..Len(got[r]) : Settles(r, n, got[r][n]))'
    BY <1>2, <1>3, <1>4 DEF Settles, SettlesIn
  <2>2. pc'[r] = "ok" /\ input'[r] # NoInput /\ call'[r].op = "none"
    BY <1>1, <1>4 DEF NoCall
  <2>3. Len(got'[r]) <= Len(input'[r].rows)
    BY <1>1, <1>2, <1>4
  <2> QED BY <2>1, <2>2, <2>3 DEF RequestInv
<1>7. \A q \in Requests : RequestInv(q)'
  <2>1. ASSUME NEW q \in Requests \ {r} PROVE RequestInv(q)'
    <3>1. RequestInv(q)
      BY DEF LinkInv
    <3> QED BY <1>4, <1>5, <3>1, RequestFrame DEF OthersStill
  <2> QED BY <1>6, <2>1
<1>8. \A q \in Requests : pc[q] = "ok" => pc'[q] = "ok" /\ input'[q] = input[q]
  BY <1>4 DEF OthersStill
<1>9. JournalInv'
  <2>1. JournalInv /\ journal \in Seq(Row)
    BY DEF LinkInv, TypeOK
  <2> QED BY <1>2, <1>3, <1>4, <1>5, <1>8, <2>1, JournalGrows
<1> QED BY <1>7, <1>9 DEF Links

\* Either way.
LEMMA ContinueKeeps ==
    ASSUME LinkInv, NEW r \in Requests, NEW i \in Inputs, NEW rd, NEW g \in Seq(Nat),
           Len(g) <= Len(i.rows),
           \A n \in 1..Len(g) : SettlesIn(steps, i, r, n, g[n]),
           pc[r] # "ok", input'[r] = i, steps' = steps,
           \A q \in Requests \ {r} : input'[q] = input[q],
           Continue(r, i, rd, g)
    PROVE  Links'
<1>1. CASE \E k \in NextCall(i, Len(g)) :
              SendAdvance(r, ReadUpTo(i, rd, k), SettledUpTo(g, k - 1), k)
  BY <1>1, SendKeeps
<1>2. CASE /\ NextCall(i, Len(g)) = {}
           /\ Commit(r, i, ReadUpTo(i, rd, Len(i.rows)), SettledUpTo(g, Len(i.rows)))
  BY <1>2, CommitKeeps
<1> QED BY <1>1, <1>2, Zenon DEF Continue

\* A request is answered without a decision.
LEMMA AnswerKeeps ==
    ASSUME LinkInv, NEW r \in Requests, NEW how \in {"refused", "failed"},
           pc[r] \in Waiting, Answer(r, how), UNCHANGED <<input, steps>>
    PROVE  Links'
<1>1. pc'[r] = how /\ journal' = journal /\ OthersStill(r)
  BY DEF Answer, LinkInv, TypeOK, OthersStill
<1>2. RequestInv(r) /\ StepsKept
  BY DEF LinkInv, StepsKept
<1>3. RequestInv(r)'
  BY <1>1, <1>2 DEF RequestInv, Settles, Answer, Waiting
<1> QED BY <1>1, <1>2, <1>3, OneRequest DEF Waiting

\* A request that waits has an input.
LEMMA ActiveInput ==
    ASSUME LinkInv, NEW r \in Requests, pc[r] \in Waiting
    PROVE  input[r] \in Inputs /\ got[r] \in Seq(Nat)
BY DEF LinkInv, TypeOK, RequestInv, Waiting

\* A new request.
LEMMA StartLinks ==
    ASSUME LinkInv, NEW r \in Requests, NEW i \in Inputs, Start(r, i)
    PROVE  Links'
<1>1. /\ pc[r] = "idle" /\ got[r] = <<>> /\ call[r] = NoCall
      /\ input'[r] = i /\ steps' = steps
      /\ \A q \in Requests \ {r} : input'[q] = input[q]
      /\ i # NoInput
  BY InputFields DEF Start, LinkInv, TypeOK, RequestInv, pythonVars
<1>2. StepsKept
  BY <1>1 DEF StepsKept
<1>3. CASE Answer(r, "refused")
  <2>1. pc'[r] = "refused" /\ got'[r] = <<>> /\ call'[r] = NoCall /\ journal' = journal
    BY <1>1, <1>3 DEF Answer, LinkInv, TypeOK
  <2>2. OthersStill(r)
    BY <1>1, <1>3 DEF Answer, LinkInv, TypeOK, OthersStill
  <2>3. RequestInv(r)'
    BY <1>1, <2>1 DEF RequestInv, NoCall
  <2> QED BY <1>1, <1>2, <2>1, <2>2, <2>3, OneRequest
<1>4. CASE /\ pc'   = [pc EXCEPT ![r] = "verifying"]
           /\ call' = [call EXCEPT ![r] = [NoCall EXCEPT !.op = "verify", !.st = "sent"]]
           /\ UNCHANGED <<journal, got>>
  <2>1. pc'[r] = "verifying" /\ got'[r] = <<>> /\ call'[r].op = "verify" /\ journal' = journal
    BY <1>1, <1>4 DEF LinkInv, TypeOK, NoCall
  <2>2. OthersStill(r)
    BY <1>1, <1>4 DEF LinkInv, TypeOK, OthersStill
  <2>3. RequestInv(r)'
    BY <1>1, <2>1 DEF RequestInv
  <2> QED BY <1>1, <1>2, <2>1, <2>2, <2>3, OneRequest
<1>5. ASSUME NEW rd, Continue(r, i, rd, <<>>)
      PROVE  Links'
  <2>1. Len(<<>>) <= Len(i.rows) /\ <<>> \in Seq(Nat)
    BY InputFields
  <2>2. \A n \in 1..Len(<<>>) : SettlesIn(steps, i, r, n, <<>>[n])
    OBVIOUS
  <2> QED BY <1>1, <1>5, <2>1, <2>2, ContinueKeeps
<1> QED BY <1>3, <1>4, <1>5, Zenon DEF Start

\* What a request's own step does to the links.
LEMMA NodeStepLinks ==
    ASSUME LinkInv, NEW r \in Requests, NodeStep(r)
    PROVE  Links'
<1>1. UNCHANGED <<input, steps>>
  BY DEF NodeStep, Verified, VerifyRefused, Advanced, AdvanceFailed, Timeout, CommitError,
         pythonVars
<1>2. RequestInv(r)
  BY DEF LinkInv
<1>3. CASE \E how \in {"refused", "failed"} : pc[r] \in Waiting /\ Answer(r, how)
  BY <1>1, <1>3, AnswerKeeps
<1>4. CASE Verified(r) /\ Continue(r, input[r], seen[r], <<>>)
  <2>1. pc[r] = "verifying"
    BY <1>4 DEF Verified
  <2>2. input[r] \in Inputs
    BY <2>1, ActiveInput DEF Waiting
  <2>3. Len(<<>>) <= Len(input[r].rows) /\ <<>> \in Seq(Nat)
    BY <2>2, InputFields
  <2>4. \A n \in 1..Len(<<>>) : SettlesIn(steps, input[r], r, n, <<>>[n])
    OBVIOUS
  <2> QED BY <1>1, <1>4, <2>1, <2>2, <2>3, <2>4, ContinueKeeps
<1>5. CASE Advanced(r)
  <2>1. pc[r] = "advancing" /\ call[r].st = "ok" /\ call[r].op = "advance"
    BY <1>2, <1>5 DEF Advanced, RequestInv
  <2>2. input[r] \in Inputs /\ got[r] \in Seq(Nat)
    BY <2>1, ActiveInput DEF Waiting
  <2>3. call[r].step \in Nat
    BY DEF LinkInv, TypeOK, Call
  <2> DEFINE g == Append(got[r], call[r].step)
  <2>4. /\ g \in Seq(Nat) /\ Len(g) = Len(got[r]) + 1 /\ Len(got[r]) \in Nat
        /\ g[Len(got[r]) + 1] = call[r].step
        /\ \A n \in 1..Len(got[r]) : g[n] = got[r][n]
    BY <2>2, <2>3, AppendProperties
  <2> HIDE DEF g
  <2>5. /\ call[r].row = Len(got[r]) + 1 /\ Len(got[r]) + 1 <= Len(input[r].rows)
        /\ SettlesIn(steps, input[r], r, Len(got[r]) + 1, call[r].step)
        /\ \A n \in 1..Len(got[r]) : SettlesIn(steps, input[r], r, n, got[r][n])
    BY <1>2, <2>1 DEF RequestInv, Settles, SettlesIn
  <2>6. ASSUME NEW n \in 1..Len(g) PROVE SettlesIn(steps, input[r], r, n, g[n])
    <3>1. CASE n = Len(got[r]) + 1
      BY <2>4, <2>5, <3>1
    <3>2. CASE n # Len(got[r]) + 1
      <4>1. n \in 1..Len(got[r])
        BY <2>4, <3>2
      <4>2. g[n] = got[r][n]
        BY <2>4, <4>1
      <4> QED BY <2>5, <4>1, <4>2
    <3> QED BY <3>1, <3>2
  <2>7. Continue(r, input[r], seen[r], g)
    BY <1>5 DEF Advanced, g
  <2> QED BY <1>1, <2>1, <2>2, <2>4, <2>5, <2>6, <2>7, ContinueKeeps
<1> QED BY <1>3, <1>4, <1>5 DEF NodeStep, Verified, VerifyRefused, AdvanceFailed, Timeout,
           CommitError, Active, Waiting

\* A reply changes the state of the call and the step it brings.
LEMMA ReplyFields ==
    ASSUME LinkInv, NEW r \in Requests, NEW st, NEW n, Reply(r, st, n)
    PROVE  /\ call'[r].st = st /\ call'[r].step = n
           /\ call'[r].op = call[r].op /\ call'[r].row = call[r].row
           /\ \A q \in Requests \ {r} : call'[q] = call[q]
<1>1. call[r] \in Call /\ call \in [Requests -> Call]
  BY DEF LinkInv, TypeOK
<1> QED BY <1>1 DEF Reply, Call

\* What Python does for a request.
LEMMA PythonStepLinks ==
    ASSUME LinkInv, NEW r \in Requests, PythonStep(r)
    PROVE  Links'
<1>1. /\ UNCHANGED <<journal, pc, input, needed, seen, got>>
      /\ \E n : \E st \in {"checked", "bad", "ok", "cut"} : Reply(r, st, n)
  BY DEF PythonStep, PyVerifyCheck, PyVerifyCommit, PyAdvance, PyFail,
         ReplyCut, nodeVars
<1>2. OthersStill(r)
  BY <1>1 DEF Reply, LinkInv, TypeOK, OthersStill
<1>3. /\ call'[r].op = call[r].op /\ call'[r].row = call[r].row
      /\ RequestInv(r) /\ call[r] # NoCall
  <2>1. call[r] \in Call /\ call \in [Requests -> Call]
    BY DEF LinkInv, TypeOK
  <2>2. call[r].st \in {"sent", "checked", "ok", "bad"}
    BY DEF PythonStep, PyVerifyCheck, PyVerifyCommit, PyAdvance, PyFail, ReplyCut
  <2> QED BY <1>1, <2>1, <2>2 DEF LinkInv, Reply, Call, NoCall
<1>4. CASE PyAdvance(r)
  <2> DEFINE t == StepOf(r)
             k == Len(steps) + 1
  <2>1. steps \in Seq(Step) /\ steps' = Append(steps, t) /\ call[r].op = "advance"
    BY <1>4 DEF PyAdvance, LinkInv, TypeOK
  <2>2. StepsKept /\ k \in DOMAIN steps' /\ steps'[k] = t
    <3> HIDE DEF t
    <3> QED BY <2>1, AppendKeeps
  <2>3. call'[r].st = "ok" => call'[r].step = k
    <3>1. Reply(r, "ok", k) \/ Reply(r, "bad", NoStep)
      BY <1>4 DEF PyAdvance
    <3> QED BY <3>1, ReplyFields
  <2>4. HasDoc(input[r].rows[call[r].row])
    BY <1>3, <2>1 DEF RequestInv
  <2>5. SettlesIn(steps', input[r], r, call[r].row, k)
    BY <2>2, <2>4 DEF SettlesIn, StepOf
  <2>6. \A n \in 1..Len(got[r]) : Settles(r, n, got[r][n]) =>
                                   SettlesIn(steps', input[r], r, n, got[r][n])
    BY <2>2, SettledStays DEF Settles, SettlesIn
  <2>7. RequestInv(r)'
    <3> HIDE DEF k
    <3> QED BY <1>1, <1>3, <2>1, <2>3, <2>5, <2>6 DEF RequestInv, Settles, SettlesIn
  <2> QED BY <1>1, <1>2, <2>2, <2>7, OneRequest
<1>5. CASE ~PyAdvance(r)
  <2>1. /\ steps' = steps /\ StepsKept
        /\ call[r].op = "advance" => call'[r].st # "ok"
    <3>1. steps' = steps
      BY <1>5 DEF PythonStep, PyVerifyCheck, PyVerifyCommit, PyFail, ReplyCut, pythonVars
    <3>2. ASSUME call[r].op = "advance" PROVE \E st \in {"bad", "cut"} : Reply(r, st, NoStep)
      BY <1>5, <3>2 DEF PythonStep, PyVerifyCheck, PyVerifyCommit, PyFail, ReplyCut
    <3> QED BY <3>1, <3>2, ReplyFields DEF StepsKept
  <2>2. RequestInv(r)'
    BY <1>1, <1>3, <2>1 DEF RequestInv, Settles
  <2> QED BY <1>1, <1>2, <2>1, <2>2, OneRequest
<1> QED BY <1>4, <1>5

\* The steps of no request, and stuttering.
LEMMA OtherLinks ==
    ASSUME LinkInv, NodeCrash \/ Environment \/ UNCHANGED vars
    PROVE  Links'
<1>1. UNCHANGED <<journal, input, got, call>>
  BY DEF NodeCrash, Environment, FinishAuthentication, Expire, ChangeConfig, CreateWorkflow,
         Publish, LegacyAction, PyDirectAction, SetStatus, ExpiryScan, vars,
         nodeVars, requestVars
<1>2. StepsKept
  <2>1. CASE steps' = steps
    BY <2>1 DEF StepsKept
  <2>2. CASE \E t : steps' = Append(steps, t)
    <3>1. steps \in Seq(Step)
      BY DEF LinkInv, TypeOK
    <3>2. PICK t : steps' = Append(steps, t)
      BY <2>2
    <3> QED BY <3>1, <3>2, AppendKeeps
  <2> QED BY <2>1, <2>2
      DEF NodeCrash, Environment, FinishAuthentication, Expire, ChangeConfig, CreateWorkflow,
          Publish, LegacyAction, PyDirectAction, SetStatus, ExpiryScan, vars, pythonVars
<1>3. ASSUME NEW q \in Requests
      PROVE  /\ RequestInv(q)'
             /\ pc[q] = "ok" => pc'[q] = "ok" /\ input'[q] = input[q]
  <2>1. RequestInv(q)
    BY DEF LinkInv
  <2>2. CASE UNCHANGED pc
    BY <1>1, <1>2, <2>1, <2>2, RequestFrame
  <2>3. CASE NodeCrash
    <3>1. pc'[q] = IF pc[q] \in Waiting THEN "crashed" ELSE pc[q]
      BY <2>3 DEF NodeCrash, Active
    <3>2. steps' = steps
      BY <2>3 DEF NodeCrash, pythonVars
    <3>3. RequestInv(q)'
      BY <1>1, <2>1, <3>1, <3>2 DEF RequestInv, Settles, Waiting
    <3> QED BY <1>1, <3>1, <3>3 DEF Waiting
  <2> QED BY <2>2, <2>3
      DEF Environment, FinishAuthentication, Expire, ChangeConfig, CreateWorkflow,
          Publish, LegacyAction, PyDirectAction, SetStatus, ExpiryScan, vars,
         requestVars
<1>4. JournalInv'
  BY <1>1, <1>2, <1>3, JournalFrame DEF LinkInv, TypeOK
<1> QED BY <1>3, <1>4 DEF Links

-----------------------------------------------------------------------------
(* The theorems of types and links.                                       *)

\* The first state has no request, no step and no row.
LEMMA InitLinks == Init => LinkInv
<1> SUFFICES ASSUME Init PROVE LinkInv
  OBVIOUS
<1>1. TypeOK
  <2>1. "Maker Review" \in StageNames /\ "captured" \in PyStatuses
    BY DEF StageNames, PyStatuses
  <2>2. NoCall \in Call
    BY DEF NoCall, Call, NoStep
  <2>3. /\ stage \in [Workflows -> StageNames \cup {NoStage}]
        /\ call \in [Requests -> Call] /\ pyStatus \in [Docs -> PyStatuses]
    BY <2>1, <2>2 DEF Init
  <2>4. journal \in Seq(Row) /\ steps \in Seq(Step)
    <3>1. journal = <<>> /\ steps = <<>>
      BY DEF Init
    <3> QED BY <3>1, EmptySeq
  <2>5. /\ pin \in [Workflows -> Versions \cup {NoVersion}]
        /\ vstatus \in [Versions -> {"draft", "published", "archived"}]
        /\ docStatus \in [Docs -> DocStatuses]
        /\ restamped \subseteq Docs /\ moved \subseteq Workflows
        /\ config \in Configs
        /\ challenge \in [Assertions -> {"issued", "completed", "expired"}]
        /\ spent \in [Assertions -> SUBSET Users]
    BY DEF Init, DocStatuses
  <2>6. /\ pc \in [Requests -> {"idle", "verifying", "advancing", "crashed"} \cup Answered]
        /\ input \in [Requests -> Inputs \cup {NoInput}]
        /\ needed \in [Requests -> BOOLEAN]
    BY DEF Init
  <2>7. /\ seen \in [Requests -> Seq(StageNames \cup {NoStage})]
        /\ got \in [Requests -> Seq(Nat)]
    <3>1. <<>> \in Seq(StageNames \cup {NoStage}) /\ <<>> \in Seq(Nat)
      BY EmptySeq
    <3> QED BY <3>1, Zenon DEF Init
  <2> QED BY <2>3, <2>4, <2>5, <2>6, <2>7 DEF TypeOK
<1>2. ASSUME NEW r \in Requests PROVE RequestInv(r)
  <2>1. /\ pc[r] = "idle" /\ input[r] = NoInput /\ got[r] = <<>> /\ call[r] = NoCall
        /\ NoCall.op = "none"
    BY DEF Init, NoCall
  <2> QED BY <2>1 DEF RequestInv
<1>3. JournalInv
  <2>1. journal = <<>>
    BY DEF Init
  <2> QED BY <2>1 DEF JournalInv
<1> QED BY <1>1, <1>2, <1>3 DEF LinkInv

\* Every step keeps the inductive invariant.
LEMMA NextLinks == LinkInv /\ [Next]_vars => LinkInv'
<1> SUFFICES ASSUME LinkInv, [Next]_vars PROVE LinkInv'
  OBVIOUS
<1>1. TypeOK /\ \A r \in Requests : RequestInv(r)
  BY DEF LinkInv
<1>2. ASSUME NEW r \in Requests, NEW i \in Inputs, Start(r, i) PROVE LinkInv'
  <2>1. Links'
    BY <1>2, StartLinks
  <2> QED BY <1>1, <1>2, <2>1, StartTyped DEF LinkInv, Links
<1>3. ASSUME NEW r \in Requests, NodeStep(r) PROVE LinkInv'
  <2>1. Links'
    BY <1>3, NodeStepLinks
  <2> QED BY <1>1, <1>3, <2>1, NodeStepTyped DEF LinkInv, Links
<1>4. ASSUME NEW r \in Requests, PythonStep(r) PROVE LinkInv'
  <2>1. Links'
    BY <1>4, PythonStepLinks
  <2> QED BY <1>1, <1>4, <2>1, PythonStepTyped DEF LinkInv, Links
<1>5. CASE NodeCrash \/ Environment \/ UNCHANGED vars
  <2>1. Links'
    BY <1>5, OtherLinks
  <2>2. ASSUME UNCHANGED vars PROVE TypeOK'
    BY <1>1, <2>2 DEF TypeOK, vars, nodeVars, pythonVars, requestVars
  <2> QED BY <1>1, <1>5, <2>1, <2>2, OtherStepsTyped DEF LinkInv, Links
<1> QED BY <1>2, <1>3, <1>4, <1>5 DEF Next

\* LinkInv is an invariant.
THEOREM LinkInvariant == Spec => []LinkInv
BY InitLinks, NextLinks, PTL DEF Spec

\* Types.
THEOREM TypeCorrect == Spec => []TypeOK
<1>1. LinkInv => TypeOK
  BY DEF LinkInv
<1> QED BY <1>1, LinkInvariant, PTL

\* A wf_actions row cites a workflow_steps row of its own document, action,
\* actor and assertion, and shares it with no other row: for any number of
\* requests, whatever calls fail, time out or interleave, and with the routes
\* that write steps of their own running.
THEOREM LinkedSteps == Spec => []LinkedStep
<1>1. LinkInv => LinkedStep
  <2> SUFFICES ASSUME LinkInv PROVE LinkedStep
    OBVIOUS
  <2>2. ASSUME NEW n \in DOMAIN journal
        PROVE  IF HasDoc(journal[n].wf)
               THEN /\ journal[n].step \in DOMAIN steps
                    /\ steps[journal[n].step].doc       = DocOf[journal[n].wf]
                    /\ steps[journal[n].step].action    = journal[n].action
                    /\ steps[journal[n].step].actor     = journal[n].user
                    /\ steps[journal[n].step].assertion = journal[n].assertion
                    /\ steps[journal[n].step].by = <<journal[n].by[1], journal[n].by[2]>>
               ELSE journal[n].step = NoStep
    <3>1. Records(n)
      BY DEF LinkInv, JournalInv
    <3>2. SettlesIn(steps, input[journal[n].by[1]], journal[n].by[1], journal[n].by[2],
                    journal[n].step)
      BY <3>1 DEF Records, Settles, SettlesIn
    <3>3. /\ journal[n].wf = input[journal[n].by[1]].rows[journal[n].by[2]]
          /\ journal[n].user = input[journal[n].by[1]].user
          /\ journal[n].action = input[journal[n].by[1]].action
          /\ journal[n].assertion = input[journal[n].by[1]].assertion
      BY <3>1 DEF Records
    <3> QED BY <3>2, <3>3 DEF SettlesIn
  <2>3. ASSUME NEW m \in DOMAIN journal, NEW n \in DOMAIN journal,
               m # n, journal[m].step = journal[n].step, journal[n].step # NoStep
        PROVE  FALSE
    <3>1. <<journal[m].by[1], journal[m].by[2]>> = <<journal[n].by[1], journal[n].by[2]>>
      BY <2>2, <2>3
    <3>2. journal \in Seq(Row)
      BY DEF LinkInv, TypeOK
    <3>3. journal[m].by \in Requests \X Nat /\ journal[n].by \in Requests \X Nat
      <4>1. journal[m] \in Row /\ journal[n] \in Row
        BY <3>2, <2>3
      <4> QED BY <4>1 DEF Row
    <3>4. /\ journal[m].by = <<journal[m].by[1], journal[m].by[2]>>
          /\ journal[n].by = <<journal[n].by[1], journal[n].by[2]>>
      BY <3>3
    <3>5. journal[m].by = journal[n].by
      BY <3>1, <3>4, Zenon
    <3> QED BY <2>3, <3>5 DEF LinkInv, JournalInv
  <2> QED BY <2>2, <2>3 DEF LinkedStep
<1> QED BY <1>1, LinkInvariant, PTL

-----------------------------------------------------------------------------
(* Pins.                                                                   *)

LEMMA PublishedVersions == Published \in SUBSET Versions
BY DEF Published

LEMMA PinsStill == PinsFrozen /\ UNCHANGED <<pin, vstatus>> => PinsFrozen'
BY DEF PinsFrozen, Published

LEMMA PinsCreate == \A w \in Workflows : TypeOK /\ PinsFrozen /\ CreateWorkflow(w) => PinsFrozen'
<1> SUFFICES ASSUME NEW w \in Workflows, TypeOK, PinsFrozen, CreateWorkflow(w) PROVE PinsFrozen'
  OBVIOUS
<1>1. PICK v : /\ v = (IF Published = {} THEN NoVersion ELSE CHOOSE p \in Published : TRUE)
               /\ pin' = [pin EXCEPT ![w] = v]
  BY DEF CreateWorkflow
<1>2. v = NoVersion \/ v \in Published
  BY <1>1
<1>3. vstatus' = vstatus /\ pin \in [Workflows -> Versions \cup {NoVersion}]
  BY DEF CreateWorkflow, TypeOK
<1>4. \A x \in Workflows : pin'[x] # NoVersion => vstatus'[pin'[x]] # "draft"
  BY <1>1, <1>2, <1>3 DEF PinsFrozen, Published
<1>5. \A x, y \in Published : x = y
  BY DEF PinsFrozen
<1> QED BY <1>3, <1>4, <1>5 DEF PinsFrozen, Published

LEMMA PinsPublish == \A v \in Versions : TypeOK /\ PinsFrozen /\ Publish(v) => PinsFrozen'
<1> SUFFICES ASSUME NEW v \in Versions, TypeOK, PinsFrozen, Publish(v) PROVE PinsFrozen'
  OBVIOUS
<1>1. /\ vstatus[v] = "draft" /\ pin' = pin
      /\ \A u \in Versions : vstatus'[u] = IF u = v THEN "published"
                                           ELSE IF vstatus[u] = "published" THEN "archived"
                                           ELSE vstatus[u]
  BY DEF Publish
<1>2. \A w \in Workflows : pin[w] # NoVersion => pin[w] \in Versions /\ vstatus[pin[w]] # "draft"
  BY DEF PinsFrozen, TypeOK
<1>3. \A w \in Workflows : pin'[w] # NoVersion => vstatus'[pin'[w]] # "draft"
  BY <1>1, <1>2
<1>4. Published' = {v}
  BY <1>1 DEF Published
<1> QED BY <1>3, <1>4 DEF PinsFrozen

LEMMA PinsKept == TypeOK /\ PinsFrozen /\ [Next]_vars => PinsFrozen'
<1> SUFFICES ASSUME TypeOK, PinsFrozen, [Next]_vars PROVE PinsFrozen'
  OBVIOUS
<1>1. CASE \E r \in Requests, i \in Inputs : Start(r, i)
  BY <1>1, PinsStill DEF Start
<1>2. CASE \E r \in Requests : NodeStep(r)
  BY <1>2, PinsStill DEF NodeStep, Verified, VerifyRefused, Advanced, AdvanceFailed, Timeout,
                         CommitError
<1>3. CASE \E r \in Requests : PythonStep(r)
  BY <1>3, PinsStill DEF PythonStep, PyVerifyCheck, PyVerifyCommit, PyAdvance, PyFail,
         ReplyCut, nodeVars
<1>4. CASE NodeCrash \/ UNCHANGED vars
  BY <1>4, PinsStill DEF NodeCrash, vars, nodeVars
<1>5. CASE Environment
  <2>1. CASE \E w \in Workflows : CreateWorkflow(w)
    BY <2>1, PinsCreate
  <2>2. CASE \E v \in Versions : Publish(v)
    BY <2>2, PinsPublish
  <2>3. CASE UNCHANGED <<pin, vstatus>>
    BY <2>3, PinsStill
  <2> QED BY <1>5, <2>1, <2>2, <2>3
      DEF Environment, FinishAuthentication, Expire, ChangeConfig, LegacyAction, PyDirectAction,
          SetStatus, ExpiryScan, nodeVars
<1> QED BY <1>1, <1>2, <1>3, <1>4, <1>5 DEF Next

\* A workflow is pinned to no draft, and one version at most is published:
\* POST /workflows and the publish handler, in any order.
THEOREM PinsStayFrozen == Spec => []PinsFrozen
<1>1. Init => PinsFrozen
  <2> SUFFICES ASSUME Init PROVE PinsFrozen
    OBVIOUS
  <2>1. \A v \in Versions : vstatus[v] = "draft"
    BY DEF Init
  <2>2. \A w \in Workflows : pin[w] = NoVersion
    BY DEF Init
  <2> QED BY <2>1, <2>2 DEF PinsFrozen, Published
<1> QED BY <1>1, PinsKept, TypeCorrect, PTL DEF Spec

-----------------------------------------------------------------------------
(* Who made a step of Python's table, and who passed a verification.       *)

\* Step s is known to the handler of r: as the step of a settled row, as the
\* answer of the call in flight, or not at all when that call failed.
StepKnown(r, s) ==
    LET k == steps[s].by[2]
    IN  \/ k \in 1..Len(got[r]) /\ got[r][k] = s
        \/ /\ call[r].op = "advance" /\ call[r].row = k /\ call[r].st # "sent"
           /\ call[r].st = "ok" => call[r].step = s

OwnedInv ==
    \A s \in DOMAIN steps : steps[s].by # NoBy => StepKnown(steps[s].by[1], s)

\* r went past the point where an assertion is verified.
Past(r) == call[r].op = "advance" \/ pc[r] = "ok"

\* r holds its assertion: its verification is confirmed, or it went on with it.
Holds(r) ==
    \/ call[r].op = "verify" /\ call[r].st = "ok"
    \/ /\ Past(r)
       /\ needed[r] \/ input[r].kind = "bulk"
       /\ input[r].assertion # NoAssertion

SpentBy(r) ==
    /\ spent[input[r].assertion] = {input[r].user}
    /\ AssertionOwner[input[r].assertion] = input[r].user

PassedInv(r) ==
    /\ pc[r] = "ok" => call[r] = NoCall /\ Len(got[r]) = Len(input[r].rows)
    /\ got[r] # <<>> => Past(r)
    /\ call[r].op = "verify" => input[r].assertion # NoAssertion
    /\ call[r].op = "verify" /\ call[r].st = "checked" =>
          AssertionOwner[input[r].assertion] = input[r].user
    /\ Past(r) /\ needed[r] => input[r].assertion # NoAssertion
    /\ Holds(r) => SpentBy(r)

UniqueInv ==
    \A r1, r2 \in Requests :
        r1 # r2 /\ Holds(r1) /\ Holds(r2) => input[r1].assertion # input[r2].assertion

\* Every row of a request answered 200 is in wf_actions.
RowsInv ==
    \A r \in Requests : pc[r] = "ok" =>
        \A k \in 1..Len(input[r].rows) :
            \E n \in DOMAIN journal : journal[n].by = <<r, k>> /\ journal[n].step = got[r][k]

Decided == OwnedInv /\ (\A r \in Requests : PassedInv(r)) /\ UniqueInv /\ RowsInv

DecisionInv == LinkInv /\ Decided

-----------------------------------------------------------------------------
(* What one request's step leaves of it.                                   *)

\* Nothing of another request moves.
Moved(r) ==
    \A q \in Requests \ {r} :
        /\ pc'[q] = pc[q] /\ input'[q] = input[q] /\ needed'[q] = needed[q]
        /\ got'[q] = got[q] /\ call'[q] = call[q]

\* An assertion is spent once.
SpentKept == \A a \in Assertions : spent[a] # {} => spent'[a] = spent[a]

JournalKept == \A n \in DOMAIN journal : n \in DOMAIN journal' /\ journal'[n] = journal[n]

\* A request that holds an assertion has an input.
LEMMA HolderInput ==
    ASSUME LinkInv, NEW r \in Requests, PassedInv(r), Holds(r)
    PROVE  /\ input[r] \in Inputs /\ input[r].assertion \in Assertions
           /\ pc[r] # "idle"
<1>1. RequestInv(r)
  BY DEF LinkInv
<1>2. NoCall.op = "none"
  BY DEF NoCall
<1>3. pc[r] # "idle"
  BY <1>1, <1>2 DEF RequestInv, Holds, Past
<1>4. input[r] \in Inputs
  BY <1>1, <1>3 DEF RequestInv, LinkInv, TypeOK
<1>5. input[r].assertion # NoAssertion
  BY DEF Holds, PassedInv
<1> QED BY <1>3, <1>4, <1>5, InputFields

LEMMA PassedFrame ==
    ASSUME LinkInv, SpentKept, NEW q \in Requests, PassedInv(q),
           pc'[q] = pc[q], input'[q] = input[q], needed'[q] = needed[q],
           got'[q] = got[q], call'[q] = call[q]
    PROVE  PassedInv(q)' /\ (Holds(q)' <=> Holds(q))
<1>1. Holds(q)' <=> Holds(q)
  BY DEF Holds, Past
<1>2. Holds(q) => SpentBy(q)'
  <2> SUFFICES ASSUME Holds(q) PROVE SpentBy(q)'
    OBVIOUS
  <2>1. input[q].assertion \in Assertions
    BY HolderInput
  <2>2. SpentBy(q)
    BY DEF PassedInv
  <2>3. {input[q].user} # {}
    OBVIOUS
  <2> QED BY <2>1, <2>2, <2>3 DEF SpentBy, SpentKept
<1>3. Past(q)' <=> Past(q)
  BY DEF Past
<1> QED BY <1>1, <1>2, <1>3 DEF PassedInv

\* The owner of a step.
LEMMA Owner ==
    ASSUME LinkInv, NEW s \in DOMAIN steps, steps[s].by # NoBy
    PROVE  steps[s].by[1] \in Requests /\ steps[s].by \in Requests \X Nat
<1>0. steps \in Seq(Step)
  BY DEF LinkInv, TypeOK
<1>1. steps[s] \in Step
  BY <1>0, ElementOfSeq
<1>2. steps[s].by \in Requests \X Nat
  BY <1>1 DEF Step
<1> QED BY <1>2

LEMMA OwnedFrame ==
    ASSUME LinkInv, OwnedInv, NEW r \in Requests, steps' = steps, Moved(r),
           \A s \in DOMAIN steps : StepKnown(r, s) => StepKnown(r, s)'
    PROVE  OwnedInv'
<1> SUFFICES ASSUME NEW s \in DOMAIN steps, steps[s].by # NoBy
             PROVE  StepKnown(steps[s].by[1], s)'
  BY DEF OwnedInv
<1>1. PICK q \in Requests : q = steps[s].by[1]
  BY Owner
<1>2. StepKnown(q, s)
  BY <1>1 DEF OwnedInv
<1>3. CASE q = r
  BY <1>1, <1>2, <1>3
<1>4. CASE q # r
  BY <1>1, <1>2, <1>4 DEF StepKnown, Moved
<1> QED BY <1>3, <1>4

LEMMA UniqueFrame ==
    ASSUME LinkInv, \A q \in Requests : PassedInv(q), UniqueInv, NEW r \in Requests,
           \A q \in Requests \ {r} : (Holds(q)' <=> Holds(q)) /\ input'[q] = input[q],
           Holds(r)' => \/ Holds(r) /\ input'[r] = input[r]
                        \/ spent[input'[r].assertion] = {}
    PROVE  UniqueInv'
<1>1. ASSUME NEW q \in Requests, Holds(q), spent[input[q].assertion] = {} PROVE FALSE
  <2>1. SpentBy(q)
    BY <1>1 DEF PassedInv
  <2> QED BY <1>1, <2>1 DEF SpentBy
<1>2. ASSUME NEW q \in Requests, q # r, Holds(q)', Holds(r)', input'[q].assertion = input'[r].assertion
      PROVE  FALSE
  <2>1. Holds(q) /\ input'[q] = input[q]
    BY <1>2
  <2>2. CASE Holds(r) /\ input'[r] = input[r]
    BY <1>2, <2>1, <2>2 DEF UniqueInv
  <2>3. CASE spent[input'[r].assertion] = {}
    BY <1>1, <1>2, <2>1, <2>3
  <2> QED BY <1>2, <2>2, <2>3
<1>3. ASSUME NEW p \in Requests \ {r}, NEW q \in Requests \ {r}, p # q, Holds(p)', Holds(q)',
             input'[p].assertion = input'[q].assertion
      PROVE  FALSE
  BY <1>3 DEF UniqueInv
<1>4. ASSUME NEW p \in Requests, NEW q \in Requests, p # q, Holds(p)', Holds(q)',
             input'[p].assertion = input'[q].assertion
      PROVE  FALSE
  <2>1. CASE p = r
    BY <1>2, <1>4, <2>1
  <2>2. CASE q = r
    BY <1>2, <1>4, <2>2
  <2>3. CASE p # r /\ q # r
    BY <1>3, <1>4, <2>3
  <2> QED BY <2>1, <2>2, <2>3
<1> QED BY <1>4 DEF UniqueInv

LEMMA RowsFrame ==
    ASSUME RowsInv, JournalKept, NEW r \in Requests, Moved(r),
           pc'[r] = "ok" =>
              \A k \in 1..Len(input'[r].rows) :
                 \E n \in DOMAIN journal' : journal'[n].by = <<r, k>> /\ journal'[n].step = got'[r][k]
    PROVE  RowsInv'
<1> SUFFICES ASSUME NEW q \in Requests, pc'[q] = "ok", NEW k \in 1..Len(input'[q].rows)
             PROVE  \E n \in DOMAIN journal' :
                       journal'[n].by = <<q, k>> /\ journal'[n].step = got'[q][k]
  BY DEF RowsInv
<1>1. CASE q = r
  BY <1>1
<1>2. CASE q # r
  <2>1. pc[q] = "ok" /\ input'[q] = input[q] /\ got'[q] = got[q]
    BY <1>2 DEF Moved
  <2>2. PICK n \in DOMAIN journal : journal[n].by = <<q, k>> /\ journal[n].step = got[q][k]
    BY <2>1 DEF RowsInv
  <2> QED BY <2>1, <2>2 DEF JournalKept
<1> QED BY <1>1, <1>2

\* A step of r that adds no step to Python's table.
LEMMA OneDecision ==
    ASSUME DecisionInv, NEW r \in Requests, Moved(r), steps' = steps, SpentKept, JournalKept,
           PassedInv(r)',
           \A s \in DOMAIN steps : StepKnown(r, s) => StepKnown(r, s)',
           Holds(r)' => \/ Holds(r) /\ input'[r] = input[r]
                        \/ spent[input'[r].assertion] = {},
           pc'[r] = "ok" =>
              \A k \in 1..Len(input'[r].rows) :
                 \E n \in DOMAIN journal' : journal'[n].by = <<r, k>> /\ journal'[n].step = got'[r][k]
    PROVE  Decided'
<1>1. LinkInv /\ OwnedInv /\ UniqueInv /\ RowsInv /\ \A q \in Requests : PassedInv(q)
  BY DEF DecisionInv, Decided
<1>2. ASSUME NEW q \in Requests \ {r}
      PROVE  PassedInv(q)' /\ (Holds(q)' <=> Holds(q)) /\ input'[q] = input[q]
  BY <1>1, PassedFrame DEF Moved
<1>3. OwnedInv'
  BY <1>1, OwnedFrame
<1>4. UniqueInv'
  BY <1>1, <1>2, UniqueFrame
<1>5. RowsInv'
  BY <1>1, RowsFrame
<1>6. \A q \in Requests : PassedInv(q)'
  <2> SUFFICES ASSUME NEW q \in Requests PROVE PassedInv(q)'
    OBVIOUS
  <2> QED BY <1>2
<1> QED BY <1>3, <1>4, <1>5, <1>6 DEF Decided

\* Where Continue leaves the handler of r: waiting for an answer, or done.
LEMMA ContinueEffect ==
    ASSUME LinkInv, NEW r \in Requests, NEW i \in Inputs, NEW rd, NEW g \in Seq(Nat),
           Len(g) <= Len(i.rows), Continue(r, i, rd, g)
    PROVE  /\ \/ /\ pc'[r] = "advancing" /\ call'[r].op = "advance" /\ call'[r].st = "sent"
                 /\ journal' = journal
              \/ /\ pc'[r] = "ok" /\ call'[r] = NoCall /\ Len(got'[r]) = Len(i.rows)
                 /\ journal' = journal \o JournalRows(r, i, got'[r])
           /\ got'[r] \in Seq(Nat) /\ Len(got'[r]) >= Len(g)
           /\ \A k \in 1..Len(g) : got'[r][k] = g[k]
           /\ \A q \in Requests \ {r} : pc'[q] = pc[q] /\ got'[q] = got[q] /\ call'[q] = call[q]
<1>1. TypeOK /\ Len(g) \in Nat /\ Len(i.rows) \in Nat
  BY InputFields DEF LinkInv
<1>2. ASSUME NEW k \in NextCall(i, Len(g)),
             SendAdvance(r, ReadUpTo(i, rd, k), SettledUpTo(g, k - 1), k)
      PROVE  /\ pc'[r] = "advancing" /\ call'[r].op = "advance" /\ call'[r].st = "sent"
             /\ journal' = journal
             /\ got'[r] \in Seq(Nat) /\ Len(got'[r]) >= Len(g)
             /\ \A n \in 1..Len(g) : got'[r][n] = g[n]
             /\ \A q \in Requests \ {r} : pc'[q] = pc[q] /\ got'[q] = got[q] /\ call'[q] = call[q]
  <2>1. k - 1 \in Nat /\ k - 1 >= Len(g)
    BY <1>1, NextCallBounds
  <2>2. PICK h : h = SettledUpTo(g, k - 1)
    OBVIOUS
  <2>3. /\ h \in Seq(Nat) /\ Len(h) = k - 1
        /\ \A n \in 1..k - 1 : h[n] = IF n <= Len(g) THEN g[n] ELSE NoStep
    <3>1. PICK m \in Nat : m = k - 1
      BY <2>1
    <3>2. /\ SettledUpTo(g, m) \in Seq(Nat) /\ Len(SettledUpTo(g, m)) = m
          /\ \A n \in 1..m : SettledUpTo(g, m)[n] = IF n <= Len(g) THEN g[n] ELSE NoStep
      BY SettledTyped, Zenon
    <3> QED BY <2>2, <3>1, <3>2, Zenon
  <2>4. Len(h) >= Len(g) /\ \A n \in 1..Len(g) : h[n] = g[n]
    BY <1>1, <2>1, <2>3
  <2>5. /\ pc'[r] = "advancing" /\ call'[r].op = "advance" /\ call'[r].st = "sent"
        /\ journal' = journal /\ got'[r] = h
        /\ \A q \in Requests \ {r} : pc'[q] = pc[q] /\ got'[q] = got[q] /\ call'[q] = call[q]
    BY <1>1, <1>2, <2>2 DEF SendAdvance, TypeOK
  <2> QED BY <2>3, <2>4, <2>5
<1>3. ASSUME Commit(r, i, ReadUpTo(i, rd, Len(i.rows)), SettledUpTo(g, Len(i.rows)))
      PROVE  /\ pc'[r] = "ok" /\ call'[r] = NoCall /\ Len(got'[r]) = Len(i.rows)
             /\ journal' = journal \o JournalRows(r, i, got'[r])
             /\ got'[r] \in Seq(Nat) /\ Len(got'[r]) >= Len(g)
             /\ \A n \in 1..Len(g) : got'[r][n] = g[n]
             /\ \A q \in Requests \ {r} : pc'[q] = pc[q] /\ got'[q] = got[q] /\ call'[q] = call[q]
  <2>2. PICK h : h = SettledUpTo(g, Len(i.rows))
    OBVIOUS
  <2>3. /\ h \in Seq(Nat) /\ Len(h) = Len(i.rows)
        /\ \A n \in 1..Len(i.rows) : h[n] = IF n <= Len(g) THEN g[n] ELSE NoStep
    <3>1. PICK m \in Nat : m = Len(i.rows)
      BY <1>1
    <3>2. /\ SettledUpTo(g, m) \in Seq(Nat) /\ Len(SettledUpTo(g, m)) = m
          /\ \A n \in 1..m : SettledUpTo(g, m)[n] = IF n <= Len(g) THEN g[n] ELSE NoStep
      BY SettledTyped, Zenon
    <3> QED BY <2>2, <3>1, <3>2, Zenon
  <2>4. Len(h) >= Len(g) /\ \A n \in 1..Len(g) : h[n] = g[n]
    <3>1. Len(h) >= Len(g)
      BY <2>3
    <3>2. \A n \in 1..Len(g) : n \in 1..Len(i.rows) /\ n <= Len(g)
      BY <1>1
    <3> QED BY <2>3, <3>1, <3>2, Zenon
  <2>5. /\ pc'[r] = "ok" /\ call'[r] = NoCall
        /\ journal' = journal \o JournalRows(r, i, h) /\ got'[r] = h
        /\ \A q \in Requests \ {r} : pc'[q] = pc[q] /\ got'[q] = got[q] /\ call'[q] = call[q]
    BY <1>1, <1>3, <2>2 DEF Commit, TypeOK
  <2> QED BY <2>3, <2>4, <2>5
<1>4. CASE \E k \in NextCall(i, Len(g)) :
              SendAdvance(r, ReadUpTo(i, rd, k), SettledUpTo(g, k - 1), k)
  <2>1. PICK k \in NextCall(i, Len(g)) :
              SendAdvance(r, ReadUpTo(i, rd, k), SettledUpTo(g, k - 1), k)
    BY <1>4
  <2> QED BY <1>2, <2>1
<1>5. CASE Commit(r, i, ReadUpTo(i, rd, Len(i.rows)), SettledUpTo(g, Len(i.rows)))
  BY <1>3, <1>5
<1> QED BY <1>4, <1>5, Zenon DEF Continue

\* The journal keeps its rows, and a commit adds one for each row of its input.
LEMMA CommitRows ==
    ASSUME LinkInv, NEW r \in Requests, NEW i \in Inputs, NEW g \in Seq(Nat),
           Len(g) = Len(i.rows), journal' = journal \o JournalRows(r, i, g)
    PROVE  /\ JournalKept
           /\ \A k \in 1..Len(i.rows) :
                 \E n \in DOMAIN journal' : journal'[n].by = <<r, k>> /\ journal'[n].step = g[k]
           /\ \A n \in DOMAIN journal' : n \notin DOMAIN journal => journal'[n].by[1] = r
<1>1. journal \in Seq(Row) /\ Len(i.rows) \in Nat
  BY InputFields DEF LinkInv, TypeOK
<1>2. PICK new : new = JournalRows(r, i, g)
  OBVIOUS
<1>3. new \in Seq(Row) /\ Len(new) = Len(i.rows)
  BY <1>2, JournalRowsTyped
<1>4. PICK L : L = Len(journal)
  OBVIOUS
<1>5. /\ DOMAIN journal' = 1..(L + Len(new)) /\ DOMAIN journal = 1..L /\ L \in Nat
      /\ \A n \in 1..L : journal'[n] = journal[n]
      /\ \A n \in L + 1 .. L + Len(new) : journal'[n] = new[n - L]
  <2>1. journal' = journal \o new
    BY <1>2
  <2>2. /\ DOMAIN journal' = 1..(Len(journal) + Len(new))
        /\ \A n \in 1..Len(journal) : journal'[n] = journal[n]
        /\ \A n \in Len(journal) + 1 .. Len(journal) + Len(new) : journal'[n] = new[n - Len(journal)]
    <3>1. journal \in Seq(Row) /\ new \in Seq(Row) /\ journal' = journal \o new
      BY <1>1, <1>3, <2>1
    <3> QED BY <3>1, Concatenated
  <2>3. DOMAIN journal = 1..Len(journal) /\ Len(journal) \in Nat
    BY <1>1, LenProperties
  <2> QED BY <1>4, <2>2, <2>3
<1>6. \A m \in 1..Len(i.rows) : new[m].by = <<r, m>> /\ new[m].step = g[m]
  BY <1>2 DEF JournalRows
<1>7. JournalKept
  BY <1>1, <1>3, <1>5 DEF JournalKept
<1>8. ASSUME NEW k \in 1..Len(i.rows)
      PROVE  \E n \in DOMAIN journal' : journal'[n].by = <<r, k>> /\ journal'[n].step = g[k]
  <2>1. L + k \in DOMAIN journal' /\ journal'[L + k] = new[k]
    BY <1>1, <1>3, <1>5
  <2> QED BY <1>6, <2>1
<1>9. ASSUME NEW n \in DOMAIN journal', n \notin DOMAIN journal PROVE journal'[n].by[1] = r
  <2>1. PICK m \in 1..Len(i.rows) : m = n - L
    BY <1>1, <1>3, <1>5, <1>9
  <2>2. journal'[n] = new[m]
    BY <1>1, <1>3, <1>5, <1>9, <2>1
  <2> QED BY <1>6, <2>2
<1> QED BY <1>7, <1>8, <1>9

\* Going on, with the rows of g settled.  What the handler knew of its steps it
\* still knows, and it goes past the verification only with its assertion.
LEMMA ContinueDecides ==
    ASSUME DecisionInv, NEW r \in Requests, NEW i \in Inputs, NEW rd, NEW g \in Seq(Nat),
           Len(g) <= Len(i.rows), Continue(r, i, rd, g),
           input'[r] = i, UNCHANGED <<steps, spent>>, 
           \A q \in Requests \ {r} : input'[q] = input[q] /\ needed'[q] = needed[q],
           \A s \in DOMAIN steps : StepKnown(r, s) =>
               steps[s].by[2] \in 1..Len(g) /\ g[steps[s].by[2]] = s,
           (needed'[r] \/ i.kind = "bulk") /\ i.assertion # NoAssertion =>
               Holds(r) /\ input[r] = i,
           needed'[r] => i.assertion # NoAssertion
    PROVE  Decided'
<1>1. LinkInv
  BY DEF DecisionInv
<1>2. /\ \/ /\ pc'[r] = "advancing" /\ call'[r].op = "advance" /\ call'[r].st = "sent"
            /\ journal' = journal
         \/ /\ pc'[r] = "ok" /\ call'[r] = NoCall /\ Len(got'[r]) = Len(i.rows)
            /\ journal' = journal \o JournalRows(r, i, got'[r])
      /\ got'[r] \in Seq(Nat) /\ Len(got'[r]) >= Len(g)
      /\ \A k \in 1..Len(g) : got'[r][k] = g[k]
      /\ \A q \in Requests \ {r} : pc'[q] = pc[q] /\ got'[q] = got[q] /\ call'[q] = call[q]
  BY <1>1, ContinueEffect
<1>3. Moved(r) /\ steps' = steps /\ SpentKept
  BY <1>2 DEF Moved, SpentKept
<1>4. NoCall.op = "none" /\ Len(g) \in Nat /\ Len(got'[r]) \in Nat
  BY <1>2 DEF NoCall
<1>5. JournalKept /\
      (pc'[r] = "ok" => \A k \in 1..Len(i.rows) :
          \E n \in DOMAIN journal' : journal'[n].by = <<r, k>> /\ journal'[n].step = got'[r][k])
  <2>1. CASE journal' = journal /\ pc'[r] = "advancing"
    BY <2>1 DEF JournalKept
  <2>2. CASE pc'[r] = "ok" /\ Len(got'[r]) = Len(i.rows)
             /\ journal' = journal \o JournalRows(r, i, got'[r])
    <3>1. PICK h \in Seq(Nat) : h = got'[r]
      BY <1>2
    <3> QED BY <1>1, <2>2, <3>1, CommitRows
  <2> QED BY <1>2, <2>1, <2>2
<1>6. Holds(r)' => Holds(r) /\ input'[r] = input[r]
  BY <1>2, <1>4 DEF Holds
<1>7. Past(r)'
  BY <1>2 DEF Past
<1>8. \A s \in DOMAIN steps : StepKnown(r, s) => StepKnown(r, s)'
  <2> SUFFICES ASSUME NEW s \in DOMAIN steps, StepKnown(r, s) PROVE StepKnown(r, s)'
    OBVIOUS
  <2>1. PICK k : k = steps[s].by[2]
    OBVIOUS
  <2>2. k \in 1..Len(g) /\ g[k] = s
    BY <2>1
  <2>3. k \in 1..Len(got'[r]) /\ got'[r][k] = s
    BY <1>2, <1>4, <2>2
  <2> QED BY <1>3, <2>1, <2>3 DEF StepKnown
<1>9. PassedInv(r)'
  <2>1. Holds(r) /\ input'[r] = input[r] => SpentBy(r)'
    <3>1. Holds(r) => SpentBy(r)
      BY DEF DecisionInv, Decided, PassedInv
    <3> QED BY <3>1 DEF SpentBy
  <2> QED BY <1>2, <1>4, <1>6, <1>7, <2>1 DEF PassedInv
<1> QED BY <1>3, <1>5, <1>6, <1>8, <1>9, OneDecision

-----------------------------------------------------------------------------
(* The steps.                                                              *)

LEMMA InitDecides == Init => DecisionInv
<1> SUFFICES ASSUME Init PROVE DecisionInv
  OBVIOUS
<1>1. /\ steps = <<>> /\ NoCall.op = "none"
      /\ \A r \in Requests : pc[r] = "idle" /\ got[r] = <<>> /\ call[r] = NoCall
  BY DEF Init, NoCall
<1>2. \A r \in Requests : ~Holds(r) /\ ~Past(r)
  BY <1>1 DEF Holds, Past
<1>3. \A r \in Requests : PassedInv(r)
  BY <1>1, <1>2 DEF PassedInv
<1>4. OwnedInv
  <2>1. DOMAIN steps = {}
    BY <1>1
  <2> QED BY <2>1 DEF OwnedInv
<1>5. UniqueInv /\ RowsInv
  BY <1>1, <1>2 DEF UniqueInv, RowsInv
<1> QED BY <1>3, <1>4, <1>5, InitLinks DEF DecisionInv, Decided

\* What DecisionInv says of one request, idle, waiting or not.
LEMMA DecisionParts ==
    ASSUME DecisionInv, NEW r \in Requests
    PROVE  /\ TypeOK /\ RequestInv(r) /\ PassedInv(r)
           /\ pc[r] = "idle" => got[r] = <<>> /\ call[r] = NoCall
           /\ pc[r] = "idle" \/ pc[r] = "verifying" => \A s \in DOMAIN steps : ~StepKnown(r, s)
<1>1. TypeOK /\ RequestInv(r) /\ PassedInv(r)
  BY DEF DecisionInv, Decided, LinkInv
<1>2. NoCall.op = "none"
  BY DEF NoCall
<1>3. pc[r] = "idle" => got[r] = <<>> /\ call[r] = NoCall
  BY <1>1 DEF RequestInv
<1>4. ASSUME got[r] = <<>>, call[r].op # "advance", NEW s \in DOMAIN steps, StepKnown(r, s)
      PROVE  FALSE
  <2>1. PICK k : k = steps[s].by[2]
    OBVIOUS
  <2>2. k \in 1..Len(got[r])
    BY <1>4, <2>1 DEF StepKnown
  <2> QED BY <1>4, <2>2
<1>5. pc[r] = "verifying" => got[r] = <<>> /\ call[r].op = "verify"
  BY <1>1 DEF RequestInv
<1> QED BY <1>1, <1>2, <1>3, <1>4, <1>5

\* An answer without a decision, from a request that waits.
LEMMA AnswerDecides ==
    ASSUME DecisionInv, NEW r \in Requests, NEW how \in {"refused", "failed"}, pc[r] \in Waiting,
           Answer(r, how), UNCHANGED <<input, needed, steps, spent>>
    PROVE  Decided'
<1>1. TypeOK /\ PassedInv(r)
  BY DecisionParts
<1>2. /\ pc'[r] = how /\ got'[r] = got[r] /\ call'[r] = call[r] /\ input'[r] = input[r]
      /\ needed'[r] = needed[r] /\ journal' = journal /\ Moved(r)
  BY <1>1 DEF Answer, TypeOK, Moved
<1>3. pc[r] # "ok" /\ pc'[r] # "ok"
  BY <1>2 DEF Waiting
<1>4. (Past(r)' <=> Past(r)) /\ (Holds(r)' <=> Holds(r)) /\ (SpentBy(r)' <=> SpentBy(r))
  BY <1>2, <1>3 DEF Past, Holds, SpentBy
<1>5. PassedInv(r)'
  BY <1>1, <1>2, <1>3, <1>4 DEF PassedInv
<1>6. \A s \in DOMAIN steps : StepKnown(r, s) => StepKnown(r, s)'
  BY <1>2 DEF StepKnown
<1>7. SpentKept /\ JournalKept
  BY <1>2 DEF SpentKept, JournalKept
<1> QED BY <1>2, <1>3, <1>4, <1>5, <1>6, <1>7, OneDecision

LEMMA StartDecides ==
    ASSUME DecisionInv, NEW r \in Requests, NEW i \in Inputs, Start(r, i)
    PROVE  Decided'
<1>1. /\ TypeOK /\ pc[r] = "idle" /\ got[r] = <<>> /\ call[r] = NoCall
      /\ \A s \in DOMAIN steps : ~StepKnown(r, s)
  BY DecisionParts DEF Start
<1>2. /\ input'[r] = i /\ needed'[r] = NeedsStepUp(config) /\ UNCHANGED <<steps, spent>>
      /\ \A q \in Requests \ {r} : input'[q] = input[q] /\ needed'[q] = needed[q]
  BY <1>1 DEF Start, TypeOK, pythonVars
<1>3. NoCall.op = "none" /\ SpentKept
  BY <1>2 DEF NoCall, SpentKept
<1>4. CASE Answer(r, "refused")
  <2>1. /\ pc'[r] = "refused" /\ got'[r] = <<>> /\ call'[r] = NoCall /\ journal' = journal
        /\ Moved(r)
    BY <1>1, <1>2, <1>4 DEF Answer, TypeOK, Moved
  <2>2. ~Past(r)' /\ ~Holds(r)'
    BY <1>3, <2>1 DEF Past, Holds
  <2>3. PassedInv(r)' /\ JournalKept
    BY <1>3, <2>1, <2>2 DEF PassedInv, JournalKept
  <2> QED BY <1>1, <1>2, <1>3, <2>1, <2>2, <2>3, OneDecision
<1>5. CASE /\ WillVerify(i)
           /\ pc'   = [pc EXCEPT ![r] = "verifying"]
           /\ call' = [call EXCEPT ![r] = [NoCall EXCEPT !.op = "verify", !.st = "sent"]]
           /\ UNCHANGED <<journal, got>>
  <2>1. /\ pc'[r] = "verifying" /\ got'[r] = <<>> /\ journal' = journal
        /\ call'[r].op = "verify" /\ call'[r].st = "sent" /\ Moved(r)
    BY <1>1, <1>2, <1>5 DEF NoCall, TypeOK, Moved
  <2>2. ~Past(r)' /\ ~Holds(r)'
    BY <2>1 DEF Past, Holds
  <2>3. i.assertion # NoAssertion
    BY <1>5 DEF WillVerify
  <2>4. PassedInv(r)' /\ JournalKept
    BY <1>2, <2>1, <2>2, <2>3 DEF PassedInv, JournalKept
  <2> QED BY <1>1, <1>2, <1>3, <2>1, <2>2, <2>4, OneDecision
<1>6. ASSUME NEW rd, ~RefusedFirst(i), ~WillVerify(i), Continue(r, i, rd, <<>>)
      PROVE  Decided'
  <2>1. PICK g : g = <<>>
    OBVIOUS
  <2>0. g \in Seq(Nat) /\ Len(g) = 0 /\ Len(g) <= Len(i.rows)
    BY InputFields, <2>1
  <2>2. Continue(r, i, rd, g)
    BY <1>6, <2>1
  <2>3. needed'[r] => i.assertion # NoAssertion
    BY <1>2, <1>6 DEF RefusedFirst, MissesStepUp
  <2>4. ~((needed'[r] \/ i.kind = "bulk") /\ i.assertion # NoAssertion)
    BY <1>2, <1>6 DEF WillVerify
  <2> QED BY <1>1, <1>2, <2>0, <2>2, <2>3, <2>4, ContinueDecides
<1> QED BY <1>4, <1>5, <1>6, Zenon DEF Start

LEMMA NodeStepDecides ==
    ASSUME DecisionInv, NEW r \in Requests, NodeStep(r)
    PROVE  Decided'
<1>1. TypeOK /\ RequestInv(r) /\ PassedInv(r)
  BY DecisionParts
<1>2. UNCHANGED <<input, needed, steps, spent>>
  BY DEF NodeStep, Verified, VerifyRefused, Advanced, AdvanceFailed, Timeout, CommitError,
         pythonVars
<1>3. CASE \E how \in {"refused", "failed"} : pc[r] \in Waiting /\ Answer(r, how)
  BY <1>2, <1>3, AnswerDecides
<1>4. CASE Verified(r) /\ Continue(r, input[r], seen[r], <<>>)
  <2>1. pc[r] = "verifying" /\ call[r].st = "ok" /\ call[r].op = "verify"
    BY <1>1, <1>4 DEF Verified, RequestInv
  <2>2. input[r] \in Inputs
    BY <2>1, ActiveInput DEF Waiting, DecisionInv
  <2>3. PICK g : g = <<>>
    OBVIOUS
  <2>0. g \in Seq(Nat) /\ Len(g) = 0 /\ Len(g) <= Len(input[r].rows)
    BY <2>2, InputFields, <2>3
  <2>4. Holds(r) /\ input[r].assertion # NoAssertion
    BY <1>1, <2>1 DEF Holds, PassedInv
  <2>5. \A s \in DOMAIN steps : ~StepKnown(r, s)
    BY <2>1, DecisionParts
  <2>6. Continue(r, input[r], seen[r], g)
    BY <1>4, <2>3
  <2> QED BY <1>2, <2>0, <2>2, <2>4, <2>5, <2>6, ContinueDecides
<1>5. CASE Advanced(r)
  <2>1. pc[r] = "advancing" /\ call[r].st = "ok" /\ call[r].op = "advance"
    BY <1>1, <1>5 DEF Advanced, RequestInv
  <2>2. input[r] \in Inputs /\ got[r] \in Seq(Nat) /\ call[r].step \in Nat
    <3>1. call[r] \in Call
      BY <1>1 DEF TypeOK
    <3> QED BY <2>1, <3>1, ActiveInput DEF Waiting, DecisionInv, Call
  <2>3. PICK g : g = Append(got[r], call[r].step)
    OBVIOUS
  <2>4. /\ g \in Seq(Nat) /\ Len(g) = Len(got[r]) + 1 /\ Len(got[r]) \in Nat
        /\ g[Len(got[r]) + 1] = call[r].step
        /\ \A n \in 1..Len(got[r]) : g[n] = got[r][n]
    BY <2>2, <2>3, AppendProperties
  <2>5. call[r].row = Len(got[r]) + 1 /\ Len(g) <= Len(input[r].rows)
    BY <1>1, <2>1, <2>4 DEF RequestInv
  <2>6. ASSUME NEW s \in DOMAIN steps, StepKnown(r, s)
        PROVE  steps[s].by[2] \in 1..Len(g) /\ g[steps[s].by[2]] = s
    <3>1. PICK k : k = steps[s].by[2]
      OBVIOUS
    <3>2. \/ k \in 1..Len(got[r]) /\ got[r][k] = s
          \/ call[r].row = k /\ call[r].step = s
      BY <2>1, <2>6, <3>1 DEF StepKnown
    <3>3. k \in 1..Len(g) /\ g[k] = s
      BY <2>4, <2>5, <3>2
    <3> QED BY <3>1, <3>3
  <2>7. (needed[r] \/ input[r].kind = "bulk") /\ input[r].assertion # NoAssertion => Holds(r)
    BY <2>1 DEF Holds, Past
  <2>8. needed[r] => input[r].assertion # NoAssertion
    BY <1>1, <2>1 DEF PassedInv, Past
  <2>9. Continue(r, input[r], seen[r], g)
    BY <1>5, <2>3 DEF Advanced
  <2> QED BY <1>2, <2>2, <2>4, <2>5, <2>6, <2>7, <2>8, <2>9, ContinueDecides
<1> QED BY <1>3, <1>4, <1>5 DEF NodeStep, Verified, VerifyRefused, AdvanceFailed, Timeout,
           CommitError, Active, Waiting

LEMMA PythonStepDecides ==
    ASSUME DecisionInv, NEW r \in Requests, PythonStep(r)
    PROVE  Decided'
<1>1. TypeOK /\ RequestInv(r) /\ PassedInv(r) /\ LinkInv
  BY DecisionParts DEF DecisionInv
<1>2. UNCHANGED <<journal, pc, input, needed, got>>
  BY DEF PythonStep, PyVerifyCheck, PyVerifyCommit, PyAdvance, PyFail,
         ReplyCut, nodeVars
<1>3. /\ call'[r].op = call[r].op /\ call'[r].row = call[r].row
      /\ \A q \in Requests \ {r} : call'[q] = call[q]
  <2>1. \E n : \E st \in {"checked", "bad", "ok", "cut"} : Reply(r, st, n)
    BY DEF PythonStep, PyVerifyCheck, PyVerifyCommit, PyAdvance, PyFail, ReplyCut
  <2> QED BY <1>1, <2>1, ReplyFields
<1>4. Moved(r) /\ JournalKept
  BY <1>2, <1>3 DEF Moved, JournalKept
<1>5. Past(r)' <=> Past(r)
  BY <1>2, <1>3 DEF Past
<1>6. pc[r] # "ok" /\ call[r] # NoCall
  <2>1. call[r].st \in {"sent", "checked", "ok", "bad"}
    BY DEF PythonStep, PyVerifyCheck, PyVerifyCommit, PyAdvance, PyFail, ReplyCut
  <2>2. call[r] # NoCall
    BY <2>1 DEF NoCall
  <2> QED BY <1>1, <2>2 DEF PassedInv
\* The clauses of PassedInv a reply may disturb.
<1>7. ASSUME call'[r].op = "verify" /\ call'[r].st = "checked" =>
                AssertionOwner[input[r].assertion] = input[r].user,
             Holds(r)' => SpentBy(r)'
      PROVE  PassedInv(r)'
  BY <1>1, <1>2, <1>3, <1>5, <1>6, <1>7 DEF PassedInv
<1>8. CASE PyAdvance(r)
  <2>1. /\ call[r].op = "advance" /\ call[r].st = "sent" /\ spent' = spent
        /\ steps' = Append(steps, StepOf(r)) /\ steps \in Seq(Step)
        /\ Reply(r, "ok", Len(steps) + 1) \/ Reply(r, "bad", NoStep)
    BY <1>1, <1>8 DEF PyAdvance, TypeOK
  <2>2. /\ call'[r].st \in {"ok", "bad"}
        /\ call'[r].st = "ok" => call'[r].step = Len(steps) + 1
    BY <1>1, <2>1, ReplyFields
  <2>3. Holds(r)' <=> Holds(r)
    BY <1>2, <1>3, <1>5, <2>1 DEF Holds
  <2>4. PassedInv(r)'
    <3>1. Holds(r) => SpentBy(r)'
      BY <1>1, <1>2, <2>1 DEF PassedInv, SpentBy
    <3> QED BY <1>3, <1>7, <2>1, <2>3, <3>1
  <2>5. SpentKept
    BY <2>1 DEF SpentKept
  <2>6. ASSUME NEW q \in Requests \ {r}
        PROVE  PassedInv(q)' /\ (Holds(q)' <=> Holds(q)) /\ input'[q] = input[q]
    BY <1>1, <1>4, <2>5, PassedFrame DEF Moved, DecisionInv, Decided
  <2>7. OwnedInv'
    <3>1. PICK t : t = StepOf(r)
      OBVIOUS
    <3>2. PICK L : L = Len(steps) + 1
      OBVIOUS
    <3>3. StepsKept /\ L \in DOMAIN steps' /\ steps'[L] = t
      BY <2>1, <3>1, <3>2, AppendKeeps
    <3>4. \A s \in DOMAIN steps' : s \in DOMAIN steps \/ s = L
      BY <2>1, <3>2, AppendProperties
    <3>5. t.by = <<r, call[r].row>>
      BY <3>1 DEF StepOf
    <3>6. StepKnown(r, L)'
      BY <1>3, <2>1, <2>2, <3>2, <3>3, <3>5 DEF StepKnown
    <3>7. ASSUME NEW s \in DOMAIN steps, steps[s].by # NoBy PROVE StepKnown(steps[s].by[1], s)'
      <4>1. PICK q \in Requests : q = steps[s].by[1]
        BY <1>1, <3>7, Owner
      <4>2. StepKnown(q, s) /\ steps'[s] = steps[s]
        BY <3>3, <3>7, <4>1 DEF StepsKept, DecisionInv, Decided, OwnedInv
      <4>3. CASE q = r
        BY <1>2, <2>1, <4>1, <4>2, <4>3 DEF StepKnown
      <4>4. CASE q # r
        BY <1>4, <4>1, <4>2, <4>4 DEF StepKnown, Moved
      <4> QED BY <4>3, <4>4
    <3>8. ASSUME NEW s \in DOMAIN steps', steps'[s].by # NoBy
          PROVE  StepKnown(steps[s].by[1], s)'
      <4>1. CASE s = L
        <5>1. steps'[s].by[1] = r
          BY <3>3, <3>5, <4>1
        <5> QED BY <3>6, <4>1, <5>1
      <4>2. CASE s \in DOMAIN steps
        <5>1. steps'[s] = steps[s]
          BY <3>3, <4>2 DEF StepsKept
        <5> QED BY <3>7, <3>8, <4>2, <5>1
      <4> QED BY <3>4, <4>1, <4>2
    <3> QED BY <3>8 DEF OwnedInv
  <2>8. UniqueInv'
    BY <1>1, <1>2, <2>3, <2>6, UniqueFrame DEF DecisionInv, Decided
  <2>9. RowsInv'
    BY <1>2, <1>4, <1>6, RowsFrame DEF DecisionInv, Decided
  <2>10. \A q \in Requests : PassedInv(q)'
    <3> SUFFICES ASSUME NEW q \in Requests PROVE PassedInv(q)'
      OBVIOUS
    <3> QED BY <2>4, <2>6
  <2> QED BY <2>7, <2>8, <2>9, <2>10 DEF Decided
<1>9. CASE PyVerifyCheck(r)
  <2>1. /\ call[r].op = "verify" /\ UNCHANGED <<steps, spent>>
        /\ Reply(r, IF Acceptable(input[r].assertion, input[r].user) THEN "checked" ELSE "bad", NoStep)
    BY <1>9 DEF PyVerifyCheck, pythonVars
  <2>2. call'[r].st = IF Acceptable(input[r].assertion, input[r].user) THEN "checked" ELSE "bad"
    BY <1>1, <2>1, ReplyFields
  <2>3. ~Holds(r)'
    BY <1>2, <1>3, <1>6, <2>1, <2>2 DEF Holds, Past
  <2>4. PassedInv(r)'
    BY <1>7, <2>2, <2>3 DEF Acceptable
  <2>5. \A s \in DOMAIN steps : StepKnown(r, s) => StepKnown(r, s)'
    BY <1>2, <2>1 DEF StepKnown
  <2> QED BY <1>2, <1>4, <1>6, <2>1, <2>3, <2>4, <2>5, OneDecision DEF SpentKept
<1>10. CASE PyFail(r) \/ ReplyCut(r)
  <2>1. UNCHANGED <<steps, spent>> /\ \E st \in {"bad", "cut"} : Reply(r, st, NoStep)
    BY <1>10 DEF PyFail, ReplyCut, pythonVars
  <2>2. call'[r].st \in {"bad", "cut"}
    BY <1>1, <2>1, ReplyFields
  <2>3. Holds(r)' => Holds(r)
    BY <1>2, <1>3, <1>5, <2>2 DEF Holds
  <2>4. PassedInv(r)'
    <3>1. Holds(r) => SpentBy(r)'
      BY <1>1, <1>2, <2>1 DEF PassedInv, SpentBy
    <3> QED BY <1>7, <2>2, <2>3, <3>1
  <2>5. \A s \in DOMAIN steps : StepKnown(r, s) => StepKnown(r, s)'
    BY <1>2, <1>3, <2>1, <2>2 DEF StepKnown
  <2> QED BY <1>2, <1>4, <1>6, <2>1, <2>3, <2>4, <2>5, OneDecision DEF SpentKept
<1>11. CASE PyVerifyCommit(r)
  <2>1. /\ call[r].op = "verify" /\ call[r].st = "checked" /\ steps' = steps
        /\ \/ /\ spent[input[r].assertion] = {} /\ Reply(r, "ok", NoStep)
              /\ spent' = [spent EXCEPT ![input[r].assertion] = {input[r].user}]
           \/ Reply(r, "bad", NoStep) /\ spent' = spent
    BY <1>11 DEF PyVerifyCommit
  <2>2. input[r] \in Inputs /\ input[r].assertion \in Assertions
    <3>1. input[r] \in Inputs
      BY <1>1, <2>1, CallHasInput
    <3>2. input[r].assertion # NoAssertion
      BY <1>1, <2>1 DEF PassedInv
    <3> QED BY <3>1, <3>2, InputFields
  <2>3. SpentKept
    BY <1>1, <2>1, <2>2 DEF SpentKept, TypeOK
  <2>4. \A s \in DOMAIN steps : StepKnown(r, s) => StepKnown(r, s)'
    BY <1>2, <2>1 DEF StepKnown
  <2>5. ~Past(r)'
    BY <1>2, <1>3, <1>6, <2>1 DEF Past
  <2>6. CASE spent[input[r].assertion] = {} /\ Reply(r, "ok", NoStep)
             /\ spent' = [spent EXCEPT ![input[r].assertion] = {input[r].user}]
    <3>1. call'[r].st = "ok"
      BY <1>1, <2>6, ReplyFields
    <3>2. spent'[input[r].assertion] = {input[r].user}
      BY <1>1, <2>2, <2>6 DEF TypeOK
    <3>3. SpentBy(r)'
      BY <1>1, <1>2, <2>1, <3>2 DEF PassedInv, SpentBy
    <3>4. PassedInv(r)'
      BY <1>7, <3>1, <3>3
    <3>5. spent[input'[r].assertion] = {}
      BY <1>2, <2>6
    <3> QED BY <1>2, <1>4, <1>6, <2>1, <2>3, <2>4, <3>4, <3>5, OneDecision
  <2>7. CASE Reply(r, "bad", NoStep) /\ spent' = spent
    <3>1. call'[r].st = "bad"
      BY <1>1, <2>7, ReplyFields
    <3>2. ~Holds(r)'
      BY <2>5, <3>1 DEF Holds
    <3>3. PassedInv(r)'
      BY <1>7, <3>1, <3>2
    <3> QED BY <1>2, <1>4, <1>6, <2>1, <2>3, <2>4, <3>2, <3>3, OneDecision
  <2> QED BY <2>1, <2>6, <2>7
<1> QED BY <1>8, <1>9, <1>10, <1>11 DEF PythonStep

\* The steps of no request, and stuttering.
LEMMA OtherDecides ==
    ASSUME DecisionInv, NodeCrash \/ Environment \/ UNCHANGED vars
    PROVE  Decided'
<1>1. UNCHANGED <<journal, input, needed, got, call, spent>>
  BY DEF NodeCrash, Environment, FinishAuthentication, Expire, ChangeConfig, CreateWorkflow,
         Publish, LegacyAction, PyDirectAction, SetStatus, ExpiryScan, vars,
         nodeVars, pythonVars, requestVars
<1>2. \A q \in Requests : pc'[q] = pc[q] \/ (pc[q] \in Waiting /\ pc'[q] = "crashed")
  BY DEF NodeCrash, Active, Environment, FinishAuthentication, Expire, ChangeConfig,
         CreateWorkflow, Publish, LegacyAction, PyDirectAction, SetStatus, ExpiryScan, vars,
         requestVars
<1>3. \A s \in DOMAIN steps' : (s \in DOMAIN steps /\ steps'[s] = steps[s]) \/ steps'[s].by = NoBy
  <2>1. CASE steps' = steps
    BY <2>1
  <2>2. CASE \E d, u, a, s : PyDirectAction(d, u, a, s)
    <3>1. PICK t : t.by = NoBy /\ steps' = Append(steps, t)
      BY <2>2 DEF PyDirectAction
    <3>2. steps \in Seq(Step)
      BY DEF DecisionInv, LinkInv, TypeOK
    <3> QED BY <3>1, <3>2
  <2> QED BY <2>1, <2>2
      DEF NodeCrash, Environment, FinishAuthentication, Expire, ChangeConfig, CreateWorkflow,
          Publish, LegacyAction, SetStatus, ExpiryScan, vars, pythonVars
<1>4. OwnedInv'
  <2> SUFFICES ASSUME NEW s \in DOMAIN steps', steps'[s].by # NoBy
               PROVE  StepKnown(steps[s].by[1], s)'
    BY DEF OwnedInv
  <2>1. s \in DOMAIN steps /\ steps'[s] = steps[s]
    BY <1>3
  <2>2. StepKnown(steps[s].by[1], s)
    BY <2>1 DEF DecisionInv, Decided, OwnedInv
  <2> QED BY <1>1, <2>1, <2>2 DEF StepKnown
<1>5. ASSUME NEW q \in Requests PROVE PassedInv(q)' /\ (Holds(q)' <=> Holds(q))
  <2>1. PassedInv(q)
    BY DecisionParts
  <2>2. pc'[q] = "ok" <=> pc[q] = "ok"
    BY <1>2 DEF Waiting
  <2>3. (Past(q)' <=> Past(q)) /\ (Holds(q)' <=> Holds(q)) /\ (SpentBy(q)' <=> SpentBy(q))
    BY <1>1, <2>2 DEF Past, Holds, SpentBy
  <2> QED BY <1>1, <2>1, <2>2, <2>3 DEF PassedInv
<1>6. UniqueInv'
  BY <1>1, <1>5 DEF DecisionInv, Decided, UniqueInv
<1>7. RowsInv'
  <2>1. \A q \in Requests : pc'[q] = "ok" => pc[q] = "ok"
    BY <1>2 DEF Waiting
  <2> QED BY <1>1, <2>1 DEF DecisionInv, Decided, RowsInv
<1> QED BY <1>4, <1>5, <1>6, <1>7 DEF Decided

LEMMA NextDecides == DecisionInv /\ [Next]_vars => DecisionInv'
<1> SUFFICES ASSUME DecisionInv, [Next]_vars PROVE DecisionInv'
  OBVIOUS
<1>1. LinkInv'
  BY NextLinks DEF DecisionInv
<1>2. ASSUME NEW r \in Requests, NEW i \in Inputs, Start(r, i) PROVE Decided'
  BY <1>2, StartDecides
<1>3. ASSUME NEW r \in Requests, NodeStep(r) PROVE Decided'
  BY <1>3, NodeStepDecides
<1>4. ASSUME NEW r \in Requests, PythonStep(r) PROVE Decided'
  BY <1>4, PythonStepDecides
<1>5. ASSUME NodeCrash \/ Environment \/ UNCHANGED vars PROVE Decided'
  BY <1>5, OtherDecides
<1>6. Decided'
  BY <1>2, <1>3, <1>4, <1>5 DEF Next
<1> QED BY <1>1, <1>6 DEF DecisionInv

THEOREM DecisionInvariant == Spec => []DecisionInv
BY InitDecides, NextDecides, PTL DEF Spec

-----------------------------------------------------------------------------
(* What follows from it.                                                   *)

\* A row of wf_actions belongs to a request that was answered 200.
LEMMA RowOwner ==
    ASSUME LinkInv, NEW n \in DOMAIN journal
    PROVE  /\ journal[n].by[1] \in Requests /\ pc[journal[n].by[1]] = "ok"
           /\ journal[n].by[2] \in 1..Len(input[journal[n].by[1]].rows)
<1>1. journal \in Seq(Row)
  BY DEF LinkInv, TypeOK
<1>2. journal[n] \in Row
  BY <1>1, ElementOfSeq
<1>3. journal[n].by \in Requests \X Nat
  BY <1>2 DEF Row
<1>4. Records(n)
  BY DEF LinkInv, JournalInv
<1> QED BY <1>3, <1>4 DEF Records

\* Whoever left a trace went past the verification.
LEMMA EffectsArePast ==
    ASSUME DecisionInv, NEW r \in Requests, Effects(r) PROVE Past(r)
<1>1. LinkInv /\ PassedInv(r)
  BY DecisionParts DEF DecisionInv
<1>2. CASE OwnRows(r) # {}
  <2>1. PICK n \in DOMAIN journal : journal[n].by[1] = r
    BY <1>2 DEF OwnRows
  <2> QED BY <1>1, <2>1, RowOwner DEF Past
<1>3. CASE OwnSteps(r) # {}
  <2>1. PICK s \in DOMAIN steps : steps[s].by # NoBy /\ steps[s].by[1] = r
    BY <1>3 DEF OwnSteps
  <2>2. StepKnown(r, s)
    BY <2>1 DEF DecisionInv, Decided, OwnedInv
  <2>3. PICK k : k = steps[s].by[2]
    OBVIOUS
  <2>4. CASE k \in 1..Len(got[r])
    <3>1. got[r] # <<>>
      BY <2>4
    <3> QED BY <1>1, <3>1 DEF PassedInv
  <2>5. CASE call[r].op = "advance"
    BY <2>5 DEF Past
  <2> QED BY <2>2, <2>3, <2>4, <2>5 DEF StepKnown
<1> QED BY <1>2, <1>3 DEF Effects

\* Node and Python agree on a decision that was answered 200, row by row, and
\* a request answered otherwise has no row: performAction and bulk-action, for
\* any number of requests and with every fault.
THEOREM DecisionsWhole == Spec => []WholeDecision
<1>1. DecisionInv => WholeDecision
  <2> SUFFICES ASSUME DecisionInv, NEW r \in Requests
               PROVE  /\ {journal[n].by[2] : n \in OwnRows(r)} =
                            IF pc[r] = "ok" THEN 1..Len(input[r].rows) ELSE {}
                      /\ pc[r] = "ok" => \A s \in OwnSteps(r) : Linked(s)
    BY DEF WholeDecision
  <2>1. LinkInv /\ PassedInv(r) /\ RowsInv
    BY DecisionParts DEF DecisionInv, Decided
  <2>2. \A n \in OwnRows(r) : pc[r] = "ok" /\ journal[n].by[2] \in 1..Len(input[r].rows)
    BY <2>1, RowOwner DEF OwnRows
  <2>3. ASSUME pc[r] = "ok", NEW k \in 1..Len(input[r].rows)
        PROVE  \E n \in OwnRows(r) : journal[n].by[2] = k
    <3>1. PICK n \in DOMAIN journal : journal[n].by = <<r, k>>
      BY <2>1, <2>3 DEF RowsInv
    <3>2. journal[n].by[1] = r /\ journal[n].by[2] = k
      BY <3>1
    <3> QED BY <3>2 DEF OwnRows
  <2>4. ASSUME pc[r] = "ok", NEW s \in OwnSteps(r) PROVE Linked(s)
    <3>1. s \in DOMAIN steps /\ steps[s].by # NoBy /\ steps[s].by[1] = r
      BY DEF OwnSteps
    <3>2. StepKnown(r, s)
      BY <3>1 DEF DecisionInv, Decided, OwnedInv
    <3>3. call[r].op # "advance" /\ Len(got[r]) = Len(input[r].rows)
      BY <2>1, <2>4 DEF PassedInv, NoCall
    <3>4. PICK k : k = steps[s].by[2]
      OBVIOUS
    <3>5. k \in 1..Len(input[r].rows) /\ got[r][k] = s
      BY <3>2, <3>3, <3>4 DEF StepKnown
    <3>6. PICK n \in DOMAIN journal : journal[n].by = <<r, k>> /\ journal[n].step = got[r][k]
      BY <2>1, <2>4, <3>5 DEF RowsInv
    <3> QED BY <3>5, <3>6 DEF Linked
  <2>5. CASE pc[r] = "ok"
    BY <2>2, <2>3, <2>4, <2>5
  <2>6. CASE pc[r] # "ok"
    BY <2>2, <2>6
  <2> QED BY <2>5, <2>6
<1> QED BY <1>1, DecisionInvariant, PTL

\* An effect of a request that had to step up rests on the user's own
\* assertion, spent by that user, in whatever order calls end or fail.
THEOREM StepUpsBeforeEffects == Spec => []StepUpBeforeEffect
<1>1. DecisionInv => StepUpBeforeEffect
  <2> SUFFICES ASSUME DecisionInv, NEW r \in Requests, needed[r], Effects(r)
               PROVE  /\ input[r].assertion # NoAssertion
                      /\ spent[input[r].assertion] = {input[r].user}
                      /\ AssertionOwner[input[r].assertion] = input[r].user
    BY DEF StepUpBeforeEffect
  <2>1. PassedInv(r) /\ Past(r)
    BY DecisionParts, EffectsArePast
  <2>2. input[r].assertion # NoAssertion
    BY <2>1 DEF PassedInv
  <2>3. Holds(r)
    BY <2>1, <2>2 DEF Holds
  <2> QED BY <2>1, <2>2, <2>3 DEF PassedInv, SpentBy
<1> QED BY <1>1, DecisionInvariant, PTL

\* No two verified requests act on one assertion: the primary key of
\* stepup_used_assertions, checked and inserted in two steps.
THEOREM OneRequestPerAssertion == Spec => []OneAssertionOneRequest
<1>1. DecisionInv => OneAssertionOneRequest
  <2> SUFFICES ASSUME DecisionInv, NEW r1 \in Requests, NEW r2 \in Requests, r1 # r2,
                      Effects(r1), needed[r1] \/ input[r1].kind = "bulk",
                      Effects(r2), needed[r2] \/ input[r2].kind = "bulk",
                      input[r1].assertion = input[r2].assertion,
                      input[r1].assertion # NoAssertion
               PROVE  FALSE
    BY DEF OneAssertionOneRequest
  <2>1. Past(r1) /\ Past(r2)
    BY EffectsArePast
  <2>2. Holds(r1) /\ Holds(r2)
    BY <2>1 DEF Holds
  <2> QED BY <2>2 DEF DecisionInv, Decided, UniqueInv
<1> QED BY <1>1, DecisionInvariant, PTL

\* What a step does to wf_actions: nothing, or it adds the rows of one request
\* that was not answered yet.
LEMMA JournalSteps ==
    ASSUME LinkInv, [Next]_vars
    PROVE  /\ \A r \in Requests : pc[r] \in Answered \cup {"crashed"} => pc'[r] = pc[r]
           /\ JournalKept
           /\ \/ journal' = journal
              \/ \E r \in Requests :
                    /\ pc[r] \in {"idle", "verifying", "advancing"}
                    /\ \A n \in DOMAIN journal' : n \notin DOMAIN journal => journal'[n].by[1] = r
<1> DEFINE Ended == Answered \cup {"crashed"}
           Only(r) == /\ \A q \in Requests \ {r} : pc'[q] = pc[q]
                      /\ JournalKept
                      /\ \/ journal' = journal
                         \/ \A n \in DOMAIN journal' : n \notin DOMAIN journal => journal'[n].by[1] = r
<1>1. TypeOK /\ \A r \in Requests : RequestInv(r)
  BY DEF LinkInv
<1>2. ASSUME NEW r \in Requests, NEW i \in Inputs, NEW rd, NEW g \in Seq(Nat),
             Len(g) <= Len(i.rows), Continue(r, i, rd, g)
      PROVE  Only(r)
  <2>1. /\ \A q \in Requests \ {r} : pc'[q] = pc[q]
        /\ got'[r] \in Seq(Nat)
        /\ \/ journal' = journal
           \/ Len(got'[r]) = Len(i.rows) /\ journal' = journal \o JournalRows(r, i, got'[r])
    BY <1>2, ContinueEffect
  <2>2. PICK h \in Seq(Nat) : h = got'[r]
    BY <2>1
  <2>3. CASE Len(h) = Len(i.rows) /\ journal' = journal \o JournalRows(r, i, h)
    BY <2>1, <2>3, CommitRows
  <2>4. CASE journal' = journal
    BY <2>1, <2>4 DEF JournalKept
  <2> QED BY <2>1, <2>2, <2>3, <2>4
<1>3. ASSUME NEW r \in Requests, NEW how, Answer(r, how) PROVE Only(r)
  BY <1>1, <1>3 DEF Answer, TypeOK, JournalKept
<1>4. ASSUME NEW r \in Requests, pc[r] \in {"idle", "verifying", "advancing"}, Only(r)
      PROVE  /\ \A q \in Requests : pc[q] \in Ended => pc'[q] = pc[q]
             /\ JournalKept
             /\ \/ journal' = journal
                \/ \E q \in Requests :
                      /\ pc[q] \in {"idle", "verifying", "advancing"}
                      /\ \A n \in DOMAIN journal' :
                            n \notin DOMAIN journal => journal'[n].by[1] = q
  BY <1>4 DEF Answered
<1>5. ASSUME NEW r \in Requests, NEW i \in Inputs, Start(r, i)
      PROVE  pc[r] = "idle" /\ Only(r)
  <2>1. pc[r] = "idle"
    BY <1>5 DEF Start
  <2>2. CASE Answer(r, "refused")
    BY <1>3, <2>1, <2>2
  <2>3. CASE pc' = [pc EXCEPT ![r] = "verifying"] /\ journal' = journal
    BY <1>1, <2>1, <2>3 DEF TypeOK, JournalKept
  <2>4. ASSUME NEW rd, Continue(r, i, rd, <<>>) PROVE Only(r)
    <3>1. PICK g : g = <<>>
      OBVIOUS
    <3>2. g \in Seq(Nat) /\ Len(g) = 0 /\ Len(g) <= Len(i.rows)
      BY InputFields, <3>1
    <3>3. Continue(r, i, rd, g)
      BY <2>4, <3>1
    <3> QED BY <1>2, <3>2, <3>3
  <2> HIDE DEF Only
  <2>5. Only(r)
    BY <1>5, <2>2, <2>3, <2>4, Zenon DEF Start
  <2> QED BY <2>1, <2>5
<1>6. ASSUME NEW r \in Requests, NodeStep(r)
      PROVE  pc[r] \in {"verifying", "advancing"} /\ Only(r)
  <2>1. pc[r] \in {"verifying", "advancing"}
    BY <1>6 DEF NodeStep, Verified, VerifyRefused, Advanced, AdvanceFailed, Timeout, CommitError,
                Active, Waiting
  <2>2. CASE \E how : Answer(r, how)
    BY <1>3, <2>1, <2>2
  <2>3. CASE Verified(r) /\ Continue(r, input[r], seen[r], <<>>)
    <3>1. PICK g : g = <<>>
      OBVIOUS
    <3>2. input[r] \in Inputs
      BY <2>1, ActiveInput DEF Waiting
    <3>3. g \in Seq(Nat) /\ Len(g) = 0 /\ Len(g) <= Len(input[r].rows)
      BY InputFields, <3>1, <3>2
    <3>4. Continue(r, input[r], seen[r], g)
      BY <2>3, <3>1
    <3> QED BY <1>2, <2>1, <3>2, <3>3, <3>4
  <2>4. CASE Advanced(r)
    <3>1. input[r] \in Inputs /\ got[r] \in Seq(Nat)
      BY <2>1, ActiveInput DEF Waiting
    <3>2. call[r].step \in Nat
      BY <1>1 DEF TypeOK, Call
    <3>3. PICK g : g = Append(got[r], call[r].step)
      OBVIOUS
    <3>4. g \in Seq(Nat) /\ Len(g) = Len(got[r]) + 1
      BY <3>1, <3>2, <3>3, AppendProperties
    <3>5. Len(g) <= Len(input[r].rows)
      <4>1. pc[r] = "advancing" /\ RequestInv(r)
        BY <1>1, <2>4 DEF Advanced
      <4> QED BY <3>4, <4>1 DEF RequestInv
    <3>6. Continue(r, input[r], seen[r], g)
      BY <2>4, <3>3 DEF Advanced
    <3> QED BY <1>2, <2>1, <3>1, <3>4, <3>5, <3>6
  <2> HIDE DEF Only
  <2>5. Only(r)
    BY <1>6, <2>2, <2>3, <2>4 DEF NodeStep, Verified, VerifyRefused, AdvanceFailed, Timeout,
                                  CommitError
  <2> QED BY <2>1, <2>5
<1>7. CASE \E r \in Requests : PythonStep(r)
  <2>1. UNCHANGED <<journal, pc>>
    BY <1>7 DEF PythonStep, PyVerifyCheck, PyVerifyCommit, PyAdvance, PyFail,
         ReplyCut, nodeVars
  <2> QED BY <2>1 DEF JournalKept
<1>8. CASE NodeCrash \/ Environment \/ UNCHANGED vars
  <2>1. journal' = journal
    BY <1>8 DEF NodeCrash, Environment, FinishAuthentication, Expire, ChangeConfig,
         CreateWorkflow, Publish, LegacyAction, PyDirectAction, SetStatus, ExpiryScan, vars,
         nodeVars
  <2>2. \A q \in Requests : pc'[q] = pc[q] \/ pc[q] \in Waiting
    BY <1>8 DEF NodeCrash, Active, Environment, FinishAuthentication, Expire, ChangeConfig,
         CreateWorkflow, Publish, LegacyAction, PyDirectAction, SetStatus, ExpiryScan, vars,
         requestVars
  <2> QED BY <2>1, <2>2 DEF JournalKept, Waiting, Answered
<1> HIDE DEF Only
<1>9. CASE \E r \in Requests, i \in Inputs : Start(r, i)
  BY <1>4, <1>5, <1>9
<1>10. CASE \E r \in Requests : NodeStep(r)
  BY <1>4, <1>6, <1>10
<1> QED BY <1>7, <1>8, <1>9, <1>10 DEF Next

\* A request that was answered or died writes nothing more: late replies,
\* timers and crashes, for any number of requests.
THEOREM AnswersAreFinal == Spec => AnswerIsFinal
<1>1. LinkInv /\ [Next]_vars =>
        \A r \in Requests :
          pc[r] \in Answered \cup {"crashed"} => pc'[r] = pc[r] /\ OwnRows(r)' = OwnRows(r)
  <2> SUFFICES ASSUME LinkInv, [Next]_vars, NEW r \in Requests,
                      pc[r] \in Answered \cup {"crashed"}
               PROVE  pc'[r] = pc[r] /\ OwnRows(r)' = OwnRows(r)
    OBVIOUS
  <2>1. pc'[r] = pc[r] /\ JournalKept
    BY JournalSteps
  <2>2. \A n \in DOMAIN journal' : n \notin DOMAIN journal => journal'[n].by[1] # r
    BY JournalSteps DEF Answered
  <2> QED BY <2>1, <2>2 DEF OwnRows, JournalKept
<1> QED BY <1>1, LinkInvariant, PTL DEF Spec, AnswerIsFinal
-----------------------------------------------------------------------------
(* What the tables show is the last decision.                              *)

\* No later row of wf_actions is about the document, or the workflow, of row n.
LastOfDoc(n) == \A m \in DOMAIN journal : DocOf[journal[m].wf] = DocOf[journal[n].wf] => m <= n
LastOfWorkflow(n) == \A m \in DOMAIN journal : journal[m].wf = journal[n].wf => m <= n

\* The rows a handler works on exist, and those of the journal; and the tables
\* agree with the last row.
HandledExist ==
    \A r \in Requests : pc[r] # "idle" =>
        \A n \in 1..Len(input[r].rows) : Exists(input[r].rows[n])

\* A transaction is the last word on the columns it writes.
Cleared(i) ==
    /\ restamped' = {d \in restamped : \A n \in 1..Len(i.rows) : DocOf[i.rows[n]] # d}
    /\ moved'     = {w \in moved : \A n \in 1..Len(i.rows) : i.rows[n] # w}

MirrorInv ==
    /\ HandledExist
    /\ \A n \in DOMAIN journal : Exists(journal[n].wf)
    /\ \A n \in DOMAIN journal :
          HasDoc(journal[n].wf) /\ LastOfDoc(n) /\ DocOf[journal[n].wf] \notin restamped =>
          docStatus[DocOf[journal[n].wf]] = DocStatusMap[journal[n].action]
    /\ \A n \in DOMAIN journal :
          LastOfWorkflow(n) /\ journal[n].wf \notin moved /\ pin[journal[n].wf] = NoVersion =>
          stage[journal[n].wf] = StageMap[journal[n].action]

\* Workflows are never taken back.
StillExist == \A w \in Workflows : Exists(w) => Exists(w)'

\* The greatest of some of the first L numbers.
LEMMA GreatestExists ==
    ASSUME NEW L \in Nat, NEW S \in SUBSET (1..L), S # {}
    PROVE  \E x \in S : \A y \in S : y <= x
<1> DEFINE T == {L - x : x \in S}
<1>1. T \in SUBSET Nat /\ T # {}
  <2>1. \A x \in S : L - x \in Nat
    OBVIOUS
  <2> QED BY <2>1
<1> HIDE DEF T
<1>2. PICK t \in T : \A u \in T : t <= u
  BY <1>1, LeastExists
<1>3. PICK x \in S : t = L - x
  BY <1>2 DEF T
<1>4. ASSUME NEW y \in S PROVE y <= x
  <2>1. L - y \in T
    BY DEF T
  <2>2. t <= L - y
    BY <1>2, <2>1
  <2> QED BY <1>3, <2>2
<1> QED BY <1>4

\* An approval that leaves the graph, a rejection and an escalation: the stage
\* an action gives a workflow is never none, and is the map's without a pin.
LEMMA StageOfAction ==
    ASSUME NEW action \in Actions, NEW at, NEW pinned, NEW published \in SUBSET Versions
    PROVE  /\ NextStage(action, at, pinned, published) # NoStage
           /\ pinned = NoVersion => NextStage(action, at, pinned, published) = StageMap[action]
<1>1. StageMap[action] # NoStage
  <2>1. \/ action = "approve" /\ StageMap[action] = "Approved"
        \/ action = "reject" /\ StageMap[action] = "Rejected - Rework"
        \/ action = "escalate" /\ StageMap[action] = "Manager Sign-off"
    <3>1. action \in {"approve", "reject", "escalate"}
      BY DEF Actions
    <3>2. /\ StageMap["approve"] = "Approved" /\ StageMap["reject"] = "Rejected - Rework"
          /\ StageMap["escalate"] = "Manager Sign-off"
      BY DEF StageMap
    <3> QED BY <3>1, <3>2, Zenon
  <2> QED BY <2>1 DEF NoStage
<1> QED BY <1>1, VersionsAssumption, Zenon DEF NextStage, NoLabel, NoStage

\* The columns one transaction writes.
LEMMA CommitColumns ==
    ASSUME TypeOK, NEW i \in Inputs, NEW rd,
           stage' = StagesAfter(i, rd), docStatus' = DocStatusesAfter(i)
    PROVE  /\ \A w \in Workflows :
                 IF \E n \in 1..Len(i.rows) : i.rows[n] = w
                 THEN /\ stage'[w] # NoStage
                      /\ pin[w] = NoVersion => stage'[w] = StageMap[i.action]
                 ELSE stage'[w] = stage[w]
           /\ \A d \in Docs :
                 docStatus'[d] = IF \E n \in 1..Len(i.rows) : DocOf[i.rows[n]] = d
                                 THEN DocStatusMap[i.action] ELSE docStatus[d]
<1>1. ASSUME NEW w \in Workflows
      PROVE  IF \E n \in 1..Len(i.rows) : i.rows[n] = w
             THEN /\ stage'[w] # NoStage
                  /\ pin[w] = NoVersion => stage'[w] = StageMap[i.action]
             ELSE stage'[w] = stage[w]
  <2> DEFINE at == {n \in 1..Len(i.rows) : i.rows[n] = w}
             n  == CHOOSE m \in at : \A k \in at : k <= m
  <2>1. stage'[w] = IF at = {} THEN stage[w] ELSE NextStage(i.action, rd[n], pin[w], Published)
    BY Zenon DEF StagesAfter
  <2> HIDE DEF n
  <2>2. i.action \in Actions /\ Published \in SUBSET Versions
    BY InputFields, PublishedVersions
  <2>3. /\ NextStage(i.action, rd[n], pin[w], Published) # NoStage
        /\ pin[w] = NoVersion =>
              NextStage(i.action, rd[n], pin[w], Published) = StageMap[i.action]
    BY <2>2, StageOfAction
  <2> QED BY <2>1, <2>3, Zenon
<1>2. \A d \in Docs :
         docStatus'[d] = IF \E n \in 1..Len(i.rows) : DocOf[i.rows[n]] = d
                         THEN DocStatusMap[i.action] ELSE docStatus[d]
  BY Zenon DEF DocStatusesAfter
<1> QED BY <1>1, <1>2

\* A commit: the last row about a document or a workflow is one of the new
\* rows, which are all of one action, or it was the last before.
LEMMA CommitMirrors ==
    ASSUME LinkInv, MirrorInv, NEW r \in Requests, NEW i \in Inputs, NEW rd, NEW g \in Seq(Nat),
           Len(g) = Len(i.rows), \A n \in 1..Len(i.rows) : Exists(i.rows[n]),
           stage' = StagesAfter(i, rd), docStatus' = DocStatusesAfter(i), pin' = pin,
           Cleared(i), journal' = journal \o JournalRows(r, i, g)
    PROVE  /\ StillExist
           /\ \A n \in DOMAIN journal' : Exists(journal[n].wf)'
           /\ \A n \in DOMAIN journal' :
                 HasDoc(journal'[n].wf) /\ LastOfDoc(n)' /\ DocOf[journal'[n].wf] \notin restamped' =>
                 docStatus'[DocOf[journal'[n].wf]] = DocStatusMap[journal'[n].action]
           /\ \A n \in DOMAIN journal' :
                 LastOfWorkflow(n)' /\ journal'[n].wf \notin moved' /\ pin'[journal'[n].wf] = NoVersion =>
                 stage'[journal'[n].wf] = StageMap[journal'[n].action]
<1>1. journal \in Seq(Row) /\ Len(i.rows) \in Nat /\ TypeOK
  BY InputFields DEF LinkInv, TypeOK
<1>2. PICK new : new = JournalRows(r, i, g)
  OBVIOUS
<1>3. new \in Seq(Row) /\ Len(new) = Len(i.rows)
  BY <1>2, JournalRowsTyped
<1>4. PICK L : L = Len(journal)
  OBVIOUS
<1>5. /\ DOMAIN journal' = 1..(L + Len(i.rows)) /\ DOMAIN journal = 1..L /\ L \in Nat
      /\ \A n \in 1..L : journal'[n] = journal[n]
      /\ \A n \in L + 1 .. L + Len(i.rows) : journal'[n] = new[n - L]
  <2>1. journal' = journal \o new
    BY <1>2
  <2>2. /\ DOMAIN journal' = 1..(Len(journal) + Len(new))
        /\ \A n \in 1..Len(journal) : journal'[n] = journal[n]
        /\ \A n \in Len(journal) + 1 .. Len(journal) + Len(new) : journal'[n] = new[n - Len(journal)]
    <3>1. journal \in Seq(Row) /\ new \in Seq(Row) /\ journal' = journal \o new
      BY <1>1, <1>3, <2>1
    <3> QED BY <3>1, Concatenated
  <2>3. DOMAIN journal = 1..Len(journal) /\ Len(journal) \in Nat
    BY <1>1, LenProperties
  <2> QED BY <1>3, <1>4, <2>2, <2>3
<1>6. \A k \in 1..Len(i.rows) :
         /\ journal'[L + k].wf = i.rows[k] /\ journal'[L + k].action = i.action
         /\ L + k \in DOMAIN journal' /\ i.rows[k] \in Workflows
  <2>1. \A k \in 1..Len(i.rows) : new[k].wf = i.rows[k] /\ new[k].action = i.action
    BY <1>2 DEF JournalRows
  <2>2. ASSUME NEW k \in 1..Len(i.rows)
        PROVE  journal'[L + k] = new[k] /\ L + k \in DOMAIN journal'
    <3>1. L + k \in L + 1 .. L + Len(i.rows) /\ L + k \in 1..(L + Len(i.rows)) /\ (L + k) - L = k
      BY <1>1, <1>5
    <3>2. journal'[L + k] = new[(L + k) - L]
      BY <1>5, <3>1
    <3> QED BY <1>5, <3>1, <3>2
  <2> QED BY <2>1, <2>2, InputFields
<1>7. \A n \in DOMAIN journal' :
         n \in DOMAIN journal \/ \E k \in 1..Len(i.rows) : n = L + k
  <2> TAKE n \in DOMAIN journal'
  <2>1. CASE n > L
    <3>1. n - L \in 1..Len(i.rows) /\ n = L + (n - L)
      BY <1>1, <1>5, <2>1
    <3> QED BY <3>1
  <2> QED BY <1>1, <1>5, <2>1
<1>8. \A n \in DOMAIN journal : journal'[n] = journal[n] /\ n \in DOMAIN journal'
                                /\ journal[n].wf \in Workflows
  <2>1. \A n \in DOMAIN journal : journal[n] \in Row
    BY <1>1, ElementOfSeq, LenProperties
  <2> QED BY <1>1, <1>5, <2>1 DEF Row
<1>9. /\ \A w \in Workflows :
            IF \E n \in 1..Len(i.rows) : i.rows[n] = w
            THEN /\ stage'[w] # NoStage
                 /\ pin[w] = NoVersion => stage'[w] = StageMap[i.action]
            ELSE stage'[w] = stage[w]
      /\ \A d \in Docs :
            docStatus'[d] = IF \E n \in 1..Len(i.rows) : DocOf[i.rows[n]] = d
                            THEN DocStatusMap[i.action] ELSE docStatus[d]
  BY <1>1, CommitColumns
<1>10. StillExist
  BY <1>9 DEF StillExist, Exists
<1>11. \A n \in DOMAIN journal' : Exists(journal[n].wf)'
  <2> TAKE n \in DOMAIN journal'
  <2>1. CASE n \in DOMAIN journal
    BY <1>8, <1>10, <2>1 DEF MirrorInv, StillExist, Exists
  <2>2. CASE \E k \in 1..Len(i.rows) : n = L + k
    <3>1. PICK k \in 1..Len(i.rows) : n = L + k
      BY <2>2
    <3>2. journal'[n].wf = i.rows[k] /\ i.rows[k] \in Workflows
      BY <1>6, <3>1
    <3>3. stage'[i.rows[k]] # NoStage
      BY <1>9, <3>2
    <3> QED BY <3>2, <3>3 DEF Exists
  <2> QED BY <1>7, <2>1, <2>2
<1>12. ASSUME NEW n \in DOMAIN journal, NEW k \in 1..Len(i.rows) PROVE ~(L + k <= n)
  BY <1>1, <1>5
<1>13. ASSUME NEW n \in DOMAIN journal', HasDoc(journal'[n].wf), LastOfDoc(n)',
              DocOf[journal'[n].wf] \notin restamped'
       PROVE  docStatus'[DocOf[journal'[n].wf]] = DocStatusMap[journal'[n].action]
  <2>1. CASE n \in DOMAIN journal
    <3>1. LastOfDoc(n) /\ HasDoc(journal[n].wf)
      BY <1>8, <1>13, <2>1 DEF LastOfDoc
    <3>2. \A k \in 1..Len(i.rows) : DocOf[i.rows[k]] # DocOf[journal[n].wf]
      BY <1>6, <1>8, <1>12, <1>13, <2>1 DEF LastOfDoc
    <3>3. DocOf[journal[n].wf] \in Docs
      BY <1>8, <2>1, <3>1, DocTyped
    <3>4. docStatus'[DocOf[journal[n].wf]] = docStatus[DocOf[journal[n].wf]]
      BY <1>9, <3>2, <3>3
    <3>5. DocOf[journal[n].wf] \notin restamped
      BY <1>8, <1>13, <2>1, <3>2 DEF Cleared
    <3> QED BY <1>8, <2>1, <3>1, <3>4, <3>5 DEF MirrorInv
  <2>2. CASE \E k \in 1..Len(i.rows) : n = L + k
    <3>1. PICK k \in 1..Len(i.rows) : n = L + k
      BY <2>2
    <3>2. /\ journal'[n].wf = i.rows[k] /\ i.rows[k] \in Workflows
          /\ journal'[n].action = i.action
      BY <1>6, <3>1
    <3>3. DocOf[i.rows[k]] \in Docs
      BY <1>13, <3>2, DocTyped
    <3>4. docStatus'[DocOf[i.rows[k]]] = DocStatusMap[i.action]
      BY <1>9, <3>3
    <3> QED BY <3>2, <3>4
  <2> QED BY <1>7, <2>1, <2>2
<1>14. ASSUME NEW n \in DOMAIN journal', LastOfWorkflow(n)', journal'[n].wf \notin moved',
              pin'[journal'[n].wf] = NoVersion
       PROVE  stage'[journal'[n].wf] = StageMap[journal'[n].action]
  <2>1. CASE n \in DOMAIN journal
    <3>1. LastOfWorkflow(n) /\ pin[journal[n].wf] = NoVersion
      BY <1>8, <1>14, <2>1 DEF LastOfWorkflow
    <3>2. \A k \in 1..Len(i.rows) : i.rows[k] # journal[n].wf
      BY <1>6, <1>8, <1>12, <1>14, <2>1 DEF LastOfWorkflow
    <3>3. stage'[journal[n].wf] = stage[journal[n].wf]
      BY <1>8, <1>9, <2>1, <3>2
    <3>4. journal[n].wf \notin moved
      BY <1>8, <1>14, <2>1, <3>2 DEF Cleared
    <3> QED BY <1>8, <2>1, <3>1, <3>3, <3>4 DEF MirrorInv
  <2>2. CASE \E k \in 1..Len(i.rows) : n = L + k
    <3>1. PICK k \in 1..Len(i.rows) : n = L + k
      BY <2>2
    <3>2. /\ journal'[n].wf = i.rows[k] /\ i.rows[k] \in Workflows
          /\ journal'[n].action = i.action
      BY <1>6, <3>1
    <3>3. stage'[i.rows[k]] = StageMap[i.action]
      BY <1>9, <1>14, <3>2
    <3> QED BY <3>2, <3>3
  <2> QED BY <1>7, <2>1, <2>2
<1> QED BY <1>10, <1>11, <1>13, <1>14

\* Steps that leave wf_actions and what it is mirrored in alone.
LEMMA MirrorFrame ==
    ASSUME MirrorInv, UNCHANGED <<stage, docStatus, journal, restamped, moved, pin>>
    PROVE  /\ StillExist
           /\ HandledExist' => MirrorInv'
BY DEF MirrorInv, LastOfDoc, LastOfWorkflow, StillExist, Exists

\* A handler's step: it commits, or leaves wf_actions and its mirrors alone.
LEMMA ContinueMirrors ==
    ASSUME LinkInv, NEW r \in Requests, NEW i \in Inputs, NEW rd, NEW g \in Seq(Nat),
           Len(g) <= Len(i.rows), Continue(r, i, rd, g)
    PROVE  \/ UNCHANGED <<stage, docStatus, journal, restamped, moved>>
           \/ \E rd2 : \E h \in Seq(Nat) :
                 /\ Len(h) = Len(i.rows)
                 /\ stage' = StagesAfter(i, rd2) /\ docStatus' = DocStatusesAfter(i) /\ Cleared(i)
                 /\ journal' = journal \o JournalRows(r, i, h)
<1>1. Len(i.rows) \in Nat
  BY InputFields
<1>2. CASE \E k \in NextCall(i, Len(g)) :
              SendAdvance(r, ReadUpTo(i, rd, k), SettledUpTo(g, k - 1), k)
  BY <1>2 DEF SendAdvance
<1>3. CASE Commit(r, i, ReadUpTo(i, rd, Len(i.rows)), SettledUpTo(g, Len(i.rows)))
  <2>1. PICK h : h = SettledUpTo(g, Len(i.rows))
    OBVIOUS
  <2>2. h \in Seq(Nat) /\ Len(h) = Len(i.rows)
    BY <1>1, <2>1, SettledTyped, Zenon
  <2>3. PICK rd2 : rd2 = ReadUpTo(i, rd, Len(i.rows))
    OBVIOUS
  <2>4. /\ stage' = StagesAfter(i, rd2) /\ docStatus' = DocStatusesAfter(i) /\ Cleared(i)
        /\ journal' = journal \o JournalRows(r, i, h)
    BY <1>3, <2>1, <2>3 DEF Commit, Cleared
  <2> QED BY <2>2, <2>4
<1> QED BY <1>2, <1>3, Zenon DEF Continue
\* A step that is nobody's decision, or one request's.
LEMMA RequestMirrors ==
    ASSUME LinkInv, MirrorInv, NEW r \in Requests, NEW i \in Inputs, NEW rd, NEW g \in Seq(Nat),
           Len(g) <= Len(i.rows), Continue(r, i, rd, g),
           \A n \in 1..Len(i.rows) : Exists(i.rows[n]), pin' = pin,
           StillExist => HandledExist'
    PROVE  MirrorInv'
<1>1. CASE UNCHANGED <<stage, docStatus, journal, restamped, moved>>
  BY <1>1, MirrorFrame
<1>2. CASE \E rd2 : \E h \in Seq(Nat) :
             /\ Len(h) = Len(i.rows)
             /\ stage' = StagesAfter(i, rd2) /\ docStatus' = DocStatusesAfter(i) /\ Cleared(i)
             /\ journal' = journal \o JournalRows(r, i, h)
  <2>1. PICK rd2 : \E h \in Seq(Nat) :
             /\ Len(h) = Len(i.rows)
             /\ stage' = StagesAfter(i, rd2) /\ docStatus' = DocStatusesAfter(i) /\ Cleared(i)
             /\ journal' = journal \o JournalRows(r, i, h)
    BY <1>2
  <2>2. PICK h \in Seq(Nat) :
             /\ Len(h) = Len(i.rows)
             /\ stage' = StagesAfter(i, rd2) /\ docStatus' = DocStatusesAfter(i) /\ Cleared(i)
             /\ journal' = journal \o JournalRows(r, i, h)
    BY <2>1
  <2>3. /\ StillExist
        /\ \A n \in DOMAIN journal' : Exists(journal[n].wf)'
        /\ \A n \in DOMAIN journal' :
              HasDoc(journal'[n].wf) /\ LastOfDoc(n)' /\ DocOf[journal'[n].wf] \notin restamped' =>
              docStatus'[DocOf[journal'[n].wf]] = DocStatusMap[journal'[n].action]
        /\ \A n \in DOMAIN journal' :
              LastOfWorkflow(n)' /\ journal'[n].wf \notin moved' /\ pin'[journal'[n].wf] = NoVersion =>
              stage'[journal'[n].wf] = StageMap[journal'[n].action]
    BY <2>2, CommitMirrors
  <2> QED BY <2>3 DEF MirrorInv
<1> QED BY <1>1, <1>2, ContinueMirrors

\* The rows of the requests still exist: a request keeps its input once it has
\* one, and takes one whose rows exist.
LEMMA HandledStill ==
    ASSUME LinkInv, HandledExist, StillExist, NEW S \in SUBSET Requests,
           \A q \in S : input'[q] \in Inputs /\ \A n \in 1..Len(input'[q].rows) : Exists(input'[q].rows[n]),
           \A q \in Requests \ S : input'[q] = input[q] /\ (pc'[q] # "idle" => pc[q] # "idle")
    PROVE  HandledExist'
<1>1. ASSUME NEW q \in Requests, pc'[q] # "idle", NEW n \in 1..Len(input'[q].rows)
      PROVE  Exists(input[q].rows[n])'
  <2>1. input'[q] \in Inputs /\ Exists(input'[q].rows[n])
    <3>1. CASE q \in S
      BY <1>1, <3>1
    <3>2. CASE q \notin S
      <4>1. pc[q] # "idle" /\ input'[q] = input[q]
        BY <1>1, <3>2
      <4>2. input[q] \in Inputs
        BY <4>1 DEF LinkInv, TypeOK, RequestInv
      <4> QED BY <1>1, <4>1, <4>2 DEF HandledExist
    <3> QED BY <3>1, <3>2
  <2>2. input'[q].rows[n] \in Workflows
    BY <1>1, <2>1, InputFields
  <2> QED BY <2>1, <2>2 DEF StillExist, Exists
<1> QED BY <1>1 DEF HandledExist
LEMMA HandledFrame ==
    ASSUME LinkInv, HandledExist, StillExist,
           \A q \in Requests : input'[q] = input[q] /\ (pc'[q] # "idle" => pc[q] # "idle")
    PROVE  HandledExist'
<1>1. PICK S \in SUBSET Requests : S = {}
  OBVIOUS
<1>2. \A q \in Requests \ S : input'[q] = input[q] /\ (pc'[q] # "idle" => pc[q] # "idle")
  OBVIOUS
<1>3. \A q \in S : input'[q] \in Inputs
                  /\ \A n \in 1..Len(input'[q].rows) : Exists(input'[q].rows[n])
  BY <1>1
<1> QED BY <1>2, <1>3, HandledStill

\* What else writes: a new workflow.
LEMMA CreateMirrors ==
    ASSUME LinkInv, MirrorInv, NEW w \in Workflows, CreateWorkflow(w)
    PROVE  MirrorInv'
<1>1. /\ ~Exists(w) /\ UNCHANGED <<docStatus, journal, restamped, moved, input, pc>>
      /\ \A x \in Workflows \ {w} : stage'[x] = stage[x] /\ pin'[x] = pin[x]
  BY DEF CreateWorkflow, LinkInv, TypeOK, requestVars
<1>2. StillExist
  BY <1>1 DEF StillExist, Exists
<1>3. HandledExist'
  BY <1>1, <1>2, HandledFrame DEF MirrorInv
<1>4. \A n \in DOMAIN journal : journal[n].wf \in Workflows \ {w}
  <2>1. \A n \in DOMAIN journal : journal[n] \in Row
    BY ElementOfSeq, LenProperties DEF LinkInv, TypeOK
  <2> QED BY <1>1, <2>1 DEF MirrorInv, Row
<1>5. \A n \in DOMAIN journal : Exists(journal[n].wf)'
  BY <1>1, <1>4 DEF MirrorInv, Exists
<1>6. \A n \in DOMAIN journal' : LastOfDoc(n)' = LastOfDoc(n) /\ LastOfWorkflow(n)' = LastOfWorkflow(n)
  BY <1>1 DEF LastOfDoc, LastOfWorkflow
<1> QED BY <1>1, <1>3, <1>4, <1>5, <1>6 DEF MirrorInv

\* Another writer of the statuses: each document it writes to is restamped.
LEMMA StampMirrors ==
    ASSUME LinkInv, MirrorInv, UNCHANGED <<stage, pin, journal, moved, input, pc>>,
           restamped \subseteq restamped',
           \A d \in Docs : d \notin restamped' => docStatus'[d] = docStatus[d]
    PROVE  MirrorInv'
<1>1. StillExist
  BY DEF StillExist, Exists
<1>2. HandledExist'
  BY <1>1, HandledFrame DEF MirrorInv
<1>3. \A n \in DOMAIN journal : journal[n].wf \in Workflows
  <2>1. \A n \in DOMAIN journal : journal[n] \in Row
    BY ElementOfSeq, LenProperties DEF LinkInv, TypeOK
  <2> QED BY <2>1 DEF Row
<1>4. \A n \in DOMAIN journal' : LastOfDoc(n)' = LastOfDoc(n) /\ LastOfWorkflow(n)' = LastOfWorkflow(n)
  BY DEF LastOfDoc, LastOfWorkflow
<1>5. \A n \in DOMAIN journal : HasDoc(journal[n].wf) => DocOf[journal[n].wf] \in Docs
  BY <1>3, DocTyped
<1> QED BY <1>1, <1>2, <1>4, <1>5 DEF MirrorInv, Exists

\* Another writer of a stage: the workflow is moved, and has a stage.
LEMMA MoveMirrors ==
    ASSUME LinkInv, MirrorInv, NEW w \in Workflows, NEW s \in LegacyStages, LegacyAction(w, s)
    PROVE  MirrorInv'
<1>1. /\ UNCHANGED <<pin, docStatus, journal, restamped, input, pc>>
      /\ moved' = moved \cup {w}
      /\ \A x \in Workflows : stage'[x] = IF x = w THEN s ELSE stage[x]
  BY DEF LegacyAction, LinkInv, TypeOK, requestVars
<1>2. s # NoStage
  <2>1. /\ StageMap["approve"] = "Approved" /\ StageMap["reject"] = "Rejected - Rework"
        /\ StageMap["escalate"] = "Manager Sign-off"
    BY DEF StageMap
  <2>2. s \in {"Approved", "Rejected - Rework", "Manager Sign-off", "Maker Review"}
    BY <2>1 DEF LegacyStages, Actions
  <2> QED BY <2>2 DEF NoStage
<1>3. StillExist
  BY <1>1, <1>2 DEF StillExist, Exists
<1>4. HandledExist'
  BY <1>1, <1>3, HandledFrame DEF MirrorInv
<1>5. \A n \in DOMAIN journal : journal[n].wf \in Workflows
  <2>1. \A n \in DOMAIN journal : journal[n] \in Row
    BY ElementOfSeq, LenProperties DEF LinkInv, TypeOK
  <2> QED BY <2>1 DEF Row
<1>6. \A n \in DOMAIN journal' : LastOfDoc(n)' = LastOfDoc(n) /\ LastOfWorkflow(n)' = LastOfWorkflow(n)
  BY <1>1 DEF LastOfDoc, LastOfWorkflow
<1>7. \A n \in DOMAIN journal : Exists(journal[n].wf)'
  BY <1>1, <1>3, <1>5 DEF MirrorInv, StillExist
<1> QED BY <1>1, <1>4, <1>5, <1>6, <1>7 DEF MirrorInv

\* Every step of the protocol keeps the tables and the last decision together.
LEMMA NextMirrors ==
    ASSUME LinkInv, MirrorInv, [Next]_vars PROVE MirrorInv'
<1>1. HandledExist /\ TypeOK
  BY DEF MirrorInv, LinkInv
<1>2. ASSUME UNCHANGED <<stage, docStatus, journal, restamped, moved, pin, input>>,
             \A q \in Requests : pc'[q] # "idle" => pc[q] # "idle"
      PROVE  MirrorInv'
  <2>1. StillExist
    BY <1>2, MirrorFrame
  <2>2. HandledExist'
    BY <1>1, <1>2, <2>1, HandledFrame
  <2> QED BY <1>2, <2>2, MirrorFrame
<1>3. ASSUME NEW r \in Requests, NEW i \in Inputs, Start(r, i) PROVE MirrorInv'
  <2>1. /\ input'[r] = i /\ pin' = pin
        /\ \A q \in Requests \ {r} : input'[q] = input[q]
        /\ \A n \in 1..Len(i.rows) : Exists(i.rows[n])
    BY <1>1, <1>3 DEF Start, TypeOK
  <2>2. ASSUME StillExist, \A q \in Requests \ {r} : pc'[q] = pc[q] PROVE HandledExist'
    <3>1. PICK S \in SUBSET Requests : S = {r}
      OBVIOUS
    <3>2. \A q \in S : input'[q] \in Inputs
                      /\ \A n \in 1..Len(input'[q].rows) : Exists(input'[q].rows[n])
      BY <2>1, <3>1
    <3>3. \A q \in Requests \ S : input'[q] = input[q] /\ (pc'[q] # "idle" => pc[q] # "idle")
      BY <2>1, <2>2, <3>1
    <3> QED BY <1>1, <2>2, <3>2, <3>3, HandledStill
  <2>3. CASE UNCHANGED <<stage, docStatus, journal, restamped, moved>> /\ \E how : pc' = [pc EXCEPT ![r] = how]
    <3>1. \A q \in Requests \ {r} : pc'[q] = pc[q]
      BY <1>1, <2>3 DEF TypeOK
    <3> QED BY <2>1, <2>2, <2>3, <3>1, MirrorFrame
  <2>4. ASSUME NEW rd, Continue(r, i, rd, <<>>) PROVE MirrorInv'
    <3>1. PICK g : g = <<>>
      OBVIOUS
    <3>2. g \in Seq(Nat) /\ Len(g) <= Len(i.rows)
      BY InputFields, <3>1
    <3>3. Continue(r, i, rd, g)
      BY <2>4, <3>1
    <3>4. \A q \in Requests \ {r} : pc'[q] = pc[q]
      BY <3>2, <3>3, ContinueEffect
    <3> QED BY <2>1, <2>2, <3>2, <3>3, <3>4, RequestMirrors
  <2>5. Answer(r, "refused") \/ pc' = [pc EXCEPT ![r] = "verifying"]
        => \E how : pc' = [pc EXCEPT ![r] = how]
    BY DEF Answer
  <2> QED BY <1>3, <2>3, <2>4, <2>5, Zenon DEF Start, Answer
<1>4. ASSUME NEW r \in Requests, NodeStep(r) PROVE MirrorInv'
  <2>1. pc[r] \in {"verifying", "advancing"} /\ pin' = pin /\ input' = input
    BY <1>4 DEF NodeStep, Verified, VerifyRefused, Advanced, AdvanceFailed, Timeout, CommitError,
                Active, Waiting
  <2>2. input[r] \in Inputs /\ got[r] \in Seq(Nat)
    BY <2>1, ActiveInput DEF Waiting
  <2>3. \A n \in 1..Len(input[r].rows) : Exists(input[r].rows[n])
    BY <1>1, <2>1 DEF HandledExist
  <2>4. CASE \E how : Answer(r, how)
    <3>1. /\ UNCHANGED <<stage, docStatus, journal, restamped, moved, pin, input>>
          /\ \A q \in Requests \ {r} : pc'[q] = pc[q]
      BY <1>1, <2>1, <2>4 DEF Answer, TypeOK
    <3> QED BY <1>2, <2>1, <3>1
  <2>5. ASSUME NEW rd, NEW g \in Seq(Nat), Len(g) <= Len(input[r].rows),
               Continue(r, input[r], rd, g)
        PROVE  MirrorInv'
    <3>1. PICK i \in Inputs : i = input[r]
      BY <2>2
    <3>2. \A q \in Requests \ {r} : pc'[q] = pc[q]
      BY <2>5, <3>1, ContinueEffect
    <3>3. ASSUME StillExist PROVE HandledExist'
      <4>1. \A q \in Requests : input'[q] = input[q] /\ (pc'[q] # "idle" => pc[q] # "idle")
        BY <2>1, <3>2
      <4> QED BY <1>1, <3>3, <4>1, HandledFrame
    <3> QED BY <2>1, <2>3, <2>5, <3>1, <3>3, RequestMirrors
  <2>6. CASE Verified(r) /\ Continue(r, input[r], seen[r], <<>>)
    <3>1. PICK g : g = <<>>
      OBVIOUS
    <3>2. g \in Seq(Nat) /\ Len(g) <= Len(input[r].rows)
      BY InputFields, <2>2, <3>1
    <3>3. Continue(r, input[r], seen[r], g)
      BY <2>6, <3>1
    <3> QED BY <2>5, <3>2, <3>3
  <2>7. CASE Advanced(r)
    <3>1. call[r].step \in Nat
      BY <1>1 DEF TypeOK, Call
    <3>2. PICK g : g = Append(got[r], call[r].step)
      OBVIOUS
    <3>3. g \in Seq(Nat) /\ Len(g) = Len(got[r]) + 1
      BY <2>2, <3>1, <3>2, AppendProperties
    <3>4. Len(g) <= Len(input[r].rows)
      <4>1. pc[r] = "advancing" /\ RequestInv(r)
        BY <2>7 DEF Advanced, LinkInv
      <4> QED BY <3>3, <4>1 DEF RequestInv
    <3>5. Continue(r, input[r], seen[r], g)
      BY <2>7, <3>2 DEF Advanced
    <3> QED BY <2>5, <3>3, <3>4, <3>5
  <2> QED BY <1>4, <2>4, <2>6, <2>7 DEF NodeStep, Verified, VerifyRefused, AdvanceFailed, Timeout,
                                        CommitError
<1>5. CASE \E r \in Requests : PythonStep(r)
  <2>1. UNCHANGED <<stage, docStatus, journal, restamped, moved, pin, input, pc>>
    BY <1>5 DEF PythonStep, PyVerifyCheck, PyVerifyCommit, PyAdvance, PyFail,
         ReplyCut, nodeVars
  <2> QED BY <1>2, <2>1
<1>6. CASE NodeCrash
  <2>1. UNCHANGED <<stage, docStatus, journal, restamped, moved, pin, input>>
    BY <1>6 DEF NodeCrash, nodeVars
  <2>2. \A q \in Requests : pc'[q] # "idle" => pc[q] # "idle"
    BY <1>6 DEF NodeCrash, Active, Waiting
  <2> QED BY <1>2, <2>1, <2>2
<1>7. CASE Environment
  <2>1. CASE \E w \in Workflows : CreateWorkflow(w)
    BY <2>1, CreateMirrors
  <2>2. CASE UNCHANGED <<stage, docStatus, journal, restamped, moved, pin, input, pc>>
    BY <1>2, <2>2
  <2>3. CASE \E w \in Workflows, s \in LegacyStages : LegacyAction(w, s)
    BY <2>3, MoveMirrors
  <2>4. ASSUME NEW D \in SUBSET Docs, NEW s, SetStatus(D, s) PROVE MirrorInv'
    BY <2>4, StampMirrors DEF SetStatus, requestVars
  <2>5. ASSUME NEW late \in SUBSET Dated, NEW soon \in SUBSET Dated, ExpiryScan(late, soon)
        PROVE  MirrorInv'
    BY <2>5, StampMirrors DEF ExpiryScan, requestVars
  <2> QED BY <1>7, <2>1, <2>2, <2>3, <2>4, <2>5
      DEF Environment, FinishAuthentication, Expire, ChangeConfig, PyDirectAction, Publish,
          nodeVars, requestVars
<1>8. CASE UNCHANGED vars
  BY <1>2, <1>8 DEF vars, nodeVars, requestVars
<1> QED BY <1>3, <1>4, <1>5, <1>6, <1>7, <1>8 DEF Next

\* documents.status and the stage of an unpinned workflow show the last recorded
\* decision until another writer of the column comes, whatever fails and overlaps:
\* the expiry job, imports, the bulk and the legacy routes included.
THEOREM DecisionsMirrored == Spec => []MirrorsJournal
<1>1. Init => MirrorInv
  <2>1. Init => journal = <<>> /\ \A r \in Requests : pc[r] = "idle"
    BY DEF Init
  <2> QED BY <2>1 DEF MirrorInv, HandledExist
<1>2. LinkInv /\ MirrorInv /\ [Next]_vars => MirrorInv'
  BY NextMirrors
<1>3. LinkInv /\ MirrorInv => MirrorsJournal
  <2> SUFFICES ASSUME LinkInv, MirrorInv PROVE MirrorsJournal
    OBVIOUS
  <2>1. DOMAIN journal = 1..Len(journal) /\ Len(journal) \in Nat
    BY LenProperties DEF LinkInv, TypeOK
  <2>2. ASSUME NEW at \in SUBSET (DOMAIN journal), at # {}
        PROVE  LastRow(at) \in at /\ \A m \in at : m <= LastRow(at)
    <3>1. \E x \in at : \A y \in at : y <= x
      BY <2>1, <2>2, GreatestExists
    <3> QED BY <3>1, Zenon DEF LastRow
  <2>3. ASSUME NEW d \in Docs, NEW at, at = {n \in DOMAIN journal : DocOf[journal[n].wf] = d},
               at # {}, d \notin restamped
        PROVE  docStatus[d] = DocStatusMap[journal[LastRow(at)].action]
    <3>1. PICK n : n = LastRow(at)
      OBVIOUS
    <3>2. n \in DOMAIN journal /\ DocOf[journal[n].wf] = d /\ \A m \in at : m <= n
      BY <2>2, <2>3, <3>1
    <3>3. HasDoc(journal[n].wf) /\ LastOfDoc(n)
      BY <2>3, <3>2, DocsAssumption DEF HasDoc, LastOfDoc
    <3> QED BY <2>3, <3>1, <3>2, <3>3 DEF MirrorInv
  <2>4. ASSUME NEW w \in Workflows, NEW at, at = {n \in DOMAIN journal : journal[n].wf = w},
               at # {}, w \notin moved, pin[w] = NoVersion
        PROVE  stage[w] = StageMap[journal[LastRow(at)].action]
    <3>1. PICK n : n = LastRow(at)
      OBVIOUS
    <3>2. n \in DOMAIN journal /\ journal[n].wf = w /\ \A m \in at : m <= n
      BY <2>2, <2>4, <3>1
    <3>3. LastOfWorkflow(n)
      BY <2>4, <3>2 DEF LastOfWorkflow
    <3> QED BY <2>4, <3>1, <3>2, <3>3 DEF MirrorInv
  <2> QED BY <2>3, <2>4 DEF MirrorsJournal
<1> QED BY <1>1, <1>2, <1>3, LinkInvariant, PTL DEF Spec
-----------------------------------------------------------------------------
(* The two services implement DecisionLog.                                 *)

\* What a step does to the three things DecisionLog looks at: nothing, or
\* Python appends a step, or the decision of one request appears.
Still   == steps' = steps /\ journal' = journal /\ \A q \in Requests : pc'[q] = "ok" <=> pc[q] = "ok"
Stepped == /\ \E s : steps' = Append(steps, s)
           /\ journal' = journal /\ \A q \in Requests : pc'[q] = "ok" <=> pc[q] = "ok"
Decides(r, i, g) ==
    /\ steps' = steps
    /\ journal' = journal \o JournalRows(r, i, g)
    /\ Len(g) = Len(i.rows)
    /\ pc[r] # "ok" /\ pc'[r] = "ok"
    /\ \A q \in Requests \ {r} : pc'[q] = pc[q]
DecidesOnce(r) == \E i \in Inputs, g \in Seq(Nat) : Decides(r, i, g)

LEMMA ContinueShape ==
    ASSUME LinkInv, NEW r \in Requests, NEW i \in Inputs, NEW rd, NEW g \in Seq(Nat),
           Len(g) <= Len(i.rows), Continue(r, i, rd, g), pc[r] # "ok", steps' = steps
    PROVE  Still \/ DecidesOnce(r)
<1>1. /\ \A q \in Requests \ {r} : pc'[q] = pc[q]
      /\ got'[r] \in Seq(Nat)
      /\ \/ pc'[r] = "advancing" /\ journal' = journal
         \/ /\ pc'[r] = "ok" /\ Len(got'[r]) = Len(i.rows)
            /\ journal' = journal \o JournalRows(r, i, got'[r])
  BY ContinueEffect
<1>2. PICK h \in Seq(Nat) : h = got'[r]
  BY <1>1
<1>3. CASE pc'[r] = "advancing" /\ journal' = journal
  BY <1>1, <1>3 DEF Still
<1>4. CASE pc'[r] = "ok" /\ Len(h) = Len(i.rows) /\ journal' = journal \o JournalRows(r, i, h)
  <2>1. Decides(r, i, h)
    BY <1>1, <1>4 DEF Decides
  <2> QED BY <2>1 DEF DecidesOnce
<1> QED BY <1>1, <1>2, <1>3, <1>4

LEMMA AnswerShape ==
    ASSUME LinkInv, NEW r \in Requests, NEW how \in {"refused", "failed"}, Answer(r, how),
           pc[r] # "ok", steps' = steps
    PROVE  Still
BY DEF Answer, Still, LinkInv, TypeOK

LEMMA StartShape ==
    ASSUME LinkInv, NEW r \in Requests, NEW i \in Inputs, Start(r, i)
    PROVE  Still \/ DecidesOnce(r)
<1>1. pc[r] = "idle" /\ steps' = steps
  BY DEF Start, pythonVars
<1>2. CASE Answer(r, "refused")
  BY <1>1, <1>2, AnswerShape
<1>3. CASE pc' = [pc EXCEPT ![r] = "verifying"] /\ journal' = journal
  BY <1>1, <1>3 DEF LinkInv, TypeOK, Still
<1>4. ASSUME NEW rd, Continue(r, i, rd, <<>>) PROVE Still \/ DecidesOnce(r)
  <2>1. PICK g : g = <<>>
    OBVIOUS
  <2>2. g \in Seq(Nat) /\ Len(g) = 0 /\ Len(g) <= Len(i.rows)
    BY InputFields, <2>1
  <2>3. Continue(r, i, rd, g)
    BY <1>4, <2>1
  <2> QED BY <1>1, <2>2, <2>3, ContinueShape
<1> QED BY <1>2, <1>3, <1>4, Zenon DEF Start

LEMMA NodeStepShape ==
    ASSUME LinkInv, NEW r \in Requests, NodeStep(r)
    PROVE  Still \/ DecidesOnce(r)
<1>0. TypeOK /\ RequestInv(r)
  BY DEF LinkInv
<1>1. pc[r] \in Waiting /\ pc[r] # "ok" /\ steps' = steps
  BY DEF NodeStep, Verified, VerifyRefused, Advanced, AdvanceFailed, Timeout, CommitError,
         Active, Waiting, pythonVars
<1>2. CASE \E how \in {"refused", "failed"} : Answer(r, how)
  BY <1>1, <1>2, AnswerShape
<1>3. CASE Verified(r) /\ Continue(r, input[r], seen[r], <<>>)
  <2>1. PICK g : g = <<>>
    OBVIOUS
  <2>2. input[r] \in Inputs
    BY <1>1, ActiveInput
  <2>3. g \in Seq(Nat) /\ Len(g) = 0 /\ Len(g) <= Len(input[r].rows)
    BY InputFields, <2>1, <2>2
  <2>4. Continue(r, input[r], seen[r], g)
    BY <1>3, <2>1
  <2> QED BY <1>1, <2>2, <2>3, <2>4, ContinueShape
<1>4. CASE Advanced(r)
  <2>1. input[r] \in Inputs /\ got[r] \in Seq(Nat)
    BY <1>1, ActiveInput
  <2>2. call[r].step \in Nat
    BY <1>0 DEF TypeOK, Call
  <2>3. PICK g : g = Append(got[r], call[r].step)
    OBVIOUS
  <2>4. g \in Seq(Nat) /\ Len(g) = Len(got[r]) + 1
    BY <2>1, <2>2, <2>3, AppendProperties
  <2>5. Len(g) <= Len(input[r].rows)
    <3>1. pc[r] = "advancing"
      BY <1>4 DEF Advanced
    <3> QED BY <1>0, <2>4, <3>1 DEF RequestInv
  <2>6. Continue(r, input[r], seen[r], g)
    BY <1>4, <2>3 DEF Advanced
  <2> QED BY <1>1, <2>1, <2>4, <2>5, <2>6, ContinueShape
<1> QED BY <1>2, <1>3, <1>4 DEF NodeStep, Verified, VerifyRefused, AdvanceFailed, Timeout,
           CommitError

\* Python's steps, and everybody else's.
LEMMA OtherShapes ==
    ASSUME LinkInv,
           (\E r \in Requests : PythonStep(r)) \/ NodeCrash \/ Environment \/ UNCHANGED vars
    PROVE  Still \/ Stepped
<1>1. CASE \E r \in Requests : PythonStep(r)
  <2>1. UNCHANGED <<journal, pc>>
    BY <1>1 DEF PythonStep, PyVerifyCheck, PyVerifyCommit, PyAdvance, PyFail,
         ReplyCut, nodeVars
  <2>2. steps' = steps \/ \E s : steps' = Append(steps, s)
    BY <1>1, Zenon DEF PythonStep, PyVerifyCheck, PyVerifyCommit, PyAdvance, PyFail,
         ReplyCut, pythonVars
  <2> QED BY <2>1, <2>2 DEF Still, Stepped
<1>2. CASE NodeCrash
  BY <1>2 DEF NodeCrash, Active, Waiting, nodeVars, pythonVars, Still
<1>3. CASE Environment
  <2>1. UNCHANGED <<journal, pc>>
    BY <1>3 DEF Environment, FinishAuthentication, Expire, ChangeConfig, CreateWorkflow, Publish,
         LegacyAction, PyDirectAction, SetStatus, ExpiryScan, nodeVars, requestVars
  <2>2. steps' = steps \/ \E s : steps' = Append(steps, s)
    BY <1>3, Zenon DEF Environment, FinishAuthentication, Expire, ChangeConfig, CreateWorkflow,
         Publish, LegacyAction, PyDirectAction, SetStatus, ExpiryScan, pythonVars
  <2> QED BY <2>1, <2>2 DEF Still, Stepped
<1>4. CASE UNCHANGED vars
  BY <1>4 DEF vars, nodeVars, pythonVars, requestVars, Still
<1> QED BY <1>1, <1>2, <1>3, <1>4

\* The rows that appear with a decision, and each of them with its step, which
\* no row cited before.
LEMMA DecisionAppears ==
    ASSUME TypeOK, TypeOK', LinkedStep', NEW r \in Requests, NEW i \in Inputs,
           NEW g \in Seq(Nat), Decides(r, i, g)
    PROVE  DL!Decide(r)
<1>1. PICK rows : rows = JournalRows(r, i, g)
  OBVIOUS
<1>2. /\ rows \in Seq(Row) /\ Len(rows) \in Nat /\ rows # <<>>
      /\ journal \in Seq(Row) /\ Len(journal) \in Nat /\ journal' = journal \o rows
  <2>1. rows \in Seq(Row) /\ Len(rows) = Len(i.rows)
    BY <1>1, JournalRowsTyped DEF Decides
  <2>2. i.rows # <<>> /\ i.rows \in Seq(Workflows)
    BY InputsAssumption, InputFields
  <2>3. rows # <<>>
    BY <2>1, <2>2
  <2>4. Len(rows) \in Nat /\ journal \in Seq(Row) /\ Len(journal) \in Nat
    BY <2>1, LenProperties DEF TypeOK
  <2> QED BY <1>1, <2>1, <2>3, <2>4 DEF Decides
<1>3. /\ Len(journal') = Len(journal) + Len(rows)
      /\ \A n \in 1..Len(journal) : journal'[n] = journal[n]
      /\ \A n \in 1..Len(rows) : journal'[Len(journal) + n] = rows[n]
  BY <1>2
<1>4. SubSeq(journal', Len(journal) + 1, Len(journal')) = rows
  BY <1>2, <1>3
<1>5. ASSUME NEW n \in DOMAIN rows
      PROVE  IF DocOf[rows[n].wf] = NoDoc THEN rows[n].step = 0
             ELSE DL!Cites(rows[n], rows[n].step)
  <2>1. PICK k : k = Len(journal) + n
    OBVIOUS
  <2>2. k \in DOMAIN journal' /\ journal'[k] = rows[n]
    BY <1>2, <1>3, <2>1
  <2>3. CASE DocOf[rows[n].wf] = NoDoc
    BY <2>2, <2>3 DEF LinkedStep, HasDoc, NoStep
  <2>4. CASE DocOf[rows[n].wf] # NoDoc
    <3>1. /\ rows[n].step \in DOMAIN steps
          /\ steps[rows[n].step].doc       = DocOf[rows[n].wf]
          /\ steps[rows[n].step].action    = rows[n].action
          /\ steps[rows[n].step].actor     = rows[n].user
          /\ steps[rows[n].step].assertion = rows[n].assertion
      <4>1. steps' = steps
        BY DEF Decides
      <4> QED BY <2>2, <2>4, <4>1 DEF LinkedStep, HasDoc
    <3>2. rows[n].step # NoStep
      <4>1. 0 \notin DOMAIN steps
        <5>1. steps \in Seq(Step)
          BY DEF TypeOK
        <5> QED BY <5>1, LenProperties
      <4> QED BY <3>1, <4>1 DEF NoStep
    <3>3. ASSUME NEW m \in DOMAIN journal PROVE journal[m].step # rows[n].step
      <4>1. m \in DOMAIN journal' /\ m # k /\ journal'[m] = journal[m]
        BY <1>2, <1>3, <2>1
      <4> QED BY <2>2, <3>2, <4>1 DEF LinkedStep
    <3> QED BY <2>4, <3>1, <3>3 DEF DL!Cites, DL!Cited
  <2> QED BY <2>3, <2>4
<1>6. ASSUME NEW m \in DOMAIN rows, NEW n \in DOMAIN rows, m # n, rows[m].step = rows[n].step
      PROVE  rows[n].step = 0
  <2>1. PICK a, b : a = Len(journal) + m /\ b = Len(journal) + n
    OBVIOUS
  <2>2. a \in DOMAIN journal' /\ b \in DOMAIN journal' /\ a # b
        /\ journal'[a] = rows[m] /\ journal'[b] = rows[n]
    BY <1>2, <1>3, <1>6, <2>1
  <2> QED BY <1>6, <2>2 DEF LinkedStep, NoStep
<1>7. /\ r \notin {q \in Requests : pc[q] = "ok"}
      /\ {q \in Requests : pc'[q] = "ok"} = {q \in Requests : pc[q] = "ok"} \cup {r}
      /\ steps' = steps
  BY DEF Decides
<1>8. \A m, n \in DOMAIN rows : m # n /\ rows[m].step = rows[n].step => rows[n].step = 0
  BY <1>6
<1>9. \A n \in DOMAIN rows :
         IF DocOf[rows[n].wf] = NoDoc THEN rows[n].step = 0
         ELSE DL!Cites(rows[n], rows[n].step)
  BY <1>5
<1>10. DL!Appear(rows)
  BY <1>2, <1>8, <1>9, Zenon DEF DL!Appear
<1>11. DL!Appear(SubSeq(journal', Len(journal) + 1, Len(journal')))
  BY <1>4, <1>10
<1> QED BY <1>7, <1>11 DEF DL!Decide

LEMMA StepAppears ==
    ASSUME TypeOK, Stepped
    PROVE  DL!Record
<1>1. {q \in Requests : pc'[q] = "ok"} = {q \in Requests : pc[q] = "ok"} /\ journal' = journal
  BY DEF Stepped
<1>2. Len(steps') = Len(steps) + 1 /\ \A s \in DOMAIN steps : steps'[s] = steps[s]
  <2>1. PICK s : steps' = Append(steps, s)
    BY DEF Stepped
  <2>2. PICK S : S = Step \cup {s}
    OBVIOUS
  <2>3. steps \in Seq(Step) /\ s \in S /\ Step \subseteq S
    BY <2>2 DEF TypeOK
  <2>4. steps \in Seq(S)
    BY <2>3
  <2> QED BY <2>1, <2>3, <2>4, AppendProperties
<1> QED BY <1>1, <1>2 DEF DL!Record

\* Whatever calls fail, time out or interleave, and whoever else writes steps:
\* steps are put on record one at a time, and a decision appears whole, once,
\* and on steps recorded before that no row cited.
THEOREM DecisionLogImplemented == Spec => ImplementsDecisionLog
<1>1. Init => DL!DLInit
  BY DEF Init, DL!DLInit
<1>2. LinkInv /\ LinkInv' /\ LinkedStep' /\ [Next]_vars => [DL!DLNext]_(DL!dlVars)
  <2> SUFFICES ASSUME LinkInv, LinkInv', LinkedStep', [Next]_vars
               PROVE  [DL!DLNext]_(DL!dlVars)
    OBVIOUS
  <2>1. TypeOK /\ TypeOK'
    BY DEF LinkInv
  <2>2. Still \/ Stepped \/ \E r \in Requests : DecidesOnce(r)
    BY StartShape, NodeStepShape, OtherShapes DEF Next
  <2>3. CASE Still
    <3>1. {q \in Requests : pc'[q] = "ok"} = {q \in Requests : pc[q] = "ok"}
      BY <2>3 DEF Still
    <3> QED BY <2>3, <3>1 DEF Still, DL!dlVars
  <2>4. CASE Stepped
    BY <2>1, <2>4, StepAppears DEF DL!DLNext
  <2>5. CASE \E r \in Requests : DecidesOnce(r)
    BY <2>1, <2>5, DecisionAppears DEF DecidesOnce, DL!DLNext
  <2> QED BY <2>2, <2>3, <2>4, <2>5
<1> QED BY <1>1, <1>2, LinkInvariant, LinkedSteps, PTL DEF Spec, ImplementsDecisionLog, DL!DLSpec
=============================================================================
