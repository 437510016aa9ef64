---------------------------- MODULE StageRules ----------------------------
(***************************************************************************)
(* The decision rules of the workflow subsystem, as pure operators: which  *)
(* role may take which action, when a step-up is required, which stage an  *)
(* action leads to (hard-coded map or the canvas graph of the template     *)
(* version the workflow is pinned to), and the status each side gives the  *)
(* document.  Translated from routes/spa-api/workflows.js (Node) and       *)
(* python-service/app/routers/workflow.py (Python).                        *)
(***************************************************************************)
EXTENDS Naturals, Sequences, SequencesExt

CONSTANTS
    Versions,       \* rows of wf_template_versions, all of one template
    Bpmn,           \* Bpmn[v]: the parsed bpmn_json, [nodes, edges], fixed once v is published
    NoVersion,      \* template_version_id IS NULL
    NoThreshold     \* step_up_amount_threshold not configured (Infinity)

Actions == {"approve", "reject", "escalate"}

\* The label of a node is a stage name; an unlabelled node carries NoLabel.
NoLabel == ""

Node  == [id : Nat, type : STRING, label : STRING]
Edge  == [from : Nat, to : Nat]

ASSUME VersionsAssumption == NoVersion \notin Versions

ASSUME BpmnAssumption ==
    \A v \in Versions : Bpmn[v].nodes \in Seq(Node) /\ Bpmn[v].edges \in Seq(Edge)

ASSUME ThresholdAssumption == NoThreshold \notin Nat

StageMap == [approve |-> "Approved", reject |-> "Rejected - Rework",
             escalate |-> "Manager Sign-off"]

ActionRoles == [approve  |-> {"Checker", "Doc Admin"},
                reject   |-> {"Checker", "Doc Admin"},
                escalate |-> {"Doc Admin"}]

DocStatusMap == [approve |-> "Valid", reject |-> "Pending Review",
                 escalate |-> "Pending Review"]

-----------------------------------------------------------------------------
(* Step-up policy.  No schema or migration gives `workflows` a risk_band   *)
(* or an amount column, so the row's fields are undefined and default.     *)

RiskBandOrder == <<"low", "medium", "high", "critical">>
RowRisk       == ""
RowAmount     == 0

Config == [band : {"low", "medium", "high", "critical", "never"},
           amount : Nat \cup {NoThreshold}]

RiskBandSatisfies(band, threshold) ==
    \E m, n \in DOMAIN RiskBandOrder :
        RiskBandOrder[m] = band /\ RiskBandOrder[n] = threshold /\ m >= n

NeedsStepUp(cfg) ==
    /\ cfg.band # "never"
    /\ \/ RiskBandSatisfies(RowRisk, cfg.band)
       \/ cfg.amount # NoThreshold /\ RowAmount >= cfg.amount

-----------------------------------------------------------------------------
(* Stages.                                                                 *)

IsStageNode(n) == n.type \in {"stage", "edd-case"}

\* The stage a pinned workflow starts at: the first stage node of its graph.
\* Without a version the first of the template's steps_json, or "Maker Review":
\* the latter stands for both.
InitialStage(v) ==
    LET nodes == IF v = NoVersion THEN <<>> ELSE Bpmn[v].nodes
        first == SelectInSeq(nodes, IsStageNode)
    IN  IF first = 0 \/ nodes[first].label = NoLabel
        THEN "Maker Review" ELSE nodes[first].label

\* Label of the node behind the first edge out of the node labelled `stage`;
\* NoLabel where the graph has no such node, edge or label.
GraphNext(v, stage) ==
    LET nodes == Bpmn[v].nodes
        edges == Bpmn[v].edges
        here  == SelectInSeq(nodes, LAMBDA n : IsStageNode(n) /\ n.label = stage)
        out   == IF here = 0 THEN 0
                 ELSE SelectInSeq(edges, LAMBDA e : e.from = nodes[here].id)
        next  == IF out = 0 THEN 0
                 ELSE SelectInSeq(nodes, LAMBDA n : n.id = edges[out].to)
    IN  IF next = 0 THEN NoLabel ELSE nodes[next].label

\* advanceWorkflow: the graph decides only an approval of a workflow whose
\* pinned version is, at this moment, the published one.
NextStage(action, stage, pinned, published) ==
    IF /\ action = "approve"
       /\ pinned \in published
       /\ GraphNext(pinned, stage) # NoLabel
    THEN GraphNext(pinned, stage)
    ELSE StageMap[action]

\* Every stage a workflow can be shown at.
StageNames ==
    {"Maker Review"} \cup {StageMap[a] : a \in Actions}
    \cup UNION {{Bpmn[v].nodes[n].label : n \in DOMAIN Bpmn[v].nodes} : v \in Versions}

-----------------------------------------------------------------------------
(* Python's _next_status.                                                  *)

StageOrder == <<"capture", "ai_index", "maker", "checker", "approve", "archive">>

NextStatus(current, action, stage) ==
    LET at == SelectInSeq(StageOrder, LAMBDA s : s = stage)
    IN  CASE action = "reject"                          -> "rejected"
          [] action = "approve" /\ stage = "approve"    -> "archived"
          [] action = "approve" /\ stage # "approve" /\ at # 0 ->
                 IF at < Len(StageOrder) THEN StageOrder[at + 1] ELSE StageOrder[at]
          [] OTHER                                      -> current

PyStatuses == {"captured", "rejected", "archived"} \cup {StageOrder[n] : n \in DOMAIN StageOrder}
=============================================================================
