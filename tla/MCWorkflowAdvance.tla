------------------------- MODULE MCWorkflowAdvance -------------------------
(***************************************************************************)
(* Small instances of WorkflowAdvance.                                     *)
(***************************************************************************)
EXTENDS WorkflowAdvance

CONSTANTS d1, d2, a1, a2, checker, admin, maker

\* w1 and w3 have a document each, w2 has none.
MCDocOf == [w \in Workflows |-> IF w = "w1" THEN d1 ELSE IF w = "w3" THEN d2 ELSE NoDoc]

MCRoleOf == [u \in Users |-> IF u = checker THEN "Checker"
                             ELSE IF u = admin THEN "Doc Admin" ELSE "Maker"]

MCOwner == [a \in Assertions |-> IF a = a1 THEN checker ELSE admin]

\* step_up_amount_threshold unset, and 0: the two policies the table's columns
\* let an administrator choose between.
MCConfigs == {[band |-> "high", amount |-> NoThreshold], [band |-> "high", amount |-> 0]}
NeverAsks == {[band |-> "high", amount |-> NoThreshold]}

One(u, act, w, a, ok)   == [kind |-> "single", user |-> u, action |-> act, rows |-> <<w>>,
                            assertion |-> a, bodyOk |-> ok]
Many(u, act, ws, a, ok) == [kind |-> "bulk", user |-> u, action |-> act, rows |-> ws,
                            assertion |-> a, bodyOk |-> ok]

\* Single and bulk requests that share a document, an assertion, or neither.
MixedInputs ==
    { One(checker, "approve", "w1", a1, TRUE),
      One(checker, "reject", "w1", NoAssertion, TRUE),
      One(admin, "approve", "w1", a1, TRUE),
      One(admin, "escalate", "w2", NoAssertion, TRUE),
      One(checker, "approve", "w1", a1, FALSE),
      One(maker, "approve", "w1", NoAssertion, TRUE),
      Many(checker, "approve", <<"w1", "w2", "w3">>, a1, TRUE),
      Many(admin, "reject", <<"w2", "w1", "w1">>, NoAssertion, TRUE) }

NoBpmn == [v \in Versions |-> [nodes |-> <<>>, edges |-> <<>>]]

\* Two versions of one template: v2 puts an EDD case between the two stages
\* of v1.  The parallel node shows that only stages and EDD cases are looked
\* up, and the last stage has no edge out of it.
N(id, type, label) == [id |-> id, type |-> type, label |-> label]
E(from, to)        == [from |-> from, to |-> to]

TwoVersions ==
    [v \in Versions |->
        IF v = "v1"
        THEN [nodes |-> << N(1, "parallel", "Maker Check"), N(2, "stage", "Maker Check"),
                           N(3, "stage", "Checker Sign-off"), N(4, "stage", "Archive") >>,
              edges |-> << E(2, 3), E(3, 4), E(2, 4) >>]
        ELSE [nodes |-> << N(1, "stage", "Maker Check"), N(2, "edd-case", "EDD"),
                           N(3, "stage", "Checker Sign-off") >>,
              edges |-> << E(1, 2), E(2, 3) >>]]

\* Approvals of the workflow the run creates.
W1Approval == { One(checker, "approve", "w1", NoAssertion, TRUE) }

\* A batch of two rows with a document each.
BulkOfTwo == { Many(checker, "approve", <<"w1", "w3">>, NoAssertion, TRUE) }
=============================================================================
