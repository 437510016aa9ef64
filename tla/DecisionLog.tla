---------------------------- MODULE DecisionLog ----------------------------
(***************************************************************************)
(* What the two-phase audit of ADR-0014 promises, without handlers, calls  *)
(* or timeouts: a step is first put on record on one side; a decision then *)
(* appears on the other side in one piece, once per request, and each of   *)
(* its rows that concerns a document cites a step of its own, put on       *)
(* record before and cited by no row so far.                               *)
(***************************************************************************)
EXTENDS Naturals, Sequences

CONSTANTS Deciders,   \* whoever may decide, once each
          Subjects,   \* what a row is about
          DocOfSubject, NoDocument

VARIABLES
    recorded,    \* the steps on record, in order
    log,         \* the rows of the decisions taken, in order
    decided      \* the deciders that have decided

dlVars == <<recorded, log, decided>>

DLInit == recorded = <<>> /\ log = <<>> /\ decided = {}

Cited == {log[n].step : n \in DOMAIN log}

\* A row of a decision may cite step s of the record.
Cites(row, s) ==
    /\ s \in DOMAIN recorded
    /\ s \notin Cited
    /\ recorded[s].doc = DocOfSubject[row.wf]
    /\ recorded[s].action = row.action
    /\ recorded[s].actor = row.user
    /\ recorded[s].assertion = row.assertion

\* Some step is put on record.
Record ==
    /\ Len(recorded') = Len(recorded) + 1
    /\ \A s \in DOMAIN recorded : recorded'[s] = recorded[s]
    /\ UNCHANGED <<log, decided>>

\* `rows` appear in one piece, each that concerns a document with its step.
Appear(rows) ==
    /\ log' = log \o rows
    /\ rows # <<>>
    /\ \A n \in DOMAIN rows :
          IF DocOfSubject[rows[n].wf] = NoDocument
          THEN rows[n].step = 0
          ELSE Cites(rows[n], rows[n].step)
    /\ \A m, n \in DOMAIN rows :
          m # n /\ rows[m].step = rows[n].step => rows[n].step = 0

\* Decider q's decision appears.
Decide(q) ==
    /\ q \notin decided
    /\ decided' = decided \cup {q}
    /\ Appear(SubSeq(log', Len(log) + 1, Len(log')))
    /\ UNCHANGED recorded

DLNext == Record \/ \E q \in Deciders : Decide(q)

DLSpec == DLInit /\ [][DLNext]_dlVars
=============================================================================
