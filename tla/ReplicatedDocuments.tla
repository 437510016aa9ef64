-------------------------- MODULE ReplicatedDocuments --------------------------
(***************************************************************************)
(* One document written in several regions (services/crdt.py,              *)
(* routers/replication.py, and the two handlers of routers/documents.py    *)
(* that stamp).  The repository has the receiving end of replication and   *)
(* no sender: a snapshot of a region's row may be sent at any time and is  *)
(* lost, repeated and reordered.                                           *)
(*                                                                         *)
(* A value of a column is the write it comes from: the region and the      *)
(* count it stamped.  Regions are numbers, in the alphabetical order of    *)
(* their names.  No other document has steps, so that the id of a row of   *)
(* workflow_steps is its place.                                            *)
(***************************************************************************)
EXTENDS Naturals, Sequences, FiniteSets, FiniteSetsExt, Functions

CONSTANTS Regions,
          Home,        \* where the document was uploaded
          Fields,      \* the columns that only PATCH writes after the upload
          MaxOverlap,  \* bound: requests on the document that a region handles at once
          MaxEdits,    \* bound: edits of a region
          MaxSteps,    \* bound: workflow decisions of a region
          MaxSent      \* bound: different snapshots

ASSUME ReplicaAssumption ==
    /\ Regions \subseteq Nat \ {0} /\ IsFiniteSet(Regions) /\ Home \in Regions
    /\ MaxOverlap \in Nat \ {0}
    /\ {MaxSteps, MaxSent} \subseteq Nat /\ MaxEdits \in Nat \ {0}

VARIABLES row,       \* region -> its row of the document
          steps,     \* region -> its workflow_steps
          handling,  \* region -> requests that have read and not committed
          sent,      \* snapshots; each may arrive any number of times
          journal,   \* the rows that the edits left behind (a history)
          raced      \* the regions where a commit was stored over another one that
                     \* its request had not seen (a history)

replicaVars == <<row, steps, handling, sent, journal, raced>>

None == [by |-> 0, count |-> 0]
NoClock == [q \in Regions |-> 0]
NoRow == [known |-> FALSE, clock |-> NoClock, fields |-> [f \in Fields |-> None],
          status |-> None]

-----------------------------------------------------------------------------
(* services/crdt.py.  A region that has not written is not in the clock.   *)

\* Regression: the counter of the region that wrote last.
StampHighest(c, r) == LET q == Max({p \in Regions : \A x \in Regions : c[p] >= c[x]})
                      IN  [c EXCEPT ![q] = @ + 1]

Stamp(c, r) == [c EXCEPT ![r] = @ + 1]

Known(c) == {q \in Regions : c[q] > 0}

Dominates(a, b) == a # b /\ \A q \in Regions : a[q] >= b[q]

\* The tiebreak compares the greatest names, not those that differ.
Concurrent(a, b) ==
    CASE SumFunction(a) > SumFunction(b) -> "after"
      [] SumFunction(a) < SumFunction(b) -> "before"
      [] OTHER -> IF Max(Known(a)) > Max(Known(b)) THEN "after" ELSE "before"

\* Regression: the snapshot that arrives last wins.
ComparisonsNone(a, b) == {"before"}

\* Equal clocks are compared as texts.  The order of the names in a merged
\* clock is that of a set: with two of them the texts may differ, and the
\* comparison falls through to the tiebreak.
Comparisons(a, b) ==
    IF Dominates(a, b) THEN {"after"}
    ELSE IF Dominates(b, a) THEN {"before"}
    ELSE IF a # b THEN {Concurrent(a, b)}
    ELSE IF Cardinality(Known(a)) > 1 THEN {"same", "before"} ELSE {"same"}

\* Regression: the local clock.
MergedLocal(a, b) == a

Merged(a, b) == [q \in Regions |-> Max({a[q], b[q]})]

\* A column that the snapshot leaves empty keeps its local value.
Taken(local, remote) == IF remote = None THEN local ELSE remote

Resolve(local, remote, cmp) ==
    [known  |-> TRUE,
     clock  |-> Merged(local.clock, remote.clock),
     fields |-> IF cmp = "before"
                THEN [f \in Fields |-> Taken(local.fields[f], remote.fields[f])]
                ELSE local.fields,
     status |-> IF cmp = "before" THEN Taken(local.status, remote.status) ELSE local.status]

-----------------------------------------------------------------------------
(* A request reads the row, and its commit writes the columns it changed.  *)
(* read: the row; new: what it makes of it; steps: its rows with an id.    *)

Uploads == {[NoRow EXCEPT !.known = TRUE, !.clock[Home] = n, !.status = [by |-> Home, count |-> 0],
                          !.fields = [f \in Fields |-> [by |-> Home, count |-> n]]] : n \in 0 .. 1}

\* The portal uploads without a clock.
ReplicaInit ==
    /\ row \in {[r \in Regions |-> IF r = Home THEN u ELSE NoRow] : u \in Uploads}
    /\ steps = [r \in Regions |-> <<>>]
    /\ handling = [r \in Regions |-> {}]
    /\ sent = {}
    /\ journal = {row[Home]}
    /\ raced = {}

Begin(r, read, new, from, ids) ==
    /\ Cardinality(handling[r]) < MaxOverlap
    /\ handling' = [handling EXCEPT ![r] = @ \cup {[read |-> read, new |-> new,
                                                    steps |-> from, ids |-> ids]}]

\* PATCH: a field that is sent as null is emptied.
UpdateDocument(r, F, E) ==
    LET clock == Stamp(row[r].clock, r)
        new == [row[r] EXCEPT
                    !.clock = clock,
                    !.fields = [f \in Fields |->
                        IF f \in E THEN None
                        ELSE IF f \in F THEN [by |-> r, count |-> clock[r]] ELSE @[f]]]
    IN  /\ row[r].known
        /\ row[r].clock[r] < MaxEdits
        /\ Begin(r, row[r], new, <<>>, 0)
        /\ UNCHANGED <<row, steps, sent, journal, raced>>

\* A row that is not there takes the snapshot as it is, with its clock.
Apply(r, m) ==
    /\ \E cmp \in Comparisons(row[r].clock, m.row.clock) :
           Begin(r, row[r], IF row[r].known THEN Resolve(row[r], m.row, cmp) ELSE m.row,
                 m.steps, Len(steps[r]))
    /\ UNCHANGED <<row, steps, sent, journal, raced>>

Column(now, read, new) == IF new = read THEN now ELSE new

Stored(now, h) ==
    [known  |-> TRUE,
     clock  |-> Column(now.clock, h.read.clock, h.new.clock),
     fields |-> [f \in Fields |-> Column(now.fields[f], h.read.fields[f], h.new.fields[f])],
     status |-> Column(now.status, h.read.status, h.new.status)]

\* The steps whose id was free when the request looked.
Fresh(h) == SubSeq(h.steps, h.ids + 1, Len(h.steps))

\* An insert whose key is taken by then fails, and the request with it.
Conflict(r, h) == \/ ~h.read.known /\ row[r].known
                  \/ Fresh(h) # <<>> /\ Len(steps[r]) > h.ids

\* The clock or a field is no longer what the request has read.
Overtaken(r, h) == \/ row[r].clock # h.read.clock
                   \/ row[r].fields # h.read.fields

Commit(r, h) ==
    /\ handling' = [handling EXCEPT ![r] = @ \ {h}]
    /\ IF Conflict(r, h)
       THEN UNCHANGED <<row, steps, journal, raced>>
       ELSE /\ row' = [row EXCEPT ![r] = Stored(@, h)]
            /\ steps' = [steps EXCEPT ![r] = @ \o Fresh(h)]
            /\ journal' = IF h.new.clock[r] > h.read.clock[r]
                          THEN journal \cup {Stored(row[r], h)} ELSE journal
            /\ raced' = IF Overtaken(r, h) THEN raced \cup {r} ELSE raced
    /\ UNCHANGED sent

\* A decision, or the reading of the text, sets the status and stamps nothing.
\* Its step gets the next id.
WorkflowAction(r) ==
    LET step == [by |-> r, count |-> 1 + Cardinality({i \in DOMAIN steps[r] : steps[r][i].by = r})]
    IN  /\ row[r].known
        /\ step.count <= MaxSteps
        /\ row' = [row EXCEPT ![r].status = step]
        /\ steps' = [steps EXCEPT ![r] = Append(@, step)]
        /\ UNCHANGED <<handling, sent, journal, raced>>

Snapshot(r) == [row |-> row[r], steps |-> steps[r]]

Send(r) ==
    /\ row[r].known
    /\ sent' = sent \cup {Snapshot(r)}
    /\ Cardinality(sent') <= MaxSent
    /\ UNCHANGED <<row, steps, handling, journal, raced>>

ReplicaNext ==
    \E r \in Regions :
        \/ \E F \in SUBSET Fields : F # {} /\ \E E \in SUBSET F : UpdateDocument(r, F, E)
        \/ \E m \in sent : Apply(r, m)
        \/ \E h \in handling[r] : Commit(r, h)
        \/ WorkflowAction(r)
        \/ Send(r)

ReplicaSpec == ReplicaInit /\ [][ReplicaNext]_replicaVars

-----------------------------------------------------------------------------
\* Where no commit was stored over another, a region alone counts its edits:
\* nobody knows of more of them than itself, however often and late its
\* snapshots come back to it, and whatever the requests of other regions do to
\* each other.
CountsOwned ==
    \A r \in Regions \ raced : /\ \A q \in Regions : row[q].clock[r] <= row[r].clock[r]
                               /\ \A m \in sent : m.row.clock[r] <= row[r].clock[r]

\* As long as no commit was stored over another, a value in a row is an edit
\* that the clock of the row knows of.
ValuesKnown ==
    raced = {} => \A r \in Regions : \A f \in Fields :
        LET w == row[r].fields[f] IN w # None => w.count <= row[r].clock[w.by]

\* Each edit was made where all earlier ones had arrived.
EditedInTurn == \A i, j \in journal : i = j \/ Dominates(i.clock, j.clock) \/ Dominates(j.clock, i.clock)

\* As long as each edit is made on top of all earlier ones, and no commit is
\* stored over another, a region shows the values of the edit that its clock
\* names, in every field the edit left filled, whatever arrives late, twice or
\* not at all.
FollowsClock ==
    (EditedInTurn /\ raced = {}) => \A r \in Regions : \A j \in journal : \A f \in Fields :
        (row[r].known /\ j.clock = row[r].clock /\ j.fields[f] # None) =>
            row[r].fields[f] = j.fields[f]

-----------------------------------------------------------------------------
(* Statements of the documentation that the code does not keep: README,    *)
(* section 14.                                                             *)

\* Two regions that know of the same edits show the same values, where both
\* have one.
Converged ==
    \A r, q \in Regions : \A f \in Fields :
        (/\ row[r].known /\ row[q].known /\ row[r].clock = row[q].clock
         /\ None \notin {row[r].fields[f], row[q].fields[f]}) =>
            row[r].fields[f] = row[q].fields[f]

\* The steps of a snapshot that was applied are there.
StepsUnited ==
    [][\A r \in Regions : \A h \in handling[r] :
          (Commit(r, h) /\ ~Conflict(r, h)) => Range(h.steps) \subseteq Range(steps'[r])]_replicaVars

\* An edit that is stored raises its region's counter.
EditsCounted ==
    [][\A r \in Regions : \A h \in handling[r] :
          (Commit(r, h) /\ h.new.clock[r] > h.read.clock[r]) =>
              row'[r].clock[r] > row[r].clock[r]]_replicaVars
=============================================================================
