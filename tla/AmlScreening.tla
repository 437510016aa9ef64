---------------------------- MODULE AmlScreening ----------------------------
(***************************************************************************)
(* AML screening of the Python service (services/aml_screening.py,         *)
(* routers/aml_screening.py) with its task queue in memory                 *)
(* (services/tasks.py): customers screened against watchlists that an      *)
(* administrator reloads meanwhile.                                        *)
(*                                                                         *)
(* A list is the set of the customers whose names it matches.  A request   *)
(* handled by the event loop and the commit of a session are one step; a   *)
(* worker's thread takes several.                                          *)
(***************************************************************************)
EXTENDS Naturals, Sequences, FiniteSets

CONSTANTS Customers, Lists,
          Workers,    \* start_workers(n)
          Window,     \* _IDEMPOTENCY_WINDOW_SECONDS, in ticks
          MaxTicks,   \* bound: ticks
          MaxRows,    \* bound: rows of aml_screenings
          MaxChanges, \* bound: new list files, and lists switched on or off
          MaxRestarts \* bound: restarts of the process

ASSUME ScreeningAssumption ==
    IsFiniteSet(Workers) /\ {Window, MaxTicks, MaxRows, MaxChanges, MaxRestarts} \subseteq Nat

VARIABLES time, changes, restarts,
          file,        \* list -> the customers in data/watchlists/<list>.json
          entries,     \* list -> the customers in aml_watchlist_entries
          active,      \* the lists that are switched on
          screenings,  \* aml_screenings, in the order of their ids
          queue,       \* _queue
          worker       \* worker -> what its thread is at

screeningBounds == <<time, changes, restarts>>
lists == <<file, entries, active>>
screeningVars == <<screeningBounds, lists, screenings, queue, worker>>

NoRun == [at |-> "idle", cid |-> "none", row |-> 0, todo |-> {}, found |-> {}, listed |-> {}]

ScreeningInit ==
    /\ time = 0 /\ changes = 0 /\ restarts = 0
    /\ file \in [Lists -> SUBSET Customers]
    /\ entries = file
    /\ active = Lists
    /\ screenings = <<>> /\ queue = <<>>
    /\ worker = [w \in Workers |-> NoRun]

Rows == DOMAIN screenings

-----------------------------------------------------------------------------
(* Requests and tasks.                                                     *)

\* Regression: what a scheduled task has started is not looked at.
InflightPending(c) == {i \in Rows : /\ screenings[i].cid = c
                                    /\ screenings[i].status = "pending"
                                    /\ screenings[i].when + Window >= time}

\* _find_inflight_screening
Inflight(c) == {i \in Rows : /\ screenings[i].cid = c
                             /\ screenings[i].status \in {"pending", "running"}
                             /\ screenings[i].when + Window >= time}

\* listed: the lists that matched all along (a history).
Row(c, status) == [cid |-> c, status |-> status, when |-> time, listed |-> {}]

\* POST /screen puts the task in the queue and commits its row before the
\* event loop can hand the task to a worker.
ScreenOneCustomer(c, force) ==
    /\ force \/ Inflight(c) = {}
    /\ Len(screenings) < MaxRows
    /\ queue' = Append(queue, c)
    /\ screenings' = Append(screenings, Row(c, "pending"))
    /\ UNCHANGED <<screeningBounds, lists, worker>>

\* POST /tasks
Enqueue(c) ==
    /\ Len(screenings) + Len(queue) < MaxRows
    /\ queue' = Append(queue, c)
    /\ UNCHANGED <<screeningBounds, lists, screenings, worker>>

Step(w, run) == worker' = [worker EXCEPT ![w] = run]

Take(w) ==
    /\ worker[w].at = "idle" /\ queue # <<>>
    /\ queue' = Tail(queue)
    /\ Step(w, [NoRun EXCEPT !.at = "check", !.cid = Head(queue)])
    /\ UNCHANGED <<screeningBounds, lists, screenings>>

\* screen_customer answers with the screening that is under way, if any.
CheckInflight(w) ==
    /\ worker[w].at = "check"
    /\ Step(w, IF Inflight(worker[w].cid) # {} THEN NoRun ELSE [worker[w] EXCEPT !.at = "insert"])
    /\ UNCHANGED <<screeningBounds, lists, screenings, queue>>

Matching(c) == {l \in active : c \in entries[l]}

InsertRunning(w) ==
    /\ worker[w].at = "insert" /\ Len(screenings) < MaxRows
    /\ screenings' = Append(screenings, Row(worker[w].cid, "running"))
    /\ Step(w, [worker[w] EXCEPT !.at = "lists", !.row = Len(screenings) + 1,
                                 !.listed = Matching(worker[w].cid)])
    /\ UNCHANGED <<screeningBounds, lists, queue>>

\* Regression: the first list instead of all.
ActiveFirst == IF active = {} THEN {} ELSE {CHOOSE l \in active : TRUE}

ActiveLists == active

ReadLists(w) ==
    /\ worker[w].at = "lists"
    /\ Step(w, [worker[w] EXCEPT !.at = "match", !.todo = ActiveLists])
    /\ UNCHANGED <<screeningBounds, lists, screenings, queue>>

\* The list's row is that of ReadLists; its entries are read now.
MatchList(w, l) ==
    /\ worker[w].at = "match" /\ l \in worker[w].todo
    /\ Step(w, [worker[w] EXCEPT !.todo = @ \ {l},
                                 !.found = IF worker[w].cid \in entries[l] THEN @ \cup {l} ELSE @])
    /\ UNCHANGED <<screeningBounds, lists, screenings, queue>>

Outcome(found) == IF found = {} THEN "cleared" ELSE "flagged"

Complete(w) ==
    /\ worker[w].at = "match" /\ worker[w].todo = {}
    /\ screenings' = [screenings EXCEPT
           ![worker[w].row].status = Outcome(worker[w].found),
           ![worker[w].row].listed = worker[w].listed]
    /\ Step(w, NoRun)
    /\ UNCHANGED <<screeningBounds, lists, queue>>

\* Any exception once the row is there.  The handler commits without a rollback:
\* when the session is what failed, that raises and the row stays as it is.
ScreenError(w) ==
    /\ worker[w].at \in {"lists", "match"}
    /\ screenings' \in {screenings, [screenings EXCEPT ![worker[w].row].status = "error"]}
    /\ Step(w, NoRun)
    /\ UNCHANGED <<screeningBounds, lists, queue>>

\* The queue and the threads are in memory.
Restart ==
    /\ restarts < MaxRestarts /\ restarts' = restarts + 1
    /\ queue' = <<>>
    /\ worker' = [w \in Workers |-> NoRun]
    /\ UNCHANGED <<time, changes, lists, screenings>>

-----------------------------------------------------------------------------
(* The lists.  Whatever changes them also narrows what was listed all      *)
(* along.                                                                  *)

StillListed == worker' = [w \in Workers |->
    [worker[w] EXCEPT !.listed = {l \in @ : l \in active' /\ worker[w].cid \in entries'[l]}]]

\* Somebody puts new files into data/watchlists.
NewFile(l, S) ==
    /\ changes < MaxChanges /\ changes' = changes + 1
    /\ file' = [file EXCEPT ![l] = S]
    /\ UNCHANGED <<time, restarts, entries, active, screenings, queue, worker>>

\* The entries of a list are deleted and inserted in one transaction.
RefreshWatchlists ==
    /\ entries' = file
    /\ active' = active
    /\ StillListed
    /\ UNCHANGED <<screeningBounds, file, screenings, queue>>

PatchWatchlist(l) ==
    /\ changes < MaxChanges /\ changes' = changes + 1
    /\ active' = IF l \in active THEN active \ {l} ELSE active \cup {l}
    /\ entries' = entries
    /\ StillListed
    /\ UNCHANGED <<time, restarts, file, screenings, queue>>

TimePasses ==
    /\ time < MaxTicks
    /\ time' = time + 1
    /\ UNCHANGED <<changes, restarts, lists, screenings, queue, worker>>

WorkerStep(w) == \/ Take(w) \/ CheckInflight(w) \/ InsertRunning(w) \/ ReadLists(w)
                 \/ (\E l \in Lists : MatchList(w, l)) \/ Complete(w)

ScreeningNext ==
    \/ \E c \in Customers : Enqueue(c) \/ \E force \in BOOLEAN : ScreenOneCustomer(c, force)
    \/ \E w \in Workers : WorkerStep(w) \/ ScreenError(w)
    \/ Restart \/ TimePasses \/ RefreshWatchlists
    \/ \E l \in Lists : PatchWatchlist(l) \/ \E S \in SUBSET Customers : NewFile(l, S)

ScreeningSpec == ScreeningInit /\ [][ScreeningNext]_screeningVars

-----------------------------------------------------------------------------
\* Whoever was on a list all through a screening is not cleared by it, whatever
\* was reloaded or switched meanwhile.
ListedIsFlagged ==
    \A i \in Rows : screenings[i].status = "cleared" => screenings[i].listed = {}

\* Within the window a customer has no more running screenings than there are
\* workers, also when processes ended and left some behind.
RunningBounded ==
    \A c \in Customers :
        Cardinality({i \in Rows : /\ screenings[i].cid = c /\ screenings[i].status = "running"
                                  /\ screenings[i].when + Window >= time}) <= Cardinality(Workers)

-----------------------------------------------------------------------------
(* Statements of the documentation that the code does not keep: README,    *)
(* section 14.                                                             *)

\* Workers go on, and time passes.
FairSpec == ScreeningSpec /\ WF_screeningVars(TimePasses) /\ \A w \in Workers : WF_screeningVars(WorkerStep(w))

\* A screening that was asked for ends.
PendingEnds ==
    \A i \in 1 .. MaxRows :
        (i \in Rows /\ screenings[i].status = "pending")
            ~> (i \in Rows /\ screenings[i].status \notin {"pending", "running"})
=============================================================================
