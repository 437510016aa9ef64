--------------------------- MODULE RetentionEngine ---------------------------
(***************************************************************************)
(* Retention: the hourly scheduler (retention_scheduler.py) retires rows,  *)
(* the run an administrator starts (retention.py) deletes files and rows.  *)
(* The documents here are those whose retention period is over.            *)
(***************************************************************************)
EXTENDS LegalHolds

CONSTANTS ToArchive,   \* documents whose policy is archive_cold, the others are purged
          Scheduler,   \* the thread of the scheduler
          Workers,     \* the threads that serve requests
          CycleLimit,  \* rows a pass of the scheduler looks at
          ApplyLimit,  \* documents an administrator's run disposes of, of four times as many rows
          Copies,      \* the sets of documents that were uploaded with the same content
          MaxRuns      \* bound: runs started by an administrator

ASSUME RetentionAssumption ==
    /\ ToArchive \subseteq Docs
    /\ Scheduler \notin Workers /\ Threads = Workers \cup {Scheduler}
    /\ CycleLimit \in Nat /\ ApplyLimit \in Nat /\ MaxRuns \in Nat
    /\ Copies \subseteq SUBSET Docs
    /\ \A c, e \in Copies : c = e \/ c \cap e = {}

VARIABLES files,   \* documents whose file is on disk
          audit,   \* audit rows of the scheduler, as <<action, document>>
          started  \* runs started by an administrator

vars == <<holdVars, files, audit, started>>

Processed == {"purged", "archived", "deleted"}

Init == HoldsInit /\ files = Docs /\ audit = {} /\ started = 0

\* save_bytes names a file after its content: copies are one file.
SameFile(d) == {d} \cup UNION {c \in Copies : d \in c}

\* Regression: one row less than the limit.
FirstRowsShort(n) == {d \in Present : Cardinality({e \in Present : e < d}) + 1 < n}

\* A query with a LIMIT and no ORDER BY returns the first rows by rowid.
FirstRows(n) == {d \in Present : Cardinality({e \in Present : e < d}) < n}

Retired(d) == IF d \in ToArchive
              THEN [docs[d] EXCEPT !.status = "archived"]
              ELSE [docs[d] EXCEPT !.status = "purged", !.named = FALSE]

\* Rows are gone through in the order in which the query returned them.
Upcoming(t) == {d \in job[t].todo : \A e \in job[t].todo : d <= e}

\* Regression: the holds are not asked for.
CheckNoHold(t, d) ==
    /\ d \in Upcoming(t)
    /\ GoTo(t, [job[t] EXCEPT !.todo = @ \ {d}, !.marked = @ \cup {d}])
    /\ UNCHANGED <<docs, holds, crashes, files, audit, started>>

\* One iteration of the loop over the rows: a document under a hold is left out.
CheckHold(t, d) ==
    /\ d \in Upcoming(t)
    /\ GoTo(t, [job[t] EXCEPT !.todo = @ \ {d},
                              !.marked = IF d \in Held THEN @ ELSE @ \cup {d}])
    /\ UNCHANGED <<docs, holds, crashes, files, audit, started>>

-----------------------------------------------------------------------------
(* The scheduler: one cycle after the other, each committed at its end.    *)

CycleRead ==
    /\ Begin(Scheduler, [Idle EXCEPT !.at = "cycle",
             !.todo = {d \in FirstRows(CycleLimit) : docs[d].status \notin Processed}])
    /\ UNCHANGED <<docs, holds, crashes, files, audit, started>>

CycleCheck == /\ job[Scheduler].at = "cycle"
              /\ \E d \in Docs : CheckHold(Scheduler, d)

AuditOf(d) == <<IF d \in ToArchive THEN "retention_auto_archive" ELSE "retention_auto_purge", d>>

\* Regression: the audit rows are written in a transaction of their own.
CycleCommitApart ==
    LET marked == job[Scheduler].marked IN
    /\ job[Scheduler].at = "cycle" /\ job[Scheduler].todo = {}
    /\ WriteBack(marked, [d \in Docs |-> IF d \in marked THEN Retired(d) ELSE docs[d]])
    /\ audit' = audit \cup {AuditOf(d) : d \in marked}
    /\ End(Scheduler)
    /\ UNCHANGED <<holds, crashes, files, started>>

CycleCommit ==
    LET marked == job[Scheduler].marked IN
    /\ job[Scheduler].at = "cycle" /\ job[Scheduler].todo = {}
    /\ WriteBack(marked, [d \in Docs |-> IF d \in marked THEN Retired(d) ELSE docs[d]])
    /\ audit' = IF marked \subseteq Present THEN audit \cup {AuditOf(d) : d \in marked} ELSE audit
    /\ End(Scheduler)
    /\ UNCHANGED <<holds, crashes, files, started>>

-----------------------------------------------------------------------------
(* apply_due: purge_due checks the holds of all its rows, then the files   *)
(* go one by one, then the rows go, in one commit.                         *)

ApplyRead(w) ==
    LET rows == FirstRows(4 * ApplyLimit) IN
    /\ started < MaxRuns /\ started' = started + 1
    /\ Begin(w, [Idle EXCEPT !.at = "due", !.todo = rows,
                             !.info = {d \in rows : docs[d] # Retired(d)}])
    /\ UNCHANGED <<docs, holds, crashes, files, audit>>

ApplyCheck(w, d) == /\ job[w].at = "due" /\ Cardinality(job[w].marked) < ApplyLimit
                    /\ CheckHold(w, d)

ApplyEnact(w) ==
    /\ job[w].at = "due"
    /\ job[w].todo = {} \/ Cardinality(job[w].marked) = ApplyLimit
    /\ GoTo(w, [job[w] EXCEPT !.at = "unlink", !.todo = job[w].marked])
    /\ UNCHANGED <<docs, holds, crashes, files, audit, started>>

\* The path is the one read at the start.  A file that cannot be removed, an
\* immutable one for instance, stays.
ApplyUnlink(w, d) ==
    /\ job[w].at = "unlink" /\ d \in Upcoming(w)
    /\ GoTo(w, [job[w] EXCEPT !.todo = @ \ {d}])
    /\ \/ UNCHANGED files
       \/ d \in job[w].info \ ToArchive /\ files' = files \ SameFile(d)
    /\ UNCHANGED <<docs, holds, crashes, audit, started>>

\* Deleting a row that is gone is only warned about.
ApplyCommit(w) ==
    LET archived == job[w].marked \cap ToArchive \cap job[w].info
        purged   == job[w].marked \ ToArchive
    IN
    /\ job[w].at = "unlink" /\ job[w].todo = {}
    /\ WriteBack(archived, [d \in Docs |-> IF d \in archived THEN Retired(d)
                                          ELSE IF d \in purged THEN NoRow ELSE docs[d]])
    /\ End(w)
    /\ UNCHANGED <<holds, crashes, files, audit, started>>

-----------------------------------------------------------------------------
ApplyStep(w) == \/ ApplyRead(w) \/ ApplyEnact(w) \/ ApplyCommit(w)
                \/ \E d \in Docs : ApplyCheck(w, d) \/ ApplyUnlink(w, d)

Next == \/ HoldsNext /\ UNCHANGED <<files, audit, started>>
        \/ CycleRead \/ CycleCheck \/ CycleCommit
        \/ \E w \in Workers : ApplyStep(w)

Spec == Init /\ [][Next]_vars

\* asyncio keeps the loop of the scheduler going; nothing else is promised.
FairSpec == Spec /\ WF_vars(CycleRead) /\ WF_vars(CycleCheck) /\ WF_vars(CycleCommit)

-----------------------------------------------------------------------------
RetentionTypeOK ==
    /\ HoldsTypeOK({"cycle", "due", "unlink"}, SUBSET Docs)
    /\ files \in SUBSET Docs
    /\ audit \in SUBSET ({"retention_auto_archive", "retention_auto_purge"} \X Docs)
    /\ started \in Nat

\* The documents that have been held since the job of t began, and their copies
\* with them.
FileHeld(t) == {d \in job[t].held : SameFile(d) \subseteq job[t].held}

\* A hold that was there before a pass began and stayed all the time protects
\* the document: neither its row nor, when its copies are held as well, its file
\* is touched by that pass.
HeldThroughoutIsSpared ==
    [][\A t \in Threads : /\ SparesRows(t)
                          /\ job'[t] # job[t] => FileHeld(t) \cap files \subseteq files']_vars

\* The trail of the scheduler and the table agree: a row has lost its file
\* name exactly if its purge is audited, also after a rollback or a crash.
PurgeIsAudited ==
    \A d \in Present : ~docs[d].named <=> <<"retention_auto_purge", d>> \in audit

\* Fewer rows than a pass looks at are before the row of d.
WithinLimit(d) == Cardinality({e \in Present : e < d}) < CycleLimit

Disposed(d) == d \notin Present \/ docs[d].status \in Processed

\* A document that is left without a hold, and that a pass gets to see, is
\* retired in the end: it does not stay as it is for ever.
EventuallyRetired ==
    \A d \in Docs : []<>(Disposed(d) \/ d \in Held \/ ~WithinLimit(d))

-----------------------------------------------------------------------------
(* Statements of the documentation that the code does not keep: README,    *)
(* section 14.                                                             *)

\* The file of a document that was held all the time is not touched, whoever
\* else has the content.
HeldKeepsFile ==
    [][\A t \in Threads : job'[t] # job[t] => job[t].held \cap Present \cap files \subseteq files']_vars

\* Every document whose time is over and that is left without a hold is
\* retired, however many rows there are before it.
AllRetired ==
    \A d \in Docs : []<>(Disposed(d) \/ d \in Held)
=============================================================================
