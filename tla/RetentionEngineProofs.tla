------------------------ MODULE RetentionEngineProofs ------------------------
(***************************************************************************)
(* For every set of documents, cases, threads, limits and policies: types, *)
(* the agreement of the scheduler's audit trail with the table, and that a *)
(* document under a hold since before a pass began is not touched by it.   *)
(***************************************************************************)
EXTENDS RetentionEngine, LegalHoldsProofs

Places == {"cycle", "due", "unlink"}

\* What is left to unlink is what is marked, and nothing held is marked.
EngineInv ==
    /\ RetentionTypeOK
    /\ HeldInv
    /\ \A t \in Threads : job[t].at = "unlink" => job[t].todo \subseteq job[t].marked

LEMMA EngineInit == Init => EngineInv /\ PurgeIsAudited
<1> SUFFICES ASSUME Init PROVE EngineInv /\ PurgeIsAudited
  OBVIOUS
<1>1. HoldsTypeOK(Places, SUBSET Docs) /\ HeldInv
  BY HoldsInitType DEF Init
<1>2. RetentionTypeOK
  BY <1>1 DEF Init, RetentionTypeOK, Places
<1>3. \A t \in Threads : job[t].at # "unlink"
  BY DEF Init, HoldsInit, Idle
<1>4. PurgeIsAudited
  BY DEF Init, HoldsInit, PurgeIsAudited, Present
<1> QED BY <1>1, <1>2, <1>3, <1>4 DEF EngineInv

-----------------------------------------------------------------------------
(* Rows.                                                                   *)

LEMMA Unnamed ==
    ASSUME NEW q, NEW s, NEW a, NEW b, q = [status |-> s, named |-> a, owned |-> b], NEW x
    PROVE  [q EXCEPT !.named = x] = [status |-> s, named |-> x, owned |-> b]
OBVIOUS

LEMMA RetiredIsRow ==
    ASSUME RetentionTypeOK, NEW d \in Present
    PROVE  /\ Retired(d) \in Row
           /\ d \in ToArchive => Retired(d).named = docs[d].named
           /\ d \notin ToArchive => Retired(d).named = FALSE
<1>1. docs[d] \in Row
  BY DEF RetentionTypeOK, HoldsTypeOK, Present
<1>2. CASE d \in ToArchive
  <2>1. Retired(d) = [status |-> "archived", named |-> docs[d].named, owned |-> docs[d].owned]
    BY <1>1, <1>2 DEF Retired, Row
  <2> QED BY <2>1, <1>1, <1>2 DEF Row
<1>3. CASE d \notin ToArchive
  <2>1. PICK q : q = [docs[d] EXCEPT !.status = "purged"]
    OBVIOUS
  <2>2. q = [status |-> "purged", named |-> docs[d].named, owned |-> docs[d].owned]
    BY <2>1, <1>1 DEF Row
  <2>3. [docs[d] EXCEPT !.status = "purged", !.named = FALSE]
          = [[docs[d] EXCEPT !.status = "purged"] EXCEPT !.named = FALSE]
    OBVIOUS
  <2>4. Retired(d) = [q EXCEPT !.named = FALSE]
    BY <2>1, <2>3, <1>3, Zenon DEF Retired
  <2>5. [q EXCEPT !.named = FALSE] = [status |-> "purged", named |-> FALSE, owned |-> docs[d].owned]
    <3>1. PICK s, a, b : s = "purged" /\ a = docs[d].named /\ b = docs[d].owned
      OBVIOUS
    <3>2. q = [status |-> s, named |-> a, owned |-> b]
      BY <3>1, <2>2
    <3>3. \A x : [q EXCEPT !.named = x] = [status |-> s, named |-> x, owned |-> b]
      BY <3>2, Unnamed
    <3>4. [q EXCEPT !.named = FALSE] = [status |-> s, named |-> FALSE, owned |-> b]
      BY <3>3, Zenon
    <3> QED BY <3>1, <3>4, Zenon
  <2> QED BY <2>4, <2>5, <1>1, <1>3 DEF Row
<1> QED BY <1>2, <1>3

LEMMA RowIsPresent ==
    \A r \in Row : r # NoRow
BY DEF Row, NoRow

-----------------------------------------------------------------------------
(* The check of one row, which both passes make.                           *)

LEMMA CheckHoldKeeps ==
    ASSUME EngineInv, NEW t \in Threads, NEW d \in Docs, CheckHold(t, d),
           job[t].at # "unlink"
    PROVE  EngineInv'
<1> DEFINE m == IF d \in Held THEN job[t].marked ELSE job[t].marked \cup {d}
           j == JobRec(job[t].at, job[t].todo \ {d}, m, job[t].info, job[t].held)
<1>1. job[t] \in JobOf(Places, SUBSET Docs)
  BY DEF EngineInv, RetentionTypeOK, HoldsTypeOK, Places
<1>2. j = [job[t] EXCEPT !.todo = @ \ {d},
                         !.marked = IF d \in Held THEN @ ELSE @ \cup {d}]
  BY <1>1, JobTodoMarked, Zenon
<1>3. j \in JobOf(Places, SUBSET Docs)
  BY <1>1 DEF JobOf, JobRec
<1>4. j.at = job[t].at /\ j.held = job[t].held
      /\ \A e \in j.marked \ job[t].marked : e \notin Held
  BY JobRecFields
<1>5. GoTo(t, j)
  BY <1>2 DEF CheckHold
<1> HIDE DEF j
<1>6. Held' = Held /\ UNCHANGED <<docs, holds, crashes, files, audit, started>>
  BY DEF CheckHold, Held
<1>7. HoldsTypeOK(Places, SUBSET Docs)
  BY DEF EngineInv, RetentionTypeOK, Places
<1>8. job' \in [Threads -> JobOf(Places, SUBSET Docs)] /\ HeldInv'
  BY <1>3, <1>4, <1>5, <1>6, <1>7, GoToKeeps DEF EngineInv
<1>9. RetentionTypeOK'
  BY <1>6, <1>8 DEF EngineInv, RetentionTypeOK, HoldsTypeOK, Places
<1>10. \A u \in Threads : job'[u].at = "unlink" => job'[u].todo \subseteq job'[u].marked
  <2> SUFFICES ASSUME NEW u \in Threads, job'[u].at = "unlink"
               PROVE  job'[u].todo \subseteq job'[u].marked
    OBVIOUS
  <2>1. job' = [job EXCEPT ![t] = j]
    BY <1>5 DEF GoTo
  <2>2. u # t /\ job'[u] = job[u]
    BY <2>1, <1>4, <1>7 DEF HoldsTypeOK
  <2> QED BY <2>2 DEF EngineInv
<1> QED BY <1>8, <1>9, <1>10 DEF EngineInv

-----------------------------------------------------------------------------
(* A thread that begins, goes on to unlink, or ends: what is left to unlink *)
(* stays marked.                                                            *)

LEMMA UnlinkAfterEnd ==
    ASSUME EngineInv, NEW t \in Threads, End(t)
    PROVE  \A u \in Threads : job'[u].at = "unlink" => job'[u].todo \subseteq job'[u].marked
<1> SUFFICES ASSUME NEW u \in Threads, job'[u].at = "unlink"
             PROVE  job'[u].todo \subseteq job'[u].marked
  OBVIOUS
<1>1. job' = [job EXCEPT ![t] = Idle] /\ job \in [Threads -> JobOf(Places, SUBSET Docs)]
  BY DEF End, EngineInv, RetentionTypeOK, HoldsTypeOK, Places
<1>2. u # t /\ job'[u] = job[u]
  BY <1>1 DEF Idle
<1> QED BY <1>2 DEF EngineInv

LEMMA EndOfJob ==
    ASSUME EngineInv, NEW t \in Threads, End(t), holds' = holds
    PROVE  /\ job' \in [Threads -> JobOf(Places, SUBSET Docs)] /\ HeldInv'
           /\ \A u \in Threads : job'[u].at = "unlink" => job'[u].todo \subseteq job'[u].marked
<1>1. HoldsTypeOK(Places, SUBSET Docs) /\ HeldInv
  BY DEF EngineInv, RetentionTypeOK, Places
<1> QED BY <1>1, EndKeeps, UnlinkAfterEnd

LEMMA BeginOfJob ==
    ASSUME EngineInv, NEW t \in Threads, NEW j, Begin(t, j), j \in JobOf(Places, SUBSET Docs),
           j.marked = {}, j.at # "unlink", holds' = holds
    PROVE  /\ job' \in [Threads -> JobOf(Places, SUBSET Docs)] /\ HeldInv'
           /\ \A u \in Threads : job'[u].at = "unlink" => job'[u].todo \subseteq job'[u].marked
<1>1. HoldsTypeOK(Places, SUBSET Docs) /\ HeldInv
  BY DEF EngineInv, RetentionTypeOK, Places
<1>2. job' \in [Threads -> JobOf(Places, SUBSET Docs)] /\ HeldInv'
  BY <1>1, BeginKeeps
<1>3. ASSUME NEW u \in Threads, job'[u].at = "unlink"
      PROVE  job'[u].todo \subseteq job'[u].marked
  <2>1. job'[t].at = j.at
    BY <1>1 DEF Begin, HoldsTypeOK, JobOf
  <2>2. u # t /\ job'[u] = job[u]
    BY <2>1, <1>1, <1>3 DEF Begin, HoldsTypeOK
  <2> QED BY <2>2, <1>3 DEF EngineInv
<1> QED BY <1>2, <1>3

-----------------------------------------------------------------------------
(* One lemma per action.                                                   *)

LEMMA HoldsNextEngine ==
    ASSUME EngineInv, HoldsNext, UNCHANGED <<files, audit, started>> PROVE EngineInv'
<1>1. HoldsTypeOK(Places, SUBSET Docs) /\ HeldInv
  BY DEF EngineInv, RetentionTypeOK, Places
<1>2. HoldsTypeOK(Places, SUBSET Docs)' /\ HeldInv'
  BY <1>1, HoldsNextKeeps
<1>3. RetentionTypeOK'
  BY <1>2 DEF EngineInv, RetentionTypeOK, Places
<1>4. \A t \in Threads : job'[t].at = "unlink" => job'[t].todo \subseteq job'[t].marked
  <2>1. CASE \E h : SetHolds(h)
    BY <2>1, <1>1, HeldInJobs DEF EngineInv
  <2>2. CASE job' = job
    BY <2>2 DEF EngineInv
  <2>3. CASE Crash
    BY <2>3 DEF Crash, Idle
  <2> QED BY <2>1, <2>2, <2>3 DEF HoldsNext, PlaceHold, ReleaseHold, DeleteDocument
<1> QED BY <1>2, <1>3, <1>4 DEF EngineInv

LEMMA CycleReadEngine == ASSUME EngineInv, CycleRead PROVE EngineInv'
<1> DEFINE rows == {d \in FirstRows(CycleLimit) : docs[d].status \notin Processed}
           j == JobRec("cycle", rows, {}, NoInfo, {})
<1>1. [Idle EXCEPT !.at = "cycle", !.todo = rows] = j
  <2>1. \A a, s : [Idle EXCEPT !.at = a, !.todo = s]
                   = JobRec(a, s, Idle.marked, Idle.info, Idle.held)
    BY IdleIsJob, JobAtTodo, Zenon
  <2> QED BY <2>1, Zenon DEF Idle
<1>2. j \in JobOf(Places, SUBSET Docs)
  BY DEF JobOf, FirstRows, Present, Places, JobRec
<1>3. Begin(Scheduler, j) /\ j.marked = {} /\ j.at # "unlink"
  BY <1>1, JobRecFields DEF CycleRead
<1> HIDE DEF j
<1>4. UNCHANGED <<docs, holds, crashes, files, audit, started>> /\ Scheduler \in Threads
  BY RetentionAssumption DEF CycleRead
<1>5. /\ job' \in [Threads -> JobOf(Places, SUBSET Docs)] /\ HeldInv'
      /\ \A u \in Threads : job'[u].at = "unlink" => job'[u].todo \subseteq job'[u].marked
  BY <1>2, <1>3, <1>4, BeginOfJob
<1> QED BY <1>4, <1>5 DEF EngineInv, RetentionTypeOK, HoldsTypeOK, Places

LEMMA CycleCheckEngine == ASSUME EngineInv, CycleCheck PROVE EngineInv'
BY CheckHoldKeeps, RetentionAssumption DEF CycleCheck

LEMMA WrittenBack ==
    ASSUME docs \in [Docs -> Row \cup {NoRow}], NEW updated, NEW new,
           new \in [Docs -> Row \cup {NoRow}], WriteBack(updated, new)
    PROVE  docs' \in [Docs -> Row \cup {NoRow}]
BY DEF WriteBack

LEMMA AuditsTyped ==
    ASSUME NEW S \in SUBSET Docs
    PROVE  {AuditOf(d) : d \in S} \subseteq {"retention_auto_archive", "retention_auto_purge"} \X Docs
BY DEF AuditOf

LEMMA CycleCommitEngine == ASSUME EngineInv, CycleCommit PROVE EngineInv'
<1> DEFINE marked == job[Scheduler].marked
           new == [d \in Docs |-> IF d \in marked THEN Retired(d) ELSE docs[d]]
<1>1. /\ Scheduler \in Threads /\ marked \subseteq Docs
      /\ docs \in [Docs -> Row \cup {NoRow}] /\ files \in SUBSET Docs /\ started \in Nat
      /\ holds \in [Docs -> [Cases -> Nat]] /\ crashes \in Nat
      /\ audit \in SUBSET ({"retention_auto_archive", "retention_auto_purge"} \X Docs)
  BY RetentionAssumption DEF EngineInv, RetentionTypeOK, HoldsTypeOK, JobOf
<1>2. WriteBack(marked, new) /\ End(Scheduler) /\ UNCHANGED <<holds, crashes, files, started>>
      /\ audit' = IF marked \subseteq Present THEN audit \cup {AuditOf(d) : d \in marked} ELSE audit
  BY DEF CycleCommit
<1> HIDE DEF marked
<1>3. docs' \in [Docs -> Row \cup {NoRow}]
  <2>1. CASE marked \subseteq Present
    <3>1. \A d \in marked : Retired(d) \in Row
      BY <2>1, RetiredIsRow DEF EngineInv
    <3> QED BY <3>1, <1>1, <1>2, WrittenBack
  <2>2. CASE ~(marked \subseteq Present)
    BY <2>2, <1>1, <1>2 DEF WriteBack
  <2> QED BY <2>1, <2>2
<1>4. audit' \in SUBSET ({"retention_auto_archive", "retention_auto_purge"} \X Docs)
  BY <1>1, <1>2, AuditsTyped
<1>5. /\ job' \in [Threads -> JobOf(Places, SUBSET Docs)] /\ HeldInv'
      /\ \A u \in Threads : job'[u].at = "unlink" => job'[u].todo \subseteq job'[u].marked
  BY <1>1, <1>2, EndOfJob
<1> QED BY <1>1, <1>2, <1>3, <1>4, <1>5 DEF EngineInv, RetentionTypeOK, HoldsTypeOK, Places

LEMMA ApplyReadEngine ==
    ASSUME EngineInv, NEW w \in Workers, ApplyRead(w) PROVE EngineInv'
<1> DEFINE rows == FirstRows(4 * ApplyLimit)
           changed == {d \in rows : docs[d] # Retired(d)}
           j == JobRec("due", rows, {}, changed, {})
<1>1. [Idle EXCEPT !.at = "due", !.todo = rows, !.info = changed] = j
  <2>1. \A a, s, i : [Idle EXCEPT !.at = a, !.todo = s, !.info = i]
                   = JobRec(a, s, Idle.marked, i, Idle.held)
    BY IdleIsJob, JobAtTodoInfo, Zenon
  <2> QED BY <2>1, Zenon DEF Idle
<1>2. j \in JobOf(Places, SUBSET Docs)
  BY DEF JobOf, FirstRows, Present, Places, JobRec
<1>3. Begin(w, j) /\ j.marked = {} /\ j.at # "unlink"
  BY <1>1, JobRecFields DEF ApplyRead
<1> HIDE DEF j
<1>4. UNCHANGED <<docs, holds, crashes, files, audit>> /\ w \in Threads /\ started' = started + 1
  BY RetentionAssumption DEF ApplyRead
<1>5. /\ job' \in [Threads -> JobOf(Places, SUBSET Docs)] /\ HeldInv'
      /\ \A u \in Threads : job'[u].at = "unlink" => job'[u].todo \subseteq job'[u].marked
  BY <1>2, <1>3, <1>4, BeginOfJob
<1>6. started' \in Nat
  BY <1>4 DEF EngineInv, RetentionTypeOK
<1> QED BY <1>4, <1>5, <1>6 DEF EngineInv, RetentionTypeOK, HoldsTypeOK, Places

LEMMA ApplyCheckEngine ==
    ASSUME EngineInv, NEW w \in Workers, NEW d \in Docs, ApplyCheck(w, d) PROVE EngineInv'
BY CheckHoldKeeps, RetentionAssumption DEF ApplyCheck

LEMMA ApplyEnactEngine ==
    ASSUME EngineInv, NEW w \in Workers, ApplyEnact(w) PROVE EngineInv'
<1> DEFINE j == JobRec("unlink", job[w].marked, job[w].marked, job[w].info, job[w].held)
<1>1. w \in Threads /\ job \in [Threads -> JobOf(Places, SUBSET Docs)]
  BY RetentionAssumption DEF EngineInv, RetentionTypeOK, HoldsTypeOK, Places
<1>2. j = [job[w] EXCEPT !.at = "unlink", !.todo = job[w].marked]
  <2>1. job[w] \in JobOf(Places, SUBSET Docs)
    BY <1>1
  <2> QED BY <2>1, JobAtTodo, Zenon
<1>3. j \in JobOf(Places, SUBSET Docs)
  BY <1>1 DEF JobOf, Places, JobRec
<1>4. j.held = job[w].held /\ j.marked = job[w].marked /\ j.todo = j.marked
  BY JobRecFields
<1>5. GoTo(w, j)
  BY <1>2 DEF ApplyEnact
<1> HIDE DEF j
<1>6. Held' = Held /\ UNCHANGED <<docs, holds, crashes, files, audit, started>>
  BY DEF ApplyEnact, Held
<1>7. HoldsTypeOK(Places, SUBSET Docs) /\ HeldInv
  BY DEF EngineInv, RetentionTypeOK, Places
<1>8. job' \in [Threads -> JobOf(Places, SUBSET Docs)] /\ HeldInv'
  BY <1>1, <1>3, <1>4, <1>5, <1>6, <1>7, GoToKeeps
<1>9. \A u \in Threads : job'[u].at = "unlink" => job'[u].todo \subseteq job'[u].marked
  BY <1>1, <1>4, <1>5 DEF GoTo, EngineInv
<1> QED BY <1>6, <1>8, <1>9 DEF EngineInv, RetentionTypeOK, HoldsTypeOK, Places

LEMMA ApplyUnlinkEngine ==
    ASSUME EngineInv, NEW w \in Workers, NEW d \in Docs, ApplyUnlink(w, d) PROVE EngineInv'
<1> DEFINE j == [at |-> job[w].at, todo |-> job[w].todo \ {d}, marked |-> job[w].marked,
                 info |-> job[w].info, held |-> job[w].held]
<1>1. w \in Threads /\ job \in [Threads -> JobOf(Places, SUBSET Docs)]
  BY RetentionAssumption DEF EngineInv, RetentionTypeOK, HoldsTypeOK, Places
<1>2. j = [job[w] EXCEPT !.todo = @ \ {d}]
  BY <1>1 DEF JobOf
<1>3. j \in JobOf(Places, SUBSET Docs)
  BY <1>1 DEF JobOf
<1>4. j.held = job[w].held /\ j.marked = job[w].marked /\ j.todo \subseteq job[w].todo
      /\ j.at = job[w].at
  OBVIOUS
<1>5. GoTo(w, j)
  BY <1>2 DEF ApplyUnlink
<1> HIDE DEF j
<1>6. Held' = Held /\ UNCHANGED <<docs, holds, crashes, audit, started>>
      /\ files' \subseteq files
  BY DEF ApplyUnlink, Held
<1>7. HoldsTypeOK(Places, SUBSET Docs) /\ HeldInv
  BY DEF EngineInv, RetentionTypeOK, Places
<1>8. job' \in [Threads -> JobOf(Places, SUBSET Docs)] /\ HeldInv'
  BY <1>1, <1>3, <1>4, <1>5, <1>6, <1>7, GoToKeeps
<1>9. \A u \in Threads : job'[u].at = "unlink" => job'[u].todo \subseteq job'[u].marked
  BY <1>1, <1>4, <1>5 DEF GoTo, EngineInv
<1>10. files' \in SUBSET Docs
  BY <1>6 DEF EngineInv, RetentionTypeOK
<1> QED BY <1>6, <1>8, <1>9, <1>10 DEF EngineInv, RetentionTypeOK, HoldsTypeOK, Places

LEMMA ApplyCommitEngine ==
    ASSUME EngineInv, NEW w \in Workers, ApplyCommit(w) PROVE EngineInv'
<1> DEFINE archived == job[w].marked \cap ToArchive \cap job[w].info
           purged == job[w].marked \ ToArchive
           new == [d \in Docs |-> IF d \in archived THEN Retired(d)
                                  ELSE IF d \in purged THEN NoRow ELSE docs[d]]
<1>1. /\ w \in Threads
      /\ docs \in [Docs -> Row \cup {NoRow}] /\ files \in SUBSET Docs /\ started \in Nat
      /\ holds \in [Docs -> [Cases -> Nat]] /\ crashes \in Nat
      /\ audit \in SUBSET ({"retention_auto_archive", "retention_auto_purge"} \X Docs)
  BY RetentionAssumption DEF EngineInv, RetentionTypeOK, HoldsTypeOK
<1>2. WriteBack(archived, new) /\ End(w) /\ UNCHANGED <<holds, crashes, files, audit, started>>
  BY DEF ApplyCommit
<1> HIDE DEF archived, purged
<1>3. docs' \in [Docs -> Row \cup {NoRow}]
  <2>1. CASE archived \subseteq Present
    <3>1. \A d \in archived : Retired(d) \in Row
      BY <2>1, RetiredIsRow DEF EngineInv
    <3> QED BY <3>1, <1>1, <1>2, WrittenBack
  <2>2. CASE ~(archived \subseteq Present)
    BY <2>2, <1>1, <1>2 DEF WriteBack
  <2> QED BY <2>1, <2>2
<1>4. /\ job' \in [Threads -> JobOf(Places, SUBSET Docs)] /\ HeldInv'
      /\ \A u \in Threads : job'[u].at = "unlink" => job'[u].todo \subseteq job'[u].marked
  BY <1>1, <1>2, EndOfJob
<1> QED BY <1>1, <1>2, <1>3, <1>4 DEF EngineInv, RetentionTypeOK, HoldsTypeOK, Places

LEMMA EngineStep == EngineInv /\ [Next]_vars => EngineInv'
<1> SUFFICES ASSUME EngineInv, [Next]_vars PROVE EngineInv'
  OBVIOUS
<1>1. CASE UNCHANGED vars
  BY <1>1 DEF EngineInv, RetentionTypeOK, HoldsTypeOK, HeldInv, Held, vars, holdVars
<1> QED BY <1>1, HoldsNextEngine, CycleReadEngine, CycleCheckEngine, CycleCommitEngine,
           ApplyReadEngine, ApplyCheckEngine, ApplyEnactEngine, ApplyUnlinkEngine,
           ApplyCommitEngine DEF Next, ApplyStep

LEMMA EngineInductive == Spec => []EngineInv
BY EngineInit, EngineStep, PTL DEF Spec

\* Types of every variable, for all constants.
THEOREM RetentionTypeCorrect == Spec => []RetentionTypeOK
BY EngineInductive, PTL DEF EngineInv

-----------------------------------------------------------------------------
(* The trail.                                                              *)

LEMMA CycleCommitTrail ==
    ASSUME EngineInv, PurgeIsAudited, CycleCommit PROVE PurgeIsAudited'
<1> DEFINE marked == job[Scheduler].marked
           new == [d \in Docs |-> IF d \in marked THEN Retired(d) ELSE docs[d]]
<1>1. WriteBack(marked, new)
      /\ audit' = IF marked \subseteq Present THEN audit \cup {AuditOf(d) : d \in marked} ELSE audit
  BY DEF CycleCommit
<1>2. docs \in [Docs -> Row \cup {NoRow}]
  BY DEF EngineInv, RetentionTypeOK, HoldsTypeOK
<1> HIDE DEF marked
<1>3. CASE ~(marked \subseteq Present)
  BY <1>1, <1>3 DEF WriteBack, PurgeIsAudited, Present
<1>4. CASE marked \subseteq Present
  <2> SUFFICES ASSUME NEW d \in Present'
               PROVE  ~docs'[d].named <=> <<"retention_auto_purge", d>> \in audit'
    BY DEF PurgeIsAudited
  <2>1. docs' = new /\ audit' = audit \cup {AuditOf(e) : e \in marked}
    BY <1>1, <1>4 DEF WriteBack
  <2>2. d \in Docs /\ docs'[d] = (IF d \in marked THEN Retired(d) ELSE docs[d])
    BY <2>1 DEF Present
  <2>3. <<"retention_auto_purge", d>> \in {AuditOf(e) : e \in marked}
          <=> d \in marked \ ToArchive
    BY DEF AuditOf
  <2>4. d \in Present
    BY <1>4, <2>2 DEF Present
  <2>5. ~docs[d].named <=> <<"retention_auto_purge", d>> \in audit
    BY <2>4 DEF PurgeIsAudited
  <2>6. CASE d \notin marked
    BY <2>6, <2>1, <2>2, <2>3, <2>5
  <2>7. CASE d \in marked /\ d \in ToArchive
    <3>1. docs'[d].named = docs[d].named
      BY <2>2, <2>4, <2>7, RetiredIsRow DEF EngineInv
    <3> QED BY <3>1, <2>7, <2>1, <2>3, <2>5
  <2>8. CASE d \in marked /\ d \notin ToArchive
    <3>1. docs'[d].named = FALSE
      BY <2>2, <2>4, <2>8, RetiredIsRow DEF EngineInv
    <3> QED BY <3>1, <2>8, <2>1, <2>3
  <2> QED BY <2>6, <2>7, <2>8
<1> QED BY <1>3, <1>4

LEMMA ApplyCommitTrail ==
    ASSUME EngineInv, PurgeIsAudited, NEW w \in Workers, ApplyCommit(w) PROVE PurgeIsAudited'
<1> DEFINE archived == job[w].marked \cap ToArchive \cap job[w].info
           purged == job[w].marked \ ToArchive
           new == [d \in Docs |-> IF d \in archived THEN Retired(d)
                                  ELSE IF d \in purged THEN NoRow ELSE docs[d]]
<1>1. WriteBack(archived, new) /\ audit' = audit /\ archived \subseteq ToArchive
  BY DEF ApplyCommit
<1> HIDE DEF archived, purged
<1>2. CASE ~(archived \subseteq Present)
  BY <1>1, <1>2 DEF WriteBack, PurgeIsAudited, Present
<1>3. CASE archived \subseteq Present
  <2> SUFFICES ASSUME NEW d \in Present'
               PROVE  ~docs'[d].named <=> <<"retention_auto_purge", d>> \in audit'
    BY DEF PurgeIsAudited
  <2>1. docs' = new
    BY <1>1, <1>3 DEF WriteBack
  <2>2. /\ d \in Docs /\ docs'[d] # NoRow
        /\ docs'[d] = (IF d \in archived THEN Retired(d) ELSE IF d \in purged THEN NoRow ELSE docs[d])
    BY <2>1 DEF Present
  <2>3. d \in Present
    BY <1>3, <2>2 DEF Present
  <2>4. docs'[d].named = docs[d].named
    <3>1. CASE d \in archived
      BY <3>1, <2>2, <2>3, <1>1, RetiredIsRow DEF EngineInv
    <3>2. CASE d \notin archived
      BY <3>2, <2>2
    <3> QED BY <3>1, <3>2
  <2> QED BY <1>1, <2>3, <2>4 DEF PurgeIsAudited
<1> QED BY <1>2, <1>3

LEMMA OthersTrail ==
    ASSUME PurgeIsAudited, audit' = audit,
           docs' = docs \/ \E d \in Docs : docs' = [docs EXCEPT ![d] = NoRow],
           docs \in [Docs -> Row \cup {NoRow}]
    PROVE  PurgeIsAudited'
BY DEF PurgeIsAudited, Present

LEMMA TrailStep == EngineInv /\ PurgeIsAudited /\ [Next]_vars => PurgeIsAudited'
<1> SUFFICES ASSUME EngineInv, PurgeIsAudited, [Next]_vars PROVE PurgeIsAudited'
  OBVIOUS
<1>1. docs \in [Docs -> Row \cup {NoRow}]
  BY DEF EngineInv, RetentionTypeOK, HoldsTypeOK
<1>2. CASE UNCHANGED vars
  BY <1>1, <1>2, OthersTrail DEF vars, holdVars
<1>3. CASE HoldsNext /\ UNCHANGED <<files, audit, started>>
  BY <1>1, <1>3, OthersTrail DEF HoldsNext, PlaceHold, ReleaseHold, DeleteDocument, Crash
<1>4. CASE CycleRead \/ CycleCheck
  BY <1>1, <1>4, OthersTrail DEF CycleRead, CycleCheck, CheckHold
<1>5. ASSUME NEW w \in Workers, ApplyStep(w), ~ApplyCommit(w) PROVE PurgeIsAudited'
  BY <1>1, <1>5, OthersTrail DEF ApplyStep, ApplyRead, ApplyEnact, ApplyCheck, CheckHold, ApplyUnlink
<1> QED BY <1>2, <1>3, <1>4, <1>5, CycleCommitTrail, ApplyCommitTrail DEF Next, ApplyStep

\* The file name of a row is gone exactly if the scheduler's purge of it is in
\* the audit log: the two are written in one commit, and a rollback or a crash
\* undoes both.
THEOREM PurgesAreAudited == Spec => []PurgeIsAudited
BY EngineInit, EngineStep, TrailStep, PTL DEF Spec

-----------------------------------------------------------------------------
(* What is held since before a pass began.                                 *)

Untouched(t) == SparesRows(t) /\ (job'[t] # job[t] => FileHeld(t) \cap files \subseteq files')

LEMMA QuietIsUntouched ==
    ASSUME NEW t \in Threads, docs' = docs \/ job' = job, files' = files
    PROVE  Untouched(t)
BY DEF Untouched, SparesRows

LEMMA CycleCommitSpares ==
    ASSUME EngineInv, CycleCommit, NEW t \in Threads PROVE Untouched(t)
<1>1. job' = [job EXCEPT ![Scheduler] = Idle] /\ files' = files
  BY DEF CycleCommit, End
<1>2. CASE t = Scheduler
  <2>1. \A d \in Docs \ job[t].marked : docs'[d] = docs[d]
    BY <1>2 DEF CycleCommit, WriteBack
  <2> QED BY <2>1, <1>1, MarkedRowsOnly DEF EngineInv, Untouched
<1>3. CASE t # Scheduler
  BY <1>1, <1>3 DEF Untouched, SparesRows, EngineInv, RetentionTypeOK, HoldsTypeOK
<1> QED BY <1>2, <1>3

LEMMA ApplyCommitSpares ==
    ASSUME EngineInv, NEW w \in Workers, ApplyCommit(w), NEW t \in Threads PROVE Untouched(t)
<1>1. job' = [job EXCEPT ![w] = Idle] /\ files' = files
  BY DEF ApplyCommit, End
<1>2. CASE t = w
  <2>1. \A d \in Docs \ job[t].marked : docs'[d] = docs[d]
    BY <1>2 DEF ApplyCommit, WriteBack
  <2> QED BY <2>1, <1>1, MarkedRowsOnly DEF EngineInv, Untouched
<1>3. CASE t # w
  BY <1>1, <1>3 DEF Untouched, SparesRows, EngineInv, RetentionTypeOK, HoldsTypeOK
<1> QED BY <1>2, <1>3

LEMMA ApplyUnlinkSpares ==
    ASSUME EngineInv, NEW w \in Workers, NEW d \in Docs, ApplyUnlink(w, d), NEW t \in Threads
    PROVE  Untouched(t)
<1>1. job \in [Threads -> JobOf(Places, SUBSET Docs)] /\ docs' = docs /\ w \in Threads
  BY RetentionAssumption DEF ApplyUnlink, EngineInv, RetentionTypeOK, HoldsTypeOK, Places
<1>2. SparesRows(t)
  BY <1>1 DEF SparesRows
<1>3. CASE t = w
  <2>1. d \in job[w].marked /\ files \ SameFile(d) \subseteq files'
    BY <1>1 DEF ApplyUnlink, Upcoming, EngineInv
  <2>2. d \notin job[w].held
    BY <2>1, <1>1 DEF EngineInv, HeldInv
  <2>3. FileHeld(t) \cap SameFile(d) = {}
    BY <2>2, <1>3 DEF FileHeld, SameFile
  <2> QED BY <1>2, <2>1, <2>3 DEF Untouched
<1>4. CASE t # w
  <2>1. job'[t] = job[t]
    BY <1>1, <1>4 DEF ApplyUnlink, GoTo
  <2> QED BY <1>2, <2>1 DEF Untouched
<1> QED BY <1>3, <1>4

LEMMA SparesStep == EngineInv /\ [Next]_vars => \A t \in Threads : Untouched(t)
<1> SUFFICES ASSUME EngineInv, [Next]_vars, NEW t \in Threads PROVE Untouched(t)
  OBVIOUS
<1>1. CASE UNCHANGED vars
  BY <1>1, QuietIsUntouched DEF vars, holdVars
<1>2. CASE HoldsNext /\ UNCHANGED <<files, audit, started>>
  BY <1>2, HoldsNextSpares DEF Untouched
<1>3. CASE CycleRead \/ CycleCheck
  BY <1>3, QuietIsUntouched DEF CycleRead, CycleCheck, CheckHold
<1>4. ASSUME NEW w \in Workers, ApplyStep(w) PROVE Untouched(t)
  <2>1. CASE ApplyRead(w) \/ ApplyEnact(w) \/ \E d \in Docs : ApplyCheck(w, d)
    BY <2>1, QuietIsUntouched DEF ApplyRead, ApplyEnact, ApplyCheck, CheckHold
  <2> QED BY <2>1, <1>4, ApplyCommitSpares, ApplyUnlinkSpares DEF ApplyStep
<1> QED BY <1>1, <1>2, <1>3, <1>4, CycleCommitSpares DEF Next

\* A document that was under a hold before a pass of the scheduler or of an
\* administrator began, and still is, keeps its row and its file, although the
\* holds are read only once for a row.
THEOREM HeldDocumentsSpared == Spec => HeldThroughoutIsSpared
<1>1. EngineInv /\ [Next]_vars =>
        \A t \in Threads : /\ SparesRows(t)
                           /\ job'[t] # job[t] => FileHeld(t) \cap files \subseteq files'
  BY SparesStep DEF Untouched
<1> QED BY <1>1, EngineInductive, PTL DEF Spec, HeldThroughoutIsSpared
=============================================================================
