-------------------------- MODULE LegalHoldsProofs --------------------------
(***************************************************************************)
(* What the steps of LegalHolds keep, whatever a thread does in between:   *)
(* the lemmas that the proofs of the retention engine and of the data      *)
(* subject requests share.                                                 *)
(***************************************************************************)
EXTENDS LegalHolds, TLAPS

\* A job counts as held only what is held, and marks nothing of that.
HeldInv ==
    \A t \in Threads : /\ job[t].held \subseteq Held
                       /\ job[t].marked \cap job[t].held = {}

LEMMA IdleIsJob ==
    ASSUME NEW P, NEW I PROVE Idle \in JobOf(P, I)
BY DEF Idle, JobOf

LEMMA HoldsInitType ==
    ASSUME HoldsInit, NEW P, NEW I PROVE HoldsTypeOK(P, I) /\ HeldInv
<1>1. docs \in [Docs -> Row \cup {NoRow}]
  BY DEF HoldsInit, Row
<1>2. holds \in [Docs -> [Cases -> Nat]] /\ crashes \in Nat
  BY DEF HoldsInit
<1>3. job \in [Threads -> JobOf(P, I)]
  BY IdleIsJob DEF HoldsInit
<1>4. HeldInv
  BY DEF HoldsInit, HeldInv, Idle
<1> QED BY <1>1, <1>2, <1>3, <1>4 DEF HoldsTypeOK

-----------------------------------------------------------------------------
(* Records of jobs, whose updates the provers take one field at a time.    *)

JobRec(a, b, c, d, e) == [at |-> a, todo |-> b, marked |-> c, info |-> d, held |-> e]

LEMMA JobTodoMarked ==
    ASSUME NEW P, NEW I, NEW r \in JobOf(P, I), NEW s, NEW m
    PROVE  [r EXCEPT !.todo = s, !.marked = m] = JobRec(r.at, s, m, r.info, r.held)
<1>1. PICK q : q = JobRec(r.at, s, r.marked, r.info, r.held)
  OBVIOUS
<1>2. [r EXCEPT !.todo = s] = q
  BY <1>1 DEF JobOf, JobRec
<1>3. [q EXCEPT !.marked = m] = JobRec(r.at, s, m, r.info, r.held)
  BY <1>1 DEF JobRec
<1>4. [r EXCEPT !.todo = s, !.marked = m] = [[r EXCEPT !.todo = s] EXCEPT !.marked = m]
  OBVIOUS
<1>5. [[r EXCEPT !.todo = s] EXCEPT !.marked = m] = [q EXCEPT !.marked = m]
  BY <1>2, Zenon
<1> QED BY <1>3, <1>4, <1>5, Zenon

LEMMA JobAtTodo ==
    ASSUME NEW P, NEW I, NEW r \in JobOf(P, I), NEW a, NEW s
    PROVE  [r EXCEPT !.at = a, !.todo = s] = JobRec(a, s, r.marked, r.info, r.held)
<1>1. PICK q : q = JobRec(a, r.todo, r.marked, r.info, r.held)
  OBVIOUS
<1>2. [r EXCEPT !.at = a] = q
  BY <1>1 DEF JobOf, JobRec
<1>3. [q EXCEPT !.todo = s] = JobRec(a, s, r.marked, r.info, r.held)
  BY <1>1 DEF JobRec
<1>4. [r EXCEPT !.at = a, !.todo = s] = [[r EXCEPT !.at = a] EXCEPT !.todo = s]
  OBVIOUS
<1>5. [[r EXCEPT !.at = a] EXCEPT !.todo = s] = [q EXCEPT !.todo = s]
  BY <1>2, Zenon
<1> QED BY <1>3, <1>4, <1>5, Zenon

LEMMA JobAtInfo ==
    ASSUME NEW P, NEW I, NEW r \in JobOf(P, I), NEW a, NEW i
    PROVE  [r EXCEPT !.at = a, !.info = i] = JobRec(a, r.todo, r.marked, i, r.held)
<1>1. PICK q : q = JobRec(a, r.todo, r.marked, r.info, r.held)
  OBVIOUS
<1>2. [r EXCEPT !.at = a] = q
  BY <1>1 DEF JobOf, JobRec
<1>3. [q EXCEPT !.info = i] = JobRec(a, r.todo, r.marked, i, r.held)
  BY <1>1 DEF JobRec
<1>4. [r EXCEPT !.at = a, !.info = i] = [[r EXCEPT !.at = a] EXCEPT !.info = i]
  OBVIOUS
<1>5. [[r EXCEPT !.at = a] EXCEPT !.info = i] = [q EXCEPT !.info = i]
  BY <1>2, Zenon
<1> QED BY <1>3, <1>4, <1>5, Zenon

LEMMA JobMarkedAt ==
    ASSUME NEW P, NEW I, NEW r \in JobOf(P, I), NEW a, NEW m
    PROVE  [r EXCEPT !.at = a, !.marked = m] = JobRec(a, r.todo, m, r.info, r.held)
<1>1. PICK q : q = JobRec(a, r.todo, r.marked, r.info, r.held)
  OBVIOUS
<1>2. [r EXCEPT !.at = a] = q
  BY <1>1 DEF JobOf, JobRec
<1>3. [q EXCEPT !.marked = m] = JobRec(a, r.todo, m, r.info, r.held)
  BY <1>1 DEF JobRec
<1>4. [r EXCEPT !.at = a, !.marked = m] = [[r EXCEPT !.at = a] EXCEPT !.marked = m]
  OBVIOUS
<1>5. [[r EXCEPT !.at = a] EXCEPT !.marked = m] = [q EXCEPT !.marked = m]
  BY <1>2, Zenon
<1> QED BY <1>3, <1>4, <1>5, Zenon

LEMMA JobAtTodoInfo ==
    ASSUME NEW P, NEW I, NEW r \in JobOf(P, I), NEW a, NEW s, NEW i
    PROVE  [r EXCEPT !.at = a, !.todo = s, !.info = i] = JobRec(a, s, r.marked, i, r.held)
<1>1. PICK q : q = JobRec(a, s, r.marked, r.info, r.held)
  OBVIOUS
<1>2. [r EXCEPT !.at = a, !.todo = s] = q
  BY <1>1, JobAtTodo
<1>3. [q EXCEPT !.info = i] = JobRec(a, s, r.marked, i, r.held)
  BY <1>1 DEF JobRec
<1>4. [r EXCEPT !.at = a, !.todo = s, !.info = i] = [[r EXCEPT !.at = a, !.todo = s] EXCEPT !.info = i]
  OBVIOUS
<1>5. [[r EXCEPT !.at = a, !.todo = s] EXCEPT !.info = i] = [q EXCEPT !.info = i]
  BY <1>2, Zenon
<1> QED BY <1>3, <1>4, <1>5, Zenon

LEMMA JobRecFields ==
    ASSUME NEW a, NEW b, NEW c, NEW d, NEW e
    PROVE  /\ JobRec(a, b, c, d, e).at = a /\ JobRec(a, b, c, d, e).todo = b
           /\ JobRec(a, b, c, d, e).marked = c /\ JobRec(a, b, c, d, e).info = d
           /\ JobRec(a, b, c, d, e).held = e
BY DEF JobRec

LEMMA IdleIsRec == Idle = JobRec("idle", {}, {}, NoInfo, {})
BY DEF Idle, JobRec

-----------------------------------------------------------------------------
(* Where a step leaves the job of one thread.                              *)

LEMMA HeldInJobs ==
    ASSUME NEW P, NEW I, HoldsTypeOK(P, I), NEW h, SetHolds(h)
    PROVE  /\ job' \in [Threads -> JobOf(P, I)]
           /\ \A t \in Threads : /\ job'[t].held = job[t].held \cap HeldIn(h)
                                 /\ job'[t].marked = job[t].marked
                                 /\ job'[t].todo = job[t].todo
                                 /\ job'[t].info = job[t].info
                                 /\ job'[t].at = job[t].at
<1>1. ASSUME NEW t \in Threads
      PROVE  job'[t] = [at |-> job[t].at, todo |-> job[t].todo, marked |-> job[t].marked,
                        info |-> job[t].info, held |-> job[t].held \cap HeldIn(h)]
  BY DEF HoldsTypeOK, JobOf, SetHolds
<1>2. ASSUME NEW t \in Threads
      PROVE  [at |-> job[t].at, todo |-> job[t].todo, marked |-> job[t].marked,
              info |-> job[t].info, held |-> job[t].held \cap HeldIn(h)] \in JobOf(P, I)
  BY DEF HoldsTypeOK, JobOf
<1>3. job' = [t \in Threads |-> job'[t]]
  BY DEF SetHolds
<1> QED BY <1>1, <1>2, <1>3

LEMMA SetHoldsKeepsHeld ==
    ASSUME NEW P, NEW I, HoldsTypeOK(P, I), HeldInv, NEW h, SetHolds(h)
    PROVE  HeldInv'
<1>1. Held' = HeldIn(h)
  BY DEF SetHolds, Held, HeldIn, Cases
<1> QED BY <1>1, HeldInJobs DEF HeldInv

\* A thread's next place, with what it has left to do and what it marks.
LEMMA GoToKeeps ==
    ASSUME NEW P, NEW I, HoldsTypeOK(P, I), HeldInv, NEW t \in Threads, NEW j,
           GoTo(t, j), j \in JobOf(P, I), j.held = job[t].held, Held \subseteq Held',
           \A d \in j.marked \ job[t].marked : d \notin Held
    PROVE  job' \in [Threads -> JobOf(P, I)] /\ HeldInv'
<1>1. job' = [job EXCEPT ![t] = j]
  BY DEF GoTo
<1>2. job' \in [Threads -> JobOf(P, I)]
  BY <1>1 DEF HoldsTypeOK
<1>3. HeldInv'
  <2> SUFFICES ASSUME NEW u \in Threads
               PROVE  job'[u].held \subseteq Held' /\ job'[u].marked \cap job'[u].held = {}
    BY DEF HeldInv
  <2>1. CASE u = t
    <3>1. job'[u] = j
      BY <2>1, <1>1 DEF HoldsTypeOK
    <3> QED BY <3>1 DEF HeldInv
  <2>2. CASE u # t
    <3>1. job'[u] = job[u]
      BY <2>2, <1>1 DEF HoldsTypeOK
    <3> QED BY <3>1 DEF HeldInv
  <2> QED BY <2>1, <2>2
<1> QED BY <1>2, <1>3

LEMMA EndKeeps ==
    ASSUME NEW P, NEW I, HoldsTypeOK(P, I), HeldInv, NEW t \in Threads,
           End(t), holds' = holds
    PROVE  job' \in [Threads -> JobOf(P, I)] /\ HeldInv'
<1>1. job' = [job EXCEPT ![t] = Idle] /\ Held' = Held
  BY DEF End, Held
<1>2. job' \in [Threads -> JobOf(P, I)]
  BY <1>1, IdleIsJob DEF HoldsTypeOK
<1>3. HeldInv'
  <2> SUFFICES ASSUME NEW u \in Threads
               PROVE  job'[u].held \subseteq Held' /\ job'[u].marked \cap job'[u].held = {}
    BY DEF HeldInv
  <2>1. CASE u = t
    <3>1. job'[u] = Idle
      BY <2>1, <1>1 DEF HoldsTypeOK
    <3> QED BY <3>1 DEF Idle
  <2>2. CASE u # t
    <3>1. job'[u] = job[u]
      BY <2>2, <1>1 DEF HoldsTypeOK
    <3> QED BY <3>1, <1>1 DEF HeldInv
  <2> QED BY <2>1, <2>2
<1> QED BY <1>2, <1>3

\* A job that begins with what is not held, or with nothing, marked.
LEMMA BeginKeeps ==
    ASSUME NEW P, NEW I, HoldsTypeOK(P, I), HeldInv, NEW t \in Threads, NEW j,
           Begin(t, j), j \in JobOf(P, I), j.marked \cap Held = {}, holds' = holds
    PROVE  job' \in [Threads -> JobOf(P, I)] /\ HeldInv'
<1> DEFINE k == [at |-> j.at, todo |-> j.todo, marked |-> j.marked,
                 info |-> j.info, held |-> Held]
<1>1. [j EXCEPT !.held = Held] = k
  BY DEF JobOf
<1>2. job' = [job EXCEPT ![t] = k] /\ Held' = Held
  BY <1>1 DEF Begin, Held
<1>3. k \in JobOf(P, I)
  BY DEF JobOf, Held, HeldIn
<1>4. k.held = Held /\ k.marked = j.marked
  OBVIOUS
<1> HIDE DEF k
<1>5. job' \in [Threads -> JobOf(P, I)]
  BY <1>2, <1>3 DEF HoldsTypeOK
<1>6. HeldInv'
  <2> SUFFICES ASSUME NEW u \in Threads
               PROVE  job'[u].held \subseteq Held' /\ job'[u].marked \cap job'[u].held = {}
    BY DEF HeldInv
  <2>1. CASE u = t
    <3>1. job'[u] = k
      BY <2>1, <1>2 DEF HoldsTypeOK
    <3> QED BY <3>1, <1>2, <1>4
  <2>2. CASE u # t
    <3>1. job'[u] = job[u]
      BY <2>2, <1>2 DEF HoldsTypeOK
    <3> QED BY <3>1, <1>2 DEF HeldInv
  <2> QED BY <2>1, <2>2
<1> QED BY <1>5, <1>6

-----------------------------------------------------------------------------
(* The steps that belong to no thread.                                     *)

LEMMA PlaceKeeps ==
    ASSUME NEW P, NEW I, HoldsTypeOK(P, I), HeldInv, NEW d \in Docs, PlaceHold(d)
    PROVE  HoldsTypeOK(P, I)' /\ HeldInv'
<1>1. holds' = [holds EXCEPT ![d][Court] = @ + 1] /\ docs' = docs /\ crashes' = crashes
  BY DEF PlaceHold, SetHolds
<1> DEFINE row == [holds[d] EXCEPT ![Court] = @ + 1]
<1>3. holds' = [holds EXCEPT ![d] = row]
  BY <1>1
<1>4. row \in [Cases -> Nat]
  <2>1. holds[d] \in [Cases -> Nat] /\ Court \in Cases
    BY DEF HoldsTypeOK, Cases
  <2>2. holds[d][Court] + 1 \in Nat
    BY <2>1
  <2> QED BY <2>1, <2>2
<1> HIDE DEF row
<1>2. holds' \in [Docs -> [Cases -> Nat]]
  BY <1>3, <1>4 DEF HoldsTypeOK
<1>5. job' \in [Threads -> JobOf(P, I)] /\ HeldInv'
  BY HeldInJobs, SetHoldsKeepsHeld DEF PlaceHold
<1> QED BY <1>1, <1>2, <1>5 DEF HoldsTypeOK

LEMMA ReleaseKeeps ==
    ASSUME NEW P, NEW I, HoldsTypeOK(P, I), HeldInv, NEW d \in Docs, NEW c \in Cases,
           ReleaseHold(d, c)
    PROVE  HoldsTypeOK(P, I)' /\ HeldInv'
<1>1. holds' = [holds EXCEPT ![d][c] = @ - 1] /\ docs' = docs /\ crashes' = crashes
      /\ holds[d][c] > 0
  BY DEF ReleaseHold, SetHolds
<1>2. holds' \in [Docs -> [Cases -> Nat]]
  BY <1>1 DEF HoldsTypeOK
<1>3. job' \in [Threads -> JobOf(P, I)] /\ HeldInv'
  BY HeldInJobs, SetHoldsKeepsHeld DEF ReleaseHold
<1> QED BY <1>1, <1>2, <1>3 DEF HoldsTypeOK

LEMMA DeleteKeeps ==
    ASSUME NEW P, NEW I, HoldsTypeOK(P, I), HeldInv, NEW d \in Docs, DeleteDocument(d)
    PROVE  HoldsTypeOK(P, I)' /\ HeldInv'
<1>1. docs' \in [Docs -> Row \cup {NoRow}]
  BY DEF DeleteDocument, HoldsTypeOK
<1>2. HeldInv'
  BY DEF DeleteDocument, HeldInv, Held
<1> QED BY <1>1, <1>2 DEF DeleteDocument, HoldsTypeOK

LEMMA CrashKeeps ==
    ASSUME NEW P, NEW I, HoldsTypeOK(P, I), HeldInv, Crash
    PROVE  HoldsTypeOK(P, I)' /\ HeldInv'
<1>1. job' \in [Threads -> JobOf(P, I)]
  BY IdleIsJob DEF Crash
<1>2. HeldInv'
  BY DEF Crash, HeldInv, Idle
<1> QED BY <1>1, <1>2 DEF Crash, HoldsTypeOK

LEMMA HoldsNextKeeps ==
    ASSUME NEW P, NEW I, HoldsTypeOK(P, I), HeldInv, HoldsNext
    PROVE  HoldsTypeOK(P, I)' /\ HeldInv'
BY PlaceKeeps, ReleaseKeeps, DeleteKeeps, CrashKeeps DEF HoldsNext

-----------------------------------------------------------------------------
\* A commit of a thread changes rows it has marked, and only those: no row of
\* a document that has been held since the thread began.
LEMMA MarkedRowsOnly ==
    ASSUME HeldInv, NEW t \in Threads,
           \A d \in Docs \ job[t].marked : docs'[d] = docs[d]
    PROVE  SparesRows(t)
BY DEF HeldInv, SparesRows, Present

\* The steps of LegalHolds change rows, or what threads do, but never both.
LEMMA HoldsNextSpares ==
    ASSUME HoldsNext, NEW t \in Threads PROVE SparesRows(t)
BY DEF HoldsNext, PlaceHold, ReleaseHold, DeleteDocument, Crash, SparesRows, Present
=============================================================================
