------------------------ MODULE SubjectRequestsProofs ------------------------
(***************************************************************************)
(* For every set of documents, requests and threads: types, the audit row  *)
(* of every shred, the truth of a receipt, and what a hold protects.       *)
(***************************************************************************)
EXTENDS SubjectRequests, LegalHoldsProofs, FiniteSetTheorems

Places == {"erase", "begin", "check", "shred", "select", "place", "complete"}
Req == [action : Actions, status : {"NEW", "IN_PROGRESS", "COMPLETED"}, destroyed : Nat \cup {NoInfo}]

Typed ==
    /\ HoldsTypeOK(Places, Infos)
    /\ key \in [made : Nat, usable : BOOLEAN]
    /\ requests \in [Requests -> {NoRequest} \cup Req]
    /\ audited \in Nat /\ shreds \in Nat /\ started \in Nat

\* A receipt names a key, and one that is not in use.
Receipt(n) == n \in Nat /\ n <= key.made /\ (key.usable => n < key.made)

Asked(t) == requests[job[t].info.req].action

Shred == "article17_cryptoshred"
Hold == "litigation_hold"

\* What a thread knows at each place of a fulfilment.
ThreadOK(t) ==
    /\ job[t].at \notin {"idle", "erase"} => job[t].info \in Infos /\ Asked(t) \in Actions
    /\ job[t].at \in {"check", "shred"} => Asked(t) = Shred
    /\ job[t].at \in {"select", "place"} => Asked(t) = Hold
    /\ job[t].at = "shred" => job[t].held \cap Owned = {}
    /\ job[t].at = "place" => Owned \subseteq job[t].todo \cup job[t].marked \cup Held \cup freed[t]
    /\ job[t].at = "complete" /\ Asked(t) = Hold => Owned \subseteq Held \cup freed[t]
    /\ job[t].at = "complete" /\ Asked(t) = Shred => Receipt(job[t].info.destroyed)

RequestOK(r) ==
    requests[r].status = "COMPLETED" /\ requests[r].action = Shred => Receipt(requests[r].destroyed)

CaseInv ==
    /\ Typed
    /\ freed \in [Threads -> SUBSET Docs]
    /\ HeldInv
    /\ \A t \in Threads : ThreadOK(t)
    /\ \A r \in Requests : RequestOK(r)

-----------------------------------------------------------------------------
(* What every step keeps, so that a thread that does not move keeps what   *)
(* it knows.                                                               *)

Freeing == freed' = [t \in Threads |-> IF job'[t].at = "idle" THEN {}
                                       ELSE freed[t] \cup (Held \ HeldIn(holds'))]

Similar(t) == /\ job'[t].at = job[t].at /\ job'[t].todo = job[t].todo
              /\ job'[t].marked = job[t].marked /\ job'[t].info = job[t].info
              /\ job'[t].held \subseteq job[t].held

ActionsKept == \A r \in Requests : requests[r].action \in Actions =>
                                      requests'[r].action = requests[r].action
OwnedKept == Owned' \subseteq Owned
ReceiptsKept == \A n : Receipt(n) => Receipt(n)'
RequestsKept == \A r \in Requests : requests'[r] = requests[r]

Kept == ActionsKept /\ OwnedKept /\ ReceiptsKept

LEMMA FreedTyped ==
    ASSUME freed \in [Threads -> SUBSET Docs], Freeing
    PROVE  freed' \in [Threads -> SUBSET Docs]
BY DEF Freeing, Held, HeldIn

LEMMA FreedGrows ==
    ASSUME Freeing, NEW t \in Threads, job'[t].at # "idle"
    PROVE  Held \cup freed[t] \subseteq Held' \cup freed'[t]
<1>1. Held' = HeldIn(holds')
  BY DEF Held, HeldIn
<1> QED BY <1>1 DEF Freeing

LEMMA SimilarOK ==
    ASSUME CaseInv, Kept, Freeing, NEW t \in Threads, Similar(t)
    PROVE  ThreadOK(t)'
<1>1. ThreadOK(t)
  BY DEF CaseInv
<1>2. job[t].at \notin {"idle", "erase"} =>
         /\ job[t].info \in Infos /\ job'[t].info = job[t].info
         /\ requests'[job'[t].info.req].action = Asked(t) /\ Asked(t) \in Actions
  <2>1. job[t].info \in Infos => job[t].info.req \in Requests
    BY DEF Infos
  <2> QED BY <1>1, <2>1 DEF ThreadOK, Kept, ActionsKept, Similar, Asked
<1>3. job[t].at # "idle" => Held \cup freed[t] \subseteq Held' \cup freed'[t]
  BY FreedGrows DEF Similar
<1>4. Owned' \subseteq Owned /\ \A n : Receipt(n) => Receipt(n)'
  BY DEF Kept, OwnedKept, ReceiptsKept
<1>5. (job[t].at \notin {"idle", "erase"} => job[t].info \in Infos /\ Asked(t) \in Actions)'
  BY <1>2 DEF Similar, Asked
<1>6. /\ (job[t].at \in {"check", "shred"} => Asked(t) = Shred)'
      /\ (job[t].at \in {"select", "place"} => Asked(t) = Hold)'
  BY <1>1, <1>2 DEF ThreadOK, Similar, Asked
<1>7. (job[t].at = "shred" => job[t].held \cap Owned = {})'
  BY <1>1, <1>4 DEF ThreadOK, Similar
<1>8. (job[t].at = "place" => Owned \subseteq job[t].todo \cup job[t].marked \cup Held \cup freed[t])'
  BY <1>1, <1>3, <1>4 DEF ThreadOK, Similar
<1>9. (job[t].at = "complete" /\ Asked(t) = Hold => Owned \subseteq Held \cup freed[t])'
  BY <1>1, <1>2, <1>3, <1>4 DEF ThreadOK, Similar, Asked
<1>10. (job[t].at = "complete" /\ Asked(t) = Shred => Receipt(job[t].info.destroyed))'
  <2> SUFFICES ASSUME job'[t].at = "complete", Asked(t)' = Shred
               PROVE  Receipt(job[t].info.destroyed)'
    OBVIOUS
  <2>1. job[t].at = "complete" /\ Asked(t) = Shred
    BY <1>2 DEF Similar, Asked
  <2>2. PICK n : n = job[t].info.destroyed
    OBVIOUS
  <2>3. Receipt(n)'
    BY <1>1, <1>4, <2>1, <2>2 DEF ThreadOK
  <2>4. job'[t].info.destroyed = n
    BY <2>2 DEF Similar
  <2> QED BY <2>3, <2>4 DEF Receipt
<1> QED BY <1>5, <1>6, <1>7, <1>8, <1>9, <1>10 DEF ThreadOK

LEMMA RequestsKeptOK ==
    ASSUME CaseInv, Kept, NEW r \in Requests, requests'[r] = requests[r]
    PROVE  RequestOK(r)'
<1> SUFFICES ASSUME requests'[r].status = "COMPLETED", requests'[r].action = Shred
             PROVE  Receipt(requests[r].destroyed)'
  BY DEF RequestOK
<1>1. PICK n : n = requests[r].destroyed
  OBVIOUS
<1>2. Receipt(n)'
  BY <1>1 DEF CaseInv, RequestOK, Kept, ReceiptsKept
<1> QED BY <1>1, <1>2 DEF Receipt

LEMMA SameKeyKeepsReceipts == key' = key => ReceiptsKept
BY DEF ReceiptsKept, Receipt

LEMMA SameDocsKeepsOwned == docs' = docs => OwnedKept
BY DEF OwnedKept, Owned, Present

LEMMA SameRequestsKeepsActions == requests' = requests => ActionsKept /\ RequestsKept
BY DEF ActionsKept, RequestsKept

LEMMA SameAllKept ==
    ASSUME docs' = docs, key' = key, requests' = requests PROVE Kept /\ RequestsKept
BY SameKeyKeepsReceipts, SameDocsKeepsOwned, SameRequestsKeepsActions DEF Kept

-----------------------------------------------------------------------------
(* How jobs move.                                                          *)

LEMMA JobTyped ==
    ASSUME CaseInv
    PROVE  /\ HoldsTypeOK(Places, Infos) /\ HeldInv
           /\ job \in [Threads -> JobOf(Places, Infos)]
           /\ docs \in [Docs -> Row \cup {NoRow}]
BY DEF CaseInv, Typed, HoldsTypeOK

LEMMA OthersSimilar ==
    ASSUME CaseInv, NEW t \in Threads, NEW j, job' = [job EXCEPT ![t] = j]
    PROVE  job'[t] = j /\ \A u \in Threads \ {t} : Similar(u)
BY JobTyped DEF Similar

LEMMA Moves ==
    ASSUME CaseInv, NEW t \in Threads, NEW a \in Places, NEW s \in SUBSET Docs,
           NEW m \in SUBSET Docs, NEW i \in Infos \cup {NoInfo},
           GoTo(t, JobRec(a, s, m, i, job[t].held)), Held \subseteq Held',
           \A d \in m \ job[t].marked : d \notin Held
    PROVE  /\ job' \in [Threads -> JobOf(Places, Infos)] /\ HeldInv'
           /\ job'[t] = JobRec(a, s, m, i, job[t].held)
           /\ \A u \in Threads \ {t} : Similar(u)
<1>1. PICK j : j = JobRec(a, s, m, i, job[t].held)
  OBVIOUS
<1>2. j.held = job[t].held /\ j.marked = m /\ j \in JobOf(Places, Infos)
  BY <1>1, JobTyped DEF JobRec, JobOf
<1>3. GoTo(t, j)
  BY <1>1
<1>4. job' \in [Threads -> JobOf(Places, Infos)] /\ HeldInv'
  BY <1>2, <1>3, JobTyped, GoToKeeps
<1>5. job'[t] = j /\ \A u \in Threads \ {t} : Similar(u)
  BY <1>3, OthersSimilar DEF GoTo
<1> QED BY <1>1, <1>4, <1>5

LEMMA Ends ==
    ASSUME CaseInv, NEW t \in Threads, End(t), holds' = holds
    PROVE  /\ job' \in [Threads -> JobOf(Places, Infos)] /\ HeldInv'
           /\ job'[t] = Idle
           /\ \A u \in Threads \ {t} : Similar(u)
<1>1. job' \in [Threads -> JobOf(Places, Infos)] /\ HeldInv'
  BY JobTyped, EndKeeps
<1>2. job'[t] = Idle /\ \A u \in Threads \ {t} : Similar(u)
  BY OthersSimilar DEF End
<1> QED BY <1>1, <1>2

LEMMA Begins ==
    ASSUME CaseInv, NEW t \in Threads, NEW a \in Places, NEW m \in SUBSET Docs,
           NEW i \in Infos \cup {NoInfo}, Begin(t, JobRec(a, {}, m, i, {})),
           m \cap Held = {}, holds' = holds
    PROVE  /\ job' \in [Threads -> JobOf(Places, Infos)] /\ HeldInv'
           /\ job'[t] = JobRec(a, {}, m, i, Held)
           /\ \A u \in Threads \ {t} : Similar(u)
<1>1. PICK j : j = JobRec(a, {}, m, i, {})
  OBVIOUS
<1>2. j.marked = m /\ j \in JobOf(Places, Infos)
  BY <1>1 DEF JobRec, JobOf
<1>3. Begin(t, j)
  BY <1>1
<1>4. job' \in [Threads -> JobOf(Places, Infos)] /\ HeldInv'
  BY <1>2, <1>3, JobTyped, BeginKeeps
<1>5. PICK k : k = JobRec(a, {}, m, i, Held)
  OBVIOUS
<1>6. [j EXCEPT !.held = Held] = k
  BY <1>1, <1>5 DEF JobRec
<1>7. job' = [job EXCEPT ![t] = k]
  BY <1>3, <1>6 DEF Begin
<1>8. job'[t] = k /\ \A u \in Threads \ {t} : Similar(u)
  BY <1>7, OthersSimilar
<1> QED BY <1>4, <1>5, <1>8

LEMMA IdleThreadOK ==
    ASSUME NEW t \in Threads, job'[t] = Idle PROVE ThreadOK(t)'
BY DEF ThreadOK, Idle

LEMMA ErasingThreadOK ==
    ASSUME NEW t \in Threads, job'[t].at = "erase" PROVE ThreadOK(t)'
BY DEF ThreadOK

LEMMA Gather ==
    ASSUME CaseInv, Typed', HeldInv', Kept, Freeing, NEW t \in Threads,
           \A u \in Threads \ {t} : Similar(u), ThreadOK(t)',
           \A r \in Requests : RequestOK(r)'
    PROVE  CaseInv'
<1>1. \A u \in Threads \ {t} : ThreadOK(u)'
  BY SimilarOK
<1>2. freed' \in [Threads -> SUBSET Docs]
  BY FreedTyped DEF CaseInv
<1> QED BY <1>1, <1>2 DEF CaseInv

LEMMA GatherQuiet ==
    ASSUME CaseInv, Typed', HeldInv', Kept, Freeing,
           \A u \in Threads : Similar(u) \/ job'[u] = Idle,
           \A r \in Requests : RequestOK(r)'
    PROVE  CaseInv'
<1>1. \A u \in Threads : ThreadOK(u)'
  BY SimilarOK, IdleThreadOK
<1>2. freed' \in [Threads -> SUBSET Docs]
  BY FreedTyped DEF CaseInv
<1> QED BY <1>1, <1>2 DEF CaseInv

-----------------------------------------------------------------------------
(* The steps of no thread.                                                 *)

LEMMA HoldsNextCase ==
    ASSUME CaseInv, HoldsNext, UNCHANGED <<caseVars, started>>, Freeing PROVE CaseInv'
<1>1. HoldsTypeOK(Places, Infos)' /\ HeldInv'
  BY JobTyped, HoldsNextKeeps
<1>2. key' = key /\ requests' = requests /\ audited' = audited /\ shreds' = shreds
      /\ started' = started
  BY DEF caseVars
<1>3. Typed'
  BY <1>1, <1>2 DEF CaseInv, Typed
<1>4. OwnedKept
  BY JobTyped DEF HoldsNext, PlaceHold, ReleaseHold, DeleteDocument, Crash, OwnedKept, Owned, Present
<1>5. Kept /\ RequestsKept
  BY <1>2, <1>4, SameKeyKeepsReceipts, SameRequestsKeepsActions DEF Kept
<1>6. \A u \in Threads : Similar(u) \/ job'[u] = Idle
  <2>1. CASE \E h : SetHolds(h)
    BY <2>1, JobTyped, HeldInJobs DEF Similar
  <2>2. CASE job' = job
    BY <2>2 DEF Similar
  <2>3. CASE Crash
    BY <2>3 DEF Crash
  <2> QED BY <2>1, <2>2, <2>3 DEF HoldsNext, PlaceHold, ReleaseHold, DeleteDocument
<1>7. \A r \in Requests : RequestOK(r)'
  BY <1>5, RequestsKeptOK DEF RequestsKept
<1> QED BY <1>1, <1>3, <1>5, <1>6, <1>7, GatherQuiet

LEMMA RotateKeyCase ==
    ASSUME CaseInv, RotateKey, Freeing PROVE CaseInv'
<1>1. UNCHANGED <<docs, holds, job, crashes, requests, audited, shreds, started>>
      /\ key' = [made |-> key.made + 1, usable |-> TRUE]
  BY DEF RotateKey, holdVars
<1>2. key \in [made : Nat, usable : BOOLEAN] /\ HeldInv
  BY DEF CaseInv, Typed
<1>3. key' \in [made : Nat, usable : BOOLEAN] /\ key'.made = key.made + 1
  BY <1>1, <1>2
<1>4. ReceiptsKept
  BY <1>2, <1>3 DEF ReceiptsKept, Receipt
<1>5. Typed'
  BY <1>1, <1>3 DEF CaseInv, Typed, HoldsTypeOK
<1>6. HeldInv'
  BY <1>1, <1>2 DEF HeldInv, Held
<1>7. Kept /\ RequestsKept
  BY <1>1, <1>4, SameDocsKeepsOwned, SameRequestsKeepsActions DEF Kept
<1>8. \A u \in Threads : Similar(u)
  BY <1>1 DEF Similar
<1>9. \A r \in Requests : RequestOK(r)'
  BY <1>7, RequestsKeptOK DEF RequestsKept
<1> QED BY <1>5, <1>6, <1>7, <1>8, <1>9, GatherQuiet

LEMMA ReleaseCaseCase ==
    ASSUME CaseInv, NEW r \in Requests, ReleaseCase(r), Freeing PROVE CaseInv'
<1> DEFINE h == [d \in Docs |-> [c \in Cases |->
           IF c = r /\ d \in Owned /\ holds[d][r] > 0 THEN holds[d][r] - 1 ELSE holds[d][c]]]
<1>1. SetHolds(h) /\ UNCHANGED <<docs, crashes, key, requests, audited, shreds, started>>
  BY DEF ReleaseCase, caseVars
<1>2. h \in [Docs -> [Cases -> Nat]]
  BY JobTyped DEF HoldsTypeOK, Cases
<1>3. holds' = h
  BY <1>1 DEF SetHolds
<1> HIDE DEF h
<1>4. job' \in [Threads -> JobOf(Places, Infos)] /\ HeldInv'
  BY <1>1, JobTyped, HeldInJobs, SetHoldsKeepsHeld
<1>5. Typed'
  BY <1>1, <1>2, <1>3, <1>4 DEF CaseInv, Typed, HoldsTypeOK
<1>6. Kept /\ RequestsKept
  BY <1>1, SameAllKept
<1>7. \A u \in Threads : Similar(u)
  BY <1>1, JobTyped, HeldInJobs DEF Similar
<1>8. \A q \in Requests : RequestOK(q)'
  BY <1>6, RequestsKeptOK DEF RequestsKept
<1> QED BY <1>4, <1>5, <1>6, <1>7, <1>8, GatherQuiet

-----------------------------------------------------------------------------
(* Records of requests.                                                    *)

ReqRec(a, s, d) == [action |-> a, status |-> s, destroyed |-> d]

AnyReq == [action : Actions \cup {"none"},
           status : {"none", "NEW", "IN_PROGRESS", "COMPLETED"}, destroyed : Nat \cup {NoInfo}]

LEMMA RequestIsAny ==
    ASSUME CaseInv, NEW r \in Requests
    PROVE  requests[r] \in AnyReq /\ (requests[r].action \in Actions <=> requests[r] \in Req)
<1>1. requests[r] \in {NoRequest} \cup Req
  BY DEF CaseInv, Typed
<1>2. NoRequest \in AnyReq /\ NoRequest.action \notin Actions
  BY DEF NoRequest, AnyReq, Actions
<1>3. Req \subseteq AnyReq /\ \A q \in Req : q.action \in Actions
  BY DEF Req, AnyReq
<1> QED BY <1>1, <1>2, <1>3 DEF Req

LEMMA ReqActionStatus ==
    ASSUME NEW q \in AnyReq, NEW x, NEW y
    PROVE  [q EXCEPT !.action = x, !.status = y] = ReqRec(x, y, q.destroyed)
<1>1. PICK p : p = ReqRec(x, q.status, q.destroyed)
  OBVIOUS
<1>2. [q EXCEPT !.action = x] = p
  BY <1>1 DEF AnyReq, ReqRec
<1>3. [p EXCEPT !.status = y] = ReqRec(x, y, q.destroyed)
  BY <1>1 DEF ReqRec
<1>4. [q EXCEPT !.action = x, !.status = y] = [[q EXCEPT !.action = x] EXCEPT !.status = y]
  OBVIOUS
<1>5. [[q EXCEPT !.action = x] EXCEPT !.status = y] = [p EXCEPT !.status = y]
  BY <1>2, Zenon
<1> QED BY <1>3, <1>4, <1>5, Zenon

LEMMA ReqStatus ==
    ASSUME NEW q \in AnyReq, NEW x
    PROVE  [q EXCEPT !.status = x] = ReqRec(q.action, x, q.destroyed)
BY DEF AnyReq, ReqRec

LEMMA ReqStatusDestroyed ==
    ASSUME NEW q \in AnyReq, NEW x, NEW y
    PROVE  [q EXCEPT !.status = x, !.destroyed = y] = ReqRec(q.action, x, y)
<1>1. PICK p : p = ReqRec(q.action, x, q.destroyed)
  OBVIOUS
<1>2. [q EXCEPT !.status = x] = p
  BY <1>1 DEF AnyReq, ReqRec
<1>3. [p EXCEPT !.destroyed = y] = ReqRec(q.action, x, y)
  BY <1>1 DEF ReqRec
<1>4. [q EXCEPT !.status = x, !.destroyed = y] = [[q EXCEPT !.status = x] EXCEPT !.destroyed = y]
  OBVIOUS
<1>5. [[q EXCEPT !.status = x] EXCEPT !.destroyed = y] = [p EXCEPT !.destroyed = y]
  BY <1>2, Zenon
<1> QED BY <1>3, <1>4, <1>5, Zenon

LEMMA CreateRequestCase ==
    ASSUME CaseInv, NEW r \in Requests, NEW a \in Actions, CreateRequest(r, a), Freeing
    PROVE  CaseInv'
<1>1. UNCHANGED <<docs, holds, job, crashes, key, audited, shreds, started>>
      /\ requests[r] = NoRequest
  BY DEF CreateRequest, holdVars
<1>2. requests' = [requests EXCEPT ![r] = ReqRec(a, "NEW", NoInfo)]
  <2>1. requests[r] \in AnyReq /\ requests[r].destroyed = NoInfo
    BY <1>1, RequestIsAny DEF NoRequest
  <2>2. [requests[r] EXCEPT !.action = a, !.status = "NEW"] = ReqRec(a, "NEW", requests[r].destroyed)
    BY <2>1, ReqActionStatus, Zenon
  <2>3. requests' = [requests EXCEPT ![r] = [requests[r] EXCEPT !.action = a, !.status = "NEW"]]
    BY DEF CreateRequest
  <2> QED BY <2>1, <2>2, <2>3, Zenon
<1>3. ReqRec(a, "NEW", NoInfo) \in Req
  BY DEF ReqRec, Req
<1>4. Typed'
  BY <1>1, <1>2, <1>3 DEF CaseInv, Typed, HoldsTypeOK
<1>5. HeldInv'
  BY <1>1 DEF CaseInv, HeldInv, Held
<1>6. requests[r].action \notin Actions
  BY <1>1 DEF NoRequest, Actions
<1>7. \A q \in Requests \ {r} : requests'[q] = requests[q]
  BY <1>2 DEF CaseInv, Typed
<1>8. ActionsKept
  BY <1>6, <1>7 DEF ActionsKept
<1>9. Kept
  BY <1>1, <1>8, SameKeyKeepsReceipts, SameDocsKeepsOwned DEF Kept
<1>10. \A u \in Threads : Similar(u)
  BY <1>1 DEF Similar
<1>11. RequestOK(r)'
  BY <1>2 DEF RequestOK, ReqRec, CaseInv, Typed
<1>12. \A q \in Requests : RequestOK(q)'
  BY <1>7, <1>9, <1>11, RequestsKeptOK
<1> QED BY <1>4, <1>5, <1>9, <1>10, <1>12, GatherQuiet

-----------------------------------------------------------------------------
(* The erasure, and the steps of a fulfilment that leave the requests as   *)
(* they are.                                                               *)

\* What all of them have in common.
LEMMA StepOfThread ==
    ASSUME CaseInv, Freeing, NEW t \in Threads,
           docs' \in [Docs -> Row \cup {NoRow}], OwnedKept,
           holds' \in [Docs -> [Cases -> Nat]],
           UNCHANGED <<crashes, key, requests>>,
           audited' \in Nat, shreds' \in Nat, started' \in Nat,
           job' \in [Threads -> JobOf(Places, Infos)], HeldInv',
           \A u \in Threads \ {t} : Similar(u), ThreadOK(t)'
    PROVE  CaseInv'
<1>1. Typed'
  BY DEF CaseInv, Typed, HoldsTypeOK
<1>2. Kept /\ RequestsKept
  BY SameKeyKeepsReceipts, SameRequestsKeepsActions DEF Kept
<1>3. \A r \in Requests : RequestOK(r)'
  BY <1>2, RequestsKeptOK DEF RequestsKept
<1> QED BY <1>1, <1>2, <1>3, Gather

LEMMA CountersTyped ==
    ASSUME CaseInv
    PROVE  /\ audited \in Nat /\ shreds \in Nat /\ started \in Nat
           /\ holds \in [Docs -> [Cases -> Nat]]
BY DEF CaseInv, Typed, HoldsTypeOK

LEMMA EraseReadCase ==
    ASSUME CaseInv, NEW t \in Threads, EraseRead(t), Freeing PROVE CaseInv'
<1>1. UNCHANGED <<docs, holds, crashes, key, requests, audited, shreds>> /\ started' = started + 1
  BY DEF EraseRead, caseVars, BeginJob
<1>2. [Idle EXCEPT !.at = "erase", !.marked = Owned \ Held]
         = JobRec("erase", {}, Owned \ Held, NoInfo, {})
  <2>1. \A a, m : [Idle EXCEPT !.at = a, !.marked = m]
                   = JobRec(a, Idle.todo, m, Idle.info, Idle.held)
    BY IdleIsJob, JobMarkedAt, Zenon
  <2> QED BY <2>1, Zenon DEF Idle
<1>3. Begin(t, JobRec("erase", {}, Owned \ Held, NoInfo, {}))
  BY <1>2 DEF EraseRead, BeginJob
<1>4. Owned \ Held \in SUBSET Docs /\ (Owned \ Held) \cap Held = {} /\ "erase" \in Places
  BY DEF Owned, Present, Places
<1>5. /\ job' \in [Threads -> JobOf(Places, Infos)] /\ HeldInv'
      /\ job'[t] = JobRec("erase", {}, Owned \ Held, NoInfo, Held)
      /\ \A u \in Threads \ {t} : Similar(u)
  BY <1>1, <1>3, <1>4, Begins
<1>6. ThreadOK(t)'
  BY <1>5, JobRecFields, ErasingThreadOK
<1>7. started' \in Nat
  BY <1>1, CountersTyped
<1> QED BY <1>1, <1>5, <1>6, <1>7, JobTyped, CountersTyped, SameDocsKeepsOwned, StepOfThread

LEMMA EraseCommitCase ==
    ASSUME CaseInv, NEW t \in Threads, EraseCommit(t), Freeing PROVE CaseInv'
<1> DEFINE marked == job[t].marked
           new == [d \in Docs |-> IF d \in marked
                                  THEN [docs[d] EXCEPT !.status = "erased", !.owned = FALSE]
                                  ELSE docs[d]]
<1>1. /\ UNCHANGED <<holds, crashes, key, requests, audited, shreds, started>>
      /\ End(t) /\ WriteBack(marked, new)
  BY DEF EraseCommit, caseVars
<1>2. ASSUME NEW d \in Docs, docs[d] # NoRow
      PROVE  [docs[d] EXCEPT !.status = "erased", !.owned = FALSE] \in Row
             /\ ~[docs[d] EXCEPT !.status = "erased", !.owned = FALSE].owned
  <2>1. PICK q : q = docs[d]
    OBVIOUS
  <2>2. q \in Row
    BY <2>1, <1>2, JobTyped
  <2>3. PICK p : p = [q EXCEPT !.status = "erased"]
    OBVIOUS
  <2>4. p \in Row
    BY <2>2, <2>3 DEF Row
  <2>5. [p EXCEPT !.owned = FALSE] \in Row /\ ~[p EXCEPT !.owned = FALSE].owned
    BY <2>4 DEF Row
  <2>6. [q EXCEPT !.status = "erased", !.owned = FALSE]
          = [[q EXCEPT !.status = "erased"] EXCEPT !.owned = FALSE]
    OBVIOUS
  <2> QED BY <2>1, <2>3, <2>5, <2>6, Zenon
<1> HIDE DEF marked
<1>3. docs' \in [Docs -> Row \cup {NoRow}] /\ OwnedKept
  <2>1. CASE ~(marked \subseteq Present)
    BY <2>1, <1>1, JobTyped, SameDocsKeepsOwned DEF WriteBack
  <2>2. CASE marked \subseteq Present
    <3>1. docs' = new
      BY <2>2, <1>1 DEF WriteBack
    <3>2. \A d \in marked : d \in Docs /\ docs[d] # NoRow
      BY <2>2 DEF Present
    <3>3. PICK f : f = [d \in Docs |-> [docs[d] EXCEPT !.status = "erased", !.owned = FALSE]]
      OBVIOUS
    <3>4. \A d \in marked : f[d] \in Row /\ ~f[d].owned
      BY <3>2, <3>3, <1>2
    <3>5. docs' = [d \in Docs |-> IF d \in marked THEN f[d] ELSE docs[d]]
      BY <3>1, <3>3
    <3>6. docs' \in [Docs -> Row \cup {NoRow}]
      BY <3>4, <3>5, JobTyped
    <3>7. OwnedKept
      BY <3>4, <3>5 DEF OwnedKept, Owned, Present
    <3> QED BY <3>6, <3>7
  <2> QED BY <2>1, <2>2
<1>4. /\ job' \in [Threads -> JobOf(Places, Infos)] /\ HeldInv'
      /\ job'[t] = Idle
      /\ \A u \in Threads \ {t} : Similar(u)
  BY <1>1, Ends
<1>5. ThreadOK(t)'
  BY <1>4, IdleThreadOK
<1> QED BY <1>1, <1>3, <1>4, <1>5, CountersTyped, StepOfThread

LEMMA FulfillReadCase ==
    ASSUME CaseInv, NEW t \in Threads, NEW r \in Requests, FulfillRead(t, r), Freeing
    PROVE  CaseInv'
<1> DEFINE i == [req |-> r, read |-> requests[r].status, destroyed |-> NoInfo]
<1>1. UNCHANGED <<docs, holds, crashes, key, requests, audited, shreds>> /\ started' = started + 1
      /\ requests[r].status \in {"NEW", "IN_PROGRESS"}
  BY DEF FulfillRead, caseVars, BeginJob
<1>2. [Idle EXCEPT !.at = "begin", !.info = i] = JobRec("begin", {}, {}, i, {})
  <2>1. \A a, x : [Idle EXCEPT !.at = a, !.info = x]
                   = JobRec(a, Idle.todo, Idle.marked, x, Idle.held)
    BY IdleIsJob, JobAtInfo, Zenon
  <2> QED BY <2>1, Zenon DEF Idle
<1>3. Begin(t, JobRec("begin", {}, {}, i, {}))
  BY <1>2 DEF FulfillRead, BeginJob
<1>4. i \in Infos /\ i.req = r /\ "begin" \in Places
      /\ {} \in SUBSET Docs /\ {} \cap Held = {}
  BY <1>1 DEF Infos, Places
<1> HIDE DEF i
<1>5. /\ job' \in [Threads -> JobOf(Places, Infos)] /\ HeldInv'
      /\ job'[t] = JobRec("begin", {}, {}, i, Held)
      /\ \A u \in Threads \ {t} : Similar(u)
  BY <1>1, <1>3, <1>4, Begins
<1>6. requests[r].action \in Actions
  BY <1>1 DEF CaseInv, Typed, Req, NoRequest
<1>7. ThreadOK(t)'
  BY <1>1, <1>4, <1>5, <1>6, JobRecFields DEF ThreadOK, Asked
<1>8. started' \in Nat
  BY <1>1, CountersTyped
<1> QED BY <1>1, <1>5, <1>7, <1>8, JobTyped, CountersTyped, SameDocsKeepsOwned, StepOfThread

LEMMA ShredRefusedCase ==
    ASSUME CaseInv, NEW t \in Threads, ShredRefused(t), Freeing PROVE CaseInv'
<1>1. UNCHANGED <<docs, holds, crashes, key, requests, audited, shreds, started>> /\ End(t)
  BY DEF ShredRefused, caseVars
<1>2. /\ job' \in [Threads -> JobOf(Places, Infos)] /\ HeldInv' /\ job'[t] = Idle
      /\ \A u \in Threads \ {t} : Similar(u)
  BY <1>1, Ends
<1>3. ThreadOK(t)'
  BY <1>2, IdleThreadOK
<1> QED BY <1>1, <1>2, <1>3, JobTyped, CountersTyped, SameDocsKeepsOwned, StepOfThread

\* A job as a record, and what its thread knows.
LEMMA JobParts ==
    ASSUME CaseInv, NEW t \in Threads
    PROVE  /\ job[t] \in JobOf(Places, Infos) /\ ThreadOK(t)
           /\ job[t].todo \in SUBSET Docs /\ job[t].marked \in SUBSET Docs
           /\ job[t].held \in SUBSET Docs /\ job[t].info \in Infos \cup {NoInfo}
BY JobTyped DEF CaseInv, JobOf

LEMMA ShredAuditCase ==
    ASSUME CaseInv, NEW t \in Threads, ShredAudit(t), Freeing PROVE CaseInv'
<1>1. /\ UNCHANGED <<docs, holds, crashes, key, requests, shreds, started>>
      /\ audited' = audited + 1
      /\ job[t].at = "check" /\ Owned \cap Held = {}
      /\ GoTo(t, [job[t] EXCEPT !.at = "shred"])
  BY DEF ShredAudit
<1>2. [job[t] EXCEPT !.at = "shred"]
        = JobRec("shred", job[t].todo, job[t].marked, job[t].info, job[t].held)
  BY JobParts DEF JobOf, JobRec
<1>3. GoTo(t, JobRec("shred", job[t].todo, job[t].marked, job[t].info, job[t].held))
  BY <1>1, <1>2
<1>4. Held \subseteq Held' /\ "shred" \in Places
  BY <1>1 DEF Held, HeldIn, Places
<1>5. /\ job' \in [Threads -> JobOf(Places, Infos)] /\ HeldInv'
      /\ job'[t] = JobRec("shred", job[t].todo, job[t].marked, job[t].info, job[t].held)
      /\ \A u \in Threads \ {t} : Similar(u)
  BY <1>3, <1>4, JobParts, Moves
<1>6. job[t].held \subseteq Held /\ Owned' = Owned
  BY <1>1 DEF CaseInv, HeldInv, Owned, Present
<1>7. job[t].info \in Infos /\ Asked(t) = Shred
  BY <1>1, JobParts DEF ThreadOK
<1>8. ThreadOK(t)'
  <2>1. /\ job'[t].at = "shred" /\ job'[t].info = job[t].info /\ job'[t].held = job[t].held
        /\ Asked(t)' = Shred /\ Shred \in Actions
    BY <1>1, <1>5, <1>7, JobRecFields DEF Asked, Shred, Actions
  <2> QED BY <1>1, <1>6, <1>7, <2>1 DEF ThreadOK
<1>9. audited' \in Nat
  BY <1>1, CountersTyped
<1> QED BY <1>1, <1>5, <1>8, <1>9, JobTyped, CountersTyped, SameDocsKeepsOwned, StepOfThread

LEMMA HoldSelectCase ==
    ASSUME CaseInv, NEW t \in Threads, HoldSelect(t), Freeing PROVE CaseInv'
<1>1. /\ UNCHANGED <<docs, holds, crashes, key, requests, audited, shreds, started>>
      /\ job[t].at = "select"
      /\ GoTo(t, [job[t] EXCEPT !.at = "place", !.todo = Owned])
  BY DEF HoldSelect, caseVars
<1>2. [job[t] EXCEPT !.at = "place", !.todo = Owned]
        = JobRec("place", Owned, job[t].marked, job[t].info, job[t].held)
  BY JobParts, JobAtTodo, Zenon
<1>3. GoTo(t, JobRec("place", Owned, job[t].marked, job[t].info, job[t].held))
  BY <1>1, <1>2
<1>4. Held \subseteq Held' /\ "place" \in Places /\ Owned \in SUBSET Docs
  BY <1>1 DEF Held, HeldIn, Places, Owned, Present
<1>5. /\ job' \in [Threads -> JobOf(Places, Infos)] /\ HeldInv'
      /\ job'[t] = JobRec("place", Owned, job[t].marked, job[t].info, job[t].held)
      /\ \A u \in Threads \ {t} : Similar(u)
  BY <1>3, <1>4, JobParts, Moves
<1>6. Owned' = Owned
  BY <1>1 DEF Owned, Present
<1>7. job[t].info \in Infos /\ Asked(t) = Hold
  BY <1>1, JobParts DEF ThreadOK
<1>8. ThreadOK(t)'
  <2>1. /\ job'[t].at = "place" /\ job'[t].info = job[t].info /\ job'[t].todo = Owned
        /\ Asked(t)' = Hold /\ Hold \in Actions
    BY <1>1, <1>5, <1>7, JobRecFields DEF Asked, Hold, Actions
  <2> QED BY <1>6, <1>7, <2>1 DEF ThreadOK
<1> QED BY <1>1, <1>5, <1>8, JobTyped, CountersTyped, SameDocsKeepsOwned, StepOfThread

LEMMA HoldCheckCase ==
    ASSUME CaseInv, NEW t \in Threads, NEW d \in Docs, HoldCheck(t, d), Freeing PROVE CaseInv'
<1> DEFINE s == job[t].todo \ {d}
           m == IF d \in Held THEN job[t].marked ELSE job[t].marked \cup {d}
<1>1. /\ UNCHANGED <<docs, holds, crashes, key, requests, audited, shreds, started>>
      /\ job[t].at = "place"
      /\ GoTo(t, [job[t] EXCEPT !.todo = @ \ {d},
                                !.marked = IF d \in Held THEN @ ELSE @ \cup {d}])
  BY DEF HoldCheck, caseVars
<1>2. [job[t] EXCEPT !.todo = @ \ {d}, !.marked = IF d \in Held THEN @ ELSE @ \cup {d}]
        = JobRec(job[t].at, s, m, job[t].info, job[t].held)
  BY JobParts, JobTodoMarked, Zenon
<1>3. GoTo(t, JobRec("place", s, m, job[t].info, job[t].held))
  BY <1>1, <1>2
<1>4. /\ Held \subseteq Held' /\ "place" \in Places /\ s \in SUBSET Docs /\ m \in SUBSET Docs
      /\ \A e \in m \ job[t].marked : e \notin Held
      /\ job[t].todo \cup job[t].marked \subseteq s \cup m \cup Held
  BY <1>1, JobParts DEF Held, HeldIn, Places
<1> HIDE DEF s, m
<1>5. /\ job' \in [Threads -> JobOf(Places, Infos)] /\ HeldInv'
      /\ job'[t] = JobRec("place", s, m, job[t].info, job[t].held)
      /\ \A u \in Threads \ {t} : Similar(u)
  BY <1>3, <1>4, JobParts, Moves
<1>6. Owned' = Owned /\ Held \cup freed[t] \subseteq Held' \cup freed'[t]
  BY <1>1, <1>5, JobRecFields, FreedGrows DEF Owned, Present
<1>7. job[t].info \in Infos /\ Asked(t) = Hold
      /\ Owned \subseteq job[t].todo \cup job[t].marked \cup Held \cup freed[t]
  BY <1>1, JobParts DEF ThreadOK
<1>8. Owned \subseteq s \cup m \cup Held' \cup freed'[t]
  BY <1>4, <1>6, <1>7
<1>9. ThreadOK(t)'
  <2>1. /\ job'[t].at = "place" /\ job'[t].info = job[t].info
        /\ job'[t].todo = s /\ job'[t].marked = m
        /\ Asked(t)' = Hold /\ Hold \in Actions
    BY <1>1, <1>5, <1>7, JobRecFields DEF Asked, Hold, Actions
  <2> QED BY <1>6, <1>7, <1>8, <2>1 DEF ThreadOK
<1> QED BY <1>1, <1>5, <1>9, JobTyped, CountersTyped, SameDocsKeepsOwned, StepOfThread

-----------------------------------------------------------------------------
(* The steps of a fulfilment that write its request, the key or the holds. *)

LEMMA DispatchIs ==
    ASSUME NEW a \in Actions
    PROVE  /\ Dispatch[a] \in {"complete", "check", "select"}
           /\ Dispatch[a] = "check" => a = Shred
           /\ Dispatch[a] = "select" => a = Hold
           /\ Dispatch[a] = "complete" => a # Shred /\ a # Hold
<1>1. Dispatch["article15_export"] = "complete"
  BY DEF Dispatch, Actions
<1>2. Dispatch[Shred] = "check"
  BY DEF Dispatch, Actions, Shred
<1>3. Dispatch[Hold] = "select"
  BY DEF Dispatch, Actions, Hold
<1>4. a \in {"article15_export", Shred, Hold}
  BY DEF Actions, Shred, Hold
<1> QED BY <1>1, <1>2, <1>3, <1>4 DEF Shred, Hold

\* What a step does that writes one request and keeps what was asked.
LEMMA RequestWritten ==
    ASSUME CaseInv, NEW r \in Requests, requests[r].action \in Actions,
           NEW s \in {"NEW", "IN_PROGRESS", "COMPLETED"}, NEW d \in Nat \cup {NoInfo},
           requests' = [requests EXCEPT ![r] = ReqRec(requests[r].action, s, d)]
    PROVE  /\ requests' \in [Requests -> {NoRequest} \cup Req]
           /\ ActionsKept
           /\ requests'[r] = ReqRec(requests[r].action, s, d)
           /\ \A q \in Requests \ {r} : requests'[q] = requests[q]
<1>1. requests \in [Requests -> {NoRequest} \cup Req]
  BY DEF CaseInv, Typed
<1>2. PICK q : q = ReqRec(requests[r].action, s, d)
  OBVIOUS
<1>3. q \in Req /\ q.action = requests[r].action
  BY <1>2 DEF ReqRec, Req
<1>4. requests' = [requests EXCEPT ![r] = q]
  BY <1>2
<1>5. requests' \in [Requests -> {NoRequest} \cup Req] /\ requests'[r] = q
      /\ \A p \in Requests \ {r} : requests'[p] = requests[p]
  BY <1>1, <1>3, <1>4
<1> QED BY <1>2, <1>3, <1>5 DEF ActionsKept

LEMMA FulfillBeginRequest ==
    ASSUME CaseInv, NEW t \in Threads, FulfillBegin(t)
    PROVE  /\ requests' \in [Requests -> {NoRequest} \cup Req]
           /\ ActionsKept
           /\ key' = key => \A q \in Requests : RequestOK(q)'
<1>0. PICK r : r = job[t].info.req
  OBVIOUS
<1>1. job[t].at = "begin" /\ r \in Requests /\ requests[r].action \in Actions
  BY <1>0, JobParts DEF FulfillBegin, ThreadOK, Infos, Asked
<1>2. CASE requests' = requests
  <2>1. key' = key => \A q \in Requests : RequestOK(q)'
    BY <1>2 DEF CaseInv, RequestOK, Receipt
  <2> QED BY <1>2, <2>1, SameRequestsKeepsActions DEF CaseInv, Typed
<1>3. CASE requests' # requests
  <2>1. requests' = [requests EXCEPT ![r] = [requests[r] EXCEPT !.status = "IN_PROGRESS"]]
    BY <1>0, <1>3 DEF FulfillBegin
  <2>2. requests[r] \in AnyReq /\ requests[r] \in Req
    BY <1>1, RequestIsAny
  <2>3. [requests[r] EXCEPT !.status = "IN_PROGRESS"]
          = ReqRec(requests[r].action, "IN_PROGRESS", requests[r].destroyed)
    BY <2>2, ReqStatus, Zenon
  <2>4. requests' = [requests EXCEPT ![r] =
                        ReqRec(requests[r].action, "IN_PROGRESS", requests[r].destroyed)]
    BY <2>1, <2>3, Zenon
  <2>5. requests[r].destroyed \in Nat \cup {NoInfo}
    BY <2>2 DEF Req
  <2>6. /\ requests' \in [Requests -> {NoRequest} \cup Req] /\ ActionsKept
        /\ requests'[r] = ReqRec(requests[r].action, "IN_PROGRESS", requests[r].destroyed)
        /\ \A q \in Requests \ {r} : requests'[q] = requests[q]
    BY <1>1, <2>4, <2>5, RequestWritten
  <2>7. RequestOK(r)'
    BY <2>6 DEF RequestOK, ReqRec
  <2>8. key' = key => \A q \in Requests \ {r} : RequestOK(q)'
    BY <2>6 DEF CaseInv, RequestOK, Receipt
  <2> QED BY <2>6, <2>7, <2>8
<1> QED BY <1>2, <1>3

LEMMA FulfillBeginCase ==
    ASSUME CaseInv, NEW t \in Threads, FulfillBegin(t), Freeing PROVE CaseInv'
<1> DEFINE a == Asked(t)
<1>1. /\ UNCHANGED <<docs, holds, crashes, key, audited, shreds, started>>
      /\ job[t].at = "begin"
      /\ GoTo(t, [job[t] EXCEPT !.at = Dispatch[a]])
  BY DEF FulfillBegin, Asked
<1>2. job[t].info \in Infos /\ a \in Actions /\ job[t].info.req \in Requests
  BY <1>1, JobParts DEF ThreadOK, Infos
<1>3. /\ requests' \in [Requests -> {NoRequest} \cup Req] /\ ActionsKept
      /\ \A q \in Requests : RequestOK(q)'
  BY <1>1, FulfillBeginRequest
<1>4. [job[t] EXCEPT !.at = Dispatch[a]]
        = JobRec(Dispatch[a], job[t].todo, job[t].marked, job[t].info, job[t].held)
  BY JobParts DEF JobOf, JobRec
<1>5. GoTo(t, JobRec(Dispatch[a], job[t].todo, job[t].marked, job[t].info, job[t].held))
  BY <1>1, <1>4
<1>6. Held \subseteq Held' /\ Dispatch[a] \in Places
  BY <1>1, <1>2, DispatchIs DEF Held, HeldIn, Places
<1>7. /\ job' \in [Threads -> JobOf(Places, Infos)] /\ HeldInv'
      /\ job'[t] = JobRec(Dispatch[a], job[t].todo, job[t].marked, job[t].info, job[t].held)
      /\ \A u \in Threads \ {t} : Similar(u)
  BY <1>5, <1>6, JobParts, Moves
<1>8. job'[t].at = Dispatch[a] /\ job'[t].info = job[t].info /\ Asked(t)' = a
  <2>1. job'[t].at = Dispatch[a] /\ job'[t].info = job[t].info
    BY <1>7, JobRecFields
  <2>2. PICK q : q = job[t].info.req
    OBVIOUS
  <2>3. requests'[q].action = requests[q].action /\ a = requests[q].action
    BY <1>2, <1>3, <2>2 DEF Asked, ActionsKept
  <2>4. Asked(t)' = requests'[q].action
    BY <2>1, <2>2 DEF Asked
  <2> QED BY <2>1, <2>3, <2>4
<1>9. ThreadOK(t)'
  BY <1>2, <1>8, DispatchIs DEF ThreadOK
<1>10. Kept
  BY <1>1, <1>3, SameKeyKeepsReceipts, SameDocsKeepsOwned DEF Kept
<1>11. Typed'
  BY <1>1, <1>3, <1>7 DEF CaseInv, Typed, HoldsTypeOK
<1> QED BY <1>3, <1>7, <1>9, <1>10, <1>11, Gather

LEMMA ShredKeyCase ==
    ASSUME CaseInv, NEW t \in Threads, ShredKey(t), Freeing PROVE CaseInv'
<1> DEFINE i == [job[t].info EXCEPT !.destroyed = key.made]
<1>1. /\ UNCHANGED <<docs, holds, crashes, requests, audited, started>>
      /\ job[t].at = "shred"
      /\ key' = [key EXCEPT !.usable = FALSE]
      /\ shreds' = IF key.made > 0 THEN shreds + 1 ELSE shreds
      /\ GoTo(t, [job[t] EXCEPT !.at = "complete", !.info = i])
  BY DEF ShredKey
<1>2. job[t].info \in Infos /\ Asked(t) = Shred /\ key \in [made : Nat, usable : BOOLEAN]
      /\ HeldInv
  BY <1>1, JobParts DEF ThreadOK, CaseInv, Typed
<1>3. i \in Infos /\ i.req = job[t].info.req /\ i.destroyed = key.made
  BY <1>2 DEF Infos
<1>4. key' \in [made : Nat, usable : BOOLEAN] /\ key'.made = key.made /\ ~key'.usable
  BY <1>1, <1>2
<1> HIDE DEF i
<1>5. [job[t] EXCEPT !.at = "complete", !.info = i]
        = JobRec("complete", job[t].todo, job[t].marked, i, job[t].held)
  BY JobParts, JobAtInfo, Zenon
<1>6. GoTo(t, JobRec("complete", job[t].todo, job[t].marked, i, job[t].held))
  BY <1>1, <1>5
<1>7. Held \subseteq Held' /\ "complete" \in Places
  BY <1>1 DEF Held, HeldIn, Places
<1>8. /\ job' \in [Threads -> JobOf(Places, Infos)] /\ HeldInv'
      /\ job'[t] = JobRec("complete", job[t].todo, job[t].marked, i, job[t].held)
      /\ \A u \in Threads \ {t} : Similar(u)
  BY <1>3, <1>6, <1>7, JobParts, Moves
<1>9. job'[t].at = "complete" /\ job'[t].info = i /\ Asked(t)' = Shred
  BY <1>1, <1>2, <1>3, <1>8, JobRecFields DEF Asked
<1>10. Receipt(job[t].info.destroyed)'
  BY <1>2, <1>3, <1>4, <1>9 DEF Receipt
<1>11. ThreadOK(t)'
  BY <1>3, <1>9, <1>10 DEF ThreadOK, Shred, Hold, Actions
<1>12. ReceiptsKept
  BY <1>4 DEF ReceiptsKept, Receipt
<1>13. Kept /\ RequestsKept
  BY <1>1, <1>12, SameDocsKeepsOwned, SameRequestsKeepsActions DEF Kept
<1>14. shreds' \in Nat
  BY <1>1, CountersTyped
<1>15. Typed'
  BY <1>1, <1>4, <1>8, <1>14 DEF CaseInv, Typed, HoldsTypeOK
<1>16. \A r \in Requests : RequestOK(r)'
  BY <1>13, RequestsKeptOK DEF RequestsKept
<1> QED BY <1>8, <1>11, <1>13, <1>15, <1>16, Gather

LEMMA HoldPlaceCase ==
    ASSUME CaseInv, NEW t \in Threads, HoldPlace(t), Freeing PROVE CaseInv'
<1> DEFINE r == job[t].info.req
           h == [d \in Docs |-> [c \in Cases |->
                    IF c = r /\ d \in job[t].marked THEN holds[d][r] + 1 ELSE holds[d][c]]]
<1>1. /\ UNCHANGED <<docs, crashes, key, requests, audited, shreds, started>>
      /\ job[t].at = "place" /\ job[t].todo = {}
      /\ holds' = h
      /\ GoTo(t, [job[t] EXCEPT !.at = "complete"])
  BY DEF HoldPlace, caseVars
<1>2. job[t].info \in Infos /\ Asked(t) = Hold /\ job[t].marked \subseteq Docs
      /\ Owned \subseteq job[t].todo \cup job[t].marked \cup Held \cup freed[t]
  BY <1>1, JobParts DEF ThreadOK
<1>3. r \in Cases /\ holds \in [Docs -> [Cases -> Nat]]
  BY <1>2, CountersTyped DEF Infos, Cases
<1> HIDE DEF r
<1>4. h \in [Docs -> [Cases -> Nat]]
  BY <1>3
<1>5. \A d \in Docs, c \in Cases : holds[d][c] > 0 => h[d][c] > 0
  BY <1>3
<1>6. \A d \in job[t].marked : h[d][r] > 0
  BY <1>2, <1>3
<1> HIDE DEF h
<1>7. Held \subseteq Held' /\ job[t].marked \subseteq Held'
  BY <1>1, <1>2, <1>3, <1>5, <1>6 DEF Held, HeldIn
<1>8. [job[t] EXCEPT !.at = "complete"]
        = JobRec("complete", job[t].todo, job[t].marked, job[t].info, job[t].held)
  BY JobParts DEF JobOf, JobRec
<1>9. GoTo(t, JobRec("complete", job[t].todo, job[t].marked, job[t].info, job[t].held))
  BY <1>1, <1>8
<1>10. /\ job' \in [Threads -> JobOf(Places, Infos)] /\ HeldInv'
       /\ job'[t] = JobRec("complete", job[t].todo, job[t].marked, job[t].info, job[t].held)
       /\ \A u \in Threads \ {t} : Similar(u)
  BY <1>7, <1>9, JobParts, Moves DEF Places
<1>11. job'[t].at = "complete" /\ job'[t].info = job[t].info /\ Asked(t)' = Hold
  BY <1>1, <1>2, <1>10, JobRecFields DEF Asked
<1>12. Held \cup freed[t] \subseteq Held' \cup freed'[t] /\ Owned' = Owned
  BY <1>1, <1>11, FreedGrows DEF Owned, Present
<1>13. Owned' \subseteq Held' \cup freed'[t]
  BY <1>1, <1>2, <1>7, <1>12
<1>14. ThreadOK(t)'
  BY <1>2, <1>11, <1>13 DEF ThreadOK, Shred, Hold, Actions
<1>15. holds' \in [Docs -> [Cases -> Nat]]
  BY <1>1, <1>4
<1> QED BY <1>1, <1>10, <1>14, <1>15, JobTyped, CountersTyped, SameDocsKeepsOwned, StepOfThread

LEMMA FulfillCompleteCase ==
    ASSUME CaseInv, NEW t \in Threads, FulfillComplete(t), Freeing PROVE CaseInv'
<1>0. PICK r, d : r = job[t].info.req /\ d = job[t].info.destroyed
  OBVIOUS
<1>1. /\ UNCHANGED <<docs, holds, crashes, key, audited, shreds, started>>
      /\ job[t].at = "complete" /\ End(t)
      /\ requests' = [requests EXCEPT ![r] = [requests[r] EXCEPT !.status = "COMPLETED",
                                                                 !.destroyed = d]]
  BY <1>0 DEF FulfillComplete
<1>2. r \in Requests /\ d \in Nat \cup {NoInfo} /\ requests[r].action \in Actions
  BY <1>0, <1>1, JobParts DEF ThreadOK, Infos, Asked
<1>3. requests[r].action = Shred => Receipt(d)
  BY <1>0, <1>1, JobParts DEF ThreadOK, Asked
<1>4. [requests[r] EXCEPT !.status = "COMPLETED", !.destroyed = d]
        = ReqRec(requests[r].action, "COMPLETED", d)
  BY <1>2, RequestIsAny, ReqStatusDestroyed, Zenon
<1>5. requests' = [requests EXCEPT ![r] = ReqRec(requests[r].action, "COMPLETED", d)]
  BY <1>1, <1>4, Zenon
<1>6. /\ requests' \in [Requests -> {NoRequest} \cup Req] /\ ActionsKept
      /\ requests'[r] = ReqRec(requests[r].action, "COMPLETED", d)
      /\ \A q \in Requests \ {r} : requests'[q] = requests[q]
  BY <1>2, <1>5, RequestWritten
<1>7. Kept
  BY <1>1, <1>6, SameKeyKeepsReceipts, SameDocsKeepsOwned DEF Kept
<1>8. RequestOK(r)'
  BY <1>1, <1>3, <1>6 DEF RequestOK, ReqRec, Receipt
<1>9. \A q \in Requests : RequestOK(q)'
  BY <1>6, <1>7, <1>8, RequestsKeptOK
<1>10. /\ job' \in [Threads -> JobOf(Places, Infos)] /\ HeldInv' /\ job'[t] = Idle
       /\ \A u \in Threads \ {t} : Similar(u)
  BY <1>1, Ends
<1>11. Typed'
  BY <1>1, <1>6, <1>10 DEF CaseInv, Typed, HoldsTypeOK
<1> QED BY <1>7, <1>9, <1>10, <1>11, IdleThreadOK, Gather

-----------------------------------------------------------------------------
(* The invariant.                                                          *)

LEMMA CaseInit == Init => CaseInv
<1> SUFFICES ASSUME Init PROVE CaseInv
  OBVIOUS
<1>1. HoldsTypeOK(Places, Infos) /\ HeldInv
  BY HoldsInitType DEF Init
<1>2. Typed
  BY <1>1 DEF Init, Typed
<1>3. freed \in [Threads -> SUBSET Docs]
  BY DEF Init
<1>4. \A t \in Threads : ThreadOK(t)
  BY DEF Init, HoldsInit, ThreadOK, Idle
<1>5. \A r \in Requests : RequestOK(r)
  BY DEF Init, RequestOK, NoRequest
<1> QED BY <1>1, <1>2, <1>3, <1>4, <1>5 DEF CaseInv

LEMMA CaseStutter == CaseInv /\ UNCHANGED vars => CaseInv'
<1> SUFFICES ASSUME CaseInv, UNCHANGED vars PROVE CaseInv'
  OBVIOUS
<1>1. Typed' /\ HeldInv' /\ freed' \in [Threads -> SUBSET Docs]
  BY DEF CaseInv, Typed, HoldsTypeOK, HeldInv, Held, vars, holdVars, caseVars
<1>2. \A t \in Threads : ThreadOK(t)'
  BY DEF CaseInv, ThreadOK, Asked, Receipt, Owned, Present, Held, vars, holdVars, caseVars
<1>3. \A r \in Requests : RequestOK(r)'
  BY DEF CaseInv, RequestOK, Receipt, vars, caseVars
<1> QED BY <1>1, <1>2, <1>3 DEF CaseInv

LEMMA CaseStep == CaseInv /\ [Next]_vars => CaseInv'
<1> SUFFICES ASSUME CaseInv, [Next]_vars PROVE CaseInv'
  OBVIOUS
<1>1. CASE UNCHANGED vars
  BY <1>1, CaseStutter
<1>2. CASE Next
  <2>1. Freeing /\ Step
    BY <1>2 DEF Next, Freeing
  <2>2. ASSUME NEW t \in Threads, JobStep(t) PROVE CaseInv'
    BY <2>1, <2>2, EraseReadCase, EraseCommitCase, FulfillReadCase, FulfillBeginCase,
       FulfillCompleteCase, ShredRefusedCase, ShredAuditCase, ShredKeyCase, HoldSelectCase,
       HoldPlaceCase, HoldCheckCase DEF JobStep
  <2> QED BY <2>1, <2>2, HoldsNextCase, RotateKeyCase, ReleaseCaseCase, CreateRequestCase DEF Step
<1> QED BY <1>1, <1>2

LEMMA CaseInductive == Spec => []CaseInv
BY CaseInit, CaseStep, PTL DEF Spec

LEMMA CaseInvTypes == CaseInv => RequestsTypeOK
BY DEF CaseInv, Typed, RequestsTypeOK, Places, Req

\* Types of every variable, for all constants.
THEOREM RequestsTypeCorrect == Spec => []RequestsTypeOK
BY CaseInductive, CaseInvTypes, PTL

LEMMA CaseInvReceipts == CaseInv => ReceiptIsTrue
BY DEF CaseInv, RequestOK, Receipt, ReceiptIsTrue, Shred

\* The receipt of a completed shred names a key that was destroyed: it stays
\* true while the key is rotated and other fulfilments of the request run.
THEOREM ReceiptsAreTrue == Spec => []ReceiptIsTrue
BY CaseInductive, CaseInvReceipts, PTL

-----------------------------------------------------------------------------
(* The audit rows: a thread between its audit row and the key has one that *)
(* no destruction has used.                                                *)

AtShred == {t \in Threads : job[t].at = "shred"}
CountInv == shreds + Cardinality(AtShred) <= audited

LEMMA AtShredFinite == IsFiniteSet(AtShred) /\ Cardinality(AtShred) \in Nat
<1>1. AtShred \subseteq Threads /\ IsFiniteSet(Threads)
  BY HoldsAssumption DEF AtShred
<1> QED BY <1>1, FS_Subset, FS_CardinalityType

LEMMA CountFewer ==
    ASSUME CaseInv, CountInv, CaseInv', AtShred' \subseteq AtShred,
           shreds' = shreds, audited' = audited
    PROVE  CountInv'
<1>1. PICK S : S = AtShred'
  OBVIOUS
<1>2. IsFiniteSet(S) /\ Cardinality(S) \in Nat /\ Cardinality(S) <= Cardinality(AtShred)
      /\ Cardinality(AtShred) \in Nat
  BY <1>1, AtShredFinite, FS_Subset, FS_CardinalityType
<1>3. (CountInv)' <=> shreds' + Cardinality(S) <= audited'
  BY <1>1 DEF CountInv
<1> QED BY <1>2, <1>3, CountersTyped DEF CountInv

LEMMA CountAudit ==
    ASSUME CaseInv, CountInv, NEW t \in Threads, ShredAudit(t) PROVE CountInv'
<1>1. PICK S : S = AtShred'
  OBVIOUS
<1>2. S \subseteq AtShred \cup {t} /\ shreds' = shreds /\ audited' = audited + 1
  BY <1>1, JobTyped DEF ShredAudit, GoTo, AtShred
<1>3. IsFiniteSet(AtShred \cup {t}) /\ Cardinality(AtShred \cup {t}) <= Cardinality(AtShred) + 1
      /\ Cardinality(AtShred) \in Nat /\ Cardinality(AtShred \cup {t}) \in Nat
  <2>1. PICK A : A = AtShred
    OBVIOUS
  <2>2. IsFiniteSet(A) /\ Cardinality(A) \in Nat
    BY <2>1, AtShredFinite
  <2>3. IsFiniteSet(A \cup {t})
        /\ Cardinality(A \cup {t}) = IF t \in A THEN Cardinality(A) ELSE Cardinality(A) + 1
    BY <2>2, FS_AddElement
  <2> QED BY <2>1, <2>2, <2>3
<1>4. Cardinality(S) <= Cardinality(AtShred \cup {t}) /\ Cardinality(S) \in Nat
  BY <1>2, <1>3, FS_Subset, FS_CardinalityType
<1>5. (CountInv)' <=> shreds' + Cardinality(S) <= audited'
  BY <1>1 DEF CountInv
<1> QED BY <1>2, <1>3, <1>4, <1>5, CountersTyped DEF CountInv

LEMMA CountKey ==
    ASSUME CaseInv, CountInv, NEW t \in Threads, ShredKey(t) PROVE CountInv'
<1>1. PICK S : S = AtShred'
  OBVIOUS
<1>2. PICK j : j = [job[t] EXCEPT !.at = "complete", !.info = [@ EXCEPT !.destroyed = key.made]]
  OBVIOUS
<1>3. PICK i : i = [job[t].info EXCEPT !.destroyed = key.made]
  OBVIOUS
<1>4. j = JobRec("complete", job[t].todo, job[t].marked, i, job[t].held)
  <2>1. [job[t] EXCEPT !.at = "complete", !.info = i]
          = JobRec("complete", job[t].todo, job[t].marked, i, job[t].held)
    BY JobParts, JobAtInfo, Zenon
  <2>2. j = [job[t] EXCEPT !.at = "complete", !.info = i]
    BY <1>2, <1>3, Zenon
  <2> QED BY <2>1, <2>2, Zenon
<1>5. job' = [job EXCEPT ![t] = j] /\ job[t].at = "shred"
  BY <1>2 DEF ShredKey, GoTo
<1>6. j.at = "complete"
  BY <1>4, JobRecFields
<1>7. S = AtShred \ {t} /\ t \in AtShred
  BY <1>1, <1>5, <1>6, JobTyped DEF AtShred
<1>8. Cardinality(S) = Cardinality(AtShred) - 1 /\ Cardinality(AtShred) \in Nat
  BY <1>7, AtShredFinite, FS_RemoveElement
<1>9. shreds' <= shreds + 1 /\ shreds' \in Nat /\ audited' = audited
  BY CountersTyped DEF ShredKey
<1>10. (CountInv)' <=> shreds' + Cardinality(S) <= audited'
  BY <1>1 DEF CountInv
<1> QED BY <1>8, <1>9, <1>10, CountersTyped DEF CountInv

\* No other step brings a thread to the key, or counts anything.
LEMMA CountOthers ==
    ASSUME CaseInv, CaseInv', [Next]_vars,
           \A t \in Threads : ~ShredAudit(t) /\ ~ShredKey(t)
    PROVE  AtShred' \subseteq AtShred /\ shreds' = shreds /\ audited' = audited
<1>1. CASE UNCHANGED vars
  BY <1>1 DEF AtShred, vars, holdVars, caseVars
<1>2. CASE HoldsNext /\ UNCHANGED <<caseVars, started>>
  <2>1. CASE \E h : SetHolds(h)
    BY <1>2, <2>1, JobTyped, HeldInJobs DEF AtShred, caseVars
  <2>2. CASE job' = job
    BY <1>2, <2>2 DEF AtShred, caseVars
  <2>3. CASE Crash
    BY <1>2, <2>3 DEF Crash, Idle, AtShred, caseVars
  <2> QED BY <1>2, <2>1, <2>2, <2>3 DEF HoldsNext, PlaceHold, ReleaseHold, DeleteDocument
<1>3. CASE RotateKey \/ \E r \in Requests, a \in Actions : CreateRequest(r, a)
  BY <1>3 DEF RotateKey, CreateRequest, AtShred, holdVars
<1>4. ASSUME NEW r \in Requests, ReleaseCase(r)
      PROVE  AtShred' \subseteq AtShred /\ shreds' = shreds /\ audited' = audited
  <2>1. \E h : SetHolds(h)
    BY <1>4 DEF ReleaseCase
  <2> QED BY <1>4, <2>1, JobTyped, HeldInJobs DEF AtShred, ReleaseCase, caseVars
<1>5. ASSUME NEW t \in Threads, JobStep(t)
      PROVE  AtShred' \subseteq AtShred /\ shreds' = shreds /\ audited' = audited
  <2>1. ASSUME NEW j, job' = [job EXCEPT ![t] = j], j.at # "shred"
        PROVE  AtShred' \subseteq AtShred
    BY <2>1, JobTyped DEF AtShred
  <2>2. CASE \/ EraseCommit(t) \/ ShredRefused(t) \/ FulfillComplete(t)
    <3>1. job' = [job EXCEPT ![t] = Idle] /\ shreds' = shreds /\ audited' = audited
      BY <2>2 DEF EraseCommit, ShredRefused, FulfillComplete, End, caseVars
    <3>2. Idle.at # "shred"
      BY DEF Idle
    <3> QED BY <3>1, <3>2, <2>1
  <2>3. CASE EraseRead(t) \/ \E r \in Requests : FulfillRead(t, r)
    <3>1. PICK a, x : job'[t].at = a /\ a # "shred" /\ job' = [job EXCEPT ![t] = x]
      <4>1. CASE EraseRead(t)
        <5>1. PICK y : y = [[Idle EXCEPT !.at = "erase", !.marked = Owned \ Held] EXCEPT !.held = Held]
          OBVIOUS
        <5>2. job' = [job EXCEPT ![t] = y]
          BY <4>1, <5>1 DEF EraseRead, BeginJob, Begin
        <5>3. y.at = "erase"
          BY <5>1 DEF Idle
        <5> QED BY <5>2, <5>3, JobTyped
      <4>2. CASE \E r \in Requests : FulfillRead(t, r)
        <5>0. PICK r \in Requests : FulfillRead(t, r)
          BY <4>2
        <5>1. PICK i : i = [req |-> r, read |-> requests[r].status, destroyed |-> NoInfo]
          OBVIOUS
        <5>2. PICK y : y = [[Idle EXCEPT !.at = "begin", !.info = i] EXCEPT !.held = Held]
          OBVIOUS
        <5>3. job' = [job EXCEPT ![t] = y]
          BY <5>0, <5>1, <5>2 DEF FulfillRead, BeginJob, Begin
        <5>4. y.at = "begin"
          BY <5>2 DEF Idle
        <5> QED BY <5>3, <5>4, JobTyped
      <4> QED BY <2>3, <4>1, <4>2
    <3>2. x.at # "shred"
      BY <3>1, JobTyped
    <3> QED BY <2>1, <2>3, <3>1, <3>2 DEF EraseRead, FulfillRead, caseVars
  <2>4. CASE FulfillBegin(t) \/ HoldPlace(t)
    <3>1. PICK a : (FulfillBegin(t) /\ a = Dispatch[Asked(t)]) \/ (HoldPlace(t) /\ a = "complete")
      BY <2>4
    <3>2. a # "shred"
      <4>1. FulfillBegin(t) => Asked(t) \in Actions
        BY JobParts DEF FulfillBegin, ThreadOK
      <4> QED BY <3>1, <4>1, DispatchIs
    <3>3. PICK x : x = [job[t] EXCEPT !.at = a]
      OBVIOUS
    <3>4. job' = [job EXCEPT ![t] = x]
      BY <3>1, <3>3 DEF FulfillBegin, HoldPlace, GoTo, Asked
    <3>5. x.at = a
      BY <3>3, JobParts DEF JobOf
    <3> QED BY <2>1, <2>4, <3>2, <3>4, <3>5 DEF FulfillBegin, HoldPlace, caseVars
  <2>5. CASE HoldSelect(t)
    <3>1. PICK x : x = [job[t] EXCEPT !.at = "place", !.todo = Owned]
      OBVIOUS
    <3>2. x = JobRec("place", Owned, job[t].marked, job[t].info, job[t].held)
      BY <3>1, JobParts, JobAtTodo, Zenon
    <3>3. x.at # "shred" /\ job' = [job EXCEPT ![t] = x]
      BY <2>5, <3>1, <3>2, JobRecFields DEF HoldSelect, GoTo
    <3> QED BY <2>1, <2>5, <3>3 DEF HoldSelect, caseVars
  <2>6. ASSUME NEW d \in Docs, HoldCheck(t, d)
        PROVE  AtShred' \subseteq AtShred /\ shreds' = shreds /\ audited' = audited
    <3>1. PICK x : x = [job[t] EXCEPT !.todo = @ \ {d},
                                      !.marked = IF d \in Held THEN @ ELSE @ \cup {d}]
      OBVIOUS
    <3>2. PICK s, m : s = job[t].todo \ {d}
                      /\ m = IF d \in Held THEN job[t].marked ELSE job[t].marked \cup {d}
      OBVIOUS
    <3>3. [job[t] EXCEPT !.todo = s, !.marked = m] = JobRec(job[t].at, s, m, job[t].info, job[t].held)
      BY JobParts, JobTodoMarked, Zenon
    <3>4. x = [job[t] EXCEPT !.todo = s, !.marked = m]
      BY <3>1, <3>2, Zenon
    <3>5. x.at = job[t].at
      BY <3>3, <3>4, JobRecFields
    <3>6. job' = [job EXCEPT ![t] = x] /\ job[t].at = "place"
      BY <2>6, <3>1 DEF HoldCheck, GoTo
    <3> QED BY <2>1, <2>6, <3>5, <3>6 DEF HoldCheck, caseVars
  <2> QED BY <1>5, <2>2, <2>3, <2>4, <2>5, <2>6 DEF JobStep
<1> QED BY <1>1, <1>2, <1>3, <1>4, <1>5 DEF Next, Step

LEMMA CountStep == CaseInv /\ CaseInv' /\ CountInv /\ [Next]_vars => CountInv'
BY CountAudit, CountKey, CountOthers, CountFewer

LEMMA CountInit == Init => CountInv
<1> SUFFICES ASSUME Init PROVE CountInv
  OBVIOUS
<1>1. AtShred = {}
  BY DEF Init, HoldsInit, AtShred, Idle
<1> QED BY <1>1, FS_EmptySet DEF Init, CountInv

LEMMA CountIsAudited == CaseInv /\ CountInv => ShredIsAudited
BY AtShredFinite, CountersTyped DEF CountInv, ShredIsAudited

\* Each destruction of a key has an audit row of its own, written before it,
\* whatever fulfilments overlap and wherever the process ends.
THEOREM ShredsAreAudited == Spec => []ShredIsAudited
<1>1. CaseInv /\ CountInv /\ [Next]_vars => CountInv'
  BY CountStep, CaseStep
<1> QED BY <1>1, CaseInductive, CountInit, CountIsAudited, PTL DEF Spec

-----------------------------------------------------------------------------
(* What a hold protects.                                                   *)

Spared(t) ==
    /\ SparesRows(t)
    /\ (job'[t] # job[t] /\ job[t].held \cap Owned # {} /\ key.usable) => key'.usable

LEMMA QuietIsSpared ==
    ASSUME NEW t \in Threads, docs' = docs \/ job' = job, key.usable => key'.usable
    PROVE  Spared(t)
BY DEF Spared, SparesRows

LEMMA EraseCommitSpares ==
    ASSUME CaseInv, NEW u \in Threads, EraseCommit(u), NEW t \in Threads PROVE Spared(t)
<1>1. job' = [job EXCEPT ![u] = Idle] /\ key' = key
  BY DEF EraseCommit, End, caseVars
<1>2. CASE t = u
  <2>1. \A d \in Docs \ job[t].marked : docs'[d] = docs[d]
    BY <1>2 DEF EraseCommit, WriteBack
  <2> QED BY <2>1, <1>1, MarkedRowsOnly DEF CaseInv, Spared
<1>3. CASE t # u
  BY <1>1, <1>3, JobTyped DEF Spared, SparesRows
<1> QED BY <1>2, <1>3

LEMMA ShredKeySpares ==
    ASSUME CaseInv, NEW u \in Threads, ShredKey(u), NEW t \in Threads PROVE Spared(t)
<1>1. docs' = docs /\ job[u].at = "shred"
  BY DEF ShredKey
<1>2. job[u].held \cap Owned = {}
  BY <1>1 DEF CaseInv, ThreadOK
<1>3. t # u => job'[t] = job[t]
  BY JobTyped DEF ShredKey, GoTo
<1> QED BY <1>1, <1>2, <1>3 DEF Spared, SparesRows

LEMMA SparedStep == CaseInv /\ [Next]_vars => \A t \in Threads : Spared(t)
<1> SUFFICES ASSUME CaseInv, [Next]_vars, NEW t \in Threads PROVE Spared(t)
  OBVIOUS
<1>1. CASE UNCHANGED vars
  BY <1>1, QuietIsSpared DEF vars, holdVars, caseVars
<1>2. CASE HoldsNext /\ UNCHANGED <<caseVars, started>>
  BY <1>2, HoldsNextSpares DEF Spared, caseVars
<1>3. CASE RotateKey
  BY <1>3, QuietIsSpared DEF RotateKey, holdVars
<1>4. ASSUME NEW r \in Requests, ReleaseCase(r) \/ \E a \in Actions : CreateRequest(r, a)
      PROVE  Spared(t)
  BY <1>4, QuietIsSpared DEF ReleaseCase, CreateRequest, holdVars, caseVars
<1>5. ASSUME NEW u \in Threads, JobStep(u) PROVE Spared(t)
  <2>1. CASE \/ EraseRead(u) \/ \E r \in Requests : FulfillRead(u, r)
             \/ FulfillBegin(u) \/ FulfillComplete(u) \/ ShredRefused(u) \/ ShredAudit(u)
             \/ HoldSelect(u) \/ HoldPlace(u) \/ \E d \in Docs : HoldCheck(u, d)
    <3>1. docs' = docs /\ key' = key
      BY <2>1 DEF EraseRead, FulfillRead, FulfillBegin, FulfillComplete, ShredRefused, ShredAudit,
                  HoldSelect, HoldPlace, HoldCheck, caseVars
    <3> QED BY <3>1, QuietIsSpared
  <2> QED BY <1>5, <2>1, EraseCommitSpares, ShredKeySpares DEF JobStep
<1> QED BY <1>1, <1>2, <1>3, <1>4, <1>5 DEF Next, Step

\* A document under a hold since an erasure or a fulfilment began keeps its
\* row; while it is the customer's, no such fulfilment takes the key.
THEOREM HeldDocumentsSpared == Spec => HeldThroughoutIsSpared
<1>1. CaseInv /\ [Next]_vars =>
        \A t \in Threads :
          /\ SparesRows(t)
          /\ (job'[t] # job[t] /\ job[t].held \cap Owned # {} /\ key.usable) => key'.usable
  BY SparedStep DEF Spared
<1> QED BY <1>1, CaseInductive, PTL DEF Spec, HeldThroughoutIsSpared

LEMMA CoversStep == CaseInv /\ [Next]_vars =>
    \A t \in Threads : \A r \in Requests :
          (/\ job[t].at = "complete" /\ job'[t].at = "idle" /\ job[t].info.req = r
           /\ requests'[r].status = "COMPLETED" /\ requests[r].action = "litigation_hold")
              => Owned \subseteq Held \cup freed[t]
BY DEF CaseInv, ThreadOK, Asked, Hold

\* When a litigation hold completes, no document of the customer is without a
\* hold but one that lost it since the fulfilment began.
THEOREM LitigationHoldCovers == Spec => HoldCoversDocuments
BY CaseInductive, CoversStep, PTL DEF Spec, HoldCoversDocuments
=============================================================================
