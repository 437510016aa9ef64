--------------------------- MODULE SubjectRequests ---------------------------
(***************************************************************************)
(* The data-subject requests of one customer (dsar.py): export, litigation *)
(* hold and cryptoshred, each fulfilled by any worker, several times       *)
(* perhaps, the older soft erasure, and the customer's encryption key      *)
(* (encryption.py), which a shred destroys and a rotation replaces.        *)
(***************************************************************************)
EXTENDS LegalHolds

CONSTANTS MaxJobs,   \* bound: erasures and fulfilments that begin
          MaxKeys    \* bound: keys made for the customer

ASSUME RequestsAssumption == MaxJobs \in Nat /\ MaxKeys \in Nat

VARIABLES key,       \* the customer's row of customer_deks; `made' counts keys
          requests,  \* dsar_requests: what is asked, status, key destroyed
          audited,   \* rows "article17_cryptoshred" in the audit log
          shreds,    \* history: times a key was overwritten by a shred
          freed,     \* history: documents that lost their last hold during a job
          started

caseVars == <<key, requests, audited, shreds>>
vars == <<holdVars, caseVars, freed, started>>

Actions == {"article15_export", "article17_cryptoshred", "litigation_hold"}

\* `destroyed' is the receipt of a shred: the number of the key it overwrote, 0
\* when the customer had none.
NoRequest == [action |-> "none", status |-> "none", destroyed |-> NoInfo]

Init == /\ HoldsInit
        /\ \E n \in {0, 1} : key = [made |-> n, usable |-> n = 1]
        /\ requests = [r \in Requests |-> NoRequest]
        /\ audited = 0 /\ shreds = 0 /\ started = 0
        /\ freed = [t \in Threads |-> {}]

BeginJob(t, j) == started < MaxJobs /\ started' = started + 1 /\ Begin(t, j)

\* A letter of confirmation changes what an export changes.
CreateRequest(r, a) ==
    /\ requests[r] = NoRequest
    /\ requests' = [requests EXCEPT ![r] = [@ EXCEPT !.action = a, !.status = "NEW"]]
    /\ UNCHANGED <<holdVars, key, audited, shreds, started>>

\* The hold of the case on each of the customer's documents goes, one of them
\* where there are two.
ReleaseCase(r) ==
    /\ requests[r].action = "litigation_hold"
    /\ SetHolds([d \in Docs |-> [c \in Cases |->
           IF c = r /\ d \in Owned /\ holds[d][r] > 0 THEN holds[d][r] - 1 ELSE holds[d][c]]])
    /\ UNCHANGED <<docs, crashes, caseVars, started>>

-----------------------------------------------------------------------------
(* The soft erasure: the holds are read once, the rows are written later.  *)

EraseRead(t) ==
    /\ BeginJob(t, [Idle EXCEPT !.at = "erase", !.marked = Owned \ Held])
    /\ UNCHANGED <<docs, holds, crashes, caseVars>>

EraseCommit(t) ==
    LET marked == job[t].marked IN
    /\ job[t].at = "erase"
    /\ WriteBack(marked, [d \in Docs |-> IF d \in marked
                                         THEN [docs[d] EXCEPT !.status = "erased", !.owned = FALSE]
                                         ELSE docs[d]])
    /\ End(t)
    /\ UNCHANGED <<holds, crashes, caseVars, started>>

-----------------------------------------------------------------------------
(* fulfill.                                                                *)

FulfillRead(t, r) ==
    /\ requests[r].status \in {"NEW", "IN_PROGRESS"}
    /\ BeginJob(t, [Idle EXCEPT !.at = "begin",
                    !.info = [req |-> r, read |-> requests[r].status,
                              destroyed |-> NoInfo]])
    /\ UNCHANGED <<docs, holds, crashes, caseVars>>

\* What follows on the commit of IN_PROGRESS.
Dispatch == [a \in Actions |-> CASE a = "article15_export" -> "complete"
                                 [] a = "article17_cryptoshred" -> "check"
                                 [] a = "litigation_hold" -> "select"]

\* Regression: the request is closed before it is carried out.
FulfillBeginDone(t) ==
    LET r == job[t].info.req IN
    /\ job[t].at = "begin"
    /\ requests' = [requests EXCEPT ![r] = [@ EXCEPT !.status = "COMPLETED"]]
    /\ GoTo(t, [job[t] EXCEPT !.at = Dispatch[requests[r].action]])
    /\ UNCHANGED <<docs, holds, crashes, key, audited, shreds, started>>

\* A column that has not changed since it was read is not written.
FulfillBegin(t) ==
    LET r == job[t].info.req IN
    /\ job[t].at = "begin"
    /\ requests' = IF job[t].info.read = "NEW"
                   THEN [requests EXCEPT ![r] = [@ EXCEPT !.status = "IN_PROGRESS"]]
                   ELSE requests
    /\ GoTo(t, [job[t] EXCEPT !.at = Dispatch[requests[r].action]])
    /\ UNCHANGED <<docs, holds, crashes, key, audited, shreds, started>>

\* One hold on one document of the customer refuses the shred.
ShredRefused(t) ==
    /\ job[t].at = "check" /\ Owned \cap Held # {}
    /\ End(t)
    /\ UNCHANGED <<docs, holds, crashes, caseVars, started>>

\* Regression: one audit row for a customer.
ShredAuditOnce(t) ==
    /\ job[t].at = "check" /\ Owned \cap Held = {}
    /\ GoTo(t, [job[t] EXCEPT !.at = "shred"])
    /\ audited' = 1
    /\ UNCHANGED <<docs, holds, crashes, key, requests, shreds, started>>

\* Regression: a hold on one document does not stop the shred of the others.
ShredAuditSome(t) ==
    /\ job[t].at = "check" /\ (Owned = {} \/ ~(Owned \subseteq Held))
    /\ GoTo(t, [job[t] EXCEPT !.at = "shred"])
    /\ audited' = audited + 1
    /\ UNCHANGED <<docs, holds, crashes, key, requests, shreds, started>>

ShredAudit(t) ==
    /\ job[t].at = "check" /\ Owned \cap Held = {}
    /\ GoTo(t, [job[t] EXCEPT !.at = "shred"])
    /\ audited' = audited + 1
    /\ UNCHANGED <<docs, holds, crashes, key, requests, shreds, started>>

ShredKey(t) ==
    /\ job[t].at = "shred"
    /\ key' = [key EXCEPT !.usable = FALSE]
    /\ shreds' = IF key.made > 0 THEN shreds + 1 ELSE shreds
    /\ GoTo(t, [job[t] EXCEPT !.at = "complete", !.info = [@ EXCEPT !.destroyed = key.made]])
    /\ UNCHANGED <<docs, holds, crashes, requests, audited, started>>

HoldSelect(t) ==
    /\ job[t].at = "select"
    /\ GoTo(t, [job[t] EXCEPT !.at = "place", !.todo = Owned])
    /\ UNCHANGED <<docs, holds, crashes, caseVars, started>>

\* Regression: the loop ends with the first hold it makes.
HoldCheckFirst(t, d) ==
    /\ job[t].at = "place" /\ d \in job[t].todo
    /\ GoTo(t, [job[t] EXCEPT !.todo = IF d \in Held THEN @ \ {d} ELSE {},
                              !.marked = IF d \in Held THEN @ ELSE @ \cup {d}])
    /\ UNCHANGED <<docs, holds, crashes, caseVars, started>>

\* A document that some case holds already gets no hold of this one.
HoldCheck(t, d) ==
    /\ job[t].at = "place" /\ d \in job[t].todo
    /\ GoTo(t, [job[t] EXCEPT !.todo = @ \ {d},
                              !.marked = IF d \in Held THEN @ ELSE @ \cup {d}])
    /\ UNCHANGED <<docs, holds, crashes, caseVars, started>>

HoldPlace(t) ==
    LET r == job[t].info.req
        h == [d \in Docs |-> [c \in Cases |->
                 IF c = r /\ d \in job[t].marked THEN holds[d][r] + 1 ELSE holds[d][c]]]
    IN  /\ job[t].at = "place" /\ job[t].todo = {}
        /\ holds' = h
        /\ GoTo(t, [job[t] EXCEPT !.at = "complete"])
        /\ UNCHANGED <<docs, crashes, caseVars, started>>

FulfillComplete(t) ==
    LET r == job[t].info.req IN
    /\ job[t].at = "complete"
    /\ requests' = [requests EXCEPT ![r] = [@ EXCEPT !.status = "COMPLETED",
                                                     !.destroyed = job[t].info.destroyed]]
    /\ End(t)
    /\ UNCHANGED <<docs, holds, crashes, key, audited, shreds, started>>

-----------------------------------------------------------------------------
\* A fresh key, also after a shred; the first one is made by an upload.
RotateKey == /\ key.made < MaxKeys
             /\ key' = [made |-> key.made + 1, usable |-> TRUE]
             /\ UNCHANGED <<holdVars, requests, audited, shreds, started>>

JobStep(t) == \/ EraseRead(t) \/ EraseCommit(t)
              \/ \E r \in Requests : FulfillRead(t, r)
              \/ FulfillBegin(t) \/ FulfillComplete(t)
              \/ ShredRefused(t) \/ ShredAudit(t) \/ ShredKey(t)
              \/ HoldSelect(t) \/ HoldPlace(t)
              \/ \E d \in Docs : HoldCheck(t, d)

Step == \/ HoldsNext /\ UNCHANGED <<caseVars, started>>
        \/ RotateKey
        \/ \E r \in Requests : ReleaseCase(r) \/ \E a \in Actions : CreateRequest(r, a)
        \/ \E t \in Threads : JobStep(t)

Next == /\ Step
        /\ freed' = [t \in Threads |-> IF job'[t].at = "idle" THEN {}
                                       ELSE freed[t] \cup (Held \ HeldIn(holds'))]

Spec == Init /\ [][Next]_vars

-----------------------------------------------------------------------------
Infos == [req : Requests, read : {"NEW", "IN_PROGRESS"}, destroyed : Nat \cup {NoInfo}]

RequestsTypeOK ==
    /\ HoldsTypeOK({"erase", "begin", "check", "shred", "select", "place", "complete"}, Infos)
    /\ key \in [made : Nat, usable : BOOLEAN]
    /\ requests \in [Requests -> {NoRequest} \cup
           [action : Actions, status : {"NEW", "IN_PROGRESS", "COMPLETED"}, destroyed : Nat \cup {NoInfo}]]
    /\ audited \in Nat /\ shreds \in Nat /\ started \in Nat
    /\ freed \in [Threads -> SUBSET Docs]

\* "Writes an AuditLog row BEFORE destroying the DEK so the audit record is
\* guaranteed even if a crash occurs mid-way": every destruction has a row of
\* its own, whatever fulfilments overlap and wherever the process dies.
ShredIsAudited == shreds <= audited

\* A shred that is reported complete has its receipt, and the key it names, and
\* each one before it, is not what the customer's row holds.
ReceiptIsTrue ==
    \A r \in Requests :
        (requests[r].status = "COMPLETED" /\ requests[r].action = "article17_cryptoshred") =>
            /\ requests[r].destroyed \in Nat
            /\ key.usable => requests[r].destroyed < key.made

\* A document under a hold since an erasure or a fulfilment began keeps its
\* row, and while it is the customer's it keeps the key.
HeldThroughoutIsSpared ==
    [][\A t \in Threads :
          /\ SparesRows(t)
          /\ (job'[t] # job[t] /\ job[t].held \cap Owned # {} /\ key.usable) => key'.usable]_vars

\* When a litigation hold completes, each document of the customer is held,
\* unless it lost its last hold since the fulfilment began.
HoldCoversDocuments ==
    [][\A t \in Threads : \A r \in Requests :
          (/\ job[t].at = "complete" /\ job'[t].at = "idle" /\ job[t].info.req = r
           /\ requests'[r].status = "COMPLETED" /\ requests[r].action = "litigation_hold")
              => Owned \subseteq Held \cup freed[t]]_vars
=============================================================================
