---------------------------- MODULE BrowserOutbox ----------------------------
(***************************************************************************)
(* Uploads made while the network fails: the capture page sends an upload  *)
(* under a fresh key and, when it hears nothing, saves it in the outbox of *)
(* IndexedDB (lib/offline-outbox.ts); the service worker (public/sw.js)    *)
(* replays the outbox, and the server recognises keys (IdempotencyKeys).   *)
(*                                                                         *)
(* Each drain of the worker runs on its own: the sync event and the message*)
(* of the indicator both start one, whether or not another is at work.     *)
(* Between two drains IndexedDB transactions are atomic and are run in the *)
(* order of their creation, so a drain has four steps: it reads the        *)
(* outbox, the server answers, it removes what is done, it puts back or    *)
(* gives up what failed.  The network may lose or delay any message, and   *)
(* the browser may stop the worker at any moment.                          *)
(***************************************************************************)
EXTENDS IdempotencyKeys

CONSTANTS
    NoUser,
    Capturers,     \* users whose role has the capture permission
    Drains,        \* bound on the drains that overlap
    MaxRetries,    \* 5 in handleRetry
    MaxBatchSize   \* 50 in sw.js

VARIABLES
    session,   \* the user logged in in this browser
    owner,     \* who made each upload
    ui,        \* what the capture page shows of it
    request,   \* the direct request: none (or no longer awaited) | sent | ok | refused
    queued,    \* entries in the outbox
    retries,   \* retry_count of each entry
    drain,     \* what each drain is doing
    gaveUp,    \* history: entries removed after their last retry
    failures   \* history: failed replays of each entry

browserVars == <<session, owner, ui, request, queued, retries, drain, gaveUp, failures>>
vars == <<serverVars, browserVars>>

ASSUME OutboxAssumption ==
    /\ NoUser \notin Users
    /\ Capturers \subseteq Users
    /\ MaxRetries \in Nat \ {0}
    /\ MaxBatchSize \in Nat \ {0}

Idle == [pc |-> "off", user |-> NoUser, seen |-> [k \in Keys |-> 0], done |-> {}, failed |-> {}]

Init ==
    /\ ServerInit
    /\ session  = NoUser
    /\ owner    = [k \in Keys |-> NoUser]
    /\ ui       = [k \in Keys |-> "new"]
    /\ request  = [k \in Keys |-> "none"]
    /\ queued   = {}
    /\ retries  = [k \in Keys |-> 0]
    /\ drain    = [d \in Drains |-> Idle]
    /\ gaveUp   = {}
    /\ failures = [k \in Keys |-> 0]

\* Logging out leaves the outbox as it is: nothing calls clearAll.
ChangeSession ==
    /\ session' \in (Users \cup {NoUser}) \ {session}
    /\ session = NoUser \/ session' = NoUser
    /\ UNCHANGED <<serverVars, owner, ui, request, queued, retries, drain, gaveUp, failures>>

-----------------------------------------------------------------------------
(* The capture page and POST /spa/api/documents.                           *)

ConfirmUpload(k) ==
    /\ session # NoUser
    /\ ui[k] = "new"
    /\ ui'      = [ui EXCEPT ![k] = "waiting"]
    /\ owner'   = [owner EXCEPT ![k] = session]
    /\ request' = [request EXCEPT ![k] = "sent"]
    /\ UNCHANGED <<serverVars, session, queued, retries, drain, gaveUp, failures>>

\* Nobody reads an answer after the network error.
Answer(k, reply) ==
    request' = [request EXCEPT ![k] = IF ui[k] = "waiting" THEN reply ELSE "none"]

\* The handler; a request may also be refused by a guard or a validation.
\* A failed store does not fail the upload.
ServeUpload(k) ==
    /\ request[k] = "sent"
    /\ \/ /\ Answer(k, "refused")
          /\ UNCHANGED serverVars
       \/ /\ owner[k] \in Capturers
          /\ \E r \in Results(owner[k], k, "form") :
                /\ Serve(owner[k], {k}, "form", [x \in {k} |-> r])
                /\ Answer(k, IF r \in {"accepted", "deduped", "store_failed"} THEN "ok" ELSE "refused")
    /\ UNCHANGED <<session, owner, ui, queued, retries, drain, gaveUp, failures>>

ReplyArrives(k) ==
    /\ ui[k] = "waiting"
    /\ request[k] \in {"ok", "refused"}
    /\ ui' = [ui EXCEPT ![k] = IF request[k] = "ok" THEN "uploaded" ELSE "error"]
    /\ request' = [request EXCEPT ![k] = "none"]
    /\ UNCHANGED <<serverVars, session, owner, queued, retries, drain, gaveUp, failures>>

\* onError with a network error, wherever the request is: "Saved for sync",
\* or IndexedDB refuses.
NetworkError(k) ==
    /\ ui[k] = "waiting"
    /\ \/ /\ ui' = [ui EXCEPT ![k] = "saved"]
          /\ queued'  = queued \cup {k}
          /\ retries' = [retries EXCEPT ![k] = 0]
       \/ /\ ui' = [ui EXCEPT ![k] = "error"]
          /\ UNCHANGED <<queued, retries>>
    /\ request' = [request EXCEPT ![k] = IF @ = "sent" THEN "sent" ELSE "none"]
    /\ UNCHANGED <<serverVars, session, owner, drain, gaveUp, failures>>

-----------------------------------------------------------------------------
(* The service worker: drainOutbox.                                        *)

\* peekOutbox: the first entries in the order of their ids.
Peek == {k \in queued : Cardinality({j \in queued : j < k}) < MaxBatchSize}

Batch(d) == drain[d].failed

\* The entries read are first of all the ones to retry.
StartDrain(d) ==
    /\ drain[d].pc = "off"
    /\ queued # {}
    /\ drain' = [drain EXCEPT ![d] = [pc |-> "sent", user |-> session,
                     seen |-> [k \in Keys |-> IF k \in Peek THEN retries[k] ELSE 0],
                     done |-> {}, failed |-> Peek]]
    /\ UNCHANGED <<serverVars, session, owner, ui, request, queued, retries, gaveUp, failures>>

Sets(d, pc, done) ==
    drain' = [drain EXCEPT ![d] = [pc |-> pc, user |-> @.user, seen |-> @.seen,
                                   done |-> done, failed |-> @.failed \ done]]

\* The answer is an error, or the request or its answer is lost.
FetchFails(d) ==
    /\ drain[d].pc = "sent"
    /\ Sets(d, "retrying", {})
    /\ UNCHANGED <<serverVars, session, owner, ui, request, queued, retries, gaveUp, failures>>

\* POST /spa/api/sync/replay in the session of the worker.  The entries have
\* no field "payload", which is what the worker sends of each: the body the
\* server hashes and stores is empty.  The audit row is written last, outside
\* any guard: when it throws the answer is 500, as if it were lost.
ServeReplay(d) ==
    /\ drain[d].pc = "sent"
    /\ session = drain[d].user
    /\ session \in Capturers
    /\ \E res \in [Batch(d) -> {"accepted", "deduped", "conflict", "insert_failed", "store_failed"}] :
          /\ Serve(session, Batch(d), "none", res)
          /\ \/ Sets(d, "applying", {k \in Batch(d) : res[k] \in {"accepted", "deduped"}})
             \/ Sets(d, "retrying", {})
    /\ UNCHANGED <<session, owner, ui, request, queued, retries, gaveUp, failures>>

\* Regression: the whole batch is removed.
RemoveBatch(d) ==
    /\ drain[d].pc = "applying"
    /\ queued' = queued \ (drain[d].done \cup drain[d].failed)
    /\ Sets(d, "retrying", drain[d].done)
    /\ UNCHANGED <<serverVars, session, owner, ui, request, retries, gaveUp, failures>>

\* removeFromOutbox of the accepted and the deduped ones.
RemoveDone(d) ==
    /\ drain[d].pc = "applying"
    /\ queued' = queued \ drain[d].done
    /\ Sets(d, "retrying", drain[d].done)
    /\ UNCHANGED <<serverVars, session, owner, ui, request, retries, gaveUp, failures>>

\* Regression: the entry is put back as it was read.
NextRetrySame(d, k) == drain[d].seen[k]

\* Regression: counts two retries for one.
NextRetryTwice(d, k) == drain[d].seen[k] + 2

NextRetry(d, k) == drain[d].seen[k] + 1

\* handleRetry of every failed entry: the copy that was read is put back with
\* one retry more, also when another drain has removed the entry since.
Retry(d) ==
    LET over == {k \in drain[d].failed : NextRetry(d, k) >= MaxRetries}
        back == drain[d].failed \ over
    IN  /\ drain[d].pc = "retrying"
        /\ queued'   = (queued \ over) \cup back
        /\ retries'  = [k \in Keys |-> IF k \in back THEN NextRetry(d, k) ELSE retries[k]]
        /\ gaveUp'   = gaveUp \cup over
        /\ failures' = [k \in Keys |-> IF k \in drain[d].failed /\ failures[k] < MaxRetries
                                       THEN failures[k] + 1 ELSE failures[k]]
        /\ drain' = [drain EXCEPT ![d] = Idle]
        /\ UNCHANGED <<serverVars, session, owner, ui, request>>

\* The browser stops the worker, and every drain with it.
StopWorker ==
    /\ \E d \in Drains : drain[d].pc # "off"
    /\ drain' = [d \in Drains |-> Idle]
    /\ UNCHANGED <<serverVars, session, owner, ui, request, queued, retries, gaveUp, failures>>

DrainStep(d) == FetchFails(d) \/ ServeReplay(d) \/ RemoveDone(d) \/ Retry(d)

Next ==
    \/ ChangeSession
    \/ \E k \in Keys : ConfirmUpload(k) \/ ServeUpload(k) \/ ReplyArrives(k) \/ NetworkError(k)
    \/ \E d \in Drains : StartDrain(d) \/ DrainStep(d)
    \/ StopWorker
    \/ (PruneExpired \/ Midnight) /\ UNCHANGED browserVars

Spec == Init /\ [][Next]_vars

\* A drain that runs goes on: a fetch ends, at the latest with a network
\* error.  Nothing starts a drain by itself.
FairSpec == Spec /\ \A d \in Drains : WF_vars(DrainStep(d))
-----------------------------------------------------------------------------
(* Properties.                                                             *)

Drain == [pc : {"off", "sent", "applying", "retrying"}, user : Users \cup {NoUser},
          seen : [Keys -> 0..MaxRetries - 1], done : SUBSET Keys, failed : SUBSET Keys]

\* Types of every variable; an entry in the outbox has a retry left.
OutboxTypeOK ==
    /\ ServerTypeOK
    /\ session \in Users \cup {NoUser}
    /\ owner \in [Keys -> Users \cup {NoUser}]
    /\ ui \in [Keys -> {"new", "waiting", "saved", "uploaded", "error"}]
    /\ request \in [Keys -> {"none", "sent", "ok", "refused"}]
    /\ queued \subseteq Keys
    /\ retries \in [Keys -> 0..MaxRetries - 1]
    /\ drain \in [Drains -> Drain]
    /\ gaveUp \subseteq Keys
    /\ failures \in [Keys -> 0..MaxRetries]

\* An upload the page showed as "Saved for sync" is in the outbox, is a
\* document, or was given up: neither overlapping drains, a worker stopped
\* between two of its steps, another user's session nor a lost answer makes it
\* disappear.
SavedAccounted ==
    \A k \in Keys : ui[k] = "saved" => k \in queued \/ docs[k] # <<>> \/ k \in gaveUp

\* An entry is given up only after MaxRetries replays of it have failed, also
\* when drains overlap and write their counts over each other's.
GivenUpAfterRetries == \A k \in gaveUp : failures[k] = MaxRetries

\* Entries wait until somebody clicks the indicator.
DrainsKeepStarting == []<>(queued = {} \/ \E d \in Drains : drain[d].pc # "off")

\* When drains are started as long as there are entries, and the browser lets
\* the worker run, every entry leaves the outbox, one that a late drain put
\* back included: overlapping drains do not undo each other's work for ever.
EventuallyDrained ==
    (DrainsKeepStarting /\ <>[][~StopWorker]_vars) =>
        \A k \in Keys : [](k \in queued => <>(k \notin queued))

-----------------------------------------------------------------------------

(* Statements of the documentation that the code does not keep: README,    *)
(* section 14.                                                             *)

\* AC-2 of the contract: "the Service Worker replays the exact request
\* payload": the document of a replayed entry has the content of the upload.
ReplaysPayload == \A k \in Keys : \A n \in DOMAIN docs[k] : docs[k][n].body = "form"

\* AC-2 of the contract: an entry is sent once the browser is online again,
\* whether or not anybody clicks.
DrainedUnasked ==
    <>[][~StopWorker]_vars => \A k \in Keys : [](k \in queued => <>(k \notin queued))
=============================================================================
