--------------------------- MODULE IdempotencyKeys ---------------------------
(***************************************************************************)
(* services/idempotency.js and what POST /spa/api/documents and            *)
(* POST /spa/api/sync/replay do with it.  From the lookup of a key to the  *)
(* row that stores it neither handler awaits, so an entry is one step; the *)
(* documents row and the key row are two statements, and the second may    *)
(* throw after the first.                                                  *)
(*                                                                         *)
(* Time is counted in days.  expires_at is written as an ISO string, with  *)
(* a T between date and time, and compared as a string with                *)
(* CURRENT_TIMESTAMP, which has a space there: within one date the first   *)
(* is the greater one whatever the hour, so a row made on one day is live  *)
(* to the end of the next.                                                 *)
(***************************************************************************)
EXTENDS Naturals, Sequences, FiniteSets

CONSTANTS
    Users,
    Keys,      \* Idempotency-Key of each upload, in the order of the entry ids
    LastDay,   \* bound on the clock
    MaxDocs    \* bound on the documents of one key

VARIABLES
    idem,      \* idempotency_keys per user and key
    docs,      \* documents made for each key, in order
    day

serverVars == <<idem, docs, day>>

ASSUME KeysAssumption == Keys \subseteq Nat
ASSUME BoundsAssumption == LastDay \in Nat /\ MaxDocs \in Nat

\* What request_hash digests: the fields of the form, or the payload of a
\* replayed entry.
Bodies == {"form", "none"}

NoRow == [hash |-> "", expires |-> 0]

\* Regression: a row is dead from its last day on.
LiveShort(u, k) == idem[u][k] # NoRow /\ idem[u][k].expires > day

Live(u, k) == idem[u][k] # NoRow /\ idem[u][k].expires >= day

\* getIdempotency and the branches after it; either INSERT may throw.
Results(u, k, body) ==
    IF ~Live(u, k)
    THEN {"insert_failed"} \cup
         (IF Len(docs[k]) < MaxDocs THEN {"accepted", "store_failed"} ELSE {})
    ELSE IF idem[u][k].hash = body THEN {"deduped"} ELSE {"conflict"}

\* storeIdempotency, INSERT OR IGNORE: a row that expired and was not pruned
\* yet stays, and the new document goes unrecorded.
Recorded(u, k, body) ==
    IF idem[u][k] = NoRow THEN [hash |-> body, expires |-> day + 1] ELSE idem[u][k]

NewDoc(u, k, body, result) ==
    [by |-> u, body |-> body, day |-> day,
     key |-> IF result = "store_failed" THEN "failed"
             ELSE IF idem[u][k] = NoRow THEN "stored" ELSE "ignored"]

\* The entries of batch, each with its own key, for user u.
Serve(u, batch, body, res) ==
    /\ \A k \in batch : res[k] \in Results(u, k, body)
    /\ docs' = [k \in Keys |->
                  IF k \in batch /\ res[k] \in {"accepted", "store_failed"}
                  THEN Append(docs[k], NewDoc(u, k, body, res[k])) ELSE docs[k]]
    /\ idem' = [v \in Users |-> [k \in Keys |->
                  IF v = u /\ k \in batch /\ res[k] = "accepted"
                  THEN Recorded(u, k, body) ELSE idem[v][k]]]
    /\ UNCHANGED day

\* pruneExpired, on boot and every hour.
PruneExpired ==
    /\ idem' = [u \in Users |-> [k \in Keys |->
                  IF idem[u][k].expires < day THEN NoRow ELSE idem[u][k]]]
    /\ UNCHANGED <<docs, day>>

Midnight ==
    /\ day < LastDay
    /\ day' = day + 1
    /\ UNCHANGED <<idem, docs>>

ServerInit ==
    /\ idem = [u \in Users |-> [k \in Keys |-> NoRow]]
    /\ docs = [k \in Keys |-> <<>>]
    /\ day = 0

Row == [hash : Bodies, expires : 0..LastDay + 1]
Doc == [by : Users, body : Bodies, day : 0..LastDay, key : {"stored", "failed", "ignored"}]

ServerTypeOK ==
    /\ idem \in [Users -> [Keys -> Row \cup {NoRow}]]
    /\ docs \in [Keys -> Seq(Doc)]
    /\ day \in 0..LastDay

\* Two documents made for one key by one user, when the key of the first was
\* stored, are more than a day apart, however uploads and replays overlap and
\* wherever the rows were pruned: only a store that failed or was ignored lets
\* a retry through within the 24 hours of a key.
OncePerDay ==
    \A k \in Keys : \A i, j \in DOMAIN docs[k] :
        (i < j /\ docs[k][i].by = docs[k][j].by /\ docs[k][i].key = "stored")
            => docs[k][j].day > docs[k][i].day + 1
=============================================================================
