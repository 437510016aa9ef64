---------------------------- MODULE IndexingLocks ----------------------------
(***************************************************************************)
(* The claims of the indexing station (indexing.js, indexing-sweeper.js).  *)
(* Each handler is synchronous and one step; other routes write the same   *)
(* columns without a look at the locks. Tabs of one user, closed tabs,     *)
(* late beacons and the older list of documents, which never claims, make  *)
(* that a claim, a release or a save of any user may arrive at any time    *)
(* (IndexingPage.tsx). A row of indexing_locks has the seconds left until  *)
(* its expires_at instead of the time: below 0 it is expired to a claim    *)
(* and to the sweeper (expires_at < now), above 0 it is active to a save   *)
(* (expires_at > now), and at 0 it is neither.                             *)
(***************************************************************************)
EXTENDS Integers, FiniteSets

CONSTANTS Users, Docs,
          NoUser,
          MaxTTL     \* the settings claim_lock_ttl_minutes may have

ASSUME LocksAssumption ==
    /\ NoUser \notin Users
    /\ MaxTTL \in Nat \ {0}

VARIABLES lock,      \* indexing_locks: the holder of a document and the seconds left
          promised,  \* history: the seconds an answered claim still has, by user
          written    \* history: who wrote to which documents in the last step, and how

indexingVars == <<lock, promised, written>>

NotWritten == [by |-> NoUser, way |-> "none"]
Nothing == [d \in Docs |-> NotWritten]
Writing(u, S, way) == [d \in Docs |-> IF d \in S THEN [by |-> u, way |-> way] ELSE NotWritten]

NoLock == [by |-> NoUser, left |-> -1]

IndexingInit ==
    /\ lock = [d \in Docs |-> NoLock]
    /\ promised = [u \in Users |-> [d \in Docs |-> 0]]
    /\ written = Nothing

Expired(d) == lock[d].left < 0
Active(d) == lock[d].left > 0

\* Regression: the claimer's own row gets a new expiry.
WinnerRenewed(u, d, ttl) ==
    IF Expired(d) \/ lock[d].by = u THEN [by |-> u, left |-> ttl] ELSE lock[d]

\* The row that a claim reads back: a row that is there stays, also the
\* claimer's own, whose time is not renewed.
Winner(u, d, ttl) == IF Expired(d) THEN [by |-> u, left |-> ttl] ELSE lock[d]

\* Is answered 409 when the row is another's.
Claim(u, d, ttl) ==
    LET row == Winner(u, d, ttl) IN
    /\ lock' = [lock EXCEPT ![d] = row]
    /\ promised' = IF row.by = u THEN [promised EXCEPT ![u][d] = row.left] ELSE promised
    /\ written' = Nothing

\* Regression: the release asks for the document only.
ReleaseAny(u, d) ==
    /\ lock' = [lock EXCEPT ![d] = NoLock]
    /\ promised' = [promised EXCEPT ![u][d] = 0]
    /\ written' = Nothing

Release(u, d) ==
    /\ lock' = IF lock[d].by = u THEN [lock EXCEPT ![d] = NoLock] ELSE lock
    /\ promised' = [promised EXCEPT ![u][d] = 0]
    /\ written' = Nothing

\* Regression: the lock is active in its last second only to the sweeper.
MaySaveEarly(u, d) == lock[d].left > 1 => lock[d].by = u

MaySave(u, d) == Active(d) => lock[d].by = u

\* A document nobody holds may be written by anyone.
Save(u, d) == /\ written' = IF MaySave(u, d) THEN Writing(u, {d}, "station") ELSE Nothing
              /\ UNCHANGED <<lock, promised>>

\* The older form writes the same columns of a document, an import those of the
\* documents of its customers, an analysis the empty ones: none reads a lock.
WriteUnasked(u, S) == /\ written' = Writing(u, S, "other")
                      /\ UNCHANGED <<lock, promised>>

Sweep == /\ \E d \in Docs : Expired(d) /\ lock[d] # NoLock
         /\ lock' = [d \in Docs |-> IF Expired(d) THEN NoLock ELSE lock[d]]
         /\ UNCHANGED promised /\ written' = Nothing

Earlier(n, floor) == IF n > floor THEN n - 1 ELSE n

Second == /\ lock' = [d \in Docs |-> [lock[d] EXCEPT !.left = Earlier(@, -1)]]
          /\ promised' = [u \in Users |-> [d \in Docs |-> Earlier(promised[u][d], 0)]]
          /\ written' = Nothing

IndexingNext ==
    \/ \E u \in Users, d \in Docs :
          \/ \E ttl \in 1 .. MaxTTL : Claim(u, d, ttl)
          \/ Release(u, d) \/ Save(u, d)
    \/ \E u \in Users, S \in SUBSET Docs \ {{}} : WriteUnasked(u, S)
    \/ Sweep \/ Second

IndexingSpec == IndexingInit /\ [][IndexingNext]_indexingVars

\* Time passes, and setInterval keeps the sweeper going.
FairSpec == IndexingSpec /\ WF_indexingVars(Second) /\ WF_indexingVars(Sweep)

-----------------------------------------------------------------------------
LocksTypeOK ==
    /\ lock \in [Docs -> [by : Users \cup {NoUser}, left : -1 .. MaxTTL]]
    /\ promised \in [Users -> [Docs -> 0 .. MaxTTL]]
    /\ written \in [Docs -> [by : Users \cup {NoUser}, way : {"none", "station", "other"}]]

\* What a claim was answered stays true until it runs out or is released: the
\* row is the user's, with the time that the answer gave it.
PromiseKept ==
    \A u \in Users, d \in Docs :
        promised[u][d] > 0 => lock[d] = [by |-> u, left |-> promised[u][d]]

ForeignWrite(d) == \E u \in Users \ {written'[d].by} : promised[u][d] > 0

\* No save of the station lands on a document that is promised to another
\* user: the check of PATCH /indexing/:id covers every answered claim.
NoForeignSave ==
    [][\A d \in Docs : written'[d].way = "station" => ~ForeignWrite(d)]_indexingVars

\* Whoever vanished with it, a document can be claimed again and again, and
\* an expired row does not stay.
EveryLockEnds ==
    \A d \in Docs : /\ []<>Expired(d)
                    /\ (Expired(d) /\ lock[d] # NoLock) ~> (~Expired(d) \/ lock[d] = NoLock)

-----------------------------------------------------------------------------
(* A statement of the comments that the code does not keep: README,        *)
(* section 14.                                                             *)

\* Only the holder of a live lock writes to its document, by whatever route.
NoForeignWrite ==
    [][\A d \in Docs : written'[d] # NotWritten => ~ForeignWrite(d)]_indexingVars
=============================================================================
