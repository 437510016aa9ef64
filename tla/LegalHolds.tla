----------------------------- MODULE LegalHolds -----------------------------
(***************************************************************************)
(* The legal holds of the Python service, the documents they are placed    *)
(* on, and the threads that dispose of documents (RetentionEngine,         *)
(* SubjectRequests).                                                       *)
(*                                                                         *)
(* Every request runs in a thread with a database session of its own, and  *)
(* so does the scheduler.  Sessions do not flush before a commit: a thread *)
(* reads committed state, several times perhaps, and writes all at once,   *)
(* later.  An action of a thread is one such read or one commit, and holds *)
(* are placed and released in between.                                     *)
(***************************************************************************)
EXTENDS Naturals, FiniteSets

CONSTANTS Docs,        \* document ids
          Court,       \* the case reference of a hold placed by hand
          Requests,    \* data-subject requests, the other case references
          Threads,
          NoInfo,
          MaxHolds,    \* bound: active holds of one document and one case
          MaxCrashes   \* bound: restarts of the process

ASSUME HoldsAssumption ==
    /\ Docs \subseteq Nat /\ IsFiniteSet(Docs) /\ IsFiniteSet(Threads)
    /\ Court \notin Requests
    /\ MaxHolds \in Nat /\ MaxCrashes \in Nat

VARIABLES docs,    \* the documents table: a row or NoRow
          holds,   \* [Docs -> [case -> number of active holds]]
          job,     \* what each thread is doing
          crashes

holdVars == <<docs, holds, job, crashes>>

Cases == Requests \cup {Court}

\* named: the file name is not empty; owned: customer_cid is the customer's.
NoRow == [status |-> "none", named |-> FALSE, owned |-> FALSE]
Row == [status : {"captured", "purged", "archived", "erased"},
        named : BOOLEAN, owned : BOOLEAN]

Idle == [at |-> "idle", todo |-> {}, marked |-> {}, info |-> NoInfo, held |-> {}]

Present == {d \in Docs : docs[d] # NoRow}
Owned == {d \in Present : docs[d].owned}

\* The documents has_active_hold is true of, when the holds are h.
HeldIn(h) == {d \in Docs : \E c \in Cases : h[d][c] > 0}
Held == HeldIn(holds)

HoldsInit == /\ docs = [d \in Docs |-> [status |-> "captured", named |-> TRUE, owned |-> TRUE]]
             /\ holds = [d \in Docs |-> [c \in Cases |-> 0]]
             /\ job = [t \in Threads |-> Idle]
             /\ crashes = 0

-----------------------------------------------------------------------------
(* The steps of a thread.  `held' is a history variable: the documents     *)
(* that have been under some hold without a break since its job began.     *)

Begin(t, j) == /\ job[t].at = "idle"
               /\ job' = [job EXCEPT ![t] = [j EXCEPT !.held = Held]]

GoTo(t, j) == job' = [job EXCEPT ![t] = j]

End(t) == job' = [job EXCEPT ![t] = Idle]

\* The rows that are written back, or none of them: an UPDATE that finds one
\* of its rows gone rolls the transaction back.
WriteBack(updated, new) ==
    docs' = IF updated \subseteq Present THEN new ELSE docs

SetHolds(h) == /\ holds' = h
               /\ job' = [t \in Threads |-> [job[t] EXCEPT !.held = @ \cap HeldIn(h)]]

-----------------------------------------------------------------------------
\* Nothing asks whether the document exists, or is held already.
PlaceHold(d) == /\ holds[d][Court] < MaxHolds
                /\ SetHolds([holds EXCEPT ![d][Court] = @ + 1])
                /\ UNCHANGED <<docs, crashes>>

ReleaseHold(d, c) == /\ holds[d][c] > 0
                     /\ SetHolds([holds EXCEPT ![d][c] = @ - 1])
                     /\ UNCHANGED <<docs, crashes>>

\* An administrator deletes the row, held or not.
DeleteDocument(d) == /\ d \in Present
                     /\ docs' = [docs EXCEPT ![d] = NoRow]
                     /\ UNCHANGED <<holds, job, crashes>>

\* The process ends; what was not committed is gone.
Crash == /\ crashes < MaxCrashes
         /\ crashes' = crashes + 1
         /\ job' = [t \in Threads |-> Idle]
         /\ UNCHANGED <<docs, holds>>

HoldsNext == \/ \E d \in Docs : PlaceHold(d) \/ DeleteDocument(d)
             \/ \E d \in Docs, c \in Cases : ReleaseHold(d, c)
             \/ Crash

-----------------------------------------------------------------------------
JobOf(places, infos) ==
    [at : places \cup {"idle"}, todo : SUBSET Docs, marked : SUBSET Docs,
     info : infos \cup {NoInfo}, held : SUBSET Docs]

HoldsTypeOK(places, infos) ==
    /\ docs \in [Docs -> Row \cup {NoRow}]
    /\ holds \in [Docs -> [Cases -> Nat]]
    /\ job \in [Threads -> JobOf(places, infos)]
    /\ crashes \in Nat

\* What a step of t may not do: touch the row of a document that has been
\* under a hold since the job of t began.
SparesRows(t) ==
    job'[t] # job[t] => \A d \in job[t].held \cap Present : docs'[d] = docs[d]
=============================================================================
