----------------------------- MODULE AuditChain -----------------------------
(***************************************************************************)
(* The hash chain of audit_log (routes/spa-api/audit.js, db/index.js).     *)
(* writeAuditRow hashes the row it inserts, dozens of other places insert  *)
(* rows without a hash, and each start of the process hashes what has      *)
(* none.  Node is one thread: each of them is one step.                    *)
(*                                                                         *)
(* A hash stands for what went into it: the sequence of the rows' digests, *)
(* the empty one for null.  A digest names the row, and says whether it    *)
(* had the key policy_decision.                                            *)
(***************************************************************************)
EXTENDS Naturals, Sequences, FiniteSets

CONSTANTS Tenants,
          MaxRows,   \* bound: rows of the log
          MaxStarts  \* bound: starts of the process

ASSUME ChainAssumption == MaxRows \in Nat /\ MaxStarts \in Nat

VARIABLES log,    \* audit_log, in the order of the ids
          starts

auditVars == <<log, starts>>

Digest == [id : Nat, policy : BOOLEAN]
Hash == Seq(Digest)

AuditInit == log = <<>> /\ starts = 0

Ids == 1 .. Len(log)
Hashed == {i \in Ids : log[i].hash # <<>>}

\* The hash of the last of some rows, the empty one if there are none.
HashOfLast(S) == IF S = {} THEN <<>> ELSE log[CHOOSE i \in S : \A j \in S : j <= i].hash

\* Regression: the first row with a hash.
FirstHash == HashOfLast({i \in Hashed : \A j \in Hashed : i <= j})

\* The hash of the last row that has one, of any tenant.
LastHash == HashOfLast(Hashed)

\* live: hashed by writeAuditRow; epoch: the starts there had been (a history).
WriteAuditRow(t) ==
    LET id == Len(log) + 1 IN
    /\ id <= MaxRows
    /\ log' = Append(log, [tenant |-> t, live |-> TRUE, epoch |-> starts, prev |-> LastHash,
                           hash |-> Append(LastHash, [id |-> id, policy |-> TRUE])])
    /\ UNCHANGED starts

InsertAuditLog(t) ==
    /\ Len(log) < MaxRows
    /\ log' = Append(log, [tenant |-> t, live |-> FALSE, epoch |-> starts, prev |-> <<>>,
                           hash |-> <<>>])
    /\ UNCHANGED starts

\* Regression: the digest that writeAuditRow makes.
WalkedPolicy(n) == [i \in 1 .. n |-> [id |-> i, policy |-> TRUE]]

\* The loop of the walk in closed form: prev is what it computed for the row
\* before, whether or not that row kept a hash of its own.
Walked(n) == [i \in 1 .. n |-> [id |-> i, policy |-> FALSE]]

\* Regression: the hash is written whether there is one or not.
BackfilledAll(i) == [log[i] EXCEPT !.prev = Walked(i - 1), !.hash = Walked(i)]

\* Regression: the walk goes on from the last stored hash.
BackfilledLinked(i) ==
    IF i \in Hashed THEN log[i]
    ELSE [log[i] EXCEPT !.prev = LastHash, !.hash = Append(LastHash, [id |-> i, policy |-> FALSE])]

Backfilled(i) == IF i \in Hashed THEN log[i]
                 ELSE [log[i] EXCEPT !.prev = Walked(i - 1), !.hash = Walked(i)]

Start == /\ starts < MaxStarts
         /\ starts' = starts + 1
         /\ log' = [i \in Ids |-> Backfilled(i)]

-----------------------------------------------------------------------------
(* The verifiers: the hashed rows of a tenant, from the first or the last  *)
(* n, against a digest without the policy decision.                        *)

HashedOf(t) == {i \in Hashed : log[i].tenant = t}

Recent(t, n) == {i \in HashedOf(t) : Cardinality({j \in HashedOf(t) : i < j}) < n}

Before(i, S) == {j \in S : j < i}

Matches(i, prev) == log[i].hash = Append(prev, [id |-> i, policy |-> FALSE])

ChainVerified(t) == \A i \in HashedOf(t) :
    LET prev == HashOfLast(Before(i, HashedOf(t)))
    IN  log[i].prev = prev /\ Matches(i, prev)

\* The first of the rows is taken at its word.
RecentVerified(t, n) == \A i \in Recent(t, n) :
    LET before == Before(i, Recent(t, n))
    IN  Matches(i, IF before = {} THEN log[i].prev ELSE HashOfLast(before))

AuditNext == (\E t \in Tenants : WriteAuditRow(t) \/ InsertAuditLog(t)) \/ Start

AuditSpec == AuditInit /\ [][AuditNext]_auditVars

-----------------------------------------------------------------------------
Row == [tenant : Tenants, live : BOOLEAN, epoch : 0 .. MaxStarts, prev : Hash, hash : Hash]

AuditTypeOK ==
    /\ starts \in 0 .. MaxStarts
    /\ Len(log) <= MaxRows
    /\ \A i \in Ids : /\ log[i].tenant \in Tenants /\ log[i].epoch \in 0 .. MaxStarts
                      /\ \A k \in 1 .. Len(log[i].hash) : log[i].hash[k].id \in 1 .. i

\* A row that has a hash keeps it, and everything the hash was made of.  The
\* server's own routes write here; the endpoints for tests, which alter a row
\* outside production, do not (audit.js, from line 673).
HashedFrozen ==
    [][\A i \in Hashed : i <= Len(log') /\ log'[i] = log[i]]_auditVars

\* The rows hashed between two starts link to each other in their order: what
\* one of them covers, its own digest first of all, the later ones cover too.
LiveRowsChain ==
    \A i, j \in Ids :
        (i < j /\ log[i].live /\ log[j].live /\ log[i].epoch = log[j].epoch) =>
            /\ Len(log[i].hash) < Len(log[j].hash)
            /\ SubSeq(log[j].prev, 1, Len(log[i].hash)) = log[i].hash

\* A log of one tenant that was only ever hashed at starts verifies, however
\* many starts hashed it, whole and from any row on.
BackfillVerifies ==
    \A t \in Tenants :
        (\A i \in Ids : ~log[i].live /\ log[i].tenant = t) =>
            ChainVerified(t) /\ \A n \in 1 .. MaxRows : RecentVerified(t, n)

-----------------------------------------------------------------------------
(* Statements of the documentation that the code does not keep: README,    *)
(* section 14.                                                             *)

\* Nobody alters a row in this model: the chain of every tenant verifies.
UntouchedVerifies == \A t \in Tenants : ChainVerified(t)
=============================================================================
