--------------------------- MODULE NodeServiceProofs ---------------------------
(***************************************************************************)
(* Two components of the Node server, for every value of their constants.  *)
(*                                                                         *)
(* The audit chain, for every set of tenants, any number of rows and of    *)
(* starts: a row that has a hash is never rewritten, the rows hashed       *)
(* between two starts link to each other, and rows hashed at starts        *)
(* verify, as long as nothing else hashes rows of their tenant.            *)
(*                                                                         *)
(* Indexing claims, for every set of users and documents and every TTL:    *)
(* what a claim was answered stays true until it runs out or is released,  *)
(* and no save of the station lands on what is promised to somebody else.  *)
(***************************************************************************)
EXTENDS AuditChain, IndexingLocks, SequenceTheorems, FiniteSetTheorems, TLAPS

-----------------------------------------------------------------------------
(* THE AUDIT CHAIN.                                                        *)

\* s starts with p.
Extends(s, p) == Len(p) <= Len(s) /\ \A k \in 1 .. Len(p) : s[k] = p[k]

\* Row r, with id i.
RowInv(r, i) ==
    /\ \A k \in 1 .. Len(r.hash) : r.hash[k].id \in 1 .. i
    /\ r.epoch <= starts
    /\ r.live => \E d \in Digest : r.hash = Append(r.prev, d)
    /\ ~r.live /\ r.hash # <<>> =>
           r.hash = Walked(i) /\ r.prev = Walked(i - 1) /\ r.epoch < starts

\* No row is older than one before it, what a live row continues starts with
\* the hash of every live row since the last start, and a start leaves no row
\* before the ones it hashes without a hash.
PairInv(r, s) ==
    /\ r.epoch <= s.epoch
    /\ r.live /\ s.live /\ r.epoch = s.epoch => Extends(s.prev, r.hash)
    /\ ~s.live /\ s.hash # <<>> => r.hash # <<>>

Last(i) == i \in Hashed /\ \A j \in Hashed : j <= i

ChainInv ==
    /\ log \in Seq(Row) /\ Len(log) <= MaxRows
    /\ starts \in 0 .. MaxStarts
    /\ \A i \in Ids : RowInv(log[i], i)
    /\ \A i, j \in Ids : i < j => PairInv(log[i], log[j])
    /\ Hashed = {} \/ \E i \in Ids : Last(i)

LEMMA ChainInit == AuditInit => ChainInv
<1> SUFFICES ASSUME AuditInit PROVE ChainInv
  OBVIOUS
<1>1. log = <<>> /\ starts = 0 /\ log \in Seq(Row) /\ Len(log) = 0
  BY DEF AuditInit
<1>2. Ids = {}
  BY <1>1 DEF Ids
<1>3. Hashed = {}
  BY <1>2 DEF Hashed
<1>4. Len(log) <= MaxRows /\ starts \in 0 .. MaxStarts
  BY <1>1, ChainAssumption
<1> QED BY <1>1, <1>2, <1>3, <1>4 DEF ChainInv

\* What a sequence of digests is after one more.
LEMMA OneMore ==
    ASSUME NEW p \in Hash, NEW d \in Digest
    PROVE  /\ Append(p, d) \in Hash /\ Append(p, d) # <<>>
           /\ Len(Append(p, d)) = Len(p) + 1
           /\ Append(p, d)[Len(p) + 1] = d
           /\ \A k \in 1 .. Len(p) : Append(p, d)[k] = p[k]
BY DEF Hash

LEMMA WalkedHash ==
    ASSUME NEW n \in Nat
    PROVE  /\ Walked(n) \in Hash /\ Len(Walked(n)) = n
           /\ \A k \in 1 .. n : Walked(n)[k].id = k
BY DEF Walked, Hash, Digest

\* The last hash is null, or that of the last row that has one.
LEMMA LastHashIs ==
    ASSUME ChainInv
    PROVE  \/ Hashed = {} /\ LastHash = <<>>
           \/ \E i \in Ids : Last(i) /\ LastHash = log[i].hash
<1>1. CASE Hashed = {}
  BY <1>1 DEF LastHash, HashOfLast
<1>2. CASE Hashed # {}
  <2>1. PICK i \in Ids : Last(i)
    BY <1>2 DEF ChainInv
  <2>2. PICK c : c = CHOOSE x \in Hashed : \A j \in Hashed : j <= x
    OBVIOUS
  <2>3. c \in Hashed /\ \A j \in Hashed : j <= c
    BY <2>1, <2>2 DEF Last
  <2>4. LastHash = log[c].hash
    BY <1>2, <2>2 DEF LastHash, HashOfLast
  <2> QED BY <2>3, <2>4 DEF Last, Hashed
<1> QED BY <1>1, <1>2

-----------------------------------------------------------------------------
(* A row is added.                                                         *)

\* One more row r, that keeps what is said of the last.
LEMMA RowAdded ==
    ASSUME ChainInv, NEW r \in Row, Len(log) < MaxRows, UNCHANGED starts,
           log' = Append(log, r), r.epoch = starts,
           RowInv(r, Len(log) + 1),
           \A i \in Ids : PairInv(log[i], r)
    PROVE  ChainInv'
<1>1. PICK N \in Nat : N = Len(log)
  BY DEF ChainInv
<1>2. log \in Seq(Row) /\ Ids = 1 .. N
  BY <1>1 DEF ChainInv, Ids
<1>3. /\ log' \in Seq(Row) /\ Len(log') = N + 1 /\ log'[N + 1] = r
      /\ \A i \in 1 .. N : log'[i] = log[i]
  BY <1>1, <1>2, AppendProperties
<1>4. Ids' = 1 .. N + 1
  BY <1>3 DEF Ids
<1>5. \A i \in Ids' :
         \/ i \in Ids /\ log'[i] = log[i]
         \/ i = N + 1 /\ log'[i] = r
  BY <1>2, <1>3, <1>4
<1>6. \A i \in Ids' : RowInv(log'[i], i)
  BY <1>1, <1>5 DEF ChainInv
<1>7. \A i, j \in Ids' : i < j => PairInv(log'[i], log'[j])
  <2> SUFFICES ASSUME NEW i \in Ids', NEW j \in Ids', i < j
               PROVE  PairInv(log'[i], log'[j])
    OBVIOUS
  <2>1. i \in Ids /\ log'[i] = log[i]
    <3>1. i \in 1 .. N
      BY <1>4
    <3> QED BY <1>2, <1>3, <3>1
  <2>2. CASE j \in Ids /\ log'[j] = log[j]
    BY <2>1, <2>2 DEF ChainInv
  <2>3. CASE log'[j] = r
    BY <2>1, <2>3
  <2> QED BY <1>5, <2>2, <2>3
<1>8. Hashed' = {} \/ \E i \in Ids' : Last(i)'
  <2>1. CASE r.hash # <<>>
    <3>1. N + 1 \in Hashed'
      BY <1>3, <1>4, <2>1 DEF Hashed
    <3>2. \A j \in Hashed' : j <= N + 1
      BY <1>4 DEF Hashed
    <3>3. Last(N + 1)'
      BY <3>1, <3>2 DEF Last
    <3> QED BY <1>4, <3>3
  <2>2. CASE r.hash = <<>>
    <3>1. Hashed' = Hashed
      BY <1>2, <1>3, <1>4, <1>5, <2>2 DEF Hashed
    <3> QED BY <1>2, <1>4, <3>1 DEF ChainInv, Last
  <2> QED BY <2>1, <2>2
<1>9. starts' \in 0 .. MaxStarts /\ Len(log') <= MaxRows
  BY <1>1, <1>3, ChainAssumption DEF ChainInv
<1>10. (\A i \in Ids : RowInv(log[i], i))'
  BY <1>6 DEF RowInv
<1>11. (\A i, j \in Ids : i < j => PairInv(log[i], log[j]))'
  BY <1>7 DEF PairInv
<1> QED BY <1>3, <1>8, <1>9, <1>10, <1>11 DEF ChainInv

LEMMA InsertKeeps ==
    ASSUME ChainInv, NEW t \in Tenants, InsertAuditLog(t)
    PROVE  ChainInv'
<1>1. PICK r : r = [tenant |-> t, live |-> FALSE, epoch |-> starts, prev |-> <<>>, hash |-> <<>>]
  OBVIOUS
<1>2. r \in Row
  <2>1. <<>> \in Hash /\ starts \in 0 .. MaxStarts
    BY DEF Hash, ChainInv
  <2> QED BY <1>1, <2>1 DEF Row
<1>3. starts \in Nat /\ Len(log) \in Nat
  BY DEF ChainInv
<1>4. RowInv(r, Len(log) + 1)
  BY <1>1, <1>3 DEF RowInv
<1>5. \A i \in Ids : PairInv(log[i], r)
  BY <1>1 DEF PairInv, ChainInv, RowInv
<1> QED BY <1>1, <1>2, <1>4, <1>5, RowAdded DEF InsertAuditLog

\* The last hash continues that of every live row since the last start: a row
\* after it that has a hash is live itself.
LEMMA LastHashContinues ==
    ASSUME ChainInv, NEW i \in Ids, log[i].live, log[i].epoch = starts
    PROVE  Extends(LastHash, log[i].hash)
<1>1. log \in Seq(Row) /\ Ids = 1 .. Len(log) /\ log[i] \in Row
  BY DEF ChainInv, Ids
<1>2. PICK d \in Digest : log[i].hash = Append(log[i].prev, d)
  BY DEF ChainInv, RowInv
<1>3. log[i].prev \in Hash /\ log[i].hash \in Hash
  BY <1>1 DEF Row
<1>4. i \in Hashed
  BY <1>2, <1>3, OneMore DEF Hashed
<1>5. PICK l \in Ids : Last(l) /\ LastHash = log[l].hash
  BY <1>4, LastHashIs
<1>6. i <= l /\ log[l].hash # <<>> /\ log[l] \in Row
  BY <1>1, <1>4, <1>5 DEF Last, Hashed
<1>7. CASE i = l
  BY <1>3, <1>5, <1>7 DEF Extends, Hash
<1>8. CASE i < l
  <2>1. PairInv(log[i], log[l]) /\ RowInv(log[l], l)
    BY <1>8 DEF ChainInv
  <2>2. log[l].epoch = starts /\ starts \in Nat
    BY <1>1, <1>6, <2>1 DEF PairInv, RowInv, ChainInv, Row
  <2>3. log[l].live
    BY <1>6, <2>1, <2>2 DEF RowInv
  <2>4. PICK e \in Digest : log[l].hash = Append(log[l].prev, e)
    BY <2>1, <2>3 DEF RowInv
  <2>5. Extends(log[l].prev, log[i].hash)
    BY <2>1, <2>2, <2>3 DEF PairInv
  <2>6. PICK p \in Hash : p = log[l].prev
    BY <1>6 DEF Row
  <2>7. PICK q \in Hash : q = log[i].hash
    BY <1>3
  <2>8. Len(p) \in Nat /\ Len(q) \in Nat
    BY DEF Hash
  <2>9. Extends(Append(p, e), q)
    BY <2>5, <2>6, <2>7, <2>8, OneMore DEF Extends
  <2> QED BY <1>5, <2>4, <2>6, <2>7, <2>9
<1> QED BY <1>1, <1>6, <1>7, <1>8

LEMMA WriteKeeps ==
    ASSUME ChainInv, NEW t \in Tenants, WriteAuditRow(t)
    PROVE  ChainInv'
<1>1. PICK N \in Nat : N = Len(log)
  BY DEF ChainInv
<1>2. log \in Seq(Row) /\ Ids = 1 .. N /\ starts \in 0 .. MaxStarts /\ starts \in Nat
  BY <1>1 DEF ChainInv, Ids
<1>3. PICK h : h = LastHash
  OBVIOUS
<1>4. h \in Hash /\ \A k \in 1 .. Len(h) : h[k].id \in 1 .. N
  <2>1. CASE h = <<>>
    BY <2>1 DEF Hash
  <2>2. ASSUME NEW l \in Ids, h = log[l].hash
        PROVE  h \in Hash /\ \A k \in 1 .. Len(h) : h[k].id \in 1 .. N
    <3>0. RowInv(log[l], l)
      BY DEF ChainInv
    <3>1. log[l] \in Row /\ RowInv(log[l], l) /\ l \in 1 .. N
      BY <1>1, <1>2, <3>0
    <3>2. \A k \in 1 .. Len(h) : h[k].id \in 1 .. l
      BY <2>2, <3>1 DEF RowInv
    <3> QED BY <2>2, <3>1, <3>2 DEF Row
  <2> QED BY <1>3, <2>1, <2>2, LastHashIs
<1>5. PICK d \in Digest : d = [id |-> N + 1, policy |-> TRUE]
  <2>1. [id |-> N + 1, policy |-> TRUE] \in Digest
    BY DEF Digest
  <2> QED BY <2>1
<1>6. PICK r : r = [tenant |-> t, live |-> TRUE, epoch |-> starts, prev |-> h,
                    hash |-> Append(h, d)]
  OBVIOUS
<1>7. log' = Append(log, r) /\ N + 1 <= MaxRows /\ UNCHANGED starts
  BY <1>1, <1>3, <1>5, <1>6 DEF WriteAuditRow
<1>8. r \in Row
  BY <1>2, <1>4, <1>6, OneMore DEF Row
<1>9. RowInv(r, N + 1)
  <2>1. \A k \in 1 .. Len(h) + 1 : Append(h, d)[k].id \in 1 .. N + 1
    <3>1. ASSUME NEW k \in 1 .. Len(h)
          PROVE  Append(h, d)[k].id \in 1 .. N + 1
      BY <1>1, <1>4, <3>1, OneMore
    <3>2. Append(h, d)[Len(h) + 1].id = N + 1
      BY <1>4, <1>5, OneMore
    <3>3. Len(h) \in Nat
      BY <1>4 DEF Hash
    <3> QED BY <1>1, <3>1, <3>2, <3>3
  <2>2. Len(Append(h, d)) = Len(h) + 1
    BY <1>4, OneMore
  <2> QED BY <1>2, <1>6, <2>1, <2>2 DEF RowInv
<1>10. \A i \in Ids : PairInv(log[i], r)
  BY <1>2, <1>3, <1>6, LastHashContinues DEF PairInv, ChainInv, RowInv
<1>11. Len(log) < MaxRows
  BY <1>1, <1>7, ChainAssumption
<1> QED BY <1>1, <1>6, <1>7, <1>8, <1>9, <1>10, <1>11, RowAdded

-----------------------------------------------------------------------------
(* The process starts.                                                     *)

\* Rows that have a hash are left as they are, and those that had none are
\* hashed over all rows before them.
LEMMA Rehashed ==
    ASSUME ChainInv, NEW i \in Ids
    PROVE  /\ Backfilled(i) \in Row
           /\ Backfilled(i).live = log[i].live /\ Backfilled(i).epoch = log[i].epoch
           /\ Backfilled(i).hash # <<>>
           /\ log[i].live \/ log[i].hash # <<>> => Backfilled(i) = log[i]
           /\ log[i].hash = <<>> => /\ Backfilled(i).hash = Walked(i)
                                    /\ Backfilled(i).prev = Walked(i - 1)
<1>1. i \in Nat \ {0} /\ log[i] \in Row
  BY DEF ChainInv, Ids
<1>2. log[i].live => log[i].hash # <<>>
  <2> SUFFICES ASSUME log[i].live PROVE log[i].hash # <<>>
    OBVIOUS
  <2>1. PICK d \in Digest : log[i].hash = Append(log[i].prev, d)
    BY DEF ChainInv, RowInv
  <2>2. log[i].prev \in Hash
    BY <1>1 DEF Row
  <2> QED BY <2>1, <2>2, OneMore
<1>3. CASE i \in Hashed
  BY <1>1, <1>3 DEF Backfilled, Hashed
<1>4. CASE i \notin Hashed
  <2>1. log[i].hash = <<>>
    BY <1>4 DEF Hashed
  <2>2. Walked(i) \in Hash /\ Walked(i - 1) \in Hash /\ Walked(i) # <<>>
    <3>1. i - 1 \in Nat /\ i \in Nat /\ i # 0
      BY <1>1
    <3>2. Len(Walked(i)) = i
      BY <3>1, WalkedHash
    <3> QED BY <3>1, <3>2, WalkedHash
  <2>3. PICK p, h : p = Walked(i - 1) /\ h = Walked(i)
    OBVIOUS
  <2>4. Backfilled(i) = [log[i] EXCEPT !.prev = p, !.hash = h]
    BY <1>4, <2>3 DEF Backfilled
  <2>5. p \in Hash /\ h \in Hash /\ h # <<>>
    BY <2>2, <2>3
  <2>6. Backfilled(i) \in Row
    BY <1>1, <2>4, <2>5 DEF Row
  <2>7. /\ Backfilled(i).live = log[i].live /\ Backfilled(i).epoch = log[i].epoch
        /\ Backfilled(i).hash = h /\ Backfilled(i).prev = p
    BY <1>1, <2>4 DEF Row
  <2> QED BY <1>2, <2>1, <2>3, <2>5, <2>6, <2>7
<1> QED BY <1>3, <1>4

LEMMA StartKeeps ==
    ASSUME ChainInv, Start
    PROVE  ChainInv'
<1>1. PICK N \in Nat : N = Len(log)
  BY DEF ChainInv
<1>2. Ids = 1 .. N /\ log \in Seq(Row) /\ starts \in Nat /\ MaxStarts \in Nat
  BY <1>1, ChainAssumption DEF ChainInv, Ids
<1>3. log' = [i \in 1 .. N |-> Backfilled(i)]
  BY <1>2 DEF Start
<1>4. log' \in Seq(Row) /\ Len(log') = N
  <2>1. \A i \in 1 .. N : Backfilled(i) \in Row
    BY <1>2, Rehashed
  <2> QED BY <1>3, <2>1
<1>5. Ids' = Ids /\ \A i \in Ids : log'[i] = Backfilled(i)
  BY <1>2, <1>3, <1>4 DEF Ids
<1>6. starts' = starts + 1 /\ starts' \in 0 .. MaxStarts
  BY <1>2 DEF Start
<1>7. ASSUME NEW i \in Ids
      PROVE  RowInv(log[i], i)'
  <2>0. RowInv(log[i], i)
    BY DEF ChainInv
  <2>1. RowInv(log[i], i) /\ log[i] \in Row /\ i \in Nat
    BY <1>1, <1>2, <2>0
  <2>2. log[i].epoch \in Nat
    BY <2>1 DEF Row
  <2>3. CASE log[i].hash # <<>>
    <3>1. log'[i] = log[i]
      BY <1>5, <2>3, Rehashed
    <3> QED BY <1>2, <1>6, <2>1, <2>2, <3>1 DEF RowInv
  <2>4. CASE log[i].hash = <<>>
    <3>1. /\ log'[i].hash = Walked(i) /\ log'[i].prev = Walked(i - 1)
          /\ log'[i].epoch = log[i].epoch
      BY <1>5, <2>4, Rehashed
    <3>2. ~log'[i].live
      BY <1>5, <2>4, Rehashed
    <3>3. \A k \in 1 .. Len(log'[i].hash) : log'[i].hash[k].id \in 1 .. i
      BY <2>1, <3>1, WalkedHash
    <3> QED BY <1>2, <1>6, <2>1, <2>2, <3>1, <3>2, <3>3 DEF RowInv
  <2> QED BY <2>3, <2>4
<1>8. ASSUME NEW i \in Ids, NEW j \in Ids, i < j
      PROVE  PairInv(log[i], log[j])'
  <2>1. PairInv(log[i], log[j])
    BY <1>8 DEF ChainInv
  <2>2. /\ log'[i].live = log[i].live /\ log'[i].epoch = log[i].epoch
        /\ log'[j].live = log[j].live /\ log'[j].epoch = log[j].epoch
        /\ log[i].live => log'[i] = log[i]
        /\ log[j].live => log'[j] = log[j]
        /\ log'[i].hash # <<>>
    BY <1>5, Rehashed
  <2> QED BY <2>1, <2>2 DEF PairInv
<1>9. Hashed' = {} \/ \E i \in Ids' : Last(i)'
  <2>1. \A i \in Hashed' : i \in 1 .. N
    BY <1>2, <1>5 DEF Hashed
  <2>2. CASE N = 0
    BY <2>1, <2>2
  <2>3. CASE N # 0
    <3>1. N \in Ids
      BY <1>2, <2>3
    <3>2. N \in Hashed'
      BY <1>5, <3>1, Rehashed DEF Hashed
    <3>3. \A j \in Hashed' : j <= N
      BY <2>1
    <3> QED BY <1>5, <3>1, <3>2, <3>3 DEF Last
  <2> QED BY <2>2, <2>3
<1>10. Len(log') <= MaxRows
  BY <1>1, <1>4 DEF ChainInv
<1> QED BY <1>4, <1>5, <1>6, <1>7, <1>8, <1>9, <1>10 DEF ChainInv

LEMMA ChainNext == ASSUME ChainInv, [AuditNext]_auditVars PROVE ChainInv'
<1>1. CASE UNCHANGED auditVars
  BY <1>1 DEF auditVars, ChainInv, Ids, Hashed, Last, RowInv, PairInv
<1> QED BY <1>1, WriteKeeps, InsertKeeps, StartKeeps DEF AuditNext

\* What writeAuditRow, the other inserts and the walk of a start leave behind is
\* inductive: the invariant that the theorems about the chain rest on.
THEOREM ChainInvariant == AuditSpec => []ChainInv
BY ChainInit, ChainNext, PTL DEF AuditSpec

\* Types of the rows and the hashes: a hash is made of rows up to its own.
THEOREM AuditTypeCorrect == AuditSpec => []AuditTypeOK
<1>1. ChainInv => AuditTypeOK
  <2> SUFFICES ASSUME ChainInv PROVE AuditTypeOK
    OBVIOUS
  <2>1. \A i \in Ids : log[i] \in Row /\ RowInv(log[i], i)
    BY DEF ChainInv, Ids
  <2> QED BY <2>1 DEF AuditTypeOK, ChainInv, RowInv, Row
<1> QED BY <1>1, ChainInvariant, PTL

\* No step rewrites a row that has a hash, for any number of rows and starts.
THEOREM HashedRowsFrozen == AuditSpec => HashedFrozen
<1>1. ASSUME ChainInv, [AuditNext]_auditVars
      PROVE  [\A i \in Hashed : i <= Len(log') /\ log'[i] = log[i]]_auditVars
  <2>0. PICK N \in Nat : N = Len(log)
    BY <1>1 DEF ChainInv
  <2>1. log \in Seq(Row) /\ Ids = 1 .. N /\ Hashed \subseteq Ids
    BY <1>1, <2>0 DEF ChainInv, Ids, Hashed
  <2>2. ASSUME NEW r, log' = Append(log, r)
        PROVE  \A i \in Hashed : i <= Len(log') /\ log'[i] = log[i]
    <3>1. Len(log') = N + 1 /\ \A i \in 1 .. N : log'[i] = log[i]
      BY <2>0, <2>1, <2>2
    <3> QED BY <2>1, <3>1
  <2>3. CASE Start
    <3>1. log' = [i \in 1 .. N |-> Backfilled(i)]
      BY <2>1, <2>3 DEF Start
    <3>2. Len(log') = N
      BY <3>1
    <3>3. \A i \in Hashed : log'[i] = log[i]
      BY <2>1, <3>1 DEF Backfilled
    <3> QED BY <2>1, <3>2, <3>3
  <2> QED BY <1>1, <2>2, <2>3 DEF AuditNext, WriteAuditRow, InsertAuditLog
<1> QED BY <1>1, ChainInvariant, PTL DEF AuditSpec, HashedFrozen

\* Between two starts every row hashed by writeAuditRow covers those before
\* it, of whatever tenant, for any number of rows and starts.
THEOREM LiveRowsLinked == AuditSpec => []LiveRowsChain
<1>1. ASSUME ChainInv
      PROVE  LiveRowsChain
  <2> SUFFICES ASSUME NEW i \in Ids, NEW j \in Ids, i < j,
                      log[i].live, log[j].live, log[i].epoch = log[j].epoch
               PROVE  /\ Len(log[i].hash) < Len(log[j].hash)
                      /\ SubSeq(log[j].prev, 1, Len(log[i].hash)) = log[i].hash
    BY DEF LiveRowsChain
  <2>1. log[i] \in Row /\ log[j] \in Row
    BY <1>1 DEF ChainInv, Ids
  <2>2. PICK h \in Hash : h = log[i].hash
    BY <2>1 DEF Row
  <2>3. PICK p \in Hash : p = log[j].prev
    BY <2>1 DEF Row
  <2>4. Extends(p, h)
    BY <1>1, <2>2, <2>3 DEF ChainInv, PairInv
  <2>5. PICK d \in Digest : log[j].hash = Append(p, d)
    BY <1>1, <2>3 DEF ChainInv, RowInv
  <2>6. Len(h) \in Nat /\ Len(p) \in Nat /\ Len(Append(p, d)) = Len(p) + 1
    BY OneMore DEF Hash
  <2>7. Len(h) < Len(Append(p, d))
    BY <2>4, <2>6 DEF Extends
  <2>8. SubSeq(p, 1, Len(h)) = h
    BY <2>4, <2>6 DEF Extends, Hash
  <2> QED BY <2>2, <2>3, <2>5, <2>7, <2>8
<1> QED BY <1>1, ChainInvariant, PTL

-----------------------------------------------------------------------------
(* The verifiers.                                                          *)

LEMMA WalkedNext ==
    ASSUME NEW n \in Nat \ {0}
    PROVE  /\ Walked(n) = Append(Walked(n - 1), [id |-> n, policy |-> FALSE])
           /\ Walked(0) = <<>>
<1> DEFINE d == [id |-> n, policy |-> FALSE]
           longer == Append(Walked(n - 1), d)
<1>1. n - 1 \in Nat /\ n \in Nat /\ d \in Digest
  BY DEF Digest
<1>2. /\ Walked(n) \in Hash /\ Len(Walked(n)) = n
      /\ Walked(n - 1) \in Hash /\ Len(Walked(n - 1)) = n - 1
      /\ Walked(0) \in Hash /\ Len(Walked(0)) = 0
  BY <1>1, WalkedHash
<1>3. longer \in Hash /\ Len(longer) = n /\ longer[n] = d
      /\ \A k \in 1 .. n - 1 : longer[k] = Walked(n - 1)[k]
  BY <1>1, <1>2, OneMore
<1>4. \A k \in 1 .. n : longer[k] = Walked(n)[k]
  <2>1. \A k \in 1 .. n - 1 : Walked(n - 1)[k] = Walked(n)[k]
    BY <1>1 DEF Walked
  <2>2. Walked(n)[n] = d
    BY <1>1 DEF Walked
  <2> QED BY <1>1, <1>3, <2>1, <2>2
<1>5. longer = Walked(n)
  BY <1>1, <1>2, <1>3, <1>4, SeqEqual DEF Hash
<1>6. Walked(0) = <<>>
  BY <1>2, EmptySeq DEF Hash
<1> QED BY <1>5, <1>6

\* The last of some rows that reach up to n.
LEMMA HashOfLastIs ==
    ASSUME NEW S \in SUBSET Nat, NEW n \in S, \A j \in S : j <= n
    PROVE  HashOfLast(S) = log[n].hash
<1>1. PICK c : c = CHOOSE i \in S : \A j \in S : j <= i
  OBVIOUS
<1>2. c \in S /\ \A j \in S : j <= c
  BY <1>1
<1>3. c = n
  BY <1>2
<1> QED BY <1>1, <1>3 DEF HashOfLast

\* In a log that only starts have hashed, the rows that have a hash are the
\* first ones, each with what the walk computed.
LEMMA HashedFirst ==
    ASSUME ChainInv, NEW t \in Tenants, \A i \in Ids : ~log[i].live /\ log[i].tenant = t,
           NEW i \in HashedOf(t)
    PROVE  /\ i \in Nat \ {0} /\ log[i].hash = Walked(i) /\ log[i].prev = Walked(i - 1)
           /\ Matches(i, Walked(i - 1))
           /\ 1 .. i \subseteq HashedOf(t)
<1>1. i \in Ids /\ log[i].hash # <<>> /\ i \in Nat \ {0}
  BY DEF HashedOf, Hashed, Ids
<1>2. log[i].hash = Walked(i) /\ log[i].prev = Walked(i - 1)
  BY <1>1 DEF ChainInv, RowInv
<1>3. Matches(i, Walked(i - 1))
  BY <1>1, <1>2, WalkedNext DEF Matches
<1>4. ASSUME NEW j \in 1 .. i
      PROVE  j \in HashedOf(t)
  <2>1. j \in Ids /\ (j < i \/ j = i)
    BY <1>1 DEF Ids, ChainInv
  <2>2. log[j].hash # <<>>
    BY <1>1, <2>1 DEF ChainInv, PairInv
  <2> QED BY <2>1, <2>2 DEF HashedOf, Hashed
<1> QED BY <1>1, <1>2, <1>3, <1>4

\* Of the last n rows, those before one of them reach up to the one before it.
LEMMA RecentReaches ==
    ASSUME ChainInv, NEW t \in Tenants, \A i \in Ids : ~log[i].live /\ log[i].tenant = t,
           NEW n \in Nat, NEW i \in Recent(t, n), NEW j \in Recent(t, n), j < i
    PROVE  i - 1 \in Recent(t, n)
<1> DEFINE After(k) == {l \in HashedOf(t) : k < l}
<1>1. /\ HashedOf(t) \subseteq 1 .. Len(log) /\ Len(log) \in Nat
      /\ i \in HashedOf(t) /\ j \in HashedOf(t)
  BY DEF HashedOf, Hashed, Ids, Recent, ChainInv
<1>2. j <= i - 1 /\ i - 1 \in 1 .. i /\ i \in Nat /\ j \in Nat
  BY <1>1
<1>3. i - 1 \in HashedOf(t)
  BY <1>1, <1>2, HashedFirst
<1>4. IsFiniteSet(After(j)) /\ After(i - 1) \subseteq After(j)
  <2>1. IsFiniteSet(1 .. Len(log))
    BY <1>1, FS_Interval
  <2>2. After(j) \subseteq 1 .. Len(log)
    BY <1>1
  <2>3. After(i - 1) \subseteq After(j)
    BY <1>1, <1>2
  <2> QED BY <2>1, <2>2, <2>3, FS_Subset
<1>5. /\ Cardinality(After(i - 1)) <= Cardinality(After(j))
      /\ Cardinality(After(i - 1)) \in Nat /\ Cardinality(After(j)) \in Nat
  BY <1>4, FS_Subset, FS_CardinalityType
<1>6. Cardinality(After(j)) < n
  BY DEF Recent
<1> QED BY <1>3, <1>5, <1>6 DEF Recent

\* What only starts have hashed, for one tenant, GET /audit/chain/verify and
\* POST /audit/verify-chain find intact, whatever the limit.
THEOREM BackfillsVerify == AuditSpec => []BackfillVerifies
<1>1. ASSUME ChainInv
      PROVE  BackfillVerifies
  <2> SUFFICES ASSUME NEW t \in Tenants, \A i \in Ids : ~log[i].live /\ log[i].tenant = t
               PROVE  ChainVerified(t) /\ \A n \in 1 .. MaxRows : RecentVerified(t, n)
    BY DEF BackfillVerifies
  <2>1. ASSUME NEW i \in HashedOf(t)
        PROVE  HashOfLast(Before(i, HashedOf(t))) = Walked(i - 1)
    <3> DEFINE S == Before(i, HashedOf(t))
    <3>1. i \in Nat \ {0} /\ 1 .. i \subseteq HashedOf(t)
      BY <1>1, HashedFirst
    <3>2. HashedOf(t) \subseteq Nat \ {0}
      BY DEF HashedOf, Hashed, Ids
    <3>3. CASE i = 1
      <4>1. S = {}
        BY <3>2, <3>3 DEF Before
      <4>2. i - 1 = 0
        BY <3>3
      <4>3. Walked(0) = <<>>
        BY <3>1, WalkedNext
      <4> QED BY <4>1, <4>2, <4>3 DEF HashOfLast
    <3>4. CASE i # 1
      <4>1. i - 1 \in S /\ S \in SUBSET Nat /\ \A j \in S : j <= i - 1
        BY <3>1, <3>2, <3>4 DEF Before
      <4>2. HashOfLast(S) = log[i - 1].hash
        BY <4>1, HashOfLastIs
      <4>3. log[i - 1].hash = Walked(i - 1)
        BY <1>1, <4>1, HashedFirst DEF Before
      <4> QED BY <4>2, <4>3
    <3> QED BY <3>3, <3>4
  <2>2. ChainVerified(t)
    BY <1>1, <2>1, HashedFirst DEF ChainVerified
  <2>3. ASSUME NEW n \in 1 .. MaxRows, NEW i \in Recent(t, n)
        PROVE  LET before == Before(i, Recent(t, n))
               IN  Matches(i, IF before = {} THEN log[i].prev ELSE HashOfLast(before))
    <3> DEFINE S == Before(i, Recent(t, n))
    <3>1. i \in HashedOf(t) /\ n \in Nat
      BY DEF Recent
    <3>2. Matches(i, Walked(i - 1)) /\ log[i].prev = Walked(i - 1)
      BY <1>1, <3>1, HashedFirst
    <3>3. CASE S # {}
      <4>1. Recent(t, n) \subseteq HashedOf(t) /\ HashedOf(t) \subseteq Nat
        BY DEF Recent, HashedOf, Hashed, Ids
      <4>2. PICK j \in Recent(t, n) : j < i
        BY <3>3 DEF Before
      <4>3. i - 1 \in Recent(t, n)
        BY <1>1, <3>1, <4>2, RecentReaches
      <4>4. i - 1 \in S /\ S \in SUBSET Nat /\ \A k \in S : k <= i - 1
        BY <3>1, <4>1, <4>3 DEF Before
      <4>5. HashOfLast(S) = log[i - 1].hash
        BY <4>4, HashOfLastIs
      <4>6. log[i - 1].hash = Walked(i - 1)
        BY <1>1, <4>1, <4>3, HashedFirst
      <4> QED BY <3>2, <3>3, <4>5, <4>6
    <3> QED BY <3>2, <3>3
  <2> QED BY <2>2, <2>3 DEF RecentVerified
<1> QED BY <1>1, ChainInvariant, PTL
-----------------------------------------------------------------------------
(* INDEXING CLAIMS.                                                        *)

\* The invariant of the proofs: the promises are inductive with the types alone.
LocksInv == LocksTypeOK /\ PromiseKept

LEMMA LocksInit == IndexingInit => LocksInv
BY LocksAssumption DEF IndexingInit, LocksInv, LocksTypeOK, PromiseKept, NoLock, Nothing,
   NotWritten

Writes == [Docs -> [by : Users \cup {NoUser}, way : {"none", "station", "other"}]]

LEMMA NothingWritten == Nothing \in Writes
BY DEF Nothing, NotWritten, Writes

-----------------------------------------------------------------------------
(* One lemma per action.                                                   *)

LEMMA ClaimKeepsLocks ==
    ASSUME LocksInv, NEW u \in Users, NEW d \in Docs, NEW ttl \in 1 .. MaxTTL,
           Claim(u, d, ttl)
    PROVE  LocksInv'
<1> DEFINE row == Winner(u, d, ttl)
<1>1. row \in [by : Users \cup {NoUser}, left : -1 .. MaxTTL]
  BY LocksAssumption DEF LocksInv, LocksTypeOK, Winner
<1>2. ~Expired(d) => row = lock[d]
  BY DEF Winner
<1>3. row.by = u => row = [by |-> u, left |-> row.left] /\ row.left \in 0 .. MaxTTL
  <2>1. CASE Expired(d)
    BY <2>1, LocksAssumption DEF Winner
  <2>2. CASE ~Expired(d)
    BY <2>2, LocksAssumption DEF Winner, Expired, LocksInv, LocksTypeOK
  <2> QED BY <2>1, <2>2
<1>4. lock' = [lock EXCEPT ![d] = row] /\ written' = Nothing
      /\ promised' = IF row.by = u THEN [promised EXCEPT ![u][d] = row.left] ELSE promised
  BY DEF Claim
<1>5. LocksTypeOK'
  BY <1>1, <1>3, <1>4, NothingWritten DEF LocksInv, LocksTypeOK, Writes
<1>6. PromiseKept'
  <2> SUFFICES ASSUME NEW v \in Users, NEW e \in Docs, promised'[v][e] > 0
               PROVE  lock'[e] = [by |-> v, left |-> promised'[v][e]]
    BY DEF PromiseKept
  <2>1. CASE e # d
    BY <2>1, <1>4 DEF LocksInv, LocksTypeOK, PromiseKept
  <2>2. CASE e = d /\ v = u /\ row.by = u
    BY <2>2, <1>3, <1>4 DEF LocksInv, LocksTypeOK
  <2>3. CASE e = d /\ ~(v = u /\ row.by = u)
    <3>1. promised'[v][d] = promised[v][d]
      BY <2>3, <1>4 DEF LocksInv, LocksTypeOK
    <3>2. lock[d] = [by |-> v, left |-> promised[v][d]] /\ promised[v][d] > 0
      BY <3>1, <2>3 DEF LocksInv, PromiseKept
    <3>3. ~Expired(d)
      BY <3>2 DEF Expired, LocksInv, LocksTypeOK
    <3> QED BY <3>1, <3>2, <3>3, <1>2, <1>4, <2>3 DEF LocksInv, LocksTypeOK
  <2> QED BY <2>1, <2>2, <2>3
<1> QED BY <1>5, <1>6 DEF LocksInv

LEMMA ReleaseKeepsLocks ==
    ASSUME LocksInv, NEW u \in Users, NEW d \in Docs, Release(u, d)
    PROVE  LocksInv'
<1>1. LocksTypeOK'
  BY LocksAssumption, NothingWritten DEF LocksInv, LocksTypeOK, Release, NoLock, Writes
<1>2. PromiseKept'
  BY LocksAssumption DEF LocksInv, LocksTypeOK, PromiseKept, Release
<1> QED BY <1>1, <1>2 DEF LocksInv

LEMMA SaveKeepsLocks ==
    ASSUME LocksInv, NEW u \in Users, NEW d \in Docs, Save(u, d)
    PROVE  LocksInv'
<1>1. written' \in Writes
  BY NothingWritten DEF Save, Writing, NotWritten, Writes
<1> QED BY <1>1 DEF LocksInv, LocksTypeOK, PromiseKept, Save, Writes

LEMMA UnaskedKeepsLocks ==
    ASSUME LocksInv, NEW u \in Users, NEW S \in SUBSET Docs, WriteUnasked(u, S)
    PROVE  LocksInv'
<1>1. written' \in Writes
  BY DEF WriteUnasked, Writing, NotWritten, Writes
<1> QED BY <1>1 DEF LocksInv, LocksTypeOK, PromiseKept, WriteUnasked, Writes

LEMMA SweepKeepsLocks == LocksInv /\ Sweep => LocksInv'
<1> SUFFICES ASSUME LocksInv, Sweep PROVE LocksInv'
  OBVIOUS
<1>1. LocksTypeOK'
  BY LocksAssumption, NothingWritten DEF LocksInv, LocksTypeOK, Sweep, NoLock, Writes
<1>2. PromiseKept'
  BY DEF LocksInv, LocksTypeOK, PromiseKept, Sweep, Expired
<1> QED BY <1>1, <1>2 DEF LocksInv

LEMMA SecondKeepsLocks == LocksInv /\ Second => LocksInv'
<1> SUFFICES ASSUME LocksInv, Second PROVE LocksInv'
  OBVIOUS
<1>1. lock' = [d \in Docs |-> [by |-> lock[d].by, left |-> Earlier(lock[d].left, -1)]]
  BY DEF LocksInv, LocksTypeOK, Second
<1>2. \A n \in -1 .. MaxTTL : Earlier(n, -1) \in -1 .. MaxTTL
  BY LocksAssumption DEF Earlier
<1>3. \A n \in 0 .. MaxTTL : Earlier(n, 0) \in 0 .. MaxTTL
  BY LocksAssumption DEF Earlier
<1>4. LocksTypeOK'
  BY <1>1, <1>2, <1>3, NothingWritten DEF LocksInv, LocksTypeOK, Second, Writes
<1>5. PromiseKept'
  <2> SUFFICES ASSUME NEW u \in Users, NEW d \in Docs, promised'[u][d] > 0
               PROVE  lock'[d] = [by |-> u, left |-> promised'[u][d]]
    BY DEF PromiseKept
  <2>1. promised'[u][d] = promised[u][d] - 1 /\ promised[u][d] > 0
    BY DEF Second, Earlier, LocksInv, LocksTypeOK
  <2>2. lock[d] = [by |-> u, left |-> promised[u][d]]
    BY <2>1 DEF LocksInv, PromiseKept
  <2>3. Earlier(lock[d].left, -1) = promised[u][d] - 1
    BY <2>1, <2>2 DEF Earlier, LocksInv, LocksTypeOK
  <2> QED BY <1>1, <2>1, <2>2, <2>3
<1> QED BY <1>4, <1>5 DEF LocksInv

LEMMA LocksStep == LocksInv /\ [IndexingNext]_indexingVars => LocksInv'
<1> SUFFICES ASSUME LocksInv, [IndexingNext]_indexingVars PROVE LocksInv'
  OBVIOUS
<1>1. CASE UNCHANGED indexingVars
  BY <1>1 DEF LocksInv, LocksTypeOK, PromiseKept, indexingVars
<1> QED BY <1>1, ClaimKeepsLocks, ReleaseKeepsLocks, SaveKeepsLocks, UnaskedKeepsLocks,
           SweepKeepsLocks, SecondKeepsLocks DEF IndexingNext

LEMMA LocksInductive == IndexingSpec => []LocksInv
BY LocksInit, LocksStep, PTL DEF IndexingSpec

-----------------------------------------------------------------------------
\* Types of every variable, for all constants.
THEOREM LocksTypeCorrect == IndexingSpec => []LocksTypeOK
BY LocksInductive, PTL DEF LocksInv

\* What claimDocument answered holds until it runs out or is released: no
\* claim of another user, no sweep and no second claim changes the row.
THEOREM PromisesKept == IndexingSpec => []PromiseKept
BY LocksInductive, PTL DEF LocksInv

LEMMA SaveIsOwn == LocksInv /\ [IndexingNext]_indexingVars =>
    [\A d \in Docs : written'[d].way = "station" => ~ForeignWrite(d)]_indexingVars
<1> SUFFICES ASSUME LocksInv, IndexingNext, NEW d \in Docs, written'[d].way = "station",
                    NEW u \in Users \ {written'[d].by}
             PROVE  ~(promised[u][d] > 0)
  BY DEF ForeignWrite
<1>1. written' # Nothing
  BY DEF Nothing, NotWritten
<1>2. PICK v \in Users : Save(v, d) /\ written'[d].by = v /\ MaySave(v, d)
  <2>1. ASSUME NEW v \in Users, NEW S \in SUBSET Docs, WriteUnasked(v, S)
        PROVE  FALSE
    BY <2>1 DEF WriteUnasked, Writing, NotWritten
  <2>2. PICK v \in Users, e \in Docs : Save(v, e)
    BY <1>1, <2>1 DEF IndexingNext, Claim, Release, Sweep, Second
  <2>3. MaySave(v, e) /\ written' = Writing(v, {e}, "station")
    BY <1>1, <2>2 DEF Save
  <2>4. e = d /\ written'[d].by = v
    BY <2>3 DEF Writing, NotWritten
  <2> QED BY <2>2, <2>3, <2>4
<1>3. promised[u][d] > 0 => lock[d].by = u /\ Active(d)
  BY DEF LocksInv, LocksTypeOK, PromiseKept, Active
<1> QED BY <1>2, <1>3 DEF MaySave, LocksInv, LocksTypeOK

\* The check of PATCH /indexing/:id lets no save of the station land on a
\* document that the answer of a claim promises to another user.
THEOREM NoForeignSaves == IndexingSpec => NoForeignSave
BY LocksInductive, SaveIsOwn, PTL DEF IndexingSpec, NoForeignSave
=============================================================================
