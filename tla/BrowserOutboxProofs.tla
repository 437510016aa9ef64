------------------------- MODULE BrowserOutboxProofs -------------------------
(***************************************************************************)
(* For every set of users, keys and drains and every bound: types, what    *)
(* becomes of an upload shown as saved, when an entry is given up, and how *)
(* long a stored key keeps a second document away.                         *)
(***************************************************************************)
EXTENDS BrowserOutbox, SequenceTheorems, TLAPS

-----------------------------------------------------------------------------
(* The server (IdempotencyKeys).                                           *)

\* A key row comes with its document.
RowsInv == \A u \in Users, k \in Keys : idem[u][k] # NoRow => docs[k] # <<>>

\* A document whose key was stored is older than its key's row is valid, or
\* the row is still there.
StoredInv ==
    \A k \in Keys : \A n \in DOMAIN docs[k] :
        docs[k][n].key = "stored" =>
            \/ day > docs[k][n].day + 1
            \/ /\ idem[docs[k][n].by][k] # NoRow
               /\ idem[docs[k][n].by][k].expires >= docs[k][n].day + 1

ServerInv == ServerTypeOK /\ RowsInv /\ StoredInv /\ OncePerDay

LEMMA ServerInitInv == ServerInit => ServerInv
<1> SUFFICES ASSUME ServerInit PROVE ServerInv
  OBVIOUS
<1>1. \A k \in Keys : docs[k] = <<>> /\ DOMAIN docs[k] = {}
  BY DEF ServerInit
<1>2. <<>> \in Seq(Doc)
  BY EmptySeq
<1>3. ServerTypeOK
  BY <1>2, BoundsAssumption DEF ServerInit, ServerTypeOK
<1>4. RowsInv
  BY DEF ServerInit, RowsInv
<1>5. StoredInv /\ OncePerDay
  BY <1>1 DEF StoredInv, OncePerDay
<1> QED BY <1>3, <1>4, <1>5 DEF ServerInv

LEMMA RowFields ==
    ASSUME ServerTypeOK, NEW u \in Users, NEW k \in Keys
    PROVE  /\ idem[u][k] \in Row \cup {NoRow}
           /\ idem[u][k].expires \in 0 .. LastDay + 1 /\ idem[u][k].expires \in Nat
           /\ idem[u][k].hash \in Bodies \cup {""}
           /\ docs[k] \in Seq(Doc) /\ day \in 0 .. LastDay /\ day \in Nat
<1>1. idem[u][k] \in Row \cup {NoRow}
  BY DEF ServerTypeOK
<1>2. NoRow.expires = 0 /\ NoRow.hash = ""
  BY DEF NoRow
<1>3. \A r \in Row : r.expires \in 0 .. LastDay + 1 /\ r.hash \in Bodies
  BY DEF Row
<1>4. day \in 0 .. LastDay /\ docs[k] \in Seq(Doc)
  BY DEF ServerTypeOK
<1>5. LastDay \in Nat /\ \A i \in 0 .. LastDay + 1 : i \in Nat
  BY BoundsAssumption
<1>6. day \in Nat /\ 0 \in 0 .. LastDay + 1
  BY <1>4, <1>5
<1>7. CASE idem[u][k] = NoRow
  BY <1>2, <1>4, <1>5, <1>6, <1>7
<1>8. CASE idem[u][k] \in Row
  BY <1>3, <1>4, <1>5, <1>6, <1>8
<1> QED BY <1>1, <1>7, <1>8

LEMMA DocFields ==
    ASSUME ServerTypeOK, NEW k \in Keys, NEW n \in DOMAIN docs[k]
    PROVE  /\ docs[k][n].by \in Users /\ docs[k][n].day \in Nat
           /\ n \in Nat /\ n <= Len(docs[k])
<1>1. docs[k] \in Seq(Doc)
  BY DEF ServerTypeOK
<1>2. docs[k][n] \in Doc /\ n \in 1 .. Len(docs[k]) /\ Len(docs[k]) \in Nat
  BY <1>1, LenProperties, ElementOfSeq
<1> QED BY <1>2, BoundsAssumption DEF Doc

LEMMA RecordedIsRow ==
    ASSUME ServerTypeOK, NEW u \in Users, NEW k \in Keys, NEW body \in Bodies
    PROVE  /\ Recorded(u, k, body) \in Row
           /\ idem[u][k] # NoRow => Recorded(u, k, body) = idem[u][k]
           /\ idem[u][k] = NoRow => Recorded(u, k, body).expires = day + 1
<1>1. CASE idem[u][k] = NoRow
  <2>1. Recorded(u, k, body) = [hash |-> body, expires |-> day + 1]
    BY <1>1 DEF Recorded
  <2>2. day + 1 \in 0 .. LastDay + 1
    <3>1. day \in 0 .. LastDay /\ LastDay \in Nat
      BY BoundsAssumption DEF ServerTypeOK
    <3> QED BY <3>1
  <2> QED BY <1>1, <2>1, <2>2 DEF Row
<1>2. CASE idem[u][k] # NoRow
  BY <1>2, RowFields DEF Recorded
<1> QED BY <1>1, <1>2

\* One key of a batch, for user u.
LEMMA ServeKey ==
    ASSUME ServerInv, NEW u \in Users, NEW batch \in SUBSET Keys, NEW body \in Bodies, NEW res,
           Serve(u, batch, body, res), NEW k \in Keys
    PROVE  /\ docs'[k] \in Seq(Doc)
           /\ \A v \in Users : idem'[v][k] \in Row \cup {NoRow}
           /\ docs[k] # <<>> => docs'[k] # <<>>
           /\ \A v \in Users : idem[v][k] # NoRow => idem'[v][k] = idem[v][k]
           /\ \A v \in Users : idem'[v][k] # NoRow => docs'[k] # <<>>
           /\ day' = day
<1> DEFINE new == NewDoc(u, k, body, res[k])
           adds == k \in batch /\ res[k] \in {"accepted", "store_failed"}
<1>1. ServerTypeOK /\ RowsInv
  BY DEF ServerInv
<1>2. docs[k] \in Seq(Doc) /\ Len(docs[k]) \in Nat /\ day \in 0 .. LastDay
  BY <1>1, RowFields, LenProperties
<1>3. new \in Doc
  BY <1>2 DEF NewDoc, Doc
<1> HIDE DEF new
<1>4. docs'[k] = (IF adds THEN Append(docs[k], new) ELSE docs[k])
  BY DEF Serve, new
<1>5. Append(docs[k], new) \in Seq(Doc) /\ Append(docs[k], new) # <<>>
  BY <1>2, <1>3, AppendProperties
<1>6. \A v \in Users : idem'[v][k] =
        IF v = u /\ k \in batch /\ res[k] = "accepted" THEN Recorded(u, k, body) ELSE idem[v][k]
  BY DEF Serve
<1>7. \A v \in Users : idem'[v][k] \in Row \cup {NoRow}
  <2>1. Recorded(u, k, body) \in Row
    BY <1>1, RecordedIsRow
  <2>2. \A v \in Users : idem[v][k] \in Row \cup {NoRow}
    BY <1>1, RowFields
  <2> QED BY <1>6, <2>1, <2>2
<1>8. \A v \in Users : idem[v][k] # NoRow => idem'[v][k] = idem[v][k]
  BY <1>1, <1>6, RecordedIsRow
<1>9. \A v \in Users : idem'[v][k] # NoRow => docs'[k] # <<>>
  BY <1>1, <1>4, <1>5, <1>6 DEF RowsInv
<1> QED BY <1>2, <1>4, <1>5, <1>7, <1>8, <1>9 DEF Serve

\* What the route answers with accepted or deduped is a document.
LEMMA ServedIsDoc ==
    ASSUME ServerInv, NEW u \in Users, NEW batch \in SUBSET Keys, NEW body \in Bodies, NEW res,
           Serve(u, batch, body, res)
    PROVE  \A k \in batch : res[k] = "accepted" \/ res[k] = "deduped" => docs'[k] # <<>>
<1> SUFFICES ASSUME NEW k \in batch, res[k] = "accepted" \/ res[k] = "deduped"
             PROVE  docs'[k] # <<>>
  OBVIOUS
<1>1. CASE res[k] = "accepted"
  <2>1. docs'[k] = Append(docs[k], NewDoc(u, k, body, res[k]))
    BY <1>1 DEF Serve
  <2>2. docs[k] \in Seq(Doc) /\ day \in 0 .. LastDay
    BY RowFields DEF ServerInv
  <2>3. NewDoc(u, k, body, res[k]) \in Doc
    BY <2>2 DEF NewDoc, Doc
  <2> QED BY <2>1, <2>2, <2>3, AppendProperties
<1>2. CASE res[k] = "deduped"
  <2>1. "deduped" \in Results(u, k, body)
    BY <1>2 DEF Serve
  <2>2. idem[u][k] # NoRow
    BY <2>1 DEF Results, Live
  <2> QED BY <2>2, ServeKey DEF ServerInv, RowsInv
<1> QED BY <1>1, <1>2

\* The documents of one key after a batch: at most one more, the last.
LEMMA ServeAppends ==
    ASSUME ServerInv, NEW u \in Users, NEW batch \in SUBSET Keys, NEW body \in Bodies, NEW res,
           Serve(u, batch, body, res), NEW k \in Keys
    PROVE  \/ docs'[k] = docs[k]
           \/ /\ \/ idem[u][k] = NoRow
                 \/ idem[u][k].expires < day
              /\ DOMAIN docs'[k] = 1 .. Len(docs[k]) + 1
              /\ \A n \in DOMAIN docs[k] : docs'[k][n] = docs[k][n]
              /\ DOMAIN docs[k] = 1 .. Len(docs[k]) /\ Len(docs[k]) \in Nat
              /\ docs'[k][Len(docs[k]) + 1].by = u
              /\ docs'[k][Len(docs[k]) + 1].day = day
              /\ docs'[k][Len(docs[k]) + 1].key = "stored" =>
                    /\ idem'[u][k] # NoRow
                    /\ idem'[u][k].expires = day + 1
<1> DEFINE new == NewDoc(u, k, body, res[k])
           adds == k \in batch /\ res[k] \in {"accepted", "store_failed"}
<1> HIDE DEF new
<1>1. ServerTypeOK
  BY DEF ServerInv
<1>2. docs[k] \in Seq(Doc) /\ Len(docs[k]) \in Nat /\ DOMAIN docs[k] = 1 .. Len(docs[k])
  BY <1>1, RowFields, LenProperties
<1>3. docs'[k] = (IF adds THEN Append(docs[k], new) ELSE docs[k])
  BY DEF Serve, new
<1>4. CASE ~adds
  BY <1>3, <1>4
<1>5. CASE adds
  <2>1. res[k] \in Results(u, k, body)
    BY <1>5 DEF Serve
  <2>2. ~Live(u, k)
    BY <1>5, <2>1 DEF Results
  <2>3. idem[u][k] = NoRow \/ idem[u][k].expires < day
    <3>1. idem[u][k].expires \in Nat /\ day \in Nat
      BY <1>1, RowFields
    <3>2. idem[u][k] = NoRow \/ ~(idem[u][k].expires >= day)
      BY <2>2 DEF Live
    <3> QED BY <3>1, <3>2
  <2>4. /\ new.by = u /\ new.day = day
        /\ new.key = "stored" => res[k] # "store_failed" /\ idem[u][k] = NoRow
    BY DEF new, NewDoc
  <2>5. new \in Doc
    BY <1>1, RowFields DEF new, NewDoc, Doc
  <2>6. /\ DOMAIN Append(docs[k], new) = 1 .. Len(docs[k]) + 1
        /\ \A n \in 1 .. Len(docs[k]) : Append(docs[k], new)[n] = docs[k][n]
        /\ Append(docs[k], new)[Len(docs[k]) + 1] = new
    BY <1>2, <2>5, AppendProperties, LenProperties
  <2>7. new.key = "stored" => idem'[u][k] # NoRow /\ idem'[u][k].expires = day + 1
    <3>0. SUFFICES ASSUME new.key = "stored"
                   PROVE  idem'[u][k] # NoRow /\ idem'[u][k].expires = day + 1
      OBVIOUS
    <3>1. res[k] = "accepted" /\ idem[u][k] = NoRow
      <4>1. idem[u][k] = NoRow /\ res[k] # "store_failed"
        BY <2>4, <3>0
      <4>2. res[k] = "accepted" \/ res[k] = "store_failed"
        BY <1>5
      <4> QED BY <4>1, <4>2
    <3>4. idem'[u][k] = Recorded(u, k, body)
      BY <1>5, <3>1 DEF Serve
    <3>2. Recorded(u, k, body) \in Row /\ Recorded(u, k, body).expires = day + 1
      BY <1>1, <3>1, RecordedIsRow
    <3>3. NoRow \notin Row
      BY DEF NoRow, Row, Bodies
    <3> QED BY <3>2, <3>3, <3>4
  <2>8. docs'[k] = Append(docs[k], new)
    BY <1>3, <1>5
  <2>9. docs'[k][Len(docs[k]) + 1] = new
    BY <2>6, <2>8
  <2>10. DOMAIN docs'[k] = 1 .. Len(docs[k]) + 1 /\ \A n \in DOMAIN docs[k] : docs'[k][n] = docs[k][n]
    BY <1>2, <2>6, <2>8
  <2>11. new.by = u /\ new.day = day
    BY <2>4
  <2>12. /\ docs'[k][Len(docs[k]) + 1].by = u
         /\ docs'[k][Len(docs[k]) + 1].day = day
         /\ docs'[k][Len(docs[k]) + 1].key = "stored" =>
               /\ idem'[u][k] # NoRow
               /\ idem'[u][k].expires = day + 1
    BY <2>7, <2>9, <2>11
  <2> QED BY <1>2, <2>3, <2>10, <2>12
<1> QED BY <1>4, <1>5

LEMMA ServeKeepsServer ==
    ASSUME ServerInv, NEW u \in Users, NEW batch \in SUBSET Keys, NEW body \in Bodies, NEW res,
           Serve(u, batch, body, res)
    PROVE  ServerInv'
<1>1. ServerTypeOK'
  <2>1. docs' \in [Keys -> Seq(Doc)]
    <3>1. docs' = [k \in Keys |-> docs'[k]]
      BY DEF Serve
    <3> QED BY <3>1, ServeKey
  <2>2. idem' \in [Users -> [Keys -> Row \cup {NoRow}]]
    <3>1. \A v \in Users, k \in Keys : idem'[v][k] \in Row \cup {NoRow}
      BY ServeKey
    <3>2. idem' = [v \in Users |-> [k \in Keys |-> idem'[v][k]]]
      BY DEF Serve
    <3> QED BY <3>1, <3>2
  <2> QED BY <2>1, <2>2 DEF Serve, ServerInv, ServerTypeOK
<1>2. RowsInv'
  BY ServeKey DEF RowsInv
<1>3. StoredInv'
  <2> SUFFICES ASSUME NEW k \in Keys, NEW n \in DOMAIN docs'[k], docs'[k][n].key = "stored"
               PROVE  \/ day' > docs'[k][n].day + 1
                      \/ /\ idem'[docs'[k][n].by][k] # NoRow
                         /\ idem'[docs'[k][n].by][k].expires >= docs'[k][n].day + 1
    BY DEF StoredInv
  <2>1. day' = day /\ day \in Nat
    BY RowFields, ServeKey DEF ServerInv, Serve, ServerTypeOK
  <2>2. CASE n \in DOMAIN docs[k] /\ docs'[k][n] = docs[k][n]
    <3>1. docs[k][n].by \in Users
      BY <2>2, DocFields DEF ServerInv
    <3>2. \/ day > docs[k][n].day + 1
          \/ /\ idem[docs[k][n].by][k] # NoRow
             /\ idem[docs[k][n].by][k].expires >= docs[k][n].day + 1
      BY <2>2 DEF ServerInv, StoredInv
    <3>3. idem[docs[k][n].by][k] # NoRow => idem'[docs[k][n].by][k] = idem[docs[k][n].by][k]
      BY <3>1, ServeKey
    <3> QED BY <2>1, <2>2, <3>2, <3>3
  <2>3. CASE ~(n \in DOMAIN docs[k] /\ docs'[k][n] = docs[k][n])
    <3>1. n = Len(docs[k]) + 1 /\ docs'[k][n].by = u /\ docs'[k][n].day = day
          /\ idem'[u][k] # NoRow /\ idem'[u][k].expires = day + 1
      <4>1. docs'[k] # docs[k]
        BY <2>3
      <4>2. /\ DOMAIN docs'[k] = 1 .. Len(docs[k]) + 1
            /\ \A m \in DOMAIN docs[k] : docs'[k][m] = docs[k][m]
            /\ DOMAIN docs[k] = 1 .. Len(docs[k]) /\ Len(docs[k]) \in Nat
            /\ docs'[k][Len(docs[k]) + 1].by = u
            /\ docs'[k][Len(docs[k]) + 1].day = day
            /\ docs'[k][Len(docs[k]) + 1].key = "stored" =>
                  idem'[u][k] # NoRow /\ idem'[u][k].expires = day + 1
        BY <4>1, ServeAppends
      <4>3. n \in 1 .. Len(docs[k]) + 1 /\ n \notin 1 .. Len(docs[k])
        BY <2>3, <4>2
      <4>4. n = Len(docs[k]) + 1
        BY <4>2, <4>3
      <4> QED BY <4>2, <4>4
    <3> QED BY <2>1, <3>1
  <2> QED BY <2>2, <2>3
<1>4. OncePerDay'
  <2> SUFFICES ASSUME NEW k \in Keys, NEW i \in DOMAIN docs'[k], NEW j \in DOMAIN docs'[k],
                      i < j, docs'[k][i].by = docs'[k][j].by, docs'[k][i].key = "stored"
               PROVE  docs'[k][j].day > docs'[k][i].day + 1
    BY DEF OncePerDay
  <2>1. CASE docs'[k] = docs[k]
    BY <2>1 DEF ServerInv, OncePerDay
  <2>2. CASE docs'[k] # docs[k]
    <3>1. /\ idem[u][k] = NoRow \/ idem[u][k].expires < day
          /\ DOMAIN docs'[k] = 1 .. Len(docs[k]) + 1
          /\ \A n \in DOMAIN docs[k] : docs'[k][n] = docs[k][n]
          /\ DOMAIN docs[k] = 1 .. Len(docs[k]) /\ Len(docs[k]) \in Nat
          /\ docs'[k][Len(docs[k]) + 1].by = u
          /\ docs'[k][Len(docs[k]) + 1].day = day
      BY <2>2, ServeAppends
    <3>2. i \in DOMAIN docs[k]
      BY <3>1
    <3>3. CASE j \in DOMAIN docs[k]
      BY <3>1, <3>2, <3>3 DEF ServerInv, OncePerDay
    <3>4. CASE j = Len(docs[k]) + 1
      <4>1. docs[k][i].by = u /\ docs[k][i].key = "stored" /\ docs'[k][i] = docs[k][i]
        <5>1. docs'[k][i] = docs[k][i]
          BY <3>1, <3>2
        <5>2. docs'[k][j].by = u
          BY <3>1, <3>4
        <5> QED BY <5>1, <5>2
      <4>2. \/ day > docs[k][i].day + 1
            \/ idem[u][k] # NoRow /\ idem[u][k].expires >= docs[k][i].day + 1
        BY <3>2, <4>1 DEF ServerInv, StoredInv
      <4>3. idem[u][k].expires \in Nat /\ day \in Nat /\ docs[k][i].day \in Nat
        BY <3>2, RowFields, DocFields DEF ServerInv
      <4>4. docs'[k][j].day = day /\ docs'[k][i].day = docs[k][i].day
        BY <3>1, <3>4, <4>1
      <4>5. day > docs[k][i].day + 1
        BY <3>1, <4>2, <4>3
      <4> QED BY <4>4, <4>5
    <3> QED BY <3>1, <3>3, <3>4
  <2> QED BY <2>1, <2>2
<1> QED BY <1>1, <1>2, <1>3, <1>4 DEF ServerInv

LEMMA PruneKeepsServer == ServerInv /\ PruneExpired => ServerInv'
<1> SUFFICES ASSUME ServerInv, PruneExpired PROVE ServerInv'
  OBVIOUS
<1>1. docs' = docs /\ day' = day
      /\ \A u \in Users, k \in Keys :
            idem'[u][k] = IF idem[u][k].expires < day THEN NoRow ELSE idem[u][k]
  BY DEF PruneExpired
<1>2. ServerTypeOK'
  BY RowFields DEF PruneExpired, ServerInv, ServerTypeOK
<1>3. RowsInv'
  BY <1>1 DEF ServerInv, RowsInv
<1>4. StoredInv'
  <2> SUFFICES ASSUME NEW k \in Keys, NEW n \in DOMAIN docs[k], docs[k][n].key = "stored"
               PROVE  \/ day > docs[k][n].day + 1
                      \/ /\ idem'[docs[k][n].by][k] # NoRow
                         /\ idem'[docs[k][n].by][k].expires >= docs[k][n].day + 1
    BY <1>1 DEF StoredInv
  <2>1. docs[k][n].by \in Users /\ docs[k][n].day \in Nat
    BY DocFields DEF ServerInv
  <2>2. PICK v \in Users : v = docs[k][n].by
    BY <2>1
  <2>3. idem[v][k].expires \in Nat /\ day \in Nat
    BY RowFields DEF ServerInv
  <2>4. \/ day > docs[k][n].day + 1
        \/ idem[v][k] # NoRow /\ idem[v][k].expires >= docs[k][n].day + 1
    BY <2>2 DEF ServerInv, StoredInv
  <2> QED BY <1>1, <2>1, <2>2, <2>3, <2>4
<1>5. OncePerDay'
  BY <1>1 DEF ServerInv, OncePerDay
<1> QED BY <1>2, <1>3, <1>4, <1>5 DEF ServerInv

LEMMA MidnightKeepsServer == ServerInv /\ Midnight => ServerInv'
<1> SUFFICES ASSUME ServerInv, Midnight PROVE ServerInv'
  OBVIOUS
<1>1. docs' = docs /\ idem' = idem /\ day' = day + 1 /\ day \in 0 .. LastDay /\ day < LastDay
  BY DEF Midnight, ServerInv, ServerTypeOK
<1>2. ServerTypeOK'
  BY <1>1, BoundsAssumption DEF ServerInv, ServerTypeOK
<1>3. RowsInv' /\ OncePerDay'
  BY <1>1 DEF ServerInv, RowsInv, OncePerDay
<1>4. StoredInv'
  <2>1. \A k \in Keys : \A n \in DOMAIN docs[k] : docs[k][n].day \in Nat
    BY DocFields DEF ServerInv
  <2> QED BY <1>1, <2>1 DEF ServerInv, StoredInv
<1> QED BY <1>2, <1>3, <1>4 DEF ServerInv

-----------------------------------------------------------------------------
(* The browser.                                                            *)

BrowserTypeOK ==
    /\ session \in Users \cup {NoUser}
    /\ owner \in [Keys -> Users \cup {NoUser}]
    /\ ui \in [Keys -> {"new", "waiting", "saved", "uploaded", "error"}]
    /\ request \in [Keys -> {"none", "sent", "ok", "refused"}]
    /\ queued \subseteq Keys
    /\ retries \in [Keys -> 0..MaxRetries - 1]
    /\ drain \in [Drains -> Drain]
    /\ gaveUp \subseteq Keys
    /\ failures \in [Keys -> 0..MaxRetries]

\* What a drain will remove from the outbox is a document.
DoneInv == \A d \in Drains : \A k \in drain[d].done : docs[k] # <<>>

\* No count, in the outbox or in a drain, is above the replays that failed.
CountInv ==
    /\ \A k \in Keys : retries[k] <= failures[k]
    /\ \A d \in Drains : \A k \in Keys : drain[d].seen[k] <= failures[k]

OutboxInv ==
    /\ ServerInv
    /\ BrowserTypeOK
    /\ DoneInv
    /\ SavedAccounted
    /\ CountInv
    /\ GivenUpAfterRetries

LEMMA Bounds ==
    /\ MaxRetries \in Nat /\ MaxRetries > 0
    /\ 0 \in 0 .. MaxRetries - 1 /\ 0 \in 0 .. MaxRetries
    /\ \A n \in 0 .. MaxRetries - 1 : n \in Nat /\ n < MaxRetries
    /\ \A n \in 0 .. MaxRetries : n \in Nat /\ n <= MaxRetries
BY OutboxAssumption

LEMMA IdleIsDrain == Idle \in Drain /\ Idle.done = {} /\ \A k \in Keys : Idle.seen[k] = 0
<1>1. [k \in Keys |-> 0] \in [Keys -> 0 .. MaxRetries - 1]
  BY Bounds
<1> QED BY <1>1 DEF Idle, Drain

LEMMA DrainFields ==
    ASSUME BrowserTypeOK, NEW d \in Drains
    PROVE  /\ drain[d] \in Drain
           /\ drain[d].user \in Users \cup {NoUser}
           /\ drain[d].seen \in [Keys -> 0 .. MaxRetries - 1]
           /\ drain[d].done \in SUBSET Keys
           /\ drain[d].failed \in SUBSET Keys
<1>1. drain[d] \in Drain
  BY DEF BrowserTypeOK
<1> QED BY <1>1 DEF Drain

\* One drain moves on.
LEMMA DrainSet ==
    ASSUME BrowserTypeOK, NEW d \in Drains, NEW r \in Drain, drain' = [drain EXCEPT ![d] = r]
    PROVE  /\ drain' \in [Drains -> Drain]
           /\ \A e \in Drains : drain'[e] = IF e = d THEN r ELSE drain[e]
BY DEF BrowserTypeOK

LEMMA SetsDrain ==
    ASSUME BrowserTypeOK, NEW d \in Drains, NEW pc \in {"applying", "retrying"},
           NEW done \in SUBSET Keys, Sets(d, pc, done)
    PROVE  /\ drain' \in [Drains -> Drain]
           /\ \A e \in Drains : drain'[e].seen = drain[e].seen
           /\ drain'[d].done = done
           /\ \A e \in Drains \ {d} : drain'[e].done = drain[e].done
<1> DEFINE r == [pc |-> pc, user |-> drain[d].user, seen |-> drain[d].seen,
                 done |-> done, failed |-> drain[d].failed \ done]
<1>1. drain[d].failed \ done \in SUBSET Keys
  BY DrainFields
<1>2. r \in Drain
  BY <1>1, DrainFields DEF Drain
<1>3. r.seen = drain[d].seen /\ r.done = done
  OBVIOUS
<1>4. drain' = [drain EXCEPT ![d] = r]
  BY DEF Sets
<1> HIDE DEF r
<1>5. drain' \in [Drains -> Drain] /\ \A e \in Drains : drain'[e] = IF e = d THEN r ELSE drain[e]
  BY <1>2, <1>4, DrainSet
<1> QED BY <1>3, <1>5

\* Whatever grows the documents and leaves the outbox alone.
LEMMA DocsOnly ==
    ASSUME OutboxInv, ServerInv', UNCHANGED <<queued, retries, drain, gaveUp, failures>>,
           \A k \in Keys : docs[k] # <<>> => docs'[k] # <<>>,
           \A k \in Keys : ui'[k] = "saved" => ui[k] = "saved",
           session' \in Users \cup {NoUser},
           owner' \in [Keys -> Users \cup {NoUser}],
           ui' \in [Keys -> {"new", "waiting", "saved", "uploaded", "error"}],
           request' \in [Keys -> {"none", "sent", "ok", "refused"}]
    PROVE  OutboxInv'
<1>1. BrowserTypeOK'
  BY DEF OutboxInv, BrowserTypeOK
<1>2. DoneInv'
  <2>1. \A d \in Drains : drain[d].done \in SUBSET Keys
    BY DrainFields DEF OutboxInv
  <2> QED BY <2>1 DEF OutboxInv, DoneInv
<1>3. SavedAccounted'
  BY DEF OutboxInv, SavedAccounted
<1>4. CountInv' /\ GivenUpAfterRetries'
  BY DEF OutboxInv, CountInv, GivenUpAfterRetries
<1> QED BY <1>1, <1>2, <1>3, <1>4 DEF OutboxInv

LEMMA OutboxInitInv == Init => OutboxInv
<1> SUFFICES ASSUME Init PROVE OutboxInv
  OBVIOUS
<1>1. ServerInv
  BY ServerInitInv DEF Init
<1>2. BrowserTypeOK
  BY Bounds, IdleIsDrain DEF Init, BrowserTypeOK
<1>3. DoneInv /\ SavedAccounted /\ GivenUpAfterRetries
  BY IdleIsDrain DEF Init, DoneInv, SavedAccounted, GivenUpAfterRetries
<1>4. CountInv
  BY IdleIsDrain DEF Init, CountInv
<1> QED BY <1>1, <1>2, <1>3, <1>4 DEF OutboxInv

LEMMA ServerUnchanged == ServerInv /\ UNCHANGED serverVars => ServerInv'
BY DEF ServerInv, ServerTypeOK, RowsInv, StoredInv, OncePerDay, serverVars

LEMMA ChangeSessionInv == OutboxInv /\ ChangeSession => OutboxInv'
<1> SUFFICES ASSUME OutboxInv, ChangeSession PROVE OutboxInv'
  OBVIOUS
<1>1. ServerInv' /\ docs' = docs
  BY ServerUnchanged DEF OutboxInv, ChangeSession, serverVars
<1> QED BY <1>1, DocsOnly DEF OutboxInv, BrowserTypeOK, ChangeSession

LEMMA ConfirmUploadInv == \A k \in Keys : OutboxInv /\ ConfirmUpload(k) => OutboxInv'
<1> SUFFICES ASSUME NEW k \in Keys, OutboxInv, ConfirmUpload(k) PROVE OutboxInv'
  OBVIOUS
<1>1. ServerInv' /\ docs' = docs
  BY ServerUnchanged DEF OutboxInv, ConfirmUpload, serverVars
<1>2. BrowserTypeOK
  BY DEF OutboxInv
<1>3. /\ session' \in Users \cup {NoUser}
      /\ owner' \in [Keys -> Users \cup {NoUser}]
      /\ ui' \in [Keys -> {"new", "waiting", "saved", "uploaded", "error"}]
      /\ request' \in [Keys -> {"none", "sent", "ok", "refused"}]
  BY <1>2 DEF BrowserTypeOK, ConfirmUpload
<1>4. \A j \in Keys : ui'[j] = "saved" => ui[j] = "saved"
  BY <1>2 DEF BrowserTypeOK, ConfirmUpload
<1> QED BY <1>1, <1>3, <1>4, DocsOnly DEF ConfirmUpload

LEMMA ServeUploadInv == \A k \in Keys : OutboxInv /\ ServeUpload(k) => OutboxInv'
<1> SUFFICES ASSUME NEW k \in Keys, OutboxInv, ServeUpload(k) PROVE OutboxInv'
  OBVIOUS
<1>1. BrowserTypeOK /\ ServerInv
  BY DEF OutboxInv
<1>2. ServerInv' /\ \A j \in Keys : docs[j] # <<>> => docs'[j] # <<>>
  <2>1. CASE UNCHANGED serverVars
    BY <1>1, <2>1, ServerUnchanged DEF serverVars
  <2>2. CASE owner[k] \in Capturers /\
             \E r \in Results(owner[k], k, "form") :
                Serve(owner[k], {k}, "form", [x \in {k} |-> r])
    <3>1. PICK r \in Results(owner[k], k, "form") :
             Serve(owner[k], {k}, "form", [x \in {k} |-> r])
      BY <2>2
    <3>2. PICK u \in Users : u = owner[k]
      BY <2>2, OutboxAssumption
    <3>3. PICK res : res = [x \in {k} |-> r]
      OBVIOUS
    <3>4. Serve(u, {k}, "form", res)
      BY <3>1, <3>2, <3>3
    <3>5. {k} \in SUBSET Keys /\ "form" \in Bodies
      BY DEF Bodies
    <3>6. ServerInv'
      BY <1>1, <3>4, <3>5, ServeKeepsServer
    <3>7. \A j \in Keys : docs[j] # <<>> => docs'[j] # <<>>
      BY <1>1, <3>4, <3>5, ServeKey
    <3> QED BY <3>6, <3>7
  <2> QED BY <2>1, <2>2 DEF ServeUpload
<1>3. request' \in [Keys -> {"none", "sent", "ok", "refused"}]
  <2>1. PICK reply \in {"ok", "refused"} : Answer(k, reply)
    BY DEF ServeUpload
  <2> QED BY <1>1, <2>1 DEF BrowserTypeOK, Answer
<1> QED BY <1>1, <1>2, <1>3, DocsOnly DEF ServeUpload, BrowserTypeOK

LEMMA ReplyArrivesInv == \A k \in Keys : OutboxInv /\ ReplyArrives(k) => OutboxInv'
<1> SUFFICES ASSUME NEW k \in Keys, OutboxInv, ReplyArrives(k) PROVE OutboxInv'
  OBVIOUS
<1>1. ServerInv' /\ docs' = docs
  BY ServerUnchanged DEF OutboxInv, ReplyArrives, serverVars
<1>2. BrowserTypeOK
  BY DEF OutboxInv
<1>3. /\ session' \in Users \cup {NoUser}
      /\ owner' \in [Keys -> Users \cup {NoUser}]
      /\ ui' \in [Keys -> {"new", "waiting", "saved", "uploaded", "error"}]
      /\ request' \in [Keys -> {"none", "sent", "ok", "refused"}]
  BY <1>2 DEF BrowserTypeOK, ReplyArrives
<1>4. \A j \in Keys : ui'[j] = "saved" => ui[j] = "saved"
  BY <1>2 DEF BrowserTypeOK, ReplyArrives
<1> QED BY <1>1, <1>3, <1>4, DocsOnly DEF ReplyArrives

LEMMA NetworkErrorInv == \A k \in Keys : OutboxInv /\ NetworkError(k) => OutboxInv'
<1> SUFFICES ASSUME NEW k \in Keys, OutboxInv, NetworkError(k) PROVE OutboxInv'
  OBVIOUS
<1>1. ServerInv' /\ docs' = docs
  BY ServerUnchanged DEF OutboxInv, NetworkError, serverVars
<1>2. BrowserTypeOK
  BY DEF OutboxInv
<1>3. retries' \in [Keys -> 0 .. MaxRetries - 1]
      /\ \A j \in Keys : retries'[j] = retries[j] \/ retries'[j] = 0
  BY <1>2, Bounds DEF BrowserTypeOK, NetworkError
<1>4. BrowserTypeOK'
  <2>1. ui' \in [Keys -> {"new", "waiting", "saved", "uploaded", "error"}] /\ queued' \subseteq Keys
    BY <1>2 DEF BrowserTypeOK, NetworkError
  <2>2. request' \in [Keys -> {"none", "sent", "ok", "refused"}]
    BY <1>2 DEF BrowserTypeOK, NetworkError
  <2> QED BY <1>2, <1>3, <2>1, <2>2 DEF BrowserTypeOK, NetworkError
<1>5. DoneInv'
  BY <1>1 DEF OutboxInv, DoneInv, NetworkError
<1>6. SavedAccounted'
  BY <1>1, <1>2 DEF OutboxInv, SavedAccounted, NetworkError, BrowserTypeOK
<1>7. CountInv'
  <2>1. \A j \in Keys : failures[j] \in Nat
    BY <1>2, Bounds DEF BrowserTypeOK
  <2> QED BY <1>3, <2>1 DEF OutboxInv, CountInv, NetworkError
<1>8. GivenUpAfterRetries'
  BY DEF OutboxInv, GivenUpAfterRetries, NetworkError
<1> QED BY <1>1, <1>4, <1>5, <1>6, <1>7, <1>8 DEF OutboxInv

\* A drain moves on and the outbox stays as it is.
LEMMA DrainOnly ==
    ASSUME OutboxInv, ServerInv',
           UNCHANGED <<session, owner, ui, request, queued, retries, gaveUp, failures>>,
           \A k \in Keys : docs[k] # <<>> => docs'[k] # <<>>,
           drain' \in [Drains -> Drain],
           \A e \in Drains : \A k \in drain'[e].done : docs'[k] # <<>>,
           \A e \in Drains : \A k \in Keys : drain'[e].seen[k] <= failures[k]
    PROVE  OutboxInv'
<1>1. BrowserTypeOK'
  BY DEF OutboxInv, BrowserTypeOK
<1>2. DoneInv' /\ CountInv'
  BY DEF OutboxInv, DoneInv, CountInv
<1>3. SavedAccounted' /\ GivenUpAfterRetries'
  BY DEF OutboxInv, SavedAccounted, GivenUpAfterRetries
<1> QED BY <1>1, <1>2, <1>3 DEF OutboxInv

LEMMA StartDrainInv == \A d \in Drains : OutboxInv /\ StartDrain(d) => OutboxInv'
<1> SUFFICES ASSUME NEW d \in Drains, OutboxInv, StartDrain(d) PROVE OutboxInv'
  OBVIOUS
<1>1. ServerInv' /\ docs' = docs
  BY ServerUnchanged DEF OutboxInv, StartDrain, serverVars
<1>2. BrowserTypeOK /\ DoneInv /\ CountInv
  BY DEF OutboxInv
<1> DEFINE seen == [k \in Keys |-> IF k \in Peek THEN retries[k] ELSE 0]
           r == [pc |-> "sent", user |-> session, seen |-> seen, done |-> {}, failed |-> Peek]
<1>3. seen \in [Keys -> 0 .. MaxRetries - 1] /\ \A k \in Keys : seen[k] <= failures[k]
  <2>1. \A k \in Keys : failures[k] \in Nat /\ retries[k] \in 0 .. MaxRetries - 1
    BY <1>2, Bounds DEF BrowserTypeOK
  <2> QED BY <1>2, <2>1, Bounds DEF CountInv
<1> HIDE DEF seen
<1>4. Peek \in SUBSET Keys
  BY <1>2 DEF Peek, BrowserTypeOK
<1>5. r \in Drain /\ r.done = {} /\ r.seen = seen
  BY <1>2, <1>3, <1>4 DEF Drain, BrowserTypeOK
<1>6. drain' = [drain EXCEPT ![d] = r]
  BY DEF StartDrain, seen
<1> HIDE DEF r
<1>7. drain' \in [Drains -> Drain] /\ \A e \in Drains : drain'[e] = IF e = d THEN r ELSE drain[e]
  BY <1>2, <1>5, <1>6, DrainSet
<1>8. \A e \in Drains : \A k \in drain'[e].done : docs'[k] # <<>>
  BY <1>1, <1>2, <1>5, <1>7 DEF DoneInv
<1>9. \A e \in Drains : \A k \in Keys : drain'[e].seen[k] <= failures[k]
  BY <1>2, <1>3, <1>5, <1>7 DEF CountInv
<1> QED BY <1>1, <1>7, <1>8, <1>9, DrainOnly DEF StartDrain

\* Sets, when the documents only grow and what is done is a document.
LEMMA SetsInv ==
    ASSUME OutboxInv, ServerInv',
           UNCHANGED <<session, owner, ui, request, queued, retries, gaveUp, failures>>,
           \A k \in Keys : docs[k] # <<>> => docs'[k] # <<>>,
           NEW d \in Drains, NEW pc \in {"applying", "retrying"}, NEW done \in SUBSET Keys,
           \A k \in done : docs'[k] # <<>>, Sets(d, pc, done)
    PROVE  OutboxInv'
<1>1. BrowserTypeOK /\ DoneInv /\ CountInv
  BY DEF OutboxInv
<1>2. /\ drain' \in [Drains -> Drain]
      /\ \A e \in Drains : drain'[e].seen = drain[e].seen
      /\ drain'[d].done = done
      /\ \A e \in Drains \ {d} : drain'[e].done = drain[e].done
  BY <1>1, SetsDrain
<1>3. \A e \in Drains : drain[e].done \in SUBSET Keys
  BY <1>1, DrainFields
<1>4. \A e \in Drains : \A k \in drain'[e].done : docs'[k] # <<>>
  BY <1>1, <1>2, <1>3 DEF DoneInv
<1>5. \A e \in Drains : \A k \in Keys : drain'[e].seen[k] <= failures[k]
  BY <1>1, <1>2 DEF CountInv
<1> QED BY <1>2, <1>4, <1>5, DrainOnly

LEMMA FetchFailsInv == \A d \in Drains : OutboxInv /\ FetchFails(d) => OutboxInv'
<1> SUFFICES ASSUME NEW d \in Drains, OutboxInv, FetchFails(d) PROVE OutboxInv'
  OBVIOUS
<1>1. ServerInv' /\ docs' = docs
  BY ServerUnchanged DEF OutboxInv, FetchFails, serverVars
<1>2. {} \in SUBSET Keys
  OBVIOUS
<1> QED BY <1>1, <1>2, SetsInv DEF FetchFails

LEMMA ServeReplayInv == \A d \in Drains : OutboxInv /\ ServeReplay(d) => OutboxInv'
<1> SUFFICES ASSUME NEW d \in Drains, OutboxInv, ServeReplay(d) PROVE OutboxInv'
  OBVIOUS
<1>1. ServerInv /\ BrowserTypeOK
  BY DEF OutboxInv
<1>2. Batch(d) \in SUBSET Keys
  BY <1>1, DrainFields DEF Batch
<1>3. PICK res \in [Batch(d) -> {"accepted", "deduped", "conflict", "insert_failed", "store_failed"}] :
         /\ Serve(session, Batch(d), "none", res)
         /\ \/ Sets(d, "applying", {k \in Batch(d) : res[k] \in {"accepted", "deduped"}})
            \/ Sets(d, "retrying", {})
  BY DEF ServeReplay
<1>4. PICK u \in Users : u = session
  BY OutboxAssumption DEF ServeReplay
<1>5. Serve(u, Batch(d), "none", res) /\ "none" \in Bodies
  BY <1>3, <1>4 DEF Bodies
<1>6. ServerInv' /\ \A k \in Keys : docs[k] # <<>> => docs'[k] # <<>>
  BY <1>1, <1>2, <1>5, ServeKeepsServer, ServeKey
<1>7. PICK done : done = {k \in Batch(d) : res[k] \in {"accepted", "deduped"}}
  OBVIOUS
<1>8. done \in SUBSET Keys /\ \A k \in done : docs'[k] # <<>>
  <2>1. \A k \in Keys : k \in Batch(d) /\ res[k] \in {"accepted", "deduped"} => docs'[k] # <<>>
    <3>1. PICK batch \in SUBSET Keys : batch = Batch(d)
      BY <1>2
    <3>2. Serve(u, batch, "none", res) /\ "none" \in Bodies
      BY <1>5, <3>1
    <3>3. \A k \in batch : res[k] = "accepted" \/ res[k] = "deduped" => docs'[k] # <<>>
      BY <1>1, <3>2, ServedIsDoc
    <3> QED BY <3>1, <3>3
  <2> QED BY <1>2, <1>7, <2>1
<1>9. CASE Sets(d, "applying", done)
  BY <1>6, <1>8, <1>9, SetsInv DEF ServeReplay
<1>10. CASE Sets(d, "retrying", {})
  <2>1. {} \in SUBSET Keys
    OBVIOUS
  <2> QED BY <1>6, <1>10, <2>1, SetsInv DEF ServeReplay
<1> QED BY <1>3, <1>7, <1>9, <1>10

LEMMA RemoveDoneInv == \A d \in Drains : OutboxInv /\ RemoveDone(d) => OutboxInv'
<1> SUFFICES ASSUME NEW d \in Drains, OutboxInv, RemoveDone(d) PROVE OutboxInv'
  OBVIOUS
<1>1. ServerInv' /\ docs' = docs
  BY ServerUnchanged DEF OutboxInv, RemoveDone, serverVars
<1>2. BrowserTypeOK /\ DoneInv /\ CountInv
  BY DEF OutboxInv
<1>3. drain[d].done \in SUBSET Keys /\ \A k \in drain[d].done : docs[k] # <<>>
  BY <1>2, DrainFields DEF DoneInv
<1>4. PICK done \in SUBSET Keys : done = drain[d].done
  BY <1>3
<1>5. Sets(d, "retrying", done)
  BY <1>4 DEF RemoveDone
<1>6. /\ drain' \in [Drains -> Drain]
      /\ \A e \in Drains : drain'[e].seen = drain[e].seen
      /\ drain'[d].done = done
      /\ \A e \in Drains \ {d} : drain'[e].done = drain[e].done
  BY <1>2, <1>5, SetsDrain
<1>7. BrowserTypeOK'
  BY <1>2, <1>6 DEF RemoveDone, BrowserTypeOK
<1>8. DoneInv'
  BY <1>1, <1>2, <1>4, <1>6 DEF DoneInv
<1>9. CountInv' /\ GivenUpAfterRetries'
  BY <1>6 DEF OutboxInv, CountInv, GivenUpAfterRetries, RemoveDone
<1>10. SavedAccounted'
  BY <1>1, <1>3 DEF OutboxInv, SavedAccounted, RemoveDone
<1> QED BY <1>1, <1>7, <1>8, <1>9, <1>10 DEF OutboxInv

LEMMA RetryInv == \A d \in Drains : OutboxInv /\ Retry(d) => OutboxInv'
<1> SUFFICES ASSUME NEW d \in Drains, OutboxInv, Retry(d) PROVE OutboxInv'
  OBVIOUS
<1>1. ServerInv' /\ docs' = docs
  BY ServerUnchanged DEF OutboxInv, Retry, serverVars
<1>2. BrowserTypeOK /\ DoneInv /\ CountInv
  BY DEF OutboxInv
<1>3. drain[d].failed \in SUBSET Keys /\ drain[d].seen \in [Keys -> 0 .. MaxRetries - 1]
  BY <1>2, DrainFields
<1>4. PICK failed \in SUBSET Keys : failed = drain[d].failed
  BY <1>3
<1>5. PICK over \in SUBSET Keys : over = {k \in failed : NextRetry(d, k) >= MaxRetries}
  OBVIOUS
<1>6. PICK back \in SUBSET Keys : back = failed \ over
  OBVIOUS
<1>7. /\ queued' = (queued \ over) \cup back
      /\ retries' = [k \in Keys |-> IF k \in back THEN NextRetry(d, k) ELSE retries[k]]
      /\ gaveUp' = gaveUp \cup over
      /\ failures' = [k \in Keys |-> IF k \in failed /\ failures[k] < MaxRetries
                                     THEN failures[k] + 1 ELSE failures[k]]
      /\ drain' = [drain EXCEPT ![d] = Idle]
      /\ UNCHANGED <<session, owner, ui, request>>
  BY <1>4, <1>5, <1>6 DEF Retry
<1>8. \A k \in Keys : /\ drain[d].seen[k] \in 0 .. MaxRetries - 1
                      /\ drain[d].seen[k] <= failures[k]
                      /\ failures[k] \in 0 .. MaxRetries
                      /\ retries[k] \in 0 .. MaxRetries - 1 /\ retries[k] <= failures[k]
                      /\ NextRetry(d, k) = drain[d].seen[k] + 1
  BY <1>2, <1>3 DEF BrowserTypeOK, CountInv, NextRetry
<1>9. \A k \in Keys : /\ failures'[k] \in 0 .. MaxRetries /\ failures[k] <= failures'[k]
                      /\ k \in failed => failures'[k] = MaxRetries \/ failures'[k] = failures[k] + 1
  <2> SUFFICES ASSUME NEW k \in Keys
               PROVE  /\ failures'[k] \in 0 .. MaxRetries /\ failures[k] <= failures'[k]
                      /\ k \in failed => failures'[k] = MaxRetries \/ failures'[k] = failures[k] + 1
    OBVIOUS
  <2>1. failures[k] \in 0 .. MaxRetries /\ MaxRetries \in Nat
    BY <1>8, Bounds
  <2>2. failures'[k] = IF k \in failed /\ failures[k] < MaxRetries
                       THEN failures[k] + 1 ELSE failures[k]
    BY <1>7
  <2> QED BY <2>1, <2>2
<1>10. \A k \in Keys : retries'[k] \in 0 .. MaxRetries - 1 /\ retries'[k] <= failures'[k]
  <2> SUFFICES ASSUME NEW k \in Keys
               PROVE  retries'[k] \in 0 .. MaxRetries - 1 /\ retries'[k] <= failures'[k]
    OBVIOUS
  <2>1. MaxRetries \in Nat
    BY Bounds
  <2>2. CASE k \in back
    <3>1. k \in failed /\ ~(NextRetry(d, k) >= MaxRetries)
      BY <1>5, <1>6, <2>2
    <3>2. retries'[k] = drain[d].seen[k] + 1
      BY <1>7, <1>8, <2>2
    <3> QED BY <1>8, <1>9, <2>1, <3>1, <3>2
  <2>3. CASE k \notin back
    <3>1. retries'[k] = retries[k]
      BY <1>7, <2>3
    <3> QED BY <1>8, <1>9, <2>1, <3>1
  <2> QED BY <2>2, <2>3
<1>11. drain' \in [Drains -> Drain] /\ \A e \in Drains : drain'[e] = IF e = d THEN Idle ELSE drain[e]
  BY <1>2, <1>7, IdleIsDrain, DrainSet
<1>12. BrowserTypeOK'
  <2>1. failures' \in [Keys -> 0 .. MaxRetries]
    BY <1>7, <1>9
  <2>2. retries' \in [Keys -> 0 .. MaxRetries - 1]
    BY <1>7, <1>10
  <2> QED BY <1>2, <1>7, <1>11, <2>1, <2>2 DEF BrowserTypeOK
<1>13. DoneInv'
  BY <1>1, <1>2, <1>11, IdleIsDrain DEF DoneInv
<1>14. CountInv'
  <2>1. \A e \in Drains : \A k \in Keys : drain'[e].seen[k] <= failures'[k]
    <3> SUFFICES ASSUME NEW e \in Drains, NEW k \in Keys PROVE drain'[e].seen[k] <= failures'[k]
      OBVIOUS
    <3>1. failures[k] \in Nat /\ failures'[k] \in Nat /\ failures[k] <= failures'[k]
      BY <1>8, <1>9, Bounds
    <3>2. CASE e = d
      <4>1. drain'[e].seen[k] = 0
        BY <1>11, <3>2, IdleIsDrain
      <4> QED BY <3>1, <4>1
    <3>3. CASE e # d
      <4>1. drain'[e] = drain[e] /\ drain[e].seen[k] <= failures[k]
        BY <1>2, <1>11, <3>3 DEF CountInv
      <4>2. drain[e].seen[k] \in Nat
        <5>1. drain[e].seen \in [Keys -> 0 .. MaxRetries - 1]
          BY <1>2, DrainFields
        <5> QED BY <5>1, Bounds
      <4> QED BY <3>1, <4>1, <4>2
    <3> QED BY <3>2, <3>3
  <2> QED BY <1>10, <2>1 DEF CountInv
<1>15. SavedAccounted'
  BY <1>1, <1>7 DEF OutboxInv, SavedAccounted
<1>16. GivenUpAfterRetries'
  <2> SUFFICES ASSUME NEW k \in gaveUp' PROVE failures'[k] = MaxRetries
    BY DEF GivenUpAfterRetries
  <2>1. k \in Keys
    BY <1>2, <1>7 DEF BrowserTypeOK
  <2>2. MaxRetries \in Nat
    BY Bounds
  <2>3. CASE k \in over
    <3>1. k \in failed /\ NextRetry(d, k) >= MaxRetries
      BY <1>5, <2>3
    <3> QED BY <1>8, <1>9, <2>1, <2>2, <3>1
  <2>4. CASE k \notin over
    <3>1. failures[k] = MaxRetries
      BY <1>7, <2>4 DEF OutboxInv, GivenUpAfterRetries
    <3> QED BY <1>9, <2>1, <2>2, <3>1
  <2> QED BY <2>3, <2>4
<1> QED BY <1>1, <1>12, <1>13, <1>14, <1>15, <1>16 DEF OutboxInv

LEMMA StopWorkerInv == OutboxInv /\ StopWorker => OutboxInv'
<1> SUFFICES ASSUME OutboxInv, StopWorker PROVE OutboxInv'
  OBVIOUS
<1>1. ServerInv' /\ docs' = docs
  BY ServerUnchanged DEF OutboxInv, StopWorker, serverVars
<1>2. drain' \in [Drains -> Drain] /\ \A e \in Drains : drain'[e] = Idle
  BY IdleIsDrain DEF StopWorker
<1>3. \A e \in Drains : \A k \in Keys : drain'[e].seen[k] <= failures[k]
  <2>1. \A k \in Keys : failures[k] \in Nat
    BY Bounds DEF OutboxInv, BrowserTypeOK
  <2> QED BY <1>2, <2>1, IdleIsDrain
<1>4. \A e \in Drains : \A k \in drain'[e].done : docs'[k] # <<>>
  BY <1>2, IdleIsDrain
<1> QED BY <1>1, <1>2, <1>3, <1>4, DrainOnly DEF StopWorker

LEMMA ServerStepInv ==
    OutboxInv /\ (PruneExpired \/ Midnight) /\ UNCHANGED browserVars => OutboxInv'
<1> SUFFICES ASSUME OutboxInv, PruneExpired \/ Midnight, UNCHANGED browserVars PROVE OutboxInv'
  OBVIOUS
<1>1. ServerInv' /\ docs' = docs
  BY PruneKeepsServer, MidnightKeepsServer DEF OutboxInv, PruneExpired, Midnight
<1>2. UNCHANGED <<session, owner, ui, request, queued, retries, drain, gaveUp, failures>>
  BY DEF browserVars
<1> QED BY <1>1, <1>2, DocsOnly DEF OutboxInv, BrowserTypeOK

-----------------------------------------------------------------------------
(* The specification.                                                      *)

LEMMA OutboxInvKept == OutboxInv /\ [Next]_vars => OutboxInv'
<1> SUFFICES ASSUME OutboxInv, [Next]_vars PROVE OutboxInv'
  OBVIOUS
<1>1. CASE ChangeSession
  BY <1>1, ChangeSessionInv
<1>2. ASSUME NEW k \in Keys, ConfirmUpload(k) \/ ServeUpload(k) \/ ReplyArrives(k) \/ NetworkError(k)
      PROVE  OutboxInv'
  BY <1>2, ConfirmUploadInv, ServeUploadInv, ReplyArrivesInv, NetworkErrorInv
<1>3. ASSUME NEW d \in Drains, StartDrain(d) \/ DrainStep(d)
      PROVE  OutboxInv'
  BY <1>3, StartDrainInv, FetchFailsInv, ServeReplayInv, RemoveDoneInv, RetryInv DEF DrainStep
<1>4. CASE StopWorker
  BY <1>4, StopWorkerInv
<1>5. CASE (PruneExpired \/ Midnight) /\ UNCHANGED browserVars
  BY <1>5, ServerStepInv
<1>6. CASE UNCHANGED vars
  <2>1. ServerInv' /\ docs' = docs
    BY <1>6, ServerUnchanged DEF vars, serverVars, OutboxInv
  <2>2. UNCHANGED <<session, owner, ui, request, queued, retries, drain, gaveUp, failures>>
    BY <1>6 DEF vars, browserVars
  <2> QED BY <2>1, <2>2, DocsOnly DEF OutboxInv, BrowserTypeOK
<1> QED BY <1>1, <1>2, <1>3, <1>4, <1>5, <1>6 DEF Next

THEOREM OutboxInvariant == Spec => []OutboxInv
<1> QED BY OutboxInitInv, OutboxInvKept, PTL DEF Spec

\* The variables have their types, and what waits in the outbox has a try left.
THEOREM OutboxTypeCorrect == Spec => []OutboxTypeOK
<1>1. OutboxInv => OutboxTypeOK
  BY DEF OutboxInv, ServerInv, BrowserTypeOK, OutboxTypeOK
<1> QED BY <1>1, OutboxInvariant, PTL

\* Two documents of one key and user, the first of them stored with its key,
\* are more than a day apart: services/idempotency.js behind both routes.
THEOREM KeysOncePerDay == Spec => []OncePerDay
<1>1. OutboxInv => OncePerDay
  BY DEF OutboxInv, ServerInv
<1> QED BY <1>1, OutboxInvariant, PTL

\* What the capture page showed as saved waits in the outbox, is a document or
\* was given up, for any number of drains that overlap or are stopped.
THEOREM SavedUploadsAccounted == Spec => []SavedAccounted
<1>1. OutboxInv => SavedAccounted
  BY DEF OutboxInv
<1> QED BY <1>1, OutboxInvariant, PTL

\* handleRetry gives an entry up only after all of its tries.
THEOREM GiveUpIsLast == Spec => []GivenUpAfterRetries
<1>1. OutboxInv => GivenUpAfterRetries
  BY DEF OutboxInv
<1> QED BY <1>1, OutboxInvariant, PTL
=============================================================================
